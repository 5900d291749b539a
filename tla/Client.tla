------------------------------- MODULE Client -------------------------------
(***************************************************************************)
(* The client facade as several application threads use it: opening and    *)
(* migrating the database, creating the identity, and starting, stopping   *)
(* and pairing over the engine's generations of listener tasks (client.rs, *)
(* relay_client/mod.rs, storage/schema.rs, identity.rs).                   *)
(*                                                                         *)
(* A step of a thread ends where it releases the locks it holds, where it  *)
(* commits a transaction, or where it waits.  A listener is seen only as   *)
(* far as stopping it goes: it waits, or it is inside the span from an     *)
(* accepted message to its ack, where it does not look at the signal.      *)
(***************************************************************************)
EXTENDS Integers, Sequences, FiniteSets

CONSTANTS
  Thread,        \* application threads that call the client
  Conv,          \* conversations they may pair
  SchemaVersion, \* the last migration
  MaxTasks       \* bound: listener tasks ever spawned

ASSUME ClientAssumption ==
  SchemaVersion \in Nat \ {0} /\ MaxTasks \in Nat

VARIABLES
  columns,    \* the migrations whose tables and columns the database has
  recorded,   \* the migrations schema_migrations lists
  identity,   \* whose keys each of the four identity tables holds
  rows,       \* the stored conversations, oldest first
  finished,   \* history: conversations whose pairing returned
  open,       \* "down", "migrate", "up", or "bricked": open failed
  step,       \* the migration the opening thread is at
  pc, arg,    \* each thread: where it is in its call, and on what
  listening,  \* Engine::listening
  live,       \* the generation in Engine::sync, 0 for none
  cancelled,  \* generations whose signal is set
  tasks,      \* every listener spawned: its conversation, generation and state
  whole,      \* history: threads whose start no stop has interrupted
  synced      \* history: such a start has returned, and no stop begun since

disk  == <<columns, recorded, identity, rows, finished>>
sync  == <<listening, live, cancelled, tasks>>
ghost == <<whole, synced>>
vars  == <<columns, recorded, identity, rows, finished, open, step, pc, arg, listening,
           live, cancelled, tasks, whole, synced>>

Tables == {"local_identity", "signed_prekeys", "kyber_prekeys", "prekeys"}
Nobody == "nobody"

\* The application meets the database of any earlier release, or none.
Init ==
  /\ \E v \in 0 .. SchemaVersion : columns = 1 .. v /\ recorded = 1 .. v
  /\ identity = [f \in Tables |-> Nobody]
  /\ rows = << >> /\ finished = {}
  /\ open = "down" /\ step = 0
  /\ pc = [t \in Thread |-> "idle"] /\ arg = [t \in Thread |-> << >>]
  /\ listening = {} /\ live = 0 /\ cancelled = {} /\ tasks = << >>
  /\ whole = {} /\ synced = FALSE

-----------------------------------------------------------------------------
(* Store::open and schema::migrate *)

\* COALESCE(MAX(version), 0), read once.
Current == IF recorded = {} THEN 0 ELSE CHOOSE v \in recorded : \A w \in recorded : w <= v

open_store ==
  /\ open = "down"
  /\ open' = "migrate" /\ step' = Current + 1
  /\ UNCHANGED <<disk, pc, arg, sync, ghost>>

\* Mutant: the version is noted once, after the last migration.
Noted_last(v) == IF v = SchemaVersion THEN 1 .. v ELSE recorded

Noted(v) == recorded \cup {v}

\* One migration and its record in one transaction.  DDL that has been applied
\* before fails, and so does the open.
migrate ==
  /\ open = "migrate" /\ step <= SchemaVersion
  /\ IF step \in columns
     THEN open' = "bricked" /\ UNCHANGED <<columns, recorded, step>>
     ELSE /\ columns' = columns \cup {step} /\ recorded' = Noted(step)
          /\ step' = step + 1 /\ UNCHANGED open
  /\ UNCHANGED <<identity, rows, finished, pc, arg, sync, ghost>>

open_done ==
  /\ open = "migrate" /\ step > SchemaVersion
  /\ open' = "up"
  /\ UNCHANGED <<disk, step, pc, arg, sync, ghost>>

\* Memory is lost; the disk stays.  A death with listeners running leaves the
\* same disk behind as one before the first of them.
kill ==
  /\ open # "down" /\ tasks = << >>
  /\ open' = "down" /\ step' = 0
  /\ pc' = [t \in Thread |-> "idle"] /\ arg' = [t \in Thread |-> << >>]
  /\ whole' = {} /\ synced' = FALSE
  /\ UNCHANGED <<disk, sync>>

Idle(t)     == open = "up" /\ pc[t] = "idle"
Goto(t, to) == pc' = [pc EXCEPT ![t] = to]
Hold(t, a)  == arg' = [arg EXCEPT ![t] = a]

-----------------------------------------------------------------------------
(* identity::initialize *)

\* is_initialized is asked before the keys are generated, in no transaction.
initialize(t) ==
  /\ Idle(t) /\ identity["local_identity"] = Nobody
  /\ Goto(t, "generate")
  /\ UNCHANGED <<disk, open, step, arg, sync, ghost>>

\* Mutant: rows that exist are replaced.
Inserted_over(t) == [f \in Tables |-> t]

\* Four inserts in one transaction; an id that exists fails it.
Inserted(t) == IF \A f \in Tables : identity[f] = Nobody
               THEN [f \in Tables |-> t] ELSE identity

initialize_commit(t) ==
  /\ pc[t] = "generate"
  /\ identity' = Inserted(t)
  /\ Goto(t, "idle")
  /\ UNCHANGED <<columns, recorded, rows, finished, open, step, arg, sync, ghost>>

-----------------------------------------------------------------------------
(* Engine::spawn_conversation and stop_sync *)

Fresh == Cardinality({tasks[k].gen : k \in DOMAIN tasks}) + 1

\* Mutant: every listener gets a generation of its own.
Generation_new(l) == Fresh

\* get_or_insert_with: the live generation, or a new one.
Generation(l) == IF l # 0 THEN l ELSE Fresh

\* Under the lock of `sync': nothing if the conversation is listened to.
spawn_conversation(c) ==
  IF c \in listening THEN UNCHANGED sync
  ELSE /\ Len(tasks) < MaxTasks
       /\ listening' = listening \cup {c}
       /\ live' = Generation(live)
       /\ tasks' = Append(tasks, [conv |-> c, gen |-> live', at |-> "wait"])
       /\ UNCHANGED cancelled

\* start_sync: the callbacks, then one spawn per stored conversation, newest
\* first, each taking the locks anew.
start_sync(t) ==
  /\ Idle(t)
  /\ Goto(t, "spawn") /\ Hold(t, rows)
  /\ whole' = whole \cup {t}
  /\ UNCHANGED <<disk, open, step, sync, synced>>

start_next(t) ==
  /\ pc[t] = "spawn" /\ arg[t] # << >>
  /\ spawn_conversation(arg[t][Len(arg[t])])
  /\ Hold(t, SubSeq(arg[t], 1, Len(arg[t]) - 1))
  /\ UNCHANGED <<disk, open, step, pc, ghost>>

start_done(t) ==
  /\ pc[t] = "spawn" /\ arg[t] = << >>
  /\ Goto(t, "idle")
  /\ synced' = (synced \/ t \in whole) /\ whole' = whole \ {t}
  /\ UNCHANGED <<disk, open, step, arg, sync>>

\* Mutant: the set is left as it is.
Cleared_not(s) == s

Cleared(s) == {}

\* The first half of stop_sync: forget the set and take the generation.
stop_sync(t) ==
  /\ Idle(t)
  /\ listening' = Cleared(listening) /\ live' = 0
  /\ IF live = 0 THEN UNCHANGED <<pc, arg>> ELSE Goto(t, "cancel") /\ Hold(t, live)
  /\ whole' = {} /\ synced' = FALSE
  /\ UNCHANGED <<disk, open, step, cancelled, tasks>>

\* Mutant: the signal is not sent.
Signalled_not(g) == cancelled

Signalled(g) == cancelled \cup {g}

stop_cancel(t) ==
  /\ pc[t] = "cancel"
  /\ cancelled' = Signalled(arg[t])
  /\ Goto(t, "join")
  /\ UNCHANGED <<disk, open, step, arg, listening, live, tasks, ghost>>

Running(k) == tasks[k].at \in {"wait", "span"}

stop_join(t) ==
  /\ pc[t] = "join"
  /\ \A k \in DOMAIN tasks : tasks[k].gen = arg[t] => ~Running(k)
  /\ Goto(t, "idle") /\ Hold(t, << >>)
  /\ UNCHANGED <<disk, open, step, sync, ghost>>

-----------------------------------------------------------------------------
(* Pairing, and the listener tasks *)

Stored == {rows[i] : i \in DOMAIN rows}

\* begin_pairing_from_offer stores the conversation long before it returns.
begin_pairing_from_offer(t, c) ==
  /\ Idle(t) /\ identity["local_identity"] # Nobody
  /\ c \notin Stored
  /\ rows' = Append(rows, c)
  /\ Goto(t, "pair") /\ Hold(t, <<c>>)
  /\ UNCHANGED <<columns, recorded, identity, finished, open, step, sync, ghost>>

pairing_done(t) ==
  /\ pc[t] = "pair"
  /\ spawn_conversation(arg[t][1])
  /\ finished' = finished \cup {arg[t][1]}
  /\ Goto(t, "idle") /\ Hold(t, << >>)
  /\ UNCHANGED <<columns, recorded, identity, rows, open, step, ghost>>

\* The error returns before the spawn, and the row stays.
pairing_failed(t) ==
  /\ pc[t] = "pair"
  /\ Goto(t, "idle") /\ Hold(t, << >>)
  /\ UNCHANGED <<disk, open, step, sync, ghost>>

Turn(k, from, to) ==
  /\ k \in DOMAIN tasks /\ tasks[k].at = from
  /\ tasks' = [tasks EXCEPT ![k].at = to]
  /\ UNCHANGED <<disk, open, step, pc, arg, listening, live, cancelled, ghost>>

\* A message is accepted; handled, persisted and acknowledged.
accept(k)      == Turn(k, "wait", "span")
acknowledge(k) == Turn(k, "span", "wait")

\* Every wait is raced against the signal.
observe_cancel(k) == Turn(k, "wait", "ended") /\ tasks[k].gen \in cancelled

\* Recovery is exhausted: the task ends and its conversation stays listed.
needs_repair(k) == Turn(k, "wait", "repair")

\* About to subscribe, the listener cannot read its conversation, or finds no
\* mailbox in it: it returns without a word, and the conversation stays listed.
unreadable(k) == Turn(k, "wait", "silent")

-----------------------------------------------------------------------------
Call(t) ==
  \/ initialize_commit(t) \/ start_next(t) \/ start_done(t)
  \/ stop_cancel(t) \/ stop_join(t) \/ pairing_done(t) \/ pairing_failed(t)

Next ==
  \/ open_store \/ migrate \/ open_done \/ kill
  \/ \E t \in Thread : initialize(t) \/ start_sync(t) \/ stop_sync(t) \/ Call(t)
  \/ \E t \in Thread, c \in Conv : begin_pairing_from_offer(t, c)
  \/ \E k \in 1 .. MaxTasks : accept(k) \/ acknowledge(k) \/ observe_cancel(k)
                                \/ needs_repair(k) \/ unreadable(k)

\* The stop's own steps run; a handler finishes; and select! polls its branches
\* in random order, so a listener that keeps accepting sees the signal.
Fairness ==
  /\ \A t \in Thread : WF_vars(stop_cancel(t) \/ stop_join(t))
  /\ \A k \in 1 .. MaxTasks : WF_vars(acknowledge(k)) /\ SF_vars(observe_cancel(k))

Spec == Init /\ [][Next]_vars /\ Fairness

-----------------------------------------------------------------------------
(* Properties *)

\* Every variable has its type; what a thread holds depends on its call.
TypeOK ==
  /\ columns \subseteq 1 .. SchemaVersion /\ recorded \subseteq 1 .. SchemaVersion
  /\ rows \in Seq(Conv)
  /\ open \in {"down", "migrate", "up", "bricked"}
  /\ pc \in [Thread -> {"idle", "generate", "spawn", "cancel", "join", "pair"}]
  /\ DOMAIN arg = Thread
  /\ \A t \in Thread : pc[t] \in {"spawn", "pair"} => arg[t] \in Seq(Conv)
  /\ \A t \in Thread : pc[t] = "pair" => Len(arg[t]) = 1
  /\ listening \subseteq Conv /\ live \in Nat
  /\ tasks \in Seq([conv : Conv, gen : Nat \ {0}, at : {"wait", "span", "ended", "repair", "silent"}])

\* A process that dies during a migration can always be opened again: what a
\* migration adds and the record of it are never apart (schema::migrate).
NeverBricked == open # "bricked"

\* Two threads that both find no identity create one between them: the four
\* tables hold the keys of the first to commit, for good (initialize).
OneIdentity ==
  [][/\ \A f, h \in Tables : identity'[f] = identity'[h]
     /\ \A f \in Tables : identity[f] # Nobody => identity'[f] = identity[f]]_vars

\* The joined stop: when every call has returned and sync is stopped, no
\* listener runs, however starts, stops and pairings overlapped (stop_sync).
StoppedIsQuiet ==
  live = 0 /\ (\A t \in Thread : pc[t] = "idle") => \A k \in DOMAIN tasks : ~Running(k)

\* After a start that no stop interrupted, each conversation whose pairing has
\* returned has exactly one task of the live generation that was not stopped:
\* it listens, or it returned by itself, its recovery exhausted or its row
\* unreadable.  Never a second listener, and none stopped and not replaced
\* (spawn_conversation, start_sync, stop_sync).
SyncedListens == synced => \A c \in finished :
  Cardinality({k \in DOMAIN tasks : tasks[k].conv = c /\ tasks[k].gen = live
                                      /\ tasks[k].at # "ended"}) = 1

\* "Why the joined stop cannot deadlock": a stop returns (stop_sync).
StopReturns == \A t \in Thread : pc[t] \in {"cancel", "join"} ~> pc[t] = "idle"
=============================================================================
