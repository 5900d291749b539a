---------------------------- MODULE ClientProofs ----------------------------
(***************************************************************************)
(* Opening a database, creating the identity and stopping the listeners:   *)
(* proofs for any number of threads, conversations, migrations and tasks.  *)
(***************************************************************************)
EXTENDS Client, FiniteSetTheorems, TLAPS

-----------------------------------------------------------------------------
(* The migrations *)

\* The database has the first n migrations, all of them recorded, and the
\* opening thread is at the next one.
Consecutive(n) ==
  /\ columns = 1 .. n /\ recorded = columns
  /\ open = "migrate" => step = n + 1
OpenInv == open # "bricked" /\ \E n \in 0 .. SchemaVersion : Consecutive(n)

\* The version that open reads is the number of migrations applied.
LEMMA CurrentIsLast ==
  ASSUME NEW n \in Nat, recorded = 1 .. n
  PROVE  Current = n
<1>1. CASE n = 0
  BY <1>1 DEF Current
<1>2. CASE n # 0
  <2>1. recorded # {} /\ n \in recorded /\ \A w \in recorded : w <= n
    BY <1>2
  <2>2. \A v \in recorded : (\A w \in recorded : w <= v) => v = n
    BY <2>1
  <2>3. QED
    BY Zenon, <2>1, <2>2 DEF Current
<1>3. QED
  BY Zenon, <1>1, <1>2

\* No step bricks the database: what a migration adds is recorded with it.
LEMMA OpenStep == OpenInv /\ [Next]_vars => OpenInv'
<1> SUFFICES ASSUME OpenInv, [Next]_vars PROVE OpenInv'
  BY Zenon
<1> USE ClientAssumption
<1>1. PICK n \in 0 .. SchemaVersion : Consecutive(n)
  BY Zenon DEF OpenInv
<1>2. CASE open_store
  <2>1. Current = n
    BY <1>1, CurrentIsLast DEF Consecutive
  <2>2. Consecutive(n)' /\ open' # "bricked"
    BY Zenon, <1>1, <1>2, <2>1 DEF Consecutive, open_store, disk
  <2>3. QED
    BY Zenon, <2>2 DEF OpenInv
<1>3. CASE migrate
  <2>1. step = n + 1 /\ step \notin columns /\ n + 1 \in 0 .. SchemaVersion
    BY <1>1, <1>3 DEF Consecutive, migrate
  <2>2. columns' = columns \cup {n + 1} /\ recorded' = recorded \cup {n + 1}
        /\ step' = n + 2 /\ open' = open
    BY <1>3, <2>1 DEF migrate, Noted
  <2>3. (1 .. n) \cup {n + 1} = 1 .. n + 1
    OBVIOUS
  <2>4. Consecutive(n + 1)'
    BY <1>1, <2>2, <2>3 DEF Consecutive
  <2>5. QED
    BY Zenon, <2>1, <2>2, <2>4 DEF OpenInv
<1>4. CASE open_done \/ kill
  <2>1. Consecutive(n)' /\ open' # "bricked"
    BY Zenon, <1>1, <1>4 DEF Consecutive, open_done, kill, disk
  <2>2. QED
    BY Zenon, <2>1 DEF OpenInv
<1>5. ASSUME UNCHANGED <<columns, recorded, open, step>> PROVE OpenInv'
  BY Zenon, <1>5 DEF OpenInv, Consecutive
<1>6. CASE UNCHANGED vars
  BY Zenon, <1>5, <1>6 DEF vars
<1>7. ASSUME NEW t \in Thread, initialize(t) \/ start_sync(t) \/ stop_sync(t) \/ Call(t)
      PROVE  UNCHANGED <<columns, recorded, open, step>>
  BY Zenon, <1>7 DEF Call, initialize, start_sync, stop_sync, initialize_commit, start_next,
              start_done, stop_cancel, stop_join, pairing_done, pairing_failed, disk
<1>8. ASSUME NEW t \in Thread, NEW c \in Conv, begin_pairing_from_offer(t, c)
      PROVE  UNCHANGED <<columns, recorded, open, step>>
  BY Zenon, <1>8 DEF begin_pairing_from_offer
<1>9. ASSUME NEW k \in 1 .. MaxTasks,
             accept(k) \/ acknowledge(k) \/ observe_cancel(k) \/ needs_repair(k) \/ unreadable(k)
      PROVE  UNCHANGED <<columns, recorded, open, step>>
  BY Zenon, <1>9 DEF accept, acknowledge, observe_cancel, needs_repair, unreadable, Turn, disk
<1>10. QED
  BY Zenon, <1>2, <1>3, <1>4, <1>5, <1>6, <1>7, <1>8, <1>9 DEF Next

\* However often the process dies while it migrates, and from whatever release
\* it started, the database can be opened again.
THEOREM OpensCorrect == Spec => []NeverBricked
<1>1. Init => OpenInv
  <2> SUFFICES ASSUME Init PROVE OpenInv
    BY Zenon
  <2>1. PICK v \in 0 .. SchemaVersion : columns = 1 .. v /\ recorded = 1 .. v
    BY Zenon DEF Init
  <2>2. QED
    BY Zenon, <2>1 DEF Init, OpenInv, Consecutive
<1>2. OpenInv => NeverBricked
  BY Zenon DEF OpenInv, NeverBricked
<1>3. QED
  BY <1>1, <1>2, OpenStep, PTL DEF Spec

-----------------------------------------------------------------------------
(* The identity *)

SameOwner == \A f, h \in Tables : identity[f] = identity[h]

\* The identity changes at one step only, the first commit, and as a whole.
LEMMA IdentityStep ==
  SameOwner /\ [Next]_vars =>
    SameOwner' /\ \A f \in Tables : identity[f] # Nobody => identity'[f] = identity[f]
<1> SUFFICES ASSUME SameOwner, [Next]_vars
             PROVE  SameOwner' /\ \A f \in Tables : identity[f] # Nobody => identity'[f] = identity[f]
  BY Zenon
<1>1. ASSUME NEW t \in Thread, initialize_commit(t)
      PROVE  SameOwner' /\ \A f \in Tables : identity[f] # Nobody => identity'[f] = identity[f]
  BY Zenon, <1>1 DEF initialize_commit, Inserted, SameOwner
<1>2. ASSUME UNCHANGED identity
      PROVE  SameOwner' /\ \A f \in Tables : identity[f] # Nobody => identity'[f] = identity[f]
  BY Zenon, <1>2 DEF SameOwner
<1>3. CASE open_store \/ migrate \/ open_done \/ kill \/ UNCHANGED vars
  BY Zenon, <1>2, <1>3 DEF open_store, migrate, open_done, kill, disk, vars
<1>4. ASSUME NEW t \in Thread,
             initialize(t) \/ start_sync(t) \/ stop_sync(t) \/ (Call(t) /\ ~initialize_commit(t))
      PROVE  UNCHANGED identity
  BY Zenon, <1>4 DEF Call, initialize, start_sync, stop_sync, start_next, start_done, stop_cancel,
              stop_join, pairing_done, pairing_failed, disk
<1>5. ASSUME NEW t \in Thread, NEW c \in Conv, begin_pairing_from_offer(t, c)
      PROVE  UNCHANGED identity
  BY Zenon, <1>5 DEF begin_pairing_from_offer
<1>6. ASSUME NEW k \in 1 .. MaxTasks,
             accept(k) \/ acknowledge(k) \/ observe_cancel(k) \/ needs_repair(k) \/ unreadable(k)
      PROVE  UNCHANGED identity
  BY Zenon, <1>6 DEF accept, acknowledge, observe_cancel, needs_repair, unreadable, Turn, disk
<1>7. QED
  BY Zenon, <1>1, <1>2, <1>3, <1>4, <1>5, <1>6 DEF Next

\* Any number of threads that race to create the identity create one, and its
\* keys never change.
THEOREM IdentityCorrect == Spec => OneIdentity
<1>1. Init => SameOwner
  BY DEF Init, SameOwner
<1>2. SameOwner /\ [Next]_vars => SameOwner'
  BY Zenon, IdentityStep
<1>3. SameOwner /\ [Next]_vars =>
        [/\ \A f, h \in Tables : identity'[f] = identity'[h]
         /\ \A f \in Tables : identity[f] # Nobody => identity'[f] = identity[f]]_vars
  BY Zenon, IdentityStep DEF SameOwner
<1>4. QED
  BY <1>1, <1>2, <1>3, PTL DEF Spec, OneIdentity

-----------------------------------------------------------------------------
(* The joined stop *)

\* Listener k runs in the live generation, or a stop that took its generation
\* is still waiting for it.
Held(k) == \E t \in Thread : pc[t] \in {"cancel", "join"} /\ arg[t] = tasks[k].gen
Accounted == \A k \in DOMAIN tasks : Running(k) => tasks[k].gen = live \/ Held(k)
QuietInv == OpenInv /\ TypeOK /\ Accounted

\* The task record.
Task == [conv : Conv, gen : Nat \ {0}, at : {"wait", "span", "ended", "repair", "silent"}]

\* A generation that is made anew has a number other than 0.
LEMMA FreshPositive ==
  ASSUME TypeOK
  PROVE  Fresh \in Nat \ {0}
<1>1. Len(tasks) \in Nat /\ DOMAIN tasks = 1 .. Len(tasks)
  BY DEF TypeOK
<1>2. IsFiniteSet(DOMAIN tasks)
  BY <1>1, FS_Interval
<1>3. IsFiniteSet({tasks[k].gen : k \in DOMAIN tasks})
  <2> DEFINE S == DOMAIN tasks
             T == {tasks[k].gen : k \in S}
             f == [k \in S |-> tasks[k].gen]
  <2>1. f \in [S -> T] /\ \A g \in T : \E k \in S : f[k] = g
    BY Zenon
  <2> HIDE DEF f, T
  <2>2. f \in Surjection(S, T)
    BY Zenon, <2>1 DEF Surjection
  <2>3. IsFiniteSet(T)
    BY Zenon, <1>2, <2>2, FS_Surjection
  <2>4. QED
    BY Zenon, <2>3 DEF T
<1>4. Cardinality({tasks[k].gen : k \in DOMAIN tasks}) \in Nat
  BY Zenon, <1>3, FS_CardinalityType
<1>5. QED
  BY <1>4 DEF Fresh

\* What a spawn does to the tasks, whichever call makes it.
LEMMA SpawnKeeps ==
  ASSUME TypeOK, Accounted, NEW c \in Conv, spawn_conversation(c)
  PROVE  /\ listening' \subseteq Conv /\ live' \in Nat /\ tasks' \in Seq(Task)
         /\ \A k \in DOMAIN tasks' :
              tasks'[k].at \in {"wait", "span"} =>
                tasks'[k].gen = live' \/ (k \in DOMAIN tasks /\ tasks'[k] = tasks[k] /\ Held(k))
<1>1. CASE c \in listening
  <2>1. UNCHANGED <<listening, live, cancelled, tasks>>
    BY Zenon, <1>1 DEF spawn_conversation, sync
  <2>2. QED
    BY Zenon, <2>1 DEF TypeOK, Task, Accounted, Running
<1>2. CASE c \notin listening
  <2> DEFINE new == [conv |-> c, gen |-> live', at |-> "wait"]
  <2>1. /\ listening' = listening \cup {c} /\ live' = Generation(live)
        /\ tasks' = Append(tasks, new)
    BY Zenon, <1>2 DEF spawn_conversation
  <2>2. live' \in Nat \ {0} /\ (live # 0 => live' = live)
    BY Zenon, <2>1, FreshPositive DEF Generation, TypeOK
  <2>3. tasks \in Seq(Task) /\ new \in Task
    BY Zenon, <2>2 DEF TypeOK, Task
  <2> HIDE DEF new
  <2>4. /\ tasks' \in Seq(Task) /\ DOMAIN tasks' = 1 .. Len(tasks) + 1
        /\ DOMAIN tasks = 1 .. Len(tasks) /\ Len(tasks) \in Nat
        /\ \A k \in 1 .. Len(tasks) : tasks'[k] = tasks[k]
        /\ tasks'[Len(tasks) + 1] = new
    BY <2>1, <2>3
  <2>5. ASSUME NEW k \in DOMAIN tasks', tasks'[k].at \in {"wait", "span"}
        PROVE  tasks'[k].gen = live' \/ (k \in DOMAIN tasks /\ tasks'[k] = tasks[k] /\ Held(k))
    <3>1. CASE k = Len(tasks) + 1
      BY <2>4, <3>1 DEF new
    <3>2. CASE k \in DOMAIN tasks
      <4>1. tasks'[k] = tasks[k] /\ Running(k) /\ tasks[k].gen # 0
        <5>1. tasks'[k] = tasks[k] /\ tasks[k] \in Task
          BY <2>3, <2>4, <3>2
        <5>2. QED
          BY Zenon, <2>5, <5>1 DEF Running, Task
      <4>2. tasks[k].gen = live \/ Held(k)
        BY Zenon, <3>2, <4>1 DEF Accounted
      <4>3. QED
        BY Zenon, <2>2, <3>2, <4>1, <4>2
    <3>3. QED
      BY <2>4, <3>1, <3>2
  <2>6. QED
    BY Zenon, <2>1, <2>2, <2>4, <2>5 DEF TypeOK
<1>3. QED
  BY Zenon, <1>1, <1>2

\* The types of the variables that the joined stop is about.
SyncTypes ==
  /\ rows \in Seq(Conv)
  /\ pc \in [Thread -> {"idle", "generate", "spawn", "cancel", "join", "pair"}]
  /\ DOMAIN arg = Thread
  /\ \A t \in Thread : pc[t] \in {"spawn", "pair"} => arg[t] \in Seq(Conv)
  /\ \A t \in Thread : pc[t] = "pair" => Len(arg[t]) = 1
  /\ listening \subseteq Conv /\ live \in Nat
  /\ tasks \in Seq(Task)

\* Every step keeps the types, and keeps track of every running listener: a
\* stop leaves with a generation only after the listeners in it have ended.
LEMMA QuietStep == QuietInv /\ [Next]_vars => QuietInv'
<1> SUFFICES ASSUME OpenInv, TypeOK, Accounted, [Next]_vars PROVE QuietInv'
  BY Zenon DEF QuietInv
<1> USE ClientAssumption
<1>0. SyncTypes
  BY Zenon DEF TypeOK, SyncTypes, Task
<1>1. ASSUME UNCHANGED <<rows, pc, arg, listening, live, tasks>>
      PROVE  SyncTypes' /\ Accounted'
  BY Zenon, <1>0, <1>1 DEF SyncTypes, Accounted, Held, Running
<1>2. ASSUME open_store \/ migrate \/ open_done \/ UNCHANGED vars
      PROVE  SyncTypes' /\ Accounted'
  BY Zenon, <1>1, <1>2 DEF open_store, migrate, open_done, disk, sync, vars
<1>3. ASSUME kill
      PROVE  SyncTypes' /\ Accounted'
  <2>1. /\ UNCHANGED <<rows, listening, live, tasks>> /\ tasks = << >>
        /\ pc' = [t \in Thread |-> "idle"] /\ arg' = [t \in Thread |-> << >>]
    BY Zenon, <1>3 DEF kill, disk, sync
  <2>2. DOMAIN tasks = {}
    BY <2>1
  <2>3. QED
    BY Zenon, <1>0, <2>1, <2>2 DEF SyncTypes, Accounted
<1>4. ASSUME NEW t \in Thread, initialize(t) \/ initialize_commit(t) \/ start_done(t)
      PROVE  SyncTypes' /\ Accounted'
  <2>1. /\ UNCHANGED <<rows, arg, listening, live, tasks>>
        /\ pc[t] \in {"idle", "generate", "spawn"}
        /\ pc' = [pc EXCEPT ![t] = "generate"] \/ pc' = [pc EXCEPT ![t] = "idle"]
    BY Zenon, <1>4 DEF initialize, initialize_commit, start_done, Goto, Idle, disk, sync
  <2>2. SyncTypes'
    BY Zenon, <1>0, <2>1 DEF SyncTypes
  <2>3. Accounted'
    BY Zenon, <1>0, <2>1 DEF SyncTypes, Accounted, Held, Running
  <2>4. QED
    BY Zenon, <2>2, <2>3
<1>5. ASSUME NEW t \in Thread, start_sync(t)
      PROVE  SyncTypes' /\ Accounted'
  <2>1. /\ UNCHANGED <<rows, listening, live, tasks>> /\ pc[t] = "idle"
        /\ pc' = [pc EXCEPT ![t] = "spawn"] /\ arg' = [arg EXCEPT ![t] = rows]
    BY Zenon, <1>5 DEF start_sync, Goto, Hold, Idle, disk, sync
  <2>2. SyncTypes'
    BY Zenon, <1>0, <2>1 DEF SyncTypes
  <2>3. Accounted'
    BY Zenon, <1>0, <2>1 DEF SyncTypes, Accounted, Held, Running
  <2>4. QED
    BY Zenon, <2>2, <2>3
<1>6. ASSUME NEW t \in Thread, NEW c \in Conv, begin_pairing_from_offer(t, c)
      PROVE  SyncTypes' /\ Accounted'
  <2>1. /\ UNCHANGED <<listening, live, tasks>> /\ pc[t] = "idle" /\ rows' = Append(rows, c)
        /\ pc' = [pc EXCEPT ![t] = "pair"] /\ arg' = [arg EXCEPT ![t] = <<c>>]
    BY Zenon, <1>6 DEF begin_pairing_from_offer, Goto, Hold, Idle, sync
  <2>2. SyncTypes'
    BY <1>0, <2>1 DEF SyncTypes
  <2>3. Accounted'
    BY Zenon, <1>0, <2>1 DEF SyncTypes, Accounted, Held, Running
  <2>4. QED
    BY Zenon, <2>2, <2>3
<1>7. ASSUME NEW t \in Thread, start_next(t)
      PROVE  SyncTypes' /\ Accounted'
  <2> DEFINE c == arg[t][Len(arg[t])]
             rest == SubSeq(arg[t], 1, Len(arg[t]) - 1)
  <2>1. /\ UNCHANGED <<rows, pc>> /\ pc[t] = "spawn" /\ arg[t] # << >>
        /\ spawn_conversation(c) /\ arg' = [arg EXCEPT ![t] = rest]
    BY Zenon, <1>7 DEF start_next, Hold, disk
  <2>2. c \in Conv /\ rest \in Seq(Conv)
    BY <1>0, <2>1 DEF SyncTypes
  <2> HIDE DEF c, rest
  <2>3. SyncTypes'
    BY Zenon, <1>0, <2>1, <2>2, SpawnKeeps DEF SyncTypes
  <2>4. \A k \in DOMAIN tasks : Held(k) /\ tasks'[k] = tasks[k] => Held(k)'
    BY Zenon, <1>0, <2>1 DEF SyncTypes, Held
  <2>5. Accounted'
    BY Zenon, <2>1, <2>2, <2>4, SpawnKeeps DEF Accounted, Running
  <2>6. QED
    BY Zenon, <2>3, <2>5
<1>8. ASSUME NEW t \in Thread, pairing_done(t)
      PROVE  SyncTypes' /\ Accounted'
  <2> DEFINE c == arg[t][1]
  <2>1. /\ UNCHANGED rows /\ pc[t] = "pair" /\ spawn_conversation(c)
        /\ pc' = [pc EXCEPT ![t] = "idle"] /\ arg' = [arg EXCEPT ![t] = << >>]
    BY Zenon, <1>8 DEF pairing_done, Goto, Hold
  <2>2. c \in Conv
    BY <1>0, <2>1 DEF SyncTypes
  <2> HIDE DEF c
  <2>3. SyncTypes'
    BY Zenon, <1>0, <2>1, <2>2, SpawnKeeps DEF SyncTypes
  <2>4. \A k \in DOMAIN tasks : Held(k) /\ tasks'[k] = tasks[k] => Held(k)'
    BY Zenon, <1>0, <2>1 DEF SyncTypes, Held
  <2>5. Accounted'
    BY Zenon, <2>1, <2>2, <2>4, SpawnKeeps DEF Accounted, Running
  <2>6. QED
    BY Zenon, <2>3, <2>5
<1>9. ASSUME NEW t \in Thread, pairing_failed(t)
      PROVE  SyncTypes' /\ Accounted'
  <2>1. /\ UNCHANGED <<rows, listening, live, tasks>> /\ pc[t] = "pair"
        /\ pc' = [pc EXCEPT ![t] = "idle"] /\ arg' = [arg EXCEPT ![t] = << >>]
    BY Zenon, <1>9 DEF pairing_failed, Goto, Hold, disk, sync
  <2>2. SyncTypes'
    BY Zenon, <1>0, <2>1 DEF SyncTypes
  <2>3. Accounted'
    BY Zenon, <1>0, <2>1 DEF SyncTypes, Accounted, Held, Running
  <2>4. QED
    BY Zenon, <2>2, <2>3
<1>10. ASSUME NEW t \in Thread, stop_sync(t)
       PROVE  SyncTypes' /\ Accounted'
  <2>1. /\ UNCHANGED <<rows, tasks>> /\ pc[t] = "idle" /\ live' = 0 /\ listening' = {}
    BY Zenon, <1>10 DEF stop_sync, Cleared, Idle, disk
  <2>2. CASE live = 0
    <3>1. UNCHANGED <<pc, arg>>
      BY Zenon, <1>10, <2>2 DEF stop_sync
    <3>2. QED
      BY Zenon, <1>0, <2>1, <2>2, <3>1 DEF SyncTypes, Accounted, Held, Running
  <2>3. CASE live # 0
    <3>1. pc' = [pc EXCEPT ![t] = "cancel"] /\ arg' = [arg EXCEPT ![t] = live]
      BY Zenon, <1>10, <2>3 DEF stop_sync, Goto, Hold
    <3>2. SyncTypes'
      BY Zenon, <1>0, <2>1, <3>1 DEF SyncTypes
    <3>3. Accounted'
      BY Zenon, <1>0, <2>1, <3>1 DEF SyncTypes, Accounted, Held, Running
    <3>4. QED
      BY Zenon, <3>2, <3>3
  <2>4. QED
    BY Zenon, <2>2, <2>3
<1>11. ASSUME NEW t \in Thread, stop_cancel(t)
       PROVE  SyncTypes' /\ Accounted'
  <2>1. /\ UNCHANGED <<rows, arg, listening, live, tasks>> /\ pc[t] = "cancel"
        /\ pc' = [pc EXCEPT ![t] = "join"]
    BY Zenon, <1>11 DEF stop_cancel, Goto, disk
  <2>2. QED
    BY Zenon, <1>0, <2>1 DEF SyncTypes, Accounted, Held, Running
<1>12. ASSUME NEW t \in Thread, stop_join(t)
       PROVE  SyncTypes' /\ Accounted'
  <2>1. /\ UNCHANGED <<rows, listening, live, tasks>> /\ pc[t] = "join"
        /\ pc' = [pc EXCEPT ![t] = "idle"] /\ arg' = [arg EXCEPT ![t] = << >>]
        /\ \A k \in DOMAIN tasks : tasks[k].gen = arg[t] => ~Running(k)
    BY Zenon, <1>12 DEF stop_join, Goto, Hold, disk, sync
  <2>2. SyncTypes'
    BY Zenon, <1>0, <2>1 DEF SyncTypes
  <2>3. ASSUME NEW k \in DOMAIN tasks, Running(k), Held(k) PROVE Held(k)'
    BY Zenon, <1>0, <2>1, <2>3 DEF SyncTypes, Held
  <2>4. Accounted'
    BY Zenon, <2>1, <2>3 DEF Accounted, Running
  <2>5. QED
    BY Zenon, <2>2, <2>4
<1>13. ASSUME NEW k \in 1 .. MaxTasks,
              accept(k) \/ acknowledge(k) \/ observe_cancel(k) \/ needs_repair(k) \/ unreadable(k)
       PROVE  SyncTypes' /\ Accounted'
  <2>1. PICK from \in {"wait", "span"}, to \in {"wait", "span", "ended", "repair", "silent"} :
          Turn(k, from, to)
    BY Zenon, <1>13 DEF accept, acknowledge, observe_cancel, needs_repair, unreadable
  <2>2. /\ UNCHANGED <<rows, pc, arg, listening, live>>
        /\ k \in DOMAIN tasks /\ tasks[k].at = from
        /\ tasks' = [tasks EXCEPT ![k].at = to]
    BY Zenon, <2>1 DEF Turn, disk
  <2>3. tasks \in Seq(Task) /\ tasks[k] \in Task
    BY <1>0, <2>2 DEF SyncTypes
  <2>4. [tasks[k] EXCEPT !.at = to] \in Task /\ [tasks[k] EXCEPT !.at = to].gen = tasks[k].gen
    BY Zenon, <2>3 DEF Task
  <2>5. /\ tasks' \in Seq(Task) /\ DOMAIN tasks' = DOMAIN tasks
        /\ \A j \in DOMAIN tasks : j # k => tasks'[j] = tasks[j]
        /\ tasks'[k].gen = tasks[k].gen
    <3> DEFINE e == [tasks[k] EXCEPT !.at = to]
    <3>1. tasks' = [tasks EXCEPT ![k] = e]
      BY Zenon, <2>2
    <3>2. e \in Task /\ e.gen = tasks[k].gen
      BY Zenon, <2>4
    <3> HIDE DEF e
    <3>3. QED
      BY <2>2, <2>3, <3>1, <3>2
  <2>6. SyncTypes'
    BY Zenon, <1>0, <2>2, <2>5 DEF SyncTypes
  <2>7. \A j \in DOMAIN tasks : Running(j)' => Running(j)
    BY Zenon, <2>2, <2>5 DEF Running
  <2>8. \A j \in DOMAIN tasks : tasks'[j].gen = tasks[j].gen
    BY Zenon, <2>5
  <2>9. Accounted'
    BY <2>2, <2>5, <2>7, <2>8 DEF Accounted, Held
  <2>10. QED
    BY Zenon, <2>6, <2>9
<1>14. SyncTypes' /\ Accounted'
  BY Zenon, <1>2, <1>3, <1>4, <1>5, <1>6, <1>7, <1>8, <1>9, <1>10, <1>11, <1>12, <1>13 DEF Next,
     Call
<1>15. OpenInv'
  BY Zenon, OpenStep
<1>16. TypeOK'
  <2>1. columns' \subseteq 1 .. SchemaVersion /\ recorded' \subseteq 1 .. SchemaVersion
    BY <1>15 DEF OpenInv, Consecutive
  <2>2. open' \in {"down", "migrate", "up", "bricked"}
    <3>1. open' \in {"down", "migrate", "up", "bricked"} \/ open' = open
      BY Zenon DEF Next, vars, Call, open_store, migrate, open_done, kill, initialize, start_sync,
             stop_sync, initialize_commit, start_next, start_done, stop_cancel, stop_join,
             pairing_done, pairing_failed, begin_pairing_from_offer, accept, acknowledge,
             observe_cancel, needs_repair, unreadable, Turn
    <3>2. QED
      BY Zenon, <3>1 DEF TypeOK
  <2>3. QED
    BY Zenon, <1>14, <2>1, <2>2 DEF TypeOK, SyncTypes, Task
<1>17. QED
  BY Zenon, <1>14, <1>15, <1>16 DEF QuietInv

LEMMA QuietStarts ==
  ASSUME Init
  PROVE  QuietInv
<1>1. PICK v \in 0 .. SchemaVersion : columns = 1 .. v /\ recorded = 1 .. v
  BY Zenon DEF Init
<1>2. OpenInv
  BY Zenon, <1>1 DEF Init, OpenInv, Consecutive
<1>3. TypeOK
  BY <1>1, ClientAssumption DEF Init, TypeOK
<1>4. Accounted
  BY DEF Init, Accounted
<1>5. QED
  BY Zenon, <1>2, <1>3, <1>4 DEF QuietInv

\* However starts, stops and pairings overlap: when all calls have returned and
\* sync is stopped, no listener runs.
THEOREM QuietCorrect == Spec => []StoppedIsQuiet
<1>1. Init => QuietInv
  BY Zenon, QuietStarts
<1>2. QuietInv => StoppedIsQuiet
  <2> SUFFICES ASSUME TypeOK, Accounted, live = 0, \A t \in Thread : pc[t] = "idle",
                      NEW k \in DOMAIN tasks
               PROVE  ~Running(k)
    BY Zenon DEF QuietInv, StoppedIsQuiet
  <2>1. tasks[k].gen # 0
    <3>1. tasks \in Seq(Task)
      BY Zenon DEF TypeOK, Task
    <3>2. tasks[k] \in Task
      BY <3>1
    <3>3. QED
      BY Zenon, <3>2 DEF Task
  <2>2. ~Held(k)
    BY Zenon DEF Held
  <2>3. QED
    BY Zenon, <2>1, <2>2 DEF Accounted
<1>3. QED
  BY <1>1, <1>2, QuietStep, PTL DEF Spec


-----------------------------------------------------------------------------
(* Who listens *)

\* The generations so far are numbered through; none that a stop has taken or
\* cancelled is the live one.
Gens == {tasks[k].gen : k \in DOMAIN tasks}
Numbered(n) == Gens = 1 .. n /\ live \in 0 .. n /\ cancelled \subseteq (1 .. n) \ {live}
Taken(n) == \A t \in Thread : pc[t] \in {"cancel", "join"} => arg[t] \in (1 .. n) \ {live}
Numbers == \E n \in Nat : Numbered(n) /\ Taken(n)

\* The set `listening' and the tasks of the live generation agree.
Serving(k, c) == tasks[k].conv = c /\ tasks[k].gen = live /\ tasks[k].at # "ended"
Listed ==
  /\ \A c \in listening : \E k \in DOMAIN tasks : Serving(k, c)
  /\ \A k \in DOMAIN tasks : tasks[k].gen = live => tasks[k].conv \in listening
  /\ \A j, k \in DOMAIN tasks :
       tasks[j].gen = live /\ tasks[k].gen = live /\ tasks[j].conv = tasks[k].conv => j = k

\* A start that no stop interrupts has listed, or has still to list, every
\* conversation whose pairing has returned.
Todo(t) == {arg[t][i] : i \in DOMAIN arg[t]}
Covered ==
  /\ finished \subseteq Stored
  /\ \A t \in Thread : pc[t] = "pair" => arg[t][1] \in Stored
  /\ synced => finished \subseteq listening
  /\ \A t \in whole : /\ t \in Thread /\ pc[t] = "spawn"
                      /\ finished \subseteq listening \cup Todo(t)
ListenInv == QuietInv /\ Numbers /\ Listed /\ Covered

\* The number of a new generation is the next one.
LEMMA FreshNext ==
  ASSUME NEW n \in Nat, Numbered(n)
  PROVE  Fresh = n + 1
<1>1. Cardinality(1 .. n) = n
  BY FS_Interval
<1>2. QED
  BY Zenon, <1>1 DEF Fresh, Numbered, Gens

\* A task is in a generation from 1 on.
LEMMA TaskGen ==
  ASSUME NEW n \in Nat, Numbered(n), NEW k \in DOMAIN tasks
  PROVE  tasks[k].gen \in 1 .. n
BY Zenon DEF Numbered, Gens

\* A spawn leaves its conversation listed and served once.
LEMMA SpawnServes ==
  ASSUME TypeOK, NEW n \in Nat, Numbered(n), Listed, NEW c \in Conv, spawn_conversation(c)
  PROVE  /\ c \in listening' /\ listening \subseteq listening' /\ Listed'
         /\ \E m \in Nat : Numbered(m)' /\ (1 .. n) \ {live} \subseteq (1 .. m) \ {live'}
<1>1. CASE c \in listening
  <2>1. listening' = listening /\ live' = live /\ cancelled' = cancelled /\ tasks' = tasks
    BY Zenon, <1>1 DEF spawn_conversation, sync
  <2>2. Listed' /\ Numbered(n)'
    <3>1. Listed'
      BY ZenonT(60), <2>1 DEF Listed, Serving
    <3>2. Numbered(n)'
      BY Zenon, <2>1 DEF Numbered, Gens
    <3>3. QED
      BY Zenon, <3>1, <3>2
  <2>3. QED
    BY Zenon, <1>1, <2>1, <2>2
<1>2. CASE c \notin listening
  <2>1. PICK g, new : /\ g = live' /\ new = [conv |-> c, gen |-> g, at |-> "wait"]
                      /\ listening' = listening \cup {c} /\ g = Generation(live)
                      /\ cancelled' = cancelled /\ tasks' = Append(tasks, new)
    BY Zenon, <1>2 DEF spawn_conversation
  <2>2. live \in 0 .. n /\ g = IF live # 0 THEN live ELSE n + 1
    BY Zenon, <2>1, FreshNext DEF Generation, Numbered
  <2>3. PICK q \in Seq(Task), z \in Nat : q = tasks /\ z = Len(q) /\ DOMAIN q = 1 .. z
    BY DEF TypeOK, Task
  <2>4. /\ DOMAIN tasks' = 1 .. z + 1 /\ tasks'[z + 1] = new
        /\ \A k \in 1 .. z : tasks'[k] = tasks[k]
    <3>1. g \in Nat \ {0}
      BY <2>2
    <3>2. new \in Task
      BY Zenon, <2>1, <3>1 DEF Task
    <3>3. /\ DOMAIN Append(q, new) = 1 .. Len(q) + 1 /\ Append(q, new)[Len(q) + 1] = new
          /\ \A k \in 1 .. Len(q) : Append(q, new)[k] = q[k]
      BY <3>2
    <3>4. QED
      BY Zenon, <2>1, <2>3, <3>3
  <2>5. /\ DOMAIN tasks' = DOMAIN tasks \cup {z + 1} /\ z + 1 \notin DOMAIN tasks
        /\ \A k \in DOMAIN tasks : tasks'[k] = tasks[k]
    BY <2>3, <2>4
  <2>6. new.conv = c /\ new.gen = g /\ new.at = "wait"
    BY Zenon, <2>1
  <2>7. \A k \in DOMAIN tasks : tasks[k].gen = g => live = g
    <3>1. \A k \in DOMAIN tasks : tasks[k].gen \in 1 .. n
      BY Zenon, TaskGen
    <3>2. QED
      BY <2>2, <3>1
  <2>8. live # g => listening = {}
    <3>1. live # g => live = 0
      BY Zenon, <2>2
    <3>2. live = 0 => \A k \in DOMAIN tasks : tasks[k].gen # live
      BY TaskGen
    <3>3. QED
      BY Zenon, <3>1, <3>2 DEF Listed, Serving
  <2>9. Listed'
    <3>1. ASSUME NEW d \in listening' PROVE \E k \in DOMAIN tasks' : Serving(k, d)'
      <4>1. CASE d = c
        <5>1. "wait" # "ended"
          BY Zenon
        <5>2. Serving(z + 1, c)'
          BY Zenon, <2>1, <2>4, <2>6, <5>1 DEF Serving
        <5>3. QED
          BY Zenon, <2>5, <4>1, <5>2
      <4>2. CASE d # c
        <5>1. d \in listening /\ live = live'
          BY Zenon, <2>1, <2>8, <3>1, <4>2
        <5>2. PICK k \in DOMAIN tasks : Serving(k, d)
          BY Zenon, <5>1 DEF Listed
        <5>3. Serving(k, d)'
          BY Zenon, <2>5, <5>1, <5>2 DEF Serving
        <5>4. QED
          BY Zenon, <2>5, <5>3
      <4>3. QED
        BY Zenon, <4>1, <4>2
    <3>2. ASSUME NEW k \in DOMAIN tasks', tasks'[k].gen = live'
          PROVE  /\ tasks'[k].conv \in listening'
                 /\ k # z + 1 => tasks'[k].conv # c
      <4>1. CASE k = z + 1
        BY Zenon, <2>1, <2>4, <2>6, <4>1
      <4>2. CASE k \in DOMAIN tasks
        <5>1. tasks[k].gen = live /\ tasks'[k].conv = tasks[k].conv
          BY Zenon, <2>1, <2>5, <2>7, <3>2, <4>2
        <5>2. QED
          BY Zenon, <1>2, <2>1, <4>2, <5>1 DEF Listed
      <4>3. QED
        BY Zenon, <2>5, <4>1, <4>2
    <3>3. ASSUME NEW j \in DOMAIN tasks', NEW k \in DOMAIN tasks', tasks'[j].gen = live',
                 tasks'[k].gen = live', tasks'[j].conv = tasks'[k].conv
          PROVE  j = k
      <4>1. CASE j = z + 1 \/ k = z + 1
        BY Zenon, <2>4, <2>6, <3>2, <3>3, <4>1
      <4>2. CASE j \in DOMAIN tasks /\ k \in DOMAIN tasks
        BY Zenon, <2>1, <2>5, <2>7, <3>3, <4>2 DEF Listed
      <4>3. QED
        BY Zenon, <2>5, <4>1, <4>2
    <3>4. QED
      BY Zenon, <3>1, <3>2, <3>3 DEF Listed
  <2>10. Gens' = Gens \cup {g}
    <3>1. ASSUME NEW i \in Gens' PROVE i \in Gens \cup {g}
      <4>1. PICK k \in DOMAIN tasks' : i = tasks'[k].gen
        BY Zenon DEF Gens
      <4>2. QED
        BY Zenon, <2>4, <2>5, <2>6, <4>1 DEF Gens
    <3>2. Gens \subseteq Gens'
      BY Zenon, <2>5 DEF Gens
    <3>3. z + 1 \in DOMAIN tasks' /\ tasks'[z + 1].gen = g
      BY Zenon, <2>4, <2>5, <2>6
    <3>4. g \in Gens'
      BY Zenon, <3>3 DEF Gens
    <3>5. QED
      BY Zenon, <3>1, <3>2, <3>4
  <2>11. Gens = 1 .. n /\ cancelled \subseteq (1 .. n) \ {live}
    BY Zenon DEF Numbered
  <2>12. CASE live # 0
    <3>1. g = live /\ live' = live /\ live \in 1 .. n
      BY <2>1, <2>2, <2>12
    <3>2. Gens' = 1 .. n
      BY Zenon, <2>10, <2>11, <3>1
    <3>3. Numbered(n)'
      BY Zenon, <2>1, <2>2, <2>11, <3>1, <3>2 DEF Numbered
    <3>4. QED
      BY Zenon, <2>1, <2>9, <3>1, <3>3
  <2>13. CASE live = 0
    <3>1. g = n + 1 /\ live' = n + 1
      BY Zenon, <2>1, <2>2, <2>13
    <3>2. 1 .. n + 1 = (1 .. n) \cup {n + 1} /\ n + 1 \in 0 .. n + 1 /\ n + 1 \in Nat
          /\ \A i \in 1 .. n : i # n + 1
      OBVIOUS
    <3>3. Numbered(n + 1)'
      BY Zenon, <2>1, <2>10, <2>11, <3>1, <3>2 DEF Numbered
    <3>4. (1 .. n) \ {live} \subseteq (1 .. n + 1) \ {live'}
      BY Zenon, <3>1, <3>2
    <3>5. QED
      BY Zenon, <2>1, <2>9, <3>2, <3>3, <3>4
  <2>14. QED
    BY Zenon, <2>12, <2>13
<1>3. QED
  BY Zenon, <1>1, <1>2


\* A step that leaves the engine alone, or adds to what is cancelled.
LEMMA EngineStays ==
  ASSUME NEW n \in Nat, Numbered(n), Taken(n), Listed,
         listening' = listening, live' = live, tasks' = tasks,
         cancelled' \subseteq (1 .. n) \ {live},
         \A t \in Thread : pc'[t] \in {"cancel", "join"} =>
           pc[t] \in {"cancel", "join"} /\ arg'[t] = arg[t]
  PROVE  Numbered(n)' /\ Taken(n)' /\ Listed'
<1>1. Listed'
  BY Zenon DEF Listed, Serving
<1>2. Gens' = Gens
  BY Zenon DEF Gens
<1>3. Numbered(n)' /\ Taken(n)'
  BY Zenon, <1>2 DEF Numbered, Taken
<1>4. QED
  BY Zenon, <1>1, <1>3

LEMMA EngineStep ==
  ASSUME TypeOK, Numbers, Listed, Next
  PROVE  Numbers' /\ Listed'
<1>1. PICK n \in Nat : Numbered(n) /\ Taken(n)
  BY Zenon DEF Numbers
<1>2. cancelled \subseteq (1 .. n) \ {live}
  BY Zenon, <1>1 DEF Numbered
<1>3. \A t \in Thread : pc[t] \in {"idle", "generate", "spawn", "cancel", "join", "pair"}
  BY Zenon DEF TypeOK
<1>4. DOMAIN pc = Thread /\ DOMAIN arg = Thread
  BY Zenon DEF TypeOK
<1>5. CASE open_store \/ migrate \/ open_done
  <2>1. listening' = listening /\ live' = live /\ tasks' = tasks /\ cancelled' = cancelled
        /\ pc' = pc /\ arg' = arg
    BY Zenon, <1>5 DEF open_store, migrate, open_done, sync
  <2>2. QED
    BY Zenon, <1>1, <1>2, <2>1, EngineStays DEF Numbers
<1>6. CASE kill
  <2>1. listening' = listening /\ live' = live /\ tasks' = tasks /\ cancelled' = cancelled
        /\ pc' = [t \in Thread |-> "idle"]
    BY Zenon, <1>6 DEF kill, sync
  <2>2. "idle" \notin {"cancel", "join"}
    BY Zenon
  <2>3. \A t \in Thread : pc'[t] \notin {"cancel", "join"}
    BY Zenon, <2>1, <2>2
  <2>4. QED
    BY Zenon, <1>1, <1>2, <2>1, <2>3, EngineStays DEF Numbers
<1>7. ASSUME NEW t \in Thread, NEW to \in {"generate", "spawn", "pair", "idle"},
             listening' = listening, live' = live, tasks' = tasks, cancelled' = cancelled,
             pc' = [pc EXCEPT ![t] = to], \A u \in Thread : u # t => arg'[u] = arg[u]
      PROVE  Numbers' /\ Listed'
  <2>1. to \notin {"cancel", "join"}
    BY Zenon
  <2>2. \A u \in Thread : pc'[u] \in {"cancel", "join"} =>
          pc[u] \in {"cancel", "join"} /\ arg'[u] = arg[u]
    BY Zenon, <1>4, <1>7, <2>1
  <2>3. QED
    BY Zenon, <1>1, <1>2, <1>7, <2>2, EngineStays DEF Numbers
<1>8. ASSUME NEW t \in Thread, \/ initialize(t) \/ start_sync(t) \/ initialize_commit(t)
                               \/ start_done(t) \/ stop_join(t) \/ pairing_failed(t)
      PROVE  Numbers' /\ Listed'
  <2>1. listening' = listening /\ live' = live /\ tasks' = tasks /\ cancelled' = cancelled
    BY Zenon, <1>8 DEF initialize, start_sync, initialize_commit, start_done, stop_join,
       pairing_failed, sync
  <2>2. /\ \E to \in {"generate", "spawn", "pair", "idle"} : pc' = [pc EXCEPT ![t] = to]
        /\ arg' = arg \/ \E a : arg' = [arg EXCEPT ![t] = a]
    BY Zenon, <1>8 DEF initialize, start_sync, initialize_commit, start_done, stop_join,
       pairing_failed, Goto, Hold
  <2>3. \A u \in Thread : u # t => arg'[u] = arg[u]
    BY Zenon, <1>4, <2>2
  <2>4. QED
    BY Zenon, <1>7, <2>1, <2>2, <2>3
<1>9. ASSUME NEW t \in Thread, NEW c \in Conv, begin_pairing_from_offer(t, c)
      PROVE  Numbers' /\ Listed'
  <2>1. /\ listening' = listening /\ live' = live /\ tasks' = tasks /\ cancelled' = cancelled
        /\ pc' = [pc EXCEPT ![t] = "pair"] /\ arg' = [arg EXCEPT ![t] = <<c>>]
    BY Zenon, <1>9 DEF begin_pairing_from_offer, Goto, Hold, sync
  <2>2. \A u \in Thread : u # t => arg'[u] = arg[u]
    BY Zenon, <1>4, <2>1
  <2>3. QED
    BY Zenon, <1>7, <2>1, <2>2
<1>10. ASSUME NEW t \in Thread, start_next(t) \/ pairing_done(t)
       PROVE  Numbers' /\ Listed'
  <2>1. PICK c \in Conv : spawn_conversation(c)
    <3>1. CASE start_next(t)
      <4>1. arg[t] \in Seq(Conv) /\ arg[t] # << >>
        BY Zenon, <3>1 DEF start_next, TypeOK
      <4>2. arg[t][Len(arg[t])] \in Conv
        BY <4>1
      <4>3. QED
        BY Zenon, <3>1, <4>2 DEF start_next
    <3>2. CASE pairing_done(t)
      <4>1. arg[t] \in Seq(Conv) /\ Len(arg[t]) = 1
        BY Zenon, <3>2 DEF pairing_done, TypeOK
      <4>2. arg[t][1] \in Conv
        BY <4>1
      <4>3. QED
        BY Zenon, <3>2, <4>2 DEF pairing_done
    <3>3. QED
      BY Zenon, <1>10, <3>1, <3>2
  <2>2. PICK m \in Nat : Numbered(m)' /\ (1 .. n) \ {live} \subseteq (1 .. m) \ {live'}
    BY Zenon, <1>1, <2>1, SpawnServes
  <2>3. pc[t] \notin {"cancel", "join"} /\ pc'[t] \notin {"cancel", "join"}
        /\ \A u \in Thread : u # t => pc'[u] = pc[u] /\ arg'[u] = arg[u]
    <3>1. pc[t] \in {"spawn", "pair"} /\ (pc' = pc \/ pc' = [pc EXCEPT ![t] = "idle"])
          /\ \E a : arg' = [arg EXCEPT ![t] = a]
      BY Zenon, <1>10 DEF start_next, pairing_done, Goto, Hold
    <3>2. "idle" \notin {"cancel", "join"} /\ pc[t] \notin {"cancel", "join"}
      BY Zenon, <3>1
    <3>3. QED
      BY Zenon, <1>4, <3>1, <3>2
  <2>4. Taken(m)'
    BY Zenon, <1>1, <2>2, <2>3 DEF Taken
  <2>5. QED
    BY Zenon, <1>1, <2>1, <2>2, <2>4, SpawnServes DEF Numbers
<1>11. ASSUME NEW t \in Thread, stop_sync(t)
       PROVE  Numbers' /\ Listed'
  <2>1. listening' = {} /\ live' = 0 /\ cancelled' = cancelled /\ tasks' = tasks
    BY Zenon, <1>11 DEF stop_sync, Cleared
  <2>2. \A k \in DOMAIN tasks : tasks[k].gen # 0
    BY <1>1, TaskGen
  <2>3. Listed'
    BY Zenon, <2>1, <2>2 DEF Listed
  <2>4. Gens' = Gens
    BY Zenon, <2>1 DEF Gens
  <2>5. 0 \in 0 .. n /\ (1 .. n) \ {0} = 1 .. n
    OBVIOUS
  <2>6. Numbered(n)'
    BY Zenon, <1>1, <2>1, <2>4, <2>5 DEF Numbered
  <2>7. live # 0 => live \in 1 .. n
    BY <1>1 DEF Numbered
  <2>8. \A u \in Thread : pc'[u] \in {"cancel", "join"} => arg'[u] \in 1 .. n
    <3>1. CASE live = 0
      <4>1. pc' = pc /\ arg' = arg
        BY Zenon, <1>11, <3>1 DEF stop_sync
      <4>2. QED
        BY Zenon, <1>1, <4>1 DEF Taken
    <3>2. CASE live # 0
      <4>1. pc' = [pc EXCEPT ![t] = "cancel"] /\ arg' = [arg EXCEPT ![t] = live]
        BY Zenon, <1>11, <3>2 DEF stop_sync, Goto, Hold
      <4>2. QED
        BY Zenon, <1>1, <1>4, <2>7, <3>2, <4>1 DEF Taken
    <3>3. QED
      BY Zenon, <3>1, <3>2
  <2>9. Taken(n)'
    BY Zenon, <2>1, <2>5, <2>8 DEF Taken
  <2>10. QED
    BY Zenon, <2>3, <2>6, <2>9 DEF Numbers
<1>12. ASSUME NEW t \in Thread, stop_cancel(t)
       PROVE  Numbers' /\ Listed'
  <2>1. /\ listening' = listening /\ live' = live /\ tasks' = tasks /\ arg' = arg
        /\ cancelled' = cancelled \cup {arg[t]} /\ pc[t] = "cancel"
        /\ pc' = [pc EXCEPT ![t] = "join"]
    BY Zenon, <1>12 DEF stop_cancel, Signalled, Goto
  <2>2. pc[t] \in {"cancel", "join"}
    BY Zenon, <2>1
  <2>3. cancelled' \subseteq (1 .. n) \ {live}
    BY Zenon, <1>1, <1>2, <2>1, <2>2 DEF Taken
  <2>4. \A u \in Thread : pc'[u] \in {"cancel", "join"} =>
          pc[u] \in {"cancel", "join"} /\ arg'[u] = arg[u]
    BY Zenon, <1>4, <2>1, <2>2
  <2>5. QED
    BY Zenon, <1>1, <2>1, <2>3, <2>4, EngineStays DEF Numbers
<1>13. ASSUME NEW k \in 1 .. MaxTasks,
              accept(k) \/ acknowledge(k) \/ observe_cancel(k) \/ needs_repair(k) \/ unreadable(k)
       PROVE  Numbers' /\ Listed'
  <2>1. PICK from, to : Turn(k, from, to) /\ (to = "ended" => tasks[k].gen \in cancelled)
    <3>1. "span" # "ended" /\ "wait" # "ended" /\ "repair" # "ended" /\ "silent" # "ended"
      BY Zenon
    <3>2. QED
      BY Zenon, <1>13, <3>1 DEF accept, acknowledge, observe_cancel, needs_repair, unreadable
  <2>2. /\ listening' = listening /\ live' = live /\ cancelled' = cancelled
        /\ pc' = pc /\ arg' = arg /\ k \in DOMAIN tasks
        /\ tasks' = [tasks EXCEPT ![k].at = to]
    BY Zenon, <2>1 DEF Turn
  <2>3. tasks[k] \in Task
    <3>1. tasks \in Seq(Task)
      BY Zenon DEF TypeOK, Task
    <3>2. QED
      BY <2>2, <3>1
  <2>4. /\ DOMAIN tasks' = DOMAIN tasks
        /\ \A j \in DOMAIN tasks : j # k => tasks'[j] = tasks[j]
        /\ tasks'[k] = [tasks[k] EXCEPT !.at = to]
    BY Zenon, <2>2
  <2>5. \A r \in Task : /\ [r EXCEPT !.at = to].gen = r.gen
                        /\ [r EXCEPT !.at = to].conv = r.conv /\ [r EXCEPT !.at = to].at = to
    BY Zenon DEF Task
  <2>6. /\ \A j \in DOMAIN tasks : tasks'[j].gen = tasks[j].gen /\ tasks'[j].conv = tasks[j].conv
        /\ tasks'[k].at = to
    <3>1. PICK r \in Task : r = tasks[k]
      BY Zenon, <2>3
    <3>2. tasks'[k].gen = r.gen /\ tasks'[k].conv = r.conv /\ tasks'[k].at = to
      BY Zenon, <2>4, <2>5, <3>1
    <3>3. QED
      BY Zenon, <2>4, <3>1, <3>2
  <2>7. \A j \in DOMAIN tasks : \A c : Serving(j, c) => Serving(j, c)'
    BY Zenon, <1>2, <2>1, <2>2, <2>4, <2>6 DEF Serving
  <2>8. Listed'
    <3>1. \A c \in listening' : \E j \in DOMAIN tasks' : Serving(j, c)'
      BY Zenon, <2>2, <2>4, <2>7 DEF Listed
    <3>2. ASSUME NEW j \in DOMAIN tasks', tasks'[j].gen = live'
          PROVE  tasks'[j].conv \in listening'
      <4>1. j \in DOMAIN tasks /\ tasks[j].gen = live /\ tasks'[j].conv = tasks[j].conv
        BY Zenon, <2>2, <2>4, <2>6, <3>2
      <4>2. \A i \in DOMAIN tasks : tasks[i].gen = live => tasks[i].conv \in listening
        BY Zenon DEF Listed
      <4>3. listening' = listening
        BY Zenon, <2>2
      <4>4. tasks[j].conv \in listening
        BY Zenon, <4>1, <4>2
      <4>5. QED
        BY Zenon, <4>1, <4>3, <4>4
    <3>3. ASSUME NEW i \in DOMAIN tasks', NEW j \in DOMAIN tasks', tasks'[i].gen = live',
                 tasks'[j].gen = live', tasks'[i].conv = tasks'[j].conv
          PROVE  i = j
      <4>1. i \in DOMAIN tasks /\ j \in DOMAIN tasks
        BY Zenon, <2>4
      <4>2. tasks[i].gen = live /\ tasks[j].gen = live /\ tasks[i].conv = tasks[j].conv
        BY Zenon, <2>2, <2>6, <3>3, <4>1
      <4>3. QED
        BY Zenon, <4>1, <4>2 DEF Listed
    <3>4. QED
      BY Zenon, <3>1, <3>2, <3>3 DEF Listed
  <2>9. Gens' = Gens
    BY Zenon, <2>4, <2>6 DEF Gens
  <2>10. Numbered(n)' /\ Taken(n)'
    BY Zenon, <1>1, <2>2, <2>9 DEF Numbered, Taken
  <2>11. QED
    BY Zenon, <2>8, <2>10 DEF Numbers
<1>14. QED
  BY Zenon, <1>5, <1>6, <1>8, <1>9, <1>10, <1>11, <1>12, <1>13 DEF Next, Call


\* A step in which no start is due to list anything more.
LEMMA CoverStays ==
  ASSUME Covered, finished' = finished, Stored \subseteq Stored', listening \subseteq listening',
         synced' => synced, whole' \subseteq whole,
         \A t \in Thread : pc'[t] = "pair" =>
           (pc[t] = "pair" /\ arg'[t] = arg[t]) \/ arg'[t][1] \in Stored',
         \A t \in whole' : pc'[t] = pc[t] /\ arg'[t] = arg[t]
  PROVE  Covered'
<1>1. finished' \subseteq Stored'
  BY Zenon DEF Covered
<1>2. \A t \in Thread : pc'[t] = "pair" => arg'[t][1] \in Stored'
  BY Zenon DEF Covered
<1>3. synced' => finished' \subseteq listening'
  BY Zenon DEF Covered
<1>4. ASSUME NEW t \in whole'
      PROVE  t \in Thread /\ pc'[t] = "spawn" /\ finished' \subseteq listening' \cup Todo(t)'
  <2>1. Todo(t)' = Todo(t)
    BY Zenon, <1>4 DEF Todo
  <2>2. QED
    BY Zenon, <1>4, <2>1 DEF Covered
<1>5. QED
  BY Zenon, <1>1, <1>2, <1>3, <1>4 DEF Covered


LEMMA CoverStep ==
  ASSUME TypeOK, Numbers, Listed, Covered, Next
  PROVE  Covered'
<1>1. DOMAIN pc = Thread /\ DOMAIN arg = Thread
  BY Zenon DEF TypeOK
<1>2. \A t \in whole : t \in Thread /\ pc[t] = "spawn"
  BY Zenon DEF Covered
<1>3. ASSUME NEW c \in Conv, spawn_conversation(c)
      PROVE  c \in listening' /\ listening \subseteq listening'
  BY Zenon, <1>3, SpawnServes DEF Numbers
<1>4. CASE \/ open_store \/ migrate \/ open_done
           \/ \E k \in 1 .. MaxTasks : \/ accept(k) \/ acknowledge(k)
                                       \/ observe_cancel(k) \/ needs_repair(k) \/ unreadable(k)
  <2>1. rows' = rows /\ finished' = finished /\ listening' = listening /\ pc' = pc /\ arg' = arg
        /\ whole' = whole /\ synced' = synced
    BY Zenon, <1>4 DEF open_store, migrate, open_done, accept, acknowledge, observe_cancel,
       needs_repair, unreadable, Turn, disk, sync, ghost
  <2>2. Stored' = Stored
    BY Zenon, <2>1 DEF Stored
  <2>3. QED
    BY Zenon, <2>1, <2>2, CoverStays
<1>5. CASE kill
  <2>1. rows' = rows /\ finished' = finished /\ listening' = listening
        /\ pc' = [t \in Thread |-> "idle"] /\ whole' = {} /\ ~synced'
    BY Zenon, <1>5 DEF kill, disk, sync
  <2>2. Stored' = Stored /\ "idle" # "pair"
    BY Zenon, <2>1 DEF Stored
  <2>3. \A t \in Thread : pc'[t] # "pair"
    BY Zenon, <2>1, <2>2
  <2>4. QED
    BY Zenon, <2>1, <2>2, <2>3, CoverStays
<1>6. ASSUME NEW t \in Thread, \/ initialize(t) \/ initialize_commit(t) \/ stop_cancel(t)
                               \/ stop_join(t) \/ pairing_failed(t)
      PROVE  Covered'
  <2>1. rows' = rows /\ finished' = finished /\ listening' = listening /\ whole' = whole
        /\ synced' = synced
    BY Zenon, <1>6 DEF initialize, initialize_commit, stop_cancel, stop_join, pairing_failed,
       disk, sync, ghost
  <2>2. /\ \E to \in {"generate", "idle", "join"} : pc' = [pc EXCEPT ![t] = to]
        /\ arg' = arg \/ \E a : arg' = [arg EXCEPT ![t] = a]
        /\ pc[t] \in {"idle", "generate", "cancel", "join", "pair"}
    BY Zenon, <1>6 DEF initialize, initialize_commit, stop_cancel, stop_join, pairing_failed,
       Goto, Hold, Idle
  <2>3. Stored' = Stored
    BY Zenon, <2>1 DEF Stored
  <2>4. pc[t] # "spawn" /\ \A to \in {"generate", "idle", "join"} : to # "pair"
    BY Zenon, <2>2
  <2>5. pc'[t] # "pair" /\ t \notin whole
        /\ \A u \in Thread : u # t => pc'[u] = pc[u] /\ arg'[u] = arg[u]
    BY Zenon, <1>1, <1>2, <2>2, <2>4
  <2>6. QED
    BY Zenon, <1>2, <2>1, <2>3, <2>5, CoverStays
<1>7. ASSUME NEW t \in Thread, start_sync(t)
      PROVE  Covered'
  <2>1. /\ rows' = rows /\ finished' = finished /\ listening' = listening /\ synced' = synced
        /\ whole' = whole \cup {t} /\ pc[t] = "idle"
        /\ pc' = [pc EXCEPT ![t] = "spawn"] /\ arg' = [arg EXCEPT ![t] = rows]
    BY Zenon, <1>7 DEF start_sync, Goto, Hold, Idle, disk, sync
  <2>2. Stored' = Stored /\ Todo(t)' = Stored
    BY Zenon, <1>1, <2>1 DEF Stored, Todo
  <2>3. "idle" # "spawn" /\ "spawn" # "pair"
    BY Zenon
  <2>4. pc'[t] = "spawn" /\ \A u \in Thread : u # t => pc'[u] = pc[u] /\ arg'[u] = arg[u]
    BY Zenon, <1>1, <2>1
  <2>5. ASSUME NEW u \in whole'
        PROVE  u \in Thread /\ pc'[u] = "spawn" /\ finished' \subseteq listening' \cup Todo(u)'
    <3>1. CASE u = t
      BY Zenon, <2>1, <2>2, <2>4, <3>1 DEF Covered
    <3>2. CASE u # t
      <4>1. u \in whole /\ pc'[u] = pc[u] /\ arg'[u] = arg[u] /\ u \in Thread
        BY Zenon, <1>2, <2>1, <2>4, <2>5, <3>2
      <4>2. Todo(u)' = Todo(u)
        BY Zenon, <4>1 DEF Todo
      <4>3. QED
        BY Zenon, <2>1, <4>1, <4>2 DEF Covered
    <3>3. QED
      BY Zenon, <3>1, <3>2
  <2>6. \A u \in Thread : pc'[u] = "pair" => arg'[u][1] \in Stored'
    BY Zenon, <2>2, <2>3, <2>4 DEF Covered
  <2>7. QED
    BY Zenon, <2>1, <2>2, <2>5, <2>6 DEF Covered
<1>8. ASSUME NEW t \in Thread, start_next(t)
      PROVE  Covered'
  <2>1. PICK q \in Seq(Conv) : q = arg[t] /\ q # << >>
    BY Zenon, <1>8 DEF start_next, TypeOK
  <2> DEFINE c == q[Len(q)]
             rest == SubSeq(q, 1, Len(q) - 1)
  <2>2. /\ rows' = rows /\ finished' = finished /\ whole' = whole /\ synced' = synced /\ pc' = pc
        /\ spawn_conversation(c) /\ arg' = [arg EXCEPT ![t] = rest] /\ pc[t] = "spawn"
    BY Zenon, <1>8, <2>1 DEF start_next, Hold, disk, ghost
  <2>3. c \in Conv /\ \A i \in DOMAIN q : q[i] = c \/ \E j \in DOMAIN rest : rest[j] = q[i]
    <3>1. /\ Len(q) \in Nat \ {0} /\ DOMAIN q = 1 .. Len(q) /\ c \in Conv
          /\ DOMAIN rest = 1 .. Len(q) - 1 /\ \A i \in 1 .. Len(q) - 1 : rest[i] = q[i]
      BY <2>1
    <3>2. \A m \in Nat \ {0} : \A i \in 1 .. m : i = m \/ i \in 1 .. m - 1
      OBVIOUS
    <3>3. \A i \in 1 .. Len(q) : i = Len(q) \/ i \in 1 .. Len(q) - 1
      BY Zenon, <3>1, <3>2
    <3>4. QED
      BY Zenon, <3>1, <3>3
  <2> HIDE DEF c, rest
  <2>4. c \in listening' /\ listening \subseteq listening' /\ Stored' = Stored
    BY Zenon, <1>3, <2>2, <2>3 DEF Stored
  <2>5. arg'[t] = rest /\ \A u \in Thread : u # t => arg'[u] = arg[u]
    BY Zenon, <1>1, <2>2
  <2>6. ASSUME NEW u \in whole'
        PROVE  u \in Thread /\ pc'[u] = "spawn" /\ finished' \subseteq listening' \cup Todo(u)'
    <3>1. u \in whole /\ u \in Thread /\ pc'[u] = "spawn"
          /\ finished' \subseteq listening \cup Todo(u)
      BY Zenon, <2>2, <2>6 DEF Covered
    <3>2. Todo(u) \subseteq Todo(u)' \cup {c}
      <4>1. CASE u = t
        <5>1. Todo(t)' = {rest[i] : i \in DOMAIN rest} /\ Todo(t) = {q[i] : i \in DOMAIN q}
          BY Zenon, <2>1, <2>5 DEF Todo
        <5>2. {q[i] : i \in DOMAIN q} \subseteq {rest[i] : i \in DOMAIN rest} \cup {c}
          BY Zenon, <2>3
        <5>3. QED
          BY Zenon, <4>1, <5>1, <5>2
      <4>2. CASE u # t
        BY Zenon, <2>5, <3>1, <4>2 DEF Todo
      <4>3. QED
        BY Zenon, <4>1, <4>2
    <3>3. QED
      BY Zenon, <2>4, <3>1, <3>2
  <2>7. "spawn" # "pair"
    BY Zenon
  <2>8. \A u \in Thread : pc'[u] = "pair" => arg'[u][1] \in Stored'
    <3> SUFFICES ASSUME NEW u \in Thread, pc'[u] = "pair" PROVE arg'[u][1] \in Stored'
      BY Zenon
    <3>1. pc[u] = "pair" /\ u # t
      BY Zenon, <2>2, <2>7
    <3>2. QED
      BY Zenon, <2>4, <2>5, <3>1 DEF Covered
  <2>9. finished' \subseteq Stored' /\ (synced' => finished' \subseteq listening')
    BY Zenon, <2>2, <2>4 DEF Covered
  <2>10. QED
    BY Zenon, <2>6, <2>8, <2>9 DEF Covered
<1>9. ASSUME NEW t \in Thread, start_done(t)
      PROVE  Covered'
  <2>1. /\ rows' = rows /\ finished' = finished /\ listening' = listening /\ arg' = arg
        /\ (synced' => synced \/ t \in whole) /\ whole' = whole \ {t} /\ arg[t] = << >>
        /\ pc' = [pc EXCEPT ![t] = "idle"]
    BY Zenon, <1>9 DEF start_done, Goto, disk, sync
  <2>2. Stored' = Stored
    BY Zenon, <2>1 DEF Stored
  <2>3. Todo(t) = {} /\ "idle" # "pair"
    BY <2>1 DEF Todo
  <2>4. synced' => finished' \subseteq listening'
    BY Zenon, <2>1, <2>3 DEF Covered
  <2>5. pc'[t] # "pair" /\ \A u \in Thread : u # t => pc'[u] = pc[u]
    BY Zenon, <1>1, <2>1, <2>3
  <2>6. ASSUME NEW u \in whole'
        PROVE  u \in Thread /\ pc'[u] = "spawn" /\ finished' \subseteq listening' \cup Todo(u)'
    <3>1. u \in whole /\ u # t /\ u \in Thread
      BY Zenon, <1>2, <2>1, <2>6
    <3>2. Todo(u)' = Todo(u)
      BY Zenon, <2>1 DEF Todo
    <3>3. QED
      BY Zenon, <2>1, <2>5, <3>1, <3>2 DEF Covered
  <2>7. \A u \in Thread : pc'[u] = "pair" => arg'[u][1] \in Stored'
    BY Zenon, <2>1, <2>2, <2>5 DEF Covered
  <2>8. QED
    BY Zenon, <2>1, <2>2, <2>4, <2>6, <2>7 DEF Covered
<1>10. ASSUME NEW t \in Thread, stop_sync(t)
       PROVE  Covered'
  <2>1. rows' = rows /\ finished' = finished /\ whole' = {} /\ ~synced'
    BY Zenon, <1>10 DEF stop_sync, disk
  <2>2. /\ \/ pc' = pc /\ arg' = arg
           \/ pc' = [pc EXCEPT ![t] = "cancel"] /\ arg' = [arg EXCEPT ![t] = live]
    BY Zenon, <1>10 DEF stop_sync, Goto, Hold
  <2>3. Stored' = Stored /\ "cancel" # "pair"
    BY Zenon, <2>1 DEF Stored
  <2>4. \A u \in Thread : pc'[u] = "pair" => pc[u] = "pair" /\ arg'[u] = arg[u]
    BY Zenon, <1>1, <2>2, <2>3
  <2>5. QED
    BY Zenon, <2>1, <2>3, <2>4 DEF Covered

<1>11. ASSUME NEW t \in Thread, NEW c \in Conv, begin_pairing_from_offer(t, c)
       PROVE  Covered'
  <2>1. /\ finished' = finished /\ listening' = listening /\ whole' = whole /\ synced' = synced
        /\ rows' = Append(rows, c) /\ pc[t] = "idle"
        /\ pc' = [pc EXCEPT ![t] = "pair"] /\ arg' = [arg EXCEPT ![t] = <<c>>]
    BY Zenon, <1>11 DEF begin_pairing_from_offer, Goto, Hold, Idle, sync, ghost
  <2>2. Stored \subseteq Stored' /\ c \in Stored'
    <3>1. rows \in Seq(Conv)
      BY Zenon DEF TypeOK
    <3>2. /\ DOMAIN rows \subseteq DOMAIN Append(rows, c)
          /\ \A i \in DOMAIN rows : Append(rows, c)[i] = rows[i]
          /\ Len(rows) + 1 \in DOMAIN Append(rows, c) /\ Append(rows, c)[Len(rows) + 1] = c
      BY <3>1
    <3>3. QED
      BY Zenon, <2>1, <3>2 DEF Stored
  <2>3. <<c>>[1] = c /\ "idle" # "spawn"
    BY Zenon
  <2>4. arg'[t] = <<c>> /\ t \notin whole
        /\ \A u \in Thread : u # t => pc'[u] = pc[u] /\ arg'[u] = arg[u]
    BY Zenon, <1>1, <1>2, <2>1, <2>3
  <2>5. \A u \in Thread : pc'[u] = "pair" =>
          (pc[u] = "pair" /\ arg'[u] = arg[u]) \/ arg'[u][1] \in Stored'
    BY Zenon, <2>2, <2>3, <2>4
  <2>6. QED
    BY Zenon, <1>2, <2>1, <2>2, <2>4, <2>5, CoverStays
<1>12. ASSUME NEW t \in Thread, pairing_done(t)
       PROVE  Covered'
  <2>1. PICK c \in Conv : c = arg[t][1]
    <3>1. arg[t] \in Seq(Conv) /\ Len(arg[t]) = 1
      BY Zenon, <1>12 DEF pairing_done, TypeOK
    <3>2. arg[t][1] \in Conv
      BY <3>1
    <3>3. QED
      BY Zenon, <3>2
  <2>2. /\ rows' = rows /\ finished' = finished \cup {c} /\ whole' = whole /\ synced' = synced
        /\ spawn_conversation(c) /\ pc[t] = "pair"
        /\ pc' = [pc EXCEPT ![t] = "idle"] /\ arg' = [arg EXCEPT ![t] = << >>]
    BY Zenon, <1>12, <2>1 DEF pairing_done, Goto, Hold, ghost
  <2>3. c \in listening' /\ listening \subseteq listening' /\ Stored' = Stored
    BY Zenon, <1>3, <2>2 DEF Stored
  <2>4. "pair" # "spawn" /\ "idle" # "pair"
    BY Zenon
  <2>5. pc'[t] # "pair" /\ t \notin whole
        /\ \A u \in Thread : u # t => pc'[u] = pc[u] /\ arg'[u] = arg[u]
    BY Zenon, <1>1, <1>2, <2>2, <2>4
  <2>6. finished' \subseteq Stored' /\ (synced' => finished' \subseteq listening')
    BY Zenon, <2>1, <2>2, <2>3 DEF Covered
  <2>7. ASSUME NEW u \in whole'
        PROVE  u \in Thread /\ pc'[u] = "spawn" /\ finished' \subseteq listening' \cup Todo(u)'
    <3>1. u \in whole /\ u # t /\ u \in Thread
      BY Zenon, <1>2, <2>2, <2>5, <2>7
    <3>2. Todo(u)' = Todo(u)
      BY Zenon, <2>5, <3>1 DEF Todo
    <3>3. QED
      BY Zenon, <2>2, <2>3, <2>5, <3>1, <3>2 DEF Covered
  <2>8. \A u \in Thread : pc'[u] = "pair" => arg'[u][1] \in Stored'
    BY Zenon, <2>3, <2>5 DEF Covered
  <2>9. QED
    BY Zenon, <2>6, <2>7, <2>8 DEF Covered
<1>13. QED
  BY Zenon, <1>4, <1>5, <1>6, <1>7, <1>8, <1>9, <1>10, <1>11, <1>12 DEF Next, Call

\* However many threads start, stop and pair: after a start that no stop has
\* interrupted, one task of the live generation, and only one, serves every
\* conversation whose pairing has returned (start_sync, spawn_conversation).
THEOREM ListensCorrect == Spec => []SyncedListens
<1>1. Init => ListenInv
  <2> SUFFICES ASSUME Init PROVE ListenInv
    BY Zenon
  <2>1. QuietInv
    BY Zenon, QuietStarts
  <2>2. Gens = 1 .. 0 /\ DOMAIN tasks = {} /\ Stored = {}
    BY DEF Init, Gens, Stored
  <2>3. 0 \in Nat /\ 0 \in 0 .. 0 /\ "idle" \notin {"cancel", "join", "pair"}
    OBVIOUS
  <2>4. Numbered(0) /\ Taken(0)
    BY <2>2 DEF Init, Numbered, Taken
  <2>5. Listed
    BY Zenon, <2>2 DEF Init, Listed
  <2>6. Covered
    BY Zenon, <2>2 DEF Init, Covered
  <2>7. QED
    BY Zenon, <2>1, <2>3, <2>4, <2>5, <2>6 DEF ListenInv, Numbers
<1>2. ListenInv /\ [Next]_vars => ListenInv'
  <2> SUFFICES ASSUME ListenInv, [Next]_vars PROVE ListenInv'
    BY Zenon
  <2>1. QuietInv'
    BY Zenon, QuietStep DEF ListenInv
  <2>2. CASE Next
    BY Zenon, <2>1, <2>2, EngineStep, CoverStep DEF ListenInv, QuietInv
  <2>3. CASE UNCHANGED vars
    <3>1. PICK n \in Nat : Numbered(n) /\ Taken(n)
      BY Zenon DEF ListenInv, Numbers
    <3>2. cancelled' \subseteq (1 .. n) \ {live}
      BY Zenon, <2>3, <3>1 DEF vars, Numbered
    <3>3. Numbers' /\ Listed'
      BY Zenon, <2>3, <3>1, <3>2, EngineStays DEF vars, ListenInv, Numbers
    <3>4. Stored' = Stored
      BY Zenon, <2>3 DEF vars, Stored
    <3>5. Covered'
      BY Zenon, <2>3, <3>4, CoverStays DEF vars, ListenInv
    <3>6. QED
      BY Zenon, <2>1, <3>3, <3>5 DEF ListenInv
  <2>4. QED
    BY Zenon, <2>2, <2>3
<1>3. ListenInv => SyncedListens
  <2> SUFFICES ASSUME ListenInv, synced, NEW c \in finished
               PROVE  Cardinality({k \in DOMAIN tasks :
                        tasks[k].conv = c /\ tasks[k].gen = live /\ tasks[k].at # "ended"}) = 1
    BY Zenon DEF SyncedListens
  <2>1. PICK k \in DOMAIN tasks : Serving(k, c)
    BY Zenon DEF ListenInv, Covered, Listed
  <2>2. {j \in DOMAIN tasks : tasks[j].conv = c /\ tasks[j].gen = live
                                /\ tasks[j].at # "ended"} = {k}
    BY ZenonT(60), <2>1 DEF ListenInv, Listed, Serving
  <2>3. QED
    BY ZenonT(60), <2>2, FS_Singleton
<1>4. QED
  BY <1>1, <1>2, <1>3, PTL DEF Spec
=============================================================================
