------------------------------ MODULE Recovery ------------------------------
(***************************************************************************)
(* How two paired devices find each other again after their mailboxes are  *)
(* gone: loss detection, the probe at the next generation, convergence,    *)
(* exhaustion and the rotation back to fresh mailboxes (recovery.rs and    *)
(* the recovery half of relay_client/mod.rs).                              *)
(*                                                                         *)
(* Each device runs the conversation's listener and, independently, the    *)
(* flush its user's send starts.  The listener's steps end where it awaits *)
(* a relay call whose effect the other side could see.  A frame leaves its *)
(* mailbox when it is decrypted: a redelivery no longer decrypts and is    *)
(* dropped.  Both devices use one relay, which forgets everything when it  *)
(* restarts.                                                               *)
(***************************************************************************)
EXTENDS Store, FiniteSets

CONSTANTS
  RECOVERY_WINDOW, RECOVERY_PROBE_CYCLES,
  HelloRing,    \* hellos remembered per conversation, 512 in the code
  Talkers,      \* the devices whose user sends a message
  Rooted,       \* whether the conversation has a recovery root: a set of choices
  Budgets       \* bound: how often each fault may strike, one of these choices

Party == {Offerer, Responder}
Peer(p) == peer_role(p)
Fault == {"restart", "expire", "pace", "skip", "stop", "kill"}

ASSUME RecoveryAssumption ==
  /\ RECOVERY_WINDOW \in Nat \ {0} /\ RECOVERY_PROBE_CYCLES \in Nat \ {0}
  /\ HelloRing \in Nat \ {0}
  /\ Talkers \subseteq Party /\ Rooted \subseteq BOOLEAN
  /\ Budgets \subseteq [Fault -> Nat]

VARIABLES
  row,      \* the stored conversation
  at,       \* where the listener is
  job,      \* the probe or the rotation reply the listener is in the middle of
  cycles,   \* ExhaustionTracker
  ring,     \* hello_seen
  rotation, \* the offerer's OffererAwaitingFb
  chat,     \* the user's message: "none", "pending", "sent"
  flush,    \* where a concurrent flush_pending is about to deposit
  got,      \* whose message has been saved
  boxes,    \* the relay
  serial,   \* ids the relay has picked, and nonces
  wiped,    \* history: messages the relay forgot by itself
  faults,   \* how often each fault has struck
  budget    \* how often it may

disk  == <<row, chat, got>>
ram   == <<cycles, ring, rotation>>
env   == <<wiped, faults, budget>>
vars  == <<row, at, job, cycles, ring, rotation, chat, flush, got, boxes,
           serial, wiped, faults, budget>>

Relay == "relay"
NoJob == [via |-> "none"]
NoRotation == [f_a |-> None, derived |-> None]
Chat(p) == [type |-> "chat", from |-> p]
Hello(g, n) == [type |-> "recovery-hello", generation |-> g, nonce |-> n]
Update(v, box) == [type |-> "mailbox-update", version |-> v, inbox |-> box]

Derived(p, role, g) == derive_mailbox_id(row[p].root, role, g)

\* After pairing: each side sends where the other one listens.
Paired(p, rooted) ==
  LET routed == create_routed_conversation(Peer(p), Relay, <<"home", Peer(p)>>,
                                           <<"home", p>>)
      role   == set_recovery_pairing(routed, p, p)
  IN  IF rooted THEN set_recovery_root(role, Peer(p), derive_root(Offerer, Responder))
      ELSE routed

Init ==
  /\ \E rooted \in Rooted : row = [p \in Party |-> Paired(p, rooted)]
  /\ at = [p \in Party |-> "off"]
  /\ job = [p \in Party |-> NoJob]
  /\ cycles = [p \in Party |-> 0]
  /\ ring = [p \in Party |-> << >>]
  /\ rotation = [p \in Party |-> NoRotation]
  /\ chat = [p \in Party |-> "none"]
  /\ flush = [p \in Party |-> None]
  /\ got = {}
  /\ boxes = [b \in {<<"home", p>> : p \in Party} |-> << >>]
  /\ serial = 0
  /\ wiped = {}
  /\ faults = [k \in Fault |-> 0] /\ budget \in Budgets

Strike(k) ==
  /\ faults[k] < budget[k]
  /\ faults' = [faults EXCEPT ![k] = @ + 1] /\ budget' = budget
Calm == UNCHANGED <<faults, budget>>

SetRow(p, r) == row' = [row EXCEPT ![p] = r]
Goto(p, pc)  == at' = [at EXCEPT ![p] = pc]

\* The listener is about to call flush_pending: between two messages, raced
\* against the stop ("flush"; "cut" when its subscription has ended), or in a
\* handler, after which it reads on ("drain") or, its mailbox having changed,
\* subscribes again ("switch").  With nothing pending the call does nothing.
Flushes == {"flush", "cut", "drain", "switch"}
ThenFlush(p)     == Goto(p, IF chat[p] = "pending" THEN "flush" ELSE "online")
ThenRead(p)      == Goto(p, IF chat[p] = "pending" THEN "drain" ELSE "online")
ThenSubscribe(p) == Goto(p, IF chat[p] = "pending" THEN "switch" ELSE "connect")

\* A relay call that works, or one that fails as fault `k'.
Outcome(k, ok) == IF ok THEN Calm ELSE Strike(k)

-----------------------------------------------------------------------------
(* recovery.rs *)

\* GenerationState and ExhaustionTracker.
\* Mutant: only the generation the peer last reported is probed.
outbound_window_one(peer) == {peer}

outbound_window(peer) == peer .. (peer + RECOVERY_WINDOW - 1)
Greater(a, b) == IF a > b THEN a ELSE b
converge(r, g) ==
  set_recovery_generations(r, Greater(r.own_gen, g), Greater(r.peer_gen, g))
is_exhausted(r, c) ==
  \/ c >= RECOVERY_PROBE_CYCLES
  \/ r.own_gen - r.peer_gen >= RECOVERY_WINDOW
  \/ r.peer_gen - r.own_gen >= RECOVERY_WINDOW

\* mark_hello_seen: the ring after this hello; the oldest entry makes room.
Seen(p, h) == \E i \in DOMAIN ring[p] : ring[p][i] = <<h.generation, h.nonce>>

\* Mutant: nothing is evicted.
mark_hello_seen_all(p, h) == Append(ring[p], <<h.generation, h.nonce>>)

mark_hello_seen(p, h) ==
  LET all == Append(ring[p], <<h.generation, h.nonce>>)
  IN  IF Len(all) > HelloRing THEN Tail(all) ELSE all

-----------------------------------------------------------------------------
(* The user's send, and the flush it runs beside the listener *)

\* send_chat saves the row; its flush takes the guard and reads the route.
send_chat(p) ==
  /\ p \in Talkers /\ chat[p] = "none"
  /\ chat' = [chat EXCEPT ![p] = "pending"]
  /\ flush' = [flush EXCEPT ![p] = row[p].mailbox_send]
  /\ UNCHANGED <<row, at, job, ram, got, boxes, serial, env>>

\* The deposit reaches the relay: 202 marks the row sent, 404 leaves it pending.
flush_deposit(p) ==
  /\ flush[p] # None
  /\ boxes' = deposit(boxes, flush[p], Chat(p))
  /\ chat' = IF Accepts(boxes, flush[p]) THEN [chat EXCEPT ![p] = "sent"] ELSE chat
  /\ flush' = [flush EXCEPT ![p] = None]
  /\ UNCHANGED <<row, at, job, ram, got, serial, env>>

\* The listener's own flush_pending, once the guard is free.
listener_flush(p) ==
  /\ at[p] \in Flushes /\ flush[p] = None
  /\ LET box == row[p].mailbox_send
         now == chat[p] = "pending" /\ Accepts(boxes, box)
     IN  /\ boxes' = IF now THEN deposit(boxes, box, Chat(p)) ELSE boxes
         /\ chat' = IF now THEN [chat EXCEPT ![p] = "sent"] ELSE chat
  /\ Goto(p, IF at[p] \in {"flush", "drain"} THEN "online" ELSE "connect")
  /\ UNCHANGED <<row, job, ram, flush, got, serial, env>>

\* Event::Idle: the keepalive round trip retries what is still pending.
idle(p) ==
  /\ at[p] = "online" /\ boxes[row[p].mailbox_recv] = << >>
  /\ chat[p] = "pending"
  /\ ThenFlush(p)
  /\ UNCHANGED <<disk, job, ram, flush, boxes, serial, env>>

-----------------------------------------------------------------------------
(* The listener: subscribing, and recovery when the mailbox is gone *)

start_sync(p) ==
  /\ at[p] = "off"
  /\ Goto(p, "connect")
  /\ UNCHANGED <<disk, job, ram, flush, boxes, serial, env>>

Lost(p) == at[p] = "connect" /\ ~Accepts(boxes, row[p].mailbox_recv)

subscribe(p) ==
  /\ at[p] = "connect" /\ ~Lost(p)
  /\ ThenFlush(p)
  /\ UNCHANGED <<disk, job, ram, flush, boxes, serial, env>>

\* Without a root: a fresh mailbox, announced where the peer last listened.
\* The new mailbox is stored before the announcement is attempted.
recover_v1(p) ==
  /\ Lost(p) /\ row[p].root = None
  /\ LET fresh == <<"fresh", serial>>
         bs    == create_mailbox(boxes, serial)
         send  == row[p].mailbox_send
     IN  /\ SetRow(p, set_conversation_recv(row[p], fresh))
         /\ \/ /\ boxes' = deposit(bs, send, Update(1, fresh))
               /\ Goto(p, IF Accepts(bs, send) THEN "connect" ELSE "ended")
               /\ Calm
            \/ boxes' = bs /\ Strike("skip") /\ UNCHANGED at
  /\ serial' = serial + 1
  /\ UNCHANGED <<job, ram, chat, flush, got, wiped>>

\* Mutant: the refused attempt counts as a probe cycle.
recover_refused_counts(p) ==
  /\ Lost(p) /\ Strike("pace")
  /\ row[p].root # None => ~is_exhausted(row[p], cycles[p])
  /\ cycles' = [cycles EXCEPT ![p] = @ + 1]
  /\ UNCHANGED <<disk, at, job, ring, rotation, flush, boxes, serial, wiped>>

\* create_mailbox or the PUT of the own mailbox fails: Recovery::Failed, and
\* after a pause the listener subscribes again.
recover_refused(p) ==
  /\ Lost(p) /\ Strike("pace")
  /\ row[p].root # None => ~is_exhausted(row[p], cycles[p])
  /\ UNCHANGED <<disk, at, job, ram, flush, boxes, serial, wiped>>

\* enter_recovery_gen up to its loop: this side's derived mailbox is put and
\* stored, and one hello is minted for the whole window.
EnterGen(p, r, g, bs, via) ==
  /\ boxes' = put_mailbox(bs, Derived(p, r.role, g))
  /\ SetRow(p, set_conversation_recv(r, Derived(p, r.role, g)))
  /\ job' = [job EXCEPT ![p] = [via |-> via, g |-> g, peer_gen |-> r.peer_gen,
                                k |-> r.peer_gen, nonce |-> serial]]
  /\ serial' = serial + 1
  /\ Goto(p, "probe")

NeedsRepair(p) ==
  /\ Lost(p) /\ row[p].root # None
  /\ is_exhausted(row[p], cycles[p])
  /\ Goto(p, "ended")
  /\ UNCHANGED <<disk, job, ram, flush, boxes, serial, env>>

recover_v2(p) ==
  /\ Lost(p) /\ row[p].root # None
  /\ ~is_exhausted(row[p], cycles[p])
  /\ EnterGen(p, row[p], row[p].own_gen + 1, boxes, "loss")
  /\ UNCHANGED <<ram, chat, flush, got, env>>

\* One peer generation of the window: put, then deposit the hello.  Whichever
\* call fails, the loop goes on.
probe_leg(p, put, sent) ==
  /\ at[p] = "probe" /\ job[p].k \in outbound_window(job[p].peer_gen)
  /\ LET box == Derived(p, Peer(p), job[p].k)
         bs  == IF put THEN put_mailbox(boxes, box) ELSE boxes
     IN  boxes' = IF sent THEN deposit(bs, box, Hello(job[p].g, job[p].nonce)) ELSE bs
  /\ Outcome("skip", put /\ sent)
  /\ job' = [job EXCEPT ![p].k = @ + 1]
  /\ UNCHANGED <<disk, at, ram, flush, serial, wiped>>

\* The end of enter_recovery_gen: route and generations are stored, and an
\* attempt that a loss started counts as a probe cycle.
probe_done(p) ==
  /\ at[p] = "probe" /\ job[p].k \notin outbound_window(job[p].peer_gen)
  /\ LET r == set_conversation_send(row[p], row[p].relay_url,
                                    Derived(p, Peer(p), job[p].g))
     IN  SetRow(p, set_recovery_generations(r, job[p].g, job[p].peer_gen))
  /\ cycles' = IF job[p].via = "loss" THEN [cycles EXCEPT ![p] = @ + 1] ELSE cycles
  /\ job' = [job EXCEPT ![p] = NoJob]
  /\ Goto(p, "connect")
  /\ UNCHANGED <<ring, rotation, chat, flush, got, boxes, serial, env>>

-----------------------------------------------------------------------------
(* handle_incoming: one action per kind of frame, and per way it is taken   *)

Inbox(p) == boxes[row[p].mailbox_recv]
Incoming(p, type) ==
  /\ at[p] = "online" /\ Inbox(p) # << >>
  /\ Head(Inbox(p)).type = type
Frame(p) == Head(Inbox(p))
Read(p)  == [boxes EXCEPT ![row[p].mailbox_recv] = Tail(@)]

save_incoming(p) ==
  /\ Incoming(p, "chat")
  /\ got' = got \cup {Frame(p).from}
  /\ boxes' = Read(p)
  /\ UNCHANGED <<row, at, job, ram, chat, flush, serial, env>>

hello_replay(p) ==
  /\ Incoming(p, "recovery-hello") /\ Seen(p, Frame(p))
  /\ boxes' = Read(p)
  /\ UNCHANGED <<disk, at, job, ram, flush, serial, env>>

\* What every new hello does: it is remembered, it resets the probe cycles,
\* and the generations converge; `r' is the row it leaves.
NewHello(p, r) ==
  /\ Incoming(p, "recovery-hello") /\ ~Seen(p, Frame(p))
  /\ ring' = [ring EXCEPT ![p] = mark_hello_seen(p, Frame(p))]
  /\ cycles' = [cycles EXCEPT ![p] = 0]
  /\ r = converge(row[p], Frame(p).generation)

\* Behind the peer: adopt its generation and probe at it.  When the PUT is
\* refused the generations stay raised and the listener where it was.
hello_adopt(p, ok) ==
  LET r == converge(row[p], Frame(p).generation) IN
  /\ NewHello(p, r) /\ r.own_gen > row[p].own_gen
  /\ IF ok THEN EnterGen(p, r, r.own_gen, Read(p), "hello")
     ELSE boxes' = Read(p) /\ SetRow(p, r) /\ UNCHANGED <<job, serial, at>>
  /\ Outcome("skip", ok)
  /\ UNCHANGED <<rotation, chat, flush, got, wiped>>

\* Level with the peer: the offerer starts the rotation, offering a fresh
\* mailbox in the responder's derived one, and stays where it is.  It awaits
\* F_B whether or not the offer of F_A was delivered.
initiate_rotation(p, ok, sent) ==
  LET r == converge(row[p], Frame(p).generation)
      f == <<"fresh", serial>> IN
  /\ NewHello(p, r) /\ r.own_gen = row[p].own_gen
  /\ Frame(p).generation = r.own_gen /\ r.role = Offerer
  /\ SetRow(p, r)
  /\ IF ok THEN /\ LET bs == create_mailbox(Read(p), serial)
                   IN  boxes' = IF sent THEN deposit(bs, Derived(p, Responder, r.own_gen),
                                                     Update(3, f)) ELSE bs
                /\ rotation' = [rotation EXCEPT ![p] =
                     [f_a |-> f, derived |-> Derived(p, Offerer, r.own_gen)]]
                /\ serial' = serial + 1
     ELSE boxes' = Read(p) /\ UNCHANGED <<rotation, serial>>
  /\ Outcome("skip", ok /\ sent)
  /\ UNCHANGED <<at, job, chat, flush, got, wiped>>

\* Ahead of the peer, or the responder: the pending message is flushed.
hello_flush(p) ==
  LET r == converge(row[p], Frame(p).generation) IN
  /\ NewHello(p, r) /\ r.own_gen = row[p].own_gen
  /\ Frame(p).generation = r.own_gen => r.role = Responder
  /\ SetRow(p, r) /\ boxes' = Read(p) /\ ThenRead(p)
  /\ UNCHANGED <<job, rotation, chat, flush, got, serial, env>>

\* mailbox-update/1: the peer listens elsewhere.
update_v1(p) ==
  /\ Incoming(p, "mailbox-update") /\ Frame(p).version = 1
  /\ SetRow(p, set_conversation_send(row[p], Relay, Frame(p).inbox))
  /\ boxes' = Read(p) /\ ThenRead(p)
  /\ UNCHANGED <<job, ram, chat, flush, got, serial, env>>

\* mailbox-update/3 while awaiting F_B: the second leg of the rotation.  A
\* DELETE that fails is not tried again.
rotation_finish(p, gone) ==
  /\ Incoming(p, "mailbox-update") /\ Frame(p).version = 3
  /\ rotation[p] # NoRotation
  /\ SetRow(p, set_conversation_recv(
                 set_conversation_send(row[p], Relay, Frame(p).inbox),
                 rotation[p].f_a))
  /\ boxes' = IF gone THEN delete_mailbox(Read(p), rotation[p].derived) ELSE Read(p)
  /\ Outcome("skip", gone)
  /\ rotation' = [rotation EXCEPT ![p] = NoRotation]
  /\ ThenSubscribe(p)
  /\ UNCHANGED <<job, cycles, ring, chat, flush, got, serial, wiped>>

\* mailbox-update/3 otherwise: adopt F_A, mint F_B and listen there.  When F_B
\* cannot be created, only the route has changed.
rotation_adopt(p, ok) ==
  LET r == set_conversation_send(row[p], Relay, Frame(p).inbox)
      f == <<"fresh", serial>> IN
  /\ Incoming(p, "mailbox-update") /\ Frame(p).version = 3
  /\ rotation[p] = NoRotation
  /\ IF ok THEN /\ SetRow(p, set_conversation_recv(r, f))
                /\ boxes' = create_mailbox(Read(p), serial)
                /\ serial' = serial + 1
                /\ job' = [job EXCEPT ![p] = [via |-> "reply", f_b |-> f,
                            to  |-> Derived(p, Peer(p), row[p].own_gen),
                            old |-> row[p].mailbox_recv]]
                /\ Goto(p, "reply")
     ELSE SetRow(p, r) /\ boxes' = Read(p) /\ UNCHANGED <<serial, job, at>>
  /\ Outcome("skip", ok)
  /\ UNCHANGED <<ram, chat, flush, got, wiped>>

\* ... then tell the offerer in its derived mailbox and retire the own one.
rotation_reply(p, sent, gone) ==
  /\ at[p] = "reply"
  /\ LET bs == IF sent THEN deposit(boxes, job[p].to, Update(3, job[p].f_b)) ELSE boxes
     IN  boxes' = IF gone THEN delete_mailbox(bs, job[p].old) ELSE bs
  /\ Outcome("skip", sent /\ gone)
  /\ job' = [job EXCEPT ![p] = NoJob]
  /\ ThenSubscribe(p)
  /\ UNCHANGED <<disk, ram, flush, serial, wiped>>

-----------------------------------------------------------------------------
(* What goes wrong around them *)

Queued(bs) == {p \in Party : \E b \in DOMAIN bs : \E i \in DOMAIN bs[b] :
                 bs[b][i] = Chat(p)}

\* The relay restarts: every mailbox is gone and every subscription ends.
relay_restart ==
  /\ Strike("restart")
  /\ boxes' = << >>
  /\ wiped' = wiped \cup Queued(boxes)
  /\ at' = [p \in Party |-> CASE at[p] = "online" -> "connect"
                              [] at[p] = "flush"  -> "cut"
                              [] at[p] = "drain"  -> "switch"
                              [] OTHER            -> at[p]]
  /\ UNCHANGED <<disk, job, ram, flush, serial>>

\* The relay reaps the mailbox of a device that has been away too long.
expire(p) ==
  /\ Strike("expire")
  /\ at[p] = "off" /\ Accepts(boxes, row[p].mailbox_recv)
  /\ boxes' = delete_mailbox(boxes, row[p].mailbox_recv)
  /\ wiped' = wiped \cup (Queued(boxes) \ Queued(boxes'))
  /\ UNCHANGED <<disk, at, job, ram, flush, serial>>

\* stop_sync cancels a wait, a flush between messages or a recovery attempt; a
\* handler runs to its end.  The flush may have a request out: the relay takes
\* it, and the row stays pending.
stop_sync(p, out) ==
  /\ at[p] \in {"connect", "online", "flush", "cut", "probe"}
  /\ at[p] = "probe" => job[p].via = "loss"
  /\ out => at[p] \in Flushes /\ flush[p] = None /\ chat[p] = "pending"
  /\ Strike("stop")
  /\ Goto(p, "off") /\ job' = [job EXCEPT ![p] = NoJob]
  /\ boxes' = IF out THEN deposit(boxes, row[p].mailbox_send, Chat(p)) ELSE boxes
  /\ UNCHANGED <<disk, ram, flush, serial, wiped>>

\* The process dies: what was only in memory is gone.
kill(p) ==
  /\ at[p] # "off"
  /\ Strike("kill")
  /\ Goto(p, "off") /\ job' = [job EXCEPT ![p] = NoJob]
  /\ cycles' = [cycles EXCEPT ![p] = 0]
  /\ ring' = [ring EXCEPT ![p] = << >>]
  /\ rotation' = [rotation EXCEPT ![p] = NoRotation]
  /\ flush' = [flush EXCEPT ![p] = None]
  /\ UNCHANGED <<disk, boxes, serial, wiped>>

Listener(p) ==
  \/ listener_flush(p) \/ subscribe(p)
  \/ recover_v1(p) \/ NeedsRepair(p) \/ recover_v2(p)
  \/ probe_leg(p, TRUE, TRUE) \/ probe_done(p)
  \/ save_incoming(p) \/ hello_replay(p) \/ hello_adopt(p, TRUE)
  \/ initiate_rotation(p, TRUE, TRUE) \/ hello_flush(p)
  \/ update_v1(p) \/ rotation_finish(p, TRUE) \/ rotation_adopt(p, TRUE)
  \/ rotation_reply(p, TRUE, TRUE)

Misfortune(p) ==
  \/ recover_refused(p) \/ hello_adopt(p, FALSE) \/ rotation_adopt(p, FALSE)
  \/ probe_leg(p, FALSE, FALSE) \/ probe_leg(p, TRUE, FALSE)
  \/ initiate_rotation(p, FALSE, FALSE) \/ initiate_rotation(p, TRUE, FALSE)
  \/ rotation_finish(p, FALSE)
  \/ rotation_reply(p, FALSE, TRUE) \/ rotation_reply(p, TRUE, FALSE)
  \/ expire(p) \/ stop_sync(p, FALSE) \/ stop_sync(p, TRUE) \/ kill(p)

Next ==
  \/ \E p \in Party : send_chat(p) \/ flush_deposit(p) \/ idle(p) \/ start_sync(p)
  \/ \E p \in Party : Listener(p) \/ Misfortune(p)
  \/ relay_restart

\* The runtime polls every ready task, the HTTP client times out, and the user
\* brings the application back to the foreground.
Fairness == \A p \in Party :
  WF_vars(Listener(p) \/ idle(p)) /\ WF_vars(start_sync(p)) /\ WF_vars(flush_deposit(p))

Spec == Init /\ [][Next]_vars /\ Fairness

-----------------------------------------------------------------------------
(* Properties *)

\* Every variable has its type, and no conversation remembers more hellos than
\* the ring of hello_seen holds.
TypeOK ==
  /\ \A p \in Party : row[p].own_gen \in Nat /\ row[p].peer_gen \in Nat
  /\ at \in [Party -> Flushes \cup {"off", "connect", "online", "probe", "reply",
                                    "ended"}]
  /\ chat \in [Party -> {"none", "pending", "sent"}]
  /\ got \subseteq Party /\ wiped \subseteq Party
  /\ \A p \in Party : Len(ring[p]) <= HelloRing

Agreed == \A p \in Party :
  /\ row[p].mailbox_send = row[Peer(p)].mailbox_recv
  /\ Accepts(boxes, row[p].mailbox_recv)
GaveUp == \E p \in Party : at[p] = "ended"

\* Once the relay and the network behave, the two sides of a conversation end
\* up with matching routes over mailboxes that exist and nothing left unsent,
\* or one of them tells its user to pair again.  Two-sided loss is repaired by
\* recover_v2 and the rotation, and one-sided loss of a conversation without a
\* root by recover_v1.  Excluded, because each can leave the two sides apart
\* for good: a skipped leg, a cancelled attempt, a killed process, a one-sided
\* loss of a conversation with a root, and, with a window of 4, a third restart:
\* the peer's probe puts back the lost mailbox of a side two generations ahead,
\* which notices nothing and never sends its hellos again.
Reconverges ==
  [](/\ faults["stop"] = 0 /\ faults["kill"] = 0 /\ faults["skip"] = 0
     /\ faults["restart"] <= 2
     /\ faults["expire"] > 0 => \A p \in Party : row[p].root = None)
  => <>[](GaveUp \/ (Agreed /\ \A p \in Party : chat[p] # "pending"))

\* A side never believes its peer further ahead than the peer is, or is about
\* to record: enter_recovery_gen sends its hellos before it stores the
\* generation they announce, and may die in between.
PeerGenKnown == \A p \in Party : row[p].peer_gen <= row[Peer(p)].own_gen + 1

\* The stored generations never go down (converge, set_recovery_generations),
\* also when a hello that was forgotten or delayed arrives.
GenerationsRise == [][\A p \in Party :
  row'[p].own_gen >= row[p].own_gen /\ row'[p].peer_gen >= row[p].peer_gen]_vars

\* A side asks for a new pairing only after more losses than probe cycles
\* allowed: an attempt whose own mailbox the relay refused or paced is not held
\* against the peer, however the refusals and the losses mix (recover_v2,
\* ExhaustionTracker).
GivesUpLate == \A p \in Party :
  at[p] = "ended" /\ row[p].root # None
    => faults["restart"] + faults["expire"] > RECOVERY_PROBE_CYCLES

\* proto/recovery.md, section 4: "Rotation retires the derived inboxes in favor
\* of fresh, long-lived, relay-generated ones, without dropping in-flight chat".
\* A message marked sent has been saved by the peer, is queued, or was lost
\* with the relay's memory.
RotationKeepsChat == \A p \in Party :
  chat[p] = "sent" => p \in got \cup Queued(boxes) \cup wiped
=============================================================================
