-------------------------------- MODULE Chat --------------------------------
(***************************************************************************)
(* A conversation between two devices: the outbox each one flushes, the    *)
(* Double Ratchet session both directions share, and the listener that     *)
(* decrypts, persists and acknowledges (tezca-core, relay_client/mod.rs,   *)
(* session.rs and the message rows of storage/mod.rs).                     *)
(*                                                                         *)
(* Each device runs a task per send the user has started, a caller of      *)
(* send_chat, and "net", the conversation's listener.  A step ends where   *)
(* the code awaits or gives up the store's connection lock; in particular  *)
(* encrypting and decrypting load the session record and store it back in  *)
(* two separate store calls.  A message is the number of its row at the    *)
(* sender.                                                                 *)
(***************************************************************************)
EXTENDS Integers, Sequences, FiniteSets, Sums

CONSTANTS
  Sender,     \* the tasks that call send_chat, one per concurrent send
  Quota,      \* per device: how many messages its user sends
  Budget,     \* bound, per kind of fault: how often it may strike
  MaxFaults   \* bound: faults in a behaviour

Party == {1, 2}
Peer(p) == 3 - p
Task  == Sender \cup {"net"}
Death(p) == IF p = 1 THEN "death1" ELSE "death2"
Fault == {"drop", "refuse", "reject", "timeout", "store", "cancel", "expire",
          "death1", "death2"}

ASSUME ChatAssumption ==
  /\ Sender \cap {"net", "free"} = {}
  /\ Quota \in [Party -> Nat]
  /\ Budget \in [Fault -> Nat] /\ MaxFaults \in Nat

VARIABLES
  status,    \* outgoing rows: "pending" (0) or "sent" (1), in rowid order
  failed,    \* rows reported through on_permanent_send_failure
  session,   \* the stored session record
  inbox,     \* incoming rows, in insertion order
  lock,      \* flush_locks: the task holding the conversation's guard
  at,        \* control point of each task
  batch,     \* the rows of a flush that are still to be sent
  copy,      \* the session record a task has loaded and not stored back
  blob,      \* the ciphertext a task is depositing or has been delivered
  box,       \* the device's mailbox at the relay
  handed,    \* ids the relay has put on the device's current connection
  limbo,     \* deposits whose caller gave up, still on their way
  accepted,  \* history: rows of each sender in the order the relay took them
  faults     \* how often each fault has struck

disk  == <<status, failed, session, inbox>>
tasks == <<lock, at, batch, copy, blob>>
relay == <<box, handed, limbo, accepted>>
vars  == <<status, failed, session, inbox, lock, at, batch, copy, blob, box,
           handed, limbo, accepted, faults>>

-----------------------------------------------------------------------------
(* The ratchet, as far as the code relies on it: libsignal keeps one record *)
(* per peer.  A message is sealed under the sender's current chain and a    *)
(* counter; each is opened at most once; the first message of a new chain   *)
(* of the peer starts a new sending chain.                                  *)

NoBlob == [chain |-> 0, n |-> 0, row |-> 0]
NoCopy == [mine |-> 0, n |-> 0, theirs |-> 0, seen |-> {}]

\* After pairing: device 1 sent the last message, so device 2 has turned.
Paired(p) == [mine |-> p, n |-> 0, theirs |-> 1, seen |-> {}]

Seal(r, i)  == [chain |-> r.mine, n |-> r.n, row |-> i]
Sealed(r)   == [r EXCEPT !.n = @ + 1]
Opens(r, b) == <<b.chain, b.n>> \notin r.seen
Opened(r, b) ==
  IF b.chain > r.theirs
  THEN [mine |-> b.chain + 1, n |-> 0, theirs |-> b.chain,
        seen |-> r.seen \cup {<<b.chain, b.n>>}]
  ELSE [r EXCEPT !.seen = @ \cup {<<b.chain, b.n>>}]

Init ==
  /\ status = [p \in Party |-> << >>]
  /\ failed = [p \in Party |-> {}]
  /\ session = [p \in Party |-> Paired(p)]
  /\ inbox = [p \in Party |-> << >>]
  /\ lock = [p \in Party |-> "free"]
  /\ at = [p \in Party |-> [t \in Task |-> IF t = "net" THEN "stopped" ELSE "idle"]]
  /\ batch = [p \in Party |-> [t \in Task |-> << >>]]
  /\ copy = [p \in Party |-> [t \in Task |-> NoCopy]]
  /\ blob = [p \in Party |-> [t \in Task |-> NoBlob]]
  /\ box = [p \in Party |-> << >>]
  /\ handed = [p \in Party |-> {}]
  /\ limbo = {}
  /\ accepted = [p \in Party |-> << >>]
  /\ faults = [k \in Fault |-> 0]

\* Bounded faults: as many of each kind, and as many in all.
Struck == Cardinality({s \in Fault \X (1 .. MaxFaults) : s[2] <= faults[s[1]]})
Strike(k) ==
  /\ faults[k] < Budget[k] /\ Struck < MaxFaults
  /\ faults' = [faults EXCEPT ![k] = @ + 1]

Goto(p, t, pc) == at' = [at EXCEPT ![p][t] = pc]

-----------------------------------------------------------------------------
(* Sending *)

\* Ids of the messages in a mailbox, and of all the relay has taken: ids are
\* numbered over both mailboxes in the order of the deposits.
Issued == Len(accepted[1]) + Len(accepted[2])

\* The relay takes a deposit: 202.
Take(p, b) ==
  /\ box' = [box EXCEPT ![Peer(p)] = Append(@, [id |-> Issued + 1, blob |-> b])]
  /\ accepted' = [accepted EXCEPT ![p] = Append(@, b.row)]

\* save_outgoing, and then flush_pending asks for the guard.
send_chat(p, t) ==
  /\ at[p][t] = "idle"
  /\ Len(status[p]) < Quota[p]
  /\ status' = [status EXCEPT ![p] = Append(@, "pending")]
  /\ Goto(p, t, "lock")
  /\ UNCHANGED <<failed, session, inbox, lock, batch, copy, blob, relay, faults>>

\* pending_chat: the rows with status 0, by rowid.
Rows(p) == [i \in 1 .. Len(status[p]) |-> i]
pending_chat(p) ==
  Without(Rows(p), {i \in 1 .. Len(status[p]) : status[p][i] = "sent"})

\* Mutant: no guard is taken.
Granted_unasked(p, t) == UNCHANGED lock

Granted(p, t) == lock[p] = "free" /\ lock' = [lock EXCEPT ![p] = t]

\* The guard is granted and the pending rows are read.
flush_pending(p, t) ==
  /\ at[p][t] = "lock"
  /\ Granted(p, t)
  /\ batch' = [batch EXCEPT ![p][t] = pending_chat(p)]
  /\ Goto(p, t, "flush")
  /\ UNCHANGED <<disk, copy, blob, relay, faults>>

\* encrypt_message, first store call: load_session.
encrypt_load(p, t) ==
  /\ at[p][t] = "flush"
  /\ batch[p][t] # << >>
  /\ copy' = [copy EXCEPT ![p][t] = session[p]]
  /\ Goto(p, t, "seal")
  /\ UNCHANGED <<disk, lock, batch, blob, relay, faults>>

\* encrypt_message, second store call: store_session, and the request goes out.
encrypt_store(p, t) ==
  /\ at[p][t] = "seal"
  /\ session' = [session EXCEPT ![p] = Sealed(copy[p][t])]
  /\ blob' = [blob EXCEPT ![p][t] = Seal(copy[p][t], Head(batch[p][t]))]
  /\ copy' = [copy EXCEPT ![p][t] = NoCopy]
  /\ Goto(p, t, "deposit")
  /\ UNCHANGED <<status, failed, inbox, lock, batch, relay, faults>>

\* The flush returns: its guard and its locals are dropped and the task goes
\* on with what called it.
Leave(p, t) ==
  /\ lock' = [lock EXCEPT ![p] = "free"]
  /\ batch' = [batch EXCEPT ![p][t] = << >>]
  /\ blob' = [blob EXCEPT ![p][t] = NoBlob]
  /\ Goto(p, t, IF t = "net" THEN "next" ELSE "idle")

deposit_accepted(p, t) ==
  /\ at[p][t] = "deposit"
  /\ Take(p, blob[p][t])
  /\ blob' = [blob EXCEPT ![p][t] = NoBlob]
  /\ Goto(p, t, "mark")
  /\ UNCHANGED <<disk, lock, batch, copy, handed, limbo, faults>>

mark_message_sent(p, t) ==
  /\ at[p][t] = "mark"
  /\ status' = [status EXCEPT ![p][Head(batch[p][t])] = "sent"]
  /\ batch' = [batch EXCEPT ![p][t] = Tail(@)]
  /\ Goto(p, t, "flush")
  /\ UNCHANGED <<failed, session, inbox, lock, copy, blob, relay, faults>>

\* A store call of the flush fails: its `?` ends the flush and the rows not
\* marked yet stay pending.
flush_failed(p, t) ==
  /\ at[p][t] \in {"lock", "flush", "seal", "mark"}
  /\ lock[p] = IF at[p][t] = "lock" THEN "free" ELSE t
  /\ at[p][t] = "flush" => batch[p][t] # << >>
  /\ Strike("store")
  /\ copy' = [copy EXCEPT ![p][t] = NoCopy]
  /\ Leave(p, t)
  /\ UNCHANGED <<disk, relay>>

\* 400 or 413: the row is given up and reported, the flush goes on.
deposit_rejected(p, t) ==
  /\ at[p][t] = "deposit"
  /\ Strike("reject")
  /\ status' = [status EXCEPT ![p][Head(batch[p][t])] = "sent"]
  /\ failed' = [failed EXCEPT ![p] = @ \cup {Head(batch[p][t])}]
  /\ batch' = [batch EXCEPT ![p][t] = Tail(@)]
  /\ blob' = [blob EXCEPT ![p][t] = NoBlob]
  /\ Goto(p, t, "flush")
  /\ UNCHANGED <<session, inbox, lock, copy, relay>>

\* The same when the row cannot be marked: the error is ignored, so the row
\* is reported and yet stays pending.
reject_unmarked(p, t) ==
  /\ at[p][t] = "deposit"
  /\ \A k \in {"reject", "store"} : faults[k] < Budget[k]
  /\ Struck + 2 <= MaxFaults
  /\ faults' = [faults EXCEPT !["reject"] = @ + 1, !["store"] = @ + 1]
  /\ failed' = [failed EXCEPT ![p] = @ \cup {Head(batch[p][t])}]
  /\ batch' = [batch EXCEPT ![p][t] = Tail(@)]
  /\ blob' = [blob EXCEPT ![p][t] = NoBlob]
  /\ Goto(p, t, "flush")
  /\ UNCHANGED <<status, session, inbox, lock, copy, relay>>

\* Mutant: the flush goes on with the next row.
Refused_skips(p, t) ==
  /\ batch' = [batch EXCEPT ![p][t] = Tail(@)]
  /\ blob' = [blob EXCEPT ![p][t] = NoBlob]
  /\ Goto(p, t, "flush")
  /\ UNCHANGED lock

Refused(p, t) == Leave(p, t)

\* 404, 429, 503, 507 or no connection: the flush ends, the row stays pending.
deposit_refused(p, t) ==
  /\ at[p][t] = "deposit"
  /\ Strike("refuse")
  /\ Refused(p, t)
  /\ UNCHANGED <<disk, copy, relay>>

\* Mutant: the row of a request that timed out is taken for sent.
Unanswered_marks(p, t) == status' = [status EXCEPT ![p][Head(batch[p][t])] = "sent"]

Unanswered(p, t) == UNCHANGED status

\* The request timed out: it may have reached the relay, may yet, or never.
deposit_timeout(p, t) ==
  /\ at[p][t] = "deposit"
  /\ Strike("timeout")
  /\ limbo' = limbo \cup {<<p, blob[p][t]>>}
  /\ Unanswered(p, t)
  /\ Leave(p, t)
  /\ UNCHANGED <<failed, session, inbox, copy, box, handed, accepted>>

\* A deposit nobody waits for any more reaches the relay.
Arrive ==
  \E l \in limbo :
    /\ Take(l[1], l[2])
    /\ limbo' = limbo \ {l}
    /\ UNCHANGED <<disk, tasks, handed, faults>>

flush_done(p, t) ==
  /\ at[p][t] = "flush"
  /\ batch[p][t] = << >>
  /\ Leave(p, t)
  /\ UNCHANGED <<disk, copy, relay, faults>>

-----------------------------------------------------------------------------
(* Receiving: conversation_listener *)

start_sync(p) ==
  /\ at[p]["net"] = "stopped"
  /\ Goto(p, "net", "connect")
  /\ UNCHANGED <<disk, lock, batch, copy, blob, relay, faults>>

\* Connected: the relay will replay what is unacknowledged; flush first.
subscribe(p) ==
  /\ at[p]["net"] = "connect"
  /\ Goto(p, "net", "lock")
  /\ UNCHANGED <<disk, lock, batch, copy, blob, relay, faults>>

\* Mutant: a keepalive round trip retries nothing.
Retry_not == "next"

Retry == "lock"

\* A keepalive round trip (Event::Idle): retry what is pending.
idle(p) ==
  /\ at[p]["net"] = "next"
  /\ Goto(p, "net", Retry)
  /\ UNCHANGED <<disk, lock, batch, copy, blob, relay, faults>>

\* The subscription ends: the relay forgets what this connection was sent.
disconnect(p) ==
  /\ at[p]["net"] = "next"
  /\ Strike("drop")
  /\ handed' = [handed EXCEPT ![p] = {}]
  /\ Goto(p, "net", "connect")
  /\ UNCHANGED <<disk, lock, batch, copy, blob, box, limbo, accepted>>

InTurn(p, i) == \A j \in 1 .. i - 1 : box[p][j].id \in handed[p]

\* Event::Delivery: the first message this connection has not been sent yet.
deliver(p) ==
  /\ at[p]["net"] = "next"
  /\ \E i \in 1 .. Len(box[p]) :
       /\ box[p][i].id \notin handed[p]
       /\ InTurn(p, i)
       /\ blob' = [blob EXCEPT ![p]["net"] = box[p][i].blob]
       /\ handed' = [handed EXCEPT ![p] = @ \cup {box[p][i].id}]
  /\ Goto(p, "net", "open")
  /\ UNCHANGED <<disk, lock, batch, copy, box, limbo, accepted, faults>>

\* decrypt_message, first store call; a replay is an error and is dropped.
decrypt_load(p) ==
  /\ at[p]["net"] = "open"
  /\ IF Opens(session[p], blob[p]["net"])
     THEN Goto(p, "net", "commit") /\ copy' = [copy EXCEPT ![p]["net"] = session[p]]
     ELSE Goto(p, "net", "ack") /\ UNCHANGED copy
  /\ UNCHANGED <<disk, lock, batch, blob, relay, faults>>

\* decrypt_message, second store call: the message key is spent.
decrypt_store(p) ==
  /\ at[p]["net"] = "commit"
  /\ session' = [session EXCEPT ![p] = Opened(copy[p]["net"], blob[p]["net"])]
  /\ copy' = [copy EXCEPT ![p]["net"] = NoCopy]
  /\ Goto(p, "net", "save")
  /\ UNCHANGED <<status, failed, inbox, lock, batch, blob, relay, faults>>

save_incoming(p) ==
  /\ at[p]["net"] = "save"
  /\ inbox' = [inbox EXCEPT ![p] = Append(@, blob[p]["net"].row)]
  /\ Goto(p, "net", "ack")
  /\ UNCHANGED <<status, failed, session, lock, batch, copy, blob, relay, faults>>

\* A store call of decrypt_message or save_incoming fails: handle_incoming
\* returns as if there had been nothing to keep, and the ack follows.
store_failed(p) ==
  /\ at[p]["net"] \in {"open", "commit", "save"}
  /\ Strike("store")
  /\ copy' = [copy EXCEPT ![p]["net"] = NoCopy]
  /\ Goto(p, "net", "ack")
  /\ UNCHANGED <<disk, lock, batch, blob, relay>>

\* The message whose delivery is being acknowledged: the last one handed.
Current(p) == CHOOSE n \in handed[p] : \A k \in handed[p] : k <= n

\* Mutant: the ack empties the mailbox.
Dropped_all(q, n) == << >>

\* handle_ack removes the message if it is still queued.
Dropped(q, n) == Without(q, {q[i] : i \in {j \in 1 .. Len(q) : q[j].id = n}})

ack(p) ==
  /\ at[p]["net"] = "ack"
  /\ box' = [box EXCEPT ![p] = Dropped(@, Current(p))]
  /\ blob' = [blob EXCEPT ![p]["net"] = NoBlob]
  /\ Goto(p, "net", "next")
  /\ UNCHANGED <<disk, lock, batch, copy, handed, limbo, accepted, faults>>

\* The connection died under the ack.
ack_lost(p) ==
  /\ at[p]["net"] = "ack"
  /\ Strike("drop")
  /\ handed' = [handed EXCEPT ![p] = {}]
  /\ blob' = [blob EXCEPT ![p]["net"] = NoBlob]
  /\ Goto(p, "net", "connect")
  /\ UNCHANGED <<disk, lock, batch, copy, box, limbo, accepted>>

\* The relay's sweep drops a message that has waited for longer than the TTL.
expire(p) ==
  /\ box[p] # << >>
  /\ Strike("expire")
  /\ box' = [box EXCEPT ![p] = Tail(@)]
  /\ UNCHANGED <<disk, tasks, handed, limbo, accepted>>

-----------------------------------------------------------------------------
(* Stopping and dying *)

\* A request that was out when its task ended is still on its way.
Abandoned(p, ts) ==
  {<<p, blob[p][t]>> : t \in {u \in ts : at[p][u] = "deposit"}}

\* Mutant: the stop is raced against the handling of a message too.
Waits_anywhere == {"connect", "lock", "deposit", "next", "open", "commit", "save", "ack"}

Waits == {"connect", "lock", "deposit", "next"}

\* stop_sync: the listener ends at the wait it is in, dropping a flush it
\* was awaiting (and its guard) but never a message being handled.
stop_sync(p) ==
  /\ Strike("cancel")
  /\ at[p]["net"] \in Waits
  /\ limbo' = limbo \cup Abandoned(p, {"net"})
  /\ lock' = IF lock[p] = "net" THEN [lock EXCEPT ![p] = "free"] ELSE lock
  /\ batch' = [batch EXCEPT ![p]["net"] = << >>]
  /\ handed' = [handed EXCEPT ![p] = {}]
  /\ blob' = [blob EXCEPT ![p]["net"] = NoBlob]
  /\ Goto(p, "net", "stopped")
  /\ UNCHANGED <<disk, copy, box, accepted>>

\* The process dies: what is on disk and at the relay stays.
Crash(p) ==
  /\ Strike(Death(p))
  /\ limbo' = limbo \cup Abandoned(p, Task)
  /\ lock' = [lock EXCEPT ![p] = "free"]
  /\ batch' = [batch EXCEPT ![p] = [t \in Task |-> << >>]]
  /\ copy' = [copy EXCEPT ![p] = [t \in Task |-> NoCopy]]
  /\ blob' = [blob EXCEPT ![p] = [t \in Task |-> NoBlob]]
  /\ handed' = [handed EXCEPT ![p] = {}]
  /\ at' = [at EXCEPT ![p] = [t \in Task |-> IF t = "net" THEN "stopped" ELSE "idle"]]
  /\ UNCHANGED <<disk, box, accepted>>

-----------------------------------------------------------------------------
Flush(p, t) ==
  flush_pending(p, t) \/ encrypt_load(p, t) \/ encrypt_store(p, t)
    \/ deposit_accepted(p, t) \/ mark_message_sent(p, t) \/ flush_done(p, t)

Listen(p) ==
  subscribe(p) \/ deliver(p) \/ decrypt_load(p) \/ decrypt_store(p)
    \/ save_incoming(p) \/ ack(p)

Fail(p) ==
  \/ \E t \in Task : flush_failed(p, t) \/ reject_unmarked(p, t) \/ deposit_rejected(p, t)
                       \/ deposit_refused(p, t) \/ deposit_timeout(p, t)
  \/ disconnect(p) \/ store_failed(p) \/ ack_lost(p) \/ expire(p)
  \/ stop_sync(p) \/ Crash(p)

Next ==
  \/ \E p \in Party, t \in Sender : send_chat(p, t)
  \/ \E p \in Party : start_sync(p) \/ idle(p) \/ Listen(p) \/ Fail(p)
  \/ \E p \in Party, t \in Task : Flush(p, t)
  \/ Arrive

Spec == Init /\ [][Next]_vars

\* The runtime polls every ready task, and sync is started.  Strong fairness:
\* tokio grants the guard in the order it is asked for, so a flush that waits
\* is not passed over for ever; and a keepalive round trip is reported only
\* when the connection is silent, so it does not keep off deliveries.
Fairness ==
  \A p \in Party :
    /\ \A t \in Task : SF_vars(Flush(p, t))
    /\ SF_vars(Listen(p))
    /\ WF_vars(idle(p)) /\ WF_vars(start_sync(p))

FairSpec == Spec /\ Fairness
-----------------------------------------------------------------------------
(* Properties *)

RowsOf(q) == {q[i] : i \in 1 .. Len(q)}

\* A row marked sent was taken by the relay, unless it was reported as a
\* permanent failure: whatever timeouts, cancelled flushes, store errors and
\* deaths do, no row is given up silently.
SentMeansAccepted ==
  \A p \in Party : \A i \in 1 .. Len(status[p]) :
    status[p][i] = "sent" => i \in failed[p] \cup RowsOf(accepted[p])

\* The relay first sees a conversation's messages in the order they were
\* written, although two tasks flush and old requests arrive late.
FirstCopiesInOrder ==
  \A p \in Party : \A k \in 1 .. Len(accepted[p]) :
    \A i \in 1 .. accepted[p][k] - 1 :
      i \in failed[p] \cup {accepted[p][j] : j \in 1 .. k - 1}

\* What the relay took from p's peer-bound rows and neither it nor the peer has.
Missing(p) == {i \in RowsOf(accepted[p]) :
  /\ i \notin RowsOf(inbox[Peer(p)])
  /\ \A j \in 1 .. Len(box[Peer(p)]) : box[Peer(p)][j].blob.row # i}

\* Ack-after-persist: a message the relay has taken and no longer holds is a
\* row of the receiver's store, as long as no store call has failed, nothing
\* has expired and the receiver's process has lived.
AckedMeansPersisted ==
  \A p \in Party :
    (\A k \in {"store", "expire", Death(Peer(p))} : faults[k] = 0) => Missing(p) = {}

\* The price of the exceptions: a store call that fails while a message is
\* handled, a death of the receiver between the spent message key and the row,
\* or a message that outlived its TTL, each costs that one message and never
\* another (store_failed, decrypt_message, sweep).
LossBounded ==
  \A p \in Party : Cardinality(Missing(p)) <=
    faults["store"] + faults["expire"] + faults[Death(Peer(p))]

\* The receiver's rows are the sender's in the order they were written, each
\* once, with holes only where the sender was told of a failure: as long as
\* nothing worse happened than dropped connections and refused deposits.
ExactlyOnceInOrder ==
  (\A k \in Fault \ {"drop", "refuse", "reject"} : faults[k] = 0) =>
    \A p \in Party : \A j \in 1 .. Len(inbox[p]) :
      /\ \A k \in 1 .. j - 1 : inbox[p][k] < inbox[p][j]
      /\ \A i \in 1 .. inbox[p][j] - 1 :
           i \in failed[Peer(p)] \cup {inbox[p][k] : k \in 1 .. j - 1}

\* Every message the user sends is eventually in the peer's store or reported
\* as failed, although connections drop and deposits fail a few times.
EventuallyDelivered ==
  \A p \in Party : \A i \in 1 .. Quota[p] :
    (Len(status[p]) >= i) ~> (i \in RowsOf(inbox[Peer(p)]) \cup failed[p])

=============================================================================
