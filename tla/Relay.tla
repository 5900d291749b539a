-------------------------------- MODULE Relay --------------------------------
(***************************************************************************)
(* The mailbox table of the blind relay (tezca-relay): the HTTP handlers   *)
(* that create, fill and delete mailboxes, the periodic sweep, and one     *)
(* WebSocket delivery task per connection.                                 *)
(*                                                                         *)
(* Every handler is split exactly where the code releases the `boxes`      *)
(* mutex or awaits: what happens under one lock is one action.  A blob is  *)
(* its length; a message id, drawn from the OS CSPRNG, is the next unused  *)
(* number.  Admission by the rate limiters is a free choice here (a        *)
(* refused request changes nothing in the table).                          *)
(***************************************************************************)
EXTENDS Integers, Sequences, FiniteSets, Sums

CONSTANTS
  NumIds,        \* mailbox ids are 1 .. NumIds
  NumDeletes,    \* DELETE handlers that may be in flight at once
  Conn,          \* WebSocket connections, each used once
  NoSubscriber,  \* Mailbox.notify = None
  BlobLen,       \* lengths of the blobs clients deposit
  MaxMessages,   \* Config.mailbox_max_messages
  MaxBytes,      \* Config.mailbox_max_bytes
  MaxMailboxes,  \* Config.max_mailboxes
  Ttl,           \* Config.ttl, in clock ticks
  MaxDeposits,   \* bound: deposits accepted in a behaviour
  MaxClock       \* bound: the last clock tick

ASSUME RelayAssumption ==
  /\ NumIds \in Nat /\ NumDeletes \in Nat
  /\ NoSubscriber \notin Conn
  /\ BlobLen \subseteq Nat
  /\ MaxMessages \in Nat /\ MaxBytes \in Nat /\ MaxMailboxes \in Nat
  /\ Ttl \in Nat /\ MaxDeposits \in Nat /\ MaxClock \in Nat

VARIABLES
  boxes,          \* AppState.boxes: ids of the mailboxes in the table
  queue,          \* Mailbox.queue
  queued_bytes,   \* Mailbox.queued_bytes
  last_activity,  \* Mailbox.last_activity
  notify,         \* Mailbox.notify: the connection whose channel it is
  global_bytes,   \* AppState.global_bytes
  settling,       \* per DELETE handler: bytes removed, not yet subtracted
  sweep_now,      \* the instant the running sweep read, before its lock
  clock,          \* Instant::now()
  issued,         \* number of message ids issued
  task,           \* control point of each connection's handler
  target,         \* the mailbox id in the connection's URL
  sent,           \* deliver's `sent`, in the order the frames went out
  frames,         \* the frames collected under the lock, not yet sent
  wakes           \* unread () in the connection's notify channel

table  == <<boxes, queue, queued_bytes, last_activity, notify>>
conns  == <<task, target, sent, frames, wakes>>
vars   == <<boxes, queue, queued_bytes, last_activity, notify, global_bytes,
            settling, sweep_now, clock, issued, task, target, sent, frames,
            wakes>>

MailboxId  == 1 .. NumIds
DeleteCall == 1 .. NumDeletes
MsgId      == 1 .. MaxDeposits
Message    == [id : MsgId, len : BlobLen, deposited_at : 0 .. MaxClock]
Idle       == -1         \* no sweep running / no DELETE in this slot

\* Ids of a queue, in queue order, and the set of them.
Ids(q)     == [i \in 1 .. Len(q) |-> q[i].id]
Lengths(q) == [i \in 1 .. Len(q) |-> q[i].len]
IdSet(q)   == {q[i].id : i \in 1 .. Len(q)}
SentSet(c) == {sent[c][i] : i \in 1 .. Len(sent[c])}

Init ==
  /\ boxes = {}
  /\ queue = [b \in MailboxId |-> << >>]
  /\ queued_bytes = [b \in MailboxId |-> 0]
  /\ last_activity = [b \in MailboxId |-> 0]
  /\ notify = [b \in MailboxId |-> NoSubscriber]
  /\ global_bytes = 0
  /\ settling = [d \in DeleteCall |-> Idle]
  /\ sweep_now = Idle
  /\ clock = 0
  /\ issued = 0
  /\ task = [c \in Conn |-> "unused"]
  /\ target = [c \in Conn |-> 0]
  /\ sent = [c \in Conn |-> << >>]
  /\ frames = [c \in Conn |-> << >>]
  /\ wakes = [c \in Conn |-> 0]

Tick ==
  /\ clock < MaxClock
  /\ clock' = clock + 1
  /\ UNCHANGED <<table, global_bytes, settling, sweep_now, issued, conns>>

-----------------------------------------------------------------------------
(* Creating and deleting mailboxes *)

\* POST /v1/mailboxes: a fresh entry under an id the table does not hold.
create_mailbox(b) ==
  /\ Cardinality(boxes) < MaxMailboxes
  /\ b \notin boxes
  /\ boxes' = boxes \cup {b}
  /\ last_activity' = [last_activity EXCEPT ![b] = clock]
  /\ UNCHANGED <<queue, queued_bytes, notify, global_bytes, settling,
                 sweep_now, clock, issued, conns>>

\* PUT /v1/mailboxes/{id}: an entry that exists is left as it is, its
\* last_activity included.
put_mailbox(b) ==
  /\ Cardinality(boxes) < MaxMailboxes
  /\ boxes' = boxes \cup {b}
  /\ last_activity' = IF b \in boxes THEN last_activity
                      ELSE [last_activity EXCEPT ![b] = clock]
  /\ UNCHANGED <<queue, queued_bytes, notify, global_bytes, settling,
                 sweep_now, clock, issued, conns>>

\* Dropping an entry drops its queue and its sender half of the channel.
Forget(gone) ==
  /\ boxes' = boxes \ gone
  /\ last_activity' =
       [b \in MailboxId |-> IF b \in gone THEN 0 ELSE last_activity[b]]
  /\ notify' =
       [b \in MailboxId |-> IF b \in gone THEN NoSubscriber ELSE notify[b]]

\* DELETE, first half: the entry leaves the table under the lock.
delete_mailbox(d, b) ==
  /\ settling[d] = Idle
  /\ b \in boxes
  /\ settling' = [settling EXCEPT ![d] = queued_bytes[b]]
  /\ Forget({b})
  /\ queue' = [queue EXCEPT ![b] = << >>]
  /\ queued_bytes' = [queued_bytes EXCEPT ![b] = 0]
  /\ UNCHANGED <<global_bytes, sweep_now, clock, issued, conns>>

\* Mutant: DELETE never subtracts what it removed.
delete_settle_skip(d) ==
  /\ settling[d] # Idle
  /\ settling' = [settling EXCEPT ![d] = Idle]
  /\ UNCHANGED <<table, global_bytes, sweep_now, clock, issued, conns>>

\* DELETE, second half: the lock is gone when global_bytes is adjusted.
delete_settle(d) ==
  /\ settling[d] # Idle
  /\ global_bytes' = global_bytes - settling[d]
  /\ settling' = [settling EXCEPT ![d] = Idle]
  /\ UNCHANGED <<table, sweep_now, clock, issued, conns>>

-----------------------------------------------------------------------------
(* Depositing *)

\* Mutant: only the deposit that ends an empty queue wakes the subscriber.
NotifiedOnFirst(b) ==
  [c \in Conn |-> IF c = notify[b] /\ task[c] # "closed" /\ queue[b] = << >>
                  THEN wakes[c] + 1 ELSE wakes[c]]

\* A () is sent into the mailbox's channel; if the task that held the
\* receiving end has returned, the send fails and is ignored.
Notified(b) ==
  [c \in Conn |-> IF c = notify[b] /\ task[c] # "closed"
                  THEN wakes[c] + 1 ELSE wakes[c]]

\* Mutant: the deposit forgets to refresh last_activity.
deposit_no_touch(b, len) ==
  /\ issued < MaxDeposits
  /\ b \in boxes
  /\ Len(queue[b]) < MaxMessages
  /\ queued_bytes[b] + len <= MaxBytes
  /\ issued' = issued + 1
  /\ queued_bytes' = [queued_bytes EXCEPT ![b] = @ + len]
  /\ global_bytes' = global_bytes + len
  /\ queue' = [queue EXCEPT ![b] = Append(@,
                 [id |-> issued + 1, len |-> len, deposited_at |-> clock])]
  /\ wakes' = Notified(b)
  /\ UNCHANGED <<boxes, last_activity, notify, settling, sweep_now, clock,
                 task, target, sent, frames>>

deposit(b, len) ==
  /\ issued < MaxDeposits
  /\ b \in boxes
  /\ Len(queue[b]) < MaxMessages
  /\ queued_bytes[b] + len <= MaxBytes
  /\ issued' = issued + 1
  /\ queued_bytes' = [queued_bytes EXCEPT ![b] = @ + len]
  /\ global_bytes' = global_bytes + len
  /\ queue' = [queue EXCEPT ![b] = Append(@,
                 [id |-> issued + 1, len |-> len, deposited_at |-> clock])]
  /\ last_activity' = [last_activity EXCEPT ![b] = clock]
  /\ wakes' = Notified(b)
  /\ UNCHANGED <<boxes, notify, settling, sweep_now, clock, task, target,
                 sent, frames>>

-----------------------------------------------------------------------------
(* The periodic sweep *)

\* `now` is read before the lock is asked for.
sweep_start ==
  /\ sweep_now = Idle
  /\ sweep_now' = clock
  /\ UNCHANGED <<table, global_bytes, settling, clock, issued, conns>>

\* Instant::duration_since saturates at zero.
Age(t) == IF sweep_now > t THEN sweep_now - t ELSE 0

\* Mutant: >= for >.
ExpiredEarly(m) == Age(m.deposited_at) >= Ttl

Expired(m) == Age(m.deposited_at) > Ttl

\* Mutant: one expired message at the front clears the whole queue.
PopAll(q, n) == n = IF Len(q) > 0 /\ Expired(q[1]) THEN Len(q) ELSE 0

\* How many messages the pop loop takes from the front of q.
PopCount(q, n) ==
  /\ \A i \in 1 .. n : Expired(q[i])
  /\ n < Len(q) => ~Expired(q[n + 1])

sweep ==
  /\ sweep_now # Idle
  /\ \E cut \in [MailboxId -> 0 .. MaxMessages] :
       /\ \A b \in MailboxId : cut[b] <= Len(queue[b]) /\ PopCount(queue[b], cut[b])
       /\ LET dropped == [b \in MailboxId |->
                            Total(Lengths(SubSeq(queue[b], 1, cut[b])))]
              gone    == {b \in boxes : Age(last_activity[b]) > Ttl}
          IN  /\ queue' = [b \in MailboxId |->
                             IF b \in gone THEN << >>
                             ELSE SubSeq(queue[b], cut[b] + 1, Len(queue[b]))]
              /\ queued_bytes' = [b \in MailboxId |->
                                    IF b \in gone THEN 0
                                    ELSE queued_bytes[b] - dropped[b]]
              /\ global_bytes' = global_bytes - Total(dropped)
              /\ Forget(gone)
  /\ sweep_now' = Idle
  /\ UNCHANGED <<settling, clock, issued, conns>>

-----------------------------------------------------------------------------
(* Subscribing and delivering: one task per connection *)

\* GET .../ws: the id is looked up under the lock, then the socket upgrades.
subscribe(c, b) ==
  /\ task[c] = "unused"
  /\ b \in boxes
  /\ task' = [task EXCEPT ![c] = "upgraded"]
  /\ target' = [target EXCEPT ![c] = b]
  /\ UNCHANGED <<table, global_bytes, settling, sweep_now, clock, issued,
                 sent, frames, wakes>>

\* deliver returns: the socket closes and the task's locals are dropped.
Return(c) ==
  /\ task'   = [task   EXCEPT ![c] = "closed"]
  /\ target' = [target EXCEPT ![c] = 0]
  /\ sent'   = [sent   EXCEPT ![c] = << >>]
  /\ frames' = [frames EXCEPT ![c] = << >>]
  /\ wakes'  = [wakes  EXCEPT ![c] = 0]

\* Mutant: a new subscriber waits for the next deposit, without the replay.
register_no_replay(c) ==
  /\ task[c] = "upgraded"
  /\ IF target[c] \in boxes
     THEN /\ notify' = [notify EXCEPT ![target[c]] = c]
          /\ last_activity' = [last_activity EXCEPT ![target[c]] = clock]
          /\ task' = [task EXCEPT ![c] = "select"]
          /\ UNCHANGED <<target, sent, frames, wakes>>
     ELSE Return(c) /\ UNCHANGED <<notify, last_activity>>
  /\ UNCHANGED <<boxes, queue, queued_bytes, global_bytes, settling,
                 sweep_now, clock, issued>>

\* deliver's prologue: take over the mailbox's notify slot.
register(c) ==
  /\ task[c] = "upgraded"
  /\ IF target[c] \in boxes
     THEN /\ notify' = [notify EXCEPT ![target[c]] = c]
          /\ last_activity' = [last_activity EXCEPT ![target[c]] = clock]
          /\ task' = [task EXCEPT ![c] = "scan"]
          /\ UNCHANGED <<target, sent, frames, wakes>>
     ELSE Return(c) /\ UNCHANGED <<notify, last_activity>>
  /\ UNCHANGED <<boxes, queue, queued_bytes, global_bytes, settling,
                 sweep_now, clock, issued>>

\* Mutant: the loop does not filter out what it sent before.
scan_resend(c) ==
  /\ task[c] = "scan"
  /\ IF target[c] \in boxes /\ notify[target[c]] = c
     THEN /\ frames' = [frames EXCEPT ![c] = Ids(queue[target[c]])]
          /\ task' = [task EXCEPT ![c] = "send"]
          /\ UNCHANGED <<target, sent, wakes>>
     ELSE Return(c)
  /\ UNCHANGED <<table, global_bytes, settling, sweep_now, clock, issued>>

\* Mutant: the loop does not check whose channel the slot holds.
scan_unowned(c) ==
  /\ task[c] = "scan"
  /\ IF target[c] \in boxes
     THEN /\ frames' = [frames EXCEPT ![c] =
                          Without(Ids(queue[target[c]]), SentSet(c))]
          /\ task' = [task EXCEPT ![c] = "send"]
          /\ UNCHANGED <<target, sent, wakes>>
     ELSE Return(c)
  /\ UNCHANGED <<table, global_bytes, settling, sweep_now, clock, issued>>

\* Top of the loop: return if the mailbox is gone or the slot is another's,
\* otherwise collect what this connection has not been sent yet.
scan(c) ==
  /\ task[c] = "scan"
  /\ IF target[c] \in boxes /\ notify[target[c]] = c
     THEN /\ frames' = [frames EXCEPT ![c] =
                          Without(Ids(queue[target[c]]), SentSet(c))]
          /\ task' = [task EXCEPT ![c] = "send"]
          /\ UNCHANGED <<target, sent, wakes>>
     ELSE Return(c)
  /\ UNCHANGED <<table, global_bytes, settling, sweep_now, clock, issued>>

\* One socket.send(frame).await that succeeds, outside the lock.
send_frame(c) ==
  /\ task[c] = "send"
  /\ frames[c] # << >>
  /\ sent' = [sent EXCEPT ![c] = Append(@, Head(frames[c]))]
  /\ frames' = [frames EXCEPT ![c] = Tail(@)]
  /\ UNCHANGED <<table, global_bytes, settling, sweep_now, clock, issued,
                 task, target, wakes>>

send_failed(c) ==
  /\ task[c] = "send"
  /\ frames[c] # << >>
  /\ Return(c)
  /\ UNCHANGED <<table, global_bytes, settling, sweep_now, clock, issued>>

\* All frames are out: wait in select!.
send_done(c) ==
  /\ task[c] = "send"
  /\ frames[c] = << >>
  /\ task' = [task EXCEPT ![c] = "select"]
  /\ UNCHANGED <<table, global_bytes, settling, sweep_now, clock, issued,
                 target, sent, frames, wakes>>

\* Mutant: the wake-up is consumed without waiting for one.
wake_spurious(c) ==
  /\ task[c] = "select"
  /\ wakes' = [wakes EXCEPT ![c] = @ - 1]
  /\ task' = [task EXCEPT ![c] = "scan"]
  /\ UNCHANGED <<table, global_bytes, settling, sweep_now, clock, issued,
                 target, sent, frames>>

\* rx.recv() yields a ().  It never yields None: the task keeps `tx` itself.
wake(c) ==
  /\ task[c] = "select"
  /\ wakes[c] > 0
  /\ wakes' = [wakes EXCEPT ![c] = @ - 1]
  /\ task' = [task EXCEPT ![c] = "scan"]
  /\ UNCHANGED <<table, global_bytes, settling, sweep_now, clock, issued,
                 target, sent, frames>>

\* Removal of an acknowledged message, wherever in the queue it stands; an
\* id that is no longer queued is ignored.
handle_ack(b, m) ==
  IF b \in boxes /\ m \in IdSet(queue[b])
  THEN \E pos \in 1 .. Len(queue[b]) :
         /\ queue[b][pos].id = m
         /\ \A i \in 1 .. pos - 1 : queue[b][i].id # m
         /\ queue' = [queue EXCEPT ![b] = RemoveAt(@, pos)]
         /\ queued_bytes' = [queued_bytes EXCEPT ![b] = @ - queue[b][pos].len]
         /\ global_bytes' = global_bytes - queue[b][pos].len
         /\ last_activity' = [last_activity EXCEPT ![b] = clock]
  ELSE UNCHANGED <<queue, queued_bytes, global_bytes, last_activity>>

\* A binary frame: an ack of something sent on this connection.  The task
\* then drains what else the socket has buffered.
recv_ack(c, m) ==
  /\ task[c] \in {"select", "drain"}
  /\ m \in SentSet(c)
  /\ handle_ack(target[c], m)
  /\ task' = [task EXCEPT ![c] = "drain"]
  /\ UNCHANGED <<boxes, notify, settling, sweep_now, clock, issued, target,
                 sent, frames, wakes>>

\* Nothing more is buffered: back to the top of the loop.
drain_done(c) ==
  /\ task[c] = "drain"
  /\ task' = [task EXCEPT ![c] = "scan"]
  /\ UNCHANGED <<table, global_bytes, settling, sweep_now, clock, issued,
                 target, sent, frames, wakes>>

\* Any other frame is ignored, but the loop goes round: at once for a ping,
\* pong or text frame, after draining for a binary frame that is no ack.
recv_other(c) ==
  /\ task[c] = "select"
  /\ \E next \in {"scan", "drain"} : task' = [task EXCEPT ![c] = next]
  /\ UNCHANGED <<table, global_bytes, settling, sweep_now, clock, issued,
                 target, sent, frames, wakes>>

\* Close frame, transport error or end of stream.
recv_close(c) ==
  /\ task[c] \in {"select", "drain"}
  /\ Return(c)
  /\ UNCHANGED <<table, global_bytes, settling, sweep_now, clock, issued>>

-----------------------------------------------------------------------------
\* Steps the runtime takes by itself once they are possible.
Deliver(c) ==
  register(c) \/ scan(c) \/ send_frame(c) \/ send_done(c) \/ wake(c)
    \/ drain_done(c)

\* Steps that wait for the peer on the socket.
Peer(c) ==
  \/ \E b \in MailboxId : subscribe(c, b)
  \/ \E m \in MsgId : recv_ack(c, m)
  \/ recv_other(c) \/ recv_close(c) \/ send_failed(c)

Request ==
  \/ \E b \in MailboxId : create_mailbox(b) \/ put_mailbox(b)
  \/ \E b \in MailboxId, len \in BlobLen : deposit(b, len)
  \/ \E b \in MailboxId, d \in DeleteCall : delete_mailbox(d, b)

Next ==
  \/ Tick
  \/ Request
  \/ \E d \in DeleteCall : delete_settle(d)
  \/ sweep_start \/ sweep
  \/ \E c \in Conn : Deliver(c) \/ Peer(c)

Spec == Init /\ [][Next]_vars

\* tokio polls every ready task: a delivery task that can go on does.
Fairness == \A c \in Conn : WF_vars(Deliver(c))

FairSpec == Spec /\ Fairness
-----------------------------------------------------------------------------
(* Properties *)

TypeOK ==
  /\ boxes \subseteq MailboxId
  /\ queue \in [MailboxId -> Seq(Message)]
  /\ queued_bytes \in [MailboxId -> Int]
  /\ last_activity \in [MailboxId -> 0 .. MaxClock]
  /\ notify \in [MailboxId -> Conn \cup {NoSubscriber}]
  /\ global_bytes \in Int
  /\ settling \in [DeleteCall -> Int]
  /\ sweep_now \in {Idle} \cup 0 .. MaxClock
  /\ clock \in 0 .. MaxClock
  /\ issued \in 0 .. MaxDeposits
  /\ task \in [Conn -> {"unused", "upgraded", "scan", "send", "select",
                         "drain", "closed"}]
  /\ target \in [Conn -> 0 .. NumIds]
  /\ sent \in [Conn -> Seq(MsgId)]
  /\ frames \in [Conn -> Seq(MsgId)]
  /\ wakes \in [Conn -> Nat]

\* The byte counters, kept by += and -= in five handlers, are what a recount
\* would give: a mailbox's counter is the length of its queue's blobs, and
\* the global one is the sum of them plus what a DELETE has removed from the
\* table and not subtracted yet.  So no counter ever wraps below zero.
Outstanding == [d \in DeleteCall |-> IF settling[d] = Idle THEN 0 ELSE settling[d]]

ByteAccounting ==
  /\ \A b \in MailboxId : queued_bytes[b] = Total(Lengths(queue[b]))
  /\ global_bytes = Total(queued_bytes) + Total(Outstanding)

\* What lets the sweep stop at the first fresh message and drop an idle
\* mailbox without recounting: a queue is in deposit order, and the
\* mailbox's last activity is no older than any message it holds.
ActivityCoversQueue ==
  \A b \in MailboxId : \A i \in 1 .. Len(queue[b]) :
    /\ queue[b][i].deposited_at <= last_activity[b]
    /\ \A j \in 1 .. i - 1 : /\ queue[b][j].id < queue[b][i].id
                           /\ queue[b][j].deposited_at <= queue[b][i].deposited_at

\* A task that sleeps in select! while it owns the mailbox has sent the whole
\* queue, or a wake-up is waiting in its channel: a deposit between the
\* locked scan and the sleep is never missed.
NoLostWakeup ==
  \A c \in Conn :
    task[c] = "select" /\ target[c] \in boxes /\ notify[target[c]] = c
      => wakes[c] > 0 \/ IdSet(queue[target[c]]) \subseteq SentSet(c)

\* On one connection messages go out in deposit order and none twice, however
\* scans, acks, expiry and deposits interleave.
InOrderOnce ==
  \A c \in Conn : \A i, j \in 1 .. Len(sent[c]) : i < j => sent[c][i] < sent[c][j]

\* At-least-once: a queued message is dropped only after it was put on some
\* connection, or when it really is older than the TTL, or with its mailbox
\* by a DELETE.
Departs(b, m) ==
  \/ \E c \in Conn : m.id \in SentSet(c)
  \/ clock - m.deposited_at > Ttl
  \/ b \notin boxes' /\ \E d \in DeleteCall : settling[d] = Idle /\ settling'[d] # Idle

NoSilentLoss ==
  [][\A b \in MailboxId : \A i \in 1 .. Len(queue[b]) :
       queue[b][i].id \notin IdSet(queue'[b]) => Departs(b, queue[b][i])]_vars

\* A message queued for a mailbox with a subscribed connection is eventually
\* put on that connection, unless the message, the connection or the
\* connection's claim on the mailbox goes away first.
EventuallySent ==
  \A c \in Conn, b \in MailboxId, m \in MsgId :
    (m \in IdSet(queue[b]) /\ notify[b] = c /\ task[c] # "closed")
      ~> \/ m \in SentSet(c) \/ m \notin IdSet(queue[b])
         \/ notify[b] # c \/ task[c] = "closed"

\* A connection that lost its mailbox to a newer subscriber, to a DELETE or
\* to the sweep is eventually closed.
SupersededCloses ==
  \A c \in Conn :
    (task[c] \notin {"unused", "upgraded", "closed"} /\ notify[target[c]] # c)
      ~> task[c] = "closed"

\* So it is if its client keeps pinging it, as ws.rs does: the loop goes round
\* and finds the slot taken.
PingedCloses == (\A c \in Conn : WF_vars(recv_other(c))) => SupersededCloses

\* Everything the relay's table does is something the mailbox service of
\* relay-api.md may do: lock scopes, byte counters, the two halves of DELETE
\* and the sweeper's stale clock stay invisible to the parties.
Promise == INSTANCE MailboxService WITH
  Mailbox  <- MailboxId,
  Session  <- Conn,
  Caller   <- DeleteCall,
  Msg      <- Message,
  open     <- boxes,
  pending  <- queue,
  handed   <- [c \in Conn |-> SentSet(c)],
  deleting <- {d \in DeleteCall : settling[d] # Idle},
  time     <- clock,
  last     <- issued

ImplementsService == Promise!SSpec
=============================================================================
