----------------------------- MODULE RelayProofs -----------------------------
(***************************************************************************)
(* Proofs about the relay, for any number of mailboxes, connections and    *)
(* DELETE calls, any quota, TTL and clock.  Every variable keeps its type, *)
(* the queues stay in deposit order and younger than their mailbox's last  *)
(* activity (TableInv), and the byte counters are exact (ByteInv),         *)
(* although the sweep subtracts only what it pops and a DELETE subtracts   *)
(* after it has released the lock.  The delivery tasks miss no wake-up     *)
(* (NoLostWakeup), send in deposit order and never the same message twice  *)
(* on a connection (InOrderOnce), and no message leaves a queue unseen     *)
(* before its time (NoSilentLoss).  Put together, every step of the relay  *)
(* is one step of the mailbox service, or none.                            *)
(***************************************************************************)
EXTENDS Relay, SumsProofs

-----------------------------------------------------------------------------
(* Facts about queues *)

\* A message's fields.
LEMMA MessageFields ==
  ASSUME NEW q \in Seq(Message), NEW i \in 1 .. Len(q)
  PROVE  /\ q[i] \in Message /\ q[i].len \in Nat /\ q[i].len \in Int
         /\ q[i].id \in MsgId /\ q[i].deposited_at \in 0 .. MaxClock
<1>1. q[i] \in Message
  OBVIOUS
<1>2. q[i].len \in BlobLen /\ q[i].id \in MsgId /\ q[i].deposited_at \in 0 .. MaxClock
  BY Zenon, <1>1 DEF Message
<1>3. q[i].len \in Nat
  BY Zenon, <1>2, RelayAssumption
<1> QED BY <1>1, <1>2, <1>3

\* The blob lengths and the ids of a queue.
LEMMA QueueViews ==
  ASSUME NEW q \in Seq(Message)
  PROVE  /\ Lengths(q) \in Seq(Nat) /\ Lengths(q) \in Seq(Int)
         /\ Len(Lengths(q)) = Len(q) /\ \A i \in 1 .. Len(q) : Lengths(q)[i] = q[i].len
         /\ Ids(q) \in Seq(MsgId)
         /\ Len(Ids(q)) = Len(q) /\ \A i \in 1 .. Len(q) : Ids(q)[i] = q[i].id
<1>1. \A i \in 1 .. Len(q) : q[i].len \in Nat /\ q[i].id \in MsgId
  BY Zenon, MessageFields
<1>2. Len(q) \in Nat
  OBVIOUS
<1> QED BY <1>1, <1>2 DEF Lengths, Ids

\* What the sweep takes off a queue is a number of bytes.
LEMMA DroppedInt ==
  ASSUME NEW q \in Seq(Message), NEW n \in 0 .. Len(q)
  PROVE  Total(Lengths(SubSeq(q, 1, n))) \in Int
<1>1. SubSeq(q, 1, n) \in Seq(Message)
  OBVIOUS
<1> QED BY Zenon, <1>1, QueueViews, TotalInt

-----------------------------------------------------------------------------
(* Types *)

\* The initial state has the right types.
LEMMA InitType == Init => TypeOK
BY RelayAssumption DEF Init, TypeOK, MailboxId, DeleteCall, Idle

ConnTypes ==
  /\ task \in [Conn -> {"unused", "upgraded", "scan", "send", "select",
                         "drain", "closed"}]
  /\ target \in [Conn -> 0 .. NumIds]
  /\ sent \in [Conn -> Seq(MsgId)]
  /\ frames \in [Conn -> Seq(MsgId)]
  /\ wakes \in [Conn -> Nat]

\* Dropping a task's locals keeps their types.
LEMMA ReturnTypes ==
  ASSUME TypeOK, NEW c \in Conn, Return(c)
  PROVE  ConnTypes'
<1>1. << >> \in Seq(MsgId) /\ 0 \in 0 .. NumIds /\ 0 \in Nat
  BY RelayAssumption
<1>2. task' \in [Conn -> {"unused", "upgraded", "scan", "send", "select",
                          "drain", "closed"}]
  BY Zenon DEF TypeOK, Return
<1>3. target' \in [Conn -> 0 .. NumIds] /\ wakes' \in [Conn -> Nat]
  BY Zenon, <1>1 DEF TypeOK, Return
<1>4. sent' \in [Conn -> Seq(MsgId)] /\ frames' \in [Conn -> Seq(MsgId)]
  BY Zenon, <1>1 DEF TypeOK, Return
<1> QED BY Zenon, <1>2, <1>3, <1>4 DEF ConnTypes

\* Every action of the relay, of the clients and of the clock keeps the types.
LEMMA NextType == TypeOK /\ [Next]_vars => TypeOK'
<1> SUFFICES ASSUME TypeOK, [Next]_vars PROVE TypeOK'
  BY Zenon
<1> USE RelayAssumption
<1>1. CASE UNCHANGED vars
  BY Zenon, <1>1 DEF TypeOK, vars
<1>2. CASE Tick
  BY <1>2 DEF TypeOK, Tick, table, conns
<1>3. ASSUME NEW b \in MailboxId, create_mailbox(b) PROVE TypeOK'
  BY Zenon, <1>3 DEF TypeOK, create_mailbox, conns
<1>4. ASSUME NEW b \in MailboxId, put_mailbox(b) PROVE TypeOK'
  BY Zenon, <1>4 DEF TypeOK, put_mailbox, conns
<1>5. ASSUME NEW b \in MailboxId, NEW len \in BlobLen, deposit(b, len) PROVE TypeOK'
  <2>1. [id |-> issued + 1, len |-> len, deposited_at |-> clock] \in Message
    BY <1>5 DEF TypeOK, deposit, Message, MsgId
  <2>2. wakes' \in [Conn -> Nat]
    BY SMTT(60), <1>5 DEF TypeOK, deposit, Notified
  <2>3. issued' \in 0 .. MaxDeposits
    BY <1>5 DEF TypeOK, deposit
  <2>4. len \in Int
    OBVIOUS
  <2>5. queue' \in [MailboxId -> Seq(Message)]
    BY <1>5, <2>1 DEF TypeOK, deposit
  <2>6. queued_bytes' \in [MailboxId -> Int] /\ global_bytes' \in Int
    BY SMTT(60), <1>5, <2>4 DEF TypeOK, deposit
  <2>7. last_activity' \in [MailboxId -> 0 .. MaxClock]
    BY Zenon, <1>5 DEF TypeOK, deposit
  <2> QED BY Zenon, <1>5, <2>2, <2>3, <2>5, <2>6, <2>7 DEF TypeOK, deposit
<1>6. ASSUME NEW b \in MailboxId, NEW d \in DeleteCall, delete_mailbox(d, b) PROVE TypeOK'
  BY <1>6 DEF TypeOK, delete_mailbox, Forget, conns
<1>7. ASSUME NEW d \in DeleteCall, delete_settle(d) PROVE TypeOK'
  BY SMTT(30), <1>7 DEF TypeOK, delete_settle, table, conns, Idle
<1>8. CASE sweep_start
  BY Zenon, <1>8 DEF TypeOK, sweep_start, table, conns
<1>9. CASE sweep
  <2>1. PICK cut \in [MailboxId -> 0 .. MaxMessages] :
          /\ \A b \in MailboxId : cut[b] <= Len(queue[b])
          /\ queue' = [b \in MailboxId |->
                         IF b \in {x \in boxes : Age(last_activity[x]) > Ttl} THEN << >>
                         ELSE SubSeq(queue[b], cut[b] + 1, Len(queue[b]))]
          /\ queued_bytes' = [b \in MailboxId |->
                IF b \in {x \in boxes : Age(last_activity[x]) > Ttl} THEN 0
                ELSE queued_bytes[b] - Total(Lengths(SubSeq(queue[b], 1, cut[b])))]
          /\ global_bytes' = global_bytes -
               Total([b \in MailboxId |-> Total(Lengths(SubSeq(queue[b], 1, cut[b])))])
          /\ Forget({x \in boxes : Age(last_activity[x]) > Ttl})
    BY Zenon, <1>9 DEF sweep
  <2>2. \A b \in MailboxId : Total(Lengths(SubSeq(queue[b], 1, cut[b]))) \in Int
    <3> TAKE b \in MailboxId
    <3>1. queue[b] \in Seq(Message) /\ cut[b] \in 0 .. Len(queue[b])
      BY <2>1 DEF TypeOK
    <3> QED BY Zenon, <3>1, DroppedInt
  <2>3. [b \in MailboxId |-> Total(Lengths(SubSeq(queue[b], 1, cut[b])))] \in Seq(Int)
    BY <2>2 DEF MailboxId
  <2>4. Total([b \in MailboxId |-> Total(Lengths(SubSeq(queue[b], 1, cut[b])))]) \in Int
    BY Zenon, <2>3, TotalInt
  <2>5. global_bytes' \in Int
    BY <2>1, <2>4 DEF TypeOK
  <2>6. queued_bytes' \in [MailboxId -> Int]
    BY <2>1, <2>2 DEF TypeOK
  <2>7. queue' \in [MailboxId -> Seq(Message)]
    <3>1. \A b \in MailboxId : SubSeq(queue[b], cut[b] + 1, Len(queue[b])) \in Seq(Message)
      <4> TAKE b \in MailboxId
      <4>1. queue[b] \in Seq(Message) /\ cut[b] \in 0 .. Len(queue[b])
        BY <2>1 DEF TypeOK
      <4> QED BY <4>1
    <3> QED BY <2>1, <3>1
  <2>8. /\ boxes' \subseteq MailboxId
        /\ last_activity' \in [MailboxId -> 0 .. MaxClock]
        /\ notify' \in [MailboxId -> Conn \cup {NoSubscriber}]
    BY <2>1 DEF TypeOK, Forget
  <2> QED BY Zenon, <1>9, <2>5, <2>6, <2>7, <2>8 DEF TypeOK, sweep, conns
<1>10. ASSUME NEW c \in Conn, Deliver(c) \/ Peer(c) PROVE TypeOK'
  <2>1. ASSUME NEW b \in MailboxId, subscribe(c, b) PROVE TypeOK'
    BY SMTT(60), <2>1 DEF TypeOK, subscribe, table, MailboxId
  <2>2. CASE register(c)
    <3>1. CASE target[c] \in boxes
      <4>1. target[c] \in MailboxId
        BY Zenon, <3>1 DEF TypeOK
      <4>2. notify' \in [MailboxId -> Conn \cup {NoSubscriber}]
        BY Zenon, <2>2, <3>1, <4>1 DEF TypeOK, register
      <4>3. last_activity' \in [MailboxId -> 0 .. MaxClock]
        BY Zenon, <2>2, <3>1, <4>1 DEF TypeOK, register
      <4> QED BY Zenon, <2>2, <3>1, <4>2, <4>3 DEF TypeOK, register
    <3>2. CASE target[c] \notin boxes
      <4>1. ConnTypes'
        BY Zenon, <2>2, <3>2, ReturnTypes DEF register
      <4> QED BY Zenon, <2>2, <3>2, <4>1 DEF TypeOK, ConnTypes, register
    <3> QED BY Zenon, <3>1, <3>2
  <2>3. CASE scan(c)
    <3>1. ASSUME target[c] \in boxes
          PROVE  Without(Ids(queue[target[c]]), SentSet(c)) \in Seq(MsgId)
      <4>1. Ids(queue[target[c]]) \in Seq(MsgId)
        BY Zenon, <3>1, QueueViews DEF TypeOK
      <4> QED BY Zenon, <4>1, WithoutMembers
    <3>2. CASE target[c] \in boxes /\ notify[target[c]] = c
      BY ZenonT(60), <2>3, <3>1, <3>2 DEF TypeOK, scan, table
    <3>3. CASE ~ (target[c] \in boxes /\ notify[target[c]] = c)
      <4>1. ConnTypes'
        BY Zenon, <2>3, <3>3, ReturnTypes DEF scan
      <4> QED BY Zenon, <2>3, <4>1 DEF TypeOK, ConnTypes, scan, table
    <3> QED BY Zenon, <3>2, <3>3
  <2>4. CASE send_frame(c)
    <3>1. Head(frames[c]) \in MsgId /\ Tail(frames[c]) \in Seq(MsgId)
      BY <2>4 DEF TypeOK, send_frame
    <3> QED BY SMTT(60), <2>4, <3>1 DEF TypeOK, send_frame, table
  <2>5. CASE send_done(c)
    BY Zenon, <2>5 DEF TypeOK, send_done, table
  <2>6. CASE wake(c)
    BY SMTT(30), <2>6 DEF TypeOK, wake, table
  <2>7. CASE drain_done(c)
    BY Zenon, <2>7 DEF TypeOK, drain_done, table
  <2>8. ASSUME NEW m \in MsgId, recv_ack(c, m) PROVE TypeOK'
    <3>1. CASE UNCHANGED <<queue, queued_bytes, global_bytes, last_activity>>
      BY Zenon, <2>8, <3>1 DEF TypeOK, recv_ack
    <3>2. ASSUME NEW pos \in 1 .. Len(queue[target[c]]), target[c] \in boxes,
                 queue' = [queue EXCEPT ![target[c]] = RemoveAt(@, pos)],
                 queued_bytes' = [queued_bytes EXCEPT ![target[c]] =
                                    @ - queue[target[c]][pos].len],
                 global_bytes' = global_bytes - queue[target[c]][pos].len,
                 last_activity' = [last_activity EXCEPT ![target[c]] = clock]
          PROVE  TypeOK'
      <4>1. target[c] \in MailboxId /\ queue[target[c]] \in Seq(Message)
        BY Zenon, <3>2 DEF TypeOK
      <4>2. RemoveAt(queue[target[c]], pos) \in Seq(Message)
        BY Zenon, <4>1, RemoveAtProperties
      <4>3. queue[target[c]][pos].len \in Int
        BY Zenon, <4>1, MessageFields
      <4>4. queue' \in [MailboxId -> Seq(Message)]
        BY Zenon, <3>2, <4>1, <4>2 DEF TypeOK
      <4>5. queued_bytes' \in [MailboxId -> Int] /\ global_bytes' \in Int
        <5>1. queued_bytes[target[c]] \in Int /\ global_bytes \in Int
          BY Zenon, <4>1 DEF TypeOK
        <5>2. /\ queued_bytes[target[c]] - queue[target[c]][pos].len \in Int
              /\ global_bytes - queue[target[c]][pos].len \in Int
          BY SMTT(60), <4>3, <5>1
        <5> QED BY Zenon, <3>2, <4>1, <5>2 DEF TypeOK
      <4>6. last_activity' \in [MailboxId -> 0 .. MaxClock]
        BY Zenon, <3>2, <4>1 DEF TypeOK
      <4> QED BY ZenonT(60), <2>8, <4>4, <4>5, <4>6 DEF TypeOK, recv_ack
    <3> QED BY Zenon, <2>8, <3>1, <3>2 DEF recv_ack, handle_ack
  <2>9. CASE recv_other(c)
    BY Zenon, <2>9 DEF TypeOK, recv_other, table
  <2>10. CASE recv_close(c)
    <3>1. ConnTypes'
      BY Zenon, <2>10, ReturnTypes DEF recv_close
    <3> QED BY Zenon, <2>10, <3>1 DEF TypeOK, ConnTypes, recv_close, table
  <2>11. CASE send_failed(c)
    <3>1. ConnTypes'
      BY Zenon, <2>11, ReturnTypes DEF send_failed
    <3> QED BY Zenon, <2>11, <3>1 DEF TypeOK, ConnTypes, send_failed, table
  <2> QED BY Zenon, <1>10, <2>1, <2>2, <2>3, <2>4, <2>5, <2>6, <2>7, <2>8, <2>9,
             <2>10, <2>11 DEF Deliver, Peer
<1> QED BY Zenon, <1>1, <1>2, <1>3, <1>4, <1>5, <1>6, <1>7, <1>8, <1>9, <1>10
        DEF Next, Request

\* The relay's state keeps its types.
THEOREM TypeCorrect == Spec => []TypeOK
<1>1. Init => TypeOK
  BY Zenon, InitType
<1>2. TypeOK /\ [Next]_vars => TypeOK'
  BY Zenon, NextType
<1> QED BY <1>1, <1>2, PTL DEF Spec

-----------------------------------------------------------------------------
(* The queues and the times of the table *)

Ordered(q) ==
  \A i \in 1 .. Len(q) : \A j \in 1 .. i - 1 :
    q[j].id < q[i].id /\ q[j].deposited_at <= q[i].deposited_at

UpTo(q, n, t) ==
  \A i \in 1 .. Len(q) : q[i].id <= n /\ q[i].deposited_at <= t

\* An empty queue is in order, whatever the bounds.
LEMMA EmptyQueue == ASSUME NEW n, NEW t PROVE Ordered(<< >>) /\ UpTo(<< >>, n, t)
BY DEF Ordered, UpTo

\* A later bound is a weaker one.
LEMMA UpToWeaker ==
  ASSUME NEW q \in Seq(Message), NEW n \in Nat, NEW t \in Nat, UpTo(q, n, t),
         NEW n2 \in Nat, NEW t2 \in Nat, n <= n2, t <= t2
  PROVE  UpTo(q, n2, t2)
<1> SUFFICES ASSUME NEW i \in 1 .. Len(q)
             PROVE  q[i].id <= n2 /\ q[i].deposited_at <= t2
  BY Zenon DEF UpTo
<1>1. q[i].id \in Nat /\ q[i].deposited_at \in Nat
  BY MessageFields DEF MsgId
<1>2. q[i].id <= n /\ q[i].deposited_at <= t
  BY Zenon DEF UpTo
<1> QED BY <1>1, <1>2

\* A deposit keeps the order.
LEMMA AppendOrdered ==
  ASSUME NEW q \in Seq(Message), NEW n \in Nat, NEW t \in Nat,
         Ordered(q), UpTo(q, n, t),
         NEW m \in Message, m.id = n + 1, t <= m.deposited_at
  PROVE  Ordered(Append(q, m)) /\ UpTo(Append(q, m), n + 1, m.deposited_at)
<1> DEFINE a == Append(q, m)
<1>1. /\ Len(a) = Len(q) + 1 /\ a[Len(q) + 1] = m
      /\ \A i \in 1 .. Len(q) : a[i] = q[i]
  OBVIOUS
<1> HIDE DEF a
<1>2. m.deposited_at \in Nat
  BY DEF Message
<1>3. \A i \in 1 .. Len(q) :
        /\ q[i].id \in Nat /\ q[i].deposited_at \in Nat
        /\ q[i].id <= n /\ q[i].deposited_at <= t
  BY MessageFields DEF MsgId, UpTo
<1>4. \A i \in 1 .. Len(q) : q[i].id < n + 1 /\ q[i].id <= n + 1 /\ q[i].deposited_at <= m.deposited_at
  BY SMTT(30), <1>2, <1>3
<1>5. UpTo(a, n + 1, m.deposited_at)
  <2> SUFFICES ASSUME NEW i \in 1 .. Len(q) + 1
               PROVE  a[i].id <= n + 1 /\ a[i].deposited_at <= m.deposited_at
    BY Zenon, <1>1 DEF UpTo
  <2>1. CASE i = Len(q) + 1
    BY <1>1, <1>2, <2>1
  <2>2. CASE i \in 1 .. Len(q)
    BY Zenon, <1>1, <1>4, <2>2
  <2> QED BY <2>1, <2>2
<1>6. Ordered(a)
  <2> SUFFICES ASSUME NEW i \in 1 .. Len(q) + 1, NEW j \in 1 .. i - 1
               PROVE  a[j].id < a[i].id /\ a[j].deposited_at <= a[i].deposited_at
    BY Zenon, <1>1 DEF Ordered
  <2>1. j \in 1 .. Len(q)
    OBVIOUS
  <2>2. CASE i = Len(q) + 1
    BY Zenon, <1>1, <1>4, <2>1, <2>2
  <2>3. CASE i \in 1 .. Len(q)
    BY Zenon, <1>1, <2>1, <2>3 DEF Ordered
  <2> QED BY <2>2, <2>3
<1> QED BY Zenon, <1>5, <1>6 DEF a

\* An ack anywhere in the queue keeps the order of the rest.
LEMMA RemoveAtOrdered ==
  ASSUME NEW q \in Seq(Message), NEW p \in 1 .. Len(q), NEW n, NEW t,
         Ordered(q), UpTo(q, n, t)
  PROVE  Ordered(RemoveAt(q, p)) /\ UpTo(RemoveAt(q, p), n, t)
<1> DEFINE r == RemoveAt(q, p)
           old(i) == IF i < p THEN i ELSE i + 1
<1>1. /\ Len(r) = Len(q) - 1
      /\ \A i \in 1 .. Len(q) - 1 : i < p => r[i] = q[i]
      /\ \A i \in 1 .. Len(q) - 1 : i >= p => r[i] = q[i + 1]
  BY Zenon, RemoveAtProperties
<1> HIDE DEF r
<1>2. \A i \in 1 .. Len(q) - 1 : old(i) \in 1 .. Len(q) /\ r[i] = q[old(i)]
  BY <1>1
<1>3. \A i \in 1 .. Len(q) - 1 : \A j \in 1 .. i - 1 :
        j \in 1 .. Len(q) - 1 /\ old(j) \in 1 .. old(i) - 1
  OBVIOUS
<1> HIDE DEF old
<1>4. UpTo(r, n, t)
  BY Zenon, <1>1, <1>2 DEF UpTo
<1>5. Ordered(r)
  <2> SUFFICES ASSUME NEW i \in 1 .. Len(q) - 1, NEW j \in 1 .. i - 1
               PROVE  r[j].id < r[i].id /\ r[j].deposited_at <= r[i].deposited_at
    BY Zenon, <1>1 DEF Ordered
  <2>1. r[i] = q[old(i)] /\ r[j] = q[old(j)]
    BY Zenon, <1>2, <1>3
  <2>2. q[old(j)].id < q[old(i)].id /\ q[old(j)].deposited_at <= q[old(i)].deposited_at
    BY Zenon, <1>2, <1>3 DEF Ordered
  <2> QED BY Zenon, <2>1, <2>2
<1> QED BY Zenon, <1>4, <1>5 DEF r

\* Popping from the front keeps the order of the rest.
LEMMA SuffixOrdered ==
  ASSUME NEW q \in Seq(Message), NEW k \in 0 .. Len(q), NEW n, NEW t,
         Ordered(q), UpTo(q, n, t)
  PROVE  /\ Ordered(SubSeq(q, k + 1, Len(q))) /\ UpTo(SubSeq(q, k + 1, Len(q)), n, t)
<1> DEFINE r == SubSeq(q, k + 1, Len(q))
<1>1. Len(r) = Len(q) - k /\ \A i \in 1 .. Len(q) - k : r[i] = q[i + k]
  OBVIOUS
<1> HIDE DEF r
<1>2. \A i \in 1 .. Len(q) - k : i + k \in 1 .. Len(q)
  OBVIOUS
<1>3. \A i \in 1 .. Len(q) - k : \A j \in 1 .. i - 1 :
        j \in 1 .. Len(q) - k /\ j + k \in 1 .. (i + k) - 1
  OBVIOUS
<1>4. UpTo(r, n, t)
  BY Zenon, <1>1, <1>2 DEF UpTo
<1>5. Ordered(r)
  <2> SUFFICES ASSUME NEW i \in 1 .. Len(q) - k, NEW j \in 1 .. i - 1
               PROVE  r[j].id < r[i].id /\ r[j].deposited_at <= r[i].deposited_at
    BY Zenon, <1>1 DEF Ordered
  <2>1. r[i] = q[i + k] /\ r[j] = q[j + k]
    BY Zenon, <1>1, <1>3
  <2>2. q[j + k].id < q[i + k].id /\ q[j + k].deposited_at <= q[i + k].deposited_at
    BY Zenon, <1>2, <1>3 DEF Ordered
  <2> QED BY Zenon, <2>1, <2>2
<1> QED BY Zenon, <1>4, <1>5 DEF r
-----------------------------------------------------------------------------
(* The table invariant *)

\* A mailbox's queue is in deposit order, holds ids already issued and is no
\* younger than the last activity; an id outside the table has no queue and
\* no subscriber.
MailboxOK(b) ==
  /\ Ordered(queue[b])
  /\ UpTo(queue[b], issued, last_activity[b])
  /\ last_activity[b] <= clock
  /\ b \notin boxes => queue[b] = << >> /\ notify[b] = NoSubscriber

TableInv == sweep_now <= clock /\ \A b \in MailboxId : MailboxOK(b)

\* Empty queues satisfy the table invariant.
LEMMA InitTable == Init => TableInv
BY EmptyQueue, RelayAssumption DEF Init, TableInv, MailboxOK, Idle

\* What a sweep does to each mailbox, TableInv given: it pops a prefix of
\* messages older than the TTL by the sweep's own clock reading, and a
\* mailbox it drops had no other message left.
LEMMA SweepCuts ==
  ASSUME TypeOK, TableInv, sweep
  PROVE  \E cut \in [MailboxId -> Nat] :
           /\ \A b \in MailboxId :
                /\ cut[b] \in 0 .. Len(queue[b])
                /\ \A i \in 1 .. cut[b] : clock - queue[b][i].deposited_at > Ttl
                /\ queue'[b] = SubSeq(queue[b], cut[b] + 1, Len(queue[b]))
                /\ b \in boxes \ boxes' => cut[b] = Len(queue[b])
                /\ queued_bytes'[b] = IF b \in boxes \ boxes' THEN 0
                     ELSE queued_bytes[b] - Total(Lengths(SubSeq(queue[b], 1, cut[b])))
           /\ global_bytes' = global_bytes -
                Total([b \in MailboxId |-> Total(Lengths(SubSeq(queue[b], 1, cut[b])))])
<1> DEFINE gone == {x \in boxes : Age(last_activity[x]) > Ttl}
<1>1. PICK cut \in [MailboxId -> 0 .. MaxMessages] :
        /\ \A b \in MailboxId : cut[b] <= Len(queue[b]) /\ PopCount(queue[b], cut[b])
        /\ queue' = [b \in MailboxId |-> IF b \in gone THEN << >>
                       ELSE SubSeq(queue[b], cut[b] + 1, Len(queue[b]))]
        /\ queued_bytes' = [b \in MailboxId |-> IF b \in gone THEN 0
              ELSE queued_bytes[b] - Total(Lengths(SubSeq(queue[b], 1, cut[b])))]
        /\ global_bytes' = global_bytes -
             Total([b \in MailboxId |-> Total(Lengths(SubSeq(queue[b], 1, cut[b])))])
        /\ Forget(gone)
  BY Zenon DEF sweep
<1>2. boxes \ boxes' = gone
  BY Zenon, <1>1 DEF Forget
<1>3. sweep_now \in Nat /\ clock \in Nat /\ sweep_now <= clock
  BY RelayAssumption DEF sweep, TypeOK, TableInv, Idle
<1>4. ASSUME NEW b \in MailboxId
      PROVE  /\ cut[b] \in 0 .. Len(queue[b])
             /\ \A i \in 1 .. cut[b] : clock - queue[b][i].deposited_at > Ttl
             /\ b \in gone => cut[b] = Len(queue[b])
             /\ queue'[b] = SubSeq(queue[b], cut[b] + 1, Len(queue[b]))
  <2> DEFINE q == queue[b]
  <2>1. q \in Seq(Message) /\ cut[b] \in 0 .. Len(q) /\ last_activity[b] \in Nat
    BY <1>1, RelayAssumption DEF TypeOK
  <2>2. \A i \in 1 .. Len(q) : q[i].deposited_at \in Nat
    BY <2>1, MessageFields
  <2>3. \A i \in 1 .. cut[b] : Expired(q[i])
    BY Zenon, <1>1 DEF PopCount
  <2>4. \A i \in 1 .. cut[b] : clock - q[i].deposited_at > Ttl
    <3> TAKE i \in 1 .. cut[b]
    <3>1. i \in 1 .. Len(q)
      BY <2>1
    <3>2. q[i].deposited_at \in Nat /\ Age(q[i].deposited_at) > Ttl
      BY Zenon, <3>1, <2>2, <2>3 DEF Expired
    <3> QED BY <3>2, <1>3, RelayAssumption DEF Age
  <2>5. ASSUME b \in gone PROVE cut[b] = Len(q)
    <3>1. Age(last_activity[b]) > Ttl
      BY Zenon, <2>5
    <3>2. \A i \in 1 .. Len(q) : q[i].deposited_at <= last_activity[b]
      BY Zenon DEF TableInv, MailboxOK, UpTo
    <3>3. \A i \in 1 .. Len(q) : Expired(q[i])
      BY SMTT(60), <3>1, <3>2, <2>1, <2>2, <1>3, RelayAssumption DEF Expired, Age
    <3>4. cut[b] < Len(q) => ~Expired(q[cut[b] + 1])
      BY Zenon, <1>1 DEF PopCount
    <3>5. Len(q) \in Nat
      BY <2>1
    <3> HIDE DEF q
    <3> QED BY <3>3, <3>4, <3>5, <2>1
  <2>6. queue'[b] = SubSeq(q, cut[b] + 1, Len(q))
    <3>1. CASE b \in gone
      <4>1. queue'[b] = << >>
        BY Zenon, <1>1, <3>1
      <4>2. SubSeq(q, Len(q) + 1, Len(q)) = << >>
        BY <2>1
      <4> QED BY Zenon, <4>1, <4>2, <3>1, <2>5
    <3>2. CASE b \notin gone
      BY Zenon, <1>1, <3>2
    <3> QED BY Zenon, <3>1, <3>2
  <2> QED BY Zenon, <2>1, <2>4, <2>5, <2>6
<1>5. \A b \in MailboxId :
        queued_bytes'[b] = IF b \in gone THEN 0
          ELSE queued_bytes[b] - Total(Lengths(SubSeq(queue[b], 1, cut[b])))
  BY Zenon, <1>1
<1>6. cut \in [MailboxId -> Nat]
  OBVIOUS
<1> HIDE DEF gone
<1> QED BY Zenon, <1>1, <1>2, <1>4, <1>5, <1>6
\* What MailboxOK(b) is about, unchanged.
LEMMA MailboxStays ==
  ASSUME NEW b \in MailboxId, TypeOK, MailboxOK(b),
         queue'[b] = queue[b], last_activity'[b] = last_activity[b],
         notify'[b] = notify[b], b \in boxes' <=> b \in boxes,
         issued' \in Nat, issued <= issued', clock' \in Nat, clock <= clock'
  PROVE  MailboxOK(b)'
<1>1. queue[b] \in Seq(Message) /\ issued \in Nat /\ last_activity[b] \in Nat /\ clock \in Nat
  BY RelayAssumption DEF TypeOK
<1>2. UpTo(queue[b], issued', last_activity[b])
  BY <1>1, UpToWeaker DEF MailboxOK
<1>3. last_activity[b] <= clock'
  BY <1>1 DEF MailboxOK
<1> QED BY Zenon, <1>2, <1>3 DEF MailboxOK

\* Every action keeps the table invariant.
LEMMA NextTable == TypeOK /\ TableInv /\ [Next]_vars => TableInv'
<1> SUFFICES ASSUME TypeOK, TableInv, [Next]_vars PROVE TableInv'
  BY Zenon
<1> USE RelayAssumption
<1>0. /\ TypeOK' /\ issued \in Nat /\ clock \in Nat /\ sweep_now \in Int
      /\ sweep_now <= clock
  BY SMTT(60), NextType DEF TypeOK, TableInv, Idle
<1>1. ASSUME UNCHANGED <<table, issued>>, clock' \in Nat, clock <= clock',
             sweep_now' <= clock'
      PROVE  TableInv'
  <2>1. \A b \in MailboxId : MailboxOK(b)'
    BY <1>0, <1>1, MailboxStays DEF TableInv, table
  <2> QED BY Zenon, <1>1, <2>1 DEF TableInv
<1>2. CASE UNCHANGED vars
  BY <1>0, <1>1, <1>2 DEF vars, table
<1>3. CASE Tick
  BY <1>0, <1>1, <1>3 DEF Tick
<1>4. ASSUME NEW b \in MailboxId, create_mailbox(b) \/ put_mailbox(b) PROVE TableInv'
  <2>1. ASSUME NEW x \in MailboxId PROVE MailboxOK(x)'
    <3>1. CASE x # b \/ b \in boxes
      <4>1. /\ queue'[x] = queue[x] /\ last_activity'[x] = last_activity[x]
            /\ notify'[x] = notify[x] /\ (x \in boxes' <=> x \in boxes)
            /\ issued' = issued /\ clock' = clock
        BY Zenon, <1>4, <3>1 DEF create_mailbox, put_mailbox, TypeOK
      <4> QED BY <4>1, <1>0, MailboxStays DEF TableInv
    <3>2. CASE x = b /\ b \notin boxes
      <4>1. queue'[b] = << >> /\ last_activity'[b] = clock /\ clock' = clock /\ b \in boxes'
        BY Zenon, <1>4, <3>2 DEF create_mailbox, put_mailbox, TypeOK, TableInv, MailboxOK
      <4>2. UpTo(<< >>, issued', clock)
        BY Zenon, EmptyQueue
      <4> QED BY SMTT(60), <4>1, <4>2, <3>2, <1>0, EmptyQueue DEF MailboxOK
    <3> QED BY Zenon, <3>1, <3>2
  <2>2. sweep_now' <= clock'
    BY Zenon, <1>0, <1>4 DEF create_mailbox, put_mailbox
  <2> QED BY Zenon, <2>1, <2>2 DEF TableInv
<1>5. ASSUME NEW b \in MailboxId, NEW len \in BlobLen, deposit(b, len) PROVE TableInv'
  <2> DEFINE m == [id |-> issued + 1, len |-> len, deposited_at |-> clock]
  <2>1. m \in Message /\ m.id = issued + 1 /\ m.deposited_at = clock
    BY <1>5 DEF TypeOK, deposit, Message, MsgId
  <2>2. /\ queue' = [queue EXCEPT ![b] = Append(@, m)] /\ issued' = issued + 1
        /\ last_activity' = [last_activity EXCEPT ![b] = clock] /\ clock' = clock
        /\ notify' = notify /\ boxes' = boxes /\ sweep_now' = sweep_now /\ b \in boxes
    BY Zenon, <1>5 DEF deposit
  <2> HIDE DEF m
  <2>3. MailboxOK(b)'
    <3>1. queue[b] \in Seq(Message) /\ last_activity[b] \in Nat /\ last_activity[b] <= clock
      BY DEF TypeOK, TableInv, MailboxOK
    <3>2. Ordered(Append(queue[b], m)) /\ UpTo(Append(queue[b], m), issued + 1, clock)
      <4>1. Ordered(queue[b]) /\ UpTo(queue[b], issued, last_activity[b])
        BY Zenon DEF TableInv, MailboxOK
      <4> QED BY Zenon, <4>1, <3>1, <2>1, <1>0, AppendOrdered
    <3>3. queue'[b] = Append(queue[b], m) /\ last_activity'[b] = clock
      BY Zenon, <2>2 DEF TypeOK
    <3> QED BY <2>2, <3>2, <3>3, <1>0 DEF MailboxOK
  <2>4. ASSUME NEW x \in MailboxId, x # b PROVE MailboxOK(x)'
    <3>1. /\ queue'[x] = queue[x] /\ last_activity'[x] = last_activity[x]
          /\ notify'[x] = notify[x] /\ (x \in boxes' <=> x \in boxes)
      BY Zenon, <2>2, <2>4 DEF TypeOK
    <3>2. issued' \in Nat /\ issued <= issued' /\ clock' = clock
      BY <2>2, <1>0
    <3> QED BY SMTT(60), <3>1, <3>2, <1>0, MailboxStays DEF TableInv
  <2> QED BY Zenon, <2>2, <2>3, <2>4, <1>0 DEF TableInv
<1>6. ASSUME NEW b \in MailboxId, NEW d \in DeleteCall, delete_mailbox(d, b) PROVE TableInv'
  <2>1. ASSUME NEW x \in MailboxId, x # b PROVE MailboxOK(x)'
    <3>1. /\ queue'[x] = queue[x] /\ last_activity'[x] = last_activity[x]
          /\ notify'[x] = notify[x] /\ (x \in boxes' <=> x \in boxes)
          /\ issued' = issued /\ clock' = clock
      BY Zenon, <1>6, <2>1 DEF delete_mailbox, Forget, TypeOK
    <3> QED BY SMTT(60), <3>1, <1>0, MailboxStays DEF TableInv
  <2>2. MailboxOK(b)'
    <3>1. queue'[b] = << >> /\ last_activity'[b] = 0 /\ notify'[b] = NoSubscriber /\ clock' = clock
      BY Zenon, <1>6 DEF delete_mailbox, Forget, TypeOK
    <3> QED BY SMTT(60), <3>1, <1>0, EmptyQueue DEF MailboxOK
  <2> QED BY Zenon, <1>6, <2>1, <2>2, <1>0 DEF TableInv, delete_mailbox
<1>7. ASSUME NEW d \in DeleteCall, delete_settle(d) PROVE TableInv'
  BY <1>0, <1>1, <1>7 DEF delete_settle
<1>8. CASE sweep_start
  BY <1>0, <1>1, <1>8 DEF sweep_start
<1>9. CASE sweep
  <2>1. PICK cut \in [MailboxId -> Nat] : \A b \in MailboxId :
                /\ cut[b] \in 0 .. Len(queue[b])
                /\ queue'[b] = SubSeq(queue[b], cut[b] + 1, Len(queue[b]))
                /\ b \in boxes \ boxes' => cut[b] = Len(queue[b])
    BY Zenon, <1>9, SweepCuts
  <2>2. /\ issued' = issued /\ clock' = clock /\ sweep_now' <= clock' /\ boxes' \subseteq boxes
        /\ \A b \in MailboxId :
             IF b \in boxes \ boxes'
             THEN last_activity'[b] = 0 /\ notify'[b] = NoSubscriber
             ELSE last_activity'[b] = last_activity[b] /\ notify'[b] = notify[b]
    BY <1>9, <1>0 DEF sweep, Forget, Idle
  <2>3. ASSUME NEW b \in MailboxId PROVE MailboxOK(b)'
    <3>1. /\ queue[b] \in Seq(Message) /\ cut[b] \in 0 .. Len(queue[b])
          /\ Ordered(queue[b]) /\ UpTo(queue[b], issued, last_activity[b])
          /\ last_activity[b] <= clock
          /\ b \notin boxes => queue[b] = << >> /\ notify[b] = NoSubscriber
      BY Zenon, <2>1 DEF TypeOK, TableInv, MailboxOK
    <3>2. Ordered(queue'[b]) /\ UpTo(queue'[b], issued, last_activity[b])
      BY ZenonT(60), <3>1, <2>1, SuffixOrdered
    <3>3. CASE b \in boxes \ boxes'
      <4>1. queue'[b] = << >>
        BY <2>1, <3>1, <3>3
      <4> QED BY SMTT(30), <4>1, <2>2, <3>3, <1>0, EmptyQueue DEF MailboxOK
    <3>4. CASE b \notin boxes \ boxes'
      <4>1. b \notin boxes' => queue'[b] = << >> /\ notify'[b] = NoSubscriber
        BY SMTT(60), <2>1, <2>2, <3>1, <3>4
      <4> QED BY Zenon, <4>1, <3>1, <3>2, <3>4, <2>2 DEF MailboxOK
    <3> QED BY Zenon, <3>3, <3>4
  <2> QED BY Zenon, <2>2, <2>3 DEF TableInv
<1>10. ASSUME NEW c \in Conn, Deliver(c) \/ Peer(c) PROVE TableInv'
  <2>1. CASE register(c)
    <3> DEFINE b == target[c]
    <3>1. CASE b \notin boxes
      BY <1>0, <1>1, <2>1, <3>1 DEF register, table
    <3>2. CASE b \in boxes
      <4>1. /\ queue' = queue /\ boxes' = boxes /\ issued' = issued /\ clock' = clock
            /\ sweep_now' = sweep_now /\ b \in MailboxId
            /\ last_activity' = [last_activity EXCEPT ![b] = clock]
            /\ notify' = [notify EXCEPT ![b] = c]
        BY Zenon, <2>1, <3>2 DEF register, TypeOK
      <4>2. ASSUME NEW x \in MailboxId PROVE MailboxOK(x)'
        <5>1. CASE x # b
          <6>1. last_activity'[x] = last_activity[x] /\ notify'[x] = notify[x]
            BY Zenon, <4>1, <5>1 DEF TypeOK
          <6> QED BY SMTT(60), <6>1, <4>1, <1>0, MailboxStays DEF TableInv
        <5>2. CASE x = b
          <6>1. /\ queue[b] \in Seq(Message) /\ last_activity[b] \in Nat
                /\ Ordered(queue[b]) /\ UpTo(queue[b], issued, last_activity[b])
                /\ last_activity[b] <= clock /\ last_activity'[b] = clock
            BY SMTT(60), <4>1 DEF TypeOK, TableInv, MailboxOK
          <6>2. UpTo(queue[b], issued, clock)
            BY SMTT(60), <6>1, <1>0, UpToWeaker
          <6> QED BY SMTT(60), <6>1, <6>2, <4>1, <3>2, <5>2, <1>0 DEF MailboxOK
        <5> QED BY Zenon, <5>1, <5>2
      <4> QED BY Zenon, <4>1, <4>2, <1>0 DEF TableInv
    <3> QED BY Zenon, <3>1, <3>2
  <2>2. ASSUME NEW m \in MsgId, recv_ack(c, m) PROVE TableInv'
    <3> DEFINE b == target[c]
    <3>1. CASE UNCHANGED <<queue, queued_bytes, global_bytes, last_activity>>
      BY SMTT(60), <1>0, <1>1, <2>2, <3>1 DEF recv_ack, table
    <3>2. ASSUME NEW pos \in 1 .. Len(queue[b]), b \in boxes,
                 queue' = [queue EXCEPT ![b] = RemoveAt(@, pos)],
                 last_activity' = [last_activity EXCEPT ![b] = clock]
          PROVE  TableInv'
      <4>1. /\ boxes' = boxes /\ issued' = issued /\ clock' = clock /\ notify' = notify
            /\ sweep_now' = sweep_now /\ b \in MailboxId
        BY Zenon, <2>2, <3>2 DEF recv_ack, TypeOK
      <4>2. ASSUME NEW x \in MailboxId PROVE MailboxOK(x)'
        <5>1. CASE x # b
          <6>1. last_activity'[x] = last_activity[x] /\ queue'[x] = queue[x]
            BY Zenon, <3>2, <4>1, <5>1 DEF TypeOK
          <6> QED BY SMTT(60), <6>1, <4>1, <1>0, MailboxStays DEF TableInv
        <5>2. CASE x = b
          <6>1. /\ queue[b] \in Seq(Message) /\ last_activity[b] \in Nat
                /\ Ordered(queue[b]) /\ UpTo(queue[b], issued, last_activity[b])
                /\ last_activity[b] <= clock /\ last_activity'[b] = clock
                /\ queue'[b] = RemoveAt(queue[b], pos)
            BY SMTT(60), <3>2, <4>1 DEF TypeOK, TableInv, MailboxOK
          <6>2. UpTo(queue[b], issued, clock)
            BY SMTT(60), <6>1, <1>0, UpToWeaker
          <6>3. Ordered(RemoveAt(queue[b], pos)) /\ UpTo(RemoveAt(queue[b], pos), issued, clock)
            BY Zenon, <6>1, <6>2, RemoveAtOrdered
          <6> QED BY SMTT(60), <6>1, <6>3, <3>2, <4>1, <5>2, <1>0 DEF MailboxOK
        <5> QED BY Zenon, <5>1, <5>2
      <4> QED BY Zenon, <4>1, <4>2, <1>0 DEF TableInv
    <3> QED BY ZenonT(60), <2>2, <3>1, <3>2 DEF recv_ack, handle_ack
  <2>3. CASE UNCHANGED <<table, issued, clock, sweep_now>>
    BY <1>0, <1>1, <2>3
  <2> QED BY Zenon, <1>10, <2>1, <2>2, <2>3
          DEF Deliver, Peer, subscribe, scan, send_frame, send_done, wake,
              drain_done, recv_other, recv_close, send_failed
<1> QED BY Zenon, <1>2, <1>3, <1>4, <1>5, <1>6, <1>7, <1>8, <1>9, <1>10
        DEF Next, Request

\* The table invariant holds throughout; with it, the queues are in deposit
\* order and no message is younger than its mailbox's last activity.
THEOREM ActivityCorrect == Spec => []ActivityCoversQueue
<1>1. Init => TypeOK /\ TableInv
  BY Zenon, InitType, InitTable
<1>2. TypeOK /\ TableInv /\ [Next]_vars => (TypeOK /\ TableInv)'
  BY Zenon, NextType, NextTable
<1>3. TableInv => ActivityCoversQueue
  BY Zenon DEF TableInv, MailboxOK, Ordered, UpTo, ActivityCoversQueue
<1> QED BY <1>1, <1>2, <1>3, PTL DEF Spec

-----------------------------------------------------------------------------
(* The byte counters *)

\* The length of a queued blob is a natural number.
LEMMA MessageLen ==
  ASSUME NEW m \in Message PROVE m.len \in Nat /\ m.len \in Int
<1>1. m.len \in BlobLen
  BY Zenon DEF Message
<1>2. m.len \in Nat
  BY Zenon, <1>1, RelayAssumption
<1> QED BY <1>2

\* The lengths of a queue follow the queue through each of its operations.
LEMMA LengthsAppend ==
  ASSUME NEW q \in Seq(Message), NEW m \in Message
  PROVE  Lengths(Append(q, m)) = Append(Lengths(q), m.len)
<1>1. Lengths(q) \in Seq(Nat) /\ Len(Lengths(q)) = Len(q)
  BY Zenon, QueueViews
<1>2. Len(Append(q, m)) = Len(q) + 1 /\ m.len \in Nat
  BY MessageLen
<1> QED BY <1>1, <1>2 DEF Lengths

\* Cutting a queue in two cuts its lengths in two.
LEMMA LengthsSubSeq ==
  ASSUME NEW q \in Seq(Message), NEW k \in 0 .. Len(q)
  PROVE  /\ Lengths(SubSeq(q, 1, k)) = SubSeq(Lengths(q), 1, k)
         /\ Lengths(SubSeq(q, k + 1, Len(q))) = SubSeq(Lengths(q), k + 1, Len(q))
<1>1. Lengths(q) \in Seq(Nat) /\ Len(Lengths(q)) = Len(q)
  BY Zenon, QueueViews
<1>2. Lengths(SubSeq(q, 1, k)) = SubSeq(Lengths(q), 1, k)
  BY <1>1 DEF Lengths
<1>3. Lengths(SubSeq(q, k + 1, Len(q))) = SubSeq(Lengths(q), k + 1, Len(q))
  BY <1>1 DEF Lengths
<1> QED BY Zenon, <1>2, <1>3

\* Taking a message out of a queue takes its length out.
LEMMA LengthsRemoveAt ==
  ASSUME NEW q \in Seq(Message), NEW p \in 1 .. Len(q)
  PROVE  Lengths(RemoveAt(q, p)) = RemoveAt(Lengths(q), p)
<1> DEFINE w == Lengths(q)
           L == Lengths(RemoveAt(q, p))
           R == RemoveAt(w, p)
<1>1. w \in Seq(Nat) /\ Len(w) = Len(q) /\ \A i \in 1 .. Len(q) : w[i] = q[i].len
  BY Zenon, QueueViews
<1>2. /\ Len(RemoveAt(q, p)) = Len(q) - 1
      /\ \A n \in 1 .. Len(q) - 1 : n < p => RemoveAt(q, p)[n] = q[n]
      /\ \A n \in 1 .. Len(q) - 1 : n >= p => RemoveAt(q, p)[n] = q[n + 1]
      /\ RemoveAt(q, p) \in Seq(Message)
  BY Zenon, RemoveAtProperties
<1>3. /\ R \in Seq(Nat) /\ Len(R) = Len(q) - 1
      /\ \A n \in 1 .. Len(q) - 1 : n < p => R[n] = w[n]
      /\ \A n \in 1 .. Len(q) - 1 : n >= p => R[n] = w[n + 1]
  <2> HIDE DEF w
  <2>1. p \in 1 .. Len(w)
    BY Zenon, <1>1
  <2> QED BY <1>1, <2>1, RemoveAtProperties
<1>4. /\ L \in Seq(Nat) /\ Len(L) = Len(q) - 1
      /\ \A n \in 1 .. Len(q) - 1 : L[n] = RemoveAt(q, p)[n].len
  BY Zenon, <1>2, QueueViews
<1> HIDE DEF w, L, R
<1>5. \A n \in 1 .. Len(q) - 1 : L[n] = R[n]
  <2> TAKE n \in 1 .. Len(q) - 1
  <2>1. CASE n < p
    <3>1. L[n] = q[n].len
      BY Zenon, <1>2, <1>4, <2>1
    <3>2. R[n] = w[n] /\ n \in 1 .. Len(q)
      BY <1>3, <2>1
    <3> QED BY Zenon, <3>1, <3>2, <1>1
  <2>2. CASE n >= p
    <3>1. L[n] = q[n + 1].len
      BY Zenon, <1>2, <1>4, <2>2
    <3>2. R[n] = w[n + 1] /\ n + 1 \in 1 .. Len(q)
      BY <1>3, <2>2
    <3> QED BY Zenon, <3>1, <3>2, <1>1
  <2> QED BY <2>1, <2>2
<1>6. L = R
  <2>1. L \in [1 .. Len(q) - 1 -> Nat] /\ R \in [1 .. Len(q) - 1 -> Nat]
    BY SMTT(60), <1>3, <1>4
  <2> QED BY <2>1, <1>5
<1> QED BY Zenon, <1>6 DEF L, R, w

\* What the queue operations do to a queue's bytes.
LEMMA QueueBytes ==
  ASSUME NEW q \in Seq(Message)
  PROVE  /\ Total(Lengths(q)) \in Nat
         /\ \A m \in Message : Total(Lengths(Append(q, m))) = Total(Lengths(q)) + m.len
         /\ \A p \in 1 .. Len(q) :
              Total(Lengths(RemoveAt(q, p))) = Total(Lengths(q)) - q[p].len
         /\ \A k \in 0 .. Len(q) :
              /\ Total(Lengths(SubSeq(q, 1, k))) \in Int
              /\ Total(Lengths(SubSeq(q, k + 1, Len(q))))
                   = Total(Lengths(q)) - Total(Lengths(SubSeq(q, 1, k)))
<1> DEFINE w == Lengths(q)
<1>1. /\ w \in Seq(Nat) /\ w \in Seq(Int) /\ Len(w) = Len(q)
      /\ \A i \in 1 .. Len(q) : w[i] = q[i].len
  BY Zenon, QueueViews
<1>2. Total(w) \in Nat
  BY Zenon, <1>1, TotalNat
<1>3. ASSUME NEW m \in Message PROVE Total(Lengths(Append(q, m))) = Total(w) + m.len
  <2>1. m.len \in Int
    BY Zenon, MessageLen
  <2> QED BY Zenon, <1>1, <2>1, LengthsAppend, TotalAppend
<1>4. ASSUME NEW p \in 1 .. Len(q)
      PROVE  Total(Lengths(RemoveAt(q, p))) = Total(w) - q[p].len
  <2>1. Total(RemoveAt(w, p)) = Total(w) - w[p]
    BY Zenon, <1>1, TotalRemoveAt
  <2> QED BY Zenon, <1>1, <2>1, LengthsRemoveAt
<1>5. ASSUME NEW k \in 0 .. Len(q)
      PROVE  /\ Total(Lengths(SubSeq(q, 1, k))) \in Int
             /\ Total(Lengths(SubSeq(q, k + 1, Len(q))))
                  = Total(w) - Total(Lengths(SubSeq(q, 1, k)))
  <2>1. Total(w) = Total(SubSeq(w, 1, k)) + Total(SubSeq(w, k + 1, Len(w)))
    BY Zenon, <1>1, TotalSplit
  <2>2. SubSeq(w, 1, k) \in Seq(Int) /\ SubSeq(w, k + 1, Len(w)) \in Seq(Int)
    <3> HIDE DEF w
    <3> QED BY <1>1
  <2>3. Total(SubSeq(w, 1, k)) \in Int /\ Total(SubSeq(w, k + 1, Len(w))) \in Int
    BY Zenon, <2>2, TotalInt
  <2>4. /\ Lengths(SubSeq(q, 1, k)) = SubSeq(w, 1, k)
        /\ Lengths(SubSeq(q, k + 1, Len(q))) = SubSeq(w, k + 1, Len(w))
    BY Zenon, <1>1, LengthsSubSeq
  <2>5. \A x, y, z \in Int : x = y + z => z = x - y
    OBVIOUS
  <2>6. Total(w) \in Int
    BY <1>2
  <2>7. Total(SubSeq(w, k + 1, Len(w))) = Total(w) - Total(SubSeq(w, 1, k))
    BY Zenon, <2>1, <2>3, <2>5, <2>6
  <2> QED BY Zenon, <2>3, <2>4, <2>7
<1> QED BY Zenon, <1>2, <1>3, <1>4, <1>5

\* TotalExcept in the form the counters need.
LEMMA Adjusted ==
  ASSUME NEW N \in Nat, NEW w \in [1 .. N -> Int], NEW p \in 1 .. N, NEW x \in Int,
         NEW r, r = [w EXCEPT ![p] = x]
  PROVE  Total(r) = Total(w) - w[p] + x
BY Zenon, TotalExcept

SameBut(r, w, N, p) == \A n \in 1 .. N : n # p => r[n] = w[n]

\* The same for a counter and its next value.
LEMMA NextAdjusted ==
  ASSUME NEW N \in Nat, NEW w \in [1 .. N -> Int], NEW r \in [1 .. N -> Int],
         NEW p \in 1 .. N, SameBut(r, w, N, p)
  PROVE  Total(r) = Total(w) - w[p] + r[p]
<1>1. r = [w EXCEPT ![p] = r[p]] /\ r[p] \in Int
  BY Zenon DEF SameBut
<1> QED BY <1>1, Adjusted

\* Nothing adds up to nothing.
LEMMA TotalZero ==
  ASSUME NEW N \in Nat PROVE Total([n \in 1 .. N |-> 0]) = 0
<1> DEFINE z == [n \in 1 .. N |-> 0]
<1>1. z \in [1 .. N -> Int] /\ \A n \in 1 .. N : z[n] = z[n] - z[n]
  OBVIOUS
<1>2. z \in Seq(Int)
  OBVIOUS
<1> HIDE DEF z
<1>3. Total(z) = Total(z) - Total(z) /\ Total(z) \in Int
  BY Zenon, <1>1, <1>2, TotalDifference, TotalInt
<1>4. Total(z) = 0
  BY <1>3
<1> QED BY Zenon, <1>4 DEF z

-----------------------------------------------------------------------------
(* The byte invariant *)

ByteInv == ByteAccounting /\ \A d \in DeleteCall : settling[d] \in Nat \cup {Idle}

\* All counters start at zero, over empty queues.
LEMMA InitBytes == Init => ByteInv
<1> SUFFICES ASSUME Init PROVE ByteInv
  BY Zenon
<1>1. Lengths(<< >>) = << >>
  BY DEF Lengths
<1>2. \A b \in MailboxId : queued_bytes[b] = Total(Lengths(queue[b]))
  BY Zenon, <1>1, TotalEmpty DEF Init
<1>3. Total(queued_bytes) = 0
  BY Zenon, TotalZero, RelayAssumption DEF Init, MailboxId
<1>4. Outstanding = [n \in 1 .. NumDeletes |-> 0]
  BY Zenon DEF Init, Outstanding, DeleteCall
<1>5. Total(Outstanding) = 0
  BY Zenon, <1>4, TotalZero, RelayAssumption
<1> QED BY <1>2, <1>3, <1>5 DEF Init, ByteInv, ByteAccounting

\* The counters as functions on 1 .. N.
LEMMA CounterTypes ==
  ASSUME TypeOK
  PROVE  /\ queued_bytes \in [1 .. NumIds -> Int] /\ Total(queued_bytes) \in Int
         /\ Outstanding \in [1 .. NumDeletes -> Int] /\ Total(Outstanding) \in Int
         /\ global_bytes \in Int
<1>1. queued_bytes \in [1 .. NumIds -> Int] /\ Outstanding \in [1 .. NumDeletes -> Int]
  BY DEF TypeOK, MailboxId, DeleteCall, Outstanding
<1>2. queued_bytes \in Seq(Int) /\ Outstanding \in Seq(Int)
  BY <1>1, RelayAssumption
<1>3. Total(queued_bytes) \in Int /\ Total(Outstanding) \in Int
  BY Zenon, <1>2, TotalInt
<1> QED BY Zenon, <1>1, <1>3 DEF TypeOK

\* Every action keeps the counters exact.
LEMMA NextBytes == TypeOK /\ TableInv /\ ByteInv /\ [Next]_vars => ByteInv'
<1> SUFFICES ASSUME TypeOK, TableInv, ByteInv, [Next]_vars PROVE ByteInv'
  BY Zenon
<1> USE RelayAssumption
<1>0. /\ queued_bytes \in [1 .. NumIds -> Int] /\ Total(queued_bytes) \in Int
      /\ Outstanding \in [1 .. NumDeletes -> Int] /\ Total(Outstanding) \in Int
      /\ global_bytes \in Int
  BY Zenon, CounterTypes
<1>a. /\ \A b \in MailboxId : queued_bytes[b] = Total(Lengths(queue[b]))
      /\ \A b \in MailboxId : queue[b] \in Seq(Message)
      /\ global_bytes = Total(queued_bytes) + Total(Outstanding)
      /\ \A d \in DeleteCall : settling[d] \in Nat \cup {Idle}
  BY Zenon DEF ByteInv, ByteAccounting, TypeOK
<1>1. CASE UNCHANGED <<queue, queued_bytes, global_bytes, settling>>
  BY Zenon, <1>1 DEF ByteInv, ByteAccounting, Outstanding
<1>2. ASSUME NEW b \in MailboxId, NEW delta \in Int, NEW q,
             queue' = [queue EXCEPT ![b] = q],
             Total(Lengths(q)) = Total(Lengths(queue[b])) + delta,
             queued_bytes' = [queued_bytes EXCEPT ![b] = queued_bytes[b] + delta],
             global_bytes' = global_bytes + delta,
             settling' = settling
      PROVE  ByteInv'
  <2>1. \A x \in MailboxId : queued_bytes'[x] = Total(Lengths(queue'[x]))
    BY Zenon, <1>2, <1>a, <1>0 DEF TypeOK
  <2>2. queued_bytes[b] \in Int /\ queued_bytes[b] + delta \in Int
    BY <1>0 DEF MailboxId
  <2>3. Total(queued_bytes') = Total(queued_bytes) - queued_bytes[b] + (queued_bytes[b] + delta)
    <3>1. b \in 1 .. NumIds
      BY Zenon DEF MailboxId
    <3>2. /\ queued_bytes' \in [1 .. NumIds -> Int]
          /\ SameBut(queued_bytes', queued_bytes, NumIds, b)
          /\ queued_bytes'[b] = queued_bytes[b] + delta
      BY Zenon, <3>1, <1>2, <1>0, <2>2 DEF SameBut
    <3>3. \A o \in [1 .. NumIds -> Int] : SameBut(o, queued_bytes, NumIds, b)
            => Total(o) = Total(queued_bytes) - queued_bytes[b] + o[b]
      BY Zenon, <3>1, <1>0, NextAdjusted
    <3>4. Total(queued_bytes') = Total(queued_bytes) - queued_bytes[b] + queued_bytes'[b]
      BY Zenon, <3>2, <3>3
    <3> QED BY Zenon, <3>2, <3>4
  <2>4. Total(queued_bytes') = Total(queued_bytes) + delta
    BY <2>2, <2>3, <1>0
  <2>5. Total(Outstanding') = Total(Outstanding)
    BY Zenon, <1>2 DEF Outstanding
  <2>6. global_bytes' = Total(queued_bytes') + Total(Outstanding')
    BY SMTT(30), <2>4, <2>5, <1>2, <1>a, <1>0
  <2> QED BY Zenon, <2>1, <2>6, <1>2, <1>a DEF ByteInv, ByteAccounting, Outstanding
<1>5. ASSUME NEW b \in MailboxId, NEW len \in BlobLen, deposit(b, len) PROVE ByteInv'
  <2> DEFINE m == [id |-> issued + 1, len |-> len, deposited_at |-> clock]
  <2>1. m \in Message /\ m.len = len /\ len \in Int
    BY <1>5 DEF TypeOK, deposit, Message, MsgId
  <2>2. /\ queue' = [queue EXCEPT ![b] = Append(queue[b], m)]
        /\ queued_bytes' = [queued_bytes EXCEPT ![b] = queued_bytes[b] + len]
        /\ global_bytes' = global_bytes + len /\ settling' = settling
    BY Zenon, <1>5 DEF deposit
  <2> HIDE DEF m
  <2>3. Total(Lengths(Append(queue[b], m))) = Total(Lengths(queue[b])) + len
    BY Zenon, <2>1, <1>a, QueueBytes
  <2> QED BY Zenon, <1>2, <2>1, <2>2, <2>3
<1>6. ASSUME NEW b \in MailboxId, NEW d \in DeleteCall, delete_mailbox(d, b) PROVE ByteInv'
  <2>1. /\ settling[d] = Idle /\ settling' = [settling EXCEPT ![d] = queued_bytes[b]]
        /\ queue' = [queue EXCEPT ![b] = << >>]
        /\ queued_bytes' = [queued_bytes EXCEPT ![b] = 0]
        /\ global_bytes' = global_bytes
    BY Zenon, <1>6 DEF delete_mailbox
  <2>2. queued_bytes[b] \in Nat /\ queued_bytes[b] \in Int
    BY <1>a, QueueBytes
  <2>3. Total(queued_bytes') = Total(queued_bytes) - queued_bytes[b] + 0
    <3>1. b \in 1 .. NumIds /\ 0 \in Int
      BY DEF MailboxId
    <3>2. /\ queued_bytes' \in [1 .. NumIds -> Int]
          /\ SameBut(queued_bytes', queued_bytes, NumIds, b)
          /\ queued_bytes'[b] = 0
      BY Zenon, <3>1, <2>1, <1>0 DEF SameBut
    <3>3. \A o \in [1 .. NumIds -> Int] : SameBut(o, queued_bytes, NumIds, b)
            => Total(o) = Total(queued_bytes) - queued_bytes[b] + o[b]
      BY Zenon, <3>1, <1>0, NextAdjusted
    <3>4. Total(queued_bytes') = Total(queued_bytes) - queued_bytes[b] + queued_bytes'[b]
      BY Zenon, <3>2, <3>3
    <3> QED BY Zenon, <3>2, <3>4
  <2>4. Outstanding' = [Outstanding EXCEPT ![d] = queued_bytes[b]] /\ Outstanding[d] = 0
    <3>1. queued_bytes[b] # Idle
      BY <2>2 DEF Idle
    <3>2. \A x \in DeleteCall :
            Outstanding'[x] = IF x = d THEN queued_bytes[b] ELSE Outstanding[x]
      BY Zenon, <2>1, <3>1 DEF Outstanding, TypeOK
    <3>3. DOMAIN Outstanding = DeleteCall /\ Outstanding' = [x \in DeleteCall |-> Outstanding'[x]]
      BY Zenon DEF Outstanding
    <3>4. Outstanding[d] = 0
      BY Zenon, <2>1 DEF Outstanding
    <3> QED BY Zenon, <3>2, <3>3, <3>4
  <2>5. Total(Outstanding') = Total(Outstanding) - Outstanding[d] + queued_bytes[b]
    <3>1. d \in 1 .. NumDeletes
      BY Zenon DEF DeleteCall
    <3>2. /\ Outstanding' \in [1 .. NumDeletes -> Int]
          /\ SameBut(Outstanding', Outstanding, NumDeletes, d)
          /\ Outstanding'[d] = queued_bytes[b]
      BY Zenon, <3>1, <2>2, <2>4, <1>0 DEF SameBut
    <3>3. \A o \in [1 .. NumDeletes -> Int] : SameBut(o, Outstanding, NumDeletes, d)
            => Total(o) = Total(Outstanding) - Outstanding[d] + o[d]
      BY Zenon, <3>1, <1>0, NextAdjusted
    <3>4. Total(Outstanding') = Total(Outstanding) - Outstanding[d] + Outstanding'[d]
      BY Zenon, <3>2, <3>3
    <3> QED BY Zenon, <3>2, <3>4
  <2>6. global_bytes' = Total(queued_bytes') + Total(Outstanding')
    BY SMTT(30), <2>1, <2>2, <2>3, <2>4, <2>5, <1>a, <1>0
  <2>7. \A x \in MailboxId : queued_bytes'[x] = Total(Lengths(queue'[x]))
    <3>1. Total(Lengths(<< >>)) = 0
      BY TotalEmpty DEF Lengths
    <3> QED BY Zenon, <2>1, <3>1, <1>a DEF TypeOK
  <2>8. \A x \in DeleteCall : settling'[x] \in Nat \cup {Idle}
    BY Zenon, <2>1, <2>2, <1>a DEF TypeOK
  <2> QED BY Zenon, <2>6, <2>7, <2>8 DEF ByteInv, ByteAccounting, Outstanding
<1>7. ASSUME NEW d \in DeleteCall, delete_settle(d) PROVE ByteInv'
  <2>1. /\ settling[d] # Idle /\ settling' = [settling EXCEPT ![d] = Idle]
        /\ queue' = queue /\ queued_bytes' = queued_bytes
        /\ global_bytes' = global_bytes - settling[d]
    BY Zenon, <1>7 DEF delete_settle, table
  <2>2. settling[d] \in Nat
    BY Zenon, <2>1, <1>a
  <2>3. Outstanding' = [Outstanding EXCEPT ![d] = 0] /\ Outstanding[d] = settling[d]
    BY Zenon, <2>1 DEF Outstanding, TypeOK
  <2>4. Total(Outstanding') = Total(Outstanding) - Outstanding[d] + 0
    <3>1. d \in 1 .. NumDeletes /\ 0 \in Int
      BY DEF DeleteCall
    <3>2. /\ Outstanding' \in [1 .. NumDeletes -> Int]
          /\ SameBut(Outstanding', Outstanding, NumDeletes, d)
          /\ Outstanding'[d] = 0
      BY Zenon, <3>1, <2>3, <1>0 DEF SameBut
    <3>3. \A o \in [1 .. NumDeletes -> Int] : SameBut(o, Outstanding, NumDeletes, d)
            => Total(o) = Total(Outstanding) - Outstanding[d] + o[d]
      BY Zenon, <3>1, <1>0, NextAdjusted
    <3>4. Total(Outstanding') = Total(Outstanding) - Outstanding[d] + Outstanding'[d]
      BY Zenon, <3>2, <3>3
    <3> QED BY Zenon, <3>2, <3>4
  <2>5. global_bytes' = Total(queued_bytes') + Total(Outstanding')
    BY SMTT(60), <2>1, <2>2, <2>3, <2>4, <1>a, <1>0
  <2>6. \A x \in DeleteCall : settling'[x] \in Nat \cup {Idle}
    BY Zenon, <2>1, <1>a DEF TypeOK
  <2> QED BY Zenon, <2>1, <2>5, <2>6, <1>a DEF ByteInv, ByteAccounting, Outstanding
<1>9. CASE sweep
  <2>1. PICK cut \in [MailboxId -> Nat] :
           /\ \A b \in MailboxId :
                /\ cut[b] \in 0 .. Len(queue[b])
                /\ queue'[b] = SubSeq(queue[b], cut[b] + 1, Len(queue[b]))
                /\ b \in boxes \ boxes' => cut[b] = Len(queue[b])
                /\ queued_bytes'[b] = IF b \in boxes \ boxes' THEN 0
                     ELSE queued_bytes[b] - Total(Lengths(SubSeq(queue[b], 1, cut[b])))
           /\ global_bytes' = global_bytes -
                Total([b \in MailboxId |-> Total(Lengths(SubSeq(queue[b], 1, cut[b])))])
    BY Zenon, <1>9, SweepCuts
  <2> DEFINE dropped == [b \in MailboxId |-> Total(Lengths(SubSeq(queue[b], 1, cut[b])))]
  <2>2. ASSUME NEW b \in MailboxId
        PROVE  /\ dropped[b] \in Int
               /\ queued_bytes'[b] = queued_bytes[b] - dropped[b]
               /\ queued_bytes'[b] = Total(Lengths(queue'[b]))
    <3>1. queue[b] \in Seq(Message) /\ cut[b] \in 0 .. Len(queue[b])
      BY Zenon, <2>1, <1>a
    <3>2. /\ dropped[b] \in Int
          /\ Total(Lengths(queue'[b])) = Total(Lengths(queue[b])) - dropped[b]
      BY ZenonT(60), <2>1, <3>1, QueueBytes
    <3>3. CASE b \in boxes \ boxes'
      <4>1. queue'[b] = << >>
        BY <2>1, <3>1, <3>3
      <4>2. Total(Lengths(queue'[b])) = 0
        BY <4>1, TotalEmpty DEF Lengths
      <4> QED BY Zenon, <4>2, <3>2, <3>3, <2>1, <1>a
    <3>4. CASE b \notin boxes \ boxes'
      BY Zenon, <3>2, <3>4, <2>1, <1>a
    <3> QED BY Zenon, <3>2, <3>3, <3>4
  <2>3. dropped \in [1 .. NumIds -> Int] /\ queued_bytes' \in [1 .. NumIds -> Int]
    <3>1. queued_bytes' \in [MailboxId -> Int]
      BY Zenon, NextType DEF TypeOK
    <3> QED BY Zenon, <3>1, <2>2 DEF MailboxId
  <2>4. dropped \in Seq(Int)
    BY <2>3
  <2> HIDE DEF dropped
  <2>5. Total(queued_bytes') = Total(queued_bytes) - Total(dropped) /\ Total(dropped) \in Int
    <3>1. \A n \in 1 .. NumIds : queued_bytes'[n] = queued_bytes[n] - dropped[n]
      BY Zenon, <2>2 DEF MailboxId
    <3>2. Total(queued_bytes') = Total(queued_bytes) - Total(dropped)
      BY ZenonT(60), <3>1, <2>3, <1>0, TotalDifference
    <3> QED BY Zenon, <3>2, <2>4, TotalInt
  <2>6. global_bytes' = global_bytes - Total(dropped)
    BY Zenon, <2>1 DEF dropped
  <2>7. settling' = settling
    BY Zenon, <1>9 DEF sweep
  <2>8. global_bytes' = Total(queued_bytes') + Total(Outstanding')
    <3>1. Outstanding' = Outstanding
      BY Zenon, <2>7 DEF Outstanding
    <3> QED BY SMTT(30), <2>5, <2>6, <3>1, <1>a, <1>0
  <2> QED BY Zenon, <2>2, <2>7, <2>8, <1>a DEF ByteInv, ByteAccounting, Outstanding
<1>b. \A u, v \in Int : u - v = u + (0 - v) /\ 0 - v \in Int
  OBVIOUS
<1>10. ASSUME NEW c \in Conn, NEW m \in MsgId, recv_ack(c, m) PROVE ByteInv'
  <2> DEFINE b == target[c]
  <2>1. CASE UNCHANGED <<queue, queued_bytes, global_bytes, last_activity>>
    BY Zenon, <1>1, <1>10, <2>1 DEF recv_ack
  <2>2. ASSUME NEW pos \in 1 .. Len(queue[b]), b \in boxes,
               queue' = [queue EXCEPT ![b] = RemoveAt(@, pos)],
               queued_bytes' = [queued_bytes EXCEPT ![b] = @ - queue[b][pos].len],
               global_bytes' = global_bytes - queue[b][pos].len
        PROVE  ByteInv'
    <3> DEFINE delta == 0 - queue[b][pos].len
    <3>1. b \in MailboxId /\ queue[b] \in Seq(Message)
      BY Zenon, <2>2, <1>a DEF TypeOK
    <3>2. queue[b][pos].len \in Int /\ queued_bytes[b] \in Int
      BY Zenon, <3>1, <1>0, MessageFields DEF MailboxId
    <3>3. Total(Lengths(RemoveAt(queue[b], pos))) = Total(Lengths(queue[b])) - queue[b][pos].len
      BY Zenon, <3>1, QueueBytes
    <3>4. Total(Lengths(queue[b])) \in Int
      BY SMTT(60), <3>1, QueueBytes
    <3>5. /\ delta \in Int
          /\ Total(Lengths(RemoveAt(queue[b], pos))) = Total(Lengths(queue[b])) + delta
          /\ queued_bytes' = [queued_bytes EXCEPT ![b] = queued_bytes[b] + delta]
          /\ global_bytes' = global_bytes + delta
      <4>1. queued_bytes[b] - queue[b][pos].len = queued_bytes[b] + delta
        BY Zenon, <3>2, <1>b
      <4>2. global_bytes - queue[b][pos].len = global_bytes + delta
        BY Zenon, <3>2, <1>0, <1>b
      <4>3. Total(Lengths(queue[b])) - queue[b][pos].len = Total(Lengths(queue[b])) + delta
        BY Zenon, <3>2, <3>4, <1>b
      <4>4. delta \in Int
        BY Zenon, <3>2, <1>b
      <4> HIDE DEF delta
      <4> QED BY Zenon, <2>2, <3>3, <4>1, <4>2, <4>3, <4>4
    <3>6. queue' = [queue EXCEPT ![b] = RemoveAt(queue[b], pos)] /\ settling' = settling
      BY Zenon, <1>10, <2>2 DEF recv_ack
    <3> HIDE DEF delta, b
    <3> QED BY Zenon, <1>2, <3>1, <3>5, <3>6
  <2> QED BY Zenon, <1>10, <2>1, <2>2 DEF recv_ack, handle_ack
<1>11. CASE Tick \/ sweep_start \/ UNCHANGED vars
  BY Zenon, <1>1, <1>11 DEF Tick, sweep_start, vars, table
<1>12. ASSUME NEW b \in MailboxId, create_mailbox(b) \/ put_mailbox(b) PROVE ByteInv'
  BY Zenon, <1>1, <1>12 DEF create_mailbox, put_mailbox
<1>13. ASSUME NEW c \in Conn, Deliver(c) PROVE ByteInv'
  <2>1. UNCHANGED <<queue, queued_bytes, global_bytes, settling>>
    BY Zenon, <1>13
    DEF Deliver, register, scan, send_frame, send_done, wake, drain_done, table
  <2> QED BY Zenon, <1>1, <2>1
<1>14. ASSUME NEW c \in Conn, Peer(c) PROVE ByteInv'
  <2>1. \/ \E m \in MsgId : recv_ack(c, m)
        \/ UNCHANGED <<queue, queued_bytes, global_bytes, settling>>
    BY Zenon, <1>14 DEF Peer, subscribe, recv_other, recv_close, send_failed, table
  <2> QED BY Zenon, <1>1, <1>10, <2>1
<1> QED
  BY Zenon, <1>5, <1>6, <1>7, <1>9, <1>11, <1>12, <1>13, <1>14 DEF Next, Request

\* The byte counters of every mailbox and of the relay are always exact.
THEOREM BytesCorrect == Spec => []ByteAccounting
<1>1. Init => TypeOK /\ TableInv /\ ByteInv
  BY Zenon, InitType, InitTable, InitBytes
<1>2. TypeOK /\ TableInv /\ ByteInv /\ [Next]_vars => (TypeOK /\ TableInv /\ ByteInv)'
  BY Zenon, NextType, NextTable, NextBytes
<1>3. ByteInv => ByteAccounting
  BY Zenon DEF ByteInv
<1> QED BY <1>1, <1>2, <1>3, PTL DEF Spec

-----------------------------------------------------------------------------
(* What a delivery task has taken *)

Members(q)  == {q[i] : i \in 1 .. Len(q)}
FrameSet(c) == Members(frames[c])
Taken(c)    == SentSet(c) \cup FrameSet(c)

\* The members of a sequence of ids, and of what is left of it.
LEMMA MembersOps ==
  /\ Members(<< >>) = {}
  /\ \A s \in Seq(MsgId) : s \in Seq(Nat \ {0})
  /\ \A s \in Seq(MsgId) : \A X : Members(Without(s, X)) = Members(s) \ X
<1>1. Members(<< >>) = {}
  BY DEF Members
<1>2. \A s \in Seq(MsgId) : s \in Seq(Nat \ {0})
  BY RelayAssumption DEF MsgId
<1>3. \A s \in Seq(MsgId) : \A X : Members(Without(s, X)) = Members(s) \ X
  <2> SUFFICES ASSUME NEW s \in Seq(MsgId), NEW X
               PROVE  Members(Without(s, X)) = Members(s) \ X
    BY Zenon
  <2>1. {Without(s, X)[i] : i \in 1 .. Len(Without(s, X))} = {s[i] : i \in 1 .. Len(s)} \ X
    BY SMTT(30), WithoutMembers
  <2> QED BY Zenon, <2>1 DEF Members
<1> QED BY Zenon, <1>1, <1>2, <1>3

\* Ids through the queue operations.
LEMMA IdSetOps ==
  ASSUME NEW q \in Seq(Message)
  PROVE  /\ IdSet(q) \subseteq MsgId
         /\ IdSet(q) = Members(Ids(q))
         /\ \A m \in Message : IdSet(Append(q, m)) = IdSet(q) \cup {m.id}
         /\ \A p \in 1 .. Len(q) : IdSet(RemoveAt(q, p)) \subseteq IdSet(q)
         /\ \A k \in 0 .. Len(q) : IdSet(SubSeq(q, k + 1, Len(q))) \subseteq IdSet(q)
<1>1. IdSet(q) \subseteq MsgId
  BY Zenon, MessageFields DEF IdSet
<1>2. IdSet(q) = Members(Ids(q))
  <2>1. Len(Ids(q)) = Len(q) /\ \A i \in 1 .. Len(q) : Ids(q)[i] = q[i].id
    BY Zenon, QueueViews
  <2> QED BY Zenon, <2>1 DEF IdSet, Members
<1>3. ASSUME NEW m \in Message PROVE IdSet(Append(q, m)) = IdSet(q) \cup {m.id}
  <2>1. \A k \in Nat : 1 .. k + 1 = (1 .. k) \cup {k + 1}
    OBVIOUS
  <2>2. /\ Len(q) \in Nat /\ Len(Append(q, m)) = Len(q) + 1
        /\ Append(q, m)[Len(q) + 1] = m
        /\ \A i \in 1 .. Len(q) : Append(q, m)[i] = q[i]
    OBVIOUS
  <2> QED BY <2>1, <2>2 DEF IdSet
<1>4. ASSUME NEW p \in 1 .. Len(q) PROVE IdSet(RemoveAt(q, p)) \subseteq IdSet(q)
  <2>1. /\ Len(RemoveAt(q, p)) = Len(q) - 1
        /\ \A n \in 1 .. Len(q) - 1 : n < p => RemoveAt(q, p)[n] = q[n]
        /\ \A n \in 1 .. Len(q) - 1 : n >= p => RemoveAt(q, p)[n] = q[n + 1]
    BY Zenon, RemoveAtProperties
  <2>2. ASSUME NEW n \in 1 .. Len(q) - 1
        PROVE  \E i \in 1 .. Len(q) : RemoveAt(q, p)[n] = q[i]
    <3>1. n \in 1 .. Len(q) /\ n + 1 \in 1 .. Len(q)
      OBVIOUS
    <3>2. CASE n < p
      BY Zenon, <3>1, <3>2, <2>1
    <3>3. CASE n >= p
      BY Zenon, <3>1, <3>3, <2>1
    <3> QED BY <3>2, <3>3
  <2>3. ASSUME NEW x \in IdSet(RemoveAt(q, p)) PROVE x \in IdSet(q)
    <3>1. PICK n \in 1 .. Len(q) - 1 : x = RemoveAt(q, p)[n].id
      BY Zenon, <2>1, <2>3 DEF IdSet
    <3>2. PICK i \in 1 .. Len(q) : RemoveAt(q, p)[n] = q[i]
      BY Zenon, <2>2
    <3> QED BY Zenon, <3>1, <3>2 DEF IdSet
  <2> QED BY Zenon, <2>3
<1>5. ASSUME NEW k \in 0 .. Len(q)
      PROVE  IdSet(SubSeq(q, k + 1, Len(q))) \subseteq IdSet(q)
  <2>1. /\ Len(SubSeq(q, k + 1, Len(q))) = Len(q) - k
        /\ \A i \in 1 .. Len(q) - k :
             SubSeq(q, k + 1, Len(q))[i] = q[i + k] /\ i + k \in 1 .. Len(q)
    OBVIOUS
  <2> QED BY Zenon, <2>1 DEF IdSet
<1> QED BY Zenon, <1>1, <1>2, <1>3, <1>4, <1>5

-----------------------------------------------------------------------------
(* The connection invariant *)

\* What a task has sent or is about to send is increasing, was issued, and
\* leaves no hole below it in the queue; a task about to sleep, or asleep,
\* has a wake-up pending or has taken the whole queue.
Shape(c) ==
  /\ task[c] \in {"unused", "upgraded", "closed"} => sent[c] = << >>
  /\ task[c] # "send" => frames[c] = << >>
  /\ Increasing(sent[c]) /\ Increasing(frames[c])
  /\ \A k \in SentSet(c), n \in FrameSet(c) : k < n

NoHole(c) ==
  target[c] \in MailboxId =>
    \A m \in IdSet(queue[target[c]]), k \in Taken(c) : m < k => m \in Taken(c)

Awake(c) ==
  task[c] \in {"send", "select"} /\ target[c] \in MailboxId /\ notify[target[c]] = c
    => wakes[c] > 0 \/ IdSet(queue[target[c]]) \subseteq Taken(c)

ConnOK(c) ==
  Shape(c) /\ (\A k \in Taken(c) : k <= issued) /\ NoHole(c) /\ Awake(c)

ConnInv == \A c \in Conn : ConnOK(c)

\* What a task has taken are ids, and ids are numbers.
LEMMA TakenNat ==
  ASSUME TypeOK, NEW c \in Conn
  PROVE  Taken(c) \subseteq MsgId /\ issued \in Nat /\ MsgId \subseteq Nat
<1>1. Members(sent[c]) \subseteq MsgId /\ Members(frames[c]) \subseteq MsgId
  <2>1. sent[c] \in Seq(MsgId) /\ frames[c] \in Seq(MsgId)
    BY Zenon DEF TypeOK
  <2> QED BY <2>1 DEF Members
<1>2. issued \in Nat /\ MsgId \subseteq Nat
  BY RelayAssumption DEF TypeOK, MsgId
<1> QED BY Zenon, <1>1, <1>2 DEF Taken, SentSet, FrameSet, Members

\* A deposit adds its id.
LEMMA IdSetAppend ==
  ASSUME NEW q \in Seq(Message), NEW m \in Message
  PROVE  IdSet(Append(q, m)) = IdSet(q) \cup {m.id}
BY Zenon, IdSetOps

\* The arithmetic of ids and wake-ups.
LEMMA NatOrder ==
  /\ \A n \in Nat : n + 1 \in Nat /\ n <= n + 1 /\ n + 1 > n /\ n + 1 > 0
  /\ \A i, j, n \in Nat : i <= j /\ j <= n => i <= n
  /\ \A i, j, n \in Nat : i <= n /\ j > n => ~ (j < i)
OBVIOUS

\* Two numbers are in order; a number is no marker.
LEMMA NatFacts ==
  /\ \A i, j \in Nat : ~ (j < i) /\ i # j => i < j
  /\ \A n \in Nat : n <= n /\ n \in Int /\ n # -1
OBVIOUS

\* No connection has sent anything at the start.
LEMMA InitConn == Init => ConnInv
<1> SUFFICES ASSUME Init, NEW c \in Conn PROVE ConnOK(c)
  BY Zenon DEF ConnInv
<1>1. sent[c] = << >> /\ frames[c] = << >> /\ task[c] = "unused"
  BY Zenon DEF Init
<1>2. Taken(c) = {} /\ SentSet(c) = {} /\ FrameSet(c) = {}
  BY <1>1 DEF Taken, SentSet, FrameSet, Members
<1> QED BY <1>1, <1>2 DEF ConnOK, Shape, NoHole, Awake, Increasing

\* A task whose own state does not change stays correct when messages leave
\* its queue, or enter it under a new id together with a wake-up.
LEMMA ConnStays ==
  ASSUME TypeOK, TypeOK', NEW c \in Conn, ConnOK(c),
         task'[c] = task[c], target'[c] = target[c], sent'[c] = sent[c],
         frames'[c] = frames[c], issued' \in Nat, issued <= issued',
         target[c] \in MailboxId =>
           /\ \A m \in IdSet(queue'[target[c]]) : m \in IdSet(queue[target[c]]) \/ m > issued
           /\ notify'[target[c]] = c =>
                /\ notify[target[c]] = c
                /\ \/ wakes'[c] > 0
                   \/ /\ wakes'[c] = wakes[c]
                      /\ IdSet(queue'[target[c]]) \subseteq IdSet(queue[target[c]])
                   \/ task[c] = "closed"
  PROVE  ConnOK(c)'
<1>1. /\ SentSet(c)' = SentSet(c) /\ FrameSet(c)' = FrameSet(c) /\ Taken(c)' = Taken(c)
  BY Zenon DEF SentSet, FrameSet, Taken, Members
<1>2. Taken(c) \subseteq MsgId /\ issued \in Nat /\ MsgId \subseteq Nat
  BY Zenon, TakenNat
<1>3. Shape(c)'
  BY Zenon, <1>1 DEF ConnOK, Shape
<1>4. \A k \in Taken(c) : k \in Nat /\ k <= issued
  BY Zenon, <1>2 DEF ConnOK
<1>5. (\A k \in Taken(c) : k <= issued)'
  BY ZenonT(60), <1>1, <1>2, <1>4, NatOrder
<1>6. NoHole(c)'
  <2> SUFFICES ASSUME target[c] \in MailboxId, NEW m \in IdSet(queue'[target[c]]),
                      NEW k \in Taken(c), m < k
               PROVE  m \in Taken(c)
    BY Zenon, <1>1 DEF NoHole
  <2>1. k \in Nat /\ k <= issued
    BY Zenon, <1>4
  <2>2. CASE m \in IdSet(queue[target[c]])
    BY Zenon, <2>2 DEF ConnOK, NoHole
  <2>3. m \in MsgId
    BY Zenon, IdSetOps DEF TypeOK
  <2>4. CASE m > issued
    BY Zenon, <2>1, <2>3, <2>4, <1>2, NatOrder
  <2> QED BY Zenon, <2>2, <2>4
<1>7. Awake(c)'
  BY Zenon, <1>1 DEF ConnOK, Awake
<1> QED BY Zenon, <1>3, <1>5, <1>6, <1>7 DEF ConnOK

\* A task that returns has nothing taken.
LEMMA ReturnConn ==
  ASSUME TypeOK, NEW c \in Conn, Return(c)
  PROVE  ConnOK(c)'
<1>1. sent'[c] = << >> /\ frames'[c] = << >> /\ task'[c] = "closed"
  BY Zenon DEF Return, TypeOK
<1>2. Taken(c)' = {} /\ SentSet(c)' = {} /\ FrameSet(c)' = {}
  BY <1>1 DEF Taken, SentSet, FrameSet, Members
<1> QED BY <1>1, <1>2 DEF ConnOK, Shape, NoHole, Awake, Increasing

\* A step that moves a task to a control point where it owes no wake-up, and
\* adds nothing to its queue.
LEMMA ConnMoves ==
  ASSUME TypeOK, NEW c \in Conn, ConnOK(c), frames[c] = << >>,
         task'[c] \in {"scan", "drain"}, target'[c] = target[c],
         sent'[c] = sent[c], frames'[c] = frames[c], issued' = issued,
         \A x \in MailboxId : IdSet(queue'[x]) \subseteq IdSet(queue[x])
  PROVE  ConnOK(c)'
<1>1. /\ SentSet(c)' = SentSet(c) /\ FrameSet(c)' = FrameSet(c) /\ Taken(c)' = Taken(c)
  BY Zenon DEF SentSet, FrameSet, Taken, Members
<1>2. Shape(c)'
  BY Zenon, <1>1 DEF ConnOK, Shape
<1>3. NoHole(c)'
  BY Zenon, <1>1 DEF ConnOK, NoHole
<1>4. Awake(c)'
  BY Zenon DEF Awake
<1> QED BY Zenon, <1>1, <1>2, <1>3, <1>4 DEF ConnOK

\* The scan collects what the queue holds and the connection has not sent:
\* all of it lies above what was sent.
LEMMA ScanConn ==
  ASSUME TypeOK, TableInv, NEW c \in Conn, ConnOK(c), scan(c),
         target[c] \in boxes, notify[target[c]] = c
  PROVE  ConnOK(c)'
<1> DEFINE b == target[c]
           q == queue[b]
           f == Without(Ids(q), SentSet(c))
<1>1. /\ frames'[c] = f /\ task'[c] = "send" /\ sent'[c] = sent[c] /\ target'[c] = b
      /\ queue' = queue /\ notify' = notify /\ issued' = issued
  BY Zenon DEF scan, table, TypeOK
<1>2. b \in MailboxId /\ q \in Seq(Message) /\ frames[c] = << >>
  BY Zenon DEF TypeOK, scan, ConnOK, Shape
<1>3. Ids(q) \in Seq(MsgId) /\ Len(Ids(q)) = Len(q) /\ \A i \in 1 .. Len(q) : Ids(q)[i] = q[i].id
  BY Zenon, <1>2, QueueViews
<1>4. Members(f) = IdSet(q) \ SentSet(c)
  <2>1. Members(f) = Members(Ids(q)) \ SentSet(c)
    BY Zenon, <1>3, MembersOps
  <2> QED BY Zenon, <2>1, <1>2, IdSetOps
<1>5. Increasing(f)
  <2>1. Ids(q) \in Seq(Nat \ {0})
    BY Zenon, <1>3, MembersOps
  <2>2. Ordered(q)
    BY Zenon, <1>2 DEF TableInv, MailboxOK
  <2>3. Increasing(Ids(q))
    <3> SUFFICES ASSUME NEW i \in 1 .. Len(q), NEW j \in 1 .. Len(q), i < j
                 PROVE  Ids(q)[i] < Ids(q)[j]
      BY Zenon, <1>3 DEF Increasing
    <3>1. i \in 1 .. j - 1
      OBVIOUS
    <3>2. q[i].id < q[j].id
      BY Zenon, <2>2, <3>1 DEF Ordered
    <3> QED BY Zenon, <3>2, <1>3
  <2> QED BY Zenon, <2>1, <2>3, WithoutIncreasing
<1> HIDE DEF f
<1>6. SentSet(c)' = SentSet(c) /\ FrameSet(c)' = IdSet(q) \ SentSet(c)
  BY Zenon, <1>1, <1>4 DEF SentSet, FrameSet, Members
<1>7. Taken(c)' = SentSet(c) \cup IdSet(q) /\ Taken(c) = SentSet(c)
  BY Zenon, <1>2, <1>6, MembersOps DEF Taken, FrameSet
<1>8. \A k \in SentSet(c), n \in IdSet(q) \ SentSet(c) : k < n
  <2> SUFFICES ASSUME NEW k \in SentSet(c), NEW n \in IdSet(q) \ SentSet(c) PROVE k < n
    BY Zenon
  <2>1. ~ (n < k)
    BY Zenon, <1>2, <1>7 DEF ConnOK, NoHole
  <2>2. k \in Nat /\ n \in Nat /\ k # n
    <3>1. k \in MsgId /\ n \in MsgId
      BY Zenon, <1>2, IdSetOps, TakenNat DEF Taken
    <3> QED BY Zenon, <3>1, TakenNat
  <2> QED BY Zenon, <2>1, <2>2, NatFacts
<1>9. Shape(c)'
  BY Zenon, <1>1, <1>5, <1>6, <1>8 DEF Shape, ConnOK
<1>10. \A k \in SentSet(c) \cup IdSet(q) : k <= issued
  <2>1. \A k \in IdSet(q) : k <= issued
    BY Zenon, <1>2 DEF TableInv, MailboxOK, UpTo, IdSet
  <2> QED BY Zenon, <2>1, <1>7 DEF ConnOK
<1>11. NoHole(c)'
  BY Zenon, <1>1, <1>7 DEF NoHole
<1>12. Awake(c)'
  BY Zenon, <1>1, <1>7 DEF Awake
<1> QED BY Zenon, <1>1, <1>7, <1>9, <1>10, <1>11, <1>12 DEF ConnOK

\* Sending moves the first frame to the end of what was sent.
LEMMA SendConn ==
  ASSUME TypeOK, NEW c \in Conn, ConnOK(c), send_frame(c)
  PROVE  ConnOK(c)'
<1> DEFINE s == sent[c]
           f == frames[c]
<1>1. /\ s \in Seq(MsgId) /\ f \in Seq(MsgId) /\ f # << >>
      /\ sent'[c] = Append(s, Head(f)) /\ frames'[c] = Tail(f)
      /\ task'[c] = "send" /\ task[c] = "send" /\ target'[c] = target[c]
      /\ wakes'[c] = wakes[c]
      /\ queue' = queue /\ notify' = notify /\ issued' = issued
  BY Zenon DEF send_frame, table, TypeOK
<1>2. /\ Head(f) = f[1] /\ f[1] \in MsgId /\ 1 \in 1 .. Len(f) /\ Len(Tail(f)) = Len(f) - 1
      /\ \A i \in 1 .. Len(f) - 1 : Tail(f)[i] = f[i + 1] /\ i + 1 \in 1 .. Len(f)
  BY <1>1
<1>3. MsgId \subseteq Nat
  BY RelayAssumption DEF MsgId
<1>4. /\ Increasing(s) /\ Increasing(f)
      /\ \A k \in Members(s), n \in Members(f) : k < n
  BY Zenon DEF ConnOK, Shape, SentSet, FrameSet, Members
<1>5. Members(Append(s, Head(f))) = Members(s) \cup {f[1]}
  BY SMTT(60), <1>1, <1>2, AppendMembers DEF Members
<1>6. Members(f) = Members(Tail(f)) \cup {f[1]}
  <2>1. \A i \in 1 .. Len(f) : i # 1 => i - 1 \in 1 .. Len(f) - 1 /\ f[i] = Tail(f)[i - 1]
    BY SMTT(60), <1>1, <1>2
  <2> QED BY SMTT(60), <2>1, <1>2 DEF Members
<1>7. \A n \in Members(Tail(f)) : f[1] < n
  <2> SUFFICES ASSUME NEW i \in 1 .. Len(f) - 1 PROVE f[1] < f[i + 1]
    BY Zenon, <1>2 DEF Members
  <2>1. i + 1 \in 1 .. Len(f) /\ 1 < i + 1
    BY SMTT(60), <1>2
  <2> QED BY Zenon, <1>2, <1>4, <2>1 DEF Increasing
<1>8. Increasing(Tail(f))
  <2> SUFFICES ASSUME NEW i \in 1 .. Len(f) - 1, NEW j \in 1 .. Len(f) - 1, i < j
               PROVE  f[i + 1] < f[j + 1]
    BY <1>2 DEF Increasing
  <2>1. i + 1 \in 1 .. Len(f) /\ j + 1 \in 1 .. Len(f) /\ i + 1 < j + 1
    BY SMTT(60), <1>2
  <2> QED BY ZenonT(60), <2>1, <1>4 DEF Increasing
<1>9. Increasing(Append(s, f[1]))
  <2>1. \A i \in 1 .. Len(s) : s[i] < f[1]
    BY Zenon, <1>2, <1>4 DEF Members
  <2>2. /\ Len(Append(s, f[1])) = Len(s) + 1 /\ Append(s, f[1])[Len(s) + 1] = f[1]
        /\ \A i \in 1 .. Len(s) : Append(s, f[1])[i] = s[i]
    BY <1>1, <1>2
  <2> SUFFICES ASSUME NEW i \in 1 .. Len(s) + 1, NEW j \in 1 .. Len(s) + 1, i < j
               PROVE  Append(s, f[1])[i] < Append(s, f[1])[j]
    BY Zenon, <2>2 DEF Increasing
  <2>3. i \in 1 .. Len(s)
    BY <1>1
  <2>4. CASE j = Len(s) + 1
    BY Zenon, <2>1, <2>2, <2>3, <2>4
  <2>5. CASE j \in 1 .. Len(s)
    BY Zenon, <2>2, <2>3, <2>5, <1>4 DEF Increasing
  <2> QED BY SMTT(60), <2>4, <2>5, <1>1
<1>10. \A k \in Members(s) \cup {f[1]}, n \in Members(Tail(f)) : k < n
  BY Zenon, <1>4, <1>6, <1>7
<1>11. /\ SentSet(c)' = Members(s) \cup {f[1]} /\ FrameSet(c)' = Members(Tail(f))
       /\ SentSet(c) = Members(s) /\ FrameSet(c) = Members(f)
  BY Zenon, <1>1, <1>5 DEF SentSet, FrameSet, Members
<1>12. Taken(c)' = Taken(c)
  BY Zenon, <1>6, <1>11 DEF Taken
<1>13. Shape(c)'
  BY Zenon, <1>1, <1>2, <1>8, <1>9, <1>10, <1>11 DEF Shape
<1>14. NoHole(c)' /\ Awake(c)'
  BY Zenon, <1>1, <1>12 DEF NoHole, Awake, ConnOK
<1> QED BY Zenon, <1>1, <1>12, <1>13, <1>14 DEF ConnOK

\* A task's own steps, and its peer's, keep it correct.
LEMMA OwnSteps ==
  ASSUME TypeOK, TableInv, NEW c \in Conn, ConnOK(c), Deliver(c) \/ Peer(c)
  PROVE  ConnOK(c)'
<1>1. CASE Return(c)
  BY ZenonT(60), <1>1, ReturnConn
<1>2. ASSUME NEW b \in MailboxId, subscribe(c, b) PROVE ConnOK(c)'
  <2>1. sent'[c] = << >> /\ frames'[c] = << >> /\ task'[c] = "upgraded"
    BY ZenonT(60), <1>2 DEF subscribe, TypeOK, ConnOK, Shape
  <2>2. Taken(c)' = {} /\ SentSet(c)' = {} /\ FrameSet(c)' = {}
    BY SMTT(60), <2>1 DEF Taken, SentSet, FrameSet, Members
  <2> QED BY SMTT(60), <2>1, <2>2 DEF ConnOK, Shape, NoHole, Awake, Increasing
<1>3. CASE register(c) /\ ~Return(c)
  <2>1. /\ frames[c] = << >> /\ task'[c] = "scan" /\ queue' = queue /\ issued' = issued
        /\ target'[c] = target[c] /\ sent'[c] = sent[c] /\ frames'[c] = frames[c]
    BY Zenon, <1>3 DEF register, TypeOK, ConnOK, Shape
  <2> QED BY Zenon, <2>1, ConnMoves
<1>4. CASE scan(c) /\ ~Return(c)
  BY Zenon, <1>4, ScanConn DEF scan
<1>5. CASE send_frame(c)
  BY Zenon, <1>5, SendConn
<1>6. CASE send_done(c)
  <2>1. /\ task[c] = "send" /\ frames[c] = << >> /\ task'[c] = "select"
        /\ target'[c] = target[c] /\ sent'[c] = sent[c] /\ frames'[c] = frames[c]
        /\ wakes'[c] = wakes[c] /\ queue' = queue /\ notify' = notify /\ issued' = issued
    BY Zenon, <1>6 DEF send_done, table, TypeOK
  <2>2. /\ SentSet(c)' = SentSet(c) /\ FrameSet(c)' = FrameSet(c) /\ Taken(c)' = Taken(c)
    BY ZenonT(60), <2>1 DEF SentSet, FrameSet, Taken, Members
  <2>3. Shape(c)'
    BY ZenonT(60), <2>1, <2>2 DEF ConnOK, Shape
  <2>4. NoHole(c)' /\ Awake(c)'
    BY Zenon, <2>1, <2>2 DEF ConnOK, NoHole, Awake
  <2> QED BY ZenonT(60), <2>1, <2>2, <2>3, <2>4 DEF ConnOK
<1>7. CASE wake(c) \/ drain_done(c) \/ recv_other(c)
  <2>1. /\ frames[c] = << >> /\ task'[c] \in {"scan", "drain"}
        /\ queue' = queue /\ issued' = issued
        /\ target'[c] = target[c] /\ sent'[c] = sent[c] /\ frames'[c] = frames[c]
    BY Zenon, <1>7 DEF wake, drain_done, recv_other, table, TypeOK, ConnOK, Shape
  <2> QED BY Zenon, <2>1, ConnMoves
<1>8. ASSUME NEW m \in MsgId, recv_ack(c, m) PROVE ConnOK(c)'
  <2>1. /\ frames[c] = << >> /\ task'[c] = "drain" /\ issued' = issued
        /\ target'[c] = target[c] /\ sent'[c] = sent[c] /\ frames'[c] = frames[c]
    BY Zenon, <1>8 DEF recv_ack, TypeOK, ConnOK, Shape
  <2>2. ASSUME NEW x \in MailboxId PROVE IdSet(queue'[x]) \subseteq IdSet(queue[x])
    <3>1. CASE queue' = queue
      BY Zenon, <3>1
    <3>2. CASE queue' # queue
      <4>1. PICK pos \in 1 .. Len(queue[target[c]]) :
              /\ target[c] \in boxes
              /\ queue' = [queue EXCEPT ![target[c]] = RemoveAt(@, pos)]
        BY Zenon, <1>8, <3>2 DEF recv_ack, handle_ack
      <4>2. CASE x # target[c]
        BY Zenon, <4>1, <4>2 DEF TypeOK
      <4>3. CASE x = target[c]
        <5>1. queue'[x] = RemoveAt(queue[x], pos) /\ queue[x] \in Seq(Message)
          BY Zenon, <4>1, <4>3 DEF TypeOK
        <5>2. IdSet(RemoveAt(queue[x], pos)) \subseteq IdSet(queue[x])
          BY Zenon, <5>1, <4>3, IdSetOps
        <5> QED BY Zenon, <5>1, <5>2
      <4> QED BY Zenon, <4>2, <4>3
    <3> QED BY Zenon, <3>1, <3>2
  <2> QED BY ZenonT(60), <2>1, <2>2, ConnMoves
<1> QED
  BY Zenon, <1>1, <1>2, <1>3, <1>4, <1>5, <1>6, <1>7, <1>8
  DEF Deliver, Peer, recv_close, send_failed

\* A step of another connection's task changes nothing of this one.
LEMMA OthersStep ==
  ASSUME TypeOK, NEW c \in Conn, NEW e \in Conn, e # c, Deliver(e) \/ Peer(e)
  PROVE  /\ UNCHANGED <<task[c], target[c], sent[c], frames[c]>>
         /\ wakes'[c] = wakes[c] /\ issued' = issued
         /\ \A x \in MailboxId : notify'[x] = c => notify[x] = c
<1> DEFINE Other == /\ UNCHANGED <<task[c], target[c], sent[c], frames[c]>>
                    /\ wakes'[c] = wakes[c] /\ issued' = issued
           Slot  == \A x \in MailboxId : notify'[x] = c => notify[x] = c
<1>0. notify' = notify => Slot
  BY Zenon 
<1>1. CASE \E b \in MailboxId : subscribe(e, b)
  <2>1. Other /\ notify' = notify
    BY Zenon, <1>1 DEF subscribe, table, TypeOK
  <2> QED BY Zenon, <1>0, <2>1
<1>2. CASE register(e)
  <2>1. Other
    BY <1>2 DEF register, Return, TypeOK
  <2>2. notify' = notify \/ notify' = [notify EXCEPT ![target[e]] = e]
    BY Zenon, <1>2 DEF register
  <2>3. Slot
    BY Zenon, <2>2 DEF TypeOK
  <2> QED BY Zenon, <2>1, <2>3
<1>3. CASE scan(e)
  <2>1. Other /\ notify' = notify
    BY <1>3 DEF scan, Return, table, TypeOK
  <2> QED BY Zenon, <1>0, <2>1
<1>4. CASE send_frame(e) \/ send_done(e)
  <2>1. Other /\ notify' = notify
    BY Zenon, <1>4 DEF send_frame, send_done, table, TypeOK
  <2> QED BY Zenon, <1>0, <2>1
<1>5. CASE wake(e) \/ drain_done(e) \/ recv_other(e)
  <2>1. Other /\ notify' = notify
    BY Zenon, <1>5 DEF wake, drain_done, recv_other, table, TypeOK
  <2> QED BY Zenon, <1>0, <2>1
<1>6. CASE \E m \in MsgId : recv_ack(e, m)
  <2>1. Other /\ notify' = notify
    BY Zenon, <1>6 DEF recv_ack, TypeOK
  <2> QED BY Zenon, <1>0, <2>1
<1>7. CASE recv_close(e) \/ send_failed(e)
  <2>1. Other /\ notify' = notify
    BY Zenon, <1>7 DEF recv_close, send_failed, Return, table, TypeOK
  <2> QED BY Zenon, <1>0, <2>1
<1> QED BY Zenon, <1>1, <1>2, <1>3, <1>4, <1>5, <1>6, <1>7 DEF Deliver, Peer

\* Every action keeps every connection correct.
LEMMA NextConn == TypeOK /\ TableInv /\ ConnInv /\ [Next]_vars => ConnInv'
<1> SUFFICES ASSUME TypeOK, TableInv, ConnInv, [Next]_vars, NEW c \in Conn
             PROVE  ConnOK(c)'
  BY Zenon DEF ConnInv
<1> USE RelayAssumption
<1>0. TypeOK' /\ ConnOK(c) /\ issued \in Nat
  <2>1. TypeOK'
    BY Zenon, NextType
  <2>2. issued \in Nat
    BY Zenon, TakenNat
  <2> QED BY Zenon, <2>1, <2>2 DEF ConnInv
<1> DEFINE b == target[c]
           Mine == UNCHANGED <<task[c], target[c], sent[c], frames[c]>>
\* Actions that leave this task alone and add nothing to its queue.
<1>1. ASSUME Mine, wakes'[c] = wakes[c], issued' = issued,
             \A x \in MailboxId : /\ IdSet(queue'[x]) \subseteq IdSet(queue[x])
                                  /\ notify'[x] = c => notify[x] = c
      PROVE  ConnOK(c)'
  <2>1. issued' \in Nat /\ issued <= issued'
    BY Zenon, <1>0, <1>1, NatFacts
  <2>2. target[c] \in MailboxId =>
          /\ \A m \in IdSet(queue'[target[c]]) : m \in IdSet(queue[target[c]]) \/ m > issued
          /\ notify'[target[c]] = c =>
               /\ notify[target[c]] = c
               /\ wakes'[c] = wakes[c]
               /\ IdSet(queue'[target[c]]) \subseteq IdSet(queue[target[c]])
    BY ZenonT(60), <1>1
  <2> QED BY ZenonT(60), <1>0, <1>1, <2>1, <2>2, ConnStays
<1>2. CASE UNCHANGED <<queue, notify, issued, task, target, sent, frames, wakes>>
  BY Zenon, <1>1, <1>2
<1>3. ASSUME NEW x \in MailboxId, NEW len \in BlobLen, deposit(x, len) PROVE ConnOK(c)'
  <2> DEFINE m == [id |-> issued + 1, len |-> len, deposited_at |-> clock]
  <2>1. m \in Message /\ m.id = issued + 1
    <3>1. issued \in 0 .. MaxDeposits /\ clock \in 0 .. MaxClock /\ issued < MaxDeposits
      BY Zenon, <1>3 DEF TypeOK, deposit
    <3>2. issued + 1 \in MsgId
      BY <3>1, RelayAssumption DEF MsgId
    <3> QED BY Zenon, <3>1, <3>2 DEF Message
  <2>2. /\ queue' = [queue EXCEPT ![x] = Append(@, m)] /\ issued' = issued + 1
        /\ notify' = notify /\ Mine /\ wakes' = Notified(x)
    BY Zenon, <1>3 DEF deposit
  <2> HIDE DEF m
  <2>3. IdSet(queue'[x]) = IdSet(queue[x]) \cup {issued + 1}
    <3>1. queue[x] \in Seq(Message) /\ queue'[x] = Append(queue[x], m)
      BY Zenon, <2>2 DEF TypeOK
    <3> QED BY Zenon, <2>1, <3>1, IdSetAppend
  <2>4. \A y \in MailboxId : y # x => queue'[y] = queue[y]
    BY Zenon, <2>2 DEF TypeOK
  <2>5. issued' \in Nat /\ issued <= issued' /\ issued + 1 > issued
    BY Zenon, <2>2, <1>0, NatOrder
  <2>6. CASE b # x
    <3>1. wakes'[c] > 0 \/ wakes'[c] = wakes[c]
      BY Zenon, <2>2, NatOrder DEF Notified, TypeOK
    <3> QED BY Zenon, <1>0, <2>2, <2>4, <2>5, <2>6, <3>1, ConnStays
  <2>7. CASE b = x
    <3>1. notify[x] = c => wakes'[c] > 0 \/ task[c] = "closed"
      BY Zenon, <2>2, NatOrder DEF Notified, TypeOK
    <3> QED BY Zenon, <1>0, <2>2, <2>3, <2>5, <2>7, <3>1, ConnStays
  <2> QED BY Zenon, <2>6, <2>7
<1>4. ASSUME NEW x \in MailboxId, NEW d \in DeleteCall, delete_mailbox(d, x) PROVE ConnOK(c)'
  <2>1. \A y \in MailboxId : /\ queue'[y] = queue[y] \/ queue'[y] = << >>
                             /\ notify'[y] = notify[y] \/ notify'[y] = NoSubscriber
    BY Zenon, <1>4 DEF delete_mailbox, Forget, TypeOK
  <2>2. IdSet(<< >>) = {}
    BY SMTT(60) DEF IdSet
  <2> QED BY Zenon, <1>1, <1>4, <2>1, <2>2 DEF delete_mailbox, conns
<1>5. CASE sweep
  <2>1. PICK cut \in [MailboxId -> Nat] : \A y \in MailboxId :
                /\ cut[y] \in 0 .. Len(queue[y])
                /\ queue'[y] = SubSeq(queue[y], cut[y] + 1, Len(queue[y]))
    BY Zenon, <1>5, SweepCuts
  <2>2. \A y \in MailboxId : IdSet(queue'[y]) \subseteq IdSet(queue[y])
    BY ZenonT(60), <2>1, IdSetOps DEF TypeOK
  <2>3. \A y \in MailboxId : notify'[y] = notify[y] \/ notify'[y] = NoSubscriber
    BY Zenon, <1>5 DEF sweep, Forget
  <2>4. Mine /\ wakes'[c] = wakes[c] /\ issued' = issued
    BY Zenon, <1>5 DEF sweep, conns
  <2>5. \A y \in MailboxId : notify'[y] = c => notify[y] = c
    BY Zenon, <2>3
  <2> QED BY Zenon, <1>1, <2>2, <2>4, <2>5
<1>6. ASSUME NEW e \in Conn, e # c, Deliver(e) \/ Peer(e) PROVE ConnOK(c)'
  <2>1. CASE UNCHANGED queue
    <3>1. Mine /\ wakes'[c] = wakes[c] /\ issued' = issued
      BY Zenon, <1>6, OthersStep
    <3>2. \A x \in MailboxId : notify'[x] = c => notify[x] = c
      BY Zenon, <1>6, OthersStep
    <3> QED BY Zenon, <1>1, <2>1, <3>1, <3>2
  <2>2. ASSUME NEW m \in MsgId, recv_ack(e, m), queue' # queue PROVE ConnOK(c)'
    <3>1. PICK pos \in 1 .. Len(queue[target[e]]) :
            /\ target[e] \in boxes
            /\ queue' = [queue EXCEPT ![target[e]] = RemoveAt(@, pos)]
      BY Zenon, <2>2 DEF recv_ack, handle_ack
    <3>2. \A y \in MailboxId : IdSet(queue'[y]) \subseteq IdSet(queue[y])
      <4>1. queue'[target[e]] = RemoveAt(queue[target[e]], pos)
        BY Zenon, <3>1 DEF TypeOK
      <4>2. queue[target[e]] \in Seq(Message)
        BY Zenon, <3>1 DEF TypeOK
      <4>3. IdSet(queue'[target[e]]) \subseteq IdSet(queue[target[e]])
        BY Zenon, <4>1, <4>2, IdSetOps
      <4>4. \A y \in MailboxId : y # target[e] => queue'[y] = queue[y]
        BY Zenon, <3>1 DEF TypeOK
      <4> QED BY Zenon, <4>3, <4>4
    <3>3. Mine /\ wakes'[c] = wakes[c] /\ issued' = issued /\ notify' = notify
      BY Zenon, <1>6, <2>2 DEF recv_ack, TypeOK
    <3> QED BY Zenon, <1>1, <3>2, <3>3
  <2>3. (\E m \in MsgId : recv_ack(e, m)) \/ UNCHANGED queue
    BY Zenon, <1>6 DEF Deliver, Peer, subscribe, register, scan, send_frame, send_done, wake,
                       drain_done, recv_other, recv_close, send_failed, table
  <2> QED BY Zenon, <2>1, <2>2, <2>3
<1>7. CASE Deliver(c) \/ Peer(c)
  BY Zenon, <1>0, <1>7, OwnSteps
<1>8. CASE Tick \/ sweep_start \/ UNCHANGED vars
  BY Zenon, <1>2, <1>8 DEF Tick, sweep_start, vars, table, conns
<1>9. ASSUME NEW x \in MailboxId, create_mailbox(x) \/ put_mailbox(x) PROVE ConnOK(c)'
  BY Zenon, <1>2, <1>9 DEF create_mailbox, put_mailbox, conns
<1>10. ASSUME NEW d \in DeleteCall, delete_settle(d) PROVE ConnOK(c)'
  BY Zenon, <1>2, <1>10 DEF delete_settle, table, conns
<1> QED
  BY Zenon, <1>3, <1>4, <1>5, <1>6, <1>7, <1>8, <1>9, <1>10 DEF Next, Request
-----------------------------------------------------------------------------
(* Theorems *)

\* The connection invariant holds throughout.
LEMMA ConnCorrect == Spec => [](TypeOK /\ TableInv /\ ConnInv)
<1>1. Init => TypeOK /\ TableInv /\ ConnInv
  BY Zenon, InitType, InitTable, InitConn
<1>2. TypeOK /\ TableInv /\ ConnInv /\ [Next]_vars => (TypeOK /\ TableInv /\ ConnInv)'
  BY Zenon, NextType, NextTable, NextConn
<1> QED BY <1>1, <1>2, PTL DEF Spec

\* deliver never sleeps on an unsent message it would not be woken for.
THEOREM WakeupCorrect == Spec => []NoLostWakeup
<1>1. TypeOK /\ ConnInv => NoLostWakeup
  <2> SUFFICES ASSUME TypeOK, ConnInv, NEW c \in Conn, task[c] = "select",
                      target[c] \in boxes, notify[target[c]] = c
               PROVE  wakes[c] > 0 \/ IdSet(queue[target[c]]) \subseteq SentSet(c)
    BY Zenon DEF NoLostWakeup
  <2>1. frames[c] = << >> /\ Awake(c)
    BY Zenon DEF ConnInv, ConnOK, Shape
  <2>2. Taken(c) = SentSet(c)
    BY <2>1 DEF Taken, FrameSet, Members
  <2> QED BY Zenon, <2>1, <2>2 DEF Awake, TypeOK
<1> QED BY <1>1, ConnCorrect, PTL

\* On one connection messages go out in deposit order, none twice.
THEOREM OrderCorrect == Spec => []InOrderOnce
<1>1. ConnInv => InOrderOnce
  BY Zenon DEF ConnInv, ConnOK, Shape, Increasing, InOrderOnce
<1> QED BY <1>1, ConnCorrect, PTL

-----------------------------------------------------------------------------
(* What leaves a queue, and the mailbox service *)

RelayInv == TypeOK /\ TableInv /\ ByteInv /\ ConnInv

\* The four invariants together are inductive.
LEMMA RelayInvHolds == Spec => []RelayInv
<1>1. Init => RelayInv
  BY Zenon, InitType, InitTable, InitBytes, InitConn DEF RelayInv
<1>2. RelayInv /\ [Next]_vars => RelayInv'
  BY Zenon, NextType, NextTable, NextBytes, NextConn DEF RelayInv
<1> QED BY <1>1, <1>2, PTL DEF Spec

\* A DELETE that took an entry out of the table owes a number of bytes, so its
\* slot is busy until it has settled.
LEMMA DeleteOwes ==
  ASSUME RelayInv, NEW d \in DeleteCall, NEW b \in MailboxId, delete_mailbox(d, b)
  PROVE  /\ settling[d] = Idle /\ settling'[d] # Idle
         /\ \A e \in DeleteCall : e # d => settling'[e] = settling[e]
<1>1. queued_bytes[b] \in Nat
  <2>1. queued_bytes[b] = Total(Lengths(queue[b])) /\ queue[b] \in Seq(Message)
    BY Zenon DEF RelayInv, ByteInv, ByteAccounting, TypeOK
  <2> QED BY Zenon, <2>1, QueueBytes
<1>2. settling' = [settling EXCEPT ![d] = queued_bytes[b]] /\ settling[d] = Idle
  BY Zenon DEF delete_mailbox
<1>3. settling \in [DeleteCall -> Int]
  BY Zenon DEF RelayInv, TypeOK
<1> QED BY Zenon, <1>1, <1>2, <1>3, NatFacts DEF Idle

\* An effective ack takes out exactly the message the connection was sent.
LEMMA AckRemoves ==
  ASSUME TypeOK, NEW c \in Conn, NEW k \in MsgId, recv_ack(c, k), queue' # queue
  PROVE  /\ target[c] \in MailboxId
         /\ \E pos \in 1 .. Len(queue[target[c]]) :
              /\ queue[target[c]][pos].id \in SentSet(c)
              /\ queue' = [queue EXCEPT ![target[c]] = RemoveAt(@, pos)]
<1>1. k \in SentSet(c) /\ handle_ack(target[c], k)
  BY Zenon DEF recv_ack
<1>2. /\ target[c] \in boxes
      /\ \E pos \in 1 .. Len(queue[target[c]]) :
           /\ queue[target[c]][pos].id = k
           /\ queue' = [queue EXCEPT ![target[c]] = RemoveAt(@, pos)]
  BY Zenon, <1>1 DEF handle_ack
<1>3. boxes \subseteq MailboxId
  BY Zenon DEF TypeOK
<1> QED BY Zenon, <1>1, <1>2, <1>3

-----------------------------------------------------------------------------
(* What each step of a delivery task or its peer is to the table *)

\* It returns, hands out a frame, takes an acknowledgement, or changes nothing
\* that the service promises about.
LEMMA DeliverKinds ==
  ASSUME NEW c \in Conn, Deliver(c) \/ Peer(c)
  PROVE  \/ Return(c) /\ UNCHANGED <<boxes, queue, settling, clock, issued>>
         \/ send_frame(c)
         \/ \E k \in MsgId : recv_ack(c, k)
         \/ UNCHANGED <<boxes, queue, settling, clock, issued, sent>>
<1> DEFINE Returns == Return(c) /\ UNCHANGED <<boxes, queue, settling, clock, issued>>
           Quiet == UNCHANGED <<boxes, queue, settling, clock, issued, sent>>
<1>1. CASE \E b \in MailboxId : subscribe(c, b)
  <2>1. Quiet
    BY Zenon, <1>1 DEF subscribe, table
  <2> QED BY Zenon, <2>1
<1>2. CASE register(c)
  <2>1. Returns \/ Quiet
    BY Zenon, <1>2 DEF register
  <2> QED BY Zenon, <2>1
<1>3. CASE scan(c)
  <2>1. Returns \/ Quiet
    BY Zenon, <1>3 DEF scan, table
  <2> QED BY Zenon, <2>1
<1>4. CASE send_done(c) \/ wake(c) \/ drain_done(c) \/ recv_other(c)
  <2>1. Quiet
    BY Zenon, <1>4 DEF send_done, wake, drain_done, recv_other, table
  <2> QED BY Zenon, <2>1
<1>5. CASE recv_close(c) \/ send_failed(c)
  <2>1. Returns
    BY Zenon, <1>5 DEF recv_close, send_failed, table
  <2> QED BY Zenon, <2>1
<1> HIDE DEF Returns, Quiet
<1> QED BY Zenon, <1>1, <1>2, <1>3, <1>4, <1>5 DEF Deliver, Peer

-----------------------------------------------------------------------------
(* What may leave a queue *)

\* A message leaves its queue only once it was sent, when it is older than the
\* TTL, or with its mailbox by a DELETE.
LEMMA StepDeparts ==
  ASSUME RelayInv, [Next]_vars, NEW b \in MailboxId, NEW i \in 1 .. Len(queue[b]),
         queue[b][i].id \notin IdSet(queue'[b])
  PROVE  Departs(b, queue[b][i])
<1> DEFINE q == queue[b]
<1>0. TypeOK /\ TableInv /\ q \in Seq(Message)
  BY Zenon DEF RelayInv, TypeOK
<1>1. q[i].id \in IdSet(q) /\ queue' # queue
  BY Zenon DEF IdSet
<1>2. ASSUME NEW x \in MailboxId, NEW len \in BlobLen, deposit(x, len) PROVE FALSE
  <2> DEFINE n == [id |-> issued + 1, len |-> len, deposited_at |-> clock]
  <2>1. n \in Message
    <3>1. issued \in 0 .. MaxDeposits /\ clock \in 0 .. MaxClock
      BY Zenon, <1>0 DEF TypeOK
    <3>2. issued + 1 \in MsgId
      BY <1>2, <3>1, RelayAssumption DEF deposit, MsgId
    <3> QED BY Zenon, <3>1, <3>2 DEF Message
  <2>2. queue' = [queue EXCEPT ![x] = Append(@, n)]
    BY Zenon, <1>2 DEF deposit
  <2> HIDE DEF n
  <2>3. queue'[b] = q \/ queue'[b] = Append(q, n)
    BY Zenon, <1>0, <2>2 DEF TypeOK
  <2>4. IdSet(q) \subseteq IdSet(Append(q, n))
    BY Zenon, <1>0, <2>1, IdSetAppend
  <2> QED BY Zenon, <1>1, <2>3, <2>4
<1>3. ASSUME NEW x \in MailboxId, NEW d \in DeleteCall, delete_mailbox(d, x)
      PROVE  Departs(b, q[i])
  <2>1. b = x
    <3> SUFFICES ASSUME b # x PROVE FALSE
      BY Zenon
    <3>1. queue'[b] = q
      BY Zenon, <1>0, <1>3 DEF delete_mailbox, TypeOK
    <3> QED BY Zenon, <1>1, <3>1
  <2>2. b \notin boxes'
    BY Zenon, <1>3, <2>1 DEF delete_mailbox, Forget
  <2> QED BY Zenon, <1>3, <2>2, DeleteOwes DEF Departs
<1>4. CASE sweep
  <2>1. PICK cut \in [MailboxId -> Nat] : \A y \in MailboxId :
          /\ cut[y] \in 0 .. Len(queue[y])
          /\ \A j \in 1 .. cut[y] : clock - queue[y][j].deposited_at > Ttl
          /\ queue'[y] = SubSeq(queue[y], cut[y] + 1, Len(queue[y]))
    BY Zenon, <1>0, <1>4, SweepCuts
  <2> DEFINE n == cut[b]
             r == SubSeq(q, n + 1, Len(q))
  <2>2. n \in 0 .. Len(q) /\ queue'[b] = r
    BY Zenon, <2>1
  <2>3. Len(r) = Len(q) - n /\ \A j \in 1 .. Len(q) - n : r[j] = q[j + n]
    <3>1. q \in Seq(Message) /\ n \in 0 .. Len(q)
      BY Zenon, <1>0, <2>2
    <3> HIDE DEF q, n
    <3> QED BY <3>1
  <2>4. i \in 1 .. n
    <3> SUFFICES ASSUME i > n PROVE FALSE
      BY <1>0, <2>2
    <3>1. i - n \in 1 .. Len(q) - n /\ (i - n) + n = i
      BY <1>0, <2>2
    <3>2. q[i] = r[i - n]
      BY Zenon, <2>3, <3>1
    <3>3. q[i].id \in IdSet(r)
      BY ZenonT(60), <2>3, <3>1, <3>2 DEF IdSet
    <3> QED BY Zenon, <2>2, <3>3
  <2> QED BY Zenon, <2>1, <2>4 DEF Departs
<1>5. ASSUME NEW c \in Conn, NEW k \in MsgId, recv_ack(c, k) PROVE Departs(b, q[i])
  <2>1. PICK pos \in 1 .. Len(queue[target[c]]) :
          /\ queue[target[c]][pos].id \in SentSet(c)
          /\ queue' = [queue EXCEPT ![target[c]] = RemoveAt(@, pos)]
          /\ target[c] \in MailboxId
    BY Zenon, <1>0, <1>1, <1>5, AckRemoves
  <2>2. b = target[c] /\ queue'[b] = RemoveAt(q, pos) /\ pos \in 1 .. Len(q)
    BY Zenon, <1>0, <1>1, <2>1 DEF TypeOK
  <2> DEFINE r == RemoveAt(q, pos)
  <2>3. /\ Len(r) = Len(q) - 1
        /\ \A j \in 1 .. Len(q) - 1 : j < pos => r[j] = q[j]
        /\ \A j \in 1 .. Len(q) - 1 : j >= pos => r[j] = q[j + 1]
    <3>1. q \in Seq(Message) /\ pos \in 1 .. Len(q)
      BY Zenon, <1>0, <2>2
    <3> HIDE DEF q
    <3> QED BY Zenon, <3>1, RemoveAtProperties
  <2> HIDE DEF r
  <2>4. i = pos
    <3>1. CASE i < pos
      <4>1. i \in 1 .. Len(q) - 1 /\ r[i] = q[i]
        BY SMTT(60), <1>0, <2>2, <2>3, <3>1
      <4>2. q[i].id \in IdSet(r)
        BY Zenon, <2>3, <4>1 DEF IdSet
      <4> QED BY Zenon, <2>2, <4>2 DEF r
    <3>2. CASE i > pos
      <4>1. i - 1 \in 1 .. Len(q) - 1 /\ i - 1 >= pos /\ (i - 1) + 1 = i
        BY SMTT(60), <1>0, <2>2, <3>2
      <4>2. r[i - 1] = q[i]
        BY Zenon, <2>3, <4>1
      <4>3. q[i].id \in IdSet(r)
        BY Zenon, <2>3, <4>1, <4>2 DEF IdSet
      <4> QED BY Zenon, <2>2, <4>3 DEF r
    <3> QED BY SMTT(60), <1>0, <2>2, <3>1, <3>2
  <2> QED BY Zenon, <2>1, <2>2, <2>4 DEF Departs
\* Nothing else changes a queue.
<1>6. CASE \E x \in MailboxId : create_mailbox(x) \/ put_mailbox(x)
  <2>1. queue' = queue
    BY Zenon, <1>6 DEF create_mailbox, put_mailbox
  <2> QED BY Zenon, <1>1, <2>1
<1>7. CASE Tick \/ sweep_start \/ \E d \in DeleteCall : delete_settle(d)
  <2>1. queue' = queue
    BY Zenon, <1>7 DEF Tick, sweep_start, delete_settle, table
  <2> QED BY Zenon, <1>1, <2>1
<1>8. ASSUME NEW c \in Conn, Deliver(c) \/ Peer(c) PROVE Departs(b, q[i])
  <2>1. CASE send_frame(c)
    <3>1. queue' = queue
      BY Zenon, <2>1 DEF send_frame, table
    <3> QED BY Zenon, <1>1, <3>1
  <2> QED BY Zenon, <1>1, <1>5, <1>8, <2>1, DeliverKinds
<1>9. CASE UNCHANGED vars
  BY Zenon, <1>1, <1>9 DEF vars
<1> QED BY Zenon, <1>2, <1>3, <1>4, <1>6, <1>7, <1>8, <1>9 DEF Next, Request

\* At-least-once delivery: a message leaves its queue only once it was sent,
\* when it is older than the TTL, or with its mailbox by a DELETE.
THEOREM LossCorrect == Spec => NoSilentLoss
<1> DEFINE Kept == \A b \in MailboxId : \A i \in 1 .. Len(queue[b]) :
              queue[b][i].id \notin IdSet(queue'[b]) => Departs(b, queue[b][i])
<1>1. RelayInv /\ [Next]_vars => [Kept]_vars
  BY Zenon, StepDeparts
<1> QED BY <1>1, RelayInvHolds, PTL DEF Spec, NoSilentLoss

-----------------------------------------------------------------------------
(* The refinement *)

\* The service's view of the connections changes only with `sent`.
LEMMA HandedStays ==
  ASSUME sent' = sent
  PROVE  [c \in Conn |-> SentSet(c)]' = [c \in Conn |-> SentSet(c)]
BY Zenon DEF SentSet

\* A connection that returns has been handed nothing, in the service's view.
LEMMA HandedDropped ==
  ASSUME TypeOK, NEW c \in Conn, Return(c)
  PROVE  [e \in Conn |-> SentSet(e)]' = [[e \in Conn |-> SentSet(e)] EXCEPT ![c] = {}]
<1>1. \A e \in Conn : SentSet(e)' = IF e = c THEN {} ELSE SentSet(e)
  BY DEF SentSet, Return, TypeOK
<1> QED BY Zenon, <1>1

\* What the service sees of a step that leaves the table's contents, the
\* clock, the ids and the DELETE calls alone.
LEMMA StepStutters ==
  ASSUME UNCHANGED <<boxes, queue, settling, clock, issued, sent>>
  PROVE  UNCHANGED Promise!svars
BY Zenon, HandedStays DEF Promise!svars

\* The step of the service behind each step of the relay's requests.
LEMMA RequestRefines ==
  ASSUME RelayInv,
         \/ Tick \/ Request \/ sweep_start \/ sweep
         \/ \E d \in DeleteCall : delete_settle(d)
  PROVE  [Promise!SNext]_(Promise!svars)
<1>0. TypeOK /\ TableInv
  BY Zenon DEF RelayInv
<1>1. CASE Tick
  <2>1. Promise!Pass
    BY Zenon, <1>1, HandedStays DEF Tick, table, conns, Promise!Pass
  <2> QED BY Zenon, <2>1 DEF Promise!SNext
<1>2. ASSUME NEW b \in MailboxId, create_mailbox(b) \/ put_mailbox(b)
      PROVE  [Promise!SNext]_(Promise!svars)
  <2>1. Promise!Open(b)
    BY Zenon, <1>2, HandedStays DEF create_mailbox, put_mailbox, conns, Promise!Open
  <2> QED BY Zenon, <2>1 DEF Promise!SNext
<1>3. ASSUME NEW b \in MailboxId, NEW len \in BlobLen, deposit(b, len)
      PROVE  [Promise!SNext]_(Promise!svars)
  <2> DEFINE m == [id |-> issued + 1, len |-> len, deposited_at |-> clock]
  <2>1. m \in Message /\ m.id = issued + 1 /\ m.deposited_at = clock
    <3>1. issued \in 0 .. MaxDeposits /\ clock \in 0 .. MaxClock
      BY Zenon, <1>0 DEF TypeOK
    <3>2. issued + 1 \in MsgId
      BY SMTT(60), <1>3, <3>1, RelayAssumption DEF deposit, MsgId
    <3> QED BY Zenon, <3>1, <3>2 DEF Message
  <2>2. /\ b \in boxes /\ queue' = [queue EXCEPT ![b] = Append(@, m)]
        /\ issued' = issued + 1 /\ UNCHANGED <<boxes, settling, clock, sent>>
    BY Zenon, <1>3 DEF deposit
  <2> HIDE DEF m
  <2>3. Promise!Accept(b, m)
    BY Zenon, <2>1, <2>2, HandedStays DEF Promise!Accept
  <2> QED BY Zenon, <2>1, <2>3 DEF Promise!SNext
<1>4. ASSUME NEW b \in MailboxId, NEW d \in DeleteCall, delete_mailbox(d, b)
      PROVE  [Promise!SNext]_(Promise!svars)
  <2>1. {e \in DeleteCall : settling'[e] # Idle}
          = {e \in DeleteCall : settling[e] # Idle} \cup {d}
    BY Zenon, <1>4, DeleteOwes
  <2>2. /\ b \in boxes /\ boxes' = boxes \ {b} /\ settling[d] = Idle
        /\ queue' = [queue EXCEPT ![b] = << >>] /\ UNCHANGED <<clock, issued, sent>>
    BY Zenon, <1>4 DEF delete_mailbox, Forget, conns
  <2>3. Promise!Delete(d, b)
    BY Zenon, <2>1, <2>2, HandedStays DEF Promise!Delete
  <2> QED BY Zenon, <2>3 DEF Promise!SNext
<1>5. ASSUME NEW d \in DeleteCall, delete_settle(d)
      PROVE  [Promise!SNext]_(Promise!svars)
  <2>1. {e \in DeleteCall : settling'[e] # Idle}
          = {e \in DeleteCall : settling[e] # Idle} \ {d}
    BY Zenon, <1>0, <1>5 DEF delete_settle, TypeOK
  <2>2. UNCHANGED <<boxes, queue, clock, issued, sent>>
    BY Zenon, <1>5 DEF delete_settle, table, conns
  <2>3. Promise!Answer(d)
    BY Zenon, <2>1, <2>2, HandedStays DEF Promise!Answer
  <2> QED BY Zenon, <2>3 DEF Promise!SNext
<1>6. CASE sweep_start
  BY Zenon, <1>6, StepStutters DEF sweep_start, table, conns
<1>7. CASE sweep
  <2>1. PICK cut \in [MailboxId -> Nat] : \A y \in MailboxId :
          /\ cut[y] \in 0 .. Len(queue[y])
          /\ \A j \in 1 .. cut[y] : clock - queue[y][j].deposited_at > Ttl
          /\ queue'[y] = SubSeq(queue[y], cut[y] + 1, Len(queue[y]))
          /\ y \in boxes \ boxes' => cut[y] = Len(queue[y])
    BY Zenon, <1>0, <1>7, SweepCuts
  <2>2. /\ boxes' \subseteq boxes /\ UNCHANGED <<settling, clock, issued, sent>>
        /\ queue' = [y \in MailboxId |-> queue'[y]]
    BY Zenon, <1>7 DEF sweep, Forget, conns
  <2>3. \A y \in MailboxId : \E n \in 0 .. Len(queue[y]) :
          /\ \A j \in 1 .. n : clock - queue[y][j].deposited_at > Ttl
          /\ queue'[y] = SubSeq(queue[y], n + 1, Len(queue[y]))
          /\ y \in boxes \ boxes' => n = Len(queue[y])
    BY Zenon, <2>1
  <2>4. Promise!Expire
    BY Zenon, <2>2, <2>3, HandedStays DEF Promise!Expire
  <2> QED BY Zenon, <2>4 DEF Promise!SNext
<1> QED BY Zenon, <1>1, <1>2, <1>3, <1>4, <1>5, <1>6, <1>7 DEF Request

\* The step of the service behind each step of a delivery task or its peer.
LEMMA DeliverRefines ==
  ASSUME RelayInv, NEW c \in Conn, Deliver(c) \/ Peer(c)
  PROVE  [Promise!SNext]_(Promise!svars)
<1>0. TypeOK /\ ConnOK(c)
  BY Zenon DEF RelayInv, ConnInv
<1>1. CASE Return(c) /\ UNCHANGED <<boxes, queue, settling, clock, issued>>
  <2>1. Promise!Hangup(c)
    BY Zenon, <1>0, <1>1, HandedDropped DEF Promise!Hangup
  <2> QED BY Zenon, <2>1 DEF Promise!SNext
<1>2. CASE send_frame(c)
  <2> DEFINE n == frames[c][1]
  <2>1. /\ sent[c] \in Seq(MsgId) /\ frames[c] \in Seq(MsgId) /\ frames[c] # << >>
        /\ sent' = [sent EXCEPT ![c] = Append(@, n)]
        /\ UNCHANGED <<boxes, queue, settling, clock, issued>>
    BY SMTT(60), <1>0, <1>2 DEF send_frame, table, TypeOK
  <2>2. n \in FrameSet(c) /\ n \in MsgId
    BY SMTT(60), <2>1 DEF FrameSet, Members
  <2>3. n \in 1 .. issued /\ n <= issued /\ \A k \in SentSet(c) : k < n
    <3>1. n <= issued /\ \A k \in SentSet(c) : k < n
      BY Zenon, <1>0, <2>2 DEF ConnOK, Shape, Taken
    <3>2. issued \in Nat /\ n \in Nat /\ n >= 1
      <4>1. issued \in 0 .. MaxDeposits /\ n \in 1 .. MaxDeposits
        BY Zenon, <1>0, <2>2 DEF TypeOK, MsgId
      <4> QED BY <4>1, RelayAssumption
    <3> QED BY SMTT(60), <3>1, <3>2
  <2> HIDE DEF n
  <2>4. \A e \in Conn : SentSet(e)' = IF e = c THEN SentSet(e) \cup {n} ELSE SentSet(e)
    <3>1. SentSet(c)' = SentSet(c) \cup {n}
      <4>1. sent'[c] = Append(sent[c], n)
        BY Zenon, <1>0, <2>1 DEF TypeOK
      <4> QED BY SMTT(30), <2>1, <2>2, <4>1, AppendMembers DEF SentSet
    <3>2. \A e \in Conn : e # c => sent'[e] = sent[e]
      BY Zenon, <1>0, <2>1 DEF TypeOK
    <3> QED BY ZenonT(60), <3>1, <3>2 DEF SentSet
  <2>5. Promise!Hand(c, n)
    BY Zenon, <2>1, <2>3, <2>4 DEF Promise!Hand
  <2> QED BY Zenon, <2>3, <2>5 DEF Promise!SNext
<1>3. ASSUME NEW k \in MsgId, recv_ack(c, k) PROVE [Promise!SNext]_(Promise!svars)
  <2>1. UNCHANGED <<boxes, settling, clock, issued, sent>>
    BY Zenon, <1>3 DEF recv_ack
  <2>2. CASE queue' = queue
    BY Zenon, <2>1, <2>2, StepStutters
  <2>3. CASE queue' # queue
    <3>1. PICK pos \in 1 .. Len(queue[target[c]]) :
            /\ queue[target[c]][pos].id \in SentSet(c)
            /\ queue' = [queue EXCEPT ![target[c]] = RemoveAt(@, pos)]
            /\ target[c] \in MailboxId
      BY Zenon, <1>0, <1>3, <2>3, AckRemoves
    <3>2. Promise!Acknowledge(c, target[c], pos)
      BY Zenon, <2>1, <3>1, HandedStays DEF Promise!Acknowledge, Promise!RemoveAt, RemoveAt
    <3> QED BY Zenon, <3>1, <3>2 DEF Promise!SNext
  <2> QED BY Zenon, <2>2, <2>3
<1>4. CASE UNCHANGED <<boxes, queue, settling, clock, issued, sent>>
  BY Zenon, <1>4, StepStutters
<1> QED BY Zenon, <1>1, <1>2, <1>3, <1>4, DeliverKinds

\* The relay implements the mailbox service.
THEOREM RelayImplementsService == Spec => ImplementsService
<1>1. Init => Promise!SInit
  <2> SUFFICES ASSUME Init PROVE Promise!SInit
    BY Zenon
  <2>1. [c \in Conn |-> SentSet(c)] = [c \in Conn |-> {}]
    BY DEF Init, SentSet
  <2>2. {d \in DeleteCall : settling[d] # Idle} = {}
    BY Zenon DEF Init
  <2> QED BY Zenon, <2>1, <2>2 DEF Init, Promise!SInit
<1>2. RelayInv /\ [Next]_vars => [Promise!SNext]_(Promise!svars)
  <2> SUFFICES ASSUME RelayInv, [Next]_vars PROVE [Promise!SNext]_(Promise!svars)
    BY Zenon
  <2>1. CASE UNCHANGED vars
    BY Zenon, <2>1, StepStutters DEF vars
  <2> QED BY Zenon, <2>1, RequestRefines, DeliverRefines DEF Next
<1> QED BY <1>1, <1>2, RelayInvHolds, PTL DEF Spec, ImplementsService, Promise!SSpec
=============================================================================
