--------------------------- MODULE MailboxService ---------------------------
(***************************************************************************)
(* What the relay promises the parties of a conversation (relay-api.md),   *)
(* without locks, byte counters, channels or sweeper: mailboxes that       *)
(* accept messages, sessions that are handed them, and the only three ways *)
(* in which a message leaves.                                              *)
(***************************************************************************)
EXTENDS Integers, Sequences, Sums

CONSTANTS Mailbox, Session, Caller, Msg, Ttl

VARIABLES
  open,      \* mailboxes that exist
  pending,   \* messages waiting in each mailbox, oldest first
  handed,    \* per live session: ids of the messages it was handed
  deleting,  \* DELETE calls that have not been answered
  time,      \* the clock
  last       \* id of the message accepted last

svars == <<open, pending, handed, deleting, time, last>>

SInit ==
  /\ open = {}
  /\ pending = [b \in Mailbox |-> << >>]
  /\ handed = [s \in Session |-> {}]
  /\ deleting = {}
  /\ time = 0
  /\ last = 0

Pass ==
  /\ time' = time + 1
  /\ UNCHANGED <<open, pending, handed, deleting, last>>

Open(b) ==
  /\ open' = open \cup {b}
  /\ UNCHANGED <<pending, handed, deleting, time, last>>

\* 202: the message is appended to an existing mailbox.
Accept(b, m) ==
  /\ b \in open
  /\ m.id = last + 1 /\ m.deposited_at = time
  /\ pending' = [pending EXCEPT ![b] = Append(@, m)]
  /\ last' = last + 1
  /\ UNCHANGED <<open, handed, deleting, time>>

\* A session gets a message it was not handed before, in deposit order.
Hand(s, n) ==
  /\ n <= last
  /\ \A k \in handed[s] : k < n
  /\ handed' = [handed EXCEPT ![s] = @ \cup {n}]
  /\ UNCHANGED <<open, pending, deleting, time, last>>

Hangup(s) ==
  /\ handed' = [handed EXCEPT ![s] = {}]
  /\ UNCHANGED <<open, pending, deleting, time, last>>

\* An ack removes a message the session was handed.
Acknowledge(s, b, pos) ==
  /\ pos \in 1 .. Len(pending[b])
  /\ pending[b][pos].id \in handed[s]
  /\ pending' = [pending EXCEPT ![b] = RemoveAt(@, pos)]
  /\ UNCHANGED <<open, handed, deleting, time, last>>

\* Messages older than the TTL go, oldest first; a mailbox closes with them
\* only if nothing younger is waiting in it.
Expire ==
  /\ open' \subseteq open
  /\ pending' = [b \in Mailbox |-> pending'[b]]
  /\ \A b \in Mailbox : \E n \in 0 .. Len(pending[b]) :
       /\ \A i \in 1 .. n : time - pending[b][i].deposited_at > Ttl
       /\ pending'[b] = SubSeq(pending[b], n + 1, Len(pending[b]))
       /\ b \in open \ open' => n = Len(pending[b])
  /\ UNCHANGED <<handed, deleting, time, last>>

\* DELETE drops a mailbox and everything in it.
Delete(d, b) ==
  /\ d \notin deleting
  /\ b \in open
  /\ deleting' = deleting \cup {d}
  /\ open' = open \ {b}
  /\ pending' = [pending EXCEPT ![b] = << >>]
  /\ UNCHANGED <<handed, time, last>>

Answer(d) ==
  /\ deleting' = deleting \ {d}
  /\ UNCHANGED <<open, pending, handed, time, last>>

SNext ==
  \/ Pass
  \/ \E b \in Mailbox : Open(b)
  \/ \E b \in Mailbox, m \in Msg : Accept(b, m)
  \/ \E s \in Session, n \in 1 .. last : Hand(s, n)
  \/ \E s \in Session : Hangup(s)
  \/ \E s \in Session, b \in Mailbox : \E pos \in 1 .. Len(pending[b]) :
       Acknowledge(s, b, pos)
  \/ Expire
  \/ \E d \in Caller, b \in Mailbox : Delete(d, b)
  \/ \E d \in Caller : Answer(d)

SSpec == SInit /\ [][SNext]_svars
=============================================================================
