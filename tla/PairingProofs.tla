---------------------------- MODULE PairingProofs ----------------------------
(***************************************************************************)
(* Pairing by a scanned offer: an offer keeps the prekey it advertised, is *)
(* answered once, and the two databases agree when pairing succeeds;       *)
(* proofs for any number of offers, of devices that scan them and of       *)
(* faults.                                                                 *)
(***************************************************************************)
EXTENDS Pairing, TLAPS

-----------------------------------------------------------------------------
(* Types *)

Box     == {None} \cup ({"fresh"} \X Nat)
Contrib == {None} \cup ({"a"} \X Offer) \cup ({"b"} \X Scanner)
Device  == Scanner \cup {Me, None}
Row ==
  [peer_address : Device, relay_url : {Relay, None},
   mailbox_send : Box, mailbox_recv : Box, role : {None, Offerer, Responder},
   own_contrib : Contrib, peer_contrib : Contrib, root : {None} \cup (Contrib \X Contrib),
   own_gen : {0}, peer_gen : {0}]
OfferText ==
  [inbox : Box, secret : {None} \cup {<<o>> : o \in Offer}, prekey : Nat, key : Nat,
   issued_at : Nat]
Ack ==
  [form : {"none", "pair-ack/2", "other"}, from : Device, prekey : Nat, key : Nat, inbox : Box,
   contribution : Contrib, secret : {None} \cup {<<o>> : o \in Offer}]
Update == [type : {"handoff"}, inbox : Box, contribution : Contrib]
Post   == Ack \cup Update

KeyTypes ==
  /\ minted \in Nat
  /\ DOMAIN prekeys \subseteq 0 .. minted + 1
  /\ prekeys = [i \in DOMAIN prekeys |-> prekeys[i]]
  /\ \A i \in DOMAIN prekeys : prekeys[i] \in 0 .. minted

TypeInv ==
  /\ clock \in Nat /\ serial \in Nat /\ KeyTypes
  /\ offer \in [Offer -> OfferText]
  /\ lst \in [Offer -> {"none", "wait", "create", "retire", "handoff", "ended"}]
  /\ ack \in [Offer -> Ack]
  /\ rows \in Seq([offer : Offer, row : Row])
  /\ at \in [Scanner -> {"idle", "ack", "await", "paired", "failed"}]
  /\ row \in [Scanner -> Row]
  /\ DOMAIN scanned = Scanner /\ scanned = [r \in Scanner |-> scanned[r]]
  /\ \A r \in Scanner : at[r] \notin {"idle", "failed"} => scanned[r] \in Offer
  /\ boxes = [b \in DOMAIN boxes |-> boxes[b]]
  /\ \A b \in DOMAIN boxes : boxes[b] \in Seq(Post)

-----------------------------------------------------------------------------
(* The inductive invariant *)

Shown(o) == offer[o].inbox # None
Has(r)   == row[r].mailbox_recv # None

\* The prekey an offer advertises is still in the table.
Holds(o) == offer[o].prekey \in DOMAIN prekeys /\ prekeys[offer[o].prekey] = offer[o].key

\* A pair-ack that proves it was made from the offer's code.
Proves(o, f) == f.form = "pair-ack/2" /\ f.secret = offer[o].secret

\* Where each listener and each scanner can be.
ControlInv ==
  /\ \A o \in Offer : (lst[o] # "none" \/ ack[o] # NoAck) => Shown(o)
  /\ \A o \in Offer : ~Shown(o) => offer[o] = NoOffer
  /\ \A o \in Offer : lst[o] \in {"create", "retire", "handoff"} => Proves(o, ack[o])
  /\ \A o \in Offer : lst[o] \in {"retire", "handoff"} => \E i \in DOMAIN rows : rows[i].offer = o
  /\ \A r \in Scanner : at[r] \in {"ack", "await", "paired"} => Has(r) /\ Shown(scanned[r])
  /\ \A r \in Scanner : Has(r) =>
       at[r] # "idle" /\ row[r].own_contrib = <<"b", r>> /\ scanned[r] \in Offer

\* The relay never picks an id twice, so every mailbox has one reader.
BoxInv ==
  /\ DOMAIN boxes \subseteq {"fresh"} \X (0 .. serial - 1)
  /\ \A o \in Offer : Shown(o) => offer[o].inbox \in {"fresh"} \X (0 .. serial - 1)
  /\ \A r \in Scanner : Has(r) => row[r].mailbox_recv \in {"fresh"} \X (0 .. serial - 1)
  /\ \A o, p \in Offer : Shown(o) /\ offer[o].inbox = offer[p].inbox => o = p
  /\ \A r, q \in Scanner : Has(r) /\ row[r].mailbox_recv = row[q].mailbox_recv => r = q
  /\ \A o \in Offer, r \in Scanner : Shown(o) => offer[o].inbox # row[r].mailbox_recv

\* Every offer has a key of its own, which it holds until its first frame is
\* opened and never again.
KeyInv ==
  /\ \A o \in Offer : Shown(o) => offer[o].key \in 1 .. minted /\ offer[o].secret = <<o>>
  /\ \A o, p \in Offer : Shown(o) /\ Shown(p) /\ offer[o].key = offer[p].key => o = p
  /\ \A o \in Offer : ack[o] # NoAck => ~Holds(o)
  /\ OfferKeepsKey

\* A pair-ack made by a device that scanned this offer.
Genuine(o, f) == \E r \in Scanner :
  /\ f.from = r /\ Has(r) /\ scanned[r] = o
  /\ f.inbox = row[r].mailbox_recv /\ f.contribution = <<"b", r>>

AckFrame(o, f) ==
  /\ f \in Ack /\ f.prekey = offer[o].prekey /\ f.key = offer[o].key
  /\ f # NoAck /\ (Proves(o, f) => Genuine(o, f))

\* A row of the offerer that completes the pairing of r with its device.
Answers(i, r, recv, contribution) ==
  /\ rows[i].offer = scanned[r] /\ rows[i].row.peer_address = r
  /\ rows[i].row.root = <<contribution, <<"b", r>>>>
  /\ rows[i].row.mailbox_send = row[r].mailbox_recv
  /\ rows[i].row.mailbox_recv = recv

UpdateFrame(r, f) ==
  /\ f \in Update
  /\ \E i \in DOMAIN rows : Answers(i, r, f.inbox, f.contribution)

\* What is queued in a mailbox is for its reader.
Fits(b, f) ==
  /\ \A o \in Offer : Shown(o) /\ offer[o].inbox = b => AckFrame(o, f)
  /\ \A r \in Scanner : Has(r) /\ row[r].mailbox_recv = b => UpdateFrame(r, f)
FrameInv == \A b \in DOMAIN boxes : \A f \in Range(boxes[b]) : Fits(b, f)

\* The offerer's rows are made from the pair-ack of their offer.
RowInv ==
  /\ \A o \in Offer : Proves(o, ack[o]) => Genuine(o, ack[o])
  /\ \A i \in DOMAIN rows : LET o == rows[i].offer IN
       /\ Proves(o, ack[o])
       /\ rows[i].row = OffererRow(ack[o], <<"a", o>>, rows[i].row.mailbox_recv)

\* The pair-ack being handled stays queued until it is acknowledged.
HeadInv == \A o \in Offer :
  lst[o] = "create" /\ offer[o].inbox \in DOMAIN boxes => boxes[offer[o].inbox] # << >>

PairInv ==
  /\ TypeInv /\ ControlInv /\ BoxInv /\ KeyInv /\ FrameInv /\ RowInv /\ HeadInv
  /\ PairedAgree

LEMMA NoProof ==
  ASSUME NEW o \in Offer
  PROVE  ~Proves(o, NoAck) /\ \A f : Proves(o, f) => f # NoAck
<1>1. NoAck.form = "none" /\ "none" # "pair-ack/2"
  BY Zenon DEF NoAck
<1>2. QED
  BY Zenon, <1>1 DEF Proves

-----------------------------------------------------------------------------
(* Mailboxes *)

\* Mailboxes go, or the frame at the head of one is read.
Shrinks ==
  /\ boxes' = [b \in DOMAIN boxes' |-> boxes'[b]]
  /\ DOMAIN boxes' \subseteq DOMAIN boxes
  /\ \A b \in DOMAIN boxes' :
       boxes'[b] = boxes[b] \/ (boxes[b] # << >> /\ boxes'[b] = Tail(boxes[b]))

\* A mailbox the relay picked is empty and new.
Creates ==
  /\ boxes' = [b \in DOMAIN boxes' |-> boxes'[b]]
  /\ DOMAIN boxes' = DOMAIN boxes \cup {<<"fresh", serial>>}
  /\ boxes'[<<"fresh", serial>>] = << >>
  /\ \A b \in DOMAIN boxes : boxes'[b] = boxes[b]

\* One frame is queued, or there is no such mailbox.
Queues(id, f) ==
  /\ boxes' = [b \in DOMAIN boxes' |-> boxes'[b]]
  /\ DOMAIN boxes' = DOMAIN boxes
  /\ \A b \in DOMAIN boxes : boxes'[b] = IF b = id THEN Append(boxes[b], f) ELSE boxes[b]

LEMMA BoxKinds ==
  ASSUME TypeInv, BoxInv
  PROVE  /\ boxes' = boxes => Shrinks
         /\ boxes' = << >> => Shrinks
         /\ \A id : boxes' = delete_mailbox(boxes, id) => Shrinks
         /\ \A id \in DOMAIN boxes :
              boxes[id] # << >> /\ boxes' = [boxes EXCEPT ![id] = Tail(@)] => Shrinks
         /\ boxes' = create_mailbox(boxes, serial) => Creates
         /\ \A id, f : boxes' = deposit(boxes, id, f) => Queues(id, f)
<1>0. boxes = [b \in DOMAIN boxes |-> boxes[b]] /\ <<"fresh", serial>> \notin DOMAIN boxes
  BY DEF TypeInv, BoxInv
<1> USE <1>0
<1>1. boxes' = boxes => Shrinks
  BY Zenon DEF Shrinks
<1>2. boxes' = << >> => Shrinks
  <2>1. DOMAIN << >> = {} /\ << >> = [b \in {} |-> << >>[b]]
    OBVIOUS
  <2>2. QED
    BY Zenon, <2>1 DEF Shrinks
<1>3. ASSUME NEW id, boxes' = delete_mailbox(boxes, id) PROVE Shrinks
  BY Zenon, <1>3 DEF Shrinks, delete_mailbox, Restrict
<1>4. ASSUME NEW id \in DOMAIN boxes, boxes[id] # << >>, boxes' = [boxes EXCEPT ![id] = Tail(@)]
      PROVE  Shrinks
  BY Zenon, <1>4 DEF Shrinks
<1>5. boxes' = create_mailbox(boxes, serial) => Creates
  BY Zenon DEF Creates, create_mailbox, put_mailbox
<1>6. ASSUME NEW id, NEW f, boxes' = deposit(boxes, id, f) PROVE Queues(id, f)
  BY Zenon, <1>6 DEF Queues, deposit, Accepts
<1>7. QED
  BY Zenon, <1>1, <1>2, <1>3, <1>4, <1>5, <1>6

LEMMA NoTypes == NoAck \in Ack /\ NoAck \in Post /\ NoRow \in Row /\ NoOffer \in OfferText
BY Zenon DEF NoAck, NoRow, NoOffer, Ack, Post, Row, OfferText, create_routed_conversation, Box,
       Contrib, Device

\* Each kind keeps the types of the frames.
LEMMA BoxTypes ==
  ASSUME TypeInv, BoxInv, NEW f \in Post, NEW id, Shrinks \/ Creates \/ Queues(id, f)
  PROVE  /\ boxes' = [b \in DOMAIN boxes' |-> boxes'[b]]
         /\ \A b \in DOMAIN boxes' : boxes'[b] \in Seq(Post)
<1>1. \A b \in DOMAIN boxes : boxes[b] \in Seq(Post)
  BY Zenon DEF TypeInv
<1>2. CASE Shrinks
  BY SMTT(30), <1>1, <1>2 DEF Shrinks
<1>3. CASE Creates
  <2>1. << >> \in Seq(Post)
    OBVIOUS
  <2>2. QED
    BY Zenon, <1>1, <1>3, <2>1 DEF Creates
<1>4. CASE Queues(id, f)
  BY <1>1, <1>4 DEF Queues
<1>5. QED
  BY Zenon, <1>2, <1>3, <1>4

LEMMA RangeOf ==
  ASSUME NEW S, NEW q \in Seq(S)
  PROVE  /\ Range(q) \subseteq S
         /\ q # << >> => Head(q) \in Range(q) /\ Range(Tail(q)) \subseteq Range(q)
         /\ \A x \in S : Range(Append(q, x)) = Range(q) \cup {x}
<1>1. Range(q) \subseteq S
  BY DEF Range
<1>2. q # << >> => Head(q) \in Range(q) /\ Range(Tail(q)) \subseteq Range(q)
  BY DEF Range
<1>3. ASSUME NEW x \in S PROVE Range(Append(q, x)) = Range(q) \cup {x}
  <2>1. Append(q, x) \in Seq(S)
    OBVIOUS
  <2>2. DOMAIN q = 1 .. Len(q) /\ DOMAIN Append(q, x) = 1 .. Len(Append(q, x))
    BY <2>1
  <2>3. 1 .. Len(Append(q, x)) = (1 .. Len(q)) \cup {Len(q) + 1}
    OBVIOUS
  <2>4. Append(q, x)[Len(q) + 1] = x /\ \A i \in 1 .. Len(q) : Append(q, x)[i] = q[i]
    OBVIOUS
  <2>5. QED
    BY <2>2, <2>3, <2>4 DEF Range
<1>4. QED
  BY Zenon, <1>1, <1>2, <1>3

\* Each kind keeps frames where they fit, if what fits still does.
LEMMA BoxFrames ==
  ASSUME TypeInv, BoxInv, FrameInv,
         \A b \in DOMAIN boxes : \A g \in Post : Fits(b, g) => Fits(b, g)',
         NEW f \in Post, NEW id,
         \/ Shrinks \/ Creates
         \/ Queues(id, f) /\ (id \in DOMAIN boxes => Fits(id, f)')
  PROVE  FrameInv'
<1> SUFFICES ASSUME NEW b \in DOMAIN boxes', NEW g \in Range(boxes'[b])
             PROVE  Fits(b, g)'
  BY Zenon DEF FrameInv
<1>0. \A c \in DOMAIN boxes : boxes[c] \in Seq(Post)
  BY Zenon DEF TypeInv
<1>1. ASSUME b \in DOMAIN boxes, g \in Range(boxes[b])
      PROVE  Fits(b, g)'
  <2> USE <1>1
  <2>1. Fits(b, g) /\ g \in Post
    BY Zenon, <1>0, RangeOf DEF FrameInv
  <2>2. QED
    BY Zenon, <2>1
<1>2. CASE Shrinks
  <2>1. b \in DOMAIN boxes /\ Range(boxes'[b]) \subseteq Range(boxes[b])
    BY Zenon, <1>0, <1>2, RangeOf DEF Shrinks
  <2>2. QED
    BY Zenon, <1>1, <2>1
<1>3. CASE Creates
  <2>1. Range(<< >>) = {}
    BY DEF Range
  <2>2. b \in DOMAIN boxes /\ boxes'[b] = boxes[b]
    BY Zenon, <1>3, <2>1 DEF Creates
  <2>3. QED
    BY Zenon, <1>1, <2>2
<1>4. CASE Queues(id, f) /\ (id \in DOMAIN boxes => Fits(id, f)')
  <2> USE <1>4
  <2>1. b \in DOMAIN boxes /\ (g \in Range(boxes[b]) \/ (b = id /\ g = f))
    <3>1. Range(Append(boxes[b], f)) = Range(boxes[b]) \cup {f} \/ b \notin DOMAIN boxes
      BY Zenon, <1>0, RangeOf
    <3>2. b \in DOMAIN boxes /\ boxes'[b] = IF b = id THEN Append(boxes[b], f) ELSE boxes[b]
      BY Zenon DEF Queues
    <3>3. CASE b = id
      <4> USE <3>3
      <4>1. g \in Range(boxes[b]) \cup {f}
        BY Zenon, <3>1, <3>2
      <4>2. QED
        BY Zenon, <3>2, <4>1
    <3>4. CASE b # id
      BY Zenon, <3>2, <3>4
    <3>5. QED
      BY Zenon, <3>3, <3>4
  <2>2. QED
    BY Zenon, <1>1, <2>1
<1>5. QED
  BY Zenon, <1>2, <1>3, <1>4

-----------------------------------------------------------------------------
(* Steps that store nothing *)

\* Listeners end, go on or return to waiting; scanners fail.
Passes ==
  /\ lst' \in [Offer -> {"none", "wait", "create", "retire", "handoff", "ended"}]
  /\ at' \in [Scanner -> {"idle", "ack", "await", "paired", "failed"}]
  /\ clock' \in Nat
  /\ \A o \in Offer :
       \/ lst'[o] = lst[o]
       \/ lst[o] # "none" /\ lst'[o] = "ended"
       \/ lst[o] \in {"create", "handoff"} /\ lst'[o] = "wait"
       \/ lst[o] = "retire" /\ lst'[o] = "handoff"
  /\ \A r \in Scanner : at'[r] = at[r] \/ at'[r] = "failed"

\* What the frames in the mailboxes are matched against.
Scene == <<offer, ack, rows, row, scanned>>

\* The offerer's rows are never lost, and every device keeps its mailbox.
RowsStay ==
  /\ \A i \in DOMAIN rows : i \in DOMAIN rows' /\ rows'[i] = rows[i]
  /\ \A r \in Scanner : row'[r].mailbox_recv = row[r].mailbox_recv

LEMMA GenuineKept ==
  ASSUME RowsStay, UNCHANGED <<offer, scanned>>, NEW o \in Offer, NEW f, Genuine(o, f)
  PROVE  Genuine(o, f)'
BY Zenon DEF Genuine, RowsStay, Has

LEMMA FitsKept ==
  ASSUME RowsStay, UNCHANGED <<offer, scanned>>, NEW b, NEW f, Fits(b, f)
  PROVE  Fits(b, f)'
<1>1. ASSUME NEW o \in Offer, Shown(o)', offer'[o].inbox = b PROVE AckFrame(o, f)'
  <2>1. AckFrame(o, f)
    BY Zenon, <1>1 DEF Fits, Shown
  <2>2. QED
    BY Zenon, <2>1, GenuineKept DEF AckFrame, Proves
<1>2. ASSUME NEW r \in Scanner, Has(r)', row'[r].mailbox_recv = b PROVE UpdateFrame(r, f)'
  <2>1. UpdateFrame(r, f)
    BY Zenon, <1>2 DEF Fits, Has, RowsStay
  <2>2. PICK i \in DOMAIN rows : Answers(i, r, f.inbox, f.contribution)
    BY Zenon, <2>1 DEF UpdateFrame
  <2>3. i \in DOMAIN rows' /\ Answers(i, r, f.inbox, f.contribution)'
    BY Zenon, <2>2 DEF Answers, RowsStay
  <2>4. QED
    BY Zenon, <2>1, <2>3 DEF UpdateFrame
<1>3. QED
  BY Zenon, <1>1, <1>2 DEF Fits

LEMMA PassStep ==
  ASSUME PairInv, Passes, Shrinks, HeadInv', KeyTypes', KeyInv',
         UNCHANGED <<serial, Scene>>
  PROVE  PairInv'
<1>1. UNCHANGED <<offer, ack, rows, row, scanned, serial>>
  BY Zenon DEF Scene
<1> USE <1>1
<1>2. TypeInv'
  <2>1. \A b \in DOMAIN boxes' : boxes'[b] \in Seq(Post)
    BY Zenon, NoTypes, BoxTypes DEF PairInv
  <2>2. QED
    BY Zenon, <2>1 DEF PairInv, TypeInv, Passes, Shrinks
<1>3. ControlInv'
  <2>1. ControlInv
    BY Zenon DEF PairInv
  <2> USE <2>1
  <2>2. \A o \in Offer : Shown(o)' <=> Shown(o)
    BY Zenon DEF Shown
  <2>3. \A r \in Scanner : Has(r)' <=> Has(r)
    BY Zenon DEF Has
  <2>4. \A r \in Scanner : at[r] \in {"ack", "await", "paired"} => scanned[r] \in Offer
    BY Zenon DEF PairInv, TypeInv
  <2>5. \A r \in Scanner : at'[r] \in {"ack", "await", "paired"}
                              => Has(r)' /\ Shown(scanned[r])'
    BY Zenon, <2>4, <2>2, <2>3 DEF ControlInv, Passes, Shown
  <2>6. \A r \in Scanner : Has(r)' =>
          at'[r] # "idle" /\ row'[r].own_contrib = <<"b", r>> /\ scanned'[r] \in Offer
    BY Zenon, <2>3 DEF ControlInv, Passes
  <2>7. \A o \in Offer : /\ (lst'[o] # "none" \/ ack'[o] # NoAck) => Shown(o)'
                         /\ ~Shown(o)' => offer'[o] = NoOffer
                         /\ lst'[o] \in {"create", "retire", "handoff"} => Proves(o, ack[o])'
    BY Zenon, <2>2 DEF ControlInv, Passes, Proves
  <2>8. \A o \in Offer :
          lst'[o] \in {"retire", "handoff"} => \E i \in DOMAIN rows' : rows'[i].offer = o
    BY Zenon DEF ControlInv, Passes
  <2>9. QED
    BY Zenon, <2>5, <2>6, <2>7, <2>8 DEF ControlInv
<1>4. BoxInv'
  BY Zenon DEF PairInv, BoxInv, Shrinks, Shown, Has
<1>5. RowsStay
  BY Zenon DEF RowsStay
<1>6. FrameInv'
  BY Zenon, <1>5, NoTypes, FitsKept, BoxFrames DEF PairInv
<1>7. RowInv'
  BY Zenon DEF PairInv, RowInv, Genuine, Has, Proves
<1>8. PairedAgree'
  BY DEF PairInv, PairedAgree, Passes
<1>9. QED
  BY Zenon, <1>2, <1>3, <1>4, <1>6, <1>7, <1>8 DEF PairInv

\* The keys are left alone.
LEMMA PassKeys ==
  ASSUME PairInv, Passes, UNCHANGED <<prekeys, minted, offer, ack>>
  PROVE  KeyTypes' /\ KeyInv'
<1>1. OfferKeepsKey'
  <2>1. \A o \in Offer : lst[o] \in {"create", "retire", "handoff"} => ack[o] # NoAck
    BY Zenon, NoProof DEF PairInv, ControlInv
  <2>2. QED
    BY <2>1 DEF PairInv, KeyInv, OfferKeepsKey, Passes
<1>2. QED
  BY Zenon, <1>1 DEF PairInv, TypeInv, KeyTypes, KeyInv, Shown, Holds

-----------------------------------------------------------------------------
(* The offerer's prekeys *)

\* A frame at the head of an offer's mailbox was made for that offer.
LEMMA IncomingFits ==
  ASSUME PairInv, NEW o \in Offer, Incoming(o)
  PROVE  /\ Shown(o) /\ lst[o] = "wait" /\ AckFrame(o, Frame(o)) /\ Frame(o) \in Ack
         /\ Opens(Frame(o)) <=> Holds(o)
         /\ boxes' = Acked(o) => Shrinks
<1>1. Shown(o) /\ lst[o] = "wait" /\ offer[o].inbox \in DOMAIN boxes
      /\ boxes[offer[o].inbox] # << >> /\ boxes[offer[o].inbox] \in Seq(Post)
  BY Zenon DEF Incoming, Listens, Listed, Accepts, PairInv, ControlInv, TypeInv
<1> USE <1>1
<1>2. Frame(o) \in Range(boxes[offer[o].inbox])
  BY Zenon, RangeOf DEF Frame
<1>3. Fits(offer[o].inbox, Frame(o))
  BY Zenon, <1>2 DEF PairInv, FrameInv
<1>4. AckFrame(o, Frame(o))
  BY Zenon, <1>3 DEF Fits
<1>5. boxes' = Acked(o) => Shrinks
  BY Zenon, BoxKinds DEF Acked, PairInv
<1>6. QED
  BY Zenon, <1>4, <1>5 DEF AckFrame, Opens, Holds

\* Opening the frame spends that offer's key and no other.
LEMMA SpendsOne ==
  ASSUME PairInv, NEW o \in Offer, Shown(o), Holds(o), offer' = offer, minted' = minted,
         prekeys' = remove_pre_key(offer[o].prekey)
  PROVE  /\ DOMAIN prekeys' \subseteq 0 .. minted + 1
         /\ prekeys' = [i \in DOMAIN prekeys' |-> prekeys'[i]]
         /\ \A i \in DOMAIN prekeys' : prekeys'[i] \in 0 .. minted
         /\ ~Holds(o)'
         /\ \A p \in Offer : ~Holds(p) => ~Holds(p)'
         /\ \A p \in Offer : Shown(p) /\ p # o /\ Holds(p) => Holds(p)'
<1>1. DOMAIN prekeys' = DOMAIN prekeys \ {offer[o].prekey}
      /\ \A i \in DOMAIN prekeys' : prekeys'[i] = prekeys[i]
  BY Zenon DEF remove_pre_key
<1>2. prekeys' = [i \in DOMAIN prekeys' |-> prekeys'[i]]
  BY Zenon DEF remove_pre_key
<1>3. ~Holds(o)' /\ \A p \in Offer : ~Holds(p) => ~Holds(p)'
  BY Zenon, <1>1 DEF Holds
<1>4. ASSUME NEW p \in Offer, Shown(p), p # o, Holds(p) PROVE Holds(p)'
  <2> USE <1>4
  <2>1. offer[p].key # offer[o].key
    BY Zenon DEF PairInv, KeyInv
  <2>2. offer[p].prekey # offer[o].prekey
    BY Zenon, <2>1 DEF Holds
  <2>3. QED
    BY Zenon, <1>1, <2>2 DEF Holds
<1>5. QED
  BY Zenon, <1>1, <1>2, <1>3, <1>4 DEF PairInv, TypeInv, KeyTypes

-----------------------------------------------------------------------------
(* The actions that store nothing *)

\* What a listener does between two awaits without storing anything.
LEMMA ListenerPasses ==
  ASSUME PairInv, NEW o \in Offer, NEW s,
         lst' = [lst EXCEPT ![o] = s], UNCHANGED <<clock, at>>,
         \/ s = "ended" /\ lst[o] # "none"
         \/ s = "wait" /\ lst[o] \in {"create", "handoff"}
         \/ s = "handoff" /\ lst[o] = "retire"
  PROVE  Passes
BY Zenon DEF Passes, PairInv, TypeInv

LEMMA ScannerPasses ==
  ASSUME PairInv, NEW r \in Scanner, Goto(r, "failed"), UNCHANGED <<clock, lst>>
  PROVE  Passes
BY Zenon DEF Passes, PairInv, TypeInv, Goto

\* Mailboxes go, and only c loses its head.
OnlyReads(c) == \A b \in DOMAIN boxes' : b \in DOMAIN boxes /\ (b # c => boxes'[b] = boxes[b])

LEMMA HeadKept ==
  ASSUME PairInv, NEW c, OnlyReads(c), UNCHANGED offer,
         \A o \in Offer : lst'[o] = "create" => lst[o] = "create" /\ offer[o].inbox # c
  PROVE  HeadInv'
BY Zenon DEF PairInv, HeadInv, OnlyReads

LEMMA RetiredShrinks ==
  ASSUME PairInv, NEW o \in Offer, NEW gone, Retired(o, gone)
  PROVE  Shrinks /\ OnlyReads(None)
<1>1. boxes' = boxes \/ boxes' = delete_mailbox(boxes, offer[o].inbox)
  BY Zenon DEF Retired
<1>2. OnlyReads(None)
  BY Zenon, <1>1 DEF OnlyReads, delete_mailbox, Restrict
<1>3. QED
  BY Zenon, <1>1, <1>2, BoxKinds DEF PairInv

LEMMA ReadShrinks ==
  ASSUME PairInv, NEW r \in Scanner, Waiting(r), boxes' = Read(r)
  PROVE  Shrinks /\ OnlyReads(row[r].mailbox_recv) /\ Has(r)
<1>1. Shrinks
  BY Zenon, BoxKinds DEF PairInv, Waiting, Read, Accepts
<1>2. OnlyReads(row[r].mailbox_recv)
  BY Zenon DEF Read, OnlyReads
<1>3. Has(r)
  BY DEF Has, Waiting, Accepts, PairInv, BoxInv, None
<1>4. QED
  BY Zenon, <1>1, <1>2, <1>3

\* The steps of the offerer that store nothing.
LEMMA OffererPasses ==
  ASSUME PairInv, NEW o \in Offer, NEW gone,
         \/ ack_unreadable(o) \/ ack_refused(o) \/ ack_retires(o, gone) \/ ack_done(o, FALSE)
         \/ listener_gone(o) \/ fuse(o, gone) \/ stop(o)
  PROVE  Passes /\ Shrinks /\ HeadInv' /\ UNCHANGED <<prekeys, minted, serial, Scene>>
<1>0. boxes' = boxes => Shrinks /\ OnlyReads(None)
  BY Zenon, BoxKinds DEF PairInv, OnlyReads
<1> USE <1>0
<1>a. \A p \in Offer : lst[p] = "create" => offer[p].inbox # None
  BY Zenon DEF PairInv, ControlInv, Shown
<1>b. \A p \in Offer : Shown(p) /\ offer[p].inbox = offer[o].inbox => p = o
  BY Zenon DEF PairInv, BoxInv
<1>c. lst \in [Offer -> {"none", "wait", "create", "retire", "handoff", "ended"}]
  BY Zenon DEF PairInv, TypeInv
<1> USE <1>c
<1>d. boxes' = Acked(o) => OnlyReads(offer[o].inbox)
  BY Zenon DEF Acked, OnlyReads
<1>e. ASSUME boxes' = Acked(o), UNCHANGED offer, lst'[o] # "create",
             \A p \in Offer : lst'[p] = "create" => lst[p] = "create"
      PROVE  HeadInv'
  <2> USE <1>e
  <2>1. \A p \in Offer : lst'[p] = "create" => lst[p] = "create" /\ offer[p].inbox # offer[o].inbox
    BY Zenon, <1>a, <1>b DEF Shown
  <2>2. QED
    BY Zenon, <1>d, <2>1, HeadKept
<1>f. ASSUME OnlyReads(None), UNCHANGED offer,
             \A p \in Offer : lst'[p] = "create" => lst[p] = "create"
      PROVE  HeadInv'
  BY Zenon, <1>a, <1>f, HeadKept
<1>1. CASE ack_unreadable(o)
  <2> USE <1>1
  <2>1. Shrinks /\ lst[o] = "wait"
    BY Zenon, IncomingFits DEF ack_unreadable
  <2>2. Passes
    BY Zenon DEF Passes, PairInv, TypeInv, ack_unreadable, side, device
  <2>3. HeadInv'
    BY Zenon, <1>e, <2>1 DEF ack_unreadable, side
  <2>4. QED
    BY Zenon, <2>1, <2>2, <2>3 DEF ack_unreadable, side, device, Scene
<1>2. CASE ack_refused(o)
  <2> USE <1>2
  <2>1. \A p \in Offer : lst'[p] = "create" => lst[p] = "create" /\ p # o
    BY Zenon DEF ack_refused
  <2>2. Shrinks /\ HeadInv'
    <3>1. CASE ~Listed(o)
      BY Zenon, <1>f, <2>1, <3>1 DEF ack_refused
    <3>2. CASE Listed(o)
      <4> USE <3>2
      <4>1. boxes[offer[o].inbox] # << >> /\ boxes' = Acked(o)
        BY Zenon DEF ack_refused, PairInv, HeadInv, Listed, Accepts
      <4>2. Shrinks
        BY Zenon, <4>1, BoxKinds DEF PairInv, Listed, Accepts, Acked
      <4>3. QED
        BY Zenon, <1>e, <2>1, <4>1, <4>2 DEF ack_refused
    <3>3. QED
      BY Zenon, <3>1, <3>2
  <2>3. Passes
    BY Zenon, ListenerPasses DEF ack_refused, device
  <2>4. QED
    BY Zenon, <2>2, <2>3 DEF ack_refused, device, Scene
<1>3. CASE ack_retires(o, gone)
  <2> USE <1>3
  <2>1. Shrinks /\ OnlyReads(None)
    BY Zenon, RetiredShrinks DEF ack_retires
  <2>2. Passes
    BY Zenon, ListenerPasses DEF ack_retires, device
  <2>3. HeadInv'
    BY Zenon, <1>f, <2>1 DEF ack_retires
  <2>4. QED
    BY Zenon, <2>1, <2>2, <2>3 DEF ack_retires, device, Scene
<1>4. CASE ack_done(o, FALSE)
  <2> USE <1>4
  <2>1. Passes
    BY Zenon, ListenerPasses DEF ack_done, device
  <2>2. HeadInv'
    BY Zenon, <1>f DEF ack_done
  <2>3. QED
    BY Zenon, <2>1, <2>2 DEF ack_done, device, Scene
<1>5. CASE listener_gone(o)
  <2> USE <1>5
  <2>1. Passes
    BY Zenon, ListenerPasses DEF listener_gone, device
  <2>2. HeadInv'
    BY Zenon, <1>f DEF listener_gone
  <2>3. QED
    BY Zenon, <2>1, <2>2 DEF listener_gone, device, Scene
<1>6. CASE fuse(o, gone)
  <2> USE <1>6
  <2>1. Shrinks /\ OnlyReads(None)
    BY Zenon, RetiredShrinks DEF fuse
  <2>2. Passes
    BY Zenon, ListenerPasses DEF fuse, device
  <2>3. HeadInv'
    BY Zenon, <1>f, <2>1 DEF fuse
  <2>4. QED
    BY Zenon, <2>1, <2>2, <2>3 DEF fuse, device, Scene
<1>7. CASE stop(o)
  <2> USE <1>7
  <2>1. Passes
    BY Zenon DEF stop, device, Passes, PairInv, TypeInv
  <2>2. HeadInv'
    BY Zenon, <1>f DEF stop
  <2>3. QED
    BY Zenon, <2>1, <2>2 DEF stop, device, Scene
<1>8. QED
  BY Zenon, <1>1, <1>2, <1>3, <1>4, <1>5, <1>6, <1>7

\* The steps of a scanner, of time and of the relay that store nothing.
LEMMA OthersPass ==
  ASSUME PairInv, NEW r, NEW o,
         \/ Tick \/ relay_restart
         \/ /\ r \in Scanner
            /\ \/ scan_rejected(r, o) \/ handoff_timeout(r) \/ handoff_gone(r)
               \/ start_sync(r) \/ handoff_dropped(r) \/ deposit_ack(r, FALSE)
  PROVE  Passes /\ Shrinks /\ HeadInv' /\ UNCHANGED <<prekeys, minted, serial, Scene>>
<1>n. \A n \in Nat : n + 1 \in Nat
  OBVIOUS
<1>0. boxes' = boxes => Shrinks /\ OnlyReads(None)
  BY Zenon, BoxKinds DEF PairInv, OnlyReads
<1>a. \A p \in Offer : lst[p] = "create" => offer[p].inbox # None
  BY Zenon DEF PairInv, ControlInv, Shown
<1>b. UNCHANGED <<lst, offer, ack, rows, row, scanned, prekeys, minted, serial>>
  BY Zenon DEF Tick, relay_restart, scan_rejected, handoff_timeout, handoff_gone, start_sync,
         handoff_dropped, deposit_ack, side, device
<1> USE <1>b
<1>c. UNCHANGED <<prekeys, minted, serial, Scene>>
  BY Zenon DEF Scene
<1>d. OnlyReads(None) => HeadInv'
  BY Zenon, <1>a, HeadKept
<1>1. CASE /\ r \in Scanner
           /\ \/ scan_rejected(r, o) \/ handoff_timeout(r) \/ handoff_gone(r)
              \/ deposit_ack(r, FALSE)
  <2> USE <1>1
  <2>1. UNCHANGED <<clock, boxes>> /\ Goto(r, "failed")
    BY Zenon DEF scan_rejected, handoff_timeout, handoff_gone, deposit_ack
  <2>2. QED
    BY Zenon, <1>0, <1>c, <1>d, <2>1, ScannerPasses
<1>2. CASE Tick \/ relay_restart \/ (r \in Scanner /\ (start_sync(r) \/ handoff_dropped(r)))
  <2> USE <1>2
  <2>1. clock' \in Nat /\ at' = at
    <3>1. clock \in Nat
      BY Zenon DEF PairInv, TypeInv
    <3>2. (clock' = clock \/ clock' = clock + 1) /\ at' = at
      BY Zenon DEF Tick, relay_restart, start_sync, handoff_dropped, device
    <3>3. QED
      BY Zenon, <1>n, <3>1, <3>2
  <2>2. Passes
    BY Zenon, <2>1 DEF Passes, PairInv, TypeInv
  <2>3. Shrinks /\ HeadInv'
    <3>1. CASE boxes' = boxes
      BY Zenon, <1>0, <1>d, <3>1
    <3>2. CASE boxes' = << >>
      <4> USE <3>2
      <4>1. OnlyReads(None)
        BY DEF OnlyReads
      <4>2. QED
        BY Zenon, <1>d, <4>1, BoxKinds DEF PairInv
    <3>3. CASE r \in Scanner /\ handoff_dropped(r)
      <4> USE <3>3
      <4>1. Shrinks /\ OnlyReads(row[r].mailbox_recv) /\ Has(r)
        BY Zenon, ReadShrinks DEF handoff_dropped
      <4>2. \A p \in Offer : lst[p] = "create" => offer[p].inbox # row[r].mailbox_recv
        BY Zenon, <1>a DEF PairInv, BoxInv, Shown
      <4>3. QED
        BY Zenon, <4>1, <4>2, HeadKept
    <3>4. QED
      BY Zenon, <3>1, <3>2, <3>3 DEF Tick, relay_restart, start_sync
  <2>4. QED
    BY Zenon, <1>c, <2>2, <2>3
<1>3. QED
  BY Zenon, <1>1, <1>2

LEMMA QuietStep ==
  ASSUME PairInv, Passes, Shrinks, HeadInv', UNCHANGED <<prekeys, minted, serial, Scene>>
  PROVE  PairInv'
<1>1. UNCHANGED <<prekeys, minted, offer, ack>> /\ UNCHANGED <<serial, Scene>>
  BY Zenon DEF Scene
<1>2. QED
  BY Zenon, <1>1, PassKeys, PassStep

-----------------------------------------------------------------------------
(* The actions that mint or spend a key *)

\* The id the next prekey gets is in use by no other (proved below, IdIsFresh).
IdFresh == NextId(DOMAIN prekeys) \in (1 .. minted + 2) \ DOMAIN prekeys

\* A new key is nobody's, and every offer keeps its own.
LEMMA MintsOne ==
  ASSUME PairInv, IdFresh, NEW id, id = NextId(DOMAIN prekeys), minted' = minted + 1,
         prekeys' = [i \in DOMAIN prekeys \cup {id} |-> IF i = id THEN minted + 1 ELSE prekeys[i]]
  PROVE  /\ KeyTypes' /\ id \in Nat /\ id \in DOMAIN prekeys' /\ prekeys'[id] = minted + 1
         /\ \A p \in Offer : offer'[p] = offer[p] /\ Shown(p) => (Holds(p)' <=> Holds(p))
         /\ \A p \in Offer : offer'[p] = offer[p] /\ offer[p].prekey \in DOMAIN prekeys
              => prekeys'[offer[p].prekey] = prekeys[offer[p].prekey]
                 /\ offer[p].prekey \in DOMAIN prekeys'
<1>1. minted \in Nat /\ DOMAIN prekeys \subseteq 0 .. minted + 1
      /\ \A i \in DOMAIN prekeys : prekeys[i] \in 0 .. minted
  BY Zenon DEF PairInv, TypeInv, KeyTypes
<1> USE <1>1
<1>2. id \in 1 .. minted + 2 /\ id \notin DOMAIN prekeys
  BY Zenon DEF IdFresh
<1> USE <1>2
<1>3. DOMAIN prekeys' = DOMAIN prekeys \cup {id} /\ prekeys'[id] = minted + 1
      /\ \A i \in DOMAIN prekeys : prekeys'[i] = prekeys[i]
  BY Zenon
<1> USE <1>3
<1>4. KeyTypes'
  <2>1. prekeys' = [i \in DOMAIN prekeys' |-> prekeys'[i]]
    BY Zenon
  <2>2. QED
    BY <2>1 DEF KeyTypes
<1>5. \A p \in Offer : Shown(p) => offer[p].key \in 1 .. minted
  BY Zenon DEF PairInv, KeyInv
<1>6. \A p \in Offer : offer'[p] = offer[p] /\ Shown(p) => (Holds(p)' <=> Holds(p))
  BY <1>5 DEF Holds
<1>7. QED
  BY <1>4, <1>6
\* A refused mailbox leaves a prekey that no offer advertises.
LEMMA ExportRefused ==
  ASSUME PairInv, IdFresh, NEW o \in Offer, export_offer(o, FALSE)
  PROVE  PairInv'
<1>1. UNCHANGED <<clock, boxes, serial, offer, lst, at, ack, rows, row, scanned>>
  BY Zenon DEF export_offer, device
<1> USE <1>1
<1>2. Passes /\ Shrinks /\ HeadInv'
  BY Zenon, BoxKinds DEF Passes, PairInv, TypeInv, HeadInv
<1>3. KeyTypes'
      /\ \A p \in Offer : Shown(p) => (Holds(p)' <=> Holds(p))
  BY Zenon, MintsOne DEF export_offer
<1>4. KeyInv'
  <2>1. \A p \in Offer : ack[p] # NoAck \/ lst[p] = "wait" => Shown(p)
    BY Zenon DEF PairInv, ControlInv
  <2>2. OfferKeepsKey'
    BY Zenon, <1>3, <2>1 DEF PairInv, KeyInv, OfferKeepsKey, Holds
  <2>3. minted' = minted + 1 /\ minted \in Nat
    BY Zenon DEF export_offer, PairInv, TypeInv, KeyTypes
  <2>4. QED
    BY <1>3, <2>1, <2>2, <2>3 DEF PairInv, KeyInv, Shown
<1>5. QED
  BY Zenon, <1>2, <1>3, <1>4, PassStep DEF Scene

LEMMA RowsTyped ==
  ASSUME TypeInv
  PROVE  \A i \in DOMAIN rows : rows[i].offer \in Offer /\ rows[i].row \in Row
<1>1. rows \in Seq([offer : Offer, row : Row])
  BY Zenon DEF TypeInv
<1>2. \A i \in DOMAIN rows : rows[i] \in [offer : Offer, row : Row]
  <2>1. Range(rows) \subseteq [offer : Offer, row : Row]
    BY Zenon, <1>1, RangeOf
  <2>2. QED
    BY Zenon, <2>1 DEF Range
<1>3. QED
  BY Zenon, <1>2

\* The first frame the listener opens is the one the offer keeps, and the
\* listener goes on with it only when it proves the scan.
LEMMA OpenedStep ==
  ASSUME PairInv, NEW o \in Offer, Opened(o), NEW to \in {"wait", "create", "ended"},
         lst' = [lst EXCEPT ![o] = to], to = "create" => Proves(o, Frame(o)),
         Shrinks, HeadInv',
         UNCHANGED <<clock, minted, serial, offer, at, rows, row, scanned>>
  PROVE  PairInv'
<1>1. ack' = [ack EXCEPT ![o] = Frame(o)]
  BY Zenon DEF Opened
<1>2. Shown(o) /\ lst[o] = "wait" /\ Holds(o) /\ Frame(o) \in Ack /\ Frame(o) # NoAck
      /\ Frame(o).prekey = offer[o].prekey /\ (Proves(o, Frame(o)) => Genuine(o, Frame(o)))
  BY Zenon, IncomingFits DEF Opened, AckFrame
<1> USE <1>2
<1>4. /\ lst'[o] = to /\ \A p \in Offer : p # o => lst'[p] = lst[p]
      /\ ack'[o] = Frame(o) /\ \A p \in Offer : p # o => ack'[p] = ack[p]
  BY Zenon, <1>1 DEF PairInv, TypeInv
<1>5. ack[o] = NoAck /\ \A i \in DOMAIN rows : rows[i].offer # o
  BY Zenon, NoProof DEF PairInv, KeyInv, RowInv
<1>6. prekeys' = remove_pre_key(offer[o].prekey)
  BY Zenon DEF Opened
<1>7. /\ KeyTypes' /\ ~Holds(o)'
      /\ \A p \in Offer : ~Holds(p) => ~Holds(p)'
      /\ \A p \in Offer : Shown(p) /\ p # o /\ Holds(p) => Holds(p)'
  BY Zenon, <1>6, SpendsOne DEF KeyTypes, PairInv, TypeInv
<1>8. KeyInv'
  <2>1. \A p \in Offer : lst[p] = "wait" => Shown(p)
    BY Zenon DEF PairInv, ControlInv
  <2>2. \A p \in Offer : lst'[p] = "wait" /\ ack'[p] = NoAck => Holds(p)'
    <3>1. \A p \in Offer : lst'[p] = "wait" /\ ack'[p] = NoAck
            => p # o /\ lst[p] = "wait" /\ ack[p] = NoAck /\ Shown(p)
      BY Zenon, <1>4, <2>1
    <3>2. \A p \in Offer : lst[p] = "wait" /\ ack[p] = NoAck => Holds(p)
      BY Zenon DEF PairInv, KeyInv, OfferKeepsKey, Holds
    <3>3. QED
      BY Zenon, <1>7, <3>1, <3>2
  <2>3. \A p \in Offer : ack'[p] # NoAck => ~Holds(p)'
    BY Zenon, <1>4, <1>7 DEF PairInv, KeyInv
  <2>4. QED
    BY Zenon, <2>2, <2>3 DEF PairInv, KeyInv, OfferKeepsKey, Holds, Shown
<1>9. TypeInv'
  <2>1. \A b \in DOMAIN boxes' : boxes'[b] \in Seq(Post)
    BY Zenon, NoTypes, BoxTypes DEF PairInv
  <2>2. ack' \in [Offer -> Ack]
        /\ lst' \in [Offer -> {"none", "wait", "create", "retire", "handoff", "ended"}]
    BY Zenon, <1>1 DEF PairInv, TypeInv
  <2>3. boxes' = [b \in DOMAIN boxes' |-> boxes'[b]]
    BY Zenon DEF Shrinks
  <2>4. TypeInv
    BY Zenon DEF PairInv
  <2>5. QED
    BY <1>7, <2>1, <2>2, <2>3, <2>4 DEF TypeInv
<1>10. ControlInv'
  <2>1. ControlInv
    BY Zenon DEF PairInv
  <2>2. \A p \in Offer : /\ (lst'[p] # "none" \/ ack'[p] # NoAck) => Shown(p)
                         /\ lst'[p] \in {"create", "retire", "handoff"} => Proves(p, ack'[p])
                         /\ lst'[p] \in {"retire", "handoff"} => lst[p] \in {"retire", "handoff"}
    BY Zenon, <1>4, <2>1 DEF ControlInv
  <2>3. QED
    BY Zenon, <2>1, <2>2 DEF ControlInv, Shown, Has, Proves
<1>11. BoxInv'
  BY Zenon DEF PairInv, BoxInv, Shown, Has, Shrinks
<1>12. RowsStay
  BY Zenon DEF RowsStay
<1>13. FrameInv'
  BY Zenon, <1>12, NoTypes, FitsKept, BoxFrames DEF PairInv
<1>14. RowInv'
  <2>1. \A p \in Offer : Proves(p, ack'[p]) => Genuine(p, ack'[p])
    BY Zenon, <1>4 DEF PairInv, RowInv
  <2>2. \A p \in Offer : Proves(p, ack[p])' => Genuine(p, ack[p])'
    BY <2>1 DEF Genuine, Has, Proves
  <2>3. \A i \in DOMAIN rows : rows[i].offer \in Offer /\ ack'[rows[i].offer] = ack[rows[i].offer]
    BY Zenon, <1>4, <1>5, RowsTyped DEF PairInv
  <2>4. \A i \in DOMAIN rows :
          /\ Proves(rows[i].offer, ack[rows[i].offer])
          /\ rows[i].row = OffererRow(ack[rows[i].offer], <<"a", rows[i].offer>>,
                                      rows[i].row.mailbox_recv)
    BY Zenon DEF PairInv, RowInv
  <2>5. QED
    BY Zenon, <2>2, <2>3, <2>4 DEF RowInv, Proves
<1>16. PairedAgree'
  BY Zenon DEF PairInv, PairedAgree
<1>17. QED
  BY Zenon, <1>8, <1>9, <1>10, <1>11, <1>13, <1>14, <1>16 DEF PairInv

\* What the listener makes of the frame: it ignores it, it burns the offer, or
\* it goes on with it.
LEMMA AckOpened ==
  ASSUME PairInv, NEW o \in Offer, NEW gone,
         ack_ignored(o) \/ ack_burns(o, gone) \/ ack_verified(o)
  PROVE  PairInv'
<1>1. Opened(o) /\ UNCHANGED <<clock, minted, serial, offer, at, rows, row, scanned>>
  BY Zenon DEF ack_ignored, ack_burns, ack_verified, device
<1>2. Shown(o) /\ lst[o] = "wait" /\ (boxes' = Acked(o) => Shrinks)
  BY Zenon, <1>1, IncomingFits DEF Opened
<1>3. lst \in [Offer -> {"none", "wait", "create", "retire", "handoff", "ended"}]
  BY Zenon DEF PairInv, TypeInv
<1>4. ASSUME NEW to \in {"wait", "ended"}, lst' = [lst EXCEPT ![o] = to],
             OnlyReads(offer[o].inbox)
      PROVE  HeadInv'
  <2>1. \A p \in Offer : lst'[p] = "create" => lst[p] = "create" /\ offer[p].inbox # offer[o].inbox
    BY Zenon, <1>2, <1>3, <1>4 DEF PairInv, BoxInv, Shown
  <2>2. QED
    BY Zenon, <1>1, <1>4, <2>1, HeadKept
<1>5. CASE ack_ignored(o)
  <2>1. lst' = [lst EXCEPT ![o] = "wait"] /\ boxes' = Acked(o)
    BY Zenon, <1>2, <1>3, <1>5 DEF ack_ignored
  <2>2. HeadInv'
    BY Zenon, <1>4, <2>1 DEF OnlyReads, Acked
  <2>3. QED
    BY Zenon, <1>1, <1>2, <2>1, <2>2, OpenedStep
<1>6. CASE ack_burns(o, gone)
  <2>1. lst' = [lst EXCEPT ![o] = "ended"]
    BY Zenon, <1>6 DEF ack_burns
  <2>2. Shrinks
    BY Zenon, <1>2, <1>6, BoxKinds DEF ack_burns, PairInv
  <2>3. OnlyReads(offer[o].inbox)
    BY Zenon, <1>6 DEF ack_burns, OnlyReads, Acked, delete_mailbox, Restrict
  <2>4. QED
    BY Zenon, <1>1, <1>4, <2>1, <2>2, <2>3, OpenedStep
<1>7. CASE ack_verified(o)
  <2>1. lst' = [lst EXCEPT ![o] = "create"] /\ boxes' = boxes
    BY Zenon, <1>7 DEF ack_verified
  <2>2. Proves(o, Frame(o))
    BY Zenon, <1>7 DEF ack_verified, verify_proof_of_scan, Proves
  <2>3. Shrinks
    BY Zenon, <2>1, BoxKinds DEF PairInv
  <2>4. HeadInv'
    BY Zenon, <1>1, <1>3, <2>1 DEF PairInv, HeadInv, Opened, Incoming
  <2>5. QED
    BY Zenon, <1>1, <2>1, <2>2, <2>3, <2>4, OpenedStep
<1>8. QED
  BY Zenon, <1>5, <1>6, <1>7

\* A new offer has a key, a mailbox and a secret of its own.
LEMMA ExportStep ==
  ASSUME PairInv, IdFresh, NEW o \in Offer, export_offer(o, TRUE)
  PROVE  PairInv'
<1> DEFINE id  == NextId(DOMAIN prekeys)
           box == <<"fresh", serial>>
           text == [inbox |-> box, secret |-> <<o>>, prekey |-> id, key |-> minted + 1,
                    issued_at |-> clock]
<1>1. /\ UNCHANGED <<clock, at, ack, rows, row, scanned>>
      /\ boxes' = create_mailbox(boxes, serial) /\ serial' = serial + 1 /\ minted' = minted + 1
      /\ offer' = [offer EXCEPT ![o] = text] /\ lst' = [lst EXCEPT ![o] = "wait"]
      /\ offer[o] = NoOffer
  BY Zenon DEF export_offer, device
<1> USE <1>1
<1>2. /\ KeyTypes' /\ id \in Nat /\ id \in DOMAIN prekeys' /\ prekeys'[id] = minted + 1
      /\ \A p \in Offer : offer'[p] = offer[p] /\ Shown(p) => (Holds(p)' <=> Holds(p))
  BY Zenon, MintsOne DEF export_offer
<1> USE <1>2
<1> HIDE DEF id
<1>3. serial \in Nat /\ minted \in Nat /\ clock \in Nat
  BY Zenon DEF PairInv, TypeInv, KeyTypes
<1> USE <1>3
<1>4. text \in OfferText
  BY DEF OfferText, Box
<1>5. /\ lst'[o] = "wait" /\ offer'[o] = text
      /\ \A p \in Offer : p # o => lst'[p] = lst[p] /\ offer'[p] = offer[p]
  BY Zenon DEF PairInv, TypeInv
<1> USE <1>5
<1>6. ~Shown(o) /\ Shown(o)' /\ \A p \in Offer : p # o => (Shown(p)' <=> Shown(p))
  BY DEF Shown, NoOffer, None
<1> USE <1>6
<1>7. ack[o] = NoAck /\ lst[o] = "none"
  BY Zenon DEF PairInv, ControlInv
<1>8. Creates
  BY Zenon, BoxKinds DEF PairInv
<1> USE <1>8
<1>9. TypeInv'
  <2>1. boxes' = [b \in DOMAIN boxes' |-> boxes'[b]]
        /\ \A b \in DOMAIN boxes' : boxes'[b] \in Seq(Post)
    BY Zenon, NoTypes, BoxTypes DEF PairInv
  <2>2. QED
    BY <1>4, <2>1 DEF PairInv, TypeInv
<1>10. ControlInv'
  <2>1. ControlInv
    BY Zenon DEF PairInv
  <2> USE <2>1
  <2>2. \A r \in Scanner : at'[r] \in {"ack", "await", "paired"}
                             => Has(r)' /\ scanned[r] \in Offer /\ Shown(scanned[r])'
    <3>1. \A r \in Scanner : at[r] \in {"ack", "await", "paired"} => scanned[r] \in Offer
      BY Zenon DEF PairInv, TypeInv
    <3>2. QED
      BY Zenon, <3>1 DEF ControlInv, Has, Shown
  <2>3. \A r \in Scanner : Has(r)' =>
          at'[r] # "idle" /\ row'[r].own_contrib = <<"b", r>> /\ scanned'[r] \in Offer
    BY Zenon DEF ControlInv, Has
  <2>4. \A p \in Offer : /\ (lst'[p] # "none" \/ ack'[p] # NoAck) => Shown(p)'
                         /\ ~Shown(p)' => offer'[p] = NoOffer
                         /\ lst'[p] \in {"create", "retire", "handoff"} => Proves(p, ack[p])'
    <3>1. \A p \in Offer : lst'[p] \in {"create", "retire", "handoff"} => p # o /\ Proves(p, ack[p])
      BY Zenon DEF ControlInv
    <3>2. \A p \in Offer : lst'[p] \in {"create", "retire", "handoff"} => Proves(p, ack[p])'
      BY Zenon, <3>1 DEF Proves
    <3>3. QED
      BY Zenon, <3>2 DEF ControlInv
  <2>5. \A p \in Offer :
          lst'[p] \in {"retire", "handoff"} => \E i \in DOMAIN rows' : rows'[i].offer = p
    BY Zenon DEF ControlInv
  <2>6. QED
    BY Zenon, <2>2, <2>3, <2>4, <2>5 DEF ControlInv
<1>11. BoxInv'
  <2>1. box \in {"fresh"} \X (0 .. serial) /\ box \notin {"fresh"} \X (0 .. serial - 1)
        /\ {"fresh"} \X (0 .. serial - 1) \subseteq {"fresh"} \X (0 .. serial)
        /\ serial' - 1 = serial /\ box # None
    BY DEF None
  <2> USE <2>1
  <2>2. BoxInv
    BY Zenon DEF PairInv
  <2> USE <2>2
  <2>3. DOMAIN boxes' \subseteq {"fresh"} \X (0 .. serial' - 1)
    BY Zenon DEF Creates, BoxInv
  <2>4. \A p \in Offer : Shown(p)' => offer'[p].inbox \in {"fresh"} \X (0 .. serial' - 1)
    BY DEF BoxInv
  <2>5. \A r \in Scanner : Has(r)' => row'[r].mailbox_recv \in {"fresh"} \X (0 .. serial' - 1)
    BY Zenon DEF BoxInv, Has
  <2>6. \A p, q \in Offer : Shown(p)' /\ offer'[p].inbox = offer'[q].inbox => p = q
    BY DEF BoxInv, Shown
  <2>7. \A p \in Offer, r \in Scanner : Shown(p)' => offer'[p].inbox # row'[r].mailbox_recv
    BY DEF BoxInv, Has, Shown
  <2>8. \A r, q \in Scanner : Has(r)' /\ row'[r].mailbox_recv = row'[q].mailbox_recv => r = q
    BY Zenon DEF BoxInv, Has
  <2>9. QED
    BY Zenon, <2>3, <2>4, <2>5, <2>6, <2>7, <2>8 DEF BoxInv
<1>12. KeyInv'
  <2>1. KeyInv
    BY Zenon DEF PairInv
  <2> USE <2>1
  <2>2. \A p \in Offer : Shown(p)' => offer'[p].key \in 1 .. minted' /\ offer'[p].secret = <<p>>
    BY DEF KeyInv
  <2>3. \A p, q \in Offer : Shown(p)' /\ Shown(q)' /\ offer'[p].key = offer'[q].key => p = q
    BY DEF KeyInv
  <2>4. \A p \in Offer : ack'[p] # NoAck => p # o /\ Shown(p) /\ ~Holds(p)
    BY Zenon, <1>7 DEF KeyInv, PairInv, ControlInv
  <2>5. \A p \in Offer : ack'[p] # NoAck => ~Holds(p)'
    BY Zenon, <2>4
  <2>6. \A p \in Offer : lst'[p] = "wait" /\ ack'[p] = NoAck => Holds(p)'
    <3>1. Holds(o)'
      BY DEF Holds
    <3>2. \A p \in Offer : p # o /\ lst'[p] = "wait" /\ ack'[p] = NoAck => Shown(p) /\ Holds(p)
      BY DEF KeyInv, OfferKeepsKey, Holds, PairInv, ControlInv
    <3>3. QED
      BY Zenon, <3>1, <3>2
  <2>7. QED
    BY Zenon, <2>2, <2>3, <2>5, <2>6 DEF KeyInv, OfferKeepsKey, Holds
<1>13. FrameInv'
  <2>1. box \notin DOMAIN boxes
    BY DEF PairInv, BoxInv
  <2>2. ASSUME NEW b \in DOMAIN boxes, NEW f, Fits(b, f) PROVE Fits(b, f)'
    <3> USE <2>2
    <3>1. ASSUME NEW p \in Offer, Shown(p)', offer'[p].inbox = b PROVE AckFrame(p, f)'
      <4> USE <3>1
      <4>1. p # o
        BY <2>1
      <4>2. AckFrame(p, f)
        BY Zenon, <4>1 DEF Fits
      <4>3. QED
        BY Zenon, <4>1, <4>2 DEF AckFrame, Genuine, Has, Proves
    <3>2. ASSUME NEW r \in Scanner, Has(r)', row'[r].mailbox_recv = b PROVE UpdateFrame(r, f)'
      BY Zenon, <3>2 DEF Fits, UpdateFrame, Answers, Has
    <3>3. QED
      BY Zenon, <3>1, <3>2 DEF Fits
  <2>3. QED
    BY Zenon, <2>2, NoTypes, BoxFrames DEF PairInv
<1>14. RowInv'
  <2>1. ~Proves(o, ack[o]) /\ ~Proves(o, ack[o])'
    <3>1. NoAck.form # "pair-ack/2" /\ ack'[o] = NoAck
      BY Zenon, <1>7 DEF NoAck
    <3>2. QED
      BY Zenon, <1>7, <3>1 DEF Proves
  <2>2. \A p \in Offer : Proves(p, ack[p])' => p # o /\ Proves(p, ack[p])
    BY Zenon, <2>1 DEF Proves
  <2>3. \A p \in Offer : Proves(p, ack[p])' => Genuine(p, ack[p])'
    BY Zenon, <2>2 DEF PairInv, RowInv, Genuine, Has
  <2>4. ASSUME NEW i \in DOMAIN rows
        PROVE  LET p == rows[i].offer IN
                 /\ ack[p].form = "pair-ack/2" /\ ack[p].secret = offer'[p].secret
                 /\ rows[i].row = OffererRow(ack[p], <<"a", p>>, rows[i].row.mailbox_recv)
    <3>1. /\ rows[i].offer \in Offer /\ Proves(rows[i].offer, ack[rows[i].offer])
          /\ rows[i].row = OffererRow(ack[rows[i].offer], <<"a", rows[i].offer>>,
                                      rows[i].row.mailbox_recv)
      BY Zenon, RowsTyped DEF PairInv, RowInv
    <3>2. offer'[rows[i].offer] = offer[rows[i].offer]
      BY Zenon, <2>1, <3>1
    <3>3. QED
      BY Zenon, <3>1, <3>2 DEF Proves
  <2>5. QED
    BY Zenon, <2>3, <2>4 DEF RowInv, Proves
<1>15. HeadInv'
  <2>1. \A p \in Offer : lst'[p] = "create" => p # o /\ lst[p] = "create" /\ Shown(p)
    BY Zenon DEF PairInv, ControlInv
  <2>2. \A p \in Offer : Shown(p) => offer[p].inbox # box
    BY DEF PairInv, BoxInv
  <2>3. QED
    BY <2>1, <2>2 DEF PairInv, HeadInv, Creates
<1>16. PairedAgree'
  BY DEF PairInv, PairedAgree
<1>17. QED
  BY Zenon, <1>9, <1>10, <1>11, <1>12, <1>13, <1>14, <1>15, <1>16 DEF PairInv

-----------------------------------------------------------------------------
(* The actions that store a conversation or send a frame *)

\* The mailbox the relay picked is new to everyone.
LEMMA CreatesBox ==
  ASSUME PairInv, Creates, serial' = serial + 1, UNCHANGED offer,
         NEW r, \A q \in Scanner : q # r => row'[q] = row[q],
         row'[r].mailbox_recv = <<"fresh", serial>> \/ row'[r] = row[r]
  PROVE  BoxInv'
<1>1. BoxInv /\ serial \in Nat
  BY Zenon DEF PairInv, TypeInv
<1> USE <1>1
<1> DEFINE box == <<"fresh", serial>>
<1>2. box \in {"fresh"} \X (0 .. serial) /\ box \notin {"fresh"} \X (0 .. serial - 1)
      /\ {"fresh"} \X (0 .. serial - 1) \subseteq {"fresh"} \X (0 .. serial)
      /\ serial' - 1 = serial /\ box # None
  BY DEF None
<1> USE <1>2
<1>3. \A p \in Offer : Shown(p)' <=> Shown(p)
  BY Zenon DEF Shown
<1>4. \A q \in Scanner : Has(q)' /\ row'[q].mailbox_recv # box
        => Has(q) /\ row'[q].mailbox_recv = row[q].mailbox_recv
  BY Zenon DEF Has
<1>5. \A q \in Scanner : Has(q)' => row'[q].mailbox_recv \in {"fresh"} \X (0 .. serial)
  BY Zenon, <1>4 DEF BoxInv
<1>6. \A p \in Offer : Shown(p) => offer[p].inbox # box
  BY Zenon DEF BoxInv
<1>7. \A q \in Scanner : row[q].mailbox_recv # box
  BY Zenon DEF BoxInv, Has
<1>8. \A q, t \in Scanner : Has(q)' /\ row'[q].mailbox_recv = row'[t].mailbox_recv => q = t
  BY <1>4, <1>7 DEF BoxInv, Has
<1>9. \A p \in Offer, q \in Scanner : Shown(p)' => offer'[p].inbox # row'[q].mailbox_recv
  <2> SUFFICES ASSUME NEW p \in Offer, NEW q \in Scanner, Shown(p)
               PROVE  offer[p].inbox # row'[q].mailbox_recv
    BY Zenon, <1>3
  <2>1. offer[p].inbox # row[q].mailbox_recv /\ offer[p].inbox # box
    BY Zenon, <1>6 DEF BoxInv
  <2>2. QED
    BY Zenon, <2>1
<1>10. DOMAIN boxes' \subseteq {"fresh"} \X (0 .. serial)
  BY Zenon DEF Creates, BoxInv
<1>11. \A p \in Offer : Shown(p)' => offer'[p].inbox \in {"fresh"} \X (0 .. serial)
  BY Zenon, <1>3 DEF BoxInv
<1>12. \A p, q \in Offer : Shown(p)' /\ offer'[p].inbox = offer'[q].inbox => p = q
  BY Zenon, <1>3 DEF BoxInv
<1> HIDE DEF box
<1>13. QED
  BY Zenon, <1>5, <1>8, <1>9, <1>10, <1>11, <1>12 DEF BoxInv

\* A frame queued or a mailbox created leaves the pair-ack being handled.
LEMMA HeadGrows ==
  ASSUME PairInv, NEW id, NEW f \in Post, Creates \/ Queues(id, f), UNCHANGED offer,
         \A o \in Offer : lst'[o] = "create" => lst[o] = "create"
  PROVE  HeadInv'
<1> SUFFICES ASSUME NEW o \in Offer, lst'[o] = "create", offer[o].inbox \in DOMAIN boxes'
             PROVE  boxes'[offer[o].inbox] # << >>
  BY Zenon DEF HeadInv
<1>1. lst[o] = "create" /\ Shown(o) /\ offer[o].inbox # <<"fresh", serial>>
  BY DEF PairInv, ControlInv, BoxInv, TypeInv
<1>2. offer[o].inbox \in DOMAIN boxes
  BY Zenon, <1>1 DEF Creates, Queues
<1>3. boxes[offer[o].inbox] # << >> /\ boxes[offer[o].inbox] \in Seq(Post)
  BY Zenon, <1>1, <1>2 DEF PairInv, HeadInv, TypeInv
<1>4. Append(boxes[offer[o].inbox], f) # << >>
  BY <1>3
<1>5. QED
  BY Zenon, <1>2, <1>3, <1>4 DEF Creates, Queues

\* The offerer stores the conversation its pair-ack asked for.
LEMMA StoredStep ==
  ASSUME PairInv, NEW o \in Offer, ack_stored(o)
  PROVE  PairInv'
<1> DEFINE new == [offer |-> o, row |-> OffererRow(ack[o], <<"a", o>>, <<"fresh", serial>>)]
<1>1. /\ UNCHANGED <<clock, prekeys, minted, offer, at, ack, row, scanned>>
      /\ boxes' = create_mailbox(boxes, serial) /\ serial' = serial + 1
      /\ rows' = Append(rows, new) /\ lst' = [lst EXCEPT ![o] = "retire"] /\ lst[o] = "create"
  BY Zenon DEF ack_stored, device
<1> USE <1>1
<1>2. Proves(o, ack[o]) /\ ack[o] \in Ack /\ serial \in Nat
      /\ rows \in Seq([offer : Offer, row : Row])
  BY Zenon DEF PairInv, ControlInv, TypeInv
<1> USE <1>2
<1>3. /\ lst'[o] = "retire" /\ \A p \in Offer : p # o => lst'[p] = lst[p]
  BY Zenon DEF PairInv, TypeInv
<1> USE <1>3
<1>4. new.row \in Row /\ new \in [offer : Offer, row : Row]
      /\ new.row.mailbox_recv = <<"fresh", serial>>
  <2>1. ack[o].from \in Device /\ ack[o].inbox \in Box /\ ack[o].contribution \in Contrib
    BY Zenon DEF Ack
  <2>2. <<"fresh", serial>> \in Box /\ <<"a", o>> \in Contrib
    BY Zenon DEF Box, Contrib
  <2>3. new.row \in Row /\ new.row.mailbox_recv = <<"fresh", serial>>
    BY Zenon, <2>1, <2>2 DEF OffererRow, set_recovery_root, set_recovery_pairing,
       create_routed_conversation, derive_root, Row
  <2>4. QED
    BY Zenon, <2>3
<1> HIDE DEF new
<1>5. /\ rows' \in Seq([offer : Offer, row : Row])
      /\ \A i \in DOMAIN rows : i \in DOMAIN rows' /\ rows'[i] = rows[i]
      /\ Len(rows) + 1 \in DOMAIN rows' /\ rows'[Len(rows) + 1] = new
      /\ \A i \in DOMAIN rows' : i \in DOMAIN rows \/ i = Len(rows) + 1
  BY <1>4
<1> USE <1>5
<1>6. RowsStay
  BY Zenon DEF RowsStay
<1>7. Creates
  BY Zenon, BoxKinds DEF PairInv
<1> USE <1>7
<1>8. TypeInv'
  <2>1. boxes' = [b \in DOMAIN boxes' |-> boxes'[b]]
        /\ \A b \in DOMAIN boxes' : boxes'[b] \in Seq(Post)
    BY Zenon, NoTypes, BoxTypes DEF PairInv
  <2>2. KeyTypes'
    BY DEF PairInv, TypeInv, KeyTypes
  <2>3. QED
    BY <2>1, <2>2 DEF PairInv, TypeInv
<1>9. ControlInv'
  <2>1. ControlInv
    BY Zenon DEF PairInv
  <2>2. \A p \in Offer : lst'[p] \in {"retire", "handoff"}
          => \E i \in DOMAIN rows' : rows'[i].offer = p
    <3>1. new.offer = o
      BY Zenon DEF new
    <3>2. QED
      BY <2>1, <3>1 DEF ControlInv
  <2>3. \A p \in Offer : /\ (lst'[p] # "none" \/ ack'[p] # NoAck) => Shown(p)'
                         /\ ~Shown(p)' => offer'[p] = NoOffer
                         /\ lst'[p] \in {"create", "retire", "handoff"} => Proves(p, ack[p])'
    BY Zenon, <2>1 DEF ControlInv, Shown, Proves
  <2>4. QED
    BY Zenon, <2>1, <2>2, <2>3 DEF ControlInv, Shown, Has
<1>10. BoxInv'
  BY Zenon, CreatesBox
<1>11. KeyInv'
  <2>1. OfferKeepsKey'
    BY Zenon DEF PairInv, KeyInv, OfferKeepsKey
  <2>2. QED
    BY Zenon, <2>1 DEF PairInv, KeyInv, Shown, Holds
<1>12. FrameInv'
  BY Zenon, <1>6, FitsKept, NoTypes, BoxFrames DEF PairInv
<1>13. RowInv'
  <2>1. \A p \in Offer : Proves(p, ack[p])' => Genuine(p, ack[p])'
    BY Zenon DEF PairInv, RowInv, Genuine, Has, Proves
  <2>2. new.offer = o /\ new.row = OffererRow(ack[o], <<"a", o>>, new.row.mailbox_recv)
    BY Zenon, <1>4 DEF new
  <2>3. ASSUME NEW i \in DOMAIN rows'
        PROVE  /\ Proves(rows'[i].offer, ack[rows'[i].offer])
               /\ rows'[i].row = OffererRow(ack[rows'[i].offer], <<"a", rows'[i].offer>>,
                                            rows'[i].row.mailbox_recv)
    <3>1. CASE i \in DOMAIN rows
      BY Zenon, <3>1 DEF PairInv, RowInv
    <3>2. CASE i = Len(rows) + 1
      BY Zenon, <2>2, <3>2
    <3>3. QED
      BY Zenon, <3>1, <3>2
  <2>4. QED
    BY Zenon, <2>1, <2>3 DEF RowInv, Proves
<1>14. HeadInv'
  BY Zenon, NoTypes, HeadGrows
<1>15. PairedAgree'
  BY SMTT(30) DEF PairInv, PairedAgree
<1>16. QED
  BY Zenon, <1>8, <1>9, <1>10, <1>11, <1>12, <1>13, <1>14, <1>15 DEF PairInv

\* A frame is queued for its reader, or its mailbox is gone.
LEMMA QueuesStep ==
  ASSUME PairInv, Passes \/ (lst' = lst /\ clock' = clock),
         NEW id, NEW f \in Post, Queues(id, f), id \in DOMAIN boxes => Fits(id, f),
         UNCHANGED <<serial, prekeys, minted, Scene>>,
         at' \in [Scanner -> {"idle", "ack", "await", "paired", "failed"}],
         \A r \in Scanner : \/ at'[r] = at[r] \/ at'[r] = "failed"
                            \/ at[r] = "ack" /\ at'[r] = "await"
  PROVE  PairInv'
<1>1. UNCHANGED <<offer, ack, rows, row, scanned, serial, prekeys, minted>>
  BY Zenon DEF Scene
<1> USE <1>1
<1>2. /\ lst' \in [Offer -> {"none", "wait", "create", "retire", "handoff", "ended"}]
      /\ clock' \in Nat
      /\ \A o \in Offer :
           \/ lst'[o] = lst[o]
           \/ lst[o] # "none" /\ lst'[o] = "ended"
           \/ lst[o] \in {"create", "handoff"} /\ lst'[o] = "wait"
           \/ lst[o] = "retire" /\ lst'[o] = "handoff"
  BY Zenon DEF Passes, PairInv, TypeInv
<1> USE <1>2
<1>3. TypeInv'
  <2>1. boxes' = [b \in DOMAIN boxes' |-> boxes'[b]]
        /\ \A b \in DOMAIN boxes' : boxes'[b] \in Seq(Post)
    BY Zenon, BoxTypes DEF PairInv
  <2>2. KeyTypes'
    BY DEF PairInv, TypeInv, KeyTypes
  <2>3. \A r \in Scanner : at'[r] \notin {"idle", "failed"} => scanned'[r] \in Offer
    BY Zenon DEF PairInv, TypeInv
  <2>4. QED
    BY <2>1, <2>2, <2>3 DEF PairInv, TypeInv
<1>4. ControlInv'
  <2>1. ControlInv
    BY Zenon DEF PairInv
  <2> USE <2>1
  <2>2. \A o \in Offer : Shown(o)' <=> Shown(o)
    BY Zenon DEF Shown
  <2>3. \A r \in Scanner : Has(r)' <=> Has(r)
    BY Zenon DEF Has
  <2>4. \A r \in Scanner : at'[r] \in {"ack", "await", "paired"}
                              => Has(r)' /\ Shown(scanned[r])'
    BY Zenon, <2>3 DEF ControlInv, Shown
  <2>5. \A r \in Scanner : Has(r)' =>
          at'[r] # "idle" /\ row'[r].own_contrib = <<"b", r>> /\ scanned'[r] \in Offer
    BY Zenon, <2>3 DEF ControlInv
  <2>6. \A o \in Offer : /\ (lst'[o] # "none" \/ ack'[o] # NoAck) => Shown(o)'
                         /\ ~Shown(o)' => offer'[o] = NoOffer
                         /\ lst'[o] \in {"create", "retire", "handoff"} => Proves(o, ack[o])'
    BY Zenon, <1>2, <2>2 DEF ControlInv, Proves
  <2>7. \A o \in Offer :
          lst'[o] \in {"retire", "handoff"} => \E i \in DOMAIN rows' : rows'[i].offer = o
    BY Zenon DEF ControlInv
  <2>8. QED
    BY Zenon, <2>4, <2>5, <2>6, <2>7 DEF ControlInv
<1>5. BoxInv'
  BY DEF PairInv, BoxInv, Queues, Shown, Has
<1>6. KeyInv'
  <2>1. OfferKeepsKey'
    <3>1. \A o \in Offer : lst[o] \in {"create", "retire", "handoff"} => ack[o] # NoAck
      BY Zenon, NoProof DEF PairInv, ControlInv
    <3>2. QED
      BY <3>1 DEF PairInv, KeyInv, OfferKeepsKey
  <2>2. QED
    BY Zenon, <2>1 DEF PairInv, KeyInv, Shown, Holds
<1>7. RowsStay
  BY Zenon DEF RowsStay
<1>8. FrameInv'
  <2>1. \A b, g : Fits(b, g) => Fits(b, g)'
    BY Zenon, <1>7, FitsKept
  <2>2. QED
    BY Zenon, <2>1, BoxFrames DEF PairInv
<1>9. RowInv'
  BY Zenon DEF PairInv, RowInv, Genuine, Has, Proves
<1>10. HeadInv'
  BY Zenon, HeadGrows
<1>11. PairedAgree'
  BY DEF PairInv, PairedAgree
<1>12. QED
  BY Zenon, <1>3, <1>4, <1>5, <1>6, <1>8, <1>9, <1>10, <1>11 DEF PairInv

\* The handoff goes to the device whose pair-ack the offer keeps.
LEMMA HandoffStep ==
  ASSUME PairInv, NEW o \in Offer, ack_done(o, TRUE)
  PROVE  PairInv'
<1>1. /\ UNCHANGED <<clock, at, prekeys, minted, serial, offer, ack, rows, row, scanned>>
      /\ boxes' = deposit(boxes, ack[o].inbox, Handoff(o))
      /\ lst' = [lst EXCEPT ![o] = "ended"] /\ lst[o] = "handoff"
  BY Zenon DEF ack_done, device
<1> USE <1>1
<1>2. Stored(o) \in DOMAIN rows /\ rows[Stored(o)].offer = o
  <2>1. \E i \in DOMAIN rows : rows[i].offer = o
    BY Zenon DEF PairInv, ControlInv
  <2>2. QED
    BY Zenon, <2>1 DEF Stored
<1>3. PICK i \in DOMAIN rows : i = Stored(o) /\ rows[i].offer = o
  BY Zenon, <1>2
<1>4. rows[i].row \in Row /\ Proves(o, ack[o])
      /\ rows[i].row = OffererRow(ack[o], <<"a", o>>, rows[i].row.mailbox_recv)
  BY Zenon, <1>3, RowsTyped DEF PairInv, RowInv
<1>5. PICK r \in Scanner : /\ ack[o].from = r /\ Has(r) /\ scanned[r] = o
                           /\ ack[o].inbox = row[r].mailbox_recv
                           /\ ack[o].contribution = <<"b", r>>
  BY Zenon, <1>4 DEF PairInv, RowInv, Genuine
<1>6. /\ rows[i].row.own_contrib = <<"a", o>> /\ rows[i].row.peer_address = r
      /\ rows[i].row.root = <<<<"a", o>>, <<"b", r>>>>
      /\ rows[i].row.mailbox_send = row[r].mailbox_recv
  <2> DEFINE recv == rows[i].row.mailbox_recv
             made == OffererRow(ack[o], <<"a", o>>, recv)
  <2>1. /\ made.own_contrib = <<"a", o>> /\ made.peer_address = ack[o].from
        /\ made.root = <<<<"a", o>>, ack[o].contribution>>
        /\ made.mailbox_send = ack[o].inbox
    BY Zenon DEF OffererRow, set_recovery_root, set_recovery_pairing, create_routed_conversation,
           derive_root
  <2>2. rows[i].row = made
    BY Zenon, <1>4
  <2> HIDE DEF made
  <2>3. QED
    BY Zenon, <1>5, <2>1, <2>2
<1> DEFINE f == Handoff(o)
<1>7. /\ f = [type |-> "handoff", inbox |-> rows[i].row.mailbox_recv, contribution |-> <<"a", o>>]
  BY Zenon, <1>3, <1>6 DEF Handoff
<1>8. f \in Update /\ f \in Post /\ f.inbox = rows[i].row.mailbox_recv
      /\ f.contribution = <<"a", o>>
  BY <1>4, <1>7 DEF Update, Post, Row, Contrib
<1> HIDE DEF f
<1>9. UpdateFrame(r, f)
  BY Zenon, <1>3, <1>5, <1>6, <1>8 DEF UpdateFrame, Answers
<1>10. Fits(ack[o].inbox, f)
  <2>1. \A p \in Offer : Shown(p) => offer[p].inbox # ack[o].inbox
    <3>1. \A p \in Offer, q \in Scanner : Shown(p) => offer[p].inbox # row[q].mailbox_recv
      BY Zenon DEF PairInv, BoxInv
    <3>2. QED
      BY Zenon, <1>5, <3>1
  <2>2. \A q \in Scanner : Has(q) /\ row[q].mailbox_recv = ack[o].inbox => q = r
    BY Zenon, <1>5 DEF PairInv, BoxInv
  <2>3. QED
    BY Zenon, <1>9, <2>1, <2>2 DEF Fits
<1>11. Queues(ack[o].inbox, f)
  BY Zenon, BoxKinds DEF PairInv, f
<1>12. Passes
  BY Zenon, ListenerPasses
<1>13. UNCHANGED <<serial, prekeys, minted, Scene>> /\ at' = at
       /\ at \in [Scanner -> {"idle", "ack", "await", "paired", "failed"}]
  BY Zenon DEF Scene, PairInv, TypeInv
<1>14. QED
  BY Zenon, <1>8, <1>10, <1>11, <1>12, <1>13, QueuesStep

\* A pair-ack goes to the offer that was scanned.
LEMMA AckStep ==
  ASSUME PairInv, NEW r \in Scanner, deposit_ack(r, TRUE)
  PROVE  PairInv'
<1> DEFINE o == scanned[r]
           f == PairAck(r)
<1>1. /\ UNCHANGED <<clock, prekeys, minted, serial, offer, lst, ack, rows, row, scanned>>
      /\ boxes' = deposit(boxes, offer[o].inbox, f) /\ at[r] = "ack"
      /\ Goto(r, IF Accepts(boxes, offer[o].inbox) THEN "await" ELSE "failed")
  BY Zenon DEF deposit_ack, side
<1> USE <1>1
<1>2. o \in Offer /\ Shown(o) /\ Has(r) /\ row[r].own_contrib = <<"b", r>>
  BY Zenon DEF PairInv, TypeInv, ControlInv
<1> USE <1>2
<1>3. offer[o] \in OfferText /\ row[r] \in Row
  BY Zenon DEF PairInv, TypeInv
<1>4. f = [form |-> "pair-ack/2", from |-> r, prekey |-> offer[o].prekey, key |-> offer[o].key,
           inbox |-> row[r].mailbox_recv, contribution |-> <<"b", r>>, secret |-> offer[o].secret]
  BY Zenon DEF PairAck, establish_session
<1>5. f \in Ack /\ f \in Post
  BY <1>3, <1>4 DEF Ack, Post, OfferText, Row, Contrib, Device
<1> HIDE DEF f
<1>6. Genuine(o, f)
  BY Zenon, <1>4 DEF Genuine
<1>7. AckFrame(o, f)
  <2>1. f # NoAck
    BY <1>4 DEF NoAck, None
  <2>2. QED
    BY Zenon, <1>4, <1>5, <1>6, <2>1 DEF AckFrame
<1>8. Fits(offer[o].inbox, f)
  <2>1. \A p \in Offer : Shown(p) /\ offer[p].inbox = offer[o].inbox => p = o
    BY Zenon DEF PairInv, BoxInv
  <2>2. \A q \in Scanner : row[q].mailbox_recv # offer[o].inbox
    BY Zenon DEF PairInv, BoxInv
  <2>3. QED
    BY Zenon, <1>7, <2>1, <2>2 DEF Fits
<1>9. Queues(offer[o].inbox, f)
  BY Zenon, BoxKinds DEF PairInv
<1>10. /\ at' \in [Scanner -> {"idle", "ack", "await", "paired", "failed"}]
       /\ \A q \in Scanner : \/ at'[q] = at[q] \/ at'[q] = "failed"
                             \/ at[q] = "ack" /\ at'[q] = "await"
  BY Zenon DEF PairInv, TypeInv, Goto
<1>11. UNCHANGED <<serial, prekeys, minted, Scene>>
  BY Zenon DEF Scene
<1>12. QED
  BY Zenon, <1>5, <1>8, <1>9, <1>10, <1>11, QueuesStep
\* A pair-ack under another secret does not prove the scan.
LEMMA StrayStep ==
  ASSUME PairInv, NEW o \in Offer, NEW form \in {"pair-ack/2", "other"}, stray_frame(o, form)
  PROVE  PairInv'
<1>0. None # <<o>>
  BY DEF None
<1> DEFINE f == [NoAck EXCEPT !.form = form, !.prekey = offer[o].prekey, !.key = offer[o].key]
<1>1. /\ UNCHANGED <<clock, prekeys, minted, serial, offer, lst, at, ack, rows, row, scanned>>
      /\ boxes' = deposit(boxes, offer[o].inbox, f) /\ lst[o] = "wait"
  BY Zenon DEF stray_frame, side, device, Listens
<1> USE <1>1
<1>2. Shown(o) /\ offer[o] \in OfferText /\ offer[o].secret = <<o>>
  BY Zenon DEF PairInv, TypeInv, ControlInv, KeyInv
<1> USE <1>2
<1>3. f \in Ack /\ f \in Post /\ f.prekey = offer[o].prekey /\ f.key = offer[o].key
      /\ f.secret = None /\ f # NoAck
  <2>1. f \in Ack /\ f \in Post /\ f.prekey = offer[o].prekey /\ f.key = offer[o].key
        /\ f.secret = None
    BY Zenon, NoTypes DEF Ack, Post, OfferText, NoAck
  <2>2. f.form = form /\ NoAck.form = "none" /\ form # "none"
    BY Zenon DEF NoAck
  <2>3. QED
    BY Zenon, <2>1, <2>2
<1> HIDE DEF f
<1>4. AckFrame(o, f)
  BY Zenon, <1>0, <1>3 DEF AckFrame, Proves
<1>5. Fits(offer[o].inbox, f)
  <2>1. \A p \in Offer : Shown(p) /\ offer[p].inbox = offer[o].inbox => p = o
    BY Zenon DEF PairInv, BoxInv
  <2>2. \A q \in Scanner : row[q].mailbox_recv # offer[o].inbox
    BY Zenon DEF PairInv, BoxInv
  <2>3. QED
    BY Zenon, <1>4, <2>1, <2>2 DEF Fits
<1>6. Queues(offer[o].inbox, f)
  BY Zenon, BoxKinds DEF PairInv
<1>7. UNCHANGED <<serial, prekeys, minted, Scene>> /\ at' = at
      /\ at \in [Scanner -> {"idle", "ack", "await", "paired", "failed"}]
  BY Zenon DEF Scene, PairInv, TypeInv
<1>8. QED
  BY Zenon, <1>3, <1>5, <1>6, <1>7, QueuesStep
\* The offer a device scanned is fixed when it gets its mailbox.
LEMMA ScanStep ==
  ASSUME PairInv, NEW r \in Scanner, NEW o \in Offer, NEW ok \in BOOLEAN,
         begin_pairing_from_offer(r, o, ok)
  PROVE  PairInv'
<1> DEFINE box == <<"fresh", serial>>
           new == set_recovery_pairing(create_routed_conversation(Me, Relay, None, box),
                                       Responder, <<"b", r>>)
<1>1. /\ UNCHANGED <<clock, prekeys, minted, offer, lst, ack, rows>>
      /\ at[r] = "idle" /\ offer[o] # NoOffer
      /\ scanned' = [scanned EXCEPT ![r] = o]
  BY Zenon DEF begin_pairing_from_offer, side
<1> USE <1>1
<1>2. \/ /\ boxes' = create_mailbox(boxes, serial) /\ serial' = serial + 1
         /\ row' = [row EXCEPT ![r] = new] /\ at' = [at EXCEPT ![r] = "ack"]
      \/ boxes' = boxes /\ serial' = serial /\ row' = row /\ at' = [at EXCEPT ![r] = "failed"]
  BY Zenon DEF begin_pairing_from_offer, Goto
<1>3. serial \in Nat /\ row \in [Scanner -> Row]
      /\ at \in [Scanner -> {"idle", "ack", "await", "paired", "failed"}]
      /\ DOMAIN scanned = Scanner /\ scanned = [q \in Scanner |-> scanned[q]]
  BY Zenon DEF PairInv, TypeInv
<1> USE <1>3
<1>4. new \in Row /\ new.mailbox_recv = box /\ new.own_contrib = <<"b", r>> /\ box # None
  <2>1. box \in Box /\ <<"b", r>> \in Contrib /\ box # None
    BY Zenon DEF Box, Contrib, None
  <2>2. QED
    BY ZenonT(40), <2>1 DEF set_recovery_pairing, create_routed_conversation, Row, Device,
       Contrib, Box
<1> USE <1>4
<1> HIDE DEF new
<1>5. ~Has(r) /\ Shown(o)
  BY Zenon DEF PairInv, ControlInv
<1> USE <1>5
<1>6. /\ \A q \in Scanner : q # r => row'[q] = row[q] /\ at'[q] = at[q] /\ scanned'[q] = scanned[q]
      /\ row' \in [Scanner -> Row]
      /\ at' \in [Scanner -> {"idle", "ack", "await", "paired", "failed"}]
      /\ scanned'[r] = o /\ DOMAIN scanned' = Scanner
      /\ scanned' = [q \in Scanner |-> scanned'[q]]
      /\ (row'[r] = new /\ at'[r] = "ack") \/ (row'[r] = row[r] /\ at'[r] = "failed")
  BY <1>2
<1> USE <1>6
<1>7. \/ Creates /\ serial' = serial + 1
      \/ Shrinks /\ serial' = serial /\ row' = row /\ boxes' = boxes
  <2>1. (boxes' = create_mailbox(boxes, serial) => Creates) /\ (boxes' = boxes => Shrinks)
    BY Zenon, BoxKinds DEF PairInv
  <2>2. QED
    BY Zenon, <1>2, <2>1
<1> USE <1>7
<1>8. TypeInv'
  <2>1. boxes' = [b \in DOMAIN boxes' |-> boxes'[b]]
        /\ \A b \in DOMAIN boxes' : boxes'[b] \in Seq(Post)
    BY Zenon, NoTypes, BoxTypes DEF PairInv
  <2>2. KeyTypes'
    BY DEF PairInv, TypeInv, KeyTypes
  <2>3. \A q \in Scanner : at'[q] \notin {"idle", "failed"} => scanned'[q] \in Offer
    BY Zenon DEF PairInv, TypeInv
  <2>4. serial' \in Nat
    OBVIOUS
  <2>5. QED
    BY Zenon, <2>1, <2>2, <2>3, <2>4 DEF PairInv, TypeInv
<1>9. ControlInv'
  <2>1. ControlInv
    BY Zenon DEF PairInv
  <2>2. \A p \in Offer : Shown(p)' <=> Shown(p)
    BY Zenon DEF Shown
  <2>3. \A q \in Scanner : q # r => (Has(q)' <=> Has(q))
    BY Zenon DEF Has
  <2>4. at'[r] = "ack" => Has(r)'
    BY Zenon DEF Has
  <2>5. \A q \in Scanner : at'[q] \in {"ack", "await", "paired"}
          => Has(q)' /\ scanned'[q] \in Offer /\ Shown(scanned'[q])
    BY Zenon, <1>8, <2>1, <2>3, <2>4 DEF ControlInv, TypeInv
  <2>6. \A q \in Scanner : Has(q)' =>
          at'[q] # "idle" /\ row'[q].own_contrib = <<"b", q>> /\ scanned'[q] \in Offer
    <3>1. ASSUME Has(r)' PROVE at'[r] # "idle" /\ row'[r].own_contrib = <<"b", r>>
      BY Zenon, <3>1 DEF Has
    <3>2. QED
      BY <2>1, <2>3, <3>1 DEF ControlInv
  <2>7. \A q \in Scanner : at'[q] \in {"ack", "await", "paired"} => Has(q)' /\ Shown(scanned[q])'
    BY Zenon, <2>5 DEF Shown
  <2>8. QED
    BY <2>1, <2>2, <2>6, <2>7 DEF ControlInv, Proves
<1>10. BoxInv'
  <2>1. CASE Creates /\ serial' = serial + 1
    <3>1. row'[r].mailbox_recv = <<"fresh", serial>> \/ row'[r] = row[r]
      BY Zenon
    <3>2. QED
      BY Zenon, <2>1, <3>1, CreatesBox
  <2>2. CASE serial' = serial /\ row' = row /\ boxes' = boxes
    BY <2>2 DEF PairInv, BoxInv, Shown, Has
  <2>3. QED
    BY Zenon, <2>1, <2>2
<1>11. KeyInv'
  BY DEF PairInv, KeyInv, OfferKeepsKey, Shown, Holds
<1>12. ASSUME NEW p \in Offer, NEW f, Genuine(p, f) PROVE Genuine(p, f)'
  <2>1. PICK q \in Scanner : /\ f.from = q /\ Has(q) /\ scanned[q] = p
                             /\ f.inbox = row[q].mailbox_recv /\ f.contribution = <<"b", q>>
    BY Zenon, <1>12 DEF Genuine
  <2>2. q # r
    BY Zenon, <2>1
  <2>3. QED
    BY ZenonT(60), <2>1, <2>2 DEF Genuine, Has
<1>13. ASSUME NEW b \in DOMAIN boxes, NEW f, Fits(b, f) PROVE Fits(b, f)'
  <2> USE <1>13
  <2>1. ASSUME NEW p \in Offer, Shown(p)', offer'[p].inbox = b PROVE AckFrame(p, f)'
    <3>1. AckFrame(p, f)
      BY Zenon, <2>1 DEF Fits, Shown
    <3>2. QED
      BY Zenon, <1>12, <3>1 DEF AckFrame, Proves
  <2>2. ASSUME NEW q \in Scanner, Has(q)', row'[q].mailbox_recv = b PROVE UpdateFrame(q, f)'
    <3> USE <2>2
    <3>1. box \notin DOMAIN boxes
      BY DEF PairInv, BoxInv
    <3>2. q # r
      BY <3>1 DEF Has
    <3>3. UpdateFrame(q, f)
      BY Zenon, <3>2 DEF Fits, Has
    <3>4. QED
      BY ZenonT(60), <3>2, <3>3 DEF UpdateFrame, Answers
  <2>3. QED
    BY Zenon, <2>1, <2>2 DEF Fits
<1>14. FrameInv'
  BY Zenon, <1>13, NoTypes, BoxFrames DEF PairInv
<1>15. RowInv'
  <2>1. \A p \in Offer : Proves(p, ack[p])' => Genuine(p, ack[p])
    BY Zenon DEF PairInv, RowInv, Proves
  <2>2. \A p \in Offer : Genuine(p, ack[p]) => Genuine(p, ack[p])'
    <3> SUFFICES ASSUME NEW p \in Offer, Genuine(p, ack[p]) PROVE Genuine(p, ack[p])'
      BY Zenon
    <3>1. PICK f : f = ack[p] /\ Genuine(p, f)
      BY Zenon
    <3>2. Genuine(p, f)' /\ f = ack'[p]
      BY Zenon, <1>12, <3>1
    <3>3. QED
      BY Zenon, <3>2 DEF Genuine, Has
  <2>3. QED
    BY Zenon, <2>1, <2>2 DEF PairInv, RowInv, Proves
<1>16. HeadInv'
  <2>1. CASE Creates
    BY Zenon, <2>1, NoTypes, HeadGrows
  <2>2. CASE boxes' = boxes
    BY Zenon, <2>2 DEF PairInv, HeadInv
  <2>3. QED
    BY Zenon, <2>1, <2>2
<1>17. PairedAgree'
  BY DEF PairInv, PairedAgree
<1>18. QED
  BY Zenon, <1>8, <1>9, <1>10, <1>11, <1>14, <1>15, <1>16, <1>17 DEF PairInv

\* The handoff completes the row, and the offerer's row agrees with it.
LEMMA TakenStep ==
  ASSUME PairInv, NEW r \in Scanner, handoff_taken(r)
  PROVE  PairInv'
<1> DEFINE f == Head(boxes[row[r].mailbox_recv])
           new == set_recovery_root(set_conversation_send(row[r], Relay, f.inbox),
                    f.contribution, derive_root(f.contribution, row[r].own_contrib))
<1>1. /\ UNCHANGED <<clock, prekeys, minted, serial, offer, lst, ack, rows, scanned>>
      /\ row' = [row EXCEPT ![r] = new] /\ boxes' = Read(r)
      /\ at' = [at EXCEPT ![r] = "paired"] /\ at[r] = "await" /\ Waiting(r)
  BY Zenon DEF handoff_taken, side, Goto
<1> USE <1>1
<1>2. Shrinks /\ OnlyReads(row[r].mailbox_recv) /\ Has(r)
  BY Zenon, ReadShrinks
<1> USE <1>2
<1>3. f \in Range(boxes[row[r].mailbox_recv]) /\ row[r].mailbox_recv \in DOMAIN boxes
  <2>1. row[r].mailbox_recv \in DOMAIN boxes /\ boxes[row[r].mailbox_recv] # << >>
    BY Zenon DEF Waiting, Accepts
  <2>2. QED
    BY Zenon, <2>1, RangeOf DEF PairInv, TypeInv
<1>4. UpdateFrame(r, f)
  BY Zenon, <1>3 DEF PairInv, FrameInv, Fits
<1> HIDE DEF f
<1>5. f \in Update /\ f.inbox \in Box /\ f.contribution \in Contrib
  BY Zenon, <1>4 DEF UpdateFrame, Update
<1>6. PICK i \in DOMAIN rows : Answers(i, r, f.inbox, f.contribution)
  BY Zenon, <1>4 DEF UpdateFrame
<1>7. row[r] \in Row /\ row[r].own_contrib = <<"b", r>> /\ at[r] # "idle"
      /\ scanned[r] \in Offer /\ Shown(scanned[r])
  BY Zenon DEF PairInv, TypeInv, ControlInv
<1> USE <1>7
<1>8. /\ new \in Row /\ new.mailbox_recv = row[r].mailbox_recv
      /\ new.own_contrib = <<"b", r>> /\ new.mailbox_send = f.inbox
      /\ new.root = <<f.contribution, <<"b", r>>>>
  BY Zenon, <1>5 DEF set_recovery_root, set_conversation_send, derive_root, Row
<1> USE <1>8
<1> HIDE DEF new
<1>9. /\ row' \in [Scanner -> Row] /\ row'[r] = new /\ at'[r] = "paired"
      /\ at' \in [Scanner -> {"idle", "ack", "await", "paired", "failed"}]
      /\ \A q \in Scanner : q # r => row'[q] = row[q] /\ at'[q] = at[q]
  BY Zenon DEF PairInv, TypeInv
<1> USE <1>9
<1>10. RowsStay
  BY Zenon DEF RowsStay
<1>11. \A q \in Scanner : (Has(q)' <=> Has(q)) /\ row'[q].mailbox_recv = row[q].mailbox_recv
  BY Zenon, <1>10 DEF RowsStay, Has
<1> USE <1>11
<1>12. TypeInv'
  <2>1. boxes' = [b \in DOMAIN boxes' |-> boxes'[b]]
        /\ \A b \in DOMAIN boxes' : boxes'[b] \in Seq(Post)
    BY Zenon, NoTypes, BoxTypes DEF PairInv
  <2>2. KeyTypes'
    <3>1. KeyTypes
      BY Zenon DEF PairInv, TypeInv
    <3>2. QED
      BY Zenon, <3>1 DEF KeyTypes
  <2>3. \A q \in Scanner : at'[q] \notin {"idle", "failed"} => scanned'[q] \in Offer
    BY Zenon DEF PairInv, TypeInv
  <2>4. /\ clock \in Nat /\ serial \in Nat /\ offer \in [Offer -> OfferText]
        /\ lst \in [Offer -> {"none", "wait", "create", "retire", "handoff", "ended"}]
        /\ ack \in [Offer -> Ack] /\ rows \in Seq([offer : Offer, row : Row])
        /\ DOMAIN scanned = Scanner /\ scanned = [q \in Scanner |-> scanned[q]]
    BY Zenon DEF PairInv, TypeInv
  <2>5. /\ UNCHANGED <<clock, serial, offer, lst, ack, rows, scanned>>
        /\ row' \in [Scanner -> Row]
        /\ at' \in [Scanner -> {"idle", "ack", "await", "paired", "failed"}]
    BY Zenon
  <2> HIDE <1>1, <1>2, <1>7, <1>8, <1>9, <1>11
  <2>6. QED
    BY Zenon, <2>1, <2>2, <2>3, <2>4, <2>5 DEF TypeInv
<1>13. ControlInv'
  <2>1. ControlInv
    BY Zenon DEF PairInv
  <2>2. \A q \in Scanner : at'[q] \in {"ack", "await", "paired"} => Has(q)' /\ Shown(scanned[q])
    BY ZenonT(60), <2>1 DEF ControlInv
  <2>3. \A q \in Scanner : Has(q)' =>
          at'[q] # "idle" /\ row'[q].own_contrib = <<"b", q>> /\ scanned'[q] \in Offer
    BY Zenon, <2>1 DEF ControlInv
  <2>4. UNCHANGED <<offer, lst, ack, rows, scanned>>
    BY Zenon
  <2> HIDE <1>1, <1>2, <1>7, <1>8, <1>9, <1>11
  <2>5. QED
    BY Zenon, <2>1, <2>2, <2>3, <2>4 DEF ControlInv, Shown, Proves
<1>14. BoxInv'
  <2>1. BoxInv
    BY Zenon DEF PairInv
  <2>2. DOMAIN boxes' \subseteq DOMAIN boxes
    BY Zenon DEF Shrinks
  <2>3. \A o \in Offer : Shown(o)' <=> Shown(o)
    BY Zenon DEF Shown
  <2>4. UNCHANGED <<offer, serial>>
    BY Zenon
  <2> HIDE <1>1, <1>2, <1>7, <1>8, <1>9, <1>11
  <2>5. ASSUME NEW p \in Scanner, NEW q \in Scanner,
               Has(p)', row'[p].mailbox_recv = row'[q].mailbox_recv
        PROVE  p = q
    <3>1. Has(p) /\ row[p].mailbox_recv = row[q].mailbox_recv
      BY Zenon, <2>5, <1>11
    <3>2. QED
      BY Zenon, <2>1, <3>1 DEF BoxInv
  <2>6. ASSUME NEW o \in Offer, NEW q \in Scanner, Shown(o)'
        PROVE  offer'[o].inbox # row'[q].mailbox_recv
    <3>1. Shown(o) /\ row'[q].mailbox_recv = row[q].mailbox_recv /\ offer' = offer
      BY Zenon, <2>3, <2>4, <2>6, <1>11
    <3>2. QED
      BY Zenon, <2>1, <3>1 DEF BoxInv
  <2>7. ASSUME NEW q \in Scanner, Has(q)'
        PROVE  row'[q].mailbox_recv \in {"fresh"} \X (0 .. serial - 1)
    <3>1. Has(q) /\ row'[q].mailbox_recv = row[q].mailbox_recv
      BY Zenon, <2>7, <1>11
    <3>2. QED
      BY Zenon, <2>1, <3>1 DEF BoxInv
  <2>8. /\ DOMAIN boxes' \subseteq {"fresh"} \X (0 .. serial - 1)
        /\ \A o \in Offer : Shown(o)' => offer[o].inbox \in {"fresh"} \X (0 .. serial - 1)
        /\ \A o, p \in Offer : Shown(o)' /\ offer[o].inbox = offer[p].inbox => o = p
    BY Zenon, <2>1, <2>2, <2>3 DEF BoxInv
  <2>9. QED
    BY Zenon, <2>4, <2>5, <2>6, <2>7, <2>8 DEF BoxInv
<1>15. KeyInv'
  BY ZenonT(60) DEF PairInv, KeyInv, OfferKeepsKey, Shown, Holds
<1>16. FrameInv'
  BY Zenon, <1>10, FitsKept, NoTypes, BoxFrames DEF PairInv
<1>17. RowInv'
  <2>1. RowInv
    BY Zenon DEF PairInv
  <2>2. UNCHANGED <<ack, rows, scanned, offer>>
    BY Zenon
  <2> HIDE <1>1, <1>2, <1>7, <1>8, <1>9, <1>11
  <2>3. \A p \in Offer : Proves(p, ack[p])' => Genuine(p, ack[p])
    BY Zenon, <2>1, <2>2 DEF RowInv, Proves
  <2>4. \A p \in Offer : Genuine(p, ack[p]) => Genuine(p, ack[p])'
    BY Zenon, <2>2, <1>11 DEF Genuine
  <2>5. QED
    BY Zenon, <2>1, <2>2, <2>3, <2>4 DEF RowInv, Proves
<1>18. HeadInv'
  <2>1. \A p \in Offer : lst[p] = "create" => Shown(p)
    BY Zenon DEF PairInv, ControlInv
  <2>2. \A p \in Offer : Shown(p) => offer[p].inbox # row[r].mailbox_recv
    <3>1. \A p \in Offer, q \in Scanner : Shown(p) => offer[p].inbox # row[q].mailbox_recv
      BY Zenon DEF PairInv, BoxInv
    <3>2. QED
      BY Zenon, <3>1
  <2>3. QED
    BY ZenonT(60), <2>1, <2>2, HeadKept
<1>19. PairedAgree'
  <2>1. /\ rows[i].offer = scanned[r] /\ rows[i].row.peer_address = r
        /\ rows[i].row.root = new.root
        /\ rows[i].row.mailbox_send = new.mailbox_recv
        /\ rows[i].row.mailbox_recv = new.mailbox_send
    BY Zenon, <1>6 DEF Answers
  <2>2. PairedAgree
    BY Zenon DEF PairInv
  <2>3. ASSUME NEW q \in Scanner, at'[q] = "paired"
        PROVE  \E k \in DOMAIN rows' :
                 /\ rows'[k].offer = scanned'[q] /\ rows'[k].row.peer_address = q
                 /\ rows'[k].row.root = row'[q].root
                 /\ rows'[k].row.mailbox_send = row'[q].mailbox_recv
                 /\ rows'[k].row.mailbox_recv = row'[q].mailbox_send
    <3>1. CASE q = r
      BY Zenon, <1>6, <2>1, <3>1
    <3>2. CASE q # r
      <4>1. row'[q] = row[q] /\ at[q] = "paired" /\ rows' = rows /\ scanned' = scanned
        BY Zenon, <2>3, <3>2
      <4>2. PICK k \in DOMAIN rows :
              /\ rows[k].offer = scanned[q] /\ rows[k].row.peer_address = q
              /\ rows[k].row.root = row[q].root
              /\ rows[k].row.mailbox_send = row[q].mailbox_recv
              /\ rows[k].row.mailbox_recv = row[q].mailbox_send
        BY Zenon, <2>2, <4>1 DEF PairedAgree
      <4> HIDE <1>1, <1>2, <1>7, <1>8, <1>9, <1>11
      <4>3. QED
        BY Zenon, <4>1, <4>2
    <3>3. QED
      BY Zenon, <3>1, <3>2
  <2>4. QED
    BY Zenon, <2>3 DEF PairedAgree
<1>20. QED
  BY Zenon, <1>12, <1>13, <1>14, <1>15, <1>16, <1>17, <1>18, <1>19 DEF PairInv

-----------------------------------------------------------------------------
(* The theorems *)

LEMMA PairInit == Init => PairInv
<1> SUFFICES ASSUME Init PROVE PairInv
  BY Zenon
<1>1. /\ \A o \in Offer : offer[o] = NoOffer /\ lst[o] = "none" /\ ack[o] = NoAck
      /\ \A r \in Scanner : row[r] = NoRow /\ at[r] = "idle"
      /\ rows = << >> /\ DOMAIN rows = {} /\ boxes = << >> /\ DOMAIN boxes = {}
      /\ serial = 0 /\ minted = 0 /\ clock = 0
  BY DEF Init
<1> USE <1>1
<1>2. NoOffer.inbox = None /\ NoRow.mailbox_recv = None
  BY Zenon DEF NoOffer, NoRow, create_routed_conversation
<1>3. /\ \A o \in Offer : ~Shown(o)
      /\ \A r \in Scanner : ~Has(r)
  BY Zenon, <1>2 DEF Shown, Has
<1>4. TypeInv
  <2>1. KeyTypes
    BY DEF Init, KeyTypes
  <2>2. rows \in Seq([offer : Offer, row : Row])
    OBVIOUS
  <2>3. DOMAIN scanned = Scanner /\ scanned = [r \in Scanner |-> scanned[r]]
    BY Zenon DEF Init
  <2>4. boxes = [b \in DOMAIN boxes |-> boxes[b]]
    OBVIOUS
  <2>5. offer \in [Offer -> OfferText] /\ ack \in [Offer -> Ack] /\ row \in [Scanner -> Row]
    BY Zenon, NoTypes DEF Init
  <2>6. lst \in [Offer -> {"none", "wait", "create", "retire", "handoff", "ended"}]
        /\ at \in [Scanner -> {"idle", "ack", "await", "paired", "failed"}]
    BY Zenon DEF Init
  <2>7. QED
    BY Zenon, <2>1, <2>2, <2>3, <2>4, <2>5, <2>6 DEF TypeInv
<1>5. ControlInv
  BY Zenon, <1>3 DEF ControlInv
<1>6. BoxInv
  BY Zenon, <1>3 DEF BoxInv
<1>7. KeyInv
  BY Zenon, <1>3 DEF KeyInv, OfferKeepsKey
<1>8. FrameInv /\ RowInv /\ HeadInv /\ PairedAgree
  BY Zenon, NoProof DEF FrameInv, RowInv, HeadInv, PairedAgree
<1>9. QED
  BY Zenon, <1>4, <1>5, <1>6, <1>7, <1>8 DEF PairInv

\* The frame an offer is answered with is never replaced: whatever reaches its
\* mailbox was made for a key that is spent.
LEMMA AckStays ==
  ASSUME PairInv, [Next]_vars, NEW o \in Offer, ack[o] # NoAck
  PROVE  ack'[o] = ack[o]
<1>1. ASSUME NEW p \in Offer, Opened(p) PROVE ack'[o] = ack[o]
  <2> USE <1>1
  <2>1. Holds(p)
    BY Zenon, IncomingFits DEF Opened
  <2>2. p # o
    BY Zenon, <2>1 DEF PairInv, KeyInv
  <2>3. QED
    BY <2>2 DEF Opened
<1>2. CASE ack' = ack
  BY Zenon, <1>2
<1>3. QED
  <2>1. ASSUME Next, ack' # ack PROVE \E p \in Offer : Opened(p)
    BY Zenon, <2>1 DEF Next, OffererStep, ScannerStep, Tick, export_offer, ack_unreadable,
       ack_ignored, ack_burns, ack_verified, ack_stored, ack_retires, ack_done, listener_gone,
       fuse, deposit_ack, handoff_taken, handoff_gone, start_sync, handoff_dropped,
       scan_rejected, begin_pairing_from_offer, ack_refused, stop, stray_frame,
       handoff_timeout, relay_restart, side
  <2>2. QED
    BY Zenon, <1>1, <1>2, <2>1 DEF vars

-----------------------------------------------------------------------------
(* The theorems *)

Ordered == INSTANCE SumsProofs

\* The id a new prekey gets is in use by no other.
LEMMA NextIdFresh ==
  ASSUME NEW S, NEW n \in Nat, S \subseteq 0 .. n
  PROVE  NextId(S) \in 1 .. n + 1 /\ NextId(S) \notin S
<1> DEFINE T == S \cup {0}
           Above == {m \in Nat : \A i \in T : i <= m}
<1>1. T \subseteq Nat /\ n \in Above /\ Above \in SUBSET Nat
  OBVIOUS
<1>2. PICK m \in Above : \A y \in Above : m <= y
  BY Zenon, <1>1, Ordered!LeastNat
<1>3. m \in T
  <2> SUFFICES ASSUME m \notin T PROVE FALSE
    BY Zenon
  <2>1. m # 0 /\ m - 1 \in Nat /\ \A i \in T : i <= m /\ i # m
    BY <1>2
  <2>2. \A i \in T : i <= m - 1
    BY <1>1, <2>1
  <2>3. QED
    BY <1>2, <2>1, <2>2
<1>4. \A i \in T : m >= i
  BY Zenon, <1>2
<1>5. Max(T) \in T /\ \A i \in T : Max(T) >= i
  BY Zenon, <1>3, <1>4 DEF Max
<1>6. PICK x : x = Max(T) /\ x \in T /\ \A i \in T : x >= i
  BY <1>5, Zenon
<1>7. NextId(S) = 1 + x
  BY <1>6, Zenon DEF NextId
<1>8. x \in 0 .. n /\ x \in Nat /\ \A i \in S : i \in Nat /\ x >= i
  BY <1>6
<1>9. QED
  BY <1>7, <1>8

LEMMA IdIsFresh == PairInv => IdFresh
<1> SUFFICES ASSUME PairInv PROVE IdFresh
  BY Zenon
<1>1. minted + 1 \in Nat /\ DOMAIN prekeys \subseteq 0 .. minted + 1
      /\ (minted + 1) + 1 = minted + 2
  BY DEF PairInv, TypeInv, KeyTypes
<1>2. QED
  BY Zenon, <1>1, NextIdFresh DEF IdFresh

LEMMA PairStep == PairInv /\ [Next]_vars => PairInv'
<1> SUFFICES ASSUME PairInv, [Next]_vars PROVE PairInv'
  BY Zenon
<1>1. CASE UNCHANGED vars
  <2>1. UNCHANGED <<clock, lst, at, boxes, offer, ack, rows, row, scanned, prekeys, minted, serial>>
    BY Zenon, <1>1 DEF vars
  <2>2. Passes /\ Shrinks /\ HeadInv'
    BY Zenon, <2>1, BoxKinds DEF Passes, PairInv, TypeInv, HeadInv
  <2>3. UNCHANGED <<prekeys, minted, serial, Scene>>
    BY Zenon, <2>1 DEF Scene
  <2>4. QED
    BY Zenon, <2>2, <2>3, QuietStep
<1>2. CASE Tick \/ relay_restart
  BY Zenon, <1>2, OthersPass, QuietStep
<1>3. ASSUME NEW o \in Offer,
             \/ export_offer(o, TRUE) \/ OffererStep(o) \/ fuse(o, TRUE)
             \/ export_offer(o, FALSE) \/ ack_refused(o) \/ ack_done(o, FALSE)
             \/ ack_retires(o, FALSE) \/ ack_burns(o, FALSE)
             \/ fuse(o, FALSE) \/ stop(o) \/ (\E form \in {"pair-ack/2", "other"} : stray_frame(o, form))
      PROVE  PairInv'
  <2>1. CASE \/ ack_unreadable(o) \/ ack_refused(o) \/ ack_retires(o, TRUE)
             \/ ack_retires(o, FALSE) \/ ack_done(o, FALSE) \/ listener_gone(o)
             \/ fuse(o, TRUE) \/ fuse(o, FALSE) \/ stop(o)
    BY Zenon, <2>1, OffererPasses, QuietStep
  <2>2. CASE export_offer(o, TRUE) \/ export_offer(o, FALSE)
    BY Zenon, <2>2, IdIsFresh, ExportStep, ExportRefused
  <2>3. CASE ack_ignored(o) \/ ack_burns(o, TRUE) \/ ack_burns(o, FALSE) \/ ack_verified(o)
    BY Zenon, <2>3, AckOpened
  <2>4. CASE \/ ack_stored(o) \/ ack_done(o, TRUE)
             \/ \E form \in {"pair-ack/2", "other"} : stray_frame(o, form)
    BY Zenon, <2>4, StoredStep, HandoffStep, StrayStep
  <2>5. QED
    BY Zenon, <1>3, <2>1, <2>2, <2>3, <2>4 DEF OffererStep
<1>4. ASSUME NEW r \in Scanner,
             \/ ScannerStep(r) \/ start_sync(r) \/ handoff_dropped(r)
             \/ deposit_ack(r, FALSE) \/ handoff_timeout(r)
      PROVE  PairInv'
  <2>1. CASE \/ handoff_gone(r) \/ start_sync(r) \/ handoff_dropped(r)
             \/ deposit_ack(r, FALSE) \/ handoff_timeout(r)
    BY Zenon, <2>1, OthersPass, QuietStep
  <2>2. CASE deposit_ack(r, TRUE) \/ handoff_taken(r)
    BY Zenon, <2>2, AckStep, TakenStep
  <2>3. QED
    BY Zenon, <1>4, <2>1, <2>2 DEF ScannerStep
<1>5. ASSUME NEW r \in Scanner, NEW o \in Offer,
             \/ scan_rejected(r, o) \/ begin_pairing_from_offer(r, o, TRUE)
             \/ begin_pairing_from_offer(r, o, FALSE)
      PROVE  PairInv'
  <2>1. CASE scan_rejected(r, o)
    BY Zenon, <2>1, OthersPass, QuietStep
  <2>2. CASE begin_pairing_from_offer(r, o, TRUE) \/ begin_pairing_from_offer(r, o, FALSE)
    BY Zenon, <2>2, ScanStep
  <2>3. QED
    BY Zenon, <1>5, <2>1, <2>2
<1>6. QED
  BY Zenon, <1>1, <1>2, <1>3, <1>4, <1>5 DEF Next

\* When begin_pairing_from_offer succeeds on a device, the offerer has a row
\* for it with the same root, and each sends where the other receives.
THEOREM PairedCorrect == Spec => []PairedAgree
<1>1. PairInv => PairedAgree
  BY Zenon DEF PairInv
<1>2. QED
  BY <1>1, PairInit, PairStep, PTL DEF Spec

\* An offer holds the prekey it advertised until its own listener opens a
\* frame, however many offers were made and spent beside it.
THEOREM KeysCorrect == Spec => []OfferKeepsKey
<1>1. PairInv => OfferKeepsKey
  BY Zenon DEF PairInv, KeyInv
<1>2. QED
  BY <1>1, PairInit, PairStep, PTL DEF Spec

\* An offer is answered once, also when the first frame came to nothing.
THEOREM AnswersCorrect == Spec => AnswersOnce
<1>1. PairInv /\ [Next]_vars => [\A o \in Offer : ack[o] # NoAck => ack'[o] = ack[o]]_vars
  BY Zenon, AckStays
<1>2. QED
  BY <1>1, PairInit, PairStep, PTL DEF Spec, AnswersOnce
=============================================================================
