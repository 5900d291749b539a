------------------------------ MODULE Messages ------------------------------
(***************************************************************************)
(* One device's conversation and message rows and the bytes that go in and *)
(* out of them: an offer scanned off a screen, chat typed, stored, padded, *)
(* enveloped and deposited, envelopes taken off the socket, parsed and     *)
(* dispatched, and the conversation list.  The wall clock is the phone's   *)
(* and may be set back.  How the exchanges go is in Pairing, Chat and      *)
(* Recovery; rotation and recovery-hello frames are dispatched there.      *)
(***************************************************************************)
EXTENDS Codec
LOCAL INSTANCE SequencesExt
LOCAL INSTANCE FiniteSetsExt
LOCAL INSTANCE Functions

CONSTANTS
  Clocks,               \* readings of the wall clock
  Offers,               \* contents of the offers peers have on screen
  Samples,              \* format -> values a device puts into that format
  Typed,                \* what a user types, as message or label
  Relays,               \* relays a user may type for a conversation
  Handoffs,             \* inboxes a pairing hands over, or none when it is not heard
  PeerFrames,           \* inner frames peers seal
  MAX_CHAT_UTF8_BYTES, MAX_LABEL_SCALARS, max_blob_bytes,
  Shifts,               \* how far a damaged byte is off
  MaxConvs, MaxMsgs,    \* bounds on the two tables
  MaxEdited             \* how many conversations the user gives a label or relay

VARIABLES
  clock,                \* unix_now
  convs,                \* rows of conversations, by rowid
  msgs,                 \* rows of messages, by rowid
  out,                  \* blobs the peers' relays took: conversation, bytes
  failures,             \* rowids reported as permanent send failures
  answer                \* what the last parse was given and said

vars == <<clock, convs, msgs, out, failures, answer>>

NoAnswer == [fmt |-> "none"]
Space    == 2           \* the one white-space character; 0 and 1 are controls

Conv == DOMAIN convs

Init ==
  /\ clock \in Clocks
  /\ convs = << >> /\ msgs = << >> /\ out = << >>
  /\ failures = {} /\ answer = NoAnswer

-----------------------------------------------------------------------------
(* The conversation rows *)

\* The wall clock moves on, or is set back.
set_clock(t) == clock' = t /\ answer' = NoAnswer /\ UNCHANGED <<convs, msgs, out, failures>>

\* At most one byte of a scanned or received message differs from what was
\* written: i = 0 for none, past the end for one more, d = 0 to cut it off there.
Damaged(bs, i, d) ==
  CASE i = 0       -> bs
    [] i > Len(bs) -> Append(bs, d)
    [] d = 0       -> SubSeq(bs, 1, i - 1)
    [] OTHER       -> [bs EXCEPT ![i] = (@ + d) % Base]

IdentityKeyOf(o) == parse("bundle", o.bundle).value.identity_key
Signed == {<<IdentityKeyOf(o), Encode(OfferV3, o)>> : o \in Offers}

Row(relay) == [relay_url |-> relay, mailbox_send |-> << >>, label |-> << >>, created_at |-> clock]

\* A scan: the verdict on the offer falls before anything is written.  The row
\* stands whether or not the handoff that brings the route is then heard.
begin_pairing_from_offer(o, i, d, handoff) ==
  LET bytes == Damaged(encode_pairing_offer_v3(o), i, d)
      p     == parse_pairing_offer_v3(bytes, clock, Signed)
      row   == Row(p.value.relay_url)
  IN  /\ answer = NoAnswer /\ msgs = << >> /\ Len(convs) < MaxConvs
      /\ answer' = [fmt |-> "scan", sent |-> o, intact |-> i = 0, now |-> clock,
                    class |-> p.class, shown |-> TitlanError[p.class],
                    peek |-> peek_offer_validity(bytes)]
      /\ convs' = IF p.class # "ok" THEN convs
                  ELSE Append(convs, [row EXCEPT !.mailbox_send = handoff])
      /\ UNCHANGED <<clock, msgs, out, failures>>

\* A control message one device writes and another parses.
control(fmt, v, i, d) ==
  LET bytes == Damaged(encode(fmt, v), i, d)
      p     == parse(fmt, bytes)
  IN  /\ answer = NoAnswer /\ convs = << >>
      /\ answer' = [fmt |-> fmt, sent |-> v, intact |-> i = 0, bytes |-> bytes,
                    class |-> p.class, got |-> p.value]
      /\ UNCHANGED <<clock, convs, msgs, out, failures>>

trim(s) ==
  LET solid == {i \in DOMAIN s : s[i] # Space}
  IN  IF solid = {} THEN << >> ELSE SubSeq(s, Min(solid), Max(solid))

normalize_label(raw) ==
  LET t == trim(raw)
  IN  CASE raw = << >>                          -> Ok(<< >>)
        [] t = << >>                            -> Failed("label")
        [] Len(t) > MAX_LABEL_SCALARS           -> Failed("label")
        [] \E i \in DOMAIN t : t[i] \in {0, 1}  -> Failed("label")
        [] OTHER                                -> Ok(t)

set_conversation_label(c, raw) ==
  LET n == normalize_label(raw)
  IN  /\ c \in Conv /\ c <= MaxEdited /\ n.class = "ok"
      /\ convs' = [convs EXCEPT ![c].label = n.value]
      /\ answer' = NoAnswer
      /\ UNCHANGED <<clock, msgs, out, failures>>

set_conversation_relay(c, relay) ==
  /\ c \in Conv /\ c <= MaxEdited
  /\ convs' = [convs EXCEPT ![c].relay_url = relay]
  /\ answer' = NoAnswer
  /\ UNCHANGED <<clock, msgs, out, failures>>

-----------------------------------------------------------------------------
(* The message rows *)

chat_v1(text) == [payload_type |-> Chat, type_version |-> 1, payload |-> text]

\* insert_message: the local clock, on the row's own side only.
Message(c, direction, f, status) ==
  [conv |-> c, direction |-> direction, frame |-> f, status |-> status, at |-> clock]

save_outgoing(c, f) == Append(msgs, Message(c, "out", f, 0))
save_incoming(c, f) == Append(msgs, Message(c, "in", f, 2))
mark_message_sent(rows, i) == [rows EXCEPT ![i].status = 1]

\* Mutant: the outbox is read in the order of the stamps.
ByRowid_stamp(ids, rows) ==
  SetToSortSeq(ids, LAMBDA a, b : rows[a].at < rows[b].at \/ (rows[a].at = rows[b].at /\ a < b))

ByRowid(ids, rows) == SetToSortSeq(ids, <)

pending_chat(c, rows) ==
  ByRowid({i \in DOMAIN rows : rows[i].conv = c /\ rows[i].direction = "out" /\ rows[i].status = 0},
          rows)

\* libsignal: a ciphertext carries its own message type and opens to what was
\* sealed; whether a session opens it at all is Chat's matter.
seal(kind, plain) == <<kind>> \o plain

encrypt_message(f) ==
  LET p == encode_inner(f)
  IN  IF p.class # "ok" THEN p
      ELSE Ok(encode("envelope", [kind |-> 2, ciphertext |-> seal(2, p.value)]))

decrypt_message(wire) ==
  LET e == parse("envelope", wire)
  IN  CASE e.class # "ok" -> e
        [] e.value.ciphertext[1] # e.value.kind -> Failed("signal")
        [] OTHER -> parse_inner(Tail(e.value.ciphertext))

\* What a deposit is answered.  A relay that cannot be reached and one that
\* does not know the mailbox both leave the row pending.
deposit(wire, net) ==
  CASE net = "down"                 -> "retry"
    [] Len(wire) > max_blob_bytes   -> "never"
    [] ~deposit_admissible(wire)    -> "never"
    [] OTHER                        -> "accepted"

\* flush_pending over the rows in hand: the first row that cannot be encrypted
\* or deposited ends it; one the relay will never take is reported and marked.
FlushOne(s, i) ==
  LET w == encrypt_message(s.msgs[i].frame)
      d == deposit(w.value, s.net)
  IN  IF s.stop \/ w.class # "ok" \/ d = "retry" THEN [s EXCEPT !.stop = TRUE]
      ELSE [s EXCEPT !.msgs = mark_message_sent(@, i),
                     !.out = IF d = "accepted" THEN Append(@, [conv |-> s.conv, wire |-> w.value]) ELSE @,
                     !.failures = IF d = "never" THEN @ \cup {i} ELSE @]

Flush(c, rows, net) ==
  LET s == [conv |-> c, msgs |-> rows, out |-> out, failures |-> failures, net |-> net,
            stop |-> FALSE]
  IN  IF convs'[c].mailbox_send = << >> THEN s ELSE FoldLeft(FlushOne, s, pending_chat(c, rows))

Flushed(c, rows, net) ==
  LET s == Flush(c, rows, net)
  IN  msgs' = s.msgs /\ out' = s.out /\ failures' = s.failures

\* ChatBody.admit, the composer's own check.
admit(typed) == trim(typed) # << >> /\ Len(trim(typed)) <= MAX_CHAT_UTF8_BYTES

send_chat(c, typed, net) ==
  /\ c \in Conv /\ Len(msgs) < MaxMsgs /\ admit(typed)
  /\ convs' = convs
  /\ Flushed(c, save_outgoing(c, chat_v1(trim(typed))), net)
  /\ answer' = NoAnswer /\ UNCHANGED clock

flush_pending(c, net) ==
  /\ c \in Conv /\ pending_chat(c, msgs) # << >>
  /\ convs' = convs
  /\ Flushed(c, msgs, net)
  /\ answer' = NoAnswer /\ UNCHANGED clock

-----------------------------------------------------------------------------
(* Receiving *)

\* Mutant: every mailbox-update is taken for version 1.
IsUpdate1_any(f) == f.payload_type = MailboxUpdate

IsUpdate1(f) == f.payload_type = MailboxUpdate /\ f.type_version = 1

\* Subscription::next and decrypt_message: off the socket, out of the delivery
\* frame, the envelope and the ratchet.
Opened(bytes) ==
  LET d == parse("delivery", bytes)
  IN  IF d.class # "ok" THEN d ELSE decrypt_message(d.value.envelope)

Arriving(f, kind) ==
  encode("delivery",
    [message_id |-> [k \in 1 .. RECOVERY_CONTRIB_LEN |-> 0],
     envelope   |-> encode("envelope", [kind |-> kind, ciphertext |-> seal(kind, encode("inner", f))])])

\* The frames that reach the dispatch, of all that arrive whole or with a byte
\* of a header damaged (the ratchet opens no damaged ciphertext).
Headers == 1 .. RECOVERY_CONTRIB_LEN + 6
Heard ==
  {r.value : r \in {o \in {Opened(Damaged(Arriving(f, kind), i, d)) :
                          f \in PeerFrames, kind \in {1, 2}, i \in {0} \cup Headers, d \in Shifts} :
                     o.class = "ok"}}

handle_incoming(c, f, net) ==
  LET update == parse("update1", f.payload)
  IN  /\ c \in Conv
      /\ \/ /\ f.payload_type = Chat /\ Len(msgs) < MaxMsgs
            /\ msgs' = save_incoming(c, f)
            /\ UNCHANGED <<convs, out, failures>>
         \/ /\ IsUpdate1(f) /\ update.class = "ok"
            /\ convs' = [convs EXCEPT ![c].relay_url = update.value.relay_url,
                                      ![c].mailbox_send = update.value.inbox_id]
            /\ Flushed(c, msgs, net)
      /\ answer' = NoAnswer /\ UNCHANGED clock

-----------------------------------------------------------------------------
(* The conversation list *)

Stamps(rows, c) == {m.at : m \in {r \in Range(rows) : r.conv = c}}

\* Mutant: the newest row's stamp.
last_activity_at_newest(cs, rows, c) ==
  LET mine == {i \in DOMAIN rows : rows[i].conv = c}
  IN  IF mine = {} THEN cs[c].created_at ELSE rows[Max(mine)].at

last_activity_at(cs, rows, c) == Max(Stamps(rows, c) \cup {cs[c].created_at})

list_conversation_summaries(cs, rows) ==
  SetToSortSeq(DOMAIN cs,
    LAMBDA a, b :
      LET ka == <<last_activity_at(cs, rows, a), cs[a].created_at, a>>
          kb == <<last_activity_at(cs, rows, b), cs[b].created_at, b>>
          k  == Min({j \in 1 .. 3 : ka[j] # kb[j]})
      IN  ka[k] > kb[k])

-----------------------------------------------------------------------------
Net == {"up", "down"}

Next ==
  \/ \E t \in Clocks : set_clock(t)
  \/ \E o \in Offers, h \in Handoffs \cup {<< >>} :
       \E i \in 0 .. Len(encode_pairing_offer_v3(o)) + 1, d \in Shifts \cup {0} :
         begin_pairing_from_offer(o, i, d, h)
  \/ \E fmt \in DOMAIN Samples : \E v \in Samples[fmt] :
       \E i \in 0 .. Len(encode(fmt, v)) + 1, d \in Shifts \cup {0} : control(fmt, v, i, d)
  \/ \E c \in Conv :
       \/ \E t \in Typed : set_conversation_label(c, t)
       \/ \E r \in Relays : set_conversation_relay(c, r)
       \/ \E t \in Typed, net \in Net : send_chat(c, t, net)
       \/ \E net \in Net : flush_pending(c, net)
       \/ \E f \in Heard, net \in Net : handle_incoming(c, f, net)

Spec == Init /\ [][Next]_vars

-----------------------------------------------------------------------------
(* Properties *)

\* parse_pairing_offer_v3: an offer as written is accepted exactly inside its
\* window, the window the countdown shows; one with a byte changed, added or
\* missing is never accepted, and never reported as merely expired or early.
OfferClass ==
  answer.fmt = "scan" =>
    LET o == answer.sent
    IN  /\ answer.intact =>
             /\ answer.peek = <<o.issued_at, o.ttl_s>>
             /\ answer.shown = "Ok" <=>
                  /\ o.ttl_s \in 1 .. MAX_OFFER_TTL_S
                  /\ o.issued_at - FUTURE_SKEW_S <= answer.now
                  /\ answer.now < o.issued_at + o.ttl_s
        /\ ~answer.intact => answer.shown \in {"Malformed", "Protocol", "OfferSignatureInvalid"}

\* Every format: what one device writes another reads back, and a parser takes
\* only bytes some device writes: no second spelling of a message passes.
Rewritten(fmt, v, size) == IF fmt = "inner" THEN Padded(v, size) ELSE encode(fmt, v)
ParsersStrict ==
  answer.fmt \in DOMAIN Samples =>
    /\ answer.intact => answer.class = "ok" /\ answer.got = answer.sent
    /\ (answer.class = "ok" /\ ~(answer.fmt = "bundle" /\ answer.got.onetime_id = ABSENT_ID)) =>
         answer.bytes = Rewritten(answer.fmt, answer.got, Len(answer.bytes))

\* flush_pending: the peer's relay holds each conversation's sent rows, as they
\* were stored and in the order they were sent, whatever the clock did; no row
\* is given up, and none waits that could never be encrypted (one would hold up
\* every row behind it).
OutboxInOrder ==
  /\ failures = {}
  /\ \A c \in Conv :
       LET blobs == SelectSeq(out, LAMBDA b : b.conv = c)
           sent  == SelectSeq(msgs, LAMBDA m : m.conv = c /\ m.direction = "out" /\ m.status = 1)
       IN  /\ Len(blobs) = Len(sent)
           /\ \A i \in DOMAIN sent : decrypt_message(blobs[i].wire) = Ok(sent[i].frame)
  /\ \A i \in DOMAIN msgs :
       msgs[i].direction = "out" => encrypt_message(msgs[i].frame).class = "ok"

\* handle_incoming and the setters: a received row is a chat frame some peer
\* sealed, a route is one a handoff or a version 1 mailbox-update announced,
\* and a label is its own normal form.
Announced ==
  {parse("update1", f.payload).value.inbox_id :
     f \in {g \in PeerFrames : g.payload_type = MailboxUpdate /\ g.type_version = 1}}
RowsKeepRules ==
  /\ \A m \in Range(msgs) : m.direction = "in" => m.frame \in PeerFrames /\ m.frame.payload_type = Chat
  /\ \A c \in Conv : /\ convs[c].mailbox_send \in {<< >>} \cup Handoffs \cup Announced
                    /\ normalize_label(convs[c].label) = Ok(convs[c].label)

\* list_conversation_summaries: no step makes a conversation look less recent,
\* the clock set back included, and a message stamped later than all activity
\* so far puts its conversation first.
ActivityRises ==
  [][ /\ \A c \in Conv : last_activity_at(convs', msgs', c) >= last_activity_at(convs, msgs, c)
      /\ (Len(msgs') > Len(msgs) /\ \A c \in Conv : clock > last_activity_at(convs, msgs, c)) =>
           Head(list_conversation_summaries(convs', msgs')) = msgs'[Len(msgs')].conv ]_vars
=============================================================================
