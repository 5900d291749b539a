------------------------------- MODULE Pairing -------------------------------
(***************************************************************************)
(* Pairing by a scanned offer: the offerer mints a one-time prekey and a   *)
(* pairing mailbox per offer and listens there until the offer's TTL; a    *)
(* responder answers with pair-ack/2 and waits for the inbox handoff that  *)
(* completes both conversations (the pairing half of relay_client/mod.rs,  *)
(* pairing.rs, session.rs and identity.rs).                                *)
(*                                                                         *)
(* One device shows offers and several devices scan them, each once.  A    *)
(* step ends where the code awaits the relay.  The offerer's listener is   *)
(* raced against the TTL and is dropped at whichever await it has reached. *)
(***************************************************************************)
EXTENDS Store, FiniteSets, FiniteSetsExt

CONSTANTS
  Offer,           \* the offers the user shows, one after another or at once
  Scanner,         \* the devices that scan them
  OFFER_TTL_S, FUTURE_SKEW_S,
  ABSENT_ID,       \* the prekey id that says "no prekey" on the wire
  Skews,           \* how far each scanner's clock may be off, one of these choices
  MaxClock,        \* bound: seconds that pass
  Budgets          \* bound: how often each fault may strike, one of these choices

Fault == {"create", "deposit", "timeout", "sync", "stop", "restart", "stray"}

ASSUME PairingAssumption ==
  /\ OFFER_TTL_S \in Nat \ {0} /\ FUTURE_SKEW_S \in Nat /\ ABSENT_ID \in Nat
  /\ Skews \subseteq [Scanner -> Int] /\ MaxClock \in Nat
  /\ Budgets \subseteq [Fault -> Nat]

VARIABLES
  clock,    \* the offerer's clock
  skew,     \* how far each scanner's clock is off
  prekeys,  \* the offerer's one-time prekeys: which key each id holds
  minted,   \* keys generated so far
  offer,    \* what each offer says
  lst,      \* pairing_listener_v2 of each offer
  ack,      \* the frame it has opened; kept as history when it came to nothing
  rows,     \* the conversations the offerer stored, with the offer they answer
  syncing,  \* the offerer's conversations that have a listener
  at,       \* each scanner: begin_pairing_from_offer
  row,      \* the conversation it stored
  scanned,  \* the offer it scanned
  reader,   \* the scanners whose conversation listener runs
  boxes,    \* the relay
  serial,   \* ids the relay has picked
  faults, budget

side   == <<lst, ack, rows, syncing>>
device == <<at, row, scanned>>
env    == <<faults, budget>>
vars   == <<clock, skew, prekeys, minted, offer, lst, ack, rows, syncing, at,
            row, scanned, reader, boxes, serial, faults, budget>>

Relay == "relay"
Me    == "offerer"
NoOffer == [inbox |-> None, secret |-> None, prekey |-> 0, key |-> 0, issued_at |-> 0]
NoAck   == [form |-> "none", from |-> None, prekey |-> 0, key |-> 0, inbox |-> None,
            contribution |-> None, secret |-> None]
NoRow   == create_routed_conversation(None, None, None, None)

Strike(k) ==
  /\ faults[k] < budget[k]
  /\ faults' = [faults EXCEPT ![k] = @ + 1] /\ budget' = budget

\* identity::initialize: the fixed key with id 1, which is never an offer's.
Init ==
  /\ clock = 0 /\ skew \in Skews
  /\ prekeys = [i \in {1} |-> 0] /\ minted = 0
  /\ offer = [o \in Offer |-> NoOffer]
  /\ lst = [o \in Offer |-> "none"]
  /\ ack = [o \in Offer |-> NoAck]
  /\ rows = << >> /\ syncing = {}
  /\ at = [r \in Scanner |-> "idle"]
  /\ row = [r \in Scanner |-> NoRow]
  /\ scanned = [r \in Scanner |-> None]
  /\ reader = {}
  /\ boxes = << >> /\ serial = 0
  /\ faults = [k \in Fault |-> 0] /\ budget \in Budgets

Tick ==
  /\ clock < MaxClock
  /\ clock' = clock + 1
  /\ UNCHANGED <<skew, prekeys, minted, offer, side, device, reader, boxes, serial, env>>

-----------------------------------------------------------------------------
(* The offerer *)

\* Mutant: every offer advertises the fixed key's id.
NextId_fixed(ids) == 1

\* mint_offer_onetime_prekey: MAX(id) + 1 of what the table holds now.
NextId(ids) == 1 + Max(ids \cup {0})

\* export_offer_bundle and export_offer: mint, create the pairing mailbox,
\* sign the validity window, and listen.  A refused mailbox leaves the prekey.
export_offer(o, ok) ==
  /\ offer[o] = NoOffer
  /\ NextId(DOMAIN prekeys) # ABSENT_ID
  /\ LET id == NextId(DOMAIN prekeys)
         box == <<"fresh", serial>>
     IN  /\ prekeys' = [i \in DOMAIN prekeys \cup {id} |->
                          IF i = id THEN minted + 1 ELSE prekeys[i]]
         /\ minted' = minted + 1
         /\ IF ok THEN /\ boxes' = create_mailbox(boxes, serial) /\ serial' = serial + 1
                       /\ offer' = [offer EXCEPT ![o] =
                            [inbox |-> box, secret |-> <<o>>, prekey |-> id,
                             key |-> minted + 1, issued_at |-> clock]]
                       /\ lst' = [lst EXCEPT ![o] = "wait"]
                       /\ UNCHANGED env
            ELSE Strike("create") /\ UNCHANGED <<boxes, serial, offer, lst>>
  /\ UNCHANGED <<clock, skew, ack, rows, syncing, device, reader>>

Listed(o)   == Accepts(boxes, offer[o].inbox)
Listens(o)  == lst[o] = "wait" /\ Listed(o)
Incoming(o) == Listens(o) /\ boxes[offer[o].inbox] # << >>
Frame(o)    == Head(boxes[offer[o].inbox])
Acked(o)    == [boxes EXCEPT ![offer[o].inbox] = Tail(@)]

\* decrypt_setup_from_unknown needs the prekey the sender used, and spends it.
Opens(f) == f.prekey \in DOMAIN prekeys /\ prekeys[f.prekey] = f.key
\* Mutant: the key is kept for the next pair-ack.
remove_pre_key_kept(id) == prekeys

remove_pre_key(id) == [i \in DOMAIN prekeys \ {id} |-> prekeys[i]]

\* The MAC is keyed with the secret of the offer the responder scanned.
verify_proof_of_scan(o, f) == f.secret = offer[o].secret

\* A frame that does not decrypt is acknowledged and ignored.
ack_unreadable(o) ==
  /\ Incoming(o) /\ ~Opens(Frame(o))
  /\ boxes' = Acked(o)
  /\ UNCHANGED <<clock, skew, prekeys, minted, offer, side, device, reader, serial, env>>

\* The frame decrypts, and with that the prekey is spent, whatever comes next.
Opened(o) ==
  /\ Incoming(o) /\ Opens(Frame(o))
  /\ prekeys' = remove_pre_key(Frame(o).prekey)
  /\ ack' = [ack EXCEPT ![o] = Frame(o)]

\* It is no inner frame, no pair-ack/2, or a pair-ack/2 that does not parse:
\* acknowledged and ignored too, and the listener waits on.
ack_ignored(o) ==
  /\ Opened(o) /\ Frame(o).form # "pair-ack/2"
  /\ boxes' = Acked(o)
  /\ UNCHANGED <<clock, skew, minted, offer, lst, rows, syncing, device, reader,
                 serial, env>>

\* The pairing mailbox is deleted, once: a DELETE that fails is not tried again.
Retired(o, gone) ==
  IF gone THEN boxes' = delete_mailbox(boxes, offer[o].inbox) /\ UNCHANGED env
  ELSE boxes' = boxes /\ Strike("deposit")

\* ProofOfScanFailed burns the offer; the frame is acknowledged either way.
ack_burns(o, gone) ==
  /\ Opened(o) /\ Frame(o).form = "pair-ack/2"
  /\ ~verify_proof_of_scan(o, Frame(o))
  /\ IF gone THEN boxes' = delete_mailbox(boxes, offer[o].inbox) /\ UNCHANGED env
     ELSE boxes' = Acked(o) /\ Strike("deposit")
  /\ lst' = [lst EXCEPT ![o] = "ended"]
  /\ UNCHANGED <<clock, skew, minted, offer, rows, syncing, device, reader, serial>>

\* handle_pair_ack_v2 up to its first await.
ack_verified(o) ==
  /\ Opened(o) /\ Frame(o).form = "pair-ack/2"
  /\ verify_proof_of_scan(o, Frame(o))
  /\ lst' = [lst EXCEPT ![o] = "create"]
  /\ UNCHANGED <<clock, skew, minted, offer, rows, syncing, device, reader, boxes,
                 serial, env>>

\* Mutant: the root is keyed with the wrong contribution.
OffererRow_swapped(f, contribution, recv) ==
  set_recovery_root(
    set_recovery_pairing(
      create_routed_conversation(f.from, Relay, f.inbox, recv),
      Offerer, contribution),
    f.contribution, derive_root(f.contribution, contribution))

\* The conversation, complete on this side, once the mailbox is created.
OffererRow(f, contribution, recv) ==
  set_recovery_root(
    set_recovery_pairing(
      create_routed_conversation(f.from, Relay, f.inbox, recv),
      Offerer, contribution),
    f.contribution, derive_root(contribution, f.contribution))

\* create_mailbox is refused: the error is ignored, the frame acknowledged
\* and the offer stands, but its prekey is spent.
ack_refused(o) ==
  /\ lst[o] = "create" /\ Strike("create")
  /\ boxes' = IF Listed(o) THEN Acked(o) ELSE boxes
  /\ lst' = [lst EXCEPT ![o] = "wait"]
  /\ UNCHANGED <<clock, skew, prekeys, minted, offer, ack, rows, syncing, device,
                 reader, serial>>

ack_stored(o) ==
  /\ lst[o] = "create"
  /\ boxes' = create_mailbox(boxes, serial) /\ serial' = serial + 1
  /\ rows' = Append(rows, [offer |-> o,
               row |-> OffererRow(ack[o], <<"a", o>>, <<"fresh", serial>>)])
  /\ lst' = [lst EXCEPT ![o] = "retire"]
  /\ UNCHANGED <<clock, skew, prekeys, minted, offer, ack, syncing, device, reader, env>>

\* The pairing mailbox is retired before the handoff is sent.
ack_retires(o, gone) ==
  /\ lst[o] = "retire"
  /\ Retired(o, gone)
  /\ lst' = [lst EXCEPT ![o] = "handoff"]
  /\ UNCHANGED <<clock, skew, prekeys, minted, offer, ack, rows, syncing, device,
                 reader, serial>>

\* mailbox-update/2 with the mailbox and contribution just stored.  When the
\* deposit fails the handler gives up before it spawns the conversation; the
\* listener then finds its mailbox gone.
Stored(o) == CHOOSE i \in DOMAIN rows : rows[i].offer = o
Handoff(o) == [type |-> "handoff", inbox |-> rows[Stored(o)].row.mailbox_recv,
               contribution |-> rows[Stored(o)].row.own_contrib]
ack_done(o, ok) ==
  /\ lst[o] = "handoff"
  /\ IF ok THEN /\ boxes' = deposit(boxes, ack[o].inbox, Handoff(o))
                /\ syncing' = syncing \cup {Stored(o)}
                /\ lst' = [lst EXCEPT ![o] = "ended"]
                /\ UNCHANGED env
     ELSE /\ Strike("deposit")
          /\ lst' = [lst EXCEPT ![o] = "wait"] /\ UNCHANGED <<boxes, syncing>>
  /\ UNCHANGED <<clock, skew, prekeys, minted, offer, ack, rows, device, reader, serial>>

\* Connected::NotFound: the pairing mailbox is gone.
listener_gone(o) ==
  /\ lst[o] = "wait" /\ ~Listed(o)
  /\ lst' = [lst EXCEPT ![o] = "ended"]
  /\ UNCHANGED <<clock, skew, prekeys, minted, offer, ack, rows, syncing, device,
                 reader, boxes, serial, env>>

\* The TTL elapses: the listener is dropped where it is and its mailbox goes.
fuse(o, gone) ==
  /\ lst[o] \notin {"none", "ended"}
  /\ clock >= offer[o].issued_at + OFFER_TTL_S
  /\ lst' = [lst EXCEPT ![o] = "ended"]
  /\ Retired(o, gone)
  /\ UNCHANGED <<clock, skew, prekeys, minted, offer, ack, rows, syncing, device,
                 reader, serial>>

\* The offerer's process dies; its listeners lived in memory.
stop(o) ==
  /\ lst[o] \notin {"none", "ended"}
  /\ Strike("stop")
  /\ lst' = [p \in Offer |-> IF lst[p] = "none" THEN "none" ELSE "ended"]
  /\ UNCHANGED <<clock, skew, prekeys, minted, offer, ack, rows, syncing, device,
                 reader, boxes, serial>>

-----------------------------------------------------------------------------
(* The scanners *)

\* parse_pairing_offer_v3: the window is judged by the scanner's own clock.
Valid(r, o) ==
  LET now == clock + skew[r]
  IN  /\ offer[o].issued_at <= now + FUTURE_SKEW_S
      /\ now < offer[o].issued_at + OFFER_TTL_S

Goto(r, pc) == at' = [at EXCEPT ![r] = pc]

scan_rejected(r, o) ==
  /\ at[r] = "idle" /\ offer[o] # NoOffer
  /\ ~Valid(r, o)
  /\ Goto(r, "failed")
  /\ UNCHANGED <<clock, skew, prekeys, minted, offer, side, row, scanned, reader,
                 boxes, serial, env>>

\* establish_session against the offer's bundle, the own mailbox, and the
\* conversation, whose peer mailbox is not known yet.
begin_pairing_from_offer(r, o, ok) ==
  /\ at[r] = "idle" /\ offer[o] # NoOffer
  /\ Valid(r, o)
  /\ IF ok THEN /\ boxes' = create_mailbox(boxes, serial) /\ serial' = serial + 1
                /\ row' = [row EXCEPT ![r] = set_recovery_pairing(
                     create_routed_conversation(Me, Relay, None, <<"fresh", serial>>),
                     Responder, <<"b", r>>)]
                /\ Goto(r, "ack") /\ UNCHANGED env
     ELSE Strike("create") /\ Goto(r, "failed") /\ UNCHANGED <<boxes, serial, row>>
  /\ scanned' = [scanned EXCEPT ![r] = o]
  /\ UNCHANGED <<clock, skew, prekeys, minted, offer, side, reader>>

\* The session is set up against the one-time prekey the bundle advertises.
establish_session(o) == [prekey |-> offer[o].prekey, key |-> offer[o].key]

PairAck(r) == LET s == establish_session(scanned[r]) IN
  [form |-> "pair-ack/2", from |-> r, prekey |-> s.prekey, key |-> s.key, inbox |-> row[r].mailbox_recv,
   contribution |-> row[r].own_contrib, secret |-> offer[scanned[r]].secret]

\* pair-ack/2: 404 means the offer is stale, and any other failure ends the
\* attempt too.  The conversation stays in the database.
deposit_ack(r, ok) ==
  /\ at[r] = "ack"
  /\ LET box == offer[scanned[r]].inbox
     IN  IF ok THEN /\ boxes' = deposit(boxes, box, PairAck(r))
                    /\ Goto(r, IF Accepts(boxes, box) THEN "await" ELSE "failed")
                    /\ UNCHANGED env
         ELSE Strike("deposit") /\ Goto(r, "failed") /\ UNCHANGED boxes
  /\ UNCHANGED <<clock, skew, prekeys, minted, offer, side, row, scanned, reader,
                 serial>>

Waiting(r) == Accepts(boxes, row[r].mailbox_recv) /\ boxes[row[r].mailbox_recv] # << >>
Read(r)    == [boxes EXCEPT ![row[r].mailbox_recv] = Tail(@)]

\* await_inbox_handoff_v2, and then begin_pairing_from_offer of client.rs
\* spawns the conversation.
handoff_taken(r) ==
  /\ at[r] = "await" /\ Waiting(r)
  /\ LET f == Head(boxes[row[r].mailbox_recv])
         sent == set_conversation_send(row[r], Relay, f.inbox)
     IN  row' = [row EXCEPT ![r] = set_recovery_root(sent, f.contribution,
                   derive_root(f.contribution, row[r].own_contrib))]
  /\ boxes' = Read(r)
  /\ Goto(r, "paired")
  /\ reader' = reader \cup {r}
  /\ UNCHANGED <<clock, skew, prekeys, minted, offer, side, scanned, serial, env>>

\* Ten seconds pass without it.
handoff_timeout(r) ==
  /\ at[r] = "await" /\ Strike("timeout")
  /\ Goto(r, "failed")
  /\ UNCHANGED <<clock, skew, prekeys, minted, offer, side, row, scanned, reader,
                 boxes, serial>>

handoff_gone(r) ==
  /\ at[r] = "await" /\ ~Accepts(boxes, row[r].mailbox_recv)
  /\ Goto(r, "failed")
  /\ UNCHANGED <<clock, skew, prekeys, minted, offer, side, row, scanned, reader,
                 boxes, serial, env>>

\* start_sync listens on every conversation stored, this one included.
start_sync(r) ==
  /\ row[r].mailbox_recv # None /\ r \notin reader
  /\ Strike("sync")
  /\ reader' = reader \cup {r}
  /\ UNCHANGED <<clock, skew, prekeys, minted, offer, side, device, boxes, serial>>

\* handle_incoming drops a mailbox-update/2.
handoff_dropped(r) ==
  /\ r \in reader /\ Waiting(r)
  /\ boxes' = Read(r)
  /\ UNCHANGED <<clock, skew, prekeys, minted, offer, side, device, reader, serial, env>>

\* A frame sealed to the offer's bundle by another than this version's scanner:
\* a pair-ack/2 under a secret that is not the offer's, or something else.
stray_frame(o, form) ==
  /\ Listens(o) /\ Strike("stray")
  /\ boxes' = deposit(boxes, offer[o].inbox,
                [NoAck EXCEPT !.form = form, !.prekey = offer[o].prekey,
                              !.key = offer[o].key])
  /\ UNCHANGED <<clock, skew, prekeys, minted, offer, side, device, reader, serial>>

relay_restart ==
  /\ boxes # << >> /\ Strike("restart")
  /\ boxes' = << >>
  /\ UNCHANGED <<clock, skew, prekeys, minted, offer, side, device, reader, serial>>

-----------------------------------------------------------------------------
OffererStep(o) ==
  \/ ack_unreadable(o) \/ ack_ignored(o) \/ ack_burns(o, TRUE) \/ ack_verified(o)
  \/ ack_stored(o) \/ ack_retires(o, TRUE) \/ ack_done(o, TRUE) \/ listener_gone(o)
ScannerStep(r) == deposit_ack(r, TRUE) \/ handoff_taken(r) \/ handoff_gone(r)

Next ==
  \/ Tick
  \/ \E o \in Offer : export_offer(o, TRUE) \/ OffererStep(o) \/ fuse(o, TRUE)
  \/ \E r \in Scanner : ScannerStep(r) \/ start_sync(r) \/ handoff_dropped(r)
  \/ \E r \in Scanner, o \in Offer : scan_rejected(r, o) \/ begin_pairing_from_offer(r, o, TRUE)
  \/ \E o \in Offer : export_offer(o, FALSE) \/ ack_refused(o) \/ ack_done(o, FALSE)
                        \/ ack_retires(o, FALSE) \/ ack_burns(o, FALSE)
                        \/ fuse(o, FALSE) \/ stop(o)
  \/ \E o \in Offer, form \in {"pair-ack/2", "other"} : stray_frame(o, form)
  \/ \E r \in Scanner, o \in Offer : begin_pairing_from_offer(r, o, FALSE)
  \/ \E r \in Scanner : deposit_ack(r, FALSE) \/ handoff_timeout(r)
  \/ relay_restart

\* The runtime polls every ready task.
Fairness ==
  /\ \A o \in Offer : WF_vars(OffererStep(o))
  /\ \A r \in Scanner : WF_vars(ScannerStep(r))

Spec == Init /\ [][Next]_vars /\ Fairness

-----------------------------------------------------------------------------
(* Properties *)

\* An offer is answered once: when its listener has opened one frame it never
\* opens another, whatever the first one was and even if it came to nothing
\* (decrypt_setup_from_unknown spends the prekey).
AnswersOnce == [][\A o \in Offer : ack[o] # NoAck => ack'[o] = ack[o]]_vars

\* When begin_pairing_from_offer succeeds the two databases agree: same root,
\* and each sends where the other receives.
PairedAgree == \A r \in Scanner : at[r] = "paired" =>
  \E i \in DOMAIN rows :
    /\ rows[i].offer = scanned[r] /\ rows[i].row.peer_address = r
    /\ rows[i].row.root = row[r].root
    /\ rows[i].row.mailbox_send = row[r].mailbox_recv
    /\ rows[i].row.mailbox_recv = row[r].mailbox_send

\* An offer holds the prekey it advertised until its own listener opens a
\* frame made with it, whatever other offers mint and spend in the meantime
\* (mint_offer_onetime_prekey takes the largest id of the moment plus one).
OfferKeepsKey == \A o \in Offer : (lst[o] = "wait" /\ ack[o] = NoAck) =>
  /\ offer[o].prekey \in DOMAIN prekeys
  /\ prekeys[offer[o].prekey] = offer[o].key

\* Once a pair-ack is accepted, one of the devices that scanned the offer is
\* paired, unless the TTL passes first or something fails.
OneIsPaired == \A o \in Offer :
  (\E r \in Scanner : at[r] = "await" /\ scanned[r] = o) ~>
    \/ \E r \in Scanner : at[r] = "paired" /\ scanned[r] = o
    \/ clock >= offer[o].issued_at + OFFER_TTL_S
    \/ \E k \in Fault : faults[k] > 0
=============================================================================
