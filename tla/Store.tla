-------------------------------- MODULE Store --------------------------------
(***************************************************************************)
(* The conversation rows of the client's database (storage/mod.rs) as      *)
(* values, one operator per UPDATE, and the relay as a client sees it      *)
(* through relay_client/http.rs: which mailboxes exist and what is queued  *)
(* in each.  Both are shared by the modules about pairing and recovery.    *)
(***************************************************************************)
EXTENDS Integers, Sequences, Functions

\* A column that is still NULL.
None == << >>

Offerer   == "offerer"
Responder == "responder"

create_routed_conversation(peer, relay, send, recv) ==
  [peer_address |-> peer, relay_url |-> relay,
   mailbox_send |-> send, mailbox_recv |-> recv,
   role |-> None, own_contrib |-> None, peer_contrib |-> None, root |-> None,
   own_gen |-> 0, peer_gen |-> 0]

set_conversation_send(row, relay, box) ==
  [row EXCEPT !.relay_url = relay, !.mailbox_send = box]

set_conversation_recv(row, box) == [row EXCEPT !.mailbox_recv = box]

set_recovery_pairing(row, role, contrib) ==
  [row EXCEPT !.role = role, !.own_contrib = contrib]

set_recovery_root(row, contrib, root) ==
  [row EXCEPT !.peer_contrib = contrib, !.root = root]

\* Mutant: one parameter is bound to both columns.
set_recovery_generations_own(row, own, peer) ==
  [row EXCEPT !.own_gen = own, !.peer_gen = own]

\* Mutant: the two columns are swapped.
set_recovery_generations_swapped(row, own, peer) ==
  [row EXCEPT !.own_gen = peer, !.peer_gen = own]

set_recovery_generations(row, own, peer) ==
  [row EXCEPT !.own_gen = own, !.peer_gen = peer]

\* Both sides compute the same MAC, keyed with the offerer's contribution.
derive_root(a, b) == <<a, b>>

peer_role(role) == IF role = Offerer THEN Responder ELSE Offerer

\* Distinct owners and distinct generations have distinct derived mailboxes.
derive_mailbox_id(root, role, generation) == <<"derived", root, role, generation>>

-----------------------------------------------------------------------------
(* The relay's mailboxes: a function from the ids that exist to the frames  *)
(* queued there.                                                            *)

put_mailbox(boxes, id) ==
  [i \in DOMAIN boxes \cup {id} |-> IF i \in DOMAIN boxes THEN boxes[i] ELSE << >>]

\* The relay picks an id never used before; `n' counts them.
create_mailbox(boxes, n) == put_mailbox(boxes, <<"fresh", n>>)

\* 202 Accepted, or 404 and nothing is queued.
Accepts(boxes, id) == id \in DOMAIN boxes
deposit(boxes, id, frame) ==
  IF Accepts(boxes, id) THEN [boxes EXCEPT ![id] = Append(@, frame)] ELSE boxes

delete_mailbox(boxes, id) == Restrict(boxes, DOMAIN boxes \ {id})
=============================================================================
