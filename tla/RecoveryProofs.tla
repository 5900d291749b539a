--------------------------- MODULE RecoveryProofs ---------------------------
(***************************************************************************)
(* Recovery: the generations of a conversation only rise, and no side      *)
(* believes its peer further ahead than it is; proofs for any window, any  *)
(* number of probe cycles, any size of the ring and any number of faults.  *)
(***************************************************************************)
EXTENDS Recovery, TLAPS

-----------------------------------------------------------------------------
(* Types *)

Root  == derive_root(Offerer, Responder)
Fresh == {"fresh"} \X Nat
DerivedOf(p) == {"derived"} \X {Root} \X {p} \X Nat
Id ==
  {None} \cup ({"home"} \X Party) \cup Fresh \cup ({"derived"} \X {None, Root} \X Party \X Nat)
Row ==
  [peer_address : Party, relay_url : {Relay}, mailbox_send : Id, mailbox_recv : Id,
   role : {None} \cup Party, own_contrib : {None} \cup Party,
   peer_contrib : {None} \cup Party, root : {None, Root}, own_gen : Nat, peer_gen : Nat]
Post ==
  [type : {"chat"}, from : Party]
    \cup [type : {"recovery-hello"}, generation : Nat, nonce : Nat]
    \cup [type : {"mailbox-update"}, version : {1, 3}, inbox : Id]
Pc == Flushes \cup {"off", "connect", "online", "probe", "reply", "ended"}
Probe == [via : {"loss", "hello"}, g : Nat, peer_gen : Nat, k : Nat, nonce : Nat]
Reply == [via : {"reply"}, f_b : Id, to : Id, old : Id]
Rotation == [f_a : Id, derived : Id]

IsBoxes(bs) ==
  bs = [b \in DOMAIN bs |-> bs[b]] /\ \A b \in DOMAIN bs : bs[b] \in Seq(Post)

TypeInv ==
  /\ row \in [Party -> Row] /\ at \in [Party -> Pc]
  /\ job = [p \in Party |-> job[p]]
  /\ rotation \in [Party -> Rotation]
  /\ serial \in Nat /\ IsBoxes(boxes)

\* The rest of TypeOK.
RestInv ==
  /\ ring \in [Party -> Seq(Nat \X Nat)] /\ \A p \in Party : Len(ring[p]) <= HelloRing
  /\ chat \in [Party -> {"none", "pending", "sent"}]
  /\ got \subseteq Party /\ wiped \subseteq Party

-----------------------------------------------------------------------------
(* The inductive invariant *)

\* The mailboxes a side reads now, or will read when it resumes.
Hold(r, pc, j, ro) ==
  {r.mailbox_recv}
    \cup (IF ro = NoRotation THEN {} ELSE {ro.f_a, ro.derived})
    \cup (IF pc = "reply" THEN {j.old} ELSE {})
Mine(p) == Hold(row[p], at[p], job[p], rotation[p])

\* What a listener in the middle of something has in hand.
Local(p, r, pc, j, bs) ==
  /\ \/ r.root = Root /\ r.role = p
     \/ r.root = None /\ r.role = None
  /\ pc \in {"online", "flush", "drain"} => r.mailbox_recv \in DOMAIN bs
  /\ pc = "probe" =>
       /\ j \in Probe /\ r.root = Root
       /\ j.g \in r.own_gen .. r.own_gen + 1
       /\ j.peer_gen = r.peer_gen
  /\ pc = "reply" => j \in Reply

\* The mailboxes of one side are never the other's.
OwnInv ==
  /\ \A p \in Party : Mine(p) \subseteq
       {<<"home", p>>} \cup ({"fresh"} \X (0 .. serial - 1)) \cup DerivedOf(p)
  /\ \A p, q \in Party : p # q => Mine(p) \cap Mine(q) = {}

\* A hello is queued only in a derived mailbox of the side it is for, and
\* announces at most the generation its sender records next.
HelloFits(w, b, f) == f.type = "recovery-hello" =>
  \E q \in Party : /\ b \in DerivedOf(Peer(q)) /\ w[q].root = Root
                   /\ f.generation <= w[q].own_gen + 1
Fits(w, bs) == \A b \in DOMAIN bs : \A i \in DOMAIN bs[b] : HelloFits(w, b, bs[b][i])

RecoveryInv ==
  /\ TypeInv /\ \A p \in Party : Local(p, row[p], at[p], job[p], boxes)
  /\ row[Offerer].root = row[Responder].root
  /\ OwnInv /\ Fits(row, boxes) /\ PeerGenKnown

-----------------------------------------------------------------------------
(* Roles, rows and mailboxes *)

LEMMA PeerProps ==
  \A p \in Party : /\ Peer(p) \in Party /\ Peer(p) # p /\ Peer(Peer(p)) = p
                   /\ \A q \in Party : q # p => q = Peer(p)
BY Zenon DEF Party, Peer, peer_role, Offerer, Responder

LEMMA IdProps ==
  /\ \A p \in Party : DerivedOf(p) \subseteq Id /\ <<"home", p>> \in Id
  /\ \A n \in Nat : <<"fresh", n>> \in Id
  /\ \A p \in Party, g \in Nat : \A t \in {None, Root} : derive_mailbox_id(t, p, g) \in Id
  /\ \A p, g : g \in Nat => derive_mailbox_id(Root, p, g) \in DerivedOf(p)
  /\ Root # None
BY Zenon DEF Id, DerivedOf, Fresh, derive_mailbox_id, Root, derive_root, None

\* What the updates leave alone.
Kept(r, s) == s.root = r.root /\ s.role = r.role
Level(r, s) == s.own_gen = r.own_gen /\ s.peer_gen = r.peer_gen

LEMMA RouteOps ==
  ASSUME NEW r \in Row, NEW b \in Id
  PROVE  /\ set_conversation_recv(r, b) \in Row
         /\ set_conversation_recv(r, b).mailbox_recv = b
         /\ Kept(r, set_conversation_recv(r, b)) /\ Level(r, set_conversation_recv(r, b))
         /\ set_conversation_send(r, Relay, b) \in Row
         /\ set_conversation_send(r, Relay, b).mailbox_recv = r.mailbox_recv
         /\ Kept(r, set_conversation_send(r, Relay, b))
         /\ Level(r, set_conversation_send(r, Relay, b))
BY Zenon DEF Row, set_conversation_recv, set_conversation_send, Kept, Level

LEMMA GenOps ==
  ASSUME NEW r \in Row, NEW m \in Nat, NEW n \in Nat
  PROVE  /\ set_recovery_generations(r, m, n) \in Row
         /\ set_recovery_generations(r, m, n).mailbox_recv = r.mailbox_recv
         /\ set_recovery_generations(r, m, n).own_gen = m
         /\ set_recovery_generations(r, m, n).peer_gen = n
         /\ Kept(r, set_recovery_generations(r, m, n))
BY Zenon DEF Row, set_recovery_generations, Kept

LEMMA AppendOp ==
  ASSUME NEW q \in Seq(Post), NEW f \in Post
  PROVE  /\ Append(q, f) \in Seq(Post)
         /\ \A i \in DOMAIN Append(q, f) :
              Append(q, f)[i] = f \/ (i \in DOMAIN q /\ Append(q, f)[i] = q[i])
OBVIOUS

LEMMA PutOp ==
  ASSUME NEW w, NEW bs, IsBoxes(bs), Fits(w, bs), NEW b
  PROVE  /\ IsBoxes(put_mailbox(bs, b)) /\ Fits(w, put_mailbox(bs, b))
         /\ DOMAIN put_mailbox(bs, b) = DOMAIN bs \cup {b}
<1> DEFINE cs == put_mailbox(bs, b)
<1>1. DOMAIN cs = DOMAIN bs \cup {b} /\ cs = [i \in DOMAIN cs |-> cs[i]]
      /\ \A i \in DOMAIN cs : (cs[i] = bs[i] /\ i \in DOMAIN bs) \/ cs[i] = << >>
  BY Zenon DEF put_mailbox
<1> HIDE DEF cs
<1>2. ASSUME NEW i \in DOMAIN cs
      PROVE  cs[i] \in Seq(Post) /\ \A j \in DOMAIN cs[i] : HelloFits(w, i, cs[i][j])
  <2>1. CASE cs[i] = bs[i] /\ i \in DOMAIN bs
    BY Zenon, <2>1 DEF IsBoxes, Fits
  <2>2. CASE cs[i] = << >>
    BY <2>2
  <2>3. QED
    BY Zenon, <1>1, <2>1, <2>2
<1>3. IsBoxes(cs) /\ Fits(w, cs)
  BY Zenon, <1>1, <1>2 DEF IsBoxes, Fits
<1>4. QED
  BY Zenon, <1>1, <1>3 DEF cs

LEMMA DepositOp ==
  ASSUME NEW w, NEW bs, IsBoxes(bs), Fits(w, bs), NEW b, NEW f \in Post, HelloFits(w, b, f)
  PROVE  /\ IsBoxes(deposit(bs, b, f)) /\ Fits(w, deposit(bs, b, f))
         /\ DOMAIN deposit(bs, b, f) = DOMAIN bs
<1>1. CASE b \notin DOMAIN bs
  BY Zenon, <1>1 DEF deposit, Accepts
<1>2. CASE b \in DOMAIN bs
  <2> DEFINE cs == [bs EXCEPT ![b] = Append(@, f)]
  <2>1. deposit(bs, b, f) = cs
    BY Zenon, <1>2 DEF deposit, Accepts
  <2>2. DOMAIN cs = DOMAIN bs /\ cs[b] = Append(bs[b], f)
        /\ \A i \in DOMAIN bs : i # b => cs[i] = bs[i]
    BY Zenon, <1>2
  <2>3. cs = [i \in DOMAIN cs |-> cs[i]]
    BY Zenon
  <2> HIDE DEF cs
  <2>4. bs[b] \in Seq(Post)
    BY Zenon, <1>2 DEF IsBoxes
  <2>5. IsBoxes(cs)
    BY Zenon, <2>2, <2>3, <2>4, AppendOp DEF IsBoxes
  <2>6. Fits(w, cs)
    <3>1. ASSUME NEW i \in DOMAIN cs, NEW j \in DOMAIN cs[i] PROVE HelloFits(w, i, cs[i][j])
      <4>1. CASE i # b
        BY Zenon, <2>2, <3>1, <4>1 DEF Fits
      <4>2. CASE i = b
        <5>1. Append(bs[b], f)[j] = f \/ (j \in DOMAIN bs[b] /\ Append(bs[b], f)[j] = bs[b][j])
          <6>1. j \in DOMAIN Append(bs[b], f)
            BY Zenon, <2>2, <3>1, <4>2
          <6>2. QED
            BY ZenonT(60), <2>4, <6>1, AppendOp
        <5>2. HelloFits(w, b, Append(bs[b], f)[j])
          BY Zenon, <1>2, <5>1 DEF Fits
        <5>3. QED
          BY Zenon, <2>2, <4>2, <5>2
      <4>3. QED
        BY Zenon, <4>1, <4>2
    <3>2. QED
      BY Zenon, <3>1 DEF Fits
  <2>7. QED
    BY Zenon, <2>1, <2>2, <2>5, <2>6
<1>3. QED
  BY Zenon, <1>1, <1>2

LEMMA DeleteOp ==
  ASSUME NEW w, NEW bs, IsBoxes(bs), Fits(w, bs), NEW b
  PROVE  /\ IsBoxes(delete_mailbox(bs, b)) /\ Fits(w, delete_mailbox(bs, b))
         /\ DOMAIN delete_mailbox(bs, b) = DOMAIN bs \ {b}
<1> DEFINE cs == delete_mailbox(bs, b)
<1>1. DOMAIN cs = DOMAIN bs \ {b} /\ cs = [i \in DOMAIN cs |-> cs[i]]
      /\ \A i \in DOMAIN cs : cs[i] = bs[i]
  BY Zenon DEF delete_mailbox, Restrict
<1> HIDE DEF cs
<1>2. IsBoxes(cs) /\ Fits(w, cs)
  BY Zenon, <1>1 DEF IsBoxes, Fits
<1>3. QED
  BY Zenon, <1>1, <1>2 DEF cs

LEMMA ReadOp ==
  ASSUME NEW w, NEW bs, IsBoxes(bs), Fits(w, bs), NEW b \in DOMAIN bs, bs[b] # << >>
  PROVE  /\ IsBoxes([bs EXCEPT ![b] = Tail(@)]) /\ Fits(w, [bs EXCEPT ![b] = Tail(@)])
         /\ DOMAIN [bs EXCEPT ![b] = Tail(@)] = DOMAIN bs
         /\ Head(bs[b]) \in Post /\ HelloFits(w, b, Head(bs[b]))
<1> DEFINE cs == [bs EXCEPT ![b] = Tail(@)]
<1>1. DOMAIN cs = DOMAIN bs /\ cs[b] = Tail(bs[b])
      /\ \A i \in DOMAIN bs : i # b => cs[i] = bs[i]
  BY Zenon
<1>2. cs = [i \in DOMAIN cs |-> cs[i]]
  BY Zenon
<1> HIDE DEF cs
<1>3. bs[b] \in Seq(Post)
  BY Zenon DEF IsBoxes
<1>4. Tail(bs[b]) \in Seq(Post) /\ Head(bs[b]) \in Post /\ 1 \in DOMAIN bs[b]
      /\ Head(bs[b]) = bs[b][1]
      /\ \A i \in DOMAIN Tail(bs[b]) : i + 1 \in DOMAIN bs[b] /\ Tail(bs[b])[i] = bs[b][i + 1]
  BY <1>3
<1>5. IsBoxes(cs)
  BY Zenon, <1>1, <1>2, <1>4 DEF IsBoxes
<1>6. Fits(w, cs)
  <2>1. ASSUME NEW i \in DOMAIN cs, NEW j \in DOMAIN cs[i] PROVE HelloFits(w, i, cs[i][j])
    <3>1. CASE i # b
      BY Zenon, <1>1, <2>1, <3>1 DEF Fits
    <3>2. CASE i = b
      <4>1. j + 1 \in DOMAIN bs[b] /\ cs[b][j] = bs[b][j + 1]
        BY Zenon, <1>1, <1>4, <2>1, <3>2
      <4>2. QED
        BY Zenon, <3>2, <4>1 DEF Fits
    <3>3. QED
      BY Zenon, <3>1, <3>2
  <2>2. QED
    BY Zenon, <2>1 DEF Fits
<1>7. HelloFits(w, b, Head(bs[b]))
  BY Zenon, <1>4 DEF Fits
<1>8. QED
  BY Zenon, <1>1, <1>4, <1>5, <1>6, <1>7 DEF cs

-----------------------------------------------------------------------------
(* What a step of one side may do *)

RowFine(p, r) ==
  /\ r \in Row /\ Kept(row[p], r)
  /\ r.own_gen >= row[p].own_gen /\ r.peer_gen >= row[p].peer_gen
  /\ r.peer_gen <= row[Peer(p)].own_gen + 1

With(p, r) == [row EXCEPT ![p] = r]

\* Side p may go on with row r at pc, with j and ro in memory, leaving the
\* mailboxes bs after n ids.
May(p, r, pc, j, ro, bs, n) ==
  /\ RowFine(p, r) /\ pc \in Pc /\ ro \in Rotation /\ n \in {serial, serial + 1}
  /\ Local(p, r, pc, j, bs)
  /\ Hold(r, pc, j, ro) \subseteq Mine(p) \cup DerivedOf(p) \cup ({"fresh"} \X (serial .. n - 1))
  /\ IsBoxes(bs) /\ Fits(With(p, r), bs) /\ DOMAIN boxes \ Mine(p) \subseteq DOMAIN bs

Goes(p, r, pc, j, ro, bs, n) ==
  /\ row' = With(p, r) /\ at' = [at EXCEPT ![p] = pc]
  /\ job' = [job EXCEPT ![p] = j] /\ rotation' = [rotation EXCEPT ![p] = ro]
  /\ boxes' = bs /\ serial' = n

Rises == \A q \in Party :
  row'[q].own_gen >= row[q].own_gen /\ row'[q].peer_gen >= row[q].peer_gen

LEMMA RowKeeps ==
  ASSUME RecoveryInv, NEW p \in Party
  PROVE  RowFine(p, row[p]) /\ row[p] \in Row
<1>1. \A r \in Row : r.own_gen \in Nat /\ r.peer_gen \in Nat
  BY Zenon DEF Row
<1>2. row[p] \in Row
  BY Zenon DEF RecoveryInv, TypeInv
<1>3. row[p].peer_gen <= row[Peer(p)].own_gen + 1
  BY Zenon DEF RecoveryInv, PeerGenKnown
<1>4. QED
  BY <1>1, <1>2, <1>3 DEF RowFine, Kept

LEMMA FitsGrow ==
  ASSUME RecoveryInv, NEW p \in Party, NEW r, RowFine(p, r)
  PROVE  Fits(With(p, r), boxes)
<1>1. row \in [Party -> Row] /\ \A s \in Row : s.own_gen \in Nat
  BY Zenon DEF RecoveryInv, TypeInv, Row
<1>2. \A q \in Party : With(p, r)[q].root = row[q].root
                       /\ With(p, r)[q].own_gen >= row[q].own_gen
                       /\ With(p, r)[q].own_gen \in Nat
  BY <1>1 DEF With, RowFine, Kept
<1>3. ASSUME NEW b, NEW f \in Post, HelloFits(row, b, f) PROVE HelloFits(With(p, r), b, f)
  <2> SUFFICES ASSUME f.type = "recovery-hello"
               PROVE  \E q \in Party : /\ b \in DerivedOf(Peer(q)) /\ With(p, r)[q].root = Root
                                       /\ f.generation <= With(p, r)[q].own_gen + 1
    BY Zenon DEF HelloFits
  <2>1. PICK q \in Party : /\ b \in DerivedOf(Peer(q)) /\ row[q].root = Root
                           /\ f.generation <= row[q].own_gen + 1
    BY Zenon, <1>3 DEF HelloFits
  <2>2. f.generation \in Nat
    BY Zenon DEF Post
  <2>3. f.generation <= With(p, r)[q].own_gen + 1
    BY <1>1, <1>2, <2>1, <2>2
  <2>4. QED
    BY Zenon, <1>2, <2>1, <2>3
<1>4. \A b \in DOMAIN boxes : \A i \in DOMAIN boxes[b] : boxes[b][i] \in Post
  BY DEF RecoveryInv, TypeInv, IsBoxes
<1>5. QED
  BY Zenon, <1>3, <1>4 DEF RecoveryInv, Fits

LEMMA Moved ==
  ASSUME RecoveryInv, NEW p \in Party, NEW r, NEW pc, NEW j, NEW ro, NEW bs, NEW n,
         May(p, r, pc, j, ro, bs, n), Goes(p, r, pc, j, ro, bs, n)
  PROVE  RecoveryInv' /\ Rises
<1>1. /\ row' \in [Party -> Row] /\ row'[p] = r /\ \A q \in Party : q # p => row'[q] = row[q]
      /\ at' \in [Party -> Pc] /\ at'[p] = pc /\ \A q \in Party : q # p => at'[q] = at[q]
  BY Zenon DEF RecoveryInv, TypeInv, May, RowFine, Goes, With
<1>2. /\ rotation' \in [Party -> Rotation] /\ rotation'[p] = ro
      /\ \A q \in Party : q # p => rotation'[q] = rotation[q]
  BY Zenon DEF RecoveryInv, TypeInv, May, Goes
<1>3. /\ job' = [q \in Party |-> job'[q]] /\ job'[p] = j
      /\ \A q \in Party : q # p => job'[q] = job[q]
  <2>1. DOMAIN job = Party
    BY Zenon DEF RecoveryInv, TypeInv
  <2>2. QED
    BY Zenon, <2>1 DEF Goes
<1>4. TypeInv'
  BY <1>1, <1>2, <1>3 DEF RecoveryInv, TypeInv, May, Goes
<1>5. Mine(p)' = Hold(r, pc, j, ro) /\ \A q \in Party : q # p => Mine(q)' = Mine(q)
  BY Zenon, <1>1, <1>2, <1>3 DEF Mine, Hold
<1>6. OwnInv'
  <2>1. {"fresh"} \X (serial .. n - 1) \subseteq {"fresh"} \X (0 .. serial' - 1)
        /\ {"fresh"} \X (0 .. serial - 1) \subseteq {"fresh"} \X (0 .. serial' - 1)
        /\ ({"fresh"} \X (serial .. n - 1)) \cap ({"fresh"} \X (0 .. serial - 1)) = {}
    BY DEF RecoveryInv, TypeInv, May, Goes
  <2>2. \A q \in Party : q # p =>
          (DerivedOf(p) \cup ({"fresh"} \X (serial .. n - 1)))
            \cap ({<<"home", q>>} \cup DerivedOf(q)) = {}
    BY DEF DerivedOf
  <2>3. ({"fresh"} \X (0 .. serial - 1)) \cap DerivedOf(p) = {}
    BY Zenon DEF DerivedOf
  <2>4. ({"fresh"} \X (serial .. n - 1)) \cap DerivedOf(p) = {}
    BY Zenon DEF DerivedOf
  <2>5. \A q \in Party : Mine(q)' \subseteq
          {<<"home", q>>} \cup ({"fresh"} \X (0 .. serial' - 1)) \cup DerivedOf(q)
    BY <1>5, <2>1 DEF RecoveryInv, OwnInv, May
  <2>6. \A q \in Party : q # p => Mine(p)' \cap Mine(q)' = {}
    BY <1>5, <2>1, <2>2, <2>3, <2>4 DEF RecoveryInv, OwnInv, May
  <2>7. QED
    BY Zenon, <1>5, <2>5, <2>6 DEF RecoveryInv, OwnInv
<1>7. \A q \in Party : Local(q, row'[q], at'[q], job'[q], boxes')
  <2>1. ASSUME NEW q \in Party, q # p PROVE Local(q, row[q], at[q], job[q], boxes')
    <3>1. Local(q, row[q], at[q], job[q], boxes)
      BY Zenon DEF RecoveryInv
    <3>2. row[q].mailbox_recv \in Mine(q)
      BY Zenon DEF Mine, Hold
    <3>3. row[q].mailbox_recv \in DOMAIN boxes => row[q].mailbox_recv \in DOMAIN boxes'
      BY Zenon, <2>1, <3>2 DEF RecoveryInv, OwnInv, May, Goes
    <3>4. QED
      BY Zenon, <3>1, <3>3 DEF Local
  <2>2. Local(p, row'[p], at'[p], job'[p], boxes')
    BY Zenon, <1>1, <1>3 DEF May, Goes
  <2>3. QED
    BY Zenon, <1>1, <1>3, <2>1, <2>2
<1>8. Fits(row', boxes')
  BY Zenon DEF May, Goes
<1>9. Rises
  <2>1. \A s \in Row : s.own_gen \in Nat /\ s.peer_gen \in Nat
    BY Zenon DEF Row
  <2>2. row \in [Party -> Row]
    BY Zenon DEF RecoveryInv, TypeInv
  <2>3. QED
    BY <1>1, <2>1, <2>2 DEF Rises, May, RowFine
<1>10. PeerGenKnown'
  <2>1. \A s \in Row : s.own_gen \in Nat /\ s.peer_gen \in Nat
    BY Zenon DEF Row
  <2>2. row \in [Party -> Row]
    BY Zenon DEF RecoveryInv, TypeInv
  <2>3. \A q \in Party : row[q].peer_gen <= row[Peer(q)].own_gen + 1
    BY Zenon DEF RecoveryInv, PeerGenKnown
  <2>4. \A q \in Party : row'[q].peer_gen <= row'[Peer(q)].own_gen + 1
    BY <1>1, <2>1, <2>2, <2>3, PeerProps DEF May, RowFine
  <2>5. QED
    BY Zenon, <2>4 DEF PeerGenKnown
<1>11. row'[Offerer].root = row'[Responder].root
  <2>1. Offerer \in Party /\ Responder \in Party
    BY Zenon DEF Party
  <2>2. QED
    BY Zenon, <1>1, <2>1 DEF RecoveryInv, May, RowFine, Kept
<1>12. QED
  BY Zenon, <1>4, <1>6, <1>7, <1>8, <1>9, <1>10, <1>11 DEF RecoveryInv

LEMMA Stays ==
  ASSUME RecoveryInv, NEW p \in Party
  PROVE  /\ With(p, row[p]) = row /\ [at EXCEPT ![p] = at[p]] = at
         /\ [job EXCEPT ![p] = job[p]] = job /\ [rotation EXCEPT ![p] = rotation[p]] = rotation
BY Zenon DEF RecoveryInv, TypeInv, With

\* A step that leaves the stored conversation alone.
LEMMA KeepsRow ==
  ASSUME RecoveryInv, NEW p \in Party, NEW pc \in Pc, NEW j, NEW ro \in {rotation[p], NoRotation},
         NEW bs, IsBoxes(bs), Fits(row, bs), DOMAIN boxes \ Mine(p) \subseteq DOMAIN bs,
         Local(p, row[p], pc, j, bs), pc = "reply" => at[p] = "reply" /\ j = job[p],
         Goes(p, row[p], pc, j, ro, bs, serial)
  PROVE  RecoveryInv' /\ Rises
<1>1. RowFine(p, row[p]) /\ Fits(With(p, row[p]), bs)
  BY Zenon, RowKeeps, Stays
<1>2. ro \in Rotation
  BY DEF RecoveryInv, TypeInv, NoRotation, Rotation, Id
<1>3. Hold(row[p], pc, j, ro) \subseteq Mine(p)
  BY Zenon DEF Hold, Mine
<1>4. May(p, row[p], pc, j, ro, bs, serial)
  BY Zenon, <1>1, <1>2, <1>3 DEF May
<1>5. QED
  BY Zenon, <1>4, Moved

\* The frame at the head of the mailbox a listener reads.
LEMMA Reads ==
  ASSUME RecoveryInv, NEW p \in Party, NEW t, Incoming(p, t)
  PROVE  /\ row[p].mailbox_recv \in DOMAIN boxes /\ at[p] = "online"
         /\ IsBoxes(Read(p)) /\ DOMAIN Read(p) = DOMAIN boxes
         /\ \A w : Fits(w, boxes) => Fits(w, Read(p))
         /\ Frame(p) \in Post /\ Frame(p).type = t
         /\ HelloFits(row, row[p].mailbox_recv, Frame(p))
<1>1. row[p].mailbox_recv \in DOMAIN boxes /\ boxes[row[p].mailbox_recv] # << >>
  BY Zenon DEF Incoming, Inbox, RecoveryInv, Local
<1>2. IsBoxes(boxes) /\ Fits(row, boxes)
  BY Zenon DEF RecoveryInv, TypeInv
<1>3. QED
  BY Zenon, <1>1, <1>2, ReadOp DEF Incoming, Frame, Inbox, Read

LEMMA Converges ==
  ASSUME NEW r \in Row, NEW g \in Nat
  PROVE  /\ converge(r, g) \in Row /\ Kept(r, converge(r, g))
         /\ converge(r, g).mailbox_recv = r.mailbox_recv
         /\ converge(r, g).own_gen >= r.own_gen /\ converge(r, g).peer_gen >= r.peer_gen
         /\ converge(r, g).peer_gen \in {r.peer_gen, g}
         /\ converge(r, g).own_gen \in Nat /\ converge(r, g).peer_gen \in Nat
<1>1. r.own_gen \in Nat /\ r.peer_gen \in Nat /\ r.mailbox_recv \in Id
  BY Zenon DEF Row
<1>2. /\ Greater(r.own_gen, g) \in Nat /\ Greater(r.own_gen, g) >= r.own_gen
      /\ Greater(r.peer_gen, g) \in Nat /\ Greater(r.peer_gen, g) >= r.peer_gen
      /\ Greater(r.peer_gen, g) \in {r.peer_gen, g}
  BY <1>1 DEF Greater
<1>3. PICK m, n \in Nat : m = Greater(r.own_gen, g) /\ n = Greater(r.peer_gen, g)
  BY Zenon, <1>2
<1>4. converge(r, g) = set_recovery_generations(r, m, n)
  BY Zenon, <1>3 DEF converge
<1>5. /\ set_recovery_generations(r, m, n) \in Row
      /\ set_recovery_generations(r, m, n).mailbox_recv = r.mailbox_recv
      /\ set_recovery_generations(r, m, n).own_gen = m
      /\ set_recovery_generations(r, m, n).peer_gen = n
      /\ Kept(r, set_recovery_generations(r, m, n))
  BY Zenon, GenOps
<1>6. QED
  BY Zenon, <1>2, <1>3, <1>4, <1>5

\* A hello names a generation its sender has, or records next.
LEMMA HelloReads ==
  ASSUME RecoveryInv, NEW p \in Party, Incoming(p, "recovery-hello")
  PROVE  /\ row[p].root = Root /\ row[p].role = p
         /\ Frame(p).generation \in Nat /\ Frame(p).nonce \in Nat
         /\ RowFine(p, converge(row[p], Frame(p).generation))
<1>1. /\ HelloFits(row, row[p].mailbox_recv, Frame(p)) /\ Frame(p).type = "recovery-hello"
      /\ Frame(p) \in Post
  BY Zenon, Reads
<1>2. Frame(p).generation \in Nat /\ Frame(p).nonce \in Nat
  BY Zenon, <1>1 DEF Post
<1>3. PICK q \in Party : /\ row[p].mailbox_recv \in DerivedOf(Peer(q)) /\ row[q].root = Root
                         /\ Frame(p).generation <= row[q].own_gen + 1
  BY Zenon, <1>1 DEF HelloFits
<1>4. row[p].mailbox_recv \in {<<"home", p>>} \cup Fresh \cup DerivedOf(p)
  <2>1. row[p].mailbox_recv \in Mine(p)
    BY Zenon DEF Mine, Hold
  <2>2. {"fresh"} \X (0 .. serial - 1) \subseteq Fresh
    BY DEF Fresh
  <2>3. QED
    BY Zenon, <2>1, <2>2 DEF RecoveryInv, OwnInv
<1>5. Peer(q) = p
  BY <1>3, <1>4 DEF DerivedOf, Fresh
<1>6. q = Peer(p)
  BY Zenon, <1>5, PeerProps
<1>7. row[p].root = Root
  BY Zenon, <1>3 DEF RecoveryInv, Party
<1>8. row[p].role = p
  BY Zenon, <1>7, IdProps DEF RecoveryInv, Local
<1>9. row[p] \in Row /\ row[p].peer_gen <= row[Peer(p)].own_gen + 1
  BY Zenon DEF RecoveryInv, TypeInv, PeerGenKnown
<1>10. converge(row[p], Frame(p).generation).peer_gen <= row[Peer(p)].own_gen + 1
  BY Zenon, <1>2, <1>3, <1>6, <1>9, Converges
<1>11. QED
  BY Zenon, <1>2, <1>7, <1>8, <1>9, <1>10, Converges DEF RowFine

-----------------------------------------------------------------------------
(* The steps that store no change of the conversation *)

LEMMA LocalNow ==
  ASSUME RecoveryInv, NEW p \in Party
  PROVE  /\ Local(p, row[p], at[p], job[p], boxes) /\ at[p] \in Pc
         /\ IsBoxes(boxes) /\ Fits(row, boxes)
         /\ (at[p] = "connect" /\ ~Lost(p)) => row[p].mailbox_recv \in DOMAIN boxes
         /\ at[p] \in {"online", "flush", "drain"} => row[p].mailbox_recv \in DOMAIN boxes
BY Zenon DEF RecoveryInv, TypeInv, Local, Lost, Accepts

\* The listener goes from one wait to another and no mailbox is lost.
LEMMA Waits ==
  ASSUME RecoveryInv, NEW p \in Party, NEW pc \in Pc, NEW j, NEW ro \in {rotation[p], NoRotation},
         \/ pc = at[p] /\ j = job[p]
         \/ pc \in {"off", "connect", "cut", "switch", "ended"}
         \/ pc \in {"online", "flush", "drain"} /\ row[p].mailbox_recv \in DOMAIN boxes,
         NEW bs, IsBoxes(bs), Fits(row, bs), DOMAIN bs = DOMAIN boxes,
         row' = row, at' = [at EXCEPT ![p] = pc], job' = [job EXCEPT ![p] = j],
         rotation' = [rotation EXCEPT ![p] = ro], boxes' = bs, serial' = serial
  PROVE  RecoveryInv' /\ Rises
<1>1. Local(p, row[p], at[p], job[p], boxes)
  BY Zenon, LocalNow
<1>2. Local(p, row[p], pc, j, bs)
  <2>1. CASE pc = at[p] /\ j = job[p]
    BY Zenon, <1>1, <2>1 DEF Local
  <2>2. CASE pc \in {"off", "connect", "cut", "switch", "ended"}
    BY Zenon, <1>1, <2>2 DEF Local
  <2>3. CASE pc \in {"online", "flush", "drain"} /\ row[p].mailbox_recv \in DOMAIN boxes
    BY Zenon, <1>1, <2>3 DEF Local
  <2>4. QED
    BY Zenon, <2>1, <2>2, <2>3
<1>3. pc = "reply" => at[p] = "reply" /\ j = job[p]
  BY Zenon
<1>4. Goes(p, row[p], pc, j, ro, bs, serial)
  BY Zenon, Stays DEF Goes
<1>5. DOMAIN boxes \ Mine(p) \subseteq DOMAIN bs
  BY Zenon
<1>6. QED
  BY Zenon, <1>2, <1>3, <1>4, <1>5, KeepsRow

LEMMA QuietStep ==
  ASSUME RecoveryInv, NEW p \in Party,
         \/ send_chat(p) \/ idle(p) \/ start_sync(p) \/ subscribe(p) \/ recover_refused(p)
         \/ NeedsRepair(p) \/ stop_sync(p, FALSE) \/ kill(p)
  PROVE  RecoveryInv' /\ Rises
<1>1. row' = row /\ boxes' = boxes /\ serial' = serial
  BY Zenon DEF send_chat, idle, start_sync, subscribe, recover_refused, NeedsRepair, stop_sync,
     kill, disk
<1>2. IsBoxes(boxes) /\ Fits(row, boxes) /\ rotation[p] \in {rotation[p], NoRotation}
  BY Zenon, LocalNow
<1>3. CASE send_chat(p) \/ recover_refused(p)
  <2>1. at' = [at EXCEPT ![p] = at[p]] /\ job' = [job EXCEPT ![p] = job[p]]
        /\ rotation' = [rotation EXCEPT ![p] = rotation[p]] /\ at[p] \in Pc
    BY Zenon, <1>3, Stays, LocalNow DEF send_chat, recover_refused, ram
  <2>2. QED
    BY Zenon, <1>1, <1>2, <2>1, Waits
<1>4. CASE idle(p) \/ subscribe(p)
  <2>1. row[p].mailbox_recv \in DOMAIN boxes
        /\ at' = [at EXCEPT ![p] = IF chat[p] = "pending" THEN "flush" ELSE "online"]
    BY Zenon, <1>4, LocalNow DEF idle, subscribe, ThenFlush, Goto
  <2>2. PICK pc \in {"online", "flush", "drain"} : at' = [at EXCEPT ![p] = pc]
    BY Zenon, <2>1
  <2>3. pc \in Pc
    BY Zenon DEF Pc, Flushes
  <2>4. job' = [job EXCEPT ![p] = job[p]] /\ rotation' = [rotation EXCEPT ![p] = rotation[p]]
    BY Zenon, <1>4, Stays DEF idle, subscribe, ram
  <2>5. QED
    BY Zenon, <1>1, <1>2, <2>1, <2>2, <2>3, <2>4, Waits
<1>5. CASE start_sync(p) \/ NeedsRepair(p) \/ stop_sync(p, FALSE) \/ kill(p)
  <2>1. PICK pc \in {"off", "connect", "ended"} : at' = [at EXCEPT ![p] = pc]
    BY Zenon, <1>5 DEF start_sync, NeedsRepair, stop_sync, kill, Goto
  <2>2. /\ job' = job \/ job' = [job EXCEPT ![p] = NoJob]
        /\ rotation' = rotation \/ rotation' = [rotation EXCEPT ![p] = NoRotation]
    BY Zenon, <1>5 DEF start_sync, NeedsRepair, stop_sync, kill, ram
  <2>3. PICK j : job' = [job EXCEPT ![p] = j]
    BY Zenon, <2>2, Stays
  <2>4. PICK ro \in {rotation[p], NoRotation} : rotation' = [rotation EXCEPT ![p] = ro]
    BY Zenon, <2>2, Stays
  <2>5. pc \in Pc /\ pc \in {"off", "connect", "cut", "switch", "ended"}
    BY Zenon DEF Pc, Flushes
  <2>6. QED
    BY Zenon, <1>1, <1>2, <2>1, <2>3, <2>4, <2>5, Waits
<1>6. QED
  BY Zenon, <1>3, <1>4, <1>5

LEMMA PlainFrames ==
  /\ \A p \in Party : Chat(p) \in Post /\ \A w, b : HelloFits(w, b, Chat(p))
  /\ \A v \in {1, 3}, x \in Id : Update(v, x) \in Post /\ \A w, b : HelloFits(w, b, Update(v, x))
<1>1. \A p \in Party : Chat(p) \in Post /\ Chat(p).type # "recovery-hello"
  BY Zenon DEF Chat, Post
<1>2. \A v \in {1, 3}, x \in Id : Update(v, x) \in Post /\ Update(v, x).type # "recovery-hello"
  BY Zenon DEF Update, Post
<1>3. QED
  BY Zenon, <1>1, <1>2 DEF HelloFits

LEMMA QueueStep ==
  ASSUME RecoveryInv, NEW p \in Party,
         \/ flush_deposit(p) \/ listener_flush(p) \/ save_incoming(p) \/ hello_replay(p)
         \/ stop_sync(p, TRUE)
  PROVE  RecoveryInv' /\ Rises
<1>1. /\ row' = row /\ serial' = serial /\ rotation' = [rotation EXCEPT ![p] = rotation[p]]
      /\ job' = [job EXCEPT ![p] = IF stop_sync(p, TRUE) THEN NoJob ELSE job[p]]
  BY Zenon, Stays DEF flush_deposit, listener_flush, save_incoming, hello_replay, stop_sync,
     disk, ram
<1>2. IsBoxes(boxes') /\ Fits(row, boxes') /\ DOMAIN boxes' = DOMAIN boxes
  <2>1. IsBoxes(boxes) /\ Fits(row, boxes)
    BY Zenon, LocalNow
  <2>2. ASSUME NEW b PROVE /\ IsBoxes(deposit(boxes, b, Chat(p))) /\ Fits(row, deposit(boxes, b, Chat(p)))
                           /\ DOMAIN deposit(boxes, b, Chat(p)) = DOMAIN boxes
    BY Zenon, <2>1, PlainFrames, DepositOp
  <2>3. CASE flush_deposit(p) \/ listener_flush(p) \/ stop_sync(p, TRUE)
    <3>1. boxes' = boxes \/ \E b : boxes' = deposit(boxes, b, Chat(p))
      BY Zenon, <2>3 DEF flush_deposit, listener_flush, stop_sync
    <3>2. QED
      BY Zenon, <2>1, <2>2, <3>1
  <2>4. CASE save_incoming(p) \/ hello_replay(p)
    <3>1. boxes' = Read(p) /\ \E t : Incoming(p, t)
      BY Zenon, <2>4 DEF save_incoming, hello_replay
    <3>2. QED
      BY Zenon, <2>1, <3>1, Reads
  <2>5. QED
    BY Zenon, <2>3, <2>4
<1>3. PICK bs : boxes' = bs /\ IsBoxes(bs) /\ Fits(row, bs) /\ DOMAIN bs = DOMAIN boxes
  BY Zenon, <1>2
<1>4. CASE ~stop_sync(p, TRUE) /\ (flush_deposit(p) \/ save_incoming(p) \/ hello_replay(p))
  <2>1. at' = [at EXCEPT ![p] = at[p]] /\ at[p] \in Pc
    BY Zenon, <1>4, Stays, LocalNow DEF flush_deposit, save_incoming, hello_replay
  <2>2. QED
    BY Zenon, <1>1, <1>3, <1>4, <2>1, Waits
<1>5. CASE listener_flush(p)
  <2>1. PICK pc \in {"online", "connect"} :
          at' = [at EXCEPT ![p] = pc] /\ (pc = "online" => row[p].mailbox_recv \in DOMAIN boxes)
    BY Zenon, <1>5, LocalNow DEF listener_flush, Goto
  <2>2. pc \in Pc
    BY Zenon DEF Pc, Flushes
  <2>3. PICK j : job' = [job EXCEPT ![p] = j]
    BY Zenon, <1>1
  <2>4. QED
    BY Zenon, <1>1, <1>3, <2>1, <2>2, <2>3, Waits
<1>6. CASE stop_sync(p, TRUE)
  <2>1. at' = [at EXCEPT ![p] = "off"] /\ "off" \in Pc
    BY Zenon, <1>6 DEF stop_sync, Goto, Pc
  <2>2. PICK j : job' = [job EXCEPT ![p] = j]
    BY Zenon, <1>1
  <2>3. QED
    BY Zenon, <1>1, <1>3, <2>1, <2>2, Waits
<1>7. QED
  BY Zenon, <1>4, <1>5, <1>6

\* One leg of a probe leaves its hello in a derived mailbox of the peer.
LEMMA ProbeStep ==
  ASSUME RecoveryInv, NEW p \in Party, NEW put, NEW sent, probe_leg(p, put, sent)
  PROVE  RecoveryInv' /\ Rises
<1> DEFINE j    == [job[p] EXCEPT !.k = @ + 1]
           box  == Derived(p, Peer(p), job[p].k)
           h    == Hello(job[p].g, job[p].nonce)
<1>1. /\ at[p] = "probe" /\ job[p] \in Probe /\ row[p].root = Root
      /\ job[p].g \in row[p].own_gen .. row[p].own_gen + 1 /\ job[p].peer_gen = row[p].peer_gen
  BY Zenon, LocalNow DEF probe_leg, Local
<1>2. /\ j \in Probe /\ j.g = job[p].g /\ j.peer_gen = job[p].peer_gen
      /\ job[p].g \in Nat /\ job[p].k \in Nat /\ job[p].nonce \in Nat
  BY <1>1 DEF Probe
<1>3. /\ row' = row /\ at' = at /\ rotation' = rotation /\ serial' = serial
      /\ job' = [job EXCEPT ![p] = j]
  <2>1. DOMAIN job = Party
    BY Zenon DEF RecoveryInv, TypeInv
  <2>2. job' = [job EXCEPT ![p].k = @ + 1]
    BY Zenon DEF probe_leg
  <2>3. job' = [job EXCEPT ![p] = j]
    BY Zenon, <2>1, <2>2
  <2>4. QED
    BY Zenon, <2>3 DEF probe_leg, disk, ram
<1> HIDE DEF j
<1>4. box \in DerivedOf(Peer(p))
  BY Zenon, <1>1, <1>2, IdProps DEF Derived
<1>5. h \in Post /\ h.generation = job[p].g
  BY Zenon, <1>2 DEF Hello, Post
<1>6. HelloFits(row, box, h)
  <2>1. row[p].own_gen \in Nat
    BY Zenon, RowKeeps DEF Row
  <2>2. h.generation <= row[p].own_gen + 1
    BY <1>1, <1>5, <2>1
  <2>3. QED
    BY Zenon, <1>1, <1>4, <2>2 DEF HelloFits
<1> HIDE DEF box, h
<1>7. PICK bs : /\ boxes' = bs /\ IsBoxes(bs) /\ Fits(row, bs) /\ DOMAIN boxes \subseteq DOMAIN bs
  <2> DEFINE cs == IF put THEN put_mailbox(boxes, box) ELSE boxes
  <2>1. IsBoxes(cs) /\ Fits(row, cs) /\ DOMAIN boxes \subseteq DOMAIN cs
    <3>1. /\ IsBoxes(put_mailbox(boxes, box)) /\ Fits(row, put_mailbox(boxes, box))
          /\ DOMAIN put_mailbox(boxes, box) = DOMAIN boxes \cup {box}
      BY Zenon, LocalNow, PutOp
    <3>2. IsBoxes(boxes) /\ Fits(row, boxes)
      BY Zenon, LocalNow
    <3>3. QED
      BY Zenon, <3>1, <3>2
  <2>2. boxes' = IF sent THEN deposit(cs, box, h) ELSE cs
    BY Zenon DEF probe_leg, box, h
  <2> HIDE DEF cs
  <2>3. /\ IsBoxes(deposit(cs, box, h)) /\ Fits(row, deposit(cs, box, h))
        /\ DOMAIN deposit(cs, box, h) = DOMAIN cs
    BY <1>5, <1>6, <2>1, DepositOp
  <2>4. QED
    BY Zenon, <2>1, <2>2, <2>3
<1>8. Goes(p, row[p], "probe", j, rotation[p], bs, serial)
  BY Zenon, <1>1, <1>3, <1>7, Stays DEF Goes
<1>9. Local(p, row[p], "probe", j, bs)
  <2>1. "probe" \notin {"online", "flush", "drain"} /\ "probe" # "reply"
    BY Zenon
  <2>2. QED
    BY Zenon, <1>1, <1>2, <2>1, LocalNow DEF Local
<1>10. "probe" \in Pc /\ "probe" # "reply"
  BY Zenon DEF Pc, Flushes
<1>11. DOMAIN boxes \ Mine(p) \subseteq DOMAIN bs
  BY Zenon, <1>7
<1>12. QED
  BY Zenon, <1>7, <1>8, <1>9, <1>10, <1>11, KeepsRow

\* A listener between two waits has nothing in hand.
LEMMA LocalWait ==
  ASSUME RecoveryInv, NEW p \in Party, NEW r, Kept(row[p], r), NEW pc, NEW j, NEW bs,
         \/ pc \in {"off", "connect", "cut", "switch", "ended"}
         \/ pc \in {"online", "flush", "drain"} /\ r.mailbox_recv \in DOMAIN bs
  PROVE  Local(p, r, pc, j, bs) /\ pc \in Pc /\ pc # "reply"
<1>1. \/ r.root = Root /\ r.role = p
      \/ r.root = None /\ r.role = None
  BY Zenon, LocalNow DEF Local, Kept
<1>2. /\ pc \in Pc /\ pc # "reply" /\ pc # "probe"
      /\ pc \in {"online", "flush", "drain"} => r.mailbox_recv \in DOMAIN bs
  BY Zenon DEF Pc, Flushes
<1>3. QED
  BY Zenon, <1>1, <1>2 DEF Local

LEMMA DeletesMine ==
  ASSUME RecoveryInv, NEW p \in Party, NEW w, NEW bs, IsBoxes(bs), Fits(w, bs),
         DOMAIN boxes \ Mine(p) \subseteq DOMAIN bs, NEW b \in Mine(p)
  PROVE  /\ IsBoxes(delete_mailbox(bs, b)) /\ Fits(w, delete_mailbox(bs, b))
         /\ DOMAIN boxes \ Mine(p) \subseteq DOMAIN delete_mailbox(bs, b)
<1>1. /\ IsBoxes(delete_mailbox(bs, b)) /\ Fits(w, delete_mailbox(bs, b))
      /\ DOMAIN delete_mailbox(bs, b) = DOMAIN bs \ {b}
  BY Zenon, DeleteOp
<1>2. QED
  BY Zenon, <1>1

LEMMA ReplyStep ==
  ASSUME RecoveryInv, NEW p \in Party, NEW sent, NEW gone, rotation_reply(p, sent, gone)
  PROVE  RecoveryInv' /\ Rises
<1>1. at[p] = "reply" /\ job[p] \in Reply /\ job[p].old \in Mine(p) /\ job[p].f_b \in Id
  BY Zenon, LocalNow DEF rotation_reply, Local, Mine, Hold, Reply
<1>2. PICK bs : /\ boxes' = bs /\ IsBoxes(bs) /\ Fits(row, bs)
                /\ DOMAIN boxes \ Mine(p) \subseteq DOMAIN bs
  <2> DEFINE h  == Update(3, job[p].f_b)
             cs == IF sent THEN deposit(boxes, job[p].to, h) ELSE boxes
  <2>1. h \in Post /\ HelloFits(row, job[p].to, h)
    BY Zenon, <1>1, PlainFrames
  <2> HIDE DEF h
  <2>2. /\ IsBoxes(deposit(boxes, job[p].to, h)) /\ Fits(row, deposit(boxes, job[p].to, h))
        /\ DOMAIN deposit(boxes, job[p].to, h) = DOMAIN boxes
    BY <2>1, LocalNow, DepositOp
  <2>3. IsBoxes(boxes) /\ Fits(row, boxes)
    BY Zenon, LocalNow
  <2>4. IsBoxes(cs) /\ Fits(row, cs) /\ DOMAIN boxes \ Mine(p) \subseteq DOMAIN cs
    BY Zenon, <2>2, <2>3
  <2>5. boxes' = IF gone THEN delete_mailbox(cs, job[p].old) ELSE cs
    BY Zenon DEF rotation_reply, h
  <2> HIDE DEF cs
  <2>6. QED
    BY Zenon, <1>1, <2>4, <2>5, DeletesMine
<1>3. PICK pc \in {"switch", "connect"} : at' = [at EXCEPT ![p] = pc]
  BY Zenon DEF rotation_reply, ThenSubscribe, Goto
<1>4. Goes(p, row[p], pc, NoJob, rotation[p], bs, serial)
  BY Zenon, <1>2, <1>3, Stays DEF Goes, rotation_reply, disk, ram
<1>5. Local(p, row[p], pc, NoJob, bs) /\ pc \in Pc /\ pc # "reply"
  BY Zenon, <1>3, LocalWait DEF Kept
<1>6. QED
  BY Zenon, <1>2, <1>4, <1>5, KeepsRow

LEMMA ExpireStep ==
  ASSUME RecoveryInv, NEW p \in Party, expire(p)
  PROVE  RecoveryInv' /\ Rises
<1>1. row[p].mailbox_recv \in Mine(p) /\ at[p] = "off"
  BY Zenon DEF Mine, Hold, expire
<1>2. IsBoxes(boxes) /\ Fits(row, boxes) /\ DOMAIN boxes \ Mine(p) \subseteq DOMAIN boxes
  BY Zenon, LocalNow
<1>3. PICK bs : /\ boxes' = bs /\ IsBoxes(bs) /\ Fits(row, bs)
                /\ DOMAIN boxes \ Mine(p) \subseteq DOMAIN bs
  BY Zenon, <1>1, <1>2, DeletesMine DEF expire
<1>4. Goes(p, row[p], "off", job[p], rotation[p], bs, serial)
  BY Zenon, <1>1, <1>3, Stays DEF Goes, expire, disk, ram
<1>5. Local(p, row[p], "off", job[p], bs) /\ "off" \in Pc /\ "off" # "reply"
  BY Zenon, LocalWait DEF Kept
<1>6. QED
  BY Zenon, <1>3, <1>4, <1>5, KeepsRow

-----------------------------------------------------------------------------
(* The steps that store a change of it *)

\* A step after which the listener waits again, with at most one new mailbox.
LEMMA StoresRow ==
  ASSUME RecoveryInv, NEW p \in Party, NEW r, RowFine(p, r), NEW pc, NEW j, NEW ro \in Rotation,
         NEW bs, NEW n \in {serial, serial + 1},
         \/ pc \in {"off", "connect", "cut", "switch", "ended"}
         \/ pc \in {"online", "flush", "drain"} /\ r.mailbox_recv \in DOMAIN bs,
         Hold(r, pc, j, ro)
           \subseteq Mine(p) \cup DerivedOf(p) \cup ({"fresh"} \X (serial .. n - 1)),
         IsBoxes(bs), Fits(With(p, r), bs), DOMAIN boxes \ Mine(p) \subseteq DOMAIN bs,
         Goes(p, r, pc, j, ro, bs, n)
  PROVE  RecoveryInv' /\ Rises
<1>1. Local(p, r, pc, j, bs) /\ pc \in Pc
  BY Zenon, LocalWait DEF RowFine
<1>2. May(p, r, pc, j, ro, bs, n)
  BY Zenon, <1>1 DEF May
<1>3. QED
  BY Zenon, <1>2, Moved

\* What a wait holds when no rotation starts: the mailbox it reads.
LEMMA HoldWait ==
  ASSUME RecoveryInv, NEW p \in Party, NEW r, NEW pc, pc # "reply", NEW j
  PROVE  /\ Hold(r, pc, j, rotation[p]) \subseteq Mine(p) \cup {r.mailbox_recv}
         /\ Hold(r, pc, j, NoRotation) = {r.mailbox_recv}
         /\ row[p].mailbox_recv \in Mine(p)
         /\ rotation[p] \in Rotation /\ NoRotation \in Rotation
BY Zenon DEF Hold, Mine, RecoveryInv, TypeInv, NoRotation, Rotation, Id

LEMMA HoldSame ==
  ASSUME RecoveryInv, NEW p \in Party, NEW r, NEW pc, pc # "reply", NEW j, NEW n,
         r.mailbox_recv = row[p].mailbox_recv
  PROVE  /\ Hold(r, pc, j, rotation[p])
              \subseteq Mine(p) \cup DerivedOf(p) \cup ({"fresh"} \X (serial .. n - 1))
         /\ rotation[p] \in Rotation
<1>1. Hold(r, pc, j, rotation[p]) \subseteq Mine(p)
  BY Zenon DEF Hold, Mine
<1>2. rotation[p] \in Rotation
  BY Zenon DEF RecoveryInv, TypeInv
<1>3. QED
  BY Zenon, <1>1, <1>2

\* recover_v1: the new mailbox is the relay's, never seen before.
LEMMA FreshStep ==
  ASSUME RecoveryInv, NEW p \in Party, recover_v1(p)
  PROVE  RecoveryInv' /\ Rises
<1> DEFINE f  == <<"fresh", serial>>
           r  == set_conversation_recv(row[p], f)
           cs == create_mailbox(boxes, serial)
<1>1. f \in Id /\ f \in {"fresh"} \X (serial .. (serial + 1) - 1)
      /\ serial + 1 \in {serial, serial + 1}
  <2>1. serial \in Nat
    BY Zenon DEF RecoveryInv, TypeInv
  <2>2. QED
    BY <2>1, IdProps
<1>2. RowFine(p, r) /\ r.mailbox_recv = f
  <2>1. r \in Row /\ r.mailbox_recv = f /\ Kept(row[p], r) /\ Level(row[p], r)
    BY Zenon, <1>1, RowKeeps, RouteOps
  <2>2. QED
    BY Zenon, <2>1, RowKeeps DEF RowFine, Level
<1>3. Update(1, f) \in Post /\ \A w, b : HelloFits(w, b, Update(1, f))
  <2>1. 1 \in {1, 3}
    BY Zenon
  <2>2. QED
    BY Zenon, <1>1, <2>1, PlainFrames
<1> HIDE DEF r
<1>4. IsBoxes(cs) /\ Fits(With(p, r), cs) /\ DOMAIN boxes \subseteq DOMAIN cs
  <2>1. IsBoxes(boxes) /\ Fits(With(p, r), boxes)
    BY Zenon, <1>2, FitsGrow, LocalNow
  <2>2. IsBoxes(cs) /\ Fits(With(p, r), cs) /\ DOMAIN cs = DOMAIN boxes \cup {f}
    BY Zenon, <2>1, PutOp DEF create_mailbox
  <2>3. QED
    BY Zenon, <2>2
<1> HIDE DEF cs
<1>5. PICK bs : boxes' = bs /\ IsBoxes(bs) /\ Fits(With(p, r), bs) /\ DOMAIN boxes \subseteq DOMAIN bs
  <2>1. boxes' = cs \/ boxes' = deposit(cs, row[p].mailbox_send, Update(1, f))
    BY Zenon DEF recover_v1, cs
  <2>2. QED
    BY <1>3, <1>4, <2>1, DepositOp
<1>6. PICK pc \in {"connect", "ended"} : at' = [at EXCEPT ![p] = pc]
  BY Zenon, Stays DEF recover_v1, Goto, Lost
<1>7. Goes(p, r, pc, job[p], rotation[p], bs, serial + 1)
  BY Zenon, <1>5, <1>6, Stays DEF Goes, recover_v1, ram, SetRow, With, r
<1>8. pc # "reply" /\ pc \in {"off", "connect", "cut", "switch", "ended"}
  BY Zenon, <1>6
<1>9. Hold(r, pc, job[p], rotation[p])
        \subseteq Mine(p) \cup DerivedOf(p) \cup ({"fresh"} \X (serial .. (serial + 1) - 1))
  BY Zenon, <1>1, <1>2, <1>8, HoldWait
<1>10. rotation[p] \in Rotation /\ DOMAIN boxes \ Mine(p) \subseteq DOMAIN bs
  BY Zenon, <1>5, <1>8, HoldWait
<1>11. QED
  BY Zenon, <1>1, <1>2, <1>5, <1>7, <1>8, <1>9, <1>10, StoresRow

\* enter_recovery_gen: side p puts and stores a derived mailbox of its own.
LEMMA EntersGen ==
  ASSUME RecoveryInv, NEW p \in Party, NEW r, RowFine(p, r), NEW g \in Nat, NEW cs,
         NEW via \in {"loss", "hello"}, row[p].root = Root, g \in r.own_gen .. r.own_gen + 1,
         IsBoxes(cs), Fits(With(p, r), cs), DOMAIN cs = DOMAIN boxes,
         EnterGen(p, r, g, cs, via), rotation' = rotation
  PROVE  RecoveryInv' /\ Rises
<1> DEFINE box == Derived(p, r.role, g)
           s   == set_conversation_recv(r, box)
           j   == [via |-> via, g |-> g, peer_gen |-> r.peer_gen, k |-> r.peer_gen,
                   nonce |-> serial]
           bs  == put_mailbox(cs, box)
<1>1. r \in Row /\ r.root = Root /\ r.role = p /\ r.peer_gen \in Nat /\ serial \in Nat
  <2>1. r \in Row /\ r.root = Root /\ r.role = p
    BY Zenon, LocalNow, IdProps DEF RowFine, Kept, Local
  <2>2. QED
    BY Zenon, <2>1 DEF Row, RecoveryInv, TypeInv
<1>2. box \in DerivedOf(p) /\ box \in Id
  BY Zenon, <1>1, IdProps DEF Derived
<1>3. RowFine(p, s) /\ s.mailbox_recv = box /\ s.root = Root /\ s.role = p /\ Level(r, s)
  <2>1. s \in Row /\ s.mailbox_recv = box /\ Kept(r, s) /\ Level(r, s)
    BY Zenon, <1>1, <1>2, RouteOps
  <2>2. QED
    BY Zenon, <1>1, <2>1 DEF RowFine, Level, Kept
<1>4. j \in Probe /\ j.g = g /\ j.peer_gen = r.peer_gen
  BY Zenon, <1>1 DEF Probe
<1>5. Goes(p, s, "probe", j, rotation[p], bs, serial + 1)
  BY Zenon, Stays DEF Goes, EnterGen, SetRow, Goto, With
<1> HIDE DEF box, s, j
<1>6. IsBoxes(bs) /\ Fits(With(p, s), bs) /\ DOMAIN boxes \ Mine(p) \subseteq DOMAIN bs
  <2>1. Fits(With(p, s), cs)
    <3>1. row \in [Party -> Row]
      BY Zenon DEF RecoveryInv, TypeInv
    <3>2. \A q \in Party : With(p, s)[q].root = With(p, r)[q].root
                           /\ With(p, s)[q].own_gen = With(p, r)[q].own_gen
      BY Zenon, <1>1, <1>3, <3>1 DEF With, Level
    <3>3. ASSUME NEW b, NEW h, HelloFits(With(p, r), b, h) PROVE HelloFits(With(p, s), b, h)
      BY Zenon, <3>2, <3>3 DEF HelloFits
    <3>4. QED
      BY Zenon, <3>3 DEF Fits
  <2>2. IsBoxes(bs) /\ Fits(With(p, s), bs) /\ DOMAIN bs = DOMAIN cs \cup {box}
    BY ZenonT(60), <2>1, PutOp
  <2>3. QED
    BY Zenon, <2>2
<1>7. Hold(s, "probe", j, rotation[p])
        \subseteq Mine(p) \cup DerivedOf(p) \cup ({"fresh"} \X (serial .. (serial + 1) - 1))
  <2>1. "probe" # "reply"
    BY Zenon
  <2>2. Hold(s, "probe", j, rotation[p]) \subseteq Mine(p) \cup {box}
    BY Zenon, <1>3, <2>1, HoldWait
  <2>3. QED
    BY Zenon, <1>2, <2>2
<1>8. Local(p, s, "probe", j, bs)
  <2>1. "probe" \notin {"online", "flush", "drain"} /\ "probe" # "reply"
    BY Zenon
  <2>2. QED
    BY Zenon, <1>3, <1>4, <2>1 DEF Local, Level
<1>9. "probe" \in Pc /\ rotation[p] \in Rotation
  BY Zenon DEF Pc, RecoveryInv, TypeInv
<1>10. May(p, s, "probe", j, rotation[p], bs, serial + 1)
  BY Zenon, <1>3, <1>6, <1>7, <1>8, <1>9 DEF May
<1>11. QED
  BY Zenon, <1>5, <1>10, Moved

LEMMA LossStep ==
  ASSUME RecoveryInv, NEW p \in Party, recover_v2(p)
  PROVE  RecoveryInv' /\ Rises
<1>1. row[p] \in Row /\ RowFine(p, row[p]) /\ Fits(With(p, row[p]), boxes) /\ IsBoxes(boxes)
  BY Zenon, RowKeeps, FitsGrow, LocalNow
<1>2. row[p].own_gen + 1 \in Nat /\ row[p].own_gen + 1 \in row[p].own_gen .. row[p].own_gen + 1
  BY <1>1 DEF Row
<1>3. row[p].root = Root
  BY Zenon, LocalNow DEF recover_v2, Local
<1>4. rotation' = rotation /\ EnterGen(p, row[p], row[p].own_gen + 1, boxes, "loss")
  BY Zenon DEF recover_v2, ram
<1>5. "loss" \in {"loss", "hello"}
  BY Zenon
<1>6. QED
  BY Zenon, <1>1, <1>2, <1>3, <1>4, <1>5, EntersGen

\* Storing what a probe sent: the generation it announced, and the route.
LEMMA ProbedStep ==
  ASSUME RecoveryInv, NEW p \in Party, probe_done(p)
  PROVE  RecoveryInv' /\ Rises
<1> DEFINE box == Derived(p, Peer(p), job[p].g)
           t   == set_conversation_send(row[p], Relay, box)
           r   == set_recovery_generations(t, job[p].g, job[p].peer_gen)
<1>1. /\ job[p] \in Probe /\ row[p].root = Root
      /\ job[p].g \in row[p].own_gen .. row[p].own_gen + 1 /\ job[p].peer_gen = row[p].peer_gen
  BY Zenon, LocalNow DEF probe_done, Local
<1>2. row[p] \in Row /\ row[p].relay_url = Relay /\ row[p].own_gen \in Nat
      /\ row[p].peer_gen \in Nat /\ row[p].mailbox_recv \in Id
  BY Zenon, RowKeeps DEF Row
<1>3. job[p].g \in Nat /\ job[p].peer_gen \in Nat
  BY <1>1, <1>2
<1>4. box \in Id
  BY Zenon, <1>1, <1>3, IdProps, PeerProps DEF Derived
<1>5. t \in Row /\ t.mailbox_recv = row[p].mailbox_recv /\ Kept(row[p], t)
  BY Zenon, <1>2, <1>4, RouteOps
<1> HIDE DEF t
<1>6. /\ r \in Row /\ r.mailbox_recv = t.mailbox_recv /\ Kept(t, r)
      /\ r.own_gen = job[p].g /\ r.peer_gen = job[p].peer_gen
  <2>1. PICK m, n \in Nat : m = job[p].g /\ n = job[p].peer_gen
    BY Zenon, <1>3
  <2>2. r = set_recovery_generations(t, m, n)
    BY Zenon, <2>1
  <2>3. \A u \in Row : /\ set_recovery_generations(u, m, n) \in Row
                       /\ set_recovery_generations(u, m, n).mailbox_recv = u.mailbox_recv
                       /\ set_recovery_generations(u, m, n).own_gen = m
                       /\ set_recovery_generations(u, m, n).peer_gen = n
                       /\ Kept(u, set_recovery_generations(u, m, n))
    BY Zenon, GenOps
  <2> HIDE DEF r
  <2>4. QED
    BY Zenon, <1>5, <2>1, <2>2, <2>3
<1>7. row' = With(p, r)
  BY Zenon, <1>2 DEF probe_done, SetRow, With, t
<1> HIDE DEF r
<1>8. RowFine(p, r)
  <2>1. r.own_gen >= row[p].own_gen /\ r.peer_gen >= row[p].peer_gen
    BY <1>1, <1>2, <1>6
  <2>2. r.peer_gen <= row[Peer(p)].own_gen + 1
    BY Zenon, <1>1, <1>6, RowKeeps DEF RowFine
  <2>3. QED
    BY Zenon, <1>5, <1>6, <2>1, <2>2 DEF RowFine, Kept
<1>9. Goes(p, r, "connect", NoJob, rotation[p], boxes, serial)
  BY Zenon, <1>7, Stays DEF Goes, probe_done, Goto
<1>10. IsBoxes(boxes) /\ Fits(With(p, r), boxes) /\ DOMAIN boxes \ Mine(p) \subseteq DOMAIN boxes
  BY Zenon, <1>8, FitsGrow, LocalNow
<1>11. "connect" # "reply"
  BY Zenon
<1>12. Hold(r, "connect", NoJob, rotation[p])
         \subseteq Mine(p) \cup DerivedOf(p) \cup ({"fresh"} \X (serial .. serial - 1))
       /\ rotation[p] \in Rotation
  BY Zenon, <1>5, <1>6, <1>11, HoldSame
<1>13. QED
  BY Zenon, <1>8, <1>9, <1>10, <1>12, StoresRow

\* A new hello raises the generations; the listener may then probe at the new
\* one, start a rotation, or flush.
LEMMA AdoptStep ==
  ASSUME RecoveryInv, NEW p \in Party, NEW ok, hello_adopt(p, ok)
  PROVE  RecoveryInv' /\ Rises
<1> DEFINE r == converge(row[p], Frame(p).generation)
<1>1. Incoming(p, "recovery-hello")
  BY Zenon DEF hello_adopt, NewHello
<1>2. RowFine(p, r) /\ row[p].root = Root /\ r.mailbox_recv = row[p].mailbox_recv
  BY Zenon, <1>1, HelloReads, RowKeeps, Converges
<1>3. IsBoxes(Read(p)) /\ DOMAIN Read(p) = DOMAIN boxes /\ Fits(With(p, r), Read(p))
      /\ at[p] = "online" /\ row[p].mailbox_recv \in DOMAIN Read(p)
  BY Zenon, <1>1, <1>2, Reads, FitsGrow
<1>4. rotation' = rotation
  BY Zenon DEF hello_adopt
<1>5. CASE ok
  <2>1. EnterGen(p, r, r.own_gen, Read(p), "hello")
    BY Zenon, <1>5 DEF hello_adopt
  <2> HIDE DEF r
  <2>2. r.own_gen \in Nat /\ r.own_gen \in r.own_gen .. r.own_gen + 1
    BY <1>2 DEF RowFine, Row
  <2>3. "hello" \in {"loss", "hello"}
    BY Zenon
  <2>4. QED
    BY Zenon, <1>2, <1>3, <1>4, <2>1, <2>2, <2>3, EntersGen
<1>6. CASE ~ok
  <2>1. Goes(p, r, "online", job[p], rotation[p], Read(p), serial)
    BY Zenon, <1>3, <1>4, <1>6, Stays DEF hello_adopt, Goes, SetRow, With
  <2> HIDE DEF r
  <2>2. "online" # "reply"
    BY Zenon
  <2>3. Hold(r, "online", job[p], rotation[p])
          \subseteq Mine(p) \cup DerivedOf(p) \cup ({"fresh"} \X (serial .. serial - 1))
        /\ rotation[p] \in Rotation
    BY Zenon, <1>2, <2>2, HoldSame
  <2>4. DOMAIN boxes \ Mine(p) \subseteq DOMAIN Read(p)
    BY Zenon, <1>3
  <2>5. QED
    BY Zenon, <1>2, <1>3, <2>1, <2>3, <2>4, StoresRow
<1>7. QED
  BY Zenon, <1>5, <1>6

LEMMA HelloFlushStep ==
  ASSUME RecoveryInv, NEW p \in Party, hello_flush(p)
  PROVE  RecoveryInv' /\ Rises
<1> DEFINE r == converge(row[p], Frame(p).generation)
<1>1. Incoming(p, "recovery-hello")
  BY Zenon DEF hello_flush, NewHello
<1>2. RowFine(p, r) /\ r.mailbox_recv = row[p].mailbox_recv
  BY Zenon, <1>1, HelloReads, RowKeeps, Converges
<1>3. IsBoxes(Read(p)) /\ DOMAIN Read(p) = DOMAIN boxes /\ Fits(With(p, r), Read(p))
      /\ row[p].mailbox_recv \in DOMAIN Read(p)
  BY Zenon, <1>1, <1>2, Reads, FitsGrow
<1>4. PICK pc \in {"online", "flush", "drain"} : at' = [at EXCEPT ![p] = pc]
  BY Zenon DEF hello_flush, ThenRead, Goto
<1>5. Goes(p, r, pc, job[p], rotation[p], Read(p), serial)
  BY Zenon, <1>4, Stays DEF hello_flush, Goes, SetRow, With
<1> HIDE DEF r
<1>6. pc # "reply"
  BY Zenon, <1>4
<1>7. Hold(r, pc, job[p], rotation[p])
        \subseteq Mine(p) \cup DerivedOf(p) \cup ({"fresh"} \X (serial .. serial - 1))
      /\ rotation[p] \in Rotation
  BY Zenon, <1>2, <1>6, HoldSame
<1>8. DOMAIN boxes \ Mine(p) \subseteq DOMAIN Read(p)
  BY Zenon, <1>3
<1>9. QED
  BY Zenon, <1>2, <1>3, <1>4, <1>5, <1>7, <1>8, StoresRow

\* The offerer reads on in its derived mailbox and will move to F_A.
LEMMA RotateStep ==
  ASSUME RecoveryInv, NEW p \in Party, NEW ok, NEW sent, initiate_rotation(p, ok, sent)
  PROVE  RecoveryInv' /\ Rises
<1> DEFINE r == converge(row[p], Frame(p).generation)
           f == <<"fresh", serial>>
           d == Derived(p, Offerer, r.own_gen)
<1>1. Incoming(p, "recovery-hello")
  BY Zenon DEF initiate_rotation, NewHello
<1>2. RowFine(p, r) /\ r.mailbox_recv = row[p].mailbox_recv /\ row[p].root = Root
      /\ row[p].role = p /\ r.own_gen \in Nat
  BY Zenon, <1>1, HelloReads, RowKeeps, Converges
<1>3. p = Offerer
  BY Zenon, <1>2 DEF initiate_rotation, RowFine, Kept
<1>4. IsBoxes(Read(p)) /\ DOMAIN Read(p) = DOMAIN boxes /\ Fits(With(p, r), Read(p))
      /\ at[p] = "online" /\ row[p].mailbox_recv \in DOMAIN Read(p)
  <2> HIDE DEF r
  <2>1. Fits(With(p, r), boxes)
    BY Zenon, <1>2, FitsGrow
  <2>2. QED
    BY Zenon, <1>1, <2>1, Reads
<1>5. DOMAIN boxes \ Mine(p) \subseteq DOMAIN Read(p)
  BY Zenon, <1>4
<1>6. f \in Id /\ f \in {"fresh"} \X (serial .. (serial + 1) - 1)
      /\ serial + 1 \in {serial, serial + 1}
  <2>1. serial \in Nat
    BY Zenon DEF RecoveryInv, TypeInv
  <2>2. QED
    BY <2>1, IdProps
<1>7. d \in DerivedOf(p) /\ d \in Id
  BY Zenon, <1>2, <1>3, IdProps DEF Derived
<1>8. row' = With(p, r) /\ at' = [at EXCEPT ![p] = "online"] /\ job' = [job EXCEPT ![p] = job[p]]
  BY Zenon, <1>4, Stays DEF initiate_rotation, SetRow, With
<1>9. CASE ok
  <2> DEFINE ro == [f_a |-> f, derived |-> d]
             cs == create_mailbox(Read(p), serial)
             to == Derived(p, Responder, r.own_gen)
  <2>1. /\ boxes' = IF sent THEN deposit(cs, to, Update(3, f)) ELSE cs
        /\ rotation' = [rotation EXCEPT ![p] = ro] /\ serial' = serial + 1
    BY Zenon, <1>9 DEF initiate_rotation
  <2>2. ro \in Rotation
    BY Zenon, <1>6, <1>7 DEF Rotation
  <2>3. Hold(r, "online", job[p], ro)
          \subseteq Mine(p) \cup DerivedOf(p) \cup ({"fresh"} \X (serial .. (serial + 1) - 1))
    <3> HIDE DEF r, d, f
    <3>1. Hold(r, "online", job[p], ro) \subseteq {row[p].mailbox_recv, f, d}
      BY Zenon, <1>2 DEF Hold
    <3>2. row[p].mailbox_recv \in Mine(p)
      BY Zenon DEF Mine, Hold
    <3>3. QED
      BY Zenon, <1>6, <1>7, <3>1, <3>2
  <2>4. Update(3, f) \in Post /\ HelloFits(With(p, r), to, Update(3, f))
    <3>1. 3 \in {1, 3}
      BY Zenon
    <3>2. QED
      BY Zenon, <1>6, <3>1, PlainFrames
  <2> HIDE DEF r, ro, to
  <2>5. IsBoxes(cs) /\ Fits(With(p, r), cs) /\ DOMAIN cs = DOMAIN Read(p) \cup {f}
    BY Zenon, <1>4, PutOp DEF create_mailbox
  <2> HIDE DEF cs, f
  <2>6. PICK bs : /\ boxes' = bs /\ IsBoxes(bs) /\ Fits(With(p, r), bs)
                  /\ DOMAIN boxes \ Mine(p) \subseteq DOMAIN bs
                  /\ r.mailbox_recv \in DOMAIN bs
    <3>1. /\ IsBoxes(deposit(cs, to, Update(3, f))) /\ Fits(With(p, r), deposit(cs, to, Update(3, f)))
          /\ DOMAIN deposit(cs, to, Update(3, f)) = DOMAIN cs
      BY <2>4, <2>5, DepositOp
    <3>2. DOMAIN boxes \ Mine(p) \subseteq DOMAIN cs /\ r.mailbox_recv \in DOMAIN cs
      BY Zenon, <1>2, <1>4, <2>5
    <3>3. QED
      BY Zenon, <2>1, <2>5, <3>1, <3>2
  <2>7. Goes(p, r, "online", job[p], ro, bs, serial + 1)
    BY Zenon, <1>8, <2>1, <2>6 DEF Goes
  <2>8. QED
    BY Zenon, <1>2, <1>6, <2>2, <2>3, <2>6, <2>7, StoresRow
<1>10. CASE ~ok
  <2>1. Goes(p, r, "online", job[p], rotation[p], Read(p), serial)
    BY Zenon, <1>8, <1>10, Stays DEF initiate_rotation, Goes
  <2> HIDE DEF r
  <2>2. "online" # "reply"
    BY Zenon
  <2>3. Hold(r, "online", job[p], rotation[p])
          \subseteq Mine(p) \cup DerivedOf(p) \cup ({"fresh"} \X (serial .. serial - 1))
        /\ rotation[p] \in Rotation
    BY Zenon, <1>2, <2>2, HoldSame
  <2>4. QED
    BY Zenon, <1>2, <1>4, <1>5, <2>1, <2>3, StoresRow
<1>11. QED
  BY Zenon, <1>9, <1>10

LEMMA UpdateReads ==
  ASSUME RecoveryInv, NEW p \in Party, Incoming(p, "mailbox-update")
  PROVE  /\ Frame(p).inbox \in Id /\ row[p].mailbox_recv \in DOMAIN boxes /\ at[p] = "online"
         /\ RowFine(p, set_conversation_send(row[p], Relay, Frame(p).inbox))
         /\ set_conversation_send(row[p], Relay, Frame(p).inbox).mailbox_recv = row[p].mailbox_recv
         /\ IsBoxes(Read(p)) /\ DOMAIN Read(p) = DOMAIN boxes
         /\ \A r : RowFine(p, r) => Fits(With(p, r), Read(p))
<1>1. Frame(p) \in Post /\ Frame(p).type = "mailbox-update"
  BY Zenon, Reads
<1>2. Frame(p).inbox \in Id
  BY Zenon, <1>1 DEF Post
<1>3. PICK b \in Id : b = Frame(p).inbox
  BY Zenon, <1>2
<1> DEFINE t == set_conversation_send(row[p], Relay, b)
<1>4. t \in Row /\ t.mailbox_recv = row[p].mailbox_recv /\ Kept(row[p], t) /\ Level(row[p], t)
  BY Zenon, RouteOps, RowKeeps
<1> HIDE DEF t
<1>5. RowFine(p, t)
  BY Zenon, <1>4, RowKeeps DEF RowFine, Level
<1>6. \A r : RowFine(p, r) => Fits(With(p, r), Read(p))
  BY Zenon, Reads, FitsGrow
<1>7. IsBoxes(Read(p)) /\ DOMAIN Read(p) = DOMAIN boxes /\ row[p].mailbox_recv \in DOMAIN boxes
      /\ at[p] = "online"
  BY Zenon, Reads
<1>8. QED
  BY Zenon, <1>2, <1>3, <1>4, <1>5, <1>6, <1>7 DEF t

\* The row with another mailbox to read.
LEMMA RereadRow ==
  ASSUME RecoveryInv, NEW p \in Party, NEW t, RowFine(p, t), NEW b \in Id
  PROVE  RowFine(p, set_conversation_recv(t, b)) /\ set_conversation_recv(t, b).mailbox_recv = b
<1> DEFINE s == set_conversation_recv(t, b)
<1>1. t \in Row
  BY Zenon DEF RowFine
<1>2. s \in Row /\ s.mailbox_recv = b /\ Kept(t, s) /\ Level(t, s)
  BY Zenon, <1>1, RouteOps
<1> HIDE DEF s
<1>3. RowFine(p, s)
  BY Zenon, <1>2 DEF RowFine, Level, Kept
<1>4. QED
  BY Zenon, <1>2, <1>3 DEF s

LEMMA UpdateStep ==
  ASSUME RecoveryInv, NEW p \in Party, update_v1(p)
  PROVE  RecoveryInv' /\ Rises
<1> DEFINE t == set_conversation_send(row[p], Relay, Frame(p).inbox)
<1>1. Incoming(p, "mailbox-update")
  BY Zenon DEF update_v1
<1>2. /\ RowFine(p, t) /\ t.mailbox_recv = row[p].mailbox_recv
      /\ row[p].mailbox_recv \in DOMAIN boxes /\ IsBoxes(Read(p)) /\ DOMAIN Read(p) = DOMAIN boxes
  BY Zenon, <1>1, UpdateReads
<1>3. PICK pc \in {"online", "flush", "drain"} : at' = [at EXCEPT ![p] = pc]
  BY Zenon DEF update_v1, ThenRead, Goto
<1>4. Goes(p, t, pc, job[p], rotation[p], Read(p), serial)
  BY Zenon, <1>3, Stays DEF update_v1, Goes, SetRow, With, ram
<1> HIDE DEF t
<1>5. pc # "reply"
  BY Zenon, <1>3
<1>6. Hold(t, pc, job[p], rotation[p])
        \subseteq Mine(p) \cup DerivedOf(p) \cup ({"fresh"} \X (serial .. serial - 1))
      /\ rotation[p] \in Rotation
  BY Zenon, <1>2, <1>5, HoldSame
<1>7. DOMAIN boxes \ Mine(p) \subseteq DOMAIN Read(p) /\ Fits(With(p, t), Read(p))
  BY Zenon, <1>1, <1>2, UpdateReads
<1>8. t.mailbox_recv \in DOMAIN Read(p)
  BY Zenon, <1>2
<1>9. QED
  BY Zenon, <1>2, <1>3, <1>4, <1>6, <1>7, <1>8, StoresRow

\* The offerer moves to F_A and retires its derived mailbox.
LEMMA FinishStep ==
  ASSUME RecoveryInv, NEW p \in Party, NEW gone, rotation_finish(p, gone)
  PROVE  RecoveryInv' /\ Rises
<1> DEFINE t == set_conversation_send(row[p], Relay, Frame(p).inbox)
           r == set_conversation_recv(t, rotation[p].f_a)
<1>1. Incoming(p, "mailbox-update") /\ rotation[p] # NoRotation
  BY Zenon DEF rotation_finish
<1>2. RowFine(p, t) /\ IsBoxes(Read(p)) /\ DOMAIN Read(p) = DOMAIN boxes
  BY Zenon, <1>1, UpdateReads
<1>3. PICK pc \in {"switch", "connect"} : at' = [at EXCEPT ![p] = pc]
  BY Zenon DEF rotation_finish, ThenSubscribe, Goto
<1>4. /\ row' = With(p, r) /\ job' = [job EXCEPT ![p] = job[p]]
      /\ rotation' = [rotation EXCEPT ![p] = NoRotation] /\ serial' = serial
      /\ boxes' = IF gone THEN delete_mailbox(Read(p), rotation[p].derived) ELSE Read(p)
  BY Zenon, Stays DEF rotation_finish, SetRow, With
<1> HIDE DEF t
<1>5. rotation[p].f_a \in Id /\ rotation[p].f_a \in Mine(p) /\ rotation[p].derived \in Mine(p)
  BY Zenon, <1>1 DEF RecoveryInv, TypeInv, Rotation, Mine, Hold
<1>6. RowFine(p, r) /\ r.mailbox_recv = rotation[p].f_a
  BY Zenon, <1>2, <1>5, RereadRow
<1> HIDE DEF r
<1>7. Fits(With(p, r), Read(p)) /\ DOMAIN boxes \ Mine(p) \subseteq DOMAIN Read(p)
  BY Zenon, <1>1, <1>2, <1>6, UpdateReads
<1>8. PICK bs : /\ boxes' = bs /\ IsBoxes(bs) /\ Fits(With(p, r), bs)
                /\ DOMAIN boxes \ Mine(p) \subseteq DOMAIN bs
  BY Zenon, <1>2, <1>4, <1>5, <1>7, DeletesMine
<1>9. Goes(p, r, pc, job[p], NoRotation, bs, serial)
  BY Zenon, <1>3, <1>4, <1>8 DEF Goes
<1>10. pc # "reply" /\ pc \in {"off", "connect", "cut", "switch", "ended"}
  BY Zenon, <1>3
<1>11. Hold(r, pc, job[p], NoRotation) = {rotation[p].f_a} /\ NoRotation \in Rotation
  BY Zenon, <1>6, <1>10, HoldWait
<1>12. Hold(r, pc, job[p], NoRotation)
         \subseteq Mine(p) \cup DerivedOf(p) \cup ({"fresh"} \X (serial .. serial - 1))
  BY Zenon, <1>5, <1>11
<1>13. QED
  BY Zenon, <1>6, <1>8, <1>9, <1>10, <1>11, <1>12, StoresRow


\* The responder reads in F_B from here on, and retires the old mailbox next.
LEMMA RotationAdoptStep ==
  ASSUME RecoveryInv, NEW p \in Party, NEW ok, rotation_adopt(p, ok)
  PROVE  RecoveryInv' /\ Rises
<1> DEFINE t == set_conversation_send(row[p], Relay, Frame(p).inbox)
           f == <<"fresh", serial>>
           r == set_conversation_recv(t, f)
           to == Derived(p, Peer(p), row[p].own_gen)
           old == row[p].mailbox_recv
           j == [via |-> "reply", f_b |-> f, to |-> to, old |-> old]
<1>1. Incoming(p, "mailbox-update") /\ rotation[p] = NoRotation
  BY Zenon DEF rotation_adopt
<1>2. /\ RowFine(p, t) /\ t.mailbox_recv = old /\ at[p] = "online"
      /\ old \in DOMAIN boxes /\ IsBoxes(Read(p)) /\ DOMAIN Read(p) = DOMAIN boxes
  BY Zenon, <1>1, UpdateReads
<1>3. DOMAIN boxes \ Mine(p) \subseteq DOMAIN Read(p)
  BY Zenon, <1>2
<1>4. rotation' = [rotation EXCEPT ![p] = rotation[p]]
  BY Zenon, Stays DEF rotation_adopt, ram
<1>5. CASE ok
  <2> DEFINE bs == create_mailbox(Read(p), serial)
  <2>1. f \in Id /\ f \in {"fresh"} \X (serial .. (serial + 1) - 1)
        /\ serial + 1 \in {serial, serial + 1}
    <3>1. serial \in Nat
      BY Zenon DEF RecoveryInv, TypeInv
    <3>2. QED
      BY <3>1, IdProps
  <2>2. to \in Id /\ old \in Id
    <3>1. Peer(p) \in Party /\ row[p] \in Row
      BY Zenon, PeerProps, RowKeeps
    <3>2. row[p].own_gen \in Nat /\ row[p].root \in {None, Root} /\ old \in Id
      BY Zenon, <3>1 DEF Row
    <3>3. QED
      BY Zenon, <3>1, <3>2, IdProps DEF Derived
  <2>3. Goes(p, r, "reply", j, NoRotation, bs, serial + 1)
    BY Zenon, <1>1, <1>4, <1>5 DEF rotation_adopt, Goes, SetRow, Goto, With
  <2> HIDE DEF t, to
  <2>4. RowFine(p, r) /\ r.mailbox_recv = f
    BY Zenon, <1>2, <2>1, RereadRow
  <2> HIDE DEF r
  <2>5. Fits(With(p, r), Read(p))
    BY Zenon, <1>1, <2>4, UpdateReads
  <2>6. IsBoxes(bs) /\ Fits(With(p, r), bs) /\ DOMAIN bs = DOMAIN Read(p) \cup {f}
    BY Zenon, <1>2, <2>5, PutOp DEF create_mailbox
  <2> HIDE DEF bs, f, old
  <2>7. j \in Reply /\ j.old = old
    BY Zenon, <2>1, <2>2 DEF Reply
  <2> HIDE DEF j
  <2>8. Hold(r, "reply", j, NoRotation) = {f, old}
    BY Zenon, <2>4, <2>7 DEF Hold
  <2>9. old \in Mine(p) /\ NoRotation \in Rotation /\ "reply" \in Pc
    BY Zenon DEF Mine, Hold, old, NoRotation, Rotation, Id, Pc
  <2>10. Local(p, r, "reply", j, bs)
    <3>1. Local(p, row[p], at[p], job[p], boxes)
      BY Zenon, LocalNow
    <3>2. QED
      BY Zenon, <2>4, <2>7, <3>1 DEF Local, RowFine, Kept
  <2>11. DOMAIN boxes \ Mine(p) \subseteq DOMAIN bs
    BY Zenon, <1>3, <2>6
  <2>12. Hold(r, "reply", j, NoRotation)
           \subseteq Mine(p) \cup DerivedOf(p) \cup ({"fresh"} \X (serial .. (serial + 1) - 1))
    BY Zenon, <2>1, <2>8, <2>9
  <2>13. May(p, r, "reply", j, NoRotation, bs, serial + 1)
    BY Zenon, <2>1, <2>4, <2>6, <2>9, <2>10, <2>11, <2>12 DEF May
  <2>14. QED
    BY Zenon, <2>3, <2>13, Moved
<1>6. CASE ~ok
  <2>1. Goes(p, t, "online", job[p], rotation[p], Read(p), serial)
    BY Zenon, <1>2, <1>4, <1>6, Stays DEF rotation_adopt, Goes, SetRow, With
  <2> HIDE DEF t
  <2>2. "online" # "reply"
    BY Zenon
  <2>3. Hold(t, "online", job[p], rotation[p])
          \subseteq Mine(p) \cup DerivedOf(p) \cup ({"fresh"} \X (serial .. serial - 1))
        /\ rotation[p] \in Rotation
    BY Zenon, <1>2, <2>2, HoldSame
  <2>4. Fits(With(p, t), Read(p)) /\ t.mailbox_recv \in DOMAIN Read(p)
    BY Zenon, <1>1, <1>2, UpdateReads
  <2>5. QED
    BY Zenon, <1>2, <1>3, <2>1, <2>3, <2>4, StoresRow
<1>7. QED
  BY Zenon, <1>5, <1>6

LEMMA SameRises ==
  ASSUME RecoveryInv, row' = row
  PROVE  Rises
<1>1. \A r \in Row : r.own_gen >= r.own_gen /\ r.peer_gen >= r.peer_gen
  BY DEF Row
<1>2. QED
  BY Zenon, <1>1 DEF Rises, RecoveryInv, TypeInv

\* A restart empties the relay; whoever was reading has to subscribe again.
LEMMA RestartStep ==
  ASSUME RecoveryInv, relay_restart
  PROVE  RecoveryInv' /\ Rises
<1>1. /\ row' = row /\ job' = job /\ rotation' = rotation /\ serial' = serial
      /\ boxes' = << >>
  BY Zenon DEF relay_restart, disk, ram
<1>2. at' \in [Party -> Pc]
      /\ \A p \in Party : /\ at'[p] \notin {"online", "flush", "drain"}
                          /\ at'[p] \in {"probe", "reply"} => at[p] = at'[p]
                          /\ at[p] = "reply" => at'[p] = "reply"
  BY Zenon DEF relay_restart, RecoveryInv, TypeInv, Pc, Flushes
<1>3. IsBoxes(<< >>) /\ \A w : Fits(w, << >>)
  BY DEF IsBoxes, Fits
<1>4. TypeInv'
  BY Zenon, <1>1, <1>2, <1>3 DEF RecoveryInv, TypeInv
<1>5. \A p \in Party : Local(p, row[p], at[p], job[p], boxes)'
  <2> TAKE p \in Party
  <2>1. Local(p, row[p], at[p], job[p], boxes)
    BY Zenon DEF RecoveryInv
  <2>2. QED
    BY Zenon, <1>1, <1>2, <2>1 DEF Local
<1>6. \A p \in Party : Mine(p)' = Mine(p)
  <2> TAKE p \in Party
  <2>1. at[p] = "reply" <=> at'[p] = "reply"
    BY Zenon, <1>2
  <2>2. QED
    BY Zenon, <1>1, <2>1 DEF Mine, Hold
<1>7. OwnInv'
  BY Zenon, <1>1, <1>6 DEF RecoveryInv, OwnInv
<1>8. Fits(row, boxes)' /\ PeerGenKnown' /\ row'[Offerer].root = row'[Responder].root
  BY Zenon, <1>1, <1>3 DEF RecoveryInv, PeerGenKnown
<1>9. Rises
  BY Zenon, <1>1, SameRises
<1>10. QED
  BY Zenon, <1>4, <1>5, <1>7, <1>8, <1>9 DEF RecoveryInv


-----------------------------------------------------------------------------
(* The first state, every step, and the theorems *)

LEMMA PairedRow ==
  ASSUME NEW p \in Party, NEW rooted \in BOOLEAN
  PROVE  /\ Paired(p, rooted) \in Row
         /\ Paired(p, rooted).mailbox_recv = <<"home", p>>
         /\ Paired(p, rooted).own_gen = 0 /\ Paired(p, rooted).peer_gen = 0
         /\ Paired(p, rooted).root = (IF rooted THEN Root ELSE None)
         /\ Paired(p, rooted).role = (IF rooted THEN p ELSE None)
<1>1. Peer(p) \in Party /\ <<"home", p>> \in Id /\ <<"home", Peer(p)>> \in Id
  BY Zenon, PeerProps, IdProps
<1> DEFINE routed == create_routed_conversation(Peer(p), Relay, <<"home", Peer(p)>>,
                                                <<"home", p>>)
<1>2. /\ routed \in Row /\ routed.mailbox_recv = <<"home", p>> /\ routed.own_gen = 0
      /\ routed.peer_gen = 0 /\ routed.root = None /\ routed.role = None
  BY Zenon, <1>1 DEF create_routed_conversation, Row
<1> DEFINE full == set_recovery_root(set_recovery_pairing(routed, p, p), Peer(p), Root)
<1>3. Paired(p, rooted) = IF rooted THEN full ELSE routed
  BY Zenon DEF Paired, Root
<1> HIDE DEF routed
<1>4. /\ full \in Row /\ full.mailbox_recv = <<"home", p>> /\ full.own_gen = 0
      /\ full.peer_gen = 0 /\ full.root = Root /\ full.role = p
  BY Zenon, <1>1, <1>2 DEF set_recovery_root, set_recovery_pairing, Row
<1> HIDE DEF full
<1>5. CASE rooted
  BY Zenon, <1>3, <1>4, <1>5
<1>6. CASE ~rooted
  BY Zenon, <1>2, <1>3, <1>6
<1>7. QED
  BY Zenon, <1>5, <1>6

LEMMA RecoveryStarts ==
  ASSUME Init
  PROVE  RecoveryInv /\ RestInv
<1>1. PICK rooted \in BOOLEAN : row = [p \in Party |-> Paired(p, rooted)]
  BY Zenon, RecoveryAssumption DEF Init
<1>2. ASSUME NEW p \in Party
      PROVE  /\ row[p] \in Row /\ row[p].mailbox_recv = <<"home", p>>
             /\ row[p].own_gen = 0 /\ row[p].peer_gen = 0
             /\ row[p].root = (IF rooted THEN Root ELSE None)
             /\ row[p].role = (IF rooted THEN p ELSE None)
  <2>1. row[p] = Paired(p, rooted)
    BY Zenon, <1>1
  <2>2. QED
    BY <2>1, PairedRow
<1>3. row \in [Party -> Row]
  <2>1. \A p \in Party : Paired(p, rooted) \in Row
    BY Zenon, PairedRow
  <2>2. QED
    BY Zenon, <1>1, <2>1
<1>4. IsBoxes(boxes) /\ \A w : Fits(w, boxes)
  BY DEF Init, IsBoxes, Fits
<1>5. at \in [Party -> Pc] /\ rotation \in [Party -> Rotation]
      /\ job = [p \in Party |-> job[p]] /\ serial \in Nat
  BY Zenon DEF Init, Pc, Rotation, NoRotation, Id
<1>6. TypeInv
  BY Zenon, <1>3, <1>4, <1>5 DEF TypeInv
<1>7. \A p \in Party : Local(p, row[p], at[p], job[p], boxes)
  <2> TAKE p \in Party
  <2>1. at[p] = "off"
    BY Zenon DEF Init
  <2>2. QED
    BY Zenon, <1>2, <2>1 DEF Local
<1>8. \A p \in Party : Mine(p) = {<<"home", p>>}
  <2> TAKE p \in Party
  <2>1. at[p] = "off" /\ rotation[p] = NoRotation
    BY Zenon DEF Init
  <2>2. QED
    BY Zenon, <1>2, <2>1 DEF Mine, Hold
<1>9. OwnInv
  BY <1>8 DEF OwnInv
<1>10. row[Offerer].root = row[Responder].root
  BY Zenon, <1>2 DEF Party
<1>11. PeerGenKnown
  BY <1>2, PeerProps DEF PeerGenKnown
<1>12. RestInv
  BY RecoveryAssumption DEF Init, RestInv
<1>13. QED
  BY Zenon, <1>4, <1>6, <1>7, <1>9, <1>10, <1>11, <1>12 DEF RecoveryInv

LEMMA RecoveryStep ==
  ASSUME RecoveryInv, Next
  PROVE  RecoveryInv' /\ Rises
<1>1. CASE relay_restart
  BY Zenon, <1>1, RestartStep
<1>2. ASSUME NEW p \in Party, send_chat(p) \/ flush_deposit(p) \/ idle(p) \/ start_sync(p)
      PROVE  RecoveryInv' /\ Rises
  BY Zenon, <1>2, QuietStep, QueueStep
<1>3. ASSUME NEW p \in Party, Listener(p)
      PROVE  RecoveryInv' /\ Rises
  <2>1. CASE listener_flush(p) \/ subscribe(p) \/ NeedsRepair(p) \/ save_incoming(p) \/ hello_replay(p)
    BY Zenon, <2>1, QuietStep, QueueStep
  <2>2. CASE recover_v1(p) \/ recover_v2(p) \/ probe_leg(p, TRUE, TRUE) \/ probe_done(p)
    BY Zenon, <2>2, FreshStep, LossStep, ProbeStep, ProbedStep
  <2>3. CASE hello_adopt(p, TRUE) \/ initiate_rotation(p, TRUE, TRUE) \/ hello_flush(p)
    BY Zenon, <2>3, AdoptStep, RotateStep, HelloFlushStep
  <2>4. CASE update_v1(p) \/ rotation_finish(p, TRUE) \/ rotation_adopt(p, TRUE)
             \/ rotation_reply(p, TRUE, TRUE)
    BY Zenon, <2>4, UpdateStep, FinishStep, RotationAdoptStep, ReplyStep
  <2>5. QED
    BY Zenon, <1>3, <2>1, <2>2, <2>3, <2>4 DEF Listener
<1>4. ASSUME NEW p \in Party, Misfortune(p)
      PROVE  RecoveryInv' /\ Rises
  <2>1. CASE \/ recover_refused(p) \/ stop_sync(p, FALSE) \/ stop_sync(p, TRUE) \/ kill(p)
             \/ expire(p)
    BY Zenon, <2>1, QuietStep, QueueStep, ExpireStep
  <2>2. CASE hello_adopt(p, FALSE) \/ rotation_adopt(p, FALSE) \/ rotation_finish(p, FALSE)
    BY Zenon, <2>2, AdoptStep, RotationAdoptStep, FinishStep
  <2>3. CASE probe_leg(p, FALSE, FALSE) \/ probe_leg(p, TRUE, FALSE)
    BY Zenon, <2>3, ProbeStep
  <2>4. CASE initiate_rotation(p, FALSE, FALSE) \/ initiate_rotation(p, TRUE, FALSE)
    BY Zenon, <2>4, RotateStep
  <2>5. CASE rotation_reply(p, FALSE, TRUE) \/ rotation_reply(p, TRUE, FALSE)
    BY Zenon, <2>5, ReplyStep
  <2>6. QED
    BY Zenon, <1>4, <2>1, <2>2, <2>3, <2>4, <2>5 DEF Misfortune
<1>5. QED
  BY Zenon, <1>1, <1>2, <1>3, <1>4 DEF Next

LEMMA RecoveryStutter ==
  ASSUME RecoveryInv, UNCHANGED vars
  PROVE  RecoveryInv'
BY Zenon DEF vars, RecoveryInv, TypeInv, OwnInv, Mine, PeerGenKnown


LEMMA RingOp ==
  ASSUME RecoveryInv, RestInv, NEW p \in Party, Incoming(p, "recovery-hello")
  PROVE  /\ mark_hello_seen(p, Frame(p)) \in Seq(Nat \X Nat)
         /\ Len(mark_hello_seen(p, Frame(p))) <= HelloRing
<1>1. Frame(p) \in Post /\ Frame(p).type = "recovery-hello"
  BY Zenon, Reads
<1>2. PICK e \in Nat \X Nat : e = <<Frame(p).generation, Frame(p).nonce>>
  BY Zenon, <1>1 DEF Post
<1>3. PICK q \in Seq(Nat \X Nat) : q = ring[p] /\ Len(q) <= HelloRing
  BY Zenon DEF RestInv
<1>4. mark_hello_seen(p, Frame(p))
        = IF Len(Append(q, e)) > HelloRing THEN Tail(Append(q, e)) ELSE Append(q, e)
  BY Zenon, <1>2, <1>3 DEF mark_hello_seen
<1>5. HelloRing \in Nat
  BY Zenon, RecoveryAssumption
<1>6. Append(q, e) \in Seq(Nat \X Nat) /\ Len(Append(q, e)) = Len(q) + 1 /\ Len(q) \in Nat
  BY <1>3
<1>7. Tail(Append(q, e)) \in Seq(Nat \X Nat) /\ Len(Tail(Append(q, e))) = Len(q)
  <2>1. \A a \in Seq(Nat \X Nat) :
          Len(a) > 0 => Tail(a) \in Seq(Nat \X Nat) /\ Len(Tail(a)) = Len(a) - 1
    OBVIOUS
  <2>2. Len(Append(q, e)) > 0 /\ Len(Append(q, e)) - 1 = Len(q)
    BY <1>6
  <2>3. QED
    BY Zenon, <1>6, <2>1, <2>2
<1>8. QED
  BY <1>3, <1>4, <1>5, <1>6, <1>7

LEMMA RestStep ==
  ASSUME RecoveryInv, RestInv, Next
  PROVE  RestInv'
<1>1. (ring \in [Party -> Seq(Nat \X Nat)] /\ \A p \in Party : Len(ring[p]) <= HelloRing)'
  <2>1. CASE ring' = ring
    BY Zenon, <2>1 DEF RestInv
  <2>2. ASSUME NEW p \in Party, NEW q \in Seq(Nat \X Nat), Len(q) <= HelloRing,
               ring' = [ring EXCEPT ![p] = q]
        PROVE  (ring \in [Party -> Seq(Nat \X Nat)] /\ \A i \in Party : Len(ring[i]) <= HelloRing)'
    <3>1. ring' \in [Party -> Seq(Nat \X Nat)]
          /\ \A i \in Party : ring'[i] = IF i = p THEN q ELSE ring[i]
      BY Zenon, <2>2 DEF RestInv
    <3>2. QED
      BY Zenon, <2>2, <3>1 DEF RestInv
  <2>3. ASSUME NEW p \in Party, NEW r, NewHello(p, r)
        PROVE  (ring \in [Party -> Seq(Nat \X Nat)] /\ \A i \in Party : Len(ring[i]) <= HelloRing)'
    BY Zenon, <2>2, <2>3, RingOp DEF NewHello
  <2>4. ASSUME NEW p \in Party, kill(p)
        PROVE  (ring \in [Party -> Seq(Nat \X Nat)] /\ \A i \in Party : Len(ring[i]) <= HelloRing)'
    <3>1. << >> \in Seq(Nat \X Nat) /\ Len(<< >>) <= HelloRing
      BY RecoveryAssumption
    <3>2. ring' = [ring EXCEPT ![p] = << >>]
      BY Zenon, <2>4 DEF kill
    <3>3. QED
      BY Zenon, <2>2, <3>1, <3>2
  <2>5. ring' = ring \/ \E p \in Party : kill(p) \/ \E r : NewHello(p, r)
    <3>1. CASE relay_restart
      BY Zenon, <3>1 DEF relay_restart, ram
    <3>2. ASSUME NEW p \in Party, send_chat(p) \/ flush_deposit(p) \/ idle(p) \/ start_sync(p)
          PROVE  ring' = ring
      BY Zenon, <3>2 DEF send_chat, flush_deposit, idle, start_sync, ram
    <3>3. ASSUME NEW p \in Party, Listener(p)
          PROVE  ring' = ring \/ \E r : NewHello(p, r)
      BY Zenon, <3>3 DEF Listener, listener_flush, subscribe, recover_v1, NeedsRepair, recover_v2,
         probe_leg, probe_done, save_incoming, hello_replay, hello_adopt, initiate_rotation,
         hello_flush, update_v1, rotation_finish, rotation_adopt, rotation_reply, ram
    <3>4. ASSUME NEW p \in Party, Misfortune(p)
          PROVE  ring' = ring \/ kill(p) \/ \E r : NewHello(p, r)
      BY Zenon, <3>4 DEF Misfortune, recover_refused, hello_adopt, rotation_adopt, probe_leg,
         initiate_rotation, rotation_finish, rotation_reply, expire, stop_sync, ram
    <3>5. QED
      BY Zenon, <3>1, <3>2, <3>3, <3>4 DEF Next
  <2>6. QED
    BY Zenon, <2>1, <2>3, <2>4, <2>5
<1>2. (chat \in [Party -> {"none", "pending", "sent"}])'
  <2>1. chat' = chat \/ \E p \in Party : \/ chat' = [chat EXCEPT ![p] = "pending"]
                                         \/ chat' = [chat EXCEPT ![p] = "sent"]
    <3>1. CASE relay_restart
      BY Zenon, <3>1 DEF relay_restart, disk
    <3>2. ASSUME NEW p \in Party, send_chat(p) \/ flush_deposit(p) \/ idle(p) \/ start_sync(p)
          PROVE  chat' = chat \/ chat' = [chat EXCEPT ![p] = "pending"]
                 \/ chat' = [chat EXCEPT ![p] = "sent"]
      BY Zenon, <3>2 DEF send_chat, flush_deposit, idle, start_sync, disk
    <3>3. ASSUME NEW p \in Party, Listener(p)
          PROVE  chat' = chat \/ chat' = [chat EXCEPT ![p] = "sent"]
      BY Zenon, <3>3 DEF Listener, listener_flush, subscribe, recover_v1, NeedsRepair, recover_v2,
         probe_leg, probe_done, save_incoming, hello_replay, hello_adopt, initiate_rotation,
         hello_flush, update_v1, rotation_finish, rotation_adopt, rotation_reply, disk
    <3>4. ASSUME NEW p \in Party, Misfortune(p)
          PROVE  chat' = chat
      BY Zenon, <3>4 DEF Misfortune, recover_refused, hello_adopt, rotation_adopt, probe_leg,
         initiate_rotation, rotation_finish, rotation_reply, expire, stop_sync, kill, disk
    <3>5. QED
      BY Zenon, <3>1, <3>2, <3>3, <3>4 DEF Next
  <2>2. "pending" \in {"none", "pending", "sent"} /\ "sent" \in {"none", "pending", "sent"}
    BY Zenon
  <2>3. QED
    BY Zenon, <2>1, <2>2 DEF RestInv

<1>3. got' \subseteq Party
  <2>1. got' = got \/ \E p \in Party : save_incoming(p)
    <3>1. CASE relay_restart
      BY Zenon, <3>1 DEF relay_restart, disk
    <3>2. ASSUME NEW p \in Party, send_chat(p) \/ flush_deposit(p) \/ idle(p) \/ start_sync(p)
          PROVE  got' = got
      BY Zenon, <3>2 DEF send_chat, flush_deposit, idle, start_sync, disk
    <3>3. ASSUME NEW p \in Party, Listener(p)
          PROVE  got' = got \/ save_incoming(p)
      BY Zenon, <3>3 DEF Listener, listener_flush, subscribe, recover_v1, NeedsRepair, recover_v2,
         probe_leg, probe_done, hello_replay, hello_adopt, initiate_rotation,
         hello_flush, update_v1, rotation_finish, rotation_adopt, rotation_reply, disk
    <3>4. ASSUME NEW p \in Party, Misfortune(p)
          PROVE  got' = got
      BY Zenon, <3>4 DEF Misfortune, recover_refused, hello_adopt, rotation_adopt, probe_leg,
         initiate_rotation, rotation_finish, rotation_reply, expire, stop_sync, kill, disk
    <3>5. QED
      BY Zenon, <3>1, <3>2, <3>3, <3>4 DEF Next
  <2>2. ASSUME NEW p \in Party, save_incoming(p) PROVE got' \subseteq Party
    <3>1. Frame(p) \in Post /\ Frame(p).type = "chat" /\ got' = got \cup {Frame(p).from}
      BY Zenon, <2>2, Reads DEF save_incoming
    <3>2. Frame(p).from \in Party
      BY Zenon, <3>1 DEF Post
    <3>3. QED
      BY Zenon, <3>1, <3>2 DEF RestInv
  <2>3. QED
    BY Zenon, <2>1, <2>2 DEF RestInv
<1>4. wiped' \subseteq Party
  <2>1. wiped' = wiped \/ \E bs, cs : \/ wiped' = wiped \cup Queued(bs)
                                      \/ wiped' = wiped \cup (Queued(bs) \ Queued(cs))
    <3>1. CASE relay_restart
      BY Zenon, <3>1 DEF relay_restart
    <3>2. ASSUME NEW p \in Party, send_chat(p) \/ flush_deposit(p) \/ idle(p) \/ start_sync(p)
          PROVE  wiped' = wiped
      BY Zenon, <3>2 DEF send_chat, flush_deposit, idle, start_sync, env
    <3>3. ASSUME NEW p \in Party, Listener(p)
          PROVE  wiped' = wiped
      BY Zenon, <3>3 DEF Listener, listener_flush, subscribe, recover_v1, NeedsRepair, recover_v2,
         probe_leg, probe_done, save_incoming, hello_replay, hello_adopt, initiate_rotation,
         hello_flush, update_v1, rotation_finish, rotation_adopt, rotation_reply, env
    <3>4. ASSUME NEW p \in Party, Misfortune(p)
          PROVE  wiped' = wiped \/ wiped' = wiped \cup (Queued(boxes) \ Queued(boxes'))
      BY Zenon, <3>4 DEF Misfortune, recover_refused, hello_adopt, rotation_adopt, probe_leg,
         initiate_rotation, rotation_finish, rotation_reply, expire, stop_sync, kill
    <3>5. QED
      BY Zenon, <3>1, <3>2, <3>3, <3>4 DEF Next
  <2>2. \A bs : Queued(bs) \subseteq Party
    BY Zenon DEF Queued
  <2>3. QED
    BY Zenon, <2>1, <2>2 DEF RestInv
<1>5. QED
  BY Zenon, <1>1, <1>2, <1>3, <1>4 DEF RestInv

LEMMA RecoveryHolds == Spec => [](RecoveryInv /\ RestInv)
<1>1. Init => RecoveryInv /\ RestInv
  BY Zenon, RecoveryStarts
<1>2. RecoveryInv /\ RestInv /\ [Next]_vars => (RecoveryInv /\ RestInv)'
  <2> SUFFICES ASSUME RecoveryInv, RestInv, [Next]_vars PROVE (RecoveryInv /\ RestInv)'
    BY Zenon
  <2>1. CASE Next
    BY Zenon, <2>1, RecoveryStep, RestStep
  <2>2. CASE UNCHANGED vars
    <3>1. RestInv'
      BY Zenon, <2>2 DEF vars, RestInv
    <3>2. QED
      BY Zenon, <2>2, <3>1, RecoveryStutter
  <2>3. QED
    BY Zenon, <2>1, <2>2
<1>3. QED
  BY <1>1, <1>2, PTL DEF Spec

\* Whatever is lost, cancelled or repeated, every variable of a recovering
\* conversation keeps its type, and the ring of seen hellos (mark_hello_seen)
\* never holds more than its size.
THEOREM RecoveryTypeCorrect == Spec => []TypeOK
<1>1. RecoveryInv /\ RestInv => TypeOK
  <2> SUFFICES ASSUME RecoveryInv, RestInv PROVE TypeOK
    BY Zenon
  <2>1. \A p \in Party : row[p].own_gen \in Nat /\ row[p].peer_gen \in Nat
    BY Zenon DEF RecoveryInv, TypeInv, Row
  <2>2. QED
    BY Zenon, <2>1 DEF RecoveryInv, TypeInv, Pc, RestInv, TypeOK
<1>2. QED
  BY <1>1, RecoveryHolds, PTL

\* A side never believes its peer more than one generation past what the peer
\* has stored, through losses, cancelled attempts, killed processes and hellos
\* that arrive late or twice (enter_recovery_gen, converge).
THEOREM PeerGenCorrect == Spec => []PeerGenKnown
<1>1. RecoveryInv => PeerGenKnown
  BY Zenon DEF RecoveryInv
<1>2. QED
  BY <1>1, RecoveryHolds, PTL

\* No step of either side, the relay or the operating system takes a stored
\* generation back (set_recovery_generations).
THEOREM GenerationsCorrect == Spec => GenerationsRise
<1>1. RecoveryInv /\ [Next]_vars => [Rises]_vars
  BY Zenon, RecoveryStep
<1>2. [Rises]_vars => [\A p \in Party :
        row'[p].own_gen >= row[p].own_gen /\ row'[p].peer_gen >= row[p].peer_gen]_vars
  BY Zenon DEF Rises
<1>3. QED
  BY <1>1, <1>2, RecoveryHolds, PTL DEF Spec, GenerationsRise
=============================================================================
