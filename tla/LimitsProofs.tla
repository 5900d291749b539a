---------------------------- MODULE LimitsProofs ----------------------------
(***************************************************************************)
(* The relay's rate limits: proofs for any sources, limits and table size. *)
(***************************************************************************)
EXTENDS Limits, FiniteSetTheorems, TLAPS

-----------------------------------------------------------------------------
(* Minutes *)

\* The number of a minute is a natural number.
LEMMA MinuteType ==
  ASSUME NEW a \in Nat
  PROVE  a \div Minute \in Nat
BY LimitsAssumption

\* Two instants a minute apart, or more, are in different minutes.
LEMMA MinutesApart ==
  ASSUME NEW a \in Nat, NEW b \in Nat, b - a >= Minute
  PROVE  b \div Minute # a \div Minute
<1> DEFINE q == a \div Minute
           r == b \div Minute
<1>1. Minute \in Nat \ {0}
  BY Zenon, LimitsAssumption
<1>2. q \in Nat /\ r \in Nat
  BY Zenon, MinuteType
<1>3. Minute * q <= a /\ b < Minute * r + Minute
  BY <1>1
<1>4. QED
  BY <1>1, <1>2, <1>3

-----------------------------------------------------------------------------
(* One entry of a limiter and the admissions counted for it *)

Entry(C)  == [minute : Nat, counts : [C -> Nat], touched : Nat]

\* What is known at `now' of an entry w and of the admissions g since its key was last
\* forgotten: the entry counts every one of them that fell in this minute.
Sound(w, g, C, now) ==
  /\ w = Absent \/ w \in Entry(C)
  /\ w # Absent => /\ w.touched <= now /\ w.minute = w.touched \div Minute
                   /\ \A c \in C : w.counts[c] <= Limit[c]
  /\ g \in [C -> Nat]
  /\ \A c \in C : IF w # Absent /\ w.minute = now \div Minute
                  THEN g[c] <= w.counts[c] ELSE g[c] = 0

\* An entry and no entry are told apart by the minute.
LEMMA EntryNotAbsent ==
  ASSUME NEW C, NEW w \in Entry(C)
  PROVE  w # Absent
<1>1. w.minute \in Nat /\ Absent.minute = -1
  BY Zenon DEF Entry, Absent
<1>2. QED
  BY <1>1

\* No admission exceeds the limit while the entry is sound.
LEMMA SoundHolds ==
  ASSUME NEW C, C \subseteq SourceClass \cup BoxClass, NEW w, NEW g, Sound(w, g, C, clock), NEW c \in C
  PROVE  g[c] <= Limit[c]
<1>1. Limit[c] \in Nat /\ g[c] \in Nat
  BY Zenon, LimitsAssumption DEF Sound
<1>2. CASE w # Absent /\ w.minute = minute
  <2>1. w.counts[c] \in Nat
    BY Zenon, <1>2 DEF Sound, Entry
  <2>2. QED
    BY <1>1, <1>2, <2>1 DEF Sound
<1>3. CASE ~(w # Absent /\ w.minute = minute)
  BY <1>1, <1>3 DEF Sound, minute
<1>4. QED
  BY Zenon, <1>2, <1>3

\* Dropping an entry that has been idle long enough forgets no admission of
\* the current minute.
LEMMA DropSound ==
  ASSUME clock \in Nat, NEW C, NEW w, NEW g, Sound(w, g, C, clock), NEW now \in Nat, now <= clock,
         w # Absent, now - w.touched >= MaxIdle
  PROVE  Sound(Absent, g, C, clock) /\ clock - w.touched >= MaxIdle
<1>1. w.touched \in Nat
  BY Zenon DEF Sound, Entry
<1>2. clock - w.touched >= MaxIdle /\ clock - w.touched >= Minute
  BY <1>1, LimitsAssumption
<1>3. w.minute # minute
  BY Zenon, <1>1, <1>2, MinutesApart DEF Sound, minute
<1>4. QED
  BY Zenon, <1>2, <1>3 DEF Sound, minute

\* Window::admit keeps the entry sound, and counts what it admits.
LEMMA TouchSound ==
  ASSUME clock \in Nat, NEW C, C \subseteq SourceClass \cup BoxClass, NEW c \in C,
         NEW w, NEW g, Sound(w, g, C, clock)
  PROVE  /\ Touched(w, c, C) \in Entry(C)
         /\ Sound(Touched(w, c, C), IF Room(w, c, C) THEN [g EXCEPT ![c] = @ + 1] ELSE g, C, clock)
<1> DEFINE cur == Current(w, C)
<1>1. Limit \in [SourceClass \cup BoxClass -> Nat] /\ \A k \in C : Limit[k] \in Nat
  BY Zenon, LimitsAssumption
<1>2. minute \in Nat
  BY Zenon, MinuteType DEF minute
<1>3. /\ cur \in Entry(C) /\ cur.minute = minute
      /\ \A k \in C : cur.counts[k] <= Limit[k] /\ g[k] <= cur.counts[k]
  <2>1. CASE w.minute = minute
    <3>1. w # Absent
      BY <1>2, <2>1 DEF Absent
    <3>2. QED
      BY Zenon, <2>1, <3>1 DEF Current, Sound, minute
  <2>2. CASE w.minute # minute
    <3>1. cur = [minute |-> minute, counts |-> [k \in C |-> 0], touched |-> clock]
      BY Zenon, <2>2 DEF Current, fresh, NoCount
    <3>2. \A k \in C : g[k] = 0
      BY Zenon, <2>2 DEF Sound, minute
    <3>3. QED
      BY <1>1, <1>2, <3>1, <3>2 DEF Entry
  <2>3. QED
    BY Zenon, <2>1, <2>2
<1> DEFINE new == IF cur.counts[c] < Limit[c] THEN cur.counts[c] + 1 ELSE cur.counts[c]
           t   == Touched(w, c, C)
           h   == IF Room(w, c, C) THEN [g EXCEPT ![c] = @ + 1] ELSE g
<1>4. t = [cur EXCEPT !.touched = clock, !.counts[c] = new]
  BY Zenon DEF Touched, Room
<1>5. /\ cur.counts \in [C -> Nat] /\ new \in Nat /\ new <= Limit[c] /\ new >= cur.counts[c]
  BY <1>1, <1>3 DEF Entry
<1>6. g \in [C -> Nat] /\ h \in [C -> Nat]
  BY DEF Sound
<1>7. /\ h[c] <= new
      /\ \A k \in C : k # c => h[k] = g[k]
  BY <1>3, <1>5, <1>6 DEF Room
<1> HIDE DEF cur, new, t, h
<1>8. /\ t \in Entry(C) /\ t.minute = minute /\ t.touched = clock
      /\ t.counts = [cur.counts EXCEPT ![c] = new]
  BY Zenon, <1>3, <1>4, <1>5 DEF Entry
<1>9. \A k \in C : t.counts[k] <= Limit[k] /\ h[k] <= t.counts[k]
  BY Zenon, <1>3, <1>5, <1>7, <1>8
<1>10. t # Absent
  BY Zenon, <1>8, EntryNotAbsent
<1>11. Sound(t, h, C, clock)
  BY <1>6, <1>8, <1>9, <1>10 DEF Sound, minute
<1>12. QED
  BY Zenon, <1>8, <1>11 DEF t, h

-----------------------------------------------------------------------------
(* The rates *)

RateInv ==
  /\ clock \in Nat
  /\ pruning \in [map : {"none", "src", "box"}, now : Nat] /\ pruning.now <= clock
  /\ DOMAIN src = Source /\ DOMAIN box = Mailbox
  /\ src = [s \in Source |-> src[s]] /\ box = [b \in Mailbox |-> box[b]]
  /\ granted = [s \in Source |-> granted[s]] /\ grantedBox = [b \in Mailbox |-> grantedBox[b]]
  /\ \A s \in Source : Sound(src[s], granted[s], SourceClass, clock)
  /\ \A b \in Mailbox : Sound(box[b], grantedBox[b], BoxClass, clock)

\* An entry dropped by a step has been idle for the idle time.
Idled(m, n, k) == m[k] # Absent /\ n[k] = Absent => clock - m[k].touched >= MaxIdle

\* Pruning with an instant read earlier keeps every entry sound.
LEMMA KeptSound ==
  ASSUME clock \in Nat, NEW C, NEW m, NEW k \in DOMAIN m, NEW g, Sound(m[k], g, C, clock),
         NEW now \in Nat, now <= clock
  PROVE  /\ Sound(Kept(m, now)[k], g, C, clock) /\ Idled(m, Kept(m, now), k)
         /\ m[k] = Absent => Kept(m, now)[k] = Absent
<1>1. Kept(m, now)[k] = IF m[k] # Absent /\ now - m[k].touched >= MaxIdle THEN Absent ELSE m[k]
  BY Zenon DEF Kept
<1>2. CASE m[k] # Absent /\ now - m[k].touched >= MaxIdle
  BY Zenon, <1>1, <1>2, DropSound DEF Idled
<1>3. CASE ~(m[k] # Absent /\ now - m[k].touched >= MaxIdle)
  BY Zenon, <1>1, <1>3 DEF Idled
<1>4. QED
  BY Zenon, <1>2, <1>3

\* What MakeRoom leaves is sound, and it drops only idle entries.
LEMMA RoomSound ==
  ASSUME RateInv, NEW s \in Source
  PROVE  /\ MakeRoom(s) = [x \in Source |-> MakeRoom(s)[x]]
         /\ \A x \in Source : /\ Sound(MakeRoom(s)[x], granted[x], SourceClass, clock)
                              /\ Idled(src, MakeRoom(s), x)
                              /\ src[x] = Absent => MakeRoom(s)[x] = Absent
<1>1. CASE MakeRoom(s) = src
  BY Zenon, <1>1 DEF RateInv, Idled
<1>2. CASE MakeRoom(s) = Kept(src, clock)
  <2>1. /\ clock \in Nat /\ clock <= clock /\ DOMAIN src = Source
        /\ \A x \in Source : Sound(src[x], granted[x], SourceClass, clock)
    BY DEF RateInv
  <2>2. Kept(src, clock) = [x \in Source |-> Kept(src, clock)[x]]
    BY Zenon, <2>1 DEF Kept
  <2>3. ASSUME NEW x \in Source
        PROVE  /\ Sound(Kept(src, clock)[x], granted[x], SourceClass, clock)
               /\ Idled(src, Kept(src, clock), x)
               /\ src[x] = Absent => Kept(src, clock)[x] = Absent
    BY <2>1, KeptSound
  <2>4. QED
    BY Zenon, <1>2, <2>2, <2>3
<1>3. QED
  BY Zenon, <1>1, <1>2 DEF MakeRoom

\* SourceLimiter::admit, whatever its answer.
LEMMA AdmitSourceSound ==
  ASSUME RateInv, NEW s \in Source, NEW c \in SourceClass, admit_source(s, c)
  PROVE  /\ src' = [x \in Source |-> src'[x]] /\ granted' = [x \in Source |-> granted'[x]]
         /\ \A x \in Source : Sound(src'[x], granted'[x], SourceClass, clock) /\ Idled(src, src', x)
<1> DEFINE m == MakeRoom(s)
           e == Touched(m[s], c, SourceClass)
           g == IF Room(m[s], c, SourceClass) THEN [granted[s] EXCEPT ![c] = @ + 1] ELSE granted[s]
<1>1. /\ m = [x \in Source |-> m[x]]
      /\ \A x \in Source : Sound(m[x], granted[x], SourceClass, clock) /\ Idled(src, m, x)
  BY Zenon, RoomSound
<1>2. Limit[c] \in Nat
  BY Zenon, LimitsAssumption
<1>3. granted = [x \in Source |-> granted[x]] /\ src = [x \in Source |-> src[x]] /\ clock \in Nat
  BY Zenon DEF RateInv
<1>4. e # Absent /\ Sound(e, g, SourceClass, clock)
  <2>1. e \in Entry(SourceClass) /\ Sound(e, g, SourceClass, clock)
    BY Zenon, <1>1, <1>3, TouchSound
  <2>2. QED
    BY Zenon, <2>1, EntryNotAbsent
<1>5. CASE Limit[c] = 0
  <2>1. src' = src /\ granted' = granted
    BY <1>5 DEF admit_source, AdmitsSource
  <2>2. QED
    BY Zenon, <1>3, <2>1 DEF RateInv, Idled
<1>6. CASE Limit[c] # 0 /\ Shed(s)
  <2>1. src' = m /\ granted' = granted
    BY Zenon, <1>6 DEF admit_source, AdmitsSource
  <2>2. QED
    BY Zenon, <1>1, <1>3, <2>1
<1>7. CASE Limit[c] # 0 /\ ~Shed(s)
  <2>1. src' = [m EXCEPT ![s] = e]
    BY Zenon, <1>7 DEF admit_source
  <2>2. granted' = [granted EXCEPT ![s] = g]
    <3>1. CASE Room(m[s], c, SourceClass)
      <4>1. AdmitsSource(s, c)
        BY <1>2, <1>7, <3>1 DEF AdmitsSource
      <4>2. QED
        BY Zenon, <3>1, <4>1 DEF admit_source
    <3>2. CASE ~Room(m[s], c, SourceClass)
      <4>1. ~AdmitsSource(s, c)
        BY Zenon, <3>2 DEF AdmitsSource
      <4>2. QED
        BY Zenon, <1>3, <3>2, <4>1 DEF admit_source
    <3>3. QED
      BY Zenon, <3>1, <3>2
  <2> HIDE DEF m, e, g
  <2>3. src'[s] = e /\ granted'[s] = g
    BY Zenon, <1>1, <1>3, <2>1, <2>2
  <2>4. \A x \in Source : x # s => src'[x] = m[x] /\ granted'[x] = granted[x]
    BY Zenon, <1>1, <1>3, <2>1, <2>2
  <2>5. \A x \in Source : Sound(src'[x], granted'[x], SourceClass, clock) /\ Idled(src, src', x)
    BY Zenon, <1>1, <1>4, <2>3, <2>4 DEF Idled
  <2>6. QED
    BY Zenon, <1>1, <1>3, <2>1, <2>2, <2>5
<1>8. QED
  BY Zenon, <1>5, <1>6, <1>7

\* BoxLimiter::admit, whatever its answer.
LEMMA AdmitBoxSound ==
  ASSUME RateInv, NEW b \in Mailbox, NEW c \in BoxClass, admit_box(b, c)
  PROVE  /\ box' = [x \in Mailbox |-> box'[x]] /\ grantedBox' = [x \in Mailbox |-> grantedBox'[x]]
         /\ \A x \in Mailbox : Sound(box'[x], grantedBox'[x], BoxClass, clock)
<1> DEFINE e == Touched(box[b], c, BoxClass)
           g == IF Room(box[b], c, BoxClass) THEN [grantedBox[b] EXCEPT ![c] = @ + 1]
                ELSE grantedBox[b]
<1>1. /\ grantedBox = [x \in Mailbox |-> grantedBox[x]] /\ box = [x \in Mailbox |-> box[x]]
      /\ clock \in Nat /\ \A x \in Mailbox : Sound(box[x], grantedBox[x], BoxClass, clock)
      /\ Limit[c] \in Nat
  BY Zenon, LimitsAssumption DEF RateInv
<1>2. Sound(e, g, BoxClass, clock)
  BY Zenon, <1>1, TouchSound
<1>3. CASE Limit[c] = 0
  BY <1>1, <1>3 DEF admit_box
<1>4. CASE Limit[c] # 0
  <2>1. box' = [box EXCEPT ![b] = e]
    BY Zenon, <1>4 DEF admit_box
  <2>2. grantedBox' = [grantedBox EXCEPT ![b] = g]
    <3>1. CASE Room(box[b], c, BoxClass)
      BY <1>1, <1>4, <3>1 DEF admit_box
    <3>2. CASE ~Room(box[b], c, BoxClass)
      BY Zenon, <1>1, <3>2 DEF admit_box
    <3>3. QED
      BY Zenon, <3>1, <3>2
  <2> HIDE DEF e, g
  <2>3. QED
    BY Zenon, <1>1, <1>2, <2>1, <2>2
<1>5. QED
  BY Zenon, <1>3, <1>4

\* A step of the clock opens a new minute with nothing admitted, or none.
LEMMA TickSound ==
  ASSUME NEW t \in Nat, NEW C, NEW w, NEW g, Sound(w, g, C, t), NEW h,
         h = IF (t + 1) \div Minute # t \div Minute THEN NoCount(C) ELSE g
  PROVE  Sound(w, h, C, t + 1)
<1>1. w # Absent => w.touched <= t + 1
  BY DEF Sound, Entry
<1>2. CASE (t + 1) \div Minute # t \div Minute
  <2>1. h = [c \in C |-> 0]
    BY Zenon, <1>2 DEF NoCount
  <2>2. QED
    BY <1>1, <2>1 DEF Sound, Entry
<1>3. CASE (t + 1) \div Minute = t \div Minute
  BY Zenon, <1>1, <1>3 DEF Sound
<1>4. QED
  BY Zenon, <1>2, <1>3

\* Every step keeps all entries sound and drops a source only when it is idle.
LEMMA RateStep ==
  RateInv /\ [Next]_vars => RateInv' /\ \A s \in Source : Idled(src, src', s)
<1> SUFFICES ASSUME RateInv, [Next]_vars
             PROVE  RateInv' /\ \A s \in Source : Idled(src, src', s)
  BY Zenon
<1> DEFINE Goal == RateInv' /\ \A s \in Source : Idled(src, src', s)
<1>1. ASSUME UNCHANGED <<src, box, pruning, clock, granted, grantedBox>> PROVE Goal
  BY <1>1 DEF RateInv, Idled
<1>2. ASSUME Tick PROVE Goal
  <2>1. clock' = clock + 1 /\ UNCHANGED <<src, box, pruning>>
    BY Zenon, <1>2 DEF Tick
  <2>2. /\ granted' = [s \in Source |-> granted'[s]]
        /\ \A s \in Source : granted'[s] = IF clock' \div Minute # minute
                                           THEN NoCount(SourceClass) ELSE granted[s]
    BY Zenon, <1>2 DEF Tick, RateInv
  <2>3. /\ grantedBox' = [b \in Mailbox |-> grantedBox'[b]]
        /\ \A b \in Mailbox : grantedBox'[b] = IF clock' \div Minute # minute
                                               THEN NoCount(BoxClass) ELSE grantedBox[b]
    BY <1>2 DEF Tick, RateInv
  <2>4. ASSUME NEW s \in Source PROVE Sound(src'[s], granted'[s], SourceClass, clock')
    <3>1. clock \in Nat /\ Sound(src[s], granted[s], SourceClass, clock)
      BY Zenon DEF RateInv
    <3>2. QED
      BY Zenon, <2>1, <2>2, <3>1, TickSound DEF minute
  <2>5. ASSUME NEW b \in Mailbox PROVE Sound(box'[b], grantedBox'[b], BoxClass, clock')
    <3>1. clock \in Nat /\ Sound(box[b], grantedBox[b], BoxClass, clock)
      BY Zenon DEF RateInv
    <3>2. QED
      BY Zenon, <2>1, <2>3, <3>1, TickSound DEF minute
  <2>6. RateInv'
    BY <2>1, <2>2, <2>3, <2>4, <2>5 DEF RateInv
  <2>7. QED
    BY Zenon, <2>1, <2>6 DEF Idled
<1>3. ASSUME NEW s \in Source, NEW c \in SourceClass, NEW b \in Mailbox, ask_source(s, c, b)
      PROVE  Goal
  <2>1. admit_source(s, c) /\ UNCHANGED <<box, pruning, clock, grantedBox>>
    BY Zenon, <1>3 DEF ask_source
  <2>2. /\ src' = [x \in Source |-> src'[x]] /\ granted' = [x \in Source |-> granted'[x]]
        /\ \A x \in Source : Sound(src'[x], granted'[x], SourceClass, clock) /\ Idled(src, src', x)
    BY Zenon, <2>1, AdmitSourceSound
  <2>3. QED
    BY SMTT(30), <2>1, <2>2 DEF RateInv
<1>4. ASSUME NEW b \in Mailbox, deposit(b) \/ admit_ws(b) PROVE Goal
  <2>1. UNCHANGED <<src, pruning, clock, granted>>
    BY Zenon, <1>4 DEF deposit, admit_ws
  <2>2. UNCHANGED <<box, grantedBox>> \/ \E c \in BoxClass : admit_box(b, c)
    BY Zenon, <1>4 DEF deposit, admit_ws, BoxClass
  <2>3. CASE UNCHANGED <<box, grantedBox>>
    BY Zenon, <1>1, <2>1, <2>3
  <2>4. CASE \E c \in BoxClass : admit_box(b, c)
    <3>1. /\ box' = [x \in Mailbox |-> box'[x]]
          /\ grantedBox' = [x \in Mailbox |-> grantedBox'[x]]
          /\ \A x \in Mailbox : Sound(box'[x], grantedBox'[x], BoxClass, clock)
      BY Zenon, <2>4, AdmitBoxSound
    <3>2. QED
      BY <2>1, <3>1 DEF RateInv, Idled
  <2>5. QED
    BY Zenon, <2>2, <2>3, <2>4
<1>5. ASSUME NEW b \in Mailbox, forget(b) PROVE Goal
  <2>1. /\ UNCHANGED <<src, pruning, clock, granted>>
        /\ box' = [box EXCEPT ![b] = Absent]
        /\ grantedBox' = [grantedBox EXCEPT ![b] = NoCount(BoxClass)]
    BY Zenon, <1>5 DEF forget
  <2>2. Sound(Absent, NoCount(BoxClass), BoxClass, clock)
    BY Zenon DEF Sound, NoCount
  <2>3. /\ box' = [x \in Mailbox |-> box'[x]] /\ grantedBox' = [x \in Mailbox |-> grantedBox'[x]]
        /\ \A x \in Mailbox : Sound(box'[x], grantedBox'[x], BoxClass, clock)
    BY ZenonT(30), <2>1, <2>2 DEF RateInv
  <2>4. QED
    BY <2>1, <2>3 DEF RateInv, Idled
<1>6. ASSUME sweep PROVE Goal
  <2>1. UNCHANGED <<src, box, clock, granted, grantedBox>> /\ pruning' = [map |-> "src", now |-> clock]
    BY Zenon, <1>6 DEF sweep
  <2>2. QED
    BY <2>1 DEF RateInv, Idled
<1>7. ASSUME prune_src PROVE Goal
  <2>1. /\ UNCHANGED <<box, clock, granted, grantedBox>> /\ src' = Kept(src, pruning.now)
        /\ pruning' = [pruning EXCEPT !.map = "box"]
    BY Zenon, <1>7 DEF prune_src
  <2>2. /\ src' = [x \in Source |-> src'[x]]
        /\ \A x \in Source : Sound(src'[x], granted[x], SourceClass, clock) /\ Idled(src, src', x)
    <3>1. /\ clock \in Nat /\ pruning.now \in Nat /\ pruning.now <= clock /\ DOMAIN src = Source
          /\ \A x \in Source : Sound(src[x], granted[x], SourceClass, clock)
      BY Zenon DEF RateInv
    <3>2. src' = [x \in Source |-> src'[x]]
      BY Zenon, <2>1, <3>1 DEF Kept
    <3>3. ASSUME NEW x \in Source
          PROVE  Sound(src'[x], granted[x], SourceClass, clock) /\ Idled(src, src', x)
      BY Zenon, <2>1, <3>1, KeptSound
    <3>4. QED
      BY Zenon, <3>2, <3>3
  <2>3. QED
    BY <2>1, <2>2 DEF RateInv
<1>8. ASSUME prune_box PROVE Goal
  <2>1. /\ UNCHANGED <<src, clock, granted, grantedBox>> /\ box' = Kept(box, pruning.now)
        /\ pruning' = [map |-> "none", now |-> 0]
    BY Zenon, <1>8 DEF prune_box
  <2>2. /\ box' = [x \in Mailbox |-> box'[x]]
        /\ \A x \in Mailbox : Sound(box'[x], grantedBox[x], BoxClass, clock)
    <3>1. /\ clock \in Nat /\ pruning.now \in Nat /\ pruning.now <= clock /\ DOMAIN box = Mailbox
          /\ \A x \in Mailbox : Sound(box[x], grantedBox[x], BoxClass, clock)
      BY Zenon DEF RateInv
    <3>2. box' = [x \in Mailbox |-> box'[x]]
      BY Zenon, <2>1, <3>1 DEF Kept
    <3>3. ASSUME NEW x \in Mailbox
          PROVE  Sound(box'[x], grantedBox[x], BoxClass, clock)
      BY Zenon, <2>1, <3>1, KeptSound
    <3>4. QED
      BY Zenon, <3>2, <3>3
  <2>3. QED
    BY <2>1, <2>2 DEF RateInv, Idled
<1>9. ASSUME NEW b \in Mailbox, create_mailbox(b) \/ put_mailbox(b) \/ subscribe(b) \/ delete_mailbox(b)
      PROVE  Goal
  BY Zenon, <1>1, <1>9 DEF create_mailbox, put_mailbox, subscribe, delete_mailbox
<1>10. ASSUME UNCHANGED vars PROVE Goal
  BY Zenon, <1>1, <1>10 DEF vars
<1>11. QED
  BY Zenon, <1>2, <1>3, <1>4, <1>5, <1>6, <1>7, <1>8, <1>9, <1>10 DEF Next

\* The initial state: nobody has asked for anything.
LEMMA RateInit == Init => RateInv
<1> SUFFICES ASSUME Init PROVE RateInv
  BY Zenon
<1>1. \A C : Sound(Absent, NoCount(C), C, 0)
  BY Zenon DEF Sound, NoCount
<1>2. QED
  BY <1>1 DEF Init, RateInv

\* Whatever is evicted, pruned with an old reading of the clock or forgotten,
\* no source and no mailbox is let through more often than its limit in any
\* minute.
THEOREM RateCorrect == Spec => []RateHeld
<1>1. RateInv => RateHeld
  <2> SUFFICES ASSUME RateInv PROVE RateHeld
    BY Zenon
  <2>1. ASSUME NEW s \in Source, NEW c \in SourceClass PROVE granted[s][c] <= Limit[c]
    BY Zenon, SoundHolds DEF RateInv
  <2>2. ASSUME NEW b \in Mailbox, NEW c \in BoxClass PROVE grantedBox[b][c] <= Limit[c]
    BY Zenon, SoundHolds DEF RateInv
  <2>3. QED
    BY Zenon, <2>1, <2>2 DEF RateHeld
<1>2. QED
  BY <1>1, RateInit, RateStep, PTL DEF Spec

\* No newcomer and no sweep evicts a source that has been active within the
\* idle time.
THEOREM ActiveCorrect == Spec => ActiveKept
<1>1. RateInv /\ [Next]_vars =>
        [\A s \in Source :
           src[s] # Absent /\ src'[s] = Absent => clock - src[s].touched >= MaxIdle]_vars
  BY Zenon, RateStep DEF Idled
<1>2. QED
  BY <1>1, RateInit, RateStep, PTL DEF Spec, ActiveKept

-----------------------------------------------------------------------------
(* The size of the table of sources *)

Fits(S) == IsFiniteSet(S) /\ Cardinality(S) <= MaxSources

\* A part of what fits, fits.
LEMMA FitsSubset ==
  ASSUME NEW S, Fits(S), NEW T, T \subseteq S
  PROVE  Fits(T)
<1>1. IsFiniteSet(T) /\ Cardinality(T) <= Cardinality(S)
  BY Zenon, FS_Subset DEF Fits
<1>2. Cardinality(T) \in Nat /\ Cardinality(S) \in Nat /\ MaxSources \in Nat
  BY Zenon, <1>1, FS_CardinalityType, LimitsAssumption DEF Fits
<1>3. QED
  BY <1>1, <1>2 DEF Fits

\* SourceLimiter::admit makes an entry only where there is room for it.
LEMMA AdmitFits ==
  ASSUME RateInv, Fits(Tracked(src)), NEW s \in Source, NEW c \in SourceClass, admit_source(s, c)
  PROVE  Fits(Tracked(src'))
<1> DEFINE m == MakeRoom(s)
<1>1. /\ m = [x \in Source |-> m[x]] /\ src = [x \in Source |-> src[x]]
      /\ \A x \in Source : src[x] = Absent => m[x] = Absent
  BY Zenon, RoomSound DEF RateInv
<1>2. Tracked(m) \subseteq Tracked(src)
  BY Zenon, <1>1 DEF Tracked
<1>3. Fits(Tracked(m))
  BY Zenon, <1>2, FitsSubset
<1>4. CASE src' = src \/ src' = m
  BY Zenon, <1>3, <1>4
<1>5. CASE ~(src' = src \/ src' = m)
  <2>1. ~Shed(s) /\ src' = [m EXCEPT ![s] = Touched(@, c, SourceClass)]
    BY Zenon, <1>5 DEF admit_source
  <2>2. Tracked(src') \subseteq Tracked(m) \cup {s}
    BY Zenon, <1>1, <2>1 DEF Tracked
  <2>3. CASE src[s] # Absent
    <3>1. m = src
      BY Zenon, <2>3 DEF MakeRoom
    <3>2. Tracked(src') \subseteq Tracked(m)
      BY Zenon, <1>1, <2>2, <2>3, <3>1 DEF Tracked
    <3>3. QED
      BY Zenon, <1>3, <3>2, FitsSubset
  <2>4. CASE src[s] = Absent
    <3>1. IsFiniteSet(Tracked(m)) /\ Cardinality(Tracked(m)) \in Nat /\ MaxSources \in Nat
      BY Zenon, <1>3, FS_CardinalityType, LimitsAssumption DEF Fits
    <3>2. Cardinality(Tracked(m)) < MaxSources
      BY <2>1, <2>4, <3>1 DEF Shed
    <3>3. s \notin Tracked(m)
      BY Zenon, <1>1, <2>4 DEF Tracked
    <3>4. /\ IsFiniteSet(Tracked(m) \cup {s})
          /\ Cardinality(Tracked(m) \cup {s}) = Cardinality(Tracked(m)) + 1
      BY Zenon, <3>1, <3>3, FS_AddElement
    <3>5. Fits(Tracked(m) \cup {s})
      BY <3>1, <3>2, <3>4 DEF Fits
    <3>6. QED
      BY Zenon, <2>2, <3>5, FitsSubset
  <2>5. QED
    BY Zenon, <2>3, <2>4
<1>6. QED
  BY Zenon, <1>4, <1>5

\* The table of sources never outgrows its cap.
THEOREM SourcesCorrect == Spec => []SourcesBounded
<1> DEFINE Inv == RateInv /\ Fits(Tracked(src))
<1>1. Init => Inv
  <2> SUFFICES ASSUME Init PROVE Fits(Tracked(src))
    BY Zenon, RateInit
  <2>1. Tracked(src) = {}
    BY Zenon DEF Init, Tracked
  <2>2. QED
    BY <2>1, FS_EmptySet, LimitsAssumption DEF Fits
<1>2. Inv /\ [Next]_vars => Inv'
  <2> SUFFICES ASSUME Inv, [Next]_vars PROVE Fits(Tracked(src))'
    BY Zenon, RateStep
  <2>1. ASSUME NEW s \in Source, NEW c \in SourceClass, NEW b \in Mailbox, ask_source(s, c, b)
        PROVE  Fits(Tracked(src'))
    BY Zenon, <2>1, AdmitFits DEF ask_source
  <2>2. ASSUME prune_src PROVE Fits(Tracked(src'))
    <3>1. Tracked(src') \subseteq Tracked(src)
      BY Zenon, <2>2 DEF prune_src, Kept, Tracked
    <3>2. QED
      BY Zenon, <3>1, FitsSubset
  <2>3. ASSUME UNCHANGED src PROVE Fits(Tracked(src'))
    BY Zenon, <2>3
  <2>4. ASSUME NEW b \in Mailbox,
               \/ create_mailbox(b) \/ put_mailbox(b) \/ deposit(b) \/ subscribe(b)
               \/ admit_ws(b) \/ delete_mailbox(b) \/ forget(b)
        PROVE  UNCHANGED src
    BY Zenon, <2>4 DEF create_mailbox, put_mailbox, deposit, subscribe, admit_ws,
       delete_mailbox, forget
  <2>5. CASE Tick \/ sweep \/ prune_box \/ UNCHANGED vars
    BY Zenon, <2>3, <2>5 DEF Tick, sweep, prune_box, vars
  <2>6. Fits(Tracked(src'))
    BY Zenon, <2>1, <2>2, <2>3, <2>4, <2>5 DEF Next
  <2>7. QED
    BY Zenon, <2>6
<1>3. Inv => SourcesBounded
  BY Zenon DEF Fits, SourcesBounded
<1> HIDE DEF Inv
<1>4. QED
  BY <1>1, <1>2, <1>3, PTL DEF Spec
=============================================================================
