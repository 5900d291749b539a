----------------------------- MODULE SumsProofs -----------------------------
(***************************************************************************)
(* What Total and Without of module Sums compute, for every sequence.      *)
(*                                                                         *)
(* Induction is by least counterexample: a set of naturals that is not     *)
(* empty has a least member (LeastNat), so a property that fails somewhere *)
(* fails first at some n, and holds at n - 1.                              *)
(***************************************************************************)
EXTENDS Integers, Sequences, Sums, WellFoundedInduction, TLAPS

Less == {p \in Nat \X Nat : p[1] < p[2]}

\* The order of the naturals has no infinite descent.
LEMMA LessWellFounded == IsWellFoundedOn(Less, Nat)
<1>1. IsWellFoundedOn(OpToRel(<, Nat), Nat)
  BY Zenon, NatLessThanWellFounded
<1>2. Less = OpToRel(<, Nat)
  BY Zenon DEF OpToRel, Less
<1> QED
  BY Zenon, <1>1, <1>2

\* A nonempty set of naturals has a least member.
LEMMA LeastNat ==
  ASSUME NEW T \in SUBSET Nat, T # {}
  PROVE  \E x \in T : \A y \in T : x <= y
<1>1. PICK x \in T : \A y \in T : ~ (<<y, x>> \in Less)
  BY Zenon, LessWellFounded, WFMin
<1>2. \A a, b \in Nat : <<a, b>> \notin Less => b <= a
  BY DEF Less
<1>3. \A y \in T : x <= y
  BY Zenon, <1>1, <1>2
<1> QED
  BY Zenon, <1>3

Stepwise(V, v0, N, step) ==
  \E g \in [0 .. N -> V] :
    g[0] = v0 /\ \A n \in 1 .. N : g[n] = step[n][g[n - 1]]

\* A function computed position by position from a start value exists.
LEMMA StepwiseFunction ==
  ASSUME NEW V, NEW v0 \in V, NEW N \in Nat, NEW step \in [1 .. N -> [V -> V]]
  PROVE  Stepwise(V, v0, N, step)
<1> DEFINE Good(k) == \E g \in [0 .. k -> V] :
             g[0] = v0 /\ \A n \in 1 .. k : g[n] = step[n][g[n - 1]]
           Bad == {k \in 0 .. N : ~ Good(k)}
<1>1. SUFFICES Bad = {}
  BY SMTT(60) DEF Stepwise
<1>2. SUFFICES ASSUME Bad # {} PROVE FALSE
  BY Zenon
<1>3. PICK k \in Bad : \A j \in Bad : k <= j
  <2>1. Bad \in SUBSET Nat
    OBVIOUS
  <2> HIDE DEF Bad
  <2> QED BY Zenon, <2>1, <1>2, LeastNat
<1>4. k # 0
  <2> DEFINE z == [n \in 0 .. 0 |-> v0]
  <2>1. z \in [0 .. 0 -> V] /\ z[0] = v0
    OBVIOUS
  <2>2. \A n \in 1 .. 0 : z[n] = step[n][z[n - 1]]
    OBVIOUS
  <2> HIDE DEF z
  <2>3. Good(0)
    BY Zenon, <2>1, <2>2
  <2> HIDE DEF Good
  <2> QED BY Zenon, <2>3
<1>5. k - 1 \in 0 .. N /\ k \in 1 .. N
  BY <1>4
<1>6. k - 1 \notin Bad
  <2> HIDE DEF Bad
  <2> QED BY <1>3, <1>5
<1>7. Good(k - 1)
  <2> HIDE DEF Good
  <2> QED BY Zenon, <1>5, <1>6
<1>8. PICK g \in [0 .. k - 1 -> V] :
        g[0] = v0 /\ \A n \in 1 .. k - 1 : g[n] = step[n][g[n - 1]]
  BY Zenon, <1>7
<1> DEFINE h == [n \in 0 .. k |-> IF n = k THEN step[k][g[k - 1]] ELSE g[n]]
<1>9. h \in [0 .. k -> V]
  BY <1>5, <1>8
<1>10. h[0] = v0
  BY <1>5, <1>8
<1>11. \A n \in 1 .. k : h[n] = step[n][h[n - 1]]
  <2> SUFFICES ASSUME NEW n \in 1 .. k PROVE h[n] = step[n][h[n - 1]]
    BY Zenon
  <2>1. n - 1 \in 0 .. k - 1 /\ h[n - 1] = g[n - 1]
    BY <1>5
  <2>2. CASE n = k
    BY <2>1, <2>2
  <2>3. CASE n # k
    BY <2>1, <2>3, <1>5, <1>8
  <2> QED BY Zenon, <2>2, <2>3
<1>12. Good(k)
  <2> HIDE DEF h
  <2> QED BY Zenon, <1>9, <1>10, <1>11
<1> HIDE DEF Good
<1> QED
  BY Zenon, <1>12, <1>3
-----------------------------------------------------------------------------
(* Total *)

\* g holds the running totals of w.
Running(g, w) ==
  /\ g \in [0 .. Len(w) -> Int]
  /\ g[0] = 0
  /\ \A n \in 1 .. Len(w) : g[n] = g[n - 1] + w[n]

\* Two tables of running totals of the same sequence agree everywhere.
LEMMA RunningUnique ==
  ASSUME NEW w \in Seq(Int), NEW g, NEW h, Running(g, w), Running(h, w)
  PROVE  g = h
<1> DEFINE Bad == {n \in 0 .. Len(w) : g[n] # h[n]}
<1>1. ASSUME Bad # {} PROVE FALSE
  <2>1. Bad \in SUBSET Nat
    OBVIOUS
  <2>2. PICK n \in Bad : \A j \in Bad : n <= j
    <3> HIDE DEF Bad
    <3> QED BY Zenon, <1>1, <2>1, LeastNat
  <2>3. n # 0
    BY Zenon DEF Running
  <2>4. n - 1 \in 0 .. Len(w) /\ n \in 1 .. Len(w) /\ n - 1 < n
    BY <2>3
  <2>5. g[n - 1] = h[n - 1]
    BY <2>2, <2>4
  <2> QED BY Zenon, <2>4, <2>5 DEF Running
<1>2. \A n \in 0 .. Len(w) : g[n] = h[n]
  BY Zenon, <1>1
<1> QED BY <1>2 DEF Running

\* Total is the last running total.
LEMMA TotalRunning ==
  ASSUME NEW w \in Seq(Int)
  PROVE  \E g : Running(g, w) /\ Total(w) = g[Len(w)]
<1> DEFINE N == Len(w)
           step == [n \in 1 .. N |-> [v \in Int |-> v + w[n]]]
           Rec(f) == f = [n \in 0 .. N |-> IF n = 0 THEN 0 ELSE f[n - 1] + w[n]]
           up == CHOOSE f : Rec(f)
<1>1. N \in Nat /\ 0 \in Int /\ step \in [1 .. N -> [Int -> Int]]
  OBVIOUS
<1>2. PICK g \in [0 .. N -> Int] :
        g[0] = 0 /\ \A n \in 1 .. N : g[n] = step[n][g[n - 1]]
  <2> HIDE DEF step, N
  <2>1. Stepwise(Int, 0, N, step)
    BY Zenon, <1>1, StepwiseFunction
  <2> QED BY Zenon, <2>1 DEF Stepwise
<1>3. \A n \in 1 .. N : n - 1 \in 0 .. N /\ g[n] = g[n - 1] + w[n]
  <2> TAKE n \in 1 .. N
  <2>1. n - 1 \in 0 .. N
    OBVIOUS
  <2>2. g[n - 1] \in Int
    BY Zenon, <2>1, <1>2
  <2>3. step[n][g[n - 1]] = g[n - 1] + w[n]
    BY Zenon, <2>2
  <2> QED BY Zenon, <2>1, <2>3, <1>2
<1>4. Rec(g)
  BY <1>2, <1>3
<1>5. Rec(up)
  <2> HIDE DEF Rec
  <2> QED BY Zenon, <1>4
<1>6. Running(up, w)
  <2> DEFINE Bad == {n \in 0 .. N : up[n] \notin Int}
  <2>0. /\ \A n \in 1 .. N : n - 1 \in 0 .. N /\ up[n] = up[n - 1] + w[n]
        /\ up[0] = 0 /\ DOMAIN up = 0 .. N
        /\ up = [n \in 0 .. N |-> up[n]]
    <3> HIDE DEF up
    <3> QED BY SMTT(60), <1>5
  <2> HIDE DEF up
  <2>1. ASSUME Bad # {} PROVE FALSE
    <3>1. Bad \in SUBSET Nat
      OBVIOUS
    <3>2. PICK n \in Bad : \A j \in Bad : n <= j
      <4> HIDE DEF Bad
      <4> QED BY Zenon, <2>1, <3>1, LeastNat
    <3>3. n # 0
      BY <2>0
    <3>4. n - 1 \in 0 .. N /\ n \in 1 .. N /\ n - 1 < n
      BY <3>3
    <3>5. up[n - 1] \in Int
      BY <3>2, <3>4
    <3>6. w[n] \in Int
      BY <3>4
    <3>7. up[n] = up[n - 1] + w[n]
      BY Zenon, <2>0, <3>4
    <3>8. up[n] \in Int
      <4> HIDE DEF Bad
      <4> QED BY <3>5, <3>6, <3>7
    <3> QED BY Zenon, <3>8
  <2>2. up \in [0 .. N -> Int]
    BY Zenon, <2>0, <2>1
  <2> QED BY Zenon, <2>0, <2>2 DEF Running
<1>7. Total(w) = up[Len(w)]
  BY Zenon DEF Total
<1> QED BY Zenon, <1>6, <1>7

\* A table of running totals gives the total.
LEMMA TotalIs ==
  ASSUME NEW w \in Seq(Int), NEW g, Running(g, w)
  PROVE  Total(w) = g[Len(w)]
<1>1. PICK h : Running(h, w) /\ Total(w) = h[Len(w)]
  BY Zenon, TotalRunning
<1>2. h = g
  BY Zenon, <1>1, RunningUnique
<1> QED BY Zenon, <1>1, <1>2

\* A total of integers is an integer.
LEMMA TotalInt ==
  ASSUME NEW w \in Seq(Int)
  PROVE  Total(w) \in Int
<1>1. PICK g : Running(g, w) /\ Total(w) = g[Len(w)]
  BY Zenon, TotalRunning
<1>2. Len(w) \in 0 .. Len(w)
  OBVIOUS
<1> QED BY Zenon, <1>1, <1>2 DEF Running

\* The empty sequence adds up to zero.
LEMMA TotalEmpty == Total(<< >>) = 0
<1>1. << >> \in Seq(Int) /\ Len(<< >>) = 0
  OBVIOUS
<1>2. Running([n \in 0 .. 0 |-> 0], << >>)
  BY <1>1 DEF Running
<1>3. Total(<< >>) = [n \in 0 .. 0 |-> 0][Len(<< >>)]
  BY Zenon, <1>1, <1>2, TotalIs
<1> QED BY <1>1, <1>3

\* Appending a number adds it to the total.
LEMMA TotalAppend ==
  ASSUME NEW w \in Seq(Int), NEW x \in Int
  PROVE  Total(Append(w, x)) = Total(w) + x
<1>1. PICK g : Running(g, w) /\ Total(w) = g[Len(w)]
  BY Zenon, TotalRunning
<1> DEFINE N == Len(w)
           a == Append(w, x)
           h == [n \in 0 .. N + 1 |-> IF n = N + 1 THEN g[N] + x ELSE g[n]]
<1>2. /\ N \in Nat /\ a \in Seq(Int) /\ Len(a) = N + 1 /\ a[N + 1] = x
      /\ \A n \in 1 .. N : a[n] = w[n]
  OBVIOUS
<1>3. g \in [0 .. N -> Int] /\ g[0] = 0 /\ \A n \in 1 .. N : g[n] = g[n - 1] + w[n]
  BY Zenon, <1>1 DEF Running
<1>4. Running(h, a)
  <2> HIDE DEF a, N
  <2>1. h \in [0 .. N + 1 -> Int] /\ h[0] = 0
    BY <1>2, <1>3
  <2>2. \A n \in 1 .. N + 1 : h[n] = h[n - 1] + a[n]
    <3> SUFFICES ASSUME NEW n \in 1 .. N + 1 PROVE h[n] = h[n - 1] + a[n]
      BY Zenon
    <3>1. CASE n = N + 1
      BY <3>1, <1>2, <1>3
    <3>2. CASE n # N + 1
      <4>1. n \in 1 .. N /\ n - 1 \in 0 .. N /\ n - 1 # N + 1
        BY <3>2, <1>2
      <4> QED BY <4>1, <1>2, <1>3
    <3> QED BY Zenon, <3>1, <3>2
  <2> QED BY Zenon, <2>1, <2>2, <1>2 DEF Running
<1>5. Total(a) = h[Len(a)]
  <2> HIDE DEF a, h
  <2> QED BY Zenon, <1>2, <1>4, TotalIs
<1> QED BY <1>1, <1>2, <1>5
\* Cutting a sequence in two cuts its total in two.
LEMMA TotalSplit ==
  ASSUME NEW w \in Seq(Int), NEW k \in 0 .. Len(w)
  PROVE  Total(w) = Total(SubSeq(w, 1, k)) + Total(SubSeq(w, k + 1, Len(w)))
<1>1. PICK g : Running(g, w) /\ Total(w) = g[Len(w)]
  BY Zenon, TotalRunning
<1> DEFINE N == Len(w)
           a == SubSeq(w, 1, k)
           z == SubSeq(w, k + 1, N)
           ga == [n \in 0 .. k |-> g[n]]
           gz == [n \in 0 .. N - k |-> g[n + k] - g[k]]
<1>2. /\ N \in Nat /\ k \in Nat /\ k <= N
      /\ a \in Seq(Int) /\ Len(a) = k /\ \A n \in 1 .. k : a[n] = w[n]
      /\ z \in Seq(Int) /\ Len(z) = N - k /\ \A n \in 1 .. N - k : z[n] = w[n + k]
  BY SMTT(30)
<1>3. g \in [0 .. N -> Int] /\ g[0] = 0 /\ \A n \in 1 .. N : g[n] = g[n - 1] + w[n]
  BY Zenon, <1>1 DEF Running
<1> HIDE DEF a, z, N
<1>4. Running(ga, a)
  <2>1. ga \in [0 .. k -> Int] /\ ga[0] = 0
    BY <1>2, <1>3
  <2>2. \A n \in 1 .. k : ga[n] = ga[n - 1] + a[n]
    <3> TAKE n \in 1 .. k
    <3>1. n \in 1 .. N /\ n \in 0 .. k /\ n - 1 \in 0 .. k
      BY <1>2
    <3> QED BY Zenon, <3>1, <1>2, <1>3
  <2> QED BY Zenon, <2>1, <2>2, <1>2 DEF Running
<1>5. Running(gz, z)
  <2>1. gz \in [0 .. N - k -> Int] /\ gz[0] = 0
    BY <1>2, <1>3
  <2>2. \A n \in 1 .. N - k : gz[n] = gz[n - 1] + z[n]
    <3> SUFFICES ASSUME NEW n \in 1 .. N - k PROVE gz[n] = gz[n - 1] + z[n]
      BY Zenon
    <3>1. n + k \in 1 .. N /\ (n - 1) + k = (n + k) - 1
      BY <1>2
    <3>2. g[n + k] = g[(n - 1) + k] + w[n + k]
      BY Zenon, <3>1, <1>3
    <3>3. /\ w[n + k] \in Int
          /\ g[(n - 1) + k] \in Int /\ g[k] \in Int
      <4>1. w[n + k] \in Int
        BY <3>1 DEF N
      <4>2. (n - 1) + k \in 0 .. N /\ k \in 0 .. N
        BY <3>1, <1>2
      <4> QED BY Zenon, <4>1, <4>2, <1>3
    <3>4. n \in 0 .. N - k /\ n - 1 \in 0 .. N - k /\ z[n] = w[n + k]
      BY SMTT(60), <1>2
    <3>5. gz[n] = g[n + k] - g[k] /\ gz[n - 1] = g[(n - 1) + k] - g[k]
      BY Zenon, <3>4
    <3> HIDE DEF gz
    <3> QED BY <3>2, <3>3, <3>4, <3>5
  <2> QED BY Zenon, <2>1, <2>2, <1>2 DEF Running
<1>6. Total(a) = ga[k] /\ Total(z) = gz[N - k]
  <2> HIDE DEF ga, gz
  <2> QED BY Zenon, <1>2, <1>4, <1>5, TotalIs
<1>7. ga[k] = g[k] /\ gz[N - k] = g[N] - g[k] /\ g[N] \in Int /\ g[k] \in Int
  BY <1>2, <1>3
<1>8. Total(w) = g[N]
  BY Zenon, <1>1 DEF N
<1>9. Total(w) = Total(a) + Total(z)
  BY <1>6, <1>7, <1>8
<1> QED BY Zenon, <1>9 DEF a, z, N

\* RemoveAt closes the gap at p and keeps the order of the rest.
LEMMA RemoveAtProperties ==
  ASSUME NEW S, NEW s \in Seq(S), NEW p \in 1 .. Len(s)
  PROVE  /\ RemoveAt(s, p) \in Seq(S)
         /\ Len(RemoveAt(s, p)) = Len(s) - 1
         /\ \A n \in 1 .. Len(s) - 1 : n < p => RemoveAt(s, p)[n] = s[n]
         /\ \A n \in 1 .. Len(s) - 1 : n >= p => RemoveAt(s, p)[n] = s[n + 1]
<1> DEFINE a == SubSeq(s, 1, p - 1)
           z == SubSeq(s, p + 1, Len(s))
<1>1. a \in Seq(S) /\ Len(a) = p - 1 /\ \A n \in 1 .. p - 1 : a[n] = s[n]
  OBVIOUS
<1>2. /\ z \in Seq(S) /\ Len(z) = Len(s) - p
      /\ \A n \in 1 .. Len(s) - p : z[n] = s[n + p]
  OBVIOUS
<1>3. RemoveAt(s, p) = a \o z
  BY Zenon DEF RemoveAt
<1> HIDE DEF a, z
<1>4. RemoveAt(s, p) \in Seq(S) /\ Len(RemoveAt(s, p)) = Len(s) - 1
  BY <1>1, <1>2, <1>3
<1>5. ASSUME NEW n \in 1 .. Len(s) - 1, n < p PROVE RemoveAt(s, p)[n] = s[n]
  BY <1>1, <1>2, <1>3, <1>5
<1>6. ASSUME NEW n \in 1 .. Len(s) - 1, n >= p PROVE RemoveAt(s, p)[n] = s[n + 1]
  <2>1. n - (p - 1) \in 1 .. Len(s) - p /\ (n - (p - 1)) + p = n + 1
    BY <1>6
  <2>2. RemoveAt(s, p)[n] = z[n - (p - 1)]
    BY SMTT(30), <1>1, <1>2, <1>3, <1>6
  <2> QED BY Zenon, <2>1, <2>2, <1>2
<1> QED BY Zenon, <1>4, <1>5, <1>6

\* Removing one number takes it off the total.
LEMMA TotalRemoveAt ==
  ASSUME NEW w \in Seq(Int), NEW p \in 1 .. Len(w)
  PROVE  Total(RemoveAt(w, p)) = Total(w) - w[p]
<1>1. PICK g : Running(g, w) /\ Total(w) = g[Len(w)]
  BY Zenon, TotalRunning
<1> DEFINE r == RemoveAt(w, p)
           h == [n \in 0 .. Len(w) - 1 |-> IF n < p THEN g[n] ELSE g[n + 1] - w[p]]
<1>2. /\ r \in Seq(Int) /\ Len(r) = Len(w) - 1
      /\ \A n \in 1 .. Len(w) - 1 : n < p => r[n] = w[n]
      /\ \A n \in 1 .. Len(w) - 1 : n >= p => r[n] = w[n + 1]
  BY Zenon, RemoveAtProperties
<1>3. /\ \A n \in 0 .. Len(w) : g[n] \in Int
      /\ g[0] = 0
      /\ \A n \in 1 .. Len(w) : g[n] = g[n - 1] + w[n] /\ w[n] \in Int
  <2>1. \A n \in 1 .. Len(w) : w[n] \in Int
    OBVIOUS
  <2> QED BY Zenon, <1>1, <2>1 DEF Running
<1> HIDE DEF r
<1>4. Running(h, r)
  <2>1. h \in [0 .. Len(w) - 1 -> Int]
    <3>1. ASSUME NEW n \in 0 .. Len(w) - 1
          PROVE  (IF n < p THEN g[n] ELSE g[n + 1] - w[p]) \in Int
      <4>1. n \in 0 .. Len(w) /\ n + 1 \in 0 .. Len(w) /\ w[p] \in Int
        OBVIOUS
      <4>2. g[n] \in Int /\ g[n + 1] \in Int
        BY Zenon, <4>1, <1>3
      <4> QED BY SMTT(30), <4>1, <4>2
    <3> QED BY Zenon, <3>1
  <2>2. h[0] = 0
    BY <1>3
  <2>3. \A n \in 1 .. Len(w) - 1 : h[n] = h[n - 1] + r[n]
    <3> SUFFICES ASSUME NEW n \in 1 .. Len(w) - 1 PROVE h[n] = h[n - 1] + r[n]
      BY Zenon
    <3>1. /\ g[n] = g[n - 1] + w[n] /\ g[n + 1] = g[n] + w[n + 1]
          /\ g[n - 1] \in Int /\ g[n] \in Int /\ g[n + 1] \in Int
          /\ w[n] \in Int /\ w[n + 1] \in Int
      <4>1. n \in 1 .. Len(w) /\ n + 1 \in 1 .. Len(w) /\ n - 1 \in 0 .. Len(w)
        OBVIOUS
      <4>2. n \in 0 .. Len(w) /\ n + 1 \in 0 .. Len(w) /\ (n + 1) - 1 = n
        OBVIOUS
      <4> QED BY Zenon, <4>1, <4>2, <1>3
    <3>2. /\ h[n] = IF n < p THEN g[n] ELSE g[n + 1] - w[p]
          /\ h[n - 1] = IF n - 1 < p THEN g[n - 1] ELSE g[n] - w[p]
      OBVIOUS
    <3>3. w[p] \in Int
      OBVIOUS
    <3> HIDE DEF h
    <3>4. CASE n < p
      BY <3>1, <3>2, <3>4, <1>2
    <3>5. CASE n = p
      <4>1. h[n] = g[n + 1] - w[n] /\ h[n - 1] = g[n - 1] /\ r[n] = w[n + 1]
        BY <3>2, <3>5, <1>2
      <4> QED BY SMTT(60), <4>1, <3>1
    <3>6. CASE n > p
      <4>1. h[n] = g[n + 1] - w[p] /\ h[n - 1] = g[n] - w[p] /\ r[n] = w[n + 1]
        BY <3>2, <3>6, <1>2
      <4>2. \A x, y, z \in Int : (x + y) - z = (x - z) + y
        OBVIOUS
      <4>3. g[n] \in Int /\ w[n + 1] \in Int /\ w[p] \in Int
        BY Zenon, <3>1, <3>3
      <4>4. (g[n] + w[n + 1]) - w[p] = (g[n] - w[p]) + w[n + 1]
        BY SMTT(30), <4>2, <4>3
      <4> QED BY Zenon, <4>1, <4>4, <3>1
    <3> QED BY <3>4, <3>5, <3>6
  <2> QED BY Zenon, <2>1, <2>2, <2>3, <1>2 DEF Running
<1>5. Total(r) = h[Len(w) - 1]
  <2> HIDE DEF h
  <2> QED BY Zenon, <1>2, <1>4, TotalIs
<1>6. h[Len(w) - 1] = g[Len(w)] - w[p]
  BY SMTT(30), <1>3
<1> QED BY Zenon, <1>1, <1>5, <1>6 DEF r

\* Replacing one number changes the total by the difference.
LEMMA TotalExcept ==
  ASSUME NEW N \in Nat, NEW w \in [1 .. N -> Int], NEW p \in 1 .. N, NEW x \in Int
  PROVE  Total([w EXCEPT ![p] = x]) = Total(w) - w[p] + x
<1> DEFINE r == [w EXCEPT ![p] = x]
<1>0. w \in Seq(Int) /\ Len(w) = N /\ r \in Seq(Int) /\ Len(r) = N
  OBVIOUS
<1>1. PICK g : Running(g, w) /\ Total(w) = g[N]
  BY Zenon, <1>0, TotalRunning
<1> DEFINE h == [n \in 0 .. N |-> IF n < p THEN g[n] ELSE g[n] - w[p] + x]
<1>2. w[p] \in Int /\ \A n \in 1 .. N : r[n] = IF n = p THEN x ELSE w[n]
  BY Zenon
<1>3. /\ g \in [0 .. N -> Int] /\ g[0] = 0
      /\ \A n \in 1 .. N : g[n] = g[n - 1] + w[n] /\ w[n] \in Int
  BY Zenon, <1>0, <1>1 DEF Running
<1> HIDE DEF r
<1>4. Running(h, r)
  <2>1. h \in [0 .. N -> Int]
    <3>1. ASSUME NEW n \in 0 .. N
          PROVE  (IF n < p THEN g[n] ELSE g[n] - w[p] + x) \in Int
      <4>1. g[n] \in Int
        BY Zenon, <1>3
      <4> QED BY <4>1, <1>2
    <3> QED BY Zenon, <3>1
  <2>0. h[0] = 0
    <3>1. 0 \in 0 .. N /\ 0 < p
      OBVIOUS
    <3>2. h[0] = g[0]
      BY Zenon, <3>1
    <3> QED BY Zenon, <3>2, <1>3
  <2>2. \A n \in 1 .. N : h[n] = h[n - 1] + r[n]
    <3> SUFFICES ASSUME NEW n \in 1 .. N PROVE h[n] = h[n - 1] + r[n]
      BY Zenon
    <3>1. n \in 0 .. N /\ n - 1 \in 0 .. N
      OBVIOUS
    <3>2. /\ w[n] \in Int /\ g[n] = g[n - 1] + w[n]
          /\ g[n] \in Int /\ g[n - 1] \in Int
      BY Zenon, <3>1, <1>3
    <3>6. /\ h[n] = IF n < p THEN g[n] ELSE g[n] - w[p] + x
          /\ h[n - 1] = IF n - 1 < p THEN g[n - 1] ELSE g[n - 1] - w[p] + x
          /\ r[n] = IF n = p THEN x ELSE w[n]
      BY Zenon, <3>1, <1>2
    <3> HIDE DEF h
    <3>3. CASE n < p
      BY <3>2, <3>3, <3>6
    <3>4. CASE n = p
      <4>1. h[n] = g[n] - w[n] + x /\ h[n - 1] = g[n - 1] /\ r[n] = x
        BY <3>4, <3>6
      <4> QED BY <4>1, <3>2
    <3>5. CASE n > p
      <4>1. /\ h[n] = g[n] - w[p] + x /\ h[n - 1] = g[n - 1] - w[p] + x
            /\ r[n] = w[n]
        BY <3>5, <3>6
      <4> QED BY SMTT(30), <4>1, <3>2, <1>2
    <3> QED BY <3>3, <3>4, <3>5
  <2> QED
    <3> HIDE DEF h
    <3> QED BY Zenon, <2>0, <2>1, <2>2, <1>0 DEF Running
<1>5. Total(r) = h[N]
  <2> HIDE DEF h
  <2> QED BY Zenon, <1>0, <1>4, TotalIs
<1>6. h[N] = g[N] - w[p] + x
  OBVIOUS
<1> QED BY Zenon, <1>1, <1>5, <1>6 DEF r

\* The total of a difference is the difference of the totals.
LEMMA TotalDifference ==
  ASSUME NEW N \in Nat, NEW u \in [1 .. N -> Int], NEW v \in [1 .. N -> Int],
         NEW w \in [1 .. N -> Int], \A n \in 1 .. N : u[n] = v[n] - w[n]
  PROVE  Total(u) = Total(v) - Total(w)
<1>0. /\ u \in Seq(Int) /\ Len(u) = N /\ v \in Seq(Int) /\ Len(v) = N
      /\ w \in Seq(Int) /\ Len(w) = N
  OBVIOUS
<1>1. PICK g : Running(g, v) /\ Total(v) = g[N]
  BY Zenon, <1>0, TotalRunning
<1>2. PICK h : Running(h, w) /\ Total(w) = h[N]
  BY Zenon, <1>0, TotalRunning
<1> DEFINE d == [n \in 0 .. N |-> g[n] - h[n]]
<1>3. /\ g \in [0 .. N -> Int] /\ h \in [0 .. N -> Int] /\ g[0] = 0 /\ h[0] = 0
      /\ \A n \in 1 .. N : g[n] = g[n - 1] + v[n] /\ h[n] = h[n - 1] + w[n]
  BY Zenon, <1>0, <1>1, <1>2 DEF Running
<1>4. Running(d, u)
  <2>1. d \in [0 .. N -> Int]
    <3>1. ASSUME NEW n \in 0 .. N PROVE g[n] - h[n] \in Int
      <4>1. g[n] \in Int /\ h[n] \in Int
        BY Zenon, <1>3
      <4> QED BY <4>1
    <3> QED BY Zenon, <3>1
  <2>0. d[0] = 0
    BY <1>3
  <2>2. \A n \in 1 .. N : d[n] = d[n - 1] + u[n]
    <3> SUFFICES ASSUME NEW n \in 1 .. N PROVE d[n] = d[n - 1] + u[n]
      BY Zenon
    <3>1. /\ n \in 0 .. N /\ n - 1 \in 0 .. N
          /\ v[n] \in Int /\ w[n] \in Int /\ u[n] = v[n] - w[n]
      OBVIOUS
    <3>2. g[n - 1] \in Int /\ h[n - 1] \in Int
      BY Zenon, <3>1, <1>3
    <3>3. d[n] = g[n] - h[n] /\ d[n - 1] = g[n - 1] - h[n - 1]
      BY Zenon, <3>1
    <3> HIDE DEF d
    <3> QED BY <3>1, <3>2, <3>3, <1>3
  <2> QED
    <3> HIDE DEF d
    <3> QED BY Zenon, <2>0, <2>1, <2>2, <1>0 DEF Running
<1>5. Total(u) = d[N]
  <2> HIDE DEF d
  <2> QED BY Zenon, <1>0, <1>4, TotalIs
<1>6. d[N] = g[N] - h[N]
  OBVIOUS
<1> QED BY Zenon, <1>1, <1>2, <1>5, <1>6

\* A sequence of naturals has a natural total.
LEMMA TotalNat ==
  ASSUME NEW w \in Seq(Nat)
  PROVE  Total(w) \in Nat
<1>0. w \in Seq(Int)
  OBVIOUS
<1>1. PICK g : Running(g, w) /\ Total(w) = g[Len(w)]
  BY Zenon, <1>0, TotalRunning
<1> DEFINE Bad == {n \in 0 .. Len(w) : g[n] \notin Nat}
<1>2. ASSUME Bad # {} PROVE FALSE
  <2>1. Bad \in SUBSET Nat
    OBVIOUS
  <2>2. PICK n \in Bad : \A j \in Bad : n <= j
    <3> HIDE DEF Bad
    <3> QED BY Zenon, <1>2, <2>1, LeastNat
  <2>3. n # 0
    BY <1>1 DEF Running
  <2>4. n - 1 \in 0 .. Len(w) /\ n \in 1 .. Len(w) /\ n - 1 < n
    BY <2>3
  <2>5. g[n - 1] \in Nat
    BY <2>2, <2>4
  <2>6. g[n] = g[n - 1] + w[n] /\ w[n] \in Nat
    BY <2>4, <1>1 DEF Running
  <2>7. g[n] \in Nat
    BY <2>5, <2>6
  <2> QED BY Zenon, <2>7
<1>3. Len(w) \in 0 .. Len(w)
  OBVIOUS
<1>4. g[Len(w)] \in Nat
  BY Zenon, <1>2, <1>3
<1> QED BY Zenon, <1>1, <1>4

-----------------------------------------------------------------------------
(* Without *)

\* Appending adds one member.
LEMMA AppendMembers ==
  ASSUME NEW S, NEW q \in Seq(S), NEW x \in S
  PROVE  {Append(q, x)[i] : i \in 1 .. Len(Append(q, x))}
           = {q[i] : i \in 1 .. Len(q)} \cup {x}
<1>1. \A k \in Nat : 1 .. k + 1 = (1 .. k) \cup {k + 1}
  OBVIOUS
<1>2. Len(q) \in Nat /\ Len(Append(q, x)) = Len(q) + 1
  OBVIOUS
<1>3. 1 .. Len(Append(q, x)) = (1 .. Len(q)) \cup {Len(q) + 1}
  BY Zenon, <1>1, <1>2
<1>4. Append(q, x)[Len(q) + 1] = x /\ \A i \in 1 .. Len(q) : Append(q, x)[i] = q[i]
  OBVIOUS
<1> QED BY Zenon, <1>3, <1>4

\* up holds what Without has collected after each position.
Collected(up, s, X) ==
  /\ up[0] = << >>
  /\ \A n \in 1 .. Len(s) :
       up[n] = IF s[n] \in X THEN up[n - 1] ELSE Append(up[n - 1], s[n])

\* Without is the last of such a table.
LEMMA WithoutCollected ==
  ASSUME NEW S, NEW s \in Seq(S), NEW X
  PROVE  \E up : Collected(up, s, X) /\ Without(s, X) = up[Len(s)]
<1> DEFINE N == Len(s)
           step == [n \in 1 .. N |-> [v \in Seq(S) |->
                      IF s[n] \in X THEN v ELSE Append(v, s[n])]]
           Rec(f) == f = [n \in 0 .. N |->
                            IF n = 0 THEN << >>
                            ELSE IF s[n] \in X THEN f[n - 1]
                            ELSE Append(f[n - 1], s[n])]
           up == CHOOSE f : Rec(f)
<1>1. N \in Nat /\ << >> \in Seq(S) /\ step \in [1 .. N -> [Seq(S) -> Seq(S)]]
  OBVIOUS
<1>2. PICK g \in [0 .. N -> Seq(S)] :
        g[0] = << >> /\ \A n \in 1 .. N : g[n] = step[n][g[n - 1]]
  <2> HIDE DEF step, N
  <2>1. Stepwise(Seq(S), << >>, N, step)
    BY Zenon, <1>1, StepwiseFunction
  <2> QED BY Zenon, <2>1 DEF Stepwise
<1>3. Rec(g)
  <2>1. ASSUME NEW n \in 1 .. N
        PROVE  g[n] = IF s[n] \in X THEN g[n - 1] ELSE Append(g[n - 1], s[n])
    <3>1. n - 1 \in 0 .. N
      OBVIOUS
    <3>2. g[n - 1] \in Seq(S)
      BY Zenon, <3>1, <1>2
    <3>3. step[n][g[n - 1]] = IF s[n] \in X THEN g[n - 1] ELSE Append(g[n - 1], s[n])
      BY Zenon, <3>2
    <3> QED BY Zenon, <3>3, <1>2
  <2>2. \A n \in 0 .. N : n # 0 => n \in 1 .. N
    OBVIOUS
  <2> QED BY Zenon, <1>2, <2>1, <2>2
<1>4. Rec(up)
  <2> HIDE DEF Rec
  <2> QED BY Zenon, <1>3
<1>5. Without(s, X) = up[N]
  BY Zenon DEF Without
<1>6. /\ up[0] = << >>
      /\ \A n \in 1 .. N : /\ n - 1 \in 0 .. N
                           /\ up[n] = IF s[n] \in X THEN up[n - 1]
                                      ELSE Append(up[n - 1], s[n])
  <2> HIDE DEF up
  <2>1. 0 \in 0 .. N /\ \A n \in 1 .. N : n \in 0 .. N /\ n - 1 \in 0 .. N /\ n # 0
    OBVIOUS
  <2> HIDE DEF N
  <2> QED BY Zenon, <1>4, <2>1
<1> QED BY Zenon, <1>5, <1>6 DEF Collected

\* Without keeps exactly the members of s outside X.
LEMMA WithoutMembers ==
  ASSUME NEW S, NEW s \in Seq(S), NEW X
  PROVE  /\ Without(s, X) \in Seq(S)
         /\ {Without(s, X)[i] : i \in 1 .. Len(Without(s, X))}
              = {s[i] : i \in 1 .. Len(s)} \ X
<1>5. PICK up : Collected(up, s, X) /\ Without(s, X) = up[Len(s)]
  BY Zenon, WithoutCollected
<1> DEFINE N == Len(s)
           Set(q) == {q[i] : i \in 1 .. Len(q)}
<1>6. /\ up[0] = << >>
      /\ \A n \in 1 .. N : up[n] = IF s[n] \in X THEN up[n - 1]
                                    ELSE Append(up[n - 1], s[n])
  BY Zenon, <1>5 DEF Collected
<1> DEFINE Good(n) == up[n] \in Seq(S) /\ Set(up[n]) = {s[i] : i \in 1 .. n} \ X
           Bad == {n \in 0 .. N : ~ Good(n)}
<1>7. ASSUME Bad # {} PROVE FALSE
  <2>1. Bad \in SUBSET Nat
    OBVIOUS
  <2>2. PICK n \in Bad : \A j \in Bad : n <= j
    <3> HIDE DEF Bad
    <3> QED BY Zenon, <1>7, <2>1, LeastNat
  <2>3. Good(0)
    BY <1>6
  <2>4. n # 0
    <3> HIDE DEF Good
    <3> QED BY Zenon, <2>3
  <2>5. n - 1 \in 0 .. N /\ n \in 1 .. N /\ n - 1 < n
    BY <2>4
  <2>6. Good(n - 1)
    <3> HIDE DEF Good
    <3> QED BY <2>2, <2>5
  <2>7. {s[i] : i \in 1 .. n} = {s[i] : i \in 1 .. n - 1} \cup {s[n]}
    <3>1. 1 .. n = 1 .. n - 1 \cup {n}
      BY <2>5
    <3> QED BY Zenon, <3>1
  <2>8. s[n] \in S
    BY <2>5
  <2>9. CASE s[n] \in X
    <3>1. up[n] = up[n - 1]
      BY Zenon, <1>6, <2>5, <2>9
    <3>2. Good(n)
      BY <3>1, <2>6, <2>7, <2>9
    <3> HIDE DEF Good
    <3> QED BY Zenon, <3>2
  <2>10. CASE s[n] \notin X
    <3>1. up[n] = Append(up[n - 1], s[n])
      BY Zenon, <1>6, <2>5, <2>10
    <3>2. up[n - 1] \in Seq(S) /\ up[n] \in Seq(S)
      BY <3>1, <2>6, <2>8
    <3>3. Set(up[n]) = Set(up[n - 1]) \cup {s[n]}
      <4>1. Set(Append(up[n - 1], s[n])) = Set(up[n - 1]) \cup {s[n]}
        <5> DEFINE q == up[n - 1]  x == s[n]
        <5>1. q \in Seq(S) /\ x \in S
          BY Zenon, <3>2, <2>8
        <5> HIDE DEF q, x
        <5> QED BY SMTT(30), <5>1, AppendMembers
      <4> HIDE DEF Set
      <4> QED BY Zenon, <3>1, <4>1
    <3>4. Good(n)
      BY Zenon, <3>2, <3>3, <2>6, <2>7, <2>10
    <3> HIDE DEF Good
    <3> QED BY Zenon, <3>4
  <2> QED BY Zenon, <2>9, <2>10
<1>8. N \in 0 .. N
  OBVIOUS
<1>9. Good(N)
  <2> HIDE DEF Good
  <2> QED BY Zenon, <1>7, <1>8
<1> QED BY Zenon, <1>5, <1>9
AtMost(q, x)  == \A i \in 1 .. Len(q) : q[i] <= x

\* A number above all members may be appended to an increasing sequence.
LEMMA AppendIncreasing ==
  ASSUME NEW q \in Seq(Nat), Increasing(q), NEW x \in Nat, NEW y \in Nat,
         AtMost(q, x), x < y
  PROVE  Increasing(Append(q, y)) /\ AtMost(Append(q, y), y) /\ AtMost(q, y)
<1>1. \A i \in 1 .. Len(q) : q[i] \in Nat /\ q[i] < y
  <2> TAKE i \in 1 .. Len(q)
  <2>1. q[i] \in Nat
    OBVIOUS
  <2>2. q[i] <= x
    BY Zenon DEF AtMost
  <2> QED BY <2>1, <2>2
<1>2. /\ Len(Append(q, y)) = Len(q) + 1 /\ Append(q, y)[Len(q) + 1] = y
      /\ \A i \in 1 .. Len(q) : Append(q, y)[i] = q[i]
  OBVIOUS
<1>3. \A i \in 1 .. Len(q) + 1 : i # Len(q) + 1 => i \in 1 .. Len(q)
  OBVIOUS
<1>4. AtMost(q, y)
  <2> SUFFICES ASSUME NEW i \in 1 .. Len(q) PROVE q[i] <= y
    BY Zenon DEF AtMost
  <2> QED BY <1>1
<1>5. AtMost(Append(q, y), y)
  BY <1>1, <1>2, <1>3 DEF AtMost
<1>6. Increasing(Append(q, y))
  <2> SUFFICES ASSUME NEW i \in 1 .. Len(q) + 1, NEW j \in 1 .. Len(q) + 1, i < j
               PROVE  Append(q, y)[i] < Append(q, y)[j]
    BY Zenon, <1>2 DEF Increasing
  <2>1. i \in 1 .. Len(q)
    OBVIOUS
  <2>2. CASE j = Len(q) + 1
    BY Zenon, <2>1, <2>2, <1>1, <1>2
  <2>3. CASE j # Len(q) + 1
    BY Zenon, <2>1, <2>3, <1>2, <1>3 DEF Increasing
  <2> QED BY Zenon, <2>2, <2>3
<1> QED BY Zenon, <1>4, <1>5, <1>6

\* Without keeps an increasing sequence increasing.
LEMMA WithoutIncreasing ==
  ASSUME NEW s \in Seq(Nat \ {0}), NEW X, Increasing(s)
  PROVE  Increasing(Without(s, X))
<1>1. PICK up : Collected(up, s, X) /\ Without(s, X) = up[Len(s)]
  BY Zenon, WithoutCollected
<1> DEFINE top(n) == IF n = 0 THEN 0 ELSE s[n]
           Good(n) == up[n] \in Seq(Nat) /\ Increasing(up[n]) /\ AtMost(up[n], top(n))
           Bad == {n \in 0 .. Len(s) : ~ Good(n)}
<1>2. Good(0)
  BY <1>1 DEF Collected, Increasing, AtMost
<1>3. ASSUME NEW n \in 1 .. Len(s), Good(n - 1) PROVE Good(n)
  <2>1. s[n] \in Nat /\ top(n - 1) \in Nat /\ top(n - 1) < s[n] /\ top(n) = s[n]
    <3>1. CASE n = 1
      BY <3>1
    <3>2. CASE n # 1
      <4>1. n - 1 \in 1 .. Len(s)
        BY <3>2
      <4> QED BY SMTT(60), <4>1 DEF Increasing
    <3> QED BY Zenon, <3>1, <3>2
  <2>2. up[n] = up[n - 1] \/ up[n] = Append(up[n - 1], s[n])
    BY Zenon, <1>1 DEF Collected
  <2> HIDE DEF top
  <2>3. /\ Increasing(Append(up[n - 1], s[n])) /\ AtMost(Append(up[n - 1], s[n]), s[n])
        /\ AtMost(up[n - 1], s[n])
    BY Zenon, <1>3, <2>1, AppendIncreasing
  <2>4. up[n - 1] \in Seq(Nat) /\ Append(up[n - 1], s[n]) \in Seq(Nat)
    BY <1>3, <2>1
  <2> QED BY Zenon, <1>3, <2>1, <2>2, <2>3, <2>4
<1> HIDE DEF Good
<1>4. ASSUME Bad # {} PROVE FALSE
  <2>1. Bad \in SUBSET Nat
    OBVIOUS
  <2>2. PICK n \in Bad : \A j \in Bad : n <= j
    <3> HIDE DEF Bad
    <3> QED BY Zenon, <1>4, <2>1, LeastNat
  <2>3. n # 0
    BY Zenon, <1>2
  <2>4. n - 1 \in 0 .. Len(s) /\ n \in 1 .. Len(s) /\ n - 1 < n
    BY <2>3
  <2>5. Good(n - 1)
    BY <2>2, <2>4
  <2> QED BY Zenon, <1>3, <2>4, <2>5
<1>5. Good(Len(s))
  <2>1. Len(s) \in 0 .. Len(s)
    OBVIOUS
  <2> QED BY Zenon, <1>4, <2>1
<1> QED BY Zenon, <1>1, <1>5 DEF Good
=============================================================================
