-------------------------------- MODULE Sums --------------------------------
(***************************************************************************)
(* Running totals, filters, removal and order of sequences.  The ones that *)
(* recur are functions over the positions of the sequence, so that both    *)
(* TLC and the provers can work with them; the module stands alone because *)
(* every definition in scope slows each proof obligation down.             *)
(***************************************************************************)
LOCAL INSTANCE Integers
LOCAL INSTANCE Sequences

\* The sequence s with the member at position i taken out.
RemoveAt(s, i) == SubSeq(s, 1, i - 1) \o SubSeq(s, i + 1, Len(s))

\* The sum of a sequence of numbers.
Total(w) ==
  LET upTo[n \in 0 .. Len(w)] == IF n = 0 THEN 0 ELSE upTo[n - 1] + w[n]
  IN  upTo[Len(w)]

\* The members of s that are not in the set X, in the order of s.
Without(s, X) ==
  LET upTo[n \in 0 .. Len(s)] ==
        IF n = 0 THEN << >>
        ELSE IF s[n] \in X THEN upTo[n - 1]
        ELSE Append(upTo[n - 1], s[n])
  IN  upTo[Len(s)]

\* The members of q rise.
Increasing(q) == \A i, j \in 1 .. Len(q) : i < j => q[i] < q[j]
=============================================================================
