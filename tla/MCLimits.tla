------------------------------ MODULE MCLimits ------------------------------
(* A small instance of Limits for TLC. *)
EXTENDS Limits
LOCAL INSTANCE TLC

CONSTANTS s1, s2, b1

TwoSources == {s1, s2}
OneMailbox == {b1}
Swap       == Permutations(TwoSources)

\* Deposits to a single mailbox are switched off: a limit of 0.
Limits ==
  "create" :> 1 @@ "put" :> 1 @@ "deposit" :> 2 @@ "box_deposit" :> 0 @@ "ws" :> 1
=============================================================================
