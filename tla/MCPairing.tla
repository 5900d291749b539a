------------------------------ MODULE MCPairing ------------------------------
(* Pairing with two offers and two devices that scan them. *)
EXTENDS Pairing

\* Each scenario lets the named faults strike.
Only(ks) == [k \in Fault |-> IF k \in ks THEN 1 ELSE 0]
Scenarios == {Only({}), Only({"create", "stray"}), Only({"deposit", "restart"}),
              Only({"timeout", "sync", "stop"})}
\* One clock is right and the other a second behind.
One == CHOOSE r \in Scanner : TRUE
Skewed == {[r \in Scanner |-> IF r = One THEN -1 ELSE 0]}
=============================================================================
