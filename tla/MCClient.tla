------------------------------ MODULE MCClient ------------------------------
(* Client with two application threads and two conversations. *)
EXTENDS Client
=============================================================================
