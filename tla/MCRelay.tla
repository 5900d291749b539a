------------------------------- MODULE MCRelay -------------------------------
(* Small instances of Relay for TLC. *)
EXTENDS Relay

CONSTANTS c1, c2

MCConn  == {c1, c2}
OneConn == {c1}
=============================================================================
