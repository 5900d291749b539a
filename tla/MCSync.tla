------------------------------- MODULE MCSync -------------------------------
(* Small instances of SyncShell for TLC. *)
EXTENDS SyncShell
LOCAL INSTANCE TLC

CONSTANT launch

OneCaller == {launch}

\* The start-stop cycles of SyncServiceLifecycleTest.
Cycles == launch :> <<"start", "stop", "start", "stop", "start">>
=============================================================================
