----------------------------- MODULE MCRecovery -----------------------------
(* Small instances of Recovery for TLC. *)
EXTENDS Recovery
LOCAL INSTANCE TLC

NoFault == [k \in Fault |-> 0]
OneLoss == {("restart" :> 1) @@ NoFault}
Mixed == {("restart" :> 3) @@ NoFault,
          ("restart" :> 2 @@ "pace" :> 1) @@ NoFault,
          ("restart" :> 1 @@ "skip" :> 1) @@ NoFault,
          ("restart" :> 1 @@ "stop" :> 1) @@ NoFault,
          ("restart" :> 1 @@ "kill" :> 1) @@ NoFault,
          ("expire" :> 1 @@ "pace" :> 1 @@ "skip" :> 1) @@ NoFault}

Anyone == Party
OffererOnly == {Offerer}
=============================================================================
