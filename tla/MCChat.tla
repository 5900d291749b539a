------------------------------- MODULE MCChat -------------------------------
(* Small instances of Chat for TLC. *)
EXTENDS Chat
LOCAL INSTANCE TLC

\* How many messages device 1 and device 2 send.
TwoNone == <<2, 0>>
OneTwo  == <<1, 2>>

NoFault   == [k \in Fault |-> 0]
EachFault == [k \in Fault |-> 1]

\* The network is unreliable; both processes live and their stores work.
Network == ("drop" :> 2 @@ "refuse" :> 1 @@ "reject" :> 1) @@ NoFault

\* The sending tasks are alike.
Taps == Permutations(Sender)
=============================================================================
