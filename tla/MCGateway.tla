------------------------------ MODULE MCGateway ------------------------------
(***************************************************************************)
(* One kind of heartbeat, and either one command of each kind, or two      *)
(* fence commands: enough for a command to arrive while an older one of    *)
(* its kind is being relayed.                                              *)
(***************************************************************************)
EXTENDS Gateway

MCOneOfEach == [k \in Kind |-> 1]
MCTwoFences == [k \in Kind |-> IF k = "gps" THEN 0 ELSE 2]

=============================================================================
