-------------------------------- MODULE MCNode --------------------------------
(* Instances of Node for TLC: one endpoint, behind which one client sits. *)
EXTENDS Node, TLC

CONSTANTS u1, u2, u3, e1, t1

MCOwner1 == e1 :> u1
=============================================================================
