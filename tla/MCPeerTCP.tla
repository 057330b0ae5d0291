------------------------------ MODULE MCPeerTCP ------------------------------
(* Instances of PeerTCP for TLC: a few descriptor numbers. *)
EXTENDS PeerTCP, TLC

CONSTANTS f1, f2, f3

MCSymmetry == Permutations(FDs)
=============================================================================
