---------------------------- MODULE MCNonceWindow ----------------------------
(* Instances of NonceWindow for TLC: a small base, starting just below a carry. *)
EXTENDS NonceWindow

CONSTANTS InitLow, InitUpper

MCInitNonce == [low |-> InitLow, upper |-> InitUpper]
=============================================================================
