---------------------------- MODULE MCConnection ----------------------------
(* Instances of Connection for TLC: Peer's worker and one or two threads of the application. *)
EXTENDS Connection, TLC

CONSTANTS app, worker, other

MCThreads == {app, worker}
MCThreads3 == {app, worker, other}
MCGarbage == 0 .. TimeoutsMod - 1
=============================================================================
