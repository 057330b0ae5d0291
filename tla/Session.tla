------------------------------- MODULE Session -------------------------------
(***************************************************************************)
(* What a Connection promises the application that owns it, told only by   *)
(* the callbacks of Connection::Feedback (include/mumble/Connection.hpp):  *)
(* opened() is called at most once; after it, exactly one of closed() and  *)
(* failed() may be called, once; neither is ever called before opened().   *)
(* The calls are counted, so that a repeated one is a step of its own,     *)
(* which no action here allows.                                            *)
(***************************************************************************)
EXTENDS Naturals

VARIABLES
    opened,     \* calls of opened()
    ended,      \* calls of closed() and failed()
    how         \* the last of these: "none", "closed" or "failed"

sessionVars == <<opened, ended, how>>

SessionInit == opened = 0 /\ ended = 0 /\ how = "none"

\* The opened() callback.
Open == opened = 0 /\ ended = 0 /\ opened' = 1 /\ UNCHANGED <<ended, how>>

\* The session ends, once.
Ends == opened = 1 /\ ended = 0 /\ ended' = 1 /\ opened' = opened

\* The closed() callback.
Close == Ends /\ how' = "closed"

\* The failed(code) callback.
Fail == Ends /\ how' = "failed"

SessionNext == Open \/ Close \/ Fail

SessionSpec == SessionInit /\ [][SessionNext]_sessionVars
=============================================================================
