------------------------------ MODULE Connection ------------------------------
(***************************************************************************)
(* mumble::Connection (src/src/Connection.cpp): the TLS handshake, the     *)
(* reading of packs and the writing of buffers that several threads        *)
(* perform on one connection under its recursive mutex, and the one entry  *)
(* point that takes no mutex: P::handleState, called by a worker thread of *)
(* Peer's TCP pool.  What the model is about is the m_closed flag, the     *)
(* callbacks it guards, and the m_timeouts counter.                        *)
(*                                                                         *)
(* A TLS call is atomic and may return any code SocketTLS can return.      *)
(* Bytes are left out here (Framing is about them).                        *)
(***************************************************************************)
EXTENDS Naturals, FiniteSets

CONSTANTS
    Threads,        \* the threads of the program that use the connection
    Worker,         \* the one of them that runs Peer's event handler for it
    NoThread,       \* nobody holds the mutex
    Timeouts,       \* what Feedback::timeouts() returns
    TimeoutsMod,    \* 2^w for the width w of m_timeouts
    Garbage,        \* values the uninitialised m_timeouts may hold
    MaxActivity     \* bound: how often the network makes progress

ASSUME ThreadsAssumption == Worker \in Threads /\ NoThread \notin Threads
ASSUME TimeoutsAssumption == /\ TimeoutsMod \in Nat \ {0}
                             /\ Timeouts \in 0 .. TimeoutsMod - 1
                             /\ Garbage \subseteq 0 .. TimeoutsMod - 1
ASSUME ActivityAssumption == MaxActivity \in Nat

VARIABLES
    owner,          \* holder of m_mutex
    pc,             \* pc[t][f]: where thread t is in function f; it runs the innermost
                    \* active function, a callback of the outer one is on the stack
    waiting,        \* waiting[t]: the monitor t is blocked on in handleWait
    note,           \* note[t]: code t won the right to report (m_closed was clear)
    code,           \* code[t]: what the last function t ran returned
    closed,         \* m_closed
    timeouts,       \* m_timeouts
    monitored,      \* the socket is in m_monitorIn and m_monitorOut
    registered,     \* the connection is in Peer's m_connections and monitor
    held,           \* Peer's worker: "none", "found" it in m_connections, or "reading" it
    halt,           \* Peer's m_halt, what the worker's halt predicate reads
    opened,         \* ghost: calls of opened()
    ended,          \* ghost: calls of closed() and failed()
    how,            \* ghost: the last of these calls
    expired,        \* ghost: waits that timed out since the last TLS call that succeeded,
                    \* up to TimeoutsMod
    activity        \* bound: network progress left

tlsVars     == <<timeouts, expired, activity>>
peerVars    == <<registered, held, halt>>
sessionVars == <<closed, opened, ended, how>>
callVars    == <<owner, pc, waiting, note, code, monitored>>
vars        == <<callVars, sessionVars, tlsVars, peerVars>>

-----------------------------------------------------------------------------
(* Codes *)

\* SocketTLS::Code, as TLS.cpp produces it.
TLSCodes == {"Memory", "Failure", "Unknown", "Success", "Retry", "Shutdown", "WaitIn", "WaitOut"}

\* Mutant: the close of the peer is not translated.
interpretTLSCodeNoShutdown(c) == IF c \in {"WaitIn", "WaitOut"} THEN "Busy" ELSE c

\* P::interpretTLSCode.
interpretTLSCode(c) ==
    CASE c = "Shutdown"               -> "Disconnect"
      [] c \in {"WaitIn", "WaitOut"}  -> "Busy"
      [] OTHER                        -> c

\* The codes after which handleCode reports closed() or failed().
Fatal == {"Disconnect", "Memory", "Failure", "Unknown", "Timeout", "Invalid"}

Codes == Fatal \cup {"Success", "Retry", "Busy", "Cancel"}

\* Monitor::Event::State, the flags waitEpoll sets for a socket.
Flags == {"InReady", "OutReady", "Disconnected", "Error"}

\* The code P::handleState returns.
handleState(state) ==
    IF "Disconnected" \in state THEN "Disconnect"
    ELSE IF "Error" \in state THEN "Failure"
    ELSE IF state \cap {"InReady", "OutReady"} # {} THEN "Retry"
    ELSE "Unknown"

\* The callback that reports a code.
Callback(c) == IF c = "Disconnect" THEN "closed" ELSE "failed"

-----------------------------------------------------------------------------
(* The call stack of a thread *)

\* A function on the stack of a thread is inside a callback of its own when the
\* thread runs another function.  Outermost first.
Functions == {"connect", "process", "write", "event"}

Inner(f) == CASE f = "connect" -> {"process", "write"}
              [] f = "process" -> {"write"}
              [] OTHER         -> {}

\* Points at which a function calls SocketTLS.
IOPoints == {"handshake", "header", "body", "data"}

PCs == IOPoints \cup {"idle", "opening", "opened", "pack", "more", "report"}

\* Thread t executes function f.
Runs(t, f) == pc[t][f] # "idle" /\ \A g \in Inner(f) : pc[t][g] = "idle"

\* Thread t executes no function of the connection.
Idle(t) == \A f \in Functions : pc[t][f] = "idle"

\* Functions that hold the mutex for as long as they run.
Locking == {"connect", "process", "write"}

\* Mutant: no lock_guard.
FreeAlways(t) == TRUE

Free(t) == owner \in {t, NoThread}

\* Thread t is inside the application's opened() or pack().
InOpened(t) == Runs(t, "connect") /\ pc[t]["connect"] = "opened"
InPack(t)   == Runs(t, "process") /\ pc[t]["process"] = "pack"

Goto(t, f, point) == pc' = [pc EXCEPT ![t][f] = point]

\* The lock_guard of the outermost function releases the mutex.
Released(t, f) ==
    IF \A g \in Locking \ {f} : pc[t][g] = "idle" THEN NoThread ELSE owner

Return(t, f, c) ==
    /\ Goto(t, f, "idle")
    /\ code' = [code EXCEPT ![t] = c]
    /\ owner' = IF f \in Locking THEN Released(t, f) ELSE owner

\* Only Peer's worker passes wait = false, and only it passes a halt predicate
\* that may ever be true.
Waits(t) == t # Worker \/ pc[t]["write"] # "idle"

Halted(t) == ~Waits(t) /\ halt

-----------------------------------------------------------------------------
(* Initial state: the constructor has set m_closed, m_timeouts is whatever *)
(* the memory held.                                                        *)

Init ==
    /\ owner = NoThread
    /\ pc = [t \in Threads |-> [f \in Functions |-> "idle"]]
    /\ waiting = [t \in Threads |-> "none"]
    /\ note = [t \in Threads |-> "none"]
    /\ code = [t \in Threads |-> "Success"]
    /\ closed = TRUE
    /\ timeouts \in Garbage
    /\ monitored = FALSE
    /\ registered = FALSE /\ held = "none" /\ halt = FALSE
    /\ opened = 0 /\ ended = 0 /\ how = "none"
    /\ expired = 0
    /\ activity = MaxActivity

-----------------------------------------------------------------------------
(* Reporting the end of the connection *)

\* Mutant: m_closed is not consulted.
EndUnconditional(t, f, c) ==
    /\ closed' = TRUE
    /\ note' = [note EXCEPT ![t] = c]
    /\ Goto(t, f, "report")
    /\ UNCHANGED <<owner, code, opened, ended, how>>

\* Mutant: m_closed is tested but not set.
EndTestOnly(t, f, c) ==
    /\ IF closed
       THEN Return(t, f, c) /\ UNCHANGED note
       ELSE /\ note' = [note EXCEPT ![t] = c]
            /\ Goto(t, f, "report")
            /\ UNCHANGED <<owner, code>>
    /\ UNCHANGED <<closed, opened, ended, how>>

\* Mutant: the winner forgets the callback.
EndSilent(t, f, c) ==
    /\ closed' = TRUE
    /\ Return(t, f, c)
    /\ UNCHANGED <<note, opened, ended, how>>

\* `if (!m_closed.test_and_set())`: the winner reports, everybody else returns.
End(t, f, c) ==
    /\ closed' = TRUE
    /\ IF closed
       THEN Return(t, f, c) /\ UNCHANGED note
       ELSE /\ note' = [note EXCEPT ![t] = c]
            /\ Goto(t, f, "report")
            /\ UNCHANGED <<owner, code>>
    /\ UNCHANGED <<opened, ended, how>>

\* m_feedback.closed() or m_feedback.failed(code), in which the application may
\* remove the connection from Peer; then the function returns the code.
Report(t, f) ==
    /\ Runs(t, f)
    /\ pc[t][f] = "report"
    /\ ended' = ended + 1
    /\ how' = Callback(note[t])
    /\ note' = [note EXCEPT ![t] = "none"]
    /\ registered' \in {registered, FALSE}
    /\ Return(t, f, note[t])
    /\ UNCHANGED <<waiting, monitored, closed, opened, tlsVars, held, halt>>

-----------------------------------------------------------------------------
(* handleCode and handleWait, around every TLS call *)

Progress == activity > 0 /\ activity' = activity - 1

\* The function goes on after handleCode returned Success.
Succeed(t, f) ==
    CASE pc[t][f] = "handshake" -> /\ Goto(t, f, "opening")
                                   /\ closed' = FALSE
                                   /\ UNCHANGED <<owner, code, note, opened, ended, how>>
      [] pc[t][f] = "header"    -> \/ /\ \E next \in {"body", "pack"} : Goto(t, f, next)
                                      /\ UNCHANGED <<owner, code, note, sessionVars>>
                                   \/ End(t, f, "Invalid")     \* header.size exceeds 65535
      [] pc[t][f] = "body"      -> /\ Goto(t, f, "pack")
                                   /\ UNCHANGED <<owner, code, note, sessionVars>>
      [] pc[t][f] = "data"      -> Return(t, f, "Success") /\ UNCHANGED <<note, sessionVars>>

\* Thread t is about to call SocketTLS in f, or blocked in the wait after a call.
AtIO(t, f)    == Runs(t, f) /\ pc[t][f] \in IOPoints /\ waiting[t] = "none"
Blocked(t, f) == Runs(t, f) /\ pc[t][f] \in IOPoints /\ waiting[t] # "none"

\* The loops of operator(), P::read and P::write look at halt first.
Cancel(t, f) ==
    /\ AtIO(t, f)
    /\ Halted(t)
    /\ Return(t, f, "Cancel")
    /\ UNCHANGED <<waiting, note, monitored, sessionVars, tlsVars, peerVars>>

\* Mutant: m_timeouts is not reset.
CallSuccessKeepsCount(t, f) ==
    /\ AtIO(t, f) /\ ~Halted(t)
    /\ Progress
    /\ expired' = 0
    /\ Succeed(t, f)
    /\ UNCHANGED <<waiting, monitored, timeouts, peerVars>>

CallSuccess(t, f) ==
    /\ AtIO(t, f) /\ ~Halted(t)
    /\ Progress
    /\ timeouts' = 0 /\ expired' = 0
    /\ Succeed(t, f)
    /\ UNCHANGED <<waiting, monitored, peerVars>>

\* Part of the buffer is done, or the system call was interrupted.
CallRetry(t, f) ==
    /\ AtIO(t, f) /\ ~Halted(t)
    /\ Progress
    /\ UNCHANGED <<callVars, sessionVars, timeouts, expired, peerVars>>

CallBusy(t, f) ==
    /\ AtIO(t, f) /\ ~Halted(t)
    /\ \/ /\ Waits(t)
          /\ \E c \in {"WaitIn", "WaitOut"} : waiting' = [waiting EXCEPT ![t] = c]
          /\ UNCHANGED <<pc, owner, code>>
       \/ /\ ~Waits(t)
          /\ Return(t, f, "Busy")
          /\ UNCHANGED waiting
    /\ UNCHANGED <<note, monitored, sessionVars, tlsVars, peerVars>>

\* The Disconnect case falls through to the reset of m_timeouts.
CallFatal(t, f) ==
    /\ AtIO(t, f) /\ ~Halted(t)
    /\ \E c \in {"Memory", "Failure", "Unknown", "Shutdown"} :
         LET ret == interpretTLSCode(c) IN
         /\ End(t, f, ret)
         /\ timeouts' = IF ret = "Disconnect" THEN 0 ELSE timeouts
    /\ UNCHANGED <<waiting, monitored, expired, activity, peerVars>>

\* Mutant: the count does not grow.
IncrementedStuck == timeouts

\* ++m_timeouts
Incremented == (timeouts + 1) % TimeoutsMod

\* Monitor::wait returned no event in time.
WaitTimeout(t, f) ==
    /\ Blocked(t, f)
    /\ waiting' = [waiting EXCEPT ![t] = "none"]
    /\ timeouts' = Incremented
    /\ expired' = IF expired < TimeoutsMod THEN expired + 1 ELSE expired
    /\ IF Incremented < Timeouts
       THEN UNCHANGED <<pc, owner, code, note, sessionVars>>
       ELSE End(t, f, "Timeout")
    /\ UNCHANGED <<monitored, activity, peerVars>>

\* Monitor::wait returned an event: handleState, then the rest of handleCode.
WaitEvent(t, f) ==
    /\ Blocked(t, f)
    /\ waiting' = [waiting EXCEPT ![t] = "none"]
    /\ \E state \in SUBSET Flags :
         /\ "InReady" \in state => waiting[t] = "WaitIn"
         /\ "OutReady" \in state => waiting[t] = "WaitOut"
         /\ state # {}
         /\ LET ret == handleState(state) IN
            IF ret = "Retry"
            THEN Progress /\ UNCHANGED <<pc, owner, code, note, sessionVars, timeouts>>
            ELSE /\ End(t, f, ret)
                 /\ timeouts' = IF ret = "Disconnect" THEN 0 ELSE timeouts
                 /\ UNCHANGED activity
    /\ UNCHANGED <<monitored, expired, peerVars>>

-----------------------------------------------------------------------------
(* Connection::operator(), process() and write() *)

Enter(t, f, point) ==
    /\ Free(t)
    /\ owner' = t
    /\ Goto(t, f, point)

\* A handshake is begun at most once: a second attempt finds the socket in the
\* monitors.
Connect(t) ==
    /\ t # Worker /\ Idle(t)
    /\ \/ /\ ~monitored
          /\ monitored' = TRUE
          /\ Enter(t, "connect", "handshake")
          /\ UNCHANGED code
       \/ /\ monitored
          /\ Free(t)
          /\ code' = [code EXCEPT ![t] = "Failure"]
          /\ UNCHANGED <<monitored, owner, pc>>
    /\ UNCHANGED <<waiting, note, sessionVars, tlsVars, peerVars>>

\* m_feedback.opened() is entered.
Opened(t) ==
    /\ Runs(t, "connect")
    /\ pc[t]["connect"] = "opening"
    /\ Goto(t, "connect", "opened")
    /\ opened' = opened + 1
    /\ UNCHANGED <<owner, waiting, note, code, monitored, closed, ended, how, tlsVars, peerVars>>

\* m_feedback.opened() returned.
ConnectDone(t) ==
    /\ InOpened(t)
    /\ Return(t, "connect", "Success")
    /\ UNCHANGED <<waiting, note, monitored, sessionVars, tlsVars, peerVars>>

\* The application calls from outside or from inside opened().
MayCall(t) ==
    /\ opened > 0
    /\ t # Worker
    /\ Idle(t) \/ InOpened(t)

Process(t) ==
    /\ MayCall(t)
    /\ Enter(t, "process", "header")
    /\ UNCHANGED <<waiting, note, code, monitored, sessionVars, tlsVars, peerVars>>

\* Besides, an application writes from inside pack().
Write(t) ==
    /\ \/ MayCall(t)
       \/ Runs(t, "process") /\ pc[t]["process"] = "pack"
    /\ Enter(t, "write", "data")
    /\ UNCHANGED <<waiting, note, code, monitored, sessionVars, tlsVars, peerVars>>

\* m_feedback.pack() returned.
PackDone(t) ==
    /\ InPack(t)
    /\ Goto(t, "process", "more")
    /\ UNCHANGED <<owner, waiting, note, code, monitored, sessionVars, tlsVars, peerVars>>

\* `while (pending() >= sizeof(NetHeader))`.
More(t) ==
    /\ Runs(t, "process")
    /\ pc[t]["process"] = "more"
    /\ \/ Goto(t, "process", "header") /\ UNCHANGED <<owner, code>>
       \/ Return(t, "process", "Success")
    /\ UNCHANGED <<waiting, note, monitored, sessionVars, tlsVars, peerVars>>

-----------------------------------------------------------------------------
(* Peer: registration, and the worker that handles an event *)

\* Peer::addTCP, called by opened() or after operator() returned Success.
Add(t) ==
    /\ opened > 0
    /\ t # Worker
    /\ Idle(t) \/ InOpened(t)
    /\ registered' = TRUE
    /\ UNCHANGED <<callVars, sessionVars, tlsVars, held, halt>>

\* Peer::stop.
Stop ==
    /\ ~halt
    /\ halt' = TRUE
    /\ UNCHANGED <<callVars, sessionVars, tlsVars, registered, held>>

\* An event for the socket, and its lookup in m_connections under Peer's mutex.
WorkerLookup ==
    /\ registered /\ ~halt
    /\ held = "none" /\ Idle(Worker)
    /\ held' = "found"
    /\ UNCHANGED <<callVars, sessionVars, tlsVars, registered, halt>>

\* The event has Disconnected or Error: handleState, without the mutex.
WorkerState ==
    /\ held = "found"
    /\ held' = "none"
    /\ \E state \in {{"Disconnected"}, {"Error"}} : End(Worker, "event", handleState(state))
    /\ UNCHANGED <<waiting, monitored, tlsVars, registered, halt>>

\* The event has InReady: process(false, halt), again while it succeeds.
WorkerProcess ==
    /\ \/ held = "found"
       \/ held = "reading" /\ Idle(Worker) /\ code[Worker] = "Success"
    /\ held' = "reading"
    /\ Enter(Worker, "process", "header")
    /\ UNCHANGED <<waiting, note, code, monitored, sessionVars, tlsVars, registered, halt>>

\* process() did not succeed: the event is done with.
WorkerDone ==
    /\ held = "reading" /\ Idle(Worker)
    /\ code[Worker] # "Success"
    /\ held' = "none"
    /\ UNCHANGED <<callVars, sessionVars, tlsVars, registered, halt>>

-----------------------------------------------------------------------------

\* A step of a function that thread t is executing.
Step(t) ==
    \/ \E f \in Functions : \/ Cancel(t, f) \/ CallSuccess(t, f) \/ CallRetry(t, f)
                            \/ CallBusy(t, f) \/ CallFatal(t, f)
                            \/ WaitTimeout(t, f) \/ WaitEvent(t, f)
                            \/ Report(t, f)
    \/ Opened(t)
    \/ More(t)

\* A callback of the application returns.
CallbackDone(t) == ConnectDone(t) \/ PackDone(t)

\* The application calls the library.
Call(t) == Connect(t) \/ Process(t) \/ Write(t) \/ Add(t)

PeerStep == WorkerLookup \/ WorkerState \/ WorkerProcess \/ WorkerDone

Next ==
    \/ \E t \in Threads : Step(t) \/ CallbackDone(t) \/ Call(t)
    \/ PeerStep
    \/ Stop

Spec == Init /\ [][Next]_vars

\* The operating system schedules every thread that can run, and callbacks of
\* the application return.
Fairness == \A t \in Threads : WF_vars(Step(t)) /\ SF_vars(CallbackDone(t))

FairSpec == Spec /\ Fairness

-----------------------------------------------------------------------------
(* Properties *)

TypeOK ==
    /\ owner \in Threads \cup {NoThread}
    /\ pc \in [Threads -> [Functions -> PCs]]
    /\ waiting \in [Threads -> {"none", "WaitIn", "WaitOut"}]
    /\ note \in [Threads -> Fatal \cup {"none"}]
    /\ code \in [Threads -> Codes]
    /\ closed \in BOOLEAN
    /\ timeouts \in 0 .. TimeoutsMod - 1
    /\ monitored \in BOOLEAN
    /\ registered \in BOOLEAN
    /\ held \in {"none", "found", "reading"}
    /\ halt \in BOOLEAN
    /\ opened \in Nat
    /\ ended \in Nat
    /\ how \in {"none", "closed", "failed"}
    /\ expired \in 0 .. TimeoutsMod
    /\ activity \in 0 .. MaxActivity

\* Threads between winning m_closed.test_and_set() and the end of the callback.
Notifying == {t \in Threads : note[t] # "none"}

\* The handshake succeeded.
Established == opened > 0 \/ \E t \in Threads : pc[t]["connect"] = "opening"

\* The end has been reported once, or one thread is about to report it.
EndOnce ==
    \/ ended = 1 /\ Notifying = {}
    \/ ended = 0 /\ \E t \in Threads : Notifying = {t}

\* m_closed tells exactly whether the end of the connection is still to be
\* reported: while it is clear nobody has reported or is about to, and once it is
\* set after the handshake exactly one thread has reported or is about to, no
\* matter how handleState in Peer's worker interleaves with the calls that hold
\* the mutex.
EndAccounted ==
    /\ ~closed => Established /\ ended = 0 /\ Notifying = {}
    /\ closed /\ Established => EndOnce
    /\ ~Established => ended = 0 /\ Notifying = {}

\* The application sees the callbacks of a session in the order and as often as
\* Session tells: every call counts, so a second opened(), or a second closed() or
\* failed(), would be a step that Session has no action for.
Sess == INSTANCE Session WITH opened <- opened, ended <- ended, how <- how
SessionSpec == Sess!SessionSpec

\* process() and write() return a fatal code only on a connection whose end is
\* reported or being reported, so a caller that sees one may rely on
\* closed()/failed() to clean up, as ExampleServer's Node does.
FatalReturnEnds ==
    [][\A t \in Threads, f \in {"process", "write"} :
          (pc[t][f] # "idle" /\ pc'[t][f] = "idle" /\ code'[t] \in Fatal) => closed']_vars

\* failed(Timeout) is called only after Feedback::timeouts() waits have timed out
\* since the last TLS call that succeeded, whatever m_timeouts held when it was
\* constructed.  Not in a row: a wait that ends with an event resets nothing, the
\* success of the call it is followed by does.  If that call comes to nothing (Retry,
\* or one that would block again), the timeouts before and after the event add up.
TimeoutsSinceSuccess == \A t \in Threads : note[t] = "Timeout" => expired >= Timeouts

\* opened(), pack() and the reading and writing between them are never executed by
\* two threads at once: the two buffers of SSL and the application's state for the
\* connection have one user.
Serialised ==
    \A t, u \in Threads : t # u =>
        ~ ((\E f \in Locking : pc[t][f] # "idle") /\ (\E f \in Locking : pc[u][f] # "idle"))

\* Once m_closed is set again the application learns of the end.
EndIsReported == opened > 0 /\ closed ~> ended > 0

\* When Feedback::timeout is set and the peer falls silent, every call returns:
\* a thread is outside the connection again and again.
CallsReturn == \A t \in Threads : []<>Idle(t)
=============================================================================
