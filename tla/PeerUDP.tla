------------------------------- MODULE PeerUDP -------------------------------
(***************************************************************************)
(* The UDP side of mumble::Peer (src/src/Peer.cpp, src/src/UDP.cpp): one   *)
(* thread waits on a monitor of its own, reads every datagram there is and *)
(* hands it to the callback it looks to be for, while a control thread     *)
(* starts and stops it and gives it a socket.                              *)
(***************************************************************************)
EXTENDS Monitor, Sequences

CONSTANTS
    NoFD,           \* there is no Socket
    Invalid,        \* the Socket has no descriptor
    MaxQueue        \* bound: datagrams in the socket's buffer

ASSUME UDPAssumption ==
    /\ NoFD \notin FDs \cup {Trigger, Invalid} /\ Invalid \notin FDs \cup {Trigger}
    /\ MaxQueue \in Nat \ {0}

VARIABLES
    control,        \* where stop() is: "outside", "halting" or "joining"
    thread,         \* m_thread is set
    halt,           \* m_halt
    socket, bound,  \* m_socket, and whether the last bind() returned Success
    taken,          \* descriptors the rest of the process has open
    loop,           \* where threadFunc is
    event,          \* what event.state says
    handed,         \* the callback that runs
    errno,          \* errno of the thread
    told,           \* ghost: the last of started(), failed() and stopped() to be called
    queue           \* environment: datagrams that arrived

controlVars == <<control, thread, halt, socket, bound, taken>>
loopVars    == <<loop, event, handed, errno, told>>
vars        == <<monitorVars, ready, controlVars, loopVars, queue>>

\* What the thread looks at: whether there is a byte, whether the first is that of a Ping,
\* whether the rest parses as one, and whether size and first field are those of an
\* unencrypted legacy ping.
Datagram ==
    {d \in [bytes : BOOLEAN, type : BOOLEAN, parses : BOOLEAN, plain : BOOLEAN] :
        (d.parses => d.type) /\ (d.type \/ d.plain => d.bytes)}

\* The callbacks; what an encrypted packet looks like by chance goes to the wrong one.
Callback(d) ==
    IF d.type /\ d.parses THEN "ping" ELSE IF d.plain THEN "legacyPing" ELSE "encrypted"

Init ==
    /\ MonitorInit
    /\ control = "outside" /\ thread = FALSE /\ halt = FALSE
    /\ socket = NoFD /\ bound = FALSE /\ taken = {}
    /\ loop = "none" /\ event = "none" /\ handed = "nobody" /\ errno = "zero" /\ told = "nothing"
    /\ queue = <<>>

-----------------------------------------------------------------------------
(* The control thread: start(), stop(), bind(), unbind() *)

\* Busy while there is a thread, Init without a socket.
Start ==
    /\ control = "outside" /\ ~thread /\ socket # NoFD
    /\ thread' = TRUE /\ halt' = FALSE
    /\ loop' = "created" /\ event' = "none" /\ errno' = "zero" /\ told' = "nothing"
    /\ UNCHANGED <<monitorVars, ready, control, socket, bound, taken, handed, queue>>

StopHalt ==
    /\ control = "outside" /\ thread
    /\ control' = "halting" /\ halt' = TRUE
    /\ UNCHANGED <<monitorVars, ready, thread, socket, bound, taken, loopVars, queue>>

\* Mutant: the loop is not woken up.
StopTriggerMissing ==
    /\ control = "halting"
    /\ control' = "joining"
    /\ UNCHANGED <<monitorVars, ready, thread, halt, socket, bound, taken, loopVars, queue>>

StopTrigger ==
    /\ control = "halting"
    /\ control' = "joining"
    /\ SendTrigger
    /\ UNCHANGED <<fds, polled, ready, thread, halt, socket, bound, taken, loopVars, queue>>

\* Mutant: stop() does not wait for the thread.
StopJoinDetach ==
    /\ control = "joining"
    /\ control' = "outside" /\ thread' = FALSE
    /\ UNCHANGED <<monitorVars, ready, halt, socket, bound, taken, loopVars, queue>>

StopJoin ==
    /\ control = "joining" /\ loop = "exited"
    /\ control' = "outside" /\ thread' = FALSE
    /\ loop' = "none"
    /\ UNCHANGED <<monitorVars, ready, halt, socket, bound, taken, event, handed, errno, told, queue>>

Open == taken \cup ({socket} \ {NoFD, Invalid})

\* A new socket takes the place of the old one, which is closed: the kernel forgets it and
\* what waited in it, m_fds does not.
Replace(fd) ==
    /\ socket' = fd
    /\ ready' = [d \in FDs |-> "quiet"]
    /\ queue' = <<>>
    /\ UNCHANGED <<triggers, control, thread, halt, taken, loopVars>>

\* Mutant: the result of Monitor::add() is ignored.
BindUnchecked(fd) ==
    /\ control = "outside" /\ ~thread
    /\ fd \in FDs \ Open
    /\ Replace(fd)
    /\ fds' = fds \cup {fd}
    /\ polled' = (polled \ {socket}) \cup IF CanAdd(fd) THEN {fd} ELSE {}
    /\ bound' \in BOOLEAN

\* Failure for a number that m_fds still has; setEndpoint() may fail after that.
Bind(fd) ==
    /\ control = "outside" /\ ~thread
    /\ fd \in FDs \ Open
    /\ Replace(fd)
    /\ fds' = fds \cup {fd}
    /\ polled' = (polled \ {socket}) \cup IF CanAdd(fd) THEN {fd} ELSE {}
    /\ bound' \in IF CanAdd(fd) THEN BOOLEAN ELSE {FALSE}

\* No descriptor is left: m_socket is a Socket without one, which start() takes.
BindNoFD ==
    /\ control = "outside" /\ ~thread /\ FDs = Open
    /\ Replace(Invalid)
    /\ polled' = polled \ {socket} /\ bound' = FALSE
    /\ UNCHANGED fds

Unbind ==
    /\ control = "outside" /\ ~thread /\ socket # NoFD
    /\ Replace(NoFD)
    /\ polled' = polled \ {socket} /\ bound' = FALSE
    /\ UNCHANGED fds

\* The rest of the process opens and closes descriptors.
Elsewhere(fd) ==
    /\ fd \in FDs \ {socket}
    /\ taken' = IF fd \in taken THEN taken \ {fd} ELSE taken \cup {fd}
    /\ UNCHANGED <<monitorVars, ready, control, thread, halt, socket, bound, loopVars, queue>>

-----------------------------------------------------------------------------
(* threadFunc *)

Goto(from, to) == loop = from /\ loop' = to

keepControl == <<monitorVars, controlVars>>

\* The callback may leave any error in errno.
Started ==
    /\ Goto("created", "check")
    /\ told' = "started"
    /\ errno' \in {errno, "again", "other"}
    /\ UNCHANGED <<keepControl, ready, event, handed, queue>>

\* `while (!m_halt)`, and the event of the last wait.
Check ==
    /\ Goto("check", CASE halt -> "stopping" [] ~halt /\ event = "error" -> "exited"
                       [] ~halt /\ event = "in" -> "read" [] OTHER -> "wait")
    /\ told' = IF ~halt /\ event = "error" THEN "failed" ELSE told
    /\ UNCHANGED <<keepControl, ready, event, handed, errno, queue>>

\* After the last datagram the socket has nothing to report but an error.
Drained(fd) == [ready EXCEPT ![fd] = IF Len(queue) = 1 /\ @ = "in" THEN "quiet" ELSE @]

\* SocketUDP::read() returns Success: a datagram that has at least one byte.
ReadDatagram ==
    /\ Goto("read", "hand")
    /\ ready[socket] # "hup" /\ queue # <<>> /\ Head(queue).bytes
    /\ handed' = Callback(Head(queue))
    /\ queue' = Tail(queue) /\ ready' = Drained(socket)
    /\ UNCHANGED <<keepControl, event, errno, told>>

\* recvfrom() returns 0 for an empty datagram, and the code is made of the errno of
\* some earlier call: Success while there was none, and the buffer, at its full size, holds
\* what was read before.
ReadEmpty ==
    /\ loop = "read"
    /\ ready[socket] # "hup" /\ queue # <<>> /\ ~Head(queue).bytes
    /\ queue' = Tail(queue) /\ ready' = Drained(socket)
    /\ \/ /\ errno = "zero"
          /\ Goto("read", "hand")
          /\ handed' \in {"ping", "encrypted"}
          /\ UNCHANGED <<event, told>>
       \/ /\ errno \in {"again", "other"}
          /\ Goto("read", "check")
          /\ event' = "none"
          /\ UNCHANGED <<handed, told>>
       \/ /\ errno = "other"
          /\ Goto("read", "exited")
          /\ told' = "failed"
          /\ UNCHANGED <<event, handed>>
    /\ UNCHANGED <<keepControl, errno>>

\* recvfrom() has nothing more.
ReadNothing ==
    /\ Goto("read", "check")
    /\ ready[socket] # "hup" /\ queue = <<>>
    /\ event' = "none" /\ errno' = "again"
    /\ UNCHANGED <<keepControl, ready, handed, told, queue>>

\* An error of the socket, which recvfrom() takes.
ReadError ==
    /\ Goto("read", "exited")
    /\ ready[socket] = "hup"
    /\ ready' = [ready EXCEPT ![socket] = IF queue = <<>> THEN "quiet" ELSE "in"]
    /\ errno' = "other" /\ told' = "failed"
    /\ UNCHANGED <<keepControl, event, handed, queue>>

\* The callback returns; what it called may have left any error in errno.
Return ==
    /\ Goto("hand", "read")
    /\ handed' = "nobody"
    /\ errno' \in {errno, "again", "other"}
    /\ UNCHANGED <<keepControl, ready, event, told, queue>>

\* Mutant: the trigger is not taken out of the socket pair.
WaitKeepsTrigger ==
    /\ Goto("wait", "check")
    /\ \E set \in Reports(1) :
         /\ set # {}
         /\ event' = IF Trigger \in set THEN "none" ELSE IF ready[socket] = "hup" THEN "error" ELSE "in"
    /\ UNCHANGED <<keepControl, ready, handed, errno, told, queue>>

\* Monitor::wait with room for one event: the socket's or the trigger's, as the kernel orders
\* them.
Wait ==
    /\ Goto("wait", "check")
    /\ \E set \in Reports(1) :
         /\ set # {}
         /\ Untrigger(set)
         /\ event' = IF Trigger \in set THEN "none" ELSE IF ready[socket] = "hup" THEN "error" ELSE "in"
    /\ UNCHANGED <<fds, polled, controlVars, ready, handed, errno, told, queue>>

\* Feedback::timeout() elapsed; the event is what it was.
WaitTimeout ==
    /\ Signalled = {}
    /\ Goto("wait", "check")
    /\ UNCHANGED <<keepControl, ready, event, handed, errno, told, queue>>

Stopped ==
    /\ Goto("stopping", "exited")
    /\ told' = "stopped"
    /\ UNCHANGED <<keepControl, ready, event, handed, errno, queue>>

-----------------------------------------------------------------------------
(* The network *)

Arrive(d) ==
    /\ bound /\ Len(queue) < MaxQueue
    /\ queue' = Append(queue, d)
    /\ ready' = [ready EXCEPT ![socket] = IF @ = "quiet" THEN "in" ELSE @]
    /\ UNCHANGED <<keepControl, loopVars>>

ArriveAny == \E d \in Datagram : Arrive(d)

\* An answer that nobody listens at an address something was sent to.
Unreachable ==
    /\ bound
    /\ ready' = [ready EXCEPT ![socket] = "hup"]
    /\ UNCHANGED <<keepControl, loopVars, queue>>

-----------------------------------------------------------------------------

LoopStep ==
    \/ Started \/ Check \/ Wait \/ Stopped
    \/ ReadDatagram \/ ReadEmpty \/ ReadNothing \/ ReadError \/ Return

StopStep == StopTrigger \/ StopJoin

Next ==
    \/ Start \/ StopHalt \/ StopStep \/ Unbind \/ BindNoFD
    \/ \E fd \in FDs : Bind(fd) \/ Elsewhere(fd)
    \/ LoopStep \/ WaitTimeout
    \/ ArriveAny
    \/ Unreachable

Spec == Init /\ [][Next]_vars

\* The thread runs and its callbacks return; stop() goes on once it is called.
FairSpec == Spec /\ WF_vars(LoopStep) /\ WF_vars(StopStep)

-----------------------------------------------------------------------------
(* Properties *)

TypeOK ==
    /\ fds \subseteq FDs \cup {Trigger} /\ polled \subseteq fds
    /\ triggers \in 0 .. MaxTriggers /\ ready \in [FDs -> Conditions]
    /\ control \in {"outside", "halting", "joining"}
    /\ thread \in BOOLEAN /\ halt \in BOOLEAN /\ bound \in BOOLEAN
    /\ socket \in FDs \cup {NoFD, Invalid} /\ taken \subseteq FDs \ {socket}
    /\ loop \in {"none", "created", "check", "read", "hand", "wait", "stopping", "exited"}
    /\ event \in {"none", "in", "error"} /\ errno \in {"zero", "again", "other"}
    /\ told \in {"nothing", "started", "failed", "stopped"}
    /\ handed \in {"nobody", "ping", "legacyPing", "encrypted"}
    /\ queue \in Seq(Datagram) /\ Len(queue) <= MaxQueue

\* When stop() has returned there is no thread and no callback runs: the feedback and the
\* socket may be replaced.
QuietAfterStop == control = "outside" /\ ~thread => loop = "none" /\ handed = "nobody"

\* A socket bind() answered Success for is waited for, however often sockets were bound and
\* given up before and whatever numbers the kernel gave out again.
BoundIsPolled == bound => socket \in polled

\* stop() returns once its trigger is sent, unless datagrams come without end: the loop that
\* reads does not look at m_halt before it finds the socket empty.
StopReturns ==
    \/ control = "joining" ~> control = "outside"
    \/ []<><<ArriveAny>>_vars

\* While a datagram waits the thread comes to read the socket, whatever woke it before and
\* however many triggers an earlier stop() left in the socket pair, unless it is to stop or a
\* read failed.
EventuallyRead ==
    bound /\ thread /\ queue # <<>> ~> loop = "read" \/ halt \/ told = "failed"
=============================================================================
