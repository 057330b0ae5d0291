------------------------------- MODULE PeerTCP -------------------------------
(***************************************************************************)
(* The TCP side of mumble::Peer (src/src/Peer.cpp): the thread of          *)
(* threadFunc waits on the monitor and hands every event to a pool of      *)
(* workers, which accept sockets and process connections; a control        *)
(* thread starts and stops it and binds its socket; callbacks in the       *)
(* workers add and remove connections.                                     *)
(*                                                                         *)
(* Every event of one round is a task of its own worker: the pool          *)
(* (quickpool) returns from parallel_for_each when all are done.           *)
(* Descriptor numbers are those of the process, and are used again.        *)
(***************************************************************************)
EXTENDS Monitor

CONSTANTS
    NoFD,           \* no socket, no descriptor
    MaxClients,     \* bound: clients that try to connect
    Rebinds         \* whether the control thread gives up a bound socket

ASSUME NoFDAssumption == NoFD \notin FDs \cup {Trigger}
ASSUME BoundsAssumption == MaxClients \in Nat /\ Rebinds \in BOOLEAN

VARIABLES
    control,        \* where stop() is: "outside", "halting" or "joining"
    thread,         \* m_thread is set
    halt,           \* m_halt
    socket,         \* m_socket
    bound,          \* the last bind() returned Success
    binds,          \* whether bind() was called
    loop,           \* where threadFunc is
    size,           \* events.size()
    tasks,          \* events of the current round, one worker each
    round,          \* parity of the round
    accepted,       \* descriptor accept() returned to the connection callback that runs
    connections,    \* m_connections
    open,           \* open descriptors
    backlog,        \* clients waiting to be accepted
    clients,        \* bound: clients still to come
    running         \* ghost: between the calls of started() and stopped()

controlVars == <<control, thread, halt, socket, bound, binds>>
loopVars    == <<loop, size, tasks, round, accepted, running>>
netVars     == <<open, ready, backlog, clients>>
vars        == <<monitorVars, controlVars, loopVars, connections, netVars>>

Task == [fd : FDs \cup {Trigger}, event : {"in", "hup", "wake"},
         at : {"todo", "held", "removed"}, round : {0, 1}]

Init ==
    /\ MonitorInit
    /\ control = "outside" /\ thread = FALSE /\ halt = FALSE
    /\ socket = NoFD /\ bound = FALSE /\ binds = FALSE
    /\ loop = "none" /\ size = 0 /\ tasks = {} /\ round = 0 /\ accepted = NoFD
    /\ connections = {}
    /\ open = {} /\ backlog = 0 /\ clients = MaxClients
    /\ running = FALSE

\* Closing a descriptor: the kernel drops it from the interest list.
Close(set) ==
    /\ open' = open \ set
    /\ ready' = [fd \in FDs |-> IF fd \in set THEN "quiet" ELSE ready[fd]]

-----------------------------------------------------------------------------
(* The control thread: start(), stop(), bind(), unbind() *)

\* Busy while there is a thread.
Start ==
    /\ control = "outside" /\ ~thread
    /\ thread' = TRUE /\ halt' = FALSE
    /\ loop' = "created"
    /\ UNCHANGED <<monitorVars, control, socket, bound, binds, size, tasks, round, accepted,
                   running, connections, netVars>>

StopHalt ==
    /\ control = "outside" /\ thread
    /\ control' = "halting"
    /\ halt' = TRUE
    /\ UNCHANGED <<monitorVars, thread, socket, bound, binds, loopVars, connections, netVars>>

\* Mutant: the loop is not woken up.
StopTriggerMissing ==
    /\ control = "halting"
    /\ control' = "joining"
    /\ UNCHANGED <<monitorVars, thread, halt, socket, bound, binds, loopVars, connections, netVars>>

StopTrigger ==
    /\ control = "halting"
    /\ control' = "joining"
    /\ SendTrigger
    /\ UNCHANGED <<fds, polled, thread, halt, socket, bound, binds, loopVars, connections, netVars>>

\* Mutant: stop() does not wait for the thread.
StopJoinDetach ==
    /\ control = "joining"
    /\ control' = "outside"
    /\ thread' = FALSE
    /\ UNCHANGED <<monitorVars, halt, socket, bound, binds, loopVars, connections, netVars>>

StopJoin ==
    /\ control = "joining" /\ loop = "exited"
    /\ control' = "outside"
    /\ thread' = FALSE
    /\ loop' = "none"
    /\ UNCHANGED <<monitorVars, halt, socket, bound, binds, size, tasks, round, accepted,
                   running, connections, netVars>>

\* The new socket is open before the old one is closed.  The old one stays in m_fds.
Bind(fd) ==
    /\ control = "outside" /\ ~thread
    /\ binds => Rebinds
    /\ binds' = TRUE
    /\ fd \in FDs \ open
    /\ socket' = fd
    /\ open' = (open \ {socket}) \cup {fd}
    /\ ready' = [d \in FDs |-> IF d \in {fd, socket} THEN "quiet" ELSE ready[d]]
    /\ backlog' = 0
    /\ IF CanAdd(fd)
       THEN /\ fds' = fds \cup {fd}
            /\ polled' = (polled \ {socket}) \cup {fd}
            /\ bound' \in BOOLEAN       \* setEndpoint() or listen() may fail
       ELSE /\ UNCHANGED fds
            /\ polled' = polled \ {socket}
            /\ bound' = FALSE           \* Failure
    /\ UNCHANGED <<triggers, control, thread, halt, loopVars, connections, clients>>

\* The old socket is closed, m_fds keeps its number.
DropSocket ==
    /\ socket' = NoFD /\ bound' = FALSE
    /\ Close({socket})
    /\ polled' = polled \ {socket}
    /\ backlog' = 0
    /\ UNCHANGED <<fds, triggers, control, thread, halt, loopVars, connections, clients>>

\* bind() with no descriptor left: an invalid socket takes the place of the old one.
BindNoFD ==
    /\ control = "outside" /\ ~thread
    /\ binds => Rebinds
    /\ binds' = TRUE
    /\ open = FDs
    /\ DropSocket

Unbind ==
    /\ control = "outside" /\ ~thread
    /\ Rebinds /\ socket # NoFD
    /\ DropSocket
    /\ UNCHANGED binds

-----------------------------------------------------------------------------
(* threadFunc *)

Goto(from, to) == loop = from /\ loop' = to

\* m_feedback.started(), then the vector of events is made.
Started ==
    /\ Goto("created", "check")
    /\ running' = TRUE
    /\ size' = num
    /\ UNCHANGED <<monitorVars, controlVars, tasks, round, accepted, connections, netVars>>

\* `while (!m_halt)`: the events of the last wait, none at first, are handed out or
\* left alone.
Check ==
    /\ Goto("check", IF halt THEN "stopping" ELSE "handle")
    /\ tasks' = IF halt THEN {} ELSE tasks
    /\ UNCHANGED <<monitorVars, controlVars, size, round, accepted, running, connections, netVars>>

\* Mutant: the loop does not wait for the pool.
ResizeNoBarrier ==
    /\ Goto("handle", "wait")
    /\ size' = num
    /\ UNCHANGED <<monitorVars, controlVars, tasks, round, accepted, running, connections, netVars>>

\* Mutant: the vector keeps its first size.
ResizeNever ==
    /\ tasks = {}
    /\ Goto("handle", "wait")
    /\ UNCHANGED <<monitorVars, controlVars, size, tasks, round, accepted, running, connections, netVars>>

\* parallel_for_each() returns; the vector is brought to the monitor's size.
Resize ==
    /\ tasks = {}
    /\ Goto("handle", "wait")
    /\ size' = num
    /\ UNCHANGED <<monitorVars, controlVars, tasks, round, accepted, running, connections, netVars>>

\* Monitor::wait reports a set of descriptors.
Wait ==
    /\ Signalled # {}
    /\ Goto("wait", "check")
    /\ \E set \in Reports(size) :
         /\ tasks' = tasks \cup {[fd |-> fd, event |-> IF fd = Trigger THEN "wake" ELSE ready[fd],
                                   at |-> "todo", round |-> 1 - round] : fd \in set}
         /\ Untrigger(set)
    /\ round' = 1 - round
    /\ UNCHANGED <<fds, polled, controlVars, size, accepted, running, connections, netVars>>

\* Feedback::timeout() elapsed with nothing to report.
WaitTimeout ==
    /\ Signalled = {}
    /\ Goto("wait", "check")
    /\ UNCHANGED <<monitorVars, controlVars, size, tasks, round, accepted, running, connections, netVars>>

\* m_feedback.stopped(); the pool's destructor and the end of the thread.
Stopped ==
    /\ Goto("stopping", "exited")
    /\ running' = FALSE
    /\ UNCHANGED <<monitorVars, controlVars, size, tasks, round, accepted, connections, netVars>>

-----------------------------------------------------------------------------
(* The workers *)

Turn(t, from, to) ==
    /\ loop = "handle" /\ t \in tasks /\ t.at = from
    /\ tasks' = (tasks \ {t}) \cup {[t EXCEPT !.at = to]}

Finish(t, from) ==
    /\ loop = "handle" /\ t \in tasks /\ t.at = from
    /\ tasks' = tasks \ {t}

keepLoop == <<loop, size, round, running>>

IsListener(t)   == socket # NoFD /\ t.fd = socket
IsConnection(t) == ~IsListener(t) /\ t.fd # Trigger

\* The trigger's descriptor is in no map, and an Error of the listener is reported.
HandleNothing(t) ==
    /\ t.fd = Trigger \/ (IsListener(t) /\ t.event = "hup")
    /\ Finish(t, "todo")
    /\ UNCHANGED <<monitorVars, controlVars, keepLoop, accepted, connections, netVars>>

\* accept() returned a socket: m_feedback.connection() is entered.
Accept(t) ==
    /\ IsListener(t) /\ t.event = "in"
    /\ backlog > 0
    /\ Turn(t, "todo", "held")
    /\ \E fd \in FDs \ open :
         /\ accepted' = fd
         /\ open' = open \cup {fd}
         /\ ready' = [ready EXCEPT ![fd] = "quiet",
                                   ![socket] = IF backlog = 1 THEN "quiet" ELSE @]
    /\ backlog' = backlog - 1
    /\ UNCHANGED <<monitorVars, controlVars, keepLoop, connections, clients>>

\* accept() has nothing more, or failed(code) is told that no descriptor is left.
AcceptDone(t) ==
    /\ IsListener(t) /\ t.event = "in"
    /\ backlog = 0 \/ open = FDs
    /\ Finish(t, "todo")
    /\ UNCHANGED <<monitorVars, controlVars, keepLoop, accepted, connections, netVars>>

\* addTCP() inside the connection callback, which returns true.
Keep(t) ==
    /\ IsListener(t)
    /\ Turn(t, "held", "todo")
    /\ connections' = connections \cup {accepted}
    /\ MonitorAdd(accepted)
    /\ accepted' = NoFD
    /\ UNCHANGED <<triggers, controlVars, keepLoop, netVars>>

\* The callback is absent or returns false: Socket::close().  Where ExampleServer's callback has
\* destroyed a User that closed the descriptor before, this is one close, not two.
Refuse(t) ==
    /\ IsListener(t)
    /\ Turn(t, "held", "todo")
    /\ Close({accepted})
    /\ accepted' = NoFD
    /\ UNCHANGED <<monitorVars, controlVars, keepLoop, connections, backlog, clients>>

\* The connection is found in m_connections, or the event is ignored.
Lookup(t) ==
    /\ IsConnection(t)
    /\ IF t.fd \in connections THEN Turn(t, "todo", "held") ELSE Finish(t, "todo")
    /\ UNCHANGED <<monitorVars, controlVars, keepLoop, accepted, connections, netVars>>

\* process(false, halt) has read what there was.
ProcessBusy(t) ==
    /\ IsConnection(t) /\ t.event = "in"
    /\ ready[t.fd] # "hup" /\ ~halt
    /\ Finish(t, "held")
    /\ ready' = [ready EXCEPT ![t.fd] = "quiet"]
    /\ UNCHANGED <<monitorVars, controlVars, keepLoop, accepted, connections, open, backlog, clients>>

\* process() saw m_halt.
ProcessCancel(t) ==
    /\ IsConnection(t) /\ t.event = "in"
    /\ halt
    /\ Finish(t, "held")
    /\ UNCHANGED <<monitorVars, controlVars, keepLoop, accepted, connections, netVars>>

\* Mutant: the callback destroys the connection its worker is in.
EndSessionCloses(t) ==
    /\ IsConnection(t)
    /\ t.event = "hup" \/ (ready[t.fd] = "hup" /\ ~halt)
    /\ Turn(t, "held", "removed")
    /\ MonitorDel(t.fd)
    /\ connections' = connections \ {t.fd}
    /\ Close({t.fd})
    /\ UNCHANGED <<triggers, controlVars, keepLoop, accepted, backlog, clients>>

\* handleState() or process() ends the session; the callback, if it is called and if
\* it does so, calls delTCP().  It removes its own connection, as in the examples.
EndSession(t) ==
    /\ IsConnection(t)
    /\ t.event = "hup" \/ (ready[t.fd] = "hup" /\ ~halt)
    /\ \/ /\ Turn(t, "held", "removed")
          /\ MonitorDel(t.fd)
          /\ connections' = connections \ {t.fd}
       \/ /\ Finish(t, "held")
          /\ UNCHANGED <<fds, polled, connections>>
    /\ UNCHANGED <<triggers, controlVars, keepLoop, accepted, netVars>>

\* The worker held the last reference: ~Connection closes the socket.
Release(t) ==
    /\ Finish(t, "removed")
    /\ Close({t.fd})
    /\ UNCHANGED <<monitorVars, controlVars, keepLoop, accepted, connections, backlog, clients>>

-----------------------------------------------------------------------------
(* The client's use, and the network *)

\* ExampleClient: a connected socket is added before start().
AddConnected(fd) ==
    /\ control = "outside" /\ ~thread
    /\ clients > 0 /\ clients' = clients - 1
    /\ fd \in FDs \ open
    /\ open' = open \cup {fd}
    /\ ready' = [ready EXCEPT ![fd] = "quiet"]
    /\ connections' = connections \cup {fd}
    /\ MonitorAdd(fd)
    /\ UNCHANGED <<triggers, controlVars, loopVars, backlog>>

ClientArrives ==
    /\ bound
    /\ clients > 0 /\ clients' = clients - 1
    /\ backlog' = backlog + 1
    /\ ready' = [ready EXCEPT ![socket] = "in"]
    /\ UNCHANGED <<monitorVars, controlVars, loopVars, connections, open>>

PeerSends(fd, condition) ==
    /\ fd \in open \ {socket}
    /\ ready[fd] = "quiet" \/ (ready[fd] = "in" /\ condition = "hup")
    /\ ready' = [ready EXCEPT ![fd] = condition]
    /\ UNCHANGED <<monitorVars, controlVars, loopVars, connections, open, backlog, clients>>

-----------------------------------------------------------------------------

LoopStep == Started \/ Check \/ Resize \/ Wait \/ Stopped

Work(t) ==
    \/ HandleNothing(t)
    \/ Accept(t) \/ AcceptDone(t) \/ Keep(t) \/ Refuse(t)
    \/ Lookup(t) \/ ProcessBusy(t) \/ ProcessCancel(t) \/ EndSession(t) \/ Release(t)

StopStep == StopTrigger \/ StopJoin

Next ==
    \/ Start \/ StopHalt \/ StopStep \/ Unbind \/ BindNoFD
    \/ \E fd \in FDs : Bind(fd) \/ AddConnected(fd)
    \/ LoopStep \/ WaitTimeout
    \/ \E t \in tasks : Work(t)
    \/ ClientArrives
    \/ \E fd \in FDs, condition \in {"in", "hup"} : PeerSends(fd, condition)

Spec == Init /\ [][Next]_vars

\* Threads run, and callbacks return.  Nothing is asked of the clients, the network,
\* the application's use of Peer, or Feedback::timeout().
Fairness ==
    /\ WF_vars(LoopStep)
    /\ WF_vars(StopStep)
    /\ \A fd \in FDs \cup {Trigger} : WF_vars(\E t \in tasks : t.fd = fd /\ Work(t))

FairSpec == Spec /\ Fairness

-----------------------------------------------------------------------------
(* Properties *)

TypeOK ==
    /\ fds \subseteq FDs \cup {Trigger}
    /\ polled \subseteq fds
    /\ triggers \in 0 .. MaxTriggers
    /\ ready \in [FDs -> Conditions]
    /\ control \in {"outside", "halting", "joining"}
    /\ thread \in BOOLEAN /\ halt \in BOOLEAN
    /\ socket \in FDs \cup {NoFD} /\ bound \in BOOLEAN /\ binds \in BOOLEAN
    /\ loop \in {"none", "created", "check", "handle", "wait", "stopping", "exited"}
    /\ size \in 0 .. Cardinality(FDs) + 1
    /\ tasks \subseteq Task
    /\ round \in {0, 1}
    /\ accepted \in FDs \cup {NoFD}
    /\ connections \subseteq open
    /\ open \subseteq FDs
    /\ backlog \in 0 .. MaxClients /\ clients \in 0 .. MaxClients
    /\ running \in BOOLEAN

\* Two workers never handle events of the same descriptor at once, on which the
\* order of a connection's packs depends.
OneWorker == \A s, t \in tasks : s.fd = t.fd => s = t

\* When stop() has returned no worker runs, no callback is running and stopped() has
\* been called.
QuietAfterStop ==
    control = "outside" /\ ~thread => tasks = {} /\ accepted = NoFD /\ ~running

\* A worker inside a connection has its descriptor open, so that it cannot belong to
\* another socket, although descriptors are closed and given out again by the other
\* workers of the round.  Whether its event was meant for an earlier holder of the number is
\* not told.
HeldIsOpen ==
    \A t \in tasks :
        t.at # "todo" /\ IsConnection(t) => t.fd \in open /\ (t.at = "held" => t.fd \in connections)

\* Every connection in m_connections is waited for, although addTCP() ignores what
\* Monitor::add() returns.  True as long as no bound socket is given up, whose number
\* m_fds keeps.
RegisteredIsPolled == connections \subseteq polled

\* stop() returns, whatever the loop and the workers were doing when it was called: no
\* wakeup is lost between m_halt, the trigger and the wait.  The socket pair must have
\* room: a loop that sees m_halt before it waits leaves its trigger unread, and with
\* MaxTriggers of them left behind the send() in trigger() never returns.
StopReturns == control # "outside" /\ triggers < MaxTriggers ~> control = "outside"

\* A connection with something to read is handled, until the application stops the
\* thread or removes it.  The view is resized right before each wait, so that it cuts nothing
\* off; without that it would (ResizeNever).
EventuallyServed ==
    \A fd \in FDs :
        fd \in connections /\ ready[fd] = "in" /\ thread
            ~> ready[fd] # "in" \/ fd \notin connections \/ halt
=============================================================================
