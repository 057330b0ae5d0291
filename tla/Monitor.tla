------------------------------- MODULE Monitor -------------------------------
(***************************************************************************)
(* mumble::Monitor (src/src/Monitor.cpp) on Linux: the descriptors a       *)
(* thread waits for, the bookkeeping of them beside the kernel's, and the  *)
(* socket pair that wakes the waiting thread up.                           *)
(*                                                                         *)
(* The kernel forgets a descriptor when it is closed; m_fds does not.      *)
(***************************************************************************)
EXTENDS Naturals, FiniteSets

CONSTANTS
    FDs,            \* descriptor numbers the process may get
    Trigger,        \* the receiving descriptor of the socket pair
    MaxTriggers     \* bound: datagrams its buffer takes

ASSUME FDsAssumption == IsFiniteSet(FDs)
ASSUME TriggerAssumption == Trigger \notin FDs
ASSUME MaxTriggersAssumption == MaxTriggers \in Nat \ {0}

VARIABLES
    fds,            \* m_fds, and the size of m_targets
    polled,         \* the kernel's interest list
    triggers,       \* datagrams in the socket pair
    ready           \* environment: what the kernel would report of a descriptor

monitorVars == <<fds, polled, triggers>>

\* What waitEpoll makes of EPOLLIN and of EPOLLRDHUP, EPOLLHUP, EPOLLERR.
Conditions == {"quiet", "in", "hup"}

\* The constructor adds the trigger's descriptor.
MonitorInit ==
    /\ fds = {Trigger} /\ polled = {Trigger}
    /\ triggers = 0
    /\ ready = [fd \in FDs |-> "quiet"]

num == Cardinality(fds)

\* add(): refused for a descriptor in m_fds, even if it has been closed since.
CanAdd(fd) == fd \notin fds

MonitorAdd(fd) ==
    IF CanAdd(fd)
    THEN fds' = fds \cup {fd} /\ polled' = polled \cup {fd}
    ELSE UNCHANGED <<fds, polled>>

\* Mutant: m_fds is not told.
MonitorDelKernelOnly(fd) == polled' = polled \ {fd} /\ UNCHANGED fds

MonitorDel(fd) ==
    /\ fds' = fds \ {fd}
    /\ polled' = IF fd \in fds THEN polled \ {fd} ELSE polled

\* trigger(): the sockets of the pair block, so send() waits while the buffer is full.
SendTrigger == triggers < MaxTriggers /\ triggers' = triggers + 1

\* Descriptors epoll_wait() would report.
Signalled ==
    {fd \in polled \ {Trigger} : ready[fd] # "quiet"}
        \cup (IF triggers > 0 THEN {Trigger} ELSE {})

\* The sets of descriptors wait() may report into a view of the given size: the view
\* cuts off what epoll_wait() returned, in an order that is the kernel's.
Reports(size) ==
    {set \in SUBSET Signalled :
        Cardinality(set) = IF Cardinality(Signalled) < size THEN Cardinality(Signalled) ELSE size}

\* untrigger() takes one datagram per reported trigger.
Untrigger(set) == triggers' = IF Trigger \in set THEN triggers - 1 ELSE triggers
=============================================================================
