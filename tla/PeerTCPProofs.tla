---------------------------- MODULE PeerTCPProofs ----------------------------
(***************************************************************************)
(* Theorems about PeerTCP, for any descriptors, any number of clients and  *)
(* any size of the trigger's buffer.                                       *)
(*                                                                         *)
(* Tasks exist only between a wait and the barrier behind the pool (Round), *)
(* so every wait begins a round with one task per descriptor.  What a      *)
(* worker holds belongs to nobody else: a descriptor that accept()         *)
(* returned is open and neither the socket's, a connection's nor another   *)
(* worker's (Accepting), and a connection's descriptor stays open until    *)
(* its own worker releases it (Holding).                                   *)
(***************************************************************************)
EXTENDS PeerTCP, FiniteSetTheorems, TLAPS

\* m_thread, the thread and its callbacks.
Life ==
    /\ thread <=> loop # "none"
    /\ control # "outside" => thread
    /\ running <=> loop \in {"check", "handle", "wait", "stopping"}

\* Workers exist while events are handed out, and have begun only then.
Round ==
    /\ tasks # {} => loop \in {"check", "handle"}
    /\ loop # "handle" => \A t \in tasks : t.at = "todo"

\* The socket is open and no connection's; clients are counted.
Listening ==
    /\ socket # NoFD => socket \in open /\ socket \notin connections
    /\ backlog + clients <= MaxClients

\* What accept() returned, until it is a connection or closed.
Accepting ==
    /\ accepted # NoFD =>
         /\ accepted \in open /\ accepted \notin connections /\ accepted # socket
         /\ \E t \in tasks : IsListener(t) /\ t.at = "held"
    /\ \A t \in tasks :
         /\ t.at = "held" /\ IsListener(t) => accepted # NoFD
         /\ t.at # "todo" => t.fd # accepted

\* What a worker inside a connection may rely on.
Holding ==
    \A t \in tasks :
        /\ t.at # "todo" => t.fd # Trigger
        /\ t.at = "held" /\ ~IsListener(t) => t.fd \in connections
        /\ t.at = "removed" => ~IsListener(t) /\ t.fd \in open /\ t.fd \notin connections

IInv == TypeOK /\ OneWorker /\ Life /\ Round /\ Listening /\ Accepting /\ Holding

-----------------------------------------------------------------------------
(* Helpers *)

\* m_targets has room for every descriptor and the trigger.
LEMMA NumType ==
    ASSUME fds \subseteq FDs \cup {Trigger}
    PROVE  num \in 0 .. Cardinality(FDs) + 1
  <1>1. /\ IsFiniteSet(FDs \cup {Trigger})
        /\ Cardinality(FDs \cup {Trigger}) = Cardinality(FDs) + 1
    BY FS_AddElement, FDsAssumption, TriggerAssumption
  <1>2. IsFiniteSet(fds) /\ Cardinality(fds) <= Cardinality(FDs \cup {Trigger})
    BY <1>1, FS_Subset
  <1>3. Cardinality(fds) \in Nat /\ Cardinality(FDs) \in Nat
    BY <1>2, FDsAssumption, FS_CardinalityType
  <1> QED BY <1>1, <1>2, <1>3 DEF num

\* Nothing that the invariant speaks of changes.
LEMMA StutterKeeps ==
    ASSUME IInv,
           UNCHANGED <<fds, polled, triggers, ready, control, thread, halt, socket, bound, binds>>,
           UNCHANGED <<loop, size, tasks, round, accepted, connections, open, backlog, clients, running>>
    PROVE  IInv'
  BY DEF IInv, TypeOK, OneWorker, Life, Round, Listening, Accepting, Holding, IsListener

\* There is nothing left of the thread once stop() has returned.
LEMMA Quiet ==
    ASSUME IInv, ~thread
    PROVE  loop = "none" /\ tasks = {} /\ accepted = NoFD /\ ~running
  BY DEF IInv, Life, Round, Accepting

-----------------------------------------------------------------------------
(* The control thread *)

LEMMA StartStopKeeps ==
    ASSUME IInv, Start \/ StopHalt \/ StopStep
    PROVE  IInv'
  <1> USE DEF monitorVars, loopVars, netVars
  <1>1. CASE Start
    <2>1. loop = "none" /\ tasks = {} /\ accepted = NoFD /\ ~running
      BY <1>1, Quiet DEF Start
    <2> QED BY <1>1, <2>1
            DEF Start, IInv, TypeOK, OneWorker, Life, Round, Listening, Accepting, Holding, IsListener
  <1>2. CASE StopHalt
    BY <1>2
    DEF StopHalt, IInv, TypeOK, OneWorker, Life, Round, Listening, Accepting, Holding, IsListener
  <1>3. CASE StopTrigger
    <2>1. triggers' \in 0 .. MaxTriggers
      BY <1>3, MaxTriggersAssumption DEF StopTrigger, SendTrigger, IInv, TypeOK
    <2>2. /\ control = "halting" /\ control' = "joining"
          /\ UNCHANGED <<fds, polled, ready, thread, halt, socket, bound, binds>>
          /\ UNCHANGED <<loop, size, tasks, round, accepted, connections, open, backlog, clients, running>>
      BY <1>3 DEF StopTrigger
    <2> QED BY <2>1, <2>2
            DEF IInv, TypeOK, OneWorker, Life, Round, Listening, Accepting, Holding, IsListener
  <1>4. CASE StopJoin
    BY <1>4
    DEF StopJoin, IInv, TypeOK, OneWorker, Life, Round, Listening, Accepting, Holding, IsListener
  <1> QED BY <1>1, <1>2, <1>3, <1>4 DEF StopStep

\* While there is no thread the socket is replaced, and connections are added, by
\* descriptors that were not open.
LEMMA ReplaceKeeps ==
    ASSUME IInv, ~thread,
           UNCHANGED <<control, thread, halt, triggers>>,
           UNCHANGED <<loop, size, tasks, round, accepted, running>>,
           fds' \subseteq FDs \cup {Trigger}, polled' \subseteq fds',
           ready' \in [FDs -> Conditions], open' \subseteq FDs, connections' \subseteq open',
           socket' \in FDs \cup {NoFD}, socket' # NoFD => socket' \in open' \ connections',
           bound' \in BOOLEAN, binds' \in BOOLEAN,
           backlog' \in 0 .. MaxClients, clients' \in 0 .. MaxClients, backlog' + clients' <= MaxClients
    PROVE  IInv'
  <1>1. tasks = {} /\ accepted = NoFD
    BY Quiet
  <1> QED BY <1>1
          DEF IInv, TypeOK, OneWorker, Life, Round, Listening, Accepting, Holding

LEMMA BindKeeps ==
    ASSUME IInv, NEW fd \in FDs, Bind(fd)
    PROVE  IInv'
  <1>1. /\ ~thread /\ fd \notin open /\ socket' = fd /\ open' = (open \ {socket}) \cup {fd}
        /\ ready' = [d \in FDs |-> IF d \in {fd, socket} THEN "quiet" ELSE ready[d]]
        /\ backlog' = 0 /\ bound' \in BOOLEAN /\ binds' \in BOOLEAN
        /\ fds' \subseteq fds \cup {fd} /\ polled' \subseteq polled \cup ({fd} \cap fds')
        /\ fds \subseteq fds'
        /\ UNCHANGED <<control, thread, halt, triggers, loop, size, tasks, round, accepted, running>>
        /\ UNCHANGED <<connections, clients>>
    BY DEF Bind, loopVars
  <1>2. fds' \subseteq FDs \cup {Trigger} /\ polled' \subseteq fds' /\ open' \subseteq FDs
    BY <1>1 DEF IInv, TypeOK
  <1>3. ready' \in [FDs -> Conditions]
    BY <1>1 DEF IInv, TypeOK, Conditions
  <1>4. connections' \subseteq open' /\ socket' \in open' \ connections'
    BY <1>1, NoFDAssumption DEF IInv, TypeOK, Listening
  <1>5. clients' \in 0 .. MaxClients /\ backlog' \in 0 .. MaxClients /\ backlog' + clients' <= MaxClients
    BY <1>1, BoundsAssumption DEF IInv, TypeOK
  <1> QED BY <1>1, <1>2, <1>3, <1>4, <1>5, ReplaceKeeps

LEMMA DropKeeps ==
    ASSUME IInv, BindNoFD \/ Unbind
    PROVE  IInv'
  <1>1. /\ ~thread /\ socket' = NoFD /\ open' = open \ {socket} /\ polled' = polled \ {socket}
        /\ ready' = [fd \in FDs |-> IF fd \in {socket} THEN "quiet" ELSE ready[fd]]
        /\ backlog' = 0 /\ bound' = FALSE /\ binds' \in BOOLEAN
        /\ UNCHANGED <<fds, control, thread, halt, triggers, loop, size, tasks, round, accepted, running>>
        /\ UNCHANGED <<connections, clients>>
    BY DEF BindNoFD, Unbind, DropSocket, Close, loopVars, IInv, TypeOK
  <1>2. fds' \subseteq FDs \cup {Trigger} /\ polled' \subseteq fds' /\ open' \subseteq FDs
    BY <1>1 DEF IInv, TypeOK
  <1>3. ready' \in [FDs -> Conditions]
    BY <1>1 DEF IInv, TypeOK, Conditions
  <1>4. connections' \subseteq open'
    BY <1>1, NoFDAssumption DEF IInv, TypeOK, Listening
  <1>5. clients' \in 0 .. MaxClients /\ backlog' \in 0 .. MaxClients /\ backlog' + clients' <= MaxClients
    BY <1>1, BoundsAssumption DEF IInv, TypeOK
  <1> QED BY <1>1, <1>2, <1>3, <1>4, <1>5, ReplaceKeeps

LEMMA AddConnectedKeeps ==
    ASSUME IInv, NEW fd \in FDs, AddConnected(fd)
    PROVE  IInv'
  <1>1. /\ ~thread /\ fd \notin open /\ open' = open \cup {fd} /\ connections' = connections \cup {fd}
        /\ ready' = [ready EXCEPT ![fd] = "quiet"]
        /\ clients > 0 /\ clients' = clients - 1
        /\ fds \subseteq fds' /\ fds' \subseteq fds \cup {fd} /\ polled' \subseteq polled \cup ({fd} \cap fds')
        /\ UNCHANGED <<control, thread, halt, triggers, loop, size, tasks, round, accepted, running>>
        /\ UNCHANGED <<socket, bound, binds, backlog>>
    BY DEF AddConnected, MonitorAdd, controlVars, loopVars
  <1>2. fds' \subseteq FDs \cup {Trigger} /\ polled' \subseteq fds' /\ open' \subseteq FDs
    BY <1>1 DEF IInv, TypeOK
  <1>3. ready' \in [FDs -> Conditions]
    BY <1>1 DEF IInv, TypeOK, Conditions
  <1>4. connections' \subseteq open' /\ (socket' # NoFD => socket' \in open' \ connections')
    BY <1>1 DEF IInv, TypeOK, Listening
  <1>5. clients' \in 0 .. MaxClients /\ backlog' \in 0 .. MaxClients /\ backlog' + clients' <= MaxClients
    BY <1>1, BoundsAssumption DEF IInv, TypeOK, Listening
  <1>6. socket' \in FDs \cup {NoFD} /\ bound' \in BOOLEAN /\ binds' \in BOOLEAN
    BY <1>1 DEF IInv, TypeOK
  <1> QED BY <1>1, <1>2, <1>3, <1>4, <1>5, <1>6, ReplaceKeeps

-----------------------------------------------------------------------------
(* threadFunc *)

LEMMA LoopKeeps ==
    ASSUME IInv, Started \/ Check \/ Resize \/ WaitTimeout \/ Stopped
    PROVE  IInv'
  <1> USE DEF monitorVars, controlVars, netVars, Goto
  <1>0. num \in 0 .. Cardinality(FDs) + 1
    BY NumType DEF IInv, TypeOK
  <1>1. CASE Started
    BY <1>0, <1>1
    DEF Started, IInv, TypeOK, OneWorker, Life, Round, Listening, Accepting, Holding, IsListener
  <1>2. CASE Check
    BY <1>2
    DEF Check, IInv, TypeOK, OneWorker, Life, Round, Listening, Accepting, Holding, IsListener
  <1>3. CASE Resize
    BY <1>0, <1>3
    DEF Resize, IInv, TypeOK, OneWorker, Life, Round, Listening, Accepting, Holding, IsListener
  <1>4. CASE WaitTimeout
    BY <1>4
    DEF WaitTimeout, IInv, TypeOK, OneWorker, Life, Round, Listening, Accepting, Holding, IsListener
  <1>5. CASE Stopped
    BY <1>5
    DEF Stopped, IInv, TypeOK, OneWorker, Life, Round, Listening, Accepting, Holding, IsListener
  <1> QED BY <1>1, <1>2, <1>3, <1>4, <1>5

\* A round begins with no task left of the last, and one for each descriptor.
LEMMA WaitKeeps ==
    ASSUME IInv, Wait
    PROVE  IInv'
  <1>1. PICK set \in Reports(size) :
          /\ tasks' = tasks \cup {[fd |-> fd, event |-> IF fd = Trigger THEN "wake" ELSE ready[fd],
                                    at |-> "todo", round |-> 1 - round] : fd \in set}
          /\ Untrigger(set)
    BY DEF Wait
  <1>2. /\ loop = "wait" /\ loop' = "check" /\ round' = 1 - round
        /\ UNCHANGED <<fds, polled, control, thread, halt, socket, bound, binds>>
        /\ UNCHANGED <<size, accepted, running, connections, open, ready, backlog, clients>>
    BY DEF Wait, Goto, controlVars, netVars
  <1>3. tasks = {} /\ accepted = NoFD
    BY <1>2 DEF IInv, Round, Accepting
  <1>4. set \subseteq Signalled
    BY DEF Reports
  <1>5. \A fd \in set : fd = Trigger \/ (fd \in FDs /\ ready[fd] \in {"in", "hup"})
    BY <1>4 DEF Signalled, IInv, TypeOK, Conditions
  <1>6. triggers' \in 0 .. MaxTriggers
    <2>1. Trigger \in set => triggers > 0
      BY <1>4 DEF Signalled
    <2> QED BY <1>1, <2>1, MaxTriggersAssumption DEF Untrigger, IInv, TypeOK
  <1>7. \A t \in tasks' : \E fd \in set :
          t = [fd |-> fd, event |-> IF fd = Trigger THEN "wake" ELSE ready[fd],
               at |-> "todo", round |-> 1 - round]
    BY <1>1, <1>3
  <1>8. 1 - round \in {0, 1}
    BY DEF IInv, TypeOK
  <1>9. tasks' \subseteq Task /\ \A t \in tasks' : t.at = "todo"
    BY <1>5, <1>7, <1>8 DEF Task
  <1>10. OneWorker'
    BY <1>7 DEF OneWorker
  <1>11. TypeOK'
    BY <1>2, <1>6, <1>8, <1>9 DEF IInv, TypeOK
  <1> QED BY <1>2, <1>3, <1>9, <1>10, <1>11
          DEF IInv, Life, Round, Listening, Accepting, Holding
-----------------------------------------------------------------------------
(* The workers *)

\* A worker goes on with its own task: the others are those of other descriptors.
LEMMA TurnKeeps ==
    ASSUME IInv, NEW t, NEW from, NEW to \in {"todo", "held", "removed"}, Turn(t, from, to)
    PROVE  /\ t \in tasks /\ t.at = from /\ loop = "handle"
           /\ tasks' \subseteq Task /\ OneWorker'
           /\ \A s \in tasks' : (s \in tasks /\ s.fd # t.fd) \/ (s.fd = t.fd /\ s.at = to)
           /\ \A s \in tasks : s.fd # t.fd => s \in tasks'
           /\ \E s \in tasks' : s.fd = t.fd /\ s.at = to
  <1>1. /\ t \in tasks /\ t.at = from /\ loop = "handle"
        /\ tasks' = (tasks \ {t}) \cup {[t EXCEPT !.at = to]}
    BY DEF Turn
  <1>2. t \in Task /\ tasks \subseteq Task /\ \A r, s \in tasks : r.fd = s.fd => r = s
    BY <1>1 DEF IInv, TypeOK, OneWorker
  <1> DEFINE next == [t EXCEPT !.at = to]
  <1>3. next \in Task /\ next.fd = t.fd /\ next.at = to
    BY <1>2 DEF Task
  <1>4. tasks' = (tasks \ {t}) \cup {next}
    BY <1>1
  <1> HIDE DEF next
  <1>5. \A s \in tasks' : (s \in tasks /\ s.fd # t.fd) \/ s = next
    BY <1>1, <1>2, <1>4
  <1>6. OneWorker'
    BY <1>2, <1>3, <1>5 DEF OneWorker
  <1> QED BY <1>1, <1>2, <1>3, <1>4, <1>5, <1>6

LEMMA FinishKeeps ==
    ASSUME IInv, NEW t, NEW from, Finish(t, from)
    PROVE  /\ t \in tasks /\ t.at = from /\ loop = "handle"
           /\ tasks' \subseteq Task /\ OneWorker'
           /\ \A s \in tasks' : s \in tasks /\ s.fd # t.fd
           /\ \A s \in tasks : s.fd # t.fd => s \in tasks'
  BY DEF Finish, IInv, TypeOK, OneWorker

\* A worker is done, and leaves all but the descriptors' conditions as they are.
LEMMA DoneKeeps ==
    ASSUME IInv, NEW t \in tasks, HandleNothing(t) \/ AcceptDone(t) \/ ProcessBusy(t) \/ ProcessCancel(t)
    PROVE  IInv'
  <1>1. PICK from \in {"todo", "held"} :
          Finish(t, from) /\ (from = "held" => ~IsListener(t))
    BY DEF HandleNothing, AcceptDone, ProcessBusy, ProcessCancel, IsConnection
  <1>2. /\ tasks' \subseteq Task /\ OneWorker' /\ loop = "handle" /\ t.at = from
        /\ \A s \in tasks' : s \in tasks /\ s.fd # t.fd
        /\ \A s \in tasks : s.fd # t.fd => s \in tasks'
    BY <1>1, FinishKeeps
  <1>3. /\ UNCHANGED <<fds, polled, triggers, control, thread, halt, socket, bound, binds>>
        /\ UNCHANGED <<loop, size, round, running, accepted, connections, open, backlog, clients>>
    BY DEF HandleNothing, AcceptDone, ProcessBusy, ProcessCancel, monitorVars, controlVars, keepLoop, netVars
  <1>4. ready' \in [FDs -> Conditions]
    BY DEF HandleNothing, AcceptDone, ProcessBusy, ProcessCancel, netVars, IInv, TypeOK, Conditions
  <1>5. TypeOK'
    BY <1>2, <1>3, <1>4 DEF IInv, TypeOK
  <1>6. Accepting'
    <2>1. \A s \in tasks : s.at = "held" /\ IsListener(s) => s.fd # t.fd
      BY <1>1, <1>2 DEF IInv, OneWorker, IsListener
    <2> QED BY <1>2, <1>3, <2>1 DEF IInv, Accepting, IsListener
  <1>7. Holding'
    BY <1>2, <1>3 DEF IInv, Holding, IsListener
  <1> QED BY <1>2, <1>3, <1>5, <1>6, <1>7 DEF IInv, Life, Round, Listening

\* accept() returns a descriptor that was not open: nobody's.
LEMMA AcceptKeeps ==
    ASSUME IInv, NEW t \in tasks, Accept(t)
    PROVE  IInv'
  <1>1. /\ IsListener(t) /\ Turn(t, "todo", "held") /\ backlog > 0 /\ backlog' = backlog - 1
        /\ UNCHANGED <<fds, polled, triggers, control, thread, halt, socket, bound, binds>>
        /\ UNCHANGED <<loop, size, round, running, connections, clients>>
    BY DEF Accept, monitorVars, controlVars, keepLoop
  <1>2. PICK fd \in FDs \ open :
          /\ accepted' = fd /\ open' = open \cup {fd}
          /\ ready' = [ready EXCEPT ![fd] = "quiet", ![socket] = IF backlog = 1 THEN "quiet" ELSE @]
    BY DEF Accept
  <1>3. /\ t.at = "todo" /\ loop = "handle" /\ tasks' \subseteq Task /\ OneWorker'
        /\ \A s \in tasks' : (s \in tasks /\ s.fd # t.fd) \/ (s.fd = t.fd /\ s.at = "held")
        /\ \E s \in tasks' : s.fd = t.fd /\ s.at = "held"
    BY <1>1, TurnKeeps
  <1>4. t.fd = socket /\ socket \in FDs /\ socket \in open /\ socket \notin connections
    BY <1>1, NoFDAssumption DEF IsListener, IInv, TypeOK, Listening
  <1>5. \A s \in tasks' : s.at # "todo" => s.fd \in open /\ s.fd # Trigger
    <2>1. \A s \in tasks : s.at # "todo" => s.at = "held" \/ s.at = "removed"
      BY DEF IInv, TypeOK, Task
    <2>2. \A s \in tasks : s.at # "todo" /\ s.fd # socket => s.fd \in open /\ s.fd # Trigger
      BY <2>1 DEF IInv, TypeOK, Holding, IsListener
    <2> QED BY <1>3, <1>4, <2>2, TriggerAssumption
  <1>6. ready' \in [FDs -> Conditions]
    BY <1>2, <1>4 DEF IInv, TypeOK, Conditions
  <1>7. backlog' \in 0 .. MaxClients /\ backlog' + clients' <= MaxClients
    BY <1>1, BoundsAssumption DEF IInv, TypeOK, Listening
  <1>8. TypeOK'
    BY <1>1, <1>2, <1>3, <1>6, <1>7 DEF IInv, TypeOK
  <1>9. Listening'
    BY <1>1, <1>2, <1>4, <1>7 DEF Listening
  <1>10. Accepting'
    <2>1. accepted' # NoFD /\ accepted' \in open' /\ accepted' \notin connections' /\ accepted' # socket'
      BY <1>1, <1>2, <1>4, NoFDAssumption DEF IInv, TypeOK
    <2>2. \E s \in tasks' : IsListener(s)' /\ s.at = "held"
      BY <1>1, <1>3, <1>4, NoFDAssumption DEF IsListener
    <2> QED BY <1>2, <1>5, <2>1, <2>2 DEF Accepting
  <1>11. Holding'
    BY <1>1, <1>2, <1>3, <1>4, <1>5, NoFDAssumption DEF IInv, Holding, IsListener
  <1> QED BY <1>1, <1>3, <1>8, <1>9, <1>10, <1>11 DEF IInv, Life, Round

\* Once the callback has returned, the socket is a connection's or closed.
LEMMA CallbackKeeps ==
    ASSUME IInv, NEW t \in tasks, Keep(t) \/ Refuse(t)
    PROVE  IInv'
  <1>1. /\ IsListener(t) /\ Turn(t, "held", "todo") /\ accepted' = NoFD
        /\ UNCHANGED <<triggers, control, thread, halt, socket, bound, binds>>
        /\ UNCHANGED <<loop, size, round, running, backlog, clients>>
    BY DEF Keep, Refuse, monitorVars, controlVars, keepLoop, netVars
  <1>2. /\ t.at = "held" /\ loop = "handle" /\ tasks' \subseteq Task /\ OneWorker'
        /\ \A s \in tasks' : (s \in tasks /\ s.fd # t.fd) \/ (s.fd = t.fd /\ s.at = "todo")
    BY <1>1, TurnKeeps
  <1>3. /\ accepted # NoFD /\ accepted \in FDs /\ accepted \in open
        /\ accepted \notin connections /\ accepted # socket
    BY <1>1, <1>2 DEF IInv, TypeOK, Accepting
  <1>4. /\ fds' \subseteq FDs \cup {Trigger} /\ polled' \subseteq fds'
        /\ ready' \in [FDs -> Conditions]
        /\ open' \subseteq FDs /\ open \ {accepted} \subseteq open'
        /\ connections' \subseteq open' /\ connections \subseteq connections'
        /\ connections' \subseteq connections \cup {accepted}
    <2>1. CASE Keep(t)
      BY <1>3, <2>1 DEF Keep, MonitorAdd, netVars, IInv, TypeOK
    <2>2. CASE Refuse(t)
      BY <1>3, <2>2 DEF Refuse, Close, monitorVars, IInv, TypeOK, Conditions
    <2> QED BY <2>1, <2>2
  <1>5. TypeOK'
    BY <1>1, <1>2, <1>4 DEF IInv, TypeOK
  <1>6. Listening'
    BY <1>1, <1>3, <1>4 DEF IInv, Listening
  <1>7. Accepting'
    <2>1. \A s \in tasks' : s.fd # NoFD
      BY <1>2, NoFDAssumption DEF Task
    <2>2. \A s \in tasks' : ~(s.at = "held" /\ IsListener(s)')
      BY <1>1, <1>2 DEF IsListener
    <2> QED BY <1>1, <2>1, <2>2 DEF Accepting
  <1>8. Holding'
    <2>1. \A s \in tasks : s.at # "todo" => s.fd # accepted
      BY DEF IInv, Accepting
    <2> QED BY <1>1, <1>2, <1>4, <2>1 DEF IInv, Holding, IsListener
  <1> QED BY <1>1, <1>2, <1>5, <1>6, <1>7, <1>8 DEF IInv, Life, Round

\* A connection's worker enters it or leaves it, with or without delTCP().
LEMMA ConnectionKeeps ==
    ASSUME IInv, NEW t \in tasks, Lookup(t) \/ EndSession(t)
    PROVE  IInv'
  <1>1. /\ IsConnection(t)
        /\ UNCHANGED <<triggers, control, thread, halt, socket, bound, binds>>
        /\ UNCHANGED <<loop, size, round, running, accepted, open, ready, backlog, clients>>
    BY DEF Lookup, EndSession, monitorVars, controlVars, keepLoop, netVars
  <1>2. /\ fds' \subseteq fds /\ polled' \subseteq fds'
        /\ \/ Finish(t, "todo") /\ connections' = connections
           \/ Turn(t, "todo", "held") /\ connections' = connections /\ t.fd \in connections
           \/ Finish(t, "held") /\ connections' = connections
           \/ Turn(t, "held", "removed") /\ connections' = connections \ {t.fd}
    BY DEF Lookup, EndSession, MonitorDel, monitorVars, IInv, TypeOK
  <1>3. /\ loop = "handle" /\ tasks' \subseteq Task /\ OneWorker'
        /\ \A s \in tasks' : (s \in tasks /\ s.fd # t.fd)
              \/ (s.fd = t.fd /\ s.at = "held" /\ t.fd \in connections')
              \/ (s.fd = t.fd /\ s.at = "removed" /\ t.at = "held" /\ t.fd \notin connections')
        /\ \A s \in tasks : s.fd # t.fd => s \in tasks'
    <2>1. CASE Finish(t, "todo") \/ Finish(t, "held")
      <3>1. PICK from \in {"todo", "held"} : Finish(t, from)
        BY <2>1
      <3> QED BY <3>1, FinishKeeps
    <2>2. CASE Turn(t, "todo", "held") /\ connections' = connections /\ t.fd \in connections
      BY <2>2, TurnKeeps
    <2>3. CASE Turn(t, "held", "removed") /\ connections' = connections \ {t.fd}
      BY <2>3, TurnKeeps
    <2> QED BY <1>2, <2>1, <2>2, <2>3
  <1>4. connections' \subseteq connections /\ connections \ {t.fd} \subseteq connections'
    BY <1>2
  <1>5. t.fd # Trigger /\ ~IsListener(t)
    BY <1>1 DEF IsConnection
  <1>6. t.at = "held" => t.fd \in open
    BY <1>5 DEF IInv, TypeOK, Holding
  <1>7. TypeOK'
    BY <1>1, <1>2, <1>3, <1>4 DEF IInv, TypeOK
  <1>8. Accepting'
    <2>1. \A s \in tasks : IsListener(s) => s.fd # t.fd
      BY <1>5 DEF IsListener
    <2>2. \A s \in tasks' : s.fd = t.fd => ~IsListener(s)' /\ (accepted # NoFD => s.fd # accepted)
      BY <1>1, <1>3, <1>4, <1>5 DEF IsListener, IInv, Accepting
    <2>3. \A s \in tasks' : s.fd # NoFD
      BY <1>3, NoFDAssumption DEF Task
    <2> QED BY <1>1, <1>3, <1>4, <2>1, <2>2, <2>3 DEF IInv, Accepting, IsListener
  <1>9. Holding'
    BY <1>1, <1>3, <1>4, <1>5, <1>6 DEF IInv, Holding, IsListener
  <1> QED BY <1>1, <1>3, <1>4, <1>7, <1>8, <1>9 DEF IInv, Life, Round, Listening

\* ~Connection closes a descriptor that its worker alone still has.
LEMMA ReleaseKeeps ==
    ASSUME IInv, NEW t \in tasks, Release(t)
    PROVE  IInv'
  <1>1. /\ Finish(t, "removed") /\ open' = open \ {t.fd}
        /\ ready' = [fd \in FDs |-> IF fd \in {t.fd} THEN "quiet" ELSE ready[fd]]
        /\ UNCHANGED <<fds, polled, triggers, control, thread, halt, socket, bound, binds>>
        /\ UNCHANGED <<loop, size, round, running, accepted, connections, backlog, clients>>
    BY DEF Release, Close, monitorVars, controlVars, keepLoop
  <1>2. /\ t.at = "removed" /\ loop = "handle" /\ tasks' \subseteq Task /\ OneWorker'
        /\ \A s \in tasks' : s \in tasks /\ s.fd # t.fd
        /\ \A s \in tasks : s.fd # t.fd => s \in tasks'
    BY <1>1, FinishKeeps
  <1>3. ~IsListener(t) /\ t.fd \notin connections /\ t.fd # accepted /\ t.fd \in open
    BY <1>2 DEF IInv, Holding, Accepting
  <1>4. socket # NoFD => t.fd # socket
    BY <1>3 DEF IsListener
  <1>5. ready' \in [FDs -> Conditions]
    BY <1>1 DEF IInv, TypeOK, Conditions
  <1>6. connections' \subseteq open'
    BY <1>1, <1>3 DEF IInv, TypeOK
  <1>7. TypeOK'
    BY <1>1, <1>2, <1>5, <1>6 DEF IInv, TypeOK
  <1>8. Listening'
    BY <1>1, <1>4 DEF IInv, Listening
  <1>9. Accepting'
    BY <1>1, <1>2, <1>3, <1>4 DEF IInv, Accepting, IsListener
  <1>10. Holding'
    BY <1>1, <1>2 DEF IInv, Holding, IsListener
  <1> QED BY <1>1, <1>2, <1>7, <1>8, <1>9, <1>10 DEF IInv, Life, Round

-----------------------------------------------------------------------------
(* The network *)

LEMMA NetworkKeeps ==
    ASSUME IInv,
           ClientArrives \/ \E fd \in FDs, condition \in {"in", "hup"} : PeerSends(fd, condition)
    PROVE  IInv'
  <1>1. /\ UNCHANGED <<fds, polled, triggers, control, thread, halt, socket, bound, binds>>
        /\ UNCHANGED <<loop, size, tasks, round, accepted, running, connections, open>>
    BY DEF ClientArrives, PeerSends, monitorVars, controlVars, loopVars
  <1>2. ready' \in [FDs -> Conditions]
    BY DEF ClientArrives, PeerSends, IInv, TypeOK, Conditions
  <1>3. backlog' \in 0 .. MaxClients /\ clients' \in 0 .. MaxClients /\ backlog' + clients' <= MaxClients
    BY BoundsAssumption DEF ClientArrives, PeerSends, IInv, TypeOK, Listening
  <1> QED BY <1>1, <1>2, <1>3
          DEF IInv, TypeOK, OneWorker, Life, Round, Listening, Accepting, Holding, IsListener

-----------------------------------------------------------------------------
(* The specification *)

LEMMA InitIInv == Init => IInv
  <1> SUFFICES ASSUME Init PROVE IInv
    OBVIOUS
  <1>1. Cardinality(FDs) \in Nat
    BY FDsAssumption, FS_CardinalityType
  <1>2. 0 \in 0 .. Cardinality(FDs) + 1 /\ 0 \in 0 .. MaxTriggers
        /\ 0 \in 0 .. MaxClients /\ MaxClients \in 0 .. MaxClients
    BY <1>1, MaxTriggersAssumption, BoundsAssumption
  <1>3. ready \in [FDs -> Conditions]
    BY DEF Init, MonitorInit, Conditions
  <1>4. TypeOK
    BY <1>2, <1>3 DEF Init, MonitorInit, TypeOK
  <1> QED BY <1>4, BoundsAssumption
          DEF Init, IInv, OneWorker, Life, Round, Listening, Accepting, Holding

LEMMA NextIInv == IInv /\ [Next]_vars => IInv'
  <1> SUFFICES ASSUME IInv, [Next]_vars PROVE IInv'
    OBVIOUS
  <1>1. CASE UNCHANGED vars
    BY <1>1, StutterKeeps DEF vars, monitorVars, controlVars, loopVars, netVars
  <1>2. CASE Start \/ StopHalt \/ StopStep
    BY <1>2, StartStopKeeps
  <1>3. CASE Unbind \/ BindNoFD
    BY <1>3, DropKeeps
  <1>4. CASE \E fd \in FDs : Bind(fd) \/ AddConnected(fd)
    BY <1>4, BindKeeps, AddConnectedKeeps
  <1>5. CASE LoopStep \/ WaitTimeout
    BY <1>5, LoopKeeps, WaitKeeps DEF LoopStep
  <1>6. CASE \E t \in tasks : Work(t)
    BY <1>6, DoneKeeps, AcceptKeeps, CallbackKeeps, ConnectionKeeps, ReleaseKeeps DEF Work
  <1>7. CASE ClientArrives \/ \E fd \in FDs, condition \in {"in", "hup"} : PeerSends(fd, condition)
    BY <1>7, NetworkKeeps
  <1> QED BY <1>1, <1>2, <1>3, <1>4, <1>5, <1>6, <1>7 DEF Next

\* The invariant holds of every behaviour of Peer's TCP side.
THEOREM Inductive == Spec => []IInv
  <1> QED BY InitIInv, NextIInv, PTL DEF Spec

\* The variables of Peer, the monitor and the sockets keep their types: among them,
\* m_connections holds open descriptors only.
THEOREM TypeCorrect == Spec => []TypeOK
  <1>1. IInv => TypeOK
    BY DEF IInv
  <1> QED BY <1>1, Inductive, PTL

\* parallel_for_each() over the events of one wait never gives two workers the same
\* descriptor, nor does a worker of one round meet one of the next.
THEOREM OneWorkerCorrect == Spec => []OneWorker
  <1>1. IInv => OneWorker
    BY DEF IInv
  <1> QED BY <1>1, Inductive, PTL

\* After stop() no worker, no accepted socket and no callback is left, however many
\* rounds and stops went before.
THEOREM QuietAfterStopCorrect == Spec => []QuietAfterStop
  <1>1. IInv => QuietAfterStop
    BY Quiet DEF QuietAfterStop
  <1> QED BY <1>1, Inductive, PTL

\* A worker inside processTCPConnection() has its own descriptor, open and, until
\* delTCP(), in m_connections.
THEOREM HeldIsOpenCorrect == Spec => []HeldIsOpen
  <1>1. IInv => HeldIsOpen
    <2> SUFFICES ASSUME IInv, NEW t \in tasks, t.at # "todo", IsConnection(t)
                 PROVE  t.fd \in open /\ (t.at = "held" => t.fd \in connections)
      BY DEF HeldIsOpen
    <2>1. t.at \in {"held", "removed"}
      BY DEF IInv, TypeOK, Task
    <2> QED BY <2>1 DEF IInv, TypeOK, Holding, IsConnection
  <1> QED BY <1>1, Inductive, PTL

-----------------------------------------------------------------------------
(* What m_fds remembers, when no bound socket is given up *)

\* m_fds has open descriptors only, and none that a worker still has to hand over or
\* to close: whatever accept() and socket() return can be added.
Registered ==
    /\ ~binds => socket = NoFD
    /\ fds \subseteq open \cup {Trigger}
    /\ accepted \notin fds
    /\ \A t \in tasks : t.at = "removed" => t.fd \notin fds
    /\ RegisteredIsPolled

LEMMA InitRegistered == Init => Registered
  BY NoFDAssumption DEF Init, MonitorInit, Registered, RegisteredIsPolled

\* Steps of the control thread while there is no thread of the loop.
LEMMA ControlKeepsRegistered ==
    ASSUME ~Rebinds, IInv, Registered,
           BindNoFD \/ Unbind \/ \E fd \in FDs : Bind(fd) \/ AddConnected(fd)
    PROVE  Registered'
  <1>1. ~thread /\ UNCHANGED <<tasks, accepted>>
    BY DEF BindNoFD, Unbind, DropSocket, Bind, AddConnected, loopVars
  <1>2. tasks' = {} /\ accepted' = NoFD
    BY <1>1, Quiet
  <1>3. NoFD \notin FDs \cup {Trigger} /\ fds \subseteq FDs \cup {Trigger} /\ polled \subseteq fds
    BY NoFDAssumption DEF IInv, TypeOK
  <1>4. CASE BindNoFD
    <2>1. socket = NoFD /\ socket' = NoFD /\ binds' = TRUE
      BY <1>4 DEF BindNoFD, DropSocket, Registered
    <2> QED BY <1>2, <1>3, <1>4, <2>1
            DEF BindNoFD, DropSocket, Close, Registered, RegisteredIsPolled
  <1>5. ~Unbind
    BY DEF Unbind
  <1>6. ASSUME NEW fd \in FDs, Bind(fd) PROVE Registered'
    <2>1. socket = NoFD /\ fd \notin open /\ fd \notin fds /\ binds' = TRUE
      BY <1>6, TriggerAssumption DEF Bind, Registered
    <2>2. fds' = fds \cup {fd} /\ polled' = (polled \ {socket}) \cup {fd}
          /\ open' = (open \ {socket}) \cup {fd} /\ connections' = connections
      BY <1>6, <2>1 DEF Bind, CanAdd
    <2> QED BY <1>2, <1>3, <2>1, <2>2 DEF Registered, RegisteredIsPolled
  <1>7. ASSUME NEW fd \in FDs, AddConnected(fd) PROVE Registered'
    <2>1. fd \notin open /\ fd \notin fds
      BY <1>7, TriggerAssumption DEF AddConnected, Registered
    <2>2. /\ fds' = fds \cup {fd} /\ polled' = polled \cup {fd}
          /\ open' = open \cup {fd} /\ connections' = connections \cup {fd}
          /\ UNCHANGED <<socket, binds>>
      BY <1>7, <2>1 DEF AddConnected, MonitorAdd, CanAdd, controlVars
    <2> QED BY <1>2, <1>3, <2>1, <2>2 DEF Registered, RegisteredIsPolled
  <1> QED BY <1>4, <1>5, <1>6, <1>7

\* Workers: what they add was not in m_fds, what they close is no longer in it.
LEMMA WorkKeepsRegistered ==
    ASSUME IInv, Registered, NEW t \in tasks, Work(t)
    PROVE  Registered'
  <1>1. UNCHANGED <<socket, binds>>
    BY DEF Work, HandleNothing, Accept, AcceptDone, Keep, Refuse, Lookup, ProcessBusy, ProcessCancel,
           EndSession, Release, controlVars
  <1>2. NoFD \notin FDs \cup {Trigger} /\ fds \subseteq FDs \cup {Trigger} /\ polled \subseteq fds
    BY NoFDAssumption DEF IInv, TypeOK
  <1>3. CASE HandleNothing(t) \/ AcceptDone(t) \/ ProcessBusy(t) \/ ProcessCancel(t)
    BY <1>1, <1>3 DEF HandleNothing, AcceptDone, ProcessBusy, ProcessCancel, Finish, monitorVars, netVars,
                      Registered, RegisteredIsPolled
  <1>4. CASE Accept(t)
    <2>1. PICK fd \in FDs \ open : accepted' = fd /\ open' = open \cup {fd}
      BY <1>4 DEF Accept
    <2>2. fd \notin fds
      BY <2>1, TriggerAssumption DEF Registered
    <2>3. Turn(t, "todo", "held") /\ UNCHANGED <<fds, polled, connections>>
      BY <1>4 DEF Accept, monitorVars
    <2>4. \A s \in tasks' : s.at = "removed" => s \in tasks
      BY <2>3, TurnKeeps
    <2> QED BY <1>1, <2>1, <2>2, <2>3, <2>4 DEF Registered, RegisteredIsPolled
  <1>5. CASE Keep(t)
    <2>1. Turn(t, "held", "todo") /\ IsListener(t) /\ accepted' = NoFD /\ open' = open
      BY <1>5 DEF Keep, netVars
    <2>2. \A s \in tasks' : s.at = "removed" => s \in tasks
      BY <2>1, TurnKeeps
    <2>3. accepted \in open /\ \A s \in tasks : s.at = "removed" => s.fd # accepted
      BY <2>1 DEF Turn, IInv, Accepting
    <2>4. /\ fds' = fds \cup {accepted} /\ polled' = polled \cup {accepted}
          /\ connections' = connections \cup {accepted}
      BY <1>5 DEF Keep, MonitorAdd, CanAdd, Registered
    <2>5. accepted # NoFD
      BY <2>3, <1>2 DEF IInv, TypeOK
    <2> QED BY <1>1, <1>2, <2>1, <2>2, <2>3, <2>4, <2>5 DEF Registered, RegisteredIsPolled
  <1>6. CASE Refuse(t)
    <2>1. /\ Turn(t, "held", "todo") /\ accepted' = NoFD /\ open' = open \ {accepted}
          /\ UNCHANGED <<fds, polled, connections>>
      BY <1>6 DEF Refuse, Close, monitorVars
    <2>2. \A s \in tasks' : s.at = "removed" => s \in tasks
      BY <2>1, TurnKeeps
    <2> QED BY <1>1, <1>2, <2>1, <2>2 DEF Registered, RegisteredIsPolled
  <1>7. CASE Lookup(t)
    <2>1. Turn(t, "todo", "held") \/ Finish(t, "todo")
      BY <1>7 DEF Lookup
    <2>2. \A s \in tasks' : s.at = "removed" => s \in tasks
      BY <2>1, TurnKeeps, FinishKeeps
    <2> QED BY <1>1, <1>7, <2>2 DEF Lookup, monitorVars, netVars, Registered, RegisteredIsPolled
  <1>8. CASE EndSession(t)
    <2>1. UNCHANGED <<accepted, open>>
      BY <1>8 DEF EndSession, keepLoop, netVars
    <2>2. CASE Turn(t, "held", "removed") /\ MonitorDel(t.fd) /\ connections' = connections \ {t.fd}
      <3>1. fds' = fds \ {t.fd} /\ polled \ {t.fd} \subseteq polled'
        BY <2>2 DEF MonitorDel
      <3>2. \A s \in tasks' : s \in tasks \/ s.fd = t.fd
        BY <2>2, TurnKeeps
      <3> QED BY <1>1, <2>1, <2>2, <3>1, <3>2 DEF Registered, RegisteredIsPolled
    <2>3. CASE Finish(t, "held") /\ UNCHANGED <<fds, polled, connections>>
      BY <1>1, <2>1, <2>3 DEF Finish, Registered, RegisteredIsPolled
    <2> QED BY <1>8, <2>2, <2>3 DEF EndSession
  <1>9. CASE Release(t)
    <2>1. /\ Finish(t, "removed") /\ open' = open \ {t.fd}
          /\ UNCHANGED <<fds, polled, accepted, connections>>
      BY <1>9 DEF Release, Close, monitorVars
    <2>2. t.fd \notin fds
      BY <2>1 DEF Finish, Registered
    <2> QED BY <1>1, <2>1, <2>2 DEF Finish, Registered, RegisteredIsPolled
  <1> QED BY <1>3, <1>4, <1>5, <1>6, <1>7, <1>8, <1>9 DEF Work

LEMMA NextRegistered == ~Rebinds /\ IInv /\ Registered /\ [Next]_vars => Registered'
  <1> SUFFICES ASSUME ~Rebinds, IInv, Registered, [Next]_vars PROVE Registered'
    OBVIOUS
  <1> USE DEF Registered, RegisteredIsPolled, monitorVars, controlVars, loopVars, netVars
  <1>1. CASE UNCHANGED vars
    BY <1>1 DEF vars
  <1>2. CASE Start \/ StopHalt \/ StopStep
    BY <1>2 DEF Start, StopHalt, StopStep, StopTrigger, StopJoin
  <1>3. CASE Started \/ Check \/ Resize \/ WaitTimeout \/ Stopped
    BY <1>3 DEF Started, Check, Resize, WaitTimeout, Stopped
  <1>4. CASE Wait
    <2>1. \A t \in tasks' : t.at = "removed" => t \in tasks
      BY <1>4 DEF Wait
    <2> QED BY <1>4, <2>1 DEF Wait
  <1>5. CASE Unbind \/ BindNoFD \/ \E fd \in FDs : Bind(fd) \/ AddConnected(fd)
    BY <1>5, ControlKeepsRegistered
  <1>6. CASE \E t \in tasks : Work(t)
    BY <1>6, WorkKeepsRegistered
  <1>7. CASE ClientArrives \/ \E fd \in FDs, condition \in {"in", "hup"} : PeerSends(fd, condition)
    BY <1>7 DEF ClientArrives, PeerSends
  <1> QED BY <1>1, <1>2, <1>3, <1>4, <1>5, <1>6, <1>7 DEF Next, LoopStep

\* As long as the application gives up no bound socket, every connection that addTCP()
\* took is waited for: Monitor::add() cannot have refused it.
THEOREM RegisteredIsPolledCorrect ==
    ASSUME ~Rebinds
    PROVE  Spec => []RegisteredIsPolled
  <1>1. IInv /\ Registered /\ [Next]_vars => Registered'
    BY NextRegistered
  <1>2. Registered => RegisteredIsPolled
    BY DEF Registered
  <1> QED BY <1>1, <1>2, InitRegistered, Inductive, PTL DEF Spec
=============================================================================
