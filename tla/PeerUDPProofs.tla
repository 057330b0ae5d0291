---------------------------- MODULE PeerUDPProofs ----------------------------
(***************************************************************************)
(* Theorems about PeerUDP, for any descriptors, any size of the socket's   *)
(* buffer and of the trigger's.                                            *)
(*                                                                         *)
(* Nothing runs after stop() because threadFunc begins only where start()  *)
(* set m_thread and only StopJoin clears it, which waits for its end       *)
(* (Threads); a callback runs only inside threadFunc's loop (Handing).     *)
(***************************************************************************)
EXTENDS PeerUDP, TLAPS

\* m_thread is set exactly while there is a thread, ended or not.
Threads == thread <=> loop # "none"

\* stop() is under way only while there is one.
Stopping == control # "outside" => thread

\* A callback runs only where threadFunc hands something on.
Handing == handed # "nobody" => loop = "hand"

IInv == TypeOK /\ Threads /\ Stopping /\ Handing /\ BoundIsPolled

-----------------------------------------------------------------------------
(* Helpers *)

\* The descriptors wait() reports are waited for, the trigger only if it was sent.
LEMMA ReportsSignalled ==
    ASSUME NEW set \in Reports(1), TypeOK
    PROVE  Trigger \in set => triggers > 0
  BY DEF Reports, Signalled, TypeOK

\* Taking the trigger out of the socket pair leaves a number of datagrams it may hold.
LEMMA UntriggerType ==
    ASSUME NEW set \in Reports(1), TypeOK, Untrigger(set)
    PROVE  triggers' \in 0 .. MaxTriggers
  BY ReportsSignalled, MaxTriggersAssumption DEF Untrigger, TypeOK

\* What the kernel reports of a socket from which a datagram was taken.
LEMMA DrainedType ==
    ASSUME TypeOK, NEW fd
    PROVE  Drained(fd) \in [FDs -> Conditions]
  BY DEF Drained, TypeOK, Conditions

\* The callbacks a datagram may go to.
LEMMA CallbackType ==
    ASSUME NEW d
    PROVE  Callback(d) \in {"ping", "legacyPing", "encrypted"}
  BY DEF Callback

\* A datagram taken from the queue leaves a queue.
LEMMA TailType ==
    ASSUME TypeOK, queue # <<>>
    PROVE  Tail(queue) \in Seq(Datagram) /\ Len(Tail(queue)) <= MaxQueue
  <1> DEFINE D == Datagram
  <1>1. queue \in Seq(D) /\ Len(queue) <= MaxQueue /\ MaxQueue \in Nat
    BY UDPAssumption DEF TypeOK
  <1> HIDE DEF D
  <1>2. Tail(queue) \in Seq(D) /\ Len(Tail(queue)) = Len(queue) - 1
    BY <1>1
  <1> QED BY <1>1, <1>2 DEF D

-----------------------------------------------------------------------------
(* The steps *)

LEMMA InitIInv == Init => IInv
  <1> SUFFICES ASSUME Init PROVE IInv
    OBVIOUS
  <1>1. <<>> \in Seq(Datagram) /\ Len(<<>>) <= MaxQueue
    BY UDPAssumption
  <1>2. ready \in [FDs -> Conditions]
    BY DEF Init, MonitorInit, Conditions
  <1>3. queue \in Seq(Datagram) /\ Len(queue) <= MaxQueue
    BY <1>1 DEF Init
  <1>4. triggers \in 0 .. MaxTriggers
    BY MaxTriggersAssumption DEF Init, MonitorInit
  <1>5. TypeOK
    BY <1>2, <1>3, <1>4 DEF Init, MonitorInit, TypeOK
  <1> QED BY <1>5 DEF Init, IInv, Threads, Stopping, Handing, BoundIsPolled

LEMMA ControlKeeps ==
    ASSUME IInv, Start \/ StopHalt \/ StopStep
    PROVE  IInv'
  <1> USE DEF IInv, TypeOK, Threads, Stopping, Handing, BoundIsPolled, monitorVars, loopVars
  <1>1. CASE Start
    BY <1>1 DEF Start
  <1>2. CASE StopHalt
    BY <1>2 DEF StopHalt
  <1>3. CASE StopTrigger
    BY <1>3, MaxTriggersAssumption DEF StopTrigger, SendTrigger
  <1>4. CASE StopJoin
    BY <1>4 DEF StopJoin
  <1> QED BY <1>1, <1>2, <1>3, <1>4 DEF StopStep

\* A socket is replaced by one that is not open elsewhere.
LEMMA BindKeeps ==
    ASSUME IInv, (\E fd \in FDs : Bind(fd)) \/ BindNoFD \/ Unbind
    PROVE  IInv'
  <1> USE DEF IInv, TypeOK, Threads, Stopping, Handing, BoundIsPolled, loopVars, Replace, Open,
              Conditions
  <1>0. <<>> \in Seq(Datagram) /\ Len(<<>>) <= MaxQueue
    BY UDPAssumption
  <1>1. ASSUME NEW fd \in FDs, Bind(fd) PROVE IInv'
    BY <1>0, <1>1 DEF Bind, CanAdd
  <1>2. CASE BindNoFD
    BY <1>0, <1>2, UDPAssumption DEF BindNoFD
  <1>3. CASE Unbind
    BY <1>0, <1>3, UDPAssumption DEF Unbind
  <1> QED BY <1>1, <1>2, <1>3

LEMMA ElsewhereKeeps ==
    ASSUME IInv, NEW fd \in FDs, Elsewhere(fd)
    PROVE  IInv'
  BY DEF IInv, TypeOK, Threads, Stopping, Handing, BoundIsPolled, Elsewhere, monitorVars, loopVars

LEMMA ReadKeeps ==
    ASSUME IInv, ReadDatagram \/ ReadEmpty \/ ReadNothing \/ ReadError \/ Return
    PROVE  IInv'
  <1> USE DEF IInv, Threads, Stopping, Handing, BoundIsPolled, keepControl, monitorVars, controlVars,
              Goto
  <1>1. CASE ReadDatagram
    <2>1. TypeOK'
      BY <1>1, TailType, DrainedType, CallbackType DEF ReadDatagram, TypeOK
    <2> QED BY <1>1, <2>1 DEF ReadDatagram
  <1>2. CASE ReadEmpty
    <2>1. TypeOK'
      BY <1>2, TailType, DrainedType DEF ReadEmpty, TypeOK
    <2> QED BY <1>2, <2>1 DEF ReadEmpty
  <1>3. CASE ReadNothing
    BY <1>3 DEF ReadNothing, TypeOK
  <1>4. CASE ReadError
    BY <1>4 DEF ReadError, TypeOK, Conditions
  <1>5. CASE Return
    BY <1>5 DEF Return, TypeOK
  <1> QED BY <1>1, <1>2, <1>3, <1>4, <1>5

LEMMA LoopKeeps ==
    ASSUME IInv, Started \/ Check \/ Wait \/ WaitTimeout \/ Stopped
    PROVE  IInv'
  <1> USE DEF IInv, Threads, Stopping, Handing, BoundIsPolled, keepControl, monitorVars, controlVars,
              Goto
  <1>1. CASE Started
    BY <1>1 DEF Started, TypeOK
  <1>2. CASE Check
    BY <1>2 DEF Check, TypeOK
  <1>3. CASE Wait
    <2>1. triggers' \in 0 .. MaxTriggers
      BY <1>3, UntriggerType DEF Wait
    <2> QED BY <1>3, <2>1 DEF Wait, TypeOK
  <1>4. CASE WaitTimeout
    BY <1>4 DEF WaitTimeout, TypeOK
  <1>5. CASE Stopped
    BY <1>5 DEF Stopped, TypeOK
  <1> QED BY <1>1, <1>2, <1>3, <1>4, <1>5

LEMMA NetworkKeeps ==
    ASSUME IInv, ArriveAny \/ Unreachable
    PROVE  IInv'
  <1> USE DEF IInv, Threads, Stopping, Handing, BoundIsPolled, keepControl, monitorVars, controlVars,
              loopVars
  <1>1. ASSUME NEW d \in Datagram, Arrive(d) PROVE IInv'
    <2>1. queue' \in Seq(Datagram) /\ Len(queue') <= MaxQueue
      <3> DEFINE D == Datagram
      <3>1. queue \in Seq(D) /\ d \in D /\ Len(queue) < MaxQueue /\ MaxQueue \in Nat
        BY <1>1, UDPAssumption DEF Arrive, TypeOK
      <3> HIDE DEF D
      <3>2. Append(queue, d) \in Seq(D) /\ Len(Append(queue, d)) = Len(queue) + 1
        BY <3>1
      <3> QED BY <1>1, <3>1, <3>2 DEF Arrive, D
    <2>2. ready' \in [FDs -> Conditions]
      BY <1>1 DEF Arrive, TypeOK, Conditions
    <2> QED BY <1>1, <2>1, <2>2 DEF Arrive, TypeOK
  <1>2. CASE Unreachable
    <2>1. ready' \in [FDs -> Conditions]
      BY <1>2 DEF Unreachable, TypeOK, Conditions
    <2> QED BY <1>2, <2>1 DEF Unreachable, TypeOK
  <1> QED BY <1>1, <1>2 DEF ArriveAny

LEMMA NextIInv == IInv /\ [Next]_vars => IInv'
  <1> SUFFICES ASSUME IInv, [Next]_vars PROVE IInv'
    OBVIOUS
  <1>1. CASE Next
    BY <1>1, ControlKeeps, BindKeeps, ElsewhereKeeps, ReadKeeps, LoopKeeps, NetworkKeeps
    DEF Next, LoopStep
  <1>2. CASE UNCHANGED vars
    BY <1>2 DEF vars, monitorVars, controlVars, loopVars, IInv, TypeOK, Threads, Stopping, Handing,
                BoundIsPolled
  <1> QED BY <1>1, <1>2

LEMMA Inductive == Spec => []IInv
  BY InitIInv, NextIInv, PTL DEF Spec

-----------------------------------------------------------------------------
(* Theorems *)

\* Every variable keeps its type: threadFunc, the trigger and the socket's buffer stay in
\* their bounds.
THEOREM TypeCorrect == Spec => []TypeOK
  BY Inductive, PTL DEF IInv

\* Once stop() has returned no thread runs and no callback.
THEOREM QuietAfterStopCorrect == Spec => []QuietAfterStop
  <1>1. IInv => QuietAfterStop
    BY DEF IInv, Threads, Handing, QuietAfterStop
  <1> QED BY Inductive, <1>1, PTL

\* A socket for which bind() returned Success is in the kernel's interest list.
THEOREM BoundIsPolledCorrect == Spec => []BoundIsPolled
  BY Inductive, PTL DEF IInv
=============================================================================
