--------------------------- MODULE ConnectionProofs ---------------------------
(***************************************************************************)
(* Theorems about Connection, for any number of threads and every value of *)
(* the other constants.                                                    *)
(*                                                                         *)
(* The argument: the mutex makes connect, process and write exclusive      *)
(* (Locked); a thread is at "report" exactly while it owns a note          *)
(* (Noted); the monitors admit one handshake, and before opened() nobody   *)
(* can be anywhere else (Begun).  With these EndAccounted is inductive.    *)
(* The session, the fatal codes and the timeouts follow from it.           *)
(***************************************************************************)
EXTENDS Connection, TLAPS

\* Thread t is inside a function that holds the mutex.
Active(t) == \E f \in Locking : pc[t][f] # "idle"

\* What the call stacks can look like.
StackOf(t) ==
    /\ pc[t]["connect"] \in {"idle", "handshake", "opening", "opened"}
    /\ pc[t]["process"] \in {"idle", "header", "body", "pack", "more", "report"}
    /\ pc[t]["write"] \in {"idle", "data", "report"}
    /\ pc[t]["event"] \in {"idle", "report"}
    /\ pc[t]["process"] # "idle" => pc[t]["connect"] \in {"idle", "opened"}
    /\ pc[t]["write"] # "idle" => /\ pc[t]["connect"] \in {"idle", "opened"}
                                  /\ pc[t]["process"] \in {"idle", "pack"}
    /\ t # Worker => pc[t]["event"] = "idle"
    /\ t = Worker =>
         /\ pc[t]["connect"] = "idle"
         /\ pc[t]["event"] # "idle" => held = "none"
         /\ held = "none" => pc[t]["process"] = "idle" /\ pc[t]["write"] = "idle"
         /\ held = "found" => Idle(t)

Stacks == \A t \in Threads : StackOf(t)

Locked == \A t \in Threads : Active(t) <=> owner = t

Noted == \A t \in Threads : note[t] # "none" <=> \E f \in Functions : pc[t][f] = "report"

\* Before opened() only one thread, in its handshake, has anything to do with the
\* connection.
Begun ==
    /\ opened \in {0, 1}
    /\ opened = 1 => monitored
    /\ opened = 0 => /\ ~registered /\ held = "none"
                     /\ ended = 0 /\ how = "none"
    /\ \A t \in Threads :
         /\ pc[t]["connect"] # "idle" => monitored
         /\ pc[t]["connect"] \in {"handshake", "opening"} => opened = 0
         /\ opened = 0 => /\ note[t] = "none"
                          /\ pc[t]["process"] = "idle" /\ pc[t]["write"] = "idle" /\ pc[t]["event"] = "idle"

\* m_timeouts counts the timeouts since the last success; a thread that notes a timeout holds
\* the mutex, so nobody reads until it has reported.
Counted ==
    /\ Established => timeouts <= expired
    /\ \A t \in Threads : note[t] = "Timeout" => Timeouts <= expired /\ pc[t]["event"] = "idle"

Shape == Stacks /\ Locked /\ Noted /\ Begun /\ EndAccounted

IInv == TypeOK /\ Shape

-----------------------------------------------------------------------------
(* The elementary changes of the call stacks *)

LEMMA GotoPC ==
    ASSUME TypeOK, NEW t \in Threads, NEW f \in Functions, NEW point \in PCs, Goto(t, f, point)
    PROVE  /\ pc' \in [Threads -> [Functions -> PCs]]
           /\ \A u \in Threads, g \in Functions :
                 pc'[u][g] = IF u = t /\ g = f THEN point ELSE pc[u][g]
  BY DEF TypeOK, Goto

LEMMA SameEstablished ==
    ASSUME TypeOK, NEW t \in Threads, NEW f \in Functions, NEW point \in PCs, Goto(t, f, point),
           opened' = opened,
           f = "connect" => pc[t]["connect"] # "opening" /\ point # "opening"
    PROVE  Established' <=> Established
  <1>1. "connect" \in Functions
    BY DEF Functions
  <1>2. \A u \in Threads : pc'[u]["connect"] = "opening" <=> pc[u]["connect"] = "opening"
    BY <1>1, GotoPC
  <1> QED BY <1>2 DEF Established

\* Two threads are never both inside functions that hold the mutex.
LEMMA OneActive ==
    ASSUME Locked, NEW t \in Threads, NEW u \in Threads, Active(t), Active(u) PROVE t = u
  BY DEF Locked

\* A function returns, with nothing reported.
LEMMA ReturnKeeps ==
    ASSUME TypeOK, Shape, NEW t \in Threads, NEW f \in Functions, NEW c \in Codes,
           Runs(t, f), pc[t][f] \notin {"report", "opening"}, Return(t, f, c),
           UNCHANGED <<note, closed, opened, ended, how, monitored, registered, held>>
    PROVE  Shape'
  <1> USE DEF Shape
  <1>0. "idle" \in PCs /\ Goto(t, f, "idle")
    BY DEF PCs, Return
  <1>1. \A u \in Threads, g \in Functions : pc'[u][g] = IF u = t /\ g = f THEN "idle" ELSE pc[u][g]
    BY <1>0, GotoPC
  <1>2. Stacks'
    <2> SUFFICES ASSUME NEW u \in Threads PROVE StackOf(u)'
      BY DEF Stacks
    <2>1. StackOf(u)
      BY DEF Stacks
    <2> QED BY <1>1, <2>1 DEF StackOf, Functions, Runs, Inner, Idle
  <1>3. Locked'
    <2> SUFFICES ASSUME NEW u \in Threads PROVE Active(u)' <=> owner' = u
      BY DEF Locked
    <2>0. /\ owner \in Threads \cup {NoThread} /\ NoThread \notin Threads /\ Locking \subseteq Functions
          /\ pc[t][f] # "idle"
          /\ Active(u) <=> owner = u
          /\ Active(t) <=> owner = t
      BY ThreadsAssumption DEF TypeOK, Locking, Functions, Runs, Locked
    <2>1. CASE f \in Locking
      <3>1. owner = t
        BY <2>0, <2>1 DEF Active
      <3>2. owner' = IF \A g \in Locking \ {f} : pc[t][g] = "idle" THEN NoThread ELSE t
        BY <2>1, <3>1 DEF Return, Released
      <3>3. CASE u = t
        BY <1>1, <2>0, <2>1, <3>2, <3>3 DEF Active
      <3>4. CASE u # t
        BY <1>1, <2>0, <3>1, <3>2, <3>4 DEF Active
      <3> QED BY <3>3, <3>4
    <2>2. CASE f \notin Locking
      <3>1. owner' = owner
        BY <2>2 DEF Return
      <3> QED BY <1>1, <2>0, <2>2, <3>1 DEF Active
    <2> QED BY <2>1, <2>2
  <1>4. Noted'
    BY <1>1 DEF Noted
  <1>5. Begun'
    BY <1>1 DEF Begun, Functions
  <1>6. EndAccounted'
    <2>1. Established' <=> Established
      BY <1>0, SameEstablished
    <2>2. Notifying' = Notifying
      BY DEF Notifying
    <2> QED BY <2>1, <2>2 DEF EndAccounted, EndOnce
  <1> QED BY <1>2, <1>3, <1>4, <1>5, <1>6

\* process() goes on, with nothing reported.
LEMMA ProcessKeeps ==
    ASSUME TypeOK, Shape, NEW t \in Threads, NEW point \in {"header", "body", "pack", "more"},
           Runs(t, "process"), pc[t]["process"] # "report", Goto(t, "process", point),
           UNCHANGED <<owner, note, closed, opened, ended, how, monitored, registered, held>>
    PROVE  Shape'
  <1> USE DEF Shape
  <1>0. point \in PCs /\ "process" \in Functions
    BY DEF PCs, IOPoints, Functions
  <1>1. \A u \in Threads, g \in Functions :
          pc'[u][g] = IF u = t /\ g = "process" THEN point ELSE pc[u][g]
    BY <1>0, GotoPC
  <1>2. Stacks'
    <2> SUFFICES ASSUME NEW u \in Threads PROVE StackOf(u)'
      BY DEF Stacks
    <2>1. StackOf(u)
      BY DEF Stacks
    <2> QED BY <1>1, <2>1 DEF StackOf, Functions, Runs, Inner, Idle
  <1>3. Locked'
    BY <1>0, <1>1 DEF Locked, Active, Locking, Functions, Runs
  <1>4. Noted'
    BY <1>0, <1>1 DEF Noted, Runs
  <1>5. Begun'
    BY <1>1 DEF Begun, Functions, Runs
  <1>6. EndAccounted'
    <2>1. Established' <=> Established
      BY <1>0, SameEstablished
    <2>2. Notifying' = Notifying
      BY DEF Notifying
    <2> QED BY <2>1, <2>2 DEF EndAccounted, EndOnce
  <1> QED BY <1>2, <1>3, <1>4, <1>5, <1>6

\* m_closed was clear: thread t sets it and is about to report.  In the handshake
\* it is set already, so f is not connect.
LEMMA WinKeeps ==
    ASSUME TypeOK, Shape, ~closed, NEW t \in Threads, NEW f \in Functions, NEW c \in Fatal,
           \/ f \in Locking /\ Runs(t, f) /\ pc[t][f] \in IOPoints /\ held' = held
           \/ f = "event" /\ Idle(t) /\ t = Worker /\ held = "found" /\ held' = "none",
           closed' = TRUE, note' = [note EXCEPT ![t] = c], Goto(t, f, "report"),
           UNCHANGED <<owner, opened, ended, how, monitored, registered>>
    PROVE  Shape'
  <1> USE DEF Shape
  <1>0. "report" \in PCs
    BY DEF PCs
  <1>1. \A u \in Threads, g \in Functions :
          pc'[u][g] = IF u = t /\ g = f THEN "report" ELSE pc[u][g]
    BY <1>0, GotoPC
  <1>2. f # "connect"
    <2> SUFFICES ASSUME f = "connect" PROVE FALSE
      OBVIOUS
    <2>1. pc[t]["connect"] = "handshake" /\ opened = 0
      BY DEF Stacks, StackOf, IOPoints, Begun, Locking
    <2>2. PICK u \in Threads : pc[u]["connect"] = "opening"
      BY <2>1 DEF EndAccounted, Established
    <2>3. Active(t) /\ Active(u)
      BY <2>1, <2>2 DEF Active, Locking
    <2> QED BY <2>1, <2>2, <2>3, OneActive
  <1>3. "none" \notin Fatal
    BY DEF Fatal
  <1>4. \A u \in Threads : note'[u] = IF u = t THEN c ELSE note[u]
    BY DEF TypeOK
  <1>5. Established /\ ended = 0 /\ Notifying = {}
    BY DEF EndAccounted
  <1>6. Stacks'
    <2> SUFFICES ASSUME NEW u \in Threads PROVE StackOf(u)'
      BY DEF Stacks
    <2>1. StackOf(u)
      BY DEF Stacks
    <2>2. CASE f = "event"
      BY <1>1, <2>1, <2>2 DEF StackOf, Functions, Idle, Locking
    <2>3. CASE f # "event"
      BY <1>1, <1>2, <2>1, <2>3 DEF StackOf, Functions, Runs, Inner, Idle, IOPoints
    <2> QED BY <2>2, <2>3
  <1>7. Locked'
    BY <1>1, <1>2 DEF Locked, Active, Locking, Functions, IOPoints
  <1>8. Noted'
    BY <1>1, <1>3, <1>4 DEF Noted
  <1>9. Begun'
    <2>1. opened = 1
      <3>1. CASE f = "event"
        BY <3>1 DEF Begun, Locking
      <3>2. CASE f # "event"
        BY <1>2, <3>2 DEF Begun, IOPoints, Functions
      <3> QED BY <3>1, <3>2
    <2> QED BY <1>1, <1>2, <2>1 DEF Begun, Functions
  <1>10. EndAccounted'
    <2>1. Established'
      BY <1>0, <1>2, <1>5, SameEstablished
    <2>2. Notifying' = {t}
      BY <1>3, <1>4, <1>5 DEF Notifying
    <2> QED BY <1>5, <2>1, <2>2 DEF EndAccounted, EndOnce
  <1> QED BY <1>6, <1>7, <1>8, <1>9, <1>10

\* `if (!m_closed.test_and_set())` in a call that holds the mutex.
LEMMA EndKeeps ==
    ASSUME TypeOK, Shape, NEW t \in Threads, NEW f \in Functions, NEW c \in Fatal,
           Runs(t, f), pc[t][f] \in IOPoints, End(t, f, c),
           UNCHANGED <<monitored, registered, held>>
    PROVE  Shape'
  <1>1. CASE closed
    <2>1. c \in Codes /\ pc[t][f] \notin {"report", "opening"}
      BY DEF Codes, IOPoints
    <2> QED BY <1>1, <2>1, ReturnKeeps DEF End, TypeOK
  <1>2. CASE ~closed
    <2>1. f \in Locking
      BY DEF Shape, Stacks, StackOf, Functions, Locking, IOPoints, Runs
    <2> QED BY <1>2, <2>1, WinKeeps DEF End
  <1> QED BY <1>1, <1>2

\* closed() or failed() returns.
LEMMA ReportKeeps ==
    ASSUME TypeOK, Shape, NEW t \in Threads, NEW f \in Functions, Report(t, f)
    PROVE  Shape'
  <1> USE DEF Shape
  <1>0. "idle" \in PCs /\ Goto(t, f, "idle") /\ pc[t][f] = "report"
    BY DEF PCs, Return, Report
  <1>1. \A u \in Threads, g \in Functions : pc'[u][g] = IF u = t /\ g = f THEN "idle" ELSE pc[u][g]
    BY <1>0, GotoPC
  <1>2. \A u \in Threads : note'[u] = IF u = t THEN "none" ELSE note[u]
    BY DEF Report, TypeOK
  <1>3. note[t] # "none"
    BY <1>0 DEF Noted
  <1>4. closed /\ Established /\ ended = 0 /\ Notifying = {t}
    <2>1. t \in Notifying
      BY <1>3 DEF Notifying
    <2> QED BY <2>1 DEF EndAccounted, EndOnce
  <1>5. f # "connect"
    BY <1>0 DEF Stacks, StackOf
  <1>6. \A g \in Functions : g # f => pc[t][g] # "report"
    <2>1. StackOf(t) /\ Runs(t, f)
      BY DEF Stacks, Report
    <2> QED BY <1>0, <1>5, <2>1 DEF StackOf, Functions, Runs, Inner, Idle
  <1>7. Stacks'
    <2> SUFFICES ASSUME NEW u \in Threads PROVE StackOf(u)'
      BY DEF Stacks
    <2>1. StackOf(u)
      BY DEF Stacks
    <2> QED BY <1>1, <2>1 DEF StackOf, Functions, Runs, Inner, Idle, Report
  <1>8. Locked'
    <2> SUFFICES ASSUME NEW u \in Threads PROVE Active(u)' <=> owner' = u
      BY DEF Locked
    <2>0. /\ NoThread \notin Threads /\ Locking \subseteq Functions
          /\ Active(u) <=> owner = u
          /\ Active(t) <=> owner = t
      BY ThreadsAssumption DEF Locking, Functions, Locked
    <2>1. CASE f \in Locking
      <3>1. owner = t
        BY <1>0, <2>0, <2>1 DEF Active
      <3>2. owner' = IF \A g \in Locking \ {f} : pc[t][g] = "idle" THEN NoThread ELSE t
        BY <2>1, <3>1 DEF Return, Released, Report
      <3>3. CASE u = t
        BY <1>1, <2>0, <2>1, <3>2, <3>3 DEF Active
      <3>4. CASE u # t
        BY <1>1, <2>0, <3>1, <3>2, <3>4 DEF Active
      <3> QED BY <3>3, <3>4
    <2>2. CASE f \notin Locking
      <3>1. owner' = owner
        BY <2>2 DEF Return, Report
      <3> QED BY <1>1, <2>0, <2>2, <3>1 DEF Active
    <2> QED BY <2>1, <2>2
  <1>9. Noted'
    BY <1>1, <1>2, <1>6 DEF Noted
  <1>10. Begun'
    <2>1. opened = 1
      BY <1>3 DEF Begun
    <2> QED BY <1>1, <1>2, <2>1 DEF Begun, Functions, Report
  <1>11. EndAccounted'
    <2>1. Established'
      BY <1>0, <1>4, <1>5, SameEstablished DEF Report
    <2>2. Notifying' = {}
      BY <1>2, <1>4 DEF Notifying
    <2> QED BY <1>4, <2>1, <2>2 DEF EndAccounted, EndOnce, Report
  <1> QED BY <1>7, <1>8, <1>9, <1>10, <1>11

\* The handshake succeeded: m_closed is cleared, and nothing was reported before.
LEMMA HandshakeKeeps ==
    ASSUME TypeOK, Shape, NEW t \in Threads,
           pc[t]["connect"] = "handshake", Goto(t, "connect", "opening"), closed' = FALSE,
           UNCHANGED <<owner, note, opened, ended, how, monitored, registered, held>>
    PROVE  Shape'
  <1> USE DEF Shape
  <1>0. "opening" \in PCs /\ "connect" \in Functions
    BY DEF PCs, Functions
  <1>1. \A u \in Threads, g \in Functions :
          pc'[u][g] = IF u = t /\ g = "connect" THEN "opening" ELSE pc[u][g]
    BY <1>0, GotoPC
  <1>2. opened = 0 /\ Notifying = {} /\ ended = 0
    BY DEF Begun, Notifying
  <1>3. Stacks'
    <2> SUFFICES ASSUME NEW u \in Threads PROVE StackOf(u)'
      BY DEF Stacks
    <2>1. StackOf(u)
      BY DEF Stacks
    <2> QED BY <1>1, <2>1 DEF StackOf, Functions, Idle
  <1>4. Locked'
    BY <1>0, <1>1 DEF Locked, Active, Locking, Functions
  <1>5. Noted'
    BY <1>0, <1>1 DEF Noted
  <1>6. Begun'
    BY <1>1 DEF Begun, Functions
  <1>7. EndAccounted'
    <2>1. Established'
      BY <1>0, <1>1 DEF Established
    <2>2. Notifying' = {}
      BY <1>2 DEF Notifying
    <2> QED BY <1>2, <2>1, <2>2 DEF EndAccounted
  <1> QED BY <1>3, <1>4, <1>5, <1>6, <1>7

\* The handshake's connection is opened: opened() is entered.
LEMMA OpenedKeeps ==
    ASSUME TypeOK, Shape, NEW t \in Threads, Opened(t)
    PROVE  Shape'
  <1> USE DEF Shape, Opened, peerVars
  <1>0. "opened" \in PCs /\ "connect" \in Functions /\ pc[t]["connect"] = "opening"
    BY DEF PCs, Functions
  <1>1. \A u \in Threads, g \in Functions :
          pc'[u][g] = IF u = t /\ g = "connect" THEN "opened" ELSE pc[u][g]
    BY <1>0, GotoPC
  <1>2. opened = 0 /\ opened' = 1 /\ monitored
    BY DEF Begun
  <1>3. \A u \in Threads : u # t => pc[u]["connect"] \notin {"handshake", "opening"}
    <2> SUFFICES ASSUME NEW u \in Threads, pc[u]["connect"] \in {"handshake", "opening"}
                 PROVE  u = t
      OBVIOUS
    <2>1. Active(u) /\ Active(t)
      BY <1>0 DEF Active, Locking
    <2> QED BY <2>1, OneActive
  <1>4. Stacks'
    <2> SUFFICES ASSUME NEW u \in Threads PROVE StackOf(u)'
      BY DEF Stacks
    <2>1. StackOf(u)
      BY DEF Stacks
    <2> QED BY <1>1, <2>1 DEF StackOf, Functions, Idle
  <1>5. Locked'
    BY <1>0, <1>1 DEF Locked, Active, Locking, Functions
  <1>6. Noted'
    BY <1>0, <1>1 DEF Noted
  <1>7. Begun'
    BY <1>1, <1>2, <1>3 DEF Begun, Functions
  <1>8. EndAccounted'
    <2>1. Established /\ Established'
      BY <1>0, <1>2 DEF Established
    <2>2. Notifying' = Notifying
      BY DEF Notifying
    <2> QED BY <2>1, <2>2 DEF EndAccounted, EndOnce
  <1> QED BY <1>4, <1>5, <1>6, <1>7, <1>8

\* A thread enters operator(): the sockets were not in the monitors, so no
\* handshake has been begun.
LEMMA ConnectKeeps ==
    ASSUME TypeOK, Shape, NEW t \in Threads, t # Worker, Idle(t), ~monitored, monitored' = TRUE,
           Enter(t, "connect", "handshake"),
           UNCHANGED <<note, closed, opened, ended, how, registered, held>>
    PROVE  Shape'
  <1> USE DEF Shape, Enter
  <1>0. "handshake" \in PCs /\ "connect" \in Functions
    BY DEF PCs, IOPoints, Functions
  <1>1. \A u \in Threads, g \in Functions :
          pc'[u][g] = IF u = t /\ g = "connect" THEN "handshake" ELSE pc[u][g]
    BY <1>0, GotoPC
  <1>2. opened = 0
    BY DEF Begun
  <1>3. Stacks'
    <2> SUFFICES ASSUME NEW u \in Threads PROVE StackOf(u)'
      BY DEF Stacks
    <2>1. StackOf(u)
      BY DEF Stacks
    <2> QED BY <1>1, <2>1 DEF StackOf, Functions, Idle
  <1>4. Locked'
    BY <1>1, ThreadsAssumption DEF Locked, Active, Locking, Functions, Free, Idle
  <1>5. Noted'
    BY <1>0, <1>1 DEF Noted, Idle
  <1>6. Begun'
    BY <1>1, <1>2 DEF Begun, Functions
  <1>7. EndAccounted'
    <2>1. Established' <=> Established
      BY <1>0, SameEstablished DEF Idle
    <2>2. Notifying' = Notifying
      BY DEF Notifying
    <2> QED BY <2>1, <2>2 DEF EndAccounted, EndOnce
  <1> QED BY <1>3, <1>4, <1>5, <1>6, <1>7

\* A thread enters process() or write(): from outside, from opened(), from pack(),
\* or as Peer's worker.
LEMMA EnterKeeps ==
    ASSUME TypeOK, Shape, opened > 0, NEW t \in Threads,
           NEW f \in {"process", "write"}, NEW point \in {"header", "data"},
           f = "process" <=> point = "header",
           \/ Idle(t)
           \/ InOpened(t)
           \/ f = "write" /\ InPack(t),
           t = Worker => held' # "none" /\ held' # "found",
           t # Worker => held' = held,
           Enter(t, f, point),
           UNCHANGED <<note, closed, opened, ended, how, monitored, registered>>
    PROVE  Shape'
  <1> USE DEF Shape, Enter
  <1>0. point \in PCs /\ f \in Functions /\ f # "connect"
    BY DEF PCs, IOPoints, Functions
  <1>1. \A u \in Threads, g \in Functions :
          pc'[u][g] = IF u = t /\ g = f THEN point ELSE pc[u][g]
    BY <1>0, GotoPC
  <1>2. opened = 1 /\ pc[t][f] = "idle"
    BY DEF Begun, Idle, InOpened, InPack, Runs, Inner, Functions
  <1>3. Stacks'
    <2> SUFFICES ASSUME NEW u \in Threads PROVE StackOf(u)'
      BY DEF Stacks
    <2>1. StackOf(u) /\ StackOf(t)
      BY DEF Stacks
    <2>2. CASE u = t
      BY <1>1, <2>1, <2>2 DEF StackOf, Functions, Idle, InOpened, InPack, Runs, Inner
    <2>3. CASE u # t
      <3>1. \A g \in Functions : pc'[u][g] = pc[u][g]
        BY <1>1, <2>3
      <3>2. CASE u # Worker
        BY <3>1, <3>2, <2>1 DEF StackOf, Functions, Idle
      <3>3. CASE u = Worker
        BY <3>1, <3>3, <2>1, <2>3 DEF StackOf, Functions, Idle
      <3> QED BY <3>2, <3>3
    <2> QED BY <2>2, <2>3
  <1>4. Locked'
    BY <1>1, ThreadsAssumption DEF Locked, Active, Locking, Functions, Free
  <1>5. Noted'
    <2>1. \A u \in Threads, g \in Functions : pc'[u][g] = "report" <=> pc[u][g] = "report"
      BY <1>0, <1>1, <1>2
    <2> QED BY <2>1 DEF Noted
  <1>6. Begun'
    BY <1>1, <1>2 DEF Begun, Functions
  <1>7. EndAccounted'
    <2>1. Established' <=> Established
      BY <1>0, SameEstablished
    <2>2. Notifying' = Notifying
      BY DEF Notifying
    <2> QED BY <2>1, <2>2 DEF EndAccounted, EndOnce
  <1> QED BY <1>3, <1>4, <1>5, <1>6, <1>7

\* Nothing the invariant speaks of changes, except that the connection may be
\* registered once it was opened.
LEMMA QuietKeeps ==
    ASSUME TypeOK, Shape,
           UNCHANGED <<owner, pc, note, closed, opened, ended, how, monitored>>,
           registered' = registered \/ opened > 0,
           \/ held' = held
           \/ held' \in {"none", "found"} /\ Idle(Worker) /\ (opened > 0 \/ registered)
    PROVE  Shape'
  <1> USE DEF Shape
  <1>1. Stacks'
    <2> SUFFICES ASSUME NEW u \in Threads PROVE StackOf(u)'
      BY DEF Stacks
    <2>1. StackOf(u)
      BY DEF Stacks
    <2> QED BY <2>1 DEF StackOf, Functions, Idle
  <1>2. Locked' /\ Noted'
    BY DEF Locked, Noted, Active
  <1>3. Begun'
    BY DEF Begun
  <1>4. EndAccounted'
    <2>1. Notifying' = Notifying /\ (Established' <=> Established)
      BY DEF Notifying, Established
    <2> QED BY <2>1 DEF EndAccounted, EndOnce
  <1> QED BY <1>1, <1>2, <1>3, <1>4

-----------------------------------------------------------------------------
(* Types *)

LEMMA ReturnTypes ==
    ASSUME TypeOK, NEW t \in Threads, NEW f \in Functions, NEW c \in Codes, Return(t, f, c)
    PROVE  /\ pc' \in [Threads -> [Functions -> PCs]]
           /\ code' \in [Threads -> Codes]
           /\ owner' \in Threads \cup {NoThread}
  <1>1. "idle" \in PCs /\ Goto(t, f, "idle")
    BY DEF PCs, Return
  <1>2. pc' \in [Threads -> [Functions -> PCs]]
    BY <1>1, GotoPC
  <1>3. code' \in [Threads -> Codes]
    BY DEF TypeOK, Return
  <1>4. owner' \in Threads \cup {NoThread}
    BY DEF TypeOK, Return, Released
  <1> QED BY <1>2, <1>3, <1>4

\* The part of TypeOK that a call on a connection may change besides the counters.
CallTypes ==
    /\ owner \in Threads \cup {NoThread}
    /\ pc \in [Threads -> [Functions -> PCs]]
    /\ note \in [Threads -> Fatal \cup {"none"}]
    /\ code \in [Threads -> Codes]
    /\ closed \in BOOLEAN
    /\ opened \in Nat
    /\ ended \in Nat
    /\ how \in {"none", "closed", "failed"}

LEMMA EndTypes ==
    ASSUME TypeOK, NEW t \in Threads, NEW f \in Functions, NEW c \in Fatal, End(t, f, c)
    PROVE  CallTypes'
  <1>1. CASE closed
    <2>1. c \in Codes /\ Return(t, f, c)
      BY <1>1 DEF Codes, End
    <2> QED BY <1>1, <2>1, ReturnTypes DEF End, TypeOK, CallTypes
  <1>2. CASE ~closed
    <2>1. "report" \in PCs /\ Goto(t, f, "report")
      BY <1>2 DEF PCs, End
    <2>2. pc' \in [Threads -> [Functions -> PCs]]
      BY <2>1, GotoPC
    <2> QED BY <1>2, <2>2 DEF End, TypeOK, CallTypes
  <1> QED BY <1>1, <1>2

LEMMA SucceedTypes ==
    ASSUME TypeOK, NEW t \in Threads, NEW f \in Functions, pc[t][f] \in IOPoints, Succeed(t, f)
    PROVE  CallTypes'
  <1>0. {"opening", "body", "pack"} \subseteq PCs /\ "Success" \in Codes /\ "Invalid" \in Fatal
    BY DEF PCs, IOPoints, Codes, Fatal
  <1>1. CASE pc[t][f] = "handshake"
    <2>1. Goto(t, f, "opening")
      BY <1>1 DEF Succeed
    <2>2. pc' \in [Threads -> [Functions -> PCs]]
      BY <1>0, <2>1, GotoPC
    <2> QED BY <1>1, <2>2 DEF Succeed, TypeOK, CallTypes
  <1>2. CASE pc[t][f] = "header"
    <2>1. CASE \E next \in {"body", "pack"} :
                  Goto(t, f, next) /\ UNCHANGED <<owner, code, note, sessionVars>>
      <3>1. pc' \in [Threads -> [Functions -> PCs]]
        BY <1>0, <2>1, GotoPC
      <3> QED BY <2>1, <3>1 DEF TypeOK, CallTypes, sessionVars
    <2>2. CASE End(t, f, "Invalid")
      BY <1>0, <2>2, EndTypes
    <2> QED BY <1>2, <2>1, <2>2 DEF Succeed
  <1>3. CASE pc[t][f] = "body"
    <2>1. Goto(t, f, "pack")
      BY <1>3 DEF Succeed
    <2>2. pc' \in [Threads -> [Functions -> PCs]]
      BY <1>0, <2>1, GotoPC
    <2> QED BY <1>3, <2>2 DEF Succeed, TypeOK, CallTypes, sessionVars
  <1>4. CASE pc[t][f] = "data"
    <2>1. Return(t, f, "Success") /\ UNCHANGED <<note, sessionVars>>
      BY <1>4 DEF Succeed
    <2> QED BY <1>0, <2>1, ReturnTypes DEF TypeOK, CallTypes, sessionVars
  <1> QED BY <1>1, <1>2, <1>3, <1>4 DEF IOPoints

\* The codes that reach handleCode's default and Disconnect cases are fatal.
LEMMA FatalCodes ==
    /\ \A c \in {"Memory", "Failure", "Unknown", "Shutdown"} : interpretTLSCode(c) \in Fatal
    /\ \A state \in SUBSET Flags : handleState(state) # "Retry" => handleState(state) \in Fatal
    /\ Fatal \subseteq Codes
    /\ {"Timeout", "Invalid"} \subseteq Fatal
    /\ {"Success", "Cancel", "Busy", "Failure"} \subseteq Codes
  <1>1. \A state \in SUBSET Flags : handleState(state) # "Retry" => handleState(state) \in Fatal
    BY DEF handleState, Fatal
  <1>2. \A c \in {"Memory", "Failure", "Unknown", "Shutdown"} : interpretTLSCode(c) \in Fatal
    BY DEF interpretTLSCode, Fatal
  <1> QED BY <1>1, <1>2 DEF Fatal, Codes

\* ++m_timeouts stays within the width of m_timeouts.
LEMMA IncrementedType == ASSUME TypeOK PROVE Incremented \in 0 .. TimeoutsMod - 1
  <1>1. timeouts \in Nat /\ TimeoutsMod \in Nat \ {0}
    BY TimeoutsAssumption DEF TypeOK
  <1>2. \A a \in Nat, b \in Nat \ {0} : a % b \in 0 .. b - 1
    OBVIOUS
  <1>3. timeouts + 1 \in Nat
    BY <1>1
  <1> QED BY <1>1, <1>2, <1>3 DEF Incremented

LEMMA ProgressType == ASSUME TypeOK, Progress PROVE activity' \in 0 .. MaxActivity
  BY ActivityAssumption DEF TypeOK, Progress

\* A step of a TLS call or of the wait around it.
LEMMA CallStepTypes ==
    ASSUME TypeOK, Noted, NEW t \in Threads, NEW f \in Functions,
           \/ Cancel(t, f) \/ CallSuccess(t, f) \/ CallRetry(t, f) \/ CallBusy(t, f)
           \/ CallFatal(t, f) \/ WaitTimeout(t, f) \/ WaitEvent(t, f) \/ Report(t, f)
    PROVE  TypeOK'
  <1>0. TimeoutsMod \in Nat \ {0} /\ 0 \in 0 .. TimeoutsMod - 1 /\ 0 \in 0 .. TimeoutsMod
    BY TimeoutsAssumption
  <1>1. CASE Cancel(t, f)
    BY <1>1, ReturnTypes, FatalCodes DEF Cancel, TypeOK, sessionVars, tlsVars, peerVars
  <1>2. CASE CallSuccess(t, f)
    <2>1. CallTypes'
      BY <1>2, SucceedTypes DEF CallSuccess, AtIO
    <2>2. activity' \in 0 .. MaxActivity
      BY <1>2, ProgressType DEF CallSuccess
    <2> QED BY <1>0, <1>2, <2>1, <2>2 DEF CallSuccess, TypeOK, CallTypes, peerVars
  <1>3. CASE CallRetry(t, f)
    <2>1. activity' \in 0 .. MaxActivity
      BY <1>3, ProgressType DEF CallRetry
    <2> QED BY <1>3, <2>1 DEF CallRetry, TypeOK, callVars, sessionVars, peerVars
  <1>4. CASE CallBusy(t, f)
    <2>1. CASE Waits(t)
      BY <1>4, <2>1 DEF CallBusy, TypeOK, sessionVars, tlsVars, peerVars
    <2>2. CASE ~Waits(t)
      BY <1>4, <2>2, ReturnTypes, FatalCodes DEF CallBusy, TypeOK, sessionVars, tlsVars, peerVars
    <2> QED BY <2>1, <2>2
  <1>5. CASE CallFatal(t, f)
    <2>1. PICK c \in {"Memory", "Failure", "Unknown", "Shutdown"} :
             /\ End(t, f, interpretTLSCode(c))
             /\ timeouts' = IF interpretTLSCode(c) = "Disconnect" THEN 0 ELSE timeouts
      BY <1>5 DEF CallFatal
    <2>2. CallTypes'
      BY <2>1, EndTypes, FatalCodes
    <2>3. timeouts' \in 0 .. TimeoutsMod - 1
      BY <1>0, <2>1 DEF TypeOK
    <2> QED BY <1>5, <2>2, <2>3 DEF CallFatal, TypeOK, CallTypes, peerVars
  <1>6. CASE WaitTimeout(t, f)
    <2>1. timeouts' \in 0 .. TimeoutsMod - 1
      BY <1>6, IncrementedType DEF WaitTimeout
    <2>2. expired' \in 0 .. TimeoutsMod
      BY <1>0, <1>6 DEF WaitTimeout, TypeOK
    <2>3. CallTypes'
      <3>1. CASE Incremented < Timeouts
        BY <1>6, <3>1 DEF WaitTimeout, TypeOK, CallTypes, sessionVars
      <3>2. CASE ~(Incremented < Timeouts)
        BY <1>6, <3>2, EndTypes, FatalCodes DEF WaitTimeout
      <3> QED BY <3>1, <3>2
    <2> QED BY <1>6, <2>1, <2>2, <2>3 DEF WaitTimeout, TypeOK, CallTypes, peerVars
  <1>7. CASE WaitEvent(t, f)
    <2>1. PICK state \in SUBSET Flags :
             IF handleState(state) = "Retry"
             THEN Progress /\ UNCHANGED <<pc, owner, code, note, sessionVars, timeouts>>
             ELSE /\ End(t, f, handleState(state))
                  /\ timeouts' = IF handleState(state) = "Disconnect" THEN 0 ELSE timeouts
                  /\ UNCHANGED activity
      BY <1>7 DEF WaitEvent
    <2>2. CallTypes'
      <3>1. CASE handleState(state) = "Retry"
        BY <2>1, <3>1 DEF TypeOK, CallTypes, sessionVars
      <3>2. CASE handleState(state) # "Retry"
        BY <2>1, <3>2, EndTypes, FatalCodes
      <3> QED BY <3>1, <3>2
    <2>3. timeouts' \in 0 .. TimeoutsMod - 1
      BY <1>0, <2>1 DEF TypeOK
    <2>4. activity' \in 0 .. MaxActivity
      BY <2>1, ProgressType DEF TypeOK
    <2>5. waiting' \in [Threads -> {"none", "WaitIn", "WaitOut"}]
      BY <1>7 DEF WaitEvent, TypeOK
    <2> QED BY <1>7, <2>2, <2>3, <2>4, <2>5 DEF WaitEvent, TypeOK, CallTypes, peerVars
  <1>8. CASE Report(t, f)
    <2>1. note[t] \in Codes
      <3>1. note[t] # "none"
        BY <1>8 DEF Report, Noted
      <3> QED BY <3>1, FatalCodes DEF TypeOK
    <2>2. CallTypes'
      <3>1. Return(t, f, note[t])
        BY <1>8 DEF Report
      <3>2. ended' \in Nat /\ how' \in {"closed", "failed"}
        BY <1>8 DEF Report, Callback, TypeOK
      <3>3. note' \in [Threads -> Fatal \cup {"none"}]
        BY <1>8 DEF Report, TypeOK
      <3> QED BY <1>8, <2>1, <3>1, <3>2, <3>3, ReturnTypes DEF Report, TypeOK, CallTypes
    <2>3. registered' \in BOOLEAN /\ UNCHANGED <<waiting, monitored, tlsVars, held, halt>>
      BY <1>8 DEF Report, TypeOK
    <2> QED BY <2>2, <2>3 DEF TypeOK, CallTypes, tlsVars
  <1> QED BY <1>1, <1>2, <1>3, <1>4, <1>5, <1>6, <1>7, <1>8

\* Every other step.
LEMMA OtherTypes ==
    ASSUME TypeOK, NEW t \in Threads,
           \/ Opened(t) \/ More(t) \/ ConnectDone(t) \/ PackDone(t) \/ Connect(t)
           \/ Process(t) \/ Write(t) \/ Add(t) \/ Stop \/ PeerStep
    PROVE  TypeOK'
  <1>0. Functions = {"connect", "process", "write", "event"} /\ Worker \in Threads
    BY ThreadsAssumption DEF Functions
  <1>1. PCs = {"handshake", "header", "body", "data", "idle", "opening", "opened", "pack", "more", "report"}
    BY DEF PCs, IOPoints
  <1>2. CASE Opened(t)
    <2>1. pc' \in [Threads -> [Functions -> PCs]]
      BY <1>0, <1>1, <1>2, GotoPC DEF Opened
    <2>2. opened' \in Nat
      BY <1>2 DEF Opened, TypeOK
    <2> QED BY <1>2, <2>1, <2>2 DEF Opened, TypeOK, tlsVars, peerVars
  <1>3. CASE More(t)
    <2>1. CASE Goto(t, "process", "header") /\ UNCHANGED <<owner, code>>
      <3>1. pc' \in [Threads -> [Functions -> PCs]]
        BY <1>0, <1>1, <2>1, GotoPC
      <3> QED BY <1>3, <2>1, <3>1 DEF More, TypeOK, sessionVars, tlsVars, peerVars
    <2>2. CASE Return(t, "process", "Success")
      BY <1>0, <1>3, <2>2, ReturnTypes, FatalCodes DEF More, TypeOK, sessionVars, tlsVars, peerVars
    <2> QED BY <1>3, <2>1, <2>2 DEF More
  <1>4. CASE ConnectDone(t)
    BY <1>0, <1>4, ReturnTypes, FatalCodes DEF ConnectDone, TypeOK, sessionVars, tlsVars, peerVars
  <1>5. CASE PackDone(t)
    <2>1. pc' \in [Threads -> [Functions -> PCs]]
      BY <1>0, <1>1, <1>5, GotoPC DEF PackDone
    <2> QED BY <1>5, <2>1 DEF PackDone, TypeOK, sessionVars, tlsVars, peerVars
  <1>6. CASE Connect(t)
    <2>1. CASE monitored' = TRUE /\ Enter(t, "connect", "handshake") /\ UNCHANGED code
      <3>1. pc' \in [Threads -> [Functions -> PCs]]
        BY <1>0, <1>1, <2>1, GotoPC DEF Enter
      <3> QED BY <1>6, <2>1, <3>1 DEF Connect, Enter, TypeOK, sessionVars, tlsVars, peerVars
    <2>2. CASE code' = [code EXCEPT ![t] = "Failure"] /\ UNCHANGED <<monitored, owner, pc>>
      BY <1>6, <2>2, FatalCodes DEF Connect, TypeOK, sessionVars, tlsVars, peerVars
    <2> QED BY <1>6, <2>1, <2>2 DEF Connect
  <1>7. CASE Process(t)
    <2>1. pc' \in [Threads -> [Functions -> PCs]]
      BY <1>0, <1>1, <1>7, GotoPC DEF Process, Enter
    <2> QED BY <1>7, <2>1 DEF Process, Enter, TypeOK, sessionVars, tlsVars, peerVars
  <1>8. CASE Write(t)
    <2>1. pc' \in [Threads -> [Functions -> PCs]]
      BY <1>0, <1>1, <1>8, GotoPC DEF Write, Enter
    <2> QED BY <1>8, <2>1 DEF Write, Enter, TypeOK, sessionVars, tlsVars, peerVars
  <1>9. CASE Add(t)
    BY <1>9 DEF Add, TypeOK, callVars, sessionVars, tlsVars
  <1>10. CASE Stop
    BY <1>10 DEF Stop, TypeOK, callVars, sessionVars, tlsVars
  <1>11. CASE WorkerLookup \/ WorkerDone
    BY <1>11 DEF WorkerLookup, WorkerDone, TypeOK, callVars, sessionVars, tlsVars
  <1>12. CASE WorkerState
    <2>1. PICK state \in {{"Disconnected"}, {"Error"}} : End(Worker, "event", handleState(state))
      BY <1>12 DEF WorkerState
    <2>2. handleState(state) \in Fatal
      BY <2>1 DEF handleState, Fatal
    <2>3. CallTypes'
      BY <1>0, <2>1, <2>2, EndTypes
    <2> QED BY <1>12, <2>3 DEF WorkerState, TypeOK, CallTypes, tlsVars
  <1>13. CASE WorkerProcess
    <2>1. pc' \in [Threads -> [Functions -> PCs]]
      BY <1>0, <1>1, <1>13, GotoPC DEF WorkerProcess, Enter
    <2> QED BY <1>0, <1>13, <2>1 DEF WorkerProcess, Enter, TypeOK, sessionVars, tlsVars
  <1> QED BY <1>2, <1>3, <1>4, <1>5, <1>6, <1>7, <1>8, <1>9, <1>10, <1>11, <1>12, <1>13 DEF PeerStep

-----------------------------------------------------------------------------
(* Every step keeps the shape *)

LEMMA SucceedKeeps ==
    ASSUME TypeOK, Shape, NEW t \in Threads, NEW f \in Functions,
           Runs(t, f), pc[t][f] \in IOPoints, Succeed(t, f),
           UNCHANGED <<monitored, registered, held>>
    PROVE  Shape'
  <1>0. StackOf(t) /\ "Success" \in Codes /\ "Invalid" \in Fatal
    BY DEF Shape, Stacks, Codes, Fatal
  <1>1. CASE pc[t][f] = "handshake"
    <2>1. f = "connect"
      BY <1>0, <1>1 DEF StackOf, Functions
    <2> QED BY <1>1, <2>1, HandshakeKeeps DEF Succeed
  <1>2. CASE pc[t][f] = "header"
    <2>1. f = "process"
      BY <1>0, <1>2 DEF StackOf, Functions
    <2>2. CASE \E next \in {"body", "pack"} :
                  Goto(t, f, next) /\ UNCHANGED <<owner, code, note, sessionVars>>
      BY <1>2, <2>1, <2>2, ProcessKeeps DEF sessionVars
    <2>3. CASE End(t, f, "Invalid")
      BY <1>0, <2>3, EndKeeps
    <2> QED BY <1>2, <2>2, <2>3 DEF Succeed
  <1>3. CASE pc[t][f] = "body"
    <2>1. f = "process"
      BY <1>0, <1>3 DEF StackOf, Functions
    <2> QED BY <1>3, <2>1, ProcessKeeps DEF Succeed, sessionVars
  <1>4. CASE pc[t][f] = "data"
    BY <1>0, <1>4, ReturnKeeps DEF Succeed, sessionVars
  <1> QED BY <1>1, <1>2, <1>3, <1>4 DEF IOPoints

LEMMA CallStepKeeps ==
    ASSUME TypeOK, Shape, NEW t \in Threads, NEW f \in Functions,
           \/ Cancel(t, f) \/ CallSuccess(t, f) \/ CallRetry(t, f) \/ CallBusy(t, f)
           \/ CallFatal(t, f) \/ WaitTimeout(t, f) \/ WaitEvent(t, f) \/ Report(t, f)
    PROVE  Shape'
  <1>0. \A p \in IOPoints : p \notin {"report", "opening"}
    BY DEF IOPoints
  <1>1. CASE Cancel(t, f)
    BY <1>0, <1>1, ReturnKeeps, FatalCodes DEF Cancel, AtIO, sessionVars, peerVars
  <1>2. CASE CallSuccess(t, f)
    BY <1>2, SucceedKeeps DEF CallSuccess, AtIO, peerVars
  <1>3. CASE CallRetry(t, f)
    <2>1. UNCHANGED <<owner, pc, note, closed, opened, ended, how, monitored, registered, held>>
      BY <1>3 DEF CallRetry, callVars, sessionVars, peerVars
    <2> QED BY <2>1, QuietKeeps DEF TypeOK
  <1>4. CASE CallBusy(t, f)
    <2>1. CASE Waits(t)
      <3>1. UNCHANGED <<owner, pc, note, closed, opened, ended, how, monitored, registered, held>>
        BY <1>4, <2>1 DEF CallBusy, sessionVars, peerVars
      <3> QED BY <3>1, QuietKeeps DEF TypeOK
    <2>2. CASE ~Waits(t)
      BY <1>0, <1>4, <2>2, ReturnKeeps, FatalCodes DEF CallBusy, AtIO, sessionVars, peerVars
    <2> QED BY <2>1, <2>2
  <1>5. CASE CallFatal(t, f)
    <2>1. PICK c \in {"Memory", "Failure", "Unknown", "Shutdown"} : End(t, f, interpretTLSCode(c))
      BY <1>5 DEF CallFatal
    <2> QED BY <1>5, <2>1, EndKeeps, FatalCodes DEF CallFatal, AtIO, peerVars
  <1>6. CASE WaitTimeout(t, f)
    <2>1. CASE Incremented < Timeouts
      <3>1. UNCHANGED <<owner, pc, note, closed, opened, ended, how, monitored, registered, held>>
        BY <1>6, <2>1 DEF WaitTimeout, sessionVars, peerVars
      <3> QED BY <3>1, QuietKeeps DEF TypeOK
    <2>2. CASE ~(Incremented < Timeouts)
      BY <1>6, <2>2, EndKeeps, FatalCodes DEF WaitTimeout, Blocked, peerVars
    <2> QED BY <2>1, <2>2
  <1>7. CASE WaitEvent(t, f)
    <2>1. PICK state \in SUBSET Flags :
             IF handleState(state) = "Retry"
             THEN UNCHANGED <<pc, owner, code, note, sessionVars>>
             ELSE End(t, f, handleState(state))
      BY <1>7 DEF WaitEvent
    <2>2. CASE handleState(state) = "Retry"
      <3>1. UNCHANGED <<owner, pc, note, closed, opened, ended, how, monitored, registered, held>>
        BY <1>7, <2>1, <2>2 DEF WaitEvent, sessionVars, peerVars
      <3> QED BY <3>1, QuietKeeps DEF TypeOK
    <2>3. CASE handleState(state) # "Retry"
      BY <1>7, <2>1, <2>3, EndKeeps, FatalCodes DEF WaitEvent, Blocked, peerVars
    <2> QED BY <2>2, <2>3
  <1>8. CASE Report(t, f)
    BY <1>8, ReportKeeps
  <1> QED BY <1>1, <1>2, <1>3, <1>4, <1>5, <1>6, <1>7, <1>8

LEMMA OtherKeeps ==
    ASSUME TypeOK, Shape, NEW t \in Threads,
           \/ Opened(t) \/ More(t) \/ ConnectDone(t) \/ PackDone(t) \/ Connect(t)
           \/ Process(t) \/ Write(t) \/ Add(t) \/ Stop \/ PeerStep
    PROVE  Shape'
  <1>0. Functions = {"connect", "process", "write", "event"} /\ Worker \in Threads
    BY ThreadsAssumption DEF Functions
  <1>1. registered => opened > 0
    BY DEF Shape, Begun
  <1>2. held # "none" => opened > 0
    BY DEF Shape, Begun
  <1>3. CASE Opened(t)
    BY <1>3, OpenedKeeps
  <1>4. CASE More(t)
    <2>1. CASE Goto(t, "process", "header") /\ UNCHANGED <<owner, code>>
      BY <1>4, <2>1, ProcessKeeps DEF More, sessionVars, peerVars
    <2>2. CASE Return(t, "process", "Success")
      BY <1>0, <1>4, <2>2, ReturnKeeps, FatalCodes DEF More, sessionVars, peerVars
    <2> QED BY <1>4, <2>1, <2>2 DEF More
  <1>5. CASE ConnectDone(t)
    BY <1>0, <1>5, ReturnKeeps, FatalCodes DEF ConnectDone, InOpened, sessionVars, peerVars
  <1>6. CASE PackDone(t)
    BY <1>6, ProcessKeeps DEF PackDone, InPack, sessionVars, peerVars
  <1>7. CASE Connect(t)
    <2>1. CASE ~monitored /\ monitored' = TRUE /\ Enter(t, "connect", "handshake")
      BY <1>7, <2>1, ConnectKeeps DEF Connect, sessionVars, peerVars
    <2>2. CASE UNCHANGED <<monitored, owner, pc>>
      <3>1. UNCHANGED <<owner, pc, note, closed, opened, ended, how, monitored, registered, held>>
        BY <1>7, <2>2 DEF Connect, sessionVars, peerVars
      <3> QED BY <3>1, QuietKeeps DEF TypeOK
    <2> QED BY <1>7, <2>1, <2>2 DEF Connect
  <1>8. CASE Process(t)
    BY <1>8, EnterKeeps DEF Process, MayCall, sessionVars, peerVars
  <1>9. CASE Write(t)
    <2>1. CASE MayCall(t)
      BY <1>9, <2>1, EnterKeeps DEF Write, MayCall, sessionVars, peerVars
    <2>2. CASE InPack(t)
      <3>1. opened > 0
        BY <2>2 DEF InPack, Shape, Begun
      <3>2. t = Worker => held' = held /\ held # "none" /\ held # "found"
        BY <1>0, <1>9, <2>2 DEF Write, InPack, Shape, Stacks, StackOf, peerVars, Idle
      <3> QED BY <1>9, <2>2, <3>1, <3>2, EnterKeeps DEF Write, sessionVars, peerVars
    <2> QED BY <1>9, <2>1, <2>2 DEF Write, InPack
  <1>10. CASE Add(t)
    <2>1. UNCHANGED <<owner, pc, note, closed, opened, ended, how, monitored, held>>
      BY <1>10 DEF Add, callVars, sessionVars
    <2> QED BY <1>10, <2>1, QuietKeeps DEF Add
  <1>11. CASE Stop
    <2>1. UNCHANGED <<owner, pc, note, closed, opened, ended, how, monitored, registered, held>>
      BY <1>11 DEF Stop, callVars, sessionVars
    <2> QED BY <2>1, QuietKeeps DEF TypeOK
  <1>12. CASE WorkerLookup
    <2>1. UNCHANGED <<owner, pc, note, closed, opened, ended, how, monitored, registered>>
      BY <1>12 DEF WorkerLookup, callVars, sessionVars
    <2> QED BY <1>12, <2>1, QuietKeeps DEF WorkerLookup, TypeOK
  <1>13. CASE WorkerDone
    <2>1. UNCHANGED <<owner, pc, note, closed, opened, ended, how, monitored, registered>>
      BY <1>13 DEF WorkerDone, callVars, sessionVars
    <2> QED BY <1>2, <1>13, <2>1, QuietKeeps DEF WorkerDone, TypeOK
  <1>14. CASE WorkerState
    <2>1. PICK state \in {{"Disconnected"}, {"Error"}} : End(Worker, "event", handleState(state))
      BY <1>14 DEF WorkerState
    <2>2. handleState(state) \in Fatal
      BY <2>1 DEF handleState, Fatal
    <2>3. Idle(Worker) /\ held = "found" /\ held' = "none" /\ registered' = registered /\ monitored' = monitored
      BY <1>0, <1>14 DEF WorkerState, Shape, Stacks, StackOf
    <2>4. CASE closed
      <3>1. pc' = pc
        <4>1. pc' = [pc EXCEPT ![Worker]["event"] = "idle"]
          BY <2>1, <2>4 DEF End, Return, Goto
        <4>2. pc[Worker] = [pc[Worker] EXCEPT !["event"] = "idle"]
          BY <1>0, <2>3 DEF Idle, TypeOK
        <4> QED BY <1>0, <4>1, <4>2 DEF TypeOK
      <3>2. UNCHANGED <<owner, note, closed, opened, ended, how, monitored>>
        BY <2>1, <2>3, <2>4 DEF End, Return, Locking, TypeOK
      <3> QED BY <1>1, <1>2, <2>3, <3>1, <3>2, QuietKeeps DEF TypeOK
    <2>5. CASE ~closed
      BY <1>0, <2>1, <2>2, <2>3, <2>5, WinKeeps DEF End
    <2> QED BY <2>4, <2>5
  <1>15. CASE WorkerProcess
    <2>1. opened > 0
      BY <1>2, <1>15 DEF WorkerProcess
    <2>2. Idle(Worker)
      BY <1>0, <1>15 DEF WorkerProcess, Shape, Stacks, StackOf
    <2> QED BY <1>0, <1>15, <2>1, <2>2, EnterKeeps DEF WorkerProcess, sessionVars
  <1> QED BY <1>3, <1>4, <1>5, <1>6, <1>7, <1>8, <1>9, <1>10, <1>11, <1>12, <1>13, <1>14, <1>15
          DEF PeerStep

LEMMA InitShape == Init => IInv
  <1> SUFFICES ASSUME Init PROVE IInv
    OBVIOUS
  <1> USE DEF Init
  <1>0. Functions = {"connect", "process", "write", "event"} /\ NoThread \notin Threads
    BY ThreadsAssumption DEF Functions
  <1>1. \A t \in Threads, f \in Functions : pc[t][f] = "idle"
    OBVIOUS
  <1>2. TypeOK
    <2>1. "idle" \in PCs /\ "Success" \in Codes
      BY DEF PCs, Codes
    <2>2. timeouts \in 0 .. TimeoutsMod - 1 /\ expired \in 0 .. TimeoutsMod /\ activity \in 0 .. MaxActivity
      BY TimeoutsAssumption, ActivityAssumption
    <2> QED BY <2>1, <2>2 DEF TypeOK
  <1>3. Stacks
    BY <1>0, <1>1 DEF Stacks, StackOf, Idle
  <1>4. Locked
    BY <1>0, <1>1 DEF Locked, Active, Locking
  <1>5. Noted
    BY <1>1 DEF Noted
  <1>6. Begun
    BY <1>0, <1>1 DEF Begun
  <1>7. EndAccounted
    BY <1>0, <1>1 DEF EndAccounted, Established, Notifying
  <1> QED BY <1>2, <1>3, <1>4, <1>5, <1>6, <1>7 DEF IInv, Shape

LEMMA NextKeeps ==
    ASSUME IInv, [Next]_vars PROVE IInv'
  <1>0. TypeOK /\ Shape /\ Noted /\ Worker \in Threads
    BY ThreadsAssumption DEF IInv, Shape
  <1>1. ASSUME NEW t \in Threads, NEW f \in Functions,
               \/ Cancel(t, f) \/ CallSuccess(t, f) \/ CallRetry(t, f) \/ CallBusy(t, f)
               \/ CallFatal(t, f) \/ WaitTimeout(t, f) \/ WaitEvent(t, f) \/ Report(t, f)
        PROVE  IInv'
    BY <1>0, <1>1, CallStepTypes, CallStepKeeps DEF IInv
  <1>2. ASSUME NEW t \in Threads,
               \/ Opened(t) \/ More(t) \/ ConnectDone(t) \/ PackDone(t) \/ Connect(t)
               \/ Process(t) \/ Write(t) \/ Add(t) \/ Stop \/ PeerStep
        PROVE  IInv'
    BY <1>0, <1>2, OtherTypes, OtherKeeps DEF IInv
  <1>3. CASE UNCHANGED vars
    <2>1. TypeOK'
      BY <1>0, <1>3 DEF TypeOK, vars, callVars, sessionVars, tlsVars, peerVars
    <2>2. UNCHANGED <<owner, pc, note, closed, opened, ended, how, monitored, registered, held>>
      BY <1>3 DEF vars, callVars, sessionVars, tlsVars, peerVars
    <2>3. Shape'
      BY <1>0, <2>2, QuietKeeps DEF TypeOK
    <2> QED BY <2>1, <2>3 DEF IInv
  <1> QED BY <1>0, <1>1, <1>2, <1>3 DEF Next, Step, CallbackDone, Call

-----------------------------------------------------------------------------
(* The theorems *)

\* The inductive invariant: types, call stacks, the mutex, notes and the accounting
\* of m_closed.
THEOREM Invariance == Spec => []IInv
  BY InitShape, NextKeeps, PTL DEF Spec

\* Every variable keeps its type.
THEOREM TypeCorrect == Spec => []TypeOK
  BY Invariance, PTL DEF IInv

\* For any number of threads: m_closed tells whether the end of the connection is
\* still to be reported, and it is reported at most once.
THEOREM EndAccountedCorrect == Spec => []EndAccounted
  BY Invariance, PTL DEF IInv, Shape

\* For any number of threads: no two of them are inside operator(), process() or
\* write() of one connection.
THEOREM SerialisedCorrect == Spec => []Serialised
  <1>1. IInv => Serialised
    BY OneActive DEF IInv, Shape, Serialised, Active
  <1> QED BY <1>1, Invariance, PTL

\* Which steps the application sees.
LEMMA Unseen ==
    ASSUME NEW t \in Threads, NEW f \in Functions,
           \/ Cancel(t, f) \/ CallSuccess(t, f) \/ CallRetry(t, f) \/ CallBusy(t, f)
           \/ CallFatal(t, f) \/ WaitTimeout(t, f) \/ WaitEvent(t, f)
           \/ More(t) \/ ConnectDone(t) \/ PackDone(t) \/ Connect(t)
           \/ Process(t) \/ Write(t) \/ Add(t) \/ Stop \/ PeerStep
    PROVE  UNCHANGED <<opened, ended, how>>
  <1> USE DEF sessionVars
  <1>1. ASSUME NEW u, NEW g, NEW c, End(u, g, c) PROVE UNCHANGED <<opened, ended, how>>
    BY <1>1 DEF End
  <1>2. Succeed(t, f) /\ pc[t][f] \in IOPoints => UNCHANGED <<opened, ended, how>>
    BY <1>1 DEF Succeed, IOPoints
  <1>3. CASE Cancel(t, f) \/ CallRetry(t, f) \/ CallBusy(t, f)
    BY <1>3 DEF Cancel, CallRetry, CallBusy
  <1>4. CASE CallSuccess(t, f)
    BY <1>2, <1>4 DEF CallSuccess, AtIO
  <1>5. CASE CallFatal(t, f)
    BY <1>1, <1>5 DEF CallFatal
  <1>6. CASE WaitTimeout(t, f)
    BY <1>1, <1>6 DEF WaitTimeout
  <1>7. CASE WaitEvent(t, f)
    BY <1>1, <1>7 DEF WaitEvent
  <1>8. CASE More(t) \/ ConnectDone(t) \/ PackDone(t) \/ Connect(t)
    BY <1>8 DEF More, ConnectDone, PackDone, Connect
  <1>9. CASE Process(t) \/ Write(t) \/ Add(t) \/ Stop
    BY <1>9 DEF Process, Write, Add, Stop
  <1>10. CASE PeerStep
    BY <1>1, <1>10, ThreadsAssumption
       DEF PeerStep, WorkerLookup, WorkerState, WorkerProcess, WorkerDone, Functions
  <1> QED BY <1>3, <1>4, <1>5, <1>6, <1>7, <1>8, <1>9, <1>10

\* Connection implements Session: opened() is called at most once, and after it
\* closed() or failed() at most once.
THEOREM SessionCorrect == Spec => SessionSpec
  <1>1. Init => Sess!SessionInit
    BY DEF Init, Sess!SessionInit
  <1>2. ASSUME IInv, [Next]_vars PROVE [Sess!SessionNext]_(Sess!sessionVars)
    <2>1. CASE UNCHANGED <<opened, ended, how>>
      BY <2>1 DEF Sess!sessionVars
    <2>2. ASSUME NEW t \in Threads, Opened(t) PROVE Sess!SessionNext
      <3>1. pc[t]["connect"] = "opening"
        BY <2>2 DEF Opened
      <3>2. opened = 0 /\ ended = 0
        BY <1>2, <3>1 DEF IInv, Shape, Begun
      <3> QED BY <2>2, <3>2 DEF Opened, Sess!SessionNext, Sess!Open
    <2>3. ASSUME NEW t \in Threads, NEW f \in Functions, Report(t, f) PROVE Sess!SessionNext
      <3>1. t \in Notifying
        BY <1>2, <2>3 DEF IInv, Shape, Noted, Notifying, Report
      <3>2. opened = 1 /\ ended = 0
        BY <1>2, <3>1 DEF IInv, Shape, Begun, Notifying, EndAccounted, EndOnce
      <3> QED BY <2>3, <3>2 DEF Report, Callback, Sess!SessionNext, Sess!Close, Sess!Fail, Sess!Ends
    <2>4. ASSUME NEW t \in Threads, NEW f \in Functions,
                 \/ Cancel(t, f) \/ CallSuccess(t, f) \/ CallRetry(t, f) \/ CallBusy(t, f)
                 \/ CallFatal(t, f) \/ WaitTimeout(t, f) \/ WaitEvent(t, f)
                 \/ More(t) \/ ConnectDone(t) \/ PackDone(t) \/ Connect(t)
                 \/ Process(t) \/ Write(t) \/ Add(t) \/ Stop \/ PeerStep
          PROVE  UNCHANGED <<opened, ended, how>>
      BY <2>4, Unseen
    <2>5. CASE UNCHANGED vars
      BY <2>5 DEF vars, sessionVars, Sess!sessionVars
    <2>6. Worker \in Threads /\ "event" \in Functions
      BY ThreadsAssumption DEF Functions
    <2>7. CASE Next
      BY <2>1, <2>2, <2>3, <2>4, <2>6, <2>7 DEF Next, Step, CallbackDone, Call
    <2> QED BY <1>2, <2>5, <2>7
  <1> QED BY <1>1, <1>2, Invariance, PTL DEF Spec, SessionSpec, Sess!SessionSpec

-----------------------------------------------------------------------------
(* A fatal code is never returned of an open connection *)

\* What FatalReturnEnds says of one step.
Ends == \A t \in Threads, f \in {"process", "write"} :
          (pc[t][f] # "idle" /\ pc'[t][f] = "idle" /\ code'[t] \in Fatal) => closed'

LEMMA ReturnEnds ==
    ASSUME TypeOK, NEW t \in Threads, NEW f \in Functions, NEW c \in Codes,
           Return(t, f, c), c \notin Fatal \/ closed'
    PROVE  Ends
  <1>1. {"process", "write"} \subseteq Functions /\ "idle" \in PCs /\ Goto(t, f, "idle")
    BY DEF Functions, PCs, Return
  <1>2. \A u \in Threads, g \in Functions : pc'[u][g] = IF u = t /\ g = f THEN "idle" ELSE pc[u][g]
    BY <1>1, GotoPC
  <1>3. code'[t] = c
    BY DEF Return, TypeOK
  <1> QED BY <1>1, <1>2, <1>3 DEF Ends

LEMMA GotoEnds ==
    ASSUME TypeOK, NEW t \in Threads, NEW f \in Functions, NEW point \in PCs \ {"idle"},
           Goto(t, f, point)
    PROVE  Ends
  <1>1. {"process", "write"} \subseteq Functions
    BY DEF Functions
  <1> QED BY <1>1, GotoPC DEF Ends

LEMMA EndEnds == ASSUME NEW t, NEW f, NEW c, End(t, f, c) PROVE Ends
  BY DEF End, Ends

LEMMA SameEnds == ASSUME pc' = pc PROVE Ends
  BY DEF Ends

LEMMA SucceedEnds ==
    ASSUME TypeOK, NEW t \in Threads, NEW f \in Functions, pc[t][f] \in IOPoints, Succeed(t, f)
    PROVE  Ends
  <1>0. {"opening", "body", "pack"} \subseteq PCs \ {"idle"} /\ "Success" \in Codes \ Fatal
    BY DEF PCs, IOPoints, Codes, Fatal
  <1>1. CASE pc[t][f] = "handshake"
    BY <1>0, <1>1, GotoEnds DEF Succeed
  <1>2. CASE pc[t][f] = "header"
    <2>1. CASE \E next \in {"body", "pack"} : Goto(t, f, next)
      BY <1>0, <2>1, GotoEnds
    <2>2. CASE End(t, f, "Invalid")
      BY <2>2, EndEnds
    <2> QED BY <1>2, <2>1, <2>2 DEF Succeed
  <1>3. CASE pc[t][f] = "body"
    BY <1>0, <1>3, GotoEnds DEF Succeed
  <1>4. CASE pc[t][f] = "data"
    BY <1>0, <1>4, ReturnEnds DEF Succeed
  <1> QED BY <1>1, <1>2, <1>3, <1>4 DEF IOPoints

\* process() and write() return a fatal code only once m_closed is set.
THEOREM FatalReturnEndsCorrect == Spec => FatalReturnEnds
  <1>1. ASSUME IInv, [Next]_vars PROVE Ends
    <2>0. TypeOK /\ Worker \in Threads /\ Functions = {"connect", "process", "write", "event"}
      BY <1>1, ThreadsAssumption DEF IInv, Functions
    <2>1. /\ {"Success", "Cancel", "Busy"} \subseteq Codes \ Fatal
          /\ {"handshake", "header", "data", "opened", "more"} \subseteq PCs \ {"idle"}
      BY DEF Codes, Fatal, PCs, IOPoints
    <2>2. CASE UNCHANGED vars
      BY <2>2, SameEnds DEF vars, callVars
    <2>3. ASSUME NEW t \in Threads, NEW f \in Functions,
                 \/ Cancel(t, f) \/ CallSuccess(t, f) \/ CallRetry(t, f) \/ CallBusy(t, f)
          PROVE  Ends
      <3>1. CASE Cancel(t, f)
        BY <2>0, <2>1, <3>1, ReturnEnds DEF Cancel
      <3>2. CASE CallSuccess(t, f)
        BY <2>0, <3>2, SucceedEnds DEF CallSuccess, AtIO
      <3>3. CASE CallRetry(t, f)
        BY <3>3, SameEnds DEF CallRetry, callVars
      <3>4. CASE CallBusy(t, f)
        <4>1. pc' = pc \/ Return(t, f, "Busy")
          BY <3>4 DEF CallBusy
        <4> QED BY <2>0, <2>1, <4>1, SameEnds, ReturnEnds
      <3> QED BY <2>3, <3>1, <3>2, <3>3, <3>4
    <2>4. ASSUME NEW t \in Threads, NEW f \in Functions,
                 CallFatal(t, f) \/ WaitTimeout(t, f) \/ WaitEvent(t, f)
          PROVE  Ends
      <3>1. pc' = pc \/ \E c : End(t, f, c)
        BY <2>4 DEF CallFatal, WaitTimeout, WaitEvent
      <3> QED BY <3>1, SameEnds, EndEnds
    <2>5. ASSUME NEW t \in Threads, NEW f \in Functions, Report(t, f) PROVE Ends
      <3>1. t \in Notifying
        BY <1>1, <2>5 DEF IInv, Shape, Noted, Notifying, Report
      <3>2. closed'
        BY <1>1, <2>5, <3>1 DEF IInv, Shape, EndAccounted, Report
      <3> QED BY <3>2 DEF Ends
    <2>6. ASSUME NEW t \in Threads, Opened(t) \/ PackDone(t) PROVE Ends
      BY <2>0, <2>1, <2>6, GotoEnds DEF Opened, PackDone
    <2>7. ASSUME NEW t \in Threads, More(t) PROVE Ends
      BY <2>0, <2>1, <2>7, GotoEnds, ReturnEnds DEF More
    <2>8. ASSUME NEW t \in Threads, ConnectDone(t) PROVE Ends
      BY <2>0, <2>1, <2>8, ReturnEnds DEF ConnectDone
    <2>9. ASSUME NEW t \in Threads, Connect(t) \/ Process(t) \/ Write(t) \/ Add(t) PROVE Ends
      BY <2>0, <2>1, <2>9, GotoEnds, SameEnds DEF Connect, Process, Write, Add, Enter, callVars
    <2>10. CASE Stop \/ WorkerLookup \/ WorkerDone
      BY <2>10, SameEnds DEF Stop, WorkerLookup, WorkerDone, callVars
    <2>11. CASE WorkerProcess
      BY <2>0, <2>1, <2>11, GotoEnds DEF WorkerProcess, Enter
    <2>12. CASE WorkerState
      BY <2>12, EndEnds DEF WorkerState
    <2> QED BY <1>1, <2>2, <2>3, <2>4, <2>5, <2>6, <2>7, <2>8, <2>9, <2>10, <2>11, <2>12
            DEF Next, Step, CallbackDone, Call, PeerStep
  <1> QED BY <1>1, Invariance, PTL DEF Spec, FatalReturnEnds, Ends

-----------------------------------------------------------------------------
(* A timeout is reported only after Timeouts expired waits *)

LEMMA Numbers == ASSUME TypeOK PROVE timeouts \in Nat /\ expired \in Nat /\ Timeouts \in Nat
  BY TimeoutsAssumption DEF TypeOK

\* A step inside a function that notes nothing and is no handshake's success.
LEMMA GotoCounted ==
    ASSUME TypeOK, Counted, NEW t \in Threads, NEW f \in Functions,
           NEW point \in PCs \ {"opening", "report"}, f = "event" => point = "idle",
           Goto(t, f, point), opened' = opened,
           timeouts' \in {timeouts, 0}, expired' = expired,
           \A u \in Threads : note'[u] \in {note[u], "none"}
    PROVE  Counted'
  <1>0. "connect" \in Functions /\ "event" \in Functions
    BY DEF Functions
  <1>1. \A u \in Threads, g \in Functions : pc'[u][g] = IF u = t /\ g = f THEN point ELSE pc[u][g]
    BY GotoPC
  <1>2. Established' => Established
    BY <1>0, <1>1 DEF Established
  <1>3. Established' => timeouts' <= expired'
    BY <1>2, Numbers DEF Counted
  <1>4. \A u \in Threads : note'[u] = "Timeout" => Timeouts <= expired' /\ pc'[u]["event"] = "idle"
    BY <1>0, <1>1 DEF Counted
  <1> QED BY <1>3, <1>4 DEF Counted

\* Nothing but the registration changes, or the counters start again.
LEMMA SameCounted ==
    ASSUME TypeOK, Counted, UNCHANGED <<pc, note, opened, expired>>, timeouts' \in {timeouts, 0}
    PROVE  Counted'
  BY Numbers DEF Counted, Established

\* `if (!m_closed.test_and_set())`, where a timeout is noted only if there was one.
LEMMA EndCounted ==
    ASSUME TypeOK, Shape, Counted, NEW t \in Threads, NEW f \in Functions, NEW c \in Fatal,
           End(t, f, c),
           expired' \in Nat, expired <= expired', Established => timeouts' <= expired',
           c = "Timeout" => Timeouts <= expired' /\ f # "event" /\ pc[t]["event"] = "idle",
           f = "event" => note[t] = "none"
    PROVE  Counted'
  <1>0. /\ "connect" \in Functions /\ "event" \in Functions
        /\ {"idle", "report"} \subseteq PCs /\ "none" \notin Fatal
    BY DEF Functions, PCs, Fatal
  <1>1. PICK point \in {"idle", "report"} :
          Goto(t, f, point) /\ (point = "idle" => note' = note)
    BY DEF End, Return
  <1>2. \A u \in Threads, g \in Functions : pc'[u][g] = IF u = t /\ g = f THEN point ELSE pc[u][g]
    BY <1>0, <1>1, GotoPC
  <1>3. Established' => Established
    BY <1>0, <1>2 DEF Established, End
  <1>4. \A u \in Threads : note'[u] = note[u] \/ (u = t /\ note'[u] = c)
    BY DEF End, TypeOK
  <1>5. ASSUME NEW u \in Threads, note'[u] = "Timeout"
        PROVE  Timeouts <= expired' /\ pc'[u]["event"] = "idle"
    <2>1. CASE u = t /\ note'[u] = c
      BY <1>0, <1>2, <1>5, <2>1
    <2>2. CASE note'[u] = note[u]
      <3>1. Timeouts <= expired /\ pc[u]["event"] = "idle"
        BY <1>5, <2>2 DEF Counted
      <3>2. f = "event" => u # t
        BY <1>5, <2>2
      <3> QED BY <1>0, <1>2, <3>1, <3>2, Numbers
    <2> QED BY <1>4, <2>1, <2>2
  <1> QED BY <1>3, <1>5 DEF Counted

\* While a timeout is noted no other call makes progress.
LEMMA TimeoutHolds ==
    ASSUME TypeOK, Shape, Counted, NEW t \in Threads, NEW f \in Functions,
           Runs(t, f), pc[t][f] \in IOPoints
    PROVE  \A u \in Threads : note[u] # "Timeout"
  <1> USE DEF Shape
  <1> SUFFICES ASSUME NEW u \in Threads, note[u] = "Timeout" PROVE FALSE
    OBVIOUS
  <1>1. PICK g \in Functions : pc[u][g] = "report"
    BY DEF Noted
  <1>2. g # "event"
    BY <1>1 DEF Counted
  <1>3. Active(u)
    BY <1>1, <1>2 DEF Active, Locking, Functions
  <1>4. Active(t)
    BY DEF Active, Stacks, StackOf, Locking, Functions, IOPoints
  <1>5. u = t
    BY <1>3, <1>4, OneActive
  <1> QED BY <1>1, <1>2, <1>5 DEF Stacks, StackOf, Functions, Runs, Inner, IOPoints

\* After a success the count starts again, in the code and in the model.
LEMMA SuccessCounted ==
    ASSUME TypeOK, Shape, Counted, NEW t \in Threads, NEW f \in Functions, CallSuccess(t, f)
    PROVE  Counted'
  <1>0. "Timeout" \notin {"Invalid", "none"} /\ timeouts' = 0 /\ expired' = 0 /\ pc[t][f] \in IOPoints
    BY DEF CallSuccess, AtIO
  <1>1. \A u \in Threads : note[u] # "Timeout"
    BY TimeoutHolds DEF CallSuccess, AtIO
  <1>2. note' = note \/ note' = [note EXCEPT ![t] = "Invalid"]
    BY <1>0 DEF CallSuccess, Succeed, End, IOPoints
  <1>3. \A u \in Threads : note'[u] # "Timeout"
    BY <1>0, <1>1, <1>2 DEF TypeOK
  <1> QED BY <1>0, <1>3 DEF Counted

\* ++m_timeouts grows by at most one.
LEMMA IncrementedBound == ASSUME TypeOK PROVE Incremented <= timeouts + 1 /\ Incremented < TimeoutsMod
  <1>1. timeouts \in Nat /\ TimeoutsMod \in Nat \ {0} /\ timeouts < TimeoutsMod
    BY TimeoutsAssumption DEF TypeOK
  <1>2. CASE timeouts + 1 < TimeoutsMod
    <2>1. (timeouts + 1) % TimeoutsMod = timeouts + 1
      BY <1>1, <1>2
    <2> QED BY <1>1, <1>2, <2>1 DEF Incremented
  <1>3. CASE timeouts + 1 = TimeoutsMod
    <2>1. TimeoutsMod % TimeoutsMod = 0
      BY <1>1
    <2> QED BY <1>1, <1>3, <2>1 DEF Incremented
  <1> QED BY <1>1, <1>2, <1>3

LEMMA TimeoutCounted ==
    ASSUME TypeOK, Shape, Counted, NEW t \in Threads, NEW f \in Functions, WaitTimeout(t, f)
    PROVE  Counted'
  <1>0. /\ timeouts \in Nat /\ expired \in 0 .. TimeoutsMod /\ Timeouts \in Nat /\ TimeoutsMod \in Nat \ {0}
        /\ timeouts' = Incremented /\ Incremented \in Nat
        /\ expired' = IF expired < TimeoutsMod THEN expired + 1 ELSE expired
    BY Numbers, TimeoutsAssumption, IncrementedType DEF TypeOK, WaitTimeout
  <1>1. expired' \in Nat /\ expired <= expired'
    BY <1>0
  <1>2. timeouts <= expired => timeouts' <= expired'
    BY <1>0, IncrementedBound
  <1>3. Established => timeouts' <= expired'
    BY <1>2 DEF Counted
  <1>4. CASE Incremented < Timeouts
    <2>1. UNCHANGED <<pc, note, opened>>
      BY <1>4 DEF WaitTimeout, sessionVars
    <2>2. Established' <=> Established
      BY <2>1 DEF Established
    <2>3. \A u \in Threads : note'[u] = "Timeout" => Timeouts <= expired' /\ pc'[u]["event"] = "idle"
      BY <1>0, <1>1, <2>1 DEF Counted
    <2> QED BY <1>3, <2>2, <2>3 DEF Counted
  <1>5. CASE ~(Incremented < Timeouts)
    <2>1. End(t, f, "Timeout") /\ Runs(t, f) /\ pc[t][f] \in IOPoints
      BY <1>5 DEF WaitTimeout, Blocked
    <2>2. f # "event" /\ pc[t]["event"] = "idle"
      BY <2>1 DEF Shape, Stacks, StackOf, IOPoints, Runs, Functions, Inner, Idle
    <2>3. CASE closed
      <3>1. Return(t, f, "Timeout") /\ UNCHANGED <<note, opened>> /\ Goto(t, f, "idle") /\ "idle" \in PCs
        BY <2>1, <2>3 DEF End, Return, PCs
      <3>2. \A u \in Threads, g \in Functions : pc'[u][g] = IF u = t /\ g = f THEN "idle" ELSE pc[u][g]
        BY <3>1, GotoPC
      <3>3. "connect" \in Functions /\ "event" \in Functions
        BY DEF Functions
      <3>4. Established' => Established
        BY <3>1, <3>2, <3>3 DEF Established
      <3>5. \A u \in Threads : note'[u] = "Timeout" => Timeouts <= expired' /\ pc'[u]["event"] = "idle"
        BY <1>0, <1>1, <3>1, <3>2, <3>3 DEF Counted
      <3> QED BY <1>3, <3>4, <3>5 DEF Counted
    <2>4. CASE ~closed
      <3>1. Established
        BY <2>4 DEF Shape, EndAccounted
      <3>2. Timeouts <= expired'
        BY <1>0, <1>1, <1>3, <1>5, <3>1
      <3> QED BY <1>1, <1>3, <2>1, <2>2, <3>2, EndCounted, FatalCodes
    <2> QED BY <2>3, <2>4
  <1> QED BY <1>4, <1>5

LEMMA CountedKeeps ==
    ASSUME IInv, Counted, [Next]_vars PROVE Counted'
  <1>0. /\ TypeOK /\ Shape /\ Worker \in Threads /\ Functions = {"connect", "process", "write", "event"}
        /\ {"idle", "handshake", "header", "data", "opened", "more"} \subseteq PCs \ {"opening", "report"}
    BY ThreadsAssumption DEF IInv, Functions, PCs, IOPoints
  <1>1. Established => 0 <= expired /\ timeouts <= expired
    BY <1>0, Numbers DEF Counted
  <1>2. CASE UNCHANGED vars
    BY <1>0, <1>2, SameCounted DEF vars, callVars, sessionVars, tlsVars
  <1>3. ASSUME NEW t \in Threads, NEW f \in Functions,
               \/ Cancel(t, f) \/ CallSuccess(t, f) \/ CallRetry(t, f) \/ CallBusy(t, f)
        PROVE  Counted'
    <2>0. Cancel(t, f) \/ CallBusy(t, f) => f # "event"
      BY <1>0 DEF Shape, Stacks, StackOf, IOPoints, Cancel, CallBusy, AtIO
    <2>1. CASE Cancel(t, f)
      BY <1>0, <2>0, <2>1, GotoCounted DEF Cancel, Return, sessionVars, tlsVars
    <2>2. CASE CallSuccess(t, f)
      BY <1>0, <2>2, SuccessCounted
    <2>3. CASE CallRetry(t, f)
      BY <1>0, <2>3, SameCounted DEF CallRetry, callVars, sessionVars
    <2>4. CASE CallBusy(t, f)
      <3>1. CASE Waits(t)
        BY <1>0, <2>4, <3>1, SameCounted DEF CallBusy, sessionVars, tlsVars
      <3>2. CASE ~Waits(t)
        BY <1>0, <2>0, <2>4, <3>2, GotoCounted DEF CallBusy, Return, sessionVars, tlsVars
      <3> QED BY <3>1, <3>2
    <2> QED BY <1>3, <2>1, <2>2, <2>3, <2>4
  <1>4. ASSUME NEW t \in Threads, NEW f \in Functions, CallFatal(t, f) PROVE Counted'
    <2>1. PICK c \in {"Memory", "Failure", "Unknown", "Shutdown"} :
             End(t, f, interpretTLSCode(c)) /\ timeouts' \in {timeouts, 0}
      BY <1>4 DEF CallFatal
    <2>2. interpretTLSCode(c) \in Fatal \ {"Timeout"}
      BY <2>1 DEF interpretTLSCode, Fatal
    <2>3. f # "event" /\ expired' = expired
      BY <1>0, <1>4 DEF CallFatal, AtIO, Shape, Stacks, StackOf, IOPoints
    <2> QED BY <1>0, <1>1, <2>1, <2>2, <2>3, EndCounted, Numbers
  <1>5. ASSUME NEW t \in Threads, NEW f \in Functions, WaitTimeout(t, f) PROVE Counted'
    BY <1>0, <1>5, TimeoutCounted
  <1>6. ASSUME NEW t \in Threads, NEW f \in Functions, WaitEvent(t, f) PROVE Counted'
    <2>1. PICK state \in SUBSET Flags :
             IF handleState(state) = "Retry"
             THEN UNCHANGED <<pc, note, sessionVars, timeouts>>
             ELSE End(t, f, handleState(state)) /\ timeouts' \in {timeouts, 0}
      BY <1>6 DEF WaitEvent
    <2>2. handleState(state) # "Timeout" /\ expired' = expired
      BY <1>6 DEF handleState, WaitEvent
    <2>3. f # "event"
      BY <1>0, <1>6 DEF WaitEvent, Blocked, Shape, Stacks, StackOf, IOPoints
    <2>4. CASE handleState(state) = "Retry"
      BY <1>0, <2>1, <2>2, <2>4, SameCounted DEF sessionVars
    <2>5. CASE handleState(state) # "Retry"
      BY <1>0, <1>1, <2>1, <2>2, <2>3, <2>5, EndCounted, FatalCodes, Numbers
    <2> QED BY <2>4, <2>5
  <1>7. ASSUME NEW t \in Threads, NEW f \in Functions, Report(t, f) PROVE Counted'
    BY <1>0, <1>7, GotoCounted DEF Report, Return, tlsVars, TypeOK
  <1>8. ASSUME NEW t \in Threads, Opened(t) PROVE Counted'
    <2>1. Established
      BY <1>8 DEF Opened, Established
    <2>2. pc' = [pc EXCEPT ![t]["connect"] = "opened"] /\ UNCHANGED <<note, timeouts, expired>>
      BY <1>8 DEF Opened, Goto, tlsVars
    <2>3. \A u \in Threads : pc'[u]["event"] = pc[u]["event"]
      BY <1>0, <2>2 DEF TypeOK
    <2> QED BY <1>1, <2>1, <2>2, <2>3 DEF Counted
  <1>9. ASSUME NEW t \in Threads,
               More(t) \/ ConnectDone(t) \/ PackDone(t) \/ Connect(t) \/ Process(t) \/ Write(t)
        PROVE  Counted'
    <2>1. UNCHANGED <<note, opened, timeouts, expired>>
      BY <1>9 DEF More, ConnectDone, PackDone, Connect, Process, Write, sessionVars, tlsVars
    <2>2. \/ pc' = pc
          \/ \E f \in Functions \ {"event"}, point \in {"idle", "handshake", "header", "data", "more"} :
                Goto(t, f, point)
      BY <1>0, <1>9 DEF More, ConnectDone, PackDone, Connect, Process, Write, Enter, Return
    <2> QED BY <1>0, <2>1, <2>2, SameCounted, GotoCounted
  <1>10. ASSUME NEW t \in Threads, Add(t) PROVE Counted'
    BY <1>0, <1>10, SameCounted DEF Add, callVars, sessionVars, tlsVars
  <1>11. CASE Stop \/ WorkerLookup \/ WorkerDone
    BY <1>0, <1>11, SameCounted DEF Stop, WorkerLookup, WorkerDone, callVars, sessionVars, tlsVars
  <1>12. CASE WorkerProcess
    BY <1>0, <1>12, GotoCounted DEF WorkerProcess, Enter, sessionVars, tlsVars
  <1>13. CASE WorkerState
    <2>1. PICK state \in {{"Disconnected"}, {"Error"}} : End(Worker, "event", handleState(state))
      BY <1>13 DEF WorkerState
    <2>2. handleState(state) \in Fatal \ {"Timeout"}
      BY <2>1 DEF handleState, Fatal
    <2>3. note[Worker] = "none"
      BY <1>0, <1>13 DEF WorkerState, Shape, Stacks, StackOf, Noted, Idle
    <2> QED BY <1>0, <1>1, <1>13, <2>1, <2>2, <2>3, EndCounted, Numbers DEF WorkerState, tlsVars
  <1> QED BY <1>2, <1>3, <1>4, <1>5, <1>6, <1>7, <1>8, <1>9, <1>10, <1>11, <1>12, <1>13
          DEF Next, Step, CallbackDone, Call, PeerStep

\* failed(Timeout) is called only after Timeouts waits have timed out since the last
\* TLS call that succeeded, whatever events came between them, for every width and
\* initial garbage of m_timeouts.
THEOREM TimeoutsSinceSuccessCorrect == Spec => []TimeoutsSinceSuccess
  <1>1. Init => Counted
    <2>1. "connect" \in Functions
      BY DEF Functions
    <2> QED BY <2>1 DEF Init, Counted, Established
  <1>2. Counted /\ TypeOK => TimeoutsSinceSuccess
    BY Numbers DEF Counted, TimeoutsSinceSuccess
  <1>3. IInv => TypeOK
    BY DEF IInv
  <1> QED BY <1>1, <1>2, <1>3, CountedKeeps, Invariance, PTL DEF Spec
=============================================================================
