------------------------------ MODULE NodeProofs ------------------------------
(***************************************************************************)
(* Theorems about Node, for any number of sockets, endpoints, UDP threads  *)
(* and permitted users.                                                    *)
(*                                                                         *)
(* The list and the sessions determine each other: a user that holds an ID *)
(* owns the entry of that ID, a null one until add() (Holding), and an     *)
(* entry names only a user that holds its ID (Naming).  So a free entry    *)
(* belongs to nobody, reserveID() hands out an ID nobody holds, and add()  *)
(* and del() touch no entry but the user's own.                            *)
(***************************************************************************)
EXTENDS Node, FiniteSetTheorems, TLAPS

\* Stages at which the User has an ID but its entry is null.
Unlisted == {"reserved", "opened", "failed"}

Holding ==
    \A u \in Users : HoldsID(u) => users[userID[u]] = IF stage[u] \in Unlisted THEN Reserved ELSE u

Naming == \A id \in IDs, u \in Users : users[id] = u => HoldsID(u) /\ userID[u] = id

\* A session begins with the handshake, ends only after add(), and Peer knows connections
\* whose callback is done.
Progress ==
    \A u \in Users :
        /\ session[u] = "none" <=> stage[u] \in {"new", "notFull", "refused", "reserved", "failed"}
        /\ stage[u] = "opened" => session[u] = "open"
        /\ u \in tcp => stage[u] = "done"

\* A UDP thread in the callback has an endpoint, and past the lookup a user.
Endpointed ==
    \A t \in UDPThreads :
        /\ udp[t].at # "idle" => udp[t].endpoint \in Endpoints
        /\ udp[t].at = "associate" => udp[t].user \in Users

Sessional == Holding /\ Naming /\ Progress /\ UniqueSessions

IInv == TypeOK /\ Sessional /\ Endpointed

-----------------------------------------------------------------------------
(* Helpers *)

\* The entries can be counted.
LEMMA NumType == num \in Nat
  <1>1. IsFiniteSet(IDs)
    BY FS_Interval, MaxIDAssumption DEF IDs, MinID
  <1>2. IsFiniteSet(Taken)
    BY <1>1, FS_Subset DEF Taken
  <1> QED BY <1>2, FS_CardinalityType DEF num

\* A user that holds an ID holds one of them, and its entry is not free.
LEMMA HolderHasEntry ==
    ASSUME TypeOK, Holding, NEW u \in Users, HoldsID(u)
    PROVE  userID[u] \in IDs /\ users[userID[u]] \in {Reserved, u} /\ users[userID[u]] # Free
  <1>1. userID[u] \in IDs \cup {0} /\ userID[u] # 0
    BY DEF TypeOK, HoldsID
  <1>2. users[userID[u]] \in {Reserved, u}
    BY DEF Holding
  <1> QED BY <1>1, <1>2, UserAssumption

\* What else is not touched.
LEMMA UDPKeeps ==
    ASSUME Endpointed, UNCHANGED udp
    PROVE  Endpointed'
  BY DEF Endpointed

-----------------------------------------------------------------------------
(* The connection callback *)

\* A socket is refused, or goes on before it has an ID.
LEMMA EarlyKeeps ==
    ASSUME IInv, NEW u \in Users, CheckFull(u) \/ Refuse(u, "notFull")
    PROVE  IInv'
  <1>1. PICK to \in {"notFull", "refused"} :
          /\ stage[u] \in {"new", "notFull"} /\ stage' = [stage EXCEPT ![u] = to]
          /\ refusals' \in {refusals, refusals \cup {num}}
          /\ UNCHANGED <<users, endpoints, own, userID, session, tcp, udp, routed>>
    BY DEF CheckFull, Refuse, Move, managerVars, udpVars
  <1>2. TypeOK'
    BY <1>1, NumType DEF IInv, TypeOK, Stages
  <1>3. \A v \in Users : HoldsID(v)' <=> HoldsID(v)
    BY <1>1 DEF IInv, TypeOK, HoldsID
  <1>4. \A v \in Users : HoldsID(v) => stage'[v] = stage[v]
    BY <1>1 DEF IInv, TypeOK, HoldsID
  <1>5. Holding' /\ Naming' /\ UniqueSessions'
    BY <1>1, <1>3, <1>4 DEF IInv, Sessional, Holding, Naming, UniqueSessions
  <1>6. Progress'
    BY <1>1 DEF IInv, TypeOK, Sessional, Progress
  <1> QED BY <1>1, <1>2, <1>5, <1>6, UDPKeeps DEF IInv, Sessional

\* reserveID() finds an ID that nobody holds.
LEMMA ReserveKeeps ==
    ASSUME IInv, NEW u \in Users, Reserve(u)
    PROVE  IInv'
  <1>1. CASE ~CanReserve /\ Refuse(u, "notFull")
    BY <1>1, EarlyKeeps
  <1>2. ASSUME NEW id \in IDs,
               Move(u, "notFull", "reserved"), ReserveID(id), userID' = [userID EXCEPT ![u] = id],
               UNCHANGED <<session, tcp, refusals, udpVars>>
        PROVE  IInv'
    <2>1. /\ stage[u] = "notFull" /\ stage' = [stage EXCEPT ![u] = "reserved"]
          /\ users[id] = Free /\ users' = [users EXCEPT ![id] = Reserved]
          /\ userID' = [userID EXCEPT ![u] = id]
          /\ UNCHANGED <<endpoints, own, session, tcp, refusals, udp, routed>>
      BY <1>2 DEF Move, ReserveID, Reservable, udpVars
    <2>2. TypeOK'
      <3>1. id # 0
        BY MaxIDAssumption DEF IDs, MinID
      <3>2. /\ users' \in [IDs -> Users \cup {Free, Reserved}] /\ stage' \in [Users -> Stages]
            /\ userID' \in [Users -> IDs \cup {0}]
        BY <2>1 DEF IInv, TypeOK, Stages
      <3>3. \A v \in Users : userID'[v] = 0 <=> stage'[v] \in {"new", "notFull", "refused"}
        BY <2>1, <3>1 DEF IInv, TypeOK
      <3> QED BY <2>1, <3>2, <3>3 DEF IInv, TypeOK
    <2>3. session[u] = "none"
      BY <2>1 DEF IInv, Sessional, Progress
    <2>4. \A v \in Users : HoldsID(v) => v # u /\ userID[v] # id /\ userID[v] \in IDs
      BY <2>1, HolderHasEntry DEF IInv, Sessional, HoldsID
    <2>5. \A v \in Users : v # u => /\ (HoldsID(v)' <=> HoldsID(v))
                                    /\ stage'[v] = stage[v] /\ userID'[v] = userID[v]
      BY <2>1 DEF IInv, TypeOK, HoldsID
    <2>6. HoldsID(u)' /\ userID'[u] = id /\ stage'[u] = "reserved" /\ users'[id] = Reserved
      BY <2>1, <2>3 DEF IInv, TypeOK, HoldsID
    <2>7. \A j \in IDs : j # id => users'[j] = users[j]
      BY <2>1 DEF IInv, TypeOK
    <2>8. Holding'
      BY <2>4, <2>5, <2>6, <2>7 DEF IInv, Sessional, Holding, Unlisted
    <2>9. Naming'
      <3> SUFFICES ASSUME NEW j \in IDs, NEW v \in Users, users'[j] = v
                   PROVE  HoldsID(v)' /\ userID'[v] = j
        BY DEF Naming
      <3>1. j # id
        BY <2>6, UserAssumption
      <3>2. HoldsID(v) /\ userID[v] = j
        BY <2>7, <3>1 DEF IInv, Sessional, Naming
      <3> QED BY <2>4, <2>5, <3>2
    <2>10. UniqueSessions'
      BY <2>4, <2>5, <2>6 DEF IInv, Sessional, UniqueSessions
    <2>11. Progress'
      BY <2>1, <2>3 DEF IInv, TypeOK, Sessional, Progress
    <2> QED BY <2>1, <2>2, <2>8, <2>9, <2>10, <2>11, UDPKeeps DEF IInv, Sessional
  <1> QED BY <1>1, <1>2 DEF Reserve

\* The handshake succeeds or not; the entry stays null.
LEMMA HandshakeKeeps ==
    ASSUME IInv, NEW u \in Users, Handshake(u)
    PROVE  IInv'
  <1>1. /\ stage[u] = "reserved"
        /\ \/ stage' = [stage EXCEPT ![u] = "failed"] /\ session' = session
           \/ stage' = [stage EXCEPT ![u] = "opened"] /\ session' = [session EXCEPT ![u] = "open"]
        /\ UNCHANGED <<users, endpoints, own, userID, tcp, refusals, udp, routed>>
    BY DEF Handshake, Move, managerVars, udpVars
  <1>2. TypeOK'
    <2>1. stage' \in [Users -> Stages] /\ session' \in [Users -> Sessions]
      BY <1>1 DEF IInv, TypeOK, Stages, Sessions
    <2>2. \A v \in Users : userID'[v] = 0 <=> stage'[v] \in {"new", "notFull", "refused"}
      BY <1>1 DEF IInv, TypeOK
    <2> QED BY <1>1, <2>1, <2>2 DEF IInv, TypeOK
  <1>3. session[u] = "none"
    BY <1>1 DEF IInv, Sessional, Progress
  <1>4. \A v \in Users : /\ HoldsID(v)' <=> HoldsID(v)
                         /\ stage'[v] \in Unlisted <=> stage[v] \in Unlisted
    BY <1>1, <1>3 DEF IInv, TypeOK, HoldsID, Unlisted
  <1>5. Holding' /\ Naming' /\ UniqueSessions'
    BY <1>1, <1>4 DEF IInv, Sessional, Holding, Naming, UniqueSessions
  <1>6. Progress'
    BY <1>1, <1>3 DEF IInv, TypeOK, Sessional, Progress
  <1> QED BY <1>1, <1>2, <1>5, <1>6, UDPKeeps DEF IInv, Sessional

\* add() fills the entry of the user's own ID.
LEMMA OpenedAddKeeps ==
    ASSUME IInv, NEW u \in Users, OpenedAdd(u)
    PROVE  IInv'
  <1>1. /\ stage[u] = "opened" /\ stage' = [stage EXCEPT ![u] = "added"]
        /\ users' = [users EXCEPT ![userID[u]] = u]
        /\ UNCHANGED <<endpoints, own, userID, session, tcp, refusals, udp, routed>>
    BY DEF OpenedAdd, Move, AddUser, udpVars
  <1>2. HoldsID(u) /\ session[u] = "open" /\ userID[u] \in IDs
    BY <1>1, HolderHasEntry DEF IInv, Sessional, Progress, HoldsID
  <1>3. TypeOK'
    <2>1. stage' \in [Users -> Stages] /\ users' \in [IDs -> Users \cup {Free, Reserved}]
      BY <1>1 DEF IInv, TypeOK, Stages
    <2>2. \A v \in Users : userID'[v] = 0 <=> stage'[v] \in {"new", "notFull", "refused"}
      BY <1>1 DEF IInv, TypeOK
    <2> QED BY <1>1, <2>1, <2>2 DEF IInv, TypeOK
  <1>4. \A v \in Users : HoldsID(v)' <=> HoldsID(v)
    BY <1>1 DEF IInv, TypeOK, HoldsID
  <1>5. \A v \in Users : v # u => stage'[v] = stage[v] /\ (HoldsID(v) => userID[v] # userID[u])
    BY <1>1, <1>2 DEF IInv, TypeOK, Sessional, UniqueSessions
  <1>6. /\ users'[userID[u]] = u /\ stage'[u] = "added"
        /\ \A j \in IDs : j # userID[u] => users'[j] = users[j]
    BY <1>1, <1>2 DEF IInv, TypeOK
  <1>7. Holding'
    <2> SUFFICES ASSUME NEW v \in Users, HoldsID(v)'
                 PROVE  users'[userID'[v]] = IF stage'[v] \in Unlisted THEN Reserved ELSE v
      BY DEF Holding
    <2>1. CASE v = u
      BY <1>1, <1>6, <2>1 DEF Unlisted
    <2>2. CASE v # u
      <3>1. HoldsID(v) /\ userID[v] # userID[u] /\ userID[v] \in IDs
        BY <1>4, <1>5, <2>2, HolderHasEntry DEF IInv, Sessional
      <3> QED BY <1>1, <1>5, <1>6, <2>2, <3>1 DEF IInv, Sessional, Holding
    <2> QED BY <2>1, <2>2
  <1>8. Naming'
    <2> SUFFICES ASSUME NEW j \in IDs, NEW v \in Users, users'[j] = v
                 PROVE  HoldsID(v)' /\ userID'[v] = j
      BY DEF Naming
    <2>1. CASE j = userID[u]
      BY <1>1, <1>2, <1>4, <1>6, <2>1
    <2>2. CASE j # userID[u]
      BY <1>1, <1>4, <1>6, <2>2 DEF IInv, Sessional, Naming
    <2> QED BY <2>1, <2>2
  <1>9. UniqueSessions'
    BY <1>1, <1>4 DEF IInv, Sessional, UniqueSessions
  <1>10. Progress'
    BY <1>1, <1>2 DEF IInv, TypeOK, Sessional, Progress
  <1> QED BY <1>1, <1>3, <1>7, <1>8, <1>9, <1>10, UDPKeeps DEF IInv, Sessional

\* The rest of opened().
LEMMA OpenedKeeps ==
    ASSUME IInv, NEW u \in Users, OpenedProcess(u) \/ OpenedAddTCP(u)
    PROVE  IInv'
  <1>1. PICK to \in {"processed", "done"} :
          /\ stage[u] \in {"added", "processed"} /\ stage' = [stage EXCEPT ![u] = to]
          /\ tcp' = tcp \/ (tcp' = tcp \cup {u} /\ to = "done")
          /\ UNCHANGED <<users, endpoints, own, userID, session, refusals, udp, routed>>
    BY DEF OpenedProcess, OpenedAddTCP, Move, managerVars, udpVars
  <1>2. TypeOK'
    <2>1. stage' \in [Users -> Stages] /\ tcp' \subseteq Users
      BY <1>1 DEF IInv, TypeOK, Stages
    <2>2. \A v \in Users : userID'[v] = 0 <=> stage'[v] \in {"new", "notFull", "refused"}
      BY <1>1 DEF IInv, TypeOK
    <2> QED BY <1>1, <2>1, <2>2 DEF IInv, TypeOK
  <1>3. \A v \in Users : /\ HoldsID(v)' <=> HoldsID(v)
                         /\ stage'[v] \in Unlisted <=> stage[v] \in Unlisted
    BY <1>1 DEF IInv, TypeOK, HoldsID, Unlisted
  <1>4. Holding' /\ Naming' /\ UniqueSessions'
    BY <1>1, <1>3 DEF IInv, Sessional, Holding, Naming, UniqueSessions
  <1>5. Progress'
    BY <1>1 DEF IInv, TypeOK, Sessional, Progress
  <1> QED BY <1>1, <1>2, <1>4, <1>5, UDPKeeps DEF IInv, Sessional

-----------------------------------------------------------------------------
(* The end callback *)

\* The session ends, and Peer forgets the connection.
LEMMA EndKeeps ==
    ASSUME IInv, NEW u \in Users, End(u) \/ EndDelTCP(u)
    PROVE  IInv'
  <1>1. PICK to \in {"closing", "deleting"} :
          /\ session' = [session EXCEPT ![u] = to]
          /\ session[u] \in {"open", "closing"}
          /\ stage[u] # "opened"
          /\ tcp' \subseteq tcp
          /\ UNCHANGED <<users, endpoints, own, stage, userID, refusals, udp, routed>>
    <2>1. CASE End(u)
      BY <2>1 DEF End, IInv, Sessional, Progress, managerVars, udpVars
    <2>2. CASE EndDelTCP(u)
      BY <2>2 DEF EndDelTCP, IInv, Sessional, Progress, managerVars, udpVars
    <2> QED BY <2>1, <2>2
  <1>2. TypeOK'
    BY <1>1 DEF IInv, TypeOK, Sessions
  <1>3. \A v \in Users : HoldsID(v)' <=> HoldsID(v)
    BY <1>1 DEF IInv, TypeOK, HoldsID
  <1>4. Holding' /\ Naming' /\ UniqueSessions'
    BY <1>1, <1>3 DEF IInv, Sessional, Holding, Naming, UniqueSessions
  <1>5. Progress'
    BY <1>1 DEF IInv, TypeOK, Sessional, Progress
  <1> QED BY <1>1, <1>2, <1>4, <1>5, UDPKeeps DEF IInv, Sessional

\* del() frees the entry of the user's own ID.
LEMMA EndDelKeeps ==
    ASSUME IInv, NEW u \in Users, EndDel(u)
    PROVE  IInv'
  <1>1. /\ session[u] = "deleting" /\ session' = [session EXCEPT ![u] = "ended"]
        /\ users' = [users EXCEPT ![userID[u]] = Free]
        /\ UNCHANGED <<own, stage, userID, tcp, refusals, udp, routed>>
    BY DEF EndDel, DelUser, udpVars
  <1>2. endpoints' \in [Endpoints -> Users \cup {NoUser}]
    BY DEF EndDel, DelUser, IInv, TypeOK
  <1>3. HoldsID(u) /\ userID[u] \in IDs /\ stage[u] # "opened"
    BY <1>1, HolderHasEntry DEF IInv, TypeOK, Sessional, Progress, HoldsID
  <1>4. TypeOK'
    <2>1. session' \in [Users -> Sessions] /\ users' \in [IDs -> Users \cup {Free, Reserved}]
      BY <1>1 DEF IInv, TypeOK, Sessions
    <2> QED BY <1>1, <1>2, <2>1 DEF IInv, TypeOK
  <1>5. ~HoldsID(u)' /\ \A v \in Users : v # u => (HoldsID(v)' <=> HoldsID(v))
    BY <1>1 DEF IInv, TypeOK, HoldsID
  <1>6. \A v \in Users : v # u /\ HoldsID(v) => userID[v] # userID[u] /\ userID[v] \in IDs
    BY <1>3, HolderHasEntry DEF IInv, Sessional, UniqueSessions
  <1>7. users'[userID[u]] = Free /\ \A j \in IDs : j # userID[u] => users'[j] = users[j]
    BY <1>1, <1>3 DEF IInv, TypeOK
  <1>8. Holding'
    BY <1>1, <1>5, <1>6, <1>7 DEF IInv, Sessional, Holding
  <1>9. Naming'
    <2> SUFFICES ASSUME NEW j \in IDs, NEW v \in Users, users'[j] = v
                 PROVE  HoldsID(v)' /\ userID'[v] = j
      BY DEF Naming
    <2>1. j # userID[u]
      BY <1>7, UserAssumption
    <2>2. HoldsID(v) /\ userID[v] = j
      BY <1>7, <2>1 DEF IInv, Sessional, Naming
    <2> QED BY <1>1, <1>5, <2>1, <2>2
  <1>10. UniqueSessions'
    BY <1>1, <1>5 DEF IInv, Sessional, UniqueSessions
  <1>11. Progress'
    BY <1>1 DEF IInv, TypeOK, Sessional, Progress
  <1> QED BY <1>1, <1>4, <1>8, <1>9, <1>10, <1>11, UDPKeeps DEF IInv, Sessional

-----------------------------------------------------------------------------
(* The UDP threads *)

\* They leave the list and the sessions alone.
LEMMA SessionsKeep ==
    ASSUME Sessional, UNCHANGED <<users, stage, userID, session, tcp>>
    PROVE  Sessional'
  BY DEF Sessional, Holding, Naming, Progress, UniqueSessions, HoldsID

Callbacks ==
    [at : {"idle", "try", "associate", "decrypt"}, endpoint : Endpoints \cup {NoEndpoint},
     user : Users \cup {NoUser}, fresh : BOOLEAN]

\* A step of one thread.
LEMMA StepKeeps ==
    ASSUME IInv, NEW t \in UDPThreads, NEW from, NEW p \in Callbacks, Step(t, from, p),
           p.at # "idle" => p.endpoint \in Endpoints, p.at = "associate" => p.user \in Users
    PROVE  udp' \in [UDPThreads -> Callbacks] /\ Endpointed'
  <1>1. udp \in [UDPThreads -> Callbacks] /\ udp' = [udp EXCEPT ![t] = p]
    BY DEF Step, IInv, TypeOK, Callbacks
  <1>2. udp' \in [UDPThreads -> Callbacks]
    BY <1>1
  <1>3. Endpointed'
    <2> SUFFICES ASSUME NEW w \in UDPThreads
                 PROVE  /\ udp'[w].at # "idle" => udp'[w].endpoint \in Endpoints
                        /\ udp'[w].at = "associate" => udp'[w].user \in Users
      BY DEF Endpointed
    <2>1. CASE w = t
      BY <1>1, <2>1
    <2>2. CASE w # t
      BY <1>1, <2>2 DEF IInv, Endpointed
    <2> QED BY <2>1, <2>2
  <1> QED BY <1>2, <1>3

LEMMA IdleType == Idle \in Callbacks /\ Idle.at = "idle"
  BY DEF Idle, Callbacks

\* What a thread knows of its packet.
LEMMA InCallback ==
    ASSUME IInv, NEW t \in UDPThreads, udp[t].at # "idle"
    PROVE  udp[t] \in Callbacks /\ udp[t].endpoint \in Endpoints /\ Owner[udp[t].endpoint] \in Users
  <1>1. udp[t] \in Callbacks /\ udp[t].endpoint \in Endpoints
    BY DEF IInv, TypeOK, Callbacks, Endpointed
  <1> QED BY <1>1, OwnerAssumption

LEMMA EncryptedKeeps ==
    ASSUME IInv, NEW t \in UDPThreads, NEW e \in Endpoints, NEW good \in BOOLEAN,
           Encrypted(t, e, good)
    PROVE  IInv'
  <1> DEFINE p == [at |-> IF endpoints[e] = NoUser THEN "try" ELSE "decrypt",
                   endpoint |-> e, user |-> endpoints[e], fresh |-> good]
  <1>1. /\ Step(t, "idle", p)
        /\ UNCHANGED <<users, endpoints, own, stage, userID, session, tcp, refusals, routed>>
    BY DEF Encrypted, managerVars, nodeVars
  <1>2. p \in Callbacks /\ p.endpoint \in Endpoints /\ p.at # "associate"
    BY DEF IInv, TypeOK, Callbacks
  <1> HIDE DEF p
  <1>3. udp' \in [UDPThreads -> Callbacks] /\ Endpointed'
    BY <1>1, <1>2, StepKeeps
  <1>4. TypeOK'
    BY <1>1, <1>3 DEF IInv, TypeOK, Callbacks
  <1> QED BY <1>1, <1>3, <1>4, SessionsKeep DEF IInv

LEMMA TryDecryptKeeps ==
    ASSUME IInv, NEW t \in UDPThreads, TryDecrypt(t)
    PROVE  IInv'
  <1>1. udp[t].at = "try"
    BY DEF TryDecrypt, Step
  <1> DEFINE p == [udp[t] EXCEPT !.at = "associate", !.user = Owner[udp[t].endpoint], !.fresh = FALSE]
  <1>2. p \in Callbacks /\ p.endpoint \in Endpoints /\ p.user \in Users
    BY <1>1, InCallback DEF Callbacks
  <1>3. /\ Step(t, "try", p) \/ Step(t, "try", Idle)
        /\ UNCHANGED <<users, endpoints, own, stage, userID, session, tcp, refusals, routed>>
    BY DEF TryDecrypt, managerVars, nodeVars
  <1> HIDE DEF p
  <1>4. udp' \in [UDPThreads -> Callbacks] /\ Endpointed'
    BY <1>2, <1>3, StepKeeps, IdleType
  <1>5. TypeOK'
    BY <1>3, <1>4 DEF IInv, TypeOK, Callbacks
  <1> QED BY <1>3, <1>4, <1>5, SessionsKeep DEF IInv

LEMMA TryAssociateKeeps ==
    ASSUME IInv, NEW t \in UDPThreads, TryAssociate(t)
    PROVE  IInv'
  <1>1. udp[t].at = "associate" /\ udp[t].user \in Users /\ udp[t].endpoint \in Endpoints
    BY DEF TryAssociate, Step, IInv, Endpointed
  <1> DEFINE p == [udp[t] EXCEPT !.at = "decrypt"]
  <1>2. p \in Callbacks /\ p.endpoint \in Endpoints /\ p.at = "decrypt"
    BY <1>1, InCallback DEF Callbacks
  <1>3. /\ Step(t, "associate", p)
        /\ own' = [own EXCEPT ![udp[t].user] = @ \cup {udp[t].endpoint}]
        /\ endpoints' = [endpoints EXCEPT ![udp[t].endpoint] = udp[t].user]
        /\ UNCHANGED <<users, stage, userID, session, tcp, refusals, routed>>
    BY DEF TryAssociate, Associate, nodeVars
  <1> HIDE DEF p
  <1>4. udp' \in [UDPThreads -> Callbacks] /\ Endpointed'
    BY <1>2, <1>3, StepKeeps
  <1>5. own' \in [Users -> SUBSET Endpoints] /\ endpoints' \in [Endpoints -> Users \cup {NoUser}]
    BY <1>1, <1>3 DEF IInv, TypeOK
  <1>6. TypeOK'
    BY <1>3, <1>4, <1>5 DEF IInv, TypeOK, Callbacks
  <1> QED BY <1>3, <1>4, <1>6, SessionsKeep DEF IInv

LEMMA DecryptKeeps ==
    ASSUME IInv, NEW t \in UDPThreads, Decrypt(t)
    PROVE  IInv'
  <1>1. udp[t].at = "decrypt" /\ udp[t].endpoint \in Endpoints
    BY DEF Decrypt, Step, IInv, Endpointed
  <1>2. /\ Step(t, "decrypt", Idle)
        /\ routed' \in {routed, routed \cup {udp[t].endpoint}}
        /\ own' \in {own, [own EXCEPT ![udp[t].user] = @ \ {udp[t].endpoint}]}
        /\ UNCHANGED <<users, endpoints, stage, userID, session, tcp, refusals>>
    BY DEF Decrypt, DelEndpoint, managerVars, nodeVars
  <1>3. udp' \in [UDPThreads -> Callbacks] /\ Endpointed'
    BY <1>2, StepKeeps, IdleType
  <1>4. own' \in [Users -> SUBSET Endpoints] /\ routed' \subseteq Endpoints
    BY <1>1, <1>2 DEF IInv, TypeOK
  <1>5. TypeOK'
    BY <1>2, <1>3, <1>4 DEF IInv, TypeOK, Callbacks
  <1> QED BY <1>2, <1>3, <1>5, SessionsKeep DEF IInv

-----------------------------------------------------------------------------
(* The invariant *)

LEMMA InitIInv == Init => IInv
  <1> SUFFICES ASSUME Init PROVE IInv
    OBVIOUS
  <1>1. TypeOK
    BY IdleType, MaxIDAssumption
    DEF Init, ManagerInit, TypeOK, Stages, Sessions, Callbacks, IDs, MinID
  <1>2. \A u \in Users : ~HoldsID(u)
    BY DEF Init, HoldsID
  <1>3. \A id \in IDs, u \in Users : users[id] # u
    BY UserAssumption DEF Init, ManagerInit
  <1>4. Progress /\ Endpointed
    BY IdleType DEF Init, Progress, Endpointed
  <1> QED BY <1>1, <1>2, <1>3, <1>4 DEF IInv, Sessional, Holding, Naming, UniqueSessions

LEMMA NextIInv == IInv /\ [Next]_vars => IInv'
  <1> SUFFICES ASSUME IInv, [Next]_vars PROVE IInv'
    OBVIOUS
  <1>1. ASSUME NEW u \in Users, Handle(u) \/ End(u) PROVE IInv'
    BY <1>1, EarlyKeeps, ReserveKeeps, HandshakeKeeps, OpenedAddKeeps, OpenedKeeps, EndKeeps,
       EndDelKeeps DEF Handle
  <1>2. ASSUME NEW t \in UDPThreads, UDPStep(t) PROVE IInv'
    BY <1>2, TryDecryptKeeps, TryAssociateKeeps, DecryptKeeps DEF UDPStep
  <1>3. CASE UNCHANGED vars
    <2>1. /\ UNCHANGED <<users, stage, userID, session, tcp>> /\ UNCHANGED udp
          /\ UNCHANGED <<endpoints, own, refusals, routed>>
      BY <1>3 DEF vars, managerVars, nodeVars, udpVars
    <2>2. TypeOK'
      BY <2>1 DEF IInv, TypeOK
    <2> QED BY <2>1, <2>2, SessionsKeep, UDPKeeps DEF IInv
  <1> QED BY <1>1, <1>2, <1>3, EncryptedKeeps DEF Next

LEMMA Inductive == Spec => []IInv
  BY InitIInv, NextIInv, PTL DEF Spec

-----------------------------------------------------------------------------
(* Theorems *)

\* Every variable keeps its type; a User has an ID exactly from reserveID() on.
THEOREM TypeCorrect == Spec => []TypeOK
  BY Inductive, PTL DEF IInv

\* No two users hold the same session ID, whatever the nodes admit and drop at a time.
THEOREM UniqueSessionsCorrect == Spec => []UniqueSessions
  BY Inductive, PTL DEF IInv, Sessional

\* From add() to del() a user is found under its ID, so del() finds the entry.
THEOREM ConnectedIsListedCorrect == Spec => []ConnectedIsListed
  <1>1. IInv => ConnectedIsListed
    <2> SUFFICES ASSUME IInv, NEW u \in Users,
                        session[u] \in {"open", "closing", "deleting"}, stage[u] # "opened"
                 PROVE  users[userID[u]] = u
      BY DEF ConnectedIsListed
    <2>1. HoldsID(u) /\ stage[u] \notin Unlisted
      BY DEF IInv, Sessional, Progress, HoldsID, Unlisted
    <2> QED BY <2>1 DEF IInv, Sessional, Holding
  <1> QED BY Inductive, <1>1, PTL

\* After its end callback a user is in the list no more.
THEOREM EndedIsUnlistedCorrect == Spec => []EndedIsUnlisted
  <1>1. IInv => EndedIsUnlisted
    BY DEF IInv, Sessional, Naming, HoldsID, EndedIsUnlisted
  <1> QED BY Inductive, <1>1, PTL
=============================================================================
