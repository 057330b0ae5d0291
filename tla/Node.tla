--------------------------------- MODULE Node ---------------------------------
(***************************************************************************)
(* ExampleServer (src/examples/ExampleServer/Node.cpp, main.cpp): the      *)
(* callbacks its nodes hang on Peer and on every Connection, with the      *)
(* UserManager the nodes share.  Each accepted socket is handled by a      *)
(* thread of some node's TCP pool from the connection callback on, later   *)
(* by the workers that get its events; each node has one UDP thread.  The  *)
(* critical sections of all of them interleave.                            *)
(*                                                                         *)
(* Connection is represented by what Connection.tla shows of it: its       *)
(* session ends at most once, by a callback, and process() returns an      *)
(* error only when it has ended.                                           *)
(***************************************************************************)
EXTENDS UserManager

CONSTANTS
    Owner,          \* Owner[e]: the user whose client sends from endpoint e
    UDPThreads      \* one per node

ASSUME OwnerAssumption == Owner \in [Endpoints -> Users]

NoEndpoint == "no endpoint"

VARIABLES
    stage,          \* stage[u]: progress of the connection callback for u's socket
    userID,         \* m_id of User u, 0 before it exists
    session,        \* session[u]: m_closed and the end callback, see Sessions
    tcp,            \* m_connections of the nodes' Peers
    udp,            \* udp[t]: the encrypted callback UDP thread t is in
    routed,         \* ghost: endpoints a packet of which was decrypted and handled
    refusals        \* ghost: for each refused socket the number of entries at that time

nodeVars == <<stage, userID, session, tcp, refusals>>
udpVars  == <<udp, routed>>
vars     == <<managerVars, nodeVars, udpVars>>

Stages == {"new", "notFull", "reserved", "opened", "added", "processed", "done", "refused", "failed"}

\* "closing" and "deleting": in the callback, before delTCP() and before del().
Sessions == {"none", "open", "closing", "deleting", "ended"}

Idle == [at |-> "idle", endpoint |-> NoEndpoint, user |-> NoUser, fresh |-> FALSE]

Init ==
    /\ ManagerInit
    /\ stage = [u \in Users |-> "new"]
    /\ userID = [u \in Users |-> 0]
    /\ session = [u \in Users |-> "none"]
    /\ tcp = {}
    /\ udp = [t \in UDPThreads |-> Idle]
    /\ routed = {}
    /\ refusals = {}

-----------------------------------------------------------------------------
(* feedbackTCP.connection *)

Move(u, from, to) == stage[u] = from /\ stage' = [stage EXCEPT ![u] = to]

Refuse(u, from) ==
    /\ Move(u, from, "refused")
    /\ refusals' = refusals \cup {num}
    /\ UNCHANGED <<managerVars, userID, session, tcp, udpVars>>

\* full() never holds unless MaxID is 0: reserveID() stops one ID short of max().
CheckFull(u) ==
    IF full
    THEN Refuse(u, "new")
    ELSE /\ Move(u, "new", "notFull")
         /\ UNCHANGED <<managerVars, userID, session, tcp, refusals, udpVars>>

Reserve(u) ==
    \/ ~CanReserve /\ Refuse(u, "notFull")
    \/ \E id \in IDs :
         /\ Move(u, "notFull", "reserved")
         /\ ReserveID(id)
         /\ userID' = [userID EXCEPT ![u] = id]
         /\ UNCHANGED <<session, tcp, refusals, udpVars>>

\* User::connect() with its handshake: on failure the User is destroyed and the
\* entry stays reserved.
Handshake(u) ==
    /\ \/ Move(u, "reserved", "failed") /\ UNCHANGED session
       \/ Move(u, "reserved", "opened") /\ session' = [session EXCEPT ![u] = "open"]
    /\ UNCHANGED <<managerVars, userID, tcp, refusals, udpVars>>

\* feedback.opened: add(user) ...
OpenedAdd(u) ==
    /\ Move(u, "opened", "added")
    /\ AddUser(u, userID[u])
    /\ UNCHANGED <<userID, session, tcp, refusals, udpVars>>

\* ... process(), which may succeed although a send from its pack callback has
\* ended the session ...
OpenedProcess(u) ==
    /\ session[u] \in {"open", "ended"}
    /\ \/ Move(u, "added", "processed")
       \/ session[u] = "ended" /\ Move(u, "added", "done")
    /\ UNCHANGED <<managerVars, userID, session, tcp, refusals, udpVars>>

\* ... addTCP(user->connection()).
OpenedAddTCP(u) ==
    /\ Move(u, "processed", "done")
    /\ tcp' = tcp \cup {u}
    /\ UNCHANGED <<managerVars, userID, session, refusals, udpVars>>

\* The session ends inside process(), or in a worker that handles an event.
End(u) ==
    /\ session[u] = "open"
    /\ stage[u] = "added" \/ u \in tcp
    /\ session' = [session EXCEPT ![u] = "closing"]
    /\ UNCHANGED <<managerVars, stage, userID, tcp, refusals, udpVars>>

\* feedback.closed and feedback.failed: delTCP(user->connection()) ...
EndDelTCP(u) ==
    /\ session[u] = "closing"
    /\ session' = [session EXCEPT ![u] = "deleting"]
    /\ tcp' = tcp \ {u}
    /\ UNCHANGED <<managerVars, stage, userID, refusals, udpVars>>

\* ... del(id).
EndDel(u) ==
    /\ session[u] = "deleting"
    /\ session' = [session EXCEPT ![u] = "ended"]
    /\ DelUser(userID[u])
    /\ UNCHANGED <<stage, userID, tcp, refusals, udpVars>>

-----------------------------------------------------------------------------
(* feedbackUDP.encrypted *)

Step(t, from, record) == udp[t].at = from /\ udp' = [udp EXCEPT ![t] = record]

\* A packet: the client that owns the endpoint made it for its user, or it does not
\* decrypt under any key.
Encrypted(t, e, good) ==
    /\ good => stage[Owner[e]] \in {"added", "processed", "done"}
    /\ Step(t, "idle", [at    |-> IF endpoints[e] = NoUser THEN "try" ELSE "decrypt",
                        endpoint |-> e, user |-> endpoints[e], fresh |-> good])
    /\ UNCHANGED <<managerVars, nodeVars, routed>>

\* tryDecrypt(): every listed user decrypts, which uses up the packet's nonce.
TryDecrypt(t) ==
    LET p == udp[t] IN
    /\ IF p.fresh /\ \E id \in Listed : users[id] = Owner[p.endpoint]
       THEN Step(t, "try", [p EXCEPT !.at = "associate", !.user = Owner[p.endpoint], !.fresh = FALSE])
       ELSE Step(t, "try", Idle)
    /\ UNCHANGED <<managerVars, nodeVars, routed>>

TryAssociate(t) ==
    LET p == udp[t] IN
    /\ Step(t, "associate", [p EXCEPT !.at = "decrypt"])
    /\ Associate(p.user, p.endpoint)
    /\ UNCHANGED <<nodeVars, routed>>

\* user->decrypt(): the packet is handled, or the user forgets the endpoint.
Decrypt(t) ==
    LET p == udp[t] IN
    /\ Step(t, "decrypt", Idle)
    /\ IF p.fresh /\ p.user = Owner[p.endpoint]
       THEN routed' = routed \cup {p.endpoint} /\ UNCHANGED managerVars
       ELSE DelEndpoint(p.user, p.endpoint) /\ UNCHANGED routed
    /\ UNCHANGED nodeVars

-----------------------------------------------------------------------------

Handle(u) ==
    \/ CheckFull(u) \/ Reserve(u) \/ Handshake(u)
    \/ OpenedAdd(u) \/ OpenedProcess(u) \/ OpenedAddTCP(u)
    \/ EndDelTCP(u) \/ EndDel(u)

UDPStep(t) == TryDecrypt(t) \/ TryAssociate(t) \/ Decrypt(t)

Next ==
    \/ \E u \in Users : Handle(u) \/ End(u)
    \/ \E t \in UDPThreads : UDPStep(t) \/ \E e \in Endpoints, good \in BOOLEAN : Encrypted(t, e, good)

Spec == Init /\ [][Next]_vars

\* Threads run; handshakes and process() come to an end, because the client goes on
\* or goes away; clients keep sending to some node.
Fairness ==
    /\ \A u \in Users : WF_vars(Handle(u))
    /\ \A t \in UDPThreads : WF_vars(UDPStep(t))
    /\ \A e \in Endpoints : SF_vars(\E t \in UDPThreads : Encrypted(t, e, TRUE))

FairSpec == Spec /\ Fairness

-----------------------------------------------------------------------------
(* Properties *)

TypeOK ==
    /\ users \in [IDs -> Users \cup {Free, Reserved}]
    /\ endpoints \in [Endpoints -> Users \cup {NoUser}]
    /\ own \in [Users -> SUBSET Endpoints]
    /\ stage \in [Users -> Stages]
    /\ userID \in [Users -> IDs \cup {0}]
    /\ \A u \in Users : userID[u] = 0 <=> stage[u] \in {"new", "notFull", "refused"}
    /\ session \in [Users -> Sessions]
    /\ tcp \subseteq Users
    /\ udp \in [UDPThreads -> [at : {"idle", "try", "associate", "decrypt"},
                               endpoint : Endpoints \cup {NoEndpoint},
                               user : Users \cup {NoUser}, fresh : BOOLEAN]]
    /\ routed \subseteq Endpoints
    /\ refusals \subseteq Nat

\* From reserveID() until del(), or for ever if the handshake failed.
HoldsID(u) ==
    /\ stage[u] \notin {"new", "notFull", "refused"}
    /\ session[u] # "ended"

\* "Unique user session ID" (MumbleTCP.proto:182): no two users hold the same ID,
\* whatever the nodes admit and drop at the same time.
UniqueSessions ==
    \A u, v \in Users : u # v /\ HoldsID(u) /\ HoldsID(v) => userID[u] # userID[v]

\* A connected user is found under its ID for as long as its session lasts, and del()
\* of its end callback finds the entry: on a missing one it would dereference an
\* empty node handle.
ConnectedIsListed ==
    \A u \in Users :
        session[u] \in {"open", "closing", "deleting"} /\ stage[u] # "opened"
            => users[userID[u]] = u

\* After its end callback a user is not in the list, not even when the callback ran
\* inside opened() before addTCP().
EndedIsUnlisted ==
    \A u \in Users : session[u] = "ended" => \A id \in IDs : users[id] # u

\* The client of a user that stays connected gets through to it from an endpoint no
\* other user was seen at, although the first packet from there is always decrypted
\* twice and dropped.
EventuallyRouted ==
    \A e \in Endpoints :
        <>[](session[Owner[e]] = "open" /\ stage[Owner[e]] # "opened") => <>(e \in routed)

\* A session that ends is taken from the list.
EndIsCleanedUp ==
    \A u \in Users : session[u] = "closing" ~> \A id \in IDs : users[id] # u

\* "The amount of users currently connected to the server" (MumbleUDP.proto:77), which
\* fillPing takes from num(): correct at least when nobody is coming or going.
Settled ==
    \A u \in Users : /\ stage[u] \in {"new", "done", "refused", "failed"}
                     /\ session[u] \in {"none", "open", "ended"}
UserCount == Settled => num = Cardinality({u \in Users : session[u] = "open"})

\* "The maximum amount of users permitted on this server" (MumbleUDP.proto:80), which
\* fillPing takes from max(): nobody is refused while there are fewer.
MaxUserCount == \A n \in refusals : n >= max
=============================================================================
