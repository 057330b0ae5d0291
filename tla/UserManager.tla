----------------------------- MODULE UserManager -----------------------------
(***************************************************************************)
(* ExampleServer's UserManager                                             *)
(* (src/examples/ExampleServer/UserManager.cpp): the users of the server   *)
(* by session ID, the UDP endpoints they were seen at, and the endpoints   *)
(* each User remembers for itself.  Every operation is one critical        *)
(* section of m_mutex, except tryDecrypt, which is two.                    *)
(***************************************************************************)
EXTENDS Naturals, FiniteSets

CONSTANTS
    Users,          \* User objects, one per accepted socket
    Endpoints,      \* UDP addresses
    Free,           \* m_users has no entry for the ID
    Reserved,       \* the entry is a null pointer
    NoUser,         \* m_endpoints has no entry for the endpoint
    MaxID           \* maxUsers in config.toml

ASSUME UserAssumption == Users \cap {Free, Reserved, NoUser} = {} /\ Free # Reserved
ASSUME MaxIDAssumption == MaxID \in Nat

VARIABLES
    users,          \* m_users
    endpoints,      \* m_endpoints
    own             \* own[u]: m_endpoints of User u

managerVars == <<users, endpoints, own>>

MinID == 1
IDs   == MinID .. MaxID

Listed == {id \in IDs : users[id] \in Users}
Taken  == {id \in IDs : users[id] # Free}

max  == MaxID - MinID + 1
num  == Cardinality(Taken)
full == num >= max

\* Mutant: a null entry counts as none.
ReservableNullIsFree == {id \in IDs : id < MaxID /\ users[id] \in {Free, Reserved}}

\* The IDs reserveID() tries: the bound of its loop is exclusive.
Reservable == {id \in IDs : id < MaxID /\ users[id] = Free}

CanReserve == num < max /\ Reservable # {}

ManagerInit ==
    /\ users = [id \in IDs |-> Free]
    /\ endpoints = [e \in Endpoints |-> NoUser]
    /\ own = [u \in Users |-> {}]

\* Mutant: the ID is found but no entry is made.
ReserveIDNoEntry(id) ==
    /\ CanReserve
    /\ id \in Reservable /\ \A other \in Reservable : id <= other
    /\ UNCHANGED managerVars

\* reserveID(): the smallest one.
ReserveID(id) ==
    /\ CanReserve
    /\ id \in Reservable /\ \A other \in Reservable : id <= other
    /\ users' = [users EXCEPT ![id] = Reserved]
    /\ UNCHANGED <<endpoints, own>>

\* add()
AddUser(u, id) ==
    /\ users' = [users EXCEPT ![id] = u]
    /\ UNCHANGED <<endpoints, own>>

\* Mutant: del() purges the endpoints only.
DelUserEndpointsOnly(id) ==
    /\ endpoints' = IF users[id] \in Users
                    THEN [e \in Endpoints |-> IF e \in own[users[id]] THEN NoUser ELSE endpoints[e]]
                    ELSE endpoints
    /\ UNCHANGED <<users, own>>

\* del(): undefined if there is no entry.
DelUser(id) ==
    /\ users' = [users EXCEPT ![id] = Free]
    /\ endpoints' = IF users[id] \in Users
                    THEN [e \in Endpoints |-> IF e \in own[users[id]] THEN NoUser ELSE endpoints[e]]
                    ELSE endpoints
    /\ UNCHANGED own

\* Mutant: the endpoint is not entered in the cache.
AssociateOwnOnly(u, e) ==
    /\ own' = [own EXCEPT ![u] = @ \cup {e}]
    /\ UNCHANGED <<users, endpoints>>

\* The second critical section of tryDecrypt().
Associate(u, e) ==
    /\ own' = [own EXCEPT ![u] = @ \cup {e}]
    /\ endpoints' = [endpoints EXCEPT ![e] = u]
    /\ UNCHANGED users

\* User::delEndpoint(), which no mutex protects.
DelEndpoint(u, e) ==
    /\ own' = [own EXCEPT ![u] = @ \ {e}]
    /\ UNCHANGED <<users, endpoints>>
=============================================================================
