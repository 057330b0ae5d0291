--------------------------- MODULE MessageExchange ---------------------------
(***************************************************************************)
(* A message on its way: packed by this library or put together by another *)
(* implementation of the protocol, and read into a fresh message.          *)
(***************************************************************************)
EXTENDS Pack

CONSTANTS
  Messages,   \* messages of this library to try: of each type, a set
  Foreign     \* what other implementations send: of each type of TCP but the tunnel, a set

VARIABLES
  sent,      \* the message before it was packed; a foreign one has no fields
  packed,    \* the packet on the wire
  received   \* the message it was read into, and what operator() returned

exchangeVars == <<sent, packed, received>>

None == [type |-> "None"]

ExchangeInit == sent = None /\ packed = None /\ received = None

Elem(seq) == {seq[i] : i \in DOMAIN seq}

TCPMessages == Elem(TCPTypes) \ {"UDPTunnel"}

-----------------------------------------------------------------------------
(* Which messages there are: members hold one value, one or none, or any   *)
(* number, as the way says in which they are stored.                       *)

VersionWays == {"setVersion", "setVersionIf", "setVersion2If"}

Holds(way, value) ==
  /\ value \in Seq(Elem(value))
  /\ way # "addEach" => Len(value) <= 1
  /\ way \in {"set", "setUnlessEmpty", "setVersion"} => Len(value) = 1
  /\ way \in VersionWays => Elem(value) \subseteq [1 .. 4 -> 0 .. U16Max]

Filled(structure, m) ==
  /\ m = [f \in DOMAIN structure.initial |-> m[f]]
  /\ \A f \in DOMAIN m :
       Holds(IF f \in DOMAIN structure.pack THEN structure.pack[f] ELSE "set", m[f])

IsMessage(t, m) ==
  IF t = "UDPTunnel" THEN m = [pack |-> m.pack] /\ m.pack \in Seq(Elem(m.pack)) \ {<<>>}
  ELSE /\ Filled(Structures[t], m)
       /\ \A f \in DOMAIN m \cap DOMAIN Elements :
            \A i \in DOMAIN m[f] : Filled(Elements[f], m[f][i])

\* The fields of a protobuf message; a version has two, either of which may be absent.
Blob32 == (0 .. U16Max) \X (0 .. U8Max) \X (0 .. U8Max)

States(way, field) ==
  IF way \in VersionWays
  THEN /\ field = <<field[1], field[2]>>
       /\ field[1] \in Seq(Blob32) /\ field[2] \in Seq([1 .. 4 -> 0 .. U16Max])
       /\ Len(field[1]) <= 1 /\ Len(field[2]) <= 1
  ELSE field \in Seq(Elem(field)) /\ (way # "addEach" => Len(field) <= 1)

Stated(structure, proto) ==
  /\ proto = [f \in DOMAIN structure.pack |-> proto[f]]
  /\ \A f \in DOMAIN proto : States(structure.pack[f], proto[f])

IsProto(t, proto) ==
  /\ Stated(Structures[t], proto)
  /\ \A f \in DOMAIN proto \cap DOMAIN Elements :
       \A i \in DOMAIN proto[f] : Stated(Elements[f], proto[f][i])

ASSUME MessagesAssumption ==
  \A t \in Elem(TCPTypes) \cup Elem(UDPTypes) : \A m \in Messages[t] : IsMessage(t, m)

ASSUME ForeignAssumption == \A t \in TCPMessages : \A proto \in Foreign[t] : IsProto(t, proto)

-----------------------------------------------------------------------------

SendTCP(t) ==
  /\ packed = None
  /\ \E m \in Messages[t] : sent' = [type |-> t, fields |-> m] /\ packed' = PackTCP(t, m)
  /\ UNCHANGED received

SendUDP(t) ==
  /\ packed = None
  /\ \E m \in Messages[t], direction \in Directions :
       /\ sent' = [type |-> t, fields |-> m, direction |-> direction]
       /\ packed' = PackUDP(t, m, direction)
  /\ UNCHANGED received

SendForeign(t) ==
  /\ packed = None
  /\ \E proto \in Foreign[t] : packed' = [type |-> t, body |-> proto]
  /\ sent' = [type |-> t]
  /\ UNCHANGED received

\* A tunnel whose packet has no byte.
SendEmptyTunnel ==
  /\ packed = None
  /\ packed' = [type |-> "UDPTunnel", body |-> <<>>]
  /\ sent' = [type |-> "UDPTunnel"]
  /\ UNCHANGED received

Initial(t) == IF t = "UDPTunnel" THEN UDPTunnel ELSE Structures[t].initial

\* operator() of a packet of TCP, with a message of type t.
ReceiveTCP(t) ==
  /\ packed # None /\ received = None
  /\ packed.type \in Elem(TCPTypes)
  /\ received' = [type |-> t, result |-> UnpackTCP(packed, t, Initial(t))]
  /\ UNCHANGED <<sent, packed>>

ReceiveUDP(t) ==
  /\ packed # None /\ received = None
  /\ packed.type \in Elem(UDPTypes)
  /\ received' = [type |-> t, result |-> UnpackUDP(packed, t, Initial(t))]
  /\ UNCHANGED <<sent, packed>>

\* The next message.
Forget ==
  /\ received # None
  /\ sent' = None /\ packed' = None /\ received' = None

\* A reader asks for the type it sees, or for another one.
Asked(types) == {t \in types : t = packed.type \/ t \in {"Version", "UDPTunnel", "UDPPing"}}

ExchangeNext ==
  \/ \E t \in Elem(TCPTypes) : SendTCP(t)
  \/ \E t \in TCPMessages : SendForeign(t)
  \/ SendEmptyTunnel
  \/ \E t \in Elem(UDPTypes) : SendUDP(t)
  \/ packed # None /\ \E t \in Asked(Elem(TCPTypes)) : ReceiveTCP(t)
  \/ packed # None /\ \E t \in Asked(Elem(UDPTypes)) : ReceiveUDP(t)
  \/ Forget

ExchangeSpec == ExchangeInit /\ [][ExchangeNext]_exchangeVars

-----------------------------------------------------------------------------

\* Every message is read back as it was sent, each member with its value and each optional
\* with its presence, but for the members whose presence the reader does not ask for: the
\* user ID of UserState, the last channel of a listed user and all optionals of UDP.
Presumed(t) ==
  CASE t = "UserState" -> {"userID"}
    [] t = "Audio" -> {"senderSession"}
    [] t = "UDPPing" -> {"userCount", "maxUserCount", "maxBandwidthPerUser"}
    [] OTHER -> {}

PresumedIn(f) == IF f = "users" THEN {"lastChannel"} ELSE {}

\* Such a member, when it is set to something.
OrZero(value) == IF value \in {<<>>, <<0>>} THEN <<0>> ELSE value

SameVersion(old, new) ==
  IF old = <<>> \/ ~isValid(Head(old)) THEN new \in {<<>>, <<NoVersion>>} ELSE new = old

SameUsers(old, new) ==
  /\ Len(old) = Len(new)
  /\ \A i \in DOMAIN old : new[i] = [old[i] EXCEPT !.lastChannel = OrZero(@)]

SameMember(t, f, old, new, direction) ==
  CASE f \in {"version", "version.version"} -> SameVersion(old, new)
    [] f = "users" -> SameUsers(old, new)
    [] f = "header" -> direction # "Unknown" => new = old
    [] f \in Presumed(t) -> OrZero(new) = OrZero(old)
    [] OTHER -> new = old

RoundTrip ==
  (received # None /\ received.type = sent.type /\ "fields" \in DOMAIN sent) =>
    /\ received.result.ok
    /\ \A f \in DOMAIN sent.fields :
         SameMember(sent.type, f, sent.fields[f], received.result.fields[f],
                    IF "direction" \in DOMAIN sent THEN sent.direction ELSE "Unknown")

\* What another implementation sends is read as it was meant.
\*   - Whatever version it states, with the current field, the legacy one or both, is known
\*     after reading: exactly when it is in the current field, and with minor and patch cut
\*     off at what a byte holds otherwise.
\*   - A field it left out, of a message or of a nested one (an ACL, a voice target), leaves
\*     the optional member it would fill unset, so that it is told from one that is zero.
\*     There are two exceptions, about which nothing is said: the code reads UserState's
\*     user_id (Pack.cpp:793), which the protocol means for registered users only
\*     (MumbleTCP.proto:189), and the last_channel of a listed user (Pack.cpp:989) without
\*     asking for their presence, so that "absent" becomes zero.
\*   - A packet that cannot be read, of another type or without a field that must be there,
\*     leaves no trace in the message, but for a tunnel, which is given an empty packet.
VersionKnown(field, known) ==
  /\ field[2] # <<>> => known = field[2]
  /\ (field[1] # <<>> /\ field[2] = <<>>) => blob32(Head(known)) = Head(field[1])

LeavesUnset(structure, presumed, proto, m) ==
  \A f \in DOMAIN proto :
    (proto[f] = <<>> /\ structure.pack[f] = "setIf" /\ f \notin presumed) => m[f] = <<>>

AbsentIsUnset(t, fields) ==
  /\ LeavesUnset(Structures[t], Presumed(t), packed.body, fields)
  /\ \A f \in DOMAIN packed.body \cap DOMAIN Elements : \A i \in DOMAIN packed.body[f] :
       LeavesUnset(Elements[f], PresumedIn(f), packed.body[f][i], fields[f][i])

ReadAsMeant ==
  received # None =>
    LET t == received.type
        fields == received.result.fields
    IN  IF ~received.result.ok THEN fields = Initial(t)
        ELSE /\ t \in {"Version", "SuggestConfig"} =>
                  VersionKnown(packed.body.version, fields.version)
             /\ t \in TCPMessages => AbsentIsUnset(t, fields)
=============================================================================
