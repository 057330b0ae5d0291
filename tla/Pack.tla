-------------------------------- MODULE Pack --------------------------------
(***************************************************************************)
(* Pack.cpp: how each message becomes a protobuf message and how one is    *)
(* read back.  protobuf is outside of the repository: its messages are     *)
(* functions from field names to sequences, where the empty sequence is a  *)
(* field that is absent, with the members' names of Message.hpp.           *)
(*                                                                         *)
(* For each type a table says by which kind of statement the constructor   *)
(* of Pack stores a member, and another by which kind operator() reads it. *)
(***************************************************************************)
EXTENDS Message

By(way, names) == [f \in names |-> way]

-----------------------------------------------------------------------------
(* The kinds of statements.  A version is stored as a pair of two fields,  *)
(* the legacy one and the current one.                                     *)

\* `set_x(msg.x)`, `if (msg.x) set_x(msg.x.value())`, `for (x : msg.x) add_x(x)`, ...
Store(way, value) ==
  CASE way = "set" -> <<Head(value)>>
    [] way \in {"setIf", "addEach"} -> value
    [] way = "setUnlessEmpty" -> IF Head(value) = 0 THEN <<>> ELSE value
    [] way = "setVersion" -> <<<<blob32(Head(value))>>, <<blob64(Head(value))>>>>
    [] way = "setVersionIf" ->
         IF value # <<>> /\ isValid(Head(value))
         THEN <<<<blob32(Head(value))>>, <<blob64(Head(value))>>>>
         ELSE <<<<>>, <<>>>>
    [] way = "setVersion2If" ->
         IF value # <<>> /\ isValid(Head(value)) THEN <<<<>>, <<blob64(Head(value))>>>>
                                                 ELSE <<<<>>, <<>>>>

\* Mutant: the legacy field is asked for first.
KnownVersionLegacy(field, otherwise) ==
  IF field[1] # <<>> THEN <<fromBlob32(Head(field[1]))>>
  ELSE IF field[2] # <<>> THEN <<fromBlob64(Head(field[2]))>> ELSE otherwise

\* `if (proto.has_version_v2()) ... else ...`
KnownVersion(field, otherwise) ==
  IF field[2] # <<>> THEN <<fromBlob64(Head(field[2]))>>
  ELSE IF field[1] # <<>> THEN <<fromBlob32(Head(field[1]))>> ELSE otherwise

\* `msg.x = proto.x()`, `if (proto.has_x()) ...`, `msg.x.push_back(x)`, ...: what member x
\* holds after it when it held `old` and the field is `field`.
Fetch(way, old, field, default) ==
  CASE way = "get" -> IF field = <<>> THEN <<default>> ELSE field
    [] way = "getIf" -> IF field = <<>> THEN old ELSE field
    [] way = "pushBack" -> old \o field
    [] way = "getVersion" -> KnownVersion(field, <<NoVersion>>)
    [] way = "getVersionIf" -> KnownVersion(field, old)
    [] way = "getVersion2" ->
         IF field[2] # <<>> THEN <<fromBlob64(Head(field[2]))>> ELSE <<NoVersion>>

-----------------------------------------------------------------------------
(* The constructors of Pack. *)

PackVersion == By("setVersion", {"version"}) ++ By("set", {"release", "os", "osVersion"})

PackAuthenticate ==
  By("set", {"username", "password", "opus"}) ++ By("addEach", {"tokens", "celtVersions"})

PackPing ==
  By("set", {"timestamp", "good", "late", "lost", "resync", "udpPackets", "tcpPackets",
             "udpPingAvg", "udpPingVar", "tcpPingAvg", "tcpPingVar"})

PackReject == By("set", {"rejectType", "reason"})

PackServerSync == By("set", {"session", "maxBandwidth", "welcomeText", "permissions"})

PackChannelRemove == By("set", {"channelID"})

PackChannelState ==
  By("set", {"channelID", "name", "description", "temporary", "position", "descriptionHash",
             "maxUsers", "isEnterRestricted", "canEnter"})
  ++ By("setIf", {"parent"}) ++ By("addEach", {"links", "linksAdd", "linksRemove"})

PackUserRemove == By("set", {"session", "actor", "reason", "ban"})

PackUserState ==
  By("set", {"session", "actor", "name", "channelID", "mute", "deaf", "suppress", "selfMute",
             "selfDeaf", "texture", "pluginContext", "pluginIdentity", "comment", "hash",
             "commentHash", "textureHash", "prioritySpeaker", "recording"})
  ++ By("setIf", {"userID"})
  ++ By("addEach", {"temporaryAccessTokens", "listeningChannelAdd", "listeningChannelRemove"})

PackBanEntry == By("set", {"address", "mask", "name", "hash", "reason", "start", "duration"})

PackBanList == By("addEach", {"bans"}) ++ By("set", {"query"})

PackTextMessage ==
  By("set", {"actor", "message"}) ++ By("addEach", {"session", "channelID", "treeID"})

PackPermissionDenied ==
  By("setIf", {"permission", "channelID", "name"}) ++ By("set", {"session", "reason", "denyType"})

PackChanGroup ==
  By("set", {"name", "inherited", "inherit", "inheritable"})
  ++ By("addEach", {"add", "remove", "inheritedMembers"})

PackChanACL ==
  By("set", {"applyHere", "applySubs", "inherited", "group", "grant", "deny"})
  ++ By("setIf", {"userID"})

PackACL == By("set", {"channelID", "inheritACLs", "query"}) ++ By("addEach", {"groups", "acls"})

PackQueryUsers == By("addEach", {"ids", "names"})

PackCryptSetup == By("setUnlessEmpty", {"key", "clientNonce", "serverNonce"})

PackContextActionModify == By("set", {"action", "text", "context", "operation"})

PackContextAction == By("setIf", {"session", "channelID"}) ++ By("set", {"action"})

PackListedUser == By("set", {"userID", "name", "lastSeen"}) ++ By("setIf", {"lastChannel"})

PackUserList == By("addEach", {"users"})

PackTarget ==
  By("addEach", {"session"}) ++ By("setIf", {"channelID"})
  ++ By("set", {"group", "links", "children"})

PackVoiceTarget == By("set", {"id"}) ++ By("addEach", {"targets"})

PackPermissionQuery == By("set", {"channelID", "permissions", "flush"})

PackCodecVersion == By("set", {"alpha", "beta", "preferAlpha", "opus"})

PackUserStats ==
  By("set", {"session", "statsOnly", "fromClient.good", "fromClient.late", "fromClient.lost",
             "fromClient.resync", "fromServer.good", "fromServer.late", "fromServer.lost",
             "fromServer.resync", "udpPackets", "tcpPackets", "udpPingAvg", "udpPingVar",
             "tcpPingAvg", "tcpPingVar", "version.release", "version.os", "version.osVersion",
             "address", "bandwidth", "onlinesecs", "idlesecs", "strongCertificate", "opus"})
  ++ By("setVersion", {"version.version"}) ++ By("addEach", {"certificates", "celtVersions"})

PackRequestBlob == By("addEach", {"sessionTexture", "sessionComment", "channelDescription"})

PackServerConfig ==
  By("set", {"maxBandwidth", "welcomeText", "allowHTML", "messageLength", "imageMessageLength",
             "maxUsers", "recordingAllowed"})

PackSuggestConfig == By("setVersionIf", {"version"}) ++ By("setIf", {"positional", "pushToTalk"})

PackPluginDataTransmission ==
  By("set", {"senderSession", "data", "dataID"}) ++ By("addEach", {"receiverSessions"})

PackAudio ==
  By("setIf", {"senderSession"}) ++ By("addEach", {"positionalData"})
  ++ By("set", {"frameNumber", "opusData", "volumeAdjustment", "isTerminator"})

PackUDPPing ==
  By("set", {"timestamp", "requestExtendedInformation"}) ++ By("setVersion2If", {"version"})
  ++ By("setIf", {"userCount", "maxUserCount", "maxBandwidthPerUser"})

-----------------------------------------------------------------------------
(* The readers, operator(). *)

UnpackVersion == By("getVersion", {"version"}) ++ By("get", {"release", "os", "osVersion"})

UnpackAuthenticate ==
  By("get", {"username", "password", "opus"}) ++ By("pushBack", {"tokens", "celtVersions"})

UnpackPing ==
  By("get", {"timestamp", "good", "late", "lost", "resync", "udpPackets", "tcpPackets",
             "udpPingAvg", "udpPingVar", "tcpPingAvg", "tcpPingVar"})

UnpackReject == By("get", {"rejectType", "reason"})

UnpackServerSync == By("get", {"session", "maxBandwidth", "welcomeText", "permissions"})

UnpackChannelRemove == By("get", {"channelID"})

UnpackChannelState ==
  By("get", {"channelID", "name", "description", "temporary", "position", "descriptionHash",
             "maxUsers", "isEnterRestricted", "canEnter"})
  ++ By("getIf", {"parent"}) ++ By("pushBack", {"links", "linksAdd", "linksRemove"})

UnpackUserRemove == By("get", {"session", "actor", "reason", "ban"})

UnpackUserState ==
  By("get", {"session", "actor", "name", "userID", "channelID", "mute", "deaf", "suppress",
             "selfMute", "selfDeaf", "texture", "pluginContext", "pluginIdentity", "comment",
             "hash", "commentHash", "textureHash", "prioritySpeaker", "recording"})
  ++ By("pushBack", {"temporaryAccessTokens", "listeningChannelAdd", "listeningChannelRemove"})

UnpackBanEntry == By("get", {"address", "mask", "name", "hash", "reason", "start", "duration"})

UnpackBanList == By("pushBack", {"bans"}) ++ By("get", {"query"})

UnpackTextMessage ==
  By("get", {"actor", "message"}) ++ By("pushBack", {"session", "channelID", "treeID"})

\* Mutant: presence is not asked for.
UnpackPermissionDeniedPlain ==
  By("get", {"permission", "channelID", "name", "session", "reason", "denyType"})

UnpackPermissionDenied ==
  By("getIf", {"permission", "channelID", "name"}) ++ By("get", {"session", "reason", "denyType"})

UnpackChanGroup ==
  By("get", {"name", "inherited", "inherit", "inheritable"})
  ++ By("pushBack", {"add", "remove", "inheritedMembers"})

UnpackChanACL ==
  By("get", {"applyHere", "applySubs", "inherited", "group", "grant", "deny"})
  ++ By("getIf", {"userID"})

UnpackACL == By("get", {"channelID", "inheritACLs", "query"}) ++ By("pushBack", {"groups", "acls"})

UnpackQueryUsers == By("pushBack", {"ids", "names"})

UnpackCryptSetup == By("getIf", {"key", "clientNonce", "serverNonce"})

UnpackContextActionModify == By("get", {"action", "text", "context", "operation"})

UnpackContextAction == By("getIf", {"session", "channelID"}) ++ By("get", {"action"})

UnpackListedUser == By("get", {"userID", "name", "lastSeen", "lastChannel"})

UnpackUserList == By("pushBack", {"users"})

UnpackTarget ==
  By("pushBack", {"session"}) ++ By("getIf", {"channelID"})
  ++ By("get", {"group", "links", "children"})

UnpackVoiceTarget == By("get", {"id"}) ++ By("pushBack", {"targets"})

UnpackPermissionQuery == By("get", {"channelID", "permissions", "flush"})

UnpackCodecVersion == By("get", {"alpha", "beta", "preferAlpha", "opus"})

UnpackUserStats ==
  By("get", {"session", "statsOnly", "fromClient.good", "fromClient.late", "fromClient.lost",
             "fromClient.resync", "fromServer.good", "fromServer.late", "fromServer.lost",
             "fromServer.resync", "udpPackets", "tcpPackets", "udpPingAvg", "udpPingVar",
             "tcpPingAvg", "tcpPingVar", "version.release", "version.os", "version.osVersion",
             "address", "bandwidth", "onlinesecs", "idlesecs", "strongCertificate", "opus"})
  ++ By("getVersion", {"version.version"}) ++ By("pushBack", {"certificates", "celtVersions"})

UnpackRequestBlob == By("pushBack", {"sessionTexture", "sessionComment", "channelDescription"})

UnpackServerConfig ==
  By("get", {"maxBandwidth", "welcomeText", "allowHTML", "messageLength", "imageMessageLength",
             "maxUsers", "recordingAllowed"})

UnpackSuggestConfig ==
  By("getVersionIf", {"version"}) ++ By("getIf", {"positional", "pushToTalk"})

UnpackPluginDataTransmission ==
  By("get", {"senderSession", "data", "dataID"}) ++ By("pushBack", {"receiverSessions"})

\* The reader of Audio never assigns `direction`.
UnpackAudio ==
  By("get", {"senderSession", "frameNumber", "opusData", "volumeAdjustment", "isTerminator"})
  ++ By("pushBack", {"positionalData"})

UnpackUDPPing ==
  By("get", {"timestamp", "requestExtendedInformation", "userCount", "maxUserCount",
             "maxBandwidthPerUser"})
  ++ By("getVersion2", {"version"})

-----------------------------------------------------------------------------
(* The table of each type: its initial value, how it is packed, how read.  *)

Structure(initial, pack, unpack) == [initial |-> initial, pack |-> pack, unpack |-> unpack]

Structures ==
  [Version             |-> Structure(Version, PackVersion, UnpackVersion),
   Authenticate        |-> Structure(Authenticate, PackAuthenticate, UnpackAuthenticate),
   Ping                |-> Structure(Ping, PackPing, UnpackPing),
   Reject              |-> Structure(Reject, PackReject, UnpackReject),
   ServerSync          |-> Structure(ServerSync, PackServerSync, UnpackServerSync),
   ChannelRemove       |-> Structure(ChannelRemove, PackChannelRemove, UnpackChannelRemove),
   ChannelState        |-> Structure(ChannelState, PackChannelState, UnpackChannelState),
   UserRemove          |-> Structure(UserRemove, PackUserRemove, UnpackUserRemove),
   UserState           |-> Structure(UserState, PackUserState, UnpackUserState),
   BanList             |-> Structure(BanList, PackBanList, UnpackBanList),
   TextMessage         |-> Structure(TextMessage, PackTextMessage, UnpackTextMessage),
   PermissionDenied    |->
     Structure(PermissionDenied, PackPermissionDenied, UnpackPermissionDenied),
   ACL                 |-> Structure(ACL, PackACL, UnpackACL),
   QueryUsers          |-> Structure(QueryUsers, PackQueryUsers, UnpackQueryUsers),
   CryptSetup          |-> Structure(CryptSetup, PackCryptSetup, UnpackCryptSetup),
   ContextActionModify |->
     Structure(ContextActionModify, PackContextActionModify, UnpackContextActionModify),
   ContextAction       |-> Structure(ContextAction, PackContextAction, UnpackContextAction),
   UserList            |-> Structure(UserList, PackUserList, UnpackUserList),
   VoiceTarget         |-> Structure(VoiceTarget, PackVoiceTarget, UnpackVoiceTarget),
   PermissionQuery     |-> Structure(PermissionQuery, PackPermissionQuery, UnpackPermissionQuery),
   CodecVersion        |-> Structure(CodecVersion, PackCodecVersion, UnpackCodecVersion),
   UserStats           |-> Structure(UserStats, PackUserStats, UnpackUserStats),
   RequestBlob         |-> Structure(RequestBlob, PackRequestBlob, UnpackRequestBlob),
   ServerConfig        |-> Structure(ServerConfig, PackServerConfig, UnpackServerConfig),
   SuggestConfig       |-> Structure(SuggestConfig, PackSuggestConfig, UnpackSuggestConfig),
   PluginDataTransmission |->
     Structure(PluginDataTransmission, PackPluginDataTransmission, UnpackPluginDataTransmission),
   Audio               |-> Structure(Audio, PackAudio, UnpackAudio),
   UDPPing             |-> Structure(UDPPing, PackUDPPing, UnpackUDPPing)]

\* The vectors whose elements are structures themselves.
Elements ==
  [bans    |-> Structure(BanEntry, PackBanEntry, UnpackBanEntry),
   groups  |-> Structure(ChanGroup, PackChanGroup, UnpackChanGroup),
   acls    |-> Structure(ChanACL, PackChanACL, UnpackChanACL),
   users   |-> Structure(ListedUser, PackListedUser, UnpackListedUser),
   targets |-> Structure(Target, PackTarget, UnpackTarget)]

\* What the getters of protobuf return for a field that is absent, and the fields
\* without which parsing fails.
ProtoDefault(f) ==
  IF f \in {"inheritACLs", "inherited", "inherit", "inheritable", "applyHere", "applySubs"}
  THEN 1 ELSE 0

Required ==
  [ChannelRemove |-> {"channelID"}, UserRemove |-> {"session"}, TextMessage |-> {"message"},
   ACL |-> {"channelID"}, ContextActionModify |-> {"action"}, ContextAction |-> {"action"},
   CodecVersion |-> {"alpha", "beta", "preferAlpha"}, bans |-> {"address", "mask"},
   groups |-> {"name"}, users |-> {"userID"}]

Complete(t, proto) ==
  t \in DOMAIN Required => \A f \in Required[t] : proto[f] # <<>>

-----------------------------------------------------------------------------
(* A structure as a protobuf message, and back. *)

ToProto(structure, msg) ==
  [f \in DOMAIN structure.pack |-> Store(structure.pack[f], msg[f])]

FromProto(structure, msg, proto) ==
  [f \in DOMAIN msg |->
     IF f \in DOMAIN structure.unpack
     THEN Fetch(structure.unpack[f], msg[f], proto[f], ProtoDefault(f))
     ELSE msg[f]]

\* Every element of a vector of structures is stored, read by itself.
EachToProto(f, elements) ==
  [i \in DOMAIN elements |-> ToProto(Elements[f], elements[i])]

EachFromProto(f, protos) ==
  [i \in DOMAIN protos |-> FromProto(Elements[f], Elements[f].initial, protos[i])]

MapElements(fields, Op(_, _)) ==
  [f \in DOMAIN fields |-> IF f \in DOMAIN Elements THEN Op(f, fields[f]) ELSE fields[f]]

\* Audio's oneof keeps its presence; any other zero of proto3 is not sent.
OneOf(msg, direction) ==
  [target  |-> IF direction = "ClientToServer" THEN msg.header ELSE <<>>,
   context |-> IF direction = "ServerToClient" THEN msg.header ELSE <<>>]

DropZeros(ways, proto) ==
  [f \in DOMAIN proto |-> IF ways[f] # "addEach" /\ proto[f] = <<0>> THEN <<>> ELSE proto[f]]

\* Pack(message).  A UDPTunnel carries the bytes of the packet as they are.
PackTCP(t, msg) ==
  [type |-> t,
   body |-> IF t = "UDPTunnel" THEN msg.pack
            ELSE ToProto(Structures[t], MapElements(msg, EachToProto))]

PackUDP(t, msg, direction) ==
  LET proto == DropZeros(Structures[t].pack, ToProto(Structures[t], msg))
  IN  [type |-> t, body |-> IF t = "Audio" THEN OneOf(msg, direction) ++ proto ELSE proto]

Failed(msg) == [ok |-> FALSE, fields |-> msg]
Read(msg)   == [ok |-> TRUE, fields |-> msg]

\* The packet in a tunnel: at least its own header, one byte.  The size is that of the pack: no
\* caller passes the parameter dataSize.
UnpackUDPTunnel(body, msg) ==
  IF Len(body) < 1 THEN Failed([pack |-> <<255>>]) ELSE Read([pack |-> body])

Parses(t, proto) ==
  /\ Complete(t, proto)
  /\ \A f \in DOMAIN proto \cap DOMAIN Elements :
       \A i \in DOMAIN proto[f] : Complete(f, proto[f][i])

\* pack(message), for a message of type t.
UnpackTCP(pack, t, msg) ==
  IF pack.type # t THEN Failed(msg)
  ELSE IF t = "UDPTunnel" THEN UnpackUDPTunnel(pack.body, msg)
  ELSE IF ~Parses(t, pack.body) THEN Failed(msg)
  ELSE Read(FromProto(Structures[t], msg, MapElements(pack.body, EachFromProto)))

\* The union takes whichever of the two the oneof holds.
UnpackUDP(pack, t, msg) ==
  IF pack.type # t THEN Failed(msg)
  ELSE LET read == FromProto(Structures[t], msg, pack.body)
       IN  Read(IF t # "Audio" THEN read
                ELSE [read EXCEPT !.header = IF pack.body.target # <<>> THEN pack.body.target
                                             ELSE IF pack.body.context # <<>> THEN pack.body.context
                                             ELSE @])
=============================================================================
