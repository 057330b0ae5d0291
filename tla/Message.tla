------------------------------ MODULE Message ------------------------------
(***************************************************************************)
(* The message structures of Message.hpp and the Version of Types.hpp, as  *)
(* far as packing tells them apart.  A message is a function from the      *)
(* names of its members to sequences of values: one value for a plain      *)
(* member, at most one for a std::optional, any number for a std::vector   *)
(* of elements.  Numbers, strings and byte arrays are small numbers: 0 is  *)
(* the zero, false or empty one, Unset stands for UINT32_MAX.  Each        *)
(* definition named after a structure is its initial value.                *)
(***************************************************************************)
EXTENDS Naturals, Sequences, FiniteSets, TLC

Unset == 2

\* A function for the arguments of both.  (TLC's operator for it is unknown to the provers.)
f ++ g == [x \in DOMAIN f \cup DOMAIN g |-> IF x \in DOMAIN f THEN f[x] ELSE g[x]]

\* The members of a structure, by what Message.hpp initialises them with.
Holding(v, names) == [f \in names |-> <<v>>]
Zero(names)       == Holding(0, names)
Nothing(names)    == [f \in names |-> <<>>]

-----------------------------------------------------------------------------
(* Version.  A blob is the sequence of the digits that the shifts and      *)
(* masks of Types.hpp put side by side: 16 bits each in the 64-bit one,    *)
(* 16, 8 and 8 in the 32-bit one, which saturates minor and patch.         *)

NoVersion == <<0, 0, 0, 0>>

U8Max == 255
U16Max == 65535

Least(a, b) == IF a < b THEN a ELSE b

isValid(version) == \E i \in DOMAIN version : version[i] # 0

blob64(version) == version
fromBlob64(blob) == blob

blob32(version) == <<version[1], Least(version[2], U8Max), Least(version[3], U8Max)>>
fromBlob32(blob) == Append(blob, 0)

-----------------------------------------------------------------------------
(* UDP.  The union of target and context is one member, "header".          *)

Directions == {"Unknown", "ClientToServer", "ServerToClient"}

Audio ==
  Holding(Unset, {"header"}) ++ Nothing({"senderSession", "positionalData"})
  ++ Zero({"frameNumber", "opusData", "volumeAdjustment", "isTerminator"})

UDPPing ==
  Zero({"timestamp", "requestExtendedInformation"})
  ++ Nothing({"version", "userCount", "maxUserCount", "maxBandwidthPerUser"})

-----------------------------------------------------------------------------
(* TCP. *)

Version == Holding(NoVersion, {"version"}) ++ Zero({"release", "os", "osVersion"})

UDPTunnel == [pack |-> <<255>>]

Authenticate == Zero({"username", "password", "opus"}) ++ Nothing({"tokens", "celtVersions"})

Ping ==
  Zero({"timestamp", "good", "late", "lost", "resync", "udpPackets", "tcpPackets",
        "udpPingAvg", "udpPingVar", "tcpPingAvg", "tcpPingVar"})

Reject == Zero({"rejectType", "reason"})

ServerSync == Holding(Unset, {"session"}) ++ Zero({"maxBandwidth", "welcomeText", "permissions"})

ChannelRemove == Holding(Unset, {"channelID"})

ChannelState ==
  Holding(Unset, {"channelID"}) ++ Holding(1, {"canEnter"})
  ++ Zero({"name", "description", "temporary", "position", "descriptionHash", "maxUsers",
           "isEnterRestricted"})
  ++ Nothing({"parent", "links", "linksAdd", "linksRemove"})

UserRemove == Holding(Unset, {"session", "actor"}) ++ Zero({"reason", "ban"})

UserState ==
  Holding(Unset, {"session", "actor", "channelID"})
  ++ Zero({"name", "mute", "deaf", "suppress", "selfMute", "selfDeaf", "texture", "pluginContext",
           "pluginIdentity", "comment", "hash", "commentHash", "textureHash", "prioritySpeaker",
           "recording"})
  ++ Nothing({"userID", "temporaryAccessTokens", "listeningChannelAdd", "listeningChannelRemove"})

BanEntry ==
  Zero({"address", "name", "hash", "reason", "start", "duration"}) ++ Holding(Unset, {"mask"})

BanList == Nothing({"bans"}) ++ Zero({"query"})

TextMessage ==
  Holding(Unset, {"actor"}) ++ Nothing({"session", "channelID", "treeID"}) ++ Zero({"message"})

H9K == 5

PermissionDenied ==
  Nothing({"permission", "channelID", "name"}) ++ Holding(Unset, {"session"}) ++ Zero({"reason"})
  ++ Holding(H9K, {"denyType"})

ChanGroup ==
  Zero({"name"}) ++ Holding(1, {"inherited", "inherit", "inheritable"})
  ++ Nothing({"add", "remove", "inheritedMembers"})

ChanACL ==
  Holding(1, {"applyHere", "applySubs", "inherited"}) ++ Nothing({"userID"})
  ++ Zero({"group", "grant", "deny"})

ACL ==
  Zero({"channelID", "query"}) ++ Holding(1, {"inheritACLs"}) ++ Nothing({"groups", "acls"})

QueryUsers == Nothing({"ids", "names"})

CryptSetup == Zero({"key", "clientNonce", "serverNonce"})

ContextActionModify == Zero({"action", "text", "context", "operation"})

ContextAction == Nothing({"session", "channelID"}) ++ Zero({"action"})

ListedUser ==
  Holding(Unset, {"userID"}) ++ Zero({"name", "lastSeen"}) ++ Nothing({"lastChannel"})

UserList == Nothing({"users"})

Target == Nothing({"session", "channelID"}) ++ Zero({"group", "links", "children"})

VoiceTarget == Holding(Unset, {"id"}) ++ Nothing({"targets"})

PermissionQuery == Holding(Unset, {"channelID"}) ++ Zero({"permissions", "flush"})

CodecVersion == Zero({"alpha", "beta", "opus"}) ++ Holding(1, {"preferAlpha"})

UserStats ==
  Holding(Unset, {"session"}) ++ Nothing({"certificates", "celtVersions"})
  ++ Holding(NoVersion, {"version.version"})
  ++ Zero({"fromClient.good", "fromClient.late", "fromClient.lost", "fromClient.resync",
           "fromServer.good", "fromServer.late", "fromServer.lost", "fromServer.resync",
           "statsOnly", "udpPackets", "tcpPackets", "udpPingAvg", "udpPingVar", "tcpPingAvg",
           "tcpPingVar", "version.release", "version.os", "version.osVersion", "address",
           "bandwidth", "onlinesecs", "idlesecs", "strongCertificate", "opus"})

RequestBlob == Nothing({"sessionTexture", "sessionComment", "channelDescription"})

ServerConfig ==
  Zero({"maxBandwidth", "welcomeText", "allowHTML", "messageLength", "imageMessageLength",
        "maxUsers", "recordingAllowed"})

SuggestConfig == Nothing({"version", "positional", "pushToTalk"})

PluginDataTransmission ==
  Holding(Unset, {"senderSession"}) ++ Nothing({"receiverSessions"}) ++ Zero({"data", "dataID"})

-----------------------------------------------------------------------------
(* The numbers of the types on the wire are the positions in the enums.    *)

TCPTypes ==
  <<"Version", "UDPTunnel", "Authenticate", "Ping", "Reject", "ServerSync", "ChannelRemove",
    "ChannelState", "UserRemove", "UserState", "BanList", "TextMessage", "PermissionDenied", "ACL",
    "QueryUsers", "CryptSetup", "ContextActionModify", "ContextAction", "UserList", "VoiceTarget",
    "PermissionQuery", "CodecVersion", "UserStats", "RequestBlob", "ServerConfig", "SuggestConfig",
    "PluginDataTransmission">>

UDPTypes == <<"Audio", "UDPPing">>
=============================================================================
