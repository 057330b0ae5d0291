------------------------------ MODULE MCCodecs ------------------------------
EXTENDS Codecs

CONSTANTS c1, c2, k1, k2, k3, n1, n2

\* Integers on both sides of each length, and complements of such.
Int(high, low) == [i \in 1 .. 8 |-> IF i <= 8 - Len(low) THEN high ELSE low[i - 8 + Len(low)]]

MCIntegers64 ==
  {Int(0, low) : low \in
     {<<0>>, <<127>>, <<128>>, <<63, 255>>, <<64, 0>>, <<31, 255, 255>>, <<32, 0, 0>>,
      <<15, 255, 255, 255>>, <<16, 0, 0, 0>>, <<255, 255, 255, 255>>, <<1, 0, 0, 0, 0>>,
      <<128, 0, 0, 0, 0, 0, 0, 0>>}}
    \cup {Int(255, low) : low \in
            {<<255>>, <<252>>, <<251>>, <<128>>, <<127>>, <<191, 255>>, <<0, 0, 0, 0>>,
             <<254, 255, 255, 255, 255>>}}

MCBufferSizes == {0, 1, 4, 20}

\* Two keys of the size of one cipher, one of the other's.
MCSizeOf ==
  c1 :> 16 @@ c2 :> 32 @@ NoCipher :> 0 @@ k1 :> 16 @@ k2 :> 16 @@ k3 :> 32
    @@ n1 :> 12 @@ n2 :> 16 @@ NoBuffer :> 0

\* Bytes of three bits, blocks of two bytes, ciphers that are affine permutations.
Bit(v, i) == (v \div 2 ^ i) % 2

MCXorByte(a, b) ==
  LET bit(i) == IF Bit(a, i) = Bit(b, i) THEN 0 ELSE 2 ^ i IN bit(0) + bit(1) + bit(2)

MCEncipher ==
  LET factor(k) == IF k = "zero" THEN 5 ELSE 29
      image(k, b) == ((b[1] * 8 + b[2]) * factor(k) + 11) % 64
  IN  [k \in CipherKeys |-> [b \in Block |-> <<image(k, b) \div 8, image(k, b) % 8>>]]

\* Blocks of silence, with and without a last byte, and others.
MCPackets ==
  LET blocks == {<<0, 0>>, <<0, 4>>, <<1, 0>>, <<7, 2>>}
  IN  [blocks : {<<>>} \cup {<<b>> : b \in blocks} \cup {<<b, c>> : b, c \in {<<0, 4>>, <<7, 2>>}},
       last : {<<0>>, <<5>>, <<0, 0>>, <<3, 6>>}]

MCTriedNonces == {<<a, b>> : a, b \in {1, 6}} \cup {<<0, 0>>, <<7, 7>>}

-----------------------------------------------------------------------------
(* Messages to try: the initial value of a type with at most two members   *)
(* changed, elements of vectors with at most one.                          *)

Versions == {NoVersion, <<1, 5, 0, 0>>, <<1, 300, 7, 0>>, <<0, 1, 0, 2>>}

Set(fields, f, value) == [fields EXCEPT ![f] = value]

PlainValues(structure, f) ==
  IF structure.pack[f] = "addEach" THEN {<<0>>, <<1, 0>>} ELSE {<<0>>, <<1>>}

ElementVariants(f) ==
  LET e == Elements[f]
  IN  UNION {{Set(e.initial, g, v) : v \in PlainValues(e, g)} : g \in DOMAIN e.initial}

Values(structure, f) ==
  IF f \notin DOMAIN structure.pack THEN {<<0>>, <<1>>}
  ELSE IF structure.pack[f] \in VersionWays THEN {<<v>> : v \in Versions}
  ELSE IF f \in DOMAIN Elements
  THEN {<<e>> : e \in ElementVariants(f)} \cup {<<Elements[f].initial, e>> : e \in ElementVariants(f)}
  ELSE PlainValues(structure, f)

OneChanged(structure, fields) ==
  {fields}
    \cup UNION {{Set(fields, f, v) : v \in Values(structure, f)} : f \in DOMAIN structure.initial}

TwoChanged(structure) ==
  UNION {OneChanged(structure, m) : m \in OneChanged(structure, structure.initial)}

MCMessages ==
  [t \in Elem(TCPTypes) \cup Elem(UDPTypes) |->
     IF t = "UDPTunnel" THEN {[pack |-> bytes] : bytes \in {<<255>>, <<0, 1>>, <<1>>, <<0, 1, 0>>}}
     ELSE TwoChanged(Structures[t])]

\* Of another implementation: all fields absent, or all but vectors present, and one changed.
AllAbsent(structure) ==
  [f \in DOMAIN structure.pack |->
     IF structure.pack[f] \in VersionWays THEN <<<<>>, <<>>>> ELSE <<>>]

AllPresent(structure) ==
  ToProto(structure, [f \in DOMAIN structure.pack |->
                        IF f \in DOMAIN Elements THEN <<>> ELSE structure.initial[f]])

VersionFields ==
  LET stated == {<<1, 5, 0, 0>>, <<1, 300, 7, 0>>}
  IN  {<<<<>>, <<>>>>} \cup {<<<<blob32(v)>>, <<>>>> : v \in stated}
        \cup {<<<<blob32(v)>>, <<blob64(v)>>>> : v \in stated}

FieldValues(structure, f) ==
  IF structure.pack[f] \in VersionWays THEN VersionFields
  ELSE IF f \in DOMAIN Elements
  THEN LET e == Elements[f]
       IN  {<<AllAbsent(e)>>} \cup {<<Set(AllPresent(e), g, <<>>)>> : g \in DOMAIN e.pack}
  ELSE {<<>>, <<1>>}

MCForeign ==
  [t \in TCPMessages |->
     LET structure == Structures[t]
     IN  UNION {UNION {{Set(all, f, v) : v \in FieldValues(structure, f)} :
                         f \in DOMAIN structure.pack} :
                  all \in {AllAbsent(structure), AllPresent(structure)}}]
=============================================================================
