------------------------ MODULE PacketDataStreamProofs ------------------------
(***************************************************************************)
(* The variable-length form of integers, for every 64-bit integer: what    *)
(* was encoded is decoded, from exactly its bytes, whatever follows them;  *)
(* and the streams of StreamExchange, for every size of the buffer and any *)
(* number of items.                                                        *)
(*                                                                         *)
(* The argument: the first byte of an encoding tells its length and        *)
(* whether a complement follows, so DecodeUnsigned looks at the bytes      *)
(* EncodeUnsigned wrote (UnsignedRoundTrip); and a number is complemented  *)
(* at most once, so the bytes that announce it are counted right           *)
(* (NoComplement, OneComplement).  Of an item that is cut off at least one *)
(* byte is missed, wherever that is (DecodeCut, ReadsCut).                 *)
(*                                                                         *)
(* The invariant StreamInv: with what the buffer was short of, the writer  *)
(* stands where the items written end; while m_ok is set their bytes lie   *)
(* one after the other before m_seek; and a reader stands where the items  *)
(* it took end, which are the first of those written, or has failed and    *)
(* was given fewer bytes than they have.                                   *)
(***************************************************************************)
EXTENDS StreamExchange, SequenceTheorems, WellFoundedInduction, TLAPS

\* The encoding of a number without complement lies after the first k bytes.
EncodedAfter(bytes, k, v) ==
    \A i \in 1 .. Len(EncodeUnsigned(v)) : At(bytes, k + i) = EncodeUnsigned(v)[i]

\* The six lengths of EncodeUnsigned.
LEMMA Forms ==
    ASSUME NEW v \in U64
    PROVE  \/ Fits(v, 7) /\ v[8] < 128 /\ EncodeUnsigned(v) = <<v[8]>>
           \/ Fits(v, 6) /\ v[7] < 64 /\ EncodeUnsigned(v) = <<128 + v[7], v[8]>>
           \/ Fits(v, 5) /\ v[6] < 32 /\ EncodeUnsigned(v) = <<192 + v[6], v[7], v[8]>>
           \/ Fits(v, 4) /\ v[5] < 16 /\ EncodeUnsigned(v) = <<224 + v[5], v[6], v[7], v[8]>>
           \/ Fits(v, 4) /\ EncodeUnsigned(v) = <<240, v[5], v[6], v[7], v[8]>>
           \/ EncodeUnsigned(v) = <<244, v[1], v[2], v[3], v[4], v[5], v[6], v[7], v[8]>>
  BY DEF EncodeUnsigned

\* Eight bytes make a number.
LEMMA EightBytes ==
    ASSUME NEW v \in U64, NEW w, w = [i \in 1 .. 8 |-> w[i]],
           w[1] = v[1], w[2] = v[2], w[3] = v[3], w[4] = v[4],
           w[5] = v[5], w[6] = v[6], w[7] = v[7], w[8] = v[8]
    PROVE  w = v
  <1>1. \A i \in 1 .. 8 : i = 1 \/ i = 2 \/ i = 3 \/ i = 4 \/ i = 5 \/ i = 6 \/ i = 7 \/ i = 8
    OBVIOUS
  <1>2. \A i \in 1 .. 8 : w[i] = v[i]
    BY <1>1
  <1> QED BY <1>2 DEF U64

\* decodes what EncodeUnsigned wrote, and knows its length from the first byte.
LEMMA UnsignedRoundTrip ==
    ASSUME NEW v \in U64, NEW bytes, NEW k \in Nat, EncodedAfter(bytes, k, v)
    PROVE  /\ DecodeUnsigned(bytes, k) = v
           /\ LengthAfter(At(bytes, k + 1)) = Len(EncodeUnsigned(v))
           /\ At(bytes, k + 1) \in 0 .. 247
  <1> DEFINE e == EncodeUnsigned(v)
             b == At(bytes, k + 1)
             w == DecodeUnsigned(bytes, k)
  <1>0. /\ v[1] \in Byte /\ v[2] \in Byte /\ v[3] \in Byte /\ v[4] \in Byte
        /\ v[5] \in Byte /\ v[6] \in Byte /\ v[7] \in Byte /\ v[8] \in Byte
    BY DEF U64
  <1>e. \A i \in 1 .. Len(e) : At(bytes, k + i) = e[i]
    BY DEF EncodedAfter
  <1>w. w = [i \in 1 .. 8 |-> IF i = 9 - LengthAfter(b) THEN Lead(b)
                              ELSE IF i > 9 - LengthAfter(b) THEN At(bytes, k + i - 8 + LengthAfter(b))
                              ELSE 0]
    BY DEF DecodeUnsigned
  <1>q. w = [i \in 1 .. 8 |-> w[i]]
    BY <1>w
  <1> HIDE DEF e, b, w
  <1>1. ASSUME Fits(v, 7), v[8] < 128, e = <<v[8]>>
        PROVE  w = v /\ LengthAfter(b) = Len(e) /\ b \in 0 .. 247
    <2>1. b = v[8]
      BY <1>1, <1>e DEF b
    <2>2. LengthAfter(b) = 1 /\ Lead(b) = v[8] /\ b \in 0 .. 247
      BY <2>1, <1>0, <1>1 DEF LengthAfter, Lead, Byte
    <2>3. w = [i \in 1 .. 8 |-> IF i = 8 THEN v[8] ELSE IF i > 8 THEN At(bytes, k + i - 7) ELSE 0]
      BY <1>w, <2>2
    <2> QED BY <1>1, <1>q, <2>2, <2>3, EightBytes DEF Fits
  <1>2. ASSUME Fits(v, 6), v[7] < 64, e = <<128 + v[7], v[8]>>
        PROVE  w = v /\ LengthAfter(b) = Len(e) /\ b \in 0 .. 247
    <2>1. b = 128 + v[7] /\ At(bytes, k + 2) = v[8]
      BY <1>2, <1>e DEF b
    <2>2. LengthAfter(b) = 2 /\ Lead(b) = v[7] /\ b \in 0 .. 247
      BY <2>1, <1>0, <1>2 DEF LengthAfter, Lead, Byte
    <2>3. w[7] = v[7] /\ w[8] = v[8] /\ \A i \in 1 .. 6 : w[i] = 0
      BY <1>w, <2>1, <2>2
    <2> QED BY <1>2, <1>q, <2>2, <2>3, EightBytes DEF Fits
  <1>3. ASSUME Fits(v, 5), v[6] < 32, e = <<192 + v[6], v[7], v[8]>>
        PROVE  w = v /\ LengthAfter(b) = Len(e) /\ b \in 0 .. 247
    <2>1. b = 192 + v[6] /\ At(bytes, k + 2) = v[7] /\ At(bytes, k + 3) = v[8]
      BY <1>3, <1>e DEF b
    <2>2. LengthAfter(b) = 3 /\ Lead(b) = v[6] /\ b \in 0 .. 247
      BY <2>1, <1>0, <1>3 DEF LengthAfter, Lead, Byte
    <2>3. w[6] = v[6] /\ w[7] = v[7] /\ w[8] = v[8] /\ \A i \in 1 .. 5 : w[i] = 0
      BY <1>w, <2>1, <2>2
    <2> QED BY <1>3, <1>q, <2>2, <2>3, EightBytes DEF Fits
  <1>4. ASSUME Fits(v, 4), v[5] < 16, e = <<224 + v[5], v[6], v[7], v[8]>>
        PROVE  w = v /\ LengthAfter(b) = Len(e) /\ b \in 0 .. 247
    <2>1. /\ b = 224 + v[5] /\ At(bytes, k + 2) = v[6]
          /\ At(bytes, k + 3) = v[7] /\ At(bytes, k + 4) = v[8]
      BY <1>4, <1>e DEF b
    <2>2. LengthAfter(b) = 4 /\ Lead(b) = v[5] /\ b \in 0 .. 247
      BY <2>1, <1>0, <1>4 DEF LengthAfter, Lead, Byte
    <2>3. /\ w[5] = v[5] /\ w[6] = v[6] /\ w[7] = v[7] /\ w[8] = v[8]
          /\ \A i \in 1 .. 4 : w[i] = 0
      BY <1>w, <2>1, <2>2
    <2> QED BY <1>4, <1>q, <2>2, <2>3, EightBytes DEF Fits
  <1>5. ASSUME Fits(v, 4), e = <<240, v[5], v[6], v[7], v[8]>>
        PROVE  w = v /\ LengthAfter(b) = Len(e) /\ b \in 0 .. 247
    <2>1. /\ b = 240 /\ At(bytes, k + 2) = v[5] /\ At(bytes, k + 3) = v[6]
          /\ At(bytes, k + 4) = v[7] /\ At(bytes, k + 5) = v[8]
      BY <1>5, <1>e DEF b
    <2>2. LengthAfter(b) = 5 /\ Lead(b) = 0
      BY <2>1 DEF LengthAfter, Lead
    <2>3. /\ w[5] = v[5] /\ w[6] = v[6] /\ w[7] = v[7] /\ w[8] = v[8]
          /\ \A i \in 1 .. 4 : w[i] = 0
      BY <1>w, <2>1, <2>2
    <2> QED BY <1>5, <1>q, <2>1, <2>2, <2>3, EightBytes DEF Fits
  <1>6. ASSUME e = <<244, v[1], v[2], v[3], v[4], v[5], v[6], v[7], v[8]>>
        PROVE  w = v /\ LengthAfter(b) = Len(e) /\ b \in 0 .. 247
    <2>1. /\ b = 244 /\ At(bytes, k + 2) = v[1] /\ At(bytes, k + 3) = v[2]
          /\ At(bytes, k + 4) = v[3] /\ At(bytes, k + 5) = v[4] /\ At(bytes, k + 6) = v[5]
          /\ At(bytes, k + 7) = v[6] /\ At(bytes, k + 8) = v[7] /\ At(bytes, k + 9) = v[8]
      BY <1>6, <1>e DEF b
    <2>2. LengthAfter(b) = 9
      BY <2>1 DEF LengthAfter
    <2>3. \A i \in 1 .. 8 : w[i] = At(bytes, k + i + 1)
      BY <1>w, <2>2
    <2>4. /\ w[1] = v[1] /\ w[2] = v[2] /\ w[3] = v[3] /\ w[4] = v[4]
          /\ w[5] = v[5] /\ w[6] = v[6] /\ w[7] = v[7] /\ w[8] = v[8]
      BY <2>1, <2>3
    <2> QED BY <1>6, <1>q, <2>1, <2>2, <2>4, EightBytes
  <1> QED BY <1>1, <1>2, <1>3, <1>4, <1>5, <1>6, Forms DEF e, b, w

-----------------------------------------------------------------------------
(* Complements *)

LEMMA NoComplement ==
    ASSUME NEW bytes \in Seq(Byte), Len(bytes) >= 1, bytes[1] \notin 248 .. 251
    PROVE  Complements(bytes) = 0
  <1> DEFINE Count(k) == /\ \A j \in 1 .. k : bytes[j] \in 248 .. 251
                         /\ At(bytes, k + 1) \notin 248 .. 251
  <1>1. 0 \in 0 .. Len(bytes) /\ Count(0)
    BY DEF At
  <1>2. \A k \in 0 .. Len(bytes) : Count(k) => k = 0
    OBVIOUS
  <1>3. Complements(bytes) = CHOOSE k \in 0 .. Len(bytes) : Count(k)
    BY DEF Complements
  <1> HIDE DEF Count
  <1> QED BY <1>1, <1>2, <1>3

LEMMA OneComplement ==
    ASSUME NEW bytes \in Seq(Byte), Len(bytes) >= 2,
           bytes[1] \in 248 .. 251, bytes[2] \notin 248 .. 251
    PROVE  Complements(bytes) = 1
  <1> DEFINE Count(k) == /\ \A j \in 1 .. k : bytes[j] \in 248 .. 251
                         /\ At(bytes, k + 1) \notin 248 .. 251
  <1>1. 1 \in 0 .. Len(bytes) /\ Count(1)
    BY DEF At
  <1>2. \A k \in 0 .. Len(bytes) : Count(k) => k = 1
    <2> SUFFICES ASSUME NEW k \in 0 .. Len(bytes), Count(k), k # 1 PROVE FALSE
      OBVIOUS
    <2>1. CASE k = 0
      BY <2>1 DEF At
    <2>2. CASE k >= 2
      BY <2>2
    <2> QED BY <2>1, <2>2
  <1>3. Complements(bytes) = CHOOSE k \in 0 .. Len(bytes) : Count(k)
    BY DEF Complements
  <1> HIDE DEF Count
  <1> QED BY <1>1, <1>2, <1>3

\* ~ of the eight bytes, and of that again.
LEMMA ComplementTwice ==
    ASSUME NEW v \in U64
    PROVE  /\ Complement(v) \in U64 /\ Complement(Complement(v)) = v
           /\ \A i \in 1 .. 8 : Complement(v)[i] = 255 - v[i]
  BY DEF Complement, U64, Byte

\* The encodings are bytes, one at least.
LEMMA EncodedBytes ==
    ASSUME NEW v \in U64
    PROVE  EncodeUnsigned(v) \in Seq(Byte) /\ Len(EncodeUnsigned(v)) >= 1
  <1> DEFINE e == EncodeUnsigned(v)
  <1>1. /\ v[1] \in Byte /\ v[2] \in Byte /\ v[3] \in Byte /\ v[4] \in Byte
        /\ v[5] \in Byte /\ v[6] \in Byte /\ v[7] \in Byte /\ v[8] \in Byte
    BY DEF U64
  <1> HIDE DEF e
  <1>2. ASSUME v[7] < 64, e = <<128 + v[7], v[8]>> PROVE e \in Seq(Byte) /\ Len(e) >= 1
    <2>1. 128 + v[7] \in Byte
      BY <1>1, <1>2 DEF Byte
    <2> QED BY <1>1, <1>2, <2>1
  <1>3. ASSUME v[6] < 32, e = <<192 + v[6], v[7], v[8]>> PROVE e \in Seq(Byte) /\ Len(e) >= 1
    <2>1. 192 + v[6] \in Byte
      BY <1>1, <1>3 DEF Byte
    <2> QED BY <1>1, <1>3, <2>1
  <1>4. ASSUME v[5] < 16, e = <<224 + v[5], v[6], v[7], v[8]>>
        PROVE  e \in Seq(Byte) /\ Len(e) >= 1
    <2>1. 224 + v[5] \in Byte
      BY <1>1, <1>4 DEF Byte
    <2> QED BY <1>1, <1>4, <2>1
  <1>5. 240 \in Byte /\ 244 \in Byte
    BY DEF Byte
  <1>6. e = <<v[8]>> => e \in Seq(Byte) /\ Len(e) >= 1
    BY <1>1
  <1>7. e = <<240, v[5], v[6], v[7], v[8]>> => e \in Seq(Byte) /\ Len(e) >= 1
    BY <1>1, <1>5
  <1>8. e = <<244, v[1], v[2], v[3], v[4], v[5], v[6], v[7], v[8]>> => e \in Seq(Byte) /\ Len(e) >= 1
    BY <1>1, <1>5
  <1> QED BY <1>2, <1>3, <1>4, <1>6, <1>7, <1>8, Forms DEF e

\* What stands first in a stream stands at its place in it.
LEMMA AtFront ==
    ASSUME NEW first \in Seq(Byte), NEW rest \in Seq(Byte)
    PROVE  /\ first \o rest \in Seq(Byte) /\ Len(first \o rest) >= Len(first)
           /\ \A i \in 1 .. Len(first) : At(first \o rest, i) = first[i]
  BY DEF At

-----------------------------------------------------------------------------
(* Decoding *)

\* A number that begins the bytes.
LEMMA DecodePlain ==
    ASSUME NEW bytes \in Seq(Byte), Len(bytes) >= 1, NEW v \in U64, EncodedAfter(bytes, 0, v)
    PROVE  Decode(bytes) = [value |-> v, calls |-> Len(EncodeUnsigned(v))]
  <1>1. /\ DecodeUnsigned(bytes, 0) = v
        /\ LengthAfter(At(bytes, 0 + 1)) = Len(EncodeUnsigned(v))
        /\ At(bytes, 0 + 1) \in 0 .. 247
    BY UnsignedRoundTrip
  <1>2. At(bytes, 0 + 1) = bytes[1]
    BY DEF At
  <1> DEFINE b == bytes[1]
  <1>3. b \notin 248 .. 251 /\ ~Short(At(bytes, 0 + 1))
    <2>1. b \in 0 .. 247
      BY <1>1, <1>2
    <2> HIDE DEF b
    <2>2. b \notin 248 .. 251 /\ b \notin 252 .. 255
      BY <2>1
    <2> QED BY <1>2, <2>2 DEF Short, b
  <1>4. Complements(bytes) = 0
    BY <1>3, NoComplement
  <1>5. Len(EncodeUnsigned(v)) \in Nat
    BY EncodedBytes
  <1> QED BY <1>1, <1>3, <1>4, <1>5 DEF Decode

\* A number whose complement follows the first byte.
LEMMA DecodeComplement ==
    ASSUME NEW bytes \in Seq(Byte), Len(bytes) >= 2, bytes[1] = 248,
           NEW w \in U64, EncodedAfter(bytes, 1, w)
    PROVE  Decode(bytes) = [value |-> Complement(w), calls |-> 1 + Len(EncodeUnsigned(w))]
  <1>1. /\ DecodeUnsigned(bytes, 1) = w
        /\ LengthAfter(At(bytes, 1 + 1)) = Len(EncodeUnsigned(w))
        /\ At(bytes, 1 + 1) \in 0 .. 247
    BY UnsignedRoundTrip
  <1>2. At(bytes, 1 + 1) = bytes[2]
    BY DEF At
  <1> DEFINE b == bytes[2]
  <1>3. b \notin 248 .. 251 /\ ~Short(At(bytes, 1 + 1))
    <2>1. b \in 0 .. 247
      BY <1>1, <1>2
    <2> HIDE DEF b
    <2>2. b \notin 248 .. 251 /\ b \notin 252 .. 255
      BY <2>1
    <2> QED BY <1>2, <2>2 DEF Short, b
  <1>4. Complements(bytes) = 1
    BY <1>3, OneComplement
  <1>5. 1 % 2 # 0
    OBVIOUS
  <1> QED BY <1>1, <1>3, <1>4, <1>5 DEF Decode

\* A number in one byte with what it is the complement of.
LEMMA DecodeShort ==
    ASSUME NEW bytes \in Seq(Byte), Len(bytes) >= 1, bytes[1] \in 252 .. 255
    PROVE  Decode(bytes) = [value |-> [i \in 1 .. 8 |-> IF i = 8 THEN 255 - (bytes[1] - 252) ELSE 255],
                            calls |-> 1]
  <1>1. Complements(bytes) = 0
    BY NoComplement
  <1>2. At(bytes, 0 + 1) = bytes[1]
    BY DEF At
  <1>3. Short(bytes[1]) /\ LengthAfter(bytes[1]) = 1
    BY DEF Short, LengthAfter
  <1> QED BY <1>1, <1>2, <1>3 DEF Decode

\* An integer is read back as it was written, from exactly the bytes it was written to,
\* whatever comes after them: operator<<() and operator>>() of PacketDataStream agree.
THEOREM IntegerRoundTrip ==
    ASSUME NEW v \in U64, NEW rest \in Seq(Byte)
    PROVE  Decode(Encode(v) \o rest) = [value |-> v, calls |-> Len(Encode(v))]
  <1> DEFINE w     == Complement(v)
             bytes == Encode(v) \o rest
  <1>1. w \in U64 /\ Complement(w) = v /\ \A i \in 1 .. 8 : w[i] = 255 - v[i]
    BY ComplementTwice
  <1>0. \A i \in 1 .. 8 : v[i] \in 0 .. 255
    BY DEF U64, Byte
  <1> HIDE DEF w
  <1>2. CASE ~Fits(w, 4)
    <2>1. Encode(v) = EncodeUnsigned(v)
      BY <1>2 DEF Encode, w
    <2>2. bytes \in Seq(Byte) /\ Len(bytes) >= 1 /\ EncodedAfter(bytes, 0, v)
      <3> DEFINE e == EncodeUnsigned(v)
      <3>1. e \in Seq(Byte) /\ Len(e) >= 1 /\ bytes = e \o rest
        BY <2>1, EncodedBytes
      <3> HIDE DEF e, bytes
      <3>2. bytes \in Seq(Byte) /\ Len(bytes) >= Len(e) /\ \A i \in 1 .. Len(e) : At(bytes, i) = e[i]
        BY <3>1, AtFront
      <3> QED BY <3>1, <3>2 DEF EncodedAfter, e
    <2> QED BY <2>1, <2>2, DecodePlain
  <1>3. CASE Fits(w, 4) /\ Fits(w, 7) /\ 255 - v[8] <= 3
    <2> DEFINE first == 252 + 255 - v[8]
    <2>1. Encode(v) = <<first>>
      BY <1>3 DEF Encode, w
    <2>2. \A i \in 1 .. 7 : v[i] = 255
      <3>1. \A i \in 1 .. 7 : w[i] = 0
        BY <1>3 DEF Fits
      <3>2. ASSUME NEW x \in 0 .. 255, 0 = 255 - x PROVE x = 255
        BY <3>2
      <3>3. ASSUME NEW i \in 1 .. 7 PROVE v[i] = 255
        <4>1. i \in 1 .. 8
          OBVIOUS
        <4>2. v[i] \in 0 .. 255
          BY <1>0, <4>1
        <4>3. w[i] = 255 - v[i]
          BY <1>1, <4>1
        <4>4. w[i] = 0
          BY <3>1
        <4>5. 0 = 255 - v[i]
          BY <4>3, <4>4
        <4> QED BY <3>2, <4>2, <4>5
      <3> QED BY <3>3
    <2>3. first \in 252 .. 255 /\ 255 - (first - 252) = v[8]
      <3>1. ASSUME NEW x \in 0 .. 255, 255 - x <= 3
            PROVE  252 + 255 - x \in 252 .. 255 /\ 255 - ((252 + 255 - x) - 252) = x
        BY <3>1
      <3>2. v[8] \in 0 .. 255
        BY <1>0
      <3> QED BY <1>3, <3>1, <3>2
    <2> HIDE DEF first
    <2>4. bytes \in Seq(Byte) /\ Len(bytes) >= 1 /\ bytes[1] = first
      BY <2>1, <2>3 DEF Byte
    <2> DEFINE value == [i \in 1 .. 8 |-> IF i = 8 THEN 255 - (first - 252) ELSE 255]
    <2>5. Decode(bytes) = [value |-> value, calls |-> 1]
      BY <2>3, <2>4, DecodeShort, ZenonT(60)
    <2>6. value = v
      <3>1. value[8] = v[8] /\ \A i \in 1 .. 7 : value[i] = v[i]
        BY <2>2, <2>3
      <3>2. value = [i \in 1 .. 8 |-> value[i]]
        OBVIOUS
      <3> HIDE DEF value
      <3> QED BY <3>1, <3>2, EightBytes
    <2>7. Len(Encode(v)) = 1
      BY <2>1
    <2> QED BY <2>5, <2>6, <2>7
  <1>4. CASE Fits(w, 4) /\ ~(Fits(w, 7) /\ 255 - v[8] <= 3)
    <2> DEFINE e == EncodeUnsigned(w)
    <2>1. Encode(v) = <<248>> \o e
      BY <1>4 DEF Encode, w
    <2>2. e \in Seq(Byte) /\ Len(e) >= 1
      BY <1>1, EncodedBytes
    <2> HIDE DEF e
    <2>3. /\ Encode(v) \in Seq(Byte) /\ Len(Encode(v)) = 1 + Len(e) /\ Encode(v)[1] = 248
          /\ \A i \in 1 .. Len(e) : Encode(v)[1 + i] = e[i]
      BY <2>1, <2>2 DEF Byte
    <2> DEFINE sent == Encode(v)
    <2>4. /\ bytes \in Seq(Byte) /\ Len(bytes) >= 2 /\ bytes[1] = 248
          /\ \A i \in 1 .. Len(e) : At(bytes, 1 + i) = e[i]
      <3>1. /\ sent \in Seq(Byte) /\ Len(sent) = 1 + Len(e) /\ sent[1] = 248
            /\ \A i \in 1 .. Len(e) : sent[1 + i] = e[i]
        BY <2>3
      <3> HIDE DEF sent
      <3>2. /\ sent \o rest \in Seq(Byte) /\ Len(sent \o rest) >= 2
            /\ \A i \in 1 .. Len(sent) : At(sent \o rest, i) = sent[i]
        BY <2>2, <3>1, AtFront
      <3>3. (sent \o rest)[1] = 248
        BY <3>1, <3>2 DEF At
      <3>4. \A i \in 1 .. Len(e) : At(sent \o rest, 1 + i) = e[i]
        BY <2>2, <3>1, <3>2
      <3> QED BY <3>2, <3>3, <3>4 DEF sent
    <2>5. EncodedAfter(bytes, 1, w)
      BY <2>4 DEF EncodedAfter, e
    <2>6. Decode(bytes) = [value |-> Complement(w), calls |-> 1 + Len(e)]
      <3>1. w \in U64
        BY <1>1
      <3> HIDE DEF bytes
      <3> QED BY <2>4, <2>5, <3>1, DecodeComplement DEF e
    <2> QED BY <1>1, <2>3, <2>6
  <1> QED BY <1>2, <1>3, <1>4

\* The casts around it lose nothing: an integer of n bytes, signed or not, is one of eight
\* whose n lowest bytes are itself.
THEOREM NarrowRoundTrip ==
    ASSUME NEW bytes \in Seq(Byte), Len(bytes) \in 1 .. 8, NEW signed \in BOOLEAN
    PROVE  Extend(bytes, signed) \in U64 /\ Narrow(Extend(bytes, signed), Len(bytes)) = bytes
  <1> DEFINE n    == Len(bytes)
             fill == IF signed /\ bytes[1] >= 128 THEN 255 ELSE 0
             v    == [i \in 1 .. 8 |-> IF i <= 8 - n THEN fill ELSE bytes[i - 8 + n]]
  <1>0. Extend(bytes, signed) = v
    BY DEF Extend
  <1>1. n \in 1 .. 8 /\ fill \in Byte /\ \A j \in 1 .. n : bytes[j] \in Byte
    <2>1. fill \in Byte
      BY DEF Byte
    <2>2. \A j \in 1 .. n : bytes[j] \in Byte
      BY ElementOfSeq
    <2> QED BY <2>1, <2>2
  <1> HIDE DEF n, fill
  <1>2. ASSUME NEW i \in 1 .. 8
        PROVE  v[i] \in Byte /\ (i > 8 - n => v[i] = bytes[i - 8 + n])
    <2>1. CASE i <= 8 - n
      BY <1>1, <2>1
    <2>2. CASE i > 8 - n
      <3>1. i - 8 + n \in 1 .. n
        BY <1>1, <2>2
      <3> QED BY <1>1, <2>2, <3>1
    <2> QED BY <1>1, <2>1, <2>2
  <1>3. v \in U64
    <2>1. v = [i \in 1 .. 8 |-> v[i]]
      OBVIOUS
    <2> HIDE DEF v
    <2> QED BY <1>2, <2>1 DEF U64
  <1> HIDE DEF v
  <1> DEFINE cut == SubSeq(v, 9 - n, 8)
  <1>4. /\ cut \in Seq(Byte) /\ Len(cut) = n
        /\ \A j \in 1 .. n : cut[j] = v[9 - n + j - 1]
    <2>1. 9 - n \in Int /\ 8 \in Int /\ 9 - n <= 8 /\ 8 - (9 - n) + 1 = n
      BY <1>1
    <2>2. \A i \in 9 - n .. 8 : v[i] \in Byte
      <3>1. \A i \in 9 - n .. 8 : i \in 1 .. 8
        BY <1>1
      <3>2. \A i \in 1 .. 8 : v[i] \in Byte
        BY <1>2
      <3> QED BY <3>1, <3>2
    <2>3. /\ cut \in Seq(Byte) /\ Len(cut) = (IF 9 - n <= 8 THEN 8 - (9 - n) + 1 ELSE 0)
          /\ \A j \in 1 .. 8 - (9 - n) + 1 : cut[j] = v[9 - n + j - 1]
      BY <2>1, <2>2, SubSeqProperties
    <2> QED BY <2>1, <2>3
  <1>5. \A j \in 1 .. n : cut[j] = bytes[j]
    <2> SUFFICES ASSUME NEW j \in 1 .. n PROVE cut[j] = bytes[j]
      OBVIOUS
    <2> DEFINE i == 9 - n + j - 1
    <2>1. i \in 1 .. 8 /\ i > 8 - n /\ i - 8 + n = j
      BY <1>1
    <2>2. cut[j] = v[i]
      BY <1>4
    <2> HIDE DEF i, cut
    <2>3. v[i] = bytes[i - 8 + n]
      BY <1>2, <2>1
    <2> QED BY <2>1, <2>2, <2>3
  <1>6. cut = bytes
    <2> HIDE DEF cut
    <2> QED BY <1>4, <1>5, SeqEqual DEF n
  <1> QED BY <1>0, <1>3, <1>6 DEF Narrow, n

-----------------------------------------------------------------------------
(* Steps that follow each other *)

\* Nat is contained in every set that is closed under the next number.
LEMMA SetInduction ==
    ASSUME NEW S, 0 \in S, \A n \in Nat : n \in S => n + 1 \in S
    PROVE  Nat \subseteq S
  <1> SUFFICES ASSUME Nat \ S # {} PROVE FALSE
    OBVIOUS
  <1> DEFINE R == {ss \in Nat \X Nat : ss[1] < ss[2]}
  <1>1. PICK x \in Nat \ S : \A y \in Nat \ S : ~ (<<y, x>> \in R)
    <2>1. IsWellFoundedOn(R, Nat)
      BY NatLessThanWellFounded DEF OpToRel
    <2> HIDE DEF R
    <2> QED BY <2>1, WFMin
  <1>2. x # 0 /\ x - 1 \in Nat /\ x - 1 < x
    BY <1>1
  <1>3. x - 1 \notin Nat \ S
    BY <1>1, <1>2
  <1> QED BY <1>1, <1>2, <1>3

\* What is computed from 0 up to n, each step from the one before.
Ascent(f, n, T, c, next) ==
    f \in [0 .. n -> T] /\ f[0] = c /\ \A i \in 1 .. n : f[i] = next[i][f[i - 1]]

LEMMA Ascends ==
    ASSUME NEW n \in Nat, NEW T, NEW c \in T, NEW next \in [1 .. n -> [T -> T]]
    PROVE  \E f : Ascent(f, n, T, c, next)
  <1> DEFINE Good(m, f) == /\ f \in [0 .. m -> T] /\ f[0] = c
                           /\ \A i \in 1 .. m : f[i] = next[i][f[i - 1]]
             S == {m \in Nat : m <= n => \E f : Good(m, f)}
  <1>1. 0 \in S
    <2> DEFINE f == [i \in 0 .. 0 |-> c]
    <2>1. f \in [0 .. 0 -> T] /\ f[0] = c /\ 1 .. 0 = {}
      OBVIOUS
    <2> HIDE DEF f
    <2>2. Good(0, f)
      BY <2>1
    <2> QED BY <2>2
  <1>2. ASSUME NEW m \in Nat, m \in S PROVE m + 1 \in S
    <2> SUFFICES ASSUME m + 1 <= n PROVE \E f : Good(m + 1, f)
      OBVIOUS
    <2>1. PICK f : Good(m, f)
      <3>1. m <= n
        OBVIOUS
      <3> HIDE DEF Good
      <3> QED BY <1>2, <3>1
    <2> DEFINE value == next[m + 1][f[m]]
               g == [i \in 0 .. m + 1 |-> IF i = m + 1 THEN value ELSE f[i]]
    <2>2. value \in T
      <3>1. f[m] \in T /\ m + 1 \in 1 .. n
        BY <2>1
      <3> QED BY <3>1
    <2>3. g \in [0 .. m + 1 -> T] /\ g[m + 1] = value /\ \A i \in 0 .. m : g[i] = f[i]
      <3>1. \A i \in 0 .. m + 1 : i # m + 1 => i \in 0 .. m
        OBVIOUS
      <3>2. \A i \in 0 .. m : i \in 0 .. m + 1 /\ i # m + 1
        OBVIOUS
      <3> HIDE DEF value
      <3> QED BY <2>1, <2>2, <3>1, <3>2
    <2> HIDE DEF g
    <2>4. ASSUME NEW i \in 1 .. m + 1 PROVE g[i] = next[i][g[i - 1]]
      <3>1. CASE i = m + 1
        <4>1. i - 1 = m /\ m \in 0 .. m
          BY <3>1
        <4> QED BY <2>3, <3>1, <4>1
      <3>2. CASE i # m + 1
        <4>1. i \in 1 .. m /\ i \in 0 .. m /\ i - 1 \in 0 .. m
          BY <3>2
        <4> QED BY <2>1, <2>3, <4>1
      <3> QED BY <3>1, <3>2
    <2>5. Good(m + 1, g)
      <3>1. 0 \in 0 .. m
        OBVIOUS
      <3> QED BY <2>1, <2>3, <2>4, <3>1
    <2> QED BY <2>5
  <1>3. PICK f : Good(n, f)
    <2> HIDE DEF S, Good
    <2>1. Nat \subseteq S
      BY <1>1, <1>2, SetInduction
    <2> QED BY <2>1 DEF S
  <1> QED BY <1>3 DEF Ascent

-----------------------------------------------------------------------------
(* Writing *)

\* A writer's stream: it counts bytes that did not fit only after it was filled.
WriterType(s) ==
    /\ s \in [buf : Seq(Byte), pos : Nat, ok : BOOLEAN, overshoot : Nat]
    /\ s.pos <= Len(s.buf)
    /\ s.ok => s.overshoot = 0
    /\ ~s.ok => s.pos = Len(s.buf)

\* The stream after bytes were appended, wholly or not.
Adds(s, bytes, t) ==
    /\ WriterType(t) /\ Len(t.buf) = Len(s.buf)
    /\ t.pos + t.overshoot = s.pos + s.overshoot + Len(bytes)
    /\ t.ok = (s.ok /\ Len(bytes) <= Room(s))
    /\ \A i \in 1 .. s.pos : t.buf[i] = s.buf[i]
    /\ t.ok => \A j \in 1 .. Len(bytes) : t.buf[s.pos + j] = bytes[j]

\* What Overwrite() leaves, and what it puts.
LEMMA Overwritten ==
    ASSUME NEW s, WriterType(s), NEW bytes \in Seq(Byte), Len(bytes) <= Room(s)
    PROVE  /\ Overwrite(s, bytes) \in Seq(Byte) /\ Len(Overwrite(s, bytes)) = Len(s.buf)
           /\ \A i \in 1 .. s.pos : Overwrite(s, bytes)[i] = s.buf[i]
           /\ \A j \in 1 .. Len(bytes) : Overwrite(s, bytes)[s.pos + j] = bytes[j]
  <1>1. /\ s.buf \in Seq(Byte) /\ s.pos \in Nat /\ s.pos <= Len(s.buf)
        /\ Len(s.buf) \in Nat /\ Len(bytes) \in Nat /\ s.pos + Len(bytes) <= Len(s.buf)
        /\ DOMAIN s.buf = 1 .. Len(s.buf)
    BY DEF WriterType, Room
  <1> DEFINE n == Len(s.buf)
             m == Len(bytes)
             p == s.pos
             new == [i \in 1 .. n |-> IF i \in p + 1 .. p + m THEN bytes[i - p] ELSE s.buf[i]]
  <1>2. Overwrite(s, bytes) = new
    BY <1>1 DEF Overwrite
  <1>3. n \in Nat /\ m \in Nat /\ p \in Nat /\ p + m <= n
    BY <1>1
  <1>4. /\ \A i \in 1 .. n : s.buf[i] \in Byte
        /\ \A j \in 1 .. m : bytes[j] \in Byte
    BY <1>1
  <1> HIDE DEF n, m, p
  <1>5. ASSUME NEW i \in 1 .. n PROVE new[i] \in Byte
    <2>1. CASE i \in p + 1 .. p + m
      <3>1. i - p \in 1 .. m
        BY <1>3, <2>1
      <3> QED BY <1>4, <2>1, <3>1
    <2>2. CASE i \notin p + 1 .. p + m
      BY <1>4, <2>2
    <2> QED BY <2>1, <2>2
  <1>6. new \in Seq(Byte) /\ Len(new) = n
    <2>1. new \in [1 .. n -> Byte]
      BY <1>5
    <2> HIDE DEF new
    <2> QED BY <1>3, <2>1
  <1>7. \A i \in 1 .. p : new[i] = s.buf[i]
    <2>1. \A i \in 1 .. p : i \in 1 .. n /\ i \notin p + 1 .. p + m
      BY <1>3
    <2> QED BY <2>1
  <1>8. \A j \in 1 .. m : new[p + j] = bytes[j]
    <2>1. \A j \in 1 .. m : p + j \in 1 .. n /\ p + j \in p + 1 .. p + m /\ (p + j) - p = j
      BY <1>3
    <2> QED BY <2>1
  <1> QED BY <1>2, <1>6, <1>7, <1>8 DEF n, m, p

\* append(), byte by byte.
LEMMA AppendEachAdds ==
    ASSUME NEW s, WriterType(s), NEW bytes \in Seq(Byte)
    PROVE  Adds(s, bytes, AppendEach(s, bytes))
  <1> DEFINE n == Smaller(Len(bytes), Room(s))
             some == SubSeq(bytes, 1, n)
             t == AppendEach(s, bytes)
  <1>1. /\ s.buf \in Seq(Byte) /\ s.pos \in Nat /\ s.pos <= Len(s.buf) /\ s.ok \in BOOLEAN
        /\ s.overshoot \in Nat /\ (s.ok => s.overshoot = 0) /\ (~s.ok => s.pos = Len(s.buf))
        /\ Len(s.buf) \in Nat /\ Len(bytes) \in Nat /\ Room(s) = Len(s.buf) - s.pos
    BY DEF WriterType, Room
  <1>2. n \in Nat /\ n <= Len(bytes) /\ n <= Room(s) /\ (n = Len(bytes) \/ n = Room(s))
    BY <1>1 DEF Smaller
  <1> HIDE DEF n
  <1>3. some \in Seq(Byte) /\ Len(some) = n /\ \A j \in 1 .. n : some[j] = bytes[j]
    <2>1. \A j \in 1 .. n : bytes[j] \in Byte
      BY <1>1, <1>2
    <2>2. CASE n = 0
      <3>1. some = <<>>
        BY <2>2
      <3> QED BY <2>2, <3>1
    <2>3. CASE n > 0
      BY <1>1, <1>2, <2>3
    <2> QED BY <1>2, <2>2, <2>3
  <1> HIDE DEF some
  <1>4. t = [buf |-> Overwrite(s, some), pos |-> s.pos + n,
             ok |-> s.ok /\ n = Len(bytes), overshoot |-> s.overshoot + Len(bytes) - n]
    BY DEF AppendEach, n, some
  <1>5. /\ Overwrite(s, some) \in Seq(Byte) /\ Len(Overwrite(s, some)) = Len(s.buf)
        /\ \A i \in 1 .. s.pos : Overwrite(s, some)[i] = s.buf[i]
        /\ \A j \in 1 .. n : Overwrite(s, some)[s.pos + j] = some[j]
    BY <1>2, <1>3, Overwritten
  <1> HIDE DEF t
  <1>6. /\ t.buf = Overwrite(s, some) /\ t.pos = s.pos + n /\ t.ok = (s.ok /\ n = Len(bytes))
        /\ t.overshoot = s.overshoot + Len(bytes) - n
    BY <1>4
  <1> DEFINE size == Len(s.buf)
             all  == Len(bytes)
             pos  == s.pos
             over == s.overshoot
             room == Room(s)
  <1>a. /\ size \in Nat /\ all \in Nat /\ pos \in Nat /\ over \in Nat /\ pos <= size
        /\ room = size - pos /\ n \in Nat /\ n <= all /\ n <= room /\ (n = all \/ n = room)
        /\ t.pos = pos + n /\ t.overshoot = over + all - n /\ t.ok = (s.ok /\ n = all) /\ s.ok \in BOOLEAN
        /\ (s.ok => over = 0) /\ (~s.ok => pos = size)
    BY <1>1, <1>2, <1>6
  <1> HIDE DEF size, all, pos, over, room
  <1>b. /\ pos + n \in Nat /\ over + all - n \in Nat /\ pos + n <= size
        /\ (pos + n) + (over + all - n) = pos + over + all
        /\ (s.ok /\ n = all) => over + all - n = 0
        /\ ~(s.ok /\ n = all) => pos + n = size
        /\ (n = all) = (all <= room)
    BY <1>a
  <1>7. /\ t.pos \in Nat /\ t.overshoot \in Nat /\ t.ok \in BOOLEAN /\ t.pos <= size
        /\ t.pos + t.overshoot = pos + over + all
        /\ (t.ok => t.overshoot = 0) /\ (~t.ok => t.pos = size)
    BY <1>a, <1>b, Zenon
  <1>8. (n = Len(bytes)) = (Len(bytes) <= Room(s))
    BY <1>b DEF all, room
  <1>9. WriterType(t)
    <2>1. t \in [buf : Seq(Byte), pos : Nat, ok : BOOLEAN, overshoot : Nat]
      BY <1>4, <1>5, <1>6, <1>7
    <2>2. Len(t.buf) = Len(s.buf)
      BY <1>5, <1>6
    <2> QED BY <1>7, <2>1, <2>2 DEF WriterType, size
  <1>10. t.pos + t.overshoot = s.pos + s.overshoot + Len(bytes)
    BY <1>7 DEF pos, over, all
  <1>11. \A i \in 1 .. s.pos : t.buf[i] = s.buf[i]
    BY <1>5, <1>6
  <1>12. t.ok => \A j \in 1 .. Len(bytes) : t.buf[s.pos + j] = bytes[j]
    BY <1>3, <1>5, <1>6
  <1> QED BY <1>5, <1>6, <1>8, <1>9, <1>10, <1>11, <1>12 DEF Adds, t

\* append() of a buffer.
LEMMA AppendBlockAdds ==
    ASSUME NEW s, WriterType(s), NEW bytes \in Seq(Byte)
    PROVE  Adds(s, bytes, AppendBlock(s, bytes))
  <1>1. CASE Room(s) >= Len(bytes)
    BY <1>1, AppendEachAdds DEF AppendBlock
  <1>2. CASE ~ (Room(s) >= Len(bytes))
    <2> DEFINE zeros == [i \in 1 .. Room(s) |-> 0]
               t == AppendBlock(s, bytes)
    <2>1. /\ s.buf \in Seq(Byte) /\ s.pos \in Nat /\ s.pos <= Len(s.buf) /\ s.ok \in BOOLEAN
          /\ s.overshoot \in Nat
          /\ Len(s.buf) \in Nat /\ Len(bytes) \in Nat /\ Room(s) = Len(s.buf) - s.pos /\ Room(s) \in Nat
      BY DEF WriterType, Room
    <2>2. zeros \in Seq(Byte) /\ Len(zeros) = Room(s)
      BY <2>1 DEF Byte
    <2>3. t = [buf |-> Overwrite(s, zeros), pos |-> Len(s.buf), ok |-> FALSE,
               overshoot |-> s.overshoot + Len(bytes) - Room(s)]
      BY <1>2 DEF AppendBlock
    <2> HIDE DEF zeros
    <2>4. /\ Overwrite(s, zeros) \in Seq(Byte) /\ Len(Overwrite(s, zeros)) = Len(s.buf)
          /\ \A i \in 1 .. s.pos : Overwrite(s, zeros)[i] = s.buf[i]
      BY <2>1, <2>2, Overwritten
    <2> HIDE DEF t
    <2>5. s.overshoot + Len(bytes) - Room(s) \in Nat /\ ~ (Len(bytes) <= Room(s))
      BY <1>2, <2>1
    <2>6. WriterType(t)
      BY <2>1, <2>3, <2>4, <2>5 DEF WriterType
    <2>7. t.pos + t.overshoot = s.pos + s.overshoot + Len(bytes)
      BY <2>1, <2>3
    <2>8. /\ t.buf = Overwrite(s, zeros) /\ t.ok = FALSE
          /\ (s.ok /\ Len(bytes) <= Room(s)) = FALSE
      BY <2>3, <2>5
    <2> QED BY <2>4, <2>6, <2>7, <2>8, Zenon DEF Adds, t
  <1> QED BY <1>1, <1>2

\* One after the other.
LEMMA AddsTwice ==
    ASSUME NEW s, WriterType(s), NEW a \in Seq(Byte), NEW b \in Seq(Byte), NEW t, NEW u,
           Adds(s, a, t), Adds(t, b, u)
    PROVE  Adds(s, a \o b, u)
  <1> DEFINE ab == a \o b
  <1>1. /\ ab \in Seq(Byte) /\ Len(ab) = Len(a) + Len(b) /\ Len(a) \in Nat /\ Len(b) \in Nat
        /\ \A j \in 1 .. Len(ab) : ab[j] = IF j <= Len(a) THEN a[j] ELSE b[j - Len(a)]
    OBVIOUS
  <1> HIDE DEF ab
  <1>2. /\ s.pos \in Nat /\ s.overshoot \in Nat /\ Len(s.buf) \in Nat /\ s.pos <= Len(s.buf)
        /\ (s.ok => s.overshoot = 0)
        /\ t.pos \in Nat /\ t.overshoot \in Nat /\ t.pos <= Len(t.buf) /\ (t.ok => t.overshoot = 0)
        /\ u.pos \in Nat /\ u.overshoot \in Nat
    BY DEF WriterType, Adds
  <1>3. /\ Len(t.buf) = Len(s.buf) /\ t.pos + t.overshoot = s.pos + s.overshoot + Len(a)
        /\ t.ok = (s.ok /\ Len(a) <= Room(s)) /\ \A i \in 1 .. s.pos : t.buf[i] = s.buf[i]
        /\ t.ok => \A j \in 1 .. Len(a) : t.buf[s.pos + j] = a[j]
    BY DEF Adds
  <1>4. /\ WriterType(u) /\ Len(u.buf) = Len(t.buf)
        /\ u.pos + u.overshoot = t.pos + t.overshoot + Len(b)
        /\ u.ok = (t.ok /\ Len(b) <= Room(t)) /\ \A i \in 1 .. t.pos : u.buf[i] = t.buf[i]
        /\ u.ok => \A j \in 1 .. Len(b) : u.buf[t.pos + j] = b[j]
    BY DEF Adds
  <1>5. Room(s) = Len(s.buf) - s.pos /\ Room(t) = Len(s.buf) - t.pos
    BY <1>3 DEF Room
  <1> DEFINE size == Len(s.buf)
             la == Len(a)
             lb == Len(b)
             sp == s.pos
             so == s.overshoot
             tp == t.pos
             to == t.overshoot
             up == u.pos
             uo == u.overshoot
  <1>a. /\ size \in Nat /\ la \in Nat /\ lb \in Nat /\ sp \in Nat /\ so \in Nat /\ tp \in Nat /\ to \in Nat
        /\ up \in Nat /\ uo \in Nat /\ sp <= size /\ tp <= size
        /\ tp + to = sp + so + la /\ up + uo = tp + to + lb /\ Len(ab) = la + lb
        /\ Room(s) = size - sp /\ Room(t) = size - tp
        /\ (s.ok => so = 0) /\ (t.ok => to = 0)
    BY <1>1, <1>2, <1>3, <1>4, <1>5
  <1>b. (t.ok => s.ok) /\ (~t.ok => tp = size)
    <2>1. ~t.ok => t.pos = Len(t.buf)
      BY DEF Adds, WriterType
    <2> QED BY <1>3, <2>1
  <1> HIDE DEF size, la, lb, sp, so, tp, to, up, uo
  <1>6. up + uo = sp + so + (la + lb)
    BY <1>a
  <1>7. t.ok => tp = sp + la
    BY <1>a, <1>b
  <1>8. sp <= tp
    <2>1. CASE t.ok
      BY <1>7, <1>a, <2>1
    <2>2. CASE ~t.ok
      BY <1>a, <1>b, <2>2
    <2> QED BY <2>1, <2>2
  <1>9. u.ok = (s.ok /\ Len(ab) <= Room(s))
    <2>1. CASE t.ok
      <3>1. (lb <= Room(t)) = (la + lb <= Room(s))
        BY <1>7, <1>a, <2>1
      <3> QED BY <1>3, <1>4, <1>a, <2>1, <3>1 DEF lb
    <2>2. CASE ~t.ok
      <3>1. la + lb <= Room(s) => la <= Room(s)
        BY <1>a
      <3> QED BY <1>3, <1>4, <1>a, <2>2, <3>1 DEF la
    <2> QED BY <2>1, <2>2
  <1>10. \A i \in 1 .. s.pos : u.buf[i] = s.buf[i]
    <2>1. \A i \in 1 .. sp : i \in 1 .. tp
      BY <1>8, <1>a
    <2> QED BY <1>3, <1>4, <2>1 DEF sp, tp
  <1>11. ASSUME u.ok, NEW j \in 1 .. Len(ab) PROVE u.buf[s.pos + j] = ab[j]
    <2>1. t.ok /\ tp = sp + la /\ j \in 1 .. la + lb
      BY <1>4, <1>7, <1>11, <1>a
    <2>2. CASE j <= la
      <3>1. j \in 1 .. la /\ sp + j \in 1 .. tp
        BY <1>a, <2>1, <2>2
      <3> QED BY <1>1, <1>3, <1>4, <2>1, <2>2, <3>1 DEF la, sp, tp
    <2>3. CASE j > la
      <3>1. j - la \in 1 .. lb /\ tp + (j - la) = sp + j /\ ~ (j <= la)
        BY <1>a, <2>1, <2>3
      <3>2. u.buf[tp + (j - la)] = b[j - la]
        BY <1>4, <1>11, <3>1 DEF lb, tp
      <3>3. ab[j] = b[j - la]
        BY <1>1, <3>1 DEF la
      <3> QED BY <3>1, <3>2, <3>3 DEF sp
    <2> QED BY <1>a, <2>1, <2>2, <2>3
  <1>12. u.pos + u.overshoot = s.pos + s.overshoot + Len(ab) /\ Len(u.buf) = Len(s.buf)
    BY <1>3, <1>4, <1>6, <1>a DEF up, uo, sp, so
  <1> QED BY <1>4, <1>9, <1>10, <1>11, <1>12 DEF Adds, ab

-----------------------------------------------------------------------------
(* The items of a stream *)

\* The integer that is written for an item.
Word(item) ==
    CASE item.kind = "uint64" -> item.value
      [] item.kind = "int16" -> Extend(item.value, TRUE)
      [] item.kind = "uint8" -> Extend(item.value, FALSE)
      [] item.kind = "bool" -> [i \in 1 .. 8 |-> IF i = 8 THEN item.value[1] ELSE 0]
      [] item.kind = "buf" -> LengthOf(item.value)

\* The bytes of an item.
Wire(item) ==
    IF item.kind = "float" THEN item.value
    ELSE IF item.kind = "buf" THEN Encode(Word(item)) \o item.value
    ELSE Encode(Word(item))

\* Where the items end when their bytes follow each other.
Ends(items, ends) ==
    /\ ends \in [0 .. Len(items) -> Nat] /\ ends[0] = 0
    /\ \A i \in 1 .. Len(items) : ends[i] = ends[i - 1] + Len(Wire(items[i]))

\* A stream to which the first n of the items were written, from its beginning.
Laid(s, items, ends, n) ==
    /\ WriterType(s) /\ s.pos + s.overshoot = ends[n]
    /\ s.ok => \A i \in 1 .. n : \A j \in 1 .. Len(Wire(items[i])) :
                  s.buf[ends[i - 1] + j] = Wire(items[i])[j]

IsStream(s) ==
    /\ s = [buf |-> s.buf, pos |-> s.pos, ok |-> s.ok, overshoot |-> s.overshoot]
    /\ s.ok \in BOOLEAN

IsSequence(s) == \E S : s \in Seq(S)

\* A reader of what arrived of stream s stands after the items it took, as long as it had
\* bytes enough.
Follows(r, taken, s, items, ends) ==
    /\ IsStream(r) /\ r.buf \in Seq(Byte) /\ Len(r.buf) <= s.pos
    /\ \A i \in 1 .. Len(r.buf) : r.buf[i] = s.buf[i]
    /\ IsSequence(taken) /\ Len(taken) <= Len(items)
    /\ r.ok => /\ r.pos = ends[Len(taken)] /\ r.pos <= Len(r.buf)
               /\ \A i \in 1 .. Len(taken) : taken[i] = items[i]
    /\ ~r.ok => Len(r.buf) < ends[Len(items)]

\* The inductive invariant: the bytes before m_seek are those of the items written, one after
\* the other, and the reader stands between two of them.
StreamInv ==
    /\ streaming \in {"none", "writing", "retried", "reading"}
    /\ streaming # "none" =>
         /\ written \in Seq(Items)
         /\ \E ends : /\ Ends(written, ends) /\ Laid(out, written, ends, Len(written))
                      /\ streaming = "reading" => out.ok /\ Follows(in, got, out, written, ends)
    /\ streaming = "none" => written = <<>>
    /\ streaming # "reading" => got = <<>>
    /\ UndersizeExact

-----------------------------------------------------------------------------
(* Items *)

\* What the buffers among the items hold.
Contents == {<<>>, <<248>>, <<1, 2, 3>>}

\* The values of the kinds.
LEMMA Kinds ==
    ASSUME NEW item \in Items
    PROVE  /\ item = [kind |-> item.kind, value |-> item.value]
           /\ \/ item.kind = "uint64" /\ item.value \in U64
              \/ item.kind = "int16" /\ item.value \in Seq(Byte) /\ Len(item.value) = 2
              \/ item.kind = "uint8" /\ item.value \in Seq(Byte) /\ Len(item.value) = 1
              \/ item.kind = "bool" /\ (item.value = <<0>> \/ item.value = <<1>>)
              \/ item.kind = "float" /\ item.value = <<0, 0, 128, 63>>
              \/ item.kind = "buf" /\ item.value \in Contents
  <1>1. CASE \E v \in Integers64 : item = Item("uint64", v)
    <2>1. PICK v \in Integers64 : item = Item("uint64", v)
      BY <1>1
    <2>2. item.kind = "uint64" /\ item.value = v
      BY <2>1 DEF Item
    <2> QED BY <2>1, <2>2, ItemsAssumption DEF Item
  <1>2. CASE \E v \in [1 .. 2 -> {0, 1, 127, 128, 255}] : item = Item("int16", v)
    <2>1. PICK v \in [1 .. 2 -> {0, 1, 127, 128, 255}] : item = Item("int16", v)
      BY <1>2
    <2>2. item.kind = "int16" /\ item.value = v
      BY <2>1 DEF Item
    <2>3. v \in Seq(Byte) /\ Len(v) = 2
      <3>1. {0, 1, 127, 128, 255} \subseteq Byte
        BY DEF Byte
      <3>2. v \in [1 .. 2 -> Byte]
        BY <3>1
      <3>3. v \in Seq(Byte)
        BY <3>2, SeqDef, SMTT(20)
      <3>4. 1 .. Len(v) = 1 .. 2 /\ Len(v) \in Nat
        BY <3>2, <3>3, LenProperties
      <3> QED BY <3>3, <3>4
    <2> QED BY <2>1, <2>2, <2>3 DEF Item
  <1>3. CASE \E b \in {0, 127, 128, 255} : item = Item("uint8", <<b>>)
    <2>1. PICK b \in {0, 127, 128, 255} : item = Item("uint8", <<b>>)
      BY <1>3
    <2>2. item.kind = "uint8" /\ item.value = <<b>>
      BY <2>1 DEF Item
    <2>3. b \in Byte
      BY DEF Byte
    <2>4. <<b>> \in Seq(Byte) /\ Len(<<b>>) = 1
      BY <2>3
    <2> QED BY <2>1, <2>2, <2>4 DEF Item
  <1>4. CASE \E b \in {0, 1} : item = Item("bool", <<b>>)
    BY <1>4 DEF Item
  <1>5. CASE item = Item("float", <<0, 0, 128, 63>>)
    BY <1>5 DEF Item
  <1>6. CASE \E b \in {<<>>, <<248>>, <<1, 2, 3>>} : item = Item("buf", b)
    <2>1. PICK b \in {<<>>, <<248>>, <<1, 2, 3>>} : item = Item("buf", b)
      BY <1>6
    <2>2. item.kind = "buf" /\ item.value = b
      BY <2>1 DEF Item
    <2> QED BY <2>1, <2>2 DEF Item, Contents
  <1>7. \/ \E v \in Integers64 : item = Item("uint64", v)
        \/ \E v \in [1 .. 2 -> {0, 1, 127, 128, 255}] : item = Item("int16", v)
        \/ \E b \in {0, 127, 128, 255} : item = Item("uint8", <<b>>)
        \/ \E b \in {0, 1} : item = Item("bool", <<b>>)
        \/ item = Item("float", <<0, 0, 128, 63>>)
        \/ \E b \in {<<>>, <<248>>, <<1, 2, 3>>} : item = Item("buf", b)
    BY Zenon DEF Items
  <1> QED BY <1>1, <1>2, <1>3, <1>4, <1>5, <1>6, <1>7

\* A short buffer, and its length.
LEMMA Buffers ==
    ASSUME NEW b \in Contents
    PROVE  /\ b \in Seq(Byte) /\ Len(b) \in 0 .. 3 /\ LengthOf(b) \in U64
           /\ LengthOf(b)[5] = 0 /\ LengthOf(b)[6] = 0 /\ LengthOf(b)[7] = 0
           /\ LengthOf(b)[8] = Len(b)
  <1>1. b \in Seq(Byte) /\ Len(b) \in 0 .. 3
    <2>1. 248 \in Byte /\ 1 \in Byte /\ 2 \in Byte /\ 3 \in Byte
      BY DEF Byte
    <2>2. CASE b = <<>>
      BY <2>2
    <2>3. CASE b = <<248>>
      BY <2>1, <2>3
    <2>4. CASE b = <<1, 2, 3>>
      BY <2>1, <2>4
    <2> QED BY <2>2, <2>3, <2>4 DEF Contents
  <1> DEFINE n == Len(b)
  <1>2. LengthOf(b) = [i \in 1 .. 8 |-> IF i = 8 THEN n ELSE 0] /\ n \in 0 .. 3
    BY <1>1 DEF LengthOf
  <1> HIDE DEF n
  <1>3. LengthOf(b) \in U64 /\ LengthOf(b)[5] = 0 /\ LengthOf(b)[6] = 0 /\ LengthOf(b)[7] = 0
        /\ LengthOf(b)[8] = n
    BY <1>2 DEF U64, Byte
  <1> QED BY <1>1, <1>3 DEF n

\* The integer written for an item has its eight bytes.
LEMMA WordType ==
    ASSUME NEW item \in Items, item.kind # "float"
    PROVE  Word(item) \in U64
  <1>1. CASE item.kind = "uint64"
    BY <1>1, Kinds DEF Word
  <1>2. CASE item.kind = "int16"
    <2>1. item.value \in Seq(Byte) /\ Len(item.value) \in 1 .. 8
      BY <1>2, Kinds
    <2>2. Extend(item.value, TRUE) \in U64
      BY <2>1, NarrowRoundTrip
    <2> QED BY <1>2, <2>2 DEF Word
  <1>3. CASE item.kind = "uint8"
    <2>1. item.value \in Seq(Byte) /\ Len(item.value) \in 1 .. 8
      BY <1>3, Kinds
    <2>2. Extend(item.value, FALSE) \in U64
      BY <2>1, NarrowRoundTrip
    <2> QED BY <1>3, <2>2 DEF Word
  <1>4. CASE item.kind = "bool"
    <2>1. item.value[1] \in {0, 1}
      BY <1>4, Kinds
    <2> DEFINE w == [i \in 1 .. 8 |-> IF i = 8 THEN item.value[1] ELSE 0]
    <2>2. Word(item) = w
      BY <1>4 DEF Word
    <2>3. w \in U64
      BY <2>1 DEF U64, Byte
    <2> QED BY <2>2, <2>3
  <1>5. CASE item.kind = "buf"
    <2>1. item.value \in Contents
      BY <1>5, Kinds
    <2>2. LengthOf(item.value) \in U64
      BY <2>1, Buffers
    <2> QED BY <1>5, <2>2 DEF Word
  <1> QED BY <1>1, <1>2, <1>3, <1>4, <1>5, Kinds

\* The bytes of an integer, in both forms.
LEMMA EncodeType ==
    ASSUME NEW v \in U64
    PROVE  Encode(v) \in Seq(Byte) /\ Len(Encode(v)) \in Nat /\ Len(Encode(v)) >= 1
  <1> DEFINE w == Complement(v)
             e == EncodeUnsigned(w)
  <1>1. w \in U64 /\ v[8] \in 0 .. 255
    BY ComplementTwice DEF U64, Byte
  <1>2. CASE ~Fits(w, 4)
    <2>1. Encode(v) = EncodeUnsigned(v)
      BY <1>2 DEF Encode
    <2> QED BY <2>1, EncodedBytes
  <1>3. CASE Fits(w, 4) /\ Fits(w, 7) /\ 255 - v[8] <= 3
    <2> DEFINE b == 252 + 255 - v[8]
    <2>1. Encode(v) = <<b>>
      BY <1>3 DEF Encode
    <2>2. b \in Byte
      BY <1>1, <1>3 DEF Byte
    <2> HIDE DEF b
    <2> QED BY <2>1, <2>2
  <1>4. CASE Fits(w, 4) /\ ~(Fits(w, 7) /\ 255 - v[8] <= 3)
    <2>1. Encode(v) = <<248>> \o e
      BY <1>4 DEF Encode
    <2>2. e \in Seq(Byte) /\ Len(e) >= 1 /\ 248 \in Byte
      BY <1>1, EncodedBytes DEF Byte
    <2> HIDE DEF e
    <2> QED BY <2>1, <2>2
  <1> QED BY <1>2, <1>3, <1>4

\* What is written of an item: one byte at least.
LEMMA WireType ==
    ASSUME NEW item \in Items
    PROVE  Wire(item) \in Seq(Byte) /\ Len(Wire(item)) \in Nat /\ Len(Wire(item)) >= 1
  <1>1. CASE item.kind = "float"
    <2>1. Wire(item) = <<0, 0, 128, 63>>
      BY <1>1, Kinds DEF Wire
    <2>2. 0 \in Byte /\ 128 \in Byte /\ 63 \in Byte
      BY DEF Byte
    <2> QED BY <2>1, <2>2
  <1>2. CASE item.kind = "buf"
    <2> DEFINE e == Encode(Word(item))
    <2>1. Wire(item) = e \o item.value
      BY <1>2 DEF Wire
    <2>2. e \in Seq(Byte) /\ Len(e) \in Nat /\ Len(e) >= 1
      BY <1>2, WordType, EncodeType
    <2>3. item.value \in Seq(Byte)
      <3>1. item.value \in Contents
        BY <1>2, Kinds
      <3> QED BY <3>1, Buffers
    <2> HIDE DEF e
    <2> QED BY <2>1, <2>2, <2>3
  <1>3. CASE item.kind # "float" /\ item.kind # "buf"
    <2>1. Wire(item) = Encode(Word(item))
      BY <1>3 DEF Wire
    <2> QED BY <1>3, <2>1, WordType, EncodeType
  <1> QED BY <1>1, <1>2, <1>3

\* Every item is written as its bytes, wholly or not.
LEMMA WriteAdds ==
    ASSUME NEW s, WriterType(s), NEW item \in Items
    PROVE  Adds(s, Wire(item), Write(s, item))
  <1>1. CASE item.kind = "float"
    <2>1. Write(s, item) = AppendEach(s, item.value) /\ Wire(item) = item.value
      BY <1>1 DEF Write, WriteFloat, Wire
    <2> QED BY <2>1, WireType, AppendEachAdds
  <1>2. CASE item.kind = "buf"
    <2> DEFINE e == Encode(LengthOf(item.value))
               t == AppendEach(s, e)
    <2>1. Write(s, item) = AppendBlock(t, item.value)
      BY <1>2 DEF Write, WriteBuf, WriteInt
    <2>2. Wire(item) = e \o item.value
      BY <1>2 DEF Wire, Word
    <2>3. item.value \in Seq(Byte) /\ LengthOf(item.value) \in U64
      <3>1. item.value \in Contents
        BY <1>2, Kinds
      <3> QED BY <3>1, Buffers
    <2>4. e \in Seq(Byte)
      BY <2>3, EncodeType
    <2> HIDE DEF e
    <2>5. Adds(s, e, t)
      BY <2>4, AppendEachAdds
    <2> HIDE DEF t
    <2>6. WriterType(t)
      BY <2>5 DEF Adds
    <2>7. Adds(t, item.value, AppendBlock(t, item.value))
      BY <2>3, <2>6, AppendBlockAdds
    <2>8. Adds(s, e \o item.value, AppendBlock(t, item.value))
      BY <2>3, <2>4, <2>5, <2>7, AddsTwice
    <2> QED BY <2>1, <2>2, <2>8
  <1>3. CASE item.kind # "float" /\ item.kind # "buf"
    <2>1. Wire(item) = Encode(Word(item))
      BY <1>3 DEF Wire
    <2>2. Write(s, item) = AppendEach(s, Encode(Word(item)))
      <3>1. \/ item.kind = "uint64" \/ item.kind = "int16" \/ item.kind = "uint8"
            \/ item.kind = "bool"
        BY <1>3, Kinds
      <3> QED BY <3>1 DEF Write, WriteInt, WriteBool, Word
    <2>3. Encode(Word(item)) \in Seq(Byte)
      BY <1>3, WordType, EncodeType
    <2> QED BY <2>1, <2>2, <2>3, AppendEachAdds
  <1> QED BY <1>1, <1>2, <1>3

-----------------------------------------------------------------------------
(* Reading *)

\* The bytes that announce a complement, when there may be nothing after them.
LEMMA NoneAnnounced ==
    ASSUME NEW bytes \in Seq(Byte), At(bytes, 1) \notin 248 .. 251
    PROVE  Complements(bytes) = 0
  <1>1. CASE Len(bytes) >= 1
    BY <1>1, NoComplement DEF At
  <1>2. CASE ~ (Len(bytes) >= 1)
    <2> DEFINE Count(k) == /\ \A j \in 1 .. k : bytes[j] \in 248 .. 251
                           /\ At(bytes, k + 1) \notin 248 .. 251
    <2>1. Len(bytes) = 0
      BY <1>2
    <2>2. 0 \in 0 .. Len(bytes) /\ Count(0) /\ \A k \in 0 .. Len(bytes) : k = 0
      BY <2>1
    <2>3. Complements(bytes) = CHOOSE k \in 0 .. Len(bytes) : Count(k)
      BY DEF Complements
    <2> HIDE DEF Count
    <2> QED BY <2>2, <2>3
  <1> QED BY <1>1, <1>2

LEMMA OneAnnounced ==
    ASSUME NEW bytes \in Seq(Byte), Len(bytes) >= 1,
           bytes[1] \in 248 .. 251, At(bytes, 2) \notin 248 .. 251
    PROVE  Complements(bytes) = 1
  <1>1. CASE Len(bytes) >= 2
    BY <1>1, OneComplement DEF At
  <1>2. CASE ~ (Len(bytes) >= 2)
    <2> DEFINE Count(k) == /\ \A j \in 1 .. k : bytes[j] \in 248 .. 251
                           /\ At(bytes, k + 1) \notin 248 .. 251
    <2>1. Len(bytes) = 1 /\ At(bytes, 1) = bytes[1]
      <3>1. Len(bytes) \in Nat
        OBVIOUS
      <3>2. ASSUME NEW n \in Nat, n >= 1, ~ (n >= 2) PROVE n = 1
        BY <3>2
      <3>3. Len(bytes) = 1
        BY <1>2, <3>1, <3>2
      <3> QED BY <3>3 DEF At
    <2>2. 1 \in 0 .. Len(bytes) /\ Count(1)
      BY <2>1
    <2>3. \A k \in 0 .. Len(bytes) : k = 0 \/ k = 1
      BY <2>1
    <2>4. ~ Count(0)
      BY <2>1
    <2>5. Complements(bytes) = CHOOSE k \in 0 .. Len(bytes) : Count(k)
      BY DEF Complements
    <2> HIDE DEF Count
    <2> QED BY <2>2, <2>3, <2>4, <2>5
  <1> QED BY <1>1, <1>2

\* The first byte of an encoding without complement tells its length.
LEMMA FirstByte ==
    ASSUME NEW v \in U64
    PROVE  /\ EncodeUnsigned(v)[1] \in 0 .. 247
           /\ LengthAfter(EncodeUnsigned(v)[1]) = Len(EncodeUnsigned(v))
  <1> DEFINE e == EncodeUnsigned(v)
  <1>1. e \in Seq(Byte) /\ Len(e) \in Nat /\ Len(e) >= 1
    BY EncodedBytes
  <1>2. \A i \in 1 .. Len(e) : At(e, 0 + i) = e[i]
    <2> HIDE DEF e
    <2> QED BY <1>1 DEF At
  <1>3. EncodedAfter(e, 0, v)
    BY <1>2 DEF EncodedAfter
  <1>4. LengthAfter(At(e, 0 + 1)) = Len(e) /\ At(e, 0 + 1) \in 0 .. 247
    BY <1>3, UnsignedRoundTrip
  <1>5. At(e, 0 + 1) = e[1]
    <2> HIDE DEF e
    <2> QED BY <1>1, <1>2
  <1> QED BY <1>4, <1>5

\* From an integer that is cut off more bytes are asked for than are there.
LEMMA DecodeCut ==
    ASSUME NEW v \in U64, NEW bytes \in Seq(Byte), Len(bytes) < Len(Encode(v)),
           \A i \in 1 .. Len(bytes) : bytes[i] = Encode(v)[i]
    PROVE  ~ (Decode(bytes).calls <= Len(bytes))
  <1> DEFINE w == Complement(v)
             k == Complements(bytes)
  <1>0. Decode(bytes).calls = k + LengthAfter(At(bytes, k + 1)) /\ Len(bytes) \in Nat
    BY DEF Decode
  <1>w. w \in U64 /\ v[8] \in 0 .. 255
    <2>1. w \in U64
      BY ComplementTwice
    <2> QED BY <2>1 DEF U64, Byte
  <1> HIDE DEF w, k
  <1>1. CASE Len(bytes) = 0
    <2>1. At(bytes, 1) = 0
      BY <1>1 DEF At
    <2>2. k = 0
      BY <2>1, NoneAnnounced DEF k
    <2>3. LengthAfter(0) = 1
      BY DEF LengthAfter
    <2> QED BY <1>0, <1>1, <2>1, <2>2, <2>3
  <1>2. CASE Len(bytes) >= 1 /\ ~Fits(w, 4)
    <2> DEFINE e == EncodeUnsigned(v)
    <2>1. Encode(v) = e
      BY <1>2 DEF Encode, w
    <2>2. e[1] \in 0 .. 247 /\ LengthAfter(e[1]) = Len(e) /\ Len(e) \in Nat
      BY FirstByte, EncodedBytes
    <2> HIDE DEF e
    <2>3. At(bytes, 1) = e[1]
      BY <1>2, <2>1 DEF At
    <2>4. k = 0
      <3>1. e[1] \notin 248 .. 251
        <4> DEFINE b == e[1]
        <4>1. b \in 0 .. 247
          BY <2>2
        <4> HIDE DEF b
        <4>2. b \notin 248 .. 251
          BY <4>1
        <4> QED BY <4>2 DEF b
      <3> QED BY <2>3, <3>1, NoneAnnounced DEF k
    <2> QED BY <1>0, <2>1, <2>2, <2>3, <2>4
  <1>3. CASE Len(bytes) >= 1 /\ Fits(w, 4) /\ Fits(w, 7) /\ 255 - v[8] <= 3
    <2>1. Encode(v) = <<252 + 255 - v[8]>>
      BY <1>3 DEF Encode, w
    <2>2. Len(Encode(v)) = 1
      BY <2>1
    <2> QED BY <1>3, <2>2
  <1>4. CASE Len(bytes) >= 1 /\ Fits(w, 4) /\ ~(Fits(w, 7) /\ 255 - v[8] <= 3)
    <2> DEFINE e == EncodeUnsigned(w)
    <2>1. Encode(v) = <<248>> \o e
      BY <1>4 DEF Encode, w
    <2>2. /\ e[1] \in 0 .. 247 /\ LengthAfter(e[1]) = Len(e)
          /\ e \in Seq(Byte) /\ Len(e) \in Nat /\ Len(e) >= 1
      BY <1>w, FirstByte, EncodedBytes
    <2> HIDE DEF e
    <2>3. Len(Encode(v)) = 1 + Len(e) /\ Encode(v)[1] = 248 /\ Encode(v)[2] = e[1]
      BY <2>1, <2>2 DEF Byte
    <2>4. bytes[1] = 248
      BY <1>4, <2>3
    <2>5. CASE Len(bytes) = 1
      <3>1. At(bytes, 2) = 0
        BY <2>5 DEF At
      <3>2. k = 1
        BY <1>4, <2>4, <3>1, OneAnnounced DEF k
      <3>3. LengthAfter(0) = 1
        BY DEF LengthAfter
      <3> QED BY <1>0, <2>5, <3>1, <3>2, <3>3
    <2>6. CASE Len(bytes) >= 2
      <3>1. At(bytes, 2) = e[1]
        BY <2>3, <2>6 DEF At
      <3>2. e[1] \notin 248 .. 251
        <4> DEFINE b == e[1]
        <4>1. b \in 0 .. 247
          BY <2>2
        <4> HIDE DEF b
        <4>2. b \notin 248 .. 251
          BY <4>1
        <4> QED BY <4>2 DEF b
      <3>3. k = 1
        BY <1>4, <2>4, <3>1, <3>2, OneAnnounced DEF k
      <3>4. Decode(bytes).calls = 1 + Len(e)
        BY <1>0, <2>2, <3>1, <3>3
      <3> QED BY <1>0, <2>2, <2>3, <3>4
    <2>7. ASSUME NEW n \in Nat, n >= 1, n # 1 PROVE n >= 2
      BY <2>7
    <2> QED BY <1>0, <1>4, <2>5, <2>6, <2>7
  <1> QED BY <1>0, <1>1, <1>2, <1>3, <1>4

\* A reader's stream that had bytes enough so far.
Reader(s) ==
    /\ IsStream(s) /\ s.ok = TRUE /\ s.buf \in Seq(Byte)
    /\ s.pos \in Nat /\ s.pos <= Len(s.buf)

Passed(s, n) == [s EXCEPT !.pos = s.pos + n]

\* First a, then the rest.
Before(s, a, rest) == Seek(s) = a \o rest

\* What lies before a reader.
LEMMA Ahead ==
    ASSUME NEW s, Reader(s)
    PROVE  /\ Seek(s) \in Seq(Byte) /\ Len(Seek(s)) = Room(s) /\ Room(s) \in Nat
           /\ \A i \in 1 .. Room(s) : Seek(s)[i] = s.buf[s.pos + i]
  <1> DEFINE n == Len(s.buf)
             p == s.pos
             rest == SubSeq(s.buf, p + 1, n)
  <1>1. /\ n \in Nat /\ p \in Nat /\ p <= n /\ Room(s) = n - p
        /\ \A i \in 1 .. n : s.buf[i] \in Byte
    BY DEF Reader, Room
  <1>2. Seek(s) = rest
    BY DEF Seek
  <1> HIDE DEF n, p
  <1>3. p + 1 \in Int /\ n \in Int /\ \A i \in p + 1 .. n : s.buf[i] \in Byte
    BY <1>1
  <1>4. /\ rest \in Seq(Byte) /\ Len(rest) = (IF p + 1 <= n THEN n - (p + 1) + 1 ELSE 0)
        /\ \A i \in 1 .. n - (p + 1) + 1 : rest[i] = s.buf[p + 1 + i - 1]
    BY <1>3, SubSeqProperties
  <1> HIDE DEF rest
  <1>5. (IF p + 1 <= n THEN n - (p + 1) + 1 ELSE 0) = n - p /\ n - p \in Nat
        /\ n - (p + 1) + 1 = n - p
    BY <1>1
  <1>6. \A i \in 1 .. n - p : rest[i] = s.buf[p + i]
    <2>1. \A i \in 1 .. n - p : p + 1 + i - 1 = p + i
      BY <1>1
    <2> QED BY <1>4, <1>5, <2>1
  <1> QED BY <1>1, <1>2, <1>4, <1>5, <1>6 DEF p

\* And after the first part of it.
LEMMA PassedOver ==
    ASSUME NEW s, Reader(s), NEW a \in Seq(Byte), NEW b \in Seq(Byte), Before(s, a, b)
    PROVE  /\ Reader(Passed(s, Len(a))) /\ Seek(Passed(s, Len(a))) = b
           /\ Room(s) = Len(a) + Len(b) /\ Room(Passed(s, Len(a))) = Len(b)
           /\ Len(a) \in Nat /\ Len(b) \in Nat
           /\ \A i \in 1 .. Len(a) : At(Seek(s), i) = a[i]
  <1> DEFINE ab == a \o b
             t == Passed(s, Len(a))
  <1>1. /\ Len(a) \in Nat /\ Len(b) \in Nat /\ Len(ab) = Len(a) + Len(b)
        /\ \A j \in 1 .. Len(a) : ab[j] = a[j]
        /\ \A j \in 1 .. Len(b) : ab[Len(a) + j] = b[j]
    OBVIOUS
  <1> HIDE DEF ab
  <1>2. Len(Seek(s)) = Room(s) /\ \A i \in 1 .. Room(s) : Seek(s)[i] = s.buf[s.pos + i]
    BY Ahead
  <1>3. Room(s) = Len(a) + Len(b) /\ Seek(s) = ab
    BY <1>1, <1>2 DEF ab, Before
  <1>4. /\ s.pos \in Nat /\ Len(s.buf) \in Nat /\ Len(s.buf) - s.pos = Len(a) + Len(b)
        /\ s = [buf |-> s.buf, pos |-> s.pos, ok |-> s.ok, overshoot |-> s.overshoot]
        /\ s.ok = TRUE /\ s.buf \in Seq(Byte)
    BY <1>3 DEF Reader, Room, IsStream
  <1>5. t = [buf |-> s.buf, pos |-> s.pos + Len(a), ok |-> TRUE, overshoot |-> s.overshoot]
    <2> DEFINE pos == s.pos + Len(a)
    <2>1. t = [s EXCEPT !.pos = pos]
      BY DEF Passed
    <2> HIDE DEF pos, t
    <2>2. t = [buf |-> s.buf, pos |-> pos, ok |-> TRUE, overshoot |-> s.overshoot]
      BY <1>4, <2>1
    <2> QED BY <2>2 DEF pos
  <1>6. t.buf = s.buf /\ t.pos = s.pos + Len(a) /\ t.ok = TRUE /\ t.overshoot = s.overshoot
    BY <1>5
  <1> HIDE DEF t
  <1> DEFINE n == Len(s.buf)
             p == s.pos
             la == Len(a)
             lb == Len(b)
  <1>a. n \in Nat /\ p \in Nat /\ la \in Nat /\ lb \in Nat /\ n - p = la + lb
    BY <1>1, <1>4
  <1> HIDE DEF n, p, la, lb
  <1>7. p + la \in Nat /\ p + la <= n /\ n - (p + la) = lb
    BY <1>a
  <1>8. Reader(t) /\ Room(t) = lb
    BY <1>4, <1>5, <1>6, <1>7 DEF Reader, IsStream, Room, n, p, la
  <1>9. /\ Seek(t) \in Seq(Byte) /\ Len(Seek(t)) = lb
        /\ \A i \in 1 .. lb : Seek(t)[i] = s.buf[(p + la) + i]
    BY <1>6, <1>8, Ahead DEF p, la
  <1>10. ASSUME NEW i \in 1 .. lb PROVE Seek(t)[i] = b[i]
    <2>1. la + i \in 1 .. la + lb /\ (p + la) + i = p + (la + i)
      BY <1>a
    <2>2. Seek(s)[la + i] = s.buf[p + (la + i)]
      BY <1>2, <1>3, <2>1 DEF la, lb, p
    <2>3. Seek(s)[la + i] = b[i]
      BY <1>1, <1>3 DEF la, lb
    <2> QED BY <1>9, <2>1, <2>2, <2>3
  <1>11. Seek(t) = b
    BY <1>9, <1>10, SeqEqual DEF lb
  <1>12. \A i \in 1 .. la : At(Seek(s), i) = a[i]
    <2>1. \A i \in 1 .. la : i <= la + lb
      BY <1>a
    <2> QED BY <1>1, <1>2, <1>3, <2>1 DEF At, la, lb
  <1> QED BY <1>1, <1>3, <1>8, <1>11, <1>12 DEF t, la, lb

\* As many calls of next() as there are bytes.
LEMMA AdvanceWhole ==
    ASSUME NEW s, Reader(s), NEW n \in Nat, n <= Room(s)
    PROVE  Advance(s, n) = Passed(s, n)
  <1>1. /\ s = [buf |-> s.buf, pos |-> s.pos, ok |-> s.ok, overshoot |-> s.overshoot]
        /\ s.ok = TRUE /\ Smaller(n, Room(s)) = n
    BY DEF Reader, IsStream, Smaller
  <1> QED BY <1>1 DEF Advance, Passed

\* An operation that fails, or one after it: m_ok stays cleared.
Failed(s, t) == IsStream(t) /\ t.ok = FALSE /\ t.buf = s.buf

LEMMA AdvanceFails ==
    ASSUME NEW s, IsStream(s), NEW n, ~s.ok \/ ~ (n <= Room(s))
    PROVE  Failed(s, Advance(s, n))
  <1> DEFINE t == Advance(s, n)
             pos == s.pos + Smaller(n, Room(s))
             enough == (n <= Room(s))
  <1>1. /\ s = [buf |-> s.buf, pos |-> s.pos, ok |-> s.ok, overshoot |-> s.overshoot]
        /\ s.ok \in BOOLEAN
    BY DEF IsStream
  <1>2. t = [s EXCEPT !.pos = pos, !.ok = s.ok /\ enough]
    BY <1>1 DEF Advance
  <1>3. (s.ok /\ enough) = FALSE
    BY <1>1
  <1> HIDE DEF pos, t, enough
  <1>4. t = [buf |-> s.buf, pos |-> pos, ok |-> FALSE, overshoot |-> s.overshoot]
    BY <1>1, <1>2, <1>3
  <1> QED BY <1>4 DEF Failed, IsStream, t

\* An integer whose bytes come next.
LEMMA ReadsInteger ==
    ASSUME NEW s, Reader(s), NEW v \in U64, NEW rest \in Seq(Byte),
           Before(s, Encode(v), rest)
    PROVE  ReadInt(s) = [stream |-> Passed(s, Len(Encode(v))), value |-> v]
  <1>1. Decode(Seek(s)) = [value |-> v, calls |-> Len(Encode(v))]
    BY IntegerRoundTrip DEF Before
  <1> DEFINE e == Encode(v)
  <1>2. e \in Seq(Byte) /\ Before(s, e, rest)
    BY EncodeType
  <1> HIDE DEF e
  <1>3. Len(e) \in Nat /\ Room(s) = Len(e) + Len(rest) /\ Len(rest) \in Nat
    BY <1>2, PassedOver
  <1>4. Len(e) <= Room(s)
    BY <1>3
  <1>5. Advance(s, Len(e)) = Passed(s, Len(e))
    BY <1>3, <1>4, AdvanceWhole
  <1> QED BY <1>1, <1>5 DEF ReadInt, e

\* An integer whose bytes do not all come next.
LEMMA IntegerFails ==
    ASSUME NEW s, Reader(s), NEW v \in U64, Room(s) < Len(Encode(v)),
           \A i \in 1 .. Room(s) : Seek(s)[i] = Encode(v)[i]
    PROVE  Failed(s, ReadInt(s).stream)
  <1>1. Seek(s) \in Seq(Byte) /\ Len(Seek(s)) = Room(s)
    BY Ahead
  <1>2. ~ (Decode(Seek(s)).calls <= Room(s))
    BY <1>1, DecodeCut
  <1>3. IsStream(s)
    BY DEF Reader
  <1>4. ReadInt(s).stream = Advance(s, Decode(Seek(s)).calls)
    BY DEF ReadInt
  <1> QED BY <1>2, <1>3, <1>4, AdvanceFails

\* What begins with some bytes is those and a rest.
LEMMA Split ==
    ASSUME NEW q \in Seq(Byte), NEW a \in Seq(Byte), Len(a) <= Len(q),
           \A i \in 1 .. Len(a) : q[i] = a[i]
    PROVE  \E rest \in Seq(Byte) : q = a \o rest /\ Len(q) = Len(a) + Len(rest)
  <1> DEFINE n == Len(q)
             m == Len(a)
             rest == SubSeq(q, m + 1, n)
             all == a \o rest
  <1>1. n \in Nat /\ m \in Nat /\ m <= n /\ \A i \in 1 .. n : q[i] \in Byte
    OBVIOUS
  <1>2. Len(q) = n /\ Len(a) = m /\ \A i \in 1 .. m : q[i] = a[i]
    OBVIOUS
  <1> HIDE DEF n, m
  <1>3. m + 1 \in Int /\ n \in Int /\ \A i \in m + 1 .. n : q[i] \in Byte
    BY <1>1
  <1>4. /\ rest \in Seq(Byte) /\ Len(rest) = (IF m + 1 <= n THEN n - (m + 1) + 1 ELSE 0)
        /\ \A i \in 1 .. n - (m + 1) + 1 : rest[i] = q[m + 1 + i - 1]
    BY <1>3, SubSeqProperties
  <1> HIDE DEF rest
  <1>5. Len(rest) = n - m /\ \A i \in 1 .. n - m : rest[i] = q[m + i]
    <2>1. (IF m + 1 <= n THEN n - (m + 1) + 1 ELSE 0) = n - m /\ n - (m + 1) + 1 = n - m
      BY <1>1
    <2>2. \A i \in 1 .. n - m : m + 1 + i - 1 = m + i
      BY <1>1
    <2> QED BY <1>4, <2>1, <2>2
  <1>6. /\ all \in Seq(Byte) /\ Len(all) = Len(a) + Len(rest)
        /\ \A i \in 1 .. Len(all) : all[i] = IF i <= Len(a) THEN a[i] ELSE rest[i - Len(a)]
    BY <1>4, ConcatProperties
  <1> HIDE DEF all
  <1>7. Len(all) = n
    BY <1>1, <1>2, <1>5, <1>6
  <1>8. ASSUME NEW i \in 1 .. n PROVE all[i] = q[i]
    <2>1. CASE i <= m
      <3>1. i \in 1 .. m
        BY <1>1, <2>1
      <3> QED BY <1>2, <1>6, <1>7, <2>1, <3>1
    <2>2. CASE ~ (i <= m)
      <3>1. i - m \in 1 .. n - m /\ m + (i - m) = i
        BY <1>1, <2>2
      <3> QED BY <1>2, <1>5, <1>6, <1>7, <2>2, <3>1
    <2> QED BY <2>1, <2>2
  <1>9. q = all
    BY <1>2, <1>6, <1>7, <1>8, SeqEqual
  <1>10. Len(q) = Len(a) + Len(rest)
    BY <1>1, <1>2, <1>5
  <1> QED BY <1>4, <1>9, <1>10 DEF all

\* A buffer after its length.
Framed(b) == Encode(LengthOf(b)) \o b

\* operator>>() of a buffer whose length was read.
LEMMA ReadsBuffer ==
    ASSUME NEW s, Reader(s), NEW b \in Contents, NEW rest \in Seq(Byte),
           Before(s, Framed(b), rest)
    PROVE  ReadBuf(s) = [stream |-> Passed(s, Len(Framed(b))), value |-> b]
  <1> DEFINE e == Encode(LengthOf(b))
             t == Passed(s, Len(e))
             tail == b \o rest
             n == Len(b)
  <1>1. /\ b \in Seq(Byte) /\ n \in 0 .. 3 /\ LengthOf(b) \in U64
        /\ LengthOf(b)[5] = 0 /\ LengthOf(b)[6] = 0 /\ LengthOf(b)[7] = 0 /\ LengthOf(b)[8] = n
    BY Buffers
  <1>2. e \in Seq(Byte) /\ Len(e) \in Nat
    BY <1>1, EncodeType
  <1>3. Before(s, e, tail) /\ tail \in Seq(Byte) /\ Len(tail) = n + Len(rest) /\ Len(rest) \in Nat
    <2>1. (e \o b) \o rest = e \o (b \o rest)
      <3>1. e \in Seq(Byte) /\ b \in Seq(Byte) /\ rest \in Seq(Byte)
        BY <1>1, <1>2
      <3> HIDE DEF e
      <3> QED BY <3>1, ConcatAssociative
    <2>2. Before(s, e, tail)
      BY <2>1 DEF Before, Framed
    <2> QED BY <1>1, <2>2
  <1>4. ReadInt(s) = [stream |-> t, value |-> LengthOf(b)]
    BY <1>1, <1>3, ReadsInteger
  <1>5. /\ Reader(t) /\ Seek(t) = tail /\ Room(t) = Len(tail)
    BY <1>2, <1>3, PassedOver
  <1>6. Len(e \o b) = Len(e) + n
    BY <1>1, <1>2
  <1> HIDE DEF e, tail, n
  <1>7. ~ Exceeds(LengthOf(b), Room(t)) /\ LengthOf(b)[7] * 256 + LengthOf(b)[8] = n
    <2>1. 0 * 256 + n = n /\ ~ (0 * 256 + n > n + Len(rest)) /\ ~ (0 + 0 > 0)
      BY <1>1, <1>3
    <2> QED BY <1>1, <1>3, <1>5, <2>1 DEF Exceeds
  <1> HIDE DEF t
  <1>8. ReadBuf(s) = [stream |-> [t EXCEPT !.pos = t.pos + n, !.ok = t.ok /\ TRUE],
                      value  |-> SubSeq(tail, 1, n)]
    <2>1. ReadInt(s).stream = t /\ ReadInt(s).value = LengthOf(b)
      BY <1>4
    <2> QED BY <1>5, <1>7, <2>1, ZenonT(60) DEF ReadBuf
  <1>9. [t EXCEPT !.pos = t.pos + n, !.ok = t.ok /\ TRUE] = Passed(s, Len(e) + n)
    <2> DEFINE p  == s.pos
               le == Len(e)
               q  == p + le + n
    <2>1. p \in Nat /\ le \in Nat /\ n \in Nat
      BY <1>1, <1>2 DEF Reader
    <2>2. /\ s = [buf |-> s.buf, pos |-> s.pos, ok |-> s.ok, overshoot |-> s.overshoot]
          /\ s.ok = TRUE
      BY DEF Reader, IsStream
    <2> DEFINE pl == s.pos + le
               pn == s.pos + (le + n)
    <2>3. t = [s EXCEPT !.pos = pl] /\ Passed(s, Len(e) + n) = [s EXCEPT !.pos = pn]
      BY DEF Passed, t
    <2>4. pl + n = pn
      BY <2>1
    <2> HIDE DEF p, le, pl, pn
    <2>5. t = [buf |-> s.buf, pos |-> pl, ok |-> TRUE, overshoot |-> s.overshoot]
      BY <2>2, <2>3
    <2> DEFINE u == [s EXCEPT !.pos = pn]
    <2>6. u = [buf |-> s.buf, pos |-> pn, ok |-> TRUE, overshoot |-> s.overshoot]
      <3>1. u = [s EXCEPT !.pos = pn]
        OBVIOUS
      <3> HIDE DEF u
      <3> QED BY <2>2, <3>1
    <2>7. t.pos + n = pn /\ (t.ok /\ TRUE) = TRUE
      BY <2>4, <2>5
    <2> DEFINE x == [t EXCEPT !.pos = pn, !.ok = TRUE]
    <2>8. x = [buf |-> s.buf, pos |-> pn, ok |-> TRUE, overshoot |-> s.overshoot]
      <3>1. x = [t EXCEPT !.pos = pn, !.ok = TRUE]
        OBVIOUS
      <3> HIDE DEF x
      <3> QED BY <2>5, <3>1
    <2> QED BY <2>3, <2>6, <2>7, <2>8
  <1>10. SubSeq(tail, 1, n) = b
    <2>1. CASE n = 0
      <3>1. b = <<>>
        BY <1>1, <2>1, EmptySeq DEF n
      <3>2. SubSeq(tail, 1, 0) = <<>>
        BY SubSeqEmpty
      <3> QED BY <2>1, <3>1, <3>2
    <2>2. CASE n # 0
      <3>1. 1 \in 1 .. Len(b) /\ Len(b) \in 1 .. Len(b)
        BY <1>1, <2>2 DEF n
      <3>2. SubSeq(b \o rest, 1, Len(b)) = SubSeq(b, 1, Len(b))
        BY <1>1, <3>1, SubSeqOfConcat1
      <3>3. SubSeq(b, 1, Len(b)) = b
        BY <1>1, SubSeqFull
      <3> QED BY <3>2, <3>3 DEF tail, n
    <2> QED BY <2>1, <2>2
  <1> QED BY <1>6, <1>8, <1>9, <1>10 DEF e, Framed

\* An item is read back from its bytes.
LEMMA ReadsWhole ==
    ASSUME NEW s, Reader(s), NEW item \in Items, NEW rest \in Seq(Byte),
           Before(s, Wire(item), rest)
    PROVE  ReadItem(s, item.kind) = [stream |-> Passed(s, Len(Wire(item))), value |-> item.value]
  <1> DEFINE word == Word(item)
             t == Passed(s, Len(Wire(item)))
  <1>0. ASSUME item.kind # "float", item.kind # "buf"
        PROVE  word \in U64 /\ ReadInt(s) = [stream |-> t, value |-> word]
    <2>1. Wire(item) = Encode(word)
      BY <1>0 DEF Wire
    <2>2. word \in U64
      BY <1>0, WordType
    <2> HIDE DEF word
    <2> QED BY <2>1, <2>2, ReadsInteger
  <1> HIDE DEF t
  <1>1. CASE item.kind = "uint64"
    <2>1. word = item.value
      BY <1>1 DEF Word
    <2> QED BY <1>0, <1>1, <2>1 DEF ReadItem, t
  <1>2. CASE item.kind = "int16"
    <2>1. item.value \in Seq(Byte) /\ Len(item.value) = 2
      BY <1>2, Kinds
    <2>2. word = Extend(item.value, TRUE)
      BY <1>2 DEF Word
    <2>3. Narrow(Extend(item.value, TRUE), 2) = item.value
      <3>1. Len(item.value) \in 1 .. 8
        BY <2>1
      <3> QED BY <2>1, <3>1, NarrowRoundTrip
    <2> HIDE DEF word
    <2>4. ReadInt(s) = [stream |-> t, value |-> word]
      BY <1>0, <1>2
    <2> DEFINE u == [ReadInt(s) EXCEPT !.value = Narrow(ReadInt(s).value, 2)]
    <2>5. u = [stream |-> t, value |-> item.value]
      <3>1. ReadInt(s).value = word
        BY <2>4
      <3>2. u = [ReadInt(s) EXCEPT !.value = item.value]
        BY <2>2, <2>3, <3>1
      <3> HIDE DEF u
      <3> QED BY <2>4, <3>2
    <2>6. ReadItem(s, item.kind) = u
      BY <1>2 DEF ReadItem
    <2> QED BY <2>5, <2>6 DEF t
  <1>3. CASE item.kind = "uint8"
    <2>1. item.value \in Seq(Byte) /\ Len(item.value) = 1
      BY <1>3, Kinds
    <2>2. word = Extend(item.value, FALSE)
      BY <1>3 DEF Word
    <2>3. Narrow(Extend(item.value, FALSE), 1) = item.value
      <3>1. Len(item.value) \in 1 .. 8
        BY <2>1
      <3> QED BY <2>1, <3>1, NarrowRoundTrip
    <2> HIDE DEF word
    <2>4. ReadInt(s) = [stream |-> t, value |-> word]
      BY <1>0, <1>3
    <2> DEFINE u == [ReadInt(s) EXCEPT !.value = Narrow(ReadInt(s).value, 1)]
    <2>5. u = [stream |-> t, value |-> item.value]
      <3>1. ReadInt(s).value = word
        BY <2>4
      <3>2. u = [ReadInt(s) EXCEPT !.value = item.value]
        BY <2>2, <2>3, <3>1
      <3> HIDE DEF u
      <3> QED BY <2>4, <3>2
    <2>6. ReadItem(s, item.kind) = u
      BY <1>3 DEF ReadItem
    <2> QED BY <2>5, <2>6 DEF t
  <1>4. CASE item.kind = "bool"
    <2>1. item.value = <<0>> \/ item.value = <<1>>
      BY <1>4, Kinds
    <2>2. word = [i \in 1 .. 8 |-> IF i = 8 THEN item.value[1] ELSE 0]
      BY <1>4 DEF Word
    <2>3. <<IF \E i \in 5 .. 8 : word[i] # 0 THEN 1 ELSE 0>> = item.value
      BY <2>1, <2>2
    <2> HIDE DEF word
    <2>4. ReadInt(s) = [stream |-> t, value |-> word]
      BY <1>0, <1>4
    <2>5. ReadInt(s).stream = t /\ ReadInt(s).value = word
      BY <2>4
    <2> QED BY <1>4, <2>3, <2>5 DEF ReadItem, ReadBool, t
  <1>5. CASE item.kind = "float"
    <2>1. item.value = <<0, 0, 128, 63>> /\ Wire(item) = item.value
      BY <1>5, Kinds DEF Wire
    <2>2. /\ Room(s) = Len(Wire(item)) + Len(rest) /\ Len(rest) \in Nat
          /\ \A i \in 1 .. Len(Wire(item)) : At(Seek(s), i) = Wire(item)[i]
      BY WireType, PassedOver
    <2>3. Len(Wire(item)) = 4
      BY <2>1
    <2>4. Advance(s, 4) = t
      BY <2>2, <2>3, AdvanceWhole DEF t
    <2>5. [i \in 1 .. 4 |-> At(Seek(s), i)] = item.value
      BY <2>1, <2>2, <2>3
    <2> QED BY <1>5, <2>4, <2>5 DEF ReadItem, ReadFloat, t
  <1>6. CASE item.kind = "buf"
    <2>1. item.value \in Contents
      BY <1>6, Kinds
    <2>2. Wire(item) = Framed(item.value)
      BY <1>6 DEF Wire, Word, Framed
    <2>3. ReadBuf(s) = [stream |-> t, value |-> item.value]
      <3>1. Before(s, Framed(item.value), rest)
        BY <2>2
      <3> QED BY <2>1, <2>2, <3>1, ReadsBuffer DEF t
    <2> QED BY <1>6, <2>3 DEF ReadItem, t
  <1> QED BY <1>1, <1>2, <1>3, <1>4, <1>5, <1>6, Kinds

\* operator>>() of a buffer fails with its length, and when the bytes are fewer.
LEMMA BufferFails ==
    ASSUME NEW s, IsStream(ReadInt(s).stream), ReadInt(s).stream.buf = s.buf,
           \/ ReadInt(s).stream.ok = FALSE
           \/ Exceeds(ReadInt(s).value, Room(ReadInt(s).stream))
    PROVE  Failed(s, ReadBuf(s).stream)
  <1> DEFINE t == ReadInt(s).stream
             long == Exceeds(ReadInt(s).value, Room(t))
             n == IF long THEN Room(t) ELSE ReadInt(s).value[7] * 256 + ReadInt(s).value[8]
             pos == t.pos + n
             ok == t.ok /\ ~long
             u == ReadBuf(s).stream
  <1>1. u = [t EXCEPT !.pos = pos, !.ok = ok]
    BY DEF ReadBuf
  <1>2. /\ t = [buf |-> t.buf, pos |-> t.pos, ok |-> t.ok, overshoot |-> t.overshoot]
        /\ t.buf = s.buf
    BY DEF IsStream
  <1>3. ok = FALSE
    OBVIOUS
  <1> HIDE DEF u, ok, pos, t
  <1>4. u = [buf |-> s.buf, pos |-> pos, ok |-> FALSE, overshoot |-> t.overshoot]
    BY <1>1, <1>2, <1>3
  <1> QED BY <1>4 DEF Failed, IsStream, u

\* An integer's stream is a failed one when it was that before.
LEMMA IntegerStaysFailed ==
    ASSUME NEW s, IsStream(s), s.ok = FALSE
    PROVE  Failed(s, ReadInt(s).stream)
  <1>1. ReadInt(s).stream = Advance(s, Decode(Seek(s)).calls)
    BY DEF ReadInt
  <1> QED BY <1>1, AdvanceFails

\* The stream that is left by reading an item of the kinds that are one integer.
LEMMA OneInteger ==
    ASSUME NEW s, NEW kind \in {"uint64", "int16", "uint8", "bool"}
    PROVE  ReadItem(s, kind).stream = ReadInt(s).stream
  <1> DEFINE r == ReadInt(s)
             d == Decode(Seek(s))
             narrow(n) == [r EXCEPT !.value = Narrow(r.value, n)]
  <1>1. r = [stream |-> Advance(s, d.calls), value |-> d.value]
    BY DEF ReadInt
  <1>2. narrow(2).stream = r.stream /\ narrow(1).stream = r.stream
    <2> HIDE DEF d
    <2> QED BY <1>1
  <1>3. ReadBool(s).stream = r.stream
    BY DEF ReadBool
  <1> HIDE DEF r
  <1> QED BY <1>2, <1>3 DEF ReadItem, r

\* Reading after a failure fails.
LEMMA StaysFailed ==
    ASSUME NEW s, IsStream(s), s.ok = FALSE, NEW item \in Items
    PROVE  Failed(s, ReadItem(s, item.kind).stream)
  <1>1. Failed(s, ReadInt(s).stream)
    BY IntegerStaysFailed
  <1>2. CASE item.kind \in {"uint64", "int16", "uint8", "bool"}
    BY <1>1, <1>2, OneInteger
  <1>3. CASE item.kind = "float"
    <2>1. ReadItem(s, item.kind).stream = Advance(s, 4)
      BY <1>3 DEF ReadItem, ReadFloat
    <2> QED BY <2>1, AdvanceFails
  <1>4. CASE item.kind = "buf"
    <2>1. ReadItem(s, item.kind) = ReadBuf(s)
      BY <1>4 DEF ReadItem
    <2>2. Failed(s, ReadBuf(s).stream)
      BY <1>1, BufferFails DEF Failed
    <2> QED BY <2>1, <2>2
  <1> QED BY <1>2, <1>3, <1>4, Kinds

\* And so does passing over.
LEMMA SkipFails ==
    ASSUME NEW s, IsStream(s), ~s.ok \/ ~ (4 <= Room(s))
    PROVE  Failed(s, Skip(s, 4))
  <1> DEFINE t == Skip(s, 4)
             pos == s.pos + 4
  <1>1. /\ s = [buf |-> s.buf, pos |-> s.pos, ok |-> s.ok, overshoot |-> s.overshoot]
        /\ s.ok \in BOOLEAN
    BY DEF IsStream
  <1>2. \/ s.ok = FALSE /\ t = [s EXCEPT !.pos = pos]
        \/ t = [s EXCEPT !.ok = FALSE]
    <2>1. CASE Room(s) >= 4
      <3>1. s.ok = FALSE
        BY <1>1, <2>1
      <3> QED BY <2>1, <3>1 DEF Skip
    <2>2. CASE ~ (Room(s) >= 4)
      BY <2>2 DEF Skip, Fail
    <2> QED BY <2>1, <2>2
  <1> HIDE DEF t, pos
  <1>3. \/ t = [buf |-> s.buf, pos |-> pos, ok |-> FALSE, overshoot |-> s.overshoot]
        \/ t = [buf |-> s.buf, pos |-> s.pos, ok |-> FALSE, overshoot |-> s.overshoot]
    BY <1>1, <1>2
  <1>4. \E p : t = [buf |-> s.buf, pos |-> p, ok |-> FALSE, overshoot |-> s.overshoot]
    BY <1>3
  <1>5. Failed(s, t)
    BY <1>4 DEF Failed, IsStream
  <1> QED BY <1>5 DEF t

\* An item of which only some bytes come next.
LEMMA ReadsCut ==
    ASSUME NEW s, Reader(s), NEW item \in Items, Room(s) < Len(Wire(item)),
           \A i \in 1 .. Room(s) : Seek(s)[i] = Wire(item)[i]
    PROVE  Failed(s, ReadItem(s, item.kind).stream)
  <1>0. IsStream(s) /\ Room(s) \in Nat /\ Seek(s) \in Seq(Byte) /\ Len(Seek(s)) = Room(s)
    BY Ahead DEF Reader
  <1>1. CASE item.kind \in {"uint64", "int16", "uint8", "bool"}
    <2>1. Wire(item) = Encode(Word(item)) /\ Word(item) \in U64
      BY <1>1, WordType DEF Wire
    <2>2. Failed(s, ReadInt(s).stream)
      BY <2>1, IntegerFails
    <2> QED BY <1>1, <2>2, OneInteger
  <1>2. CASE item.kind = "float"
    <2>1. ReadItem(s, item.kind).stream = Advance(s, 4)
      BY <1>2 DEF ReadItem, ReadFloat
    <2>2. Len(Wire(item)) = 4
      <3>1. Wire(item) = <<0, 0, 128, 63>>
        BY <1>2, Kinds DEF Wire
      <3> QED BY <3>1
    <2>3. ~ (4 <= Room(s))
      BY <1>0, <2>2
    <2> QED BY <1>0, <2>1, <2>3, AdvanceFails
  <1>3. CASE item.kind = "buf"
    <2> DEFINE b == item.value
               v == LengthOf(b)
               e == Encode(v)
    <2>1. ReadItem(s, item.kind) = ReadBuf(s) /\ Wire(item) = e \o b
      BY <1>3 DEF ReadItem, Wire, Word
    <2>2. /\ b \in Seq(Byte) /\ Len(b) \in 0 .. 3 /\ v \in U64
          /\ v[5] = 0 /\ v[6] = 0 /\ v[7] = 0 /\ v[8] = Len(b)
      <3>1. b \in Contents
        BY <1>3, Kinds
      <3> HIDE DEF b
      <3> QED BY <3>1, Buffers
    <2>3. e \in Seq(Byte) /\ Len(e) \in Nat
      BY <2>2, EncodeType
    <2> DEFINE w == Wire(item)
    <2>4. /\ Len(w) = Len(e) + Len(b) /\ \A i \in 1 .. Len(e) : w[i] = e[i]
      <3> HIDE DEF e, b
      <3> QED BY <2>1, <2>2, <2>3
    <2>5. Room(s) < Len(w) /\ \A i \in 1 .. Room(s) : Seek(s)[i] = w[i]
      OBVIOUS
    <2> HIDE DEF w, v, b
    <2>6. CASE Room(s) < Len(e)
      <3>1. \A i \in 1 .. Room(s) : Seek(s)[i] = e[i]
        <4>1. \A i \in 1 .. Room(s) : i \in 1 .. Len(e)
          BY <1>0, <2>3, <2>6
        <4> QED BY <2>4, <2>5, <4>1
      <3>2. Failed(s, ReadInt(s).stream)
        BY <2>2, <2>6, <3>1, IntegerFails
      <3>3. Failed(s, ReadBuf(s).stream)
        BY <3>2, BufferFails DEF Failed
      <3> QED BY <2>1, <3>3
    <2>7. CASE ~ (Room(s) < Len(e))
      <3>1. Len(e) <= Len(Seek(s)) /\ \A i \in 1 .. Len(e) : i \in 1 .. Room(s)
        BY <1>0, <2>3, <2>7
      <3>2. \A i \in 1 .. Len(e) : Seek(s)[i] = e[i]
        BY <2>4, <2>5, <3>1
      <3>3. PICK rest \in Seq(Byte) : Seek(s) = e \o rest /\ Len(Seek(s)) = Len(e) + Len(rest)
        <4> HIDE DEF e
        <4> QED BY <1>0, <2>3, <3>1, <3>2, Split
      <3>4. Before(s, e, rest)
        BY <3>3 DEF Before
      <3> DEFINE t == Passed(s, Len(e))
      <3>5. ReadInt(s) = [stream |-> t, value |-> v]
        BY <2>2, <3>4, ReadsInteger
      <3>6. Reader(t) /\ Room(t) = Len(rest) /\ Len(rest) \in Nat
        <4> HIDE DEF e
        <4> QED BY <2>3, <3>4, PassedOver
      <3>7. Len(rest) < Len(b)
        <4>1. Len(e) + Len(rest) < Len(e) + Len(b)
          BY <1>0, <2>4, <2>5, <3>3
        <4>2. Len(rest) \in Nat /\ Len(b) \in Nat
          BY <2>2
        <4> HIDE DEF e
        <4> QED BY <2>3, <4>1, <4>2
      <3>8. Exceeds(v, Room(t))
        <4>1. 0 * 256 + Len(b) > Len(rest)
          BY <2>2, <3>6, <3>7
        <4> HIDE DEF t
        <4> QED BY <2>2, <3>6, <4>1 DEF Exceeds
      <3>9. t.buf = s.buf
        <4> DEFINE pos == s.pos + Len(e)
        <4>1. t = [s EXCEPT !.pos = pos]
          BY DEF Passed
        <4>2. s = [buf |-> s.buf, pos |-> s.pos, ok |-> s.ok, overshoot |-> s.overshoot]
          BY <1>0 DEF IsStream
        <4> HIDE DEF t, pos
        <4> QED BY <4>1, <4>2
      <3> HIDE DEF t
      <3>10. ReadInt(s).stream = t /\ ReadInt(s).value = v
        BY <3>5
      <3>11. Failed(s, ReadBuf(s).stream)
        BY <3>6, <3>8, <3>9, <3>10, BufferFails DEF Reader
      <3> QED BY <2>1, <3>11
    <2> QED BY <2>6, <2>7
  <1> QED BY <1>1, <1>2, <1>3, Kinds

-----------------------------------------------------------------------------
(* Where the items lie *)

\* No item ends after a later one.
LEMMA EndsAscend ==
    ASSUME NEW items \in Seq(Items), NEW ends, Ends(items, ends), NEW n \in 0 .. Len(items)
    PROVE  \A i \in 0 .. n : ends[i] \in Nat /\ ends[i] <= ends[n]
  <1> DEFINE S == {m \in Nat : m <= n => ends[n - m] <= ends[n]}
  <1>1. /\ n \in Nat /\ \A i \in 0 .. n : ends[i] \in Nat
        /\ \A i \in 1 .. n : items[i] \in Items /\ ends[i] = ends[i - 1] + Len(Wire(items[i]))
    <2>1. Len(items) \in Nat /\ \A i \in 1 .. n : i \in 1 .. Len(items)
      OBVIOUS
    <2>2. n \in Nat /\ \A i \in 0 .. n : i \in 0 .. Len(items)
      BY <2>1
    <2>3. \A i \in 1 .. Len(items) : items[i] \in Items
      OBVIOUS
    <2>4. /\ \A i \in 0 .. Len(items) : ends[i] \in Nat
          /\ \A i \in 1 .. Len(items) : ends[i] = ends[i - 1] + Len(Wire(items[i]))
      BY DEF Ends
    <2> QED BY <2>1, <2>2, <2>3, <2>4
  <1>2. 0 \in S
    BY <1>1
  <1>3. ASSUME NEW m \in Nat, m \in S PROVE m + 1 \in S
    <2> SUFFICES ASSUME m + 1 <= n PROVE ends[n - (m + 1)] <= ends[n]
      OBVIOUS
    <2> DEFINE i == n - m
    <2>1. i \in 1 .. n /\ n - (m + 1) = i - 1 /\ i - 1 \in 0 .. n /\ i \in 0 .. n /\ m <= n /\ n \in 0 .. n
      BY <1>1
    <2>2. ends[i] <= ends[n]
      BY <1>3, <2>1
    <2> HIDE DEF i
    <2>3. ends[i] = ends[i - 1] + Len(Wire(items[i])) /\ Len(Wire(items[i])) \in Nat
      BY <1>1, <2>1, WireType
    <2>4. ends[i] \in Nat /\ ends[i - 1] \in Nat /\ ends[n] \in Nat
      BY <1>1, <2>1
    <2>5. ends[i - 1] <= ends[n]
      BY <2>2, <2>3, <2>4
    <2> QED BY <2>1, <2>5
  <1>4. ASSUME NEW i \in 0 .. n PROVE ends[i] <= ends[n]
    <2>1. Nat \subseteq S
      <3> HIDE DEF S
      <3> QED BY <1>2, <1>3, SetInduction
    <2>2. n - i \in Nat /\ n - i <= n /\ n - (n - i) = i
      BY <1>1
    <2> QED BY <2>1, <2>2
  <1> QED BY <1>1, <1>4

\* The item after those that lie in a stream is written after them.
LEMMA OneMore ==
    ASSUME NEW items \in Seq(Items), NEW ends, Ends(items, ends),
           NEW n \in Nat, n + 1 <= Len(items),
           NEW s, Laid(s, items, ends, n), NEW t, Adds(s, Wire(items[n + 1]), t)
    PROVE  Laid(t, items, ends, n + 1)
  <1> DEFINE w == Wire(items[n + 1])
  <1>1. /\ Len(items) \in Nat /\ n + 1 \in 1 .. Len(items) /\ items[n + 1] \in Items
        /\ n \in 0 .. Len(items) /\ n + 1 \in 0 .. Len(items)
    OBVIOUS
  <1>2. ends[n] \in Nat /\ ends[n + 1] \in Nat /\ ends[n + 1] = ends[n] + Len(w) /\ Len(w) \in Nat
    <2>1. ends[n + 1] = ends[(n + 1) - 1] + Len(w) /\ (n + 1) - 1 = n
      BY <1>1 DEF Ends
    <2> HIDE DEF w
    <2>2. Len(w) \in Nat
      BY <1>1, WireType DEF w
    <2>3. \A i \in 0 .. Len(items) : ends[i] \in Nat
      BY DEF Ends
    <2> QED BY <1>1, <2>1, <2>2, <2>3
  <1> HIDE DEF w
  <1>3. /\ WriterType(t) /\ t.pos + t.overshoot = s.pos + s.overshoot + Len(w)
        /\ t.ok = (s.ok /\ Len(w) <= Room(s))
        /\ \A i \in 1 .. s.pos : t.buf[i] = s.buf[i]
        /\ t.ok => \A j \in 1 .. Len(w) : t.buf[s.pos + j] = w[j]
    BY DEF Adds, w
  <1>4. /\ s.pos \in Nat /\ s.overshoot \in Nat /\ (s.ok => s.overshoot = 0)
        /\ s.pos + s.overshoot = ends[n]
    BY DEF Laid, WriterType
  <1>5. t.pos + t.overshoot = ends[n + 1]
    BY <1>2, <1>3, <1>4
  <1>6. ASSUME t.ok, NEW i \in 1 .. n + 1, NEW j \in 1 .. Len(Wire(items[i]))
        PROVE  t.buf[ends[i - 1] + j] = Wire(items[i])[j]
    <2>1. s.ok /\ s.pos = ends[n]
      <3>1. s.ok /\ s.overshoot = 0
        BY <1>3, <1>4, <1>6
      <3>2. s.pos + 0 = s.pos
        BY <1>4
      <3> QED BY <1>4, <3>1, <3>2
    <2>2. CASE i = n + 1
      <3>1. i - 1 = n /\ items[i] = items[n + 1]
        BY <2>2
      <3>2. j \in 1 .. Len(w)
        BY <2>2 DEF w
      <3>3. t.buf[s.pos + j] = w[j]
        BY <1>3, <1>6, <3>2
      <3> QED BY <2>1, <3>1, <3>3 DEF w
    <2>3. CASE i # n + 1
      <3>1. i \in 1 .. n /\ i \in 1 .. Len(items) /\ i - 1 \in 0 .. n /\ i - 1 \in 0 .. Len(items)
            /\ i \in 0 .. Len(items)
        BY <1>1, <2>3
      <3>2. s.buf[ends[i - 1] + j] = Wire(items[i])[j]
        BY <2>1, <3>1 DEF Laid
      <3>3. ends[i] = ends[i - 1] + Len(Wire(items[i])) /\ ends[i - 1] \in Nat /\ ends[i] \in Nat
        BY <3>1 DEF Ends
      <3>4. ends[i] <= ends[n]
        <4>1. i \in 0 .. n
          BY <3>1
        <4> QED BY <1>1, <4>1, EndsAscend
      <3>5. ends[i - 1] + j \in 1 .. s.pos
        <4> DEFINE lw == Len(Wire(items[i]))
        <4>1. lw \in Nat /\ j \in 1 .. lw /\ ends[i] = ends[i - 1] + lw
          BY <3>1, <3>3, WireType
        <4> HIDE DEF lw
        <4> QED BY <1>4, <2>1, <3>3, <3>4, <4>1, SMTT(20)
      <3> QED BY <1>3, <3>2, <3>5
    <2> QED BY <2>2, <2>3
  <1> QED BY <1>3, <1>5, <1>6 DEF Laid

\* Where the items end, with one more.
LEMMA EndsMore ==
    ASSUME NEW items \in Seq(Items), NEW ends, Ends(items, ends), NEW item \in Items
    PROVE  \E more : /\ Ends(Append(items, item), more)
                     /\ \A i \in 0 .. Len(items) : more[i] = ends[i]
  <1> DEFINE n == Len(items)
             all == Append(items, item)
             last == ends[n] + Len(Wire(item))
             more == [i \in 0 .. n + 1 |-> IF i = n + 1 THEN last ELSE ends[i]]
  <1>1. /\ n \in Nat /\ Len(all) = n + 1 /\ all \in Seq(Items) /\ all[n + 1] = item
        /\ \A i \in 1 .. n : all[i] = items[i]
    OBVIOUS
  <1>2. /\ \A i \in 0 .. n : ends[i] \in Nat
        /\ ends[0] = 0
        /\ \A i \in 1 .. n : ends[i] = ends[i - 1] + Len(Wire(items[i]))
    BY DEF Ends
  <1> HIDE DEF all, n
  <1>3. last \in Nat
    <2>1. Len(Wire(item)) \in Nat /\ n \in 0 .. n
      BY <1>1, WireType
    <2> QED BY <1>2, <2>1
  <1>4. (\A i \in 0 .. n : more[i] = ends[i]) /\ more[n + 1] = last /\ more \in [0 .. n + 1 -> Nat]
    <2>1. \A i \in 0 .. n : i \in 0 .. n + 1 /\ i # n + 1
      BY <1>1
    <2>2. \A i \in 0 .. n + 1 : i # n + 1 => i \in 0 .. n
      BY <1>1
    <2>3. n + 1 \in 0 .. n + 1
      BY <1>1
    <2> HIDE DEF last
    <2> QED BY <1>2, <1>3, <2>1, <2>2, <2>3
  <1> HIDE DEF more
  <1>5. ASSUME NEW i \in 1 .. n + 1 PROVE more[i] = more[i - 1] + Len(Wire(all[i]))
    <2>1. CASE i = n + 1
      <3>1. i - 1 = n /\ n \in 0 .. n
        BY <1>1, <2>1
      <3> QED BY <1>1, <1>4, <2>1, <3>1
    <2>2. CASE i # n + 1
      <3>1. i \in 1 .. n /\ i \in 0 .. n /\ i - 1 \in 0 .. n
        BY <1>1, <2>2
      <3> QED BY <1>1, <1>2, <1>4, <3>1
    <2> QED BY <2>1, <2>2
  <1>6. more[0] = 0
    <2>1. 0 \in 0 .. n
      BY <1>1
    <2> QED BY <1>2, <1>4, <2>1
  <1>7. Ends(all, more)
    BY <1>1, <1>4, <1>5, <1>6 DEF Ends
  <1> QED BY <1>4, <1>7 DEF all, n

\* The streams a writer may have.
Writers == {s \in [buf : Seq(Byte), pos : Nat, ok : BOOLEAN, overshoot : Nat] : WriterType(s)}

LEMMA FreshStream ==
    ASSUME NEW n \in Nat
    PROVE  /\ WriterType(Stream(Zeros(n))) /\ Len(Stream(Zeros(n)).buf) = n
           /\ Stream(Zeros(n)).ok = TRUE /\ Stream(Zeros(n)).pos = 0
           /\ Stream(Zeros(n)).overshoot = 0
  <1> DEFINE z == Zeros(n)
  <1>1. z \in Seq(Byte) /\ Len(z) = n
    BY DEF Zeros, Byte
  <1> HIDE DEF z
  <1>2. Stream(z) = [buf |-> z, pos |-> 0, ok |-> TRUE, overshoot |-> 0]
    BY DEF Stream
  <1>3. /\ Stream(z).buf = z /\ Stream(z).pos = 0 /\ Stream(z).ok = TRUE /\ Stream(z).overshoot = 0
        /\ Stream(z) \in [buf : Seq(Byte), pos : Nat, ok : BOOLEAN, overshoot : Nat]
    BY <1>1, <1>2
  <1> QED BY <1>1, <1>3 DEF WriterType, z

\* Into a buffer as long as they are, all items are written.
LEMMA AllWritten ==
    ASSUME NEW items \in Seq(Items), NEW ends, Ends(items, ends),
           NEW t, t = WriteAll(Stream(Zeros(ends[Len(items)])), items)
    PROVE  /\ Laid(t, items, ends, Len(items)) /\ t.ok = TRUE
           /\ t.overshoot = 0 /\ Room(t) = 0
  <1> DEFINE n == Len(items)
             s == Stream(Zeros(ends[Len(items)]))
             after[i \in 0 .. n] == IF i = 0 THEN s ELSE Write(after[i - 1], items[i])
             next == [i \in 1 .. n |-> [u \in Writers |-> Write(u, items[i])]]
  <1>1. n \in Nat /\ ends[n] \in Nat /\ ends[0] = 0 /\ \A i \in 1 .. n : items[i] \in Items
    <2>1. n \in Nat /\ n \in 0 .. n /\ \A i \in 1 .. n : items[i] \in Items
      OBVIOUS
    <2>2. ends \in [0 .. n -> Nat] /\ ends[0] = 0
      BY DEF Ends
    <2> HIDE DEF n
    <2> QED BY <2>1, <2>2
  <1>2. t = after[n]
    BY DEF WriteAll
  <1>3. /\ WriterType(s) /\ Len(s.buf) = ends[n] /\ s.ok = TRUE /\ s.pos = 0 /\ s.overshoot = 0
    BY <1>1, FreshStream
  <1> HIDE DEF n, s
  <1>4. \A i \in 1 .. n : \A u \in Writers : Write(u, items[i]) \in Writers
    <2> SUFFICES ASSUME NEW i \in 1 .. n, NEW u \in Writers PROVE Write(u, items[i]) \in Writers
      OBVIOUS
    <2>1. Adds(u, Wire(items[i]), Write(u, items[i]))
      BY <1>1, WriteAdds DEF Writers
    <2>2. WriterType(Write(u, items[i]))
      BY <2>1 DEF Adds
    <2> QED BY <2>2 DEF Writers, WriterType
  <1>5. s \in Writers /\ next \in [1 .. n -> [Writers -> Writers]]
    <2>1. s \in Writers
      BY <1>3 DEF Writers, WriterType
    <2>2. \A i \in 1 .. n : [u \in Writers |-> Write(u, items[i])] \in [Writers -> Writers]
      BY <1>4
    <2> QED BY <2>1, <2>2
  <1>6. PICK f : Ascent(f, n, Writers, s, next)
    <2> HIDE DEF next
    <2> QED BY <1>1, <1>5, Ascends
  <1>7. f = [i \in 0 .. n |-> IF i = 0 THEN s ELSE Write(f[i - 1], items[i])]
    <2>1. f \in [0 .. n -> Writers] /\ f[0] = s /\ \A i \in 1 .. n : f[i] = next[i][f[i - 1]]
      BY <1>6 DEF Ascent
    <2>2. \A i \in 0 .. n : i # 0 => i \in 1 .. n /\ i - 1 \in 0 .. n
      BY <1>1
    <2>3. ASSUME NEW i \in 0 .. n, i # 0 PROVE f[i] = Write(f[i - 1], items[i])
      <3>1. i \in 1 .. n /\ f[i - 1] \in Writers
        BY <2>1, <2>2, <2>3
      <3> QED BY <2>1, <3>1
    <2> HIDE DEF next
    <2> QED BY <2>1, <2>3
  <1>8. after = [i \in 0 .. n |-> IF i = 0 THEN s ELSE Write(after[i - 1], items[i])]
    <2>1. after = CHOOSE g : g = [i \in 0 .. n |-> IF i = 0 THEN s ELSE Write(g[i - 1], items[i])]
      BY DEF after
    <2> HIDE DEF after
    <2> QED BY <1>7, <2>1
  <1> HIDE DEF after, next
  <1> DEFINE Good(i) == /\ Laid(after[i], items, ends, i) /\ after[i].ok = TRUE
                        /\ Len(after[i].buf) = ends[n]
             S == {i \in Nat : i <= n => Good(i)}
  <1>9. 0 \in S
    <2>1. after[0] = s
      BY <1>1, <1>8
    <2>2. s.pos + s.overshoot = ends[0]
      BY <1>1, <1>3
    <2>3. \A i \in 1 .. 0 : FALSE
      OBVIOUS
    <2>4. Laid(s, items, ends, 0)
      BY <1>3, <2>2, <2>3 DEF Laid
    <2> QED BY <1>3, <2>1, <2>4
  <1>10. ASSUME NEW i \in Nat, i \in S PROVE i + 1 \in S
    <2> HIDE DEF Good
    <2> SUFFICES ASSUME i + 1 <= n PROVE Good(i + 1)
      OBVIOUS
    <2> DEFINE a == after[i]
               b == after[i + 1]
               w == Wire(items[i + 1])
    <2>1. i <= n /\ i \in 0 .. n /\ i + 1 \in 1 .. n /\ i + 1 \in 0 .. n /\ i + 1 # 0 /\ (i + 1) - 1 = i
      BY <1>1
    <2>2. Laid(a, items, ends, i) /\ a.ok = TRUE /\ Len(a.buf) = ends[n]
      BY <1>10, <2>1 DEF Good
    <2>3. b = Write(a, items[i + 1])
      BY <1>8, <2>1
    <2> HIDE DEF a, b
    <2>4. Adds(a, w, b)
      BY <1>1, <2>1, <2>2, <2>3, WriteAdds DEF Laid
    <2>5. Laid(b, items, ends, i + 1)
      BY <2>1, <2>2, <2>4, OneMore DEF n
    <2>6. Len(w) \in Nat
      BY <1>1, <2>1, WireType
    <2> HIDE DEF w
    <2>7. Len(b.buf) = ends[n] /\ b.ok = (a.ok /\ Len(w) <= Room(a))
      BY <2>2, <2>4 DEF Adds
    <2>8. Len(w) <= Room(a)
      <3>1. a.pos + a.overshoot = ends[i] /\ a.pos \in Nat /\ a.overshoot = 0
        BY <2>2 DEF Laid, WriterType
      <3>2. ends[i + 1] = ends[i] + Len(w)
        <4>1. i + 1 \in 1 .. Len(items)
          BY <2>1 DEF n
        <4> QED BY <2>1, <4>1 DEF Ends, w
      <3>3. ends[i + 1] <= ends[n] /\ ends[i + 1] \in Nat
        <4>1. n \in 0 .. Len(items)
          BY <1>1 DEF n
        <4> QED BY <2>1, <4>1, EndsAscend
      <3>4. Room(a) = ends[n] - a.pos
        BY <2>2 DEF Room
      <3> QED BY <1>1, <2>6, <3>1, <3>2, <3>3, <3>4
    <2>9. b.ok = TRUE
      BY <2>2, <2>7, <2>8
    <2> QED BY <2>5, <2>7, <2>9 DEF Good, b
  <1>11. Good(n)
    <2> HIDE DEF S, Good
    <2>1. Nat \subseteq S
      BY <1>9, <1>10, SetInduction
    <2>2. n \in S /\ n <= n
      BY <1>1, <2>1
    <2> QED BY <2>2 DEF S
  <1> HIDE DEF S
  <1>12. /\ Laid(t, items, ends, n) /\ t.ok = TRUE /\ Len(t.buf) = ends[n]
    BY <1>2, <1>11
  <1>13. t.overshoot = 0 /\ t.pos \in Nat /\ t.pos + t.overshoot = ends[n]
    BY <1>12 DEF Laid, WriterType
  <1>14. Room(t) = 0
    BY <1>1, <1>12, <1>13 DEF Room
  <1> QED BY <1>12, <1>13, <1>14 DEF n

-----------------------------------------------------------------------------
(* The reader's place *)

\* The bytes before a reader that stands at the beginning of an item.
LEMMA ItemAhead ==
    ASSUME NEW items \in Seq(Items), NEW ends, Ends(items, ends),
           NEW s, Laid(s, items, ends, Len(items)), s.ok,
           NEW r, Reader(r), Len(r.buf) <= s.pos, \A i \in 1 .. Len(r.buf) : r.buf[i] = s.buf[i],
           NEW k \in Nat, k + 1 <= Len(items), r.pos = ends[k]
    PROVE  /\ ends[k + 1] = ends[k] + Len(Wire(items[k + 1])) /\ items[k + 1] \in Items
           /\ ends[k + 1] <= ends[Len(items)]
           /\ ends[k] \in Nat /\ ends[k + 1] \in Nat /\ ends[Len(items)] \in Nat
           /\ \/ /\ ends[k + 1] <= Len(r.buf)
                 /\ \E rest \in Seq(Byte) : Before(r, Wire(items[k + 1]), rest)
              \/ /\ Len(r.buf) < ends[k + 1] /\ Room(r) < Len(Wire(items[k + 1]))
                 /\ \A i \in 1 .. Room(r) : Seek(r)[i] = Wire(items[k + 1])[i]
  <1> DEFINE n == Len(items)
             w == Wire(items[k + 1])
             lw == Len(w)
             m == Len(r.buf)
             here == ends[k]
             there == ends[k + 1]
  <1>1. /\ n \in Nat /\ k + 1 \in 1 .. n /\ k \in 0 .. n /\ k + 1 \in 0 .. n /\ n \in 0 .. n
        /\ (k + 1) - 1 = k /\ items[k + 1] \in Items
    OBVIOUS
  <1>2. w \in Seq(Byte) /\ lw \in Nat
    BY <1>1, WireType
  <1>3. there = here + lw /\ here \in Nat /\ there \in Nat /\ ends[n] \in Nat
    BY <1>1 DEF Ends
  <1>4. there <= ends[n]
    BY <1>1, EndsAscend
  <1>5. \A j \in 1 .. lw : s.buf[here + j] = w[j]
    <2>1. \A j \in 1 .. Len(Wire(items[k + 1])) : s.buf[ends[(k + 1) - 1] + j] = Wire(items[k + 1])[j]
      BY <1>1 DEF Laid
    <2> QED BY <1>1, <2>1
  <1>6. /\ Seek(r) \in Seq(Byte) /\ Len(Seek(r)) = Room(r) /\ Room(r) \in Nat
        /\ \A i \in 1 .. Room(r) : Seek(r)[i] = r.buf[r.pos + i]
    BY Ahead
  <1>7. Room(r) = m - here /\ m \in Nat /\ \A i \in 1 .. m : r.buf[i] = s.buf[i]
    BY DEF Room, Reader
  <1> HIDE DEF w, n, m, here, there, lw
  <1>8. ASSUME NEW i \in 1 .. Room(r), i <= lw PROVE Seek(r)[i] = w[i]
    <2>1. i \in 1 .. lw /\ here + i \in 1 .. m
      BY <1>2, <1>3, <1>6, <1>7, <1>8
    <2>2. Seek(r)[i] = r.buf[here + i]
      BY <1>6 DEF here
    <2> QED BY <1>5, <1>7, <2>1, <2>2
  <1>9. CASE there <= m
    <2>1. lw <= Room(r) /\ \A i \in 1 .. lw : i \in 1 .. Room(r) /\ i <= lw
      BY <1>2, <1>3, <1>7, <1>9
    <2>2. Len(w) <= Len(Seek(r)) /\ \A i \in 1 .. Len(w) : Seek(r)[i] = w[i]
      BY <1>6, <1>8, <2>1 DEF lw
    <2>3. PICK rest \in Seq(Byte) : Seek(r) = w \o rest
      BY <1>2, <1>6, <2>2, Split
    <2>4. Before(r, w, rest)
      BY <2>3 DEF Before
    <2> QED BY <1>1, <1>3, <1>4, <1>9, <2>4 DEF w, n, m, here, there, lw
  <1>10. CASE ~ (there <= m)
    <2>1. m < there /\ Room(r) < lw /\ \A i \in 1 .. Room(r) : i <= lw
      BY <1>2, <1>3, <1>7, <1>10
    <2> QED BY <1>1, <1>3, <1>4, <1>8, <2>1 DEF w, n, m, here, there, lw
  <1> QED BY <1>9, <1>10

\* A sequence of whatever, with one element more.
LEMMA Appended ==
    ASSUME NEW q, IsSequence(q), NEW x
    PROVE  /\ IsSequence(Append(q, x)) /\ Len(q) \in Nat /\ Len(Append(q, x)) = Len(q) + 1
           /\ Append(q, x)[Len(q) + 1] = x
           /\ \A i \in 1 .. Len(q) : Append(q, x)[i] = q[i]
  <1>1. PICK S : q \in Seq(S)
    BY DEF IsSequence
  <1> DEFINE T == S \cup {x}
             more == Append(q, x)
  <1>2. q \in Seq(T) /\ x \in T
    <2>1. S \subseteq T /\ x \in T
      OBVIOUS
    <2>2. \A i \in 1 .. Len(q) : q[i] \in S
      BY <1>1, ElementOfSeq
    <2> HIDE DEF T
    <2> QED BY <1>1, <2>1, <2>2, SeqMonotonic
  <1> HIDE DEF T
  <1>3. /\ more \in Seq(T) /\ Len(more) = Len(q) + 1 /\ Len(q) \in Nat
        /\ \A i \in 1 .. Len(q) : more[i] = q[i]
        /\ more[Len(q) + 1] = x
    BY <1>2, AppendProperties
  <1> HIDE DEF more
  <1>4. IsSequence(more)
    BY <1>3 DEF IsSequence
  <1> QED BY <1>3, <1>4 DEF more

\* What taking an item, or passing over it, does to the reader: it stands after it with the
\* item, or it failed for want of bytes.
Moves(r, t, taken, x, items, ends) ==
    \/ /\ r.ok /\ t = Passed(r, Len(Wire(items[Len(taken) + 1]))) /\ x = items[Len(taken) + 1]
       /\ ends[Len(taken) + 1] <= Len(r.buf)
    \/ Failed(r, t) /\ Len(r.buf) < ends[Len(items)]

LEMMA FollowsOn ==
    ASSUME NEW items \in Seq(Items), NEW ends, Ends(items, ends), NEW s, NEW r, NEW taken,
           Follows(r, taken, s, items, ends), Len(taken) < Len(items),
           NEW t, NEW x, Moves(r, t, taken, x, items, ends)
    PROVE  Follows(t, Append(taken, x), s, items, ends)
  <1> DEFINE k == Len(taken)
             all == Append(taken, x)
             w == Len(Wire(items[k + 1]))
  <1>1. /\ IsStream(r) /\ r.buf \in Seq(Byte) /\ Len(r.buf) <= s.pos
        /\ \A i \in 1 .. Len(r.buf) : r.buf[i] = s.buf[i]
        /\ r.ok => /\ r.pos = ends[k] /\ \A i \in 1 .. k : taken[i] = items[i]
    BY DEF Follows
  <1>2. /\ IsSequence(all) /\ k \in Nat /\ Len(all) = k + 1 /\ all[k + 1] = x
        /\ \A i \in 1 .. k : all[i] = taken[i]
    BY Appended DEF Follows
  <1>3. k + 1 <= Len(items) /\ k + 1 \in 1 .. Len(items) /\ (k + 1) - 1 = k
    <2>1. Len(items) \in Nat
      OBVIOUS
    <2> QED BY <1>2, <2>1
  <1> HIDE DEF all
  <1>4. CASE Failed(r, t) /\ Len(r.buf) < ends[Len(items)]
    <2>1. IsStream(t) /\ t.ok = FALSE /\ t.buf = r.buf
      BY <1>4 DEF Failed
    <2> QED BY <1>1, <1>2, <1>3, <1>4, <2>1 DEF Follows, all
  <1>5. CASE r.ok /\ t = Passed(r, w) /\ x = items[k + 1] /\ ends[k + 1] <= Len(r.buf)
    <2>1. ends[k + 1] = ends[k] + w
      BY <1>3 DEF Ends
    <2> DEFINE pos == r.pos + w
    <2>2. t = [r EXCEPT !.pos = pos]
      BY <1>5 DEF Passed
    <2>3. pos = ends[k + 1]
      BY <1>1, <1>5, <2>1
    <2>4. /\ r = [buf |-> r.buf, pos |-> r.pos, ok |-> r.ok, overshoot |-> r.overshoot]
          /\ r.ok = TRUE
      BY <1>1, <1>5 DEF IsStream
    <2> HIDE DEF pos, w
    <2>5. t = [buf |-> r.buf, pos |-> pos, ok |-> TRUE, overshoot |-> r.overshoot]
      BY <2>2, <2>4
    <2>6. IsStream(t) /\ t.buf = r.buf /\ t.pos = ends[k + 1] /\ t.ok = TRUE
      BY <2>3, <2>5 DEF IsStream
    <2>7. ASSUME NEW i \in 1 .. k + 1 PROVE all[i] = items[i]
      <3>1. CASE i = k + 1
        BY <1>2, <1>5, <3>1
      <3>2. CASE i # k + 1
        <4>1. i \in 1 .. k
          BY <1>2, <3>2
        <4> QED BY <1>1, <1>2, <1>5, <4>1
      <3> QED BY <3>1, <3>2
    <2>8. t.pos <= Len(t.buf)
      BY <1>5, <2>6
    <2> HIDE DEF k
    <2> QED BY <1>1, <1>2, <1>3, <2>6, <2>7, <2>8 DEF Follows, all
  <1> QED BY <1>4, <1>5 DEF Moves

\* Every read of the next item moves the reader so.
LEMMA ReadMoves ==
    ASSUME NEW items \in Seq(Items), NEW ends, Ends(items, ends),
           NEW s, Laid(s, items, ends, Len(items)), s.ok,
           NEW r, NEW taken, Follows(r, taken, s, items, ends), Len(taken) < Len(items),
           NEW item, item = items[Len(taken) + 1]
    PROVE  /\ Moves(r, ReadItem(r, item.kind).stream, taken,
                    Item(item.kind, ReadItem(r, item.kind).value), items, ends)
           /\ item.kind = "float" => Moves(r, Skip(r, 4), taken, item, items, ends)
  <1> DEFINE k == Len(taken)
             w == Wire(item)
             q == ReadItem(r, item.kind)
             n == Len(items)
  <1>1. /\ IsStream(r) /\ r.buf \in Seq(Byte) /\ Len(r.buf) <= s.pos /\ Len(r.buf) \in Nat
        /\ \A i \in 1 .. Len(r.buf) : r.buf[i] = s.buf[i]
        /\ r.ok => r.pos = ends[k] /\ r.pos <= Len(r.buf)
        /\ ~r.ok => Len(r.buf) < ends[n]
        /\ r.ok \in BOOLEAN
    BY DEF Follows, IsStream
  <1>2. k \in Nat /\ k + 1 <= n /\ k + 1 \in 1 .. n /\ k \in 0 .. n
    <2>1. k \in Nat
      BY Appended DEF Follows
    <2>2. n \in Nat
      OBVIOUS
    <2> QED BY <2>1, <2>2
  <1>3. item \in Items
    BY <1>2
  <1>4. item.kind = "float" => Len(w) = 4
    <2>1. item.kind = "float" => w = <<0, 0, 128, 63>>
      BY <1>3, Kinds DEF Wire
    <2> QED BY <2>1
  <1>5. CASE r.ok = FALSE
    <2>1. Failed(r, q.stream)
      BY <1>1, <1>3, <1>5, StaysFailed
    <2>2. Failed(r, Skip(r, 4))
      BY <1>1, <1>5, SkipFails
    <2> QED BY <1>1, <1>5, <2>1, <2>2 DEF Moves
  <1>6. CASE r.ok = TRUE
    <2>1. Reader(r)
      <3>1. ends[k] \in Nat
        BY <1>2 DEF Ends
      <3> QED BY <1>1, <1>6, <3>1 DEF Reader
    <2>2. r.pos = ends[k]
      BY <1>1, <1>6
    <2>3. /\ ends[k + 1] = ends[k] + Len(w) /\ ends[k + 1] <= ends[n]
          /\ ends[k] \in Nat /\ ends[k + 1] \in Nat /\ ends[n] \in Nat
          /\ \/ ends[k + 1] <= Len(r.buf) /\ \E rest \in Seq(Byte) : Before(r, w, rest)
             \/ /\ Len(r.buf) < ends[k + 1] /\ Room(r) < Len(w)
                /\ \A i \in 1 .. Room(r) : Seek(r)[i] = w[i]
      BY <1>1, <1>2, <2>1, <2>2, ItemAhead
    <2>4. ASSUME ends[k + 1] <= Len(r.buf), NEW rest \in Seq(Byte), Before(r, w, rest)
          PROVE  /\ Moves(r, q.stream, taken, Item(item.kind, q.value), items, ends)
                 /\ item.kind = "float" => Moves(r, Skip(r, 4), taken, item, items, ends)
      <3>1. q = [stream |-> Passed(r, Len(w)), value |-> item.value]
        BY <1>3, <2>1, <2>4, ReadsWhole
      <3>2. q.stream = Passed(r, Len(w)) /\ q.value = item.value
        BY <3>1
      <3>3. Item(item.kind, q.value) = item
        BY <1>3, <3>2, Kinds DEF Item
      <3>4. Moves(r, q.stream, taken, Item(item.kind, q.value), items, ends)
        BY <1>6, <2>4, <3>2, <3>3 DEF Moves
      <3>5. ASSUME item.kind = "float" PROVE Moves(r, Skip(r, 4), taken, item, items, ends)
        <4>1. Room(r) = Len(w) + Len(rest) /\ Len(rest) \in Nat
          BY <1>3, <2>1, <2>4, PassedOver, WireType
        <4>2. Room(r) >= 4
          <5>1. Room(r) = 4 + Len(rest)
            BY <1>4, <3>5, <4>1, Zenon
          <5>2. ASSUME NEW a, NEW b \in Nat, a = 4 + b PROVE a >= 4
            BY <5>2
          <5> QED BY <4>1, <5>1, <5>2
        <4>3. Skip(r, 4) = Passed(r, Len(w))
          BY <1>4, <3>5, <4>2 DEF Skip, Passed
        <4> QED BY <1>6, <2>4, <4>3 DEF Moves
      <3> QED BY <3>4, <3>5
    <2>5. ASSUME Len(r.buf) < ends[k + 1], Room(r) < Len(w), \A i \in 1 .. Room(r) : Seek(r)[i] = w[i]
          PROVE  /\ Moves(r, q.stream, taken, Item(item.kind, q.value), items, ends)
                 /\ item.kind = "float" => Moves(r, Skip(r, 4), taken, item, items, ends)
      <3>1. Len(r.buf) < ends[n]
        BY <1>1, <2>3, <2>5
      <3>2. Failed(r, q.stream)
        BY <1>3, <2>1, <2>5, ReadsCut
      <3>3. item.kind = "float" => Failed(r, Skip(r, 4))
        <4>1. Room(r) \in Nat
          BY <2>1, Ahead
        <4>2. item.kind = "float" => ~ (4 <= Room(r))
          <5>1. item.kind = "float" => Room(r) < 4
            BY <1>4, <2>5, Zenon
          <5>2. ASSUME NEW a \in Nat, a < 4 PROVE ~ (4 <= a)
            BY <5>2
          <5> QED BY <4>1, <5>1, <5>2
        <4> QED BY <1>1, <4>2, SkipFails
      <3> QED BY <3>1, <3>2, <3>3 DEF Moves
    <2> QED BY <2>3, <2>4, <2>5
  <1> QED BY <1>1, <1>5, <1>6

-----------------------------------------------------------------------------
(* The streams *)

\* Before anything is written.
LEMMA NothingLaid ==
    ASSUME NEW s, WriterType(s), s.pos = 0, s.overshoot = 0
    PROVE  \E ends : Ends(<<>>, ends) /\ Laid(s, <<>>, ends, Len(<<>>))
  <1> DEFINE ends == [i \in 0 .. 0 |-> 0]
  <1>1. ends \in [0 .. 0 -> Nat] /\ ends[0] = 0 /\ (\A i \in 1 .. 0 : FALSE) /\ Len(<<>>) = 0
    OBVIOUS
  <1> HIDE DEF ends
  <1>2. Ends(<<>>, ends)
    BY <1>1 DEF Ends
  <1>3. Laid(s, <<>>, ends, Len(<<>>))
    BY <1>1 DEF Laid
  <1> QED BY <1>2, <1>3

\* Every reachable state satisfies the invariant.
LEMMA StreamInvariance == StreamSpec => []StreamInv
  <1>1. StreamInit => StreamInv
    BY DEF StreamInit, StreamInv, UndersizeExact
  <1>2. StreamInv /\ [StreamNext]_streamVars => StreamInv'
    <2> SUFFICES ASSUME StreamInv, [StreamNext]_streamVars PROVE StreamInv'
      OBVIOUS
    <2>0. ASSUME streaming # "none"
          PROVE  /\ written \in Seq(Items)
                 /\ \E ends : /\ Ends(written, ends) /\ Laid(out, written, ends, Len(written))
                              /\ streaming = "reading" => out.ok /\ Follows(in, got, out, written, ends)
      BY <2>0 DEF StreamInv
    <2>k. /\ streaming \in {"none", "writing", "retried", "reading"}
          /\ streaming = "none" => written = <<>>
          /\ streaming # "reading" => got = <<>>
      BY DEF StreamInv
    <2>1. CASE Open
      <3>1. PICK n \in BufferSizes : out' = Stream(Zeros(n))
        BY <2>1 DEF Open
      <3>2. n \in Nat
        BY ItemsAssumption
      <3>3. WriterType(out') /\ (out').pos = 0 /\ (out').overshoot = 0
        BY <3>1, <3>2, FreshStream
      <3>4. streaming' = "writing" /\ written' = <<>> /\ got' = <<>>
        BY <2>1, <2>k DEF Open
      <3>5. \E ends : Ends(written', ends) /\ Laid(out', written', ends, Len(written'))
        BY <3>3, <3>4, NothingLaid
      <3>6. written' \in Seq(Items)
        BY <3>4
      <3> QED BY <3>4, <3>5, <3>6 DEF StreamInv, UndersizeExact
    <2>2. CASE Put
      <3>1. PICK item \in Items : out' = Write(out, item) /\ written' = Append(written, item)
        BY <2>2 DEF Put
      <3>2. streaming = "writing" /\ streaming' = "writing" /\ got' = <<>>
        BY <2>2, <2>k DEF Put
      <3>3. written \in Seq(Items)
        BY <2>0, <3>2
      <3>4. PICK ends : Ends(written, ends) /\ Laid(out, written, ends, Len(written))
        BY <2>0, <3>2
      <3>5. PICK more : /\ Ends(written', more)
                        /\ \A i \in 0 .. Len(written) : more[i] = ends[i]
        BY <3>1, <3>3, <3>4, EndsMore
      <3> DEFINE n == Len(written)
      <3>6. /\ written' \in Seq(Items) /\ Len(written') = n + 1 /\ n \in Nat
            /\ (written')[n + 1] = item /\ \A i \in 1 .. n : (written')[i] = written[i]
        BY <3>1, <3>3
      <3>7. Laid(out, written', more, n)
        <4>1. \A i \in 1 .. n : i - 1 \in 0 .. n
          BY <3>6
        <4>2. n \in 0 .. n
          BY <3>6
        <4> HIDE DEF n
        <4>3. more[n] = ends[n] /\ \A i \in 1 .. n : more[i - 1] = ends[i - 1]
          BY <3>5, <4>1, <4>2 DEF n
        <4>4. Laid(out, written, ends, n)
          BY <3>4 DEF n
        <4> QED BY <3>6, <4>3, <4>4 DEF Laid
      <3>8. Adds(out, Wire(item), out')
        BY <3>1, <3>4, WriteAdds DEF Laid
      <3> HIDE DEF n
      <3>9. Laid(out', written', more, n + 1)
        <4>1. n + 1 <= Len(written')
          BY <3>6
        <4> QED BY <3>5, <3>6, <3>7, <3>8, <4>1, OneMore
      <3>10. streaming' = "writing" /\ got' = <<>> /\ written' \in Seq(Items)
             /\ \E e : Ends(written', e) /\ Laid(out', written', e, Len(written'))
        BY <3>2, <3>5, <3>6, <3>9
      <3> QED BY <3>10 DEF StreamInv, UndersizeExact
    <2>3. CASE Retry
      <3>1. /\ streaming = "writing" /\ streaming' = "retried" /\ written' = written /\ got' = <<>>
            /\ ~out.ok /\ out' = WriteAll(Stream(Zeros(Len(out.buf) + out.overshoot)), written)
        BY <2>3, <2>k DEF Retry
      <3>2. written \in Seq(Items)
        BY <2>0, <3>1
      <3>3. PICK ends : Ends(written, ends) /\ Laid(out, written, ends, Len(written))
        BY <2>0, <3>1
      <3>4. Len(out.buf) + out.overshoot = ends[Len(written)]
        BY <3>1, <3>3 DEF Laid, WriterType
      <3>5. out' = WriteAll(Stream(Zeros(ends[Len(written)])), written)
        BY <3>1, <3>4
      <3>6. /\ Laid(out', written, ends, Len(written)) /\ (out').ok = TRUE
            /\ (out').overshoot = 0 /\ Room(out') = 0
        BY <3>2, <3>3, <3>5, AllWritten
      <3> QED BY <3>1, <3>2, <3>3, <3>6 DEF StreamInv, UndersizeExact
    <2>4. CASE Trim
      <3>1. /\ streaming = "writing" /\ streaming' = "writing" /\ written' = <<>> /\ got' = <<>>
            /\ out.ok /\ out' = [out EXCEPT !.buf = Seek(out), !.pos = 0]
        BY <2>4, <2>k DEF Trim, Truncate
      <3>2. PICK ends : Laid(out, written, ends, Len(written))
        BY <2>0, <3>1
      <3>3. WriterType(out) /\ out.overshoot = 0 /\ out.ok = TRUE
        BY <3>1, <3>2 DEF Laid, WriterType
      <3>4. Reader(out)
        BY <3>3 DEF Reader, IsStream, WriterType
      <3> DEFINE rest == Seek(out)
      <3>5. rest \in Seq(Byte) /\ Len(rest) \in Nat
        BY <3>4, Ahead
      <3>6. out' = [out EXCEPT !.buf = rest, !.pos = 0]
        BY <3>1
      <3> HIDE DEF rest
      <3>7. out' = [buf |-> rest, pos |-> 0, ok |-> TRUE, overshoot |-> 0]
        BY <3>3, <3>6 DEF WriterType
      <3>8. WriterType(out') /\ (out').pos = 0 /\ (out').overshoot = 0
        BY <3>5, <3>7 DEF WriterType
      <3>9. \E e : Ends(written', e) /\ Laid(out', written', e, Len(written'))
        BY <3>1, <3>8, NothingLaid
      <3>10. written' \in Seq(Items)
        BY <3>1
      <3> QED BY <3>1, <3>9, <3>10 DEF StreamInv, UndersizeExact
    <2>5. CASE Arrive
      <3>1. /\ streaming \in {"writing", "retried"} /\ streaming' = "reading" /\ written' = written
            /\ got' = <<>> /\ out' = out /\ out.ok
        BY <2>5, <2>k DEF Arrive
      <3>2. written \in Seq(Items)
        BY <2>0, <3>1
      <3>3. PICK ends : Ends(written, ends) /\ Laid(out, written, ends, Len(written))
        BY <2>0, <3>1
      <3>4. PICK n \in 0 .. Len(Data(out)) : in' = Stream(SubSeq(Data(out), 1, n))
        BY <2>5 DEF Arrive
      <3> DEFINE p == out.pos
                 data == Data(out)
                 part == SubSeq(data, 1, n)
      <3>5. out.buf \in Seq(Byte) /\ p \in Nat /\ p <= Len(out.buf) /\ Len(out.buf) \in Nat
        BY <3>3 DEF Laid, WriterType
      <3>6. data \in Seq(Byte) /\ Len(data) = p /\ \A i \in 1 .. p : data[i] = out.buf[i]
        <4>1. \A i \in 1 .. p : out.buf[i] \in Byte
          BY <3>5
        <4>2. data = SubSeq(out.buf, 1, p)
          BY DEF Data
        <4> HIDE DEF p, data
        <4>3. 1 \in Int /\ p \in Int /\ p - 1 + 1 = p /\ (IF 1 <= p THEN p - 1 + 1 ELSE 0) = p
              /\ \A i \in 1 .. p : 1 + i - 1 = i
          BY <3>5
        <4>4. /\ data \in Seq(Byte) /\ Len(data) = (IF 1 <= p THEN p - 1 + 1 ELSE 0)
              /\ \A i \in 1 .. p - 1 + 1 : data[i] = out.buf[1 + i - 1]
          BY <4>1, <4>2, <4>3, SubSeqProperties
        <4> QED BY <4>3, <4>4
      <3>7. n \in 0 .. Len(data)
        OBVIOUS
      <3> HIDE DEF data
      <3>8. part \in Seq(Byte) /\ Len(part) = n /\ \A i \in 1 .. n : part[i] = data[i]
        <4>1. \A i \in 1 .. n : data[i] \in Byte
          BY <3>6, <3>7
        <4>2. 1 \in Int /\ n \in Int /\ n - 1 + 1 = n /\ (IF 1 <= n THEN n - 1 + 1 ELSE 0) = n
              /\ \A i \in 1 .. n : 1 + i - 1 = i
          BY <3>5, <3>6, <3>7
        <4>3. /\ part \in Seq(Byte) /\ Len(part) = (IF 1 <= n THEN n - 1 + 1 ELSE 0)
              /\ \A i \in 1 .. n - 1 + 1 : part[i] = data[1 + i - 1]
          BY <4>1, <4>2, SubSeqProperties
        <4> HIDE DEF part
        <4> QED BY <4>2, <4>3
      <3>9. in' = Stream(part)
        BY <3>4 DEF data
      <3> HIDE DEF part
      <3>10. in' = [buf |-> part, pos |-> 0, ok |-> TRUE, overshoot |-> 0]
        BY <3>9 DEF Stream
      <3>11. /\ IsStream(in') /\ (in').buf = part /\ (in').pos = 0 /\ (in').ok = TRUE
        BY <3>10 DEF IsStream
      <3>12. n <= p /\ \A i \in 1 .. n : part[i] = out.buf[i]
        <4>1. \A i \in 1 .. n : i \in 1 .. p
          BY <3>5, <3>6, <3>7
        <4>2. n <= p
          BY <3>5, <3>6, <3>7
        <4> HIDE DEF p
        <4> QED BY <3>6, <3>8, <4>1, <4>2
      <3>13. IsSequence(<<>>) /\ Len(<<>>) = 0 /\ \A i \in 1 .. 0 : FALSE
        <4>1. <<>> \in Seq(Nat)
          OBVIOUS
        <4> QED BY <4>1 DEF IsSequence
      <3>14. ends[0] = 0 /\ 0 <= Len(written) /\ 0 <= n
        BY <3>2, <3>3, <3>7 DEF Ends
      <3>15. Follows(in', <<>>, out, written, ends)
        BY <3>8, <3>11, <3>12, <3>13, <3>14 DEF Follows, p
      <3> QED BY <3>1, <3>2, <3>3, <3>15 DEF StreamInv, UndersizeExact
    <2>6. CASE Take \/ PassOver
      <3>1. /\ streaming = "reading" /\ streaming' = "reading" /\ written' = written /\ out' = out
            /\ Len(got) < Len(written)
        BY <2>6 DEF Take, PassOver
      <3>2. written \in Seq(Items)
        BY <2>0, <3>1
      <3>3. PICK ends : /\ Ends(written, ends) /\ Laid(out, written, ends, Len(written))
                        /\ out.ok /\ Follows(in, got, out, written, ends)
        BY <2>0, <3>1
      <3> DEFINE item == written[Len(got) + 1]
                 r == ReadItem(in, item.kind)
      <3>4. /\ Moves(in, r.stream, got, Item(item.kind, r.value), written, ends)
            /\ item.kind = "float" => Moves(in, Skip(in, 4), got, item, written, ends)
        BY <3>1, <3>2, <3>3, ReadMoves
      <3>5. \E x : got' = Append(got, x) /\ Moves(in, in', got, x, written, ends)
        <4>1. CASE Take
          <5>1. in' = r.stream /\ got' = Append(got, Item(item.kind, r.value))
            BY <4>1 DEF Take
          <5> HIDE DEF r
          <5> QED BY <3>4, <5>1
        <4>2. CASE PassOver
          <5>1. item.kind = "float" /\ in' = Skip(in, 4) /\ got' = Append(got, item)
            BY <4>2 DEF PassOver
          <5> HIDE DEF item
          <5> QED BY <3>4, <5>1
        <4> QED BY <2>6, <4>1, <4>2
      <3>6. PICK x : got' = Append(got, x) /\ Moves(in, in', got, x, written, ends)
        BY <3>5
      <3>7. Follows(in', got', out, written, ends)
        BY <3>1, <3>2, <3>3, <3>6, FollowsOn
      <3> QED BY <3>1, <3>2, <3>3, <3>7 DEF StreamInv, UndersizeExact
    <2>7. CASE Again
      <3>1. /\ streaming = "reading" /\ streaming' = "reading" /\ written' = written /\ out' = out
            /\ in.ok /\ in' = [in EXCEPT !.pos = 0] /\ got' = <<>>
        BY <2>7 DEF Again, Rewind
      <3>2. written \in Seq(Items)
        BY <2>0, <3>1
      <3>3. PICK ends : /\ Ends(written, ends) /\ Laid(out, written, ends, Len(written))
                        /\ out.ok /\ Follows(in, got, out, written, ends)
        BY <2>0, <3>1
      <3>4. /\ in = [buf |-> in.buf, pos |-> in.pos, ok |-> in.ok, overshoot |-> in.overshoot]
            /\ in.ok = TRUE /\ in.buf \in Seq(Byte) /\ Len(in.buf) <= out.pos /\ Len(in.buf) \in Nat
            /\ \A i \in 1 .. Len(in.buf) : in.buf[i] = out.buf[i]
        BY <3>1, <3>3 DEF Follows, IsStream
      <3>5. in' = [buf |-> in.buf, pos |-> 0, ok |-> TRUE, overshoot |-> in.overshoot]
        BY <3>1, <3>4
      <3>6. IsStream(in') /\ (in').buf = in.buf /\ (in').pos = 0 /\ (in').ok = TRUE
        BY <3>5 DEF IsStream
      <3>7. IsSequence(<<>>) /\ Len(<<>>) = 0 /\ \A i \in 1 .. 0 : FALSE
        <4>1. <<>> \in Seq(Nat)
          OBVIOUS
        <4> QED BY <4>1 DEF IsSequence
      <3>8. ends[0] = 0 /\ 0 <= Len(written) /\ 0 <= Len(in.buf)
        BY <3>2, <3>3, <3>4 DEF Ends
      <3>9. Follows(in', <<>>, out, written, ends)
        BY <3>4, <3>6, <3>7, <3>8 DEF Follows
      <3> QED BY <3>1, <3>2, <3>3, <3>9 DEF StreamInv, UndersizeExact
    <2>8. CASE Close
      BY <2>8 DEF Close, StreamInv, UndersizeExact
    <2>9. CASE UNCHANGED streamVars
      BY <2>9 DEF streamVars, StreamInv, UndersizeExact, Follows
    <2> QED BY <2>1, <2>2, <2>3, <2>4, <2>5, <2>6, <2>7, <2>8, <2>9 DEF StreamNext
  <1> QED BY <1>1, <1>2, PTL DEF StreamSpec

\* undersize(): a buffer larger by that takes all that was written, and has nothing left.
THEOREM UndersizeExactCorrect == StreamSpec => []UndersizeExact
  <1>1. StreamInv => UndersizeExact
    BY DEF StreamInv
  <1> QED BY <1>1, StreamInvariance, PTL

\* Items are read back as they were written, in order and to the last byte; a reader that is
\* given fewer bytes ends with m_ok cleared.
THEOREM ItemsRoundTripCorrect == StreamSpec => []ItemsRoundTrip
  <1>1. StreamInv => ItemsRoundTrip
    <2> SUFFICES ASSUME StreamInv, streaming = "reading", Len(got) = Len(written)
                 PROVE  IF Len(in.buf) = Len(Data(out))
                          THEN in.ok /\ got = written /\ Room(in) = 0 ELSE ~in.ok
      BY DEF ItemsRoundTrip, Finished
    <2>1. PICK ends : /\ Ends(written, ends) /\ Laid(out, written, ends, Len(written))
                      /\ out.ok /\ Follows(in, got, out, written, ends)
      BY DEF StreamInv
    <2>2. written \in Seq(Items)
      BY DEF StreamInv
    <2> DEFINE n == Len(written)
               m == Len(in.buf)
               p == out.pos
    <2>3. /\ p \in Nat /\ p = ends[n] /\ p <= Len(out.buf) /\ out.buf \in Seq(Byte)
      BY <2>1 DEF Laid, WriterType
    <2>4. Len(Data(out)) = p
      <3>1. \A i \in 1 .. p : out.buf[i] \in Byte
        BY <2>3
      <3> HIDE DEF p
      <3>2. 1 \in Int /\ p \in Int /\ (IF 1 <= p THEN p - 1 + 1 ELSE 0) = p
        BY <2>3
      <3>3. Len(SubSeq(out.buf, 1, p)) = (IF 1 <= p THEN p - 1 + 1 ELSE 0)
        BY <3>1, <3>2, SubSeqProperties
      <3> QED BY <3>2, <3>3 DEF Data, p
    <2>5. /\ m \in Nat /\ m <= p
          /\ in.ok => /\ in.pos = ends[n] /\ in.pos <= m
                      /\ \A i \in 1 .. n : got[i] = written[i]
          /\ ~in.ok => m < ends[n]
      BY <2>1 DEF Follows
    <2>6. got \in Seq(Items) \/ ~in.ok
      <3>1. PICK S : got \in Seq(S)
        BY <2>1 DEF Follows, IsSequence
      <3>2. in.ok => \A i \in 1 .. Len(got) : got[i] \in Items
        BY <2>2, <2>5
      <3> QED BY <3>1, <3>2, SeqMonotonic
    <2>7. in.ok => got = written
      BY <2>2, <2>5, <2>6, SeqEqual
    <2>8. Room(in) = m - in.pos
      BY DEF Room
    <2> HIDE DEF n, m, p
    <2>9. CASE m = p
      <3>1. in.ok
        BY <2>3, <2>5, <2>9
      <3>2. m - in.pos = 0
        BY <2>3, <2>5, <2>9, <3>1
      <3> QED BY <2>4, <2>7, <2>8, <2>9, <3>1, <3>2 DEF m
    <2>10. CASE m # p
      <3>1. ~in.ok
        BY <2>3, <2>5, <2>10
      <3> QED BY <2>4, <2>10, <3>1 DEF m
    <2> QED BY <2>9, <2>10
  <1> QED BY <1>1, StreamInvariance, PTL
=============================================================================
