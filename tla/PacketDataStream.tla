-------------------------- MODULE PacketDataStream --------------------------
(***************************************************************************)
(* PacketDataStream.hpp: a buffer with a place to write to or read from,   *)
(* and the variable-length form of integers.  A byte is 0 .. 255; a 64-bit *)
(* integer is its eight bytes, the highest first, so that shifts and masks *)
(* by bytes select elements.  Every operation returns the stream after it; *)
(* those that read return also what was read.                              *)
(***************************************************************************)
EXTENDS Naturals, Sequences

Byte == 0 .. 255
U64  == [1 .. 8 -> Byte]

\* m_buf, how much of it lies before m_seek, m_ok and m_overshoot.
Stream(buf) == [buf |-> buf, pos |-> 0, ok |-> TRUE, overshoot |-> 0]

Room(s) == Len(s.buf) - s.pos
Seek(s) == SubSeq(s.buf, s.pos + 1, Len(s.buf))
Data(s) == SubSeq(s.buf, 1, s.pos)

Fail(s) == [s EXCEPT !.ok = FALSE]

Rewind(s)  == [s EXCEPT !.pos = 0]

\* What lies before m_seek is cut off.
Truncate(s) == [s EXCEPT !.buf = Seek(s), !.pos = 0]

\* skip()
Skip(s, n) == IF Room(s) >= n THEN [s EXCEPT !.pos = @ + n] ELSE Fail(s)

-----------------------------------------------------------------------------
(* Integers. *)

Complement(v) == [i \in 1 .. 8 |-> 255 - v[i]]

\* The highest n bytes are zero.
Fits(v, n) == \A i \in 1 .. n : v[i] = 0

\* Mutant: 2^14 itself is given two bytes.
EncodeUnsignedLoose(v) ==
  IF Fits(v, 7) /\ v[8] < 128 THEN <<v[8]>>
  ELSE IF Fits(v, 6) /\ v[7] <= 64 THEN <<128 + v[7], v[8]>>
  ELSE IF Fits(v, 5) /\ v[6] < 32 THEN <<192 + v[6], v[7], v[8]>>
  ELSE IF Fits(v, 4) /\ v[5] < 16 THEN <<224 + v[5], v[6], v[7], v[8]>>
  ELSE IF Fits(v, 4) THEN <<240, v[5], v[6], v[7], v[8]>>
  ELSE <<244, v[1], v[2], v[3], v[4], v[5], v[6], v[7], v[8]>>

EncodeUnsigned(v) ==
  IF Fits(v, 7) /\ v[8] < 128 THEN <<v[8]>>
  ELSE IF Fits(v, 6) /\ v[7] < 64 THEN <<128 + v[7], v[8]>>
  ELSE IF Fits(v, 5) /\ v[6] < 32 THEN <<192 + v[6], v[7], v[8]>>
  ELSE IF Fits(v, 4) /\ v[5] < 16 THEN <<224 + v[5], v[6], v[7], v[8]>>
  ELSE IF Fits(v, 4) THEN <<240, v[5], v[6], v[7], v[8]>>
  ELSE <<244, v[1], v[2], v[3], v[4], v[5], v[6], v[7], v[8]>>

\* A number whose complement has 32 bits is sent as that, after a byte that says so.
Encode(v) ==
  IF ~Fits(Complement(v), 4) THEN EncodeUnsigned(v)
  ELSE IF Fits(Complement(v), 7) /\ 255 - v[8] <= 3 THEN <<252 + 255 - v[8]>>
  ELSE <<248>> \o EncodeUnsigned(Complement(v))

\* next() past the end returns 0.
At(bytes, i) == IF i <= Len(bytes) THEN bytes[i] ELSE 0

\* The calls of next() for a number that begins with byte b, no complement.
LengthAfter(b) ==
  IF b < 128 THEN 1
  ELSE IF b < 192 THEN 2
  ELSE IF b < 224 THEN 3
  ELSE IF b < 240 THEN 4
  ELSE IF b < 244 THEN 5
  ELSE IF b < 248 THEN 9
  ELSE 1

\* The part of the number in its first byte.
Lead(b) ==
  IF b < 128 THEN b
  ELSE IF b < 192 THEN b - 128
  ELSE IF b < 224 THEN b - 192
  ELSE IF b < 240 THEN b - 224
  ELSE 0

\* The number of length n that begins after the first k bytes.
DecodeUnsigned(bytes, k) ==
  LET n == LengthAfter(At(bytes, k + 1))
  IN  [i \in 1 .. 8 |->
         IF i = 9 - n THEN Lead(At(bytes, k + 1))
         ELSE IF i > 9 - n THEN At(bytes, k + i - 8 + n)
         ELSE 0]

\* How many bytes 0xF8 (or 0xF9 to 0xFB) come first, each a complement of the rest.
Complements(bytes) ==
  CHOOSE k \in 0 .. Len(bytes) :
    /\ \A j \in 1 .. k : bytes[j] \in 248 .. 251
    /\ At(bytes, k + 1) \notin 248 .. 251

Short(b) == b \in 252 .. 255

\* The number at the beginning of the bytes, and how often next() is called for it.
Decode(bytes) ==
  LET k     == Complements(bytes)
      b     == At(bytes, k + 1)
      plain == IF Short(b) THEN [i \in 1 .. 8 |-> IF i = 8 THEN 255 - (b - 252) ELSE 255]
                           ELSE DecodeUnsigned(bytes, k)
  IN  [value |-> IF k % 2 = 0 THEN plain ELSE Complement(plain), calls |-> k + LengthAfter(b)]

\* The casts of INTMAPOPERATOR: an integer of n bytes is extended by its sign or by zeros
\* to be written, and its n lowest bytes are what is read.
Extend(bytes, signed) ==
  LET n == Len(bytes)
      fill == IF signed /\ bytes[1] >= 128 THEN 255 ELSE 0
  IN  [i \in 1 .. 8 |-> IF i <= 8 - n THEN fill ELSE bytes[i - 8 + n]]

Narrow(v, n) == SubSeq(v, 9 - n, 8)

-----------------------------------------------------------------------------
(* Writing and reading. *)

Smaller(a, b) == IF a <= b THEN a ELSE b

Overwrite(s, bytes) ==
  [i \in DOMAIN s.buf |-> IF i \in s.pos + 1 .. s.pos + Len(bytes) THEN bytes[i - s.pos]
                                                                   ELSE s.buf[i]]

\* append(value), byte by byte.
AppendEach(s, bytes) ==
  LET n == Smaller(Len(bytes), Room(s))
  IN  [buf |-> Overwrite(s, SubSeq(bytes, 1, n)), pos |-> s.pos + n,
       ok |-> s.ok /\ n = Len(bytes), overshoot |-> s.overshoot + Len(bytes) - n]

\* Mutant: the overshoot is counted after m_seek was emptied.
AppendBlockLate(s, bytes) ==
  IF Room(s) >= Len(bytes) THEN AppendEach(s, bytes)
  ELSE [buf |-> Overwrite(s, [i \in 1 .. Room(s) |-> 0]), pos |-> Len(s.buf),
        ok |-> FALSE, overshoot |-> s.overshoot + Len(bytes)]

\* append(buf): all or zeros.
AppendBlock(s, bytes) ==
  IF Room(s) >= Len(bytes) THEN AppendEach(s, bytes)
  ELSE [buf |-> Overwrite(s, [i \in 1 .. Room(s) |-> 0]), pos |-> Len(s.buf),
        ok |-> FALSE, overshoot |-> s.overshoot + Len(bytes) - Room(s)]

WriteInt(s, v)     == AppendEach(s, Encode(v))
WriteFloat(s, raw) == AppendEach(s, raw)

\* The length of a short buffer as an integer.
LengthOf(buf) == [i \in 1 .. 8 |-> IF i = 8 THEN Len(buf) ELSE 0]

WriteBuf(s, buf) == AppendBlock(WriteInt(s, LengthOf(buf)), buf)

\* next() that often.
Advance(s, calls) ==
  [s EXCEPT !.pos = @ + Smaller(calls, Room(s)), !.ok = @ /\ calls <= Room(s)]

ReadInt(s) ==
  LET d == Decode(Seek(s)) IN [stream |-> Advance(s, d.calls), value |-> d.value]

\* A bool, <<1>> or <<0>>, is written as a number, and anything else than 0 is read as true.
WriteBool(s, b) == WriteInt(s, [i \in 1 .. 8 |-> IF i = 8 THEN b[1] ELSE 0])

ReadBool(s) ==
  LET r == ReadInt(s)
  IN  [stream |-> r.stream, value |-> <<IF \E i \in 5 .. 8 : r.value[i] # 0 THEN 1 ELSE 0>>]

ReadFloat(s) ==
  [stream |-> Advance(s, 4), value |-> [i \in 1 .. 4 |-> At(Seek(s), i)]]

\* The size is 32 bits of what was read; buffers here are shorter than 2^16.
Exceeds(size, room) == size[5] + size[6] > 0 \/ size[7] * 256 + size[8] > room

ReadBuf(s) ==
  LET r    == ReadInt(s)
      long == Exceeds(r.value, Room(r.stream))
      n    == IF long THEN Room(r.stream) ELSE r.value[7] * 256 + r.value[8]
  IN  [stream |-> [r.stream EXCEPT !.pos = @ + n, !.ok = @ /\ ~long],
       value  |-> SubSeq(Seek(r.stream), 1, n)]
=============================================================================
