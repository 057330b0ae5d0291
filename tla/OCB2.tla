-------------------------------- MODULE OCB2 --------------------------------
(***************************************************************************)
(* CryptOCB2.cpp over blocks of any size.  A block is a sequence of        *)
(* BlockBytes bytes.  The block cipher under a key is OpenSSL's: any       *)
(* permutation of the blocks.  A packet is the blocks that encrypt() and   *)
(* decrypt() take in their loop, and the one to BlockBytes bytes that      *)
(* remain after it.                                                        *)
(***************************************************************************)
EXTENDS Naturals, Sequences

CONSTANTS
  Bits,           \* bits of a byte: 8
  BlockBytes,     \* bytes of a block: 16
  Poly,           \* what doubling adds when it overflows: 0x87
  XorByte(_, _),  \* ^ of two bytes
  CipherKeys,     \* keys of the cipher
  Encipher        \* the cipher: of each key, a function from blocks to blocks

Bytes == 0 .. 2 ^ Bits - 1
Block == [1 .. BlockBytes -> Bytes]

\* A block's bits are counted in a byte.  `^` makes a group of the bytes in which each is its
\* own inverse, and 0 is the unit.
ASSUME OCB2Assumption ==
  /\ Bits \in Nat \ {0} /\ BlockBytes \in Nat \ {0, 1} /\ Poly \in Bytes
  /\ Bits * BlockBytes \in Bytes
  /\ \A a, b \in Bytes : XorByte(a, b) \in Bytes /\ XorByte(a, XorByte(a, b)) = b
  /\ \A a \in Bytes : XorByte(a, 0) = a
  /\ \A a, b \in Bytes : XorByte(a, b) = XorByte(b, a)

\* AES decrypts what it encrypted.
ASSUME CipherAssumption ==
  /\ Encipher \in [CipherKeys -> [Block -> Block]]
  /\ \A k \in CipherKeys : \A a, b \in Block : Encipher[k][a] = Encipher[k][b] => a = b
  /\ \A k \in CipherKeys : \A b \in Block : \E a \in Block : Encipher[k][a] = b

Decipher(k, b) == CHOOSE a \in Block : Encipher[k][a] = b

-----------------------------------------------------------------------------
(* Blocks. *)

ZeroBlock == [i \in 1 .. BlockBytes |-> 0]

xorBlock(a, b) == [i \in 1 .. BlockBytes |-> XorByte(a[i], b[i])]

TopBit(byte) == byte \div 2 ^ (Bits - 1)

\* Mutant: the carry of the next byte is lost.
s2NoCarry(block) ==
  [i \in 1 .. BlockBytes |->
     IF i < BlockBytes THEN (2 * block[i]) % (2 ^ Bits)
     ELSE XorByte((2 * block[i]) % (2 ^ Bits), TopBit(block[1]) * Poly)]

\* Doubling: a shift by one bit through all bytes, the lost bit folded into the last.
s2(block) ==
  [i \in 1 .. BlockBytes |->
     IF i < BlockBytes
     THEN ((2 * block[i]) % (2 ^ Bits)) + TopBit(block[i + 1])
     ELSE XorByte((2 * block[i]) % (2 ^ Bits), TopBit(block[1]) * Poly)]

s3(block) == xorBlock(block, s2(block))

\* The bits of n bytes, in the last byte of a block.
LengthBlock(n) == [i \in 1 .. BlockBytes |-> IF i = BlockBytes THEN Bits * n ELSE 0]

\* The bytes of the fragment, then those of the block.
FilledUp(fragment, block) ==
  [i \in 1 .. BlockBytes |-> IF i <= Len(fragment) THEN fragment[i] ELSE block[i]]

Start(block, n) == [i \in 1 .. n |-> block[i]]

-----------------------------------------------------------------------------
(* Packets. *)

\* delta at the beginning of round i, from the nonce.
Deltas(k, nonce, n) ==
  LET delta[i \in 0 .. n] == IF i = 0 THEN Encipher[k][nonce] ELSE s2(delta[i - 1]) IN delta

\* The sum of the first blocks, from the value of a block of zeros.
Sum(blocks, n) ==
  LET sum[i \in 0 .. n] == IF i = 0 THEN ZeroBlock ELSE xorBlock(sum[i - 1], blocks[i])
  IN  sum[n]

\* The last block of the loop is silence, but for its last byte.
Silent(packet) ==
  LET n == Len(packet.blocks)
  IN  n > 0 /\ \A i \in 1 .. BlockBytes - 1 : packet.blocks[n][i] = 0

\* What is encrypted instead of a silent block: one bit flipped.
FlipABit(block) == [block EXCEPT ![1] = XorByte(@, 1)]

Altered(packet) ==
  IF Silent(packet)
  THEN [packet EXCEPT !.blocks[Len(packet.blocks)] = FlipABit(@)]
  ELSE packet

\* The pad of the fragment.
Pad(k, delta, n) == Encipher[k][xorBlock(LengthBlock(n), delta)]

Tag(k, delta, checksum) == Encipher[k][xorBlock(s3(delta), checksum)]

encrypt(k, nonce, packet) ==
  LET sent  == Altered(packet)
      n     == Len(sent.blocks)
      delta == Deltas(k, nonce, n + 1)
      pad   == Pad(k, delta[n + 1], Len(sent.last))
      last  == FilledUp(sent.last, pad)
  IN  [blocks |-> [i \in 1 .. n |->
                     xorBlock(delta[i], Encipher[k][xorBlock(delta[i], sent.blocks[i])])],
       last   |-> Start(xorBlock(pad, last), Len(sent.last)),
       tag    |-> Tag(k, delta[n + 1], xorBlock(Sum(sent.blocks, n), last))]

\* The last block as decrypt() recovers it: the fragment, then the rest of the pad.
Recovered(k, nonce, cipher) ==
  LET n     == Len(cipher.blocks)
      delta == Deltas(k, nonce, n + 1)
      pad   == Pad(k, delta[n + 1], Len(cipher.last))
  IN  [blocks |-> [i \in 1 .. n |->
                     xorBlock(delta[i], Decipher(k, xorBlock(delta[i], cipher.blocks[i])))],
       block  |-> xorBlock(FilledUp(cipher.last, ZeroBlock), pad),
       delta  |-> delta[n + 1]]

\* decrypt(), with the first `taken` bytes of the tag that came with the packet.  All bytes of
\* the last block are compared with delta, as the std::equal() does; the comment above it
\* speaks of all but the last.
decrypt(k, nonce, cipher, taken) ==
  LET r == Recovered(k, nonce, cipher)
      n == Len(cipher.blocks)
      tag == Tag(k, r.delta, xorBlock(Sum(r.blocks, n), r.block))
  IN  [ok |-> /\ r.block # r.delta
              /\ \A i \in 1 .. taken : cipher.tag[i] = tag[i],
       blocks |-> r.blocks, last |-> Start(r.block, Len(cipher.last))]
=============================================================================
