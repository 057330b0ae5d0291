------------------------------ MODULE CryptOCB2 ------------------------------
(***************************************************************************)
(* A CryptOCB2 object that encrypts packets and decrypts them again, with  *)
(* the context of OpenSSL it runs the block cipher in, which knows the key *)
(* expanded for one direction at a time.                                   *)
(***************************************************************************)
EXTENDS OCB2

CONSTANTS
  ZeroKey,        \* m_key as the object is made
  Packets,        \* packets to encrypt
  TriedNonces,    \* nonces to set
  TagTaken        \* bytes of the tag that travel with a packet

ASSUME SessionAssumption ==
  /\ ZeroKey \in CipherKeys /\ TagTaken \in 0 .. BlockBytes /\ TriedNonces \subseteq Block
  /\ Packets \subseteq [blocks : Seq(Block), last : Seq(Bytes)]
  /\ \A p \in Packets : Len(p.last) \in 1 .. BlockBytes

VARIABLES
  key, nonce,     \* m_key, m_nonce
  evp,            \* m_ctx: its direction, the key it knows and the direction of that
  plain,          \* what was encrypted last
  sealed,         \* what came of it, with key and nonce, and whether every block was right
  opened          \* what decrypt() made of that, and whether every block was right

ocb2Vars == <<key, nonce, evp, plain, sealed, opened>>

NotYet == [state |-> "nothing"]

OCB2Init ==
  /\ key = ZeroKey /\ nonce = ZeroBlock
  /\ evp = [encrypting |-> FALSE, key |-> "none", expanded |-> FALSE]
  /\ plain = NotYet /\ sealed = NotYet /\ opened = NotYet

-----------------------------------------------------------------------------

\* setKey(), with a key of the right size.
SetKeyOCB2(k) ==
  /\ key' = k
  /\ evp' = [evp EXCEPT !.key = k, !.expanded = evp.encrypting]
  /\ opened' = NotYet
  /\ UNCHANGED <<nonce, plain, sealed>>

\* setNonce(), with one of the right size.
SetNonceOCB2(n) ==
  /\ nonce' = n
  /\ opened' = NotYet
  /\ UNCHANGED <<key, evp, plain, sealed>>

\* Mutant: the key is not given again when the direction changes.
ProcessNoRekey(e, forward) == [e EXCEPT !.encrypting = forward]

\* The context after process().
ProcessBlock(e, forward) ==
  IF e.encrypting = forward THEN e
  ELSE [encrypting |-> forward, key |-> key, expanded |-> forward]

\* The cipher runs as it should.
Right(e) == e.key = key /\ e.expanded = e.encrypting

\* encrypt(): every call of process() is for encryption.
EncryptPacket(packet) ==
  LET e == ProcessBlock(evp, TRUE)
  IN  /\ evp' = e
      /\ plain' = packet
      /\ sealed' = [state |-> "sealed", right |-> Right(e), key |-> key, nonce |-> nonce,
                    packet |-> encrypt(key, nonce, packet)]
      /\ opened' = NotYet
      /\ UNCHANGED <<key, nonce>>

\* decrypt(): the nonce and the pad are encrypted, every block between is decrypted.
DecryptPacket ==
  /\ sealed # NotYet
  /\ LET first == ProcessBlock(evp, TRUE)
         loop  == IF sealed.packet.blocks = <<>> THEN first ELSE ProcessBlock(first, FALSE)
         last  == ProcessBlock(loop, TRUE)
     IN  /\ evp' = last
         /\ opened' = [state |-> "opened", right |-> Right(first) /\ Right(loop) /\ Right(last),
                       packet |-> decrypt(key, nonce, sealed.packet, TagTaken)]
  /\ UNCHANGED <<key, nonce, plain, sealed>>

OCB2Next ==
  \/ \E k \in CipherKeys : SetKeyOCB2(k)
  \/ \E n \in TriedNonces : SetNonceOCB2(n)
  \/ \E packet \in Packets : EncryptPacket(packet)
  \/ DecryptPacket

OCB2Spec == OCB2Init /\ [][OCB2Next]_ocb2Vars

-----------------------------------------------------------------------------

\* Every block is run with the key that key() returns, expanded for the direction of the
\* call, though decrypt() changes the direction twice in a packet.
EveryBlockRight ==
  /\ sealed # NotYet => sealed.right
  /\ opened # NotYet => opened.right

\* A packet decrypted with the key and the nonce it was encrypted with is the packet that was
\* given to encrypt(), one flipped bit aside where its last full block was silence.  It is
\* refused if its last block is delta, and only if that block is delta in all bytes but the
\* last.  Between the two the source contradicts itself: the comment of decrypt() says that
\* all bytes but the last are compared (CryptOCB2.cpp:175-180), the std::equal() below it
\* compares all of them.  Reopened allows either.
Reopened ==
  LET r == Recovered(key, nonce, sealed.packet) IN
  /\ opened.packet.blocks = Altered(plain).blocks /\ opened.packet.last = plain.last
  /\ ~Silent(opened.packet)
  /\ r.block = r.delta => ~opened.packet.ok
  /\ ~opened.packet.ok => \A i \in 1 .. BlockBytes - 1 : r.block[i] = r.delta[i]

PacketRoundTrip ==
  /\ EveryBlockRight
  /\ (opened # NotYet /\ sealed.key = key /\ sealed.nonce = nonce) => Reopened

\* The number a block stands for, highest byte first.
Value(block) ==
  LET v[i \in 0 .. BlockBytes] == IF i = 0 THEN 0 ELSE v[i - 1] * 2 ^ Bits + block[i]
  IN  v[BlockBytes]

\* s2() doubles in the field of the blocks: it doubles the number, drops the bit that does
\* not fit and adds the polynomial for it.
DoublesInField ==
  LET twice == 2 * Value(nonce)
      size  == 2 ^ (Bits * BlockBytes)
      low   == [i \in 1 .. BlockBytes |-> IF i = BlockBytes /\ twice >= size THEN Poly ELSE 0]
  IN  Value(xorBlock(s2(nonce), low)) = twice % size
=============================================================================
