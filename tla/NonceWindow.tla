----------------------------- MODULE NonceWindow -----------------------------
(***************************************************************************)
(* The UDP half of ExampleServer's User                                    *)
(* (src/examples/ExampleServer/User.cpp): encrypt() numbers every packet   *)
(* with a nonce of which only the lowest byte travels, decrypt() guesses   *)
(* the rest from the last nonce it accepted and keeps, per byte, the next  *)
(* byte of the nonce accepted there last.  Between them is a network that  *)
(* loses, repeats, delays and damages packets.                             *)
(*                                                                         *)
(* A nonce is a pair: its lowest byte, and the number the other bytes make *)
(* (NonceDigits shows that the carry and borrow loops compute that         *)
(* number's successor and predecessor).  That number is unbounded here:    *)
(* the wrap of all 16 bytes after 2^128 packets is left out.  OCB2 is      *)
(* ideal: a packet decrypts under its own nonce only, a damaged one never. *)
(***************************************************************************)
EXTENDS Integers, FiniteSets

CONSTANTS
    Base,           \* values of a byte: 256
    Half,           \* 128, the largest distance read as "ahead"
    Window,         \* 30, the distance at which a packet is too late
    InitNonce,      \* what genNonce() returned
    MaxNonces       \* bound: nonces the sender uses

Nonce == [low : 0 .. Base - 1, upper : Nat]

ASSUME BaseAssumption   == Base \in Nat /\ Half \in Nat /\ Base = 2 * Half /\ Half > 1
ASSUME WindowAssumption == Window \in 1 .. Half
ASSUME InitAssumption   == InitNonce \in Nonce
ASSUME MaxAssumption    == MaxNonces \in Nat

VARIABLES
    encryptNonce,   \* the sender's m_encryptNonce
    sent,           \* ghost: nonces of the packets that ever entered the network
    decryptNonce,   \* m_decryptNonce
    history,        \* m_decryptHistory
    good, late, lost,   \* m_good, m_late, m_lost
    accepted,       \* ghost: nonces of the packets decrypt() returned
    arrived         \* ghost: nonces of the undamaged packets decrypt() was given

stats == <<good, late, lost>>
vars  == <<encryptNonce, sent, decryptNonce, history, stats, accepted, arrived>>

\* The place of a nonce in the order of encryption.
Value(n) == Base * n.upper + n.low

\* The byte after the lowest one, nonce[1].
SecondByte(n) == n.upper % Base

-----------------------------------------------------------------------------
(* User::encrypt *)

\* Mutant: no carry.
SuccessorNoCarry(n) == [low |-> n.low + 1, upper |-> n.upper]

\* The increment with carry.
Successor(n) ==
    IF n.low = Base - 1
    THEN [low |-> 0, upper |-> n.upper + 1]
    ELSE [low |-> n.low + 1, upper |-> n.upper]

\* The nonce is used up even if the packet is not produced: the output has no
\* room after the 4 bytes of the header, or the cipher fails.
Encrypt ==
    /\ Value(encryptNonce) < Value(InitNonce) + MaxNonces
    /\ encryptNonce' = Successor(encryptNonce)
    /\ sent' \in {sent, sent \cup {encryptNonce'}}
    /\ UNCHANGED <<decryptNonce, history, stats, accepted, arrived>>

-----------------------------------------------------------------------------
(* User::decrypt *)

\* Line 94: the byte is the one expected next.
InOrder(byte) == (decryptNonce.low + 1) % Base = byte

\* Lines 109 to 113, in the range -Half .. Half.
Diff(byte) ==
    LET diff == byte - decryptNonce.low IN
    IF diff > Half THEN diff - Base
    ELSE IF diff < -Half THEN diff + Base
    ELSE diff

IsLate(byte)  == Diff(byte) > -Window /\ Diff(byte) < 0
IsAhead(byte) == Diff(byte) > 0

\* Mutant: the carry of a jump ahead is forgotten.
TurnInOrderOnly(byte) ==
    IF InOrder(byte) THEN IF byte < decryptNonce.low THEN 1 ELSE 0
    ELSE IF byte > decryptNonce.low /\ IsLate(byte) THEN -1 ELSE 0

\* The rounds between the last accepted nonce and the one with this byte.
Turn(byte) ==
    IF InOrder(byte) \/ IsAhead(byte)
    THEN IF byte < decryptNonce.low THEN 1 ELSE 0
    ELSE IF byte > decryptNonce.low THEN -1 ELSE 0

\* The nonce decrypt() tries for a byte.
Guess(byte) == [low |-> byte, upper |-> decryptNonce.upper + Turn(byte)]

\* Mutant: a late packet does not take back the loss it was counted as.
LostNoCredit(byte) ==
    IF InOrder(byte) \/ IsLate(byte) THEN 0
    ELSE IF byte > decryptNonce.low THEN byte - decryptNonce.low - 1
    ELSE Base - decryptNonce.low + byte - 1

\* Mutant: the packet that arrived is counted as lost if the byte wrapped.
LostOffByOne(byte) ==
    IF InOrder(byte) THEN 0
    ELSE IF IsLate(byte) THEN -1
    ELSE IF byte > decryptNonce.low THEN byte - decryptNonce.low - 1
    ELSE Base - decryptNonce.low + byte

\* The change of m_lost if the guess is right.
Lost(byte) ==
    IF InOrder(byte) THEN 0
    ELSE IF IsLate(byte) THEN -1
    ELSE IF byte > decryptNonce.low THEN byte - decryptNonce.low - 1
    ELSE Base - decryptNonce.low + byte - 1

\* Mutant: repeats are not looked up.
PlausibleNoHistory(byte) ==
    IF InOrder(byte) THEN byte # decryptNonce.low
    ELSE byte # decryptNonce.low /\ (IsLate(byte) \/ IsAhead(byte))

\* Some branch takes the byte, and out of order it is no repeat (line 147).
Plausible(byte) ==
    IF InOrder(byte) THEN byte # decryptNonce.low
    ELSE /\ byte # decryptNonce.low
         /\ IsLate(byte) \/ IsAhead(byte)
         /\ history[byte] # SecondByte(Guess(byte))

\* The nonce of a late packet is dropped again.
Restores(byte) == ~InOrder(byte) /\ IsLate(byte)

\* Mutant: a late packet leaves no trace.
AcceptLateForgotten(byte) ==
    LET nonce == Guess(byte) IN
    /\ history' = IF Restores(byte) THEN history ELSE [history EXCEPT ![byte] = SecondByte(nonce)]
    /\ decryptNonce' = IF Restores(byte) THEN decryptNonce ELSE nonce
    /\ good' = good + 1
    /\ late' = IF Restores(byte) THEN late + 1 ELSE late
    /\ lost' = lost + Lost(byte)
    /\ accepted' = accepted \cup {nonce}

Accept(byte) ==
    LET nonce == Guess(byte) IN
    /\ history' = [history EXCEPT ![byte] = SecondByte(nonce)]
    /\ decryptNonce' = IF Restores(byte) THEN decryptNonce ELSE nonce
    /\ good' = good + 1
    /\ late' = IF Restores(byte) THEN late + 1 ELSE late
    /\ lost' = lost + Lost(byte)
    /\ accepted' = accepted \cup {nonce}

\* The nonce that was tried is taken back.
Reject == UNCHANGED <<decryptNonce, history, stats, accepted>>

\* decrypt() of an undamaged packet.
Receive(n) ==
    /\ arrived' = arrived \cup {n}
    /\ IF Plausible(n.low) /\ Guess(n.low) = n THEN Accept(n.low) ELSE Reject
    /\ UNCHANGED <<encryptNonce, sent>>

\* Mutant: the nonce that was tried stays.
ReceiveDamagedKeepsGuess(byte) ==
    /\ byte \in 0 .. Base - 1
    /\ decryptNonce' = IF Plausible(byte) THEN Guess(byte) ELSE decryptNonce
    /\ UNCHANGED <<encryptNonce, sent, history, stats, accepted, arrived>>

\* decrypt() of a packet whose tag does not match under any nonce.
ReceiveDamaged(byte) ==
    /\ byte \in 0 .. Base - 1
    /\ Reject
    /\ UNCHANGED <<encryptNonce, sent, arrived>>

-----------------------------------------------------------------------------

\* The constructor; m_decryptHistory is value-initialised.
Init ==
    /\ encryptNonce = InitNonce
    /\ sent = {}
    /\ decryptNonce = InitNonce
    /\ history = [byte \in 0 .. Base - 1 |-> 0]
    /\ good = 0 /\ late = 0 /\ lost = 0
    /\ accepted = {} /\ arrived = {}

Next ==
    \/ Encrypt
    \/ \E n \in sent : Receive(n)
    \/ \E byte \in 0 .. Base - 1 : ReceiveDamaged(byte)

Spec == Init /\ [][Next]_vars

-----------------------------------------------------------------------------
(* Properties *)

TypeOK ==
    /\ encryptNonce \in Nonce
    /\ sent \subseteq Nonce
    /\ decryptNonce \in Nonce
    /\ history \in [0 .. Base - 1 -> 0 .. Base - 1]
    /\ good \in Nat /\ late \in Nat /\ lost \in Int
    /\ accepted \subseteq sent
    /\ arrived \subseteq sent

\* The statistics account for every nonce up to the last one accepted, however
\* packets are lost and reordered: m_good and m_lost always add up to the distance
\* the receiver's nonce has moved.
Accounting == Value(decryptNonce) = Value(InitNonce) + good + lost

\* No packet is accepted twice: a step that counts a packet as good accepts a nonce
\* that was never accepted before, for any order and repetition of arrivals.
NoReplay == [][good' # good => accepted' # accepted]_vars

\* The places up to the last accepted nonce that no nonce of a set has.
MissingFrom(set) ==
    {place \in Value(InitNonce) + 1 .. Value(decryptNonce) : \A n \in set : Value(n) # place}

\* m_lost, which is unsigned and takes back 1 for every late packet, counts exactly
\* the nonces up to the last one that decrypt() has not accepted, and so never
\* wraps below zero.
LostIsMissing == lost = Cardinality(MissingFrom(accepted))

\* The history of 256 bytes tells, of every nonce that could still be tried as a late
\* one, whether it was accepted; nothing accepted is newer than the last nonce.
HistoryTells ==
    \A n \in accepted :
        /\ Value(n) <= Value(decryptNonce)
        /\ Value(n) > Value(decryptNonce) - Window => history[n.low] = SecondByte(n)

\* The history may take a first arrival that is out of order for a repeat in two cases:
\* its second byte is 0, which is what the history holds for a byte before anything was
\* accepted with it; or a nonce was accepted that has both its lowest bytes, which is a
\* multiple of Base^2 away.  genNonce() is random and nothing ends a session in time, so
\* both can happen.
TakenForRepeat(n) ==
    /\ ~InOrder(n.low)
    /\ \/ SecondByte(n) = 0 /\ \A m \in accepted : m.low # n.low
       \/ \E m \in accepted : m.low = n.low /\ SecondByte(m) = SecondByte(n)

\* Of a first arrival less than Half ahead of, or less than Window behind, the last
\* accepted nonce the right nonce is guessed, and it is accepted but in these two cases.
FreshAccepted ==
    \A n \in sent \ accepted :
        Value(n) - Value(decryptNonce) \in (1 - Window) .. (Half - 1) =>
            /\ Guess(n.low) = n
            /\ Plausible(n.low) \/ TakenForRepeat(n)

\* A packet that is not accepted leaves the receiver as it was, so damaged, repeated
\* and foreign packets cannot move the window.
RejectIsNoop == [][good' = good => UNCHANGED <<decryptNonce, history, late, lost>>]_vars

\* "The amount of packets never received" (MumbleTCP.proto:501, the field Node fills
\* with lost()): no packet that did arrive is counted.
LostNeverReceived == lost = Cardinality(MissingFrom(arrived))
=============================================================================
