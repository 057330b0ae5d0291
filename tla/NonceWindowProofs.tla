-------------------------- MODULE NonceWindowProofs --------------------------
(***************************************************************************)
(* Theorems about NonceWindow, for every base, window and first nonce.     *)
(*                                                                         *)
(* The argument: the nonce decrypt() guesses for a plausible byte lies at  *)
(* a distance from the last accepted one that is exactly what the          *)
(* statistics add (GuessIsAhead, GuessIsLate).  So the statistics add up,  *)
(* and a guess is either newer than everything accepted or inside the      *)
(* window, where the history tells every accepted nonce (HistoryTells).    *)
(* Conversely a guess within reach is the nonce the packet was sent with   *)
(* (GuessIsRight), and the history refuses it only in the two cases that   *)
(* TakenForRepeat names (FreshAcceptedCorrect).                            *)
(***************************************************************************)
EXTENDS NonceWindow, FiniteSetTheorems, TLAPS

-----------------------------------------------------------------------------
(* Arithmetic *)

\* A product with the base moves by a base per round.
LEMMA NextRound == ASSUME NEW u \in Int
                   PROVE  Base * (u + 1) = Base * u + Base /\ Base * (u - 1) = Base * u - Base
  BY BaseAssumption

\* Two multiples of the base that differ are a base apart.
LEMMA RoundsApart == ASSUME NEW u \in Nat, NEW v \in Nat, u < v
                     PROVE  Base * u + Base <= Base * v
  <1>1. PICK k \in Nat : v = u + 1 + k
    <2>1. v - u - 1 \in Nat /\ v = u + 1 + (v - u - 1)
      OBVIOUS
    <2> QED BY <2>1
  <1>2. Base * v = Base * u + Base + Base * k
    BY <1>1, BaseAssumption
  <1>3. Base * k \in Nat
    BY BaseAssumption
  <1> QED BY <1>2, <1>3, BaseAssumption

\* A nonce is determined by its value, and nonces with the same lowest byte are the
\* same or at least a base apart.
LEMMA SameByte == ASSUME NEW m \in Nonce, NEW n \in Nonce, m.low = n.low
                  PROVE  \/ m = n
                         \/ Value(m) + Base <= Value(n)
                         \/ Value(n) + Base <= Value(m)
  <1>1. CASE m.upper = n.upper
    BY <1>1 DEF Nonce
  <1>2. CASE m.upper < n.upper
    <2>1. Base * m.upper + Base <= Base * n.upper
      BY <1>2, RoundsApart DEF Nonce
    <2>2. Base * m.upper \in Int /\ Base * n.upper \in Int
      BY BaseAssumption DEF Nonce
    <2> QED BY <2>1, <2>2, BaseAssumption DEF Value, Nonce
  <1>3. CASE n.upper < m.upper
    <2>1. Base * n.upper + Base <= Base * m.upper
      BY <1>3, RoundsApart DEF Nonce
    <2>2. Base * m.upper \in Int /\ Base * n.upper \in Int
      BY BaseAssumption DEF Nonce
    <2> QED BY <2>1, <2>2, BaseAssumption DEF Value, Nonce
  <1> QED BY <1>1, <1>2, <1>3 DEF Nonce

\* The window is smaller than that.
LEMMA OutsideWindow ==
    ASSUME NEW m \in Nat, NEW n \in Nat, NEW d \in Nat,
           m <= d, m + Base <= n \/ n + Base <= m
    PROVE  /\ n < d /\ n > d - Window => ~(m > d - Window)
           /\ n > d => m <= n /\ ~(m > n - Window)
  BY BaseAssumption, WindowAssumption

LEMMA ValueType == ASSUME NEW n \in Nonce PROVE Value(n) \in Nat
  BY BaseAssumption DEF Nonce, Value

LEMMA ValueInjective == ASSUME NEW m \in Nonce, NEW n \in Nonce, Value(m) = Value(n) PROVE m = n
  <1>0. /\ m.low \in 0 .. Base - 1 /\ m.upper \in Nat /\ Base * m.upper \in Int
        /\ n.low \in 0 .. Base - 1 /\ n.upper \in Nat /\ Base * n.upper \in Int
    BY BaseAssumption DEF Nonce
  <1>1. ~ (m.upper < n.upper)
    BY <1>0, RoundsApart, BaseAssumption DEF Value
  <1>2. ~ (n.upper < m.upper)
    BY <1>0, RoundsApart, BaseAssumption DEF Value
  <1>3. m.upper = n.upper
    BY <1>0, <1>1, <1>2
  <1>4. m.low = n.low
    BY <1>0, <1>3 DEF Value
  <1> QED BY <1>3, <1>4 DEF Nonce

\* The byte that is looked up in the history is one.
LEMMA SecondByteType == ASSUME NEW n \in Nonce PROVE SecondByte(n) \in 0 .. Base - 1
  BY BaseAssumption DEF Nonce, SecondByte

-----------------------------------------------------------------------------
(* The guess of decrypt() *)

\* The byte that is in order follows the last one, across the wrap.
LEMMA InOrderByte ==
    ASSUME decryptNonce \in Nonce, NEW byte \in 0 .. Base - 1
    PROVE  InOrder(byte) <=> IF decryptNonce.low = Base - 1 THEN byte = 0
                                                            ELSE byte = decryptNonce.low + 1
  <1> DEFINE low == decryptNonce.low
  <1>1. low \in 0 .. Base - 1
    BY DEF Nonce
  <1>2. CASE low = Base - 1
    <2>1. (low + 1) % Base = 0
      BY <1>2, BaseAssumption
    <2> QED BY <2>1, <1>2 DEF InOrder
  <1>3. CASE low # Base - 1
    <2>1. (low + 1) % Base = low + 1
      BY <1>1, <1>3, BaseAssumption
    <2> QED BY <2>1, <1>3 DEF InOrder
  <1> QED BY <1>2, <1>3

\* A guess that is not late is newer than every nonce accepted, by what good and lost
\* count.
LEMMA GuessIsAhead ==
    ASSUME decryptNonce \in Nonce, NEW byte \in 0 .. Base - 1, Plausible(byte), ~Restores(byte)
    PROVE  /\ Lost(byte) \in Nat
           /\ Value(Guess(byte)) = Value(decryptNonce) + 1 + Lost(byte)
  <1> DEFINE low == decryptNonce.low
             u   == decryptNonce.upper
  <1>0. low \in 0 .. Base - 1 /\ u \in Nat /\ Base * u \in Int /\ Base * (u + 1) = Base * u + Base
    BY BaseAssumption, NextRound DEF Nonce
  <1> HIDE DEF low, u
  <1>1. CASE InOrder(byte)
    <2>1. Lost(byte) = 0
      BY <1>1 DEF Lost
    <2>2. CASE low = Base - 1
      <3>1. byte = 0 /\ Turn(byte) = 1
        BY <1>0, <1>1, <2>2, InOrderByte, BaseAssumption DEF Turn, low
      <3> QED BY <1>0, <2>1, <2>2, <3>1, BaseAssumption DEF Value, Guess, low, u
    <2>3. CASE low # Base - 1
      <3>1. byte = low + 1 /\ Turn(byte) = 0
        BY <1>0, <1>1, <2>3, InOrderByte, BaseAssumption DEF Turn, low
      <3> QED BY <1>0, <2>1, <3>1, BaseAssumption DEF Value, Guess, low, u
    <2> QED BY <2>2, <2>3
  <1>2. CASE ~InOrder(byte)
    <2>1. ~IsLate(byte) /\ IsAhead(byte) /\ byte # low
      BY <1>2 DEF Plausible, Restores, low
    <2>2. CASE byte > low
      <3>1. Turn(byte) = 0 /\ Lost(byte) = byte - low - 1
        BY <1>0, <1>2, <2>1, <2>2 DEF Turn, Lost, low
      <3> QED BY <1>0, <2>2, <3>1 DEF Value, Guess, low, u
    <2>3. CASE byte < low
      <3>1. Turn(byte) = 1 /\ Lost(byte) = Base - low + byte - 1
        BY <1>0, <1>2, <2>1, <2>3, BaseAssumption DEF Turn, Lost, low
      <3> QED BY <1>0, <2>3, <3>1, BaseAssumption DEF Value, Guess, low, u
    <2> QED BY <1>0, <2>1, <2>2, <2>3, BaseAssumption
  <1> QED BY <1>1, <1>2

\* A late guess lies inside the window.
LEMMA GuessIsLate ==
    ASSUME decryptNonce \in Nonce, NEW byte \in 0 .. Base - 1, Restores(byte)
    PROVE  /\ Lost(byte) = -1
           /\ Value(Guess(byte)) < Value(decryptNonce)
           /\ Value(Guess(byte)) > Value(decryptNonce) - Window
  <1> DEFINE low == decryptNonce.low
             u   == decryptNonce.upper
  <1>0. low \in 0 .. Base - 1 /\ u \in Nat /\ Base * u \in Int /\ Base * (u - 1) = Base * u - Base
    BY BaseAssumption, NextRound DEF Nonce
  <1> HIDE DEF low, u
  <1>1. ~InOrder(byte) /\ IsLate(byte) /\ Diff(byte) > -Window /\ Diff(byte) < 0
    BY DEF Restores, IsLate
  <1>2. Lost(byte) = -1
    BY <1>1 DEF Lost
  <1>3. ~IsAhead(byte)
    BY <1>0, <1>1, BaseAssumption DEF IsAhead, Diff, low
  <1>4. CASE byte > low
    <2>1. Diff(byte) = byte - low - Base
      BY <1>0, <1>1, <1>4, BaseAssumption, WindowAssumption DEF Diff, low
    <2>2. Turn(byte) = -1
      BY <1>1, <1>3, <1>4 DEF Turn, low
    <2> QED BY <1>0, <1>1, <1>2, <2>1, <2>2, BaseAssumption, WindowAssumption DEF Value, Guess, low, u
  <1>5. CASE byte < low
    <2>1. Diff(byte) = byte - low
      BY <1>0, <1>1, <1>5, BaseAssumption, WindowAssumption DEF Diff, low
    <2>2. Turn(byte) = 0
      BY <1>0, <1>1, <1>3, <1>5 DEF Turn, low
    <2> QED BY <1>0, <1>1, <1>2, <2>1, <2>2, BaseAssumption, WindowAssumption DEF Value, Guess, low, u
  <1>6. byte # low
    BY <1>0, <1>1, BaseAssumption DEF Diff, low
  <1> QED BY <1>0, <1>4, <1>5, <1>6, BaseAssumption

-----------------------------------------------------------------------------
(* The inductive invariant *)

\* A nonce in the network is newer than the first one, and so is the receiver's.
AfterInit ==
    /\ Value(encryptNonce) >= Value(InitNonce)
    /\ Value(decryptNonce) >= Value(InitNonce)
    /\ \A n \in sent : Value(n) > Value(InitNonce)

IInv == TypeOK /\ AfterInit /\ HistoryTells /\ Accounting

\* An accepted nonce was never accepted before.
LEMMA AcceptedIsNew ==
    ASSUME TypeOK, HistoryTells,
           NEW n \in sent, Plausible(n.low), Guess(n.low) = n
    PROVE  n \notin accepted
  <1>0. n \in Nonce /\ n.low \in 0 .. Base - 1 /\ decryptNonce \in Nonce
    BY DEF TypeOK, Nonce
  <1>1. CASE Restores(n.low)
    <2>1. history[n.low] # SecondByte(n)
      BY <1>1 DEF Plausible, Restores
    <2>2. Value(n) > Value(decryptNonce) - Window
      BY <1>0, <1>1, GuessIsLate
    <2> QED BY <2>1, <2>2 DEF HistoryTells
  <1>2. CASE ~Restores(n.low)
    <2>1. Value(n) > Value(decryptNonce)
      <3>1. Lost(n.low) \in Nat /\ Value(n) = Value(decryptNonce) + 1 + Lost(n.low)
        BY <1>0, <1>2, GuessIsAhead
      <3> QED BY <1>0, <3>1, ValueType
    <2>2. Value(n) \in Nat /\ Value(decryptNonce) \in Nat
      BY <1>0, ValueType
    <2> QED BY <2>1, <2>2 DEF HistoryTells
  <1> QED BY <1>1, <1>2

LEMMA InitInv == Init => IInv
  <1> SUFFICES ASSUME Init PROVE IInv
    OBVIOUS
  <1>1. Value(InitNonce) \in Nat
    BY InitAssumption, ValueType
  <1>2. TypeOK
    BY InitAssumption, BaseAssumption DEF Init, TypeOK
  <1> QED BY <1>1, <1>2 DEF Init, IInv, AfterInit, HistoryTells, Accounting

\* The sender's nonce goes up by one.
LEMMA EncryptCounts ==
    ASSUME encryptNonce \in Nonce, Encrypt
    PROVE  /\ encryptNonce' \in Nonce
           /\ Value(encryptNonce') = Value(encryptNonce) + 1
  <1>1. encryptNonce.low \in 0 .. Base - 1 /\ encryptNonce.upper \in Nat
    BY DEF Nonce
  <1>2. Base * encryptNonce.upper \in Int
    BY <1>1, BaseAssumption
  <1>3. Base * (encryptNonce.upper + 1) = Base * encryptNonce.upper + Base
    BY <1>1, NextRound
  <1>4. CASE encryptNonce.low = Base - 1
    <2>1. encryptNonce' = [low |-> 0, upper |-> encryptNonce.upper + 1]
      BY <1>4 DEF Encrypt, Successor
    <2> QED BY <1>1, <1>2, <1>3, <1>4, <2>1, BaseAssumption DEF Nonce, Value
  <1>5. CASE encryptNonce.low # Base - 1
    <2>1. encryptNonce' = [low |-> encryptNonce.low + 1, upper |-> encryptNonce.upper]
      BY <1>5 DEF Encrypt, Successor
    <2> QED BY <1>1, <1>2, <1>5, <2>1, BaseAssumption DEF Nonce, Value
  <1> QED BY <1>4, <1>5

LEMMA EncryptStep == ASSUME IInv, Encrypt PROVE IInv'
  <1> USE DEF IInv
  <1>1. /\ encryptNonce' \in Nonce
        /\ Value(encryptNonce') = Value(encryptNonce) + 1
    BY EncryptCounts DEF TypeOK
  <1>2. TypeOK'
    BY <1>1 DEF Encrypt, TypeOK, stats
  <1>3. AfterInit'
    <2>1. Value(encryptNonce) \in Nat /\ Value(InitNonce) \in Nat
      BY InitAssumption, ValueType DEF TypeOK
    <2> QED BY <1>1, <2>1 DEF AfterInit, Encrypt, Value
  <1>4. HistoryTells'
    BY DEF HistoryTells, Encrypt, Value, SecondByte
  <1>5. Accounting'
    BY DEF Accounting, Encrypt, Value, stats
  <1> QED BY <1>2, <1>3, <1>4, <1>5

\* The one step that changes the receiver.
LEMMA AcceptStep ==
    ASSUME IInv, NEW n \in sent, Plausible(n.low), Guess(n.low) = n,
           Accept(n.low), arrived' = arrived \cup {n}, UNCHANGED <<encryptNonce, sent>>
    PROVE  IInv'
  <1> USE DEF IInv
  <1>0. /\ n \in Nonce /\ n.low \in 0 .. Base - 1 /\ decryptNonce \in Nonce
        /\ Value(n) \in Nat /\ Value(decryptNonce) \in Nat /\ Value(InitNonce) \in Nat
    BY InitAssumption, ValueType DEF TypeOK, Nonce
  <1>1. /\ history' = [history EXCEPT ![n.low] = SecondByte(n)]
        /\ decryptNonce' = IF Restores(n.low) THEN decryptNonce ELSE n
        /\ good' = good + 1
        /\ late' = IF Restores(n.low) THEN late + 1 ELSE late
        /\ lost' = lost + Lost(n.low)
        /\ accepted' = accepted \cup {n}
    BY DEF Accept
  <1>2. /\ Restores(n.low) => /\ Lost(n.low) = -1
                              /\ Value(n) < Value(decryptNonce)
                              /\ Value(n) > Value(decryptNonce) - Window
        /\ ~Restores(n.low) => /\ Lost(n.low) \in Nat
                               /\ Value(n) = Value(decryptNonce) + 1 + Lost(n.low)
    BY <1>0, GuessIsAhead, GuessIsLate
  <1>3. TypeOK'
    <2>1. SecondByte(n) \in 0 .. Base - 1
      BY <1>0, SecondByteType
    <2>2. history' \in [0 .. Base - 1 -> 0 .. Base - 1]
      BY <1>1, <2>1 DEF TypeOK
    <2>3. good' \in Nat /\ late' \in Nat /\ lost' \in Int
      BY <1>1, <1>2 DEF TypeOK
    <2> QED BY <1>0, <1>1, <2>2, <2>3 DEF TypeOK
  <1>4. AfterInit'
    <2>1. Value(decryptNonce)' >= Value(InitNonce)
      BY <1>0, <1>1, <1>2 DEF AfterInit, Value
    <2> QED BY <2>1 DEF AfterInit, Value
  <1>5. HistoryTells'
    <2> SUFFICES ASSUME NEW m \in accepted'
                 PROVE  /\ Value(m) <= Value(decryptNonce')
                        /\ Value(m) > Value(decryptNonce') - Window
                              => history'[m.low] = SecondByte(m)
      BY DEF HistoryTells, Value, SecondByte
    <2>0. /\ m \in Nonce /\ m.low \in 0 .. Base - 1 /\ Value(m) \in Nat
          /\ history \in [0 .. Base - 1 -> 0 .. Base - 1]
          /\ Base \in Nat /\ Window \in Nat /\ Window <= Base /\ Window > 0
      <3>1. m \in Nonce
        BY <1>0, <1>1 DEF TypeOK
      <3>2. m.low \in 0 .. Base - 1
        BY <3>1 DEF Nonce
      <3>3. Base \in Nat /\ Window \in Nat /\ Window <= Base /\ Window > 0
        BY WindowAssumption, BaseAssumption
      <3> QED BY <3>1, <3>2, <3>3, ValueType DEF TypeOK
    <2>1. CASE m = n
      <3>1. history'[m.low] = SecondByte(m)
        BY <1>1, <2>0, <2>1
      <3> QED BY <1>0, <1>1, <1>2, <2>1, <3>1
    <2>2. CASE m # n
      <3>1. /\ m \in accepted /\ Value(m) <= Value(decryptNonce)
            /\ Value(m) > Value(decryptNonce) - Window => history[m.low] = SecondByte(m)
        BY <1>1, <2>2 DEF HistoryTells
      <3>2. CASE m.low # n.low
        <4>1. history'[m.low] = history[m.low]
          BY <1>1, <2>0, <3>2
        <4>2. ~Restores(n.low) => Value(n) > Value(decryptNonce)
          BY <1>0, <1>2
        <4>3. CASE Restores(n.low)
          BY <1>1, <3>1, <4>1, <4>3
        <4>4. CASE ~Restores(n.low)
          <5>1. Value(m) <= Value(n)
            BY <1>0, <2>0, <3>1, <4>2, <4>4
          <5>2. Value(m) > Value(n) - Window => Value(m) > Value(decryptNonce) - Window
            BY <1>0, <2>0, <4>2, <4>4
          <5> QED BY <1>1, <3>1, <4>1, <4>4, <5>1, <5>2
        <4> QED BY <4>3, <4>4
      <3>3. CASE m.low = n.low
        <4>1. Value(m) + Base <= Value(n) \/ Value(n) + Base <= Value(m)
          BY <1>0, <2>0, <2>2, <3>3, SameByte
        <4>2. /\ Restores(n.low) => ~(Value(m) > Value(decryptNonce) - Window)
              /\ ~Restores(n.low) => Value(m) <= Value(n) /\ ~(Value(m) > Value(n) - Window)
          <5>1. ~Restores(n.low) => Value(n) > Value(decryptNonce)
            BY <1>0, <1>2
          <5> QED BY <1>0, <1>2, <2>0, <3>1, <4>1, <5>1, OutsideWindow
        <4> QED BY <1>1, <3>1, <4>2
      <3> QED BY <3>2, <3>3
    <2> QED BY <2>1, <2>2
  <1>6. Accounting'
    <2>1. /\ Value(decryptNonce) = Value(InitNonce) + good + lost
          /\ good \in Nat /\ lost \in Int
      BY DEF Accounting, TypeOK
    <2>2. Value(decryptNonce') = Value(InitNonce) + good' + lost'
      BY <1>0, <1>1, <1>2, <2>1
    <2> QED BY <2>2 DEF Accounting, Value
  <1> QED BY <1>3, <1>4, <1>5, <1>6

LEMMA RejectStep ==
    ASSUME IInv, Reject, UNCHANGED <<encryptNonce, sent>>, arrived' \subseteq sent
    PROVE  IInv'
  BY DEF IInv, Reject, TypeOK, AfterInit, HistoryTells, Accounting, Value, SecondByte, stats

LEMMA NextInv == IInv /\ [Next]_vars => IInv'
  <1> SUFFICES ASSUME IInv, [Next]_vars PROVE IInv'
    OBVIOUS
  <1>0. arrived \subseteq sent
    BY DEF IInv, TypeOK
  <1>1. CASE Encrypt
    BY <1>1, EncryptStep
  <1>2. ASSUME NEW n \in sent, Receive(n) PROVE IInv'
    <2>1. CASE Plausible(n.low) /\ Guess(n.low) = n
      BY <1>2, <2>1, AcceptStep DEF Receive
    <2>2. CASE ~(Plausible(n.low) /\ Guess(n.low) = n)
      BY <1>0, <1>2, <2>2, RejectStep DEF Receive
    <2> QED BY <2>1, <2>2
  <1>3. ASSUME NEW byte \in 0 .. Base - 1, ReceiveDamaged(byte) PROVE IInv'
    BY <1>0, <1>3, RejectStep DEF ReceiveDamaged
  <1>4. CASE UNCHANGED vars
    BY <1>4 DEF vars, stats, IInv, TypeOK, AfterInit, HistoryTells, Accounting, Value, SecondByte
  <1> QED BY <1>1, <1>2, <1>3, <1>4 DEF Next

\* IInv holds of every reachable state.
THEOREM Invariance == Spec => []IInv
  BY InitInv, NextInv, PTL DEF Spec

-----------------------------------------------------------------------------
(* What follows from it *)

\* The state of sender and receiver keeps its types; in particular the guess decrypt()
\* stores never has a negative number of rounds.
THEOREM TypeCorrect == Spec => []TypeOK
  BY Invariance, PTL DEF IInv

\* m_good and m_lost account for every nonce up to the last one accepted.
THEOREM AccountingCorrect == Spec => []Accounting
  BY Invariance, PTL DEF IInv

\* The history tells of every late nonce whether it was accepted.
THEOREM HistoryCorrect == Spec => []HistoryTells
  BY Invariance, PTL DEF IInv

\* A step that counts a packet as good accepts a nonce that was never accepted.
THEOREM NoReplayCorrect == Spec => NoReplay
  <1>1. IInv /\ [Next]_vars => [good' # good => accepted' # accepted]_vars
    <2> SUFFICES ASSUME IInv, Next, good' # good PROVE accepted' # accepted
      OBVIOUS
    <2>1. PICK n \in sent : Receive(n)
      BY DEF Next, Encrypt, ReceiveDamaged, Reject, stats
    <2>2. Plausible(n.low) /\ Guess(n.low) = n /\ Accept(n.low)
      BY <2>1 DEF Receive, Reject, stats
    <2>3. n \notin accepted /\ n \in accepted'
      BY <2>2, AcceptedIsNew DEF IInv, Accept
    <2> QED BY <2>3
  <1> QED BY <1>1, Invariance, PTL DEF Spec, NoReplay

\* A packet that is not counted as good leaves the receiver as it was.
THEOREM RejectIsNoopCorrect == Spec => RejectIsNoop
  <1>1. IInv /\ [Next]_vars => [good' = good => UNCHANGED <<decryptNonce, history, late, lost>>]_vars
    <2> SUFFICES ASSUME IInv, Next, good' = good
                 PROVE  UNCHANGED <<decryptNonce, history, late, lost>>
      OBVIOUS
    <2>1. ~ \E byte : Accept(byte)
      BY DEF Accept, IInv, TypeOK
    <2> QED BY <2>1 DEF Next, Encrypt, Receive, ReceiveDamaged, Reject, stats
  <1> QED BY <1>1, Invariance, PTL DEF Spec, RejectIsNoop

-----------------------------------------------------------------------------
(* m_lost *)

LEMMA MissingIsFinite ==
    ASSUME TypeOK, NEW set PROVE IsFiniteSet(MissingFrom(set))
  <1>1. Value(InitNonce) + 1 \in Int /\ Value(decryptNonce) \in Int
    BY InitAssumption, ValueType DEF TypeOK
  <1>2. IsFiniteSet(Value(InitNonce) + 1 .. Value(decryptNonce))
    BY <1>1, FS_Interval
  <1> QED BY <1>2, FS_Subset DEF MissingFrom

\* A late packet was missing, and is so no longer.
LEMMA LateFound ==
    ASSUME IInv, LostIsMissing,
           NEW n \in sent, Plausible(n.low), Guess(n.low) = n, Accept(n.low), Restores(n.low)
    PROVE  LostIsMissing'
  <1>0. /\ n \in Nonce /\ n.low \in 0 .. Base - 1 /\ decryptNonce \in Nonce /\ accepted \subseteq Nonce
        /\ Value(n) \in Nat /\ Value(decryptNonce) \in Nat /\ Value(InitNonce) \in Nat
    BY InitAssumption, ValueType DEF IInv, TypeOK, Nonce
  <1>1. decryptNonce' = decryptNonce /\ accepted' = accepted \cup {n} /\ lost' = lost - 1
    <2>1. Lost(n.low) = -1
      BY <1>0, GuessIsLate
    <2> QED BY <2>1 DEF Accept, IInv, TypeOK
  <1>2. Value(n) < Value(decryptNonce) /\ Value(n) > Value(InitNonce)
    BY <1>0, GuessIsLate DEF IInv, AfterInit
  <1>3. \A m \in accepted : Value(m) # Value(n)
    <2>1. n \notin accepted
      BY AcceptedIsNew DEF IInv
    <2> QED BY <1>0, <2>1, ValueInjective
  <1>4. Value(n) \in MissingFrom(accepted)
    BY <1>0, <1>2, <1>3 DEF MissingFrom
  <1>5. MissingFrom(accepted)' = MissingFrom(accepted) \ {Value(n)}
    BY <1>1 DEF MissingFrom, Value
  <1>6. Cardinality(MissingFrom(accepted)') = Cardinality(MissingFrom(accepted)) - 1
    BY <1>4, <1>5, MissingIsFinite, FS_RemoveElement DEF IInv
  <1> QED BY <1>1, <1>6 DEF LostIsMissing

\* A jump ahead adds the places it skips.
LEMMA SkippedMissing ==
    ASSUME IInv, LostIsMissing,
           NEW n \in sent, Plausible(n.low), Guess(n.low) = n, Accept(n.low), ~Restores(n.low)
    PROVE  LostIsMissing'
  <1> DEFINE skipped == Value(decryptNonce) + 1 .. Value(n) - 1
  <1>0. /\ n \in Nonce /\ n.low \in 0 .. Base - 1 /\ decryptNonce \in Nonce /\ accepted \subseteq Nonce
        /\ Value(n) \in Nat /\ Value(decryptNonce) \in Nat /\ Value(InitNonce) \in Nat
    BY InitAssumption, ValueType DEF IInv, TypeOK, Nonce
  <1>1. decryptNonce' = n /\ accepted' = accepted \cup {n} /\ lost' = lost + Lost(n.low)
    BY DEF Accept
  <1>2. Lost(n.low) \in Nat /\ Value(n) = Value(decryptNonce) + 1 + Lost(n.low)
    BY <1>0, GuessIsAhead
  <1>3. IsFiniteSet(skipped) /\ Cardinality(skipped) = Lost(n.low)
    <2>1. Value(decryptNonce) + 1 \in Int /\ Value(n) - 1 \in Int
      BY <1>0
    <2>2. /\ IsFiniteSet(skipped)
          /\ Cardinality(skipped) = IF Value(decryptNonce) + 1 > Value(n) - 1
                                    THEN 0 ELSE (Value(n) - 1) - (Value(decryptNonce) + 1) + 1
      BY <2>1, FS_Interval
    <2> QED BY <1>0, <1>2, <2>2
  <1>4. /\ Value(InitNonce) <= Value(decryptNonce)
        /\ \A m \in accepted : Value(m) \in Nat /\ Value(m) <= Value(decryptNonce)
    BY <1>0, ValueType DEF IInv, AfterInit, HistoryTells
  <1>5. MissingFrom(accepted)' = MissingFrom(accepted) \cup skipped
    <2>1. MissingFrom(accepted)' = {place \in Value(InitNonce) + 1 .. Value(n) :
                                      \A m \in accepted \cup {n} : Value(m) # place}
      BY <1>1 DEF MissingFrom, Value
    <2> QED BY <1>0, <1>2, <1>4, <2>1 DEF MissingFrom
  <1>6. MissingFrom(accepted) \cap skipped = {}
    BY <1>0, <1>2 DEF MissingFrom
  <1>7. Cardinality(MissingFrom(accepted)') = Cardinality(MissingFrom(accepted)) + Lost(n.low)
    <2>1. Cardinality(MissingFrom(accepted) \cap skipped) = 0
      BY <1>6, FS_EmptySet
    <2>2. IsFiniteSet(MissingFrom(accepted)) /\ Cardinality(MissingFrom(accepted)) \in Nat
      BY MissingIsFinite, FS_CardinalityType DEF IInv
    <2>3. Cardinality(MissingFrom(accepted) \cup skipped)
            = Cardinality(MissingFrom(accepted)) + Cardinality(skipped)
                - Cardinality(MissingFrom(accepted) \cap skipped)
      BY <1>3, <2>2, FS_Union
    <2> HIDE DEF skipped
    <2> QED BY <1>2, <1>3, <1>5, <2>1, <2>2, <2>3
  <1> QED BY <1>1, <1>7 DEF LostIsMissing

LEMMA LostStep == IInv /\ LostIsMissing /\ [Next]_vars => LostIsMissing'
  <1> SUFFICES ASSUME IInv, LostIsMissing, [Next]_vars PROVE LostIsMissing'
    OBVIOUS
  <1>1. CASE UNCHANGED <<decryptNonce, lost, accepted>>
    BY <1>1 DEF LostIsMissing, MissingFrom, Value
  <1>2. ASSUME NEW n \in sent, Plausible(n.low), Guess(n.low) = n, Accept(n.low)
        PROVE  LostIsMissing'
    BY <1>2, LateFound, SkippedMissing
  <1> QED BY <1>1, <1>2 DEF Next, Encrypt, Receive, ReceiveDamaged, Reject, stats, vars

\* m_lost is exactly the number of nonces up to the last accepted one that decrypt()
\* has not accepted.
THEOREM LostIsMissingCorrect == Spec => []LostIsMissing
  <1>1. Init => LostIsMissing
    <2> SUFFICES ASSUME Init PROVE LostIsMissing
      OBVIOUS
    <2>1. Value(InitNonce) + 1 .. Value(decryptNonce) = {}
      <3>1. Value(InitNonce) \in Nat /\ decryptNonce = InitNonce
        BY InitAssumption, ValueType DEF Init
      <3> QED BY <3>1
    <2>2. MissingFrom(accepted) = {}
      BY <2>1 DEF MissingFrom
    <2> QED BY <2>2, FS_EmptySet DEF Init, LostIsMissing
  <1> QED BY <1>1, LostStep, Invariance, PTL DEF Spec
-----------------------------------------------------------------------------
(* First arrivals *)

\* What the history has for a byte is the initial 0, if nothing was accepted with it, or of
\* a nonce accepted with it; the receiver's nonce is the first one or one it accepted.
FreshInv ==
    /\ \A byte \in 0 .. Base - 1 :
          \/ history[byte] = 0 /\ \A m \in accepted : m.low # byte
          \/ \E m \in accepted : m.low = byte /\ history[byte] = SecondByte(m)
    /\ decryptNonce = InitNonce \/ decryptNonce \in accepted

\* decrypt() guesses the nonce of a packet less than Half ahead or less than Window late.
LEMMA GuessIsRight ==
    ASSUME decryptNonce \in Nonce, NEW n \in Nonce, n # decryptNonce,
           Value(n) - Value(decryptNonce) \in (1 - Window) .. (Half - 1)
    PROVE  /\ Guess(n.low) = n
           /\ n.low # decryptNonce.low
           /\ InOrder(n.low) \/ IsLate(n.low) \/ IsAhead(n.low)
  <1> DEFINE low  == decryptNonce.low
             u    == decryptNonce.upper
             byte == n.low
             v    == n.upper
             dist == Value(n) - Value(decryptNonce)
  <1>0. /\ low \in 0 .. Base - 1 /\ u \in Nat /\ byte \in 0 .. Base - 1 /\ v \in Nat
        /\ Base * u \in Int /\ Base * v \in Int
        /\ dist = Base * v + byte - (Base * u + low)
        /\ dist > -Window /\ dist < Half /\ dist \in Int
        /\ Base \in Nat /\ Half \in Nat /\ Base = 2 * Half /\ Half > 1
        /\ Window \in Nat /\ Window > 0 /\ Window <= Half
    <2>1. Value(n) \in Nat /\ Value(decryptNonce) \in Nat
      BY ValueType
    <2> QED BY <2>1, BaseAssumption, WindowAssumption DEF Nonce, Value
  <1>1. n = [low |-> byte, upper |-> v]
    BY DEF Nonce
  <1>2. InOrder(byte) <=> IF low = Base - 1 THEN byte = 0 ELSE byte = low + 1
    BY <1>0, InOrderByte
  <1>3. Guess(byte) = [low |-> byte, upper |-> u + Turn(byte)]
    BY DEF Guess
  <1>4. Diff(byte) = IF byte - low > Half THEN byte - low - Base
                     ELSE IF byte - low < -Half THEN byte - low + Base ELSE byte - low
    BY DEF Diff
  <1>5. /\ IsLate(byte) <=> Diff(byte) > -Window /\ Diff(byte) < 0
        /\ IsAhead(byte) <=> Diff(byte) > 0
        /\ Turn(byte) = IF InOrder(byte) \/ IsAhead(byte)
                        THEN IF byte < low THEN 1 ELSE 0
                        ELSE IF byte > low THEN -1 ELSE 0
    BY DEF IsLate, IsAhead, Turn
  <1>6. v = u \/ v = u + 1 \/ v = u - 1
    <2>1. ~ (u + 1 < v)
      <3> SUFFICES ASSUME u + 1 < v PROVE FALSE
        OBVIOUS
      <3>1. Base * (u + 1) + Base <= Base * v
        BY <1>0, RoundsApart
      <3>2. Base * (u + 1) = Base * u + Base
        BY <1>0, NextRound
      <3> HIDE DEF low, u, byte, v, dist
      <3> QED BY <1>0, <3>1, <3>2
    <2>2. ~ (v + 1 < u)
      <3> SUFFICES ASSUME v + 1 < u PROVE FALSE
        OBVIOUS
      <3>1. Base * (v + 1) + Base <= Base * u
        BY <1>0, RoundsApart
      <3>2. Base * (v + 1) = Base * v + Base
        BY <1>0, NextRound
      <3> HIDE DEF low, u, byte, v, dist
      <3> QED BY <1>0, <3>1, <3>2
    <2> HIDE DEF low, u, byte, v, dist
    <2> QED BY <1>0, <2>1, <2>2
  <1>7. ~ (v = u /\ byte = low)
    BY <1>1 DEF Nonce
  <1> HIDE DEF low, u, byte, v, dist
  <1>8. Base * (u + 1) = Base * u + Base /\ Base * (u - 1) = Base * u - Base
    <2>1. u \in Int
      BY <1>0
    <2> QED BY <2>1, NextRound
  <1>9. /\ u + Turn(byte) = v
        /\ byte # low
        /\ InOrder(byte) \/ IsLate(byte) \/ IsAhead(byte)
    <2>1. CASE v = u
      <3>1. dist = byte - low /\ Diff(byte) = byte - low
        BY <1>0, <1>4, <2>1
      <3> QED BY <1>0, <1>2, <1>5, <1>7, <2>1, <3>1
    <2>2. CASE v = u + 1
      <3>1. dist = Base + byte - low
        BY <1>0, <1>8, <2>2
      <3>2. Diff(byte) = dist
        BY <1>0, <1>4, <3>1
      <3> QED BY <1>0, <1>2, <1>5, <2>2, <3>1, <3>2
    <2>3. CASE v = u - 1
      <3>1. dist = byte - low - Base
        BY <1>0, <1>8, <2>3
      <3>2. Diff(byte) = dist
        BY <1>0, <1>4, <3>1
      <3> QED BY <1>0, <1>2, <1>5, <2>3, <3>1, <3>2
    <2> QED BY <1>6, <2>1, <2>2, <2>3
  <1> QED BY <1>1, <1>3, <1>9 DEF byte, low, u, v

LEMMA FreshStep == IInv /\ FreshInv /\ [Next]_vars => FreshInv'
  <1> SUFFICES ASSUME IInv, FreshInv, [Next]_vars PROVE FreshInv'
    OBVIOUS
  <1>1. CASE UNCHANGED <<decryptNonce, history, accepted>>
    BY <1>1 DEF FreshInv, SecondByte
  <1>2. ASSUME NEW n \in sent, Guess(n.low) = n, Accept(n.low)
        PROVE  FreshInv'
    <2>1. /\ history' = [history EXCEPT ![n.low] = SecondByte(n)]
          /\ accepted' = accepted \cup {n}
          /\ decryptNonce' = decryptNonce \/ decryptNonce' = n
      BY <1>2 DEF Accept
    <2>2. n.low \in 0 .. Base - 1 /\ history \in [0 .. Base - 1 -> 0 .. Base - 1]
      BY DEF IInv, TypeOK, Nonce
    <2>3. ASSUME NEW byte \in 0 .. Base - 1
          PROVE  \/ history'[byte] = 0 /\ \A m \in accepted' : m.low # byte
                 \/ \E m \in accepted' : m.low = byte /\ history'[byte] = SecondByte(m)
      <3>1. CASE byte = n.low
        BY <2>1, <2>2, <3>1
      <3>2. CASE byte # n.low
        <4>1. history'[byte] = history[byte]
          BY <2>1, <2>2, <3>2
        <4> QED BY <2>1, <3>2, <4>1 DEF FreshInv
      <3> QED BY <3>1, <3>2
    <2> QED BY <2>1, <2>3 DEF FreshInv, SecondByte
  <1> QED BY <1>1, <1>2 DEF Next, Encrypt, Receive, ReceiveDamaged, Reject, vars

\* Of a first arrival less than Half ahead of, or less than Window behind, the last accepted
\* nonce the right nonce is guessed, and it is accepted unless it is out of order and the
\* history has its second byte: as the initial 0, or of a nonce a multiple of Base^2 away.
\* Nothing is assumed of the first nonce or of the length of the session.
THEOREM FreshAcceptedCorrect == Spec => []FreshAccepted
  <1>1. Init => FreshInv
    BY DEF Init, FreshInv
  <1>2. IInv /\ FreshInv => FreshAccepted
    <2> SUFFICES ASSUME IInv, FreshInv, NEW n \in sent \ accepted,
                        Value(n) - Value(decryptNonce) \in (1 - Window) .. (Half - 1)
                 PROVE  Guess(n.low) = n /\ (Plausible(n.low) \/ TakenForRepeat(n))
      BY DEF FreshAccepted
    <2>1. n \in Nonce /\ decryptNonce \in Nonce /\ n.low \in 0 .. Base - 1
      BY DEF IInv, TypeOK, Nonce
    <2>2. n # decryptNonce
      <3>1. Value(InitNonce) \in Nat /\ Value(n) > Value(InitNonce)
        BY InitAssumption, ValueType DEF IInv, AfterInit
      <3> QED BY <3>1 DEF FreshInv
    <2>3. /\ Guess(n.low) = n
          /\ n.low # decryptNonce.low
          /\ InOrder(n.low) \/ IsLate(n.low) \/ IsAhead(n.low)
      BY <2>1, <2>2, GuessIsRight
    <2>4. CASE InOrder(n.low) \/ history[n.low] # SecondByte(n)
      BY <2>3, <2>4 DEF Plausible
    <2>5. CASE ~InOrder(n.low) /\ history[n.low] = SecondByte(n)
      BY <2>1, <2>3, <2>5 DEF FreshInv, TakenForRepeat
    <2> QED BY <2>3, <2>4, <2>5
  <1> QED BY <1>1, <1>2, FreshStep, Invariance, PTL DEF Spec
=============================================================================
