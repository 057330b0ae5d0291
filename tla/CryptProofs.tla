----------------------------- MODULE CryptProofs -----------------------------
(***************************************************************************)
(* Theorems about the parts that encrypt: Crypt for any ciphers, keys and  *)
(* nonces, CryptOCB2 for any block cipher and any size of blocks, and the  *)
(* byte loops of the nonce, for any number of bytes.                       *)
(*                                                                         *)
(* The contexts: while the object has a key, the context holds it expanded *)
(* for the direction it is set to (Keyed, ContextKeyed), because whatever  *)
(* changes one of the two gives the key again.  A nonce is either the      *)
(* object's, or spent and has to be set (Nonced).                          *)
(*                                                                         *)
(* The loops over bytes: the model writes them as recursive functions, and *)
(* what these compute is shown by induction over the set of the lengths    *)
(* for which the claim holds (SetInduction).  A loop that carries from one *)
(* byte to the next counts, because what a byte passes on is what its      *)
(* value lacks: the sums telescope (Telescopes, DoublesValue).             *)
(***************************************************************************)
EXTENDS Crypt, CryptOCB2, NonceDigits, FiniteSetTheorems, WellFoundedInduction, TLAPS

-----------------------------------------------------------------------------
(* Induction *)

\* Nat is contained in every set that is closed under the next number.
LEMMA SetInduction ==
    ASSUME NEW S, 0 \in S, \A n \in Nat : n \in S => n + 1 \in S
    PROVE  Nat \subseteq S
  <1> SUFFICES ASSUME Nat \ S # {} PROVE FALSE
    OBVIOUS
  <1> DEFINE R == {ss \in Nat \X Nat : ss[1] < ss[2]}
  <1>1. PICK x \in Nat \ S : \A y \in Nat \ S : ~ (<<y, x>> \in R)
    <2>1. IsWellFoundedOn(R, Nat)
      BY NatLessThanWellFounded DEF OpToRel
    <2> HIDE DEF R
    <2> QED BY <2>1, WFMin
  <1>2. x # 0 /\ x - 1 \in Nat /\ x - 1 < x
    BY <1>1
  <1>3. x - 1 \notin Nat \ S
    BY <1>1, <1>2
  <1> QED BY <1>1, <1>2, <1>3

\* What is computed from 0 up to n, each step from the one before.
Ascent(f, n, T, c, next) ==
    f \in [0 .. n -> T] /\ f[0] = c /\ \A i \in 1 .. n : f[i] = next[i][f[i - 1]]

LEMMA Ascends ==
    ASSUME NEW n \in Nat, NEW T, NEW c \in T, NEW next \in [1 .. n -> [T -> T]]
    PROVE  \E f : Ascent(f, n, T, c, next)
  <1> DEFINE Good(m, f) == /\ f \in [0 .. m -> T] /\ f[0] = c
                           /\ \A i \in 1 .. m : f[i] = next[i][f[i - 1]]
             S == {m \in Nat : m <= n => \E f : Good(m, f)}
  <1>1. 0 \in S
    <2> DEFINE f == [i \in 0 .. 0 |-> c]
    <2>1. f \in [0 .. 0 -> T] /\ f[0] = c /\ 1 .. 0 = {}
      OBVIOUS
    <2> HIDE DEF f
    <2>2. Good(0, f)
      BY <2>1
    <2> QED BY <2>2
  <1>2. ASSUME NEW m \in Nat, m \in S PROVE m + 1 \in S
    <2> SUFFICES ASSUME m + 1 <= n PROVE \E f : Good(m + 1, f)
      OBVIOUS
    <2>1. PICK f : Good(m, f)
      <3>1. m <= n
        OBVIOUS
      <3> HIDE DEF Good
      <3> QED BY <1>2, <3>1
    <2> DEFINE value == next[m + 1][f[m]]
               g == [i \in 0 .. m + 1 |-> IF i = m + 1 THEN value ELSE f[i]]
    <2>2. value \in T
      <3>1. f[m] \in T /\ m + 1 \in 1 .. n
        BY <2>1
      <3> QED BY <3>1
    <2>3. g \in [0 .. m + 1 -> T] /\ g[m + 1] = value /\ \A i \in 0 .. m : g[i] = f[i]
      <3>1. \A i \in 0 .. m + 1 : i # m + 1 => i \in 0 .. m
        OBVIOUS
      <3>2. \A i \in 0 .. m : i \in 0 .. m + 1 /\ i # m + 1
        OBVIOUS
      <3> HIDE DEF value
      <3> QED BY <2>1, <2>2, <3>1, <3>2
    <2> HIDE DEF g
    <2>4. ASSUME NEW i \in 1 .. m + 1 PROVE g[i] = next[i][g[i - 1]]
      <3>1. CASE i = m + 1
        <4>1. i - 1 = m /\ m \in 0 .. m
          BY <3>1
        <4> QED BY <2>3, <3>1, <4>1
      <3>2. CASE i # m + 1
        <4>1. i \in 1 .. m /\ i \in 0 .. m /\ i - 1 \in 0 .. m
          BY <3>2
        <4> QED BY <2>1, <2>3, <4>1
      <3> QED BY <3>1, <3>2
    <2>5. Good(m + 1, g)
      <3>1. 0 \in 0 .. m
        OBVIOUS
      <3> QED BY <2>1, <2>3, <2>4, <3>1
    <2> QED BY <2>5
  <1>3. PICK f : Good(n, f)
    <2> HIDE DEF S, Good
    <2>1. Nat \subseteq S
      BY <1>1, <1>2, SetInduction
    <2> QED BY <2>1 DEF S
  <1> QED BY <1>3 DEF Ascent

\* And what each step keeps, all of it has.
LEMMA Ascending ==
    ASSUME NEW n \in Nat, NEW T, NEW f, f[0] \in T,
           \A i \in 1 .. n : f[i - 1] \in T => f[i] \in T
    PROVE  \A i \in 0 .. n : f[i] \in T
  <1> DEFINE S == {m \in Nat : m <= n => f[m] \in T}
  <1>1. 0 \in S
    OBVIOUS
  <1>2. ASSUME NEW m \in Nat, m \in S PROVE m + 1 \in S
    <2> SUFFICES ASSUME m + 1 <= n PROVE f[m + 1] \in T
      OBVIOUS
    <2>1. m <= n /\ m + 1 \in 1 .. n /\ (m + 1) - 1 = m
      OBVIOUS
    <2> QED BY <1>2, <2>1
  <1>3. ASSUME NEW i \in 0 .. n PROVE f[i] \in T
    <2> HIDE DEF S
    <2>1. Nat \subseteq S
      BY <1>1, <1>2, SetInduction
    <2> QED BY <2>1 DEF S
  <1> QED BY <1>3

-----------------------------------------------------------------------------
(* Crypt *)

\* The context holds the object's key for its direction.
Keyed ==
    ctx.alive /\ m_key # NoBuffer => ctx.schedule = [key |-> m_key, encrypt |-> ctx.encrypting]

\* The context holds the object's nonce, or has to be given one.
Nonced == ctx.alive /\ m_nonce # NoBuffer => ctx.iv \in {m_nonce, NoBuffer}

IInv == CryptTypeOK /\ Keyed /\ Nonced /\ ContextAgrees

Schedules == [key : Buffers, encrypt : BOOLEAN]

Ivs == Nonces \cup {NoBuffer, Leftover}

\* An outcome that is no call of process() says nothing about keys.
LEMMA DidType ==
    ASSUME NEW call \in {"none", "failed", "set", "generated"}
    PROVE  Did(call) \in Outcomes /\ Did(call).call # "process"
  BY DEF Did, Outcomes

\* A key given to the context.
LEMMA ExpandType ==
    ASSUME NEW given \in Buffers, NEW encrypting \in BOOLEAN, NEW schedule \in Schedules
    PROVE  Expand(given, encrypting, schedule) \in Schedules
  BY DEF Expand, Schedules

\* What lies at data().
LEMMA DataOfType ==
    ASSUME CryptTypeOK
    PROVE  /\ DataOf(m_key, "key") \in Buffers
           /\ DataOf(m_nonce, "nonce") \in Ivs
           /\ m_key # NoBuffer => DataOf(m_key, "key") = m_key
           /\ m_nonce # NoBuffer => DataOf(m_nonce, "nonce") = m_nonce
  BY DEF DataOf, CryptTypeOK, Buffers, Ivs

\* A new context.
LEMMA FreshType ==
    /\ Fresh \in Contexts /\ [Fresh EXCEPT !.alive = FALSE] \in Contexts
    /\ ~[Fresh EXCEPT !.alive = FALSE].alive
  BY DEF Fresh, Unkeyed, Contexts, Buffers

\* The context process() runs with agrees with the object, whether the direction changed or
\* not.
LEMMA RekeyedAgrees ==
    ASSUME CryptTypeOK, Keyed, Nonced, ctx.alive, NEW forward \in BOOLEAN
    PROVE  /\ Rekeyed(forward) \in Contexts
           /\ Rekeyed(forward).alive /\ Rekeyed(forward).cipher = ctx.cipher
           /\ Rekeyed(forward).encrypting = forward
           /\ m_key # NoBuffer => Rekeyed(forward).schedule = [key |-> m_key, encrypt |-> forward]
           /\ m_nonce # NoBuffer =>
                /\ Rekeyed(forward).iv \in {m_nonce, NoBuffer}
                /\ ctx.encrypting # forward => Rekeyed(forward).iv = m_nonce
  <1>1. ctx \in Contexts
    BY DEF CryptTypeOK
  <1>2. CASE ctx.encrypting = forward
    BY <1>1, <1>2 DEF Rekeyed, Keyed, Nonced
  <1>3. CASE ctx.encrypting # forward
    <2> DEFINE given == DataOf(m_key, "key")
               iv  == DataOf(m_nonce, "nonce")
               schedule == Expand(given, forward, ctx.schedule)
    <2>1. /\ given \in Buffers /\ iv \in Ivs
          /\ m_key # NoBuffer => given = m_key
          /\ m_nonce # NoBuffer => iv = m_nonce
      BY DataOfType
    <2>2. schedule \in Schedules
      BY <1>1, <2>1, ExpandType DEF Contexts, Schedules
    <2>3. m_key # NoBuffer => schedule = [key |-> m_key, encrypt |-> forward]
      BY <2>1 DEF Expand
    <2>4. Rekeyed(forward) = [ctx EXCEPT !.encrypting = forward, !.schedule = schedule,
                                         !.iv = IF iv = NoBuffer THEN @ ELSE iv]
      BY <1>3 DEF Rekeyed
    <2> HIDE DEF given, iv, schedule
    <2> QED BY <1>1, <2>1, <2>2, <2>3, <2>4 DEF Contexts, Schedules, Ivs, CryptTypeOK
  <1> QED BY <1>2, <1>3

\* encrypt() and decrypt().
LEMMA ProcessKeeps ==
    ASSUME IInv, NEW forward \in BOOLEAN, NEW accepted \in BOOLEAN, NEW spent \in BOOLEAN,
           Process(forward, accepted, spent)
    PROVE  IInv'
  <1> DEFINE c == Rekeyed(forward)
  <1>1. /\ c \in Contexts /\ c.alive /\ c.cipher = ctx.cipher /\ c.encrypting = forward
        /\ m_key # NoBuffer => c.schedule = [key |-> m_key, encrypt |-> forward]
        /\ m_nonce # NoBuffer =>
             c.iv \in {m_nonce, NoBuffer} /\ (ctx.encrypting # forward => c.iv = m_nonce)
    BY RekeyedAgrees DEF IInv, Process
  <1>2. /\ ctx' = [c EXCEPT !.iv = IF Runs(c) /\ spent THEN NoBuffer ELSE @]
        /\ outcome' = [call |-> "process", encrypt |-> forward,
                       switched |-> ctx.encrypting # forward, done |-> Runs(c) /\ accepted,
                       schedule |-> c.schedule, iv |-> c.iv]
        /\ UNCHANGED <<m_key, m_nonce, m_padding, stored>>
    BY DEF Process
  <1> HIDE DEF c
  <1>3. Runs(c) => c.cipher = NoCipher \/ c.iv # NoBuffer
    BY DEF Runs
  <1>4. Runs(c) \in BOOLEAN
    BY DEF Runs
  <1>5. /\ ctx' \in Contexts /\ ctx'.alive /\ ctx'.cipher = ctx.cipher /\ ctx'.encrypting = forward
        /\ ctx'.schedule = c.schedule /\ ctx'.iv \in {c.iv, NoBuffer}
    BY <1>1, <1>2 DEF Contexts
  <1>6. outcome' \in Outcomes
    <2>1. (ctx.encrypting # forward) \in BOOLEAN /\ (Runs(c) /\ accepted) \in BOOLEAN
      BY <1>4
    <2>2. c.schedule \in [key : Buffers, encrypt : BOOLEAN] /\ c.iv \in Nonces \cup {NoBuffer, Leftover}
      BY <1>1 DEF Contexts
    <2> QED BY <1>2, <2>1, <2>2 DEF Outcomes
  <1>7. CryptTypeOK'
    BY <1>2, <1>5, <1>6 DEF IInv, CryptTypeOK
  <1>8. Keyed' /\ Nonced'
    BY <1>1, <1>2, <1>5 DEF Keyed, Nonced
  <1>9. ContextAgrees'
    <2>1. /\ outcome'.schedule = c.schedule /\ outcome'.iv = c.iv /\ outcome'.encrypt = forward
          /\ outcome'.done => Runs(c)
          /\ outcome'.switched => ctx.encrypting # forward
      BY <1>2
    <2>2. KeyedForDirection'
      BY <1>1, <1>2, <2>1 DEF KeyedForDirection
    <2>3. outcome'.done => NonceAsSet'
      BY <1>1, <1>2, <1>3, <1>5, <2>1 DEF NonceAsSet
    <2>4. outcome'.switched => SwitchRenews'
      BY <1>1, <1>2, <2>1 DEF SwitchRenews
    <2> QED BY <2>2, <2>3, <2>4 DEF ContextAgrees
  <1> QED BY <1>7, <1>8, <1>9 DEF IInv

\* setKey(), also with a key that genKey() made.
LEMMA TakeKeyKeeps ==
    ASSUME IInv, NEW given \in Keys \cup {NoBuffer}, NEW why \in {"set", "generated"},
           TakeKey(given, why)
    PROVE  IInv'
  <1>1. CASE KeyFits(given)
    <2> DEFINE schedule == Expand(given, ctx.encrypting, ctx.schedule)
    <2>1. ctx \in Contexts /\ schedule \in Schedules
      BY ExpandType DEF IInv, CryptTypeOK, Contexts, Schedules, Buffers
    <2>2. given # NoBuffer => schedule = [key |-> given, encrypt |-> ctx.encrypting]
      BY DEF Expand
    <2>3. /\ ctx' = [ctx EXCEPT !.schedule = schedule]
          /\ m_key' = given /\ outcome' = Did(why) /\ UNCHANGED <<m_nonce, m_padding>>
          /\ stored' \in SUBSET {"key", "nonce"}
      BY <1>1 DEF TakeKey, IInv, CryptTypeOK
    <2> HIDE DEF schedule
    <2>4. /\ ctx' \in Contexts /\ ctx'.encrypting = ctx.encrypting /\ ctx'.iv = ctx.iv
          /\ ctx'.schedule = schedule /\ ctx'.alive = ctx.alive
      BY <2>1, <2>3 DEF Contexts, Schedules
    <2>5. outcome' \in Outcomes /\ outcome'.call # "process"
      BY <2>3, DidType
    <2> QED BY <2>2, <2>3, <2>4, <2>5
            DEF IInv, CryptTypeOK, Keyed, Nonced, ContextAgrees, Processed
  <1>2. CASE ~KeyFits(given)
    <2>1. outcome' = Did("failed") /\ UNCHANGED <<m_key, m_nonce, m_padding, stored, ctx>>
      BY <1>2 DEF TakeKey
    <2>2. outcome' \in Outcomes /\ outcome'.call # "process"
      BY <2>1, DidType
    <2> QED BY <2>1, <2>2 DEF IInv, CryptTypeOK, Keyed, Nonced, ContextAgrees, Processed
  <1> QED BY <1>1, <1>2

\* Calls that leave the object as it is.
LEMMA RefuseKeeps ==
    ASSUME IInv, Refuse("failed")
    PROVE  IInv'
  <1>1. outcome' \in Outcomes /\ outcome'.call # "process"
    BY DidType DEF Refuse
  <1> QED BY <1>1 DEF Refuse, IInv, CryptTypeOK, Keyed, Nonced, ContextAgrees, Processed

\* setCipher(), reset() and the assignment leave no key that could be out of date.
LEMMA RenewKeeps ==
    ASSUME IInv, (\E cipher \in Ciphers \cup {NoCipher} : SetCipher(cipher)) \/ Reset \/ Replace
    PROVE  IInv'
  <1> USE DEF IInv, CryptTypeOK, Keyed, Nonced, ContextAgrees, Processed
  <1>1. ASSUME NEW cipher \in Ciphers \cup {NoCipher}, SetCipher(cipher) PROVE IInv'
    <2>1. ctx' \in Contexts
      BY <1>1 DEF SetCipher, Contexts, Unkeyed, Buffers
    <2>2. outcome' \in Outcomes /\ outcome'.call # "process"
      BY <1>1, DidType DEF SetCipher
    <2>3. stored' \in SUBSET {"key", "nonce"}
      BY <1>1 DEF SetCipher
    <2> QED BY <1>1, <2>1, <2>2, <2>3 DEF SetCipher
  <1>2. CASE Reset
    <2>1. outcome' \in Outcomes /\ outcome'.call # "process"
      BY <1>2, DidType DEF Reset
    <2> QED BY <1>2, <2>1, FreshType DEF Reset
  <1>3. CASE Replace
    <2>1. outcome' \in Outcomes /\ outcome'.call # "process"
      BY <1>3, DidType DEF Replace
    <2> QED BY <1>3, <2>1, FreshType DEF Replace
  <1> QED BY <1>1, <1>2, <1>3

\* setNonce() and togglePadding().
LEMMA SetKeeps ==
    ASSUME IInv,
           \/ \E chosen \in Nonces, accepted \in BOOLEAN : SetNonce(chosen, accepted)
           \/ \E enable \in BOOLEAN : TogglePadding(enable)
    PROVE  IInv'
  <1> USE DEF IInv, CryptTypeOK, Keyed, Nonced, ContextAgrees, Processed
  <1>1. ASSUME NEW n \in Nonces, NEW accepted \in BOOLEAN, SetNonce(n, accepted) PROVE IInv'
    <2>1. outcome' \in Outcomes /\ outcome'.call # "process"
      BY <1>1, DidType DEF SetNonce
    <2>2. CASE NonceFits(n, accepted)
      <3>1. ctx' = [ctx EXCEPT !.iv = n] /\ m_nonce' = n /\ UNCHANGED <<m_key, m_padding>>
        BY <1>1, <2>2 DEF SetNonce
      <3>2. /\ ctx' \in Contexts /\ ctx'.iv = n /\ ctx'.alive = ctx.alive
            /\ ctx'.schedule = ctx.schedule /\ ctx'.encrypting = ctx.encrypting
        BY <3>1 DEF Contexts
      <3>3. stored' \in SUBSET {"key", "nonce"}
        BY <1>1, <2>2 DEF SetNonce
      <3> QED BY <2>1, <3>1, <3>2, <3>3
    <2>3. CASE ~NonceFits(n, accepted)
      BY <1>1, <2>1, <2>3 DEF SetNonce
    <2> QED BY <2>2, <2>3
  <1>2. ASSUME NEW enable \in BOOLEAN, TogglePadding(enable) PROVE IInv'
    <2>1. outcome' \in Outcomes /\ outcome'.call # "process"
      BY <1>2, DidType DEF TogglePadding
    <2> QED BY <1>2, <2>1 DEF TogglePadding
  <1> QED BY <1>1, <1>2

LEMMA CryptInitIInv == CryptInit => IInv
  <1> SUFFICES ASSUME CryptInit PROVE IInv
    OBVIOUS
  <1>1. outcome \in Outcomes /\ outcome.call # "process"
    BY DidType DEF CryptInit
  <1> QED BY <1>1, FreshType
          DEF CryptInit, IInv, CryptTypeOK, Keyed, Nonced, ContextAgrees, Processed

LEMMA CryptNextIInv == IInv /\ [CryptNext]_cryptVars => IInv'
  <1> SUFFICES ASSUME IInv, [CryptNext]_cryptVars PROVE IInv'
    OBVIOUS
  <1>1. CASE Dead \/ SetCipherUnknown
    BY <1>1, RefuseKeeps DEF Dead, SetCipherUnknown
  <1>2. CASE SetGeneratedKey
    <2>1. Generated \subseteq Keys \cup {NoBuffer}
      BY DEF Generated
    <2> QED BY <1>2, <2>1, TakeKeyKeeps DEF SetGeneratedKey
  <1>3. ASSUME NEW k \in Keys \cup {NoBuffer}, SetKey(k) PROVE IInv'
    BY <1>3, TakeKeyKeeps DEF SetKey
  <1>4. CASE \E spent \in BOOLEAN : Encrypt(spent)
    BY <1>4, ProcessKeeps DEF Encrypt
  <1>5. CASE \E accepted, spent \in BOOLEAN : Decrypt(accepted, spent)
    BY <1>5, ProcessKeeps DEF Decrypt
  <1>6. CASE UNCHANGED cryptVars
    BY <1>6 DEF cryptVars, IInv, CryptTypeOK, Keyed, Nonced, ContextAgrees, Processed,
                KeyedForDirection, NonceAsSet, SwitchRenews
  <1> QED BY <1>1, <1>2, <1>3, <1>4, <1>5, <1>6, RenewKeeps, SetKeeps DEF CryptNext

LEMMA CryptInductive == CryptSpec => []IInv
  BY CryptInitIInv, CryptNextIInv, PTL DEF CryptSpec

\* The object, its context and what calls report keep their types.
THEOREM CryptTypeCorrect == CryptSpec => []CryptTypeOK
  BY CryptInductive, PTL DEF IInv

\* encrypt() and decrypt() run with the key of key(), expanded for their direction, and with
\* the nonce of nonce(), after any sequence of calls; a change of direction renews both.
THEOREM ContextAgreesCorrect == CryptSpec => []ContextAgrees
  BY CryptInductive, PTL DEF IInv

-----------------------------------------------------------------------------
(* NonceDigits: the loops of encrypt() and decrypt() over the bytes of a nonce *)

\* A sum that is taken from the last digit down to index i.
LEMMA Descends ==
    ASSUME NEW i \in 0 .. Digits, NEW c \in Nat, NEW a \in [0 .. Digits -> Nat]
    PROVE  \E f \in [i .. Digits -> Nat] :
             \A j \in i .. Digits : f[j] = IF j = Digits THEN c ELSE a[j] + Base * f[j + 1]
  <1> DEFINE Good(k, f) == /\ f \in [Digits - k .. Digits -> Nat]
                           /\ \A j \in Digits - k .. Digits :
                                f[j] = IF j = Digits THEN c ELSE a[j] + Base * f[j + 1]
             S == {k \in Nat : k <= Digits => \E f : Good(k, f)}
  <1>0. Digits \in Nat /\ Base \in Nat
    BY DigitsAssumption
  <1>1. 0 \in S
    <2> DEFINE f == [j \in Digits .. Digits |-> c]
    <2>1. f \in [Digits - 0 .. Digits -> Nat] /\ f[Digits] = c
      BY <1>0
    <2>2. \A j \in Digits - 0 .. Digits : j = Digits
      BY <1>0
    <2> HIDE DEF f
    <2>3. Good(0, f)
      BY <2>1, <2>2
    <2> QED BY <2>3
  <1>2. ASSUME NEW k \in Nat, k \in S PROVE k + 1 \in S
    <2> SUFFICES ASSUME k + 1 <= Digits PROVE \E f : Good(k + 1, f)
      OBVIOUS
    <2>1. PICK f : Good(k, f)
      <3>1. k <= Digits
        BY <1>0
      <3> HIDE DEF Good
      <3> QED BY <1>2, <3>1
    <2> DEFINE first == Digits - (k + 1)
               g == [j \in first .. Digits |-> IF j = first THEN a[first] + Base * f[first + 1] ELSE f[j]]
    <2>2. /\ first \in 0 .. Digits - 1 /\ first + 1 = Digits - k /\ first # Digits
          /\ first .. Digits = {first} \cup (Digits - k .. Digits)
          /\ first \notin Digits - k .. Digits /\ first + 1 \in Digits - k .. Digits
      BY <1>0
    <2>3. a[first] + Base * f[first + 1] \in Nat
      <3>1. a[first] \in Nat /\ f[first + 1] \in Nat
        BY <2>1, <2>2
      <3>2. Base * f[first + 1] \in Nat
        BY <1>0, <3>1
      <3> QED BY <3>1, <3>2
    <2>4. g \in [first .. Digits -> Nat]
      BY <2>1, <2>2, <2>3
    <2>5. \A j \in Digits - k .. Digits : g[j] = f[j] /\ (j # Digits => g[j + 1] = f[j + 1])
      <3> SUFFICES ASSUME NEW j \in Digits - k .. Digits
                   PROVE  g[j] = f[j] /\ (j # Digits => g[j + 1] = f[j + 1])
        OBVIOUS
      <3>1. j \in first .. Digits /\ j # first /\ (j # Digits => j + 1 \in first .. Digits /\ j + 1 # first)
        BY <1>0, <2>2
      <3> QED BY <3>1
    <2>6. g[first] = a[first] + Base * g[first + 1]
      BY <2>2
    <2> HIDE DEF g
    <2>7. Good(k + 1, g)
      <3> SUFFICES ASSUME NEW j \in first .. Digits
                   PROVE  g[j] = IF j = Digits THEN c ELSE a[j] + Base * g[j + 1]
        BY <2>4
      <3>1. CASE j = first
        BY <2>2, <2>6, <3>1
      <3>2. CASE j \in Digits - k .. Digits
        BY <2>1, <2>5, <3>2
      <3> QED BY <2>2, <3>1, <3>2
    <2> QED BY <2>7
  <1>3. Digits - i \in Nat /\ Digits - i <= Digits /\ Digits - (Digits - i) = i
    BY <1>0
  <1>4. PICK f : Good(Digits - i, f)
    <2> HIDE DEF S, Good
    <2>1. Nat \subseteq S
      BY <1>1, <1>2, SetInduction
    <2> QED BY <1>3, <2>1 DEF S
  <1>5. f \in [i .. Digits -> Nat]
        /\ \A j \in i .. Digits : f[j] = IF j = Digits THEN c ELSE a[j] + Base * f[j + 1]
    BY <1>3, <1>4
  <1> QED BY <1>5

\* Such a sum is a natural number at every index.
LEMMA DescendsType ==
    ASSUME NEW i \in 0 .. Digits, NEW c \in Nat, NEW a \in [0 .. Digits -> Nat], NEW f,
           \A j \in i .. Digits : f[j] = IF j = Digits THEN c ELSE a[j] + Base * f[j + 1]
    PROVE  \A j \in i .. Digits : f[j] \in Nat
  <1> DEFINE S == {k \in Nat : k <= Digits - i => f[Digits - k] \in Nat}
  <1>0. Digits \in Nat /\ Base \in Nat
    BY DigitsAssumption
  <1>2. 0 \in S
    <2>1. Digits \in i .. Digits /\ Digits - 0 = Digits
      BY <1>0
    <2> QED BY <2>1
  <1>3. ASSUME NEW k \in Nat, k \in S PROVE k + 1 \in S
    <2> SUFFICES ASSUME k + 1 <= Digits - i PROVE f[Digits - (k + 1)] \in Nat
      OBVIOUS
    <2> DEFINE j == Digits - (k + 1)
    <2>1. j \in i .. Digits /\ j # Digits /\ j + 1 = Digits - k /\ j \in 0 .. Digits /\ k <= Digits - i
      BY <1>0
    <2>2. f[j + 1] \in Nat
      BY <1>3, <2>1
    <2>3. f[j] = a[j] + Base * f[j + 1]
      BY <2>1
    <2>4. a[j] \in Nat
      BY <2>1
    <2>5. Base * f[j + 1] \in Nat
      BY <1>0, <2>2
    <2> HIDE DEF j
    <2>6. f[j] \in Nat
      BY <2>3, <2>4, <2>5
    <2> QED BY <2>6 DEF j
  <1>4. ASSUME NEW j \in i .. Digits PROVE f[j] \in Nat
    <2> HIDE DEF S
    <2>1. Nat \subseteq S
      BY <1>2, <1>3, SetInduction
    <2>2. Digits - j \in Nat /\ Digits - j <= Digits - i /\ Digits - (Digits - j) = j
      BY <1>0
    <2> QED BY <2>1, <2>2 DEF S
  <1> QED BY <1>4

DigitsOf == [Index -> 0 .. Base - 1]

\* f holds the numbers that digits d make from each index on, from i up.
SumOf(d, i, f) ==
    /\ f \in [i .. Digits -> Nat]
    /\ f[Digits] = 0
    /\ \A j \in i .. Digits - 1 : f[j] = d[j] + Base * f[j + 1]

\* s holds how many numbers there are from each index on.
ProductFrom(i, s) ==
    /\ s \in [i .. Digits -> Nat]
    /\ s[Digits] = 1
    /\ \A j \in i .. Digits - 1 : s[j] = Base * s[j + 1]

\* Digits d with carries c into each become digits e and carries out of them.
Carries(d, c, i, e) ==
    /\ c \in [i .. Digits -> {0, 1}]
    /\ \A j \in i .. Digits - 1 : e[j] + Base * c[j + 1] = d[j] + c[j]

\* The number the digits from index i on make, as the sum that defines it.
LEMMA NumberSum ==
    ASSUME NEW d \in DigitsOf, NEW i \in Index
    PROVE  \E f : SumOf(d, i, f) /\ Number(d, i) = f[i]
  <1> DEFINE a == [j \in 0 .. Digits |-> IF j = Digits THEN 0 ELSE d[j]]
             sum[j \in i .. Digits] == IF j = Digits THEN 0 ELSE d[j] + Base * sum[j + 1]
  <1>0. Digits \in Nat /\ Base \in Nat /\ i \in 0 .. Digits /\ Digits \in i .. Digits
    BY DigitsAssumption DEF Index
  <1>1. a \in [0 .. Digits -> Nat]
    BY <1>0 DEF DigitsOf, Index
  <1>2. \A j \in i .. Digits : j # Digits => a[j] = d[j]
    BY <1>0
  <1>3. \E f : f = [j \in i .. Digits |-> IF j = Digits THEN 0 ELSE d[j] + Base * f[j + 1]]
    <2> HIDE DEF a
    <2>1. PICK f \in [i .. Digits -> Nat] :
            \A j \in i .. Digits : f[j] = IF j = Digits THEN 0 ELSE a[j] + Base * f[j + 1]
      <3> HIDE DEF sum
      <3>1. 0 \in Nat
        OBVIOUS
      <3> QED BY <1>0, <1>1, <3>1, Descends, Zenon
    <2>2. f = [j \in i .. Digits |-> IF j = Digits THEN 0 ELSE d[j] + Base * f[j + 1]]
      BY <1>2, <2>1
    <2> QED BY <2>2
  <1>4. sum = [j \in i .. Digits |-> IF j = Digits THEN 0 ELSE d[j] + Base * sum[j + 1]]
    BY <1>3
  <1>5. Number(d, i) = sum[i]
    BY DEF Number
  <1> HIDE DEF sum
  <1>6. \A j \in i .. Digits : sum[j] = IF j = Digits THEN 0 ELSE a[j] + Base * sum[j + 1]
    <2> HIDE DEF a
    <2> QED BY <1>2, <1>4
  <1>7. sum \in [i .. Digits -> Nat]
    <2> HIDE DEF a
    <2>1. \A j \in i .. Digits : sum[j] \in Nat
      BY <1>0, <1>1, <1>6, DescendsType, ZenonT(20)
    <2> QED BY <1>4, <2>1
  <1>8. sum[Digits] = 0 /\ \A j \in i .. Digits - 1 : sum[j] = d[j] + Base * sum[j + 1]
    <2>1. i .. Digits - 1 \subseteq i .. Digits /\ Digits \notin i .. Digits - 1
      BY <1>0
    <2> QED BY <1>0, <1>4, <2>1
  <1> QED BY <1>5, <1>7, <1>8 DEF SumOf

\* How many numbers they make, likewise; the number is one of them.
LEMMA SizeProduct ==
    ASSUME NEW i \in Index
    PROVE  \E s : ProductFrom(i, s) /\ Size(i) = s[i]
  <1> DEFINE a == [j \in 0 .. Digits |-> 0]
             size[j \in i .. Digits] == IF j = Digits THEN 1 ELSE Base * size[j + 1]
  <1>0. Digits \in Nat /\ Base \in Nat /\ i \in 0 .. Digits /\ Digits \in i .. Digits
    BY DigitsAssumption DEF Index
  <1>1. a \in [0 .. Digits -> Nat]
    OBVIOUS
  <1>2. ASSUME NEW f, NEW j \in i .. Digits, j # Digits, f[j + 1] \in Nat
        PROVE  a[j] + Base * f[j + 1] = Base * f[j + 1]
    <2>1. j \in 0 .. Digits /\ Base * f[j + 1] \in Nat
      BY <1>0, <1>2
    <2> QED BY <2>1
  <1>3. \E f : f = [j \in i .. Digits |-> IF j = Digits THEN 1 ELSE Base * f[j + 1]]
    <2>1. PICK f \in [i .. Digits -> Nat] :
            \A j \in i .. Digits : f[j] = IF j = Digits THEN 1 ELSE a[j] + Base * f[j + 1]
      <3> HIDE DEF a, size
      <3>1. 1 \in Nat
        OBVIOUS
      <3> QED BY <1>0, <1>1, <3>1, Descends, Zenon
    <2>2. \A j \in i .. Digits : j # Digits => f[j + 1] \in Nat
      <3>1. \A j \in i .. Digits : j # Digits => j + 1 \in i .. Digits
        BY <1>0
      <3> QED BY <3>1
    <2> HIDE DEF a
    <2>3. f = [j \in i .. Digits |-> IF j = Digits THEN 1 ELSE Base * f[j + 1]]
      BY <1>2, <2>1, <2>2
    <2> QED BY <2>3
  <1>4. size = [j \in i .. Digits |-> IF j = Digits THEN 1 ELSE Base * size[j + 1]]
    BY <1>3
  <1>5. Size(i) = size[i]
    BY DEF Size
  <1> HIDE DEF size
  <1>6. size \in [i .. Digits -> Nat] /\ size[Digits] = 1
        /\ \A j \in i .. Digits - 1 : size[j] = Base * size[j + 1]
    <2> DEFINE T == {k \in Nat : k <= Digits - i => size[Digits - k] \in Nat}
    <2>1. \A j \in i .. Digits : size[j] = IF j = Digits THEN 1 ELSE Base * size[j + 1]
      BY <1>4
    <2>2. 0 \in T
      <3>1. Digits \in i .. Digits /\ Digits - 0 = Digits
        BY <1>0
      <3> QED BY <2>1, <3>1
    <2>3. ASSUME NEW k \in Nat, k \in T PROVE k + 1 \in T
      <3> SUFFICES ASSUME k + 1 <= Digits - i PROVE size[Digits - (k + 1)] \in Nat
        OBVIOUS
      <3>1. /\ Digits - (k + 1) \in i .. Digits /\ Digits - (k + 1) # Digits
            /\ Digits - (k + 1) + 1 = Digits - k /\ k <= Digits - i
        BY <1>0
      <3>2. size[Digits - k] \in Nat
        BY <2>3, <3>1
      <3>3. size[Digits - (k + 1)] = Base * size[Digits - k]
        BY <2>1, <3>1
      <3> QED BY <1>0, <3>2, <3>3
    <2>4. ASSUME NEW j \in i .. Digits PROVE size[j] \in Nat
      <3> HIDE DEF T
      <3>1. Nat \subseteq T
        BY <2>2, <2>3, SetInduction
      <3>2. Digits - j \in Nat /\ Digits - j <= Digits - i /\ Digits - (Digits - j) = j
        BY <1>0
      <3> QED BY <3>1, <3>2 DEF T
    <2>5. size \in [i .. Digits -> Nat]
      BY <1>4, <2>4
    <2>6. i .. Digits - 1 \subseteq i .. Digits /\ Digits \notin i .. Digits - 1
      BY <1>0
    <2> QED BY <1>0, <2>1, <2>5, <2>6
  <1> QED BY <1>5, <1>6 DEF ProductFrom

\* One digit more: the two sums still differ by what is carried.
LEMMA DigitStep ==
    ASSUME NEW b \in Nat, NEW x \in Nat, NEW y \in Nat, NEW z \in Nat, NEW u \in Nat, NEW w \in Nat,
           NEW lo \in Nat, NEW hi \in Nat, NEW in \in Nat,
           x + u * y = z + w, hi + b * w = lo + in
    PROVE  (hi + b * x) + u * (b * y) = (lo + b * z) + in
  <1>1. b * (x + u * y) = b * (z + w)
    OBVIOUS
  <1>2. b * (x + u * y) = b * x + b * (u * y) /\ b * (u * y) = u * (b * y) /\ b * (z + w) = b * z + b * w
    OBVIOUS
  <1>3. PICK bx \in Nat : bx = b * x
    OBVIOUS
  <1>4. PICK bz \in Nat : bz = b * z
    OBVIOUS
  <1>5. PICK bw \in Nat : bw = b * w
    OBVIOUS
  <1>6. PICK by \in Nat : by = u * (b * y)
    <2>1. b * y \in Nat
      OBVIOUS
    <2> QED BY <2>1
  <1>7. bx + by = bz + bw
    BY <1>1, <1>2, <1>3, <1>4, <1>5, <1>6
  <1>8. hi + bw = lo + in
    BY <1>5
  <1>9. (hi + bx) + by = (lo + bz) + in
    BY <1>7, <1>8
  <1> QED BY <1>3, <1>4, <1>6, <1>9

\* One digit more: the number stays below the size.
LEMMA DigitBelow ==
    ASSUME NEW b \in Nat, NEW x \in Nat, NEW y \in Nat, NEW lo \in 0 .. b - 1, x < y
    PROVE  lo + b * x < b * y
  <1>1. PICK m \in Nat : y = x + 1 + m
    <2>1. y - x - 1 \in Nat /\ y = x + 1 + (y - x - 1)
      OBVIOUS
    <2> QED BY <2>1
  <1>2. b * (x + 1 + m) = b * x + b + b * m
    OBVIOUS
  <1>3. PICK bx \in Nat : bx = b * x
    OBVIOUS
  <1>4. PICK bm \in Nat : bm = b * m
    OBVIOUS
  <1>5. lo + bx < bx + b + bm
    OBVIOUS
  <1> QED BY <1>1, <1>2, <1>3, <1>4, <1>5

\* Two numbers whose digits differ by what is carried from one digit to the next.
LEMMA Telescopes ==
    ASSUME NEW i \in Index, NEW d \in DigitsOf, NEW e \in DigitsOf, NEW f, NEW g, NEW s, NEW c,
           SumOf(d, i, f), SumOf(e, i, g), ProductFrom(i, s), Carries(d, c, i, e)
    PROVE  g[i] + c[Digits] * s[i] = f[i] + c[i]
  <1> DEFINE S == {k \in Nat : k <= Digits - i =>
                     g[Digits - k] + c[Digits] * s[Digits - k] = f[Digits - k] + c[Digits - k]}
  <1>0. Digits \in Nat /\ Base \in Nat /\ i \in Nat /\ i < Digits
    BY DigitsAssumption DEF Index
  <1>1. 0 \in S
    <2>1. Digits - 0 = Digits /\ Digits \in i .. Digits
      BY <1>0
    <2>2. f[Digits] = 0 /\ g[Digits] = 0 /\ s[Digits] = 1 /\ c[Digits] \in Nat
      BY <2>1 DEF SumOf, ProductFrom, Carries
    <2> QED BY <2>1, <2>2
  <1>2. ASSUME NEW k \in Nat, k \in S PROVE k + 1 \in S
    <2> SUFFICES ASSUME k + 1 <= Digits - i
                 PROVE  g[Digits - (k + 1)] + c[Digits] * s[Digits - (k + 1)]
                          = f[Digits - (k + 1)] + c[Digits - (k + 1)]
      OBVIOUS
    <2> DEFINE j == Digits - (k + 1)
    <2>1. /\ j \in i .. Digits - 1 /\ j + 1 = Digits - k /\ k <= Digits - i
          /\ j \in i .. Digits /\ j + 1 \in i .. Digits /\ Digits \in i .. Digits /\ j \in Index
      BY <1>0 DEF Index
    <2>2. g[j + 1] + c[Digits] * s[j + 1] = f[j + 1] + c[j + 1]
      BY <1>2, <2>1
    <2>3. /\ f[j] = d[j] + Base * f[j + 1] /\ g[j] = e[j] + Base * g[j + 1] /\ s[j] = Base * s[j + 1]
          /\ e[j] + Base * c[j + 1] = d[j] + c[j]
      BY <2>1 DEF SumOf, ProductFrom, Carries
    <2>4. /\ f[j + 1] \in Nat /\ g[j + 1] \in Nat /\ s[j + 1] \in Nat /\ c[j + 1] \in Nat /\ c[j] \in Nat
          /\ c[Digits] \in Nat /\ d[j] \in Nat /\ e[j] \in Nat
      <3>1. f[j + 1] \in Nat /\ g[j + 1] \in Nat /\ s[j + 1] \in Nat
        BY <2>1 DEF SumOf, ProductFrom
      <3>2. c[j + 1] \in {0, 1} /\ c[j] \in {0, 1} /\ c[Digits] \in {0, 1}
        BY <2>1 DEF Carries
      <3>3. d[j] \in 0 .. Base - 1 /\ e[j] \in 0 .. Base - 1
        BY <2>1 DEF DigitsOf
      <3> HIDE DEF j
      <3> QED BY <1>0, <3>1, <3>2, <3>3
    <2> HIDE DEF j
    <2>5. (e[j] + Base * g[j + 1]) + c[Digits] * (Base * s[j + 1]) = (d[j] + Base * f[j + 1]) + c[j]
      <3>1. PICK x \in Nat : x = g[j + 1]
        BY <2>4
      <3>2. PICK y \in Nat : y = s[j + 1]
        BY <2>4
      <3>3. PICK z \in Nat : z = f[j + 1]
        BY <2>4
      <3>4. PICK w \in Nat : w = c[j + 1]
        BY <2>4
      <3>5. PICK u \in Nat : u = c[Digits]
        BY <2>4
      <3>6. PICK in \in Nat : in = c[j]
        BY <2>4
      <3>7. PICK lo \in Nat : lo = d[j]
        BY <2>4
      <3>8. PICK hi \in Nat : hi = e[j]
        BY <2>4
      <3>9. x + u * y = z + w /\ hi + Base * w = lo + in
        BY <2>2, <2>3, <3>1, <3>2, <3>3, <3>4, <3>5, <3>6, <3>7, <3>8, Zenon
      <3>10. (hi + Base * x) + u * (Base * y) = (lo + Base * z) + in
        BY <1>0, <3>9, DigitStep
      <3> QED BY <3>1, <3>2, <3>3, <3>5, <3>6, <3>7, <3>8, <3>10, Zenon
    <2>7. g[j] + c[Digits] * s[j] = f[j] + c[j]
      BY <2>3, <2>5, Zenon
    <2> QED BY <2>7 DEF j
  <1>3. Digits - i \in Nat /\ Digits - i <= Digits - i /\ Digits - (Digits - i) = i
    BY <1>0
  <1> HIDE DEF S
  <1>4. Nat \subseteq S
    BY <1>1, <1>2, SetInduction
  <1> QED BY <1>3, <1>4 DEF S

\* A number is smaller than the size of its digits.
LEMMA NumberBelow ==
    ASSUME NEW i \in Index, NEW d \in DigitsOf, NEW f, NEW s, SumOf(d, i, f), ProductFrom(i, s)
    PROVE  f[i] < s[i]
  <1> DEFINE S == {k \in Nat : k <= Digits - i => f[Digits - k] < s[Digits - k]}
  <1>0. Digits \in Nat /\ Base \in Nat /\ Base > 1 /\ i \in Nat /\ i < Digits
    BY DigitsAssumption DEF Index
  <1>1. 0 \in S
    <2>1. Digits - 0 = Digits
      BY <1>0
    <2> QED BY <2>1 DEF SumOf, ProductFrom
  <1>2. ASSUME NEW k \in Nat, k \in S PROVE k + 1 \in S
    <2> SUFFICES ASSUME k + 1 <= Digits - i PROVE f[Digits - (k + 1)] < s[Digits - (k + 1)]
      OBVIOUS
    <2> DEFINE j == Digits - (k + 1)
    <2>1. /\ j \in i .. Digits - 1 /\ j + 1 = Digits - k /\ k <= Digits - i
          /\ j + 1 \in i .. Digits /\ j \in Index
      BY <1>0 DEF Index
    <2>2. f[j + 1] < s[j + 1] /\ f[j + 1] \in Nat /\ s[j + 1] \in Nat /\ d[j] \in 0 .. Base - 1
      BY <1>2, <2>1 DEF DigitsOf, SumOf, ProductFrom
    <2>3. f[j] = d[j] + Base * f[j + 1] /\ s[j] = Base * s[j + 1]
      BY <2>1 DEF SumOf, ProductFrom
    <2> HIDE DEF j
    <2>4. d[j] + Base * f[j + 1] < Base * s[j + 1]
      BY <1>0, <2>2, DigitBelow
    <2>6. f[j] < s[j]
      BY <2>3, <2>4, Zenon
    <2> QED BY <2>6 DEF j
  <1>3. Digits - i \in Nat /\ Digits - i <= Digits - i /\ Digits - (Digits - i) = i
    BY <1>0
  <1> HIDE DEF S
  <1>4. Nat \subseteq S
    BY <1>1, <1>2, SetInduction
  <1> QED BY <1>3, <1>4 DEF S

\* Digits e are one more than digits d, or wrap, if each digit passes its carry on.
LEMMA DigitsCount ==
    ASSUME NEW i \in Index, NEW d \in DigitsOf, NEW e \in DigitsOf, NEW c,
           Carries(d, c, i, e), c[i] = 1
    PROVE  Number(e, i) = (Number(d, i) + 1) % Size(i)
  <1>0. Digits \in Nat /\ i \in i .. Digits /\ Digits \in i .. Digits
    BY DigitsAssumption DEF Index
  <1>1. PICK f : SumOf(d, i, f) /\ Number(d, i) = f[i]
    BY NumberSum
  <1>2. PICK g : SumOf(e, i, g) /\ Number(e, i) = g[i]
    BY NumberSum
  <1>3. PICK s : ProductFrom(i, s) /\ Size(i) = s[i]
    BY SizeProduct
  <1>5. g[i] + c[Digits] * s[i] = f[i] + c[i]
    BY <1>1, <1>2, <1>3, Telescopes
  <1>6. f[i] < s[i] /\ g[i] < s[i]
    BY <1>1, <1>2, <1>3, NumberBelow
  <1>7. f[i] \in Nat /\ g[i] \in Nat /\ s[i] \in Nat /\ c[Digits] \in {0, 1}
    BY <1>0, <1>1, <1>2, <1>3 DEF SumOf, ProductFrom, Carries
  <1>8. ASSUME NEW x \in Nat, NEW y \in Nat, NEW m \in Nat, x < m, y < m, x = y + 1 \/ x + m = y + 1
        PROVE  x = (y + 1) % m
    BY <1>8
  <1>9. g[i] = f[i] + 1 \/ g[i] + s[i] = f[i] + 1
    <2>1. CASE c[Digits] = 0
      BY <1>5, <1>7, <2>1
    <2>2. CASE c[Digits] = 1
      BY <1>5, <1>7, <2>2
    <2> QED BY <1>7, <2>1, <2>2
  <1> QED BY <1>1, <1>2, <1>3, <1>6, <1>7, <1>8, <1>9

\* `if (++nonce[i]) break;`: the loop reaches the digits up to the first that does not wrap.
LEMMA CarryCounts ==
    ASSUME NEW d \in DigitsOf, NEW first \in Index
    PROVE  /\ Carry(d, first) \in DigitsOf
           /\ Number(Carry(d, first), first) = (Number(d, first) + 1) % Size(first)
  <1> DEFINE reached[i \in Index] ==
               i = first \/ (i > first /\ reached[i - 1] /\ d[i - 1] = Base - 1)
             e == [i \in Index |-> IF i >= first /\ reached[i] THEN (d[i] + 1) % Base ELSE d[i]]
             c == [j \in first .. Digits |->
                     IF j = Digits
                     THEN IF reached[Digits - 1] /\ d[Digits - 1] = Base - 1 THEN 1 ELSE 0
                     ELSE IF reached[j] THEN 1 ELSE 0]
  <1>0. Digits \in Nat /\ Base \in Nat /\ Base > 1 /\ first \in 0 .. Digits - 1 /\ Index = 0 .. Digits - 1
    BY DigitsAssumption DEF Index
  <1>1. \E r : r = [i \in Index |-> i = first \/ (i > first /\ r[i - 1] /\ d[i - 1] = Base - 1)]
    <2> DEFINE r == [i \in Index |-> i >= first /\ \A j \in first .. i - 1 : d[j] = Base - 1]
    <2>1. ASSUME NEW i \in Index
          PROVE  r[i] = (i = first \/ (i > first /\ r[i - 1] /\ d[i - 1] = Base - 1))
      <3>1. CASE i <= first
        <4>1. i \in Int /\ first .. i - 1 = {} /\ (i >= first <=> i = first) /\ ~ (i > first)
          BY <1>0, <3>1
        <4> QED BY <4>1
      <3>2. CASE i > first
        <4>1. /\ i - 1 \in Index /\ first .. i - 1 = (first .. (i - 1) - 1) \cup {i - 1} /\ i - 1 >= first
              /\ i >= first /\ i # first
          BY <1>0, <3>2
        <4>2. r[i - 1] = (\A j \in first .. (i - 1) - 1 : d[j] = Base - 1)
          BY <4>1
        <4>3. r[i] = (\A j \in first .. i - 1 : d[j] = Base - 1)
          BY <4>1
        <4> HIDE DEF r
        <4> QED BY <3>2, <4>1, <4>2, <4>3
      <3> QED BY <1>0, <3>1, <3>2
    <2>2. r = [i \in Index |-> i = first \/ (i > first /\ r[i - 1] /\ d[i - 1] = Base - 1)]
      BY <2>1
    <2> QED BY <2>2
  <1>2. reached = [i \in Index |-> i = first \/ (i > first /\ reached[i - 1] /\ d[i - 1] = Base - 1)]
    BY <1>1
  <1>3. Carry(d, first) = e
    BY DEF Carry
  <1> HIDE DEF reached
  <1>4. \A i \in Index : d[i] \in 0 .. Base - 1 /\ (d[i] + 1) % Base \in 0 .. Base - 1
    BY <1>0 DEF DigitsOf
  <1>5. e \in DigitsOf
    BY <1>4 DEF DigitsOf
  <1>6. c \in [first .. Digits -> {0, 1}] /\ c[first] = 1
    <2>1. first \in Index /\ first \in first .. Digits /\ first # Digits
      BY <1>0
    <2>2. reached[first]
      BY <1>2, <2>1
    <2>3. c[first] = 1
      BY <2>1, <2>2
    <2>4. c \in [first .. Digits -> {0, 1}]
      OBVIOUS
    <2> QED BY <2>3, <2>4
  <1>7. ASSUME NEW j \in first .. Digits - 1 PROVE e[j] + Base * c[j + 1] = d[j] + c[j]
    <2>1. j \in Index /\ j \in first .. Digits /\ j + 1 \in first .. Digits /\ j # Digits /\ j >= first
      BY <1>0
    <2>2. c[j + 1] = IF reached[j] /\ d[j] = Base - 1 THEN 1 ELSE 0
      <3>1. CASE j + 1 = Digits
        BY <1>0, <2>1, <3>1
      <3>2. CASE j + 1 # Digits
        <4>1. j + 1 \in Index /\ j + 1 # first /\ j + 1 > first /\ (j + 1) - 1 = j
          BY <1>0, <2>1, <3>2
        <4>2. reached[j + 1] = (reached[j] /\ d[j] = Base - 1)
          BY <1>2, <4>1
        <4> QED BY <2>1, <3>2, <4>2
      <3> QED BY <3>1, <3>2
    <2>3. c[j] = IF reached[j] THEN 1 ELSE 0
      BY <2>1
    <2>4. e[j] = IF reached[j] THEN (d[j] + 1) % Base ELSE d[j]
      BY <2>1
    <2>5. d[j] \in 0 .. Base - 1
      BY <1>4, <2>1
    <2> HIDE DEF c, e
    <2>6. d[j] = Base - 1 => (d[j] + 1) % Base = 0
      BY <1>0
    <2>7. d[j] # Base - 1 => (d[j] + 1) % Base = d[j] + 1
      BY <1>0, <2>5
    <2>8. CASE reached[j] /\ d[j] = Base - 1
      <3>1. e[j] = 0 /\ c[j + 1] = 1 /\ c[j] = 1
        BY <2>2, <2>3, <2>4, <2>6, <2>8
      <3> QED BY <1>0, <2>5, <2>8, <3>1
    <2>9. CASE reached[j] /\ d[j] # Base - 1
      <3>1. e[j] = d[j] + 1 /\ c[j + 1] = 0 /\ c[j] = 1
        BY <2>2, <2>3, <2>4, <2>7, <2>9
      <3> QED BY <1>0, <2>5, <3>1
    <2>10. CASE ~ reached[j]
      <3>1. e[j] = d[j] /\ c[j + 1] = 0 /\ c[j] = 0
        BY <2>2, <2>3, <2>4, <2>10
      <3> QED BY <1>0, <2>5, <3>1
    <2> QED BY <2>8, <2>9, <2>10
  <1> HIDE DEF c, e
  <1>8. Carries(d, c, first, e)
    BY <1>6, <1>7 DEF Carries
  <1> QED BY <1>3, <1>5, <1>6, <1>8, DigitsCount

\* `if (nonce[i]--) break;`: likewise, up to the first that was not 0.
LEMMA BorrowCounts ==
    ASSUME NEW d \in DigitsOf, NEW first \in Index
    PROVE  /\ Borrow(d, first) \in DigitsOf
           /\ Number(d, first) = (Number(Borrow(d, first), first) + 1) % Size(first)
  <1> DEFINE reached[i \in Index] ==
               i = first \/ (i > first /\ reached[i - 1] /\ d[i - 1] = 0)
             e == [i \in Index |-> IF i >= first /\ reached[i] THEN (d[i] + Base - 1) % Base ELSE d[i]]
             c == [j \in first .. Digits |->
                     IF j = Digits
                     THEN IF reached[Digits - 1] /\ d[Digits - 1] = 0 THEN 1 ELSE 0
                     ELSE IF reached[j] THEN 1 ELSE 0]
  <1>0. Digits \in Nat /\ Base \in Nat /\ Base > 1 /\ first \in 0 .. Digits - 1 /\ Index = 0 .. Digits - 1
    BY DigitsAssumption DEF Index
  <1>1. \E r : r = [i \in Index |-> i = first \/ (i > first /\ r[i - 1] /\ d[i - 1] = 0)]
    <2> DEFINE r == [i \in Index |-> i >= first /\ \A j \in first .. i - 1 : d[j] = 0]
    <2>1. ASSUME NEW i \in Index
          PROVE  r[i] = (i = first \/ (i > first /\ r[i - 1] /\ d[i - 1] = 0))
      <3>1. CASE i <= first
        <4>1. i \in Int /\ first .. i - 1 = {} /\ (i >= first <=> i = first) /\ ~ (i > first)
          BY <1>0, <3>1
        <4> QED BY <4>1
      <3>2. CASE i > first
        <4>1. /\ i - 1 \in Index /\ first .. i - 1 = (first .. (i - 1) - 1) \cup {i - 1} /\ i - 1 >= first
              /\ i >= first /\ i # first
          BY <1>0, <3>2
        <4>2. r[i - 1] = (\A j \in first .. (i - 1) - 1 : d[j] = 0)
          BY <4>1
        <4>3. r[i] = (\A j \in first .. i - 1 : d[j] = 0)
          BY <4>1
        <4> HIDE DEF r
        <4> QED BY <3>2, <4>1, <4>2, <4>3
      <3> QED BY <1>0, <3>1, <3>2
    <2>2. r = [i \in Index |-> i = first \/ (i > first /\ r[i - 1] /\ d[i - 1] = 0)]
      BY <2>1
    <2> QED BY <2>2
  <1>2. reached = [i \in Index |-> i = first \/ (i > first /\ reached[i - 1] /\ d[i - 1] = 0)]
    BY <1>1
  <1>3. Borrow(d, first) = e
    BY DEF Borrow
  <1> HIDE DEF reached
  <1>4. \A i \in Index : d[i] \in 0 .. Base - 1 /\ (d[i] + Base - 1) % Base \in 0 .. Base - 1
    BY <1>0 DEF DigitsOf
  <1>5. e \in DigitsOf
    BY <1>4 DEF DigitsOf
  <1>6. c \in [first .. Digits -> {0, 1}] /\ c[first] = 1
    <2>1. first \in Index /\ first \in first .. Digits /\ first # Digits
      BY <1>0
    <2>2. reached[first]
      BY <1>2, <2>1
    <2>3. c[first] = 1
      BY <2>1, <2>2
    <2>4. c \in [first .. Digits -> {0, 1}]
      OBVIOUS
    <2> QED BY <2>3, <2>4
  <1>7. ASSUME NEW j \in first .. Digits - 1 PROVE d[j] + Base * c[j + 1] = e[j] + c[j]
    <2>1. j \in Index /\ j \in first .. Digits /\ j + 1 \in first .. Digits /\ j # Digits /\ j >= first
      BY <1>0
    <2>2. c[j + 1] = IF reached[j] /\ d[j] = 0 THEN 1 ELSE 0
      <3>1. CASE j + 1 = Digits
        BY <1>0, <2>1, <3>1
      <3>2. CASE j + 1 # Digits
        <4>1. j + 1 \in Index /\ j + 1 # first /\ j + 1 > first /\ (j + 1) - 1 = j
          BY <1>0, <2>1, <3>2
        <4>2. reached[j + 1] = (reached[j] /\ d[j] = 0)
          BY <1>2, <4>1
        <4> QED BY <2>1, <3>2, <4>2
      <3> QED BY <3>1, <3>2
    <2>3. c[j] = IF reached[j] THEN 1 ELSE 0
      BY <2>1
    <2>4. e[j] = IF reached[j] THEN (d[j] + Base - 1) % Base ELSE d[j]
      BY <2>1
    <2>5. d[j] \in 0 .. Base - 1
      BY <1>4, <2>1
    <2> HIDE DEF c, e
    <2>6. d[j] = 0 => (d[j] + Base - 1) % Base = Base - 1
      BY <1>0
    <2>7. d[j] # 0 => (d[j] + Base - 1) % Base = d[j] - 1
      <3> SUFFICES ASSUME d[j] # 0 PROVE (d[j] + Base - 1) % Base = d[j] - 1
        OBVIOUS
      <3>1. d[j] - 1 \in 0 .. Base - 1 /\ d[j] + Base - 1 = Base * 1 + (d[j] - 1)
        BY <1>0, <2>5
      <3>2. ASSUME NEW q \in Nat, NEW r \in 0 .. Base - 1 PROVE (Base * q + r) % Base = r
        BY <1>0
      <3> QED BY <3>1, <3>2
    <2>8. CASE reached[j] /\ d[j] = 0
      <3>1. e[j] = Base - 1 /\ c[j + 1] = 1 /\ c[j] = 1
        BY <2>2, <2>3, <2>4, <2>6, <2>8
      <3> QED BY <1>0, <2>5, <2>8, <3>1
    <2>9. CASE reached[j] /\ d[j] # 0
      <3>1. e[j] = d[j] - 1 /\ c[j + 1] = 0 /\ c[j] = 1
        BY <2>2, <2>3, <2>4, <2>7, <2>9
      <3> QED BY <1>0, <2>5, <3>1
    <2>10. CASE ~ reached[j]
      <3>1. e[j] = d[j] /\ c[j + 1] = 0 /\ c[j] = 0
        BY <2>2, <2>3, <2>4, <2>10
      <3> QED BY <1>0, <2>5, <3>1
    <2> QED BY <2>8, <2>9, <2>10
  <1> HIDE DEF c, e
  <1>8. Carries(e, c, first, d)
    BY <1>6, <1>7 DEF Carries
  <1> QED BY <1>3, <1>5, <1>6, <1>8, DigitsCount

\* The number from an index on depends on the digits there only.
LEMMA NumberAbove ==
    ASSUME NEW d \in DigitsOf, NEW byte
    PROVE  Number([d EXCEPT ![0] = byte], 1) = Number(d, 1)
  <1>1. \A j \in 1 .. Digits : j # Digits => [d EXCEPT ![0] = byte][j] = d[j]
    BY DigitsAssumption DEF DigitsOf, Index
  <1>2. ASSUME NEW sum
        PROVE  [j \in 1 .. Digits |-> IF j = Digits THEN 0 ELSE [d EXCEPT ![0] = byte][j] + Base * sum[j + 1]]
                 = [j \in 1 .. Digits |-> IF j = Digits THEN 0 ELSE d[j] + Base * sum[j + 1]]
    BY <1>1
  <1> QED BY <1>2 DEF Number

\* The loops count: encrypt() steps through every carry and the final wrap, and decrypt()
\* moves the number above the lowest byte by one.
THEOREM StepsCountCorrect == DigitsSpec => StepsCount
  <1> DEFINE Inv == digits \in DigitsOf
             Counts == /\ step' = "increment" => Number(digits', 0) = (Number(digits, 0) + 1) % Size(0)
                       /\ step' = "up" => Number(digits', 1) = (Number(digits, 1) + 1) % Size(1)
                       /\ step' = "down" => Number(digits, 1) = (Number(digits', 1) + 1) % Size(1)
  <1>0. 0 \in Index /\ 1 \in Index
    BY DigitsAssumption DEF Index
  <1>1. DigitsInit => Inv
    BY DigitsAssumption DEF DigitsInit, DigitsOf
  <1>2. Inv /\ DigitsNext => Inv' /\ Counts
    <2> SUFFICES ASSUME Inv, DigitsNext PROVE Inv' /\ Counts
      OBVIOUS
    <2>1. CASE Increment
      <3>1. Carry(digits, 0) \in DigitsOf /\ Number(Carry(digits, 0), 0) = (Number(digits, 0) + 1) % Size(0)
        BY <1>0, CarryCounts
      <3> QED BY <2>1, <3>1 DEF Increment
    <2>2. ASSUME NEW byte \in 0 .. Base - 1, WrapUp(byte) PROVE Inv' /\ Counts
      <3>1. Carry(digits, 1) \in DigitsOf /\ Number(Carry(digits, 1), 1) = (Number(digits, 1) + 1) % Size(1)
        BY <1>0, CarryCounts
      <3>2. [Carry(digits, 1) EXCEPT ![0] = byte] \in DigitsOf
        BY <2>2, <3>1 DEF DigitsOf
      <3>3. Number([Carry(digits, 1) EXCEPT ![0] = byte], 1) = Number(Carry(digits, 1), 1)
        BY <3>1, NumberAbove
      <3> QED BY <2>2, <3>1, <3>2, <3>3 DEF WrapUp
    <2>3. ASSUME NEW byte \in 0 .. Base - 1, WrapDown(byte) PROVE Inv' /\ Counts
      <3>1. Borrow(digits, 1) \in DigitsOf /\ Number(digits, 1) = (Number(Borrow(digits, 1), 1) + 1) % Size(1)
        BY <1>0, BorrowCounts
      <3>2. [Borrow(digits, 1) EXCEPT ![0] = byte] \in DigitsOf
        BY <2>3, <3>1 DEF DigitsOf
      <3>3. Number([Borrow(digits, 1) EXCEPT ![0] = byte], 1) = Number(Borrow(digits, 1), 1)
        BY <3>1, NumberAbove
      <3> QED BY <2>3, <3>1, <3>2, <3>3 DEF WrapDown
    <2> QED BY <2>1, <2>2, <2>3 DEF DigitsNext
  <1>3. Inv /\ [DigitsNext]_digitsVars => Inv' /\ [Counts]_digitsVars
    <2>1. Inv /\ UNCHANGED digitsVars => Inv'
      BY DEF digitsVars
    <2> QED BY <1>2, <2>1
  <1> QED BY <1>1, <1>3, PTL DEF DigitsSpec, StepsCount

-----------------------------------------------------------------------------
(* Bytes and blocks *)

\* A set with one more element has twice as many subsets.
LEMMA PowerDoubles ==
    ASSUME NEW n \in Nat
    PROVE  2 ^ n \in Nat /\ 2 ^ (n + 1) = 2 * (2 ^ n)
  <1> DEFINE A == SUBSET (1 .. n)
             B == {T \cup {n + 1} : T \in A}
             f == [T \in A |-> T \cup {n + 1}]
  <1>1. /\ IsFiniteSet(1 .. n) /\ Cardinality(1 .. n) = n
        /\ IsFiniteSet(1 .. n + 1) /\ Cardinality(1 .. n + 1) = n + 1
    BY FS_Interval
  <1>2. IsFiniteSet(A) /\ Cardinality(A) = 2 ^ n /\ Cardinality(SUBSET (1 .. n + 1)) = 2 ^ (n + 1)
    BY <1>1, FS_SUBSET
  <1>3. n + 1 \notin 1 .. n /\ 1 .. n + 1 = (1 .. n) \cup {n + 1}
    OBVIOUS
  <1>4. A \cup B = SUBSET (1 .. n + 1) /\ A \cap B = {}
    <2>1. ASSUME NEW T \in SUBSET (1 .. n + 1) PROVE T \in A \cup B
      <3>1. CASE n + 1 \in T
        <4>1. T \ {n + 1} \in A /\ T = (T \ {n + 1}) \cup {n + 1}
          BY <1>3, <3>1
        <4> QED BY <4>1
      <3>2. CASE n + 1 \notin T
        BY <1>3, <3>2
      <3> QED BY <3>1, <3>2
    <2>2. A \cup B \subseteq SUBSET (1 .. n + 1) /\ A \cap B = {}
      BY <1>3
    <2> QED BY <2>1, <2>2
  <1>5. ExistsBijection(A, B)
    <2>1. f \in [A -> B] /\ \A T \in A : f[T] = T \cup {n + 1}
      OBVIOUS
    <2>2. ASSUME NEW T \in A, NEW U \in A, T \cup {n + 1} = U \cup {n + 1} PROVE T = U
      <3>1. T = (T \cup {n + 1}) \ {n + 1} /\ U = (U \cup {n + 1}) \ {n + 1}
        BY <1>3
      <3> QED BY <2>2, <3>1
    <2>3. \A V \in B : \E T \in A : f[T] = V
      OBVIOUS
    <2> HIDE DEF f
    <2>4. f \in Bijection(A, B)
      BY <2>1, <2>2, <2>3 DEF Bijection, Injection, Surjection, IsInjective
    <2> QED BY <2>4 DEF ExistsBijection
  <1>6. IsFiniteSet(B) /\ Cardinality(B) = Cardinality(A)
    BY <1>2, <1>5, FS_Bijection
  <1> HIDE DEF A, B
  <1>7. Cardinality(A \cup B) = Cardinality(A) + Cardinality(B) - Cardinality(A \cap B)
    BY <1>2, <1>6, FS_Union
  <1>8. Cardinality(A \cap B) = 0 /\ Cardinality(A) \in Nat
    BY <1>2, <1>4, FS_EmptySet, FS_CardinalityType
  <1>9. Cardinality(A \cup B) = 2 ^ (n + 1)
    BY <1>2, <1>4
  <1>10. PICK c \in Nat : c = Cardinality(A)
    BY <1>8
  <1>11. 2 ^ n = c /\ 2 ^ (n + 1) = 2 * c
    BY <1>2, <1>6, <1>7, <1>8, <1>9, <1>10
  <1> QED BY <1>10, <1>11

\* Half of the values of a byte; all of them are twice as many.
Half == 2 ^ (Bits - 1)

LEMMA ByteHalves == Half \in Nat \ {0} /\ 2 ^ Bits = 2 * Half /\ Bytes = 0 .. 2 * Half - 1
  <1>1. Bits - 1 \in Nat /\ (Bits - 1) + 1 = Bits /\ Bits # 0
    BY OCB2Assumption
  <1>2. Half \in Nat /\ 2 ^ Bits = 2 * Half
    BY <1>1, PowerDoubles DEF Half
  <1>3. Half # 0
    <2>1. Poly \in 0 .. 2 * Half - 1
      BY <1>2, OCB2Assumption DEF Bytes
    <2> QED BY <1>2, <2>1
  <1> QED BY <1>2, <1>3 DEF Bytes

\* The laws of `^`.
LEMMA XorLaws ==
    /\ 0 \in Bytes /\ 1 \in Bytes /\ Poly \in Bytes
    /\ \A a, b \in Bytes : XorByte(a, b) \in Bytes /\ XorByte(a, XorByte(a, b)) = b
    /\ \A a \in Bytes : XorByte(a, 0) = a
    /\ \A a, b \in Bytes : XorByte(a, b) = XorByte(b, a)
  <1>1. 0 \in Bytes /\ 1 \in Bytes
    BY ByteHalves
  <1> QED BY <1>1, OCB2Assumption, Zenon

\* The top bit of a byte, and what is left when it is shifted out.
LEMMA TopBitSplits ==
    ASSUME NEW byte \in Bytes
    PROVE  /\ TopBit(byte) \in {0, 1}
           /\ (2 * byte) % (2 ^ Bits) \in Nat
           /\ (2 * byte) % (2 ^ Bits) <= 2 * Half - 2
           /\ ((2 * byte) % (2 ^ Bits)) + 2 * Half * TopBit(byte) = 2 * byte
  <1>1. Half \in Nat \ {0} /\ 2 ^ Bits = 2 * Half /\ byte \in 0 .. 2 * Half - 1
    BY ByteHalves
  <1>2. TopBit(byte) = byte \div Half
    BY DEF TopBit, Half
  <1>3. CASE byte < Half
    <2>1. byte \div Half = 0 /\ (2 * byte) % (2 * Half) = 2 * byte
      BY <1>1, <1>3
    <2> QED BY <1>1, <1>2, <1>3, <2>1
  <1>4. CASE byte >= Half
    <2>1. ASSUME NEW h \in Nat \ {0}, NEW r \in Nat, r < h
          PROVE  (h + r) \div h = 1 /\ (2 * (h + r)) % (2 * h) = 2 * r
      <3>1. 2 * (h + r) = (2 * h) * 1 + 2 * r /\ 2 * r < 2 * h /\ h + r = h * 1 + r
        BY <2>1
      <3>2. ASSUME NEW m \in Nat \ {0}, NEW q \in Nat, NEW x \in Nat, x < m
            PROVE  (m * q + x) % m = x /\ (m * q + x) \div m = q
        BY <3>2
      <3> QED BY <2>1, <3>1, <3>2
    <2>2. PICK r \in Nat : byte = Half + r /\ r < Half
      <3>1. byte - Half \in Nat /\ byte = Half + (byte - Half) /\ byte - Half < Half
        BY <1>1, <1>4
      <3> QED BY <3>1
    <2>3. byte \div Half = 1 /\ (2 * byte) % (2 * Half) = 2 * r
      BY <1>1, <2>1, <2>2
    <2> QED BY <1>1, <1>2, <2>2, <2>3
  <1> QED BY <1>1, <1>3, <1>4

\* xorBlock() twice with the same block.
LEMMA XorTwice ==
    ASSUME NEW a \in Block, NEW b \in Block
    PROVE  xorBlock(a, b) \in Block /\ xorBlock(a, xorBlock(a, b)) = b
  BY XorLaws DEF xorBlock, Block

\* s2() makes a block.
LEMMA s2Type ==
    ASSUME NEW block \in Block
    PROVE  s2(block) \in Block
  <1>1. \A i \in 1 .. BlockBytes : block[i] \in Bytes
    BY DEF Block
  <1>2. ASSUME NEW i \in 1 .. BlockBytes, i < BlockBytes
        PROVE  ((2 * block[i]) % (2 ^ Bits)) + TopBit(block[i + 1]) \in Bytes
    <2>1. i + 1 \in 1 .. BlockBytes
      BY <1>2, OCB2Assumption
    <2>2. /\ TopBit(block[i + 1]) \in {0, 1} /\ (2 * block[i]) % (2 ^ Bits) \in Nat
          /\ (2 * block[i]) % (2 ^ Bits) <= 2 * Half - 2
      BY <1>1, <2>1, TopBitSplits
    <2> QED BY <2>2, ByteHalves
  <1>3. ASSUME NEW i \in 1 .. BlockBytes
        PROVE  XorByte((2 * block[i]) % (2 ^ Bits), TopBit(block[1]) * Poly) \in Bytes
    <2>1. 1 \in 1 .. BlockBytes
      BY OCB2Assumption
    <2>2. /\ TopBit(block[1]) \in {0, 1} /\ (2 * block[i]) % (2 ^ Bits) \in Nat
          /\ (2 * block[i]) % (2 ^ Bits) <= 2 * Half - 2
      BY <1>1, <2>1, TopBitSplits
    <2>3. (2 * block[i]) % (2 ^ Bits) \in Bytes
      BY <2>2, ByteHalves
    <2>4. TopBit(block[1]) * Poly \in Bytes
      <3>1. Poly \in Bytes /\ 0 \in Bytes /\ Poly \in Nat
        BY OCB2Assumption, ByteHalves
      <3> QED BY <2>2, <3>1
    <2> QED BY <2>3, <2>4, OCB2Assumption
  <1> QED BY <1>2, <1>3 DEF s2, Block

\* AES decrypts what it encrypted.
LEMMA Deciphers ==
    ASSUME NEW k \in CipherKeys, NEW b \in Block
    PROVE  Encipher[k][b] \in Block /\ Decipher(k, Encipher[k][b]) = b
  BY CipherAssumption DEF Decipher

-----------------------------------------------------------------------------
(* CryptOCB2: the cipher's context *)

\* A context set to encryption has the object's key, expanded for it.
ContextKeyed == evp.encrypting \in BOOLEAN /\ (evp.encrypting => Right(evp))

IInvOCB2 == ContextKeyed /\ EveryBlockRight

\* Whatever process() runs, it runs it ready, and leaves the context so.
LEMMA OCB2NextIInv == IInvOCB2 /\ [OCB2Next]_ocb2Vars => IInvOCB2'
  <1> SUFFICES ASSUME IInvOCB2, [OCB2Next]_ocb2Vars PROVE IInvOCB2'
    OBVIOUS
  <1> USE DEF IInvOCB2, ContextKeyed, EveryBlockRight
  <1>1. ASSUME NEW k \in CipherKeys, SetKeyOCB2(k) PROVE IInvOCB2'
    <2>1. /\ evp'.encrypting = evp.encrypting
          /\ evp'.encrypting => evp'.key = k /\ evp'.expanded = evp'.encrypting
      BY <1>1 DEF SetKeyOCB2, Right
    <2> QED BY <1>1, <2>1 DEF SetKeyOCB2, Right
  <1>2. ASSUME NEW n \in TriedNonces, SetNonceOCB2(n) PROVE IInvOCB2'
    BY <1>2 DEF SetNonceOCB2, Right
  <1>3. ASSUME NEW packet \in Packets, EncryptPacket(packet) PROVE IInvOCB2'
    <2> DEFINE e == ProcessBlock(evp, TRUE)
    <2>1. e.encrypting = TRUE /\ Right(e)
      BY DEF ProcessBlock, Right
    <2>2. evp' = e /\ sealed'.right = Right(e) /\ opened' = NotYet /\ key' = key
      BY <1>3 DEF EncryptPacket
    <2> HIDE DEF e
    <2> QED BY <2>1, <2>2 DEF Right
  <1>4. CASE DecryptPacket
    <2> DEFINE first == ProcessBlock(evp, TRUE)
               loop  == IF sealed.packet.blocks = <<>> THEN first ELSE ProcessBlock(first, FALSE)
               last  == ProcessBlock(loop, TRUE)
    <2>1. first.encrypting = TRUE /\ Right(first)
      BY DEF ProcessBlock, Right
    <2>2. /\ evp' = last /\ UNCHANGED <<key, sealed>>
          /\ opened'.right = (Right(first) /\ Right(loop) /\ Right(last))
      BY <1>4 DEF DecryptPacket
    <2> HIDE DEF first
    <2>3. loop.encrypting \in BOOLEAN /\ Right(loop) /\ (loop.encrypting => Right(loop))
      BY <2>1 DEF ProcessBlock, Right
    <2> HIDE DEF loop
    <2>4. last.encrypting = TRUE /\ Right(last)
      BY <2>3 DEF ProcessBlock, Right
    <2> HIDE DEF last
    <2> QED BY <2>1, <2>2, <2>3, <2>4 DEF Right
  <1>5. CASE UNCHANGED ocb2Vars
    BY <1>5 DEF ocb2Vars, Right
  <1> QED BY <1>1, <1>2, <1>3, <1>4, <1>5 DEF OCB2Next

\* Every block of every packet is run with the key of key(), expanded for the direction of
\* its call, though decrypt() changes the direction twice in a packet.
THEOREM EveryBlockRightCorrect == OCB2Spec => []EveryBlockRight
  <1>1. OCB2Init => IInvOCB2
    BY DEF OCB2Init, IInvOCB2, ContextKeyed, EveryBlockRight
  <1>2. IInvOCB2 => EveryBlockRight
    BY DEF IInvOCB2
  <1> QED BY <1>1, <1>2, OCB2NextIInv, PTL DEF OCB2Spec

-----------------------------------------------------------------------------
(* Packets *)

\* The deltas of a packet's rounds are blocks.
LEMMA DeltasType ==
    ASSUME NEW k \in CipherKeys, NEW chosen \in Block, NEW n \in Nat
    PROVE  Deltas(k, chosen, n) \in [0 .. n -> Block]
  <1> DEFINE delta[i \in 0 .. n] == IF i = 0 THEN Encipher[k][chosen] ELSE s2(delta[i - 1])
             next == [i \in 1 .. n |-> [block \in Block |-> s2(block)]]
  <1>1. Encipher[k][chosen] \in Block
    BY Deciphers
  <1>2. next \in [1 .. n -> [Block -> Block]]
    BY s2Type
  <1>3. PICK f : Ascent(f, n, Block, Encipher[k][chosen], next)
    <2> HIDE DEF next, delta
    <2> QED BY <1>1, <1>2, Ascends
  <1>4. ASSUME NEW i \in 0 .. n
        PROVE  f[i] = IF i = 0 THEN Encipher[k][chosen] ELSE s2(f[i - 1])
    <2>1. i # 0 => i \in 1 .. n /\ i - 1 \in 0 .. n
      OBVIOUS
    <2> QED BY <1>3, <2>1 DEF Ascent
  <1>5. delta = [i \in 0 .. n |-> IF i = 0 THEN Encipher[k][chosen] ELSE s2(delta[i - 1])]
    <2>1. f = [i \in 0 .. n |-> IF i = 0 THEN Encipher[k][chosen] ELSE s2(f[i - 1])]
      BY <1>3, <1>4 DEF Ascent
    <2> QED BY <2>1
  <1>6. Deltas(k, chosen, n) = delta
    BY DEF Deltas
  <1> HIDE DEF delta
  <1>7. delta[0] \in Block /\ \A i \in 1 .. n : delta[i] = s2(delta[i - 1])
    <2>1. \A i \in 1 .. n : i \in 0 .. n /\ i # 0
      OBVIOUS
    <2> QED BY <1>1, <1>5, <2>1
  <1>8. \A i \in 0 .. n : delta[i] \in Block
    BY <1>7, s2Type, Ascending
  <1> QED BY <1>5, <1>6, <1>8

PacketType == [blocks : Seq(Block), last : Seq(Bytes)]

\* What encrypt() sends instead of a packet.
LEMMA AlteredType ==
    ASSUME NEW packet \in PacketType
    PROVE  /\ Altered(packet) \in PacketType /\ Altered(packet).last = packet.last
           /\ Len(Altered(packet).blocks) = Len(packet.blocks)
  <1>1. CASE ~ Silent(packet)
    BY <1>1 DEF Altered
  <1>2. CASE Silent(packet)
    <2> DEFINE blocks == packet.blocks
               n == Len(blocks)
               sent == [blocks EXCEPT ![n] = FlipABit(@)]
    <2>1. blocks \in Seq(Block) /\ n \in Nat /\ n > 0 /\ n \in 1 .. n
      BY <1>2 DEF PacketType, Silent
    <2>2. blocks[n] \in Block
      BY <2>1
    <2>3. FlipABit(blocks[n]) \in Block
      <3>1. 1 \in Bytes /\ 1 \in 1 .. BlockBytes
        BY OCB2Assumption, ByteHalves
      <3>2. XorByte(blocks[n][1], 1) \in Bytes
        BY <2>2, <3>1, OCB2Assumption DEF Block
      <3> QED BY <2>2, <3>1, <3>2 DEF FlipABit, Block
    <2>4. sent \in Seq(Block) /\ Len(sent) = n
      BY <2>1, <2>3
    <2>5. Altered(packet) = [packet EXCEPT !.blocks = sent]
      BY <1>2 DEF Altered
    <2> HIDE DEF sent, n
    <2> QED BY <2>4, <2>5 DEF PacketType, n
  <1> QED BY <1>1, <1>2

\* It is not silent.
LEMMA AlteredSpeaks ==
    ASSUME NEW packet \in PacketType, NEW other, other.blocks = Altered(packet).blocks
    PROVE  ~ Silent(other)
  <1>1. CASE ~ Silent(packet)
    BY <1>1 DEF Altered, Silent
  <1>2. CASE Silent(packet)
    <2> DEFINE blocks == packet.blocks
               n == Len(blocks)
               sent == [blocks EXCEPT ![n] = FlipABit(@)]
    <2>1. blocks \in Seq(Block) /\ n \in Nat /\ n > 0 /\ n \in 1 .. n
      BY <1>2 DEF PacketType, Silent
    <2>2. blocks[n] \in Block /\ 1 \in 1 .. BlockBytes - 1 /\ 1 \in 1 .. BlockBytes /\ 0 \in Bytes /\ 1 \in Bytes
      BY <2>1, OCB2Assumption, ByteHalves
    <2>3. blocks[n][1] = 0
      BY <1>2, <2>2 DEF Silent
    <2>4. FlipABit(blocks[n])[1] = XorByte(0, 1)
      BY <2>2, <2>3 DEF FlipABit, Block
    <2>5. XorByte(0, 1) = 1
      BY <2>2, OCB2Assumption
    <2>6. sent[n] = FlipABit(blocks[n]) /\ Len(sent) = n
      BY <2>1
    <2>7. Altered(packet).blocks = sent
      BY <1>2 DEF Altered, PacketType
    <2> HIDE DEF sent, n
    <2>8. other.blocks[Len(other.blocks)][1] = 1
      BY <2>4, <2>5, <2>6, <2>7
    <2> QED BY <2>2, <2>8 DEF Silent
  <1> QED BY <1>1, <1>2

\* The pad of a fragment is a block.
LEMMA PadType ==
    ASSUME NEW k \in CipherKeys, NEW delta \in Block, NEW n \in 1 .. BlockBytes
    PROVE  Pad(k, delta, n) \in Block
  <1>1. Bits * n \in Bytes /\ 0 \in Bytes
    <2>1. ASSUME NEW b \in Nat, NEW y \in Nat, NEW x \in 1 .. y PROVE b * x \in Nat /\ b * x <= b * y
      <3>1. PICK m \in Nat : y = x + m
        <4>1. y - x \in Nat /\ y = x + (y - x)
          OBVIOUS
        <4> QED BY <4>1
      <3>2. b * (x + m) = b * x + b * m /\ b * x \in Nat /\ b * m \in Nat
        OBVIOUS
      <3> QED BY <3>1, <3>2
    <2>2. Bits * n \in Nat /\ Bits * n <= Bits * BlockBytes
      BY <2>1, OCB2Assumption
    <2>3. Bits * BlockBytes \in 0 .. 2 * Half - 1 /\ Half \in Nat
      BY ByteHalves, OCB2Assumption
    <2> DEFINE x == Bits * n
               y == Bits * BlockBytes
    <2> HIDE DEF x, y
    <2>4. x \in 0 .. 2 * Half - 1 /\ 0 \in 0 .. 2 * Half - 1
      BY <2>2, <2>3 DEF x, y
    <2> QED BY <2>4, ByteHalves DEF x
  <1>2. LengthBlock(n) \in Block
    BY <1>1 DEF LengthBlock, Block
  <1>3. xorBlock(LengthBlock(n), delta) \in Block
    BY <1>2, XorTwice
  <1> QED BY <1>3, Deciphers DEF Pad

\* decrypt() recovers from an encrypted packet what encrypt() sent, and accepts it unless
\* its last block is the one it never accepts.
LEMMA Recovers ==
    ASSUME NEW k \in CipherKeys, NEW chosen \in Block, NEW packet \in PacketType,
           Len(packet.last) \in 1 .. BlockBytes, NEW taken \in 0 .. BlockBytes
    PROVE  LET cipher == encrypt(k, chosen, packet)
               back   == decrypt(k, chosen, cipher, taken)
               r      == Recovered(k, chosen, cipher)
           IN  /\ back.blocks = Altered(packet).blocks
               /\ back.last = packet.last
               /\ ~ back.ok <=> r.block = r.delta
  <1> DEFINE sent   == Altered(packet)
             n      == Len(sent.blocks)
             delta  == Deltas(k, chosen, n + 1)
             length == Len(sent.last)
             pad    == Pad(k, delta[n + 1], length)
             last   == FilledUp(sent.last, pad)
             body   == [i \in 1 .. n |->
                          xorBlock(delta[i], Encipher[k][xorBlock(delta[i], sent.blocks[i])])]
             tail   == Start(xorBlock(pad, last), length)
             tag    == Tag(k, delta[n + 1], xorBlock(Sum(sent.blocks, n), last))
             cipher == encrypt(k, chosen, packet)
             r      == Recovered(k, chosen, cipher)
             back   == decrypt(k, chosen, cipher, taken)
  <1>1. sent.blocks \in Seq(Block) /\ sent.last = packet.last /\ sent.last \in Seq(Bytes)
    BY AlteredType DEF PacketType
  <1>2. n \in Nat /\ length \in 1 .. BlockBytes
    BY <1>1
  <1> HIDE DEF sent
  <1>3. n + 1 \in Nat /\ delta \in [0 .. n + 1 -> Block]
    <2>1. n + 1 \in Nat
      BY <1>2
    <2> HIDE DEF n
    <2> QED BY <2>1, DeltasType
  <1>4. cipher = [blocks |-> body, last |-> tail, tag |-> tag]
    BY DEF encrypt, sent
  <1>5. ASSUME NEW i \in 1 .. n
        PROVE  xorBlock(delta[i], Decipher(k, xorBlock(delta[i], body[i]))) = sent.blocks[i]
    <2>1. sent.blocks[i] \in Block
      BY <1>1
    <2>2. delta[i] \in Block
      <3>1. i \in 0 .. n + 1
        BY <1>2
      <3> HIDE DEF n, delta
      <3> QED BY <1>3, <3>1
    <2>3. body[i] = xorBlock(delta[i], Encipher[k][xorBlock(delta[i], sent.blocks[i])])
      OBVIOUS
    <2> DEFINE x == xorBlock(delta[i], sent.blocks[i])
    <2> HIDE DEF delta, n, body
    <2>4. x \in Block /\ xorBlock(delta[i], x) = sent.blocks[i]
      BY <2>1, <2>2, XorTwice
    <2>5. Encipher[k][x] \in Block /\ Decipher(k, Encipher[k][x]) = x
      BY <2>4, Deciphers
    <2>6. xorBlock(delta[i], body[i]) = Encipher[k][x]
      BY <2>2, <2>3, <2>5, XorTwice
    <2> QED BY <2>4, <2>5, <2>6
  <1>6. pad \in Block
    <2>1. delta[n + 1] \in Block
      BY <1>2, <1>3
    <2> HIDE DEF delta, n
    <2> QED BY <1>2, <2>1, PadType
  <1> HIDE DEF pad, body, tag, n, delta
  <1>7. last \in Block /\ \A i \in 1 .. length : last[i] = sent.last[i]
    <2>1. \A i \in 1 .. length : sent.last[i] \in Bytes
      BY <1>1
    <2> HIDE DEF sent
    <2>2. \A i \in 1 .. BlockBytes : i \in 1 .. length <=> i <= length
      BY <1>2
    <2>3. \A i \in 1 .. BlockBytes : last[i] = IF i <= length THEN sent.last[i] ELSE pad[i]
      BY DEF FilledUp
    <2>4. \A i \in 1 .. BlockBytes : last[i] \in Bytes
      BY <1>6, <2>1, <2>2, <2>3 DEF Block
    <2>5. last \in Block
      BY <2>4 DEF FilledUp, Block
    <2>6. \A i \in 1 .. length : i \in 1 .. BlockBytes /\ i <= length
      BY <1>2, OCB2Assumption
    <2> QED BY <2>3, <2>5, <2>6
  <1>8. Len(tail) = length /\ Len(body) = n
    BY <1>2 DEF Start, body
  <1>9. /\ r.blocks = [i \in 1 .. n |-> xorBlock(delta[i], Decipher(k, xorBlock(delta[i], body[i])))]
        /\ r.block = xorBlock(FilledUp(tail, ZeroBlock), pad)
        /\ r.delta = delta[n + 1]
    BY <1>4, <1>8 DEF Recovered, delta, pad
  <1>10. r.blocks = sent.blocks
    <2>1. r.blocks = [i \in 1 .. n |-> sent.blocks[i]]
      BY <1>5, <1>9
    <2> QED BY <1>1, <2>1 DEF n
  <1>11. r.block = last
    <2>1. ASSUME NEW i \in 1 .. BlockBytes PROVE r.block[i] = last[i]
      <3>1. pad[i] \in Bytes /\ last[i] \in Bytes /\ 0 \in Bytes
        <4> HIDE DEF last
        <4> QED BY <1>6, <1>7, XorLaws DEF Block
      <3>2. r.block[i] = XorByte(FilledUp(tail, ZeroBlock)[i], pad[i])
        BY <1>9 DEF xorBlock
      <3>3. CASE i <= length
        <4>1. FilledUp(tail, ZeroBlock)[i] = XorByte(pad[i], last[i])
          <5>1. i \in 1 .. length
            BY <1>2, <3>3
          <5>2. tail[i] = XorByte(pad[i], last[i])
            BY <5>1 DEF Start, xorBlock
          <5> HIDE DEF tail
          <5> QED BY <1>8, <3>3, <5>2 DEF FilledUp
        <4> QED BY <3>1, <3>2, <4>1, XorLaws
      <3>4. CASE ~ (i <= length)
        <4>1. FilledUp(tail, ZeroBlock)[i] = 0
          <5> HIDE DEF tail
          <5> QED BY <1>8, <3>4 DEF FilledUp, ZeroBlock
        <4>2. last[i] = pad[i]
          BY <3>4 DEF FilledUp
        <4> QED BY <3>1, <3>2, <4>1, <4>2, XorLaws
      <3> QED BY <3>3, <3>4
    <2>2. r.block = [i \in 1 .. BlockBytes |-> r.block[i]]
      BY <1>9 DEF xorBlock
    <2>3. last = [i \in 1 .. BlockBytes |-> last[i]]
      BY DEF FilledUp
    <2> QED BY <2>1, <2>2, <2>3
  <1>12. back.blocks = sent.blocks /\ back.last = Start(last, length)
    BY <1>4, <1>8, <1>10, <1>11 DEF decrypt
  <1>13. back.last = packet.last
    <2>1. back.last = [i \in 1 .. length |-> sent.last[i]]
      BY <1>7, <1>12 DEF Start
    <2> QED BY <1>1, <2>1
  <1>14. ~ back.ok <=> r.block = r.delta
    <2>1. Tag(k, r.delta, xorBlock(Sum(r.blocks, n), r.block)) = tag
      BY <1>9, <1>10, <1>11 DEF tag
    <2>2. back.ok = /\ r.block # r.delta
                    /\ \A i \in 1 .. taken : cipher.tag[i]
                         = Tag(k, r.delta, xorBlock(Sum(r.blocks, Len(cipher.blocks)), r.block))[i]
      BY DEF decrypt
    <2>3. cipher.tag = tag /\ cipher.blocks = body
      BY <1>4
    <2> HIDE DEF r, cipher, back
    <2> QED BY <1>8, <2>1, <2>2, <2>3
  <1> QED BY <1>10, <1>12, <1>13, <1>14 DEF sent

\* Key and nonce are of their sizes; what was sealed comes of what was given to encrypt(), and
\* what was opened comes of what was sealed, with the key and the nonce there are.
SealedAndOpened ==
    /\ key \in CipherKeys /\ nonce \in Block
    /\ sealed # NotYet =>
         /\ plain \in Packets /\ sealed.key \in CipherKeys /\ sealed.nonce \in Block
         /\ sealed.packet = encrypt(sealed.key, sealed.nonce, plain)
    /\ opened # NotYet =>
         sealed # NotYet /\ opened.packet = decrypt(key, nonce, sealed.packet, TagTaken)

LEMMA SealedAndOpenedStep == SealedAndOpened /\ [OCB2Next]_ocb2Vars => SealedAndOpened'
  <1> SUFFICES ASSUME SealedAndOpened, [OCB2Next]_ocb2Vars PROVE SealedAndOpened'
    OBVIOUS
  <1> USE DEF SealedAndOpened
  <1>1. ASSUME NEW k \in CipherKeys, SetKeyOCB2(k) PROVE SealedAndOpened'
    BY <1>1 DEF SetKeyOCB2
  <1>2. ASSUME NEW n \in TriedNonces, SetNonceOCB2(n) PROVE SealedAndOpened'
    BY <1>2, SessionAssumption DEF SetNonceOCB2
  <1>3. ASSUME NEW packet \in Packets, EncryptPacket(packet) PROVE SealedAndOpened'
    <2>1. /\ plain' = packet /\ opened' = NotYet /\ UNCHANGED <<key, nonce>>
          /\ sealed'.key = key /\ sealed'.nonce = nonce
          /\ sealed'.packet = encrypt(key, nonce, packet)
      BY <1>3 DEF EncryptPacket
    <2> QED BY <1>3, <2>1
  <1>4. CASE DecryptPacket
    <2>1. /\ sealed # NotYet /\ UNCHANGED <<key, nonce, plain, sealed>>
          /\ opened'.packet = decrypt(key, nonce, sealed.packet, TagTaken)
      BY <1>4 DEF DecryptPacket
    <2> QED BY <2>1
  <1>5. CASE UNCHANGED ocb2Vars
    BY <1>5 DEF ocb2Vars
  <1> QED BY <1>1, <1>2, <1>3, <1>4, <1>5 DEF OCB2Next

\* A packet opened with the key and the nonce it was sealed with is the one that was given to
\* encrypt(), the flipped bit of a silent one aside; it is refused if its last block is delta,
\* and only if that block is delta in all bytes but the last.
THEOREM PacketRoundTripCorrect == OCB2Spec => []PacketRoundTrip
  <1>1. OCB2Init => IInvOCB2 /\ SealedAndOpened
    <2>1. ZeroBlock \in Block
      BY XorLaws DEF ZeroBlock, Block
    <2> QED BY <2>1, SessionAssumption
            DEF OCB2Init, IInvOCB2, ContextKeyed, EveryBlockRight, SealedAndOpened
  <1>2. IInvOCB2 /\ SealedAndOpened => PacketRoundTrip
    <2> SUFFICES ASSUME SealedAndOpened, opened # NotYet, sealed.key = key, sealed.nonce = nonce
                 PROVE  Reopened
      BY DEF IInvOCB2, PacketRoundTrip
    <2>1. /\ plain \in PacketType /\ Len(plain.last) \in 1 .. BlockBytes
          /\ key \in CipherKeys /\ nonce \in Block /\ TagTaken \in 0 .. BlockBytes
      BY SessionAssumption DEF SealedAndOpened, PacketType
    <2>2. /\ sealed.packet = encrypt(key, nonce, plain)
          /\ opened.packet = decrypt(key, nonce, encrypt(key, nonce, plain), TagTaken)
      BY DEF SealedAndOpened
    <2> DEFINE r == Recovered(key, nonce, sealed.packet)
    <2>3. /\ opened.packet.blocks = Altered(plain).blocks /\ opened.packet.last = plain.last
          /\ ~opened.packet.ok <=> r.block = r.delta
      BY <2>1, <2>2, Recovers
    <2>4. ~Silent(opened.packet)
      BY <2>1, <2>3, AlteredSpeaks
    <2> QED BY <2>3, <2>4 DEF Reopened
  <1> QED BY <1>1, <1>2, OCB2NextIInv, SealedAndOpenedStep, PTL DEF OCB2Spec

-----------------------------------------------------------------------------
(* Doubling in the field *)

\* 2 ^ (m + n), for the sizes of blocks.
LEMMA PowerOfSum ==
    ASSUME NEW m \in Nat, NEW n \in Nat
    PROVE  2 ^ (m + n) = (2 ^ m) * (2 ^ n)
  <1> DEFINE S == {k \in Nat : 2 ^ (m + k) = (2 ^ m) * (2 ^ k)}
  <1>1. 0 \in S
    <2>1. 2 ^ 0 = 1 /\ m + 0 = m /\ 2 ^ m \in Nat
      BY PowerDoubles
    <2> QED BY <2>1
  <1>2. ASSUME NEW k \in Nat, k \in S PROVE k + 1 \in S
    <2>1. m + k \in Nat /\ m + (k + 1) = (m + k) + 1
      OBVIOUS
    <2>2. /\ 2 ^ (m + (k + 1)) = 2 * (2 ^ (m + k))
          /\ 2 ^ (k + 1) = 2 * (2 ^ k) /\ 2 ^ m \in Nat /\ 2 ^ k \in Nat
      BY <2>1, PowerDoubles
    <2>3. ASSUME NEW a \in Nat, NEW b \in Nat PROVE 2 * (a * b) = a * (2 * b)
      OBVIOUS
    <2>4. 2 * ((2 ^ m) * (2 ^ k)) = (2 ^ m) * (2 * (2 ^ k))
      BY <2>2, <2>3
    <2>5. 2 ^ (m + k) = (2 ^ m) * (2 ^ k)
      BY <1>2
    <2>6. 2 ^ (m + (k + 1)) = (2 ^ m) * (2 ^ (k + 1))
      BY <2>2, <2>4, <2>5
    <2> QED BY <2>6
  <1> HIDE DEF S
  <1>3. Nat \subseteq S
    BY <1>1, <1>2, SetInduction
  <1> QED BY <1>3 DEF S

\* v holds the numbers that the first bytes of a block stand for.
ValuesOf(block, v) ==
    /\ v \in [0 .. BlockBytes -> Nat]
    /\ v[0] = 0
    /\ \A i \in 1 .. BlockBytes : v[i] = v[i - 1] * (2 ^ Bits) + block[i]

LEMMA ValueSum ==
    ASSUME NEW block \in Block
    PROVE  \E v : ValuesOf(block, v) /\ Value(block) = v[BlockBytes]
  <1> DEFINE v[i \in 0 .. BlockBytes] == IF i = 0 THEN 0 ELSE v[i - 1] * (2 ^ Bits) + block[i]
             next == [i \in 1 .. BlockBytes |-> [x \in Nat |-> x * (2 ^ Bits) + block[i]]]
  <1>0. BlockBytes \in Nat /\ 2 ^ Bits \in Nat /\ \A i \in 1 .. BlockBytes : block[i] \in Nat
    <2>1. \A i \in 1 .. BlockBytes : block[i] \in Bytes
      BY DEF Block
    <2>2. Bytes \subseteq Nat
      BY ByteHalves
    <2>3. 2 ^ Bits \in Nat
      BY OCB2Assumption, PowerDoubles
    <2> QED BY <2>1, <2>2, <2>3, OCB2Assumption
  <1>1. ASSUME NEW i \in 1 .. BlockBytes, NEW x \in Nat PROVE x * (2 ^ Bits) + block[i] \in Nat
    <2>1. ASSUME NEW a \in Nat, NEW b \in Nat, NEW c \in Nat PROVE a * b + c \in Nat
      <3>1. a * b \in Nat
        OBVIOUS
      <3> QED BY <3>1
    <2> QED BY <1>0, <2>1
  <1>2. next \in [1 .. BlockBytes -> [Nat -> Nat]]
    BY <1>1
  <1>3. PICK f : Ascent(f, BlockBytes, Nat, 0, next)
    <2> HIDE DEF next, v
    <2>1. 0 \in Nat
      OBVIOUS
    <2> QED BY <1>0, <1>2, <2>1, Ascends, Zenon
  <1>4. ASSUME NEW i \in 0 .. BlockBytes
        PROVE  f[i] = IF i = 0 THEN 0 ELSE f[i - 1] * (2 ^ Bits) + block[i]
    <2>1. i # 0 => i \in 1 .. BlockBytes /\ i - 1 \in 0 .. BlockBytes
      BY <1>0
    <2> QED BY <1>3, <2>1 DEF Ascent
  <1>5. v = [i \in 0 .. BlockBytes |-> IF i = 0 THEN 0 ELSE v[i - 1] * (2 ^ Bits) + block[i]]
    <2>1. f = [i \in 0 .. BlockBytes |-> IF i = 0 THEN 0 ELSE f[i - 1] * (2 ^ Bits) + block[i]]
      BY <1>3, <1>4 DEF Ascent
    <2> QED BY <2>1
  <1>6. Value(block) = v[BlockBytes]
    BY DEF Value
  <1> HIDE DEF v
  <1>7. v[0] = 0 /\ \A i \in 1 .. BlockBytes : v[i] = v[i - 1] * (2 ^ Bits) + block[i]
    <2>1. 0 \in 0 .. BlockBytes /\ \A i \in 1 .. BlockBytes : i \in 0 .. BlockBytes /\ i # 0
      BY <1>0
    <2> QED BY <1>5, <2>1
  <1>8. \A i \in 0 .. BlockBytes : v[i] \in Nat
    <2>1. \A i \in 1 .. BlockBytes : v[i - 1] \in Nat => v[i] \in Nat
      BY <1>1, <1>7
    <2>2. v[0] \in Nat
      BY <1>7
    <2> QED BY <1>0, <2>1, <2>2, Ascending
  <1>9. v \in [0 .. BlockBytes -> Nat]
    BY <1>5, <1>8
  <1> QED BY <1>6, <1>7, <1>9 DEF ValuesOf

\* One byte more: the number stays below the size.
LEMMA ByteBelow ==
    ASSUME NEW b \in Nat, NEW x \in Nat, NEW y \in Nat, NEW lo \in 0 .. b - 1, x < y
    PROVE  x * b + lo < y * b
  <1>1. lo + b * x < b * y
    BY DigitBelow
  <1>2. lo + b * x = x * b + lo /\ b * y = y * b
    <2>1. b * x = x * b /\ b * x \in Nat /\ b * y = y * b
      OBVIOUS
    <2> QED BY <2>1
  <1> QED BY <1>1, <1>2, Zenon

\* How many numbers the first i bytes make.
Count(i) == 2 ^ (Bits * i)

LEMMA CountGrows ==
    /\ Count(0) = 1
    /\ \A i \in 1 .. BlockBytes : Count(i - 1) \in Nat /\ Count(i) = Count(i - 1) * (2 ^ Bits)
  <1>1. Count(0) = 1
    <2>1. Bits * 0 = 0 /\ 2 ^ 0 = 1
      BY OCB2Assumption
    <2> QED BY <2>1 DEF Count
  <1>2. ASSUME NEW i \in 1 .. BlockBytes
        PROVE  Count(i - 1) \in Nat /\ Count(i) = Count(i - 1) * (2 ^ Bits)
    <2>1. ASSUME NEW b \in Nat, NEW j \in Nat \ {0} PROVE b * (j - 1) \in Nat /\ b * j = b * (j - 1) + b
      <3>1. PICK k \in Nat : k = j - 1 /\ j = k + 1
        OBVIOUS
      <3>2. b * (k + 1) = b * k + b /\ b * k \in Nat
        OBVIOUS
      <3> QED BY <3>1, <3>2
    <2>2. Bits \in Nat /\ i \in Nat \ {0}
      BY OCB2Assumption
    <2>3. Bits * (i - 1) \in Nat /\ Bits * i = Bits * (i - 1) + Bits
      BY <2>1, <2>2
    <2>4. 2 ^ (Bits * (i - 1) + Bits) = 2 ^ (Bits * (i - 1)) * 2 ^ Bits /\ 2 ^ (Bits * (i - 1)) \in Nat
      <3> DEFINE m == Bits * (i - 1)
      <3>1. m \in Nat
        BY <2>3
      <3> HIDE DEF m
      <3>2. 2 ^ (m + Bits) = (2 ^ m) * (2 ^ Bits) /\ 2 ^ m \in Nat
        BY <2>2, <3>1, PowerOfSum, PowerDoubles
      <3> QED BY <3>2 DEF m
    <2> QED BY <2>3, <2>4, Zenon DEF Count
  <1> QED BY <1>1, <1>2

\* A block's number is one of them.
LEMMA ValueBelow ==
    ASSUME NEW block \in Block, NEW v, ValuesOf(block, v)
    PROVE  v[BlockBytes] < Count(BlockBytes)
  <1> DEFINE S == {m \in Nat : m <= BlockBytes => v[m] < Count(m)}
  <1>1. 0 \in S
    BY CountGrows DEF ValuesOf
  <1>2. ASSUME NEW m \in Nat, m \in S PROVE m + 1 \in S
    <2> SUFFICES ASSUME m + 1 <= BlockBytes PROVE v[m + 1] < Count(m + 1)
      OBVIOUS
    <2>1. /\ m <= BlockBytes /\ m \in 0 .. BlockBytes /\ m + 1 \in 1 .. BlockBytes /\ (m + 1) - 1 = m
      BY OCB2Assumption
    <2>2. /\ v[m] < Count(m) /\ v[m] \in Nat /\ Count(m) \in Nat
          /\ Count(m + 1) = Count(m) * (2 ^ Bits) /\ v[m + 1] = v[m] * (2 ^ Bits) + block[m + 1]
      BY <1>2, <2>1, CountGrows DEF ValuesOf
    <2>3. 2 ^ Bits \in Nat /\ block[m + 1] \in 0 .. 2 ^ Bits - 1
      BY <2>1, ByteHalves DEF Block, Bytes
    <2>4. v[m] * (2 ^ Bits) + block[m + 1] < Count(m) * (2 ^ Bits)
      BY <2>2, <2>3, ByteBelow
    <2> QED BY <2>2, <2>4, Zenon
  <1> HIDE DEF S
  <1>3. Nat \subseteq S
    BY <1>1, <1>2, SetInduction
  <1> QED BY <1>3, OCB2Assumption DEF S

\* The top bit of the byte behind index i, which the shift moves into it.
ShiftedIn(block, i) == IF i < BlockBytes THEN TopBit(block[i + 1]) ELSE 0

\* Every byte doubled, with the bit that comes from the next one.
LEMMA DoublesValue ==
    ASSUME NEW block \in Block, NEW twice \in Block, NEW v, NEW w,
           ValuesOf(block, v), ValuesOf(twice, w),
           \A i \in 1 .. BlockBytes : twice[i] = ((2 * block[i]) % (2 ^ Bits)) + ShiftedIn(block, i)
    PROVE  w[BlockBytes] + TopBit(block[1]) * Count(BlockBytes) = 2 * v[BlockBytes]
  <1> DEFINE top == TopBit(block[1])
             S == {m \in Nat : m <= BlockBytes => w[m] + top * Count(m) = 2 * v[m] + ShiftedIn(block, m)}
  <1>0. /\ BlockBytes \in Nat /\ BlockBytes > 0
        /\ 1 \in 1 .. BlockBytes /\ \A i \in 1 .. BlockBytes : block[i] \in Bytes
    BY OCB2Assumption DEF Block
  <1>1. top \in {0, 1} /\ \A i \in 0 .. BlockBytes : ShiftedIn(block, i) \in {0, 1}
    <2>1. \A i \in 0 .. BlockBytes : i < BlockBytes => i + 1 \in 1 .. BlockBytes
      BY <1>0
    <2> QED BY <1>0, <2>1, TopBitSplits DEF ShiftedIn
  <1> HIDE DEF top
  <1>2. 0 \in S
    <2>1. ShiftedIn(block, 0) = top /\ v[0] = 0 /\ w[0] = 0 /\ Count(0) = 1
      BY <1>0, CountGrows DEF ShiftedIn, top, ValuesOf
    <2> QED BY <1>1, <2>1
  <1>3. ASSUME NEW m \in Nat, m \in S PROVE m + 1 \in S
    <2> SUFFICES ASSUME m + 1 <= BlockBytes
                 PROVE  w[m + 1] + top * Count(m + 1) = 2 * v[m + 1] + ShiftedIn(block, m + 1)
      OBVIOUS
    <2>1. /\ m <= BlockBytes /\ m < BlockBytes /\ m \in 0 .. BlockBytes
          /\ m + 1 \in 1 .. BlockBytes /\ m + 1 \in 0 .. BlockBytes /\ (m + 1) - 1 = m
      BY <1>0
    <2>2. w[m] + top * Count(m) = 2 * v[m] + ShiftedIn(block, m)
      BY <1>3, <2>1
    <2>3. /\ v[m + 1] = v[m] * (2 ^ Bits) + block[m + 1] /\ w[m + 1] = w[m] * (2 ^ Bits) + twice[m + 1]
          /\ Count(m + 1) = Count(m) * (2 ^ Bits)
          /\ v[m] \in Nat /\ w[m] \in Nat /\ Count(m) \in Nat
      BY <2>1, CountGrows DEF ValuesOf
    <2>4. ShiftedIn(block, m) = TopBit(block[m + 1])
      BY <2>1 DEF ShiftedIn
    <2>5. /\ twice[m + 1] = ((2 * block[m + 1]) % (2 ^ Bits)) + ShiftedIn(block, m + 1)
          /\ ((2 * block[m + 1]) % (2 ^ Bits)) + 2 * Half * TopBit(block[m + 1]) = 2 * block[m + 1]
          /\ (2 * block[m + 1]) % (2 ^ Bits) \in Nat
      BY <1>0, <2>1, TopBitSplits
    <2>6. ASSUME NEW p \in Nat, NEW x \in Nat, NEW y \in Nat, NEW z \in Nat, NEW t \in Nat,
                 NEW u \in Nat, NEW byte \in Nat, NEW rest \in Nat, NEW carry \in Nat,
                 x + t * y = 2 * z + u, rest + p * u = 2 * byte
          PROVE  (x * p + (rest + carry)) + t * (y * p) = 2 * (z * p + byte) + carry
      <3>1. (x + t * y) * p = (2 * z + u) * p
        BY <2>6
      <3>2. /\ (x + t * y) * p = x * p + t * (y * p)
            /\ (2 * z + u) * p = 2 * (z * p) + p * u
        OBVIOUS
      <3>3. PICK xp \in Nat : xp = x * p
        OBVIOUS
      <3>4. PICK typ \in Nat : typ = t * (y * p)
        <4>1. y * p \in Nat
          OBVIOUS
        <4> QED BY <4>1
      <3>5. PICK zp \in Nat : zp = z * p
        OBVIOUS
      <3>6. PICK pu \in Nat : pu = p * u
        OBVIOUS
      <3>7. xp + typ = 2 * zp + pu
        BY <3>1, <3>2, <3>3, <3>4, <3>5, <3>6
      <3>8. rest + pu = 2 * byte
        BY <2>6, <3>6
      <3>9. (xp + (rest + carry)) + typ = 2 * (zp + byte) + carry
        BY <3>7, <3>8
      <3> QED BY <3>3, <3>4, <3>5, <3>9
    <2>7. PICK p \in Nat : p = 2 ^ Bits /\ p = 2 * Half
      BY ByteHalves
    <2>8. PICK u \in Nat : u = ShiftedIn(block, m)
      BY <1>1, <2>1
    <2>9. PICK carry \in Nat : carry = ShiftedIn(block, m + 1)
      BY <1>1, <2>1
    <2>10. PICK byte \in Nat : byte = block[m + 1]
      <3>1. block[m + 1] \in Nat
        BY <1>0, <2>1, ByteHalves
      <3> QED BY <3>1
    <2>11. PICK rest \in Nat : rest = (2 * byte) % p
      BY <2>5, <2>7, <2>10, Zenon
    <2>12. rest + p * u = 2 * byte /\ twice[m + 1] = rest + carry
      BY <2>4, <2>5, <2>7, <2>8, <2>9, <2>10, <2>11, Zenon
    <2>13. PICK x \in Nat : x = w[m]
      BY <2>3
    <2>14. PICK y \in Nat : y = Count(m)
      BY <2>3
    <2>15. PICK z \in Nat : z = v[m]
      BY <2>3
    <2>16. PICK t \in Nat : t = top
      BY <1>1
    <2>17. x + t * y = 2 * z + u
      BY <2>2, <2>8, <2>13, <2>14, <2>15, <2>16, Zenon
    <2>18. (x * p + (rest + carry)) + t * (y * p) = 2 * (z * p + byte) + carry
      BY <2>6, <2>12, <2>17
    <2> QED BY <2>3, <2>7, <2>9, <2>10, <2>12, <2>13, <2>14, <2>15, <2>16, <2>18, Zenon
  <1> HIDE DEF S
  <1>4. Nat \subseteq S
    BY <1>2, <1>3, SetInduction
  <1>5. w[BlockBytes] + top * Count(BlockBytes) = 2 * v[BlockBytes] + ShiftedIn(block, BlockBytes)
    BY <1>0, <1>4 DEF S
  <1>6. ShiftedIn(block, BlockBytes) = 0 /\ v[BlockBytes] \in Nat
    BY <1>0 DEF ShiftedIn, ValuesOf
  <1>7. 2 * v[BlockBytes] + ShiftedIn(block, BlockBytes) = 2 * v[BlockBytes]
    BY <1>6
  <1> QED BY <1>5, <1>7, Zenon DEF top

\* s2() is the doubling of the field: whatever nonce there is.
LEMMA DoublesBlock ==
    ASSUME NEW block \in Block
    PROVE  LET twice == 2 * Value(block)
               size  == 2 ^ (Bits * BlockBytes)
               low   == [i \in 1 .. BlockBytes |-> IF i = BlockBytes /\ twice >= size THEN Poly ELSE 0]
           IN  Value(xorBlock(s2(block), low)) = twice % size
  <1> DEFINE size == 2 ^ (Bits * BlockBytes)
             top == TopBit(block[1])
             r == [i \in 1 .. BlockBytes |-> ((2 * block[i]) % (2 ^ Bits)) + ShiftedIn(block, i)]
  <1>0. /\ BlockBytes \in Nat /\ BlockBytes > 0
        /\ 1 \in 1 .. BlockBytes /\ \A i \in 1 .. BlockBytes : block[i] \in Bytes
    BY OCB2Assumption DEF Block
  <1>1. top \in {0, 1}
    BY <1>0, TopBitSplits
  <1>2. ASSUME NEW i \in 1 .. BlockBytes
        PROVE  r[i] \in Bytes /\ (2 * block[i]) % (2 ^ Bits) \in Bytes
    <2>1. ShiftedIn(block, i) \in {0, 1}
      <3>1. i < BlockBytes => i + 1 \in 1 .. BlockBytes
        BY <1>0
      <3> QED BY <1>0, <3>1, TopBitSplits DEF ShiftedIn
    <2>2. /\ (2 * block[i]) % (2 ^ Bits) \in Nat /\ (2 * block[i]) % (2 ^ Bits) <= 2 * Half - 2
      BY <1>0, TopBitSplits
    <2> QED BY <2>1, <2>2, ByteHalves
  <1>3. r \in Block
    BY <1>2 DEF Block
  <1>4. PICK v : ValuesOf(block, v) /\ Value(block) = v[BlockBytes]
    BY ValueSum
  <1>5. PICK w : ValuesOf(r, w) /\ Value(r) = w[BlockBytes]
    BY <1>3, ValueSum
  <1>6. /\ Value(r) + top * size = 2 * Value(block) /\ Value(r) < size
        /\ Value(r) \in Nat /\ Value(block) \in Nat
    <2>1. \A i \in 1 .. BlockBytes : r[i] = ((2 * block[i]) % (2 ^ Bits)) + ShiftedIn(block, i)
      OBVIOUS
    <2> HIDE DEF r
    <2>2. w[BlockBytes] + TopBit(block[1]) * Count(BlockBytes) = 2 * v[BlockBytes]
      BY <1>3, <1>4, <1>5, <2>1, DoublesValue
    <2>3. w[BlockBytes] < Count(BlockBytes)
      BY <1>3, <1>5, ValueBelow
    <2>4. w[BlockBytes] \in Nat /\ v[BlockBytes] \in Nat
      BY <1>0, <1>4, <1>5 DEF ValuesOf
    <2> QED BY <1>4, <1>5, <2>2, <2>3, <2>4, Zenon DEF Count
  <1>7. size \in Nat
    <2>1. ASSUME NEW a \in Nat, NEW b \in Nat PROVE a * b \in Nat
      OBVIOUS
    <2>2. Bits * BlockBytes \in Nat
      BY <2>1, OCB2Assumption
    <2> QED BY <2>2, PowerDoubles
  <1> HIDE DEF size, r
  <1>8. (2 * Value(block) >= size <=> top = 1) /\ Value(r) = (2 * Value(block)) % size
    <2>1. PICK x \in Nat : x = Value(r)
      BY <1>6
    <2>2. PICK y \in Nat : y = Value(block)
      BY <1>6
    <2>3. x < size /\ (top = 0 => x = 2 * y) /\ (top = 1 => x + size = 2 * y)
      BY <1>6, <1>7, <2>1, <2>2
    <2>4. (2 * y >= size <=> top = 1) /\ x = (2 * y) % size
      <3>1. CASE top = 0
        BY <1>7, <2>3, <3>1
      <3>2. CASE top = 1
        <4>1. ASSUME NEW m \in Nat \ {0}, NEW a \in Nat, a < m PROVE (m + a) % m = a
          BY <4>1
        <4>2. 2 * y = size + x /\ size # 0 /\ 2 * y >= size
          BY <1>7, <2>3, <3>2
        <4> QED BY <1>7, <2>3, <3>2, <4>1, <4>2
      <3> QED BY <1>1, <3>1, <3>2
    <2> QED BY <2>1, <2>2, <2>4
  <1> DEFINE low == [i \in 1 .. BlockBytes |-> IF i = BlockBytes /\ 2 * Value(block) >= size THEN Poly ELSE 0]
  <1>9. xorBlock(s2(block), low) = r
    <2>1. ASSUME NEW i \in 1 .. BlockBytes PROVE XorByte(s2(block)[i], low[i]) = r[i]
      <3>1. CASE i < BlockBytes
        <4>1. s2(block)[i] = r[i] /\ low[i] = 0
          BY <1>0, <3>1 DEF s2, r, ShiftedIn
        <4> HIDE DEF low
        <4> QED BY <1>2, <4>1, XorLaws
      <3>2. CASE i = BlockBytes
        <4> DEFINE rest == (2 * block[i]) % (2 ^ Bits)
        <4>1. s2(block)[i] = XorByte(rest, top * Poly) /\ low[i] = IF top = 1 THEN Poly ELSE 0
          BY <1>0, <1>8, <3>2 DEF s2
        <4>2. r[i] = rest
          <5>1. rest \in Nat /\ ShiftedIn(block, i) = 0
            BY <1>0, <3>2, TopBitSplits DEF ShiftedIn
          <5>2. r[i] = rest + ShiftedIn(block, i)
            BY DEF r
          <5> HIDE DEF rest
          <5> QED BY <5>1, <5>2
        <4>3. rest \in Bytes
          BY <1>2
        <4>4. (top = 0 => top * Poly = 0) /\ (top = 1 => top * Poly = Poly)
          <5>1. Poly \in Nat
            BY ByteHalves, XorLaws
          <5> QED BY <5>1
        <4> HIDE DEF rest, low, top
        <4>5. CASE top = 0
          BY <4>1, <4>2, <4>3, <4>4, <4>5, XorLaws
        <4>6. CASE top = 1
          <5>1. XorByte(XorByte(rest, Poly), Poly) = rest
            <6>1. XorByte(rest, Poly) = XorByte(Poly, rest) /\ XorByte(Poly, rest) \in Bytes
              BY <4>3, XorLaws
            <6>2. XorByte(XorByte(Poly, rest), Poly) = XorByte(Poly, XorByte(Poly, rest))
              BY <6>1, XorLaws
            <6> QED BY <4>3, <6>1, <6>2, XorLaws
          <5> QED BY <4>1, <4>2, <4>4, <4>6, <5>1
        <4> QED BY <1>1, <4>5, <4>6 DEF top
      <3> QED BY <1>0, <3>1, <3>2
    <2> HIDE DEF low
    <2> QED BY <2>1 DEF xorBlock, r
  <1> QED BY <1>8, <1>9 DEF size

\* s2() doubles in the field of the blocks, whatever nonce there is.
THEOREM DoublesInFieldCorrect == OCB2Spec => []DoublesInField
  <1>1. OCB2Init => SealedAndOpened
    <2>1. ZeroBlock \in Block
      BY XorLaws DEF ZeroBlock, Block
    <2> QED BY <2>1, SessionAssumption DEF OCB2Init, SealedAndOpened
  <1>2. SealedAndOpened => DoublesInField
    BY DoublesBlock DEF SealedAndOpened, DoublesInField
  <1> QED BY <1>1, <1>2, SealedAndOpenedStep, PTL DEF OCB2Spec
=============================================================================
