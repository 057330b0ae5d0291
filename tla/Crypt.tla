-------------------------------- MODULE Crypt --------------------------------
(***************************************************************************)
(* A Crypt object (Crypt.cpp) beside the context of OpenSSL it drives: the *)
(* cipher, the key and the nonce are kept twice, in the object and in the  *)
(* context, and the context has to be told again when the direction        *)
(* changes.  Ciphers are authenticating ones, but for the null cipher an   *)
(* object begins with.                                                     *)
(*                                                                         *)
(* m_key and m_nonce are vectors.  Emptied by `= {}` they keep their       *)
(* storage, and data() still points there.                                 *)
(***************************************************************************)
EXTENDS Naturals

CONSTANTS
    Ciphers,        \* the names EVP_get_cipherbyname() knows
    NoCipher,       \* EVP_enc_null()
    Keys, Nonces,   \* non-empty buffers
    NoBuffer,          \* an empty buffer
    Leftover,       \* what is read from storage past the end of an emptied vector
    SizeOf            \* of each buffer, and of each cipher's key

ASSUME BuffersAssumption ==
    /\ NoBuffer \notin Keys \cup Nonces /\ Leftover \notin Keys \cup Nonces
    /\ NoBuffer # Leftover /\ NoCipher \notin Ciphers

ASSUME SizeAssumption ==
    /\ SizeOf \in [Ciphers \cup {NoCipher} \cup Keys \cup Nonces \cup {NoBuffer} -> Nat]
    /\ SizeOf[NoBuffer] = 0 /\ SizeOf[NoCipher] = 0
    /\ \A b \in Ciphers \cup Keys \cup Nonces : SizeOf[b] > 0

VARIABLES
    m_key, m_nonce, m_padding,
    stored,         \* which of the two vectors have storage
    ctx,            \* m_ctx
    outcome         \* what the last call did

cryptVars == <<m_key, m_nonce, m_padding, stored, ctx, outcome>>

Buffers == Keys \cup {NoBuffer, Leftover}

\* EVP_CIPHER_CTX: cipher is FALSE after a reset; schedule is a key that was expanded and
\* the direction it was expanded for; iv is NoBuffer when it must be given before the next use.
Contexts ==
    [alive : BOOLEAN, cipher : Ciphers \cup {NoCipher}, encrypting : BOOLEAN,
     schedule : [key : Buffers, encrypt : BOOLEAN], iv : Nonces \cup {NoBuffer, Leftover}]

Outcomes ==
    [call : {"none", "failed", "set", "generated"}]
        \cup [call : {"process"}, encrypt : BOOLEAN, switched : BOOLEAN, done : BOOLEAN,
              schedule : [key : Buffers, encrypt : BOOLEAN], iv : Nonces \cup {NoBuffer, Leftover}]

CryptTypeOK ==
    /\ m_key \in Keys \cup {NoBuffer} /\ m_nonce \in Nonces \cup {NoBuffer}
    /\ m_padding \in BOOLEAN /\ stored \in SUBSET {"key", "nonce"}
    /\ ctx \in Contexts /\ outcome \in Outcomes

Did(call) == [call |-> call]

Unkeyed == [key |-> NoBuffer, encrypt |-> FALSE]

Fresh ==
    [alive |-> TRUE, cipher |-> NoCipher, encrypting |-> FALSE, schedule |-> Unkeyed, iv |-> NoBuffer]

CryptInit ==
    /\ m_key = NoBuffer /\ m_nonce = NoBuffer /\ m_padding = TRUE
    /\ stored = {} /\ ctx = Fresh /\ outcome = Did("none")

-----------------------------------------------------------------------------

Refuse(why) == outcome' = Did(why) /\ UNCHANGED <<m_key, m_nonce, m_padding, stored, ctx>>

\* CHECK: the context has no cipher.
Dead == ~ctx.alive /\ Refuse("failed")

\* A name OpenSSL does not know.
SetCipherUnknown == ctx.alive /\ Refuse("failed")

\* setCipher(): OpenSSL drops key and nonce, and the object empties its own; the storage
\* has grown to the cipher's key and nonce before.
SetCipher(cipher) ==
    /\ ctx.alive
    /\ ctx' = [ctx EXCEPT !.cipher = cipher, !.schedule = Unkeyed, !.iv = NoBuffer]
    /\ m_key' = NoBuffer /\ m_nonce' = NoBuffer
    /\ stored' = IF cipher = NoCipher THEN stored ELSE {"key", "nonce"}
    /\ outcome' = Did("set")
    /\ UNCHANGED m_padding

\* EVP_CipherInit_ex() with a key: nothing happens for a null pointer.
Expand(key, encrypting, schedule) ==
    IF key = NoBuffer THEN schedule ELSE [key |-> key, encrypt |-> encrypting]

KeyFits(key) == SizeOf[m_key] = SizeOf[key] \/ SizeOf[key] = SizeOf[ctx.cipher]

\* setKey()
TakeKey(key, why) ==
    /\ ctx.alive
    /\ IF KeyFits(key)
       THEN /\ m_key' = key
            /\ ctx' = [ctx EXCEPT !.schedule = Expand(key, ctx.encrypting, @)]
            /\ stored' = stored \cup IF key = NoBuffer THEN {} ELSE {"key"}
            /\ outcome' = Did(why)
       ELSE outcome' = Did("failed") /\ UNCHANGED <<m_key, stored, ctx>>
    /\ UNCHANGED <<m_nonce, m_padding>>

SetKey(key) == TakeKey(key, "set")

\* genKey(): as many bytes as m_key has, none if it is empty.
Generated == IF m_key = NoBuffer THEN {NoBuffer} ELSE {k \in Keys : SizeOf[k] = SizeOf[m_key]}

\* setKey(genKey())
SetGeneratedKey == ctx.alive /\ \E key \in Generated : TakeKey(key, "generated")

\* EVP_CTRL_AEAD_SET_IVLEN succeeds or not, as the cipher likes.
NonceFits(nonce, accepted) == SizeOf[m_nonce] = SizeOf[nonce] \/ accepted

\* setNonce()
SetNonce(nonce, accepted) ==
    /\ ctx.alive
    /\ IF NonceFits(nonce, accepted)
       THEN /\ m_nonce' = nonce
            /\ ctx' = [ctx EXCEPT !.iv = nonce]
            /\ stored' = stored \cup {"nonce"}
            /\ outcome' = Did("set")
       ELSE outcome' = Did("failed") /\ UNCHANGED <<m_nonce, stored, ctx>>
    /\ UNCHANGED <<m_key, m_padding>>

TogglePadding(enable) ==
    /\ ctx.alive
    /\ m_padding' = enable /\ outcome' = Did("set")
    /\ UNCHANGED <<m_key, m_nonce, stored, ctx>>

\* reset(): a context without cipher is not told one again, for CHECK comes first.
Reset ==
    /\ ctx.alive
    /\ ctx' = [Fresh EXCEPT !.alive = FALSE]
    /\ outcome' = Did("set")
    /\ UNCHANGED <<m_key, m_nonce, m_padding, stored>>

\* operator=(): another object's state is moved here, a new one's in this model.
Replace ==
    /\ m_key' = NoBuffer /\ m_nonce' = NoBuffer /\ m_padding' = TRUE
    /\ stored' = {} /\ ctx' = Fresh /\ outcome' = Did("none")

-----------------------------------------------------------------------------

\* data() of a vector.
DataOf(buf, name) == IF buf = NoBuffer /\ name \in stored THEN Leftover ELSE buf

\* Mutant: the context is only told the direction.
RekeyedNever(encrypt) == [ctx EXCEPT !.encrypting = encrypt]

\* The context as process() prepares it: on a switch it is given key and nonce again.
Rekeyed(encrypt) ==
    IF ctx.encrypting = encrypt THEN ctx
    ELSE LET iv == DataOf(m_nonce, "nonce")
         IN  [ctx EXCEPT !.encrypting = encrypt,
                         !.schedule = Expand(DataOf(m_key, "key"), encrypt, @),
                         !.iv = IF iv = NoBuffer THEN @ ELSE iv]

\* OpenSSL runs a cipher that has its key and its nonce.
Runs(c) == c.cipher = NoCipher \/ (c.schedule.key # NoBuffer /\ c.iv # NoBuffer)

\* process(): it fails also for a tag that is wrong, and many ciphers want another nonce
\* before they run again.
Process(encrypt, accepted, spent) ==
    /\ ctx.alive
    /\ LET c == Rekeyed(encrypt)
       IN  /\ ctx' = [c EXCEPT !.iv = IF Runs(c) /\ spent THEN NoBuffer ELSE @]
           /\ outcome' = [call |-> "process", encrypt |-> encrypt,
                          switched |-> ctx.encrypting # encrypt, done |-> Runs(c) /\ accepted,
                          schedule |-> c.schedule, iv |-> c.iv]
    /\ UNCHANGED <<m_key, m_nonce, m_padding, stored>>

Encrypt(spent) == Process(TRUE, TRUE, spent)
Decrypt(accepted, spent) == Process(FALSE, accepted, spent)

CryptNext ==
    \/ Dead \/ SetCipherUnknown \/ SetGeneratedKey \/ Reset \/ Replace
    \/ \E cipher \in Ciphers \cup {NoCipher} : SetCipher(cipher)
    \/ \E key \in Keys \cup {NoBuffer} : SetKey(key)
    \/ \E nonce \in Nonces, accepted \in BOOLEAN : SetNonce(nonce, accepted)
    \/ \E enable \in BOOLEAN : TogglePadding(enable)
    \/ \E spent \in BOOLEAN : Encrypt(spent)
    \/ \E accepted, spent \in BOOLEAN : Decrypt(accepted, spent)

CryptSpec == CryptInit /\ [][CryptNext]_cryptVars

-----------------------------------------------------------------------------

Processed == outcome.call = "process"

\* encrypt() and decrypt() run with the key that key() returns, expanded for their
\* direction, and with the nonce that nonce() returns: after any sequence of calls, refused
\* ones included, object and context agree.
KeyedForDirection ==
    m_key # NoBuffer => outcome.schedule = [key |-> m_key, encrypt |-> outcome.encrypt]

NonceAsSet == (m_nonce # NoBuffer /\ ctx.cipher # NoCipher) => outcome.iv = m_nonce

\* And a change of direction needs no new nonce: encrypting and then decrypting with what was
\* set once works, as TestCrypt does it.
SwitchRenews ==
    (m_key # NoBuffer /\ m_nonce # NoBuffer) =>
        outcome.schedule.key = m_key /\ outcome.iv = m_nonce

ContextAgrees ==
    Processed =>
        /\ outcome.done => KeyedForDirection /\ NonceAsSet
        /\ outcome.switched => SwitchRenews

\* A key that genKey() made and setKey() took is one of the cipher's size, as TestCrypt
\* takes it for.
GeneratedKeyFits == outcome.call = "generated" => SizeOf[m_key] = SizeOf[ctx.cipher]
=============================================================================
