----------------------------- MODULE NonceDigits -----------------------------
(***************************************************************************)
(* The loops in User.cpp that carry and borrow through the bytes of a      *)
(* nonce, one digit per byte and the lowest first, and the number they     *)
(* compute with.  NonceWindow counts with the number.                      *)
(***************************************************************************)
EXTENDS Naturals

CONSTANTS
    Base,           \* values of a byte: 256
    Digits          \* bytes of a nonce: 16

ASSUME DigitsAssumption == Base \in Nat \ {0, 1} /\ Digits \in Nat \ {0, 1}

VARIABLES digits, step

digitsVars == <<digits, step>>

Index == 0 .. Digits - 1

\* Digits from index i on, as a number.
Number(d, i) ==
    LET sum[j \in i .. Digits] == IF j = Digits THEN 0 ELSE d[j] + Base * sum[j + 1] IN sum[i]

\* `for (i = first; ...) if (++nonce[i]) break;`
Carry(d, first) ==
    LET reached[i \in Index] == i = first \/ (i > first /\ reached[i - 1] /\ d[i - 1] = Base - 1)
    IN  [i \in Index |-> IF i >= first /\ reached[i] THEN (d[i] + 1) % Base ELSE d[i]]

\* Mutant: the break tests the decremented digit, `if (--nonce[i]) break;`
BorrowPre(d, first) ==
    LET reached[i \in Index] == i = first \/ (i > first /\ reached[i - 1] /\ d[i - 1] = 1)
    IN  [i \in Index |-> IF i >= first /\ reached[i] THEN (d[i] + Base - 1) % Base ELSE d[i]]

\* `for (i = first; ...) if (nonce[i]--) break;`
Borrow(d, first) ==
    LET reached[i \in Index] == i = first \/ (i > first /\ reached[i - 1] /\ d[i - 1] = 0)
    IN  [i \in Index |-> IF i >= first /\ reached[i] THEN (d[i] + Base - 1) % Base ELSE d[i]]

DigitsInit == digits = [i \in Index |-> 0] /\ step = "none"

\* encrypt()
Increment == digits' = Carry(digits, 0) /\ step' = "increment"

\* decrypt(), a byte of the next round
WrapUp(byte) == digits' = [Carry(digits, 1) EXCEPT ![0] = byte] /\ step' = "up"

\* decrypt(), a late byte of the last round
WrapDown(byte) == digits' = [Borrow(digits, 1) EXCEPT ![0] = byte] /\ step' = "down"

DigitsNext == Increment \/ \E byte \in 0 .. Base - 1 : WrapUp(byte) \/ WrapDown(byte)

DigitsSpec == DigitsInit /\ [][DigitsNext]_digitsVars

-----------------------------------------------------------------------------

\* How many numbers the digits from index i on make, after which they wrap.
Size(i) ==
    LET size[j \in i .. Digits] == IF j = Digits THEN 1 ELSE Base * size[j + 1] IN size[i]

\* encrypt() steps to the next number, through every carry and the final wrap; the two loops
\* of decrypt() step the number above the lowest byte by one, up or down, and leave the byte
\* that was received.
StepsCount ==
    [][/\ step' = "increment" => Number(digits', 0) = (Number(digits, 0) + 1) % Size(0)
       /\ step' = "up" => Number(digits', 1) = (Number(digits, 1) + 1) % Size(1)
       /\ step' = "down" => Number(digits, 1) = (Number(digits', 1) + 1) % Size(1)]_digitsVars
=============================================================================
