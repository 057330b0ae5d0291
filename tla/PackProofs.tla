----------------------------- MODULE PackProofs -----------------------------
(***************************************************************************)
(* Theorems about packs: their bytes in the stream of TLS, for every size  *)
(* of the header and of the bodies (Framing), and the messages in them,    *)
(* for every value of every member (MessageExchange).                      *)
(*                                                                         *)
(* The bytes: every cell of the stream has one successor, the next byte    *)
(* of its pack or the first of the next.  What process() has read of a     *)
(* pack, the record, the records read ahead, those in the kernel and what  *)
(* is not sent yet follow each other in this order, from the pack after    *)
(* the last one delivered to the end of the last one written (InTransit).  *)
(* A step takes bytes from the front of one part to the end of the one     *)
(* before it (RunSplit, RunJoin), which keeps the chain.                   *)
(*                                                                         *)
(* The messages: in the tables of each type the way a member is stored and *)
(* the way it is read are one of seven pairs (Pairs), and a member stored  *)
(* and read by one of these comes back (ReadsBack); the elements of the    *)
(* vectors are messages of the same kind (ElementBack).  What is on the    *)
(* wire was packed by the library, or is any message of protobuf           *)
(* (ExchangeInv), so that the statements hold of each step of reading.     *)
(***************************************************************************)
EXTENDS Framing, MessageExchange, SequenceTheorems, WellFoundedInduction, TLAPS

-----------------------------------------------------------------------------
(* The stream: f is the sizes of the packs written, as framed is *)

\* The cells written.
Cells(f) == {cell \in [pack : 1 .. Len(f), byte : Nat \ {0}] : cell.byte <= HeaderBytes + f[cell.pack]}

First(i) == [pack |-> i, byte |-> 1]

\* The cell after another one.
Succ(f, cell) ==
    IF cell.byte < HeaderBytes + f[cell.pack] THEN [pack |-> cell.pack, byte |-> cell.byte + 1]
                                              ELSE First(cell.pack + 1)

\* The cell after a sequence that begins with the given one.
After(f, s, cell) == IF s = <<>> THEN cell ELSE Succ(f, s[Len(s)])

\* A piece of the stream from the given cell on.
Run(f, s, cell) ==
    /\ s \in Seq(Cells(f))
    /\ \A k \in 1 .. Len(s) : s[k] = IF k = 1 THEN cell ELSE Succ(f, s[k - 1])

\* The same of records.
AfterAll(f, ss, cell) == IF ss = <<>> THEN cell ELSE After(f, ss[Len(ss)], cell)

Runs(f, ss, cell) ==
    /\ ss \in Seq(Seq(Cells(f)))
    /\ \A j \in 1 .. Len(ss) :
          /\ ss[j] # <<>>
          /\ Run(f, ss[j], IF j = 1 THEN cell ELSE After(f, ss[j - 1], cell))

\* Nat is contained in every set that is closed under the next number.
LEMMA SetInduction ==
    ASSUME NEW S, 0 \in S, \A n \in Nat : n \in S => n + 1 \in S
    PROVE  Nat \subseteq S
  <1> SUFFICES ASSUME Nat \ S # {} PROVE FALSE
    OBVIOUS
  <1> DEFINE R == {ss \in Nat \X Nat : ss[1] < ss[2]}
  <1>1. PICK x \in Nat \ S : \A y \in Nat \ S : ~ (<<y, x>> \in R)
    <2>1. IsWellFoundedOn(R, Nat)
      BY NatLessThanWellFounded DEF OpToRel
    <2> HIDE DEF R
    <2> QED BY <2>1, WFMin
  <1>2. x # 0 /\ x - 1 \in Nat /\ x - 1 < x
    BY <1>1
  <1>3. x - 1 \notin Nat \ S
    BY <1>1, <1>2
  <1> QED BY <1>1, <1>2, <1>3

\* An empty piece.
LEMMA RunEmpty == ASSUME NEW f, NEW c PROVE Run(f, <<>>, c) /\ After(f, <<>>, c) = c
  BY DEF Run, After

LEMMA RunsEmpty == ASSUME NEW f, NEW c PROVE Runs(f, <<>>, c) /\ AfterAll(f, <<>>, c) = c
  BY DEF Runs, AfterAll

\* A piece cut in two.
LEMMA RunSplit ==
    ASSUME NEW f, NEW s, NEW c, Run(f, s, c), NEW n \in 0 .. Len(s)
    PROVE  /\ Run(f, SubSeq(s, 1, n), c)
           /\ Run(f, SubSeq(s, n + 1, Len(s)), After(f, SubSeq(s, 1, n), c))
           /\ After(f, SubSeq(s, n + 1, Len(s)), After(f, SubSeq(s, 1, n), c)) = After(f, s, c)
           /\ Len(SubSeq(s, 1, n)) = n /\ Len(SubSeq(s, n + 1, Len(s))) = Len(s) - n
  <1> DEFINE a == SubSeq(s, 1, n)
             b == SubSeq(s, n + 1, Len(s))
  <1>1. /\ s \in Seq(Cells(f)) /\ Len(s) \in Nat /\ n \in Nat /\ n <= Len(s)
        /\ \A k \in 1 .. Len(s) : s[k] \in Cells(f)
        /\ \A k \in 1 .. Len(s) : s[k] = IF k = 1 THEN c ELSE Succ(f, s[k - 1])
    BY DEF Run
  <1>2. a \in Seq(Cells(f)) /\ Len(a) = n /\ \A k \in 1 .. n : a[k] = s[k]
    BY <1>1, SubSeqProperties
  <1>3. b \in Seq(Cells(f)) /\ Len(b) = Len(s) - n /\ \A k \in 1 .. Len(s) - n : b[k] = s[n + k]
    BY <1>1, SubSeqProperties
  <1> HIDE DEF a, b
  <1>4. a = <<>> <=> n = 0
    BY <1>1, <1>2, EmptySeq
  <1>5. b = <<>> <=> n = Len(s)
    BY <1>1, <1>3, EmptySeq
  <1>6. s = <<>> <=> Len(s) = 0
    BY <1>1, EmptySeq
  <1>7. Run(f, a, c)
    BY <1>1, <1>2 DEF Run
  <1>8. n > 0 => After(f, a, c) = Succ(f, s[n])
    BY <1>1, <1>2, <1>4 DEF After
  <1>9. Run(f, b, After(f, a, c))
    <2> SUFFICES ASSUME NEW k \in 1 .. Len(b)
                 PROVE  b[k] = IF k = 1 THEN After(f, a, c) ELSE Succ(f, b[k - 1])
      BY <1>3 DEF Run
    <2>1. n + k \in 1 .. Len(s) /\ b[k] = s[n + k] /\ k \in Nat \ {0}
      BY <1>1, <1>3
    <2>2. CASE k = 1 /\ n = 0
      BY <1>1, <1>4, <2>1, <2>2 DEF After
    <2>3. CASE k = 1 /\ n # 0
      BY <1>1, <1>8, <2>1, <2>3
    <2>4. CASE k # 1
      <3>1. b[k - 1] = s[n + k - 1] /\ n + k # 1
        BY <1>1, <1>3, <2>1, <2>4
      <3> QED BY <1>1, <2>1, <2>4, <3>1
    <2> QED BY <2>2, <2>3, <2>4
  <1>10. After(f, b, After(f, a, c)) = After(f, s, c)
    <2>1. CASE n = Len(s)
      BY <1>1, <1>4, <1>5, <1>6, <1>8, <2>1 DEF After
    <2>2. CASE n < Len(s)
      <3>1. b[Len(b)] = s[Len(s)] /\ s # <<>> /\ b # <<>>
        BY <1>1, <1>3, <1>5, <1>6, <2>2
      <3> QED BY <3>1 DEF After
    <2> QED BY <1>1, <2>1, <2>2
  <1> QED BY <1>2, <1>3, <1>7, <1>9, <1>10 DEF a, b

\* Two adjacent pieces joined.
LEMMA RunJoin ==
    ASSUME NEW f, NEW s, NEW t, NEW c, Run(f, s, c), Run(f, t, After(f, s, c))
    PROVE  /\ Run(f, s \o t, c)
           /\ After(f, s \o t, c) = After(f, t, After(f, s, c))
           /\ Len(s \o t) = Len(s) + Len(t)
  <1> DEFINE st == s \o t
  <1>1. /\ s \in Seq(Cells(f)) /\ Len(s) \in Nat
        /\ \A k \in 1 .. Len(s) : s[k] = IF k = 1 THEN c ELSE Succ(f, s[k - 1])
    BY DEF Run
  <1>2. /\ t \in Seq(Cells(f)) /\ Len(t) \in Nat
        /\ \A k \in 1 .. Len(t) : t[k] = IF k = 1 THEN After(f, s, c) ELSE Succ(f, t[k - 1])
    BY DEF Run
  <1>3. /\ st \in Seq(Cells(f)) /\ Len(st) = Len(s) + Len(t)
        /\ \A k \in 1 .. Len(s) + Len(t) : st[k] = IF k <= Len(s) THEN s[k] ELSE t[k - Len(s)]
    BY <1>1, <1>2, ConcatProperties
  <1>4. /\ s = <<>> <=> Len(s) = 0
        /\ t = <<>> <=> Len(t) = 0
        /\ st = <<>> <=> Len(st) = 0
    BY <1>1, <1>2, <1>3, EmptySeq
  <1> HIDE DEF st
  <1>5. Run(f, st, c)
    <2> SUFFICES ASSUME NEW k \in 1 .. Len(st)
                 PROVE  st[k] = IF k = 1 THEN c ELSE Succ(f, st[k - 1])
      BY <1>3 DEF Run
    <2>0. k \in Nat \ {0} /\ k <= Len(s) + Len(t) /\ Len(s) \in Nat /\ Len(t) \in Nat
      BY <1>1, <1>2, <1>3
    <2>1. CASE k <= Len(s)
      <3>1. st[k] = s[k] /\ (k # 1 => st[k - 1] = s[k - 1]) /\ k \in 1 .. Len(s)
        <4>1. k \in 1 .. Len(s) + Len(t) /\ (k # 1 => k - 1 \in 1 .. Len(s) + Len(t))
          BY <2>0
        <4> QED BY <1>3, <2>0, <2>1, <4>1
      <3> QED BY <1>1, <3>1
    <2>2. CASE k = Len(s) + 1
      <3>1. st[k] = After(f, s, c)
        BY <1>1, <1>2, <1>3, <2>2
      <3>2. CASE s = <<>>
        BY <1>1, <1>4, <2>2, <3>1, <3>2 DEF After
      <3>3. CASE s # <<>>
        <4>1. After(f, s, c) = Succ(f, s[Len(s)]) /\ st[k - 1] = s[Len(s)] /\ k # 1
          BY <1>1, <1>2, <1>3, <1>4, <2>2, <3>3 DEF After
        <4> QED BY <3>1, <4>1
      <3> QED BY <3>2, <3>3
    <2>3. CASE k > Len(s) + 1
      <3>1. /\ st[k] = t[k - Len(s)] /\ st[k - 1] = t[(k - Len(s)) - 1]
            /\ k - Len(s) \in 1 .. Len(t) /\ k - Len(s) # 1 /\ k # 1
        <4>1. k \in 1 .. Len(s) + Len(t) /\ k - 1 \in 1 .. Len(s) + Len(t)
          BY <2>0, <2>3
        <4>2. st[k] = t[k - Len(s)] /\ st[k - 1] = t[(k - 1) - Len(s)]
          BY <1>3, <2>0, <2>3, <4>1
        <4>3. (k - 1) - Len(s) = (k - Len(s)) - 1 /\ k - Len(s) \in 1 .. Len(t) /\ k - Len(s) # 1 /\ k # 1
          BY <2>0, <2>3
        <4> QED BY <4>2, <4>3
      <3> QED BY <1>2, <3>1
    <2> QED BY <1>1, <2>1, <2>2, <2>3
  <1>6. After(f, st, c) = After(f, t, After(f, s, c))
    <2>1. CASE t = <<>>
      <3>1. st = s
        BY <1>1, <2>1, ConcatEmptySeq DEF st
      <3> QED BY <2>1, <3>1 DEF After
    <2>2. CASE t # <<>>
      <3>1. st[Len(st)] = t[Len(t)] /\ st # <<>>
        BY <1>1, <1>2, <1>3, <1>4, <2>2
      <3> QED BY <2>2, <3>1 DEF After
    <2> QED BY <2>1, <2>2
  <1> QED BY <1>3, <1>5, <1>6 DEF st

\* The records after the first ones.
LEMMA RunsSplit ==
    ASSUME NEW f, NEW ss, NEW c, Runs(f, ss, c), NEW n \in 0 .. Len(ss)
    PROVE  /\ Runs(f, SubSeq(ss, 1, n), c)
           /\ Runs(f, SubSeq(ss, n + 1, Len(ss)), AfterAll(f, SubSeq(ss, 1, n), c))
           /\ AfterAll(f, SubSeq(ss, n + 1, Len(ss)), AfterAll(f, SubSeq(ss, 1, n), c)) = AfterAll(f, ss, c)
           /\ Len(SubSeq(ss, 1, n)) = n
  <1> DEFINE a == SubSeq(ss, 1, n)
             b == SubSeq(ss, n + 1, Len(ss))
             last == AfterAll(f, a, c)
  <1>1. /\ ss \in Seq(Seq(Cells(f))) /\ Len(ss) \in Nat /\ n \in Nat /\ n <= Len(ss)
        /\ \A k \in 1 .. Len(ss) : ss[k] \in Seq(Cells(f))
        /\ \A j \in 1 .. Len(ss) :
              /\ ss[j] # <<>>
              /\ Run(f, ss[j], IF j = 1 THEN c ELSE After(f, ss[j - 1], c))
    BY DEF Runs
  <1>2. a \in Seq(Seq(Cells(f))) /\ Len(a) = n /\ \A k \in 1 .. n : a[k] = ss[k]
    BY <1>1, SubSeqProperties
  <1>3. b \in Seq(Seq(Cells(f))) /\ Len(b) = Len(ss) - n /\ \A k \in 1 .. Len(ss) - n : b[k] = ss[n + k]
    BY <1>1, SubSeqProperties
  <1> HIDE DEF a, b
  <1>4. a = <<>> <=> n = 0
    BY <1>1, <1>2, EmptySeq
  <1>5. b = <<>> <=> n = Len(ss)
    BY <1>1, <1>3, EmptySeq
  <1>6. ss = <<>> <=> Len(ss) = 0
    BY <1>1, EmptySeq
  <1>7. Runs(f, a, c)
    <2> SUFFICES ASSUME NEW k \in 1 .. n
                 PROVE  a[k] # <<>> /\ Run(f, a[k], IF k = 1 THEN c ELSE After(f, a[k - 1], c))
      BY <1>2 DEF Runs
    <2>1. k \in 1 .. Len(ss) /\ (k # 1 => k - 1 \in 1 .. n)
      BY <1>1
    <2>2. a[k] = ss[k] /\ (k # 1 => a[k - 1] = ss[k - 1])
      BY <1>2, <2>1
    <2> QED BY <1>1, <2>1, <2>2
  <1>8. n > 0 => last = After(f, ss[n], c)
    BY <1>1, <1>2, <1>4 DEF AfterAll
  <1>9. n = 0 => last = c
    BY <1>4 DEF AfterAll
  <1> HIDE DEF last
  <1>10. \A j \in 1 .. Len(ss) : \A d : After(f, ss[j], d) = After(f, ss[j], c)
    BY <1>1 DEF After
  <1>11. Runs(f, b, last)
    <2> SUFFICES ASSUME NEW k \in 1 .. Len(b)
                 PROVE  /\ b[k] # <<>>
                        /\ Run(f, b[k], IF k = 1 THEN last ELSE After(f, b[k - 1], last))
      BY <1>3 DEF Runs
    <2>0. n + k \in 1 .. Len(ss) /\ k \in 1 .. Len(ss) - n /\ k \in Nat \ {0} /\ n \in Nat
      BY <1>1, <1>3
    <2>1. /\ b[k] = ss[n + k] /\ b[k] # <<>>
          /\ Run(f, b[k], IF n + k = 1 THEN c ELSE After(f, ss[n + k - 1], c))
      BY <1>1, <1>3, <2>0
    <2>2. CASE k = 1 /\ n = 0
      BY <1>9, <2>0, <2>1, <2>2
    <2>3. CASE k = 1 /\ n # 0
      <3>1. n + k - 1 = n /\ n + k # 1
        BY <2>0, <2>3
      <3> QED BY <2>0, <1>8, <2>1, <2>3, <3>1
    <2>4. CASE k # 1
      <3>1. b[k - 1] = ss[n + k - 1] /\ n + k # 1 /\ n + k - 1 \in 1 .. Len(ss)
        <4>1. k - 1 \in 1 .. Len(ss) - n /\ n + (k - 1) = n + k - 1 /\ n + k # 1 /\ n + k - 1 \in 1 .. Len(ss)
          BY <1>1, <2>0, <2>4
        <4> QED BY <1>3, <4>1
      <3>2. After(f, b[k - 1], last) = After(f, ss[n + k - 1], c)
        BY <1>10, <3>1
      <3> QED BY <2>1, <2>4, <3>1, <3>2
    <2> QED BY <2>2, <2>3, <2>4
  <1>12. AfterAll(f, b, last) = AfterAll(f, ss, c)
    <2>1. CASE n = Len(ss)
      BY <1>1, <1>5, <1>6, <1>8, <1>9, <2>1 DEF AfterAll
    <2>2. CASE n < Len(ss)
      <3>1. b[Len(b)] = ss[Len(ss)] /\ ss # <<>> /\ b # <<>> /\ Len(ss) \in 1 .. Len(ss)
        <4>1. Len(ss) - n \in 1 .. Len(ss) - n /\ n + (Len(ss) - n) = Len(ss) /\ Len(ss) # 0
              /\ Len(ss) \in 1 .. Len(ss) /\ n # Len(ss) /\ Len(b) = Len(ss) - n
          BY <1>1, <1>3, <2>2
        <4>2. b[Len(b)] = ss[Len(ss)]
          BY <1>3, <4>1
        <4> QED BY <1>5, <1>6, <4>1, <4>2
      <3> QED BY <1>10, <3>1 DEF AfterAll
    <2> QED BY <1>1, <2>1, <2>2
  <1> QED BY <1>2, <1>7, <1>11, <1>12 DEF a, b, last

\* The first record, and the others.
LEMMA RunsHead ==
    ASSUME NEW f, NEW ss, NEW c, Runs(f, ss, c), ss # <<>>
    PROVE  /\ Head(ss) # <<>>
           /\ Run(f, Head(ss), c)
           /\ Runs(f, Tail(ss), After(f, Head(ss), c))
           /\ AfterAll(f, Tail(ss), After(f, Head(ss), c)) = AfterAll(f, ss, c)
  <1>1. ss \in Seq(Seq(Cells(f))) /\ Len(ss) \in Nat /\ Len(ss) # 0
    BY EmptySeq DEF Runs
  <1>2. Head(ss) = ss[1]
    BY <1>1
  <1>3. Head(ss) # <<>> /\ Run(f, Head(ss), c)
    BY <1>1, <1>2 DEF Runs
  <1>4. Tail(ss) = SubSeq(ss, 1 + 1, Len(ss))
    BY <1>1, TailIsSubSeq
  <1>5. AfterAll(f, SubSeq(ss, 1, 1), c) = After(f, Head(ss), c)
    <2>1. SubSeq(ss, 1, 1) # <<>> /\ Len(SubSeq(ss, 1, 1)) = 1 /\ SubSeq(ss, 1, 1)[1] = ss[1]
      <3>1. \A i \in 1 .. 1 : ss[i] \in Seq(Cells(f))
        BY <1>1
      <3> QED BY <3>1, SubSeqProperties, EmptySeq
    <2> QED BY <1>2, <2>1 DEF AfterAll
  <1>6. 1 \in 0 .. Len(ss)
    BY <1>1
  <1>7. /\ Runs(f, SubSeq(ss, 1 + 1, Len(ss)), AfterAll(f, SubSeq(ss, 1, 1), c))
        /\ AfterAll(f, SubSeq(ss, 1 + 1, Len(ss)), AfterAll(f, SubSeq(ss, 1, 1), c)) = AfterAll(f, ss, c)
    BY <1>6, RunsSplit
  <1> QED BY <1>3, <1>4, <1>5, <1>7

\* One more record.
LEMMA RunsAppend ==
    ASSUME NEW f, NEW ss, NEW s, NEW c, Runs(f, ss, c), Run(f, s, AfterAll(f, ss, c)), s # <<>>
    PROVE  /\ Runs(f, Append(ss, s), c)
           /\ AfterAll(f, Append(ss, s), c) = After(f, s, AfterAll(f, ss, c))
  <1> DEFINE st == Append(ss, s)
  <1>1. /\ ss \in Seq(Seq(Cells(f))) /\ Len(ss) \in Nat /\ s \in Seq(Cells(f))
        /\ \A j \in 1 .. Len(ss) :
              /\ ss[j] # <<>>
              /\ Run(f, ss[j], IF j = 1 THEN c ELSE After(f, ss[j - 1], c))
    BY DEF Runs, Run
  <1>2. /\ st \in Seq(Seq(Cells(f))) /\ st # <<>> /\ Len(st) = Len(ss) + 1
        /\ \A i \in 1 .. Len(ss) : st[i] = ss[i]
        /\ st[Len(ss) + 1] = s
    BY <1>1, AppendProperties
  <1> HIDE DEF st
  <1>3. ss = <<>> <=> Len(ss) = 0
    BY <1>1, EmptySeq
  <1>4. Runs(f, st, c)
    <2> SUFFICES ASSUME NEW j \in 1 .. Len(st)
                 PROVE  /\ st[j] # <<>>
                        /\ Run(f, st[j], IF j = 1 THEN c ELSE After(f, st[j - 1], c))
      BY <1>2 DEF Runs
    <2>1. CASE j <= Len(ss)
      <3>1. st[j] = ss[j] /\ (j # 1 => st[j - 1] = ss[j - 1]) /\ j \in 1 .. Len(ss)
        <4>1. j \in 1 .. Len(ss) /\ (j # 1 => j - 1 \in 1 .. Len(ss))
          BY <1>1, <2>1
        <4> QED BY <1>2, <4>1
      <3> QED BY <1>1, <3>1
    <2>2. CASE j = Len(ss) + 1
      <3>1. CASE ss = <<>>
        BY <1>1, <1>2, <1>3, <2>2, <3>1 DEF AfterAll
      <3>2. CASE ss # <<>>
        <4>1. st[j - 1] = ss[Len(ss)] /\ j # 1
          <5>1. Len(ss) \in 1 .. Len(ss) /\ j - 1 = Len(ss) /\ j # 1
            BY <1>1, <1>3, <2>2, <3>2
          <5> QED BY <1>2, <5>1
        <4> QED BY <1>2, <2>2, <3>2, <4>1 DEF AfterAll
      <3> QED BY <3>1, <3>2
    <2> QED BY <1>1, <1>2, <2>1, <2>2
  <1>5. AfterAll(f, st, c) = After(f, s, AfterAll(f, ss, c))
    BY <1>2 DEF AfterAll, After
  <1> QED BY <1>4, <1>5 DEF st
-----------------------------------------------------------------------------
(* Packs *)

\* A pack is the piece of the stream between two first cells.
LEMMA PackRun ==
    ASSUME NEW f \in Seq(Nat), NEW i \in 1 .. Len(f)
    PROVE  /\ Run(f, PackBytes(i, f[i]), First(i))
           /\ After(f, PackBytes(i, f[i]), First(i)) = First(i + 1)
           /\ Len(PackBytes(i, f[i])) = HeaderBytes + f[i]
  <1> DEFINE n == HeaderBytes + f[i]
             s == PackBytes(i, f[i])
  <1>1. n \in Nat \ {0} /\ f[i] \in Nat /\ i \in Nat
    BY FramingAssumption
  <1>2. s = [k \in 1 .. n |-> [pack |-> i, byte |-> k]]
    BY DEF PackBytes
  <1>3. s \in Seq(Cells(f)) /\ Len(s) = n
    <2>1. \A k \in 1 .. n : [pack |-> i, byte |-> k] \in Cells(f)
      BY <1>1 DEF Cells
    <2>2. s \in [1 .. n -> Cells(f)]
      BY <1>2, <2>1
    <2> HIDE DEF s, n
    <2> QED BY <1>1, <2>2
  <1>4. \A k \in 1 .. n : s[k] = [pack |-> i, byte |-> k]
    BY <1>2
  <1> HIDE DEF s
  <1>5. \A k \in 1 .. n : k # 1 => Succ(f, s[k - 1]) = [pack |-> i, byte |-> k]
    <2> SUFFICES ASSUME NEW k \in 1 .. n, k # 1 PROVE Succ(f, s[k - 1]) = [pack |-> i, byte |-> k]
      OBVIOUS
    <2>1. k - 1 \in 1 .. n /\ k - 1 < n /\ (k - 1) + 1 = k
      BY <1>1
    <2>2. s[k - 1] = [pack |-> i, byte |-> k - 1]
      BY <1>4, <2>1
    <2> QED BY <2>1, <2>2 DEF Succ
  <1>6. Run(f, s, First(i))
    BY <1>3, <1>4, <1>5 DEF Run, First
  <1>7. s # <<>> /\ s[Len(s)] = [pack |-> i, byte |-> n]
    <2>1. n \in 1 .. n
      BY <1>1
    <2> QED BY <1>1, <1>3, <1>4, <2>1
  <1>8. After(f, s, First(i)) = First(i + 1)
    BY <1>1, <1>7 DEF After, Succ
  <1> QED BY <1>3, <1>6, <1>8 DEF s

\* A piece that begins a pack and is not longer is the beginning of the pack.
LEMMA RunIsPack ==
    ASSUME NEW f \in Seq(Nat), NEW i \in 1 .. Len(f), NEW s, Run(f, s, First(i)),
           Len(s) <= HeaderBytes + f[i]
    PROVE  s = SubSeq(PackBytes(i, f[i]), 1, Len(s))
  <1> DEFINE n == HeaderBytes + f[i]
             S == {k \in Nat : k + 1 \in 1 .. Len(s) => s[k + 1] = [pack |-> i, byte |-> k + 1]}
             t == SubSeq(PackBytes(i, f[i]), 1, Len(s))
  <1>1. n \in Nat \ {0} /\ f[i] \in Nat /\ i \in Nat /\ s \in Seq(Cells(f)) /\ Len(s) \in Nat
    BY FramingAssumption DEF Run
  <1>2. \A k \in 1 .. Len(s) : s[k] = IF k = 1 THEN First(i) ELSE Succ(f, s[k - 1])
    BY DEF Run
  <1>3. 0 \in S
    BY <1>2 DEF First
  <1>4. ASSUME NEW k \in Nat, k \in S PROVE k + 1 \in S
    <2> SUFFICES ASSUME k + 2 \in 1 .. Len(s) PROVE s[k + 2] = [pack |-> i, byte |-> k + 2]
      OBVIOUS
    <2>1. k + 1 \in 1 .. Len(s) /\ k + 2 # 1 /\ (k + 2) - 1 = k + 1 /\ (k + 1) + 1 = k + 2 /\ k + 1 < n
      BY <1>1
    <2>2. s[k + 1] = [pack |-> i, byte |-> k + 1]
      BY <1>4, <2>1
    <2>3. s[k + 2] = Succ(f, s[k + 1])
      BY <1>2, <2>1
    <2> QED BY <2>1, <2>2, <2>3 DEF Succ
  <1>5. \A k \in 1 .. Len(s) : s[k] = [pack |-> i, byte |-> k]
    <2> HIDE DEF S
    <2>1. Nat \subseteq S
      BY <1>3, <1>4, SetInduction
    <2> SUFFICES ASSUME NEW k \in 1 .. Len(s) PROVE s[k] = [pack |-> i, byte |-> k]
      OBVIOUS
    <2>2. k - 1 \in Nat /\ (k - 1) + 1 = k
      BY <1>1
    <2> QED BY <2>1, <2>2 DEF S
  <1>6. \A k \in 1 .. Len(s) : PackBytes(i, f[i])[k] = [pack |-> i, byte |-> k] /\ [pack |-> i, byte |-> k] \in Cells(f)
    <2> SUFFICES ASSUME NEW k \in 1 .. Len(s)
                 PROVE  PackBytes(i, f[i])[k] = [pack |-> i, byte |-> k] /\ [pack |-> i, byte |-> k] \in Cells(f)
      OBVIOUS
    <2>1. k \in 1 .. n
      BY <1>1
    <2> QED BY <1>1, <2>1 DEF PackBytes, Cells
  <1>7. t \in Seq(Cells(f)) /\ Len(t) = Len(s) /\ \A k \in 1 .. Len(s) : t[k] = PackBytes(i, f[i])[k]
    <2> DEFINE p == PackBytes(i, f[i])
               len == Len(s)
    <2>1. \A k \in 1 .. len : p[k] \in Cells(f)
      BY <1>6
    <2>2. len \in Int /\ len >= 0 /\ 1 \in Int
      BY <1>1
    <2> HIDE DEF p, len
    <2>3. /\ SubSeq(p, 1, len) \in Seq(Cells(f))
          /\ Len(SubSeq(p, 1, len)) = IF 1 <= len THEN len - 1 + 1 ELSE 0
          /\ \A k \in 1 .. len - 1 + 1 : SubSeq(p, 1, len)[k] = p[1 + k - 1]
      BY <2>1, <2>2, SubSeqProperties
    <2>4. Len(SubSeq(p, 1, len)) = len /\ \A k \in 1 .. len : SubSeq(p, 1, len)[k] = p[k]
      BY <2>2, <2>3
    <2> QED BY <2>3, <2>4 DEF p, len
  <1> HIDE DEF t
  <1>8. s = t
    BY <1>1, <1>5, <1>6, <1>7, SeqEqual
  <1> QED BY <1>8 DEF t

\* A pack that is written later changes nothing of the pieces before it.
LEMMA SuccExtend ==
    ASSUME NEW f \in Seq(Nat), NEW size \in Nat
    PROVE  /\ Append(f, size) \in Seq(Nat) /\ Len(Append(f, size)) = Len(f) + 1
           /\ Cells(f) \subseteq Cells(Append(f, size))
           /\ \A c \in Cells(f) : Succ(Append(f, size), c) = Succ(f, c)
  <1>1. /\ Append(f, size) \in Seq(Nat) /\ Len(Append(f, size)) = Len(f) + 1 /\ Len(f) \in Nat
        /\ \A k \in 1 .. Len(f) : Append(f, size)[k] = f[k]
    BY AppendProperties
  <1>2. ASSUME NEW c \in Cells(f)
        PROVE  /\ c.pack \in 1 .. Len(f) /\ Append(f, size)[c.pack] = f[c.pack]
               /\ c \in Cells(Append(f, size))
    <2>1. c \in [pack : 1 .. Len(f), byte : Nat \ {0}] /\ c.byte <= HeaderBytes + f[c.pack]
      BY DEF Cells
    <2>2. c.pack \in 1 .. Len(f) /\ Append(f, size)[c.pack] = f[c.pack]
      BY <1>1, <2>1
    <2>3. c \in [pack : 1 .. Len(Append(f, size)), byte : Nat \ {0}]
      BY <1>1, <2>1
    <2> QED BY <2>1, <2>2, <2>3 DEF Cells
  <1> QED BY <1>1, <1>2 DEF Succ

LEMMA RunExtend ==
    ASSUME NEW f \in Seq(Nat), NEW size \in Nat, NEW s, NEW c, Run(f, s, c)
    PROVE  /\ Run(Append(f, size), s, c)
           /\ After(Append(f, size), s, c) = After(f, s, c)
  <1> DEFINE g == Append(f, size)
  <1>1. /\ Cells(f) \subseteq Cells(g)
        /\ \A d \in Cells(f) : Succ(g, d) = Succ(f, d)
    BY SuccExtend
  <1>2. /\ s \in Seq(Cells(f)) /\ Len(s) \in Nat
        /\ \A k \in 1 .. Len(s) : s[k] \in Cells(f)
        /\ \A k \in 1 .. Len(s) : s[k] = IF k = 1 THEN c ELSE Succ(f, s[k - 1])
    BY DEF Run
  <1>3. s \in Seq(Cells(g))
    BY <1>1, <1>2, SeqMonotonic
  <1> HIDE DEF g
  <1>4. ASSUME NEW k \in 1 .. Len(s) PROVE s[k] = IF k = 1 THEN c ELSE Succ(g, s[k - 1])
    <2>1. CASE k = 1
      BY <1>2, <2>1
    <2>2. CASE k # 1
      <3>1. k - 1 \in 1 .. Len(s)
        BY <1>2, <2>2
      <3> QED BY <1>1, <1>2, <2>2, <3>1
    <2> QED BY <2>1, <2>2
  <1>5. After(g, s, c) = After(f, s, c)
    <2>1. s # <<>> => Len(s) \in 1 .. Len(s)
      BY <1>2, EmptySeq
    <2> QED BY <1>1, <1>2, <2>1 DEF After
  <1> QED BY <1>3, <1>4, <1>5 DEF Run, g

LEMMA RunsExtend ==
    ASSUME NEW f \in Seq(Nat), NEW size \in Nat, NEW ss, NEW c, Runs(f, ss, c)
    PROVE  /\ Runs(Append(f, size), ss, c)
           /\ AfterAll(Append(f, size), ss, c) = AfterAll(f, ss, c)
  <1> DEFINE g == Append(f, size)
  <1>1. Cells(f) \subseteq Cells(g)
    BY SuccExtend
  <1>2. /\ ss \in Seq(Seq(Cells(f))) /\ Len(ss) \in Nat
        /\ \A j \in 1 .. Len(ss) : ss[j] # <<>>
        /\ \A j \in 1 .. Len(ss) : Run(f, ss[j], IF j = 1 THEN c ELSE After(f, ss[j - 1], c))
    BY DEF Runs
  <1>3. ss \in Seq(Seq(Cells(g)))
    <2>1. Seq(Cells(f)) \subseteq Seq(Cells(g))
      BY <1>1, SeqMonotonic
    <2> QED BY <1>2, <2>1, SeqMonotonic
  <1>4. \A j \in 1 .. Len(ss) : After(g, ss[j], c) = After(f, ss[j], c)
    <2> SUFFICES ASSUME NEW j \in 1 .. Len(ss) PROVE After(g, ss[j], c) = After(f, ss[j], c)
      OBVIOUS
    <2>1. Run(f, ss[j], IF j = 1 THEN c ELSE After(f, ss[j - 1], c)) /\ ss[j] # <<>>
      BY <1>2
    <2>2. After(g, ss[j], IF j = 1 THEN c ELSE After(f, ss[j - 1], c))
            = After(f, ss[j], IF j = 1 THEN c ELSE After(f, ss[j - 1], c))
      BY <2>1, RunExtend
    <2> QED BY <2>1, <2>2 DEF After
  <1>5. ASSUME NEW j \in 1 .. Len(ss) PROVE Run(g, ss[j], IF j = 1 THEN c ELSE After(g, ss[j - 1], c))
    <2>1. Run(g, ss[j], IF j = 1 THEN c ELSE After(f, ss[j - 1], c))
      BY <1>2, RunExtend
    <2>2. j # 1 => j - 1 \in 1 .. Len(ss)
      BY <1>2
    <2> HIDE DEF g
    <2> QED BY <1>4, <2>1, <2>2
  <1>6. AfterAll(g, ss, c) = AfterAll(f, ss, c)
    <2>1. ss # <<>> => Len(ss) \in 1 .. Len(ss)
      BY <1>2, EmptySeq
    <2> HIDE DEF g
    <2> QED BY <1>4, <2>1 DEF AfterAll
  <1> HIDE DEF g
  <1> QED BY <1>2, <1>3, <1>5, <1>6 DEF Runs, g

-----------------------------------------------------------------------------
(* The inductive invariant *)

\* What is read of a pack, the record, the records read ahead, those in the kernel and the
\* bytes not sent follow each other from the pack after the d-th to the end of the stream.
Chain(f, d, buf, rec, aheads, kernels, rest) ==
    LET c1 == After(f, buf, First(d + 1))
        c2 == After(f, rec, c1)
        c3 == AfterAll(f, aheads, c2)
        c4 == AfterAll(f, kernels, c3)
    IN  /\ Run(f, buf, First(d + 1))
        /\ Run(f, rec, c1)
        /\ Runs(f, aheads, c2)
        /\ Runs(f, kernels, c3)
        /\ Run(f, rest, c4)
        /\ After(f, rest, c4) = First(Len(f) + 1)

\* process() wants what its pack still lacks.
Place(f, d, r) ==
    \/ r = Idle
    \/ /\ r.at = "header" /\ Len(r.buf) + r.rest = HeaderBytes
       /\ r.rest \in Nat \ {0}
    \/ /\ r.at = "body" /\ d < Len(f) /\ Len(r.buf) + r.rest = HeaderBytes + f[d + 1]
       /\ r.rest \in Nat \ {0}
    \/ r.at = "pack" /\ d < Len(f) /\ r.buf = PackBytes(d + 1, f[d + 1])

Packs(f, del) ==
    /\ del \in Seq(Seq([pack : Nat, byte : Nat]))
    /\ Len(del) <= Len(f)
    /\ \A i \in 1 .. Len(del) : del[i] = PackBytes(i, f[i])

Reading == [at : {"idle", "header", "body", "pack"}, buf : Seq([pack : Nat, byte : Nat]), rest : Nat]

InTransit ==
    /\ framed \in Seq(Nat)
    /\ Packs(framed, delivered)
    /\ reading \in Reading
    /\ Chain(framed, Len(delivered), reading.buf, record, ahead, kernel, unsent)
    /\ Place(framed, Len(delivered), reading)
    /\ caller \in {"application", "registered", "worker", "asleep", "stopped"}
    /\ caller \in {"registered", "asleep", "stopped"} => reading = Idle
    /\ caller = "asleep" => record = <<>> /\ ahead = <<>>

\* Whoever is not reading has given up what process() had read of a pack, and a worker that
\* sleeps has emptied OpenSSL's buffers, whatever was cut.
Rested ==
    /\ caller \notin {"application", "worker"} => reading = Idle
    /\ caller = "asleep" => record = <<>> /\ ahead = <<>>

FInv == cut \in BOOLEAN /\ Rested /\ (~cut => InTransit)

-----------------------------------------------------------------------------
(* What the steps do to the chain *)

LEMMA RunStarts ==
    ASSUME NEW f \in Seq(Nat), NEW i \in Nat, NEW s, Run(f, s, First(i)), s # <<>>
    PROVE  i \in 1 .. Len(f) /\ s[1] = First(i)
  <1>1. s \in Seq(Cells(f)) /\ Len(s) \in Nat /\ Len(s) # 0
    BY EmptySeq DEF Run
  <1>2. 1 \in 1 .. Len(s)
    BY <1>1
  <1>3. s[1] = First(i) /\ s[1] \in Cells(f)
    BY <1>1, <1>2 DEF Run
  <1> QED BY <1>3 DEF Cells, First

\* The chain of a stream without packs.
LEMMA ChainEmpty == Chain(<<>>, 0, <<>>, <<>>, <<>>, <<>>, <<>>)
  <1>1. \A c : /\ Run(<<>>, <<>>, c) /\ After(<<>>, <<>>, c) = c
               /\ Runs(<<>>, <<>>, c) /\ AfterAll(<<>>, <<>>, c) = c
    BY RunEmpty, RunsEmpty
  <1>2. Len(<<>>) = 0
    OBVIOUS
  <1> QED BY <1>1, <1>2 DEF Chain

\* A pack is written.
LEMMA ChainWrite ==
    ASSUME NEW f \in Seq(Nat), NEW size \in Nat, NEW d, NEW buf, NEW rec, NEW aheads, NEW kernels, NEW rest,
           Chain(f, d, buf, rec, aheads, kernels, rest)
    PROVE  Chain(Append(f, size), d, buf, rec, aheads, kernels, rest \o PackBytes(Len(f) + 1, size))
  <1> DEFINE g  == Append(f, size)
             p  == PackBytes(Len(f) + 1, size)
             c0 == First(d + 1)
             c1 == After(f, buf, c0)
             c2 == After(f, rec, c1)
             c3 == AfterAll(f, aheads, c2)
             c4 == AfterAll(f, kernels, c3)
  <1>1. /\ Run(f, buf, c0) /\ Run(f, rec, c1) /\ Runs(f, aheads, c2) /\ Runs(f, kernels, c3)
        /\ Run(f, rest, c4) /\ After(f, rest, c4) = First(Len(f) + 1)
    BY DEF Chain
  <1>2. /\ Run(g, buf, c0) /\ c1 = After(g, buf, c0)
        /\ Run(g, rec, c1) /\ c2 = After(g, rec, c1)
        /\ Run(g, rest, c4) /\ After(g, rest, c4) = First(Len(f) + 1)
    <2> HIDE DEF c0, c1, c2, c3, c4
    <2>1. Run(g, buf, c0) /\ After(g, buf, c0) = After(f, buf, c0)
      BY <1>1, RunExtend
    <2>2. Run(g, rec, c1) /\ After(g, rec, c1) = After(f, rec, c1)
      BY <1>1, RunExtend
    <2>3. Run(g, rest, c4) /\ After(g, rest, c4) = After(f, rest, c4)
      BY <1>1, RunExtend
    <2> QED BY <1>1, <2>1, <2>2, <2>3 DEF c1, c2
  <1>3. /\ Runs(g, aheads, c2) /\ c3 = AfterAll(g, aheads, c2)
        /\ Runs(g, kernels, c3) /\ c4 = AfterAll(g, kernels, c3)
    <2> HIDE DEF c0, c1, c2, c3, c4
    <2>1. Runs(g, aheads, c2) /\ AfterAll(g, aheads, c2) = AfterAll(f, aheads, c2)
      BY <1>1, RunsExtend
    <2>2. Runs(g, kernels, c3) /\ AfterAll(g, kernels, c3) = AfterAll(f, kernels, c3)
      BY <1>1, RunsExtend
    <2> QED BY <2>1, <2>2 DEF c3, c4
  <1>4. g \in Seq(Nat) /\ Len(g) = Len(f) + 1 /\ Len(f) + 1 \in 1 .. Len(g) /\ g[Len(f) + 1] = size
    BY AppendProperties
  <1>5. Run(g, p, First(Len(f) + 1)) /\ After(g, p, First(Len(f) + 1)) = First(Len(g) + 1)
    <2> HIDE DEF g
    <2> QED BY <1>4, PackRun
  <1>6. Run(g, rest \o p, c4) /\ After(g, rest \o p, c4) = First(Len(g) + 1)
    <2> HIDE DEF g, p, c4
    <2> QED BY <1>2, <1>5, RunJoin
  <1> HIDE DEF p, g
  <1>7. c1 = After(g, buf, First(d + 1))
    BY <1>2
  <1> HIDE DEF c1
  <1>8. c2 = After(g, rec, c1)
    BY <1>2
  <1> HIDE DEF c2
  <1>9. c3 = AfterAll(g, aheads, c2)
    BY <1>3
  <1> HIDE DEF c3
  <1>10. c4 = AfterAll(g, kernels, c3)
    BY <1>3
  <1> HIDE DEF c4
  <1>11. Chain(g, d, buf, rec, aheads, kernels, rest \o p)
    BY <1>2, <1>3, <1>6, <1>7, <1>8, <1>9, <1>10 DEF Chain
  <1> QED BY <1>11 DEF g, p

\* A record reaches the kernel.
LEMMA ChainSend ==
    ASSUME NEW f, NEW d, NEW buf, NEW rec, NEW aheads, NEW kernels, NEW rest,
           Chain(f, d, buf, rec, aheads, kernels, rest), NEW n \in 1 .. Len(rest)
    PROVE  Chain(f, d, buf, rec, aheads, Append(kernels, SubSeq(rest, 1, n)), SubSeq(rest, n + 1, Len(rest)))
  <1> DEFINE c1 == After(f, buf, First(d + 1))
             c2 == After(f, rec, c1)
             c3 == AfterAll(f, aheads, c2)
             c4 == AfterAll(f, kernels, c3)
             a  == SubSeq(rest, 1, n)
             b  == SubSeq(rest, n + 1, Len(rest))
             k2 == Append(kernels, a)
  <1>1. /\ Run(f, buf, First(d + 1)) /\ Run(f, rec, c1) /\ Runs(f, aheads, c2) /\ Runs(f, kernels, c3)
        /\ Run(f, rest, c4) /\ After(f, rest, c4) = First(Len(f) + 1)
    BY DEF Chain
  <1>2. n \in 0 .. Len(rest) /\ n # 0
    BY <1>1 DEF Run
  <1> HIDE DEF c1, c2, c3, c4
  <1>3. /\ Run(f, a, c4) /\ Run(f, b, After(f, a, c4))
        /\ After(f, b, After(f, a, c4)) = First(Len(f) + 1) /\ Len(a) = n
    BY <1>1, <1>2, RunSplit
  <1>4. a # <<>>
    BY <1>2, <1>3
  <1> HIDE DEF a, b
  <1>5. Runs(f, k2, c3) /\ AfterAll(f, k2, c3) = After(f, a, c4)
    BY <1>1, <1>3, <1>4, RunsAppend DEF c4
  <1> HIDE DEF k2
  <1>6. Chain(f, d, buf, rec, aheads, k2, b)
    BY <1>1, <1>3, <1>5 DEF Chain, c1, c2, c3
  <1> QED BY <1>6 DEF a, b, k2

\* OpenSSL decrypts the next record it has.
LEMMA ChainNext ==
    ASSUME NEW f, NEW d, NEW buf, NEW aheads, NEW kernels, NEW rest,
           Chain(f, d, buf, <<>>, aheads, kernels, rest), aheads # <<>>
    PROVE  Chain(f, d, buf, Head(aheads), Tail(aheads), kernels, rest)
  <1> DEFINE c1 == After(f, buf, First(d + 1))
             c3 == AfterAll(f, aheads, c1)
  <1>1. /\ Run(f, buf, First(d + 1)) /\ Runs(f, aheads, c1) /\ Runs(f, kernels, c3)
        /\ Run(f, rest, AfterAll(f, kernels, c3)) /\ After(f, rest, AfterAll(f, kernels, c3)) = First(Len(f) + 1)
    BY RunEmpty DEF Chain
  <1> HIDE DEF c1, c3
  <1>2. /\ Run(f, Head(aheads), c1)
        /\ Runs(f, Tail(aheads), After(f, Head(aheads), c1))
        /\ AfterAll(f, Tail(aheads), After(f, Head(aheads), c1)) = c3
    BY <1>1, RunsHead DEF c3
  <1> QED BY <1>1, <1>2 DEF Chain, c1

\* OpenSSL reads some of the kernel's records ahead.
LEMMA ChainAhead ==
    ASSUME NEW f, NEW d, NEW buf, NEW kernels, NEW rest,
           Chain(f, d, buf, <<>>, <<>>, kernels, rest), NEW n \in 1 .. Len(kernels)
    PROVE  Chain(f, d, buf, Head(kernels), SubSeq(kernels, 2, n), SubSeq(kernels, n + 1, Len(kernels)), rest)
  <1> DEFINE c1 == After(f, buf, First(d + 1))
             a  == SubSeq(kernels, 1, n)
             b  == SubSeq(kernels, n + 1, Len(kernels))
  <1>1. /\ Run(f, buf, First(d + 1)) /\ Runs(f, kernels, c1)
        /\ Run(f, rest, AfterAll(f, kernels, c1)) /\ After(f, rest, AfterAll(f, kernels, c1)) = First(Len(f) + 1)
    BY RunEmpty, RunsEmpty DEF Chain
  <1>2. kernels \in Seq(Seq(Cells(f))) /\ Len(kernels) \in Nat
    BY <1>1 DEF Runs
  <1>3. n \in 0 .. Len(kernels) /\ n # 0 /\ 1 \in 1 .. Len(kernels) /\ n \in 1 .. Len(kernels)
    BY <1>2
  <1> HIDE DEF c1
  <1>4. /\ Runs(f, a, c1) /\ Runs(f, b, AfterAll(f, a, c1))
        /\ AfterAll(f, b, AfterAll(f, a, c1)) = AfterAll(f, kernels, c1)
        /\ Len(a) = n
    BY <1>1, <1>3, RunsSplit
  <1>5. a # <<>>
    BY <1>3, <1>4
  <1>6. Head(a) = Head(kernels) /\ Tail(a) = SubSeq(kernels, 2, n)
    <2>1. Head(a) = kernels[1] /\ Tail(a) = SubSeq(kernels, 1 + 1, n)
      BY <1>2, <1>3, HeadTailOfSubSeq
    <2>2. Head(kernels) = kernels[1]
      BY <1>2
    <2> QED BY <2>1, <2>2
  <1> HIDE DEF a, b
  <1>7. /\ Run(f, Head(a), c1)
        /\ Runs(f, Tail(a), After(f, Head(a), c1))
        /\ AfterAll(f, Tail(a), After(f, Head(a), c1)) = AfterAll(f, a, c1)
    BY <1>4, <1>5, RunsHead
  <1>8. Chain(f, d, buf, Head(a), Tail(a), b, rest)
    BY <1>1, <1>4, <1>7 DEF Chain, c1
  <1> QED BY <1>6, <1>8 DEF b

\* SSL_read() copies bytes of the record.
LEMMA ChainTake ==
    ASSUME NEW f, NEW d, NEW buf, NEW rec, NEW aheads, NEW kernels, NEW rest,
           Chain(f, d, buf, rec, aheads, kernels, rest), NEW n \in 0 .. Len(rec)
    PROVE  /\ Chain(f, d, buf \o SubSeq(rec, 1, n), SubSeq(rec, n + 1, Len(rec)), aheads, kernels, rest)
           /\ Len(buf \o SubSeq(rec, 1, n)) = Len(buf) + n
  <1> DEFINE c1 == After(f, buf, First(d + 1))
             c2 == After(f, rec, c1)
             a  == SubSeq(rec, 1, n)
             b  == SubSeq(rec, n + 1, Len(rec))
             got == buf \o a
  <1>1. /\ Run(f, buf, First(d + 1)) /\ Run(f, rec, c1) /\ Runs(f, aheads, c2)
        /\ Runs(f, kernels, AfterAll(f, aheads, c2))
        /\ Run(f, rest, AfterAll(f, kernels, AfterAll(f, aheads, c2)))
        /\ After(f, rest, AfterAll(f, kernels, AfterAll(f, aheads, c2))) = First(Len(f) + 1)
    BY DEF Chain
  <1> HIDE DEF c1, c2
  <1>2. /\ Run(f, a, c1) /\ Run(f, b, After(f, a, c1))
        /\ After(f, b, After(f, a, c1)) = c2 /\ Len(a) = n
    BY <1>1, RunSplit DEF c2
  <1> HIDE DEF a, b
  <1>3. Run(f, got, First(d + 1)) /\ After(f, got, First(d + 1)) = After(f, a, c1) /\ Len(got) = Len(buf) + Len(a)
    BY <1>1, <1>2, RunJoin DEF c1
  <1> HIDE DEF got
  <1>4. Chain(f, d, got, b, aheads, kernels, rest)
    BY <1>1, <1>2, <1>3 DEF Chain
  <1> QED BY <1>2, <1>3, <1>4 DEF got, a, b

\* A pack is delivered.
LEMMA ChainDeliver ==
    ASSUME NEW f \in Seq(Nat), NEW d \in Nat, NEW rec, NEW aheads, NEW kernels, NEW rest, d < Len(f),
           Chain(f, d, PackBytes(d + 1, f[d + 1]), rec, aheads, kernels, rest)
    PROVE  Chain(f, d + 1, <<>>, rec, aheads, kernels, rest)
  <1>1. d + 1 \in 1 .. Len(f)
    OBVIOUS
  <1>2. After(f, PackBytes(d + 1, f[d + 1]), First(d + 1)) = First((d + 1) + 1)
    BY <1>1, PackRun
  <1>3. Run(f, <<>>, First((d + 1) + 1)) /\ After(f, <<>>, First((d + 1) + 1)) = First((d + 1) + 1)
    BY RunEmpty
  <1> DEFINE p == PackBytes(d + 1, f[d + 1])
  <1> HIDE DEF p
  <1> QED BY <1>2, <1>3 DEF Chain

-----------------------------------------------------------------------------
(* The steps keep the invariant *)

LEMMA ProgramConstants ==
    /\ HeaderBytes \in Nat /\ HeaderBytes > 0 /\ BodySizes \subseteq Nat
    /\ Idle \in Reading /\ Begin \in Reading
  BY FramingAssumption DEF Idle, Begin, Reading

LEMMA FreshStart ==
    ASSUME framed' = <<>>, unsent' = <<>>, kernel' = <<>>, ahead' = <<>>, record' = <<>>,
           reading' = Idle, caller' = "application", delivered' = <<>>, cut' = FALSE
    PROVE  FInv'
  <1>1. Chain(framed', Len(delivered'), reading'.buf, record', ahead', kernel', unsent')
    BY ChainEmpty DEF Idle
  <1>2. Packs(framed', delivered')
    BY DEF Packs
  <1>3. Place(framed', Len(delivered'), reading')
    BY DEF Place
  <1>4. reading' \in Reading /\ framed' \in Seq(Nat)
    BY ProgramConstants
  <1> QED BY <1>1, <1>2, <1>3, <1>4 DEF FInv, InTransit, Rested

\* What the proofs below read from the invariant.
LEMMA TransitTypes ==
    ASSUME InTransit
    PROVE  /\ framed \in Seq(Nat) /\ Len(framed) \in Nat /\ Len(delivered) \in Nat
           /\ Len(delivered) <= Len(framed)
           /\ reading \in Reading
           /\ reading.buf \in Seq(Cells(framed)) /\ Len(reading.buf) \in Nat
           /\ record \in Seq(Cells(framed)) /\ unsent \in Seq(Cells(framed))
           /\ kernel \in Seq(Seq(Cells(framed))) /\ ahead \in Seq(Seq(Cells(framed)))
  BY DEF InTransit, Packs, Chain, Run, Runs

LEMMA WriteStep == ASSUME InTransit, WritePack PROVE InTransit'
  <1>1. PICK size \in BodySizes :
          framed' = Append(framed, size) /\ unsent' = unsent \o PackBytes(Len(framed) + 1, size)
    BY DEF WritePack
  <1>2. size \in Nat
    BY ProgramConstants
  <1>3. UNCHANGED <<kernel, ahead, record, reading, caller, delivered, cut>>
    BY DEF WritePack
  <1>4. /\ framed' \in Seq(Nat) /\ Len(framed') = Len(framed) + 1
        /\ \A i \in 1 .. Len(framed) : framed'[i] = framed[i]
        /\ Len(framed) \in Nat /\ Len(delivered) \in Nat /\ Len(delivered) <= Len(framed)
    BY <1>1, <1>2, TransitTypes, AppendProperties
  <1>5. Chain(framed', Len(delivered), reading.buf, record, ahead, kernel, unsent')
    BY <1>1, <1>2, TransitTypes, ChainWrite DEF InTransit
  <1>6. Packs(framed', delivered)
    <2>1. Packs(framed, delivered)
      BY DEF InTransit
    <2>2. \A i \in 1 .. Len(delivered) : i \in 1 .. Len(framed)
      BY <1>4
    <2>3. Len(delivered) <= Len(framed')
      BY <1>4
    <2>4. \A i \in 1 .. Len(delivered) : delivered[i] = PackBytes(i, framed'[i])
      BY <1>4, <2>1, <2>2 DEF Packs
    <2> QED BY <2>1, <2>3, <2>4 DEF Packs
  <1>7. Place(framed', Len(delivered), reading)
    <2>1. Place(framed, Len(delivered), reading)
      BY DEF InTransit
    <2>2. Len(delivered) < Len(framed) =>
            Len(delivered) < Len(framed') /\ framed'[Len(delivered) + 1] = framed[Len(delivered) + 1]
      <3>1. Len(delivered) < Len(framed) => Len(delivered) + 1 \in 1 .. Len(framed)
        BY <1>4
      <3> QED BY <1>4, <3>1
    <2> QED BY <2>1, <2>2 DEF Place
  <1> QED BY <1>3, <1>4, <1>5, <1>6, <1>7 DEF InTransit

LEMMA SendStep == ASSUME InTransit, SendRecord PROVE InTransit'
  <1>1. PICK n \in 1 .. Len(unsent) :
          kernel' = Append(kernel, SubSeq(unsent, 1, n)) /\ unsent' = SubSeq(unsent, n + 1, Len(unsent))
    BY DEF SendRecord
  <1>2. Chain(framed, Len(delivered), reading.buf, record, ahead, kernel', unsent')
    BY <1>1, ChainSend DEF InTransit
  <1>3. UNCHANGED <<framed, ahead, record, reading, caller, delivered, cut>>
    BY DEF SendRecord
  <1> QED BY <1>2, <1>3 DEF InTransit

\* What process() has read of a header or a body, when it is complete.
LEMMA CompletedStep ==
    ASSUME InTransit, AtRead, NEW bytes, NEW rec, NEW aheads, NEW kernels,
           Chain(framed, Len(delivered), bytes, rec, aheads, kernels, unsent),
           Len(bytes) = Len(reading.buf) + reading.rest,
           Completed(bytes)
    PROVE  /\ reading' \in Reading /\ reading'.buf = bytes
           /\ Place(framed, Len(delivered), reading')
           /\ caller' = caller
  <1> DEFINE d == Len(delivered)
  <1>1. /\ framed \in Seq(Nat) /\ Len(framed) \in Nat /\ d \in Nat
        /\ bytes \in Seq(Cells(framed)) /\ Len(bytes) \in Nat
        /\ Run(framed, bytes, First(d + 1))
        /\ HeaderBytes \in Nat /\ HeaderBytes > 0
    BY TransitTypes, ProgramConstants DEF Chain, Run
  <1>2. \/ reading.at = "header" /\ Len(bytes) = HeaderBytes
        \/ reading.at = "body" /\ d < Len(framed) /\ Len(bytes) = HeaderBytes + framed[d + 1]
    BY DEF InTransit, Place, AtRead, Idle
  <1>3. bytes # <<>> /\ d + 1 \in 1 .. Len(framed) /\ bytes[1] = First(d + 1) /\ framed[d + 1] \in Nat
    <2>1. Len(bytes) # 0
      <3>1. d < Len(framed) => d + 1 \in 1 .. Len(framed)
        BY <1>1
      <3>2. d < Len(framed) => framed[d + 1] \in Nat
        BY <1>1, <3>1
      <3> QED BY <1>1, <1>2, <3>2
    <2>2. bytes # <<>>
      BY <2>1
    <2>3. d + 1 \in Nat
      BY <1>1
    <2> HIDE DEF d
    <2> QED BY <1>1, <2>2, <2>3, RunStarts
  <1>4. d < Len(framed)
    BY <1>1, <1>3
  <1> DEFINE p == PackBytes(d + 1, framed[d + 1])
  <1>5. bytes = SubSeq(p, 1, Len(bytes))
    <2>1. Len(bytes) <= HeaderBytes + framed[d + 1]
      BY <1>1, <1>2, <1>3
    <2> HIDE DEF d
    <2> QED BY <1>1, <1>3, <2>1, RunIsPack
  <1>6. Len(bytes) = HeaderBytes + framed[d + 1] => bytes = p
    <2>1. Run(framed, p, First(d + 1)) /\ Len(p) = HeaderBytes + framed[d + 1]
      BY <1>1, <1>3, PackRun
    <2>2. p \in Seq(Cells(framed))
      BY <2>1 DEF Run
    <2> HIDE DEF p
    <2> QED BY <1>5, <2>1, <2>2, SubSeqFull
  <1>7. bytes \in Seq([pack : Nat, byte : Nat])
    <2>1. Cells(framed) \subseteq [pack : Nat, byte : Nat]
      BY <1>1 DEF Cells
    <2> QED BY <1>1, <2>1, SeqMonotonic
  <1>8. CASE reading.at = "header"
    <2>1. Len(bytes) = HeaderBytes
      BY <1>2, <1>8
    <2>2. IsHeader(bytes)
      <3>1. d + 1 \in DOMAIN framed
        BY <1>1, <1>3
      <3> HIDE DEF d
      <3> QED BY <1>5, <2>1, <3>1 DEF IsHeader
    <2>3. SizesSaid(bytes) = {framed[d + 1]}
      BY <1>3, <2>2 DEF SizesSaid, First
    <2>4. /\ reading' = [at |-> IF framed[d + 1] = 0 THEN "pack" ELSE "body", buf |-> bytes, rest |-> framed[d + 1]]
          /\ caller' = caller
      BY <1>8, <2>2, <2>3 DEF Completed
    <2>5. reading' \in Reading
      BY <1>3, <1>7, <2>4 DEF Reading
    <2>6. CASE framed[d + 1] = 0
      <3>1. bytes = p
        BY <1>1, <1>6, <2>1, <2>6
      <3> QED BY <1>4, <2>4, <2>5, <2>6, <3>1 DEF Place
    <2>7. CASE framed[d + 1] # 0
      BY <1>3, <1>4, <2>1, <2>4, <2>5, <2>7 DEF Place
    <2> QED BY <2>6, <2>7
  <1>9. CASE reading.at = "body"
    <2>1. bytes = p
      BY <1>2, <1>6, <1>9
    <2>2. reading' = [at |-> "pack", buf |-> bytes, rest |-> 0] /\ caller' = caller
      BY <1>9 DEF Completed
    <2>3. reading' \in Reading
      BY <1>7, <2>2 DEF Reading
    <2> QED BY <1>4, <2>1, <2>2, <2>3 DEF Place
  <1> QED BY <1>2, <1>8, <1>9

\* A call of SSL_read().
LEMMA TakeStep ==
    ASSUME InTransit, AtRead, NEW bytes, NEW records,
           Chain(framed, Len(delivered), reading.buf, bytes, records, kernel', unsent),
           TakeBytes(bytes, records), UNCHANGED <<framed, unsent, delivered, cut>>
    PROVE  InTransit'
  <1> DEFINE n   == IF Len(bytes) < reading.rest THEN Len(bytes) ELSE reading.rest
             got == reading.buf \o SubSeq(bytes, 1, n)
  <1>1. /\ reading \in Reading /\ reading.rest \in Nat \ {0} /\ reading # Idle
        /\ Len(reading.buf) \in Nat /\ Len(bytes) \in Nat
    BY TransitTypes, SMTT(20) DEF AtRead, InTransit, Place, Idle, Chain, Run
  <1>2. n \in 0 .. Len(bytes) /\ n \in Nat /\ n <= reading.rest
    BY <1>1
  <1>3. /\ record' = SubSeq(bytes, n + 1, Len(bytes)) /\ ahead' = records
        /\ IF n < reading.rest
           THEN reading' = [reading EXCEPT !.buf = got, !.rest = @ - n] /\ UNCHANGED caller
           ELSE Completed(got)
    BY DEF TakeBytes
  <1> HIDE DEF n
  <1>4. Chain(framed, Len(delivered), got, record', ahead', kernel', unsent) /\ Len(got) = Len(reading.buf) + n
    BY <1>2, <1>3, ChainTake
  <1> HIDE DEF got
  <1>5. got \in Seq([pack : Nat, byte : Nat])
    <2>1. Cells(framed) \subseteq [pack : Nat, byte : Nat]
      BY TransitTypes DEF Cells
    <2>2. got \in Seq(Cells(framed))
      BY <1>4 DEF Chain, Run
    <2> QED BY <2>1, <2>2, SeqMonotonic
  <1>6. reading' \in Reading /\ reading'.buf = got /\ Place(framed, Len(delivered), reading') /\ caller' = caller
    <2>1. CASE n < reading.rest
      <3>1. reading' = [at |-> reading.at, buf |-> got, rest |-> reading.rest - n] /\ caller' = caller
        BY <1>1, <1>3, <2>1 DEF Reading
      <3>2. reading' \in Reading
        BY <1>1, <1>2, <1>5, <3>1 DEF Reading
      <3>3. Place(framed, Len(delivered), reading')
        <4>1. reading.rest - n \in Nat \ {0} /\ Len(got) + (reading.rest - n) = Len(reading.buf) + reading.rest
          BY <1>1, <1>2, <1>4, <2>1
        <4>2. \/ reading.at = "header" /\ Len(reading.buf) + reading.rest = HeaderBytes
              \/ /\ reading.at = "body" /\ Len(delivered) < Len(framed)
                 /\ Len(reading.buf) + reading.rest = HeaderBytes + framed[Len(delivered) + 1]
          BY DEF InTransit, Place, AtRead, Idle
        <4> QED BY <3>1, <4>1, <4>2 DEF Place
      <3> QED BY <3>1, <3>2, <3>3
    <2>2. CASE ~(n < reading.rest)
      <3>1. Completed(got) /\ Len(got) = Len(reading.buf) + reading.rest
        BY <1>1, <1>2, <1>3, <1>4, <2>2
      <3> QED BY <1>4, <3>1, CompletedStep
    <2> QED BY <2>1, <2>2
  <1>7. caller \in {"application", "worker"}
    BY <1>1 DEF InTransit
  <1> QED BY <1>4, <1>6, <1>7 DEF InTransit

LEMMA ReadRecordStep == ASSUME InTransit, ReadRecord PROVE InTransit'
  <1>1. AtRead /\ UNCHANGED <<framed, unsent, kernel, delivered, cut>>
    BY DEF ReadRecord
  <1>2. Chain(framed, Len(delivered), reading.buf, record, ahead, kernel, unsent)
    BY DEF InTransit
  <1>3. CASE TakeBytes(record, ahead)
    BY <1>1, <1>2, <1>3, TakeStep
  <1>4. CASE record = <<>> /\ ahead # <<>> /\ TakeBytes(Head(ahead), Tail(ahead))
    <2>1. Chain(framed, Len(delivered), reading.buf, Head(ahead), Tail(ahead), kernel, unsent)
      BY <1>2, <1>4, ChainNext
    <2> QED BY <1>1, <1>4, <2>1, TakeStep
  <1> QED BY <1>3, <1>4 DEF ReadRecord

LEMMA ReadAheadStep == ASSUME InTransit, ReadAhead PROVE InTransit'
  <1>1. AtRead /\ record = <<>> /\ ahead = <<>> /\ UNCHANGED <<framed, unsent, delivered, cut>>
    BY DEF ReadAhead
  <1>2. PICK n \in 1 .. Len(kernel) :
          /\ TakeBytes(Head(kernel), SubSeq(kernel, 2, n))
          /\ kernel' = SubSeq(kernel, n + 1, Len(kernel))
    BY DEF ReadAhead
  <1>3. Chain(framed, Len(delivered), reading.buf, Head(kernel), SubSeq(kernel, 2, n), kernel', unsent)
    BY <1>1, <1>2, ChainAhead DEF InTransit
  <1> QED BY <1>1, <1>2, <1>3, TakeStep

\* process() returns without a part of a pack.
LEMMA ReturnStep ==
    ASSUME InTransit, reading.buf = <<>>, reading' = Idle,
           caller' \in {"asleep", "stopped"}, caller' = "asleep" => record = <<>> /\ ahead = <<>>,
           UNCHANGED <<framed, unsent, kernel, ahead, record, delivered>>
    PROVE  InTransit'
  <1>1. reading'.buf = reading.buf
    BY DEF Idle
  <1>2. Place(framed, Len(delivered), reading')
    BY DEF Place
  <1> QED BY <1>1, <1>2, ProgramConstants DEF InTransit

\* process() begins to read a pack.
LEMMA BeginStep ==
    ASSUME InTransit, reading = Idle, reading' = Begin, caller' \in {"application", "worker"},
           UNCHANGED <<framed, unsent, kernel, ahead, record, delivered>>
    PROVE  InTransit'
  <1>1. reading'.buf = reading.buf
    BY DEF Idle, Begin
  <1>2. Place(framed, Len(delivered), reading')
    BY ProgramConstants DEF Place, Begin
  <1> QED BY <1>1, <1>2, ProgramConstants DEF InTransit

LEMMA DeliverStep == ASSUME InTransit, Deliver PROVE InTransit'
  <1> DEFINE d == Len(delivered)
             p == PackBytes(d + 1, framed[d + 1])
  <1>1. /\ reading.at = "pack" /\ delivered' = Append(delivered, reading.buf)
        /\ reading' \in {Begin, Idle}
        /\ UNCHANGED <<framed, unsent, kernel, ahead, record, caller, cut>>
    BY DEF Deliver
  <1>2. d < Len(framed) /\ reading.buf = p /\ d \in Nat /\ Len(framed) \in Nat /\ framed \in Seq(Nat)
    BY <1>1, TransitTypes DEF InTransit, Place, Idle
  <1>3. reading.buf \in Seq([pack : Nat, byte : Nat])
    BY TransitTypes DEF Reading
  <1>4. Packs(framed, delivered)
    BY DEF InTransit
  <1>5. /\ delivered' \in Seq(Seq([pack : Nat, byte : Nat])) /\ Len(delivered') = d + 1
        /\ \A i \in 1 .. d : delivered'[i] = delivered[i]
        /\ delivered'[d + 1] = reading.buf
    BY <1>1, <1>3, <1>4, AppendProperties DEF Packs
  <1>6. Packs(framed, delivered')
    <2>1. \A i \in 1 .. d + 1 : delivered'[i] = PackBytes(i, framed[i])
      <3> SUFFICES ASSUME NEW i \in 1 .. d + 1 PROVE delivered'[i] = PackBytes(i, framed[i])
        OBVIOUS
      <3>1. CASE i = d + 1
        BY <1>2, <1>5, <3>1
      <3>2. CASE i \in 1 .. d
        BY <1>4, <1>5, <3>2 DEF Packs
      <3> QED BY <1>2, <3>1, <3>2
    <2>2. d + 1 <= Len(framed)
      BY <1>2
    <2> QED BY <1>5, <2>1, <2>2 DEF Packs
  <1>7. Chain(framed, d + 1, <<>>, record, ahead, kernel, unsent)
    BY <1>2, ChainDeliver DEF InTransit
  <1>8. reading' \in Reading /\ reading'.buf = <<>> /\ Place(framed, d + 1, reading')
    BY <1>1, ProgramConstants DEF Begin, Idle, Place
  <1>9. caller \in {"application", "worker"}
    BY <1>1 DEF InTransit, Idle
  <1> HIDE DEF d
  <1> QED BY <1>1, <1>2, <1>5, <1>6, <1>7, <1>8, <1>9 DEF InTransit

\* TakeBytes leaves the caller as it is, or finds an invalid header.
LEMMA TakeRests ==
    ASSUME NEW bytes, NEW records, TakeBytes(bytes, records)
    PROVE  caller' = caller \/ (caller' = "ended" /\ reading' = Idle)
  BY DEF TakeBytes, Completed

LEMMA RestedStep == Rested /\ [FramingNext]_framingVars => Rested'
  <1> SUFFICES ASSUME Rested, [FramingNext]_framingVars PROVE Rested'
    OBVIOUS
  <1> USE DEF Rested
  <1>1. CASE ReadRecord \/ ReadAhead
    <2>1. caller \in {"application", "worker"}
      BY <1>1 DEF ReadRecord, ReadAhead, AtRead, Idle
    <2>2. caller' = caller \/ (caller' = "ended" /\ reading' = Idle)
      BY <1>1, TakeRests DEF ReadRecord, ReadAhead
    <2> QED BY <2>1, <2>2
  <1>2. CASE Deliver
    BY <1>2 DEF Deliver, Idle
  <1>3. CASE ReadBusy \/ ReadCancel
    BY <1>3 DEF ReadBusy, ReadCancel
  <1>4. CASE CallProcess \/ Register \/ Event
    BY <1>4 DEF CallProcess, Register, Event
  <1>5. CASE WritePack \/ SendRecord \/ Disconnect
    BY <1>5 DEF WritePack, SendRecord, Disconnect
  <1>6. CASE UNCHANGED framingVars
    BY <1>6 DEF framingVars
  <1> QED BY <1>1, <1>2, <1>3, <1>4, <1>5, <1>6 DEF FramingNext

LEMMA FramingInv == FInv /\ [FramingNext]_framingVars => FInv'
  <1> SUFFICES ASSUME FInv, [FramingNext]_framingVars PROVE FInv'
    OBVIOUS
  <1>1. CASE Disconnect
    BY <1>1, FreshStart DEF Disconnect
  <1>2. cut' \in BOOLEAN /\ (~cut' => ~cut \/ Disconnect)
    BY DEF FInv, FramingNext, framingVars, WritePack, SendRecord, Disconnect, ReadRecord, ReadAhead,
           ReadBusy, ReadCancel, Deliver, CallProcess, Register, Event
  <1> SUFFICES ASSUME ~Disconnect, ~cut, ~cut' PROVE InTransit'
    BY <1>1, <1>2, RestedStep DEF FInv
  <1>3. InTransit
    BY DEF FInv
  <1>4. CASE WritePack
    BY <1>3, <1>4, WriteStep
  <1>5. CASE SendRecord
    BY <1>3, <1>5, SendStep
  <1>6. CASE ReadRecord
    BY <1>3, <1>6, ReadRecordStep
  <1>7. CASE ReadAhead
    BY <1>3, <1>7, ReadAheadStep
  <1>8. CASE ReadBusy \/ ReadCancel
    BY <1>3, <1>8, ReturnStep DEF ReadBusy, ReadCancel
  <1>9. CASE Deliver
    BY <1>3, <1>9, DeliverStep
  <1>10. CASE CallProcess \/ Event
    <2>1. reading = Idle
      BY <1>3, <1>10 DEF CallProcess, Event, InTransit
    <2> QED BY <1>3, <1>10, <2>1, BeginStep DEF CallProcess, Event
  <1>11. CASE Register
    BY <1>3, <1>11 DEF Register, InTransit
  <1>12. CASE UNCHANGED framingVars
    BY <1>3, <1>12 DEF framingVars, InTransit
  <1> QED BY <1>4, <1>5, <1>6, <1>7, <1>8, <1>9, <1>10, <1>11, <1>12 DEF FramingNext

\* FInv holds of every reachable state.
THEOREM FramingInvariance == FramingSpec => []FInv
  <1>1. FramingInit => FInv
    <2> SUFFICES ASSUME FramingInit PROVE FInv
      OBVIOUS
    <2>1. Chain(framed, Len(delivered), reading.buf, record, ahead, kernel, unsent)
      BY ChainEmpty DEF FramingInit, Idle
    <2>2. Packs(framed, delivered) /\ Place(framed, Len(delivered), reading)
      BY DEF FramingInit, Packs, Place
    <2>3. framed \in Seq(Nat) /\ reading \in Reading /\ caller = "application" /\ cut = FALSE
      BY ProgramConstants DEF FramingInit
    <2>4. Rested
      BY DEF FramingInit, Rested
    <2> QED BY <2>1, <2>2, <2>3, <2>4 DEF FInv, InTransit
  <1> QED BY <1>1, FramingInv, PTL DEF FramingSpec

-----------------------------------------------------------------------------
(* What follows from it *)

\* As long as process() returned between packs only, every pack it delivered is the one the
\* peer wrote in its place, for every size of header and bodies and every cut into records.
THEOREM InOrderCorrect == FramingSpec => []InOrder
  <1>1. FInv => InOrder
    <2> SUFFICES ASSUME InTransit
                 PROVE  /\ Len(delivered) <= Len(framed)
                        /\ \A i \in DOMAIN delivered : delivered[i] = PackBytes(i, framed[i])
      BY DEF FInv, InOrder
    <2>1. DOMAIN delivered = 1 .. Len(delivered)
      BY DEF InTransit, Packs
    <2> QED BY <2>1 DEF InTransit, Packs
  <1> QED BY <1>1, FramingInvariance, PTL

\* A worker that is done with an event leaves nothing in OpenSSL's buffers; and as long as
\* process() returned between packs only, no pack of which all is received is left unread.
THEOREM DrainedCorrect == FramingSpec => []Drained
  <1>1. FInv => Drained
    <2> SUFFICES ASSUME InTransit, caller = "asleep", kernel = <<>>,
                        NEW i \in DOMAIN framed, unsent = <<>> \/ Head(unsent).pack > i
                 PROVE  i <= Len(delivered)
      BY DEF FInv, Rested, Drained
    <2>1. /\ reading.buf = <<>> /\ record = <<>> /\ ahead = <<>>
          /\ Len(framed) \in Nat /\ Len(delivered) \in Nat /\ i \in 1 .. Len(framed)
          /\ framed \in Seq(Nat)
      BY TransitTypes DEF InTransit, Idle
    <2>2. Run(framed, unsent, First(Len(delivered) + 1))
          /\ After(framed, unsent, First(Len(delivered) + 1)) = First(Len(framed) + 1)
      <3>1. Chain(framed, Len(delivered), <<>>, <<>>, <<>>, <<>>, unsent)
        BY <2>1 DEF InTransit
      <3> QED BY <3>1, RunEmpty, RunsEmpty DEF Chain
    <2>3. CASE unsent = <<>>
      <3>1. First(Len(delivered) + 1) = First(Len(framed) + 1)
        BY <2>2, <2>3 DEF After
      <3>2. Len(delivered) + 1 = Len(framed) + 1
        BY <3>1 DEF First
      <3> QED BY <2>1, <3>2
    <2>4. CASE unsent # <<>>
      <3>1. unsent[1] = First(Len(delivered) + 1)
        BY <2>1, <2>2, <2>4, RunStarts
      <3>2. Head(unsent) = unsent[1]
        BY <2>4, TransitTypes
      <3>3. Len(delivered) + 1 > i
        BY <2>4, <3>1, <3>2 DEF First
      <3> QED BY <2>1, <3>3
    <2> QED BY <2>3, <2>4
  <1> QED BY <1>1, FramingInvariance, PTL

-----------------------------------------------------------------------------
(* Messages *)

VersionNames == {"version", "version.version"}

Vectors == {"bans", "groups", "acls", "users", "targets"}

\* How a member is stored and how it is read belong together: whatever it was set to comes back,
\* or the presence of the members in `presumed` is not asked for.
Pairs(initial, pack, unpack, presumed) ==
    \A f \in DOMAIN pack :
       \/ pack[f] = "set" /\ unpack[f] = "get"
       \/ pack[f] = "setIf" /\ unpack[f] = "get" /\ f \in presumed /\ ProtoDefault(f) = 0
       \/ pack[f] = "setIf" /\ unpack[f] = "getIf" /\ initial[f] = <<>> /\ f \notin presumed
       \/ pack[f] = "setUnlessEmpty" /\ unpack[f] = "getIf" /\ initial[f] = <<0>>
       \/ pack[f] = "addEach" /\ unpack[f] = "pushBack" /\ initial[f] = <<>> /\ f \notin presumed
       \/ pack[f] = "setVersion" /\ unpack[f] = "getVersion"
       \/ pack[f] = "setVersionIf" /\ unpack[f] = "getVersionIf" /\ initial[f] = <<>>

\* The tables of a type of TCP or of the elements of a vector: every member is stored and
\* read, versions and vectors by their own statements, and what must be there always is.
Tables(initial, pack, unpack, presumed, required) ==
    /\ DOMAIN pack = DOMAIN initial /\ DOMAIN unpack = DOMAIN pack
    /\ Pairs(initial, pack, unpack, presumed)
    /\ \A f \in DOMAIN pack : /\ f \in VersionNames <=> pack[f] \in {"setVersion", "setVersionIf"}
                              /\ f \in Vectors => pack[f] = "addEach"
                              /\ f # "header"
    /\ \A f \in required : f \in DOMAIN pack /\ pack[f] = "set"

TypesOfTCP ==
    {"Version", "Authenticate", "Ping", "Reject", "ServerSync", "ChannelRemove",
     "ChannelState", "UserRemove", "UserState", "BanList", "TextMessage", "PermissionDenied",
     "ACL", "QueryUsers", "CryptSetup", "ContextActionModify", "ContextAction", "UserList",
     "VoiceTarget", "PermissionQuery", "CodecVersion", "UserStats", "RequestBlob",
     "ServerConfig", "SuggestConfig", "PluginDataTransmission"}

\* One lemma for each type, and for the elements of each vector.
USE DEF Tables, Pairs, ProtoDefault, VersionNames, Vectors, ++, By, Zero, Holding, Nothing

LEMMA TablesVersion == Tables(Version, PackVersion, UnpackVersion, {}, {})
  BY SMTT(30) DEF Version, PackVersion, UnpackVersion

LEMMA TablesAuthenticate == Tables(Authenticate, PackAuthenticate, UnpackAuthenticate, {}, {})
  BY SMTT(30) DEF Authenticate, PackAuthenticate, UnpackAuthenticate

LEMMA TablesPing == Tables(Ping, PackPing, UnpackPing, {}, {})
  BY SMTT(30) DEF Ping, PackPing, UnpackPing

LEMMA TablesReject == Tables(Reject, PackReject, UnpackReject, {}, {})
  BY SMTT(30) DEF Reject, PackReject, UnpackReject

LEMMA TablesServerSync == Tables(ServerSync, PackServerSync, UnpackServerSync, {}, {})
  BY SMTT(30) DEF ServerSync, PackServerSync, UnpackServerSync

LEMMA TablesChannelRemove ==
    Tables(ChannelRemove, PackChannelRemove, UnpackChannelRemove, {}, {"channelID"})
  BY SMTT(30) DEF ChannelRemove, PackChannelRemove, UnpackChannelRemove

LEMMA TablesChannelState == Tables(ChannelState, PackChannelState, UnpackChannelState, {}, {})
  BY SMTT(30) DEF ChannelState, PackChannelState, UnpackChannelState

LEMMA TablesUserRemove == Tables(UserRemove, PackUserRemove, UnpackUserRemove, {}, {"session"})
  BY SMTT(30) DEF UserRemove, PackUserRemove, UnpackUserRemove

LEMMA TablesUserState == Tables(UserState, PackUserState, UnpackUserState, {"userID"}, {})
  BY SMTT(30) DEF UserState, PackUserState, UnpackUserState

LEMMA TablesBanList == Tables(BanList, PackBanList, UnpackBanList, {}, {})
  BY SMTT(30) DEF BanList, PackBanList, UnpackBanList

LEMMA TablesTextMessage == Tables(TextMessage, PackTextMessage, UnpackTextMessage, {}, {"message"})
  BY SMTT(30) DEF TextMessage, PackTextMessage, UnpackTextMessage

LEMMA TablesPermissionDenied ==
    Tables(PermissionDenied, PackPermissionDenied, UnpackPermissionDenied, {}, {})
  BY SMTT(30) DEF PermissionDenied, PackPermissionDenied, UnpackPermissionDenied

LEMMA TablesACL == Tables(ACL, PackACL, UnpackACL, {}, {"channelID"})
  BY SMTT(30) DEF ACL, PackACL, UnpackACL

LEMMA TablesQueryUsers == Tables(QueryUsers, PackQueryUsers, UnpackQueryUsers, {}, {})
  BY SMTT(30) DEF QueryUsers, PackQueryUsers, UnpackQueryUsers

LEMMA TablesCryptSetup == Tables(CryptSetup, PackCryptSetup, UnpackCryptSetup, {}, {})
  BY SMTT(30) DEF CryptSetup, PackCryptSetup, UnpackCryptSetup

LEMMA TablesContextActionModify ==
    Tables(ContextActionModify, PackContextActionModify, UnpackContextActionModify, {}, {"action"})
  BY SMTT(30) DEF ContextActionModify, PackContextActionModify, UnpackContextActionModify

LEMMA TablesContextAction ==
    Tables(ContextAction, PackContextAction, UnpackContextAction, {}, {"action"})
  BY SMTT(30) DEF ContextAction, PackContextAction, UnpackContextAction

LEMMA TablesUserList == Tables(UserList, PackUserList, UnpackUserList, {}, {})
  BY SMTT(30) DEF UserList, PackUserList, UnpackUserList

LEMMA TablesVoiceTarget == Tables(VoiceTarget, PackVoiceTarget, UnpackVoiceTarget, {}, {})
  BY SMTT(30) DEF VoiceTarget, PackVoiceTarget, UnpackVoiceTarget

LEMMA TablesPermissionQuery ==
    Tables(PermissionQuery, PackPermissionQuery, UnpackPermissionQuery, {}, {})
  BY SMTT(30) DEF PermissionQuery, PackPermissionQuery, UnpackPermissionQuery

LEMMA TablesCodecVersion ==
    Tables(CodecVersion, PackCodecVersion, UnpackCodecVersion, {}, {"alpha", "beta", "preferAlpha"})
  BY SMTT(30) DEF CodecVersion, PackCodecVersion, UnpackCodecVersion

LEMMA TablesUserStats == Tables(UserStats, PackUserStats, UnpackUserStats, {}, {})
  <1>1. DOMAIN PackUserStats = DOMAIN UserStats /\ DOMAIN UnpackUserStats = DOMAIN PackUserStats
    BY SMTT(60) DEF UserStats, PackUserStats, UnpackUserStats
  <1>2. \A f \in DOMAIN PackUserStats :
          \/ PackUserStats[f] = "set" /\ UnpackUserStats[f] = "get"
          \/ PackUserStats[f] = "addEach" /\ UnpackUserStats[f] = "pushBack" /\ UserStats[f] = <<>>
          \/ PackUserStats[f] = "setVersion" /\ UnpackUserStats[f] = "getVersion"
    BY SMTT(60) DEF UserStats, PackUserStats, UnpackUserStats
  <1>3. \A f \in DOMAIN PackUserStats :
          /\ f \in VersionNames <=> PackUserStats[f] \in {"setVersion", "setVersionIf"}
          /\ f \notin Vectors /\ f # "header"
    BY SMTT(60) DEF PackUserStats
  <1> QED BY <1>1, <1>2, <1>3

LEMMA TablesRequestBlob == Tables(RequestBlob, PackRequestBlob, UnpackRequestBlob, {}, {})
  BY SMTT(30) DEF RequestBlob, PackRequestBlob, UnpackRequestBlob

LEMMA TablesServerConfig == Tables(ServerConfig, PackServerConfig, UnpackServerConfig, {}, {})
  BY SMTT(30) DEF ServerConfig, PackServerConfig, UnpackServerConfig

LEMMA TablesSuggestConfig == Tables(SuggestConfig, PackSuggestConfig, UnpackSuggestConfig, {}, {})
  BY SMTT(30) DEF SuggestConfig, PackSuggestConfig, UnpackSuggestConfig

LEMMA TablesPluginDataTransmission ==
    Tables(PluginDataTransmission, PackPluginDataTransmission, UnpackPluginDataTransmission, {}, {})
  BY SMTT(30) DEF PluginDataTransmission, PackPluginDataTransmission, UnpackPluginDataTransmission

LEMMA TablesBanEntry == Tables(BanEntry, PackBanEntry, UnpackBanEntry, {}, {"address", "mask"})
  BY SMTT(30) DEF BanEntry, PackBanEntry, UnpackBanEntry

LEMMA TablesChanGroup == Tables(ChanGroup, PackChanGroup, UnpackChanGroup, {}, {"name"})
  BY SMTT(30) DEF ChanGroup, PackChanGroup, UnpackChanGroup

LEMMA TablesChanACL == Tables(ChanACL, PackChanACL, UnpackChanACL, {}, {})
  BY SMTT(30) DEF ChanACL, PackChanACL, UnpackChanACL

LEMMA TablesListedUser ==
    Tables(ListedUser, PackListedUser, UnpackListedUser, {"lastChannel"}, {"userID"})
  BY SMTT(30) DEF ListedUser, PackListedUser, UnpackListedUser

LEMMA TablesTarget == Tables(Target, PackTarget, UnpackTarget, {}, {})
  BY SMTT(30) DEF Target, PackTarget, UnpackTarget

HIDE DEF Tables, Pairs, ProtoDefault, VersionNames, Vectors, ++, By, Zero, Holding, Nothing

RequiredOf(t) == IF t \in DOMAIN Required THEN Required[t] ELSE {}

LEMMA TypesTCP == TCPMessages = TypesOfTCP /\ Elem(TCPTypes) = TypesOfTCP \cup {"UDPTunnel"}
  BY DEF TCPMessages, Elem, TCPTypes, TypesOfTCP

\* The tables of each type.
LEMMA TablesTCP ==
    ASSUME NEW t \in TypesOfTCP
    PROVE  LET s == Structures[t] IN Tables(s.initial, s.pack, s.unpack, Presumed(t), RequiredOf(t))
  <1> DEFINE s == Structures[t]
  <1>1. CASE t = "Version"
    BY <1>1, TablesVersion DEF Structures, Structure, Presumed, RequiredOf, Required
  <1>2. CASE t = "Authenticate"
    BY <1>2, TablesAuthenticate DEF Structures, Structure, Presumed, RequiredOf, Required
  <1>3. CASE t = "Ping"
    BY <1>3, TablesPing DEF Structures, Structure, Presumed, RequiredOf, Required
  <1>4. CASE t = "Reject"
    BY <1>4, TablesReject DEF Structures, Structure, Presumed, RequiredOf, Required
  <1>5. CASE t = "ServerSync"
    BY <1>5, TablesServerSync DEF Structures, Structure, Presumed, RequiredOf, Required
  <1>6. CASE t = "ChannelRemove"
    BY <1>6, TablesChannelRemove DEF Structures, Structure, Presumed, RequiredOf, Required
  <1>7. CASE t = "ChannelState"
    BY <1>7, TablesChannelState DEF Structures, Structure, Presumed, RequiredOf, Required
  <1>8. CASE t = "UserRemove"
    BY <1>8, TablesUserRemove DEF Structures, Structure, Presumed, RequiredOf, Required
  <1>9. CASE t = "UserState"
    BY <1>9, TablesUserState DEF Structures, Structure, Presumed, RequiredOf, Required
  <1>10. CASE t = "BanList"
    BY <1>10, TablesBanList DEF Structures, Structure, Presumed, RequiredOf, Required
  <1>11. CASE t = "TextMessage"
    BY <1>11, TablesTextMessage DEF Structures, Structure, Presumed, RequiredOf, Required
  <1>12. CASE t = "PermissionDenied"
    BY <1>12, TablesPermissionDenied DEF Structures, Structure, Presumed, RequiredOf, Required
  <1>13. CASE t = "ACL"
    BY <1>13, TablesACL DEF Structures, Structure, Presumed, RequiredOf, Required
  <1>14. CASE t = "QueryUsers"
    BY <1>14, TablesQueryUsers DEF Structures, Structure, Presumed, RequiredOf, Required
  <1>15. CASE t = "CryptSetup"
    BY <1>15, TablesCryptSetup DEF Structures, Structure, Presumed, RequiredOf, Required
  <1>16. CASE t = "ContextActionModify"
    BY <1>16, TablesContextActionModify DEF Structures, Structure, Presumed, RequiredOf, Required
  <1>17. CASE t = "ContextAction"
    BY <1>17, TablesContextAction DEF Structures, Structure, Presumed, RequiredOf, Required
  <1>18. CASE t = "UserList"
    BY <1>18, TablesUserList DEF Structures, Structure, Presumed, RequiredOf, Required
  <1>19. CASE t = "VoiceTarget"
    BY <1>19, TablesVoiceTarget DEF Structures, Structure, Presumed, RequiredOf, Required
  <1>20. CASE t = "PermissionQuery"
    BY <1>20, TablesPermissionQuery DEF Structures, Structure, Presumed, RequiredOf, Required
  <1>21. CASE t = "CodecVersion"
    BY <1>21, TablesCodecVersion DEF Structures, Structure, Presumed, RequiredOf, Required
  <1>22. CASE t = "UserStats"
    BY <1>22, TablesUserStats DEF Structures, Structure, Presumed, RequiredOf, Required
  <1>23. CASE t = "RequestBlob"
    BY <1>23, TablesRequestBlob DEF Structures, Structure, Presumed, RequiredOf, Required
  <1>24. CASE t = "ServerConfig"
    BY <1>24, TablesServerConfig DEF Structures, Structure, Presumed, RequiredOf, Required
  <1>25. CASE t = "SuggestConfig"
    BY <1>25, TablesSuggestConfig DEF Structures, Structure, Presumed, RequiredOf, Required
  <1>26. CASE t = "PluginDataTransmission"
    BY <1>26, TablesPluginDataTransmission DEF Structures, Structure, Presumed, RequiredOf, Required
  <1> QED
    BY <1>1, <1>2, <1>3, <1>4, <1>5, <1>6, <1>7, <1>8, <1>9, <1>10, <1>11, <1>12, <1>13, <1>14,
       <1>15, <1>16, <1>17, <1>18, <1>19, <1>20, <1>21, <1>22, <1>23, <1>24, <1>25, <1>26
    DEF TypesOfTCP

\* The tables of the elements of each vector.
LEMMA TablesElements ==
    ASSUME NEW f \in Vectors
    PROVE  LET s == Elements[f]
           IN  /\ Tables(s.initial, s.pack, s.unpack, PresumedIn(f), RequiredOf(f))
               /\ DOMAIN s.pack \cap (VersionNames \cup Vectors) = {}
  <1> DEFINE s == Elements[f]
  <1>1. CASE f = "bans"
    <2>1. DOMAIN PackBanEntry \cap (VersionNames \cup Vectors) = {}
      BY SMTT(30) DEF PackBanEntry, ++, By, VersionNames, Vectors
    <2> QED BY <1>1, <2>1, TablesBanEntry DEF Elements, Structure, PresumedIn, RequiredOf, Required
  <1>2. CASE f = "groups"
    <2>1. DOMAIN PackChanGroup \cap (VersionNames \cup Vectors) = {}
      BY SMTT(30) DEF PackChanGroup, ++, By, VersionNames, Vectors
    <2> QED BY <1>2, <2>1, TablesChanGroup DEF Elements, Structure, PresumedIn, RequiredOf, Required
  <1>3. CASE f = "acls"
    <2>1. DOMAIN PackChanACL \cap (VersionNames \cup Vectors) = {}
      BY SMTT(30) DEF PackChanACL, ++, By, VersionNames, Vectors
    <2> QED BY <1>3, <2>1, TablesChanACL DEF Elements, Structure, PresumedIn, RequiredOf, Required
  <1>4. CASE f = "users"
    <2>1. DOMAIN PackListedUser \cap (VersionNames \cup Vectors) = {}
      BY SMTT(30) DEF PackListedUser, ++, By, VersionNames, Vectors
    <2> QED BY <1>4, <2>1, TablesListedUser DEF Elements, Structure, PresumedIn, RequiredOf, Required
  <1>5. CASE f = "targets"
    <2>1. DOMAIN PackTarget \cap (VersionNames \cup Vectors) = {}
      BY SMTT(30) DEF PackTarget, ++, By, VersionNames, Vectors
    <2> QED BY <1>5, <2>1, TablesTarget DEF Elements, Structure, PresumedIn, RequiredOf, Required
  <1> QED BY <1>1, <1>2, <1>3, <1>4, <1>5 DEF Vectors

LEMMA ElementNames == DOMAIN Elements = Vectors
  BY DEF Elements, Vectors

-----------------------------------------------------------------------------
(* Members *)

\* A version that is known when its current field is there.
LEMMA VersionBack ==
    ASSUME NEW v \in [1 .. 4 -> 0 .. U16Max]
    PROVE  v = NoVersion <=> ~isValid(v)
  <1>1. v = [i \in 1 .. 4 |-> v[i]] /\ DOMAIN v = 1 .. 4
    OBVIOUS
  <1>2. ~isValid(v) <=> v[1] = 0 /\ v[2] = 0 /\ v[3] = 0 /\ v[4] = 0
    BY <1>1 DEF isValid
  <1>3. NoVersion = [i \in 1 .. 4 |-> 0]
    BY DEF NoVersion
  <1>4. ~isValid(v) => \A i \in 1 .. 4 : v[i] = 0
    BY <1>2
  <1> QED BY <1>1, <1>2, <1>3, <1>4

LEMMA ZeroOnce == ASSUME NEW value PROVE OrZero(OrZero(value)) = OrZero(value)
  BY DEF OrZero

LEMMA SomeValue == ASSUME NEW v, Len(v) = 1 PROVE v # <<>>
  <1>1. Len(<<>>) = 0
    OBVIOUS
  <1> QED BY <1>1

LEMMA Single == ASSUME NEW S, NEW v \in Seq(S), Len(v) = 1 PROVE v = <<v[1]>>
  OBVIOUS

\* A sequence of at most one.
LEMMA OneOrNone ==
    ASSUME NEW value, value \in Seq(Elem(value)), Len(value) <= 1
    PROVE  \/ value = <<>>
           \/ /\ Len(value) = 1 /\ value # <<>> /\ value = <<Head(value)>>
              /\ Head(value) \in Elem(value)
  <1>1. Len(value) \in Nat /\ (Len(value) = 0 => value = <<>>)
    BY EmptySeq, LenProperties
  <1>2. CASE Len(value) = 1
    <2>1. value = [i \in 1 .. 1 |-> value[i]] /\ 1 \in 1 .. Len(value) /\ value[1] \in Elem(value)
      BY <1>2, ElementOfSeq, LenProperties
    <2>2. Head(value) = value[1] /\ value # <<>>
      BY <1>2
    <2>3. value = <<value[1]>>
      BY <1>2, Single
    <2> QED BY <1>2, <2>1, <2>2, <2>3
  <1>3. CASE Len(value) = 0
    BY <1>1, <1>3
  <1>4. Len(value) = 0 \/ Len(value) = 1
    <2> DEFINE n == Len(value)
    <2>1. n \in Nat /\ n <= 1
      BY <1>1
    <2> HIDE DEF n
    <2>2. n = 0 \/ n = 1
      BY <2>1
    <2> QED BY <2>2 DEF n
  <1> QED BY <1>2, <1>3, <1>4

\* What a reader makes of a member that was stored.
LEMMA ReadsBack ==
    ASSUME NEW initial, NEW pack, NEW unpack, NEW presumed, Pairs(initial, pack, unpack, presumed),
           NEW f \in DOMAIN pack, NEW value, Holds(pack[f], value)
    PROVE  LET new == Fetch(unpack[f], initial[f], Store(pack[f], value), ProtoDefault(f))
           IN  IF pack[f] \in VersionWays THEN SameVersion(value, new)
               ELSE new = IF f \in presumed THEN OrZero(value) ELSE value
  <1> DEFINE new == Fetch(unpack[f], initial[f], Store(pack[f], value), ProtoDefault(f))
  <1>1. pack[f] # "addEach" =>
          \/ value = <<>>
          \/ /\ Len(value) = 1 /\ value # <<>> /\ value = <<Head(value)>>
             /\ Head(value) \in Elem(value)
    BY OneOrNone DEF Holds
  <1>2. CASE pack[f] = "set" /\ unpack[f] = "get"
    <2>1. new = <<Head(value)>> /\ value = <<Head(value)>>
      BY <1>1, <1>2 DEF Fetch, Store, Holds
    <2> QED BY <1>2, <2>1 DEF OrZero, VersionWays
  <1>3. CASE pack[f] = "setIf" /\ unpack[f] = "get" /\ f \in presumed /\ ProtoDefault(f) = 0
    <2>1. new = IF value = <<>> THEN <<0>> ELSE value
      BY <1>3 DEF Fetch, Store
    <2> QED BY <1>3, <2>1 DEF OrZero, VersionWays
  <1>4. CASE pack[f] = "setIf" /\ unpack[f] = "getIf" /\ initial[f] = <<>> /\ f \notin presumed
    BY <1>4 DEF Fetch, Store, VersionWays
  <1>5. CASE pack[f] = "setUnlessEmpty" /\ unpack[f] = "getIf" /\ initial[f] = <<0>>
    <2>1. Len(value) = 1
      BY <1>5 DEF Holds
    <2>2. value # <<>>
      BY <2>1, SomeValue, Zenon
    <2>3. value = <<Head(value)>>
      BY <1>1, <1>5, <2>2
    <2>4. new = IF Head(value) = 0 THEN <<0>> ELSE value
      BY <1>5, <2>2 DEF Fetch, Store
    <2> QED BY <1>5, <2>3, <2>4 DEF OrZero, VersionWays
  <1>6. CASE pack[f] = "addEach" /\ unpack[f] = "pushBack" /\ initial[f] = <<>> /\ f \notin presumed
    <2>1. new = <<>> \o value
      BY <1>6 DEF Fetch, Store
    <2>2. value \in Seq(Elem(value))
      BY DEF Holds
    <2> QED BY <1>6, <2>1, <2>2, ConcatEmptySeq DEF VersionWays
  <1>7. CASE pack[f] \in VersionWays
    <2>1. value = <<>> \/ (value = <<Head(value)>> /\ value # <<>> /\ Head(value) \in [1 .. 4 -> 0 .. U16Max])
      BY <1>1, <1>7 DEF Holds, VersionWays
    <2>2. CASE pack[f] = "setVersion" /\ unpack[f] = "getVersion"
      <3>1. value = <<Head(value)>> /\ Head(value) \in [1 .. 4 -> 0 .. U16Max]
        BY <1>1, <2>1, <2>2 DEF Holds
      <3>2. new = <<Head(value)>>
        BY <2>2 DEF Fetch, Store, KnownVersion, blob64, fromBlob64
      <3>3. ~isValid(Head(value)) => Head(value) = NoVersion
        BY <3>1, VersionBack
      <3> QED BY <1>7, <3>1, <3>2, <3>3 DEF SameVersion
    <2>3. CASE pack[f] = "setVersionIf" /\ unpack[f] = "getVersionIf" /\ initial[f] = <<>>
      <3>1. CASE value # <<>> /\ isValid(Head(value))
        <4>1. new = <<Head(value)>>
          BY <2>3, <3>1 DEF Fetch, Store, KnownVersion, blob64, fromBlob64
        <4> QED BY <1>7, <2>1, <3>1, <4>1 DEF SameVersion
      <3>2. CASE value = <<>> \/ ~isValid(Head(value))
        <4>1. new = <<>>
          BY <2>3, <3>2 DEF Fetch, Store, KnownVersion
        <4> QED BY <1>7, <3>2, <4>1 DEF SameVersion
      <3> QED BY <3>1, <3>2
    <2> QED BY <1>7, <2>2, <2>3 DEF Pairs, VersionWays
  <1> QED BY <1>2, <1>3, <1>4, <1>5, <1>6, <1>7 DEF Pairs, VersionWays

\* An element of a vector comes back from its own protobuf message.
Back(presumed, m) == [g \in DOMAIN m |-> IF g \in presumed THEN OrZero(m[g]) ELSE m[g]]

LEMMA Unversioned ==
    ASSUME NEW initial, NEW pack, NEW unpack, NEW presumed, Pairs(initial, pack, unpack, presumed),
           NEW f \in DOMAIN pack, pack[f] \in VersionWays
    PROVE  pack[f] \in {"setVersion", "setVersionIf"}
  BY DEF Pairs, VersionWays

LEMMA ElementBack ==
    ASSUME NEW f \in Vectors, NEW e, Filled(Elements[f], e)
    PROVE  /\ FromProto(Elements[f], Elements[f].initial, ToProto(Elements[f], e)) = Back(PresumedIn(f), e)
           /\ Complete(f, ToProto(Elements[f], e))
  <1> DEFINE s == Elements[f]
             proto == ToProto(s, e)
  <1>1. Tables(s.initial, s.pack, s.unpack, PresumedIn(f), RequiredOf(f))
    BY TablesElements
  <1>2. DOMAIN s.pack \cap VersionNames = {}
    BY TablesElements
  <1> HIDE DEF s
  <1>3. DOMAIN s.pack = DOMAIN s.initial /\ DOMAIN s.unpack = DOMAIN s.pack /\ DOMAIN e = DOMAIN s.pack
    <2>1. e = [g \in DOMAIN s.initial |-> e[g]]
      BY DEF Filled, s
    <2> QED BY <1>1, <2>1 DEF Tables
  <1>4. ASSUME NEW g \in DOMAIN s.pack
        PROVE  /\ Holds(s.pack[g], e[g]) /\ s.pack[g] \notin VersionWays
               /\ proto[g] = Store(s.pack[g], e[g])
    <2>1. Holds(s.pack[g], e[g])
      BY <1>3 DEF Filled, s
    <2>2. s.pack[g] \notin {"setVersion", "setVersionIf"}
      BY <1>1, <1>2 DEF Tables
    <2>3. s.pack[g] \notin VersionWays
      BY <1>1, <2>2, Unversioned DEF Tables
    <2> QED BY <2>1, <2>3 DEF ToProto
  <1>5. FromProto(s, s.initial, proto) = Back(PresumedIn(f), e)
    <2>1. ASSUME NEW g \in DOMAIN s.pack
          PROVE  Fetch(s.unpack[g], s.initial[g], proto[g], ProtoDefault(g))
                   = IF g \in PresumedIn(f) THEN OrZero(e[g]) ELSE e[g]
      <3>1. Pairs(s.initial, s.pack, s.unpack, PresumedIn(f))
        BY <1>1 DEF Tables
      <3>2. Holds(s.pack[g], e[g]) /\ s.pack[g] \notin VersionWays /\ proto[g] = Store(s.pack[g], e[g])
        BY <1>4
      <3> HIDE DEF proto
      <3> QED BY <3>1, <3>2, ReadsBack
    <2>2. FromProto(s, s.initial, proto)
            = [g \in DOMAIN s.pack |-> Fetch(s.unpack[g], s.initial[g], proto[g], ProtoDefault(g))]
      BY <1>3 DEF FromProto
    <2> HIDE DEF proto
    <2> QED BY <1>3, <2>1, <2>2 DEF Back
  <1>6. ASSUME NEW g \in RequiredOf(f)
        PROVE  proto[g] # <<>>
    <2>1. g \in DOMAIN s.pack /\ s.pack[g] = "set"
      BY <1>1 DEF Tables
    <2>2. Store("set", e[g]) = <<Head(e[g])>>
      BY DEF Store
    <2> QED BY <2>1, <2>2, <1>4
  <1>7. Complete(f, proto)
    BY <1>6 DEF Complete, RequiredOf
  <1> QED BY <1>5, <1>7 DEF s

\* So do the elements of a vector one by one, in their order.
LEMMA VectorBack ==
    ASSUME NEW f \in Vectors, NEW elements, elements \in Seq(Elem(elements)),
           \A i \in DOMAIN elements : Filled(Elements[f], elements[i])
    PROVE  LET protos == EachToProto(f, elements)
               new == <<>> \o EachFromProto(f, protos)
           IN  /\ DOMAIN protos = DOMAIN elements
               /\ \A i \in DOMAIN elements : Complete(f, protos[i])
               /\ IF f = "users" THEN SameUsers(elements, new) ELSE new = elements
  <1> DEFINE protos == EachToProto(f, elements)
             back == EachFromProto(f, protos)
  <1>1. protos = [i \in DOMAIN elements |-> ToProto(Elements[f], elements[i])]
    BY DEF EachToProto
  <1>2. back = [i \in DOMAIN elements |-> Back(PresumedIn(f), elements[i])]
    BY <1>1, ElementBack DEF EachFromProto
  <1>3. \A i \in DOMAIN elements : Complete(f, protos[i])
    BY <1>1, ElementBack
  <1>4. Len(elements) \in Nat /\ DOMAIN elements = 1 .. Len(elements)
    OBVIOUS
  <1>5. \A i \in DOMAIN elements : elements[i] = [g \in DOMAIN Elements[f].initial |-> elements[i][g]]
    BY DEF Filled
  <1> HIDE DEF back, protos
  <1>6. back \in Seq(Elem(back)) /\ Len(back) = Len(elements)
    <2>1. back \in [1 .. Len(elements) -> Elem(back)]
      BY <1>2, <1>4 DEF Elem
    <2> QED BY <1>4, <2>1
  <1>7. <<>> \o back = back
    BY <1>6, ConcatEmptySeq
  <1>8. CASE f # "users"
    <2>1. ASSUME NEW i \in DOMAIN elements
          PROVE  Back(PresumedIn(f), elements[i]) = elements[i]
      BY <1>5, <1>8 DEF Back, PresumedIn
    <2>2. back = [i \in DOMAIN elements |-> elements[i]]
      BY <1>2, <2>1
    <2> QED BY <1>1, <1>3, <1>4, <1>7, <1>8, <2>2 DEF protos, back
  <1>9. CASE f = "users"
    <2>1. ASSUME NEW i \in DOMAIN elements
          PROVE  Back({"lastChannel"}, elements[i]) = [elements[i] EXCEPT !.lastChannel = OrZero(@)]
      <3>1. elements[i] = [g \in DOMAIN Elements[f].initial |-> elements[i][g]]
        BY <1>5
      <3>2. "lastChannel" \in DOMAIN elements[i]
        <4>1. DOMAIN elements[i] = DOMAIN Elements["users"].initial
          BY <1>9, <3>1
        <4>2. Elements["users"].initial = ListedUser
          BY DEF Elements, Structure
        <4>3. "lastChannel" \in DOMAIN ListedUser
          BY DEF ListedUser, ++, Holding, Zero, Nothing
        <4> QED BY <4>1, <4>2, <4>3
      <3> QED BY <3>1, <3>2 DEF Back
    <2>2. SameUsers(elements, back)
      BY <1>2, <1>6, <1>9, <2>1 DEF SameUsers, PresumedIn
    <2> QED BY <1>1, <1>3, <1>7, <1>9, <2>2 DEF protos, back
  <1> QED BY <1>8, <1>9

LEMMA NotPresumed ==
    ASSUME NEW t \in TypesOfTCP
    PROVE  Presumed(t) \cap (VersionNames \cup Vectors \cup {"header"}) = {}
  <1>1. Presumed(t) = IF t = "UserState" THEN {"userID"} ELSE {}
    BY DEF Presumed, TypesOfTCP
  <1> QED BY <1>1 DEF VersionNames, Vectors

\* Which statement of RoundTrip is about which member.
LEMMA MemberOf ==
    ASSUME NEW t \in TypesOfTCP, NEW f, NEW old, NEW new, NEW direction, f # "header"
    PROVE  SameMember(t, f, old, new, direction)
             <=> IF f \in VersionNames THEN SameVersion(old, new)
                 ELSE IF f = "users" THEN SameUsers(old, new)
                 ELSE IF f \in Presumed(t) THEN OrZero(new) = OrZero(old)
                 ELSE new = old
  <1>1. VersionNames = {"version", "version.version"} /\ "users" \notin VersionNames
    BY DEF VersionNames
  <1>2. Presumed(t) \cap VersionNames = {} /\ "users" \notin Presumed(t)
    BY NotPresumed DEF Vectors
  <1>3. CASE f \in VersionNames
    BY <1>1, <1>2, <1>3, Zenon DEF SameMember
  <1>4. CASE f = "users"
    BY <1>1, <1>2, <1>4 DEF SameMember
  <1>5. CASE f \in Presumed(t)
    BY <1>1, <1>2, <1>5 DEF SameMember
  <1>6. CASE f \notin VersionNames /\ f # "users" /\ f \notin Presumed(t)
    BY <1>1, <1>6 DEF SameMember
  <1> QED BY <1>3, <1>4, <1>5, <1>6

\* Every message of TCP is read back as it was packed.
LEMMA TCPBack ==
    ASSUME NEW t \in TypesOfTCP, NEW m, IsMessage(t, m)
    PROVE  LET result == UnpackTCP(PackTCP(t, m), t, Initial(t))
           IN  result.ok /\ \A f \in DOMAIN m : SameMember(t, f, m[f], result.fields[f], "Unknown")
  <1> DEFINE s == Structures[t]
             given == MapElements(m, EachToProto)
             proto == ToProto(s, given)
             taken == MapElements(proto, EachFromProto)
             read == FromProto(s, s.initial, taken)
  <1>1. t # "UDPTunnel"
    BY DEF TypesOfTCP
  <1>2. Tables(s.initial, s.pack, s.unpack, Presumed(t), RequiredOf(t))
    BY TablesTCP
  <1>3. Filled(s, m) /\ \A f \in DOMAIN m \cap Vectors :
                          \A i \in DOMAIN m[f] : Filled(Elements[f], m[f][i])
    BY <1>1, ElementNames DEF IsMessage
  <1>4. PackTCP(t, m) = [type |-> t, body |-> proto] /\ Initial(t) = s.initial
    BY <1>1 DEF PackTCP, Initial
  <1> HIDE DEF s
  <1>5. /\ DOMAIN s.pack = DOMAIN s.initial /\ DOMAIN s.unpack = DOMAIN s.pack
        /\ DOMAIN m = DOMAIN s.pack /\ \A f \in DOMAIN m : Holds(s.pack[f], m[f])
    <2>1. m = [g \in DOMAIN s.initial |-> m[g]] /\ DOMAIN s.pack = DOMAIN s.initial
      BY <1>2, <1>3 DEF Filled, Tables
    <2> QED BY <1>2, <1>3, <2>1 DEF Filled, Tables
  <1>6. Pairs(s.initial, s.pack, s.unpack, Presumed(t))
    BY <1>2 DEF Tables
  <1>7. given = [f \in DOMAIN m |-> IF f \in Vectors THEN EachToProto(f, m[f]) ELSE m[f]]
    BY ElementNames DEF MapElements
  <1> HIDE DEF given
  <1>8. proto = [f \in DOMAIN m |-> Store(s.pack[f], IF f \in Vectors THEN EachToProto(f, m[f]) ELSE m[f])]
    BY <1>5, <1>7 DEF ToProto
  <1> HIDE DEF proto
  <1>9. ASSUME NEW f \in DOMAIN m \cap Vectors
        PROVE  /\ s.pack[f] = "addEach" /\ s.unpack[f] = "pushBack" /\ s.initial[f] = <<>>
               /\ m[f] \in Seq(Elem(m[f])) /\ proto[f] = EachToProto(f, m[f])
    <2>1. s.pack[f] = "addEach"
      BY <1>2, <1>5 DEF Tables
    <2>2. s.unpack[f] = "pushBack" /\ s.initial[f] = <<>>
      BY <1>5, <1>6, <2>1 DEF Pairs
    <2>3. m[f] \in Seq(Elem(m[f]))
      BY <1>5 DEF Holds
    <2>4. \A v : Store("addEach", v) = v
      BY DEF Store
    <2> QED BY <1>8, <2>1, <2>2, <2>3, <2>4
  <1>10. taken = [f \in DOMAIN m |-> IF f \in Vectors THEN EachFromProto(f, proto[f]) ELSE proto[f]]
    BY <1>8, ElementNames DEF MapElements
  <1> HIDE DEF taken
  <1>11. read = [f \in DOMAIN m |-> Fetch(s.unpack[f], s.initial[f], taken[f], ProtoDefault(f))]
    BY <1>5 DEF FromProto
  <1> HIDE DEF read
  <1>12. ASSUME NEW f \in DOMAIN m \cap Vectors
         PROVE  /\ \A i \in DOMAIN proto[f] : Complete(f, proto[f][i])
                /\ SameMember(t, f, m[f], read[f], "Unknown")
    <2> DEFINE protos == EachToProto(f, m[f])
               new == <<>> \o EachFromProto(f, protos)
    <2>1. /\ DOMAIN protos = DOMAIN m[f] /\ \A i \in DOMAIN m[f] : Complete(f, protos[i])
          /\ IF f = "users" THEN SameUsers(m[f], new) ELSE new = m[f]
      BY <1>3, <1>9, VectorBack
    <2>2. proto[f] = protos /\ taken[f] = EachFromProto(f, protos)
      BY <1>9, <1>10
    <2>3. \A v : Fetch("pushBack", <<>>, v, ProtoDefault(f)) = <<>> \o v
      BY DEF Fetch
    <2>4. read[f] = new
      BY <1>9, <1>11, <2>2, <2>3
    <2>5. f # "header" /\ f \notin VersionNames /\ f \notin Presumed(t)
      BY NotPresumed DEF Vectors, VersionNames
    <2> HIDE DEF new, protos
    <2> QED BY <2>1, <2>2, <2>4, <2>5, MemberOf
  <1>13. ASSUME NEW f \in DOMAIN m, f \notin Vectors
         PROVE  SameMember(t, f, m[f], read[f], "Unknown")
    <2> DEFINE new == Fetch(s.unpack[f], s.initial[f], Store(s.pack[f], m[f]), ProtoDefault(f))
    <2>1. read[f] = new
      BY <1>8, <1>10, <1>11, <1>13
    <2>2. IF s.pack[f] \in VersionWays THEN SameVersion(m[f], new)
          ELSE new = IF f \in Presumed(t) THEN OrZero(m[f]) ELSE m[f]
      BY <1>5, <1>6, ReadsBack
    <2>3. f # "header" /\ f # "users" /\ (s.pack[f] \in VersionWays <=> f \in VersionNames)
      <3>1. f # "header" /\ (f \in VersionNames <=> s.pack[f] \in {"setVersion", "setVersionIf"})
        BY <1>2, <1>5 DEF Tables
      <3>2. s.pack[f] \in VersionWays <=> s.pack[f] \in {"setVersion", "setVersionIf"}
        BY <1>5, <1>6, Unversioned DEF VersionWays
      <3> QED BY <1>13, <3>1, <3>2 DEF Vectors
    <2> HIDE DEF new
    <2> QED BY <2>1, <2>2, <2>3, ZeroOnce, MemberOf
  <1>14. Parses(t, proto)
    <2>1. ASSUME NEW f \in RequiredOf(t)
          PROVE  proto[f] # <<>>
      <3>1. f \in DOMAIN m /\ s.pack[f] = "set"
        BY <1>2, <1>5 DEF Tables
      <3>2. \A v : Store("set", v) = <<Head(v)>>
        BY DEF Store
      <3> QED BY <1>8, <3>1, <3>2
    <2>2. Complete(t, proto)
      BY <2>1 DEF Complete, RequiredOf
    <2>3. \A f \in DOMAIN proto \cap Vectors : \A i \in DOMAIN proto[f] : Complete(f, proto[f][i])
      BY <1>8, <1>12
    <2> QED BY <2>2, <2>3, ElementNames DEF Parses
  <1>15. UnpackTCP(PackTCP(t, m), t, Initial(t)) = [ok |-> TRUE, fields |-> read]
    <2>1. UnpackTCP([type |-> t, body |-> proto], t, s.initial) = Read(read)
      BY <1>1, <1>14 DEF UnpackTCP, s, read, taken
    <2> QED BY <1>4, <2>1 DEF Read
  <1> QED BY <1>12, <1>13, <1>15

\* The same for UDP, where zeros are not sent and no reader asks for presence.
UDPPairs(initial, pack, unpack, presumed) ==
    /\ DOMAIN unpack = DOMAIN pack /\ DOMAIN initial = DOMAIN pack \cup (DOMAIN initial \cap {"header"})
    /\ \A f \in DOMAIN pack :
       /\ ProtoDefault(f) = 0 /\ f # "header" /\ f # "users" /\ f # "version.version"
       /\ \/ pack[f] = "set" /\ unpack[f] = "get" /\ f \notin presumed /\ f # "version"
          \/ pack[f] = "setIf" /\ unpack[f] = "get" /\ f \in presumed /\ f # "version"
          \/ pack[f] = "addEach" /\ unpack[f] = "pushBack" /\ initial[f] = <<>> /\ f \notin presumed
               /\ f # "version"
          \/ pack[f] = "setVersion2If" /\ unpack[f] = "getVersion2" /\ f = "version"

LEMMA TablesAudio ==
    UDPPairs(Audio, PackAudio, UnpackAudio, {"senderSession"}) /\ "header" \in DOMAIN Audio
  BY SMTT(30) DEF Audio, PackAudio, UnpackAudio, UDPPairs, ProtoDefault, ++, By, Zero, Holding, Nothing

LEMMA TablesUDPPing ==
    UDPPairs(UDPPing, PackUDPPing, UnpackUDPPing, {"userCount", "maxUserCount", "maxBandwidthPerUser"})
      /\ "header" \notin DOMAIN UDPPing
  BY SMTT(30) DEF UDPPing, PackUDPPing, UnpackUDPPing, UDPPairs, ProtoDefault, ++, By, Zero, Holding, Nothing

TypesOfUDP == {"Audio", "UDPPing"}

LEMMA TypesUDP == Elem(UDPTypes) = TypesOfUDP /\ Elem(UDPTypes) \cap Elem(TCPTypes) = {}
  BY DEF Elem, UDPTypes, TCPTypes, TypesOfUDP

LEMMA TablesUDP ==
    ASSUME NEW t \in TypesOfUDP
    PROVE  LET s == Structures[t]
           IN  /\ UDPPairs(s.initial, s.pack, s.unpack, Presumed(t))
               /\ "header" \in DOMAIN s.initial <=> t = "Audio"
  <1> DEFINE s == Structures[t]
  <1>1. CASE t = "Audio"
    <2>1. s.initial = Audio /\ s.pack = PackAudio /\ s.unpack = UnpackAudio
      BY <1>1 DEF Structures, Structure
    <2>2. Presumed(t) = {"senderSession"}
      BY <1>1 DEF Presumed
    <2> QED BY <1>1, <2>1, <2>2, TablesAudio
  <1>2. CASE t = "UDPPing"
    <2>1. s.initial = UDPPing /\ s.pack = PackUDPPing /\ s.unpack = UnpackUDPPing
      BY <1>2 DEF Structures, Structure
    <2>2. Presumed(t) = {"userCount", "maxUserCount", "maxBandwidthPerUser"}
      BY <1>2 DEF Presumed
    <2> QED BY <1>2, <2>1, <2>2, TablesUDPPing
  <1> QED BY <1>1, <1>2 DEF TypesOfUDP

\* What is not sent of a member.
Dropped(way, field) == IF way # "addEach" /\ field = <<0>> THEN <<>> ELSE field

LEMMA UDPReadsBack ==
    ASSUME NEW t \in TypesOfUDP, NEW initial, NEW pack, NEW unpack,
           UDPPairs(initial, pack, unpack, Presumed(t)),
           NEW f \in DOMAIN pack, NEW value, Holds(pack[f], value), NEW direction
    PROVE  SameMember(t, f, value,
                      Fetch(unpack[f], initial[f], Dropped(pack[f], Store(pack[f], value)), ProtoDefault(f)),
                      direction)
  <1> DEFINE new == Fetch(unpack[f], initial[f], Dropped(pack[f], Store(pack[f], value)), ProtoDefault(f))
  <1>1. pack[f] # "addEach" =>
          \/ value = <<>>
          \/ /\ Len(value) = 1 /\ value # <<>> /\ value = <<Head(value)>>
             /\ Head(value) \in Elem(value)
    BY OneOrNone DEF Holds
  <1>2. ProtoDefault(f) = 0 /\ f # "header" /\ f # "users" /\ f # "version.version"
    BY DEF UDPPairs
  <1>3. CASE pack[f] = "set" /\ unpack[f] = "get" /\ f \notin Presumed(t) /\ f # "version"
    <2>1. new = <<Head(value)>> /\ value = <<Head(value)>>
      BY <1>1, <1>2, <1>3 DEF Fetch, Store, Holds, Dropped
    <2> QED BY <1>2, <1>3, <2>1 DEF SameMember
  <1>4. CASE pack[f] = "setIf" /\ unpack[f] = "get" /\ f \in Presumed(t) /\ f # "version"
    <2>1. new = IF value \in {<<>>, <<0>>} THEN <<0>> ELSE value
      BY <1>2, <1>4 DEF Fetch, Store, Dropped
    <2>2. OrZero(new) = OrZero(value)
      BY <2>1 DEF OrZero
    <2> QED BY <1>2, <1>4, <2>2 DEF SameMember
  <1>5. CASE /\ pack[f] = "addEach" /\ unpack[f] = "pushBack" /\ initial[f] = <<>>
             /\ f \notin Presumed(t) /\ f # "version"
    <2>1. new = <<>> \o value
      BY <1>5 DEF Fetch, Store, Dropped
    <2>2. value \in Seq(Elem(value))
      BY DEF Holds
    <2>3. new = value
      BY <2>1, <2>2, ConcatEmptySeq
    <2> QED BY <1>2, <1>5, <2>3 DEF SameMember
  <1>6. CASE pack[f] = "setVersion2If" /\ unpack[f] = "getVersion2" /\ f = "version"
    <2>1. value = <<>> \/ (value = <<Head(value)>> /\ value # <<>> /\ Head(value) \in [1 .. 4 -> 0 .. U16Max])
      BY <1>1, <1>6 DEF Holds, VersionWays
    <2>2. CASE value # <<>> /\ isValid(Head(value))
      <3>1. Store(pack[f], value) = <<<<>>, <<Head(value)>>>>
        BY <1>6, <2>2 DEF Store, blob64
      <3>2. Dropped(pack[f], Store(pack[f], value)) = <<<<>>, <<Head(value)>>>>
        <4>1. Len(<<<<>>, <<Head(value)>>>>) = 2 /\ Len(<<0>>) = 1
          OBVIOUS
        <4>2. <<<<>>, <<Head(value)>>>> # <<0>>
          BY <4>1
        <4> QED BY <3>1, <4>2 DEF Dropped
      <3>3. new = <<Head(value)>>
        BY <1>6, <3>2 DEF Fetch, fromBlob64
      <3>4. SameVersion(value, new)
        BY <2>1, <2>2, <3>3 DEF SameVersion
      <3> QED BY <1>6, <3>4 DEF SameMember, Presumed, TypesOfUDP
    <2>3. CASE value = <<>> \/ ~isValid(Head(value))
      <3>1. Store(pack[f], value) = <<<<>>, <<>>>>
        BY <1>6, <2>3 DEF Store
      <3>2. Dropped(pack[f], Store(pack[f], value)) = <<<<>>, <<>>>>
        BY <1>6, <3>1 DEF Dropped
      <3>3. new = <<NoVersion>>
        BY <1>6, <3>2 DEF Fetch
      <3>4. SameVersion(value, new)
        BY <2>3, <3>3 DEF SameVersion
      <3> QED BY <1>6, <3>4 DEF SameMember, Presumed, TypesOfUDP
    <2> QED BY <2>2, <2>3
  <1> QED BY <1>3, <1>4, <1>5, <1>6 DEF UDPPairs

\* Every packet of UDP is read back, with the header of Audio when a direction is given.
LEMMA UDPBack ==
    ASSUME NEW t \in TypesOfUDP, NEW m, IsMessage(t, m), NEW direction \in Directions
    PROVE  LET result == UnpackUDP(PackUDP(t, m, direction), t, Initial(t))
           IN  result.ok /\ \A f \in DOMAIN m : SameMember(t, f, m[f], result.fields[f], direction)
  <1> DEFINE s == Structures[t]
             proto == DropZeros(s.pack, ToProto(s, m))
             body == IF t = "Audio" THEN OneOf(m, direction) ++ proto ELSE proto
             plain == FromProto(s, s.initial, body)
  <1>1. t # "UDPTunnel"
    BY DEF TypesOfUDP
  <1>2. UDPPairs(s.initial, s.pack, s.unpack, Presumed(t)) /\ ("header" \in DOMAIN s.initial <=> t = "Audio")
    BY TablesUDP
  <1>3. Filled(s, m)
    BY <1>1 DEF IsMessage
  <1>4. PackUDP(t, m, direction) = [type |-> t, body |-> body] /\ Initial(t) = s.initial
    BY <1>1 DEF PackUDP, Initial
  <1> HIDE DEF s
  <1>5. /\ DOMAIN m = DOMAIN s.initial /\ DOMAIN s.unpack = DOMAIN s.pack /\ DOMAIN s.pack \subseteq DOMAIN m
        /\ \A f \in DOMAIN m : f \in DOMAIN s.pack \/ (f = "header" /\ t = "Audio")
        /\ \A f \in DOMAIN s.pack : Holds(s.pack[f], m[f]) /\ f \notin {"header"}
        /\ t = "Audio" => "header" \in DOMAIN m /\ Holds("set", m.header)
    <2>1. m = [g \in DOMAIN s.initial |-> m[g]]
      BY <1>3 DEF Filled
    <2>2. /\ "header" \notin DOMAIN s.pack
          /\ \A f \in DOMAIN m : f \in DOMAIN s.pack \/ (f = "header" /\ t = "Audio")
      BY <1>2, <2>1 DEF UDPPairs
    <2> QED BY <1>2, <1>3, <2>1, <2>2 DEF Filled, UDPPairs
  <1>6. proto = [f \in DOMAIN s.pack |-> Dropped(s.pack[f], Store(s.pack[f], m[f]))]
    BY DEF DropZeros, ToProto, Dropped
  <1> HIDE DEF proto
  <1>7. ASSUME NEW f \in DOMAIN s.pack PROVE body[f] = proto[f]
    <2>1. CASE t = "Audio"
      <3>1. f \notin {"target", "context"}
        BY <2>1, <1>5 DEF s, Structures, Structure, PackAudio, By, ++
      <3> QED BY <1>6, <2>1, <3>1 DEF ++, OneOf
    <2>2. CASE t # "Audio"
      BY <2>2
    <2> QED BY <2>1, <2>2
  <1>8. t = "Audio" =>
          /\ body.target = IF direction = "ClientToServer" THEN m.header ELSE <<>>
          /\ body.context = IF direction = "ServerToClient" THEN m.header ELSE <<>>
    BY DEF ++, OneOf
  <1> HIDE DEF body
  <1>9. /\ DOMAIN plain = DOMAIN m
        /\ \A f \in DOMAIN s.pack : plain[f] = Fetch(s.unpack[f], s.initial[f], body[f], ProtoDefault(f))
    BY <1>5 DEF FromProto
  <1> HIDE DEF plain
  <1> DEFINE whole == IF t # "Audio" THEN plain
                      ELSE [plain EXCEPT !.header = IF body.target # <<>> THEN body.target
                                                    ELSE IF body.context # <<>> THEN body.context
                                                    ELSE @]
  <1>10. UnpackUDP(PackUDP(t, m, direction), t, Initial(t)) = [ok |-> TRUE, fields |-> whole]
    <2>1. UnpackUDP([type |-> t, body |-> body], t, s.initial) = Read(whole)
      BY DEF UnpackUDP, plain, s
    <2> QED BY <1>4, <2>1 DEF Read
  <1>11. ASSUME NEW f \in DOMAIN s.pack PROVE SameMember(t, f, m[f], whole[f], direction)
    <2>1. whole[f] = Fetch(s.unpack[f], s.initial[f], Dropped(s.pack[f], Store(s.pack[f], m[f])),
                           ProtoDefault(f))
      BY <1>5, <1>6, <1>7, <1>9
    <2> HIDE DEF whole
    <2> QED BY <1>2, <1>5, <2>1, UDPReadsBack
  <1>12. ASSUME t = "Audio" PROVE SameMember(t, "header", m.header, whole.header, direction)
    <2>1. m.header # <<>>
      <3>1. Len(m.header) = 1
        BY <1>5, <1>12 DEF Holds
      <3> QED BY <3>1, SomeValue, Zenon
    <2>2. direction # "Unknown" => whole.header = m.header
      BY <1>5, <1>8, <1>9, <1>12, <2>1 DEF Directions
    <2> HIDE DEF whole
    <2>3. "header" \notin Presumed(t)
      BY <1>12 DEF Presumed
    <2> QED BY <2>2, <2>3 DEF SameMember
  <1> HIDE DEF whole
  <1> QED BY <1>5, <1>10, <1>11, <1>12

LEMMA TunnelBack ==
    ASSUME NEW m, IsMessage("UDPTunnel", m)
    PROVE  LET result == UnpackTCP(PackTCP("UDPTunnel", m), "UDPTunnel", Initial("UDPTunnel"))
           IN  result.ok /\ \A f \in DOMAIN m : SameMember("UDPTunnel", f, m[f], result.fields[f], "Unknown")
  <1>1. m = [pack |-> m.pack] /\ m.pack \in Seq(Elem(m.pack)) /\ m.pack # <<>>
    BY DEF IsMessage
  <1>2. ~ (Len(m.pack) < 1)
    <2>1. Len(m.pack) \in Nat /\ Len(m.pack) # 0
      BY <1>1, EmptySeq, LenProperties
    <2> DEFINE n == Len(m.pack)
    <2> HIDE DEF n
    <2>2. ~ (n < 1)
      BY <2>1 DEF n
    <2> QED BY <2>2 DEF n
  <1>3. PackTCP("UDPTunnel", m) = [type |-> "UDPTunnel", body |-> m.pack]
    BY DEF PackTCP
  <1>4. UnpackTCP([type |-> "UDPTunnel", body |-> m.pack], "UDPTunnel", Initial("UDPTunnel"))
          = [ok |-> TRUE, fields |-> [pack |-> m.pack]]
    BY <1>2 DEF UnpackTCP, UnpackUDPTunnel, Read
  <1>5. DOMAIN m = {"pack"} /\ SameMember("UDPTunnel", "pack", m.pack, m.pack, "Unknown")
    BY <1>1 DEF SameMember, Presumed
  <1> QED BY <1>3, <1>4, <1>5

-----------------------------------------------------------------------------
(* What the reader finds in a packet of TCP, whoever sent it *)

\* The parts of a protobuf message that ReadAsMeant is about.
Readable(t, body) ==
    /\ DOMAIN body = DOMAIN Structures[t].pack
    /\ t \in {"Version", "SuggestConfig"} => States("setVersion", body.version)
    /\ \A f \in DOMAIN body \cap Vectors :
         /\ body[f] \in Seq(Elem(body[f]))
         /\ \A i \in DOMAIN body[f] : DOMAIN body[f][i] = DOMAIN Elements[f].pack

LEMMA VersionMembers ==
    /\ "version" \in DOMAIN Structures["Version"].pack
    /\ "version" \in DOMAIN Structures["SuggestConfig"].pack
    /\ Structures["Version"].pack["version"] = "setVersion"
    /\ Structures["SuggestConfig"].pack["version"] = "setVersionIf"
    /\ Structures["Version"].unpack["version"] = "getVersion"
    /\ Structures["SuggestConfig"].unpack["version"] = "getVersionIf"
  <1>1. /\ Structures["Version"].pack = PackVersion /\ Structures["Version"].unpack = UnpackVersion
        /\ Structures["SuggestConfig"].pack = PackSuggestConfig
        /\ Structures["SuggestConfig"].unpack = UnpackSuggestConfig
    BY DEF Structures, Structure
  <1>2. /\ "version" \in DOMAIN PackVersion /\ PackVersion["version"] = "setVersion"
        /\ UnpackVersion["version"] = "getVersion"
    BY DEF PackVersion, UnpackVersion, By, ++
  <1>3. /\ "version" \in DOMAIN PackSuggestConfig /\ PackSuggestConfig["version"] = "setVersionIf"
        /\ UnpackSuggestConfig["version"] = "getVersionIf"
    BY DEF PackSuggestConfig, UnpackSuggestConfig, By, ++
  <1> QED BY <1>1, <1>2, <1>3

LEMMA VersionStated ==
    ASSUME NEW v \in [1 .. 4 -> 0 .. U16Max]
    PROVE  States("setVersion", <<<<blob32(v)>>, <<blob64(v)>>>>)
  <1>1. U8Max \in Nat
    BY DEF U8Max
  <1>2. v[1] \in 0 .. U16Max /\ v[2] \in 0 .. U16Max /\ v[3] \in 0 .. U16Max
    OBVIOUS
  <1>3. \A a \in 0 .. U16Max : Least(a, U8Max) \in 0 .. U8Max
    BY <1>1 DEF Least
  <1>4. blob32(v) \in Blob32
    BY <1>2, <1>3 DEF blob32, Blob32
  <1>5. <<blob32(v)>> \in Seq(Blob32) /\ <<blob64(v)>> \in Seq([1 .. 4 -> 0 .. U16Max])
    BY <1>4 DEF blob64
  <1>6. Len(<<blob32(v)>>) <= 1 /\ Len(<<blob64(v)>>) <= 1
    OBVIOUS
  <1> DEFINE field == <<<<blob32(v)>>, <<blob64(v)>>>>
  <1>7. field = <<field[1], field[2]>> /\ field[1] = <<blob32(v)>> /\ field[2] = <<blob64(v)>>
    OBVIOUS
  <1> HIDE DEF field
  <1> QED BY <1>5, <1>6, <1>7 DEF States, VersionWays, field

LEMMA NothingStated == States("setVersion", <<<<>>, <<>>>>)
  <1> DEFINE field == <<<<>>, <<>>>>
  <1>1. field = <<field[1], field[2]>> /\ field[1] = <<>> /\ field[2] = <<>>
    OBVIOUS
  <1>2. <<>> \in Seq(Blob32) /\ <<>> \in Seq([1 .. 4 -> 0 .. U16Max]) /\ Len(<<>>) <= 1
    OBVIOUS
  <1> HIDE DEF field
  <1> QED BY <1>1, <1>2 DEF States, VersionWays, field

LEMMA OwnReadable ==
    ASSUME NEW t \in TypesOfTCP, NEW m, IsMessage(t, m)
    PROVE  PackTCP(t, m).type = t /\ Readable(t, PackTCP(t, m).body)
  <1> DEFINE s == Structures[t]
             body == ToProto(s, MapElements(m, EachToProto))
  <1>1. PackTCP(t, m) = [type |-> t, body |-> body]
    BY DEF PackTCP, TypesOfTCP
  <1>2. body = [f \in DOMAIN s.pack |-> Store(s.pack[f], MapElements(m, EachToProto)[f])]
    BY DEF ToProto
  <1>3. ASSUME t \in {"Version", "SuggestConfig"}
        PROVE  States("setVersion", body.version)
    <2>1. /\ "version" \in DOMAIN s.pack /\ s.pack["version"] \in {"setVersion", "setVersionIf"}
          /\ t = "Version" <=> s.pack["version"] = "setVersion"
      BY <1>3, VersionMembers
    <2>2. Filled(s, m) /\ Tables(s.initial, s.pack, s.unpack, Presumed(t), RequiredOf(t))
      BY TablesTCP DEF IsMessage, TypesOfTCP
    <2> HIDE DEF s
    <2>3. m = [f \in DOMAIN s.initial |-> m[f]] /\ DOMAIN s.initial = DOMAIN s.pack
      BY <2>2 DEF Filled, Tables
    <2>4. "version" \in DOMAIN m /\ Holds(s.pack["version"], m["version"])
      BY <2>1, <2>2, <2>3 DEF Filled
    <2>5. MapElements(m, EachToProto)["version"] = m["version"]
      BY <2>4, ElementNames DEF MapElements, Vectors
    <2> DEFINE value == m["version"]
    <2>6. body["version"] = Store(s.pack["version"], value)
      BY <1>2, <2>1, <2>5
    <2>7. value = <<>> \/ (value = <<Head(value)>> /\ value # <<>> /\ Head(value) \in [1 .. 4 -> 0 .. U16Max])
      BY <2>1, <2>4, OneOrNone DEF Holds, VersionWays
    <2>8. s.pack["version"] = "setVersion" => value # <<>>
      <3>1. s.pack["version"] = "setVersion" => Len(value) = 1
        BY <2>4 DEF Holds
      <3> QED BY <3>1, SomeValue, Zenon
    <2> HIDE DEF value
    <2>9. Store(s.pack["version"], value)
            \in {<<<<blob32(Head(value))>>, <<blob64(Head(value))>>>>, <<<<>>, <<>>>>}
      <3>1. Store("setVersion", value) = <<<<blob32(Head(value))>>, <<blob64(Head(value))>>>>
        BY DEF Store
      <3>2. Store("setVersionIf", value)
              \in {<<<<blob32(Head(value))>>, <<blob64(Head(value))>>>>, <<<<>>, <<>>>>}
        BY DEF Store
      <3> QED BY <2>1, <3>1, <3>2
    <2>10. value = <<>> => Store(s.pack["version"], value) = <<<<>>, <<>>>>
      <3>1. value = <<>> => s.pack["version"] = "setVersionIf"
        BY <2>1, <2>8
      <3>2. value = <<>> => Store("setVersionIf", value) = <<<<>>, <<>>>>
        BY DEF Store
      <3> QED BY <3>1, <3>2
    <2> QED BY <2>6, <2>7, <2>9, <2>10, VersionStated, NothingStated
  <1>4. ASSUME NEW f \in DOMAIN body \cap Vectors
        PROVE  /\ body[f] \in Seq(Elem(body[f]))
               /\ \A i \in DOMAIN body[f] : DOMAIN body[f][i] = DOMAIN Elements[f].pack
    <2>1. Filled(s, m) /\ Tables(s.initial, s.pack, s.unpack, Presumed(t), RequiredOf(t))
      BY TablesTCP DEF IsMessage, TypesOfTCP
    <2>2. f \in DOMAIN s.pack
      BY <1>2
    <2> HIDE DEF s
    <2>3. s.pack[f] = "addEach" /\ f \in DOMAIN m /\ Holds(s.pack[f], m[f])
      <3>1. m = [g \in DOMAIN s.initial |-> m[g]] /\ DOMAIN s.initial = DOMAIN s.pack
        BY <2>1 DEF Filled, Tables
      <3> QED BY <2>1, <2>2, <3>1 DEF Filled, Tables
    <2>4. m[f] \in Seq(Elem(m[f]))
      BY <2>3 DEF Holds
    <2>5. MapElements(m, EachToProto)[f] = EachToProto(f, m[f])
      BY <2>3, ElementNames DEF MapElements
    <2>6. \A v : Store("addEach", v) = v
      BY DEF Store
    <2>7. body[f] = EachToProto(f, m[f])
      BY <1>2, <2>2, <2>3, <2>5, <2>6
    <2> HIDE DEF body
    <2>8. body[f] = [i \in 1 .. Len(m[f]) |-> ToProto(Elements[f], m[f][i])] /\ Len(m[f]) \in Nat
      BY <2>4, <2>7 DEF EachToProto
    <2>9. \A e : DOMAIN ToProto(Elements[f], e) = DOMAIN Elements[f].pack
      BY DEF ToProto
    <2> DEFINE each == body[f]
    <2> HIDE DEF each
    <2>10. each = [i \in 1 .. Len(m[f]) |-> ToProto(Elements[f], m[f][i])] /\ Len(m[f]) \in Nat
      BY <2>8 DEF each
    <2>11. each \in [1 .. Len(m[f]) -> Elem(each)]
      BY <2>10 DEF Elem
    <2>12. each \in Seq(Elem(each))
      <3>1. \A n \in Nat : \A seq \in [1 .. n -> Elem(each)] : seq \in Seq(Elem(each))
        OBVIOUS
      <3> QED BY <2>10, <2>11, <3>1, Zenon
    <2>13. ASSUME NEW i \in DOMAIN each PROVE DOMAIN each[i] = DOMAIN Elements[f].pack
      BY <2>9, <2>10
    <2> QED BY <2>12, <2>13 DEF each
  <1> HIDE DEF body
  <1>5. DOMAIN body = DOMAIN s.pack
    BY <1>2
  <1> QED BY <1>1, <1>3, <1>4, <1>5 DEF Readable

LEMMA ForeignReadable ==
    ASSUME NEW t \in TypesOfTCP, NEW proto, IsProto(t, proto)
    PROVE  Readable(t, proto)
  <1> DEFINE s == Structures[t]
  <1>1. proto = [f \in DOMAIN s.pack |-> proto[f]] /\ \A f \in DOMAIN proto : States(s.pack[f], proto[f])
    BY DEF IsProto, Stated
  <1>2. ASSUME t \in {"Version", "SuggestConfig"}
        PROVE  States("setVersion", proto.version)
    <2>1. "version" \in DOMAIN s.pack /\ s.pack["version"] \in {"setVersion", "setVersionIf"}
      BY <1>2, VersionMembers
    <2>2. States(s.pack["version"], proto["version"])
      BY <1>1, <2>1
    <2> HIDE DEF s
    <2> QED BY <2>1, <2>2 DEF States, VersionWays
  <1>3. ASSUME NEW f \in DOMAIN proto \cap Vectors
        PROVE  /\ proto[f] \in Seq(Elem(proto[f]))
               /\ \A i \in DOMAIN proto[f] : DOMAIN proto[f][i] = DOMAIN Elements[f].pack
    <2>1. States("addEach", proto[f])
      <3>1. Tables(s.initial, s.pack, s.unpack, Presumed(t), RequiredOf(t)) /\ f \in DOMAIN s.pack
        BY <1>1, TablesTCP
      <3>2. s.pack[f] = "addEach"
        BY <3>1 DEF Tables
      <3> QED BY <1>1, <3>2
    <2>2. \A i \in DOMAIN proto[f] : Stated(Elements[f], proto[f][i])
      BY ElementNames DEF IsProto
    <2> QED BY <2>1, <2>2 DEF States, VersionWays, Stated
  <1>4. DOMAIN proto = DOMAIN s.pack
    BY <1>1
  <1> QED BY <1>2, <1>3, <1>4 DEF Readable

LEMMA Kept ==
    ASSUME NEW S, NEW seq \in Seq(S), NEW last \in S, NEW i \in 1 .. Len(seq)
    PROVE  Append(seq, last)[i] = seq[i]
  OBVIOUS

LEMMA Appended ==
    ASSUME NEW b, b = <<b[1], b[2], b[3]>>, b[1] \in Nat, b[2] \in Nat, b[3] \in Nat
    PROVE  Append(b, 0)[1] = b[1] /\ Append(b, 0)[2] = b[2] /\ Append(b, 0)[3] = b[3]
  <1>1. <<b[1], b[2], b[3]>> \in Seq(Nat) /\ Len(<<b[1], b[2], b[3]>>) = 3
    OBVIOUS
  <1>2. b \in Seq(Nat) /\ Len(b) = 3 /\ 0 \in Nat
    BY <1>1
  <1>3. \A i \in 1 .. Len(b) : Append(b, 0)[i] = b[i]
    BY <1>2, Kept, Zenon
  <1>4. 1 \in 1 .. 3 /\ 2 \in 1 .. 3 /\ 3 \in 1 .. 3
    OBVIOUS
  <1> QED BY <1>2, <1>3, <1>4, Zenon

\* Whatever version is stated is known.
LEMMA KnownAsStated ==
    ASSUME NEW field, States("setVersion", field), NEW otherwise
    PROVE  VersionKnown(field, KnownVersion(field, otherwise))
  <1>1. /\ field[1] \in Seq(Blob32) /\ field[2] \in Seq([1 .. 4 -> 0 .. U16Max])
        /\ Len(field[1]) <= 1 /\ Len(field[2]) <= 1
    BY DEF States, VersionWays
  <1>2. ASSUME field[2] # <<>> PROVE KnownVersion(field, otherwise) = field[2]
    <2>1. KnownVersion(field, otherwise) = <<Head(field[2])>>
      BY <1>2 DEF KnownVersion, fromBlob64
    <2>2. field[2] \in Seq(Elem(field[2]))
      BY <1>1 DEF Elem
    <2>3. field[2] = <<Head(field[2])>>
      BY <1>1, <1>2, <2>2, OneOrNone
    <2> QED BY <2>1, <2>3
  <1>3. ASSUME field[1] # <<>>, field[2] = <<>>
        PROVE  blob32(Head(KnownVersion(field, otherwise))) = Head(field[1])
    <2> DEFINE b == Head(field[1])
    <2>1. KnownVersion(field, otherwise) = <<Append(b, 0)>>
      BY <1>3 DEF KnownVersion, fromBlob32
    <2>2. b \in Blob32
      <3>1. field[1][1] \in Blob32 /\ b = field[1][1]
        BY <1>1, <1>3
      <3> QED BY <3>1
    <2> HIDE DEF b
    <2>3. b = <<b[1], b[2], b[3]>> /\ b[1] \in Nat /\ b[2] \in 0 .. U8Max /\ b[3] \in 0 .. U8Max
      BY <2>2 DEF Blob32
    <2>4. b[2] \in Nat /\ b[3] \in Nat
      BY <2>3
    <2>5. Append(b, 0)[1] = b[1] /\ Append(b, 0)[2] = b[2] /\ Append(b, 0)[3] = b[3]
      BY <2>3, <2>4, Appended
    <2>6. \A a \in 0 .. U8Max : Least(a, U8Max) = a
      BY DEF Least, U8Max
    <2>7. blob32(Append(b, 0)) = <<b[1], b[2], b[3]>>
      BY <2>3, <2>5, <2>6 DEF blob32
    <2>8. Head(<<Append(b, 0)>>) = Append(b, 0)
      OBVIOUS
    <2> QED BY <2>1, <2>3, <2>7, <2>8 DEF b
  <1> QED BY <1>2, <1>3 DEF VersionKnown

\* Reading a structure leaves unset what is absent and whose presence is asked for.
LEMMA ReadLeavesUnset ==
    ASSUME NEW s, NEW presumed, NEW required, Tables(s.initial, s.pack, s.unpack, presumed, required),
           NEW body, DOMAIN body = DOMAIN s.pack,
           NEW taken, \A f \in DOMAIN body \ Vectors : taken[f] = body[f]
    PROVE  LeavesUnset(s, presumed, body, FromProto(s, s.initial, taken))
  <1> DEFINE read == FromProto(s, s.initial, taken)
  <1>1. \A f \in DOMAIN body : read[f] = Fetch(s.unpack[f], s.initial[f], taken[f], ProtoDefault(f))
    BY DEF FromProto, Tables
  <1> HIDE DEF read
  <1>2. ASSUME NEW f \in DOMAIN body, body[f] = <<>>, s.pack[f] = "setIf", f \notin presumed
        PROVE  read[f] = <<>>
    <2>1. s.unpack[f] = "getIf" /\ s.initial[f] = <<>>
      BY <1>2 DEF Tables, Pairs
    <2>2. f \notin Vectors
      BY <1>2 DEF Tables
    <2>3. Fetch("getIf", <<>>, <<>>, ProtoDefault(f)) = <<>>
      BY DEF Fetch
    <2> QED BY <1>1, <1>2, <2>1, <2>2, <2>3
  <1> QED BY <1>2 DEF LeavesUnset, read

\* The same of the elements of a vector.
LEMMA ElementLeavesUnset ==
    ASSUME NEW f \in Vectors, NEW proto, DOMAIN proto = DOMAIN Elements[f].pack
    PROVE  LeavesUnset(Elements[f], PresumedIn(f), proto,
                       FromProto(Elements[f], Elements[f].initial, proto))
  <1> DEFINE s == Elements[f]
  <1>1. Tables(s.initial, s.pack, s.unpack, PresumedIn(f), RequiredOf(f))
    BY TablesElements
  <1>2. DOMAIN proto = DOMAIN s.pack
    OBVIOUS
  <1> HIDE DEF s
  <1>3. LeavesUnset(s, PresumedIn(f), proto, FromProto(s, s.initial, proto))
    BY <1>1, <1>2, ReadLeavesUnset
  <1> QED BY <1>3 DEF s

\* A packet of TCP is read as it was meant, or not at all.
LEMMA ReadAsMeantTCP ==
    ASSUME NEW t \in TypesOfTCP, NEW body, Readable(t, body), packed = [type |-> t, body |-> body],
           NEW result, result = UnpackTCP(packed, t, Initial(t))
    PROVE  IF ~result.ok THEN result.fields = Initial(t)
           ELSE /\ t \in {"Version", "SuggestConfig"} =>
                     VersionKnown(packed.body.version, result.fields.version)
                /\ AbsentIsUnset(t, result.fields)
  <1> DEFINE s == Structures[t]
             taken == MapElements(body, EachFromProto)
             read == FromProto(s, s.initial, taken)
  <1>1. t # "UDPTunnel" /\ Initial(t) = s.initial
    BY DEF TypesOfTCP, Initial
  <1>2. packed.type = t /\ packed.body = body
    OBVIOUS
  <1>3. CASE ~Parses(t, body)
    <2>1. UnpackTCP(packed, t, Initial(t)) = Failed(Initial(t))
      BY <1>1, <1>2, <1>3 DEF UnpackTCP
    <2> QED BY <2>1 DEF Failed
  <1>4. CASE Parses(t, body)
    <2>1. result = [ok |-> TRUE, fields |-> read]
      <3>1. UnpackTCP(packed, t, Initial(t)) = Read(read)
        BY <1>1, <1>2, <1>4 DEF UnpackTCP
      <3> QED BY <3>1 DEF Read
    <2>2. Tables(s.initial, s.pack, s.unpack, Presumed(t), RequiredOf(t))
      BY TablesTCP
    <2>3. /\ DOMAIN body = DOMAIN s.pack /\ DOMAIN s.initial = DOMAIN s.pack
          /\ DOMAIN s.unpack = DOMAIN s.pack
      BY <2>2 DEF Readable, Tables
    <2>4. \A f \in DOMAIN body : taken[f] = IF f \in Vectors THEN EachFromProto(f, body[f]) ELSE body[f]
      BY ElementNames DEF MapElements
    <2> HIDE DEF taken
    <2>5. \A f \in DOMAIN body : read[f] = Fetch(s.unpack[f], s.initial[f], taken[f], ProtoDefault(f))
      BY <2>3 DEF FromProto
    <2>6. LeavesUnset(s, Presumed(t), body, read)
      <3> HIDE DEF s
      <3> QED BY <2>2, <2>3, <2>4, ReadLeavesUnset
    <2> HIDE DEF read
    <2>7. AbsentIsUnset(t, read)
      <3>1. ASSUME NEW f \in DOMAIN body \cap Vectors, NEW i \in DOMAIN body[f]
            PROVE  LeavesUnset(Elements[f], PresumedIn(f), body[f][i], read[f][i])
        <4> DEFINE each == EachFromProto(f, body[f])
        <4>1. body[f] \in Seq(Elem(body[f])) /\ DOMAIN body[f][i] = DOMAIN Elements[f].pack
          BY DEF Readable
        <4>2. s.pack[f] = "addEach" /\ s.unpack[f] = "pushBack" /\ s.initial[f] = <<>>
          <5> HIDE DEF s
          <5>1. s.pack[f] = "addEach"
            BY <2>2, <2>3 DEF Tables
          <5> QED BY <2>2, <2>3, <5>1 DEF Tables, Pairs
        <4>3. each = [j \in 1 .. Len(body[f]) |-> FromProto(Elements[f], Elements[f].initial, body[f][j])]
          BY <4>1 DEF EachFromProto
        <4>4. Len(body[f]) \in Nat /\ i \in 1 .. Len(body[f])
          BY <4>1
        <4>5. taken[f] = each
          BY <2>4
        <4> HIDE DEF each
        <4>6. each \in Seq(Elem(each))
          <5>1. each \in [1 .. Len(body[f]) -> Elem(each)]
            BY <4>3 DEF Elem
          <5> QED BY <4>4, <5>1
        <4>7. <<>> \o each = each
          BY <4>6, ConcatEmptySeq
        <4>8. read[f] = <<>> \o each
          <5>1. \A old, v, d : Fetch("pushBack", old, v, d) = old \o v
            BY DEF Fetch
          <5> HIDE DEF s
          <5> QED BY <2>5, <4>2, <4>5, <5>1
        <4>9. read[f][i] = FromProto(Elements[f], Elements[f].initial, body[f][i])
          BY <4>3, <4>4, <4>7, <4>8
        <4> QED BY <4>1, <4>9, ElementLeavesUnset
      <3>2. packed.body = body /\ DOMAIN Elements = Vectors
        BY <1>2, ElementNames
      <3> QED BY <2>6, <3>1, <3>2 DEF AbsentIsUnset
    <2>8. ASSUME t \in {"Version", "SuggestConfig"}
          PROVE  VersionKnown(body.version, read.version)
      <3>1. "version" \in DOMAIN body /\ s.unpack["version"] \in {"getVersion", "getVersionIf"}
        BY <2>3, <2>8, VersionMembers
      <3>2. States("setVersion", body.version)
        BY <2>8 DEF Readable
      <3>3. taken["version"] = body["version"]
        BY <2>4, <3>1 DEF Vectors
      <3> HIDE DEF s
      <3>4. read["version"] = Fetch(s.unpack["version"], s.initial["version"], body["version"],
                                    ProtoDefault("version"))
        BY <2>5, <3>1, <3>3
      <3>5. /\ \A old, v, d : Fetch("getVersion", old, v, d) = KnownVersion(v, <<NoVersion>>)
            /\ \A old, v, d : Fetch("getVersionIf", old, v, d) = KnownVersion(v, old)
        BY DEF Fetch
      <3> QED BY <3>1, <3>2, <3>4, <3>5, KnownAsStated
    <2> HIDE DEF s
    <2> QED BY <1>2, <2>1, <2>7, <2>8
  <1> QED BY <1>3, <1>4

-----------------------------------------------------------------------------
(* The exchange *)

\* What is on the wire, and who sent it.
OnWire ==
    \/ sent = None /\ packed = None /\ received = None
    \/ \E t \in Elem(TCPTypes) : \E m \in Messages[t] :
          sent = [type |-> t, fields |-> m] /\ packed = PackTCP(t, m)
    \/ \E t \in TCPMessages : \E proto \in Foreign[t] :
          sent = [type |-> t] /\ packed = [type |-> t, body |-> proto]
    \/ sent = [type |-> "UDPTunnel"] /\ packed = [type |-> "UDPTunnel", body |-> <<>>]
    \/ \E t \in Elem(UDPTypes) : \E m \in Messages[t], direction \in Directions :
          sent = [type |-> t, fields |-> m, direction |-> direction] /\ packed = PackUDP(t, m, direction)

\* What a reader made of it.
ReadFrom ==
    \/ received = None
    \/ /\ packed.type \in Elem(TCPTypes)
       /\ \E t \in Elem(TCPTypes) : received = [type |-> t, result |-> UnpackTCP(packed, t, Initial(t))]
    \/ /\ packed.type \in Elem(UDPTypes)
       /\ \E t \in Elem(UDPTypes) : received = [type |-> t, result |-> UnpackUDP(packed, t, Initial(t))]

ExchangeInv == OnWire /\ ReadFrom

\* What is on the wire is one of these in every state, and what was received was read from it.
LEMMA ExchangeInvariant == ExchangeSpec => []ExchangeInv
  <1>1. ExchangeInit => ExchangeInv
    BY DEF ExchangeInit, ExchangeInv, OnWire, ReadFrom
  <1>2. ExchangeInv /\ [ExchangeNext]_exchangeVars => ExchangeInv'
    <2> SUFFICES ASSUME ExchangeInv, [ExchangeNext]_exchangeVars
                 PROVE  ExchangeInv'
      OBVIOUS
    <2>1. ASSUME packed = None PROVE received = None
      <3>1. \A t, m : PackTCP(t, m) # None
        BY DEF PackTCP, None
      <3>2. \A t, m, d : PackUDP(t, m, d) # None
        BY DEF PackUDP, None
      <3>3. \A t, body : [type |-> t, body |-> body] # None
        BY DEF None
      <3> QED BY <2>1, <3>1, <3>2, <3>3 DEF ExchangeInv, OnWire
    <2>2. ASSUME NEW t \in Elem(TCPTypes), SendTCP(t) PROVE ExchangeInv'
      <3>1. received' = None
        BY <2>1, <2>2 DEF SendTCP
      <3>2. OnWire'
        BY <2>2 DEF SendTCP, OnWire
      <3> QED BY <3>1, <3>2 DEF ExchangeInv, ReadFrom
    <2>3. ASSUME NEW t \in TCPMessages, SendForeign(t) PROVE ExchangeInv'
      <3>1. received' = None
        BY <2>1, <2>3 DEF SendForeign
      <3>2. OnWire'
        BY <2>3 DEF SendForeign, OnWire
      <3> QED BY <3>1, <3>2 DEF ExchangeInv, ReadFrom
    <2>4. ASSUME SendEmptyTunnel PROVE ExchangeInv'
      <3>1. received' = None
        BY <2>1, <2>4 DEF SendEmptyTunnel
      <3>2. OnWire'
        BY <2>4 DEF SendEmptyTunnel, OnWire
      <3> QED BY <3>1, <3>2 DEF ExchangeInv, ReadFrom
    <2>5. ASSUME NEW t \in Elem(UDPTypes), SendUDP(t) PROVE ExchangeInv'
      <3>1. received' = None
        BY <2>1, <2>5 DEF SendUDP
      <3>2. OnWire'
        BY <2>5 DEF SendUDP, OnWire
      <3> QED BY <3>1, <3>2 DEF ExchangeInv, ReadFrom
    <2>6. ASSUME NEW t \in Elem(TCPTypes), ReceiveTCP(t) PROVE ExchangeInv'
      <3>1. OnWire'
        BY <2>6, Zenon DEF ReceiveTCP, ExchangeInv, OnWire
      <3>2. ReadFrom'
        BY <2>6 DEF ReceiveTCP, ReadFrom
      <3> QED BY <3>1, <3>2 DEF ExchangeInv
    <2>7. ASSUME NEW t \in Elem(UDPTypes), ReceiveUDP(t) PROVE ExchangeInv'
      <3>1. OnWire'
        BY <2>7, Zenon DEF ReceiveUDP, ExchangeInv, OnWire
      <3>2. ReadFrom'
        BY <2>7 DEF ReceiveUDP, ReadFrom
      <3> QED BY <3>1, <3>2 DEF ExchangeInv
    <2>8. ASSUME Forget PROVE ExchangeInv'
      BY <2>8 DEF Forget, ExchangeInv, OnWire, ReadFrom
    <2>9. ASSUME UNCHANGED exchangeVars PROVE ExchangeInv'
      BY <2>9 DEF exchangeVars, ExchangeInv, OnWire, ReadFrom
    <2> QED
      BY <2>2, <2>3, <2>4, <2>5, <2>6, <2>7, <2>8, <2>9 DEF ExchangeNext, Asked
  <1> QED BY <1>1, <1>2, PTL DEF ExchangeSpec

LEMMA OwnType ==
    /\ \A t, m : PackTCP(t, m).type = t
    /\ \A t, m, d : PackUDP(t, m, d).type = t
  BY DEF PackTCP, PackUDP

-----------------------------------------------------------------------------

\* Every message is read back as it was sent: of any type, of TCP or UDP, with any values in its
\* members and any number of elements in its vectors, but for the presence of the members
\* in Presumed (the constructors of Pack.cpp and their operator()).
THEOREM RoundTripCorrect == ExchangeSpec => []RoundTrip
  <1>1. ExchangeInv => RoundTrip
    <2> SUFFICES ASSUME ExchangeInv, received # None, received.type = sent.type, "fields" \in DOMAIN sent
                 PROVE  /\ received.result.ok
                        /\ \A f \in DOMAIN sent.fields :
                             SameMember(sent.type, f, sent.fields[f], received.result.fields[f],
                                        IF "direction" \in DOMAIN sent THEN sent.direction ELSE "Unknown")
      BY DEF RoundTrip
    <2>1. CASE \E t \in Elem(TCPTypes) : \E m \in Messages[t] :
                 sent = [type |-> t, fields |-> m] /\ packed = PackTCP(t, m)
      <3>0. PICK t \in Elem(TCPTypes) : \E m \in Messages[t] :
                   sent = [type |-> t, fields |-> m] /\ packed = PackTCP(t, m)
        BY <2>1
      <3>1. PICK m \in Messages[t] : sent = [type |-> t, fields |-> m] /\ packed = PackTCP(t, m)
        BY <3>0
      <3>2. received.type = t /\ packed.type = t /\ sent.type = t /\ sent.fields = m
              /\ "direction" \notin DOMAIN sent
        BY <3>1, OwnType
      <3>3. received.result = UnpackTCP(packed, t, Initial(t))
        BY <3>2, TypesUDP DEF ExchangeInv, ReadFrom
      <3>4. IsMessage(t, m)
        BY MessagesAssumption
      <3>5. LET result == UnpackTCP(PackTCP(t, m), t, Initial(t))
            IN  result.ok /\ \A f \in DOMAIN m : SameMember(t, f, m[f], result.fields[f], "Unknown")
        <4>1. CASE t = "UDPTunnel"
          BY <3>4, <4>1, TunnelBack
        <4>2. CASE t \in TypesOfTCP
          BY <3>4, <4>2, TCPBack
        <4> QED BY <4>1, <4>2, TypesTCP
      <3> QED BY <3>1, <3>2, <3>3, <3>5
    <2>2. CASE \E t \in Elem(UDPTypes) : \E m \in Messages[t], direction \in Directions :
                 /\ sent = [type |-> t, fields |-> m, direction |-> direction]
                 /\ packed = PackUDP(t, m, direction)
      <3>0. PICK t \in Elem(UDPTypes) : \E m \in Messages[t], direction \in Directions :
                   /\ sent = [type |-> t, fields |-> m, direction |-> direction]
                   /\ packed = PackUDP(t, m, direction)
        BY <2>2
      <3>1. PICK m \in Messages[t], direction \in Directions :
                   /\ sent = [type |-> t, fields |-> m, direction |-> direction]
                   /\ packed = PackUDP(t, m, direction)
        BY <3>0
      <3>2. received.type = t /\ packed.type = t /\ sent.type = t /\ sent.fields = m
              /\ "direction" \in DOMAIN sent /\ sent.direction = direction
        BY <3>1, OwnType
      <3>3. received.result = UnpackUDP(packed, t, Initial(t))
        BY <3>2, TypesUDP DEF ExchangeInv, ReadFrom
      <3>4. IsMessage(t, m)
        BY MessagesAssumption
      <3>5. LET result == UnpackUDP(PackUDP(t, m, direction), t, Initial(t))
            IN  result.ok /\ \A f \in DOMAIN m : SameMember(t, f, m[f], result.fields[f], direction)
        BY <3>4, TypesUDP, UDPBack
      <3> QED BY <3>1, <3>2, <3>3, <3>5
    <2>3. CASE \/ sent = None /\ packed = None /\ received = None
               \/ \E t \in TCPMessages : \E proto \in Foreign[t] :
                     sent = [type |-> t] /\ packed = [type |-> t, body |-> proto]
               \/ sent = [type |-> "UDPTunnel"] /\ packed = [type |-> "UDPTunnel", body |-> <<>>]
      BY <2>3
    <2> QED BY <2>1, <2>2, <2>3 DEF ExchangeInv, OnWire
  <1> QED BY <1>1, ExchangeInvariant, PTL

\* Whatever fields another implementation sends or leaves out, a packet is read as it was meant
\* or leaves no trace: versions in either field, optionals that are absent, packets of another
\* type or without a required field (operator() in Pack.cpp).
THEOREM ReadAsMeantCorrect == ExchangeSpec => []ReadAsMeant
  <1>1. ExchangeInv => ReadAsMeant
    <2> SUFFICES ASSUME ExchangeInv, received # None
                 PROVE  LET t == received.type
                            fields == received.result.fields
                        IN  IF ~received.result.ok THEN fields = Initial(t)
                            ELSE /\ t \in {"Version", "SuggestConfig"} =>
                                      VersionKnown(packed.body.version, fields.version)
                                 /\ t \in TCPMessages => AbsentIsUnset(t, fields)
      BY DEF ReadAsMeant
    <2>1. ASSUME NEW t \in Elem(UDPTypes),
                 received = [type |-> t, result |-> UnpackUDP(packed, t, Initial(t))]
          PROVE  /\ received.type = t /\ t \notin TCPMessages /\ t \notin {"Version", "SuggestConfig"}
                 /\ ~received.result.ok => received.result.fields = Initial(t)
      <3>1. t \notin TCPMessages /\ t \notin {"Version", "SuggestConfig"}
        BY TypesUDP, TypesTCP DEF TypesOfUDP, TypesOfTCP
      <3>2. received.type = t /\ received.result = UnpackUDP(packed, t, Initial(t))
        BY <2>1
      <3>3. CASE packed.type # t
        <4>1. UnpackUDP(packed, t, Initial(t)) = Failed(Initial(t))
          BY <3>3 DEF UnpackUDP
        <4> QED BY <3>1, <3>2, <4>1 DEF Failed
      <3>4. CASE packed.type = t
        <4>1. UnpackUDP(packed, t, Initial(t)).ok = TRUE
          BY <3>4 DEF UnpackUDP, Read
        <4> QED BY <3>1, <3>2, <4>1
      <3> QED BY <3>3, <3>4
    <2>2. ASSUME NEW t \in Elem(TCPTypes), packed.type \in Elem(TCPTypes),
                 received = [type |-> t, result |-> UnpackTCP(packed, t, Initial(t))]
          PROVE  IF ~received.result.ok THEN received.result.fields = Initial(t)
                 ELSE /\ t \in {"Version", "SuggestConfig"} =>
                           VersionKnown(packed.body.version, received.result.fields.version)
                      /\ t \in TCPMessages => AbsentIsUnset(t, received.result.fields)
      <3> DEFINE result == UnpackTCP(packed, t, Initial(t))
      <3>1. received.result = result
        BY <2>2
      <3>2. CASE packed.type # t
        <4>1. result = Failed(Initial(t))
          BY <3>2 DEF UnpackTCP
        <4> QED BY <3>1, <4>1 DEF Failed
      <3>3. CASE packed.type = t /\ t = "UDPTunnel"
        <4>1. t \notin TCPMessages /\ t \notin {"Version", "SuggestConfig"}
          BY <3>3 DEF TCPMessages
        <4>2. result = UnpackUDPTunnel(packed.body, Initial(t))
          BY <3>3 DEF UnpackTCP
        <4>3. CASE Len(packed.body) < 1
          <5>1. result = [ok |-> FALSE, fields |-> Initial(t)]
            BY <3>3, <4>2, <4>3 DEF UnpackUDPTunnel, Failed, Initial, UDPTunnel
          <5> QED BY <3>1, <4>1, <5>1
        <4>4. CASE ~ (Len(packed.body) < 1)
          <5>1. result = Read([pack |-> packed.body])
            BY <4>2, <4>4 DEF UnpackUDPTunnel
          <5> QED BY <3>1, <4>1, <5>1 DEF Read
        <4> QED BY <4>3, <4>4
      <3>4. CASE packed.type = t /\ t \in TypesOfTCP
        <4>1. \E body : packed = [type |-> t, body |-> body] /\ Readable(t, body)
          <5>1. packed # None
            BY <3>4 DEF None, TypesOfTCP
          <5>2. CASE \E u \in Elem(TCPTypes) : \E m \in Messages[u] : packed = PackTCP(u, m)
            <6>0. PICK u \in Elem(TCPTypes) : \E m \in Messages[u] : packed = PackTCP(u, m)
              BY <5>2
            <6>1. PICK m \in Messages[u] : packed = PackTCP(u, m)
              BY <6>0
            <6>2. u = t
              BY <3>4, <6>1, OwnType
            <6>3. IsMessage(t, m)
              BY <6>1, <6>2, MessagesAssumption
            <6>4. Readable(t, PackTCP(t, m).body)
              BY <3>4, <6>3, OwnReadable
            <6>5. PackTCP(t, m) = [type |-> t, body |-> PackTCP(t, m).body]
              BY DEF PackTCP
            <6> QED BY <6>1, <6>2, <6>4, <6>5
          <5>3. CASE \E u \in TCPMessages : \E proto \in Foreign[u] : packed = [type |-> u, body |-> proto]
            <6>0. PICK u \in TCPMessages : \E proto \in Foreign[u] : packed = [type |-> u, body |-> proto]
              BY <5>3
            <6>1. PICK proto \in Foreign[u] : packed = [type |-> u, body |-> proto]
              BY <6>0
            <6>2. u = t
              BY <3>4, <6>1
            <6>3. IsProto(t, proto)
              BY <6>1, <6>2, ForeignAssumption
            <6> QED BY <3>4, <6>1, <6>2, <6>3, ForeignReadable
          <5>4. CASE packed = [type |-> "UDPTunnel", body |-> <<>>]
            BY <3>4, <5>4 DEF TypesOfTCP
          <5>5. CASE \E u \in Elem(UDPTypes) : \E m, d : packed = PackUDP(u, m, d)
            BY <3>4, <5>5, OwnType, TypesTCP, TypesUDP
          <5> QED BY <5>1, <5>2, <5>3, <5>4, <5>5 DEF ExchangeInv, OnWire
        <4>2. IF ~result.ok THEN result.fields = Initial(t)
              ELSE /\ t \in {"Version", "SuggestConfig"} =>
                        VersionKnown(packed.body.version, result.fields.version)
                   /\ AbsentIsUnset(t, result.fields)
          BY <3>4, <4>1, ReadAsMeantTCP
        <4> QED BY <3>1, <4>2
      <3> QED BY <3>2, <3>3, <3>4, TypesTCP
    <2>3. CASE \E t \in Elem(UDPTypes) : received = [type |-> t, result |-> UnpackUDP(packed, t, Initial(t))]
      BY <2>1, <2>3
    <2>4. CASE /\ packed.type \in Elem(TCPTypes)
               /\ \E t \in Elem(TCPTypes) :
                    received = [type |-> t, result |-> UnpackTCP(packed, t, Initial(t))]
      <3>1. PICK t \in Elem(TCPTypes) : received = [type |-> t, result |-> UnpackTCP(packed, t, Initial(t))]
        BY <2>4
      <3>2. received.type = t
        BY <3>1
      <3> QED BY <2>2, <2>4, <3>1, <3>2
    <2> QED BY <2>3, <2>4 DEF ExchangeInv, ReadFrom
  <1> QED BY <1>1, ExchangeInvariant, PTL
=============================================================================
