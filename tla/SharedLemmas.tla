---------------------------- MODULE SharedLemmas ----------------------------
(***************************************************************************)
(* Lemmas that the proofs about several components need: induction over    *)
(* the natural numbers, sequences, and the encoding of commands, for every *)
(* command there is.                                                       *)
(***************************************************************************)
EXTENDS Integers, Apdu, SequenceTheorems, FiniteSetTheorems, TLAPS

-----------------------------------------------------------------------------
(* Induction over the natural numbers, for the set of those that have the   *)
(* property: intervals from 1 are finite sets, which are well-founded.      *)

LEMMA SetInduction ==
    ASSUME NEW T, 0 \in T, \A n \in Nat : n \in T => n + 1 \in T
    PROVE  Nat \subseteq T
<1> DEFINE Upto(n) == 1..n
           Bad     == {n \in Nat : n \notin T}
           Uptos   == {Upto(n) : n \in Bad}
<1> SUFFICES ASSUME Bad # {} PROVE FALSE
  OBVIOUS
<1>1. IsWellFoundedOn(StrictSubsetOrdering(Nat), FiniteSubsetsOf(Nat))
  BY FS_StrictSubsetOrderingWellFounded
<1>2. \A n \in Nat : Upto(n) \in FiniteSubsetsOf(Nat)
  BY FS_Interval DEF FiniteSubsetsOf
<1>3. \A m, n \in Nat : m < n => <<Upto(m), Upto(n)>> \in StrictSubsetOrdering(Nat)
  <2> SUFFICES ASSUME NEW m \in Nat, NEW n \in Nat, m < n
               PROVE  <<Upto(m), Upto(n)>> \in StrictSubsetOrdering(Nat)
    OBVIOUS
  <2>1. /\ Upto(m) \subseteq Upto(n) /\ n \in Upto(n) /\ n \notin Upto(m)
        /\ Upto(m) \in SUBSET Nat /\ Upto(n) \in SUBSET Nat
    OBVIOUS
  <2> HIDE DEF Upto
  <2> QED
    BY <2>1 DEF StrictSubsetOrdering
<1> HIDE DEF Upto
<1>4. Uptos \subseteq FiniteSubsetsOf(Nat) /\ Uptos # {}
  BY <1>2
<1>5. PICK x \in Uptos : \A y \in Uptos : ~(<<y, x>> \in StrictSubsetOrdering(Nat))
  BY <1>1, <1>4, WFMin
<1>6. PICK n \in Bad : x = Upto(n)
  BY <1>5
<1>7. n \in Nat /\ n # 0 /\ n \notin T
  BY <1>6
<1>8. n - 1 \in Nat /\ n - 1 < n /\ (n - 1) + 1 = n
  BY <1>7
<1>9. n - 1 \in Bad
  BY <1>7, <1>8
<1> QED
  BY <1>3, <1>5, <1>6, <1>7, <1>8, <1>9

-----------------------------------------------------------------------------
(* Sequences                                                               *)

\* Two sequences in one, and when two sequences are the same, with their lengths
\* as numbers.
LEMMA Joined ==
    ASSUME NEW S, NEW s \in Seq(S), NEW t \in Seq(S)
    PROVE  /\ s \o t \in Seq(S) /\ Len(s \o t) = Len(s) + Len(t)
           /\ \A i \in 1..Len(s) : (s \o t)[i] = s[i]
           /\ \A i \in 1..Len(t) : (s \o t)[Len(s) + i] = t[i]
OBVIOUS

LEMMA Same ==
    ASSUME NEW S, NEW s \in Seq(S), NEW t \in Seq(S), NEW n \in Nat,
           Len(s) = n, Len(t) = n, \A i \in 1..n : s[i] = t[i]
    PROVE  s = t
<1>1. Len(s) = Len(t) /\ \A i \in 1..Len(s) : s[i] = t[i]
  OBVIOUS
<1> QED
  BY <1>1, SeqEqual, Zenon

\* Four sequences in one: how long it is, and where each of them is in it.
LEMMA FourParts ==
    ASSUME NEW S, NEW a \in Seq(S), NEW b \in Seq(S), NEW c \in Seq(S),
           NEW d \in Seq(S)
    PROVE  /\ a \o b \o c \o d \in Seq(S)
           /\ Len(a \o b \o c \o d) = Len(a) + Len(b) + Len(c) + Len(d)
           /\ \A i \in 1..Len(b) : (a \o b \o c \o d)[Len(a) + i] = b[i]
           /\ \A i \in 1..Len(d) :
                 (a \o b \o c \o d)[Len(a) + Len(b) + Len(c) + i] = d[i]
           /\ SubSeq(a \o b \o c \o d, 1, Len(a)) = a
           /\ SubSeq(a \o b \o c \o d, Len(a) + Len(b) + 1,
                     Len(a) + Len(b) + Len(c)) = c
<1> DEFINE ab   == a \o b
           abc  == ab \o c
           abcd == abc \o d
<1>1. /\ Len(a) \in Nat /\ Len(b) \in Nat /\ Len(c) \in Nat /\ Len(d) \in Nat
  OBVIOUS
<1>2. /\ ab \in Seq(S) /\ Len(ab) = Len(a) + Len(b)
      /\ \A i \in 1..Len(ab) : ab[i] = IF i <= Len(a) THEN a[i] ELSE b[i - Len(a)]
  BY ConcatProperties
<1> HIDE DEF ab
<1>3. /\ abc \in Seq(S) /\ Len(abc) = Len(ab) + Len(c)
      /\ \A i \in 1..Len(abc) : abc[i] = IF i <= Len(ab) THEN ab[i] ELSE c[i - Len(ab)]
  <2>1. ab \in Seq(S) BY <1>2
  <2> QED BY <2>1, ConcatProperties, Zenon
<1> HIDE DEF abc
<1>4. /\ abcd \in Seq(S) /\ Len(abcd) = Len(abc) + Len(d)
      /\ \A i \in 1..Len(abcd) :
            abcd[i] = IF i <= Len(abc) THEN abc[i] ELSE d[i - Len(abc)]
  <2>1. abc \in Seq(S) BY <1>3
  <2> QED BY <2>1, ConcatProperties, Zenon
<1> HIDE DEF abcd
<1>5. Len(abcd) = Len(a) + Len(b) + Len(c) + Len(d)
  BY <1>1, <1>2, <1>3, <1>4
<1>6. \A i \in 1..Len(a) : abcd[i] = a[i]
  BY <1>1, <1>2, <1>3, <1>4, <1>5
<1>7. \A i \in 1..Len(b) : abcd[Len(a) + i] = b[i]
  <2> SUFFICES ASSUME NEW i \in 1..Len(b) PROVE abcd[Len(a) + i] = b[i]
    OBVIOUS
  <2>1. abcd[Len(a) + i] = abc[Len(a) + i] /\ abc[Len(a) + i] = ab[Len(a) + i]
    BY <1>1, <1>2, <1>3, <1>4, <1>5
  <2> DEFINE k == Len(a) + i
  <2>2. k \in 1..Len(ab) /\ ~(k <= Len(a)) /\ k - Len(a) = i
    BY <1>1, <1>2
  <2> HIDE DEF k
  <2>3. ab[k] = b[k - Len(a)]
    BY <1>2, <2>2
  <2> QED
    BY <2>1, <2>2, <2>3 DEF k
<1>8. \A i \in 1..Len(c) : abcd[Len(a) + Len(b) + i] = c[i]
  <2> SUFFICES ASSUME NEW i \in 1..Len(c) PROVE abcd[Len(ab) + i] = c[i]
    BY <1>2
  <2>1. abcd[Len(ab) + i] = abc[Len(ab) + i]
    BY <1>1, <1>2, <1>3, <1>4
  <2> DEFINE k == Len(ab) + i
  <2>2. k \in 1..Len(abc) /\ ~(k <= Len(ab)) /\ k - Len(ab) = i
    BY <1>1, <1>2, <1>3
  <2> HIDE DEF k
  <2>3. abc[k] = c[k - Len(ab)]
    BY <1>3, <2>2
  <2> QED
    BY <2>1, <2>2, <2>3 DEF k
<1>9. \A i \in 1..Len(d) : abcd[Len(a) + Len(b) + Len(c) + i] = d[i]
  <2> SUFFICES ASSUME NEW i \in 1..Len(d) PROVE abcd[Len(abc) + i] = d[i]
    BY <1>2, <1>3
  <2> DEFINE k == Len(abc) + i
  <2>1. k \in 1..Len(abcd) /\ ~(k <= Len(abc)) /\ k - Len(abc) = i
    BY <1>1, <1>2, <1>3, <1>4
  <2> HIDE DEF k
  <2>2. abcd[k] = d[k - Len(abc)]
    BY <1>4, <2>1
  <2> QED
    BY <2>1, <2>2 DEF k
<1>10. SubSeq(abcd, 1, Len(a)) = a
  <2>1. \A i \in 1..Len(a) : abcd[i] \in S
    BY <1>6
  <2>2. /\ SubSeq(abcd, 1, Len(a)) \in Seq(S)
        /\ Len(SubSeq(abcd, 1, Len(a))) = Len(a)
        /\ \A i \in 1..Len(a) : SubSeq(abcd, 1, Len(a))[i] = abcd[i]
    BY <1>1, <2>1, SubSeqProperties
  <2> QED
    BY <1>6, <2>2, SeqEqual
<1>11. SubSeq(abcd, Len(a) + Len(b) + 1, Len(a) + Len(b) + Len(c)) = c
  <2> DEFINE m == Len(a) + Len(b) + 1
             n == Len(a) + Len(b) + Len(c)
  <2>1. \A i \in m..n : abcd[i] \in S
    BY <1>1, <1>4, <1>5
  <2>2. m \in Int /\ n \in Int /\ n - m + 1 = Len(c) /\ (m <= n <=> Len(c) # 0)
    BY <1>1
  <2>3. /\ SubSeq(abcd, m, n) \in Seq(S)
        /\ Len(SubSeq(abcd, m, n)) = IF m <= n THEN n - m + 1 ELSE 0
        /\ \A i \in 1..(n - m + 1) : SubSeq(abcd, m, n)[i] = abcd[m + i - 1]
    <3> HIDE DEF m, n
    <3> QED BY <2>1, <2>2, SubSeqProperties
  <2>4. Len(SubSeq(abcd, m, n)) = Len(c)
    BY <1>1, <2>2, <2>3
  <2>5. \A i \in 1..Len(c) : m + i - 1 = Len(a) + Len(b) + i
    BY <1>1
  <2>6. \A i \in 1..Len(c) : SubSeq(abcd, m, n)[i] = c[i]
    BY <1>8, <2>2, <2>3, <2>5
  <2> HIDE DEF m, n
  <2>7. SubSeq(abcd, m, n) = c
    BY <2>3, <2>4, <2>6, SeqEqual
  <2> QED
    BY <2>7 DEF m, n
<1> QED
  BY <1>4, <1>5, <1>7, <1>9, <1>10, <1>11 DEF abcd, abc, ab

-----------------------------------------------------------------------------
\* What fits in a byte is not changed by the cast to one; 256 becomes 0.
LEMMA Cast ==
    ASSUME NEW n \in Nat, n <= 256
    PROVE  /\ n <= 255 => n % 256 = n /\ n \in Byte
           /\ n % 256 \in Byte
           /\ ExpectedLength(n % 256) = ExpectedLength(n)
<1>1. n \in Byte => n % 256 = n
  BY DEF Byte
<1>2. n \in Byte \/ n = 256
  BY DEF Byte
<1>3. n <= 255 => n \in Byte
  BY DEF Byte
<1>4. CASE n \in Byte
  BY <1>1, <1>3, <1>4
<1>5. CASE n = 256
  <2>1. n % 256 = 0 /\ 0 \in Byte /\ ~(n <= 255)
    BY <1>5 DEF Byte
  <2> QED
    BY <1>5, <2>1 DEF ExpectedLength
<1> QED
  BY <1>2, <1>4, <1>5

LEMMA EmptyIfLengthZero ==
    ASSUME NEW S, NEW s \in Seq(S)
    PROVE  Len(s) \in Nat /\ (s = <<>> <=> Len(s) = 0)
BY EmptySeq

LEMMA OneByte ==
    ASSUME NEW e \in Byte
    PROVE  <<e>> \in Seq(Byte) /\ Len(<<e>>) = 1 /\ <<e>>[1] = e
OBVIOUS

LEMMA HeaderIsSeq ==
    ASSUME NEW h \in [1..4 -> Byte]
    PROVE  h \in Seq(Byte) /\ Len(h) = 4
<1>1. h \in Seq(Byte)
  BY SeqDef
<1>2. DOMAIN h = 1..4 /\ DOMAIN h = 1..Len(h) /\ Len(h) \in Nat
  BY <1>1, LenProperties
<1> QED
  BY <1>1, <1>2

\* Lc and Le are there only if they must be, and Le means what le means.
LEMMA LcProperties ==
    ASSUME NEW data \in Seq(Byte), Len(data) <= 255
    PROVE  /\ Lc(data) \in Seq(Byte)
           /\ Len(data) = 0 => Len(Lc(data)) = 0
           /\ Len(data) # 0 => Len(Lc(data)) = 1 /\ Lc(data)[1] = Len(data)
<1> DEFINE n == Len(data)
<1>1. n \in Nat /\ n <= 255 /\ (data = <<>> <=> n = 0)
  BY EmptyIfLengthZero
<1>2. Lc(data) = IF n = 0 THEN <<>> ELSE <<n % 256>>
  BY <1>1 DEF Lc
<1> HIDE DEF n
<1>3. n % 256 = n /\ n \in Byte
  <2>1. n <= 256
    BY <1>1
  <2> QED
    BY <1>1, <2>1, Cast
<1> SUFFICES /\ Lc(data) \in Seq(Byte)
             /\ n = 0 => Len(Lc(data)) = 0
             /\ n # 0 => Len(Lc(data)) = 1 /\ Lc(data)[1] = n
  BY DEF n
<1>4. CASE n = 0
  BY <1>2, <1>4, EmptySeq
<1>5. CASE n # 0
  <2>1. Lc(data) = <<n>>
    BY <1>2, <1>3, <1>5
  <2> QED
    BY <1>3, <1>5, <2>1, OneByte
<1> QED
  BY <1>4, <1>5

LEMMA LeProperties ==
    ASSUME NEW c, c.le \in Nat, isLeSet(c) => c.le <= 256
    PROVE  /\ Le(c) \in Seq(Byte)
           /\ ~isLeSet(c) => Len(Le(c)) = 0
           /\ isLeSet(c) => /\ Len(Le(c)) = 1
                            /\ ExpectedLength(Le(c)[1]) = ExpectedLength(c.le)
<1>1. CASE isLeSet(c)
  <2> DEFINE n == c.le
  <2>1. n \in Nat /\ n <= 256
    BY <1>1
  <2> HIDE DEF n
  <2>2. n % 256 \in Byte /\ ExpectedLength(n % 256) = ExpectedLength(n)
    BY <2>1, Cast
  <2>3. Le(c) = <<n % 256>>
    BY <1>1 DEF Le, n
  <2>4. Le(c) \in Seq(Byte) /\ Len(Le(c)) = 1 /\ Le(c)[1] = n % 256
    BY <2>2, <2>3, OneByte
  <2> QED
    BY <1>1, <2>2, <2>4 DEF n
<1>2. CASE ~isLeSet(c)
  BY <1>2, EmptySeq DEF Le
<1> QED
  BY <1>1, <1>2

\* What the lengths of the four parts of a command have to do with each other.
Framed(h, lc, data, le) ==
    /\ Len(h) = 4
    /\ Len(data) = 0 => Len(lc) = 0
    /\ Len(data) # 0 => Len(lc) = 1 /\ lc[1] = Len(data)
    /\ Len(le) = 0 \/ Len(le) = 1

\* A card reads a command of four such parts as these parts.
LEMMA CardReadsParts ==
    ASSUME NEW h \in Seq(Byte), NEW lc \in Seq(Byte), NEW data \in Seq(Byte),
           NEW le \in Seq(Byte), Framed(h, lc, data, le)
    PROVE  CardReads(h \o lc \o data \o le) =
              [header |-> h,
               data   |-> data,
               ne     |-> IF Len(le) = 0 THEN 0 ELSE ExpectedLength(le[1])]
<1> DEFINE bytes == h \o lc \o data \o le
           n     == Len(bytes)
           nH    == Len(h)
           nData == Len(data)
           nLc   == Len(lc)
           nLe   == Len(le)
           Reads(d, ne) == [header |-> SubSeq(bytes, 1, 4), data |-> d, ne |-> ne]
<1>1. /\ n = nH + nLc + nData + nLe
      /\ \A i \in 1..nLc : bytes[nH + i] = lc[i]
      /\ \A i \in 1..nLe : bytes[nH + nLc + nData + i] = le[i]
      /\ SubSeq(bytes, 1, nH) = h
      /\ SubSeq(bytes, nH + nLc + 1, nH + nLc + nData) = data
  <2>1. n = nH + nLc + nData + nLe
    BY FourParts
  <2>2. \A i \in 1..nLc : bytes[nH + i] = lc[i]
    BY FourParts, SMTT(30)
  <2>3. \A i \in 1..nLe : bytes[nH + nLc + nData + i] = le[i]
    BY FourParts, SMTT(30)
  <2>4. SubSeq(bytes, 1, nH) = h
    BY FourParts, SMTT(30)
  <2>5. SubSeq(bytes, nH + nLc + 1, nH + nLc + nData) = data
    BY FourParts
  <2> HIDE DEF n, nH, nData, nLc, nLe, bytes
  <2> QED
    BY <2>1, <2>2, <2>3, <2>4, <2>5
<1>2. /\ nData \in Nat /\ nLc \in Nat /\ nLe \in Nat
      /\ data = <<>> <=> nData = 0
  BY EmptyIfLengthZero
<1>3. /\ nH = 4
      /\ nData = 0 => nLc = 0
      /\ nData # 0 => nLc = 1 /\ lc[1] = nData
      /\ nLe = 0 \/ nLe = 1
  BY DEF Framed
<1>4. CardReads(bytes) =
         LET fifth == IF n > 5 THEN bytes[5] ELSE 0 IN
         CASE n = 4                    -> Reads(<<>>, 0)
           [] n = 5                    -> Reads(<<>>, ExpectedLength(bytes[5]))
           [] fifth > 0 /\ n = 5 + fifth -> Reads(SubSeq(bytes, 6, n), 0)
           [] fifth > 0 /\ n = 6 + fifth -> Reads(SubSeq(bytes, 6, n - 1),
                                                  ExpectedLength(bytes[n]))
           [] OTHER                    -> Malformed
  BY DEF CardReads
<1> SUFFICES CardReads(bytes) =
       [header |-> h, data |-> data,
        ne |-> IF nLe = 0 THEN 0 ELSE ExpectedLength(le[1])]
  OBVIOUS
<1>5. SubSeq(bytes, 1, 4) = h
  BY <1>1, <1>3
<1> HIDE DEF n, nH, nData, nLc, nLe, bytes
<1>6. CASE nData = 0
  <2>1. n = 4 + nLe /\ (nLe = 1 => bytes[5] = le[1])
    BY <1>1, <1>2, <1>3, <1>6
  <2>2. CASE nLe = 0
    <3>1. CardReads(bytes) = Reads(<<>>, 0)
      <4>1. n = 4 BY <2>1, <2>2
      <4> HIDE DEF Reads
      <4> QED BY <1>4, <4>1
    <3> QED
      BY <1>2, <1>5, <1>6, <2>2, <3>1
  <2>3. CASE nLe = 1
    <3>1. CardReads(bytes) = Reads(<<>>, ExpectedLength(bytes[5]))
      <4>1. n = 5 BY <2>1, <2>3
      <4> HIDE DEF Reads
      <4> QED BY <1>4, <4>1
    <3>2. bytes[5] = le[1] /\ nLe # 0
      BY <2>1, <2>3
    <3> QED
      BY <1>2, <1>5, <1>6, <3>1, <3>2, Zenon
  <2> QED
    BY <1>3, <2>2, <2>3
<1>7. CASE nData # 0
  <2>1. /\ nData > 0 /\ n > 5 /\ n = 5 + nData + nLe
        /\ bytes[5] = nData
        /\ SubSeq(bytes, 6, 5 + nData) = data
    BY <1>1, <1>2, <1>3, <1>7
  <2>2. CASE nLe = 0
    <3>1. n = 5 + nData /\ SubSeq(bytes, 6, n) = data
      BY <1>2, <2>1, <2>2
    <3>2. CardReads(bytes) = Reads(SubSeq(bytes, 6, n), 0)
      <4> HIDE DEF Reads
      <4> QED BY <1>2, <1>4, <2>1, <3>1
    <3> QED
      BY <1>5, <2>2, <3>1, <3>2
  <2>3. CASE nLe = 1
    <3>1. n = 6 + nData /\ SubSeq(bytes, 6, n - 1) = data
      BY <1>2, <2>1, <2>3
    <3>2. bytes[n] = le[1]
      BY <1>1, <1>2, <1>3, <1>7, <2>1, <2>3, <3>1
    <3>3. CardReads(bytes) =
             Reads(SubSeq(bytes, 6, n - 1), ExpectedLength(bytes[n]))
      <4> HIDE DEF Reads
      <4> QED BY <1>2, <1>4, <2>1, <3>1
    <3>4. nLe # 0
      BY <2>3
    <3> QED
      BY <1>5, <3>1, <3>2, <3>3, <3>4, Zenon
  <2> QED
    BY <1>3, <2>2, <2>3
<1> QED
  BY <1>6, <1>7

\* The four parts of a command that can be sent.
LEMMA PartsOfCommand ==
    ASSUME NEW c \in CommandApdu, ~ToBytesThrows(c)
    PROVE  /\ c.header \in Seq(Byte) /\ Lc(c.data) \in Seq(Byte)
           /\ c.data \in Seq(Byte) /\ Le(c) \in Seq(Byte)
           /\ Framed(c.header, Lc(c.data), c.data, Le(c))
           /\ Len(c.data) <= MaxCommandData
           /\ ~isLeSet(c) => Len(Le(c)) = 0
           /\ isLeSet(c) => /\ Len(Le(c)) = 1
                            /\ ExpectedLength(Le(c)[1]) = ExpectedLength(c.le)
<1>1. c.header \in [1..4 -> Byte] /\ c.data \in Seq(Byte) /\ c.le \in 0..LE_UNUSED
  BY DEF CommandApdu
<1>2. c.le \in Nat
  <2>1. 0..LE_UNUSED \subseteq Nat
    OBVIOUS
  <2> QED
    BY <1>1, <2>1, Zenon
<1>3. Len(c.data) <= 255 /\ (isLeSet(c) => c.le <= 256)
  <2>1. Len(c.data) \in Nat
    BY <1>1, EmptyIfLengthZero
  <2> QED
    BY <1>2, <2>1 DEF ToBytesThrows, MaxCommandData, MaxResponseData
<1>4. c.header \in Seq(Byte) /\ Len(c.header) = 4
  BY <1>1, HeaderIsSeq
<1>5. /\ Lc(c.data) \in Seq(Byte)
      /\ Len(c.data) = 0 => Len(Lc(c.data)) = 0
      /\ Len(c.data) # 0 => Len(Lc(c.data)) = 1 /\ Lc(c.data)[1] = Len(c.data)
  BY <1>1, <1>3, LcProperties
<1>6. /\ Le(c) \in Seq(Byte)
      /\ ~isLeSet(c) => Len(Le(c)) = 0
      /\ isLeSet(c) => /\ Len(Le(c)) = 1
                       /\ ExpectedLength(Le(c)[1]) = ExpectedLength(c.le)
  BY <1>2, <1>3, LeProperties
<1>7. Framed(c.header, Lc(c.data), c.data, Le(c))
  BY <1>4, <1>5, <1>6, Zenon DEF Framed
<1> QED
  BY <1>1, <1>3, <1>4, <1>5, <1>6, <1>7, Zenon DEF MaxCommandData

\* A card reads in the bytes of a command what the command means, for commands
\* of any data and any Le that can be sent.
LEMMA CardReadsMeaning ==
    ASSUME NEW c \in CommandApdu, ~ToBytesThrows(c)
    PROVE  CardReads(ToBytes(c)) = Meaning(c)
<1>1. CardReads(ToBytes(c)) =
         [header |-> c.header,
          data   |-> c.data,
          ne     |-> IF Len(Le(c)) = 0 THEN 0 ELSE ExpectedLength(Le(c)[1])]
  <2>1. /\ c.header \in Seq(Byte) /\ Lc(c.data) \in Seq(Byte)
        /\ c.data \in Seq(Byte) /\ Le(c) \in Seq(Byte)
        /\ Framed(c.header, Lc(c.data), c.data, Le(c))
    BY PartsOfCommand, Zenon
  <2> QED
    BY <2>1, CardReadsParts DEF ToBytes
<1>2. /\ ~isLeSet(c) => Len(Le(c)) = 0
      /\ isLeSet(c) => /\ Len(Le(c)) = 1
                       /\ ExpectedLength(Le(c)[1]) = ExpectedLength(c.le)
  BY PartsOfCommand
<1> QED
  BY <1>1, <1>2 DEF Meaning

-----------------------------------------------------------------------------
\* What is encoded and parsed has its type, and no command is longer than the
\* longest of the standard.
LEMMA ToBytesType ==
    ASSUME NEW c \in CommandApdu, ~ToBytesThrows(c)
    PROVE  ToBytes(c) \in Seq(Byte) /\ Len(ToBytes(c)) <= 6 + MaxCommandData
<1> DEFINE nH == Len(c.header)
           nLc == Len(Lc(c.data))
           nData == Len(c.data)
           nLe == Len(Le(c))
<1>1. /\ c.header \in Seq(Byte) /\ Lc(c.data) \in Seq(Byte)
      /\ c.data \in Seq(Byte) /\ Le(c) \in Seq(Byte)
      /\ Framed(c.header, Lc(c.data), c.data, Le(c))
      /\ nData <= MaxCommandData
  BY PartsOfCommand
<1>2. /\ ToBytes(c) \in Seq(Byte)
      /\ Len(ToBytes(c)) = nH + nLc + nData + nLe
  <2> HIDE DEF nData
  <2> QED
    BY <1>1, FourParts DEF ToBytes, nData
<1>3. nData \in Nat
  BY <1>1, EmptyIfLengthZero
<1>4. nH = 4 /\ nLc \in {0, 1} /\ nLe \in {0, 1}
  BY <1>1 DEF Framed
<1> HIDE DEF nH, nLc, nData, nLe
<1> QED
  BY <1>1, <1>2, <1>3, <1>4 DEF MaxCommandData

LEMMA SubSeqType ==
    ASSUME NEW S, NEW s \in Seq(S), NEW m \in Nat, m >= 1, NEW n \in Int, n <= Len(s)
    PROVE  SubSeq(s, m, n) \in Seq(S)
<1> DEFINE k == Len(s)
<1>1. k \in Nat /\ n <= k /\ \A i \in 1..k : s[i] \in S
  BY EmptyIfLengthZero, ElementOfSeq
<1> HIDE DEF k
<1>2. \A i \in m..n : s[i] \in S
  BY <1>1
<1> QED
  BY <1>2, SubSeqProperties

LEMMA FromBytesType ==
    ASSUME NEW bytes \in Seq(Byte), NEW u \in BOOLEAN, ~FromBytesThrows(bytes, u)
    PROVE  FromBytes(bytes, u) \in CommandApdu
<1> DEFINE n  == Len(bytes)
           le == IF u /\ n > 4 THEN <<bytes[n]>> ELSE <<>>
           nLe == Len(le)
<1>1. n \in Nat /\ n >= 4 /\ \A i \in 1..n : bytes[i] \in Byte
  <2>1. n \in Nat /\ \A i \in 1..n : bytes[i] \in Byte
    BY EmptyIfLengthZero, ElementOfSeq
  <2>2. ~(n < 4)
    BY DEF FromBytesThrows
  <2> HIDE DEF n
  <2> QED
    BY <2>1, <2>2
<1>2. FromBytes(bytes, u) =
         [header |-> SubSeq(bytes, 1, 4),
          data   |-> SubSeq(bytes, 6, n - nLe),
          le     |-> IF le = <<>> THEN LE_UNUSED ELSE le[1]]
  BY DEF FromBytes, Data
<1> HIDE DEF n
<1>3. SubSeq(bytes, 1, 4) \in [1..4 -> Byte]
  <2>1. \A i \in 1..4 : bytes[i] \in Byte
    BY <1>1
  <2>2. SubSeq(bytes, 1, 4) \in Seq(Byte) /\ Len(SubSeq(bytes, 1, 4)) = 4
    BY <2>1, SubSeqProperties
  <2> QED
    BY <2>2, LenProperties
<1>4. nLe \in {0, 1} /\ (IF le = <<>> THEN LE_UNUSED ELSE le[1]) \in 0..LE_UNUSED
  <2>1. Byte \subseteq 0..LE_UNUSED /\ LE_UNUSED \in 0..LE_UNUSED
    <3>1. \A m \in Nat : m >= 255 => 0..255 \subseteq 0..m /\ m \in 0..m
      OBVIOUS
    <3>2. LE_UNUSED \in Nat /\ LE_UNUSED >= 255
      BY DEF LE_UNUSED
    <3> QED
      BY <3>1, <3>2 DEF Byte
  <2>2. CASE u /\ n > 4
    <3>1. le = <<bytes[n]>> /\ bytes[n] \in Byte
      BY <1>1, <2>2
    <3> QED
      BY <2>1, <3>1, OneByte
  <2>3. CASE ~(u /\ n > 4)
    BY <2>1, <2>3, EmptySeq
  <2> QED
    BY <2>2, <2>3
<1> HIDE DEF le, nLe
<1>5. SubSeq(bytes, 6, n - nLe) \in Seq(Byte)
  <2>1. n - nLe \in Int /\ n - nLe <= n
    BY <1>1, <1>4
  <2> QED
    BY <2>1, SubSeqType DEF n
<1> QED
  BY <1>2, <1>3, <1>4, <1>5 DEF CommandApdu
=============================================================================
