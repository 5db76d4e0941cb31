----------------------------- MODULE ApduProofs -----------------------------
(***************************************************************************)
(* Theorems about the encoding of commands, for every command there is.    *)
(***************************************************************************)
EXTENDS ApduExchange, SharedLemmas

\* Hex digits are digits.
LEMMA HexType ==
    ASSUME NEW bytes \in Seq(Byte)
    PROVE  bytes2hexstr(bytes) \in Seq(0..15)
<1> DEFINE n == Len(bytes)
           digit(k) == IF k % 2 = 0 THEN bytes[k \div 2] % 16
                       ELSE bytes[(k + 1) \div 2] \div 16
<1>1. n \in Nat /\ \A i \in 1..n : bytes[i] \in Byte
  BY EmptyIfLengthZero, ElementOfSeq
<1>2. bytes2hexstr(bytes) = [k \in 1..(2 * n) |-> digit(k)]
  BY DEF bytes2hexstr
<1> HIDE DEF n
<1>3. ASSUME NEW k \in 1..(2 * n) PROVE digit(k) \in 0..15
  <2>1. \A byte \in Byte : byte % 16 \in 0..15 /\ byte \div 16 \in 0..15
    BY DEF Byte
  <2>2. k % 2 = 0 => k \div 2 \in 1..n
    BY <1>1
  <2>3. k % 2 # 0 => (k + 1) \div 2 \in 1..n
    BY <1>1
  <2> QED
    BY <1>1, <2>1, <2>2, <2>3
<1> HIDE DEF digit
<1> DEFINE m == 2 * n
<1>4. m \in Nat
  BY <1>1
<1>5. bytes2hexstr(bytes) \in [1..m -> 0..15]
  BY <1>2, <1>3
<1> HIDE DEF m
<1> QED
  BY <1>4, <1>5, SeqDef

\* A response is the same bytes again when it is put together.
LEMMA ResponseRoundTrip ==
    ASSUME NEW bytes \in Seq(Byte), ~ResponseFromBytesThrows(bytes)
    PROVE  ResponseToBytes(ResponseFromBytes(bytes)) = bytes
<1> DEFINE n    == Len(bytes)
           body == SubSeq(bytes, 1, n - 2)
           tail == <<bytes[n - 1], bytes[n]>>
<1>1. n \in Nat /\ n >= 2 /\ \A i \in 1..n : bytes[i] \in Byte
  <2>1. n \in Nat /\ \A i \in 1..n : bytes[i] \in Byte
    BY EmptyIfLengthZero, ElementOfSeq
  <2>2. ~(n < 2)
    BY DEF ResponseFromBytesThrows
  <2> HIDE DEF n
  <2> QED
    BY <2>1, <2>2
<1>2. ResponseToBytes(ResponseFromBytes(bytes)) = body \o tail
  BY DEF ResponseToBytes, ResponseFromBytes
<1> HIDE DEF n
<1>3. /\ body \in Seq(Byte)
      /\ Len(body) = n - 2
      /\ \A i \in 1..(n - 2) : body[i] = bytes[i]
  <2> DEFINE k == n - 2
  <2>1. k \in Nat /\ \A i \in 1..k : bytes[i] \in Byte
    BY <1>1
  <2> HIDE DEF k
  <2>2. /\ SubSeq(bytes, 1, k) \in Seq(Byte)
        /\ Len(SubSeq(bytes, 1, k)) = IF 1 <= k THEN k - 1 + 1 ELSE 0
        /\ \A i \in 1..(k - 1 + 1) : SubSeq(bytes, 1, k)[i] = bytes[1 + i - 1]
    BY <2>1, SubSeqProperties
  <2>3. /\ Len(SubSeq(bytes, 1, k)) = k
        /\ \A i \in 1..k : SubSeq(bytes, 1, k)[i] = bytes[i]
    BY <2>1, <2>2
  <2> QED
    BY <2>2, <2>3 DEF k
<1>4. /\ tail \in Seq(Byte) /\ Len(tail) = 2
      /\ tail[1] = bytes[n - 1] /\ tail[2] = bytes[n]
  BY <1>1
<1> HIDE DEF body, tail
<1>5. /\ body \o tail \in Seq(Byte)
      /\ Len(body \o tail) = n
      /\ \A i \in 1..n : (body \o tail)[i] = IF i <= n - 2 THEN body[i] ELSE tail[i - (n - 2)]
  <2>1. /\ body \o tail \in Seq(Byte)
        /\ Len(body \o tail) = Len(body) + Len(tail)
        /\ \A i \in 1..(Len(body) + Len(tail)) :
              (body \o tail)[i] = IF i <= Len(body) THEN body[i] ELSE tail[i - Len(body)]
    BY <1>3, <1>4, ConcatProperties
  <2>2. Len(body) + Len(tail) = n
    BY <1>1, <1>3, <1>4
  <2> QED
    BY <1>3, <2>1, <2>2
<1>6. ASSUME NEW i \in 1..n PROVE (body \o tail)[i] = bytes[i]
  <2>1. CASE i <= n - 2
    BY <1>1, <1>3, <1>5, <2>1
  <2>2. CASE i = n - 1
    <3>1. ~(i <= n - 2) /\ i - (n - 2) = 1
      BY <1>1, <2>2
    <3> QED
      BY <1>4, <1>5, <2>2, <3>1
  <2>3. CASE i = n
    <3>1. ~(i <= n - 2) /\ i - (n - 2) = 2
      BY <1>1, <2>3
    <3> QED
      BY <1>4, <1>5, <2>3, <3>1
  <2>4. i <= n - 2 \/ i = n - 1 \/ i = n
    BY <1>1
  <2> QED
    BY <2>1, <2>2, <2>3, <2>4
<1> QED
  BY <1>2, <1>5, <1>6, SeqEqual DEF n

\* What is written in hex digits can be read back.
LEMMA HexRoundTrip ==
    ASSUME NEW bytes \in Seq(Byte)
    PROVE  Unhex(bytes2hexstr(bytes)) = bytes
<1> DEFINE n      == Len(bytes)
           m      == 2 * n
           digits == bytes2hexstr(bytes)
<1>1. n \in Nat /\ \A i \in 1..n : bytes[i] \in Byte
  BY EmptyIfLengthZero, ElementOfSeq
<1>2. digits = [k \in 1..m |-> IF k % 2 = 0 THEN bytes[k \div 2] % 16
                               ELSE bytes[(k + 1) \div 2] \div 16]
  BY DEF bytes2hexstr
<1>3. bytes = [i \in 1..n |-> bytes[i]]
  BY LenProperties
<1>4. digits \in Seq(0..15)
  BY HexType
<1> HIDE DEF n, digits
<1>5. Len(digits) = m
  <2>1. DOMAIN digits = 1..m /\ DOMAIN digits = 1..Len(digits) /\ Len(digits) \in Nat
    BY <1>2, <1>4, LenProperties
  <2>2. m \in Nat
    BY <1>1
  <2> HIDE DEF m
  <2> QED
    BY <2>1, <2>2
<1>6. Len(digits) \div 2 = n
  BY <1>1, <1>5
<1>7. ASSUME NEW i \in 1..n PROVE 16 * digits[2 * i - 1] + digits[2 * i] = bytes[i]
  <2>1. 2 * i - 1 \in 1..m /\ (2 * i - 1) % 2 # 0 /\ (2 * i - 1 + 1) \div 2 = i
    BY <1>1
  <2>2. 2 * i \in 1..m /\ (2 * i) % 2 = 0 /\ (2 * i) \div 2 = i
    BY <1>1
  <2> DEFINE odd  == 2 * i - 1
             even == 2 * i
  <2> HIDE DEF odd, even, m
  <2>3. digits[odd] = bytes[(odd + 1) \div 2] \div 16 /\ digits[even] = bytes[even \div 2] % 16
    BY <1>2, <2>1, <2>2 DEF odd, even
  <2>4. digits[2 * i - 1] = bytes[i] \div 16 /\ digits[2 * i] = bytes[i] % 16
    BY <2>1, <2>2, <2>3 DEF odd, even
  <2> HIDE DEF odd, even, m
  <2>5. \A byte \in Byte : 16 * (byte \div 16) + (byte % 16) = byte
    BY DEF Byte
  <2> QED
    BY <1>1, <2>4, <2>5
<1> QED
  BY <1>3, <1>6, <1>7 DEF Unhex, digits

\* Bytes are what they are cut into.
LEMMA OneByteCut ==
    ASSUME NEW s \in Seq(Byte), NEW k \in 1..Len(s)
    PROVE  SubSeq(s, k, k) = <<s[k]>>
<1> DEFINE n == Len(s)
<1>1. n \in Nat /\ s[k] \in Byte
  BY EmptyIfLengthZero, ElementOfSeq
<1>2. SubSeq(s, k, k) = <<s[k]>> \o SubSeq(s, k + 1, k)
  <2>1. k \in k..Len(s)
    OBVIOUS
  <2> QED
    BY <2>1, SubSeqRecursiveFirst
<1>3. SubSeq(s, k + 1, k) = <<>>
  BY SubSeqEmpty
<1>4. <<s[k]>> \in Seq(Byte)
  BY <1>1, OneByte
<1> QED
  BY <1>2, <1>3, <1>4, ConcatEmptySeq

LEMMA FourCuts ==
    ASSUME NEW s \in Seq(Byte), NEW i \in 4..Len(s), NEW j \in i..Len(s)
    PROVE  SubSeq(s, 1, 4) \o SubSeq(s, 5, i) \o SubSeq(s, i + 1, j)
              \o SubSeq(s, j + 1, Len(s)) = s
<1> DEFINE n == Len(s)
<1>1. n \in Nat
  BY EmptyIfLengthZero
<1>2. SubSeq(s, 1, 4) \o SubSeq(s, 5, i) = SubSeq(s, 1, i)
  <2>1. 1 \in 1..(Len(s) + 1) /\ 4 \in (1 - 1)..Len(s) /\ i \in 4..Len(s)
    <3> HIDE DEF n
    <3> QED BY <1>1 DEF n
  <2>2. SubSeq(s, 1, 4) \o SubSeq(s, 4 + 1, i) = SubSeq(s, 1, i)
    BY <2>1, ConcatAdjacentSubSeq
  <2> QED
    BY <2>2
<1>3. SubSeq(s, 1, i) \o SubSeq(s, i + 1, j) = SubSeq(s, 1, j)
  <2>1. 1 \in 1..(Len(s) + 1) /\ i \in (1 - 1)..Len(s) /\ j \in i..Len(s)
    BY <1>1
  <2> QED
    BY <2>1, ConcatAdjacentSubSeq
<1>4. SubSeq(s, 1, j) \o SubSeq(s, j + 1, n) = SubSeq(s, 1, n)
  <2>1. 1 \in 1..(Len(s) + 1) /\ j \in (1 - 1)..Len(s) /\ n \in j..Len(s)
    BY <1>1
  <2> QED
    BY <2>1, ConcatAdjacentSubSeq
<1>5. SubSeq(s, 1, n) = s
  BY SubSeqFull
<1> QED
  BY <1>2, <1>3, <1>4, <1>5

\* A well-formed command, parsed as what it is, is the same bytes when it is
\* encoded again, and no step of that throws.
LEMMA CommandRoundTrip ==
    ASSUME NEW bytes \in Seq(Byte), CardReads(bytes) # Malformed,
           NEW u \in BOOLEAN, u <=> HasLe(bytes)
    PROVE  /\ ~FromBytesThrows(bytes, u)
           /\ ~ToBytesThrows(FromBytes(bytes, u))
           /\ ToBytes(FromBytes(bytes, u)) = bytes
<1> DEFINE n  == Len(bytes)
           e  == bytes[5]
           c  == FromBytes(bytes, u)
           cut(i, j) == SubSeq(bytes, i, j)
           Reads(d, ne) == [header |-> cut(1, 4), data |-> d, ne |-> ne]
<1>1. n \in Nat /\ \A i \in 1..n : bytes[i] \in Byte
  BY EmptyIfLengthZero, ElementOfSeq
<1>2. \A b \in Byte : /\ b \in Nat /\ b <= 255 /\ b # LE_UNUSED /\ b % 256 = b
                      /\ ExpectedLength(b) > 0
  <2> SUFFICES ASSUME NEW b \in Byte
               PROVE  /\ b \in Nat /\ b <= 255 /\ b # LE_UNUSED /\ b % 256 = b
                      /\ ExpectedLength(b) > 0
    OBVIOUS
  <2>1. b \in Nat /\ b <= 255
    BY DEF Byte
  <2>2. b % 256 = b
    <3>1. b <= 256
      BY <2>1
    <3> QED
      BY <2>1, <3>1, Cast
  <2>3. b # LE_UNUSED
    BY <2>1 DEF LE_UNUSED
  <2>4. ExpectedLength(b) > 0
    BY <2>1 DEF ExpectedLength
  <2> QED
    BY <2>1, <2>2, <2>3, <2>4
<1>3. CardReads(bytes) =
         LET lc == IF n > 5 THEN e ELSE 0 IN
         CASE n = 4                -> Reads(<<>>, 0)
           [] n = 5                -> Reads(<<>>, ExpectedLength(e))
           [] lc > 0 /\ n = 5 + lc -> Reads(cut(6, n), 0)
           [] lc > 0 /\ n = 6 + lc -> Reads(cut(6, n - 1), ExpectedLength(bytes[n]))
           [] OTHER                -> Malformed
  BY DEF CardReads
<1>4. u <=> CardReads(bytes).ne > 0
  BY DEF HasLe
<1>5. ~u => c = [header |-> cut(1, 4), data |-> cut(6, n), le |-> LE_UNUSED]
  <2> SUFFICES ASSUME ~u
               PROVE  c = [header |-> cut(1, 4), data |-> cut(6, n), le |-> LE_UNUSED]
    OBVIOUS
  <2>1. c = [header |-> cut(1, 4), data |-> cut(6, n - Len(<<>>)), le |-> LE_UNUSED]
    BY DEF FromBytes, Data
  <2>2. n - Len(<<>>) = n
    BY <1>1, EmptySeq
  <2> QED
    BY <2>1, <2>2
<1>6. u /\ n > 4 => c = [header |-> cut(1, 4), data |-> cut(6, n - 1), le |-> bytes[n]]
  BY DEF FromBytes, Data
<1>7. /\ \A i \in 4..n : \A j \in i..n :
            cut(1, 4) \o cut(5, i) \o cut(i + 1, j) \o cut(j + 1, n) = bytes
      /\ \A k \in 1..n : cut(k, k) = <<bytes[k]>>
  BY FourCuts, OneByteCut
<1>8. \A i, j \in Int : j < i => cut(i, j) = <<>>
  BY SubSeqEmpty
<1>9. \A i, j \in Int : 1 <= i /\ i <= j /\ j <= n =>
         cut(i, j) \in Seq(Byte) /\ Len(cut(i, j)) = j - i + 1
  <2> HIDE DEF n
  <2> SUFFICES ASSUME NEW i \in Int, NEW j \in Int, 1 <= i, i <= j, j <= n
               PROVE  cut(i, j) \in Seq(Byte) /\ Len(cut(i, j)) = j - i + 1
    OBVIOUS
  <2>1. \A k \in i..j : bytes[k] \in Byte
    BY <1>1
  <2> QED
    BY <2>1, SubSeqProperties
<1>10. ~FromBytesThrows(bytes, u) <=> ~(n < 4) /\ ~(n = 5 /\ ~u) /\ ~(n = 6 /\ u)
  BY DEF FromBytesThrows
<1> SUFFICES ~FromBytesThrows(bytes, u) /\ ~ToBytesThrows(c) /\ ToBytes(c) = bytes
  OBVIOUS
<1> HIDE DEF n, e, c, cut
<1>11. n >= 5 => e \in Nat /\ e <= 255 /\ e # LE_UNUSED /\ e % 256 = e /\ ExpectedLength(e) > 0
  BY <1>1, <1>2 DEF e
<1>12. n >= 5 => /\ bytes[n] \in Nat /\ bytes[n] <= 255 /\ bytes[n] # LE_UNUSED
                 /\ bytes[n] % 256 = bytes[n] /\ ExpectedLength(bytes[n]) > 0
  BY <1>1, <1>2
<1>13. \/ n = 4 /\ ~u
       \/ n = 5 /\ u
       \/ n > 5 /\ e > 0 /\ n = 5 + e /\ ~u
       \/ n > 5 /\ e > 0 /\ n = 6 + e /\ u
  <2>1. CASE n = 4
    <3>1. CardReads(bytes) = Reads(<<>>, 0)
      BY <1>3, <2>1
    <3> QED
      BY <1>4, <2>1, <3>1
  <2>2. CASE n = 5
    <3>1. CardReads(bytes) = Reads(<<>>, ExpectedLength(e))
      BY <1>3, <2>2
    <3> QED
      BY <1>4, <1>11, <2>2, <3>1
  <2>3. CASE n > 5 /\ e > 0 /\ n = 5 + e
    <3>1. CardReads(bytes) = Reads(cut(6, n), 0)
      <4>1. n # 4 /\ n # 5 /\ e \in Nat
        BY <1>1, <1>11, <2>3
      <4> HIDE DEF Reads
      <4> QED BY <1>3, <2>3, <4>1
    <3> QED
      BY <1>4, <2>3, <3>1
  <2>4. CASE n > 5 /\ e > 0 /\ n = 6 + e
    <3>1. CardReads(bytes) = Reads(cut(6, n - 1), ExpectedLength(bytes[n]))
      <4>1. e \in Nat /\ n # 5 + e
        BY <1>1, <1>11, <2>4
      <4> HIDE DEF Reads
      <4> QED BY <1>1, <1>3, <2>4, <4>1
    <3> QED
      BY <1>1, <1>4, <1>12, <2>4, <3>1
  <2> HIDE DEF Reads
  <2> QED
    BY <1>1, <1>3, <2>1, <2>2, <2>3, <2>4
<1>14. Len(<<>>) = 0 /\ <<>> \in Seq(Byte)
  BY EmptySeq
<1>15. CASE n = 4 /\ ~u
  <2>1. c.header = cut(1, 4) /\ c.data = <<>> /\ c.le = LE_UNUSED
    BY <1>5, <1>8, <1>15
  <2>2. ~ToBytesThrows(c)
    BY <1>14, <2>1 DEF ToBytesThrows, isLeSet, MaxCommandData
  <2>3. ToBytes(c) = cut(1, 4) \o <<>> \o <<>> \o <<>>
    BY <2>1 DEF ToBytes, Lc, Le, isLeSet
  <2>4. cut(1, 4) \o cut(5, 4) \o cut(4 + 1, 4) \o cut(4 + 1, n) = bytes
    BY <1>7, <1>15
  <2>5. cut(5, 4) = <<>> /\ cut(4 + 1, 4) = <<>> /\ cut(4 + 1, n) = <<>>
    BY <1>8, <1>15
  <2>6. ~FromBytesThrows(bytes, u)
    BY <1>10, <1>15
  <2> QED
    BY <2>2, <2>3, <2>4, <2>5, <2>6, Zenon
<1>16. CASE n = 5 /\ u
  <2>1. c.header = cut(1, 4) /\ c.data = <<>> /\ c.le = e
    BY <1>6, <1>8, <1>16 DEF e
  <2>2. isLeSet(c) /\ ~ToBytesThrows(c)
    BY <1>11, <1>14, <1>16, <2>1
       DEF ToBytesThrows, isLeSet, MaxCommandData, MaxResponseData
  <2>3. ToBytes(c) = cut(1, 4) \o <<>> \o <<>> \o <<e>>
    BY <1>11, <1>16, <2>1, <2>2 DEF ToBytes, Lc, Le
  <2>4. cut(1, 4) \o cut(5, 4) \o cut(4 + 1, 4) \o cut(4 + 1, n) = bytes
    BY <1>7, <1>16
  <2>5. cut(5, 4) = <<>> /\ cut(4 + 1, 4) = <<>>
    BY <1>8
  <2>6. cut(4 + 1, n) = <<e>>
    BY <1>7, <1>16 DEF e
  <2>7. ~FromBytesThrows(bytes, u)
    <3>1. ~(n < 4) /\ n # 6
      BY <1>16
    <3> QED
      BY <1>10, <1>16, <3>1, Zenon
  <2> QED
    BY <2>2, <2>3, <2>4, <2>5, <2>6, <2>7, Zenon
<1>17. CASE n > 5 /\ e > 0 /\ n = 5 + e /\ ~u
  <2>1. c.header = cut(1, 4) /\ c.data = cut(6, n) /\ c.le = LE_UNUSED
    BY <1>5, <1>17
  <2>2. c.data \in Seq(Byte) /\ Len(c.data) = e /\ c.data # <<>>
    <3>1. cut(6, n) \in Seq(Byte) /\ Len(cut(6, n)) = n - 6 + 1
      BY <1>1, <1>9, <1>17
    <3>2. n - 6 + 1 = e
      BY <1>1, <1>11, <1>17
    <3> QED
      BY <1>14, <1>17, <2>1, <3>1, <3>2
  <2>3. ~isLeSet(c) /\ ~ToBytesThrows(c)
    <3>1. ~isLeSet(c)
      BY <2>1 DEF isLeSet
    <3> QED
      BY <1>11, <1>17, <2>2, <3>1 DEF ToBytesThrows, MaxCommandData
  <2>4. ToBytes(c) = cut(1, 4) \o <<e>> \o cut(6, n) \o <<>>
    <3>1. Lc(c.data) = <<e>>
      BY <1>11, <1>17, <2>2 DEF Lc
    <3>2. Le(c) = <<>>
      BY <2>3 DEF Le
    <3> QED
      BY <2>1, <3>1, <3>2, Zenon DEF ToBytes
  <2>5. 5 \in 4..n /\ n \in 5..n /\ 5 \in 1..n
    BY <1>1, <1>17
  <2>6. cut(1, 4) \o cut(5, 5) \o cut(5 + 1, n) \o cut(n + 1, n) = bytes
    BY <1>7, <2>5
  <2>7. cut(5, 5) = <<e>> /\ cut(n + 1, n) = <<>> /\ cut(5 + 1, n) = cut(6, n)
    BY <1>1, <1>7, <1>8, <2>5 DEF e
  <2>8. ~FromBytesThrows(bytes, u)
    BY <1>1, <1>10, <1>17
  <2> QED
    BY <2>3, <2>4, <2>6, <2>7, <2>8, Zenon
<1>18. CASE n > 5 /\ e > 0 /\ n = 6 + e /\ u
  <2> DEFINE k == n - 1
  <2>1. c.header = cut(1, 4) /\ c.data = cut(6, k) /\ c.le = bytes[n]
    BY <1>1, <1>6, <1>18
  <2>2. k \in Int /\ 6 <= k /\ k <= n /\ k - 6 + 1 = e /\ k + 1 = n
    BY <1>1, <1>11, <1>18
  <2>3. 5 \in 4..n /\ k \in 5..n /\ 5 \in 1..n /\ n \in 1..n
    BY <1>1, <2>2, <1>18
  <2> HIDE DEF k
  <2>4. c.data \in Seq(Byte) /\ Len(c.data) = e /\ c.data # <<>>
    <3>1. c.data \in Seq(Byte) /\ Len(c.data) = e
      BY <1>9, <2>1, <2>2
    <3> QED
      BY <1>14, <1>18, <3>1
  <2>5. isLeSet(c) /\ ~ToBytesThrows(c)
    <3>1. isLeSet(c)
      BY <1>1, <1>12, <1>18, <2>1 DEF isLeSet
    <3>2. ~(Len(c.data) > 255)
      BY <1>1, <1>11, <1>18, <2>4
    <3>3. ~(c.le > 256)
      BY <1>1, <1>12, <1>18, <2>1
    <3> QED
      BY <3>1, <3>2, <3>3, Zenon DEF ToBytesThrows, MaxCommandData, MaxResponseData
  <2>6. ToBytes(c) = cut(1, 4) \o <<e>> \o cut(6, k) \o <<bytes[n]>>
    BY <1>11, <1>12, <1>18, <2>1, <2>4, <2>5 DEF ToBytes, Lc, Le
  <2>7. cut(1, 4) \o cut(5, 5) \o cut(5 + 1, k) \o cut(k + 1, n) = bytes
    BY <1>7, <2>3
  <2>8. cut(5, 5) = <<e>> /\ cut(k + 1, n) = <<bytes[n]>> /\ cut(5 + 1, k) = cut(6, k)
    <3>1. cut(5, 5) = <<e>> /\ cut(n, n) = <<bytes[n]>>
      BY <1>7, <2>3 DEF e
    <3>2. k + 1 = n /\ 5 + 1 = 6
      BY <2>2
    <3> QED
      BY <3>1, <3>2, Zenon
  <2>9. ~(n < 4) /\ n # 5 /\ n # 6
    BY <1>1, <1>11, <1>18
  <2>10. ~FromBytesThrows(bytes, u)
    BY <1>10, <2>9
  <2> QED
    BY <2>5, <2>6, <2>7, <2>8, <2>10, Zenon
<1> QED
  BY <1>13, <1>15, <1>16, <1>17, <1>18

-----------------------------------------------------------------------------
\* What holds in every state of an exchange: while the card has the command it
\* has its bytes, a reply is there only after them, and only the end has an
\* outcome.
SentInv == phase \in {"card", "response"} =>
              ~ToBytesThrows(command) /\ sent = ToBytes(command)

OrderInv ==
    /\ phase \in {"idle", "transmit", "card"} => reply = <<>>
    /\ phase # "done" => outcome = "none"

ExchangeInv == TypeOK /\ SentInv /\ OrderInv

LEMMA ExchangeInit == Init => ExchangeInv
<1> SUFFICES ASSUME Init PROVE ExchangeInv
  OBVIOUS
<1>1. <<>> \in Seq(Byte) /\ Len(<<>>) = 0 /\ <<>> \in Seq(Seq(0..15))
  BY EmptySeq
<1>2. NoCommand \in CommandApdu
  <2>1. <<0, 0, 0, 0>> \in [1..4 -> Byte]
    BY DEF Byte
  <2>2. LE_UNUSED \in 0..LE_UNUSED
    BY DEF LE_UNUSED
  <2> QED
    BY <1>1, <2>1, <2>2 DEF NoCommand, CommandApdu
<1>3. TypeOK
  <2>1. Len(sent) <= 6 + MaxCommandData
    BY <1>1 DEF Init, MaxCommandData
  <2>2. report \in Seq(Seq(0..15)) /\ useLe \in BOOLEAN
    BY <1>1 DEF Init, NoReport
  <2> QED
    BY <1>1, <1>2, <2>1, <2>2 DEF Init, TypeOK
<1> QED
  BY <1>3 DEF Init, ExchangeInv, SentInv, OrderInv

LEMMA ExchangeStep == ExchangeInv /\ [Next]_vars => ExchangeInv'
<1> SUFFICES ASSUME ExchangeInv, [Next]_vars PROVE ExchangeInv'
  OBVIOUS
<1> USE DEF ExchangeInv, Leave
<1>1. CASE MakeCommand
  <2>1. expected' \in Seq(Byte) /\ command' \in CommandApdu
    BY <1>1, ExchangeAssumption DEF MakeCommand
  <2>2. TypeOK'
    BY <1>1, <2>1 DEF TypeOK, MakeCommand
  <2> QED
    BY <1>1, <2>2 DEF MakeCommand, SentInv, OrderInv
<1>2. CASE ParseCommand
  <2>1. /\ expected' \in Seq(Byte) /\ given' \in Seq(Byte) /\ useLe' \in BOOLEAN
    BY <1>2, ExchangeAssumption DEF ParseCommand
  <2>2. command' \in CommandApdu
    BY <1>2, <2>1, FromBytesType DEF ParseCommand, TypeOK
  <2>3. TypeOK'
    BY <1>2, <2>1, <2>2 DEF TypeOK, ParseCommand
  <2> QED
    BY <1>2, <2>3 DEF ParseCommand, SentInv, OrderInv
<1>3. CASE Transmit
  <2>1. sent' \in Seq(Byte) /\ Len(sent') <= 6 + MaxCommandData
    BY <1>3, ToBytesType DEF Transmit, TypeOK
  <2>2. TypeOK'
    BY <1>3, <2>1 DEF TypeOK, Transmit
  <2> QED
    BY <1>3, <2>2 DEF Transmit, SentInv, OrderInv
<1>4. CASE CardAnswers
  <2>1. reply' \in Seq(Byte)
    BY <1>4, ExchangeAssumption DEF CardAnswers
  <2>2. TypeOK'
    BY <1>4, <2>1 DEF TypeOK, CardAnswers
  <2> QED
    BY <1>4, <2>2 DEF CardAnswers, SentInv, OrderInv
<1>5. CASE Compare
  <2>1. report' \in Seq(Seq(0..15))
    <3>1. report' = report \/ \E r : /\ ~ResponseFromBytesThrows(reply)
                                    /\ r = ResponseFromBytes(reply)
                                    /\ report' = UnexpectedResponseError(r)
      BY <1>5 DEF Compare
    <3>2. CASE ~ResponseFromBytesThrows(reply)
               /\ report' = UnexpectedResponseError(ResponseFromBytes(reply))
      <4>1. /\ ToBytes(command) \in Seq(Byte)
            /\ expected \in Seq(Byte)
            /\ ResponseToBytes(ResponseFromBytes(reply)) \in Seq(Byte)
        BY <1>5, <3>2, ToBytesType, ResponseRoundTrip DEF Compare, SentInv, TypeOK
      <4> QED
        BY <3>2, <4>1, HexType DEF UnexpectedResponseError
    <3> QED
      BY <3>1, <3>2 DEF TypeOK
  <2>2. outcome' \in {"returned", "invalid_argument", "Error", "UnexpectedResponseError"}
    BY <1>5 DEF Compare
  <2>3. TypeOK'
    BY <1>5, <2>1, <2>2 DEF TypeOK, Compare
  <2>4. phase' = "done"
    BY <1>5 DEF Compare
  <2> QED
    BY <2>3, <2>4 DEF SentInv, OrderInv
<1>6. CASE UNCHANGED vars
  BY <1>6 DEF vars, TypeOK, SentInv, OrderInv
<1> QED
  BY <1>1, <1>2, <1>3, <1>4, <1>5, <1>6 DEF Next

THEOREM ExchangeInvariant == Spec => []ExchangeInv
  BY ExchangeInit, ExchangeStep, PTL DEF Spec

\* Every variable of an exchange has its type, whatever commands, replies and
\* expectations there are, and no command is longer than a short one can be.
THEOREM TypeCorrect == Spec => []TypeOK
<1>1. ExchangeInv => TypeOK
  BY DEF ExchangeInv
<1> QED
  BY <1>1, ExchangeInvariant, PTL

\* The card reads what was meant, for every command there is.
THEOREM Understood == Spec => []CardUnderstands
<1>1. ExchangeInv => CardUnderstands
  BY CardReadsMeaning DEF ExchangeInv, TypeOK, SentInv, CardUnderstands
<1> QED
  BY <1>1, ExchangeInvariant, PTL

\* Whatever the card replies, returned means that it replied what was expected.
THEOREM ReturnedIsExpected == Spec => []ReturnedMeansExpected
<1>1. Init => ReturnedMeansExpected
  BY DEF Init, ReturnedMeansExpected
<1>2. ExchangeInv /\ ReturnedMeansExpected /\ [Next]_vars => ReturnedMeansExpected'
  <2> SUFFICES ASSUME ExchangeInv, ReturnedMeansExpected, [Next]_vars
               PROVE  ReturnedMeansExpected'
    OBVIOUS
  <2> USE DEF ReturnedMeansExpected
  <2>1. CASE MakeCommand
    BY <2>1 DEF MakeCommand
  <2>2. CASE ParseCommand \/ Transmit
    <3>1. reply' = <<>>
      BY <2>2 DEF ParseCommand, Transmit, ExchangeInv, OrderInv
    <3> QED
      BY <3>1
  <2>3. CASE CardAnswers
    BY <2>3 DEF CardAnswers
  <2>4. CASE Compare
    <3>1. UNCHANGED <<reply, expected>> /\ reply \in Seq(Byte)
      BY <2>4 DEF Compare, ExchangeInv, TypeOK
    <3>2. outcome' = "returned" => reply = expected
      BY <2>4, <3>1, ResponseRoundTrip DEF Compare, Leave, AsExpected
    <3>3. reply = APDU_RESPONSE_OK => isOK(ResponseFromBytes(reply))
      BY DEF APDU_RESPONSE_OK, isOK, ResponseFromBytes
    <3>4. reply = expected /\ Len(reply) >= 2 /\ LetThrough(ResponseFromBytes(reply))
             => outcome' = "returned"
      <4> SUFFICES ASSUME reply = expected, Len(reply) >= 2,
                          LetThrough(ResponseFromBytes(reply))
                   PROVE  outcome' = "returned"
        OBVIOUS
      <4>1. ~ResponseFromBytesThrows(reply)
        <5>1. Len(reply) \in Nat
          BY <3>1, EmptyIfLengthZero
        <5> QED
          BY <5>1 DEF ResponseFromBytesThrows
      <4>2. AsExpected(ResponseFromBytes(reply))
        BY <3>1, <4>1, ResponseRoundTrip DEF AsExpected
      <4> QED
        BY <2>4, <4>1, <4>2 DEF Compare, Leave
    <3> QED
      BY <3>1, <3>2, <3>3, <3>4
  <2>5. CASE UNCHANGED vars
    BY <2>5 DEF vars
  <2> QED
    BY <2>1, <2>2, <2>3, <2>4, <2>5 DEF Next
<1> QED
  BY <1>1, <1>2, ExchangeInvariant, PTL DEF Spec

\* The digits in the exception are those of the bytes, for all bytes, and tell
\* the two responses apart.
THEOREM DifferenceShown == Spec => []ErrorShowsDifference
<1>1. Init => ErrorShowsDifference
  BY DEF Init, ErrorShowsDifference
<1>2. ExchangeInv /\ ErrorShowsDifference /\ [Next]_vars => ErrorShowsDifference'
  <2> SUFFICES ASSUME ExchangeInv, ErrorShowsDifference, [Next]_vars,
                      outcome' = "UnexpectedResponseError"
               PROVE  /\ Unhex(report[1])' = sent'
                      /\ Unhex(report[2])' = expected'
                      /\ Unhex(report[3])' = reply'
                      /\ report'[2] # report'[3]
    BY DEF ErrorShowsDifference
  <2>1. Compare \/ UNCHANGED vars
    BY DEF ExchangeInv, OrderInv, Next, MakeCommand, ParseCommand, Transmit,
           CardAnswers, Leave
  <2>2. CASE UNCHANGED vars
    BY <2>2 DEF vars, ErrorShowsDifference
  <2>3. CASE Compare
    <3>1. /\ phase = "response" /\ UNCHANGED <<expected, sent, reply>>
          /\ ~ResponseFromBytesThrows(reply)
          /\ ~AsExpected(ResponseFromBytes(reply))
          /\ report' = UnexpectedResponseError(ResponseFromBytes(reply))
      BY <2>3 DEF Compare, Leave
    <3>2. /\ sent = ToBytes(command) /\ sent \in Seq(Byte)
          /\ expected \in Seq(Byte) /\ reply \in Seq(Byte)
      BY <3>1 DEF ExchangeInv, SentInv, TypeOK
    <3>3. ResponseToBytes(ResponseFromBytes(reply)) = reply
      BY <3>1, <3>2, ResponseRoundTrip
    <3>4. report' = <<bytes2hexstr(sent), bytes2hexstr(expected), bytes2hexstr(reply)>>
      BY <3>1, <3>2, <3>3 DEF UnexpectedResponseError
    <3>5. /\ Unhex(bytes2hexstr(sent)) = sent
          /\ Unhex(bytes2hexstr(expected)) = expected
          /\ Unhex(bytes2hexstr(reply)) = reply
      BY <3>2, HexRoundTrip
    <3>6. expected # reply
      BY <3>1, <3>3 DEF AsExpected
    <3>7. bytes2hexstr(expected) # bytes2hexstr(reply)
      BY <3>5, <3>6, Zenon
    <3> QED
      BY <3>1, <3>4, <3>5, <3>7
  <2> QED
    BY <2>1, <2>2, <2>3
<1> QED
  BY <1>1, <1>2, ExchangeInvariant, PTL DEF Spec

\* A well-formed command that was parsed as what it is has not thrown, and the
\* card has its bytes or will have them.
ParsedInv ==
    given # <<>> /\ CardReads(given) # Malformed /\ useLe = HasLe(given) =>
       /\ command = FromBytes(given, useLe)
       /\ phase = "transmit" => sent = <<>>
       /\ phase # "transmit" => sent = given

IdleInv == phase = "idle" => given = <<>> /\ sent = <<>>

\* Bytes that are a command reach the card as they are, whatever they are, and
\* nothing is thrown before.
THEOREM BytesAreSent == Spec => []BytesReachCard
<1> DEFINE Inv == ParsedInv /\ IdleInv
<1>1. Init => Inv
  BY DEF Init, ParsedInv, IdleInv
<1>2. ExchangeInv /\ Inv /\ [Next]_vars => Inv'
  <2> SUFFICES ASSUME ExchangeInv, ParsedInv, IdleInv, [Next]_vars
               PROVE  ParsedInv' /\ IdleInv'
    OBVIOUS
  <2>1. CASE MakeCommand
    BY <2>1 DEF MakeCommand, ParsedInv, IdleInv
  <2>2. CASE ParseCommand
    <3>1. phase' # "idle"
      BY <2>2 DEF ParseCommand, Leave
    <3>2. given' \in Seq(Byte) /\ useLe' \in BOOLEAN /\ sent' = <<>>
      BY <2>2, ExchangeAssumption DEF ParseCommand, IdleInv
    <3>3. ASSUME CardReads(given') # Malformed, useLe' = HasLe(given')
          PROVE  command' = FromBytes(given', useLe') /\ phase' = "transmit"
      <4>1. ~FromBytesThrows(given', useLe')
        BY <3>2, <3>3, CommandRoundTrip
      <4> QED
        BY <2>2, <4>1 DEF ParseCommand
    <3> QED
      BY <3>1, <3>2, <3>3 DEF ParsedInv, IdleInv
  <2>3. CASE Transmit
    <3>1. phase' \in {"card", "done"} /\ UNCHANGED <<given, useLe, command>>
      BY <2>3 DEF Transmit, Leave
    <3>2. ASSUME given # <<>>, CardReads(given) # Malformed, useLe = HasLe(given)
          PROVE  sent' = given
      <4>1. command = FromBytes(given, useLe)
        BY <3>2 DEF ParsedInv
      <4>2. given \in Seq(Byte) /\ useLe \in BOOLEAN
        BY DEF ExchangeInv, TypeOK
      <4>3. ~ToBytesThrows(command) /\ ToBytes(command) = given
        BY <3>2, <4>1, <4>2, CommandRoundTrip
      <4> QED
        BY <2>3, <4>3 DEF Transmit
    <3> QED
      BY <3>1, <3>2 DEF ParsedInv, IdleInv
  <2>4. CASE CardAnswers \/ Compare
    <3>1. /\ phase \in {"card", "response"} /\ phase' \in {"response", "done"}
          /\ UNCHANGED <<given, useLe, command, sent>>
      BY <2>4 DEF CardAnswers, Compare, Leave
    <3> QED
      BY <3>1 DEF ParsedInv, IdleInv
  <2>5. CASE UNCHANGED vars
    BY <2>5 DEF vars, ParsedInv, IdleInv
  <2> QED
    BY <2>1, <2>2, <2>3, <2>4, <2>5 DEF Next
<1>3. Inv => BytesReachCard
  BY DEF ParsedInv, IdleInv, BytesReachCard
<1> QED
  BY <1>1, <1>2, <1>3, ExchangeInvariant, PTL DEF Spec
=============================================================================
