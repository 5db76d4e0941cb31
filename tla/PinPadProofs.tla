---------------------------- MODULE PinPadProofs ----------------------------
(***************************************************************************)
(* What a SmartCard knows of its reader, and what transmitCTL() promises,  *)
(* for every list of features, every command, any number of calls and of   *)
(* control calls that fail.                                                *)
(***************************************************************************)
EXTENDS PinPad, SharedLemmas

-----------------------------------------------------------------------------
(* The announcement of a list of features, as bytes                         *)

LEMMA ReverseFour ==
    ASSUME NEW a, NEW b, NEW c, NEW d
    PROVE  Reverse(<<a, b, c, d>>) = <<d, c, b, a>>
<1> DEFINE s == <<a, b, c, d>>
<1>1. Len(s) = 4 /\ s[1] = a /\ s[2] = b /\ s[3] = c /\ s[4] = d
  OBVIOUS
<1>2. Reverse(s) = [i \in 1..4 |-> s[(4 - i) + 1]]
  BY <1>1 DEF Reverse
<1>3. 1..4 = {1, 2, 3, 4}
  OBVIOUS
<1> HIDE DEF s
<1>4. /\ Reverse(s)[1] = d /\ Reverse(s)[2] = c /\ Reverse(s)[3] = b
      /\ Reverse(s)[4] = a
  BY <1>1, <1>2
<1> QED
  BY <1>2, <1>4 DEF s

Chunk(tag) == <<tag, 4, 66, 51, 0, tag>>

LEMMA ChunkType ==
    ASSUME NEW tag \in Byte
    PROVE  Chunk(tag) \in Seq(Byte) /\ Len(Chunk(tag)) = 6
<1>1. 4 \in Byte /\ 66 \in Byte /\ 51 \in Byte /\ 0 \in Byte
  BY DEF Byte
<1> QED
  BY <1>1 DEF Chunk

LEMMA ChunkOf ==
    ASSUME NEW tag \in Byte
    PROVE  <<tag, 4>> \o Reverse(ControlCode(tag)) = Chunk(tag)
<1> DEFINE a == <<tag, 4>>
           b == <<66, 51, 0, tag>>
           c == Chunk(tag)
<1>1. Reverse(ControlCode(tag)) = b
  BY ReverseFour DEF ControlCode
<1>2. /\ a \in Seq(Byte) /\ Len(a) = 2 /\ a[1] = tag /\ a[2] = 4
      /\ b \in Seq(Byte) /\ Len(b) = 4
      /\ b[1] = 66 /\ b[2] = 51 /\ b[3] = 0 /\ b[4] = tag
  <2>1. 4 \in Byte /\ 66 \in Byte /\ 51 \in Byte /\ 0 \in Byte
    BY DEF Byte
  <2> QED
    BY <2>1
<1>3. /\ c \in Seq(Byte) /\ Len(c) = 6
      /\ c[1] = tag /\ c[2] = 4 /\ c[3] = 66 /\ c[4] = 51 /\ c[5] = 0 /\ c[6] = tag
  BY ChunkType DEF Chunk
<1> HIDE DEF a, b, c
<1>4. /\ a \o b \in Seq(Byte) /\ Len(a \o b) = 6
      /\ \A i \in 1..2 : (a \o b)[i] = a[i]
      /\ \A i \in 1..4 : (a \o b)[2 + i] = b[i]
  <2>1. a \in Seq(Byte) /\ b \in Seq(Byte)
    BY <1>2
  <2>2. /\ a \o b \in Seq(Byte) /\ Len(a \o b) = Len(a) + Len(b)
        /\ \A i \in 1..Len(a) : (a \o b)[i] = a[i]
        /\ \A i \in 1..Len(b) : (a \o b)[Len(a) + i] = b[i]
    BY <2>1, Joined, SMT
  <2> QED
    BY <2>2, <1>2
<1>5. \A i \in 1..6 : (a \o b)[i] = c[i]
  <2>1. 1..6 = {1, 2, 3, 4, 5, 6}
    OBVIOUS
  <2>2. /\ (a \o b)[1] = a[1] /\ (a \o b)[2] = a[2]
        /\ (a \o b)[3] = b[1] /\ (a \o b)[4] = b[2]
        /\ (a \o b)[5] = b[3] /\ (a \o b)[6] = b[4]
    BY <1>4
  <2> QED
    BY <2>1, <2>2, <1>2, <1>3
<1>6. a \o b = c
  <2>1. 6 \in Nat
    OBVIOUS
  <2> QED
    BY <2>1, <1>3, <1>4, <1>5, Same, Zenon
<1> QED
  BY <1>1, <1>6 DEF a, b, c

\* The first m chunks in one sequence.
Chunks(tags, m) ==
    [k \in 1..(6 * m) |-> Chunk(tags[((k - 1) \div 6) + 1])[((k - 1) % 6) + 1]]

LEMMA ChunksType ==
    ASSUME NEW tags \in Seq(Byte), NEW m \in 0..Len(tags)
    PROVE  Chunks(tags, m) \in Seq(Byte) /\ Len(Chunks(tags, m)) = 6 * m
<1>1. Len(tags) \in Nat /\ m \in Nat /\ m <= Len(tags) /\ 6 * m \in Nat
  BY EmptyIfLengthZero
<1>2. ASSUME NEW k \in 1..(6 * m)
      PROVE  Chunk(tags[((k - 1) \div 6) + 1])[((k - 1) % 6) + 1] \in Byte
  <2> DEFINE i == ((k - 1) \div 6) + 1
             j == ((k - 1) % 6) + 1
  <2>1. i \in 1..m /\ j \in 1..6
    BY <1>1
  <2> HIDE DEF i, j
  <2>2. tags[i] \in Byte
    <3>1. i \in 1..Len(tags)
      BY <1>1, <2>1
    <3> QED
      BY <3>1, ElementOfSeq
  <2>3. Chunk(tags[i])[j] \in Byte
    BY <2>1, <2>2, ChunkType, ElementOfSeq
  <2> QED
    BY <2>3 DEF i, j
<1>3. Chunks(tags, m) \in [1..(6 * m) -> Byte]
  BY <1>2 DEF Chunks
<1> QED
  BY <1>1, <1>3, SeqDef, LenProperties

LEMMA NoChunks ==
    ASSUME NEW tags \in Seq(Byte)
    PROVE  Chunks(tags, 0) = <<>>
<1>1. 0 \in 0..Len(tags) /\ 6 * 0 = 0
  BY LenProperties
<1>2. Chunks(tags, 0) \in Seq(Byte) /\ Len(Chunks(tags, 0)) = 0
  BY <1>1, ChunksType
<1> QED
  BY <1>2, EmptySeq

LEMMA ChunksJoin ==
    ASSUME NEW tags \in Seq(Byte), NEW m \in Nat, m + 1 <= Len(tags)
    PROVE  Chunks(tags, m) \o Chunk(tags[m + 1]) = Chunks(tags, m + 1)
<1> DEFINE s == Chunks(tags, m)
           t == Chunk(tags[m + 1])
           u == Chunks(tags, m + 1)
           n == 6 * m
<1>1. n \in Nat /\ Len(tags) \in Nat /\ 6 * (m + 1) = n + 6
  BY EmptyIfLengthZero
<1>2. m \in 0..Len(tags) /\ m + 1 \in 0..Len(tags) /\ m + 1 \in 1..Len(tags)
  BY <1>1
<1>3. s \in Seq(Byte) /\ Len(s) = n /\ u \in Seq(Byte) /\ Len(u) = n + 6
  BY <1>1, <1>2, ChunksType
<1>4. t \in Seq(Byte) /\ Len(t) = 6
  BY <1>2, ElementOfSeq, ChunkType
<1>5. \A k \in 1..n : s[k] = u[k]
  <2>1. \A k \in 1..n : k \in 1..(6 * (m + 1))
    BY <1>1
  <2> QED
    BY <2>1 DEF Chunks
<1>6. \A j \in 1..6 : u[n + j] = t[j]
  <2> SUFFICES ASSUME NEW j \in 1..6
               PROVE  u[n + j] = t[j]
    OBVIOUS
  <2>1. /\ n + j \in 1..(6 * (m + 1))
        /\ (((n + j) - 1) \div 6) + 1 = m + 1
        /\ (((n + j) - 1) % 6) + 1 = j
    OBVIOUS
  <2>2. u[n + j] = Chunk(tags[(((n + j) - 1) \div 6) + 1])[(((n + j) - 1) % 6) + 1]
    <3> DEFINE k == n + j
    <3> HIDE DEF k
    <3> QED
      BY <2>1 DEF Chunks, k
  <2> QED
    BY <2>1, <2>2
<1> HIDE DEF s, t, u, n
<1>7. /\ s \o t \in Seq(Byte) /\ Len(s \o t) = n + 6
      /\ \A i \in 1..n : (s \o t)[i] = s[i]
      /\ \A i \in 1..6 : (s \o t)[n + i] = t[i]
  <2>1. s \in Seq(Byte) /\ t \in Seq(Byte)
    BY <1>3, <1>4
  <2>2. /\ s \o t \in Seq(Byte) /\ Len(s \o t) = Len(s) + Len(t)
        /\ \A i \in 1..Len(s) : (s \o t)[i] = s[i]
        /\ \A i \in 1..Len(t) : (s \o t)[Len(s) + i] = t[i]
    BY <2>1, Joined, SMT
  <2> QED
    BY <2>2, <1>3, <1>4
<1>8. ASSUME NEW i \in 1..(n + 6)
      PROVE  (s \o t)[i] = u[i]
  <2>1. CASE i <= n
    <3>1. i \in 1..n
      BY <1>1, <2>1
    <3> QED
      BY <1>5, <1>7, <3>1
  <2>2. CASE ~(i <= n)
    <3>1. PICK j \in 1..6 : i = n + j
      <4>1. i - n \in 1..6 /\ i = n + (i - n)
        BY <1>1, <2>2
      <4> QED
        BY <4>1
    <3> QED
      BY <1>6, <1>7, <3>1
  <2> QED
    BY <2>1, <2>2
<1>9. s \o t = u
  <2>1. n + 6 \in Nat
    BY <1>1
  <2> QED
    BY <2>1, <1>3, <1>7, <1>8, Same
<1> QED
  BY <1>9 DEF s, t, u

\* FlattenSeq() is a recursive function: that there is one such function, and what
\* it is, takes an induction over the number of chunks.
LEMMA AnnounceIsChunks ==
    ASSUME NEW tags \in Seq(Byte)
    PROVE  Announce(tags) = Chunks(tags, Len(tags))
<1> DEFINE n    == Len(tags)
           seqs == [i \in DOMAIN tags |-> <<tags[i], 4>> \o Reverse(ControlCode(tags[i]))]
<1>1. n \in Nat /\ DOMAIN tags = 1..n
  BY LenProperties
<1>2. \A i \in 1..n : seqs[i] = Chunk(tags[i]) /\ tags[i] \in Byte
  <2>1. \A i \in 1..n : tags[i] \in Byte
    BY ElementOfSeq
  <2> QED
    BY <1>1, <2>1, ChunkOf
<1>3. Len(seqs) = n /\ seqs \in Seq(Seq(Byte))
  <2>1. seqs \in [1..n -> Seq(Byte)]
    BY <1>1, <1>2, ChunkType
  <2> HIDE DEF seqs
  <2> QED
    BY <1>1, <2>1, SeqDef, LenProperties
<1>4. Announce(tags) = FlattenSeq(seqs)
  BY DEF Announce
<1> HIDE DEF seqs
<1>5. CASE n = 0
  <2>1. FlattenSeq(seqs) = <<>>
    BY <1>3, <1>5, EmptySeq DEF FlattenSeq
  <2>2. Chunks(tags, n) = <<>>
    BY <1>5, NoChunks
  <2> QED
    BY <1>4, <2>1, <2>2
<1>6. CASE n # 0
  <2> DEFINE Def(f) == [i \in 1..n |-> IF i = 1 THEN seqs[i] ELSE f[i - 1] \o seqs[i]]
             flatten == CHOOSE f : f = Def(f)
             joined  == [i \in 1..n |-> Chunks(tags, i)]
  <2>1. Chunk(tags[1]) = Chunks(tags, 1)
    <3>1. Chunks(tags, 0) = <<>>
      BY NoChunks
    <3>2. Chunks(tags, 0) \o Chunk(tags[0 + 1]) = Chunks(tags, 0 + 1)
      BY <1>1, <1>6, ChunksJoin
    <3>3. Chunk(tags[1]) \in Seq(Byte)
      BY <1>1, <1>2, <1>6, ChunkType
    <3> QED
      BY <3>1, <3>2, <3>3, ConcatEmptySeq
  <2>2. \A i \in 1..n : i # 1 => Chunks(tags, i) = Chunks(tags, i - 1) \o seqs[i]
    <3> SUFFICES ASSUME NEW i \in 1..n, i # 1
                 PROVE  Chunks(tags, i) = Chunks(tags, i - 1) \o seqs[i]
      OBVIOUS
    <3>1. i - 1 \in Nat /\ (i - 1) + 1 = i /\ (i - 1) + 1 <= n
      BY <1>1
    <3>2. Chunks(tags, i - 1) \o Chunk(tags[(i - 1) + 1]) = Chunks(tags, (i - 1) + 1)
      BY <3>1, ChunksJoin
    <3> QED
      BY <1>2, <3>1, <3>2
  <2>3. joined = Def(joined)
    <3>1. \A i \in 1..n : joined[i] = Def(joined)[i]
      <4> SUFFICES ASSUME NEW i \in 1..n PROVE joined[i] = Def(joined)[i]
        OBVIOUS
      <4>1. CASE i = 1
        BY <1>2, <2>1, <4>1
      <4>2. CASE i # 1
        <5>1. i - 1 \in 1..n
          BY <1>1, <4>2
        <5> QED
          BY <2>2, <4>2, <5>1
      <4> QED
        BY <4>1, <4>2
    <3> QED
      BY <3>1
  <2>4. flatten = Def(flatten)
    <3>1. \E f : f = Def(f)
      BY <2>3
    <3> QED
      BY <3>1
  <2>5. FlattenSeq(seqs) = flatten[n]
    BY <1>3, <1>6 DEF FlattenSeq
  <2> HIDE DEF flatten
  <2>6. \A i \in 1..n : flatten[i] = Chunks(tags, i)
    <3> DEFINE T == {k \in Nat : k + 1 <= n => flatten[k + 1] = Chunks(tags, k + 1)}
    <3>1. 0 \in T
      <4>1. flatten[1] = seqs[1]
        BY <1>1, <1>6, <2>4
      <4> QED
        BY <1>1, <1>2, <1>6, <2>1, <4>1
    <3>2. ASSUME NEW k \in Nat, k \in T
          PROVE  k + 1 \in T
      <4> SUFFICES ASSUME (k + 1) + 1 <= n
                   PROVE  flatten[(k + 1) + 1] = Chunks(tags, (k + 1) + 1)
        OBVIOUS
      <4> DEFINE i == (k + 1) + 1
      <4>1. i \in 1..n /\ i # 1 /\ i - 1 = k + 1 /\ k + 1 <= n
        BY <1>1
      <4>2. flatten[k + 1] = Chunks(tags, k + 1)
        BY <4>1, <3>2
      <4> HIDE DEF i
      <4>3. flatten[i] = flatten[i - 1] \o seqs[i]
        BY <2>4, <4>1
      <4>4. flatten[i] = Chunks(tags, i)
        BY <2>2, <4>1, <4>2, <4>3
      <4> QED
        BY <4>4 DEF i
    <3> HIDE DEF T
    <3>3. Nat \subseteq T
      BY <3>1, <3>2, SetInduction
    <3> SUFFICES ASSUME NEW i \in 1..n PROVE flatten[i] = Chunks(tags, i)
      OBVIOUS
    <3>4. i - 1 \in Nat /\ (i - 1) + 1 = i /\ (i - 1) + 1 <= n
      BY <1>1
    <3>5. i - 1 \in T
      BY <3>3, <3>4
    <3> QED
      BY <3>4, <3>5 DEF T
  <2> QED
    BY <1>1, <1>4, <1>6, <2>5, <2>6
<1> QED
  BY <1>5, <1>6

-----------------------------------------------------------------------------
(* What the parser finds in an announcement                                 *)

LEMMA ByteOfType ==
    ASSUME NEW answer \in Seq(Byte), NEW p \in Nat
    PROVE  ByteOf(answer, p) \in Byte /\ ByteOf(answer, p) \in Nat
<1>1. \A i \in 1..Len(answer) : answer[i] \in Byte
  BY ElementOfSeq
<1>2. DOMAIN answer = 1..Len(answer) /\ 0 \in Byte /\ Byte \subseteq Nat
  BY LenProperties DEF Byte
<1> QED
  BY <1>1, <1>2 DEF ByteOf

\* The parser is a recursive function: that there is one, for every answer, takes
\* an induction over the distance from the answer's end.
LEMMA ParserExists ==
    ASSUME NEW answer \in Seq(Byte)
    PROVE  LET F == FeaturesFrom(answer) IN
           F = [p \in Nat |->
                  IF p > Len(answer) THEN <<>>
                  ELSE LET length == ByteOf(answer, p + 1) IN
                       Earlier(ByteOf(answer, p), Value(answer, p, length),
                               F[NextTlv(p, length)])]
<1> DEFINE L == Len(answer)
           Place(p) == NextTlv(p, ByteOf(answer, p + 1))
           Found(p, later) ==
             Earlier(ByteOf(answer, p), Value(answer, p, ByteOf(answer, p + 1)), later)
           Body(g, p) == IF p > L THEN <<>> ELSE Found(p, g[Place(p)])
           T == {k \in Nat : \E g : \A p \in Nat : p + k > L => g[p] = Body(g, p)}
<1>1. L \in Nat
  BY LenProperties
<1>2. \A p \in Nat : Place(p) \in Nat /\ Place(p) > p + 1
  <2> SUFFICES ASSUME NEW p \in Nat PROVE Place(p) \in Nat /\ Place(p) > p + 1
    OBVIOUS
  <2>1. p + 1 \in Nat
    OBVIOUS
  <2>2. ByteOf(answer, p + 1) \in Nat
    BY <2>1, ByteOfType
  <2> QED
    BY <2>2 DEF NextTlv
<1> HIDE DEF L, Place, Found
<1>3. 0 \in T
  <2> DEFINE none == [p \in Nat |-> <<>>]
  <2>1. \A p \in Nat : p + 0 > L => none[p] = Body(none, p)
    BY <1>1
  <2> QED
    BY <2>1
<1>4. ASSUME NEW k \in Nat, k \in T
      PROVE  k + 1 \in T
  <2>1. PICK g : \A p \in Nat : p + k > L => g[p] = Body(g, p)
    BY <1>4
  <2> DEFINE h == [p \in Nat |-> IF p + k > L THEN g[p] ELSE Body(g, p)]
  <2>2. ASSUME NEW p \in Nat, p + (k + 1) > L
        PROVE  h[p] = Body(h, p)
    <3>1. h[p] = Body(g, p)
      BY <2>1
    <3>2. CASE p > L
      BY <3>1, <3>2
    <3>3. CASE ~(p > L)
      <4>1. Place(p) \in Nat /\ Place(p) + k > L
        <5>1. \A n \in Nat : n > p + 1 => n + k > L
          BY <1>1, <2>2
        <5> HIDE DEF T, Body
        <5> QED
          BY <1>2, <5>1
      <4>2. h[Place(p)] = g[Place(p)]
        BY <4>1
      <4> QED
        BY <3>1, <3>3, <4>2
    <3> QED
      BY <3>2, <3>3
  <2> HIDE DEF h
  <2>3. \E f : \A p \in Nat : p + (k + 1) > L => f[p] = Body(f, p)
    BY <2>2
  <2> QED
    BY <2>3
<1>5. L + 1 \in T
  <2> HIDE DEF T
  <2>1. Nat \subseteq T
    BY <1>3, <1>4, SetInduction
  <2> QED
    BY <1>1, <2>1
<1>6. PICK g : \A p \in Nat : g[p] = Body(g, p)
  <2>1. \A p \in Nat : p + (L + 1) > L
    BY <1>1
  <2> QED
    BY <1>5, <2>1
<1>7. \E f : f = [p \in Nat |-> Body(f, p)]
  <2> DEFINE f == [p \in Nat |-> g[p]]
  <2>1. \A p \in Nat : f[p] = Body(f, p)
    BY <1>2, <1>6
  <2>2. f = [p \in Nat |-> Body(f, p)]
    <3>1. f = [p \in Nat |-> f[p]]
      OBVIOUS
    <3> HIDE DEF f, Body
    <3> QED
      BY <2>1, <3>1
  <2> HIDE DEF f, Body
  <2> QED
    BY <2>2
<1> QED
  BY <1>7 DEF FeaturesFrom, L, Place, Found

LEMMA ByteOfChunk ==
    ASSUME NEW tags \in Seq(Byte), NEW k \in Nat, k < Len(tags), NEW j \in 1..6
    PROVE  ByteOf(Chunks(tags, Len(tags)), (6 * k) + j) = Chunk(tags[k + 1])[j]
<1> DEFINE n      == Len(tags)
           answer == Chunks(tags, n)
           p      == (6 * k) + j
<1>1. n \in Nat /\ n \in 0..n
  BY LenProperties
<1>2. p \in 1..(6 * n) /\ ((p - 1) \div 6) + 1 = k + 1 /\ ((p - 1) % 6) + 1 = j
  BY <1>1
<1> HIDE DEF p, n
<1>3. answer[p] = Chunk(tags[((p - 1) \div 6) + 1])[((p - 1) % 6) + 1]
  BY <1>2 DEF Chunks
<1>4. DOMAIN answer = 1..(6 * n)
  BY DEF Chunks
<1> QED
  BY <1>2, <1>3, <1>4 DEF ByteOf, p, n

LEMMA ParsedTlv ==
    ASSUME NEW tags \in Seq(Byte), NEW k \in Nat, k < Len(tags)
    PROVE  LET answer == Chunks(tags, Len(tags))
               p      == (6 * k) + 1
           IN  /\ p \in Nat
               /\ ~(p > Len(answer))
               /\ ByteOf(answer, p) = tags[k + 1]
               /\ ByteOf(answer, p + 1) = 4
               /\ NextTlv(p, 4) = (6 * (k + 1)) + 1
               /\ Value(answer, p, 4) = ControlCode(tags[k + 1])
<1> DEFINE answer == Chunks(tags, Len(tags))
           p      == (6 * k) + 1
           tag    == tags[k + 1]
<1>1. /\ Len(tags) \in Nat /\ Len(answer) = 6 * Len(tags)
  <2>1. Len(tags) \in Nat /\ Len(tags) \in 0..Len(tags)
    BY LenProperties
  <2> QED
    BY <2>1, ChunksType
<1>2. p \in Nat /\ ~(p > Len(answer)) /\ NextTlv(p, 4) = (6 * (k + 1)) + 1
  <2> HIDE DEF answer
  <2> QED
    BY <1>1 DEF NextTlv
<1>3. /\ (6 * k) + 2 = p + 1 /\ (6 * k) + 3 = p + 1 + 1 /\ (6 * k) + 4 = p + 1 + 2
      /\ (6 * k) + 5 = p + 1 + 3 /\ (6 * k) + 6 = p + 1 + 4
  OBVIOUS
<1>4. \A j \in 1..6 : ByteOf(answer, (6 * k) + j) = Chunk(tag)[j]
  BY ByteOfChunk
<1>5. 1..6 = {1, 2, 3, 4, 5, 6} /\ 1..4 = {1, 2, 3, 4}
  OBVIOUS
<1>6. /\ Chunk(tag)[1] = tag /\ Chunk(tag)[2] = 4 /\ Chunk(tag)[3] = 66
      /\ Chunk(tag)[4] = 51 /\ Chunk(tag)[5] = 0 /\ Chunk(tag)[6] = tag
  BY DEF Chunk
<1>7. /\ ByteOf(answer, (6 * k) + 1) = tag /\ ByteOf(answer, (6 * k) + 2) = 4
      /\ ByteOf(answer, (6 * k) + 3) = 66 /\ ByteOf(answer, (6 * k) + 4) = 51
      /\ ByteOf(answer, (6 * k) + 5) = 0 /\ ByteOf(answer, (6 * k) + 6) = tag
  <2> HIDE DEF answer, tag
  <2> QED
    BY <1>4, <1>5, <1>6
<1>8. /\ ByteOf(answer, p) = tag /\ ByteOf(answer, p + 1) = 4
      /\ ByteOf(answer, p + 1 + 1) = 66 /\ ByteOf(answer, p + 1 + 2) = 51
      /\ ByteOf(answer, p + 1 + 3) = 0 /\ ByteOf(answer, p + 1 + 4) = tag
  BY <1>3, <1>7, Zenon DEF p
<1> HIDE DEF answer, tag, p
<1>9. Value(answer, p, 4) = ControlCode(tag)
  <2> DEFINE v == [i \in 1..4 |-> IF i <= 4 THEN ByteOf(answer, p + 1 + i) ELSE 0]
  <2>1. v[1] = 66 /\ v[2] = 51 /\ v[3] = 0 /\ v[4] = tag
    BY <1>5, <1>8
  <2>2. v = <<66, 51, 0, tag>>
    <3>1. v = [i \in 1..4 |-> v[i]]
      OBVIOUS
    <3> HIDE DEF v
    <3> QED
      BY <1>5, <2>1, <3>1
  <2> HIDE DEF v
  <2>3. Reverse(v) = <<tag, 0, 51, 66>>
    BY <2>2, ReverseFour
  <2> QED
    BY <2>3 DEF Value, ntohl, ControlCode, v
<1> QED
  BY <1>2, <1>8, <1>9 DEF answer, p, tag

\* The parser finds the features of an announcement, whatever their order and
\* whatever comes more than once.
LEMMA FeaturesOfAnnouncement ==
    ASSUME NEW tags \in Seq(Byte)
    PROVE  Features(Announce(tags)) = [tag \in ToSet(tags) |-> ControlCode(tag)]
<1> DEFINE n      == Len(tags)
           answer == Chunks(tags, n)
           F      == FeaturesFrom(answer)
           From(k) == {tags[i] : i \in (k + 1)..n}
           T      == {m \in Nat : m <= n =>
                         F[(6 * (n - m)) + 1] = [tag \in From(n - m) |-> ControlCode(tag)]}
<1>1. n \in Nat /\ answer \in Seq(Byte) /\ Len(answer) = 6 * n
  <2>1. Len(tags) \in Nat /\ Len(tags) \in 0..Len(tags)
    BY LenProperties
  <2> QED
    BY <2>1, ChunksType
<1>2. F = [p \in Nat |->
              IF p > Len(answer) THEN <<>>
              ELSE Earlier(ByteOf(answer, p), Value(answer, p, ByteOf(answer, p + 1)),
                           F[NextTlv(p, ByteOf(answer, p + 1))])]
  BY <1>1, ParserExists
<1> HIDE DEF F, From
<1>3. 0 \in T
  <2>1. (6 * (n - 0)) + 1 \in Nat /\ (6 * (n - 0)) + 1 > Len(answer)
    <3> HIDE DEF answer
    <3> QED
      BY <1>1
  <2>2. F[(6 * (n - 0)) + 1] = <<>>
    BY <1>2, <2>1
  <2>3. From(n - 0) = {}
    BY <1>1 DEF From
  <2>4. [tag \in From(n - 0) |-> ControlCode(tag)] = <<>>
    BY <2>3
  <2> QED
    BY <2>2, <2>4
<1>4. ASSUME NEW m \in Nat, m \in T
      PROVE  m + 1 \in T
  <2> SUFFICES ASSUME m + 1 <= n
               PROVE  F[(6 * (n - (m + 1))) + 1]
                         = [tag \in From(n - (m + 1)) |-> ControlCode(tag)]
    OBVIOUS
  <2> DEFINE k == n - (m + 1)
             p == (6 * k) + 1
  <2>1. k \in Nat /\ k < n /\ k + 1 = n - m /\ m <= n
    <3> HIDE DEF answer
    <3> QED
      BY <1>1
  <2>2. F[(6 * (k + 1)) + 1] = [tag \in From(k + 1) |-> ControlCode(tag)]
    BY <1>4, <2>1
  <2> HIDE DEF k
  <2>3. /\ p \in Nat
        /\ ~(p > Len(answer))
        /\ ByteOf(answer, p) = tags[k + 1]
        /\ ByteOf(answer, p + 1) = 4
        /\ NextTlv(p, 4) = (6 * (k + 1)) + 1
        /\ Value(answer, p, 4) = ControlCode(tags[k + 1])
    BY <2>1, ParsedTlv
  <2> HIDE DEF p, answer, n
  <2>4. F[p] = Earlier(tags[k + 1], ControlCode(tags[k + 1]),
                       [tag \in From(k + 1) |-> ControlCode(tag)])
    <3>1. \A q \in Nat : ~(q > Len(answer)) =>
             F[q] = Earlier(ByteOf(answer, q), Value(answer, q, ByteOf(answer, q + 1)),
                            F[NextTlv(q, ByteOf(answer, q + 1))])
      BY <1>2
    <3>2. F[p] = Earlier(ByteOf(answer, p), Value(answer, p, ByteOf(answer, p + 1)),
                         F[NextTlv(p, ByteOf(answer, p + 1))])
      BY <2>3, <3>1
    <3> QED
      BY <2>2, <2>3, <3>2, Zenon
  <2>5. From(k) = From(k + 1) \cup {tags[k + 1]}
    <3>1. \A i : i \in (k + 1)..n <=> i = k + 1 \/ i \in ((k + 1) + 1)..n
      BY <1>1, <2>1
    <3> QED
      BY <3>1 DEF From
  <2>6. F[p] = [tag \in From(k) |-> ControlCode(tag)]
    BY <2>4, <2>5 DEF Earlier
  <2> QED
    BY <2>6 DEF p, k
<1>5. n \in T
  <2> HIDE DEF T
  <2>1. Nat \subseteq T
    BY <1>3, <1>4, SetInduction
  <2> QED
    BY <1>1, <2>1
<1>6. F[1] = [tag \in From(0) |-> ControlCode(tag)]
  <2>1. n - n = 0 /\ (6 * 0) + 1 = 1 /\ n <= n
    <3> HIDE DEF answer
    <3> QED
      BY <1>1
  <2> QED
    BY <1>5, <2>1
<1>7. From(0) = ToSet(tags)
  <2>1. DOMAIN tags = 1..n /\ 0 + 1 = 1
    BY LenProperties
  <2> QED
    BY <2>1 DEF From, ToSet
<1> QED
  BY <1>6, <1>7, AnnounceIsChunks DEF Features, F

-----------------------------------------------------------------------------
(* The request                                                              *)

LEMMA LittleEndian ==
    ASSUME NEW n \in Nat, n < 65536
    PROVE  /\ Little16(n) \in Seq(Byte) /\ Len(Little16(n)) = 2
           /\ Little16(n)[1] = n % 256 /\ Little16(n)[2] = n \div 256
           /\ (n % 256) + (256 * (n \div 256)) = n
<1>1. n % 256 \in Byte /\ n \div 256 \in Byte /\ (n % 256) + (256 * (n \div 256)) = n
  BY DEF Byte
<1> QED
  BY <1>1 DEF Little16

LEMMA LittleEndianWord ==
    ASSUME NEW n \in Nat, n < 65536
    PROVE  /\ Little32(n) \in Seq(Byte) /\ Len(Little32(n)) = 4
           /\ Little32(n)[1] = n % 256 /\ Little32(n)[2] = n \div 256
<1> DEFINE low  == Little16(n % 65536)
           high == Little16(n \div 65536)
<1>1. n % 65536 = n /\ n \div 65536 = 0 /\ 0 \in Nat
  OBVIOUS
<1>2. /\ low \in Seq(Byte) /\ Len(low) = 2
      /\ low[1] = n % 256 /\ low[2] = n \div 256
      /\ high \in Seq(Byte) /\ Len(high) = 2
  BY <1>1, LittleEndian
<1> HIDE DEF low, high
<1>3. low \in Seq(Byte) /\ high \in Seq(Byte)
  BY <1>2
<1>4. /\ low \o high \in Seq(Byte) /\ Len(low \o high) = Len(low) + Len(high)
      /\ \A i \in 1..Len(low) : (low \o high)[i] = low[i]
  BY <1>3, Joined, SMT
<1>5. (low \o high)[1] = low[1] /\ (low \o high)[2] = low[2]
  BY <1>2, <1>4
<1>6. Little32(n) = low \o high
  BY SMT DEF Little32, low, high
<1> QED
  BY <1>2, <1>4, <1>5, <1>6

\* A structure of 19 bytes and a command: what is where.
Structure(a, b, c, d, e, f) ==
    /\ a \in Seq(Byte) /\ Len(a) = 5
    /\ b \in Seq(Byte) /\ Len(b) = 2
    /\ c \in Seq(Byte) /\ Len(c) = 2
    /\ d \in Seq(Byte) /\ Len(d) = 2
    /\ e \in Seq(Byte) /\ Len(e) = 4
    /\ f \in Seq(Byte) /\ Len(f) = 4

StructureAt(r, a, b, d, f, g) ==
    /\ r \in Seq(Byte) /\ Len(r) = 19 + Len(g)
    /\ r[1] = a[1] /\ r[2] = a[2] /\ r[6] = b[1] /\ r[7] = b[2]
    /\ r[10] = d[1] /\ r[11] = d[2] /\ r[16] = f[1] /\ r[17] = f[2]
    /\ SubSeq(r, 20, 19 + Len(g)) = g

LEMMA StructureParts ==
    ASSUME NEW a, NEW b, NEW c, NEW d, NEW e, NEW f, Structure(a, b, c, d, e, f),
           NEW g \in Seq(Byte)
    PROVE  StructureAt(a \o b \o c \o d \o e \o f \o g, a, b, d, f, g)
<1> DEFINE len    == Len(g)
           ab     == a \o b
           abc    == ab \o c
           abcd   == abc \o d
           abcde  == abcd \o e
           abcdef == abcde \o f
           r      == abcdef \o g
<1>1. len \in Nat
  BY LenProperties
<1>2. /\ ab \in Seq(Byte) /\ Len(ab) = 7
      /\ ab[1] = a[1] /\ ab[2] = a[2] /\ ab[6] = b[1] /\ ab[7] = b[2]
  <2>1. a \in Seq(Byte) /\ b \in Seq(Byte)
    BY SMT DEF Structure
  <2>2. Len(a) = 5 /\ Len(b) = 2
    BY SMT DEF Structure
  <2>3. /\ ab \in Seq(Byte) /\ Len(ab) = Len(a) + Len(b)
        /\ \A i \in 1..Len(a) : ab[i] = a[i]
        /\ \A i \in 1..Len(b) : ab[Len(a) + i] = b[i]
    BY <2>1, Joined, SMT
  <2> HIDE DEF ab
  <2>4. ab[5 + 1] = b[1] /\ ab[5 + 2] = b[2]
    BY <2>2, <2>3
  <2> QED
    BY <2>2, <2>3, <2>4
<1> HIDE DEF ab
<1>3. /\ abc \in Seq(Byte) /\ Len(abc) = 9
      /\ abc[1] = a[1] /\ abc[2] = a[2] /\ abc[6] = b[1] /\ abc[7] = b[2]
  <2>1. ab \in Seq(Byte) /\ c \in Seq(Byte)
    BY <1>2, SMT DEF Structure
  <2>2. Len(ab) = 7 /\ Len(c) = 2
    BY <1>2, SMT DEF Structure
  <2>3. /\ abc \in Seq(Byte) /\ Len(abc) = Len(ab) + Len(c)
        /\ \A i \in 1..Len(ab) : abc[i] = ab[i]
        /\ \A i \in 1..Len(c) : abc[Len(ab) + i] = c[i]
    BY <2>1, Joined, SMT
  <2> HIDE DEF abc
  <2> QED
    BY <1>2, <2>2, <2>3
<1> HIDE DEF abc
<1>4. /\ abcd \in Seq(Byte) /\ Len(abcd) = 11
      /\ abcd[1] = a[1] /\ abcd[2] = a[2] /\ abcd[6] = b[1] /\ abcd[7] = b[2]
      /\ abcd[10] = d[1] /\ abcd[11] = d[2]
  <2>1. abc \in Seq(Byte) /\ d \in Seq(Byte)
    BY <1>3, SMT DEF Structure
  <2>2. Len(abc) = 9 /\ Len(d) = 2
    BY <1>3, SMT DEF Structure
  <2>3. /\ abcd \in Seq(Byte) /\ Len(abcd) = Len(abc) + Len(d)
        /\ \A i \in 1..Len(abc) : abcd[i] = abc[i]
        /\ \A i \in 1..Len(d) : abcd[Len(abc) + i] = d[i]
    BY <2>1, Joined, SMT
  <2> HIDE DEF abcd
  <2>4. abcd[9 + 1] = d[1] /\ abcd[9 + 2] = d[2]
    BY <2>2, <2>3
  <2> QED
    BY <1>3, <2>2, <2>3, <2>4
<1> HIDE DEF abcd
<1>5. /\ abcde \in Seq(Byte) /\ Len(abcde) = 15
      /\ abcde[1] = a[1] /\ abcde[2] = a[2] /\ abcde[6] = b[1] /\ abcde[7] = b[2]
      /\ abcde[10] = d[1] /\ abcde[11] = d[2]
  <2>1. abcd \in Seq(Byte) /\ e \in Seq(Byte)
    BY <1>4, SMT DEF Structure
  <2>2. Len(abcd) = 11 /\ Len(e) = 4
    BY <1>4, SMT DEF Structure
  <2>3. /\ abcde \in Seq(Byte) /\ Len(abcde) = Len(abcd) + Len(e)
        /\ \A i \in 1..Len(abcd) : abcde[i] = abcd[i]
        /\ \A i \in 1..Len(e) : abcde[Len(abcd) + i] = e[i]
    BY <2>1, Joined, SMT
  <2> HIDE DEF abcde
  <2> QED
    BY <1>4, <2>2, <2>3
<1> HIDE DEF abcde
<1>6. /\ abcdef \in Seq(Byte) /\ Len(abcdef) = 19
      /\ abcdef[1] = a[1] /\ abcdef[2] = a[2] /\ abcdef[6] = b[1] /\ abcdef[7] = b[2]
      /\ abcdef[10] = d[1] /\ abcdef[11] = d[2] /\ abcdef[16] = f[1] /\ abcdef[17] = f[2]
  <2>1. abcde \in Seq(Byte) /\ f \in Seq(Byte)
    BY <1>5, SMT DEF Structure
  <2>2. Len(abcde) = 15 /\ Len(f) = 4
    BY <1>5, SMT DEF Structure
  <2>3. /\ abcdef \in Seq(Byte) /\ Len(abcdef) = Len(abcde) + Len(f)
        /\ \A i \in 1..Len(abcde) : abcdef[i] = abcde[i]
        /\ \A i \in 1..Len(f) : abcdef[Len(abcde) + i] = f[i]
    BY <2>1, Joined, SMT
  <2> HIDE DEF abcdef
  <2>4. abcdef[15 + 1] = f[1] /\ abcdef[15 + 2] = f[2]
    BY <2>2, <2>3
  <2> QED
    BY <1>5, <2>2, <2>3, <2>4
<1> HIDE DEF abcdef
<1>7. /\ r \in Seq(Byte) /\ Len(r) = 19 + len
      /\ \A i \in 1..19 : r[i] = abcdef[i]
      /\ \A i \in 1..len : r[19 + i] = g[i]
  <2>1. abcdef \in Seq(Byte)
    BY <1>6
  <2>2. /\ r \in Seq(Byte) /\ Len(r) = Len(abcdef) + Len(g)
        /\ \A i \in 1..Len(abcdef) : r[i] = abcdef[i]
        /\ \A i \in 1..Len(g) : r[Len(abcdef) + i] = g[i]
    BY <2>1, Joined, SMT
  <2> HIDE DEF r
  <2> QED
    BY <1>6, <2>2 DEF len
<1> HIDE DEF r
<1>8. /\ r[1] = a[1] /\ r[2] = a[2] /\ r[6] = b[1] /\ r[7] = b[2]
      /\ r[10] = d[1] /\ r[11] = d[2] /\ r[16] = f[1] /\ r[17] = f[2]
  <2>1. \A i \in {1, 2, 6, 7, 10, 11, 16, 17} : i \in 1..19
    OBVIOUS
  <2>2. \A i \in {1, 2, 6, 7, 10, 11, 16, 17} : r[i] = abcdef[i]
    BY <1>7, <2>1
  <2> QED
    BY <1>6, <2>2
<1>9. SubSeq(r, 20, 19 + len) = g
  <2> DEFINE s == SubSeq(r, 20, 19 + len)
             m == 19 + len
  <2>1. \A i \in 20..m : r[i] \in Byte
    <3> SUFFICES ASSUME NEW i \in 20..m PROVE r[i] \in Byte
      OBVIOUS
    <3> HIDE DEF len
    <3>1. i \in 1..Len(r)
      BY <1>1, <1>7
    <3> QED
      BY <1>7, <3>1, ElementOfSeq
  <2>2. m \in Int /\ 20 \in Int /\ (20 <= m <=> len # 0) /\ (m - 20) + 1 = len
    <3> HIDE DEF len
    <3> QED
      BY <1>1
  <2> HIDE DEF m
  <2>3. /\ SubSeq(r, 20, m) \in Seq(Byte)
        /\ Len(SubSeq(r, 20, m)) = IF 20 <= m THEN (m - 20) + 1 ELSE 0
        /\ \A i \in 1..((m - 20) + 1) : SubSeq(r, 20, m)[i] = r[(20 + i) - 1]
    BY <2>1, <2>2, SubSeqProperties
  <2>4. s \in Seq(Byte) /\ Len(s) = len /\ \A i \in 1..len : s[i] = r[(20 + i) - 1]
    <3>1. s = SubSeq(r, 20, m)
      BY DEF m
    <3> HIDE DEF s, len
    <3> QED
      BY <1>1, <2>2, <2>3, <3>1
  <2> HIDE DEF s
  <2>5. \A i \in 1..len : s[i] = g[i]
    <3> HIDE DEF len
    <3>1. \A i \in 1..len : (20 + i) - 1 = 19 + i
      BY <1>1
    <3> QED
      BY <1>7, <2>4, <3>1
  <2>6. s = g
    BY <1>1, <2>4, <2>5, Same
  <2> QED
    BY <2>6 DEF s
<1>10. StructureAt(r, a, b, d, f, g)
  BY <1>7, <1>8, <1>9, Zenon DEF StructureAt, len
<1> QED
  BY <1>10, Zenon DEF r, abcdef, abcde, abcd, abc, ab

\* What is where in a request, as the reader will find it.
RequestAt(r, minlen, lang, bytes) ==
    /\ r \in Seq(Byte) /\ Len(r) = 19 + Len(bytes)
    /\ r[1] = 90 /\ r[2] = 90 /\ r[6] = 12 /\ r[7] = minlen
    /\ r[10] = lang % 256 /\ r[11] = lang \div 256
    /\ r[16] = Len(bytes) % 256 /\ r[17] = Len(bytes) \div 256
    /\ SubSeq(r, 20, 19 + Len(bytes)) = bytes

Fits(minlen, lang, bytes) ==
    minlen \in Byte /\ lang \in LangId /\ bytes \in Seq(Byte) /\ Len(bytes) < 65536

LEMMA RequestParts ==
    ASSUME NEW minlen, NEW lang, NEW bytes, Fits(minlen, lang, bytes)
    PROVE  RequestAt(Request(minlen, lang, bytes), minlen, lang, bytes)
<1> DEFINE extra == (minlen * 256) + 12
           a == <<PIN_PAD_PIN_ENTRY_TIMEOUT, PIN_PAD_PIN_ENTRY_TIMEOUT, FormatASCII, 0, 0>>
           b == Little16(extra)
           c == <<ValidOnKeyPressed, CCIDDefaultInvitationMessage>>
           d == Little16(lang)
           e == <<0, 0, 0, 0>>
           f == Little32(Len(bytes))
           r == a \o b \o c \o d \o e \o f \o bytes
<1>1. a \in Seq(Byte) /\ Len(a) = 5 /\ a[1] = 90 /\ a[2] = 90
  BY DEF Byte, PIN_PAD_PIN_ENTRY_TIMEOUT, FormatASCII
<1>2. b \in Seq(Byte) /\ Len(b) = 2 /\ b[1] = 12 /\ b[2] = minlen
  <2>1. /\ extra \in Nat /\ extra < 65536
        /\ extra % 256 = 12 /\ extra \div 256 = minlen
    BY DEF Fits, Byte
  <2> HIDE DEF extra
  <2> QED
    BY <2>1, LittleEndian
<1>3. c \in Seq(Byte) /\ Len(c) = 2
  BY DEF Byte, ValidOnKeyPressed, CCIDDefaultInvitationMessage
<1>4. d \in Seq(Byte) /\ Len(d) = 2 /\ d[1] = lang % 256 /\ d[2] = lang \div 256
  <2>1. lang \in Nat /\ lang < 65536
    BY SMT DEF Fits, LangId
  <2> QED
    BY <2>1, LittleEndian
<1>5. e \in Seq(Byte) /\ Len(e) = 4
  BY DEF Byte
<1>6. /\ f \in Seq(Byte) /\ Len(f) = 4
      /\ f[1] = Len(bytes) % 256 /\ f[2] = Len(bytes) \div 256
  <2>1. Len(bytes) \in Nat /\ Len(bytes) < 65536
    BY LenProperties DEF Fits
  <2> QED
    BY <2>1, LittleEndianWord
<1>7. Request(minlen, lang, bytes) = r
  BY Zenon DEF Request, PIN_VERIFY_STRUCTURE
<1> HIDE DEF a, b, c, d, e, f
<1>8. Structure(a, b, c, d, e, f)
  BY <1>1, <1>2, <1>3, <1>4, <1>5, <1>6, SMT DEF Structure
<1>9. StructureAt(r, a, b, d, f, bytes)
  <2>1. bytes \in Seq(Byte)
    BY DEF Fits
  <2> QED
    BY <1>8, <2>1, StructureParts, Zenon
<1> HIDE DEF r
<1>10. RequestAt(r, minlen, lang, bytes)
  BY <1>1, <1>2, <1>4, <1>6, <1>9, Zenon DEF RequestAt, StructureAt
<1> QED
  BY <1>7, <1>10, Zenon

\* What the reader makes of it.
ReadsAs(r, minlen, lang, bytes) ==
    /\ r \in Seq(Byte)
    /\ r[1] = 90 /\ r[2] = 90 /\ r[6] = 12 /\ r[7] = minlen
    /\ r[10] + (256 * r[11]) = lang
    /\ r[16] + (256 * r[17]) = Len(r) - 19
    /\ SubSeq(r, 20, 19 + (r[16] + (256 * r[17]))) = bytes

LEMMA RequestNumbers ==
    ASSUME NEW minlen, NEW lang, NEW bytes, Fits(minlen, lang, bytes)
    PROVE  ReadsAs(Request(minlen, lang, bytes), minlen, lang, bytes)
<1> DEFINE r   == Request(minlen, lang, bytes)
           len == Len(bytes)
<1>1. RequestAt(r, minlen, lang, bytes)
  BY RequestParts, Zenon
<1>2. /\ (lang % 256) + (256 * (lang \div 256)) = lang
      /\ (len % 256) + (256 * (len \div 256)) = len
      /\ len \in Nat
  <2>1. lang \in Nat /\ lang < 65536 /\ len \in Nat /\ len < 65536
    BY LenProperties, SMT DEF Fits, LangId
  <2> HIDE DEF len
  <2> QED
    BY <2>1, LittleEndian
<1> HIDE DEF r
<1>3. /\ r \in Seq(Byte)
      /\ r[1] = 90 /\ r[2] = 90 /\ r[6] = 12 /\ r[7] = minlen
      /\ r[10] = lang % 256 /\ r[11] = lang \div 256
      /\ r[16] = len % 256 /\ r[17] = len \div 256
      /\ SubSeq(r, 20, 19 + len) = bytes
      /\ Len(r) = 19 + len
  BY <1>1, Zenon DEF RequestAt, len
<1> HIDE DEF len
<1>4. r[10] + (256 * r[11]) = lang /\ r[16] + (256 * r[17]) = len /\ len = Len(r) - 19
  <2> DEFINE m == Len(r)
  <2>1. m = 19 + len
    BY <1>3, Zenon
  <2> HIDE DEF m
  <2>2. len = m - 19
    BY <1>2, <2>1
  <2> QED
    BY <1>2, <1>3, <2>2, Zenon DEF m
<1>5. SubSeq(r, 20, 19 + (r[16] + (256 * r[17]))) = bytes
  BY <1>3, <1>4, Zenon
<1> QED
  BY <1>3, <1>4, <1>5, Zenon DEF ReadsAs, r

LEMMA RequestMeans ==
    ASSUME TypeOK, RequestInv
    PROVE  RequestReadsAsMeant
<1> SUFFICES ASSUME phase = "control"
             PROVE  RequestReadsAsMeant
  BY DEF RequestReadsAsMeant
<1>1. Fits(asked.minlen, asked.lang, asked.bytes)
  <2>1. asked \in Asked
    BY DEF TypeOK
  <2>2. Len(asked.bytes) <= 261
    BY DEF RequestInv, MaxCommandData
  <2>3. asked.minlen \in Byte /\ asked.lang \in LangId /\ asked.bytes \in Seq(Byte)
    BY <2>1 DEF Asked
  <2> DEFINE bytes == asked.bytes
  <2>4. bytes \in Seq(Byte) /\ Len(bytes) <= 261
    BY <2>2, <2>3
  <2> HIDE DEF bytes
  <2>5. Len(bytes) < 65536
    BY <2>4, SMT
  <2> QED
    BY <2>3, <2>5, SMT DEF Fits, bytes
<1>2. request = Request(asked.minlen, asked.lang, asked.bytes)
  BY DEF RequestInv
<1>3. ReadsAs(request, asked.minlen, asked.lang, asked.bytes)
  BY <1>1, <1>2, RequestNumbers, Zenon
<1>4. /\ 0 + 1 = 1 /\ 1 + 1 = 2 /\ 6 + 1 = 7 /\ 5 + 1 = 6 /\ 9 + 1 = 10 /\ 15 + 1 = 16
      /\ (9 + 1) + 1 = 11 /\ (15 + 1) + 1 = 17
  OBVIOUS
<1> QED
  BY <1>3, <1>4, Zenon DEF ReadsAs, RequestReadsAsMeant, PIN_PAD_PIN_ENTRY_TIMEOUT

-----------------------------------------------------------------------------
(* Facts about the reader, the failures and the answers                     *)

LEMMA Announced ==
    ASSUME NEW tags \in Announcements
    PROVE  /\ Features(Announce(tags)) = [tag \in ToSet(tags) |-> ControlCode(tag)]
           /\ ToSet(tags) \subseteq DRIVER_FEATURES
           /\ FINISH \in ToSet(tags) => START \in ToSet(tags)
<1>1. tags \in Seq(DRIVER_FEATURES) /\ DRIVER_FEATURES \subseteq Byte
  BY PinPadAssumption DEF DRIVER_FEATURES, Byte
<1>2. tags \in Seq(Byte) /\ ToSet(tags) \subseteq DRIVER_FEATURES
  <2>1. \A i \in 1..Len(tags) : tags[i] \in DRIVER_FEATURES
    BY <1>1, ElementOfSeq
  <2>2. DOMAIN tags = 1..Len(tags) /\ Len(tags) \in Nat /\ tags \in [1..Len(tags) -> Byte]
    BY <1>1, <2>1, LenProperties
  <2>3. tags \in Seq(Byte)
    BY <2>2, SeqDef
  <2> QED
    BY <2>1, <2>2, <2>3 DEF ToSet
<1> QED
  BY <1>2, FeaturesOfAnnouncement, PinPadAssumption

LEMMA Codes ==
    /\ \A tag \in DRIVER_FEATURES : ControlCode(tag) \in Word
    /\ ControlCode(START) # ControlCode(DIRECT)
<1>1. ASSUME NEW tag \in DRIVER_FEATURES
      PROVE  ControlCode(tag) \in Word
  <2>1. tag \in Byte /\ 0 \in Byte /\ 51 \in Byte /\ 66 \in Byte
    BY DEF DRIVER_FEATURES, Byte
  <2> QED
    BY <2>1 DEF ControlCode, Word
<1>2. ControlCode(START)[1] # ControlCode(DIRECT)[1]
  BY DEF ControlCode, START, DIRECT
<1> QED
  BY <1>1, <1>2

LEMMA ExceptionOfFailure ==
    ASSUME NEW result \in Failures
    PROVE  Exception(result) \in ScardErrors
BY DEF Failures, Exception, ScardErrors

LEMMA AnswerBytes ==
    ASSUME NEW bytes \in CardAnswers \cup ReaderAnswers
    PROVE  bytes \in Seq(Byte) /\ Len(bytes) = 2
<1>1. \A a, b \in Byte : <<a, b>> \in Seq(Byte) /\ Len(<<a, b>>) = 2
  OBVIOUS
<1>2. /\ 144 \in Byte /\ 0 \in Byte /\ 99 \in Byte /\ 194 \in Byte /\ 110 \in Byte
      /\ 100 \in Byte /\ 1 \in Byte
  BY DEF Byte
<1>3. \E a, b \in Byte : bytes = <<a, b>>
  BY <1>2 DEF CardAnswers, ReaderAnswers
<1> QED
  BY <1>1, <1>3

\* Which of the two control calls a call begins with.
LEMMA EntryControlIs ==
    ASSUME TypeOK, CardInv, phase = "control"
    PROVE  /\ Has(START) <=> EntryControl = ControlCode(START)
           /\ ~Has(START) <=> EntryControl = ControlCode(DIRECT)
           /\ Has(FINISH) => Has(START)
<1>1. \A tag : Has(tag) <=> tag \in announced
  BY DEF CardInv, FeaturesAsAnnounced, Has
<1>2. \A tag \in announced : features[tag] = ControlCode(tag)
  BY DEF CardInv, FeaturesAsAnnounced
<1>3. Has(START) \/ Has(DIRECT)
  BY DEF CardInv
<1> QED
  BY <1>1, <1>2, <1>3, Codes DEF CardInv, EntryControl

-----------------------------------------------------------------------------
(* The steps                                                                *)

LEMMA InitPad ==
    ASSUME Init
    PROVE  PadInv
<1>1. {MaxCalls, MaxFaults} \subseteq Nat
  BY PinPadAssumption
<1>2. NoAnswer \in Answer
  BY <1>1 DEF NoAnswer, Answer
<1>3. TypeOK
  <2>1. asked \in Asked
    BY DEF Init, Asked, Byte, LangId
  <2>2. entry \in [state : {"ready", "typing", "ended", "aborted"}, answer : Answer]
    BY <1>2 DEF Init, Ready
  <2>3. /\ DOMAIN features \subseteq DRIVER_FEATURES
        /\ \A tag \in DOMAIN features : features[tag] \in Word
    <3>1. features = [tag \in {} |-> ControlCode(tag)]
      BY DEF Init
    <3> QED
      BY <3>1
  <2>4. heard \in [0..MaxCalls -> Nat] /\ request \in Seq(Byte)
    BY DEF Init
  <2>5. calls \in 0..MaxCalls /\ faults \in 0..MaxFaults
    BY <1>1 DEF Init
  <2> QED
    BY <1>2, <2>1, <2>2, <2>3, <2>4, <2>5 DEF Init, TypeOK
<1>4. CardInv
  <2>1. FeaturesAsAnnounced
    BY DEF Init, FeaturesAsAnnounced
  <2> QED
    BY <2>1 DEF Init, CardInv
<1>5. EntryInv
  BY <1>1 DEF Init, EntryInv, Ready, NoAnswer
<1>6. ResponseInv /\ QuietInv /\ RequestInv
  BY <1>1 DEF Init, ResponseInv, QuietInv, RequestInv
<1> QED
  BY <1>3, <1>4, <1>5, <1>6 DEF PadInv

\* What no step of a call changes.
Unmoved == UNCHANGED <<cardVars, transactionInProgress, request, calls, asked>>

LEMMA ConnectStep ==
    ASSUME PadInv, ConnectCard
    PROVE  PadInv'
<1>1. /\ card = "null" /\ card' = "connected" /\ phase = "idle" /\ announced = {}
      /\ features = [tag \in {} |-> ControlCode(tag)]
      /\ UNCHANGED <<noPinPad, transactionInProgress, callVars, padVars>>
  BY DEF PadInv, CardInv, FeaturesAsAnnounced, ConnectCard
<1>2. /\ features' = [tag \in announced' |-> ControlCode(tag)]
      /\ announced' \subseteq DRIVER_FEATURES
      /\ FINISH \in announced' => START \in announced'
      /\ faults' \in 0..MaxFaults
      /\ faults' # faults \/ UNCHANGED faults
  <2>1. CASE \E tags \in Announcements :
                /\ features' = Features(Announce(tags))
                /\ announced' = ToSet(tags)
                /\ UNCHANGED faults
    BY <2>1, Announced DEF PadInv, TypeOK
  <2>2. CASE /\ faults < MaxFaults
             /\ faults' = faults + 1
             /\ UNCHANGED <<features, announced>>
    BY <1>1, <2>2, PinPadAssumption DEF PadInv, TypeOK
  <2> QED
    BY <2>1, <2>2 DEF ConnectCard
<1>3. TypeOK'
  <2>1. \A tag \in DOMAIN features' : features'[tag] \in Word
    BY <1>2, Codes
  <2>2. DOMAIN features' \subseteq DRIVER_FEATURES
    BY <1>2
  <2> QED
    BY <1>1, <1>2, <2>1, <2>2 DEF PadInv, TypeOK, callVars, padVars
<1>4. CardInv'
  BY <1>1, <1>2 DEF PadInv, CardInv, FeaturesAsAnnounced, callVars
<1>5. EntryInv' /\ ResponseInv' /\ RequestInv'
  BY <1>1 DEF PadInv, EntryInv, ResponseInv, RequestInv, callVars, padVars
<1>6. QuietInv'
  <2>1. Has(START) => FALSE
    BY <1>1 DEF Has
  <2>2. faults' = 0 => faults = 0
    BY <1>2, PinPadAssumption DEF PadInv, TypeOK, ConnectCard
  <2> QED
    BY <1>1, <2>1, <2>2 DEF PadInv, QuietInv, callVars, padVars, Ready, NoAnswer
<1> QED
  BY <1>3, <1>4, <1>5, <1>6 DEF PadInv

LEMMA ToggleStep ==
    ASSUME PadInv, ToggleTransaction
    PROVE  PadInv'
<1>1. /\ UNCHANGED <<cardVars, callVars, padVars, faults>>
      /\ transactionInProgress' \in BOOLEAN
  BY DEF PadInv, TypeOK, ToggleTransaction
<1>2. TypeOK'
  BY <1>1 DEF PadInv, TypeOK, cardVars, callVars, padVars
<1>3. CardInv' /\ QuietInv'
  BY <1>1 DEF PadInv, CardInv, QuietInv, FeaturesAsAnnounced, Has, cardVars, callVars,
              padVars, Ready, NoAnswer
<1>4. EntryInv' /\ ResponseInv' /\ RequestInv'
  BY <1>1 DEF PadInv, EntryInv, ResponseInv, RequestInv, callVars, padVars
<1> QED
  BY <1>2, <1>3, <1>4 DEF PadInv

LEMMA TransmitStep ==
    ASSUME PadInv, TransmitCTL
    PROVE  PadInv'
<1>1. /\ phase = "idle" /\ calls' = calls + 1 /\ calls \in Nat /\ calls' \in 0..MaxCalls
      /\ response' = NoAnswer
      /\ UNCHANGED <<cardVars, transactionInProgress, padVars, faults>>
  BY PinPadAssumption DEF PadInv, TypeOK, TransmitCTL
<1>2. /\ phase' \in {"idle", "control"}
      /\ phase' = "control" => /\ card = "connected" /\ outcome' = "none"
                               /\ Has(START) \/ Has(DIRECT)
      /\ outcome' \in {"none", "logic_error", "invalid_argument", "out_of_range"}
      /\ outcome' = "out_of_range" => card # "null" /\ ~Has(START) /\ ~Has(DIRECT)
      /\ request' \in Seq(Byte) /\ asked' \in Asked
      /\ RequestInv'
  <2>1. PICK command \in Commands, minlen \in MinLengths, lang \in Languages :
           IF Refusal(command) = "none"
           THEN /\ phase' = "control"
                /\ request' = Request(minlen, lang, ToBytes(command))
                /\ asked' = [minlen |-> minlen, lang |-> lang,
                             bytes |-> ToBytes(command)]
                /\ outcome' = "none"
           ELSE Leave(Refusal(command)) /\ UNCHANGED <<request, asked>>
    BY DEF TransmitCTL
  <2>2. CASE Refusal(command) = "none"
    <3>1. /\ card = "connected"
          /\ Has(START) \/ Has(DIRECT)
          /\ ~ToBytesThrows(command)
      BY <2>2 DEF Refusal, IsNull, PadInv, TypeOK
    <3> DEFINE bytes == ToBytes(command)
    <3>2. bytes \in Seq(Byte) /\ Len(bytes) <= 6 + MaxCommandData
      BY <3>1, PinPadAssumption, ToBytesType
    <3>3. minlen \in Byte /\ lang \in LangId
      BY PinPadAssumption
    <3>4. /\ phase' = "control" /\ outcome' = "none"
          /\ request' = Request(minlen, lang, bytes)
          /\ asked' = [minlen |-> minlen, lang |-> lang, bytes |-> bytes]
      BY <2>1, <2>2
    <3> HIDE DEF bytes
    <3>5. Fits(minlen, lang, bytes)
      <4>1. Len(bytes) < 65536
        BY <3>2, SMT DEF MaxCommandData
      <4> QED
        BY <3>2, <3>3, <4>1, SMT DEF Fits
    <3>6. request' \in Seq(Byte)
      BY <3>4, <3>5, RequestNumbers DEF ReadsAs
    <3>7. asked' \in Asked
      BY <3>2, <3>3, <3>4 DEF Asked
    <3>8. RequestInv'
      BY <3>2, <3>4 DEF RequestInv
    <3>9. phase' = "control" /\ outcome' = "none"
      BY <3>4
    <3> QED
      BY <3>1, <3>6, <3>7, <3>8, <3>9
  <2>3. CASE Refusal(command) # "none"
    <3>1. /\ phase' = "idle" /\ UNCHANGED <<request, asked>>
          /\ outcome' = Refusal(command)
      BY <2>1, <2>3 DEF Leave
    <3>2. /\ Refusal(command) \in {"none", "logic_error", "invalid_argument", "out_of_range"}
          /\ Refusal(command) = "out_of_range" =>
                card # "null" /\ ~Has(START) /\ ~Has(DIRECT)
      BY DEF Refusal, IsNull
    <3>3. RequestInv'
      BY <3>1 DEF RequestInv
    <3>4. request \in Seq(Byte) /\ asked \in Asked
      BY DEF PadInv, TypeOK
    <3> QED
      BY <3>1, <3>2, <3>3, <3>4
  <2> QED
    BY <2>2, <2>3
<1>3. TypeOK'
  <2>1. NoAnswer \in Answer
    BY PinPadAssumption DEF NoAnswer, Answer
  <2> QED
    BY <1>1, <1>2, <2>1 DEF PadInv, TypeOK, cardVars, padVars
<1>4. CardInv'
  BY <1>1, <1>2 DEF PadInv, TypeOK, CardInv, FeaturesAsAnnounced, Has, cardVars
<1>5. EntryInv' /\ ResponseInv'
  <2>1. entry.answer.call \in Nat
    BY DEF PadInv, TypeOK, Answer
  <2>2. heard[calls'] = 0
    BY <1>1 DEF PadInv, EntryInv
  <2>3. entry.answer.call <= calls /\ entry.answer.call < calls'
    BY <1>1, <2>1 DEF PadInv, EntryInv
  <2>4. \A n \in 0..MaxCalls : n > calls' => n > calls
    BY <1>1, PinPadAssumption
  <2>5. EntryInv'
    BY <1>1, <1>2, <2>1, <2>2, <2>3, <2>4 DEF PadInv, EntryInv, padVars
  <2>6. ResponseInv'
    BY <1>1, <1>2 DEF ResponseInv
  <2> QED
    BY <2>5, <2>6
<1>6. QuietInv'
  <2>1. heard'[calls'] = 0
    BY <1>1 DEF PadInv, EntryInv, padVars
  <2>2. Has(START)' = Has(START) /\ Has(FINISH)' = Has(FINISH)
    BY <1>1 DEF Has, cardVars
  <2>3. UNCHANGED <<entry, faults>>
    BY <1>1 DEF padVars
  <2> QED
    BY <1>1, <1>2, <2>1, <2>2, <2>3 DEF PadInv, QuietInv, Ready, NoAnswer
<1> QED
  BY <1>2, <1>3, <1>4, <1>5, <1>6 DEF PadInv

-----------------------------------------------------------------------------
(* The steps of a call, of the user and of the card                         *)

LEMMA Hearing ==
    ASSUME heard \in [0..MaxCalls -> Nat], NEW n \in 0..MaxCalls, heard[n] = 0,
           NEW bytes, CardHears(n, bytes)
    PROVE  /\ heard' \in [0..MaxCalls -> Nat]
           /\ heard'[n] <= 1
           /\ \A m \in 0..MaxCalls : m # n => heard'[m] = heard[m]
BY DEF CardHears

\* What holds after a step that leaves the SmartCard and the request alone.
LEMMA CallFrame ==
    ASSUME PadInv, Unmoved,
           phase' # "idle" => phase # "idle" /\ outcome' = "none",
           outcome' # "out_of_range" \/ (phase = "idle" /\ UNCHANGED outcome),
           phase' = "control" => phase = "control"
    PROVE  /\ CardInv' /\ RequestInv'
           /\ \A tag : Has(tag)' <=> Has(tag)
<1>1. UNCHANGED <<card, noPinPad, features, announced, request, asked, calls>>
  BY DEF Unmoved, cardVars
<1> QED
  BY <1>1 DEF PadInv, CardInv, RequestInv, FeaturesAsAnnounced, Has

LEMMA BeginStep ==
    ASSUME PadInv, BeginEntry, Unmoved
    PROVE  PadInv'
<1>1. /\ phase = "control" /\ Has(START)
      /\ phase' = IF Has(FINISH) THEN "finish" ELSE "respond"
      /\ entry' = [state |-> "typing", answer |-> [bytes |-> <<>>, call |-> calls]]
      /\ UNCHANGED <<outcome, response, heard, faults>>
      /\ outcome = "none"
  BY EntryControlIs DEF PadInv, CardInv, BeginEntry, StartEntry, Proceed
<1>2. /\ UNCHANGED <<card, noPinPad, features, announced, transactionInProgress, request,
                     calls, asked>>
      /\ calls \in 0..MaxCalls
  BY DEF PadInv, TypeOK, Unmoved, cardVars
<1>3. TypeOK'
  <2>1. [bytes |-> <<>>, call |-> calls] \in Answer
    BY <1>2 DEF Answer
  <2>2. entry' \in [state : {"ready", "typing", "ended", "aborted"}, answer : Answer]
    BY <1>1, <2>1
  <2> QED
    BY <1>1, <1>2, <2>2 DEF PadInv, TypeOK
<1>4. CardInv' /\ RequestInv' /\ \A tag : Has(tag)' <=> Has(tag)
  BY <1>1, CallFrame
<1>5. EntryInv'
  <2>1. heard[calls] = 0 /\ calls <= calls
    BY <1>1, <1>2 DEF PadInv, EntryInv
  <2> QED
    BY <1>1, <1>2, <2>1 DEF PadInv, EntryInv
<1>6. ResponseInv' /\ QuietInv'
  <2>1. heard[calls] = 0
    BY <1>1 DEF PadInv, EntryInv
  <2> QED
    BY <1>1, <1>2, <1>4, <2>1 DEF PadInv, ResponseInv, QuietInv
<1> QED
  BY <1>3, <1>4, <1>5, <1>6 DEF PadInv

LEMMA DirectStep ==
    ASSUME PadInv, VerifyDirectly, Unmoved
    PROVE  PadInv'
<1>1. /\ phase = "control" /\ ~Has(START) /\ phase' = "respond"
      /\ UNCHANGED <<outcome, entry, faults>>
      /\ outcome = "none"
  BY EntryControlIs DEF PadInv, CardInv, VerifyDirectly, Proceed
<1>2. /\ UNCHANGED <<card, noPinPad, features, announced, transactionInProgress, request,
                     calls, asked>>
      /\ calls \in 0..MaxCalls /\ calls \in Nat
  BY PinPadAssumption DEF PadInv, TypeOK, Unmoved, cardVars
<1>3. PICK bytes \in CardAnswers \cup ReaderAnswers :
         response' = [bytes |-> bytes, call |-> calls] /\ CardHears(calls, bytes)
  BY DEF VerifyDirectly
<1>4. bytes \in Seq(Byte) /\ Len(bytes) = 2
  BY AnswerBytes
<1>5. /\ heard' \in [0..MaxCalls -> Nat] /\ heard'[calls] <= 1
      /\ \A m \in 0..MaxCalls : m # calls => heard'[m] = heard[m]
  <2>1. heard \in [0..MaxCalls -> Nat] /\ heard[calls] = 0
    BY <1>1 DEF PadInv, TypeOK, EntryInv
  <2> QED
    BY <1>2, <1>3, <2>1, Hearing
<1>6. TypeOK'
  <2>1. response' \in Answer
    BY <1>2, <1>3, <1>4 DEF Answer
  <2> QED
    BY <1>1, <1>2, <1>5, <2>1 DEF PadInv, TypeOK
<1>7. CardInv' /\ RequestInv' /\ \A tag : Has(tag)' <=> Has(tag)
  BY <1>1, CallFrame
<1>8. EntryInv'
  <2>1. entry.answer.call \in 0..MaxCalls /\ entry.answer.call < calls
    BY <1>1 DEF PadInv, TypeOK, EntryInv, Answer
  <2>2. entry.answer.call # calls /\ heard'[entry.answer.call] = heard[entry.answer.call]
    BY <1>2, <1>5, <2>1
  <2>3. \A n \in 0..MaxCalls : n > calls => n # calls
    BY <1>2
  <2>4. \A n \in 0..MaxCalls : heard'[n] <= 1 /\ (n > calls => heard'[n] = 0)
    BY <1>5, <2>3 DEF PadInv, EntryInv
  <2> QED
    BY <1>1, <1>2, <2>1, <2>2, <2>4 DEF PadInv, EntryInv
<1>9. ResponseInv' /\ QuietInv'
  BY <1>1, <1>2, <1>3, <1>4, <1>7 DEF PadInv, ResponseInv, QuietInv, Ready, NoAnswer
<1> QED
  BY <1>6, <1>7, <1>8, <1>9 DEF PadInv

LEMMA ControlFailsStep ==
    ASSUME PadInv, ControlFails, Unmoved
    PROVE  PadInv'
<1>1. phase = "control" /\ phase' = "idle" /\ outcome' \in ScardErrors /\ UNCHANGED response
  BY ExceptionOfFailure DEF ControlFails, ControlFailed, Leave
<1>2. /\ UNCHANGED <<card, noPinPad, features, announced, transactionInProgress, request,
                     calls, asked>>
      /\ calls \in 0..MaxCalls /\ calls \in Nat
      /\ faults \in Nat
  BY PinPadAssumption DEF PadInv, TypeOK, Unmoved, cardVars
<1>3. \/ entry' = entry
      \/ entry' = [state |-> "typing", answer |-> [bytes |-> <<>>, call |-> calls]]
         /\ UNCHANGED heard
  BY DEF ControlFails, StartEntry, padVars
<1>4. /\ heard' \in [0..MaxCalls -> Nat] /\ heard'[calls] <= 1
      /\ \A m \in 0..MaxCalls : m # calls => heard'[m] = heard[m]
  <2>1. heard \in [0..MaxCalls -> Nat] /\ heard[calls] = 0
    BY <1>1 DEF PadInv, TypeOK, EntryInv
  <2>2. CASE UNCHANGED heard
    BY <1>2, <2>1, <2>2
  <2>3. CASE \E bytes \in CardAnswers : CardHears(calls, bytes)
    BY <1>2, <2>1, <2>3, Hearing
  <2> QED
    BY <2>2, <2>3 DEF ControlFails, padVars
<1>5. faults' \in 0..MaxFaults /\ faults' \in Nat
  BY <1>2, PinPadAssumption DEF PadInv, TypeOK, ControlFails, Fault
<1>6. TypeOK'
  <2>1. [bytes |-> <<>>, call |-> calls] \in Answer
    BY <1>2 DEF Answer
  <2>2. entry' \in [state : {"ready", "typing", "ended", "aborted"}, answer : Answer]
    BY <1>3, <2>1 DEF PadInv, TypeOK
  <2> QED
    BY <1>1, <1>2, <1>4, <1>5, <2>2 DEF PadInv, TypeOK
<1>7. CardInv' /\ RequestInv' /\ \A tag : Has(tag)' <=> Has(tag)
  <2>1. outcome' # "out_of_range"
    BY <1>1 DEF ScardErrors
  <2> QED
    BY <1>1, <2>1, CallFrame
<1>8. EntryInv'
  <2>1. entry.answer.call \in 0..MaxCalls /\ entry.answer.call < calls /\ heard[calls] = 0
    BY <1>1 DEF PadInv, TypeOK, EntryInv, Answer
  <2>2. entry.answer.call # calls /\ heard'[entry.answer.call] = heard[entry.answer.call]
    BY <1>2, <1>4, <2>1
  <2>3. \A n \in 0..MaxCalls : n > calls => n # calls
    BY <1>2
  <2>4. \A n \in 0..MaxCalls : heard'[n] <= 1 /\ (n > calls => heard'[n] = 0)
    BY <1>4, <2>3 DEF PadInv, EntryInv
  <2>5. calls <= calls /\ entry.answer.call <= calls
    BY <1>2, <2>1
  <2> QED
    BY <1>1, <1>2, <1>3, <2>1, <2>2, <2>4, <2>5 DEF PadInv, EntryInv
<1>9. ResponseInv'
  BY <1>1 DEF ResponseInv, ScardErrors
<1>10. QuietInv'
  <2>1. ASSUME faults' = 0, Has(START) => Has(FINISH)
        PROVE  FALSE
    <3>1. faults = 0
      BY <1>2, <2>1 DEF ControlFails, Fault
    <3>2. ~Fault
      BY <1>2, <2>1, <3>1 DEF Fault
    <3>3. entry = Ready
      BY <1>1, <2>1, <3>1 DEF PadInv, QuietInv
    <3>4. EntryControl \in {ControlCode(START), ControlCode(DIRECT)}
      BY <1>1, EntryControlIs DEF PadInv
    <3> QED
      BY <3>2, <3>3, <3>4 DEF ControlFails, Ready
  <2> QED
    BY <1>7, <2>1 DEF QuietInv
<1> QED
  BY <1>6, <1>7, <1>8, <1>9, <1>10 DEF PadInv

LEMMA ReadyType ==
    /\ NoAnswer \in Answer /\ 0 \in 0..MaxCalls
    /\ Ready \in [state : {"ready", "typing", "ended", "aborted"}, answer : Answer]
    /\ Ready.state = "ready" /\ Ready.answer = NoAnswer /\ NoAnswer.call = 0
BY PinPadAssumption DEF NoAnswer, Answer, Ready

LEMMA FinishStep ==
    ASSUME PadInv, FinishEntry, Unmoved
    PROVE  PadInv'
<1>1. /\ phase = "finish" /\ phase' = "respond" /\ entry.state = "ended"
      /\ response' = entry.answer /\ entry' = Ready
      /\ UNCHANGED <<outcome, heard, faults>>
      /\ outcome = "none"
  BY DEF PadInv, CardInv, FinishEntry
<1>2. /\ UNCHANGED <<card, noPinPad, features, announced, transactionInProgress, request,
                     calls, asked>>
      /\ calls \in Nat
  BY PinPadAssumption DEF PadInv, TypeOK, Unmoved, cardVars
<1>3. TypeOK'
  <2>1. entry.answer \in Answer
    BY DEF PadInv, TypeOK
  <2> QED
    BY <1>1, <1>2, <2>1, ReadyType DEF PadInv, TypeOK
<1>4. CardInv' /\ RequestInv' /\ \A tag : Has(tag)' <=> Has(tag)
  BY <1>1, CallFrame
<1>5. EntryInv'
  <2>1. 0 <= calls
    BY <1>2
  <2> QED
    BY <1>1, <1>2, <2>1, ReadyType DEF PadInv, EntryInv
<1>6. ResponseInv' /\ QuietInv'
  BY <1>1, <1>2, <1>4 DEF PadInv, EntryInv, ResponseInv, QuietInv
<1> QED
  BY <1>3, <1>4, <1>5, <1>6 DEF PadInv

LEMMA FinishFailsStep ==
    ASSUME PadInv, FinishFails, Unmoved
    PROVE  PadInv'
<1>1. /\ phase = "finish" /\ phase' = "idle" /\ outcome' \in ScardErrors
      /\ UNCHANGED <<response, heard>>
      /\ entry' = Ready \/ UNCHANGED entry
  BY ExceptionOfFailure DEF FinishFails, FinishFailed, Leave
<1>2. /\ UNCHANGED <<card, noPinPad, features, announced, transactionInProgress, request,
                     calls, asked>>
      /\ calls \in Nat /\ faults \in Nat
  BY PinPadAssumption DEF PadInv, TypeOK, Unmoved, cardVars
<1>3. faults' \in 0..MaxFaults
  BY <1>2, PinPadAssumption DEF PadInv, TypeOK, FinishFails, Fault
<1>4. TypeOK'
  BY <1>1, <1>2, <1>3, ReadyType DEF PadInv, TypeOK
<1>5. CardInv' /\ RequestInv' /\ \A tag : Has(tag)' <=> Has(tag)
  <2>1. outcome' # "out_of_range"
    BY <1>1 DEF ScardErrors
  <2> QED
    BY <1>1, <2>1, CallFrame
<1>6. EntryInv'
  <2>1. 0 <= calls
    BY <1>2
  <2> QED
    BY <1>1, <1>2, <2>1, ReadyType DEF PadInv, EntryInv
<1>7. ResponseInv'
  BY <1>1 DEF ResponseInv, ScardErrors
<1>8. QuietInv'
  <2>1. ASSUME faults' = 0, Has(START) => Has(FINISH)
        PROVE  entry' = Ready /\ heard[calls] = 0 /\ heard \in [0..MaxCalls -> Nat]
    <3>1. faults = 0 /\ ~Fault
      BY <1>2, <2>1 DEF FinishFails, Fault
    <3>2. entry' = Ready /\ entry.state # "ended"
      BY <3>1 DEF FinishFails
    <3> QED
      BY <1>1, <2>1, <3>1, <3>2 DEF PadInv, TypeOK, QuietInv
  <2> QED
    BY <1>1, <1>2, <1>5, <2>1 DEF QuietInv, Ready, NoAnswer
<1> QED
  BY <1>4, <1>5, <1>6, <1>7, <1>8 DEF PadInv

LEMMA RespondStep ==
    ASSUME PadInv, Respond, Unmoved
    PROVE  PadInv'
<1>1. /\ phase = "respond" /\ phase' = "idle"
      /\ outcome' \in {"invalid_argument", "returned", "Error"}
      /\ outcome' = "invalid_argument" <=> ResponseFromBytesThrows(response.bytes)
      /\ UNCHANGED <<response, entry, heard, faults>>
  BY DEF Respond, Leave, padVars
<1>2. /\ UNCHANGED <<card, noPinPad, features, announced, transactionInProgress, request,
                     calls, asked>>
      /\ calls \in Nat
  BY PinPadAssumption DEF PadInv, TypeOK, Unmoved, cardVars
<1>3. TypeOK'
  BY <1>1, <1>2 DEF PadInv, TypeOK
<1>4. CardInv' /\ RequestInv' /\ \A tag : Has(tag)' <=> Has(tag)
  BY <1>1, CallFrame
<1>5. EntryInv'
  BY <1>1, <1>2 DEF PadInv, EntryInv
<1>6. ResponseInv'
  <2>1. ResponseFromBytesThrows(NoAnswer.bytes)
    BY DEF ResponseFromBytesThrows, NoAnswer
  <2> QED
    BY <1>1, <1>2, <2>1 DEF PadInv, ResponseInv
<1>7. QuietInv'
  <2>1. ASSUME Len(response.bytes) = 2
        PROVE  ~ResponseFromBytesThrows(response.bytes)
    BY <2>1 DEF ResponseFromBytesThrows
  <2> QED
    BY <1>1, <1>2, <1>4, <2>1 DEF PadInv, QuietInv, Ready, NoAnswer
<1> QED
  BY <1>3, <1>4, <1>5, <1>6, <1>7 DEF PadInv

\* The user and the card go on while the caller may be anywhere.
LEMMA EntryEndsStep ==
    ASSUME PadInv, EntryEnds
    PROVE  PadInv'
<1>1. /\ entry.state = "typing"
      /\ UNCHANGED <<card, noPinPad, features, announced, transactionInProgress, phase,
                     request, response, outcome, calls, asked, faults>>
  BY DEF EntryEnds, cardVars, callVars
<1>2. PICK bytes \in CardAnswers \cup ReaderAnswers :
         /\ entry' = [entry EXCEPT !.state = "ended", !.answer.bytes = bytes]
         /\ CardHears(entry.answer.call, bytes)
  BY DEF EntryEnds
<1>3. bytes \in Seq(Byte) /\ Len(bytes) = 2
  BY AnswerBytes
<1> DEFINE n == entry.answer.call
<1>4. /\ n \in 0..MaxCalls /\ n \in Nat /\ n <= calls /\ heard[n] = 0
      /\ heard \in [0..MaxCalls -> Nat] /\ calls \in Nat
  BY <1>1, PinPadAssumption DEF PadInv, TypeOK, EntryInv, Answer
<1>5. /\ heard' \in [0..MaxCalls -> Nat] /\ heard'[n] <= 1
      /\ \A m \in 0..MaxCalls : m # n => heard'[m] = heard[m]
  BY <1>2, <1>4, Hearing
<1>6. /\ entry' \in [state : {"ready", "typing", "ended", "aborted"}, answer : Answer]
      /\ entry'.state = "ended" /\ entry'.answer.call = n /\ entry'.answer.bytes = bytes
  BY <1>2, <1>3 DEF PadInv, TypeOK, Answer
<1> HIDE DEF n
<1>7. TypeOK'
  BY <1>1, <1>5, <1>6 DEF PadInv, TypeOK
<1>8. /\ CardInv' /\ RequestInv' /\ ResponseInv'
      /\ \A tag : Has(tag)' <=> Has(tag)
  BY <1>1 DEF PadInv, CardInv, RequestInv, ResponseInv, FeaturesAsAnnounced, Has
<1>9. EntryInv'
  <2>1. phase = "control" => n < calls /\ n # calls /\ heard[calls] = 0
    BY <1>4 DEF PadInv, EntryInv, n
  <2>2. phase = "finish" => n = calls
    BY DEF PadInv, EntryInv, n
  <2>3. calls \in 0..MaxCalls
    BY DEF PadInv, TypeOK
  <2>4. \A m \in 0..MaxCalls : m > calls => m # n
    BY <1>4
  <2>5. \A m \in 0..MaxCalls : heard'[m] <= 1 /\ (m > calls => heard'[m] = 0)
    BY <1>5, <2>4 DEF PadInv, EntryInv
  <2> QED
    BY <1>1, <1>4, <1>5, <1>6, <2>1, <2>2, <2>3, <2>5 DEF EntryInv
<1>10. QuietInv'
  <2>1. ASSUME faults = 0, Has(START) => Has(FINISH)
        PROVE  phase = "finish"
    BY <1>1, <2>1 DEF PadInv, QuietInv, Ready
  <2> QED
    BY <1>1, <1>3, <1>6, <1>8, <2>1 DEF QuietInv
<1> QED
  BY <1>7, <1>8, <1>9, <1>10 DEF PadInv

LEMMA EntryAbortsStep ==
    ASSUME PadInv, EntryAborts
    PROVE  PadInv'
<1>1. /\ entry.state = "typing"
      /\ UNCHANGED <<card, noPinPad, features, announced, transactionInProgress, phase,
                     request, response, outcome, calls, asked, faults, heard>>
      /\ entry' = [entry EXCEPT !.state = "aborted"]
  BY DEF EntryAborts, cardVars, callVars
<1>2. /\ entry' \in [state : {"ready", "typing", "ended", "aborted"}, answer : Answer]
      /\ entry'.state = "aborted" /\ entry'.answer = entry.answer
  BY <1>1 DEF PadInv, TypeOK
<1>3. TypeOK'
  BY <1>1, <1>2 DEF PadInv, TypeOK
<1>4. /\ CardInv' /\ RequestInv' /\ ResponseInv'
      /\ \A tag : Has(tag)' <=> Has(tag)
  BY <1>1 DEF PadInv, CardInv, RequestInv, ResponseInv, FeaturesAsAnnounced, Has
<1>5. EntryInv'
  BY <1>1, <1>2 DEF PadInv, EntryInv
<1>6. QuietInv'
  <2>1. ASSUME faults = 0, Has(START) => Has(FINISH)
        PROVE  phase = "finish" /\ heard[calls] = 0
    BY <1>1, <2>1 DEF PadInv, QuietInv, Ready
  <2> QED
    BY <1>1, <1>2, <1>4, <2>1 DEF QuietInv
<1> QED
  BY <1>3, <1>4, <1>5, <1>6 DEF PadInv

LEMMA StutterStep ==
    ASSUME PadInv, UNCHANGED vars
    PROVE  PadInv'
<1>1. /\ UNCHANGED <<card, noPinPad, features, announced, transactionInProgress, phase,
                     request, response, outcome, calls, asked, faults, heard, entry>>
  BY DEF vars, cardVars, callVars, padVars
<1> QED
  BY <1>1 DEF PadInv, TypeOK, CardInv, EntryInv, ResponseInv, QuietInv, RequestInv,
              FeaturesAsAnnounced, Has, Ready, NoAnswer

LEMMA PadStep ==
    ASSUME PadInv, [Next]_vars
    PROVE  PadInv'
<1>1. CASE ConnectCard
  BY <1>1, ConnectStep
<1>2. CASE ToggleTransaction
  BY <1>2, ToggleStep
<1>3. CASE TransmitCTL
  BY <1>3, TransmitStep
<1>4. CASE CallStep
  <2>1. Unmoved
    BY <1>4 DEF CallStep, Unmoved
  <2> QED
    BY <1>4, <2>1, BeginStep, DirectStep, ControlFailsStep, FinishStep, FinishFailsStep,
       RespondStep DEF CallStep
<1>5. CASE EntryEnds
  BY <1>5, EntryEndsStep
<1>6. CASE EntryAborts
  BY <1>6, EntryAbortsStep
<1>7. CASE UNCHANGED vars
  BY <1>7, StutterStep
<1> QED
  BY <1>1, <1>2, <1>3, <1>4, <1>5, <1>6, <1>7 DEF Next

-----------------------------------------------------------------------------
(* The theorems                                                             *)

\* However calls of transmitCTL(), control calls that fail, the user and the card
\* interleave, the parts of PadInv hold at every step (SmartCard.cpp:86-178).
THEOREM PadInvariance == Spec => []PadInv
<1> QED
  BY InitPad, PadStep, PTL DEF Spec

\* The features a SmartCard works with are the ones that the reader announced,
\* in any order and with any repetition (SmartCard.cpp:86-100).
THEOREM FeaturesAreAnnounced == Spec => []FeaturesAsAnnounced
<1>1. PadInv => FeaturesAsAnnounced
  BY DEF PadInv, CardInv
<1> QED
  BY <1>1, PadInvariance, PTL

\* readerHasPinPad() and transmitCTL() agree on what the reader can do
\* (SmartCard.cpp:115-121, 163-165).
THEOREM PinPadMeansPinPad == Spec => []PinPadMeansEntry
<1>1. PadInv => PinPadMeansEntry
  BY DEF PadInv, CardInv, PinPadMeansEntry, readerHasPinPad, HasPinPad
<1> QED
  BY <1>1, PadInvariance, PTL

\* The reader finds in the request what the caller asked for, for every command,
\* minimum length and language (SmartCard.cpp:145-161).
THEOREM RequestIsRead == Spec => []RequestReadsAsMeant
<1>1. PadInv => RequestReadsAsMeant
  BY RequestMeans DEF PadInv
<1> QED
  BY <1>1, PadInvariance, PTL

\* A call costs the user one try of the PIN at most, whatever fails and whichever
\* entries of earlier calls end meanwhile (SmartCard.cpp:163-176).
THEOREM OneTry == Spec => []OneTryPerCall
<1>1. PadInv => OneTryPerCall
  <2>1. \A n \in 1..MaxCalls : n \in 0..MaxCalls
    BY PinPadAssumption
  <2> QED
    BY <2>1 DEF PadInv, EntryInv, OneTryPerCall
<1> QED
  BY <1>1, PadInvariance, PTL

\* No call returns the answer to the entry of another (SmartCard.cpp:168-178).
THEOREM AnswerIsOwn == Spec => []AnswerIsOfThisCall
<1>1. PadInv => AnswerIsOfThisCall
  BY DEF PadInv, ResponseInv, AnswerIsOfThisCall
<1> QED
  BY <1>1, PadInvariance, PTL

\* While no control call fails, a call of a reader with all it takes leaves no
\* entry behind and reports what the card heard (SmartCard.cpp:163-178).
THEOREM EntryReported == Spec => []EntryIsReported
<1>1. PadInv => EntryIsReported
  BY DEF PadInv, QuietInv, EntryIsReported
<1> QED
  BY <1>1, PadInvariance, PTL
=============================================================================
