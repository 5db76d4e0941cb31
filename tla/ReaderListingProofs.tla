------------------------- MODULE ReaderListingProofs -------------------------
(***************************************************************************)
(* What listReaders() promises, for any number of readers with names of    *)
(* any lengths, any cards, and any number of events between its calls.     *)
(***************************************************************************)
EXTENDS ReaderListing, SharedLemmas

-----------------------------------------------------------------------------
(* The folds of the model are recursive functions on the subsets of a finite *)
(* set: induction is over how many elements a subset has.                     *)

Upto(D, n) == {s \in SUBSET D : Cardinality(s) <= n}

LEMMA Smaller ==
    ASSUME NEW D, IsFiniteSet(D), NEW n \in Nat
    PROVE  /\ Upto(D, 0) = {{}}
           /\ Upto(D, n) \subseteq Upto(D, n + 1)
           /\ \A s \in Upto(D, n + 1) : \A x \in s : s \ {x} \in Upto(D, n)
           /\ Upto(D, Cardinality(D)) = SUBSET D
<1>1. \A s \in SUBSET D : /\ IsFiniteSet(s)
                          /\ Cardinality(s) \in Nat
                          /\ Cardinality(s) <= Cardinality(D)
  BY FS_Subset, FS_CardinalityType
<1>2. Upto(D, 0) = {{}}
  BY <1>1, FS_EmptySet DEF Upto
<1>3. Upto(D, n) \subseteq Upto(D, n + 1)
  BY <1>1 DEF Upto
<1>4. ASSUME NEW s \in Upto(D, n + 1), NEW x \in s
      PROVE  s \ {x} \in Upto(D, n)
  <2>1. /\ s \in SUBSET D /\ IsFiniteSet(s) /\ Cardinality(s) \in Nat
        /\ Cardinality(s) <= n + 1
    BY <1>1 DEF Upto
  <2>2. Cardinality(s \ {x}) = Cardinality(s) - 1
    BY <2>1, FS_RemoveElement
  <2> QED
    BY <2>1, <2>2 DEF Upto
<1>5. Upto(D, Cardinality(D)) = SUBSET D
  BY <1>1 DEF Upto
<1> QED
  BY <1>2, <1>3, <1>4, <1>5

-----------------------------------------------------------------------------
(* The room that a list of names needs                                     *)

\* One step of the sum of the lengths: it takes some name from the set.
SumStep(sum, s) ==
    IF s = {} THEN 0
    ELSE LET r == CHOOSE r \in s : TRUE IN sum[s \ {r}] + NameLength[r]

\* The sum is defined on sets of any size ...
LEMMA SumExists ==
    ASSUME NEW names \in SUBSET Readers
    PROVE  \E sum : sum = [s \in SUBSET names |-> SumStep(sum, s)]
<1> DEFINE Sums(n) == {sum \in [Upto(names, n) -> Nat] :
                          \A s \in Upto(names, n) : sum[s] = SumStep(sum, s)}
           T       == {n \in Nat : Sums(n) # {}}
<1>1. IsFiniteSet(names) /\ Cardinality(names) \in Nat
  BY ListingAssumption, FS_Subset, FS_CardinalityType
<1>2. 0 \in T
  <2> DEFINE sum == [s \in Upto(names, 0) |-> 0]
  <2>1. Upto(names, 0) = {{}}
    BY <1>1, Smaller
  <2>2. sum \in Sums(0)
    BY <2>1 DEF SumStep
  <2> QED
    BY <2>2
<1>3. ASSUME NEW n \in Nat, n \in T
      PROVE  n + 1 \in T
  <2>1. PICK f \in Sums(n) : TRUE
    BY <1>3
  <2> DEFINE g == [s \in Upto(names, n + 1) |-> SumStep(f, s)]
  <2>2. /\ f \in [Upto(names, n) -> Nat]
        /\ \A s \in Upto(names, n) : f[s] = SumStep(f, s)
    BY <2>1
  <2>3. \A s \in Upto(names, n) : s \in Upto(names, n + 1) /\ g[s] = f[s]
    BY <1>1, <2>2, Smaller
  <2>4. ASSUME NEW s \in Upto(names, n + 1)
        PROVE  SumStep(f, s) \in Nat /\ SumStep(g, s) = SumStep(f, s)
    <3>1. CASE s = {}
      BY <3>1 DEF SumStep
    <3>2. CASE s # {}
      <4> DEFINE r == CHOOSE r \in s : TRUE
      <4>1. r \in s /\ s \ {r} \in Upto(names, n)
        BY <1>1, <3>2, Smaller
      <4>2. SumStep(f, s) = f[s \ {r}] + NameLength[r]
            /\ SumStep(g, s) = g[s \ {r}] + NameLength[r]
        BY <3>2 DEF SumStep
      <4> HIDE DEF r, g
      <4>3. r \in Readers /\ NameLength[r] \in Nat
        BY <4>1, ListingAssumption DEF Upto
      <4>4. f[s \ {r}] \in Nat /\ g[s \ {r}] = f[s \ {r}]
        BY <4>1, <2>2, <2>3
      <4> QED
        BY <4>2, <4>3, <4>4
    <3> QED
      BY <3>1, <3>2
  <2>5. g \in Sums(n + 1)
    <3>1. g \in [Upto(names, n + 1) -> Nat]
      BY <2>4
    <3>2. \A s \in Upto(names, n + 1) : g[s] = SumStep(g, s)
      BY <2>4
    <3> HIDE DEF g
    <3> QED
      BY <3>1, <3>2
  <2> HIDE DEF Sums
  <2> QED
    BY <2>5
<1> HIDE DEF T
<1>4. Nat \subseteq T
  BY <1>2, <1>3, SetInduction
<1> DEFINE N == Cardinality(names)
<1>5. N \in Nat /\ Upto(names, N) = SUBSET names
  BY <1>1, Smaller
<1>6. PICK sum \in Sums(N) : TRUE
  BY <1>4, <1>5 DEF T
<1>7. sum = [s \in SUBSET names |-> SumStep(sum, s)]
  BY <1>5, <1>6
<1> QED
  BY <1>7

\* ... and a number.
LEMMA SumType ==
    ASSUME NEW names \in SUBSET Readers,
           NEW sum, \A s \in SUBSET names : sum[s] = SumStep(sum, s)
    PROVE  sum[names] \in Nat
<1> DEFINE T == {n \in Nat : \A s \in Upto(names, n) : sum[s] \in Nat}
<1>1. IsFiniteSet(names) /\ Cardinality(names) \in Nat
  BY ListingAssumption, FS_Subset, FS_CardinalityType
<1>2. 0 \in T
  <2>1. Upto(names, 0) = {{}}
    BY <1>1, Smaller
  <2>2. sum[{}] = 0
    BY DEF SumStep
  <2>3. \A s \in Upto(names, 0) : sum[s] = 0
    BY <2>1, <2>2, Zenon
  <2> QED
    BY <2>3
<1>3. ASSUME NEW n \in Nat, n \in T
      PROVE  n + 1 \in T
  <2> SUFFICES ASSUME NEW s \in Upto(names, n + 1)
               PROVE  sum[s] \in Nat
    OBVIOUS
  <2>1. s \in SUBSET names /\ sum[s] = SumStep(sum, s)
    BY DEF Upto
  <2>2. CASE s = {}
    BY <2>1, <2>2 DEF SumStep
  <2>3. CASE s # {}
    <3> DEFINE r == CHOOSE r \in s : TRUE
    <3>1. r \in s /\ s \ {r} \in Upto(names, n)
      BY <1>1, <2>3, Smaller
    <3>2. sum[s] = sum[s \ {r}] + NameLength[r]
      BY <2>1, <2>3 DEF SumStep
    <3> HIDE DEF r
    <3>3. NameLength[r] \in Nat
      BY <2>1, <3>1, ListingAssumption
    <3> QED
      BY <1>3, <3>1, <3>2, <3>3, SMTT(30)
  <2> QED
    BY <2>2, <2>3
<1> HIDE DEF T
<1>4. Nat \subseteq T
  BY <1>2, <1>3, SetInduction
<1>5. Cardinality(names) \in Nat /\ names \in Upto(names, Cardinality(names))
  BY <1>1 DEF Upto
<1> QED
  BY <1>4, <1>5 DEF T

LEMMA RoomForType ==
    ASSUME NEW names \in SUBSET Readers
    PROVE  RoomFor(names) \in Nat
<1> DEFINE Sum == CHOOSE sum : sum = [s \in SUBSET names |-> SumStep(sum, s)]
<1>1. Sum = [s \in SUBSET names |-> SumStep(Sum, s)]
  BY SumExists
<1>2. RoomFor(names) = 1 + Sum[names]
  BY DEF RoomFor, FoldSet, MapThenFoldSet, SumStep
<1> HIDE DEF Sum
<1>3. \A s \in SUBSET names : Sum[s] = SumStep(Sum, s)
  <2> DEFINE Step(s) == SumStep(Sum, s)
  <2>1. Sum = [s \in SUBSET names |-> Step(s)]
    BY <1>1
  <2> HIDE DEF Step
  <2>2. \A s \in SUBSET names : Sum[s] = Step(s)
    BY <2>1
  <2> QED
    BY <2>2 DEF Step
<1> QED
  BY <1>2, <1>3, SumType

-----------------------------------------------------------------------------
(* Lists of names, and the buffer they come in                             *)

\* A list of the names in a set has each of them, once.
LEMMA ListsOf ==
    ASSUME NEW P \in SUBSET Readers, NEW names \in SetToSeqs(P)
    PROVE  /\ names \in Seq(Readers)
           /\ Len(names) = Cardinality(P)
           /\ ToSet(names) = P
<1> DEFINE N == Cardinality(P)
<1>1. IsFiniteSet(P) /\ N \in Nat
  BY ListingAssumption, FS_Subset, FS_CardinalityType
<1>2. /\ names \in [1..N -> P]
      /\ \A i, j \in 1..N : i # j => names[i] # names[j]
  BY DEF SetToSeqs
<1>3. names \in Injection(1..N, P)
  BY <1>2 DEF Injection, IsInjective
<1>4. Cardinality(1..N) = N
  <2> HIDE DEF N
  <2> QED
    BY <1>1, FS_Interval
<1>5. names \in Surjection(1..N, P)
  BY <1>1, <1>3, <1>4, FS_Injection, Zenon
<1> HIDE DEF N
<1>6. names \in Seq(Readers) /\ Len(names) = N
  <2>1. names \in [1..N -> Readers]
    BY <1>2
  <2> QED
    BY <1>1, <2>1
<1>7. ToSet(names) = P
  BY <1>2, <1>5 DEF Surjection, ToSet
<1> QED
  BY <1>6, <1>7 DEF N

\* The names before the first empty one are those that were put there.
LEMMA NamesInBuffer ==
    ASSUME NEW names \in Seq(Readers), NEW k \in Nat \ {0}
    PROVE  /\ names \o [i \in 1..k |-> Null] \in Seq(Readers \cup {Null})
           /\ ReaderNamePointerList(names \o [i \in 1..k |-> Null]) = names
<1> DEFINE S      == Readers \cup {Null}
           nulls  == [i \in 1..k |-> Null]
           buffer == names \o nulls
           N      == Len(names)
<1>1. names \in Seq(S) /\ nulls \in Seq(S) /\ N \in Nat /\ Len(nulls) = k
  OBVIOUS
<1>2. \A i \in 1..N : names[i] \in Readers /\ names[i] # Null
  <2>1. \A i \in 1..N : names[i] \in Readers
    BY ElementOfSeq
  <2> QED
    BY <2>1, ListingAssumption
<1>3. \A i \in 1..k : nulls[i] = Null
  OBVIOUS
<1> HIDE DEF nulls, N, S
<1>4. /\ buffer \in Seq(S) /\ Len(buffer) = N + k
      /\ \A i \in 1..N : buffer[i] = names[i]
      /\ \A i \in 1..k : buffer[N + i] = nulls[i]
  <2>1. names \in Seq(S) /\ nulls \in Seq(S)
    BY <1>1
  <2>2. /\ buffer \in Seq(S) /\ Len(buffer) = Len(names) + Len(nulls)
        /\ \A i \in 1..Len(names) : buffer[i] = names[i]
        /\ \A i \in 1..Len(nulls) : buffer[Len(names) + i] = nulls[i]
    BY <2>1, Joined, SMT
  <2> QED
    BY <1>1, <2>2 DEF N
<1> HIDE DEF buffer
<1>5. FirstEmpty(buffer) = N + 1
  <2> DEFINE I == {i \in 1..Len(buffer) : buffer[i] = Null}
  <2>1. N + 1 \in I /\ \A i \in I : N + 1 <= i
    BY <1>1, <1>2, <1>3, <1>4
  <2>2. I \subseteq Nat
    BY <1>1, <1>4
  <2>3. FirstEmpty(buffer) = IF I # {} THEN Min(I) ELSE 0
    BY DEF FirstEmpty, SelectInSeq
  <2> HIDE DEF I
  <2>4. Min(I) = N + 1
    <3>1. \A x \in I : (\A y \in I : x <= y) => x = N + 1
      BY <1>1, <2>1, <2>2
    <3> QED
      BY <2>1, <3>1 DEF Min
  <2> QED
    BY <2>1, <2>3, <2>4
<1>6. ReaderNamePointerList(buffer) = SubSeq(buffer, 1, N)
  BY <1>1, <1>5 DEF ReaderNamePointerList
<1>7. SubSeq(buffer, 1, N) = names
  <2>1. \A i \in 1..N : buffer[i] \in Readers
    BY <1>2, <1>4
  <2>2. /\ SubSeq(buffer, 1, N) \in Seq(Readers)
        /\ Len(SubSeq(buffer, 1, N)) = N
        /\ \A i \in 1..N : SubSeq(buffer, 1, N)[i] = buffer[i]
    BY <1>1, <2>1, SubSeqProperties
  <2> QED
    BY <1>1, <1>4, <2>2, Same DEF N
<1> QED
  BY <1>4, <1>6, <1>7 DEF buffer, nulls, S

-----------------------------------------------------------------------------
(* States and statuses                                                     *)

LEMMA StatusNames ==
    Statuses = {"UNAWARE", "IGNORE", "CHANGED", "UNKNOWN", "UNAVAILABLE", "EMPTY",
                "PRESENT", "ATRMATCH", "EXCLUSIVE", "INUSE", "MUTE", "UNPOWERED"}
<1>1. Len(Status) = 12 /\ DOMAIN Status = 1..12
  BY DEF Status
<1>2. 1..12 = {1, 2, 3, 4, 5, 6, 7, 8, 9, 10, 11, 12}
  OBVIOUS
<1>3. Statuses = {Status[i] : i \in {1, 2, 3, 4, 5, 6, 7, 8, 9, 10, 11, 12}}
  BY <1>1, <1>2 DEF Statuses, ToSet
<1>4. /\ Status[1] = "UNAWARE" /\ Status[2] = "IGNORE" /\ Status[3] = "CHANGED"
      /\ Status[4] = "UNKNOWN" /\ Status[5] = "UNAVAILABLE" /\ Status[6] = "EMPTY"
      /\ Status[7] = "PRESENT" /\ Status[8] = "ATRMATCH" /\ Status[9] = "EXCLUSIVE"
      /\ Status[10] = "INUSE" /\ Status[11] = "MUTE" /\ Status[12] = "UNPOWERED"
  BY DEF Status
<1> QED
  BY <1>3, <1>4
\* A state's bit is in the word if and only if the report has the state: the bits
\* below it and those above it, the count of events included, do not disturb it.
LEMMA ReportInWord ==
    ASSUME NEW report \in Report, NEW state \in SCardStates
    PROVE  Has(DwEventState(report), state) <=> state \in report.states
<1> DEFINE word  == DwEventState(report)
           count == report.count
           Bit(s) == IF s \in report.states THEN 1 ELSE 0
           b1 == Bit("IGNORE")
           b2 == Bit("CHANGED")
           b3 == Bit("UNKNOWN")
           b4 == Bit("UNAVAILABLE")
           b5 == Bit("EMPTY")
           b6 == Bit("PRESENT")
           b7 == Bit("ATRMATCH")
           b8 == Bit("EXCLUSIVE")
           b9 == Bit("INUSE")
           b10== Bit("MUTE")
           b11== Bit("UNPOWERED")
<1>1. count \in Nat
  <2>1. count \in EventCounts
    BY DEF Report
  <2> HIDE DEF count
  <2> QED
    BY <2>1, SMT DEF EventCounts
<1>2. /\ b1 \in {0, 1} /\ b2 \in {0, 1} /\ b3 \in {0, 1} /\ b4 \in {0, 1}
      /\ b5 \in {0, 1} /\ b6 \in {0, 1} /\ b7 \in {0, 1} /\ b8 \in {0, 1}
      /\ b9 \in {0, 1} /\ b10 \in {0, 1} /\ b11 \in {0, 1}
  OBVIOUS
<1>3. word = b1 + 2 * b2 + 4 * b3 + 8 * b4 + 16 * b5 + 32 * b6 + 64 * b7 + 128 * b8
             + 256 * b9 + 512 * b10 + 1024 * b11 + 65536 * count
  BY <1>1 DEF DwEventState, SCARD_STATE
<1> HIDE DEF word, count, Bit, b1, b2, b3, b4, b5, b6, b7, b8, b9, b10, b11
<1>4. (word \div 1) % 2 = b1
  BY <1>1, <1>2, <1>3
<1>5. (word \div 2) % 2 = b2
  <2> DEFINE low  == b1
             high == b3 + 2 * b4 + 4 * b5 + 8 * b6 + 16 * b7 + 32 * b8 + 64 * b9
                     + 128 * b10 + 256 * b11 + 16384 * count
  <2>1. low \in 0..1 /\ high \in Nat /\ word = low + 2 * b2 + 4 * high
    BY <1>1, <1>2, <1>3
  <2> HIDE DEF low, high
  <2>2. word \div 2 = b2 + 2 * high
    BY <1>2, <2>1
  <2> QED
    BY <1>2, <2>1, <2>2
<1>6. (word \div 4) % 2 = b3
  <2> DEFINE low  == b1 + 2 * b2
             high == b4 + 2 * b5 + 4 * b6 + 8 * b7 + 16 * b8 + 32 * b9 + 64 * b10
                     + 128 * b11 + 8192 * count
  <2>1. low \in 0..3 /\ high \in Nat /\ word = low + 4 * b3 + 8 * high
    BY <1>1, <1>2, <1>3
  <2> HIDE DEF low, high
  <2>2. word \div 4 = b3 + 2 * high
    BY <1>2, <2>1
  <2> QED
    BY <1>2, <2>1, <2>2
<1>7. (word \div 8) % 2 = b4
  <2> DEFINE low  == b1 + 2 * b2 + 4 * b3
             high == b5 + 2 * b6 + 4 * b7 + 8 * b8 + 16 * b9 + 32 * b10 + 64 * b11
                     + 4096 * count
  <2>1. low \in 0..7 /\ high \in Nat /\ word = low + 8 * b4 + 16 * high
    BY <1>1, <1>2, <1>3
  <2> HIDE DEF low, high
  <2>2. word \div 8 = b4 + 2 * high
    BY <1>2, <2>1
  <2> QED
    BY <1>2, <2>1, <2>2
<1>8. (word \div 16) % 2 = b5
  <2> DEFINE low  == b1 + 2 * b2 + 4 * b3 + 8 * b4
             high == b6 + 2 * b7 + 4 * b8 + 8 * b9 + 16 * b10 + 32 * b11
                     + 2048 * count
  <2>1. low \in 0..15 /\ high \in Nat /\ word = low + 16 * b5 + 32 * high
    BY <1>1, <1>2, <1>3
  <2> HIDE DEF low, high
  <2>2. word \div 16 = b5 + 2 * high
    BY <1>2, <2>1
  <2> QED
    BY <1>2, <2>1, <2>2
<1>9. (word \div 32) % 2 = b6
  <2> DEFINE low  == b1 + 2 * b2 + 4 * b3 + 8 * b4 + 16 * b5
             high == b7 + 2 * b8 + 4 * b9 + 8 * b10 + 16 * b11 + 1024 * count
  <2>1. low \in 0..31 /\ high \in Nat /\ word = low + 32 * b6 + 64 * high
    BY <1>1, <1>2, <1>3
  <2> HIDE DEF low, high
  <2>2. word \div 32 = b6 + 2 * high
    BY <1>2, <2>1
  <2> QED
    BY <1>2, <2>1, <2>2
<1>10. (word \div 64) % 2 = b7
  <2> DEFINE low  == b1 + 2 * b2 + 4 * b3 + 8 * b4 + 16 * b5 + 32 * b6
             high == b8 + 2 * b9 + 4 * b10 + 8 * b11 + 512 * count
  <2>1. low \in 0..63 /\ high \in Nat /\ word = low + 64 * b7 + 128 * high
    BY <1>1, <1>2, <1>3
  <2> HIDE DEF low, high
  <2>2. word \div 64 = b7 + 2 * high
    BY <1>2, <2>1
  <2> QED
    BY <1>2, <2>1, <2>2
<1>11. (word \div 128) % 2 = b8
  <2> DEFINE low  == b1 + 2 * b2 + 4 * b3 + 8 * b4 + 16 * b5 + 32 * b6 + 64 * b7
             high == b9 + 2 * b10 + 4 * b11 + 256 * count
  <2>1. low \in 0..127 /\ high \in Nat /\ word = low + 128 * b8 + 256 * high
    BY <1>1, <1>2, <1>3
  <2> HIDE DEF low, high
  <2>2. word \div 128 = b8 + 2 * high
    BY <1>2, <2>1
  <2> QED
    BY <1>2, <2>1, <2>2
<1>12. (word \div 256) % 2 = b9
  <2> DEFINE low  == b1 + 2 * b2 + 4 * b3 + 8 * b4 + 16 * b5 + 32 * b6 + 64 * b7
                     + 128 * b8
             high == b10 + 2 * b11 + 128 * count
  <2>1. low \in 0..255 /\ high \in Nat /\ word = low + 256 * b9 + 512 * high
    BY <1>1, <1>2, <1>3
  <2> HIDE DEF low, high
  <2>2. word \div 256 = b9 + 2 * high
    BY <1>2, <2>1
  <2> QED
    BY <1>2, <2>1, <2>2
<1>13. (word \div 512) % 2 = b10
  <2> DEFINE low  == b1 + 2 * b2 + 4 * b3 + 8 * b4 + 16 * b5 + 32 * b6 + 64 * b7
                     + 128 * b8 + 256 * b9
             high == b11 + 64 * count
  <2>1. low \in 0..511 /\ high \in Nat /\ word = low + 512 * b10 + 1024 * high
    BY <1>1, <1>2, <1>3
  <2> HIDE DEF low, high
  <2>2. word \div 512 = b10 + 2 * high
    BY <1>2, <2>1
  <2> QED
    BY <1>2, <2>1, <2>2
<1>14. (word \div 1024) % 2 = b11
  <2> DEFINE low  == b1 + 2 * b2 + 4 * b3 + 8 * b4 + 16 * b5 + 32 * b6 + 64 * b7
                     + 128 * b8 + 256 * b9 + 512 * b10
             high == 32 * count
  <2>1. low \in 0..1023 /\ high \in Nat /\ word = low + 1024 * b11 + 2048 * high
    BY <1>1, <1>2, <1>3
  <2> HIDE DEF low, high
  <2>2. word \div 1024 = b11 + 2 * high
    BY <1>2, <2>1
  <2> QED
    BY <1>2, <2>1, <2>2
<1> USE DEF b1, b2, b3, b4, b5, b6, b7, b8, b9, b10, b11
<1>15. state \in {"IGNORE", "CHANGED", "UNKNOWN", "UNAVAILABLE", "EMPTY", "PRESENT",
                "ATRMATCH", "EXCLUSIVE", "INUSE", "MUTE", "UNPOWERED"}
  BY DEF SCardStates, SCARD_STATE
<1>16. (word \div SCARD_STATE[state]) % 2 = Bit(state)
  BY <1>4, <1>5, <1>6, <1>7, <1>8, <1>9, <1>10, <1>11, <1>12, <1>13, <1>14, <1>15 DEF SCARD_STATE
<1> QED
  BY <1>16 DEF Has, Bit, word
\* What the library makes of a report is a status with just its states.
LEMMA StatusOfReport ==
    ASSUME NEW report \in Report, SaysOneOf(report)
    PROVE  LET status == FlagSetFromReaderState(DwEventState(report)) IN
           /\ status \in Flags!FlagSets
           /\ Flags!Members(status) = report.states
<1> DEFINE word   == DwEventState(report)
           status == FlagSetFromReaderState(word)
           named  == {READER_STATUS_MAP[state] : state \in
                         {s \in DOMAIN READER_STATUS_MAP : Has(word, s)}}
<1>1. SCardStates \subseteq Statuses /\ Occupancies \subseteq SCardStates
  BY StatusNames DEF SCardStates, SCARD_STATE, Occupancies
<1>2. report.states \subseteq SCardStates
  BY DEF Report
<1>3. named = report.states
  <2>1. /\ DOMAIN READER_STATUS_MAP = SCardStates
        /\ \A s \in SCardStates : READER_STATUS_MAP[s] = s
    BY DEF READER_STATUS_MAP, SCardStates, SCARD_STATE
  <2>2. \A s \in SCardStates : Has(word, s) <=> s \in report.states
    BY ReportInWord
  <2> HIDE DEF word
  <2>3. named = {s \in SCardStates : Has(word, s)}
    BY <2>1
  <2> QED
    BY <1>2, <2>2, <2>3
<1>4. word # 0
  <2>1. PICK state \in Occupancies : state \in report.states
    BY DEF SaysOneOf
  <2>2. Has(word, state)
    BY <1>1, <2>1, ReportInWord
  <2> HIDE DEF word
  <2>3. SCARD_STATE[state] \in {4, 16, 32}
    BY DEF Occupancies, SCARD_STATE
  <2>4. ~((0 \div SCARD_STATE[state]) % 2 = 1)
    BY <2>3
  <2> QED
    BY <2>2, <2>4 DEF Has
<1>5. status = [e \in Statuses |-> e \in named]
  BY <1>4 DEF FlagSetFromReaderState, Flags!Set, Flags!NoFlags
<1> HIDE DEF status, named
<1>6. status \in Flags!FlagSets
  <2>1. \A e \in Statuses : (e \in named) \in BOOLEAN
    OBVIOUS
  <2> QED
    BY <1>5, <2>1, Zenon DEF Flags!FlagSets
<1>7. Flags!Members(status) = {e \in Statuses : e \in named}
  BY <1>5 DEF Flags!Members
<1> QED
  BY <1>1, <1>2, <1>3, <1>6, <1>7 DEF status

\* PRESENT is in the status if and only if it is in the report.
LEMMA InsertedMeansPresent ==
    ASSUME NEW report \in Report, SaysOneOf(report)
    PROVE  IsCardInserted(FlagSetFromReaderState(DwEventState(report)))
              <=> "PRESENT" \in report.states
<1>1. "PRESENT" \in Statuses
  BY StatusNames
<1> QED
  BY <1>1, StatusOfReport DEF IsCardInserted, Flags!Members

\* A report that describes a reader is true of it.
LEMMA DescribedIsTrue ==
    ASSUME NEW report \in Report, SaysOneOf(report), NEW r, Describes(report, r)
    PROVE  /\ "PRESENT" \in report.states => r \in plugged /\ card[r] # Null
           /\ "EMPTY" \in report.states => card[r] = Null
           /\ "UNKNOWN" \in report.states => r \notin plugged
<1>1. \A s, t \in Occupancies : s \in report.states /\ t \in report.states => s = t
  BY DEF SaysOneOf
<1>2. {"UNKNOWN", "EMPTY", "PRESENT"} \subseteq Occupancies
  BY DEF Occupancies
<1> QED
  BY <1>1, <1>2 DEF Describes


-----------------------------------------------------------------------------
(* The text of a status                                                    *)

\* A sequence with one more element.
LEMMA Appended ==
    ASSUME NEW S, NEW s \in Seq(S), NEW e \in S
    PROVE  /\ Append(s, e) \in Seq(S) /\ Len(Append(s, e)) = Len(s) + 1
           /\ \A i \in 1..Len(s) : Append(s, e)[i] = s[i]
           /\ Append(s, e)[Len(s) + 1] = e
OBVIOUS

\* A text with m names, and commas between them.
TextWith(S, text, m) ==
    /\ text \in Seq(S)
    /\ Len(text) = IF m = 0 THEN 0 ELSE 2 * m - 1

OddPlaces(text, places) == {text[2 * i - 1] : i \in places}

LEMMA NamesInText ==
    ASSUME NEW S, NEW m \in Nat, NEW text, TextWith(S, text, m)
    PROVE  NamedIn(text) = OddPlaces(text, 1..m)
<1> DEFINE n == Len(text)
<1>1. n = IF m = 0 THEN 0 ELSE 2 * m - 1
  BY DEF TextWith
<1> HIDE DEF n
<1>2. (n + 1) \div 2 = m
  BY <1>1
<1> QED
  BY <1>2, Zenon DEF NamedIn, OddPlaces, n

\* One more name in a text, whether there is one before it or not.
LEMMA WithCommaNames ==
    ASSUME NEW S, NEW m \in Nat, NEW text, TextWith(S, text, m), NEW name \in S, Comma \in S
    PROVE  /\ TextWith(S, WithComma(text, name), m + 1)
           /\ NamedIn(WithComma(text, name)) = NamedIn(text) \cup {name}
<1> DEFINE joined == WithComma(text, name)
<1>1. CASE m = 0
  <2>1. text = <<>>
    <3>1. text \in Seq(S) /\ Len(text) = 0
      BY <1>1 DEF TextWith
    <3> QED
      BY <3>1
  <2>2. joined = <<name>>
    BY <2>1 DEF WithComma
  <2> HIDE DEF joined
  <2>9. Len(joined) = 1 /\ joined[1] = name /\ joined \in Seq(S)
    BY <2>2
  <2>3. TextWith(S, joined, 1) /\ 1 \in Nat /\ 0 \in Nat
    BY <2>9 DEF TextWith
  <2>4. NamedIn(text) = {} /\ NamedIn(joined) = {name}
    <3>1. NamedIn(text) = OddPlaces(text, 1..0)
      BY <1>1, NamesInText
    <3>2. NamedIn(joined) = OddPlaces(joined, 1..1)
      BY <2>3, NamesInText
    <3>3. 1..0 = {} /\ 1..1 = {1} /\ 2 * 1 - 1 = 1
      OBVIOUS
    <3> QED
      BY <2>9, <3>1, <3>2, <3>3 DEF OddPlaces
  <2> QED
    BY <1>1, <2>3, <2>4 DEF joined
<1>2. CASE m # 0
  <2> DEFINE c == Append(text, Comma)
             L == 2 * m - 1
  <2>1. text \in Seq(S) /\ Len(text) = L
    BY <1>2 DEF TextWith
  <2>2. L \in Nat /\ L > 0 /\ text # <<>>
    <3>1. L \in Nat /\ L > 0
      BY <1>2
    <3> QED
      BY <2>1, <3>1
  <2>3. joined = Append(c, name)
    BY <2>2 DEF WithComma
  <2> HIDE DEF L
  <2>4. /\ c \in Seq(S) /\ Len(c) = L + 1
        /\ \A i \in 1..L : c[i] = text[i]
    <3>1. text \in Seq(S) /\ Comma \in S
      BY <2>1
    <3>2. /\ c \in Seq(S) /\ Len(c) = Len(text) + 1
          /\ \A i \in 1..Len(text) : c[i] = text[i]
      BY <3>1, Appended, SMT
    <3> QED
      BY <2>1, <3>2, Zenon
  <2> HIDE DEF joined, c
  <2>5. /\ joined \in Seq(S) /\ Len(joined) = L + 2
        /\ joined[L + 2] = name
        /\ \A i \in 1..L : joined[i] = text[i]
    <3>1. c \in Seq(S)
      BY <2>4
    <3>3. /\ Append(c, name) \in Seq(S) /\ Len(Append(c, name)) = Len(c) + 1
          /\ \A i \in 1..Len(c) : Append(c, name)[i] = c[i]
          /\ Append(c, name)[Len(c) + 1] = name
      BY <3>1, Appended, SMT
    <3>2. (L + 1) + 1 = L + 2 /\ \A i \in 1..L : i \in 1..(L + 1)
      BY <2>2
    <3> QED
      BY <2>3, <2>4, <3>2, <3>3, Zenon
  <2>6. /\ \A i \in 1..m : 2 * i - 1 \in 1..L
        /\ 2 * (m + 1) - 1 = L + 2 /\ m + 1 # 0 /\ m + 1 \in Nat
        /\ 1..(m + 1) = 1..m \cup {m + 1}
    BY <1>2 DEF L
  <2>7. TextWith(S, joined, m + 1)
    BY <2>5, <2>6, Zenon DEF TextWith
  <2>8. NamedIn(joined) = NamedIn(text) \cup {name}
    <3>1. NamedIn(text) = OddPlaces(text, 1..m)
      BY NamesInText
    <3>2. NamedIn(joined) = OddPlaces(joined, 1..m \cup {m + 1})
      BY <2>6, <2>7, NamesInText
    <3>3. \A i \in 1..m : joined[2 * i - 1] = text[2 * i - 1]
      BY <2>5, <2>6, Zenon
    <3>4. joined[2 * (m + 1) - 1] = name
      BY <2>5, <2>6, Zenon
    <3> QED
      BY <3>1, <3>2, <3>3, <3>4 DEF OddPlaces
  <2> QED
    BY <2>7, <2>8 DEF joined
<1> QED
  BY <1>1, <1>2

\* A set of places that is not empty has a last one.
LEMMA MaxExists ==
    ASSUME NEW n \in Nat, NEW s \in SUBSET (1..n), s # {}
    PROVE  Max(s) \in s
<1> DEFINE T == {k \in Nat : \A t \in SUBSET (1..k) :
                    t # {} => \E x \in t : \A y \in t : x >= y}
<1>1. 0 \in T
  <2>1. 1..0 = {}
    OBVIOUS
  <2> QED
    BY <2>1
<1>2. ASSUME NEW k \in Nat, k \in T
      PROVE  k + 1 \in T
  <2> SUFFICES ASSUME NEW t \in SUBSET (1..(k + 1)), t # {}
               PROVE  \E x \in t : \A y \in t : x >= y
    OBVIOUS
  <2>1. CASE k + 1 \in t
    BY <2>1
  <2>2. CASE k + 1 \notin t
    <3>1. t \in SUBSET (1..k)
      BY <2>2
    <3> QED
      BY <1>2, <3>1
  <2> QED
    BY <2>1, <2>2
<1> HIDE DEF T
<1>3. Nat \subseteq T
  BY <1>1, <1>2, SetInduction
<1>4. \E x \in s : \A y \in s : x >= y
  BY <1>3 DEF T
<1> QED
  BY <1>4 DEF Max

\* One step of the fold of statusString() over the first enumerators.
TextStep(status, text, s) ==
    IF s = {} THEN <<>>
    ELSE LET k == Max(s) IN
         IF status[Status[k]] THEN WithComma(text[s \ {k}], Status[k])
         ELSE text[s \ {k}]

\* The fold is defined on any set of enumerators.
LEMMA TextExists ==
    ASSUME NEW f
    PROVE  \E text : text = [s \in SUBSET (1..12) |-> TextStep(f, text, s)]
<1> DEFINE D == 1..12
           Texts(n, text) == text = [s \in Upto(D, n) |-> TextStep(f, text, s)]
           T == {n \in Nat : \E text : Texts(n, text)}
<1>1. IsFiniteSet(D) /\ Cardinality(D) \in Nat /\ 12 \in Nat
  <2>1. 1 \in Int /\ 12 \in Int /\ 12 \in Nat
    OBVIOUS
  <2> QED
    BY <2>1, FS_Interval, FS_CardinalityType
<1>2. 0 \in T
  <2> DEFINE text == [s \in Upto(D, 0) |-> <<>>]
  <2>1. Upto(D, 0) = {{}}
    BY <1>1, Smaller
  <2>2. text = [s \in Upto(D, 0) |-> TextStep(f, text, s)]
    BY <2>1 DEF TextStep
  <2> QED
    BY <2>2
<1>3. ASSUME NEW n \in Nat, n \in T
      PROVE  n + 1 \in T
  <2>1. PICK g : g = [s \in Upto(D, n) |-> TextStep(f, g, s)]
    BY <1>3
  <2> DEFINE h == [s \in Upto(D, n + 1) |-> TextStep(f, g, s)]
             GStep(s) == TextStep(f, g, s)
  <2>2. \A s \in Upto(D, n) : s \in Upto(D, n + 1) /\ h[s] = g[s]
    <3>1. g = [s \in Upto(D, n) |-> GStep(s)]
      BY <2>1
    <3>2. h = [s \in Upto(D, n + 1) |-> GStep(s)]
      OBVIOUS
    <3> HIDE DEF GStep, h
    <3> QED
      BY <1>1, <3>1, <3>2, Smaller
  <2>3. ASSUME NEW s \in Upto(D, n + 1)
        PROVE  TextStep(f, h, s) = TextStep(f, g, s)
    <3>1. CASE s = {}
      BY <3>1 DEF TextStep
    <3>2. CASE s # {}
      <4> DEFINE k == Max(s)
      <4>1. s \in SUBSET D /\ k \in s
        BY <1>1, <3>2, MaxExists DEF Upto
      <4> HIDE DEF k, h
      <4>2. s \ {k} \in Upto(D, n)
        BY <1>1, <3>2, <4>1, Smaller
      <4>3. h[s \ {k}] = g[s \ {k}]
        BY <2>2, <4>2
      <4> QED
        BY <3>2, <4>3 DEF TextStep, k
    <3> QED
      BY <3>1, <3>2
  <2>4. Texts(n + 1, h)
    BY <2>3
  <2> HIDE DEF Texts, h
  <2> QED
    BY <2>4
<1> HIDE DEF T, D
<1>4. Nat \subseteq T
  BY <1>2, <1>3, SetInduction
<1>5. Upto(D, Cardinality(D)) = SUBSET D
  BY <1>1, Smaller
<1>6. PICK text : text = [s \in Upto(D, Cardinality(D)) |-> TextStep(f, text, s)]
  BY <1>1, <1>4 DEF T
<1> QED
  BY <1>5, <1>6 DEF D

\* The flags that are set among the first k enumerators.
SetOfFirst(status, k) == {Status[i] : i \in {j \in 1..k : status[Status[j]]}}

\* The text is what the fold makes of all the enumerators.
LEMMA StatusStringFolds ==
    ASSUME NEW f
    PROVE  \E text : /\ \A s \in SUBSET (1..12) : text[s] = TextStep(f, text, s)
                     /\ StatusString(f) = text[1..12]
<1> DEFINE D == 1..12
           text == CHOOSE text : text = [s \in SUBSET D |-> TextStep(f, text, s)]
<1>1. text = [s \in SUBSET D |-> TextStep(f, text, s)]
  BY TextExists
<1>2. StatusString(f) = text[DOMAIN Status]
  <2>1. DOMAIN Status = D
    BY DEF Status
  <2>2. StatusString(f) =
           (CHOOSE iter : iter = [s \in SUBSET DOMAIN Status |->
                                     TextStep(f, iter, s)])[DOMAIN Status]
    BY DEF FoldLeft, MapThenFoldSet, StatusString, TextStep
  <2> QED
    BY <2>1, <2>2
<1>3. DOMAIN Status = D
  BY DEF Status
<1> HIDE DEF text
<1>4. \A s \in SUBSET D : text[s] = TextStep(f, text, s)
  <2> DEFINE Step(s) == TextStep(f, text, s)
  <2>1. text = [s \in SUBSET D |-> Step(s)]
    BY <1>1
  <2> HIDE DEF Step
  <2>2. \A s \in SUBSET D : text[s] = Step(s)
    BY <2>1
  <2> QED
    BY <2>2 DEF Step
<1> QED
  BY <1>2, <1>3, <1>4

\* After the first k enumerators the text names those of them that are set.
LEMMA TextOfFirst ==
    ASSUME NEW f, NEW text, \A s \in SUBSET (1..12) : text[s] = TextStep(f, text, s)
    PROVE  NamedIn(text[1..12]) = SetOfFirst(f, 12)
<1> DEFINE S == Statuses \cup {Comma}
           Names(k) == \E m \in Nat : /\ TextWith(S, text[1..k], m)
                                      /\ NamedIn(text[1..k]) = SetOfFirst(f, k)
           T == {k \in Nat : k <= 12 => Names(k)}
<1>1. 0 \in T
  <2>1. 1..0 = {} /\ 1..0 \in SUBSET (1..12)
    OBVIOUS
  <2>2. text[1..0] = <<>>
    BY <2>1 DEF TextStep
  <2>3. TextWith(S, <<>>, 0)
    <3> DEFINE none == <<>>
    <3>1. none \in Seq(S) /\ Len(none) = 0
      BY EmptySeq
    <3>2. Len(none) = IF 0 = 0 THEN 0 ELSE 2 * 0 - 1
      BY <3>1
    <3> HIDE DEF none
    <3>3. TextWith(S, none, 0)
      BY <3>1, <3>2 DEF TextWith
    <3> QED
      BY <3>3 DEF none
  <2>4. NamedIn(<<>>) = {}
    <3>1. NamedIn(<<>>) = OddPlaces(<<>>, 1..0)
      BY <2>3, NamesInText
    <3> QED
      BY <2>1, <3>1 DEF OddPlaces
  <2>5. SetOfFirst(f, 0) = {}
    BY <2>1 DEF SetOfFirst
  <2> HIDE DEF S
  <2> QED
    BY <2>2, <2>3, <2>4, <2>5
<1>2. ASSUME NEW n \in Nat, n \in T
      PROVE  n + 1 \in T
  <2>0. ASSUME n + 1 <= 12 PROVE Names(n)
    <3>1. n <= 12
      BY <2>0
    <3> HIDE DEF Names
    <3> QED
      BY <1>2, <3>1
  <2> SUFFICES ASSUME n + 1 <= 12 PROVE Names(n + 1)
    <3>1. n + 1 \in Nat
      OBVIOUS
    <3> HIDE DEF Names
    <3> QED
      BY <3>1
  <2> DEFINE k == n + 1
             s == 1..k
             name == Status[k]
  <2>1. k \in Nat /\ k \in 1..12 /\ s \in SUBSET (1..12) /\ s # {} /\ k \in s
    OBVIOUS
  <2>2. s \ {k} = 1..n
    OBVIOUS
  <2>3. Max(s) = k
    <3>1. k \in s /\ \A y \in s : k >= y
      OBVIOUS
    <3>2. \A x \in s : (\A y \in s : x >= y) => x = k
      BY <3>1
    <3> QED
      BY <3>1, <3>2 DEF Max
  <2>4. text[s] = IF f[name] THEN WithComma(text[1..n], name) ELSE text[1..n]
    BY <2>1, <2>2, <2>3 DEF TextStep
  <2>5. PICK m \in Nat : /\ TextWith(S, text[1..n], m)
                         /\ NamedIn(text[1..n]) = SetOfFirst(f, n)
    BY <2>0
  <2>6. name \in S /\ Comma \in S
    <3>1. DOMAIN Status = 1..12
      BY DEF Status
    <3> QED
      BY <2>1, <3>1 DEF Statuses, ToSet
  <2>7. s = 1..n \cup {k}
    OBVIOUS
  <2>8. SetOfFirst(f, k) = IF f[name] THEN SetOfFirst(f, n) \cup {name}
                           ELSE SetOfFirst(f, n)
    BY <2>7 DEF SetOfFirst
  <2> HIDE DEF S, k, s, name
  <2>9. CASE f[name]
    <3>1. text[s] = WithComma(text[1..n], name)
      BY <2>4, <2>9
    <3>2. TextWith(S, text[s], m + 1) /\ NamedIn(text[s]) = NamedIn(text[1..n]) \cup {name}
      BY <2>5, <2>6, <3>1, WithCommaNames
    <3>3. m + 1 \in Nat /\ NamedIn(text[s]) = SetOfFirst(f, k)
      BY <2>5, <2>8, <2>9, <3>2
    <3> QED
      BY <3>2, <3>3 DEF s, k
  <2>10. CASE ~f[name]
    <3>1. text[s] = text[1..n] /\ SetOfFirst(f, k) = SetOfFirst(f, n)
      BY <2>4, <2>8, <2>10
    <3> QED
      BY <2>5, <3>1 DEF s, k
  <2> QED
    BY <2>9, <2>10
<1> HIDE DEF T
<1>3. Nat \subseteq T
  BY <1>1, <1>2, SetInduction
<1>4. 12 \in T
  BY <1>3
<1> HIDE DEF Names
<1>5. Names(12)
  BY <1>4 DEF T
<1> QED
  BY <1>5 DEF Names

\* The text of a status names the flags that are set, and nothing else.
LEMMA TextNamesFlags ==
    ASSUME NEW f \in Flags!FlagSets
    PROVE  NamedIn(StatusString(f)) = Flags!Members(f)
<1>1. NamedIn(StatusString(f)) = SetOfFirst(f, 12)
  BY StatusStringFolds, TextOfFirst
<1>2. DOMAIN Status = 1..12
  BY DEF Status
<1>3. SetOfFirst(f, 12) = {e \in Statuses : f[e]}
  BY <1>2 DEF SetOfFirst, Statuses, ToSet
<1> QED
  BY <1>1, <1>3 DEF Flags!Members, Flags!FlagSets

-----------------------------------------------------------------------------
(* Results that are thrown, and what causes them                           *)

PlainErrors == {"SCARD_F_COMM_ERROR", "SCARD_E_INVALID_HANDLE",
                "SCARD_E_INSUFFICIENT_BUFFER", "SCARD_E_UNKNOWN_READER"}

LEMMA Exceptions ==
    ASSUME NEW result
    PROVE  /\ Exception(result) \in ScardErrors
           /\ result \in ServiceDown =>
                 Exception(result) = "ScardServiceNotRunningError"
           /\ result \in PlainErrors => Exception(result) = "ScardError"
           /\ result \in {"SCARD_E_NO_READERS_AVAILABLE", "SCARD_E_READER_UNAVAILABLE"} =>
                 Exception(result) = "ScardNoReadersError"
           /\ CaughtBy("ScardNoReadersError") = {"ScardNoReadersError"}
           /\ "returned" \notin ScardErrors /\ "none" \notin ScardErrors
BY DEF Exception, ScardErrors, CaughtBy, ServiceDown, PlainErrors

\* What is left of a call that failed, whatever the result was.
LEMMA Failed ==
    ASSUME NEW result, Fail(result)
    PROVE  \E how \in {"returned"} \cup ScardErrors :
              /\ Leave(how)
              /\ result \in ServiceDown => how = "ScardServiceNotRunningError"
              /\ result \in PlainErrors => how = "ScardError"
              /\ result \in {"SCARD_E_NO_READERS_AVAILABLE",
                             "SCARD_E_READER_UNAVAILABLE"} => how = "returned"
<1> DEFINE how == IF Exception(result) \in {"ScardNoReadersError"}
                  THEN "returned" ELSE Exception(result)
<1>1. Leave(how)
  BY Exceptions DEF Fail
<1> QED
  BY <1>1, Exceptions

\* Why a call that is under way may have a result other than success.
Cause(result) ==
    \/ result \in ServiceDown /\ "down" \in seenChanges
    \/ result \in PlainErrors /\ seenChanges # {}
    \/ result = "SCARD_E_NO_READERS_AVAILABLE" /\ {} \in seenPlugged
    \/ result = "SCARD_E_READER_UNAVAILABLE" /\ "out" \in seenChanges

\* A call under way has seen the readers that are there; if it has seen no
\* change it has seen no others.
LEMMA SeenInCall ==
    ASSUME ListingInv, phase # "idle"
    PROVE  /\ plugged \in seenPlugged
           /\ \A r \in Readers : card[r] \in seenCards[r]
           /\ seenChanges = {} => \A names \in seenPlugged : names = plugged
           /\ "out" \notin seenChanges => \A names \in seenPlugged : names \subseteq plugged
BY DEF ListingInv, SeenInv

LEMMA RefusalHasCause ==
    ASSUME ListingInv, phase # "idle", ~contextValid, NEW result \in Refusals
    PROVE  Cause(result)
<1>1. "down" \in seenChanges
  BY DEF ListingInv, ContextInv
<1>2. result \in ServiceDown \cup PlainErrors
  BY DEF Refusals, PlainErrors
<1> QED
  BY <1>1, <1>2 DEF Cause

LEMMA NamesResultHasCause ==
    ASSUME ListingInv, phase # "idle", NEW result \in NamesResults,
           result # "SCARD_S_SUCCESS"
    PROVE  Cause(result)
<1>1. CASE ~contextValid
  BY <1>1, RefusalHasCause DEF NamesResults
<1>2. CASE contextValid
  <2>1. result = "SCARD_E_NO_READERS_AVAILABLE" /\ plugged = {}
    BY <1>2 DEF NamesResults
  <2> QED
    BY <2>1, SeenInCall DEF Cause
<1> QED
  BY <1>1, <1>2

\* A buffer that has become too small was long enough for a list of before.
LEMMA ListResultHasCause ==
    ASSUME ListingInv, phase = "filling", NEW result \in ListResults(bufferLength),
           result # "SCARD_S_SUCCESS"
    PROVE  Cause(result)
<1>1. CASE contextValid /\ RoomFor(plugged) > bufferLength
  <2>1. result = "SCARD_E_INSUFFICIENT_BUFFER"
    BY <1>1 DEF ListResults
  <2>2. PICK names \in seenPlugged : bufferLength = RoomFor(names)
    BY DEF ListingInv, CallInv
  <2>3. RoomFor(plugged) \in Nat
    BY RoomForType DEF ListingInv, TypeOK
  <2>4. names # plugged
    BY <1>1, <2>2, <2>3
  <2>5. seenChanges # {}
    BY <2>2, <2>4, SeenInCall
  <2> QED
    BY <2>1, <2>5 DEF Cause, PlainErrors
<1>2. CASE ~(contextValid /\ RoomFor(plugged) > bufferLength)
  <2>1. result \in NamesResults
    BY <1>2 DEF ListResults
  <2> QED
    BY <2>1, NamesResultHasCause
<1> QED
  BY <1>1, <1>2

LEMMA StateResultHasCause ==
    ASSUME ListingInv, phase = "states", NEW names \in seenPlugged,
           NEW result \in StateResults(names), result # "SCARD_S_SUCCESS"
    PROVE  Cause(result)
<1>1. CASE ~contextValid
  BY <1>1, RefusalHasCause DEF StateResults
<1>2. CASE contextValid
  <2>1. /\ result \in {"SCARD_E_UNKNOWN_READER", "SCARD_E_READER_UNAVAILABLE"}
        /\ ~(names \subseteq plugged)
    BY <1>2 DEF StateResults
  <2>2. "out" \in seenChanges
    BY <2>1, SeenInCall
  <2> QED
    BY <2>1, <2>2 DEF Cause, PlainErrors
<1> QED
  BY <1>1, <1>2

-----------------------------------------------------------------------------
(* The inductive invariant                                                 *)

LEMMA Inits == Init => ListingInv
<1> SUFFICES ASSUME Init PROVE ListingInv
  OBVIOUS
<1>1. /\ seenPlugged = {} /\ phase = "idle" /\ outcome = "none" /\ readers = <<>>
      /\ contextValid = FALSE
  BY DEF Init
<1>2. TypeOK
  <2>1. <<>> \in Seq(Readers \cup {Null}) /\ <<>> \in Seq(Reader)
    BY EmptySeq
  <2>2. /\ card \in [Readers -> Cards \cup {Null}]
        /\ seenCards \in [Readers -> SUBSET (Cards \cup {Null})]
    BY DEF Init
  <2>3. /\ plugged \subseteq Readers /\ serviceRuns \in BOOLEAN /\ contextValid \in BOOLEAN
        /\ phase \in {"idle", "sizing", "filling", "states"}
        /\ outcome \in {"none", "returned"} \cup ScardErrors
        /\ seenPlugged \subseteq SUBSET Readers /\ seenChanges \subseteq Changes
    BY DEF Init
  <2>4. events \in 0..MaxEvents /\ bufferLength \in Nat
    BY ListingAssumption DEF Init
  <2>5. readerNames \in Seq(Readers \cup {Null}) /\ readers \in Seq(Reader)
    BY <2>1 DEF Init
  <2> QED
    BY <2>2, <2>3, <2>4, <2>5 DEF TypeOK
<1>3. SeenInv /\ ContextInv /\ CallInv
  BY <1>1 DEF SeenInv, ContextInv, CallInv
<1>4. ListIsSnapshot /\ AtrIsOfThisReader
  BY <1>1 DEF ListIsSnapshot, AtrIsOfThisReader, Returned
<1>5. OutcomeHasCause /\ ReportsInv
  BY <1>1 DEF OutcomeHasCause, ReportsInv, Returned
<1> QED
  BY <1>2, <1>3, <1>4, <1>5 DEF ListingInv

\* What was once seen of a reader's card stays seen.
LEMMA CardsSeen ==
    ASSUME ListingInv, Returned, NEW r \in Readers,
           seenCards' = [s \in Readers |-> seenCards[s] \cup {card'[s]}]
    PROVE  /\ seenCards[r] \subseteq seenCards'[r]
           /\ seenCards[r] # {Null} => seenCards'[r] # {Null}
<1>1. seenCards[r] # {}
  BY DEF ListingInv, SeenInv, Returned
<1>2. seenCards[r] \subseteq seenCards'[r]
  OBVIOUS
<1> QED
  BY <1>1, <1>2

LEMMA ReaderNames ==
    ASSUME ListingInv, NEW i \in DOMAIN readers
    PROVE  readers[i].name \in Readers
<1>1. readers[i] \in Reader
  BY DEF ListingInv, TypeOK
<1> QED
  BY <1>1 DEF Reader

\* An event adds to the history; a call in progress and its result stay true of
\* what has been seen.
LEMMA EventKeeps ==
    ASSUME ListingInv, NEW changes \in SUBSET Changes, Event(changes),
           plugged' \in SUBSET Readers, card' \in [Readers -> Cards \cup {Null}],
           serviceRuns' \in BOOLEAN, contextValid' \in BOOLEAN,
           "in" \notin changes => plugged' \subseteq plugged,
           "out" \notin changes => plugged \subseteq plugged',
           contextValid' => contextValid /\ serviceRuns',
           "down" \notin changes => contextValid' = contextValid
    PROVE  ListingInv'
<1> USE DEF ListingInv
<1>1. /\ UNCHANGED <<phase, bufferLength, readerNames, outcome, readers>>
      /\ seenPlugged' = seenPlugged \cup {plugged'}
      /\ seenCards' = [r \in Readers |-> seenCards[r] \cup {card'[r]}]
      /\ seenChanges' = seenChanges \cup changes
      /\ events < MaxEvents /\ events' = events + 1
  BY DEF Event, Watch, callVars
<1>2. TypeOK'
  <2>1. events' \in 0..MaxEvents
    BY <1>1, ListingAssumption DEF TypeOK
  <2>2. seenPlugged' \in SUBSET SUBSET Readers
    BY <1>1 DEF TypeOK
  <2>3. seenCards' \in [Readers -> SUBSET (Cards \cup {Null})]
    BY <1>1 DEF TypeOK
  <2>4. seenChanges' \in SUBSET Changes
    BY <1>1 DEF TypeOK
  <2> QED
    BY <1>1, <2>1, <2>2, <2>3, <2>4 DEF TypeOK
<1>3. SeenInv'
  BY <1>1 DEF SeenInv
<1>4. ContextInv'
  BY <1>1 DEF ContextInv
<1>5. CallInv'
  BY <1>1 DEF CallInv
<1>6. ListIsSnapshot'
  BY <1>1 DEF ListIsSnapshot, Returned, NamesReturned
<1>7. AtrIsOfThisReader'
  <2> SUFFICES ASSUME Returned', NEW i \in DOMAIN readers
               PROVE  /\ readers[i].cardAtr \in seenCards'[readers[i].name] \cup {Null}
                      /\ IsCardInserted(readers[i].status) =>
                            seenCards'[readers[i].name] # {Null}
    BY <1>1 DEF AtrIsOfThisReader
  <2> DEFINE r == readers[i].name
  <2>1. Returned
    BY <1>1 DEF Returned
  <2>2. /\ readers[i].cardAtr \in seenCards[r] \cup {Null}
        /\ IsCardInserted(readers[i].status) => seenCards[r] # {Null}
    BY <2>1 DEF AtrIsOfThisReader
  <2>3. /\ seenCards[r] \subseteq seenCards'[r]
        /\ seenCards[r] # {Null} => seenCards'[r] # {Null}
    BY <1>1, <2>1, CardsSeen, ReaderNames
  <2> QED
    BY <2>2, <2>3
<1>8. OutcomeHasCause'
  BY <1>1 DEF OutcomeHasCause, NamesReturned
<1>9. ReportsInv'
  <2> SUFFICES ASSUME Returned', NEW i \in DOMAIN readers
               PROVE  \E report \in Reports :
                         /\ readers[i].status =
                               FlagSetFromReaderState(DwEventState(report))
                         /\ WasTrue(report, readers[i].name)'
    BY <1>1 DEF ReportsInv
  <2> DEFINE r == readers[i].name
  <2>1. Returned
    BY <1>1 DEF Returned
  <2>2. PICK report \in Reports :
           /\ readers[i].status = FlagSetFromReaderState(DwEventState(report))
           /\ WasTrue(report, r)
    BY <2>1 DEF ReportsInv
  <2>3. /\ seenCards[r] \subseteq seenCards'[r]
        /\ seenCards[r] # {Null} => seenCards'[r] # {Null}
    BY <1>1, <2>1, CardsSeen, ReaderNames
  <2>4. WasTrue(report, readers[i].name)'
    BY <1>1, <2>2, <2>3 DEF WasTrue
  <2> QED
    BY <2>2, <2>4
<1> QED
  BY <1>2, <1>3, <1>4, <1>5, <1>6, <1>7, <1>8, <1>9

LEMMA WorldKeeps ==
    ASSUME ListingInv, WorldStep
    PROVE  ListingInv'
<1>1. /\ plugged \in SUBSET Readers /\ card \in [Readers -> Cards \cup {Null}]
      /\ serviceRuns \in BOOLEAN /\ contextValid \in BOOLEAN
      /\ contextValid => serviceRuns
  BY DEF ListingInv, TypeOK, ContextInv
<1>2. /\ {"in"} \in SUBSET Changes /\ {"out"} \in SUBSET Changes
      /\ {"down"} \in SUBSET Changes /\ {} \in SUBSET Changes
  BY DEF Changes
<1>3. CASE ServiceStops
  <2>1. /\ Event({"down"}) /\ contextValid' = FALSE /\ serviceRuns' = FALSE
        /\ UNCHANGED <<plugged, card>>
    BY <1>3 DEF ServiceStops
  <2> QED
    BY <1>1, <1>2, <2>1, EventKeeps
<1>4. CASE ServiceStarts
  <2>1. /\ Event({}) /\ serviceRuns' = TRUE /\ UNCHANGED <<plugged, card, contextValid>>
    BY <1>4 DEF ServiceStarts
  <2> QED
    BY <1>1, <1>2, <2>1, EventKeeps
<1>5. ASSUME NEW r \in Readers, PlugIn(r)
      PROVE  ListingInv'
  <2>1. /\ Event({"in"}) /\ plugged' = plugged \cup {r}
        /\ UNCHANGED <<card, serviceRuns, contextValid>>
    BY <1>5 DEF PlugIn
  <2> QED
    BY <1>1, <1>2, <2>1, EventKeeps
<1>6. ASSUME NEW r \in Readers, PlugOut(r)
      PROVE  ListingInv'
  <2>1. /\ Event({"out"}) /\ plugged' = plugged \ {r}
        /\ card' = [card EXCEPT ![r] = Null]
        /\ UNCHANGED <<serviceRuns, contextValid>>
    BY <1>6 DEF PlugOut
  <2>2. card' \in [Readers -> Cards \cup {Null}]
    BY <1>1, <2>1
  <2> QED
    BY <1>1, <1>2, <2>1, <2>2, EventKeeps
<1>7. ASSUME NEW r \in Readers, NEW c \in Cards \cup {Null}, ChangeCard(r, c)
      PROVE  ListingInv'
  <2>1. /\ Event({}) /\ card' = [card EXCEPT ![r] = c]
        /\ UNCHANGED <<plugged, serviceRuns, contextValid>>
    BY <1>7 DEF ChangeCard
  <2>2. card' \in [Readers -> Cards \cup {Null}]
    BY <1>1, <2>1
  <2> QED
    BY <1>1, <1>2, <2>1, <2>2, EventKeeps
<1> QED
  BY <1>3, <1>4, <1>5, <1>6, <1>7 DEF WorldStep

\* A call that ends without a list has nothing to say but how it ended.
LEMMA LeaveKeeps ==
    ASSUME NEW how, Leave(how), TypeOK', SeenInv', OutcomeHasCause'
    PROVE  ListingInv'
<1>1. phase' = "idle" /\ readers' = <<>> /\ contextValid' = FALSE
  BY DEF Leave
<1>2. CallInv' /\ ContextInv'
  BY <1>1 DEF CallInv, ContextInv
<1>3. ListIsSnapshot' /\ AtrIsOfThisReader' /\ ReportsInv'
  <2>1. DOMAIN readers' = {}
    BY <1>1
  <2> QED
    BY <1>1, <2>1 DEF ListIsSnapshot, AtrIsOfThisReader, ReportsInv
<1> QED
  BY <1>2, <1>3 DEF ListingInv

\* A call in progress has nothing to say of its result yet.
LEMMA ProgressKeeps ==
    ASSUME phase' # "idle", TypeOK', SeenInv', ContextInv', CallInv'
    PROVE  ListingInv'
BY DEF ListingInv, ListIsSnapshot, AtrIsOfThisReader, OutcomeHasCause, ReportsInv,
       Returned

LEMMA BeginKeeps ==
    ASSUME ListingInv, BeginListing
    PROVE  ListingInv'
<1>1. /\ UNCHANGED <<plugged, card, serviceRuns, bufferLength, readerNames>>
      /\ seenPlugged' = {plugged}
      /\ seenCards' = [r \in Readers |-> {card[r]}]
      /\ Established \/ NotEstablished \/ EstablishedNull
  BY DEF BeginListing
<1>2. ASSUME phase' \in {"idle", "sizing"}, readers' = <<>>,
             outcome' \in {"none", "returned"} \cup ScardErrors,
             contextValid' \in BOOLEAN, seenChanges' \in SUBSET Changes,
             events' \in 0..MaxEvents
      PROVE  TypeOK' /\ SeenInv'
  <2>1. readers' \in Seq(Reader)
    BY <1>2, EmptySeq
  <2>2. seenPlugged' \in SUBSET SUBSET Readers
    BY <1>1 DEF ListingInv, TypeOK
  <2>3. seenCards' \in [Readers -> SUBSET (Cards \cup {Null})]
    BY <1>1 DEF ListingInv, TypeOK
  <2>4. TypeOK'
    BY <1>1, <1>2, <2>1, <2>2, <2>3 DEF ListingInv, TypeOK
  <2>5. SeenInv'
    BY <1>1 DEF SeenInv
  <2> QED
    BY <2>4, <2>5
<1>3. events \in 0..MaxEvents
  BY DEF ListingInv, TypeOK
<1>4. CASE Established
  <2>1. /\ phase' = "sizing" /\ readers' = <<>> /\ outcome' = "none"
        /\ contextValid' = TRUE /\ serviceRuns' = TRUE /\ seenChanges' = {}
        /\ events' = events
    BY <1>1, <1>4 DEF Established, ListingInv, TypeOK
  <2>2. TypeOK' /\ SeenInv'
    BY <1>2, <1>3, <2>1
  <2>3. CallInv' /\ ContextInv'
    BY <2>1 DEF CallInv, ContextInv
  <2> QED
    BY <2>1, <2>2, <2>3, ProgressKeeps
<1>5. CASE NotEstablished
  <2>1. PICK result \in ServiceDown : Leave(Exception(result))
    BY <1>5 DEF NotEstablished
  <2>2. /\ Exception(result) = "ScardServiceNotRunningError"
        /\ Exception(result) \in ScardErrors
    BY <2>1, Exceptions
  <2>3. /\ phase' = "idle" /\ readers' = <<>> /\ contextValid' = FALSE
        /\ outcome' = "ScardServiceNotRunningError" /\ outcome' \in ScardErrors
    BY <2>1, <2>2 DEF Leave
  <2>4. seenChanges' = {"down"} /\ events' = events
    BY <1>5 DEF NotEstablished
  <2>5. TypeOK' /\ SeenInv'
    BY <1>2, <1>3, <2>3, <2>4 DEF Changes
  <2>6. OutcomeHasCause'
    BY <2>3, <2>4 DEF OutcomeHasCause
  <2> QED
    BY <2>1, <2>5, <2>6, LeaveKeeps
<1>6. CASE EstablishedNull
  <2>1. /\ Leave("ScardError") /\ seenChanges' = {"null"}
        /\ events' = events + 1 /\ events < MaxEvents
    BY <1>6 DEF EstablishedNull
  <2>2. /\ phase' = "idle" /\ readers' = <<>> /\ contextValid' = FALSE
        /\ outcome' = "ScardError"
    BY <2>1 DEF Leave
  <2>3. "ScardError" \in ScardErrors /\ {"null"} \in SUBSET Changes
    BY DEF ScardErrors, Changes
  <2>4. events' \in 0..MaxEvents
    BY <1>3, <2>1, ListingAssumption
  <2>5. TypeOK' /\ SeenInv'
    BY <1>2, <2>1, <2>2, <2>3, <2>4
  <2>6. OutcomeHasCause'
    BY <2>1, <2>2 DEF OutcomeHasCause
  <2> QED
    BY <2>1, <2>5, <2>6, LeaveKeeps
<1> QED
  BY <1>1, <1>4, <1>5, <1>6

\* The history and the types after a step of a call.
LEMMA CallKeepsHistory ==
    ASSUME ListingInv, phase # "idle",
           UNCHANGED <<plugged, card, serviceRuns, events, seenVars>>,
           contextValid' \in BOOLEAN, phase' \in {"idle", "filling", "states"},
           bufferLength' \in Nat, readerNames' \in Seq(Readers \cup {Null}),
           outcome' \in {"none", "returned"} \cup ScardErrors, readers' \in Seq(Reader)
    PROVE  /\ TypeOK' /\ SeenInv'
           /\ seenPlugged' = seenPlugged /\ seenChanges' = seenChanges
<1>1. UNCHANGED <<seenPlugged, seenCards, seenChanges>>
  BY DEF seenVars
<1>2. TypeOK /\ SeenInv
  BY DEF ListingInv
<1>3. TypeOK'
  BY <1>1, <1>2 DEF TypeOK
<1>4. SeenInv'
  BY <1>1, <1>2 DEF SeenInv
<1> QED
  BY <1>1, <1>3, <1>4

\* A call that fails for a cause.
LEMMA FailureKeeps ==
    ASSUME ListingInv, phase # "idle",
           UNCHANGED <<plugged, card, serviceRuns, events, seenVars>>,
           UNCHANGED <<bufferLength, readerNames>>,
           NEW result, Fail(result), Cause(result)
    PROVE  ListingInv'
<1>1. PICK how \in {"returned"} \cup ScardErrors :
         /\ Leave(how)
         /\ result \in ServiceDown => how = "ScardServiceNotRunningError"
         /\ result \in PlainErrors => how = "ScardError"
         /\ result \in {"SCARD_E_NO_READERS_AVAILABLE",
                        "SCARD_E_READER_UNAVAILABLE"} => how = "returned"
  BY Failed
<1>2. /\ phase' = "idle" /\ outcome' = how /\ readers' = <<>>
      /\ contextValid' = FALSE
  BY <1>1 DEF Leave
<1>3. readers' \in Seq(Reader)
  BY <1>2, EmptySeq
<1>4. bufferLength \in Nat /\ readerNames \in Seq(Readers \cup {Null})
  BY DEF ListingInv, TypeOK
<1>5. /\ TypeOK' /\ SeenInv'
      /\ seenPlugged' = seenPlugged /\ seenChanges' = seenChanges
  BY <1>2, <1>3, <1>4, CallKeepsHistory
<1>6. NamesReturned' = {}
  <2>1. DOMAIN readers' = {}
    BY <1>2
  <2> QED
    BY <2>1 DEF NamesReturned
<1>7. OutcomeHasCause'
  <2>1. CASE result \in ServiceDown /\ "down" \in seenChanges
    BY <1>1, <1>2, <1>5, <2>1 DEF OutcomeHasCause
  <2>2. CASE result \in PlainErrors /\ seenChanges # {}
    BY <1>1, <1>2, <1>5, <2>2 DEF OutcomeHasCause
  <2>3. CASE result = "SCARD_E_NO_READERS_AVAILABLE" /\ {} \in seenPlugged
    BY <1>1, <1>2, <1>5, <1>6, <2>3 DEF OutcomeHasCause
  <2>4. CASE result = "SCARD_E_READER_UNAVAILABLE" /\ "out" \in seenChanges
    BY <1>1, <1>2, <1>5, <2>4 DEF OutcomeHasCause
  <2> QED
    BY <2>1, <2>2, <2>3, <2>4 DEF Cause
<1> QED
  BY <1>1, <1>5, <1>7, LeaveKeeps

LEMMA AskKeeps ==
    ASSUME ListingInv, AskForLength
    PROVE  ListingInv'
<1>1. /\ phase = "sizing" /\ UNCHANGED <<plugged, card, serviceRuns, events, seenVars>>
      /\ readerNames' = readerNames
  BY DEF AskForLength
<1>2. PICK result \in NamesResults :
         IF result = "SCARD_S_SUCCESS"
         THEN /\ bufferLength' = RoomFor(plugged)
              /\ phase' = "filling"
              /\ UNCHANGED <<outcome, readers, contextValid>>
         ELSE Fail(result) /\ UNCHANGED bufferLength
  BY DEF AskForLength, Reserve
<1>3. /\ readerNames \in Seq(Readers \cup {Null}) /\ contextValid \in BOOLEAN
      /\ outcome \in {"none", "returned"} \cup ScardErrors /\ readers \in Seq(Reader)
      /\ RoomFor(plugged) \in Nat
  BY RoomForType DEF ListingInv, TypeOK
<1>4. CASE result = "SCARD_S_SUCCESS"
  <2>1. /\ phase' = "filling" /\ bufferLength' = RoomFor(plugged)
        /\ UNCHANGED <<outcome, readers, contextValid>>
    BY <1>2, <1>4
  <2>2. /\ TypeOK' /\ SeenInv'
        /\ seenPlugged' = seenPlugged /\ seenChanges' = seenChanges
    BY <1>1, <1>3, <2>1, CallKeepsHistory
  <2>3. plugged \in seenPlugged
    BY <1>1, SeenInCall
  <2>4. CallInv'
    BY <2>1, <2>2, <2>3 DEF CallInv
  <2>5. ContextInv'
    BY <1>1, <2>1, <2>2 DEF ListingInv, ContextInv
  <2> QED
    BY <2>1, <2>2, <2>4, <2>5, ProgressKeeps
<1>5. CASE result # "SCARD_S_SUCCESS"
  <2>1. Fail(result) /\ UNCHANGED <<bufferLength, readerNames>>
    BY <1>1, <1>2, <1>5
  <2>2. Cause(result)
    BY <1>1, <1>5, NamesResultHasCause
  <2> QED
    BY <1>1, <2>1, <2>2, FailureKeeps
<1> QED
  BY <1>4, <1>5

LEMMA FillKeeps ==
    ASSUME ListingInv, FillBuffer
    PROVE  ListingInv'
<1>1. /\ phase = "filling" /\ UNCHANGED <<plugged, card, serviceRuns, events, seenVars>>
      /\ bufferLength' = bufferLength
  BY DEF FillBuffer
<1>2. PICK result \in ListResults(bufferLength) :
         IF result = "SCARD_S_SUCCESS"
         THEN /\ \E names \in SetToSeqs(plugged) :
                    readerNames' = names \o
                       [i \in 1..(1 + bufferLength - RoomFor(plugged)) |-> Null]
              /\ phase' = "states"
              /\ UNCHANGED <<outcome, readers, contextValid>>
         ELSE Fail(result) /\ UNCHANGED readerNames
  BY DEF FillBuffer
<1>3. /\ bufferLength \in Nat /\ contextValid \in BOOLEAN
      /\ outcome \in {"none", "returned"} \cup ScardErrors /\ readers \in Seq(Reader)
      /\ RoomFor(plugged) \in Nat /\ plugged \in SUBSET Readers
  BY RoomForType DEF ListingInv, TypeOK
<1>4. CASE result = "SCARD_S_SUCCESS"
  <2> DEFINE k == 1 + bufferLength - RoomFor(plugged)
  <2>1. contextValid /\ ~(RoomFor(plugged) > bufferLength)
    BY <1>4 DEF ListResults, NamesResults, Refusals, ServiceDown
  <2>2. k \in Nat \ {0}
    BY <1>3, <2>1
  <2>3. PICK names \in SetToSeqs(plugged) :
           readerNames' = names \o [i \in 1..k |-> Null]
    BY <1>2, <1>4
  <2> HIDE DEF k
  <2>4. names \in Seq(Readers)
    BY <1>3, ListsOf
  <2>5. /\ readerNames' \in Seq(Readers \cup {Null})
        /\ ReaderNamePointerList(readerNames') = names
    BY <2>2, <2>3, <2>4, NamesInBuffer
  <2>6. phase' = "states" /\ UNCHANGED <<outcome, readers, contextValid>>
    BY <1>2, <1>4
  <2>7. /\ TypeOK' /\ SeenInv'
        /\ seenPlugged' = seenPlugged /\ seenChanges' = seenChanges
    BY <1>1, <1>3, <2>5, <2>6, CallKeepsHistory
  <2>8. CallInv'
    <3>1. \E P \in seenPlugged' : ReaderNamePointerList(readerNames') \in SetToSeqs(P)
      BY <1>1, <2>3, <2>5, <2>7, SeenInCall
    <3> QED
      BY <2>6, <3>1 DEF CallInv
  <2>9. ContextInv'
    BY <1>1, <2>6, <2>7 DEF ListingInv, ContextInv
  <2> QED
    BY <2>6, <2>7, <2>8, <2>9, ProgressKeeps
<1>5. CASE result # "SCARD_S_SUCCESS"
  <2>1. Fail(result) /\ UNCHANGED <<bufferLength, readerNames>>
    BY <1>1, <1>2, <1>5
  <2>2. Cause(result)
    BY <1>1, <1>5, ListResultHasCause
  <2> QED
    BY <1>1, <2>1, <2>2, FailureKeeps
<1> QED
  BY <1>4, <1>5

\* The Readers of a list of names, each made of a report that describes it, say no
\* more than what has been seen.
LEMMA ReturnKeeps ==
    ASSUME ListingInv, phase = "states",
           UNCHANGED <<plugged, card, serviceRuns, events, seenVars>>,
           UNCHANGED <<contextValid, bufferLength, readerNames>>,
           phase' = "idle", outcome' = "returned",
           NEW P \in seenPlugged, NEW names \in SetToSeqs(P),
           NEW reports \in [1..Len(names) -> Reports],
           \A i \in 1..Len(names) : Describes(reports[i], names[i]),
           readers' = [i \in 1..Len(names) |->
                          MakeReader(names[i], Atr(names[i]),
                             FlagSetFromReaderState(DwEventState(reports[i])))]
    PROVE  ListingInv'
<1> DEFINE N == Len(names)
           status(i) == FlagSetFromReaderState(DwEventState(reports[i]))
           reader(i) == MakeReader(names[i], Atr(names[i]), status(i))
<1>1. UNCHANGED <<seenPlugged, seenCards, seenChanges>>
  BY DEF seenVars
<1>2. /\ plugged \in SUBSET Readers /\ card \in [Readers -> Cards \cup {Null}]
      /\ bufferLength \in Nat /\ readerNames \in Seq(Readers \cup {Null})
      /\ seenPlugged \in SUBSET SUBSET Readers /\ contextValid \in BOOLEAN
  BY DEF ListingInv, TypeOK
<1>3. /\ names \in Seq(Readers) /\ N = Cardinality(P) /\ ToSet(names) = P
      /\ N \in Nat /\ \A i \in 1..N : names[i] \in Readers
  <2>1. names \in Seq(Readers) /\ N = Cardinality(P) /\ ToSet(names) = P
    BY <1>2, ListsOf
  <2> QED
    BY <2>1, EmptyIfLengthZero, ElementOfSeq
<1>4. DOMAIN names = 1..N
  BY <1>3
<1> HIDE DEF N
<1>5. readers' = [i \in 1..N |-> reader(i)]
  BY DEF N
<1>6. /\ \A i \in 1..N : reports[i] \in Reports /\ Describes(reports[i], names[i])
      /\ \A i \in 1..N : reports[i] \in Report /\ SaysOneOf(reports[i])
  BY ListingAssumption DEF N
<1>7. \A i \in 1..N : reader(i) \in Reader
  <2> SUFFICES ASSUME NEW i \in 1..N PROVE reader(i) \in Reader
    OBVIOUS
  <2>1. names[i] \in Readers /\ Atr(names[i]) \in Cards \cup {Null}
    BY <1>2, <1>3 DEF Atr
  <2>2. status(i) \in Flags!FlagSets
    BY <1>6, StatusOfReport
  <2> HIDE DEF status
  <2> QED
    BY <2>1, <2>2 DEF Reader, MakeReader
<1>8. \A i \in 1..N : /\ reader(i).name = names[i]
                      /\ reader(i).cardAtr = Atr(names[i])
                      /\ reader(i).status = status(i)
  BY DEF MakeReader
<1>9. /\ readers' \in Seq(Reader) /\ Len(readers') = N /\ DOMAIN readers' = 1..N
      /\ \A i \in 1..N : readers'[i] = reader(i)
  <2> HIDE DEF reader
  <2> QED
    BY <1>3, <1>5, <1>7
<1> HIDE DEF reader
<1>10. TypeOK' /\ SeenInv' /\ seenPlugged' = seenPlugged
  <2>1. contextValid' \in BOOLEAN /\ outcome' \in {"none", "returned"} \cup ScardErrors
    BY <1>2
  <2> QED
    BY <1>2, <1>9, <2>1, CallKeepsHistory
<1>11. CallInv' /\ ContextInv'
  BY DEF CallInv, ContextInv, ListingInv
<1>12. NamesReturned' = P
  <2>1. NamesReturned' = {readers'[i].name : i \in DOMAIN readers'}
    BY DEF NamesReturned
  <2>2. /\ DOMAIN readers' = DOMAIN names
        /\ \A i \in DOMAIN names : readers'[i].name = names[i]
    BY <1>4, <1>8, <1>9
  <2>3. NamesReturned' = {names[i] : i \in DOMAIN names}
    BY <2>1, <2>2, Zenon
  <2> QED
    BY <1>3, <2>3 DEF ToSet
<1>13. ListIsSnapshot'
  BY <1>3, <1>9, <1>10, <1>12 DEF ListIsSnapshot
<1>14. OutcomeHasCause'
  BY <1>10, <1>12 DEF OutcomeHasCause
<1>15. \A i \in 1..N : /\ card[names[i]] \in seenCards[names[i]]
                       /\ WasTrue(reports[i], names[i])'
  <2> SUFFICES ASSUME NEW i \in 1..N
               PROVE  /\ card[names[i]] \in seenCards[names[i]]
                      /\ WasTrue(reports[i], names[i])'
    OBVIOUS
  <2>1. card[names[i]] \in seenCards[names[i]] /\ plugged \in seenPlugged
    BY <1>3, SeenInCall
  <2>2. /\ "PRESENT" \in reports[i].states =>
              names[i] \in plugged /\ card[names[i]] # Null
        /\ "EMPTY" \in reports[i].states => card[names[i]] = Null
        /\ "UNKNOWN" \in reports[i].states => names[i] \notin plugged
    BY <1>6, DescribedIsTrue
  <2> QED
    BY <1>1, <2>1, <2>2 DEF WasTrue
<1>16. AtrIsOfThisReader'
  <2> SUFFICES ASSUME NEW i \in 1..N
               PROVE  /\ readers'[i].cardAtr \in
                            seenCards'[readers'[i].name] \cup {Null}
                      /\ IsCardInserted(readers'[i].status) =>
                            seenCards'[readers'[i].name] # {Null}
    BY <1>9 DEF AtrIsOfThisReader
  <2>1. Atr(names[i]) \in seenCards[names[i]] \cup {Null}
    BY <1>15 DEF Atr
  <2>2. IsCardInserted(status(i)) => "PRESENT" \in reports[i].states
    BY <1>6, InsertedMeansPresent
  <2>3. "PRESENT" \in reports[i].states => seenCards[names[i]] # {Null}
    BY <1>1, <1>15 DEF WasTrue
  <2>4. /\ readers'[i].cardAtr = Atr(names[i]) /\ readers'[i].name = names[i]
        /\ readers'[i].status = status(i)
    BY <1>8, <1>9
  <2> QED
    BY <1>1, <2>1, <2>2, <2>3, <2>4
<1>17. ReportsInv'
  <2> SUFFICES ASSUME NEW i \in DOMAIN readers'
               PROVE  \E report \in Reports :
                         /\ readers'[i].status =
                               FlagSetFromReaderState(DwEventState(report))
                         /\ WasTrue(report, readers[i].name)'
    BY DEF ReportsInv
  <2>1. i \in 1..N /\ readers'[i].name = names[i] /\ readers'[i].status = status(i)
    BY <1>8, <1>9
  <2>2. WasTrue(reports[i], readers[i].name)'
    BY <1>1, <1>15, <2>1 DEF WasTrue
  <2> QED
    BY <1>6, <2>1, <2>2
<1> QED
  BY <1>10, <1>11, <1>13, <1>14, <1>16, <1>17 DEF ListingInv

LEMMA StatesKeep ==
    ASSUME ListingInv, GetStates
    PROVE  ListingInv'
<1> DEFINE names == ReaderNamePointerList(readerNames)
           Listed(reports) ==
              /\ \A i \in 1..Len(names) : Describes(reports[i], names[i])
              /\ readers' = [i \in 1..Len(names) |->
                                MakeReader(names[i], Atr(names[i]),
                                   FlagSetFromReaderState(DwEventState(reports[i])))]
<1>1. /\ phase = "states" /\ UNCHANGED <<plugged, card, serviceRuns, events, seenVars>>
      /\ UNCHANGED <<bufferLength, readerNames>>
  BY DEF GetStates
<1>2. PICK P \in seenPlugged : names \in SetToSeqs(P)
  BY <1>1 DEF ListingInv, CallInv
<1>3. \/ names = <<>> /\ Leave("returned")
      \/ \E result \in StateResults(ToSet(names)) :
            IF result = "SCARD_S_SUCCESS"
            THEN /\ phase' = "idle"
                 /\ outcome' = "returned"
                 /\ \E reports \in [1..Len(names) -> Reports] : Listed(reports)
                 /\ UNCHANGED contextValid
            ELSE Fail(result)
  BY DEF GetStates, Entry
<1> HIDE DEF names
<1>4. /\ bufferLength \in Nat /\ readerNames \in Seq(Readers \cup {Null})
      /\ P \in SUBSET Readers
  BY DEF ListingInv, TypeOK
<1>5. ToSet(names) = P
  BY <1>2, <1>4, ListsOf
<1>6. CASE names = <<>> /\ Leave("returned")
  <2>1. /\ phase' = "idle" /\ outcome' = "returned" /\ readers' = <<>>
        /\ contextValid' = FALSE
    BY <1>6 DEF Leave
  <2>2. readers' \in Seq(Reader)
    BY <2>1, EmptySeq
  <2>3. TypeOK' /\ SeenInv' /\ seenPlugged' = seenPlugged
    BY <1>1, <1>4, <2>1, <2>2, CallKeepsHistory
  <2>4. NamesReturned' = P
    <3>1. DOMAIN readers' = {} /\ DOMAIN names = {}
      BY <1>6, <2>1
    <3> QED
      BY <1>5, <3>1 DEF NamesReturned, ToSet
  <2>5. OutcomeHasCause'
    BY <2>1, <2>3, <2>4 DEF OutcomeHasCause
  <2> QED
    BY <1>6, <2>3, <2>5, LeaveKeeps
<1>7. ASSUME phase' = "idle", outcome' = "returned", UNCHANGED contextValid,
             NEW reports \in [1..Len(names) -> Reports], Listed(reports)
      PROVE  ListingInv'
  BY <1>1, <1>2, <1>7, ReturnKeeps, Zenon
<1>8. ASSUME NEW result \in StateResults(ToSet(names)), Fail(result),
             result # "SCARD_S_SUCCESS"
      PROVE  ListingInv'
  <2>1. Cause(result)
    BY <1>1, <1>5, <1>8, StateResultHasCause
  <2> QED
    BY <1>1, <1>8, <2>1, FailureKeeps
<1> HIDE DEF Listed
<1> QED
  BY <1>3, <1>6, <1>7, <1>8

\* Every state of a listing has the inductive invariant: the types, the history,
\* what the call knows of the readers and of its Context, and what its result says.
THEOREM ListingInvariance == Spec => []ListingInv
<1>1. ListingInv /\ [Next]_vars => ListingInv'
  <2> SUFFICES ASSUME ListingInv, [Next]_vars
               PROVE  ListingInv'
    OBVIOUS
  <2>1. CASE WorldStep
    BY <2>1, WorldKeeps
  <2>2. CASE BeginListing
    BY <2>2, BeginKeeps
  <2>3. CASE AskForLength
    BY <2>3, AskKeeps
  <2>4. CASE FillBuffer
    BY <2>4, FillKeeps
  <2>5. CASE GetStates
    BY <2>5, StatesKeep
  <2>6. CASE UNCHANGED vars
    BY <2>6 DEF vars, worldVars, callVars, seenVars, ListingInv, TypeOK, SeenInv,
                ContextInv, CallInv, ListIsSnapshot, AtrIsOfThisReader,
                OutcomeHasCause, ReportsInv, WasTrue, Returned, NamesReturned
  <2> QED
    BY <2>1, <2>2, <2>3, <2>4, <2>5, <2>6 DEF Next, ListReaders
<1> QED
  BY Inits, <1>1, PTL DEF Spec

-----------------------------------------------------------------------------
(* What it says of the list                                                *)

\* A list put together from three answers was true at one moment of the call.
THEOREM ListsAreSnapshots == Spec => []ListIsSnapshot
<1>1. ListingInv => ListIsSnapshot
  BY DEF ListingInv
<1> QED
  BY ListingInvariance, <1>1, PTL

\* A Reader's ATR and its status are those of a card that was in this reader.
THEOREM AtrsAreOfTheirReaders == Spec => []AtrIsOfThisReader
<1>1. ListingInv => AtrIsOfThisReader
  BY DEF ListingInv
<1> QED
  BY ListingInvariance, <1>1, PTL

\* A listing throws, or leaves readers out, only for a cause that came after it
\* began: a reader that came or went, or a Context that was null or lost.
THEOREM OutcomesHaveCauses == Spec => []OutcomeHasCause
<1>1. ListingInv => OutcomeHasCause
  BY DEF ListingInv
<1> QED
  BY ListingInvariance, <1>1, PTL

\* The text of a status names just the states that the resource manager reported
\* of this reader, and the report was true during the call.
THEOREM StatusTextsTell == Spec => []StatusStringTells
<1>1. ListingInv => StatusStringTells
  <2> SUFFICES ASSUME ListingInv, Returned, NEW i \in DOMAIN readers
               PROVE  \E report \in Reports :
                         /\ NamedIn(StatusString(readers[i].status)) = report.states
                         /\ WasTrue(report, readers[i].name)
    BY DEF StatusStringTells
  <2>1. PICK report \in Reports :
           /\ readers[i].status = FlagSetFromReaderState(DwEventState(report))
           /\ WasTrue(report, readers[i].name)
    BY DEF ListingInv, ReportsInv
  <2>2. report \in Report /\ SaysOneOf(report)
    BY ListingAssumption
  <2>3. /\ readers[i].status \in Flags!FlagSets
        /\ Flags!Members(readers[i].status) = report.states
    BY <2>1, <2>2, StatusOfReport
  <2>4. NamedIn(StatusString(readers[i].status)) = report.states
    BY <2>3, TextNamesFlags
  <2> QED
    BY <2>1, <2>4
<1> QED
  BY ListingInvariance, <1>1, PTL
=============================================================================
