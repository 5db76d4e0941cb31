-------------------------- MODULE ReadBinaryProofs --------------------------
(***************************************************************************)
(* What ReadBinary promises for every length, every block length and every *)
(* way in which a card's answers may be short.  The loop of readBinary()   *)
(* checks nothing while it runs; that the number of bytes at the end tells *)
(* whether they are the file rests on two facts about each turn: no answer *)
(* is longer than the block the offset moves by, and so bytes can only be  *)
(* in the wrong place after some were missing, which are missing for good. *)
(***************************************************************************)
EXTENDS ReadBinary, TLAPS

\* The counter is what is left; a block length only changes for the last block.
CounterInv ==
    /\ offset + lengthCounter = length
    /\ lengthCounter # 0 => blockLengthVar = blockLength

\* As long as nothing is missing, what has come is the file's.  Empty blocks
\* never get anywhere: with them only an empty file is returned.
BytesInv ==
    /\ resultBytes.size = offset /\ length <= Addressable => resultBytes.ofFile
    /\ blockLength = 0 => offset = 0

ReturnInv ==
    FileReturned => lengthCounter = 0 /\ resultBytes.size = length

\* A header is only read first, and its length is read only within the limits.
HeaderInv ==
    /\ phase = "idle" => header = <<>>
    /\ phase = "reading" /\ header # <<>> => length \in LengthLimits

ReadInv == TypeOK /\ CounterInv /\ NeverAhead /\ BytesInv /\ ReturnInv

-----------------------------------------------------------------------------
(* Lemmas about one turn of the loop                                       *)

\* P1 and P2 say where to read, for every offset that READ BINARY can take.
LEMMA OffsetFits ==
    ASSUME NEW w \in Nat, w < Addressable
    PROVE  Position(HIBYTE(w), LOBYTE(w)) = w
<1>1. Addressable = 32768
  BY DEF Addressable
<1>2. (w \div 256) % 256 = w \div 256
  BY <1>1
<1>3. w = 256 * (w \div 256) + (w % 256) /\ w \div 256 < 128
  BY <1>1
<1> QED
  BY <1>2, <1>3 DEF Position, HIBYTE, LOBYTE

\* The Le of a block that is not empty asks for no more than the block.
LEMMA WantedFits ==
    ASSUME NEW b \in Nat, b > 0
    PROVE  Wanted(b % 256) \in Nat /\ Wanted(b % 256) <= b
<1>1. b % 256 \in Nat /\ b % 256 <= b /\ (b % 256 = 0 => b >= 256)
  OBVIOUS
<1> QED
  BY <1>1 DEF Wanted

\* A block is not empty unless the caller asked for empty blocks, and it is no
\* more than what is left.
LEMMA BlockFits ==
    ASSUME NEW b \in Nat, NEW left \in Nat, left # 0
    PROVE  /\ Block(b, left) \in Nat
           /\ Block(b, left) <= left
           /\ Block(b, left) = 0 <=> b = 0
           /\ Block(b, left) # left => Block(b, left) = b
BY DEF Block

-----------------------------------------------------------------------------
(* One step per action                                                     *)

LEMMA InitHolds == Init => ReadInv
BY DEF Init, ReadInv, TypeOK, NoBytes, Headers, CounterInv, NeverAhead, BytesInv,
       ReturnInv, FileReturned

\* A call starts with nothing read and everything left.
LEMMA CallHolds ==
    ASSUME NEW len \in Nat, NEW block \in Nat, Call(len, block),
           header' \in Headers, outcome' \in {"none", "returned", "thrown"}
    PROVE  ReadInv'
BY DEF Call, ReadInv, TypeOK, NoBytes, CounterInv, NeverAhead, BytesInv,
       ReturnInv, FileReturned

\* A step that ends a function by an exception leaves the loop's variables alone.
LEMMA ThrowHolds ==
    ASSUME ReadInv, Throw, header' \in Headers,
           UNCHANGED <<length, blockLength, loopVars>>
    PROVE  ReadInv'
BY DEF Throw, loopVars, ReadInv, TypeOK, CounterInv, NeverAhead, BytesInv,
       ReturnInv, FileReturned

LEMMA ReadOwnLengthHolds == ReadInv /\ ReadOwnLength => ReadInv'
<1> SUFFICES ASSUME ReadInv, ReadOwnLength
             PROVE  ReadInv'
  OBVIOUS
<1>1. PICK len \in OwnLengths, block \in BlockLengths : Call(len, block)
  BY DEF ReadOwnLength
<1>2. len \in Nat /\ block \in Nat
  BY ReadAssumption
<1>3. header' \in Headers /\ outcome' \in {"none", "returned", "thrown"}
  BY DEF ReadOwnLength, ReadInv, TypeOK
<1> QED
  BY <1>1, <1>2, <1>3, CallHolds

LEMMA ReadHeaderHolds == ReadInv /\ ReadHeader => ReadInv'
<1> SUFFICES ASSUME ReadInv, ReadHeader
             PROVE  ReadInv'
  OBVIOUS
<1>1. PICK data \in Headers :
        /\ header' = data
        /\ \E b1 \in ByteAt(data, 1), b2 \in ByteAt(data, 2),
              b3 \in ByteAt(data, 3), b4 \in ByteAt(data, 4) :
              LET len == 256 * b3 + b4 + 4 IN
              IF b1 = DerSequence /\ b2 = DerTwoByteLength /\ Acceptable(len)
              THEN /\ outcome' = "returned"
                   /\ \E block \in BlockLengths : Call(len, block)
              ELSE Throw /\ UNCHANGED <<length, blockLength, loopVars>>
  BY DEF ReadHeader
<1>2. CASE Throw /\ UNCHANGED <<length, blockLength, loopVars>>
  BY <1>1, <1>2, ThrowHolds
<1>3. CASE \E len : /\ Acceptable(len)
                    /\ outcome' = "returned"
                    /\ \E block \in BlockLengths : Call(len, block)
  <2>1. PICK len : Acceptable(len) /\ \E block \in BlockLengths : Call(len, block)
    BY <1>3
  <2>2. PICK block \in BlockLengths : Call(len, block)
    BY <2>1
  <2>3. len \in Nat /\ block \in Nat
    BY <2>1, ReadAssumption DEF Acceptable, LengthLimits
  <2> QED
    BY <1>1, <1>3, <2>2, <2>3, CallHolds
<1> QED
  BY <1>1, <1>2, <1>3

LEMMA ReadFailsHolds == ReadInv /\ ReadFails => ReadInv'
BY ThrowHolds DEF ReadFails, callVars, ReadInv, TypeOK

LEMMA FinishHolds == ReadInv /\ Finish => ReadInv'
<1> SUFFICES ASSUME ReadInv, Finish
             PROVE  ReadInv'
  OBVIOUS
<1>1. CASE Throw
  BY <1>1, ThrowHolds DEF Finish, callVars, ReadInv, TypeOK
<1>2. CASE SizeIsRight /\ phase' = "done" /\ outcome' = "returned"
  BY <1>2 DEF Finish, SizeIsRight, callVars, loopVars, ReadInv, TypeOK, CounterInv,
              NeverAhead, BytesInv, ReturnInv, FileReturned
<1> QED
  BY <1>1, <1>2 DEF Finish

\* The heart of it: an answer that is as long as the block comes from where the
\* last one ended, and one that is shorter leaves the bytes behind the offset.
LEMMA ReadBlockHolds == ReadInv /\ ReadBlock => ReadInv'
<1> SUFFICES ASSUME ReadInv, ReadBlock
             PROVE  ReadInv'
  OBVIOUS
<1> DEFINE block == Block(blockLengthVar, lengthCounter)
           from  == Position(HIBYTE(offset), LOBYTE(offset))
           want  == Wanted(block % 256)
<1>1. PICK short \in Shortfalls :
        LET n == IF short < want THEN want - short ELSE 0 IN
        /\ resultBytes' = Appended(resultBytes, from, n)
        /\ offset' = offset + block
        /\ lengthCounter' = lengthCounter - block
  BY DEF ReadBlock
<1> DEFINE n == IF short < want THEN want - short ELSE 0
<1>2. /\ resultBytes' = Appended(resultBytes, from, n)
      /\ offset' = offset + block
      /\ lengthCounter' = lengthCounter - block
  BY <1>1
<1>3. /\ phase = "reading" /\ lengthCounter # 0
      /\ blockLengthVar' = block /\ outcome' = "none"
      /\ UNCHANGED <<phase, header, length, blockLength>>
  BY DEF ReadBlock, callVars
<1>4. /\ length \in Nat /\ blockLength \in Nat /\ offset \in Nat
      /\ lengthCounter \in Nat /\ blockLengthVar \in Nat
      /\ resultBytes.size \in Nat /\ resultBytes.ofFile \in BOOLEAN
      /\ header \in Headers
  BY DEF ReadInv, TypeOK
<1>5. /\ block \in Nat /\ block <= lengthCounter
      /\ block = 0 <=> blockLengthVar = 0
      /\ block # lengthCounter => block = blockLengthVar
  BY <1>3, <1>4, BlockFits
<1>6. want \in Nat /\ (block > 0 => want <= block)
  <2>1. CASE block > 0
    BY <1>5, <2>1, WantedFits
  <2>2. CASE block = 0
    BY <2>2 DEF Wanted
  <2> QED
    BY <1>5, <2>1, <2>2
<1>7. n \in Nat /\ (block > 0 => n <= block)
  <2>1. short \in Nat
    BY ReadAssumption
  <2> HIDE DEF want, block
  <2> QED
    BY <1>5, <1>6, <2>1
<1>8. /\ resultBytes'.size = resultBytes.size + n
      /\ resultBytes'.ofFile = (resultBytes.ofFile /\ (n > 0 => from = resultBytes.size))
      /\ resultBytes' \in [size : Nat, ofFile : BOOLEAN]
  <2> HIDE DEF n, from
  <2> QED
    BY <1>2, <1>4, <1>7 DEF Appended
<1>9. /\ offset + lengthCounter = length
      /\ blockLengthVar = blockLength
      /\ NeverAhead /\ BytesInv
  BY <1>3 DEF ReadInv, CounterInv
<1>10. offset < Addressable => from = offset
  BY <1>4, OffsetFits
<1> HIDE DEF block, from, want, n
<1>11. TypeOK'
  BY <1>2, <1>3, <1>4, <1>5, <1>8 DEF TypeOK
<1>12. CounterInv'
  BY <1>2, <1>3, <1>4, <1>5, <1>9 DEF CounterInv
<1>13. NeverAhead'
  BY <1>2, <1>3, <1>4, <1>5, <1>7, <1>8, <1>9 DEF NeverAhead
<1>14. BytesInv'
  <2>1. ASSUME resultBytes'.size = offset', length' <= Addressable
        PROVE  resultBytes'.ofFile
    <3>1. CASE blockLength = 0
      <4>1. block = 0 /\ offset' = 0 /\ offset = 0
        BY <1>2, <1>4, <1>5, <1>9, <3>1 DEF BytesInv
      <4>2. resultBytes.size = 0 /\ n = 0
        BY <2>1, <4>1, <1>4, <1>7, <1>8
      <4> QED
        BY <2>1, <4>1, <4>2, <1>3, <1>8, <1>9 DEF BytesInv
    <3>2. CASE blockLength > 0
      <4>1. resultBytes.size = offset /\ n = block
        BY <2>1, <3>2, <1>2, <1>4, <1>5, <1>7, <1>8, <1>9 DEF NeverAhead
      <4>2. offset < Addressable
        BY <2>1, <1>3, <1>4, <1>9 DEF Addressable
      <4> QED
        BY <2>1, <4>1, <4>2, <1>3, <1>8, <1>9, <1>10 DEF BytesInv
    <3> QED
      BY <1>4, <3>1, <3>2
  <2>2. blockLength' = 0 => offset' = 0
    BY <1>2, <1>3, <1>4, <1>5, <1>9 DEF BytesInv
  <2> QED
    BY <2>1, <2>2 DEF BytesInv
<1>15. ReturnInv'
  BY <1>3 DEF ReturnInv, FileReturned
<1> QED
  BY <1>11, <1>12, <1>13, <1>14, <1>15 DEF ReadInv

-----------------------------------------------------------------------------
(* Theorems                                                                *)

\* The counter, the offset, the bytes that came and the outcome agree in every
\* reachable state.
THEOREM ReadInvariance == Spec => []ReadInv
<1>1. Init => ReadInv
  BY InitHolds
<1>2. ReadInv /\ [Next]_vars => ReadInv'
  <2> SUFFICES ASSUME ReadInv, [Next]_vars
               PROVE  ReadInv'
    OBVIOUS
  <2>1. CASE UNCHANGED vars
    BY <2>1 DEF vars, callVars, loopVars, ReadInv, TypeOK, CounterInv, NeverAhead,
                BytesInv, ReturnInv, FileReturned
  <2> QED
    BY <2>1, ReadOwnLengthHolds, ReadHeaderHolds, ReadBlockHolds, ReadFailsHolds,
       FinishHolds DEF Next
<1> QED
  BY <1>1, <1>2, PTL DEF Spec

\* Every variable of readBinary() keeps its type.
THEOREM ReadTypes == Spec => []TypeOK
<1>1. ReadInv => TypeOK
  BY DEF ReadInv
<1> QED
  BY <1>1, ReadInvariance, PTL

\* Answers never run ahead of the offset, nor the offset of the length.
THEOREM AnswersNeverAhead == Spec => []NeverAhead
<1>1. ReadInv => NeverAhead
  BY DEF ReadInv
<1> QED
  BY <1>1, ReadInvariance, PTL

\* "Read lenght bytes from currently selected binary file" (pcsc-cpp.hpp:313):
\* for every length that offsets reach and every block length, what
\* readBinary() returns is the file's first length bytes.
THEOREM ReturnedBytesAreTheFile == Spec => []ReturnsTheFile
<1>1. ReadInv => ReturnsTheFile
  <2> SUFFICES ASSUME ReadInv, FileReturned, length <= Addressable
               PROVE  resultBytes = [size |-> length, ofFile |-> TRUE]
    BY DEF ReturnsTheFile
  <2>1. resultBytes \in [size : Nat, ofFile : BOOLEAN]
        /\ length \in Nat /\ offset \in Nat
    BY DEF ReadInv, TypeOK
  <2>2. resultBytes.size = length /\ offset = length
    BY <2>1 DEF ReadInv, ReturnInv, CounterInv
  <2>3. resultBytes.ofFile = TRUE
    BY <2>1, <2>2 DEF ReadInv, BytesInv
  <2> QED
    BY <2>1, <2>2, <2>3
<1> QED
  BY <1>1, ReadInvariance, PTL

LEMMA HeaderStep == HeaderInv /\ [Next]_vars => HeaderInv'
<1> SUFFICES ASSUME HeaderInv, [Next]_vars
             PROVE  HeaderInv'
  OBVIOUS
<1>1. CASE ReadOwnLength
  BY <1>1 DEF ReadOwnLength, Call, HeaderInv
<1>2. CASE ReadHeader
  <2>1. CASE Throw
    BY <2>1 DEF Throw, HeaderInv
  <2>2. CASE \E len \in LengthLimits, block \in BlockLengths : Call(len, block)
    BY <2>2 DEF Call, HeaderInv
  <2>3. CASE \E len : /\ Acceptable(len)
                      /\ outcome' = "returned"
                      /\ \E block \in BlockLengths : Call(len, block)
    BY <2>2, <2>3 DEF Acceptable
  <2>4. PICK data \in Headers :
          \E b1 \in ByteAt(data, 1), b2 \in ByteAt(data, 2),
             b3 \in ByteAt(data, 3), b4 \in ByteAt(data, 4) :
             LET len == 256 * b3 + b4 + 4 IN
             IF b1 = DerSequence /\ b2 = DerTwoByteLength /\ Acceptable(len)
             THEN /\ outcome' = "returned"
                  /\ \E block \in BlockLengths : Call(len, block)
             ELSE Throw /\ UNCHANGED <<length, blockLength, loopVars>>
    BY <1>2 DEF ReadHeader
  <2> QED
    BY <2>1, <2>3, <2>4
<1>3. CASE ReadBlock
  BY <1>3 DEF ReadBlock, callVars, HeaderInv
<1>4. CASE ReadFails
  BY <1>4 DEF ReadFails, Throw, HeaderInv
<1>5. CASE Finish
  BY <1>5 DEF Finish, Throw, HeaderInv
<1>6. CASE UNCHANGED vars
  BY <1>6 DEF vars, callVars, HeaderInv
<1> QED
  BY <1>1, <1>2, <1>3, <1>4, <1>5, <1>6 DEF Next

\* A file whose length came from its header is read at the offsets that are meant,
\* whatever the bytes of the header and the block length (utils.cpp:135-140,
\* 159-160).
THEOREM HeaderLengthsFit == Spec => []HeaderLengthAddressable
<1>1. Init => HeaderInv
  BY DEF Init, HeaderInv
<1>2. ReadInv /\ HeaderInv => HeaderLengthAddressable
  <2> SUFFICES ASSUME ReadInv, HeaderInv,
                      header # <<>>, phase = "reading", lengthCounter # 0
               PROVE  Position(HIBYTE(offset), LOBYTE(offset)) = offset
    BY DEF HeaderLengthAddressable
  <2>1. /\ offset \in Nat /\ lengthCounter \in Nat
        /\ offset + lengthCounter = length /\ length \in LengthLimits
    BY DEF ReadInv, TypeOK, CounterInv, HeaderInv
  <2>2. length \in Nat /\ length <= 3840
    BY <2>1 DEF LengthLimits
  <2>3. offset < length
    BY <2>1
  <2>4. Addressable = 32768
    BY DEF Addressable
  <2>5. offset < Addressable
    <3> HIDE DEF Addressable
    <3> QED
      BY <2>1, <2>2, <2>3, <2>4
  <2> QED
    BY <2>1, <2>5, OffsetFits
<1> QED
  BY <1>1, <1>2, HeaderStep, ReadInvariance, PTL DEF Spec
=============================================================================
