----------------------------- MODULE ReadBinary -----------------------------
(***************************************************************************)
(* Reading a file from the card, as the two functions of utils.cpp that    *)
(* belong together do: readDataLengthFromAsn1() takes the length of the    *)
(* file from its first four bytes, readBinary() reads that many bytes in   *)
(* blocks.  A caller may also bring a length of its own.                   *)
(*                                                                         *)
(* The card is external: it answers with as many bytes as were asked for,  *)
(* or fewer, or none and an error that transmit() lets through, or the     *)
(* call fails.  Of the bytes read so far it is kept how many they are and  *)
(* whether they are the first so many bytes of the selected file.          *)
(***************************************************************************)
EXTENDS Integers, Sequences

CONSTANTS
    HeaderBytes,    \* byte values that occur in a header
    OwnLengths,     \* lengths that callers bring
    BlockLengths,   \* block lengths that callers ask for
    Shortfalls      \* bytes by which an answer is too short

Byte        == 0..255
\* READ BINARY has 15 bits for the offset: with the 16th it selects a file.
Addressable == 2^15

ASSUME ReadAssumption ==
    /\ HeaderBytes \subseteq Byte
    /\ OwnLengths \subseteq Nat
    /\ BlockLengths \subseteq Nat
    /\ Shortfalls \subseteq Nat

VARIABLES
    phase,          \* "idle", "reading" or "done"
    outcome,        \* of the last function: "none", "returned" or "thrown"
    header,         \* history: the card's answer to the request for the header
    length,         \* arguments of readBinary()
    blockLength,
    offset, lengthCounter, blockLengthVar,
    resultBytes

callVars == <<header, length, blockLength>>
loopVars == <<offset, lengthCounter, blockLengthVar, resultBytes>>
vars     == <<phase, outcome, callVars, loopVars>>

NoBytes == [size |-> 0, ofFile |-> TRUE]
Headers == UNION {[1..n -> HeaderBytes] : n \in 0..4}

TypeOK ==
    /\ phase \in {"idle", "reading", "done"}
    /\ outcome \in {"none", "returned", "thrown"}
    /\ header \in Headers
    /\ {length, blockLength, offset, lengthCounter, blockLengthVar} \subseteq Nat
    /\ resultBytes \in [size : Nat, ofFile : BOOLEAN]

Init ==
    /\ phase = "idle"
    /\ outcome = "none"
    /\ header = <<>>
    /\ length = 0
    /\ blockLength = 0
    /\ offset = 0
    /\ lengthCounter = 0
    /\ blockLengthVar = 0
    /\ resultBytes = NoBytes

\* readBinary(len, block), up to its loop.
Call(len, block) ==
    /\ phase' = "reading"
    /\ length' = len
    /\ blockLength' = block
    /\ offset' = 0
    /\ lengthCounter' = len
    /\ blockLengthVar' = block
    /\ resultBytes' = NoBytes

ReadOwnLength ==
    /\ phase = "idle"
    /\ \E len \in OwnLengths, block \in BlockLengths : Call(len, block)
    /\ UNCHANGED <<outcome, header>>

Throw ==
    /\ phase' = "done"
    /\ outcome' = "thrown"

-----------------------------------------------------------------------------
(* readDataLengthFromAsn1()                                                *)

DerSequence      == 48
DerTwoByteLength == 130

\* What data[i] may yield: the vector is indexed whatever its size is.
ByteAt(data, i) == IF i \in 1..Len(data) THEN {data[i]} ELSE HeaderBytes

AnyLength    == Nat
LengthLimits == 128..3840

Acceptable(len) == len \in LengthLimits

\* After the header the caller reads the file in blocks of its choice.
ReadHeader ==
    /\ phase = "idle"
    /\ \E data \in Headers :
          /\ header' = data
          /\ \E b1 \in ByteAt(data, 1), b2 \in ByteAt(data, 2),
                b3 \in ByteAt(data, 3), b4 \in ByteAt(data, 4) :
                LET len == 256 * b3 + b4 + 4 IN
                IF b1 = DerSequence /\ b2 = DerTwoByteLength /\ Acceptable(len)
                THEN /\ outcome' = "returned"
                     /\ \E block \in BlockLengths : Call(len, block)
                ELSE Throw /\ UNCHANGED <<length, blockLength, loopVars>>

-----------------------------------------------------------------------------
(* readBinary()                                                            *)

\* The length of the next block: what is left, if that is less.
WholeBlock(block, left) == block
Block(block, left)      == IF block > left THEN left ELSE block

\* Where the card reads for P1 and P2, and how much for Le, which is one byte.
HIBYTE(w)      == (w \div 256) % 256
LOBYTE(w)      == w % 256
OtherFile      == -1
Position(p1, p2) == IF p1 < 128 THEN 256 * p1 + p2 ELSE OtherFile
Wanted(le)       == IF le = 0 THEN 256 ELSE le

\* n bytes that the card took from position from are put at the end.
Appended(bytes, from, n) ==
    [size   |-> bytes.size + n,
     ofFile |-> bytes.ofFile /\ (n > 0 => from = bytes.size)]

\* One turn of the loop, in which transmit() returns n bytes: offset and counter
\* move by the block that was asked for, not by what came.
ReadBlock ==
    LET block == Block(blockLengthVar, lengthCounter)
        from  == Position(HIBYTE(offset), LOBYTE(offset))
        want  == Wanted(block % 256)
    IN
    /\ phase = "reading"
    /\ lengthCounter # 0
    /\ \E short \in Shortfalls :
          LET n == IF short < want THEN want - short ELSE 0 IN
          /\ resultBytes' = Appended(resultBytes, from, n)
          /\ offset' = offset + block
          /\ lengthCounter' = lengthCounter - block
    /\ blockLengthVar' = block
    /\ outcome' = "none"
    /\ UNCHANGED <<phase, callVars>>

ReadFails ==
    /\ phase = "reading"
    /\ lengthCounter # 0
    /\ Throw
    /\ UNCHANGED <<callVars, loopVars>>

AcceptsAnySize      == TRUE
SizeIsRight         == resultBytes.size = length

Finish ==
    /\ phase = "reading"
    /\ lengthCounter = 0
    /\ IF SizeIsRight
       THEN phase' = "done" /\ outcome' = "returned"
       ELSE Throw
    /\ UNCHANGED <<callVars, loopVars>>

Next == ReadOwnLength \/ ReadHeader \/ ReadBlock \/ ReadFails \/ Finish

Spec == Init /\ [][Next]_vars

-----------------------------------------------------------------------------
FileReturned == phase = "done" /\ outcome = "returned"

\* "Read lenght bytes from currently selected binary file"
\* (pcsc-cpp.hpp:313): what readBinary() returns are the first length bytes of
\* the file, each once and in order, although it looks at no status word and at
\* the number of bytes only in the end; as far as offsets reach
\* (utils.cpp:145-174).
ReturnsTheFile ==
    FileReturned /\ length <= Addressable =>
       resultBytes = [size |-> length, ofFile |-> TRUE]

\* What has come never runs ahead of the offset it is asked from next, nor that
\* of the length: the Le that is left of a block length after the cut to one
\* byte asks for no more than the block, 00 for 256 bytes included, and the
\* unsigned counter of the loop does not pass zero (utils.cpp:152-165).
NeverAhead ==
    blockLength > 0 =>
       /\ resultBytes.size <= offset
       /\ offset <= length

\* A length found in a header can be read with one file selected: every offset
\* fits in what READ BINARY has for it (utils.cpp:135-140, 159-160).
HeaderLengthAddressable ==
    header # <<>> /\ phase = "reading" /\ lengthCounter # 0 =>
       Position(HIBYTE(offset), LOBYTE(offset)) = offset

\* "Read 2-byte length field at offset 2 and 3" (utils.cpp:133): a length is
\* taken only from bytes that the card has sent.
LengthIsFromHeader ==
    outcome = "returned" /\ phase = "reading" => Len(header) = 4
=============================================================================
