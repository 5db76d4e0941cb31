-------------------------------- MODULE Apdu --------------------------------
(***************************************************************************)
(* Command and response APDUs and their encodings as bytes: the structs    *)
(* CommandApdu and ResponseApdu, and what a card reads in the bytes of a   *)
(* command by ISO/IEC 7816-4, of which src/ has no code.                   *)
(***************************************************************************)
EXTENDS Naturals, Sequences

Byte == 0..255

LE_UNUSED       == 65535
MaxCommandData  == 255
MaxResponseData == 256

-----------------------------------------------------------------------------
(* CommandApdu.  Its header is cla, ins, p1 and p2.                         *)

CommandApdu == [header : [1..4 -> Byte], data : Seq(Byte), le : 0..LE_UNUSED]

isLeSet(command) == command.le # LE_UNUSED

ThrowsForLe(command) == isLeSet(command) /\ command.le > MaxResponseData
ToBytesThrows(command) ==
    \/ Len(command.data) > MaxCommandData
    \/ isLeSet(command) /\ command.le > MaxResponseData

\* Lc is there only if data is, Le only if it is set; each of them is one byte.
LcAlways(data)  == <<Len(data) % 256>>
Lc(data)        == IF data = <<>> THEN <<>> ELSE <<Len(data) % 256>>
Le(command)     == IF isLeSet(command) THEN <<command.le % 256>> ELSE <<>>

ToBytes(command) ==
    command.header \o Lc(command.data) \o command.data \o Le(command)

FromBytesThrows(bytes, useLe) ==
    \/ Len(bytes) < 4
    \/ Len(bytes) = 5 /\ ~useLe
    \/ Len(bytes) = 6 /\ useLe

\* Byte 5 is skipped, not looked at: data is all the bytes after it but for Le.
KeepLe(bytes, le) == SubSeq(bytes, 6, Len(bytes))
Data(bytes, le)   == SubSeq(bytes, 6, Len(bytes) - Len(le))

FromBytes(bytes, useLe) ==
    LET le == IF useLe /\ Len(bytes) > 4 THEN <<bytes[Len(bytes)]>> ELSE <<>> IN
    [header |-> SubSeq(bytes, 1, 4),
     data   |-> Data(bytes, le),
     le     |-> IF le = <<>> THEN LE_UNUSED ELSE le[1]]

-----------------------------------------------------------------------------
(* ResponseApdu                                                             *)

ResponseApdu == [sw1 : Byte, sw2 : Byte, data : Seq(Byte)]

ResponseFromBytesThrows(bytes) == Len(bytes) < 2

ResponseFromBytes(bytes) ==
    [sw1  |-> bytes[Len(bytes) - 1],
     sw2  |-> bytes[Len(bytes)],
     data |-> SubSeq(bytes, 1, Len(bytes) - 2)]

ResponseToBytes(response) == response.data \o <<response.sw1, response.sw2>>

APDU_RESPONSE_OK == <<144, 0>>
isOK(response) == response.sw1 = 144 /\ response.sw2 = 0

\* toResponse() lets a few errors through, and 61; 6C it knows but throws.
LetThrough(response) == response.sw1 \in {144, 97, 99, 100, 103, 105, 106}

-----------------------------------------------------------------------------
(* ISO/IEC 7816-4, short commands: Lc data bytes follow a fifth byte that   *)
(* tells their number, and the answer may have up to Ne bytes.              *)

ExpectedLength(le) == IF le = 0 THEN 256 ELSE le

Malformed == [header |-> <<>>, data |-> <<>>, ne |-> 0]

CardReads(bytes) ==
    LET n  == Len(bytes)
        lc == IF n > 5 THEN bytes[5] ELSE 0
        Reads(data, ne) == [header |-> SubSeq(bytes, 1, 4), data |-> data, ne |-> ne]
    IN
    CASE n = 4                   -> Reads(<<>>, 0)
      [] n = 5                   -> Reads(<<>>, ExpectedLength(bytes[5]))
      [] lc > 0 /\ n = 5 + lc    -> Reads(SubSeq(bytes, 6, n), 0)
      [] lc > 0 /\ n = 6 + lc    -> Reads(SubSeq(bytes, 6, n - 1),
                                          ExpectedLength(bytes[n]))
      [] OTHER                   -> Malformed

\* Does the command that these bytes are ask for an answer?
HasLe(bytes) == CardReads(bytes).ne > 0

\* What whoever made a CommandApdu means by it.
Meaning(command) ==
    [header |-> command.header,
     data   |-> command.data,
     ne     |-> IF isLeSet(command) THEN ExpectedLength(command.le) ELSE 0]
=============================================================================
