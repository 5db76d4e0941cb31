---------------------------- MODULE ApduExchange ----------------------------
(***************************************************************************)
(* transmitApduWithExpectedResponse(): a command, made of its fields or    *)
(* parsed from bytes, goes to the card, and the bytes that come back are   *)
(* compared with those the caller expects.  SmartCard::transmit() lies in  *)
(* between; the card of this module never answers 61 or 6C, which is       *)
(* ResponseChain's matter, and the caller has its transaction.             *)
(***************************************************************************)
EXTENDS Integers, Sequences, Apdu

CONSTANTS
    Commands,       \* CommandApdus that callers make
    CommandBytes,   \* bytes that callers parse commands from
    Replies,        \* what a card may send back, garbage included
    Expectations    \* responses that callers expect

ASSUME ExchangeAssumption ==
    /\ Commands \subseteq CommandApdu
    /\ CommandBytes \cup Replies \cup Expectations \subseteq Seq(Byte)
    /\ \A bytes \in Replies :
          Len(bytes) >= 2 => bytes[Len(bytes) - 1] \notin {97, 108}

VARIABLES
    phase,
    given,          \* the bytes the command was parsed from, or <<>>
    useLe,          \* how they were parsed
    command,
    expected,       \* expectedResponseBytes
    sent,           \* to the card
    reply,          \* from the card
    outcome,        \* "none", "returned" or the exception
    report          \* the hex digits in it: of command, expected and got

vars == <<phase, given, useLe, command, expected, sent, reply, outcome, report>>

NoReport  == <<>>
NoCommand == [header |-> <<0, 0, 0, 0>>, data |-> <<>>, le |-> LE_UNUSED]

TypeOK ==
    /\ phase \in {"idle", "transmit", "card", "response", "done"}
    /\ given \in Seq(Byte)
    /\ useLe \in BOOLEAN
    /\ command \in CommandApdu
    /\ expected \in Seq(Byte)
    /\ sent \in Seq(Byte)
    /\ Len(sent) <= 6 + MaxCommandData
    /\ reply \in Seq(Byte)
    /\ outcome \in {"none", "returned", "invalid_argument", "Error",
                    "UnexpectedResponseError"}
    /\ report \in Seq(Seq(0..15))

Init ==
    /\ phase = "idle"
    /\ given = <<>>
    /\ useLe = FALSE
    /\ command = NoCommand
    /\ expected = <<>>
    /\ sent = <<>>
    /\ reply = <<>>
    /\ outcome = "none"
    /\ report = NoReport

Leave(how) == phase' = "done" /\ outcome' = how

MakeCommand ==
    /\ phase = "idle"
    /\ expected' \in Expectations
    /\ command' \in Commands
    /\ phase' = "transmit"
    /\ UNCHANGED <<given, useLe, sent, reply, outcome, report>>

ParseCommand ==
    /\ phase = "idle"
    /\ expected' \in Expectations
    /\ given' \in CommandBytes
    /\ useLe' \in BOOLEAN
    /\ IF FromBytesThrows(given', useLe')
       THEN Leave("invalid_argument") /\ UNCHANGED command
       ELSE /\ command' = FromBytes(given', useLe')
            /\ phase' = "transmit"
            /\ UNCHANGED outcome
    /\ UNCHANGED <<sent, reply, report>>

Transmit ==
    /\ phase = "transmit"
    /\ IF ToBytesThrows(command)
       THEN Leave("invalid_argument") /\ UNCHANGED sent
       ELSE sent' = ToBytes(command) /\ phase' = "card" /\ UNCHANGED outcome
    /\ UNCHANGED <<given, useLe, command, expected, reply, report>>

\* External: a card sends no more than it was asked for and its status.
CardAnswers ==
    /\ phase = "card"
    /\ reply' \in {bytes \in Replies : Len(bytes) <= CardReads(sent).ne + 2}
    /\ phase' = "response"
    /\ UNCHANGED <<given, useLe, command, expected, sent, outcome, report>>

\* Two digits for every byte, the first of them 0 if need be.
HexWithoutFill(bytes) ==
    SelectSeq([k \in 1..(2 * Len(bytes)) |->
                  IF k % 2 = 0 THEN bytes[k \div 2] % 16
                  ELSE IF bytes[(k + 1) \div 2] < 16 THEN -1
                  ELSE bytes[(k + 1) \div 2] \div 16],
              LAMBDA digit : digit >= 0)
bytes2hexstr(bytes) ==
    [k \in 1..(2 * Len(bytes)) |->
        IF k % 2 = 0 THEN bytes[k \div 2] % 16 ELSE bytes[(k + 1) \div 2] \div 16]

UnexpectedResponseError(response) ==
    <<bytes2hexstr(ToBytes(command)), bytes2hexstr(expected),
      bytes2hexstr(ResponseToBytes(response))>>

StatusAsExpected(response) ==
    /\ Len(expected) >= 2
    /\ SubSeq(expected, Len(expected) - 1, Len(expected)) = <<response.sw1, response.sw2>>
AsExpected(response) == ResponseToBytes(response) = expected

Compare ==
    LET response == ResponseFromBytes(reply) IN
    /\ phase = "response"
    /\ IF ResponseFromBytesThrows(reply)
       THEN Leave("invalid_argument") /\ UNCHANGED report
       ELSE \/ /\ ~LetThrough(response)
               /\ Leave("Error")
               /\ UNCHANGED report
            \/ /\ LetThrough(response)
               /\ AsExpected(response)
               /\ Leave("returned")
               /\ UNCHANGED report
            \/ /\ LetThrough(response)
               /\ ~AsExpected(response)
               /\ Leave("UnexpectedResponseError")
               /\ report' = UnexpectedResponseError(response)
    /\ UNCHANGED <<given, useLe, command, expected, sent, reply>>

Next == MakeCommand \/ ParseCommand \/ Transmit \/ CardAnswers \/ Compare

Spec == Init /\ [][Next]_vars

-----------------------------------------------------------------------------
\* What a card reads in the bytes it is sent is the command that was meant: no
\* length that fits in a field is taken for another, a command without data or
\* without Le is not taken for one with it, and what cannot be told to a card is
\* never sent (pcsc-cpp.hpp:183-204).
CardUnderstands ==
    phase \in {"card", "response"} => CardReads(sent) = Meaning(command)

\* A well-formed command that a caller has as bytes, and parses with useLe if
\* and only if it has an Le, reaches the card as the same bytes, but for
\* exceptions; and there are none (pcsc-cpp.hpp:145-204, utils.cpp:89-94).
BytesReachCard ==
    given # <<>> /\ CardReads(given) # Malformed /\ useLe = HasLe(given) =>
       /\ sent # <<>> => sent = given
       /\ phase = "done" => sent = given

\* Returned means that the card sent exactly the bytes that were expected, and
\* if it did that with a status that is let through there is no exception; with
\* the default expectation it means success (pcsc-cpp.hpp:88-112, 306-308,
\* utils.cpp:75, 96-104).
ReturnedMeansExpected ==
    phase = "done" /\ reply # <<>> =>
       /\ outcome = "returned" => reply = expected
       /\ outcome = "returned" /\ expected = APDU_RESPONSE_OK =>
             isOK(ResponseFromBytes(reply))
       /\ reply = expected /\ Len(reply) >= 2 =>
             outcome = "returned" \/ ~LetThrough(ResponseFromBytes(reply))

\* The exception shows what was wrong: its hex digits can be read back as the
\* bytes that were expected and those that came, and these differ
\* (utils.cpp:54-68, 77-87, 100-103).
Unhex(digits) ==
    [k \in 1..(Len(digits) \div 2) |-> 16 * digits[2 * k - 1] + digits[2 * k]]

ErrorShowsDifference ==
    outcome = "UnexpectedResponseError" =>
       /\ Unhex(report[1]) = sent
       /\ Unhex(report[2]) = expected
       /\ Unhex(report[3]) = reply
       /\ report[2] # report[3]
=============================================================================
