------------------------------- MODULE PinPad -------------------------------
(***************************************************************************)
(* Verifying a PIN that the user types on the reader: the features that a  *)
(* SmartCard reads from the reader when it is made, and transmitCTL().     *)
(*                                                                         *)
(* A reader takes the PIN in one control call, VERIFY_PIN_DIRECT, or in    *)
(* two: VERIFY_PIN_START begins the entry, and VERIFY_PIN_FINISH waits for *)
(* its end and has the card's answer.  In between, and after a call that   *)
(* failed, reader, user and card go on by themselves; they are external.   *)
(***************************************************************************)
EXTENDS Integers, Sequences, FiniteSets, SequencesExt, Apdu, Errors

CONSTANTS
    Announcements,  \* lists of features that readers may have
    Commands,       \* the VERIFY commands of callers
    MinLengths,     \* minlen of transmitCTL()
    Languages,      \* lang of transmitCTL()
    MaxCalls,       \* bound: calls of transmitCTL()
    MaxFaults       \* bound: control calls that fail

START  == 1
FINISH == 2
DIRECT == 6
DRIVER_FEATURES == 1..19

\* uint16_t
LangId == 0..65535

\* FINISH belongs to START; a reader may have START and no FINISH.
ASSUME PinPadAssumption ==
    /\ \A tags \in Announcements :
          /\ tags \in Seq(DRIVER_FEATURES)
          /\ FINISH \in ToSet(tags) => START \in ToSet(tags)
    /\ Commands \subseteq CommandApdu
    /\ MinLengths \subseteq Byte
    /\ Languages \subseteq LangId
    /\ {MaxCalls, MaxFaults} \subseteq Nat

VARIABLES
    card,                   \* SmartCard::card: "null" or "connected"
    noPinPad,               \* SMARTCARDPP_NOPINPAD in the environment
    features,               \* CardImpl::features
    transactionInProgress,
    phase,                  \* of transmitCTL(): the control call it is at
    request,                \* what the reader was handed
    response,               \* responseBytes, and whose call's answer they are
    outcome,                \* of the last call
    entry,                  \* external: PIN entry on the reader
    calls, faults,
    announced,              \* history: the features that were announced
    asked,                  \* history: the arguments of the call
    heard                   \* history: VERIFYs the card heard for each call

cardVars == <<card, noPinPad, features, announced>>
callVars == <<phase, request, response, outcome, calls, asked>>
padVars  == <<entry, heard>>
vars     == <<cardVars, transactionInProgress, callVars, padVars, faults>>

Answer   == [bytes : Seq(Byte), call : 0..MaxCalls]
NoAnswer == [bytes |-> <<>>, call |-> 0]
Asked    == [minlen : Byte, lang : LangId, bytes : Seq(Byte)]
Word     == [1..4 -> Byte]

TypeOK ==
    /\ card \in {"null", "connected"}
    /\ noPinPad \in BOOLEAN
    /\ DOMAIN features \subseteq DRIVER_FEATURES
    /\ \A tag \in DOMAIN features : features[tag] \in Word
    /\ announced \subseteq DRIVER_FEATURES
    /\ transactionInProgress \in BOOLEAN
    /\ phase \in {"idle", "control", "finish", "respond"}
    /\ request \in Seq(Byte)
    /\ response \in Answer
    /\ outcome \in ScardErrors \cup {"none", "returned", "logic_error", "Error",
                                     "invalid_argument", "out_of_range"}
    /\ entry \in [state : {"ready", "typing", "ended", "aborted"}, answer : Answer]
    /\ calls \in 0..MaxCalls
    /\ faults \in 0..MaxFaults
    /\ asked \in Asked
    /\ heard \in [0..MaxCalls -> Nat]

Ready == [state |-> "ready", answer |-> NoAnswer]

Init ==
    /\ card = "null"
    /\ noPinPad \in BOOLEAN
    /\ features = <<>>
    /\ announced = {}
    /\ transactionInProgress = FALSE
    /\ phase = "idle"
    /\ request = <<>>
    /\ response = NoAnswer
    /\ outcome = "none"
    /\ entry = Ready
    /\ calls = 0
    /\ faults = 0
    /\ asked = [minlen |-> 0, lang |-> 0, bytes |-> <<>>]
    /\ heard = [n \in 0..MaxCalls |-> 0]

-----------------------------------------------------------------------------
(* The features of the reader.  A 32-bit word is written here as its bytes, *)
(* the least significant first.                                             *)

\* External: what a control call may fail with.
Failures == {"SCARD_E_NOT_TRANSACTED", "SCARD_W_REMOVED_CARD", "SCARD_E_NOT_READY"}

\* External: a feature's control code, and the list of them, tag, length and
\* value with the most significant byte first.
ControlCode(tag) == <<tag, 0, 51, 66>>
Announce(tags) ==
    FlattenSeq([i \in DOMAIN tags |->
                   <<tags[i], 4>> \o Reverse(ControlCode(tags[i]))])

\* Of a little-endian host.
NoSwap(word) == word
ntohl(word)  == Reverse(word)

ShortOfNext(p, length) == p + 1 + length
NextTlv(p, length)     == p + 2 + length

\* The array of the answer is zero after its end.
ByteOf(answer, p) == IF p \in DOMAIN answer THEN answer[p] ELSE 0

\* Four bytes of the value, of which length are there.
Value(answer, p, length) ==
    ntohl([i \in 1..4 |-> IF i <= length THEN ByteOf(answer, p + 1 + i) ELSE 0])

\* A tag that comes again later replaces the value it had.
Earlier(tag, value, later) ==
    [t \in DOMAIN later \cup {tag} |-> IF t \in DOMAIN later THEN later[t] ELSE value]

\* What is found from each place of the answer on.
FeaturesFrom(answer) ==
    LET From[p \in Nat] ==
          IF p > Len(answer) THEN <<>>
          ELSE LET length == ByteOf(answer, p + 1) IN
               Earlier(ByteOf(answer, p), Value(answer, p, length),
                       From[NextTlv(p, length)])
    IN From

Features(answer) == FeaturesFrom(answer)[1]

\* SmartCard's constructor.  An error of the request is ignored.
ConnectCard ==
    /\ card = "null"
    /\ card' = "connected"
    /\ \/ \E tags \in Announcements :
             /\ features' = Features(Announce(tags))
             /\ announced' = ToSet(tags)
             /\ UNCHANGED faults
       \/ /\ faults < MaxFaults
          /\ faults' = faults + 1
          /\ \A result \in Failures : Exception(result) \in CaughtBy("ScardError")
          /\ UNCHANGED <<features, announced>>
    /\ UNCHANGED <<noPinPad, transactionInProgress, callVars, padVars>>

Has(tag) == tag \in DOMAIN features

HasAnyFeature   == ~noPinPad /\ DOMAIN features # {}
HasPinPad       == ~noPinPad /\ (Has(START) \/ Has(DIRECT))
readerHasPinPad == card # "null" /\ HasPinPad

\* A guard is made or destroyed; the caller has one at most.
ToggleTransaction ==
    /\ card = "connected"
    /\ phase = "idle"
    /\ transactionInProgress' = ~transactionInProgress
    /\ UNCHANGED <<cardVars, callVars, padVars, faults>>

-----------------------------------------------------------------------------
(* transmitCTL()                                                           *)

PIN_PAD_PIN_ENTRY_TIMEOUT == 90
FormatASCII       == 2      \* left-aligned; the offsets and sizes are all zero
ValidOnKeyPressed == 2
CCIDDefaultInvitationMessage == 255

\* The structure has no padding and lies in memory as a little-endian host
\* stores it; the command follows.
Swapped16(n) == <<n \div 256, n % 256>>
Little16(n)  == <<n % 256, n \div 256>>
Little32(n)  == Little16(n % 65536) \o Little16(n \div 65536)

PIN_VERIFY_STRUCTURE(wPINMaxExtraDigit, wLangId, ulDataLength) ==
    <<PIN_PAD_PIN_ENTRY_TIMEOUT, PIN_PAD_PIN_ENTRY_TIMEOUT, FormatASCII, 0, 0>>
    \o Little16(wPINMaxExtraDigit)
    \o <<ValidOnKeyPressed, CCIDDefaultInvitationMessage>>
    \o Little16(wLangId) \o <<0, 0, 0, 0>> \o Little32(ulDataLength)

Request(minlen, lang, bytes) ==
    PIN_VERIFY_STRUCTURE(minlen * 256 + 12, lang, Len(bytes)) \o bytes

Leave(how) == phase' = "idle" /\ outcome' = how

\* REQUIRE_NON_NULL
IsNull == card = "null"

\* What stands between the call and its first control call.
Refusal(command) ==
    IF IsNull \/ ~transactionInProgress THEN "logic_error"
    ELSE IF ToBytesThrows(command) THEN "invalid_argument"
    ELSE IF ~Has(START) /\ ~Has(DIRECT) THEN "out_of_range"
    ELSE "none"

TransmitCTL ==
    /\ phase = "idle"
    /\ calls < MaxCalls
    /\ calls' = calls + 1
    /\ \E command \in Commands, minlen \in MinLengths, lang \in Languages :
          IF Refusal(command) = "none"
          THEN LET bytes == ToBytes(command) IN
               /\ phase' = "control"
               /\ request' = Request(minlen, lang, bytes)
               /\ asked' = [minlen |-> minlen, lang |-> lang, bytes |-> bytes]
               /\ outcome' = "none"
          ELSE Leave(Refusal(command)) /\ UNCHANGED <<request, asked>>
    /\ response' = NoAnswer
    /\ UNCHANGED <<cardVars, transactionInProgress, padVars, faults>>

\* VERIFY_PIN_START is preferred.
EntryControl == features[IF Has(START) THEN START ELSE DIRECT]

ProceedToResponse == phase' = "respond" /\ UNCHANGED outcome
Proceed ==
    /\ phase' = IF Has(FINISH) THEN "finish" ELSE "respond"
    /\ UNCHANGED outcome

\* A control call that fails throws, and is neither passed over nor repeated.
IgnoreFailure(result) == Proceed
TryAgain(result)      == UNCHANGED <<phase, outcome>>
ControlFailed(result) == Leave(Exception(result))
FinishFailed(result)  == Leave(Exception(result))

-----------------------------------------------------------------------------
(* External: what the user's entry ends with, from the card for a right, a  *)
(* wrong or a refused PIN, or from the reader when the user or its timer    *)
(* gave up.                                                                 *)

CardAnswers   == {<<144, 0>>, <<99, 194>>, <<110, 0>>}
ReaderAnswers == {<<100, 1>>, <<100, 0>>}

CardHears(n, bytes) ==
    heard' = [heard EXCEPT ![n] = IF bytes \in CardAnswers THEN @ + 1 ELSE @]

Fault == faults < MaxFaults /\ faults' = faults + 1

\* A reader that is at an entry still may begin another or refuse to.
StartEntry ==
    entry' = [state |-> "typing", answer |-> [bytes |-> <<>>, call |-> calls]]

EntryEnds ==
    /\ entry.state = "typing"
    /\ \E bytes \in CardAnswers \cup ReaderAnswers :
          /\ entry' = [entry EXCEPT !.state = "ended", !.answer.bytes = bytes]
          /\ CardHears(entry.answer.call, bytes)
    /\ UNCHANGED <<cardVars, transactionInProgress, callVars, faults>>

\* The reader gives the entry up, as when the card is removed.
EntryAborts ==
    /\ entry.state = "typing"
    /\ entry' = [entry EXCEPT !.state = "aborted"]
    /\ UNCHANGED <<cardVars, transactionInProgress, callVars, heard, faults>>

-----------------------------------------------------------------------------
BeginEntry ==
    /\ phase = "control"
    /\ EntryControl = ControlCode(START)
    /\ StartEntry
    /\ Proceed
    /\ UNCHANGED <<response, heard, faults>>

VerifyDirectly ==
    /\ phase = "control"
    /\ EntryControl = ControlCode(DIRECT)
    /\ \E bytes \in CardAnswers \cup ReaderAnswers :
          /\ response' = [bytes |-> bytes, call |-> calls]
          /\ CardHears(calls, bytes)
    /\ Proceed
    /\ UNCHANGED <<entry, faults>>

\* The reader refuses, or the call fails before or after the reader acted.
ControlFails ==
    /\ phase = "control"
    /\ \E result \in Failures : ControlFailed(result)
    /\ \/ /\ \/ entry.state # "ready"
             \/ EntryControl \notin {ControlCode(START), ControlCode(DIRECT)}
          /\ UNCHANGED <<padVars, faults>>
       \/ Fault /\ UNCHANGED padVars
       \/ Fault /\ EntryControl = ControlCode(START) /\ StartEntry /\ UNCHANGED heard
       \/ /\ Fault
          /\ EntryControl = ControlCode(DIRECT)
          /\ \E bytes \in CardAnswers : CardHears(calls, bytes)
          /\ UNCHANGED entry
    /\ UNCHANGED response

\* FINISH waits while the user types.
FinishEntry ==
    /\ phase = "finish"
    /\ entry.state = "ended"
    /\ response' = entry.answer
    /\ entry' = Ready
    /\ phase' = "respond"
    /\ UNCHANGED <<outcome, heard, faults>>

FinishFails ==
    /\ phase = "finish"
    /\ \E result \in Failures : FinishFailed(result)
    /\ \/ entry.state \in {"ready", "aborted"} /\ entry' = Ready /\ UNCHANGED faults
       \/ Fault /\ UNCHANGED entry
       \/ Fault /\ entry.state = "ended" /\ entry' = Ready
    /\ UNCHANGED <<response, heard>>

\* toResponse(), with no more than the status to give.
Respond ==
    /\ phase = "respond"
    /\ Leave(IF ResponseFromBytesThrows(response.bytes) THEN "invalid_argument"
             ELSE IF LetThrough(ResponseFromBytes(response.bytes))
                  THEN "returned" ELSE "Error")
    /\ UNCHANGED <<response, padVars, faults>>

CallStep ==
    /\ BeginEntry \/ VerifyDirectly \/ ControlFails \/ FinishEntry \/ FinishFails
       \/ Respond
    /\ UNCHANGED <<cardVars, transactionInProgress, request, calls, asked>>

Next ==
    \/ ConnectCard
    \/ ToggleTransaction
    \/ TransmitCTL
    \/ CallStep
    \/ EntryEnds
    \/ EntryAborts

Spec == Init /\ [][Next]_vars

\* Control calls come back, and the reader's timer ends every entry.
FairSpec == Spec /\ WF_vars(CallStep) /\ WF_vars(EntryEnds \/ EntryAborts)

-----------------------------------------------------------------------------
\* What a SmartCard thinks its reader can do, and by which control code, is what
\* the reader said, in whatever order (SmartCard.cpp:86-100).
FeaturesAsAnnounced ==
    features = [tag \in announced |-> ControlCode(tag)]

\* readerHasPinPad() says yes only if transmitCTL() has a way to ask for a PIN,
\* and no only if it has none or the environment forbids it
\* (SmartCard.cpp:115-121, 163-165, 278-281).
PinPadMeansEntry ==
    /\ readerHasPinPad => outcome # "out_of_range"
    /\ phase # "idle" => readerHasPinPad \/ noPinPad

\* The reader finds in the request, at the offsets of the PC/SC specification,
\* the PIN lengths, the timers, the language and the command that were asked
\* for (SmartCard.cpp:145-161, comp_winscard.hpp:118-134).
RequestReadsAsMeant ==
    LET At(k)     == request[k + 1]
        Number(k) == At(k) + 256 * At(k + 1)
    IN
    phase = "control" =>
       /\ At(0) = PIN_PAD_PIN_ENTRY_TIMEOUT /\ At(1) = At(0)
       /\ At(6) = asked.minlen /\ At(5) = 12
       /\ Number(9) = asked.lang
       /\ Number(15) = Len(request) - 19
       /\ SubSeq(request, 20, 19 + Number(15)) = asked.bytes

\* The user's PIN costs at most one try, whatever fails: the card hears one
\* VERIFY for one call of transmitCTL() (SmartCard.cpp:163-176).
OneTryPerCall == \A n \in 1..MaxCalls : heard[n] <= 1

\* An answer that is returned is the end of the entry that this very call began,
\* not of one that an earlier call left behind (SmartCard.cpp:168-178).
AnswerIsOfThisCall ==
    outcome = "returned" => response.call = calls

\* With a reader that has all it takes, and as long as no control call fails,
\* the call does not return before the entry it began is over, and tells of
\* every VERIFY the card heard (SmartCard.cpp:163-178).
EntryIsReported ==
    phase = "idle" /\ faults = 0 /\ (Has(START) => Has(FINISH)) =>
       /\ entry = Ready
       /\ heard[calls] > 0 => outcome \in {"returned", "Error"}

\* What a SmartCard knows of its reader, and that a call gets to a control call
\* only with a way to ask for the PIN.
CardInv ==
    /\ FeaturesAsAnnounced
    /\ FINISH \in announced => START \in announced
    /\ card = "null" => announced = {}
    /\ phase # "idle" => /\ card = "connected"
                         /\ Has(START) \/ Has(DIRECT)
                         /\ outcome = "none"
    /\ outcome = "out_of_range" => card = "connected" /\ ~Has(START) /\ ~Has(DIRECT)

\* An entry that an earlier call left behind is told apart by its call, and the
\* card has heard nothing of an entry that goes on.
EntryInv ==
    /\ entry.answer.call <= calls
    /\ phase = "control" => entry.answer.call < calls /\ heard[calls] = 0
    /\ phase = "finish" => entry.answer.call = calls
    /\ entry.state = "typing" => heard[entry.answer.call] = 0
    /\ \A n \in 0..MaxCalls : heard[n] <= 1 /\ (n > calls => heard[n] = 0)

\* Without FINISH a call that began an entry has no answer to take for one.
ResponseInv ==
    /\ phase = "control" => response = NoAnswer
    /\ phase = "respond" => response.call = calls \/ response = NoAnswer
    /\ outcome = "returned" => response.call = calls

\* As long as no control call fails there is an entry only while FINISH waits.
QuietInv ==
    faults = 0 /\ (Has(START) => Has(FINISH)) =>
       /\ phase # "finish" => entry = Ready
       /\ phase = "finish" =>
             /\ entry.state # "ready"
             /\ entry.state = "ended" => Len(entry.answer.bytes) = 2
             /\ entry.state # "ended" => heard[calls] = 0
       /\ phase = "respond" => Len(response.bytes) = 2
       /\ phase = "idle" /\ heard[calls] > 0 => outcome \in {"returned", "Error"}

RequestInv ==
    phase = "control" =>
       /\ request = Request(asked.minlen, asked.lang, asked.bytes)
       /\ Len(asked.bytes) <= 6 + MaxCommandData

\* What holds at every step of calls that overlap with entries of their own and
\* of earlier calls (SmartCard.cpp:86-100, 142-178).
PadInv == TypeOK /\ CardInv /\ EntryInv /\ ResponseInv /\ QuietInv /\ RequestInv

\* transmitCTL() returns, for the reader's timer ends an entry that the user
\* does not (SmartCard.cpp:149-150, 168-178).
CallReturns == phase # "idle" ~> phase = "idle"
=============================================================================
