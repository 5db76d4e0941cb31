---------------------------- MODULE ReaderStatus ----------------------------
(***************************************************************************)
(* The status of a Reader: from the 32-bit word of the resource manager,   *)
(* whose high half counts events, to a flag_set, and from there to text.   *)
(***************************************************************************)
EXTENDS Integers, Sequences, SequencesExt

-----------------------------------------------------------------------------
(* External: dwEventState as winscard.h and the resource manager have it.  *)

SCARD_STATE ==
    [IGNORE |-> 1, CHANGED |-> 2, UNKNOWN |-> 4, UNAVAILABLE |-> 8, EMPTY |-> 16,
     PRESENT |-> 32, ATRMATCH |-> 64, EXCLUSIVE |-> 128, INUSE |-> 256, MUTE |-> 512,
     UNPOWERED |-> 1024]
SCardStates == DOMAIN SCARD_STATE

\* What the resource manager has to say of a reader: the states it is in, one
\* of which tells what is in the reader, and a count of events.
Occupancies == {"UNKNOWN", "EMPTY", "PRESENT"}
EventCounts == 0..65535
Report      == [states : SUBSET SCardStates, count : EventCounts]
SaysOneOf(report) ==
    \E state \in Occupancies : report.states \cap Occupancies = {state}

DwEventState(report) ==
    LET Bit(state) == IF state \in report.states THEN SCARD_STATE[state] ELSE 0 IN
    Bit("IGNORE") + Bit("CHANGED") + Bit("UNKNOWN") + Bit("UNAVAILABLE") + Bit("EMPTY")
    + Bit("PRESENT") + Bit("ATRMATCH") + Bit("EXCLUSIVE") + Bit("INUSE") + Bit("MUTE")
    + Bit("UNPOWERED") + 65536 * report.count

-----------------------------------------------------------------------------
(* What the library makes of it                                            *)

\* The enumerators of Reader::Status, in their order.  UNAWARE comes first: the
\* number of each of the others is one more than that of the bit of its state.
Status == <<"UNAWARE", "IGNORE", "CHANGED", "UNKNOWN", "UNAVAILABLE", "EMPTY",
            "PRESENT", "ATRMATCH", "EXCLUSIVE", "INUSE", "MUTE", "UNPOWERED">>
Statuses == ToSet(Status)

Flags == INSTANCE FlagSet WITH Enum <- Statuses

\* The enumerator that the bit of each state stands for.
BitsAreEnumerators ==
    [state \in SCardStates |->
        Status[CHOOSE k \in 1..11 : SCARD_STATE[state] = 2 ^ (k - 1)]]
READER_STATUS_MAP ==
    [IGNORE |-> "IGNORE", CHANGED |-> "CHANGED", UNKNOWN |-> "UNKNOWN",
     UNAVAILABLE |-> "UNAVAILABLE", EMPTY |-> "EMPTY", PRESENT |-> "PRESENT",
     ATRMATCH |-> "ATRMATCH", EXCLUSIVE |-> "EXCLUSIVE", INUSE |-> "INUSE",
     MUTE |-> "MUTE", UNPOWERED |-> "UNPOWERED"]

Has(word, state) == (word \div SCARD_STATE[state]) % 2 = 1

\* UNAWARE only if nothing at all is in the word, not even an event count.
FlagSetFromReaderState(word) ==
    IF word = 0 THEN Flags!FlagSetOf("UNAWARE")
    ELSE Flags!Set(Flags!NoFlags,
                   {READER_STATUS_MAP[state] : state \in
                       {s \in DOMAIN READER_STATUS_MAP : Has(word, s)}})

IsCardInserted(status) == status["PRESENT"]

\* The names of the flags that are set, from the first enumerator to the last,
\* with commas between them.
Comma == ","
WithComma(text, name) ==
    IF text = <<>> THEN <<name>> ELSE Append(Append(text, Comma), name)
StatusString(status) ==
    FoldLeft(LAMBDA text, e : IF status[e] THEN WithComma(text, e) ELSE text,
             <<>>, Status)

\* What a reader of the text takes it for: names at odd places, commas between.
NamedIn(text) == {text[2 * i - 1] : i \in 1..((Len(text) + 1) \div 2)}
=============================================================================
