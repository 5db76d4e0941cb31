---------------------------- MODULE ReaderListing ----------------------------
(***************************************************************************)
(* listReaders() while readers are plugged in and out and cards come and   *)
(* go.  The function asks the resource manager three times, for the length *)
(* of the list of names, for the list, and for the states of the readers   *)
(* in it, and the world may change between any two of the calls.           *)
(*                                                                         *)
(* The resource manager is external.  Of the names only their lengths are  *)
(* kept, since they decide whether a list fits in a buffer.  The caller    *)
(* lists the readers again and again, as one that waits for a card does.   *)
(***************************************************************************)
EXTENDS Integers, Sequences, FiniteSets, SequencesExt, Errors, ReaderStatus

CONSTANTS
    Readers,        \* readers that may be plugged in
    NameLength,     \* characters of a reader's name, its \0 included
    Cards,          \* cards, told apart by their ATRs
    Null,           \* no card; also the empty name that ends a list
    Reports,        \* what the resource manager may say of a reader's state
    MaxEvents       \* bound: events behind the library's back

ASSUME ListingAssumption ==
    /\ IsFiniteSet(Readers)
    /\ NameLength \in [Readers -> Nat \ {0, 1}]
    /\ Null \notin Readers \cup Cards
    /\ Reports \subseteq {report \in Report : SaysOneOf(report)}
    /\ MaxEvents \in Nat

VARIABLES
    plugged,        \* external: the readers that are there
    card,           \* external: what is in each of them
    serviceRuns,    \* external
    contextValid,   \* external: the service knows the listing's Context
    events,
    phase,          \* of listReaders()
    bufferLength,
    readerNames,    \* the buffer: names, then at least one empty name
    outcome,        \* of the last listing: "none", "returned" or an exception
    readers,        \* what it returned
    seenPlugged,    \* history: what was plugged in since the listing began
    seenCards,      \* history: what was in each reader since then
    seenChanges     \* history: what kinds of trouble there were since then

worldVars == <<plugged, card, serviceRuns, contextValid, events>>
callVars  == <<phase, bufferLength, readerNames, outcome, readers>>
seenVars  == <<seenPlugged, seenCards, seenChanges>>
vars      == <<worldVars, callVars, seenVars>>

\* A reader came, or went; the service was down; a Context had a null handle.
Changes == {"in", "out", "down", "null"}

Reader == [name : Readers, cardAtr : Cards \cup {Null}, status : Flags!FlagSets]

TypeOK ==
    /\ plugged \subseteq Readers
    /\ card \in [Readers -> Cards \cup {Null}]
    /\ serviceRuns \in BOOLEAN
    /\ contextValid \in BOOLEAN
    /\ events \in 0..MaxEvents
    /\ phase \in {"idle", "sizing", "filling", "states"}
    /\ bufferLength \in Nat
    /\ readerNames \in Seq(Readers \cup {Null})
    /\ outcome \in {"none", "returned"} \cup ScardErrors
    /\ readers \in Seq(Reader)
    /\ seenPlugged \subseteq SUBSET Readers
    /\ seenCards \in [Readers -> SUBSET (Cards \cup {Null})]
    /\ seenChanges \subseteq Changes

Init ==
    /\ plugged \in SUBSET Readers
    /\ card = [r \in Readers |-> Null]
    /\ serviceRuns = TRUE
    /\ contextValid = FALSE
    /\ events = 0
    /\ phase = "idle"
    /\ bufferLength = 0
    /\ readerNames = <<>>
    /\ outcome = "none"
    /\ readers = <<>>
    /\ seenPlugged = {}
    /\ seenCards = [r \in Readers |-> {}]
    /\ seenChanges = {}

-----------------------------------------------------------------------------
(* The resource manager                                                    *)

\* A list of names needs room for each of them and for the \0 that ends it.
RoomFor(names) == 1 + FoldSet(LAMBDA r, n : n + NameLength[r], 0, names)

ServiceDown == {"SCARD_E_NO_SERVICE", "SCARD_E_SERVICE_STOPPED"}

\* A service that was restarted does not know the contexts of the one before;
\* the connection of a context to its service may be broken as well.
Refusals ==
    {"SCARD_F_COMM_ERROR"} \cup
    (IF serviceRuns THEN {"SCARD_E_INVALID_HANDLE"} ELSE ServiceDown)

\* SCardListReaders without readers fails, or gives a list without names.
NamesResults ==
    IF ~contextValid THEN Refusals
    ELSE {"SCARD_S_SUCCESS"} \cup
         (IF plugged = {} THEN {"SCARD_E_NO_READERS_AVAILABLE"} ELSE {})

\* The same with a buffer of length characters.
ListResults(length) ==
    IF contextValid /\ RoomFor(plugged) > length
    THEN {"SCARD_E_INSUFFICIENT_BUFFER"}
    ELSE NamesResults

\* SCardGetStatusChange for names of which some may be gone.
StateResults(names) ==
    IF ~contextValid THEN Refusals
    ELSE {"SCARD_S_SUCCESS"} \cup
         (IF names \subseteq plugged THEN {}
          ELSE {"SCARD_E_UNKNOWN_READER", "SCARD_E_READER_UNAVAILABLE"})

Describes(report, r) ==
    (IF r \notin plugged THEN "UNKNOWN"
     ELSE IF card[r] = Null THEN "EMPTY" ELSE "PRESENT") \in report.states
Atr(r) == IF r \in plugged THEN card[r] ELSE Null

\* The history takes note of the world a step leads to.
Watch(changes) ==
    /\ seenPlugged' = seenPlugged \cup {plugged'}
    /\ seenCards' = [r \in Readers |-> seenCards[r] \cup {card'[r]}]
    /\ seenChanges' = seenChanges \cup changes

Event(changes) ==
    /\ events < MaxEvents
    /\ events' = events + 1
    /\ UNCHANGED callVars
    /\ Watch(changes)

PlugIn(r) ==
    /\ r \notin plugged
    /\ plugged' = plugged \cup {r}
    /\ UNCHANGED <<card, serviceRuns, contextValid>>
    /\ Event({"in"})

PlugOut(r) ==
    /\ r \in plugged
    /\ plugged' = plugged \ {r}
    /\ card' = [card EXCEPT ![r] = Null]
    /\ UNCHANGED <<serviceRuns, contextValid>>
    /\ Event({"out"})

ChangeCard(r, c) ==
    /\ r \in plugged
    /\ (card[r] = Null) # (c = Null)
    /\ card' = [card EXCEPT ![r] = c]
    /\ UNCHANGED <<plugged, serviceRuns, contextValid>>
    /\ Event({})

\* With the service go the contexts it knows; starting it does not bring them back.
ServiceStops ==
    /\ serviceRuns
    /\ serviceRuns' = FALSE
    /\ contextValid' = FALSE
    /\ UNCHANGED <<plugged, card>>
    /\ Event({"down"})

ServiceStarts ==
    /\ ~serviceRuns
    /\ serviceRuns' = TRUE
    /\ UNCHANGED <<plugged, card, contextValid>>
    /\ Event({})

WorldStep ==
    \/ ServiceStops
    \/ ServiceStarts
    \/ \E r \in Readers : \/ PlugIn(r)
                          \/ PlugOut(r)
                          \/ \E c \in Cards \cup {Null} : ChangeCard(r, c)

-----------------------------------------------------------------------------
(* listReaders()                                                           *)

\* No Reader keeps the Context.
Leave(how) ==
    /\ phase' = "idle"
    /\ outcome' = how
    /\ readers' = <<>>
    /\ contextValid' = FALSE

\* listReaders() catches one of the exceptions.
Fail(result) ==
    Leave(IF Exception(result) \in CaughtBy("ScardNoReadersError")
          THEN "returned" ELSE Exception(result))

\* A listing has a Context of its own, made before the handler is in place.
Established ==
    /\ serviceRuns
    /\ phase' = "sizing"
    /\ outcome' = "none"
    /\ readers' = <<>>
    /\ contextValid' = TRUE
    /\ seenChanges' = {}
    /\ UNCHANGED events

NotEstablished ==
    /\ ~serviceRuns
    /\ \E result \in ServiceDown : Leave(Exception(result))
    /\ seenChanges' = {"down"}
    /\ UNCHANGED events

\* Success, but the handle is null.
EstablishedNull ==
    /\ serviceRuns
    /\ events < MaxEvents
    /\ events' = events + 1
    /\ Leave("ScardError")
    /\ seenChanges' = {"null"}

BeginListing ==
    /\ phase = "idle"
    /\ Established \/ NotEstablished \/ EstablishedNull
    /\ seenPlugged' = {plugged}
    /\ seenCards' = [r \in Readers |-> {card[r]}]
    /\ UNCHANGED <<plugged, card, serviceRuns, bufferLength, readerNames>>

\* The length of the buffer is what the first call says.
KeepLength(length) == IF bufferLength = 0 THEN length ELSE bufferLength
OneShort(length)   == length - 1
Reserve(length)    == length

AskForLength ==
    /\ phase = "sizing"
    /\ \E result \in NamesResults :
          IF result = "SCARD_S_SUCCESS"
          THEN /\ bufferLength' = Reserve(RoomFor(plugged))
               /\ phase' = "filling"
               /\ UNCHANGED <<outcome, readers, contextValid>>
          ELSE Fail(result) /\ UNCHANGED bufferLength
    /\ UNCHANGED <<plugged, card, serviceRuns, events, readerNames, seenVars>>

\* The buffer is made of \0s: a shorter list leaves empty names at its end.
FillBuffer ==
    /\ phase = "filling"
    /\ \E result \in ListResults(bufferLength) :
          IF result = "SCARD_S_SUCCESS"
          THEN /\ \E names \in SetToSeqs(plugged) :
                     readerNames' = names \o
                        [i \in 1..(1 + bufferLength - RoomFor(plugged)) |-> Null]
               /\ phase' = "states"
               /\ UNCHANGED <<outcome, readers, contextValid>>
          ELSE Fail(result) /\ UNCHANGED readerNames
    /\ UNCHANGED <<plugged, card, serviceRuns, events, bufferLength, seenVars>>

\* getReaderNamePointerList(): the names up to the first empty one.
FirstEmpty(names)            == SelectInSeq(names, LAMBDA n : n = Null)
WholeBuffer(names)           == names
AllButTheLast(names)         == SubSeq(names, 1, FirstEmpty(names) - 2)
ReaderNamePointerList(names) == SubSeq(names, 1, FirstEmpty(names) - 1)

\* Each Reader is made of the entry that its own name was asked with.
FirstEntry(i) == 1
Entry(i)      == i

MakeReader(name, cardAtr, status) ==
    [name |-> name, cardAtr |-> cardAtr, status |-> status]

GetStates ==
    LET names == ReaderNamePointerList(readerNames) IN
    /\ phase = "states"
    /\ \/ names = <<>> /\ Leave("returned")
       \/ /\ names # <<>>
          /\ \E result \in StateResults(ToSet(names)) :
                IF result = "SCARD_S_SUCCESS"
                THEN /\ phase' = "idle"
                     /\ outcome' = "returned"
                     /\ \E reports \in [1..Len(names) -> Reports] :
                           /\ \A i \in 1..Len(names) : Describes(reports[i], names[i])
                           /\ readers' = [i \in 1..Len(names) |->
                                 MakeReader(names[i], Atr(names[Entry(i)]),
                                    FlagSetFromReaderState(
                                       DwEventState(reports[Entry(i)])))]
                     /\ UNCHANGED contextValid
                ELSE Fail(result)
    /\ UNCHANGED <<plugged, card, serviceRuns, events, bufferLength, readerNames, seenVars>>

ListReaders == BeginListing \/ AskForLength \/ FillBuffer \/ GetStates

Next == WorldStep \/ ListReaders

Spec == Init /\ [][Next]_vars

\* The caller goes on listing, and the resource manager answers.
FairSpec == Spec /\ WF_vars(ListReaders)

-----------------------------------------------------------------------------
Returned      == phase = "idle" /\ outcome = "returned"
NamesReturned == {readers[i].name : i \in DOMAIN readers}

\* A list that is not empty is a list that was true at one moment of the call,
\* each reader once, although it was put together from three answers
\* (listReaders.cpp:124-135, 142-153).
ListIsSnapshot ==
    Returned /\ readers # <<>> =>
       /\ NamesReturned \in seenPlugged
       /\ Len(readers) = Cardinality(NamesReturned)

\* The ATR of a Reader is that of a card that was in this very reader during
\* the call, and so is the card that makes it PRESENT (listReaders.cpp:117-122, 150-152).
AtrIsOfThisReader ==
    Returned => \A i \in DOMAIN readers :
       /\ readers[i].cardAtr \in seenCards[readers[i].name] \cup {Null}
       /\ IsCardInserted(readers[i].status) =>
             seenCards[readers[i].name] # {Null}

\* However a listing ends, there is a cause for it since it began: it says that
\* the service is not running only if it was not, throws a plain ScardError only
\* if readers came or went, or the Context was lost or null, and what it returns
\* is complete, but for the empty list that a reader which went may leave
\* (Context.hpp:40-45, SCardCall.hpp:52-88, listReaders.cpp:124-135, 142-156).
OutcomeHasCause ==
    phase = "idle" /\ outcome # "none" =>
       \/ outcome = "ScardServiceNotRunningError" /\ "down" \in seenChanges
       \/ outcome = "ScardError" /\ seenChanges # {}
       \/ outcome = "returned" /\ NamesReturned \in seenPlugged
       \/ outcome = "returned" /\ readers = <<>> /\ "out" \in seenChanges

\* The history goes with the call, and never loses what is there now; without a
\* coming or going the readers that were seen are those that are there.
SeenInv ==
    IF seenPlugged = {} THEN phase = "idle" /\ outcome = "none"
    ELSE /\ plugged \in seenPlugged
         /\ \A r \in Readers : card[r] \in seenCards[r]
         /\ "in" \notin seenChanges => \A names \in seenPlugged : plugged \subseteq names
         /\ "out" \notin seenChanges => \A names \in seenPlugged : names \subseteq plugged

\* The Context of a listing is lost only with the service.
ContextInv ==
    /\ contextValid => serviceRuns
    /\ phase # "idle" /\ ~contextValid => "down" \in seenChanges

\* The buffer has the length of a list that was true during the call, and its
\* names are such a list.
CallInv ==
    CASE phase = "filling" ->
            \E names \in seenPlugged : bufferLength = RoomFor(names)
      [] phase = "states"  ->
            \E names \in seenPlugged :
               ReaderNamePointerList(readerNames) \in SetToSeqs(names)
      [] OTHER -> TRUE

\* Every status is that of a report of the resource manager, true at a moment of
\* the call.
WasTrue(report, r) ==
    /\ "PRESENT" \in report.states => seenCards[r] # {Null}
    /\ "EMPTY" \in report.states   => Null \in seenCards[r]
    /\ "UNKNOWN" \in report.states => \E names \in seenPlugged : r \notin names
ReportsInv ==
    Returned => \A i \in DOMAIN readers :
       \E report \in Reports :
          /\ readers[i].status = FlagSetFromReaderState(DwEventState(report))
          /\ WasTrue(report, readers[i].name)

\* What every step preserves: the types, what a call in progress knows of the
\* readers (listReaders.cpp:45-83, 124-135), and what its list says when it is done.
ListingInv ==
    /\ TypeOK
    /\ SeenInv
    /\ ContextInv
    /\ CallInv
    /\ ListIsSnapshot
    /\ AtrIsOfThisReader
    /\ OutcomeHasCause
    /\ ReportsInv

\* A caller that goes on listing has all the readers that are there in the end,
\* however often the list failed while they changed (listReaders.cpp:142-156).
CatchesUp ==
    <>[]serviceRuns => []<>(Returned /\ NamesReturned = plugged)

\* The text of a Reader's status can be read back as what the resource manager
\* said of this reader, no more and no less, whatever the event count that came
\* with it and wherever its bits are; and that was so during the call
\* (Reader.cpp:37-52, listReaders.cpp:86-122).
StatusStringTells ==
    Returned => \A i \in DOMAIN readers :
       \E report \in Reports :
          /\ NamedIn(StatusString(readers[i].status)) = report.states
          /\ WasTrue(report, readers[i].name)
=============================================================================
