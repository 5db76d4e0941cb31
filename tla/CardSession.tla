----------------------------- MODULE CardSession -----------------------------
(***************************************************************************)
(* Programs that use smart cards through libpcsc-cpp: they list the        *)
(* readers, connect to a card, take transactions on it and transmit        *)
(* commands, all of it at the mercy of the PC/SC resource manager.         *)
(*                                                                         *)
(* A client is one such program.  It makes one call at a time, has at most *)
(* one listing and one SmartCard at a time, and destroys its transaction   *)
(* guards, innermost first, before the SmartCard they refer to.  A step is *)
(* what a client does up to and including one call of the resource         *)
(* manager, so that other programs, and the card itself, can act between   *)
(* any two calls.  A library function whose only call fails throws and     *)
(* leaves everything as it was: that is a stuttering step.                 *)
(***************************************************************************)
EXTENDS ResourceManager, FiniteSets

CONSTANTS
    Clients,
    MaxGuards,          \* bound: nested TransactionGuards of a client
    ReadersOutliveCard  \* does a program keep a Reader while it has a card?

ASSUME SessionAssumption ==
    /\ MaxGuards \in Nat
    /\ ReadersOutliveCard \in BOOLEAN

VARIABLES
    contextHandle,          \* Context::contextHandle of the listing
    readers,                \* the Reader objects alive: they share the Context
    cardHandle,             \* CardImpl::cardHandle
    guards,                 \* TransactionGuard objects alive
    transactionInProgress,  \* SmartCard::transactionInProgress
    pc                      \* the library function the client is inside of

clientVars == <<contextHandle, readers, cardHandle, guards,
                transactionInProgress, pc>>
vars == <<serviceVars, clientVars>>

Calls == {"idle", "listing", "constructing", "beginning", "transmitting"}

TypeOK ==
    /\ ServiceTypeOK
    /\ contextHandle \in [Clients -> Contexts \cup {Null}]
    /\ readers \in [Clients -> SUBSET Readers]
    /\ cardHandle \in [Clients -> Handles \cup {Null}]
    /\ guards \in [Clients -> 0..MaxGuards]
    /\ transactionInProgress \in [Clients -> BOOLEAN]
    /\ pc \in [Clients -> Calls]

Init ==
    /\ ServiceInit
    /\ contextHandle = [c \in Clients |-> Null]
    /\ readers = [c \in Clients |-> {}]
    /\ cardHandle = [c \in Clients |-> Null]
    /\ guards = [c \in Clients |-> 0]
    /\ transactionInProgress = [c \in Clients |-> FALSE]
    /\ pc = [c \in Clients |-> "idle"]

HeldContexts == {contextHandle[c] : c \in Clients} \ {Null}
HeldHandles  == {cardHandle[c] : c \in Clients} \ {Null}

Goto(c, call) == pc' = [pc EXCEPT ![c] = call]
HasCard(c)    == cardHandle[c] # Null

\* A client that is between two calls and has, or has not, a SmartCard.
Idle(c)         == pc[c] = "idle"
IdleWithCard(c) == Idle(c) /\ HasCard(c)

-----------------------------------------------------------------------------
(* listReaders() and the Context that its Readers share.                   *)

EstablishContext(c) ==
    /\ Idle(c)
    /\ contextHandle[c] = Null
    /\ \E x \in Contexts \ HeldContexts :
          /\ ~context[x]
          /\ SCardEstablishContext(x)
          /\ contextHandle' = [contextHandle EXCEPT ![c] = x]
    /\ Goto(c, "listing")
    /\ UNCHANGED <<handle, lock, inserted, answering, budget, readers,
                   cardHandle, guards, transactionInProgress>>

EnumerateReaders(c) ==
    /\ pc[c] = "listing"
    /\ readers' = [readers EXCEPT ![c] = Readers]
    /\ Goto(c, "idle")
    /\ UNCHANGED <<serviceVars, contextHandle, cardHandle, guards,
                   transactionInProgress>>

DestroyContext(c) ==
    /\ SCardReleaseContext(contextHandle[c])
    /\ contextHandle' = [contextHandle EXCEPT ![c] = Null]
    /\ UNCHANGED <<inserted, answering>>

\* No reader is there, or the enumeration throws: no Reader shares the Context.
EnumerateNothing(c) ==
    /\ pc[c] = "listing"
    /\ DestroyContext(c)
    /\ Goto(c, "idle")
    /\ UNCHANGED <<readers, cardHandle, guards, transactionInProgress>>

\* The Context goes with the last Reader that shares it, whether or not a
\* SmartCard was connected through it: SmartCard keeps no reference.
FirstReferenceGone(c, r) == contextHandle[c] # Null
LastReferenceGone(c, r)  == readers[c] = {r}

DropReader(c, r) ==
    /\ Idle(c)
    /\ r \in readers[c]
    /\ ReadersOutliveCard /\ HasCard(c) => readers[c] # {r}
    /\ readers' = [readers EXCEPT ![c] = @ \ {r}]
    /\ IF LastReferenceGone(c, r)
       THEN DestroyContext(c)
       ELSE UNCHANGED <<serviceVars, contextHandle>>
    /\ UNCHANGED <<cardHandle, guards, transactionInProgress, pc>>

-----------------------------------------------------------------------------
(* Reader::connectToCard() and the SmartCard it returns.                   *)

ConnectCard(c, r) ==
    /\ Idle(c)
    /\ ~HasCard(c)
    /\ r \in readers[c]
    /\ \E h \in Handles \ HeldHandles :
          /\ handle[h].state = "closed"
          /\ SCardConnect(contextHandle[c], r, h)
          /\ cardHandle' = [cardHandle EXCEPT ![c] = h]
    /\ Goto(c, "constructing")
    /\ UNCHANGED <<context, lock, inserted, answering, budget, contextHandle,
                   readers, guards, transactionInProgress>>

\* The request for the reader's features has been answered, or its error
\* ignored, and the protocol is one the library knows.
ConstructCard(c) ==
    /\ pc[c] = "constructing"
    /\ Goto(c, "idle")
    /\ UNCHANGED <<serviceVars, contextHandle, readers, cardHandle, guards,
                   transactionInProgress>>

\* The card is left as it is (SCARD_LEAVE_CARD), not reset.
DestroyAndReset(c) ==
    LET r == handle[cardHandle[c]].reader IN
    /\ handle' = [h \in Handles |->
                    IF h = cardHandle[c] THEN ClosedHandle
                    ELSE IF handle[h].reader = r /\ IsOpen(h)
                         THEN [handle[h] EXCEPT !.state = "reset"] ELSE handle[h]]
    /\ cardHandle' = [cardHandle EXCEPT ![c] = Null]
    /\ UNCHANGED <<context, lock, inserted, answering, budget>>
DestroyCardImpl(c) ==
    /\ SCardDisconnect(cardHandle[c])
    /\ cardHandle' = [cardHandle EXCEPT ![c] = Null]
    /\ UNCHANGED <<context, inserted, answering>>

\* Unwinding a constructor that throws destroys the members already made; one
\* that threw from within CardImpl would leave its handle behind.
ForgetCard(c) ==
    /\ cardHandle' = [cardHandle EXCEPT ![c] = Null]
    /\ UNCHANGED serviceVars
UnwindConstructor(c) == DestroyCardImpl(c)

RejectProtocol(c) ==
    /\ pc[c] = "constructing"
    /\ UnwindConstructor(c)
    /\ Goto(c, "idle")
    /\ UNCHANGED <<contextHandle, readers, guards, transactionInProgress>>

DestroyCard(c) ==
    /\ IdleWithCard(c)
    /\ guards[c] = 0
    /\ DestroyCardImpl(c)
    /\ UNCHANGED <<contextHandle, readers, guards, transactionInProgress, pc>>

-----------------------------------------------------------------------------
(* SmartCard::beginTransaction() and the TransactionGuard it returns.      *)

BeginTransaction(c) ==
    /\ IdleWithCard(c)
    /\ guards[c] < MaxGuards
    /\ Goto(c, "beginning")
    /\ UNCHANGED <<serviceVars, contextHandle, readers, cardHandle, guards,
                   transactionInProgress>>

\* Each guard takes a transaction of its own; if an inner one relied on the
\* outer guard's, it would end it too.
TakeTransactionOnce(c) ==
    IF transactionInProgress[c]
    THEN UNCHANGED lock
    ELSE SCardBeginTransaction(cardHandle[c])
TakeTransaction(c) == SCardBeginTransaction(cardHandle[c])

BeginGranted(c) ==
    /\ pc[c] = "beginning"
    /\ TakeTransaction(c)
    /\ guards' = [guards EXCEPT ![c] = @ + 1]
    /\ transactionInProgress' = [transactionInProgress EXCEPT ![c] = TRUE]
    /\ Goto(c, "idle")
    /\ UNCHANGED <<context, handle, inserted, answering, budget, contextHandle,
                   readers, cardHandle>>

\* The constructor throws: there is no guard, and the flag stays as it was.  It
\* must not be set before the call, nor the destructor run, nor the call be
\* repeated until it succeeds.
GiveUpFlagSet(c) ==
    /\ Goto(c, "idle")
    /\ transactionInProgress' = [transactionInProgress EXCEPT ![c] = TRUE]
    /\ UNCHANGED guards
GiveUpDestroying(c) ==
    /\ Goto(c, "idle")
    /\ transactionInProgress' = [transactionInProgress EXCEPT ![c] = FALSE]
    /\ guards' = [guards EXCEPT ![c] = @ - 1]
TryAgain(c) == UNCHANGED <<pc, guards, transactionInProgress>>
GiveUp(c) == Goto(c, "idle") /\ UNCHANGED <<guards, transactionInProgress>>

BeginRefused(c) ==
    /\ pc[c] = "beginning"
    /\ ~IsOpen(cardHandle[c])
    /\ GiveUp(c)
    /\ UNCHANGED <<serviceVars, contextHandle, readers, cardHandle>>

BeginFailed(c) ==
    /\ pc[c] = "beginning"
    /\ Spend("faults")
    /\ GiveUp(c)
    /\ UNCHANGED <<context, handle, lock, inserted, answering, contextHandle,
                   readers, cardHandle>>

\* ~TransactionGuard: an error of SCardEndTransaction is ignored, and the one
\* flag that all guards of the card share is cleared by each of them.
LeaveFlag(c) == UNCHANGED transactionInProgress
ClearFlag(c) ==
    transactionInProgress' = [transactionInProgress EXCEPT ![c] = FALSE]

EndTransaction(c) ==
    /\ Idle(c)
    /\ guards[c] > 0
    /\ ClearFlag(c)
    /\ SCardEndTransaction(cardHandle[c])
    /\ guards' = [guards EXCEPT ![c] = @ - 1]
    /\ UNCHANGED <<context, handle, inserted, answering, contextHandle,
                   readers, cardHandle, pc>>

-----------------------------------------------------------------------------
(* SmartCard::transmit() and the GET RESPONSE commands it sends on its own. *)

MayAlwaysTransmit(c) == TRUE
MayTransmit(c)       == transactionInProgress[c]

\* The card answers in n parts after this one, and the client goes on to fetch
\* them; or the call fails, or the answer is an error, and transmit() throws.
TransmitCommand(c) ==
    /\ IdleWithCard(c)
    /\ MayTransmit(c)
    /\ \E n \in 0..MaxChunks :
          /\ SCardTransmit(cardHandle[c], n)
          /\ \/ n > 0 /\ Goto(c, "transmitting")
             \/ UNCHANGED pc
    /\ UNCHANGED <<context, handle, lock, inserted, budget, contextHandle,
                   readers, cardHandle, guards, transactionInProgress>>

\* The card gives what it has to give, whomever it was meant for.
GetResponse(c) ==
    LET h    == cardHandle[c]
        left == answering[handle[h].reader].left
    IN
    /\ pc[c] = "transmitting"
    /\ IsOpen(h)
    /\ left > 0
    /\ SCardTransmit(h, left - 1)
    /\ Goto(c, IF left = 1 THEN "idle" ELSE "transmitting")
    /\ UNCHANGED <<context, handle, lock, inserted, budget, contextHandle,
                   readers, cardHandle, guards, transactionInProgress>>

\* A GET RESPONSE fails, or is answered with an error: transmit() throws.
ChainBroken(c) ==
    /\ pc[c] = "transmitting"
    /\ Goto(c, "idle")
    /\ UNCHANGED <<serviceVars, contextHandle, readers, cardHandle, guards,
                   transactionInProgress>>

-----------------------------------------------------------------------------
ClientStep(c) ==
    \/ EstablishContext(c)
    \/ EnumerateReaders(c)
    \/ EnumerateNothing(c)
    \/ \E r \in Readers : DropReader(c, r) \/ ConnectCard(c, r)
    \/ ConstructCard(c)
    \/ RejectProtocol(c)
    \/ DestroyCard(c)
    \/ BeginTransaction(c)
    \/ BeginGranted(c)
    \/ BeginRefused(c)
    \/ BeginFailed(c)
    \/ EndTransaction(c)
    \/ TransmitCommand(c)
    \/ GetResponse(c)
    \/ ChainBroken(c)

EnvironmentStep == Environment /\ UNCHANGED clientVars

Next == (\E c \in Clients : ClientStep(c)) \/ EnvironmentStep

Spec == Init /\ [][Next]_vars

(* A call in progress returns: neither the manager nor the card takes for   *)
(* ever, and a transaction is granted at last to who waits for it while it  *)
(* is free again and again.  A program leaves every scope it has entered,   *)
(* so that its guards and its SmartCard are destroyed at last, though it    *)
(* may go on for any time before.                                           *)
Fairness ==
    \A c \in Clients :
       /\ WF_vars(EnumerateReaders(c) \/ EnumerateNothing(c))
       /\ WF_vars(ConstructCard(c) \/ RejectProtocol(c))
       /\ WF_vars(GetResponse(c) \/ ChainBroken(c))
       /\ WF_vars(BeginRefused(c))
       /\ SF_vars(BeginGranted(c))
       /\ \A g \in 1..MaxGuards : SF_vars(guards[c] = g /\ EndTransaction(c))
       /\ SF_vars(DestroyCard(c))

FairSpec == Spec /\ Fairness

-----------------------------------------------------------------------------
(* Safety                                                                   *)

Usable(c) == HasCard(c) /\ IsOpen(cardHandle[c])
CardOf(c) == handle[cardHandle[c]].reader

\* While a client may transmit, it is inside a guard, and as long as its
\* handle is of use the card is its own: the flag that SmartCard::transmit()
\* trusts can be neither forgotten nor outlive the transaction
\* (SmartCard.cpp:245-260, 286).
FlagMeansTransaction ==
    \A c \in Clients :
       transactionInProgress[c] =>
          /\ guards[c] > 0
          /\ Usable(c) => lock[CardOf(c)].holder = cardHandle[c]

\* Every live guard holds one level of the card's transaction, also after an
\* inner guard is gone, and whatever other programs end, disconnect or release
\* (SmartCard.cpp:181-183, 245-260).
GuardHoldsCard ==
    \A c \in Clients :
       guards[c] > 0 /\ Usable(c) =>
          /\ lock[CardOf(c)].holder = cardHandle[c]
          /\ lock[CardOf(c)].depth >= guards[c]

\* Between a command and the GET RESPONSEs that fetch the rest of its answer no
\* other command reaches the card, so that the parts joined by
\* getMoreResponseData() are parts of one answer (SmartCard.cpp:227-242).
ChainNotInterleaved ==
    \A c \in Clients :
       pc[c] = "transmitting" /\ Usable(c) =>
          answering[CardOf(c)].to = cardHandle[c]

\* What no object will ever give back: each leak costs a failed call of a
\* destructor, which ignores it (SmartCard.cpp:103-111, Context.hpp:48-56); no
\* path through a constructor that throws leaks (SmartCard.cpp:262-267).
LeakedHandles  == {h \in Handles : handle[h].state # "closed"} \ HeldHandles
LeakedContexts == {x \in Contexts : context[x]} \ HeldContexts

LeaksOnlyByFaults ==
    Cardinality(LeakedHandles) + Cardinality(LeakedContexts)
       <= MaxFaults - budget["faults"]

\* A SmartCard's handle is not closed under it.  The library promises this only
\* to a program that keeps a Reader, for the Context goes with the last one
\* (SmartCard.cpp:262-264), and only the service's restart can do it then.
LiveCardHasHandle ==
    NoRestartYet =>
       \A c \in Clients : HasCard(c) => handle[cardHandle[c]].state # "closed"

-----------------------------------------------------------------------------
(* The inductive invariant behind the first three: what the call a client   *)
(* is inside of says of its objects, and that a handle in use belongs to a  *)
(* reader and to one SmartCard only.                                        *)

CallsMatchObjects ==
    \A c \in Clients :
       /\ guards[c] > 0 \/ pc[c] \in {"constructing", "beginning", "transmitting"}
             => HasCard(c)
       /\ pc[c] = "constructing" => guards[c] = 0
       /\ pc[c] = "beginning" => guards[c] < MaxGuards
       /\ pc[c] = "transmitting" \/ transactionInProgress[c] => guards[c] > 0

HandlesOwned ==
    /\ \A c, d \in Clients :
          c # d /\ HasCard(c) => cardHandle[c] # cardHandle[d]
    /\ \A h \in Handles :
          handle[h].state # "closed" => handle[h].reader \in Readers

IInv ==
    /\ TypeOK
    /\ CallsMatchObjects
    /\ HandlesOwned
    /\ GuardHoldsCard
    /\ ChainNotInterleaved

\* What it takes besides to know whose a context is: no two listings share one,
\* and a handle in use has its context, which is no other client's.
ContextsOwned ==
    /\ \A c, d \in Clients :
          c # d /\ contextHandle[c] # Null => contextHandle[c] # contextHandle[d]
    /\ \A h \in Handles :
          \/ handle[h] = ClosedHandle
          \/ /\ handle[h].state # "closed"
             /\ handle[h].ctx \in Contexts
             /\ context[handle[h].ctx]
    /\ \A c, d \in Clients :
          /\ c # d
          /\ HasCard(c)
          /\ handle[cardHandle[c]].state # "closed"
          => handle[cardHandle[c]].ctx # contextHandle[d]

\* There is a context as long as there are Readers to share it, and a Reader as
\* long as a program that keeps one has a SmartCard.
ReadersShareContext ==
    \A c \in Clients :
       /\ pc[c] = "listing" => readers[c] = {}
       /\ pc[c] = "listing" \/ readers[c] # {} => contextHandle[c] # Null
       /\ ReadersOutliveCard /\ HasCard(c) => readers[c] # {}

\* The inductive invariant behind the properties of handles and contexts.
WithinBounds == budget["faults"] <= MaxFaults /\ budget["restarts"] <= MaxRestarts

SessionInv == IInv /\ ContextsOwned /\ ReadersShareContext /\ WithinBounds

-----------------------------------------------------------------------------
(* Action properties                                                        *)

ObjectsOf(d) == <<contextHandle[d], readers[d], cardHandle[d], guards[d], pc[d]>>

\* Neither its handle nor its transaction nor an answer it is fetching change.
Undisturbed(c) ==
    /\ handle'[cardHandle[c]] = handle[cardHandle[c]]
    /\ guards[c] > 0 /\ Usable(c) => lock'[CardOf(c)] = lock[CardOf(c)]
    /\ pc[c] = "transmitting" /\ Usable(c) =>
          answering'[CardOf(c)] = answering[CardOf(c)]

LeavesOthersAlone ==
    \A c, d \in Clients :
       c # d /\ ObjectsOf(d)' # ObjectsOf(d) /\ HasCard(c) => Undisturbed(c)

\* What one program does to its own objects leaves the others' cards alone
\* (SCARD_LEAVE_CARD at SmartCard.cpp:107 and 183).
OthersUndisturbed == [][LeavesOthersAlone]_vars

-----------------------------------------------------------------------------
(* Refinement                                                               *)

Exclusive == INSTANCE ExclusiveCard WITH
    Cards         <- Readers,
    Owners        <- Handles,
    None          <- Null,
    Interruptions <- MaxEvents + MaxRestarts,
    MaxParts      <- MaxChunks,
    owner         <- [r \in Readers |-> lock[r].holder],
    dialogue      <- answering,
    calm          <- budget["events"] + budget["restarts"]

\* The clients together keep what a transaction promises: as each checks only a
\* flag of its own before it transmits, no command reaches a card that its
\* sender has not got to itself (SmartCard.cpp:245-260, 283-291).
ImplementsExclusiveCard == Exclusive!Spec

-----------------------------------------------------------------------------
(* Liveness                                                                 *)

\* Whoever waits in beginTransaction() is given the card or an exception, even
\* when a guard could not end its transaction: the destructor ignores that, but
\* the SmartCard's disconnect takes the transaction with it.  Only a handle
\* whose disconnect failed may keep others, or the same program, waiting
\* (SmartCard.cpp:103-111, 181, 252-260).
BeginReturns ==
    \A c \in Clients :
       pc[c] = "beginning" ~> pc[c] = "idle" \/ LeakedHandles # {}

-----------------------------------------------------------------------------
(* What the code says of itself, but does not keep                          *)

\* "Call SmartCard::transmit() inside a transaction" (SmartCard.cpp:287) is
\* thrown at a client only when it is not inside one.
RefusedOnlyOutsideTransaction ==
    \A c \in Clients :
       IdleWithCard(c) /\ guards[c] > 0 => transactionInProgress[c]

\* The test's connectToCard() returns a card whose Readers are gone, and the
\* card is used (test-connect-to-card-transmit-apdus.cpp:35-41, 55-63): with
\* nothing gone wrong the card it returned still answers.
ReturnedCardAnswers ==
    budget = Bounds => \A c \in Clients : HasCard(c) => IsOpen(cardHandle[c])
=============================================================================
