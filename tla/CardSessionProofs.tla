-------------------------- MODULE CardSessionProofs --------------------------
(***************************************************************************)
(* Proofs about CardSession, for any number of clients, readers, handles   *)
(* and contexts and any value of the bounds.                               *)
(***************************************************************************)
EXTENDS CardSession, TLAPS

\* The invariant holds before anything has been done.
LEMMA InitIInv == Init => IInv
  BY BoundsAssumption, SessionAssumption
     DEF Init, IInv, CallsMatchObjects, HandlesOwned, GuardHoldsCard,
         ChainNotInterleaved, HasCard, Usable, IsOpen, TypeOK, ServiceInit, ServiceTypeOK, ClosedHandle, FreeLock,
         NoAnswer, Bounds, HandleStates, Calls

\* Closing handles keeps the types of what it changes.
LEMMA CloseHandlesType ==
  ASSUME ServiceTypeOK, NEW H, CloseHandles(H)
  PROVE  /\ handle' \in [Handles -> [state  : HandleStates,
                                     ctx    : Contexts \cup {Null},
                                     reader : Readers \cup {Null}]]
         /\ lock' \in [Readers -> [holder : Handles \cup {Null}, depth : Nat]]
  BY DEF ServiceTypeOK, CloseHandles, ClosedHandle, FreeLock, HandleStates

\* A spent budget is a budget.
LEMMA SpendType ==
  ASSUME ServiceTypeOK, NEW kind \in {"faults", "events", "restarts"},
         Spend(kind)
  PROVE  budget' \in [{"faults", "events", "restarts"} -> Nat]
  BY DEF ServiceTypeOK, Spend

\* So do the calls that end what a destructor holds.
LEMMA ReleaseContextType ==
  ASSUME IInv, NEW c \in Clients, SCardReleaseContext(contextHandle[c]),
         UNCHANGED <<inserted, answering>>
  PROVE  ServiceTypeOK'
<1>1. CASE SCardReleaseContext(contextHandle[c])!1
  <2>1. /\ handle' \in [Handles -> [state  : HandleStates,
                                    ctx    : Contexts \cup {Null},
                                    reader : Readers \cup {Null}]]
        /\ lock' \in [Readers -> [holder : Handles \cup {Null}, depth : Nat]]
    BY <1>1, CloseHandlesType DEF IInv, TypeOK
  <2> QED
    BY <1>1, <2>1 DEF IInv, TypeOK, ServiceTypeOK
<1>2. CASE SCardReleaseContext(contextHandle[c])!2
  BY <1>2, SpendType DEF IInv, TypeOK, ServiceTypeOK
<1> QED
  BY <1>1, <1>2 DEF SCardReleaseContext

LEMMA DisconnectType ==
  ASSUME IInv, NEW h, SCardDisconnect(h),
         UNCHANGED <<context, inserted, answering>>
  PROVE  ServiceTypeOK'
<1>1. CASE CloseHandles({h}) /\ UNCHANGED budget
  <2>1. /\ handle' \in [Handles -> [state  : HandleStates,
                                    ctx    : Contexts \cup {Null},
                                    reader : Readers \cup {Null}]]
        /\ lock' \in [Readers -> [holder : Handles \cup {Null}, depth : Nat]]
    BY <1>1, CloseHandlesType DEF IInv, TypeOK
  <2> QED
    BY <1>1, <2>1 DEF IInv, TypeOK, ServiceTypeOK
<1>2. CASE Spend("faults") /\ UNCHANGED <<handle, lock>>
  BY <1>2, SpendType DEF IInv, TypeOK, ServiceTypeOK
<1> QED
  BY <1>1, <1>2 DEF SCardDisconnect
-----------------------------------------------------------------------------
(* Two kinds of step keep the invariant for the same reason.               *)

\* A step that touches no handle, transaction, answer or guard.
LEMMA QuietStep ==
  ASSUME IInv, TypeOK', CallsMatchObjects',
         UNCHANGED <<handle, lock, answering, cardHandle, guards>>,
         \A c \in Clients : pc'[c] = "transmitting" => pc[c] = "transmitting"
  PROVE  IInv'
<1>1. HandlesOwned'
  BY DEF IInv, HandlesOwned, HasCard
<1>2. GuardHoldsCard'
  BY DEF IInv, GuardHoldsCard, Usable, HasCard, IsOpen, CardOf
<1>3. ChainNotInterleaved'
  BY DEF IInv, ChainNotInterleaved, Usable, HasCard, IsOpen, CardOf
<1> QED
  BY <1>1, <1>2, <1>3 DEF IInv

\* A step that only closes handles, and ends their transactions with them: who
\* relied on one of them finds it of no use.
LEMMA ClosingStep ==
  ASSUME IInv, TypeOK', CallsMatchObjects', NEW H,
         CloseHandles(H) \/ UNCHANGED <<handle, lock>>,
         UNCHANGED <<answering, guards>>,
         \A c \in Clients : cardHandle'[c] \in {cardHandle[c], Null},
         \A c \in Clients : pc'[c] = "transmitting" => pc[c] = "transmitting"
  PROVE  IInv'
<1>1. \A h \in Handles :
        \/ handle'[h] = handle[h]
        \/ h \in H /\ handle'[h] = ClosedHandle
  BY DEF IInv, TypeOK, ServiceTypeOK, CloseHandles
<1>2. \/ lock' = lock
      \/ /\ CloseHandles(H)
         /\ \A r \in Readers : lock'[r] = lock[r] \/ lock[r].holder \in H
  <2>1. CASE CloseHandles(H)
    <3>1. \A r \in Readers : lock'[r] = lock[r] \/ lock[r].holder \in H
      BY <2>1 DEF CloseHandles
    <3> QED
      BY <2>1, <3>1
  <2>2. CASE UNCHANGED <<handle, lock>>
    BY <2>2
  <2> QED
    BY <2>1, <2>2
<1>3. HandlesOwned'
  <2>1. \A h \in Handles :
          handle'[h].state # "closed" => handle'[h].reader \in Readers
    BY <1>1 DEF IInv, HandlesOwned, ClosedHandle
  <2>2. \A c, d \in Clients :
          c # d /\ HasCard(c)' => cardHandle'[c] # cardHandle'[d]
    BY DEF IInv, HandlesOwned, HasCard
  <2> QED
    BY <2>1, <2>2 DEF HandlesOwned
<1>4. ASSUME NEW c \in Clients, Usable(c)'
      PROVE  /\ Usable(c)
             /\ CardOf(c)' = CardOf(c)
             /\ CardOf(c) \in Readers
             /\ cardHandle'[c] = cardHandle[c]
             /\ ~(CloseHandles(H) /\ cardHandle[c] \in H)
  <2>1. cardHandle'[c] = cardHandle[c] /\ cardHandle[c] \in Handles
    BY <1>4 DEF Usable, HasCard, IInv, TypeOK
  <2>2. handle'[cardHandle[c]] = handle[cardHandle[c]]
    BY <1>1, <1>4, <2>1 DEF Usable, IsOpen, ClosedHandle
  <2>3. ~(CloseHandles(H) /\ cardHandle[c] \in H)
    BY <1>4, <2>1 DEF Usable, IsOpen, CloseHandles, ClosedHandle
  <2> QED
    BY <1>4, <2>1, <2>2, <2>3
       DEF Usable, HasCard, IsOpen, CardOf, IInv, HandlesOwned
<1>5. GuardHoldsCard'
  <2> SUFFICES ASSUME NEW c \in Clients, guards'[c] > 0, Usable(c)'
               PROVE  /\ lock'[CardOf(c)'].holder = cardHandle'[c]
                      /\ lock'[CardOf(c)'].depth >= guards'[c]
    BY DEF GuardHoldsCard
  <2> QED
    BY <1>2, <1>4 DEF IInv, GuardHoldsCard
<1>6. ChainNotInterleaved'
  BY <1>4 DEF IInv, ChainNotInterleaved
<1> QED
  BY <1>3, <1>5, <1>6 DEF IInv

-----------------------------------------------------------------------------
(* The steps of a client.                                                  *)

LEMMA QuietClientStep ==
  ASSUME IInv, NEW c \in Clients,
         \/ EstablishContext(c)
         \/ EnumerateReaders(c)
         \/ ConstructCard(c)
         \/ BeginTransaction(c)
         \/ BeginRefused(c)
         \/ BeginFailed(c)
         \/ ChainBroken(c)
  PROVE  IInv'
<1>1. TypeOK'
  <2>1. CASE BeginFailed(c)
    BY <2>1, SpendType
       DEF IInv, TypeOK, ServiceTypeOK, BeginFailed, GiveUp, Goto, Calls
  <2>2. CASE EstablishContext(c)
    BY <2>2 DEF IInv, TypeOK, ServiceTypeOK, EstablishContext,
                SCardEstablishContext, Goto, Calls
  <2>3. CASE EnumerateReaders(c)
    BY <2>3 DEF IInv, TypeOK, ServiceTypeOK, serviceVars, EnumerateReaders, Goto,
                Calls
  <2>4. CASE BeginRefused(c)
    BY <2>4 DEF IInv, TypeOK, ServiceTypeOK, serviceVars, BeginRefused, GiveUp,
                Goto, Calls
  <2>5. CASE ConstructCard(c) \/ BeginTransaction(c) \/ ChainBroken(c)
    BY <2>5 DEF IInv, TypeOK, ServiceTypeOK, serviceVars, ConstructCard,
                BeginTransaction, ChainBroken, Goto, Calls
  <2> QED
    BY <2>1, <2>2, <2>3, <2>4, <2>5
<1>2. /\ UNCHANGED <<handle, lock, answering, cardHandle, guards,
                     transactionInProgress>>
      /\ \E call \in Calls \ {"constructing", "transmitting"} :
            /\ Goto(c, call)
            /\ call = "beginning" => HasCard(c) /\ guards[c] < MaxGuards
  BY DEF EstablishContext, EnumerateReaders, ConstructCard, BeginTransaction,
         BeginRefused, BeginFailed, ChainBroken, GiveUp, serviceVars,
         IdleWithCard, Calls
<1>3. CallsMatchObjects'
  BY <1>2 DEF IInv, CallsMatchObjects, HasCard, Goto, TypeOK
<1> QED
  BY <1>1, <1>2, <1>3, QuietStep DEF IInv, TypeOK, Goto

LEMMA ClosingClientStep ==
  ASSUME IInv, NEW c \in Clients,
         \/ EnumerateNothing(c)
         \/ \E r \in Readers : DropReader(c, r)
         \/ RejectProtocol(c)
         \/ DestroyCard(c)
  PROVE  IInv'
<1>1. CASE EnumerateNothing(c)
  <2>1. TypeOK'
    BY <1>1, ReleaseContextType
       DEF IInv, TypeOK, EnumerateNothing, DestroyContext, Goto, Calls
  <2>2. CallsMatchObjects'
    BY <1>1 DEF IInv, TypeOK, CallsMatchObjects, HasCard, EnumerateNothing, Goto
  <2> QED
    BY <1>1, <2>1, <2>2, ClosingStep
       DEF IInv, TypeOK, EnumerateNothing, DestroyContext, SCardReleaseContext, Goto
<1>2. ASSUME NEW r \in Readers, DropReader(c, r)
      PROVE  IInv'
  <2>1. TypeOK'
    <3>1. CASE LastReferenceGone(c, r)
      BY <1>2, <3>1, ReleaseContextType
         DEF IInv, TypeOK, DropReader, DestroyContext
    <3>2. CASE ~LastReferenceGone(c, r)
      BY <1>2, <3>2 DEF IInv, TypeOK, ServiceTypeOK, serviceVars, DropReader
    <3> QED
      BY <3>1, <3>2
  <2>2. CallsMatchObjects'
    BY <1>2 DEF IInv, CallsMatchObjects, HasCard, DropReader
  <2> QED
    BY <1>2, <2>1, <2>2, ClosingStep
       DEF IInv, TypeOK, DropReader, DestroyContext, SCardReleaseContext, serviceVars
<1>3. CASE RejectProtocol(c)
  <2>1. TypeOK'
    BY <1>3, DisconnectType
       DEF IInv, TypeOK, RejectProtocol, UnwindConstructor, DestroyCardImpl,
           Goto, Calls
  <2>2. CallsMatchObjects'
    BY <1>3 DEF IInv, TypeOK, CallsMatchObjects, HasCard, RejectProtocol,
                UnwindConstructor, DestroyCardImpl, Goto
  <2> QED
    BY <1>3, <2>1, <2>2, ClosingStep
       DEF IInv, TypeOK, RejectProtocol, UnwindConstructor, DestroyCardImpl,
           SCardDisconnect, Goto
<1>4. CASE DestroyCard(c)
  <2>1. TypeOK'
    BY <1>4, DisconnectType DEF IInv, TypeOK, DestroyCard, DestroyCardImpl
  <2>2. CallsMatchObjects'
    BY <1>4 DEF IInv, TypeOK, CallsMatchObjects, HasCard, DestroyCard,
                DestroyCardImpl, IdleWithCard, Idle
  <2> QED
    BY <1>4, <2>1, <2>2, ClosingStep
       DEF IInv, TypeOK, DestroyCard, DestroyCardImpl, SCardDisconnect
<1> QED
  BY <1>1, <1>2, <1>3, <1>4

LEMMA ConnectCardStep ==
  ASSUME IInv, NEW c \in Clients, NEW r \in Readers, ConnectCard(c, r)
  PROVE  IInv'
<1>1. PICK h \in Handles \ HeldHandles :
         /\ handle[h].state = "closed"
         /\ handle' = [handle EXCEPT ![h] = [state  |-> "open",
                                            ctx    |-> contextHandle[c],
                                            reader |-> r]]
         /\ cardHandle' = [cardHandle EXCEPT ![c] = h]
  BY DEF ConnectCard, SCardConnect
<1>2. h # Null /\ \A d \in Clients : cardHandle[d] # h
  BY <1>1, NullAssumption DEF HeldHandles
<1>3. guards[c] = 0 /\ pc[c] = "idle"
  BY DEF ConnectCard, Idle, IInv, TypeOK, CallsMatchObjects
<1>4. TypeOK'
  <2>1. contextHandle[c] \in Contexts \cup {Null}
    BY DEF IInv, TypeOK
  <2> QED
    BY <1>1, <2>1
       DEF IInv, TypeOK, ServiceTypeOK, HandleStates, Calls, ConnectCard, Goto
<1>5. CallsMatchObjects'
  BY <1>1, <1>2, <1>3
     DEF IInv, TypeOK, CallsMatchObjects, HasCard, ConnectCard, Goto
<1>6. HandlesOwned'
  BY <1>1, <1>2 DEF IInv, TypeOK, ServiceTypeOK, HandlesOwned, HasCard
<1>7. \A d \in Clients \ {c} :
        /\ cardHandle'[d] = cardHandle[d]
        /\ HasCard(d) => handle'[cardHandle[d]] = handle[cardHandle[d]]
        /\ pc'[d] = pc[d]
  BY <1>1, <1>2 DEF IInv, TypeOK, ServiceTypeOK, HasCard, ConnectCard, Goto
<1>8. GuardHoldsCard'
  BY <1>3, <1>7
     DEF IInv, GuardHoldsCard, Usable, HasCard, IsOpen, CardOf, ConnectCard
<1>9. ChainNotInterleaved'
  BY <1>3, <1>7
     DEF IInv, TypeOK, ChainNotInterleaved, Usable, HasCard, IsOpen, CardOf,
         ConnectCard, Goto, Calls
<1> QED
  BY <1>4, <1>5, <1>6, <1>8, <1>9 DEF IInv

\* Who waits for a transaction has a handle, and gets it only while no other
\* handle has one.
LEMMA BeginGrantedStep ==
  ASSUME IInv, NEW c \in Clients, BeginGranted(c)
  PROVE  IInv'
<1> DEFINE h == cardHandle[c]
           r == handle[h].reader
<1>1. /\ h \in Handles
      /\ r \in Readers
      /\ guards[c] < MaxGuards
      /\ guards[c] > 0 => lock[r].holder = h /\ lock[r].depth >= guards[c]
  BY DEF IInv, TypeOK, CallsMatchObjects, HandlesOwned, GuardHoldsCard, Usable,
         HasCard, IsOpen, CardOf, BeginGranted, TakeTransaction,
         SCardBeginTransaction
<1>2. /\ lock[r].holder \in {Null, h}
      /\ lock' = [lock EXCEPT ![r] = [holder |-> h, depth |-> @.depth + 1]]
      /\ guards' = [guards EXCEPT ![c] = @ + 1]
      /\ UNCHANGED <<handle, answering, cardHandle>>
  BY DEF BeginGranted, TakeTransaction, SCardBeginTransaction
<1>3. TypeOK'
  BY <1>1, <1>2, SessionAssumption
     DEF IInv, TypeOK, ServiceTypeOK, BeginGranted, Goto, Calls
<1>4. CallsMatchObjects'
  BY <1>1, SessionAssumption
     DEF IInv, TypeOK, CallsMatchObjects, HasCard, BeginGranted, Goto
<1>5. HandlesOwned'
  BY <1>2 DEF IInv, HandlesOwned, HasCard
<1>6. GuardHoldsCard'
  <2> SUFFICES ASSUME NEW d \in Clients, guards'[d] > 0, Usable(d)
               PROVE  /\ lock'[CardOf(d)].holder = cardHandle[d]
                      /\ lock'[CardOf(d)].depth >= guards'[d]
    BY <1>2 DEF GuardHoldsCard, Usable, HasCard, IsOpen, CardOf
  <2>1. CASE d = c
    BY <1>1, <1>2, <2>1 DEF IInv, TypeOK, ServiceTypeOK, CardOf
  <2>2. CASE d # c
    BY <1>1, <1>2, <2>2
       DEF IInv, TypeOK, ServiceTypeOK, HandlesOwned, GuardHoldsCard, Usable,
           HasCard, IsOpen, CardOf
  <2> QED
    BY <2>1, <2>2
<1>7. ChainNotInterleaved'
  BY <1>2 DEF IInv, TypeOK, ChainNotInterleaved, Usable, HasCard, IsOpen, CardOf,
              BeginGranted, Goto
<1> QED
  BY <1>3, <1>4, <1>5, <1>6, <1>7 DEF IInv

\* A guard ends one level of the transaction of its own handle, which no other
\* SmartCard has; if that fails, the level stays.
LEMMA EndTransactionStep ==
  ASSUME IInv, NEW c \in Clients, EndTransaction(c)
  PROVE  IInv'
<1> DEFINE h == cardHandle[c]
<1>1. /\ h \in Handles
      /\ guards[c] \in 1..MaxGuards
      /\ guards' = [guards EXCEPT ![c] = @ - 1]
      /\ transactionInProgress' = [transactionInProgress EXCEPT ![c] = FALSE]
      /\ pc[c] = "idle"
      /\ UNCHANGED <<handle, answering, cardHandle, pc>>
  BY DEF IInv, TypeOK, CallsMatchObjects, HasCard, EndTransaction, ClearFlag, Idle
<1>2. \A r \in Readers :
        \/ lock'[r] = lock[r]
        \/ lock[r].holder = h /\ lock'[r] = Unlocked(lock[r])
  BY DEF IInv, TypeOK, ServiceTypeOK, EndTransaction, SCardEndTransaction
<1>3. \A r \in Readers :
        lock[r].holder = h /\ lock[r].depth > 0 =>
           /\ lock[r].depth = 1 => Unlocked(lock[r]) = FreeLock
           /\ lock[r].depth > 1 =>
                 Unlocked(lock[r]) = [holder |-> h, depth |-> lock[r].depth - 1]
  BY DEF IInv, TypeOK, ServiceTypeOK, Unlocked
<1>4. TypeOK'
  <2>1. budget' \in [{"faults", "events", "restarts"} -> Nat]
    BY SpendType DEF IInv, TypeOK, ServiceTypeOK, EndTransaction,
                     SCardEndTransaction
  <2>2. lock' \in [Readers -> [holder : Handles \cup {Null}, depth : Nat]]
    BY DEF IInv, TypeOK, ServiceTypeOK, EndTransaction, SCardEndTransaction,
           Unlocked, FreeLock
  <2> QED
    BY <1>1, <2>1, <2>2, SessionAssumption
       DEF IInv, TypeOK, ServiceTypeOK, EndTransaction
<1>5. CallsMatchObjects'
  BY <1>1 DEF IInv, TypeOK, CallsMatchObjects, HasCard
<1>6. HandlesOwned'
  BY <1>1 DEF IInv, HandlesOwned, HasCard
<1>7. GuardHoldsCard'
  <2> SUFFICES ASSUME NEW d \in Clients, guards'[d] > 0, Usable(d)
               PROVE  /\ lock'[CardOf(d)].holder = cardHandle[d]
                      /\ lock'[CardOf(d)].depth >= guards'[d]
    BY <1>1 DEF GuardHoldsCard, Usable, HasCard, IsOpen, CardOf
  <2>1. /\ CardOf(d) \in Readers
        /\ guards[d] > 0
        /\ lock[CardOf(d)].holder = cardHandle[d]
        /\ lock[CardOf(d)].depth >= guards[d]
    BY <1>1 DEF IInv, TypeOK, HandlesOwned, GuardHoldsCard, Usable, HasCard,
                IsOpen, CardOf
  <2>2. CASE d = c
    <3>1. lock[CardOf(c)].depth > 1
      BY <1>1, <2>1, <2>2 DEF IInv, TypeOK, ServiceTypeOK
    <3> QED
      BY <1>1, <1>2, <1>3, <2>1, <2>2, <3>1 DEF IInv, TypeOK, ServiceTypeOK
  <2>3. CASE d # c
    BY <1>1, <1>2, <2>1, <2>3 DEF IInv, TypeOK, HandlesOwned, Usable, HasCard
  <2> QED
    BY <2>2, <2>3
<1>8. ChainNotInterleaved'
  BY <1>1 DEF IInv, ChainNotInterleaved, Usable, HasCard, IsOpen, CardOf
<1> QED
  BY <1>4, <1>5, <1>6, <1>7, <1>8 DEF IInv

\* A command is sent only by the handle that has the card's transaction: whoever
\* is fetching an answer from the same card would have it, too.
LEMMA TransmitStep ==
  ASSUME IInv, NEW c \in Clients, TransmitCommand(c) \/ GetResponse(c)
  PROVE  IInv'
<1> DEFINE h == cardHandle[c]
           r == handle[h].reader
<1>1. /\ guards[c] > 0
      /\ h \in Handles
      /\ r \in Readers
      /\ Usable(c)
      /\ lock[r].holder = h
  BY DEF IInv, TypeOK, CallsMatchObjects, HandlesOwned, GuardHoldsCard, Usable,
         HasCard, IsOpen, CardOf, TransmitCommand, MayTransmit, SCardTransmit,
         IdleWithCard, GetResponse
<1>2. PICK n \in Nat : answering' = [answering EXCEPT ![r] = [to |-> h, left |-> n]]
  <2>1. CASE TransmitCommand(c)
    <3>1. PICK n \in 0..MaxChunks : SCardTransmit(h, n)
      BY <2>1 DEF TransmitCommand
    <3>2. n \in Nat
      BY BoundsAssumption
    <3>3. answering' = [answering EXCEPT ![r] = [to |-> h, left |-> n]]
      BY <3>1 DEF SCardTransmit
    <3> QED
      BY <3>2, <3>3
  <2>2. CASE GetResponse(c)
    <3>1. answering[r].left > 0 /\ SCardTransmit(h, answering[r].left - 1)
      BY <2>2 DEF GetResponse
    <3>2. answering[r].left - 1 \in Nat
      BY <1>1, <3>1 DEF IInv, TypeOK, ServiceTypeOK
    <3> QED
      BY <3>1, <3>2 DEF SCardTransmit
  <2> QED
    BY <2>1, <2>2
<1>3. /\ UNCHANGED <<context, handle, lock, inserted, budget, contextHandle,
                     readers, cardHandle, guards, transactionInProgress>>
      /\ pc' = pc \/ Goto(c, "idle") \/ Goto(c, "transmitting")
  BY DEF TransmitCommand, GetResponse, Goto
<1>4. TypeOK'
  BY <1>1, <1>2, <1>3 DEF IInv, TypeOK, ServiceTypeOK, Goto, Calls
<1>5. CallsMatchObjects'
  BY <1>1, <1>3 DEF IInv, TypeOK, CallsMatchObjects, HasCard, Usable, Goto
<1>6. HandlesOwned'
  BY <1>3 DEF IInv, HandlesOwned, HasCard
<1>7. GuardHoldsCard'
  BY <1>3 DEF IInv, GuardHoldsCard, Usable, HasCard, IsOpen, CardOf
<1>8. ChainNotInterleaved'
  <2> SUFFICES ASSUME NEW d \in Clients, pc'[d] = "transmitting", Usable(d)
               PROVE  answering'[CardOf(d)].to = cardHandle[d]
    BY <1>3 DEF ChainNotInterleaved, Usable, HasCard, IsOpen, CardOf
  <2>1. CASE d = c
    BY <1>1, <1>2, <2>1 DEF IInv, TypeOK, ServiceTypeOK, CardOf
  <2>2. CASE d # c
    <3>1. pc[d] = "transmitting" /\ guards[d] > 0
      BY <1>3, <2>2 DEF IInv, TypeOK, CallsMatchObjects, Goto
    <3>2. CardOf(d) # r
      BY <1>1, <2>2, <3>1 DEF IInv, GuardHoldsCard, HandlesOwned, Usable
    <3> QED
      BY <1>2, <3>1, <3>2 DEF IInv, TypeOK, ServiceTypeOK, ChainNotInterleaved
  <2> QED
    BY <2>1, <2>2
<1> QED
  BY <1>4, <1>5, <1>6, <1>7, <1>8 DEF IInv

LEMMA ClientStepKeepsIInv ==
  ASSUME IInv, NEW c \in Clients, ClientStep(c)
  PROVE  IInv'
  BY QuietClientStep, ClosingClientStep, ConnectCardStep, BeginGrantedStep,
     EndTransactionStep, TransmitStep DEF ClientStep

-----------------------------------------------------------------------------
(* The steps of the environment.                                           *)

\* A reset or removed card spoils the handles in use: whoever had its
\* transaction, or was fetching an answer, can do nothing more with it.
LEMMA SpoilingStep ==
  ASSUME IInv, NEW r \in Readers, ResetCard(r) \/ RemoveCard(r),
         UNCHANGED clientVars
  PROVE  IInv'
<1> PICK s \in {"reset", "removed"} : Spoil(r, s)
  BY DEF ResetCard, RemoveCard
<1>1. \A h \in Handles :
        handle'[h] = IF handle[h].reader = r /\ IsOpen(h)
                     THEN [handle[h] EXCEPT !.state = s] ELSE handle[h]
  BY DEF Spoil, IsOpen
<1>2. \A q \in Readers \ {r} : lock'[q] = lock[q] /\ answering'[q] = answering[q]
  BY DEF IInv, TypeOK, ServiceTypeOK, ResetCard, RemoveCard
<1>3. TypeOK'
  <2>1. handle' \in [Handles -> [state  : HandleStates,
                                 ctx    : Contexts \cup {Null},
                                 reader : Readers \cup {Null}]]
    BY DEF IInv, TypeOK, ServiceTypeOK, Spoil, HandleStates
  <2>2. budget' \in [{"faults", "events", "restarts"} -> Nat]
    BY SpendType DEF IInv, TypeOK, ResetCard, RemoveCard
  <2>3. lock' \in {lock, [lock EXCEPT ![r] = FreeLock]}
    BY DEF ResetCard, RemoveCard
  <2>4. lock' \in [Readers -> [holder : Handles \cup {Null}, depth : Nat]]
    BY <2>3 DEF IInv, TypeOK, ServiceTypeOK, FreeLock
  <2>5. /\ context' \in [Contexts -> BOOLEAN]
        /\ inserted' \in [Readers -> BOOLEAN]
        /\ answering' \in [Readers -> [to : Handles \cup {Null}, left : Nat]]
    <3>1. CASE ResetCard(r)
      BY <3>1 DEF IInv, TypeOK, ServiceTypeOK, ResetCard, NoAnswer
    <3>2. CASE RemoveCard(r)
      BY <3>2 DEF IInv, TypeOK, ServiceTypeOK, RemoveCard, NoAnswer
    <3> QED
      BY <3>1, <3>2
  <2> QED
    BY <2>1, <2>2, <2>4, <2>5 DEF IInv, TypeOK, ServiceTypeOK, clientVars
<1>4. CallsMatchObjects'
  BY DEF IInv, CallsMatchObjects, HasCard, clientVars
<1>5. HandlesOwned'
  <2>1. \A h \in Handles :
          /\ handle'[h].reader = handle[h].reader
          /\ handle'[h].state # "closed" => handle[h].state # "closed"
    BY <1>1 DEF IInv, TypeOK, ServiceTypeOK, IsOpen
  <2> QED
    BY <2>1 DEF IInv, HandlesOwned, HasCard, clientVars
<1>6. ASSUME NEW c \in Clients, Usable(c)'
      PROVE  /\ Usable(c)
             /\ CardOf(c)' = CardOf(c)
             /\ CardOf(c) \in Readers \ {r}
  <2>1. cardHandle'[c] = cardHandle[c] /\ cardHandle[c] \in Handles
    BY <1>6 DEF IInv, TypeOK, Usable, HasCard, clientVars
  <2>2. /\ IsOpen(cardHandle[c])
        /\ handle'[cardHandle[c]] = handle[cardHandle[c]]
        /\ handle[cardHandle[c]].reader # r
    BY <1>1, <1>6, <2>1 DEF IInv, TypeOK, ServiceTypeOK, Usable, IsOpen
  <2> QED
    BY <1>6, <2>1, <2>2
       DEF IInv, HandlesOwned, Usable, HasCard, IsOpen, CardOf
<1>7. GuardHoldsCard'
  BY <1>2, <1>6 DEF IInv, GuardHoldsCard, clientVars
<1>8. ChainNotInterleaved'
  BY <1>2, <1>6 DEF IInv, ChainNotInterleaved, clientVars
<1> QED
  BY <1>3, <1>4, <1>5, <1>7, <1>8 DEF IInv

\* A command from outside reaches only a card without a transaction, and so none
\* whose answer is being fetched.
LEMMA ForeignStep ==
  ASSUME IInv, NEW r \in Readers, ForeignTransmit(r), UNCHANGED clientVars
  PROVE  IInv'
<1>1. TypeOK'
  BY DEF IInv, TypeOK, ServiceTypeOK, ForeignTransmit, NoAnswer, clientVars
<1>2. CallsMatchObjects' /\ HandlesOwned' /\ GuardHoldsCard'
  BY DEF IInv, CallsMatchObjects, HandlesOwned, GuardHoldsCard, Usable, HasCard,
         IsOpen, CardOf, ForeignTransmit, clientVars
<1>3. ChainNotInterleaved'
  <2> SUFFICES ASSUME NEW c \in Clients, pc[c] = "transmitting", Usable(c)
               PROVE  answering'[CardOf(c)] = answering[CardOf(c)]
    BY DEF IInv, ChainNotInterleaved, Usable, HasCard, IsOpen, CardOf,
           ForeignTransmit, clientVars
  <2>1. lock[CardOf(c)].holder # Null
    BY DEF IInv, TypeOK, CallsMatchObjects, GuardHoldsCard, Usable, HasCard
  <2> QED
    BY <2>1 DEF IInv, TypeOK, ServiceTypeOK, ForeignTransmit
<1> QED
  BY <1>1, <1>2, <1>3 DEF IInv

\* A restarted service knows no handle any more.
LEMMA RestartStep ==
  ASSUME IInv, RestartService, UNCHANGED clientVars
  PROVE  IInv'
<1>1. \A h \in Handles : handle'[h] = ClosedHandle
  BY DEF RestartService, CloseHandles
<1>2. TypeOK'
  <2>1. /\ handle' \in [Handles -> [state  : HandleStates,
                                    ctx    : Contexts \cup {Null},
                                    reader : Readers \cup {Null}]]
        /\ lock' \in [Readers -> [holder : Handles \cup {Null}, depth : Nat]]
    BY CloseHandlesType DEF IInv, TypeOK, RestartService
  <2>2. budget' \in [{"faults", "events", "restarts"} -> Nat]
    BY SpendType DEF IInv, TypeOK, RestartService
  <2> QED
    BY <2>1, <2>2 DEF IInv, TypeOK, ServiceTypeOK, RestartService, NoAnswer,
                      clientVars
<1>3. CallsMatchObjects'
  BY DEF IInv, CallsMatchObjects, HasCard, clientVars
<1>4. HandlesOwned'
  BY <1>1 DEF IInv, HandlesOwned, HasCard, ClosedHandle, clientVars
<1>5. \A c \in Clients : ~Usable(c)'
  BY <1>1 DEF IInv, TypeOK, Usable, HasCard, IsOpen, ClosedHandle, clientVars
<1>6. GuardHoldsCard' /\ ChainNotInterleaved'
  BY <1>5 DEF GuardHoldsCard, ChainNotInterleaved
<1> QED
  BY <1>2, <1>3, <1>4, <1>6 DEF IInv

LEMMA EnvironmentStepKeepsIInv ==
  ASSUME IInv, EnvironmentStep
  PROVE  IInv'
<1>1. ASSUME NEW r \in Readers, InsertCard(r)
      PROVE  IInv'
  <2>1. TypeOK'
    BY <1>1, SpendType DEF IInv, TypeOK, ServiceTypeOK, InsertCard,
                           EnvironmentStep, clientVars
  <2>2. CallsMatchObjects'
    BY DEF IInv, CallsMatchObjects, HasCard, EnvironmentStep, clientVars
  <2> QED
    BY <1>1, <2>1, <2>2, QuietStep
       DEF InsertCard, EnvironmentStep, clientVars
<1> QED
  BY <1>1, SpoilingStep, ForeignStep, RestartStep DEF EnvironmentStep, Environment

\* Who transmits is inside a guard, and therefore the owner, if the card can
\* hear it at all.
LEMMA TransmitterOwnsCard ==
  ASSUME IInv, NEW c \in Clients, IsOpen(cardHandle[c]),
         transactionInProgress[c] \/ pc[c] = "transmitting"
  PROVE  /\ cardHandle[c] \in Handles
         /\ CardOf(c) \in Readers
         /\ lock[CardOf(c)].holder = cardHandle[c]
         /\ pc[c] = "transmitting" => answering[CardOf(c)].to = cardHandle[c]
<1>1. guards[c] > 0 /\ HasCard(c)
  BY DEF IInv, CallsMatchObjects
<1>2. cardHandle[c] \in Handles
  BY <1>1 DEF IInv, TypeOK, HasCard
<1> QED
  BY <1>1, <1>2
     DEF IInv, HandlesOwned, GuardHoldsCard, ChainNotInterleaved, Usable, CardOf,
         IsOpen

-----------------------------------------------------------------------------
(* Theorems.                                                               *)

\* The inductive invariant holds in every state, whatever the numbers of
\* clients, handles, contexts and readers and whatever the bounds.
THEOREM Invariance == Spec => []IInv
<1>1. IInv /\ [Next]_vars => IInv'
  <2> SUFFICES ASSUME IInv, [Next]_vars
               PROVE  IInv'
    OBVIOUS
  <2>1. CASE Next
    BY <2>1, ClientStepKeepsIInv, EnvironmentStepKeepsIInv DEF Next
  <2>2. CASE UNCHANGED vars
    <3>1. TypeOK' /\ CallsMatchObjects'
      BY <2>2 DEF vars, serviceVars, clientVars, IInv, TypeOK, ServiceTypeOK,
                  CallsMatchObjects, HasCard
    <3> QED
      BY <2>2, <3>1, QuietStep DEF vars, serviceVars, clientVars
  <2> QED
    BY <2>1, <2>2
<1> QED
  BY InitIInv, <1>1, PTL DEF Spec

\* Every variable keeps its type: in particular no destructor runs for a guard
\* that was never made, and no bound of the model is passed.
THEOREM TypeCorrectness == Spec => []TypeOK
  BY Invariance, PTL DEF IInv

\* A live guard holds one level of the card's transaction, for any nesting of
\* guards and any number of other programs (SmartCard.cpp:245-260).
THEOREM GuardsHoldCards == Spec => []GuardHoldsCard
  BY Invariance, PTL DEF IInv

\* The flag that SmartCard::transmit() trusts is set only inside a guard whose
\* transaction is the client's (SmartCard.cpp:283-291).
THEOREM FlagsMeanTransactions == Spec => []FlagMeansTransaction
<1>1. IInv => FlagMeansTransaction
  BY DEF IInv, TypeOK, CallsMatchObjects, GuardHoldsCard, FlagMeansTransaction
<1> QED
  BY Invariance, <1>1, PTL

\* No command of another program comes between the parts of an answer
\* (SmartCard.cpp:227-242).
THEOREM ChainsAreNotInterleaved == Spec => []ChainNotInterleaved
  BY Invariance, PTL DEF IInv

-----------------------------------------------------------------------------
(* CardSession implements ExclusiveCard.  The owner of a card is the handle  *)
(* with its transaction.  There is a lemma for each way in which a step maps *)
(* to one of ExclusiveCard; most steps of a client are stuttering, nested    *)
(* transactions among them.                                                  *)

(* What the parts of the mapping change.                                   *)

LEMMA InitRefines == Init => Exclusive!Init
  BY BoundsAssumption
     DEF Init, ServiceInit, Exclusive!Init, Exclusive!Silence, FreeLock,
         NoAnswer, Bounds

\* Events and restarts are the interruptions; a fault is none.
LEMMA Interruption ==
  ASSUME ServiceTypeOK, NEW kind \in {"events", "restarts"}, Spend(kind)
  PROVE  /\ budget["events"] + budget["restarts"] > 0
         /\ (budget["events"] + budget["restarts"])'
               = (budget["events"] + budget["restarts"]) - 1
<1>1. /\ budget["events"] \in Nat
      /\ budget["restarts"] \in Nat
      /\ budget[kind] > 0
      /\ budget' = [budget EXCEPT ![kind] = @ - 1]
  BY DEF ServiceTypeOK, Spend
<1>2. CASE kind = "events"
  <2>1. budget'["events"] = budget["events"] - 1
        /\ budget'["restarts"] = budget["restarts"]
    BY <1>1, <1>2 DEF ServiceTypeOK
  <2> QED
    BY <1>1, <1>2, <2>1
<1>3. CASE kind = "restarts"
  <2>1. budget'["restarts"] = budget["restarts"] - 1
        /\ budget'["events"] = budget["events"]
    BY <1>1, <1>3 DEF ServiceTypeOK
  <2> QED
    BY <1>1, <1>3, <2>1
<1> QED
  BY <1>2, <1>3

LEMMA FaultIsNoInterruption ==
  ASSUME ServiceTypeOK, Spend("faults") \/ UNCHANGED budget
  PROVE  (budget["events"] + budget["restarts"])'
            = budget["events"] + budget["restarts"]
<1>1. budget'["events"] = budget["events"] /\ budget'["restarts"] = budget["restarts"]
  BY DEF ServiceTypeOK, Spend
<1> QED
  BY <1>1

\* The owners are unchanged if the locks are.
LEMMA SameOwners ==
  ASSUME \A r \in Readers : lock'[r].holder = lock[r].holder
  PROVE  [r \in Readers |-> lock[r].holder]' = [r \in Readers |-> lock[r].holder]
  OBVIOUS

-----------------------------------------------------------------------------
(* Steps of a client that are steps of ExclusiveCard.                      *)

\* A step that touches neither locks nor answers, nor what may interrupt.
LEMMA Stutters ==
  ASSUME IInv, UNCHANGED <<lock, answering>>, Spend("faults") \/ UNCHANGED budget
  PROVE  UNCHANGED Exclusive!exclusiveVars
  BY FaultIsNoInterruption, SameOwners DEF IInv, TypeOK, Exclusive!exclusiveVars

\* A step after which some cards have no owner any more.
LEMMA Releases ==
  ASSUME IInv, UNCHANGED answering, Spend("faults") \/ UNCHANGED budget,
         \A r \in Readers : lock'[r].holder \in {lock[r].holder, Null}
  PROVE  Exclusive!Next
<1> DEFINE K == {r \in Readers : lock'[r].holder = Null}
<1>1. [r \in Readers |-> lock[r].holder]'
        = [k \in Readers |-> IF k \in K THEN Null
                             ELSE [r \in Readers |-> lock[r].holder][k]]
  OBVIOUS
<1>2. Exclusive!Release(K)
  BY <1>1, FaultIsNoInterruption DEF Exclusive!Release, IInv, TypeOK
<1>3. K \in SUBSET Readers
  OBVIOUS
<1> HIDE DEF K
<1> QED
  BY <1>2, <1>3 DEF Exclusive!Next, Exclusive!Release

\* Closing handles gives their cards up.
LEMMA ClosingReleases ==
  ASSUME IInv, NEW H, CloseHandles(H) \/ UNCHANGED <<handle, lock>>,
         UNCHANGED answering, Spend("faults") \/ UNCHANGED budget
  PROVE  Exclusive!Next
<1>1. \A r \in Readers : lock'[r].holder \in {lock[r].holder, Null}
  BY DEF CloseHandles, FreeLock
<1> QED
  BY <1>1, Releases

LEMMA ClosingStepRefines ==
  ASSUME IInv, NEW c \in Clients,
         \/ EnumerateNothing(c)
         \/ \E r \in Readers : DropReader(c, r)
         \/ RejectProtocol(c)
         \/ DestroyCard(c)
  PROVE  [Exclusive!Next]_(Exclusive!exclusiveVars)
<1>1. CASE EnumerateNothing(c)
  BY <1>1, ClosingReleases
     DEF EnumerateNothing, DestroyContext, SCardReleaseContext
<1>2. ASSUME NEW r \in Readers, DropReader(c, r)
      PROVE  [Exclusive!Next]_(Exclusive!exclusiveVars)
  <2>1. CASE LastReferenceGone(c, r)
    BY <1>2, <2>1, ClosingReleases
       DEF DropReader, DestroyContext, SCardReleaseContext
  <2>2. CASE ~LastReferenceGone(c, r)
    BY <1>2, <2>2, Stutters DEF DropReader, serviceVars
  <2> QED
    BY <2>1, <2>2
<1>3. CASE RejectProtocol(c)
  BY <1>3, ClosingReleases
     DEF RejectProtocol, UnwindConstructor, DestroyCardImpl, SCardDisconnect
<1>4. CASE DestroyCard(c)
  BY <1>4, ClosingReleases DEF DestroyCard, DestroyCardImpl, SCardDisconnect
<1> QED
  BY <1>1, <1>2, <1>3, <1>4

LEMMA QuietStepRefines ==
  ASSUME IInv, NEW c \in Clients,
         \/ EstablishContext(c)
         \/ EnumerateReaders(c)
         \/ \E r \in Readers : ConnectCard(c, r)
         \/ ConstructCard(c)
         \/ BeginTransaction(c)
         \/ BeginRefused(c)
         \/ BeginFailed(c)
         \/ ChainBroken(c)
  PROVE  UNCHANGED Exclusive!exclusiveVars
<1>1. UNCHANGED <<lock, answering>> /\ (Spend("faults") \/ UNCHANGED budget)
  BY DEF EstablishContext, EnumerateReaders, ConnectCard, ConstructCard,
         BeginTransaction, BeginRefused, BeginFailed, ChainBroken, serviceVars
<1> QED
  BY <1>1, Stutters

LEMMA Acquires ==
  ASSUME IInv, NEW h \in Handles, NEW r \in Readers, lock[r].holder = Null,
         lock'[r].holder = h, \A q \in Readers \ {r} : lock'[q] = lock[q],
         UNCHANGED <<answering, budget>>
  PROVE  Exclusive!Next
<1>1. [q \in Readers |-> lock[q].holder]'
        = [[q \in Readers |-> lock[q].holder] EXCEPT ![r] = h]
  OBVIOUS
<1>2. Exclusive!Acquire(h, r)
  BY <1>1, FaultIsNoInterruption DEF Exclusive!Acquire, IInv, TypeOK
<1> QED
  BY <1>2 DEF Exclusive!Next

\* The outermost guard acquires the card; an inner one stutters.
LEMMA BeginGrantedRefines ==
  ASSUME IInv, NEW c \in Clients, BeginGranted(c)
  PROVE  [Exclusive!Next]_(Exclusive!exclusiveVars)
<1> DEFINE h == cardHandle[c]
           r == handle[h].reader
<1>1. h \in Handles /\ r \in Readers
  BY DEF IInv, TypeOK, CallsMatchObjects, HandlesOwned, HasCard, IsOpen,
         BeginGranted, TakeTransaction, SCardBeginTransaction
<1>2. /\ lock[r].holder \in {Null, h}
      /\ lock' = [lock EXCEPT ![r] = [holder |-> h, depth |-> @.depth + 1]]
      /\ UNCHANGED <<answering, budget>>
  BY DEF BeginGranted, TakeTransaction, SCardBeginTransaction
<1>3. /\ lock'[r].holder = h
      /\ \A q \in Readers \ {r} : lock'[q] = lock[q]
  BY <1>1, <1>2 DEF IInv, TypeOK, ServiceTypeOK
<1> HIDE DEF h, r
<1>4. CASE lock[r].holder = Null
  BY <1>1, <1>2, <1>3, <1>4, Acquires
<1>5. CASE lock[r].holder = h
  <2>1. \A q \in Readers : lock'[q].holder = lock[q].holder
    BY <1>3, <1>5
  <2> QED
    BY <1>2, <2>1, SameOwners, FaultIsNoInterruption
       DEF IInv, TypeOK, Exclusive!exclusiveVars
<1> QED
  BY <1>2, <1>4, <1>5

\* A guard may end the last level of its handle's transaction.
LEMMA EndTransactionRefines ==
  ASSUME IInv, NEW c \in Clients, EndTransaction(c)
  PROVE  Exclusive!Next
<1>1. \A r \in Readers : lock'[r] \in {lock[r], Unlocked(lock[r])}
  BY DEF IInv, TypeOK, ServiceTypeOK, EndTransaction, SCardEndTransaction
<1>2. \A r \in Readers : Unlocked(lock[r]).holder \in {lock[r].holder, Null}
  BY DEF IInv, TypeOK, ServiceTypeOK, Unlocked, FreeLock
<1>3. \A r \in Readers : lock'[r].holder \in {lock[r].holder, Null}
  BY <1>1, <1>2
<1>4. UNCHANGED answering /\ (Spend("faults") \/ UNCHANGED budget)
  BY DEF EndTransaction, SCardEndTransaction
<1> QED
  BY <1>3, <1>4, Releases

LEMMA TransmitRefines ==
  ASSUME IInv, NEW c \in Clients, TransmitCommand(c)
  PROVE  Exclusive!Next
<1> DEFINE h == cardHandle[c]
           r == handle[h].reader
<1>1. PICK n \in 0..MaxChunks : SCardTransmit(h, n)
  BY DEF TransmitCommand
<1>2. h \in Handles /\ r \in Readers /\ lock[r].holder = h
  BY <1>1, TransmitterOwnsCard
     DEF SCardTransmit, TransmitCommand, MayTransmit, CardOf
<1>3. /\ answering' = [answering EXCEPT ![r] = [to |-> h, left |-> n]]
      /\ UNCHANGED <<lock, budget>>
  BY <1>1 DEF SCardTransmit, TransmitCommand
<1> HIDE DEF h, r
<1>4. Exclusive!Command(h, r, n)
  BY <1>2, <1>3, SameOwners, FaultIsNoInterruption
     DEF Exclusive!Command, IInv, TypeOK
<1> QED
  BY <1>2, <1>4 DEF Exclusive!Next

LEMMA GetResponseRefines ==
  ASSUME IInv, NEW c \in Clients, GetResponse(c)
  PROVE  Exclusive!Next
<1> DEFINE h == cardHandle[c]
           r == handle[h].reader
<1>1. /\ IsOpen(h)
      /\ pc[c] = "transmitting"
      /\ answering[r].left > 0
      /\ answering' =
            [answering EXCEPT ![r] = [to |-> h, left |-> answering[r].left - 1]]
      /\ UNCHANGED <<lock, budget>>
  BY DEF GetResponse, SCardTransmit
<1>2. /\ h \in Handles
      /\ r \in Readers
      /\ lock[r].holder = h
      /\ answering[r].to = h
  BY <1>1, TransmitterOwnsCard DEF CardOf
<1>3. answering \in [Readers -> [to : Handles \cup {Null}, left : Nat]]
  BY DEF IInv, TypeOK, ServiceTypeOK
<1> HIDE DEF h, r
<1>4. [to |-> h, left |-> answering[r].left - 1]
        = [answering[r] EXCEPT !.left = @ - 1]
  BY <1>2, <1>3
<1>5. answering' = [answering EXCEPT ![r].left = @ - 1]
  BY <1>1, <1>4
<1>6. Exclusive!Continue(h, r)
  BY <1>1, <1>2, <1>5, SameOwners, FaultIsNoInterruption
     DEF Exclusive!Continue, IInv, TypeOK
<1> QED
  BY <1>2, <1>6 DEF Exclusive!Next

LEMMA ClientStepRefines ==
  ASSUME IInv, NEW c \in Clients, ClientStep(c)
  PROVE  [Exclusive!Next]_(Exclusive!exclusiveVars)
  BY QuietStepRefines, ClosingStepRefines, BeginGrantedRefines,
     EndTransactionRefines, TransmitRefines, GetResponseRefines
     DEF ClientStep

-----------------------------------------------------------------------------
(* Steps of the environment: interruptions, and outsiders.                 *)

LEMMA Interrupts ==
  ASSUME IInv, NEW kind \in {"events", "restarts"}, Spend(kind),
         NEW K \in SUBSET Readers, NEW F \in SUBSET K,
         answering' = [k \in Readers |-> IF k \in K THEN NoAnswer ELSE answering[k]],
         \A k \in Readers :
            lock'[k].holder = IF k \in F THEN Null ELSE lock[k].holder
  PROVE  Exclusive!Next
<1>1. /\ answering' = [k \in Readers |-> IF k \in K THEN Exclusive!Silence
                                                   ELSE answering[k]]
      /\ [r \in Readers |-> lock[r].holder]'
            = [k \in Readers |-> IF k \in F THEN Null
                                 ELSE [r \in Readers |-> lock[r].holder][k]]
  BY DEF Exclusive!Silence, NoAnswer
<1>2. /\ budget["events"] + budget["restarts"] > 0
      /\ (budget["events"] + budget["restarts"])'
            = (budget["events"] + budget["restarts"]) - 1
  BY Interruption DEF IInv, TypeOK
<1>3. Exclusive!Interrupt(K, F)
  BY <1>1, <1>2 DEF Exclusive!Interrupt
<1> QED
  BY <1>3 DEF Exclusive!Next

LEMMA EnvironmentStepRefines ==
  ASSUME IInv, EnvironmentStep
  PROVE  [Exclusive!Next]_(Exclusive!exclusiveVars)
<1>1. ASSUME NEW r \in Readers, ResetCard(r)
      PROVE  Exclusive!Next
  <2>1. \A k \in Readers :
          lock'[k].holder = IF k \in {r} THEN Null ELSE lock[k].holder
    BY <1>1 DEF ResetCard, FreeLock, IInv, TypeOK, ServiceTypeOK
  <2>2. answering' = [k \in Readers |-> IF k \in {r} THEN NoAnswer ELSE answering[k]]
    BY <1>1 DEF ResetCard, IInv, TypeOK, ServiceTypeOK
  <2> QED
    BY <1>1, <2>1, <2>2, Interrupts DEF ResetCard
<1>2. ASSUME NEW r \in Readers, RemoveCard(r)
      PROVE  Exclusive!Next
  <2>1. \E F \in SUBSET {r} : \A k \in Readers :
          lock'[k].holder = IF k \in F THEN Null ELSE lock[k].holder
    <3>1. CASE lock' = lock
      <4>1. \A k \in Readers :
              lock'[k].holder = IF k \in {} THEN Null ELSE lock[k].holder
        BY <3>1
      <4> QED
        BY <4>1, {} \in SUBSET {r}
    <3>2. CASE lock' = [lock EXCEPT ![r] = FreeLock]
      <4>1. \A k \in Readers :
              lock'[k].holder = IF k \in {r} THEN Null ELSE lock[k].holder
        BY <3>2 DEF FreeLock, IInv, TypeOK, ServiceTypeOK
      <4> QED
        BY <4>1
    <3> QED
      BY <1>2, <3>1, <3>2 DEF RemoveCard
  <2>2. answering' = [k \in Readers |-> IF k \in {r} THEN NoAnswer ELSE answering[k]]
    BY <1>2 DEF RemoveCard, IInv, TypeOK, ServiceTypeOK
  <2> QED
    BY <1>2, <2>1, <2>2, Interrupts DEF RemoveCard
<1>3. ASSUME NEW r \in Readers, InsertCard(r)
      PROVE  Exclusive!Next
  <2>1. \A k \in Readers :
          lock'[k].holder = IF k \in {} THEN Null ELSE lock[k].holder
    BY <1>3 DEF InsertCard
  <2>2. answering' = [k \in Readers |-> IF k \in {} THEN NoAnswer ELSE answering[k]]
    BY <1>3 DEF InsertCard, IInv, TypeOK, ServiceTypeOK
  <2>3. Spend("events") /\ {} \in SUBSET Readers /\ {} \in SUBSET {}
    BY <1>3 DEF InsertCard
  <2> QED
    BY <2>1, <2>2, <2>3, Interrupts
<1>4. ASSUME NEW r \in Readers, ForeignTransmit(r)
      PROVE  Exclusive!Next
  <2>1. Exclusive!Outsider(r)
    BY <1>4, SameOwners
       DEF ForeignTransmit, Exclusive!Outsider, Exclusive!Silence, NoAnswer
  <2> QED
    BY <2>1 DEF Exclusive!Next
<1>5. CASE RestartService
  <2>1. \A k \in Readers :
          lock'[k].holder = IF k \in Readers THEN Null ELSE lock[k].holder
    BY <1>5 DEF RestartService, CloseHandles, FreeLock, IInv, TypeOK, ServiceTypeOK
  <2>2. answering' =
          [k \in Readers |-> IF k \in Readers THEN NoAnswer ELSE answering[k]]
    BY <1>5 DEF RestartService
  <2> QED
    BY <1>5, <2>1, <2>2, Interrupts DEF RestartService
<1> QED
  BY <1>1, <1>2, <1>3, <1>4, <1>5 DEF EnvironmentStep, Environment

-----------------------------------------------------------------------------
\* The clients together keep what a transaction promises, however many they
\* are: each checks only a flag of its own, and yet commands come from the
\* card's owner alone (SmartCard.cpp:245-260, 283-291).
THEOREM Refinement == Spec => ImplementsExclusiveCard
<1>1. IInv /\ [Next]_vars => [Exclusive!Next]_(Exclusive!exclusiveVars)
  <2> SUFFICES ASSUME IInv, [Next]_vars
               PROVE  [Exclusive!Next]_(Exclusive!exclusiveVars)
    OBVIOUS
  <2>1. CASE Next
    BY <2>1, ClientStepRefines, EnvironmentStepRefines DEF Next
  <2>2. CASE UNCHANGED vars
    BY <2>2, Stutters DEF vars, serviceVars
  <2> QED
    BY <2>1, <2>2
<1> QED
  BY InitRefines, Invariance, <1>1, PTL DEF Spec, ImplementsExclusiveCard, Exclusive!Spec
=============================================================================
