--------------------------- MODULE OwnershipProofs ---------------------------
(***************************************************************************)
(* Whose the handles and contexts are: what CardSession promises of them,  *)
(* for any number of clients, readers, handles and contexts and any value  *)
(* of the bounds.  No program takes them from another, none is lost but by *)
(* a failed call, and a program that keeps a Reader keeps its card.        *)
(***************************************************************************)
EXTENDS CardSessionProofs, FiniteSetTheorems

-----------------------------------------------------------------------------
(* ContextsOwned: steps sorted by what they do to contexts and handles.     *)

LEMMA InitSessionInv == Init => SessionInv
  BY InitIInv, BoundsAssumption
     DEF Init, SessionInv, ContextsOwned, ReadersShareContext, WithinBounds,
         HasCard, ServiceInit, Bounds

\* A step that establishes and releases nothing, gives no handle to anybody and
\* opens none.
LEMMA SameContexts ==
  ASSUME IInv, ContextsOwned, UNCHANGED <<context, contextHandle>>,
         \A c \in Clients : cardHandle'[c] \in {cardHandle[c], Null},
         \A h \in Handles :
            \/ handle'[h] \in {ClosedHandle, handle[h]}
            \/ /\ handle[h].state # "closed"
               /\ handle'[h].state # "closed"
               /\ handle'[h].ctx = handle[h].ctx
  PROVE  ContextsOwned'
<1>1. \A h \in Handles :
        \/ handle'[h] = ClosedHandle
        \/ /\ handle'[h].state # "closed"
           /\ handle'[h].ctx \in Contexts
           /\ context'[handle'[h].ctx]
  BY DEF ContextsOwned, ClosedHandle
<1>2. \A h \in Handles :
        handle'[h].state # "closed" =>
           handle[h].state # "closed" /\ handle'[h].ctx = handle[h].ctx
  BY DEF ClosedHandle
<1>3. \A c, d \in Clients :
        /\ c # d
        /\ HasCard(c)'
        /\ handle'[cardHandle'[c]].state # "closed"
        => handle'[cardHandle'[c]].ctx # contextHandle'[d]
  BY <1>2 DEF ContextsOwned, HasCard, IInv, TypeOK
<1> QED
  BY <1>1, <1>3 DEF ContextsOwned

\* Releasing a context closes the handles that need it.
LEMMA ContextReleased ==
  ASSUME IInv, ContextsOwned, NEW c \in Clients, DestroyContext(c),
         UNCHANGED cardHandle
  PROVE  ContextsOwned'
<1> DEFINE x == contextHandle[c]
<1>1. contextHandle' = [contextHandle EXCEPT ![c] = Null]
  BY DEF DestroyContext
<1>2. \A h \in Handles :
        \/ handle'[h] = ClosedHandle
        \/ /\ handle'[h] = handle[h]
           /\ handle[h].ctx \in Contexts => context'[handle[h].ctx] = context[handle[h].ctx]
  BY DEF DestroyContext, SCardReleaseContext, CloseHandles, IInv, TypeOK,
         ServiceTypeOK
<1>3. \A d, e \in Clients :
        d # e /\ contextHandle'[d] # Null => contextHandle'[d] # contextHandle'[e]
  BY <1>1 DEF ContextsOwned, IInv, TypeOK
<1>4. \A h \in Handles :
        \/ handle'[h] = ClosedHandle
        \/ /\ handle'[h].state # "closed"
           /\ handle'[h].ctx \in Contexts
           /\ context'[handle'[h].ctx]
  BY <1>2 DEF ContextsOwned
<1>5. \A d, e \in Clients :
        /\ d # e
        /\ HasCard(d)'
        /\ handle'[cardHandle'[d]].state # "closed"
        => handle'[cardHandle'[d]].ctx # contextHandle'[e]
  <2> SUFFICES ASSUME NEW d \in Clients, NEW e \in Clients, d # e, HasCard(d),
                      handle'[cardHandle[d]].state # "closed"
               PROVE  handle'[cardHandle[d]].ctx # contextHandle'[e]
    BY DEF HasCard
  <2>1. cardHandle[d] \in Handles
    BY DEF HasCard, IInv, TypeOK
  <2>2. /\ handle'[cardHandle[d]] = handle[cardHandle[d]]
        /\ handle[cardHandle[d]].ctx \in Contexts
    BY <1>2, <2>1 DEF ContextsOwned, ClosedHandle
  <2>3. handle[cardHandle[d]].ctx # Null
    BY <2>2, NullAssumption
  <2>4. contextHandle'[e] \in {contextHandle[e], Null}
    BY <1>1 DEF IInv, TypeOK
  <2> QED
    BY <2>2, <2>3, <2>4 DEF ContextsOwned
<1> QED
  BY <1>3, <1>4, <1>5 DEF ContextsOwned

LEMMA ContextEstablished ==
  ASSUME IInv, ContextsOwned, NEW c \in Clients, EstablishContext(c)
  PROVE  ContextsOwned'
<1>1. PICK x \in Contexts \ HeldContexts :
         /\ ~context[x]
         /\ context' = [context EXCEPT ![x] = TRUE]
         /\ contextHandle' = [contextHandle EXCEPT ![c] = x]
         /\ UNCHANGED <<handle, cardHandle>>
  BY DEF EstablishContext, SCardEstablishContext
<1>2. x # Null /\ \A d \in Clients : contextHandle[d] # x
  BY <1>1, NullAssumption DEF HeldContexts
<1>3. \A h \in Handles :
        handle[h].state # "closed" => handle[h].ctx # x /\ context'[handle[h].ctx]
  BY <1>1 DEF ContextsOwned, ClosedHandle, IInv, TypeOK, ServiceTypeOK
<1>4. \A d \in Clients : contextHandle'[d] = IF d = c THEN x ELSE contextHandle[d]
  BY <1>1 DEF IInv, TypeOK
<1>5. \A d, e \in Clients :
        d # e /\ contextHandle'[d] # Null => contextHandle'[d] # contextHandle'[e]
  BY <1>2, <1>4 DEF ContextsOwned
<1>6. \A h \in Handles :
        \/ handle'[h] = ClosedHandle
        \/ /\ handle'[h].state # "closed"
           /\ handle'[h].ctx \in Contexts
           /\ context'[handle'[h].ctx]
  BY <1>1, <1>3 DEF ContextsOwned
<1>7. \A d, e \in Clients :
        /\ d # e
        /\ HasCard(d)'
        /\ handle'[cardHandle'[d]].state # "closed"
        => handle'[cardHandle'[d]].ctx # contextHandle'[e]
  BY <1>1, <1>3, <1>4 DEF ContextsOwned, HasCard, IInv, TypeOK
<1> QED
  BY <1>5, <1>6, <1>7 DEF ContextsOwned

\* A card is connected through its program's own context.
LEMMA CardConnected ==
  ASSUME IInv, ContextsOwned, NEW c \in Clients, NEW r \in Readers,
         ConnectCard(c, r)
  PROVE  ContextsOwned'
<1>1. PICK h \in Handles \ HeldHandles :
         /\ handle[h].state = "closed"
         /\ contextHandle[c] # Null /\ context[contextHandle[c]]
         /\ handle' = [handle EXCEPT ![h] = [state  |-> "open",
                                            ctx    |-> contextHandle[c],
                                            reader |-> r]]
         /\ cardHandle' = [cardHandle EXCEPT ![c] = h]
         /\ UNCHANGED <<context, contextHandle>>
  BY DEF ConnectCard, SCardConnect
<1>2. contextHandle[c] \in Contexts
  BY <1>1 DEF IInv, TypeOK
<1>3. \A g \in Handles : handle'[g] = IF g = h THEN [state  |-> "open",
                                                    ctx    |-> contextHandle[c],
                                                    reader |-> r]
                                     ELSE handle[g]
  BY <1>1 DEF IInv, TypeOK, ServiceTypeOK
<1>4. \A d \in Clients : cardHandle[d] # h
  BY <1>1, NullAssumption DEF HeldHandles
<1>5. \A d \in Clients : cardHandle'[d] = IF d = c THEN h ELSE cardHandle[d]
  BY <1>1 DEF IInv, TypeOK
<1>6. \A g \in Handles :
        \/ handle'[g] = ClosedHandle
        \/ /\ handle'[g].state # "closed"
           /\ handle'[g].ctx \in Contexts
           /\ context'[handle'[g].ctx]
  BY <1>1, <1>2, <1>3 DEF ContextsOwned
<1>7. \A d, e \in Clients :
        /\ d # e
        /\ HasCard(d)'
        /\ handle'[cardHandle'[d]].state # "closed"
        => handle'[cardHandle'[d]].ctx # contextHandle'[e]
  <2> SUFFICES ASSUME NEW d \in Clients, NEW e \in Clients, d # e, HasCard(d)',
                      handle'[cardHandle'[d]].state # "closed"
               PROVE  handle'[cardHandle'[d]].ctx # contextHandle[e]
    BY <1>1
  <2>1. CASE d = c
    BY <1>1, <1>3, <1>5, <2>1 DEF ContextsOwned
  <2>2. CASE d # c
    BY <1>3, <1>4, <1>5, <2>2 DEF ContextsOwned, HasCard, IInv, TypeOK
  <2> QED
    BY <2>1, <2>2
<1> QED
  BY <1>1, <1>6, <1>7 DEF ContextsOwned

LEMMA ClientStepKeepsContextsOwned ==
  ASSUME IInv, ContextsOwned, NEW c \in Clients, ClientStep(c)
  PROVE  ContextsOwned'
<1>1. CASE EstablishContext(c)
  BY <1>1, ContextEstablished
<1>2. CASE EnumerateNothing(c)
  BY <1>2, ContextReleased DEF EnumerateNothing
<1>3. ASSUME NEW r \in Readers, DropReader(c, r)
      PROVE  ContextsOwned'
  <2>1. CASE LastReferenceGone(c, r)
    BY <1>3, <2>1, ContextReleased DEF DropReader
  <2>2. CASE ~LastReferenceGone(c, r)
    BY <1>3, <2>2, SameContexts DEF DropReader, serviceVars
  <2> QED
    BY <2>1, <2>2
<1>4. ASSUME NEW r \in Readers, ConnectCard(c, r)
      PROVE  ContextsOwned'
  BY <1>4, CardConnected
<1>5. CASE RejectProtocol(c) \/ DestroyCard(c)
  <2>1. /\ DestroyCardImpl(c)
        /\ UNCHANGED contextHandle
    BY <1>5 DEF RejectProtocol, UnwindConstructor, DestroyCard
  <2>2. \A h \in Handles : handle'[h] \in {ClosedHandle, handle[h]}
    BY <2>1 DEF DestroyCardImpl, SCardDisconnect, CloseHandles
  <2>3. UNCHANGED context /\ \A d \in Clients : cardHandle'[d] \in {cardHandle[d], Null}
    BY <2>1 DEF DestroyCardImpl, IInv, TypeOK
  <2> QED
    BY <2>1, <2>2, <2>3, SameContexts
<1>6. CASE \/ EnumerateReaders(c) \/ ConstructCard(c) \/ BeginTransaction(c)
           \/ BeginGranted(c) \/ BeginRefused(c) \/ BeginFailed(c)
           \/ EndTransaction(c) \/ TransmitCommand(c) \/ GetResponse(c)
           \/ ChainBroken(c)
  <2>1. UNCHANGED <<context, handle, contextHandle, cardHandle>>
    BY <1>6 DEF EnumerateReaders, ConstructCard, BeginTransaction, BeginGranted,
                BeginRefused, BeginFailed, EndTransaction, TransmitCommand,
                GetResponse, ChainBroken, serviceVars
  <2> QED
    BY <2>1, SameContexts
<1> QED
  BY <1>1, <1>2, <1>3, <1>4, <1>5, <1>6 DEF ClientStep

LEMMA EnvironmentStepKeepsContextsOwned ==
  ASSUME IInv, ContextsOwned, EnvironmentStep
  PROVE  ContextsOwned'
<1>1. UNCHANGED <<contextHandle, cardHandle>>
  BY DEF EnvironmentStep, clientVars
<1>2. ASSUME NEW r \in Readers, ResetCard(r) \/ RemoveCard(r)
      PROVE  ContextsOwned'
  <2>1. UNCHANGED context /\ \E s \in {"reset", "removed"} : Spoil(r, s)
    BY <1>2 DEF ResetCard, RemoveCard
  <2>2. \A h \in Handles :
          \/ handle'[h] \in {ClosedHandle, handle[h]}
          \/ /\ handle[h].state # "closed"
             /\ handle'[h].state # "closed"
             /\ handle'[h].ctx = handle[h].ctx
    BY <2>1 DEF Spoil, IInv, TypeOK, ServiceTypeOK
  <2> QED
    BY <1>1, <2>1, <2>2, SameContexts
<1>3. ASSUME NEW r \in Readers, InsertCard(r) \/ ForeignTransmit(r)
      PROVE  ContextsOwned'
  BY <1>1, <1>3, SameContexts DEF InsertCard, ForeignTransmit
<1>4. CASE RestartService
  <2>1. \A h \in Handles : handle'[h] = ClosedHandle
    BY <1>4 DEF RestartService, CloseHandles
  <2> QED
    BY <1>1, <2>1 DEF ContextsOwned, ClosedHandle, HasCard, IInv, TypeOK
<1> QED
  BY <1>2, <1>3, <1>4 DEF EnvironmentStep, Environment

-----------------------------------------------------------------------------
(* ReadersShareContext and WithinBounds.                                    *)

\* What concerns a client's own listing does not change in steps of others.
LEMMA SameListing ==
  ASSUME ReadersShareContext, UNCHANGED <<contextHandle, readers>>,
         \A c \in Clients : pc'[c] = "listing" => pc[c] = "listing",
         \A c \in Clients : cardHandle'[c] \in {cardHandle[c], Null}
  PROVE  ReadersShareContext'
  BY DEF ReadersShareContext, HasCard

LEMMA ClientStepKeepsReaders ==
  ASSUME IInv, ReadersShareContext, NEW c \in Clients, ClientStep(c)
  PROVE  ReadersShareContext'
<1>1. CASE EstablishContext(c)
  <2>1. PICK x \in Contexts : contextHandle' = [contextHandle EXCEPT ![c] = x]
    BY <1>1 DEF EstablishContext
  <2>2. x # Null /\ contextHandle[c] = Null /\ pc[c] = "idle"
    BY <1>1, NullAssumption DEF EstablishContext, Idle
  <2>3. pc' = [pc EXCEPT ![c] = "listing"] /\ UNCHANGED <<readers, cardHandle>>
    BY <1>1 DEF EstablishContext, Goto
  <2> QED
    BY <2>1, <2>2, <2>3 DEF ReadersShareContext, HasCard, IInv, TypeOK
<1>2. CASE EnumerateReaders(c)
  BY <1>2 DEF EnumerateReaders, Goto, ReadersShareContext, HasCard, IInv, TypeOK
<1>3. CASE EnumerateNothing(c)
  BY <1>3 DEF EnumerateNothing, DestroyContext, Goto, ReadersShareContext, HasCard,
              IInv, TypeOK
<1>4. ASSUME NEW r \in Readers, DropReader(c, r)
      PROVE  ReadersShareContext'
  BY <1>4 DEF DropReader, LastReferenceGone, DestroyContext, Idle,
              ReadersShareContext, HasCard, IInv, TypeOK
<1>5. ASSUME NEW r \in Readers, ConnectCard(c, r)
      PROVE  ReadersShareContext'
  BY <1>5 DEF ConnectCard, Goto, ReadersShareContext, HasCard, IInv, TypeOK
<1>6. CASE RejectProtocol(c) \/ DestroyCard(c)
  BY <1>6, SameListing
     DEF RejectProtocol, UnwindConstructor, DestroyCard, DestroyCardImpl, Goto,
         IInv, TypeOK
<1>7. CASE \/ ConstructCard(c) \/ BeginTransaction(c)
           \/ BeginGranted(c) \/ BeginRefused(c) \/ BeginFailed(c)
           \/ EndTransaction(c) \/ TransmitCommand(c) \/ GetResponse(c)
           \/ ChainBroken(c)
  <2>1. UNCHANGED <<contextHandle, readers, cardHandle>>
    BY <1>7 DEF ConstructCard, BeginTransaction, BeginGranted, BeginRefused,
                BeginFailed, EndTransaction, TransmitCommand, GetResponse,
                ChainBroken
  <2>2. UNCHANGED pc \/ \E call \in Calls \ {"listing"} : Goto(c, call)
    BY <1>7 DEF ConstructCard, BeginTransaction, BeginGranted, BeginRefused,
                BeginFailed, EndTransaction, TransmitCommand, GetResponse,
                ChainBroken, GiveUp, Calls
  <2> QED
    BY <2>1, <2>2, SameListing DEF Goto, IInv, TypeOK
<1> QED
  BY <1>1, <1>2, <1>3, <1>4, <1>5, <1>6, <1>7 DEF ClientStep

\* A budget is only ever spent, and a client spends for failed calls alone.
LEMMA StepSpends ==
  ASSUME IInv, Next
  PROVE  UNCHANGED budget \/ \E kind \in {"faults", "events", "restarts"} : Spend(kind)
<1>1. ASSUME NEW c \in Clients, ClientStep(c)
      PROVE  UNCHANGED budget \/ Spend("faults")
  BY <1>1 DEF ClientStep, EstablishContext, EnumerateReaders, EnumerateNothing,
     DropReader, DestroyContext, SCardReleaseContext, ConnectCard, ConstructCard,
     RejectProtocol, UnwindConstructor, DestroyCard, DestroyCardImpl,
     SCardDisconnect, BeginTransaction, BeginGranted, BeginRefused, BeginFailed,
     EndTransaction, SCardEndTransaction, TransmitCommand, GetResponse,
     ChainBroken, serviceVars
<1>2. ASSUME EnvironmentStep
      PROVE  UNCHANGED budget \/ \E kind \in {"events", "restarts"} : Spend(kind)
  BY <1>2 DEF EnvironmentStep, Environment, ResetCard, RemoveCard, InsertCard,
              ForeignTransmit, RestartService
<1> QED
  BY <1>1, <1>2 DEF Next

LEMMA SpendingStaysWithin ==
  ASSUME ServiceTypeOK, WithinBounds,
         UNCHANGED budget \/ \E kind \in {"faults", "events", "restarts"} : Spend(kind)
  PROVE  /\ WithinBounds'
         /\ NoRestartYet' => NoRestartYet /\ budget'["restarts"] = budget["restarts"]
<1>1. /\ budget["faults"] \in Nat /\ budget["restarts"] \in Nat
      /\ MaxFaults \in Nat /\ MaxRestarts \in Nat
  BY BoundsAssumption DEF ServiceTypeOK
<1>2. /\ budget'["faults"] \in {budget["faults"], budget["faults"] - 1}
      /\ budget'["restarts"] \in {budget["restarts"], budget["restarts"] - 1}
  BY DEF ServiceTypeOK, Spend
<1> QED
  BY <1>1, <1>2 DEF WithinBounds, NoRestartYet

-----------------------------------------------------------------------------
\* The invariant of handles, contexts and Readers holds in every state.
THEOREM SessionInvariance == Spec => []SessionInv
<1>1. SessionInv /\ [Next]_vars => SessionInv'
  <2> SUFFICES ASSUME SessionInv, [Next]_vars
               PROVE  SessionInv'
    OBVIOUS
  <2>1. IInv /\ ContextsOwned /\ ReadersShareContext /\ WithinBounds
    BY DEF SessionInv
  <2>2. ASSUME NEW c \in Clients, ClientStep(c)
        PROVE  SessionInv'
    BY <2>1, <2>2, ClientStepKeepsIInv, ClientStepKeepsContextsOwned,
       ClientStepKeepsReaders, StepSpends, SpendingStaysWithin
       DEF SessionInv, IInv, TypeOK, Next
  <2>3. CASE EnvironmentStep
    <3>1. ReadersShareContext'
      BY <2>1, <2>3, SameListing DEF EnvironmentStep, clientVars
    <3> QED
      BY <2>1, <2>3, <3>1, EnvironmentStepKeepsIInv,
         EnvironmentStepKeepsContextsOwned, StepSpends, SpendingStaysWithin
         DEF SessionInv, IInv, TypeOK, Next
  <2>4. CASE UNCHANGED vars
    <3>1. TypeOK' /\ CallsMatchObjects'
      BY <2>1, <2>4 DEF vars, serviceVars, clientVars, IInv, TypeOK, ServiceTypeOK,
                        CallsMatchObjects, HasCard
    <3>2. IInv'
      BY <2>1, <2>4, <3>1, QuietStep DEF vars, serviceVars, clientVars
    <3>3. ContextsOwned'
      BY <2>1, <2>4, SameContexts DEF vars, serviceVars, clientVars
    <3>4. ReadersShareContext'
      BY <2>1, <2>4, SameListing DEF vars, clientVars
    <3> QED
      BY <2>1, <2>4, <3>2, <3>3, <3>4
         DEF SessionInv, WithinBounds, vars, serviceVars
  <2> QED
    BY <2>2, <2>3, <2>4 DEF Next
<1> QED
  BY InitSessionInv, <1>1, PTL DEF Spec

-----------------------------------------------------------------------------
(* What a client does to others.                                            *)

\* A step of one client changes no other client's objects, and a step of the
\* environment nobody's.
LEMMA OwnObjectsOnly ==
  ASSUME IInv, NEW c \in Clients, ClientStep(c), NEW d \in Clients, d # c
  PROVE  UNCHANGED ObjectsOf(d)
<1>1. /\ contextHandle'[d] = contextHandle[d]
      /\ readers'[d] = readers[d]
      /\ cardHandle'[d] = cardHandle[d]
      /\ guards'[d] = guards[d]
      /\ pc'[d] = pc[d]
  BY DEF IInv, TypeOK, ClientStep, EstablishContext, EnumerateReaders,
     EnumerateNothing, DropReader, DestroyContext, ConnectCard, ConstructCard,
     RejectProtocol, UnwindConstructor, DestroyCard, DestroyCardImpl,
     BeginTransaction, BeginGranted, BeginRefused, BeginFailed, GiveUp,
     EndTransaction, TransmitCommand, GetResponse, ChainBroken, Goto
<1> QED
  BY <1>1 DEF ObjectsOf

\* Closing handles other than a client's own.
LEMMA ClosingLeavesAlone ==
  ASSUME IInv, NEW c \in Clients, HasCard(c), NEW H,
         CloseHandles(H) \/ UNCHANGED <<handle, lock>>,
         cardHandle[c] \in H => handle[cardHandle[c]] = ClosedHandle,
         UNCHANGED answering
  PROVE  Undisturbed(c)
<1>1. cardHandle[c] \in Handles
  BY DEF HasCard, IInv, TypeOK
<1>2. handle'[cardHandle[c]] = handle[cardHandle[c]]
  BY <1>1 DEF CloseHandles
<1>3. ASSUME guards[c] > 0, Usable(c)
      PROVE  lock'[CardOf(c)] = lock[CardOf(c)]
  <2>1. cardHandle[c] \notin H
    BY <1>3 DEF Usable, IsOpen, ClosedHandle
  <2>2. CardOf(c) \in Readers /\ lock[CardOf(c)].holder = cardHandle[c]
    BY <1>1, <1>3 DEF IInv, HandlesOwned, GuardHoldsCard, Usable, IsOpen, CardOf
  <2> QED
    BY <2>1, <2>2 DEF CloseHandles
<1> QED
  BY <1>2, <1>3 DEF Undisturbed

\* A step that touches no handle, lock or answer but those of the client's own.
LEMMA UsingLeavesAlone ==
  ASSUME IInv, NEW c \in Clients, HasCard(c), UNCHANGED handle,
         \A r \in Readers : lock[r].holder = cardHandle[c] =>
            lock'[r] = lock[r] /\ answering'[r] = answering[r]
  PROVE  Undisturbed(c)
<1>1. ASSUME guards[c] > 0, Usable(c)
      PROVE  CardOf(c) \in Readers /\ lock[CardOf(c)].holder = cardHandle[c]
  BY <1>1 DEF IInv, TypeOK, HandlesOwned, GuardHoldsCard, Usable, IsOpen, CardOf,
              HasCard
<1> QED
  BY <1>1 DEF Undisturbed, IInv, CallsMatchObjects

LEMMA ClientLeavesAlone ==
  ASSUME SessionInv, NEW c \in Clients, HasCard(c),
         NEW d \in Clients, d # c, ClientStep(d)
  PROVE  Undisturbed(c)
<1>1. /\ IInv
      /\ ContextsOwned
      /\ ReadersShareContext
      /\ cardHandle[c] \in Handles
      /\ cardHandle[c] # cardHandle[d]
  BY DEF SessionInv, IInv, TypeOK, HandlesOwned, HasCard
<1>2. ASSUME DestroyContext(d)
      PROVE  Undisturbed(c)
  <2> DEFINE H == {h \in Handles : handle[h].ctx = contextHandle[d]}
  <2>1. cardHandle[c] \in H => handle[cardHandle[c]] = ClosedHandle
    BY <1>1 DEF ContextsOwned
  <2>2. /\ CloseHandles(H) \/ UNCHANGED <<handle, lock>>
        /\ UNCHANGED answering
    BY <1>2 DEF DestroyContext, SCardReleaseContext
  <2> QED
    BY <1>1, <2>1, <2>2, ClosingLeavesAlone
<1>3. CASE EnumerateNothing(d)
  BY <1>2, <1>3 DEF EnumerateNothing
<1>4. ASSUME NEW r \in Readers, DropReader(d, r)
      PROVE  Undisturbed(c)
  <2>1. CASE LastReferenceGone(d, r)
    BY <1>2, <1>4, <2>1 DEF DropReader
  <2>2. CASE ~LastReferenceGone(d, r)
    BY <1>1, <1>4, <2>2, UsingLeavesAlone DEF DropReader, serviceVars
  <2> QED
    BY <2>1, <2>2
<1>5. ASSUME NEW r \in Readers, ConnectCard(d, r)
      PROVE  Undisturbed(c)
  <2>1. PICK h \in Handles \ HeldHandles : \E x : handle' = [handle EXCEPT ![h] = x]
    BY <1>5 DEF ConnectCard, SCardConnect
  <2>2. h # cardHandle[c]
    BY <2>1 DEF HeldHandles, HasCard
  <2>3. handle'[cardHandle[c]] = handle[cardHandle[c]]
    BY <1>1, <2>1, <2>2 DEF IInv, TypeOK, ServiceTypeOK
  <2> QED
    BY <1>5, <2>3 DEF ConnectCard, Undisturbed
<1>6. CASE RejectProtocol(d) \/ DestroyCard(d)
  <2>1. /\ CloseHandles({cardHandle[d]}) \/ UNCHANGED <<handle, lock>>
        /\ UNCHANGED answering
    BY <1>6 DEF RejectProtocol, UnwindConstructor, DestroyCard, DestroyCardImpl,
                SCardDisconnect
  <2> QED
    BY <1>1, <2>1, ClosingLeavesAlone
<1>7. CASE BeginGranted(d)
  <2>1. /\ UNCHANGED <<handle, answering>>
        /\ lock[handle[cardHandle[d]].reader].holder \in {Null, cardHandle[d]}
        /\ \A r \in Readers \ {handle[cardHandle[d]].reader} : lock'[r] = lock[r]
    BY <1>1, <1>7
       DEF BeginGranted, TakeTransaction, SCardBeginTransaction, IInv, TypeOK,
           ServiceTypeOK
  <2>2. \A r \in Readers : lock[r].holder = cardHandle[c] => lock'[r] = lock[r]
    BY <1>1, <2>1 DEF HasCard
  <2> QED
    BY <1>1, <2>1, <2>2, UsingLeavesAlone
<1>8. CASE EndTransaction(d)
  <2>1. /\ UNCHANGED <<handle, answering>>
        /\ \A r \in Readers : lock[r].holder # cardHandle[d] => lock'[r] = lock[r]
    BY <1>8 DEF EndTransaction, SCardEndTransaction
  <2> QED
    BY <1>1, <2>1, UsingLeavesAlone
<1>9. CASE TransmitCommand(d) \/ GetResponse(d)
  <2>1. /\ UNCHANGED <<handle, lock>>
        /\ IsOpen(cardHandle[d])
        /\ transactionInProgress[d] \/ pc[d] = "transmitting"
        /\ \E a : answering' = [answering EXCEPT ![CardOf(d)] = a]
    BY <1>9 DEF TransmitCommand, MayTransmit, GetResponse, SCardTransmit, CardOf
  <2>2. lock[CardOf(d)].holder = cardHandle[d]
    BY <1>1, <2>1, TransmitterOwnsCard
  <2>3. \A r \in Readers \ {CardOf(d)} : answering'[r] = answering[r]
    BY <1>1, <2>1 DEF IInv, TypeOK, ServiceTypeOK
  <2>4. \A r \in Readers :
          lock[r].holder = cardHandle[c] => answering'[r] = answering[r]
    BY <1>1, <2>2, <2>3
  <2> QED
    BY <1>1, <2>1, <2>4, UsingLeavesAlone
<1>10. CASE \/ EstablishContext(d) \/ EnumerateReaders(d) \/ ConstructCard(d)
            \/ BeginTransaction(d) \/ BeginRefused(d) \/ BeginFailed(d)
            \/ ChainBroken(d)
  <2>1. UNCHANGED <<handle, lock, answering>>
    BY <1>10 DEF EstablishContext, EnumerateReaders, ConstructCard,
                 BeginTransaction, BeginRefused, BeginFailed, ChainBroken, serviceVars
  <2> QED
    BY <1>1, <2>1, UsingLeavesAlone
<1> QED
  BY <1>3, <1>4, <1>5, <1>6, <1>7, <1>8, <1>9, <1>10 DEF ClientStep

\* No step of one program disturbs another, for any number of them
\* (SmartCard.cpp:107, 183).
THEOREM OthersAreUndisturbed == Spec => OthersUndisturbed
<1>1. SessionInv /\ [Next]_vars => [LeavesOthersAlone]_vars
  <2> SUFFICES ASSUME SessionInv, Next,
                      NEW c \in Clients, NEW d \in Clients, c # d, HasCard(c),
                      ObjectsOf(d)' # ObjectsOf(d)
               PROVE  Undisturbed(c)
    BY DEF LeavesOthersAlone
  <2>1. IInv
    BY DEF SessionInv
  <2>2. CASE EnvironmentStep
    BY <2>2 DEF EnvironmentStep, clientVars, ObjectsOf
  <2>3. ASSUME NEW e \in Clients, ClientStep(e)
        PROVE  Undisturbed(c)
    <3>1. e = d
      BY <2>1, <2>3, OwnObjectsOnly
    <3> QED
      BY <2>3, <3>1, ClientLeavesAlone
  <2> QED
    BY <2>2, <2>3 DEF Next
<1> QED
  BY SessionInvariance, <1>1, PTL DEF Spec, OthersUndisturbed

-----------------------------------------------------------------------------
(* The handle of a card that is in use.                                     *)

\* A program that keeps a Reader has the context, through which it connected,
\* released neither by itself nor by others.
LEMMA ClientStepKeepsLiveCards ==
  ASSUME ReadersOutliveCard, SessionInv,
         \A c \in Clients : HasCard(c) => handle[cardHandle[c]].state # "closed",
         NEW d \in Clients, ClientStep(d)
  PROVE  \A c \in Clients : HasCard(c)' => handle'[cardHandle'[c]].state # "closed"
<1>1. IInv /\ ReadersShareContext
  BY DEF SessionInv
<1>2. ASSUME NEW c \in Clients, c # d, HasCard(c)'
      PROVE  handle'[cardHandle'[c]].state # "closed"
  <2>1. cardHandle'[c] = cardHandle[c]
    BY <1>1, <1>2, OwnObjectsOnly DEF ObjectsOf
  <2>2. HasCard(c)
    BY <1>2, <2>1 DEF HasCard
  <2> QED
    BY <1>2, <2>1, <2>2, ClientLeavesAlone DEF Undisturbed
<1>3. ASSUME HasCard(d)'
      PROVE  handle'[cardHandle'[d]].state # "closed"
  <2>1. CASE EnumerateNothing(d)
    BY <1>1, <1>3, <2>1 DEF EnumerateNothing, ReadersShareContext, HasCard
  <2>2. ASSUME NEW r \in Readers, DropReader(d, r)
        PROVE  handle'[cardHandle'[d]].state # "closed"
    BY <1>3, <2>2 DEF DropReader, LastReferenceGone, serviceVars, HasCard
  <2>3. ASSUME NEW r \in Readers, ConnectCard(d, r)
        PROVE  handle'[cardHandle'[d]].state # "closed"
    <3>1. PICK h \in Handles :
            /\ handle' = [handle EXCEPT ![h] = [state  |-> "open",
                                               ctx    |-> contextHandle[d],
                                               reader |-> r]]
            /\ cardHandle' = [cardHandle EXCEPT ![d] = h]
      BY <2>3 DEF ConnectCard, SCardConnect
    <3>2. cardHandle'[d] = h /\ handle'[h].state = "open"
      BY <1>1, <3>1 DEF IInv, TypeOK, ServiceTypeOK
    <3> QED
      BY <3>2
  <2>4. CASE RejectProtocol(d) \/ DestroyCard(d)
    BY <1>1, <1>3, <2>4
       DEF RejectProtocol, UnwindConstructor, DestroyCard, DestroyCardImpl,
           HasCard, IInv, TypeOK
  <2>5. CASE \/ EstablishContext(d) \/ EnumerateReaders(d) \/ ConstructCard(d)
             \/ BeginTransaction(d) \/ BeginGranted(d) \/ BeginRefused(d)
             \/ BeginFailed(d) \/ EndTransaction(d) \/ TransmitCommand(d)
             \/ GetResponse(d) \/ ChainBroken(d)
    <3>1. UNCHANGED <<handle, cardHandle>>
      BY <2>5 DEF EstablishContext, EnumerateReaders, ConstructCard,
                  BeginTransaction, BeginGranted, BeginRefused, BeginFailed,
                  EndTransaction, TransmitCommand, GetResponse, ChainBroken,
                  serviceVars
    <3> QED
      BY <1>3, <3>1 DEF HasCard
  <2> QED
    BY <2>1, <2>2, <2>3, <2>4, <2>5 DEF ClientStep
<1> QED
  BY <1>2, <1>3

\* Only a restart of the service closes the handle of a card whose program
\* keeps a Reader (SmartCard.cpp:262-264).
THEOREM LiveCardsHaveHandles ==
  ASSUME ReadersOutliveCard
  PROVE  Spec => []LiveCardHasHandle
<1>1. Init => LiveCardHasHandle
  BY DEF Init, LiveCardHasHandle, HasCard
<1>2. SessionInv /\ LiveCardHasHandle /\ [Next]_vars => LiveCardHasHandle'
  <2> SUFFICES ASSUME SessionInv, LiveCardHasHandle, [Next]_vars, NoRestartYet'
               PROVE  \A c \in Clients :
                         HasCard(c)' => handle'[cardHandle'[c]].state # "closed"
    BY DEF LiveCardHasHandle
  <2>1. IInv /\ WithinBounds
    BY DEF SessionInv
  <2>2. /\ NoRestartYet
        /\ budget'["restarts"] = budget["restarts"]
    BY <2>1, StepSpends, SpendingStaysWithin
       DEF IInv, TypeOK, vars, serviceVars
  <2>3. \A c \in Clients : HasCard(c) => handle[cardHandle[c]].state # "closed"
    BY <2>2 DEF LiveCardHasHandle
  <2>4. ASSUME NEW d \in Clients, ClientStep(d)
        PROVE  \A c \in Clients :
                  HasCard(c)' => handle'[cardHandle'[c]].state # "closed"
    BY <2>3, <2>4, ClientStepKeepsLiveCards
  <2>5. CASE EnvironmentStep
    <3>1. ~RestartService
      BY <2>1, <2>2 DEF RestartService, Spend, IInv, TypeOK, ServiceTypeOK
    <3>2. \A h \in Handles :
            handle[h].state # "closed" => handle'[h].state # "closed"
      <4>1. ASSUME NEW r \in Readers, ResetCard(r) \/ RemoveCard(r)
            PROVE  \A h \in Handles :
                      handle[h].state # "closed" => handle'[h].state # "closed"
        <5>1. \E how \in {"reset", "removed"} : Spoil(r, how)
          BY <4>1 DEF ResetCard, RemoveCard
        <5> QED
          BY <2>1, <5>1 DEF Spoil, IInv, TypeOK, ServiceTypeOK
      <4>2. ASSUME NEW r \in Readers, InsertCard(r) \/ ForeignTransmit(r)
            PROVE  UNCHANGED handle
        BY <4>2 DEF InsertCard, ForeignTransmit
      <4> QED
        BY <2>5, <3>1, <4>1, <4>2 DEF EnvironmentStep, Environment
    <3> QED
      BY <2>1, <2>3, <2>5, <3>2
         DEF EnvironmentStep, clientVars, HasCard, IInv, TypeOK
  <2>6. CASE UNCHANGED vars
    BY <2>3, <2>6 DEF vars, serviceVars, clientVars, HasCard
  <2> QED
    BY <2>4, <2>5, <2>6 DEF Next
<1> QED
  BY <1>1, <1>2, SessionInvariance, PTL DEF Spec

-----------------------------------------------------------------------------
(* What nobody will give back.                                              *)

\* Leaks are finitely many, whatever the number of handles, since every one of
\* them was paid for.
LeaksInv ==
    /\ IsFiniteSet(LeakedHandles)
    /\ IsFiniteSet(LeakedContexts)
    /\ LeaksOnlyByFaults

\* A step that leaks nothing, and a failed call that leaks one thing.
LEMMA NothingLeaks ==
  ASSUME ServiceTypeOK, LeaksInv, budget'["faults"] = budget["faults"],
         LeakedHandles' \subseteq LeakedHandles,
         LeakedContexts' \subseteq LeakedContexts
  PROVE  LeaksInv'
<1> DEFINE m == Cardinality(LeakedHandles)
           n == Cardinality(LeakedContexts)
<1>1. /\ IsFiniteSet(LeakedHandles') /\ Cardinality(LeakedHandles') <= m
      /\ IsFiniteSet(LeakedContexts') /\ Cardinality(LeakedContexts') <= n
  BY FS_Subset DEF LeaksInv
<1>2. /\ m \in Nat /\ Cardinality(LeakedHandles') \in Nat
      /\ n \in Nat /\ Cardinality(LeakedContexts') \in Nat
  BY <1>1, FS_CardinalityType DEF LeaksInv
<1>3. budget["faults"] \in Nat /\ MaxFaults \in Nat
  BY BoundsAssumption DEF ServiceTypeOK
<1>4. m + n <= MaxFaults - budget["faults"]
  BY DEF LeaksInv, LeaksOnlyByFaults
<1> HIDE DEF m, n
<1>5. Cardinality(LeakedHandles') + Cardinality(LeakedContexts')
         <= MaxFaults - budget'["faults"]
  BY <1>1, <1>2, <1>3, <1>4
<1> QED
  BY <1>1, <1>5 DEF LeaksInv, LeaksOnlyByFaults

LEMMA OneThingLeaks ==
  ASSUME ServiceTypeOK, LeaksInv, Spend("faults"),
         NEW g, NEW x,
         \/ /\ LeakedHandles' \subseteq LeakedHandles \cup {g}
            /\ LeakedContexts' \subseteq LeakedContexts
         \/ /\ LeakedHandles' \subseteq LeakedHandles
            /\ LeakedContexts' \subseteq LeakedContexts \cup {x}
  PROVE  LeaksInv'
<1> DEFINE m == Cardinality(LeakedHandles)
           n == Cardinality(LeakedContexts)
           f == budget["faults"]
<1>1. f \in Nat /\ f' = f - 1 /\ MaxFaults \in Nat
  BY BoundsAssumption DEF ServiceTypeOK, Spend
<1>2. m \in Nat /\ n \in Nat
  BY FS_CardinalityType DEF LeaksInv
<1>3. /\ IsFiniteSet(LeakedHandles \cup {g})
      /\ Cardinality(LeakedHandles \cup {g}) \in {m, m + 1}
      /\ IsFiniteSet(LeakedContexts \cup {x})
      /\ Cardinality(LeakedContexts \cup {x}) \in {n, n + 1}
  BY FS_AddElement DEF LeaksInv
<1>4. /\ IsFiniteSet(LeakedHandles')
      /\ IsFiniteSet(LeakedContexts')
      /\ \/ Cardinality(LeakedHandles') <= m + 1 /\ Cardinality(LeakedContexts') <= n
         \/ Cardinality(LeakedHandles') <= m /\ Cardinality(LeakedContexts') <= n + 1
  <2>1. CASE /\ LeakedHandles' \subseteq LeakedHandles \cup {g}
             /\ LeakedContexts' \subseteq LeakedContexts
    <3>1. /\ IsFiniteSet(LeakedHandles')
          /\ Cardinality(LeakedHandles') <= Cardinality(LeakedHandles \cup {g})
          /\ IsFiniteSet(LeakedContexts')
          /\ Cardinality(LeakedContexts') <= n
      BY <1>3, <2>1, FS_Subset DEF LeaksInv
    <3>2. Cardinality(LeakedHandles') \in Nat
      BY <3>1, FS_CardinalityType
    <3> QED
      BY <1>2, <1>3, <3>1, <3>2
  <2>2. CASE /\ LeakedHandles' \subseteq LeakedHandles
             /\ LeakedContexts' \subseteq LeakedContexts \cup {x}
    <3>1. /\ IsFiniteSet(LeakedContexts')
          /\ Cardinality(LeakedContexts') <= Cardinality(LeakedContexts \cup {x})
          /\ IsFiniteSet(LeakedHandles')
          /\ Cardinality(LeakedHandles') <= m
      BY <1>3, <2>2, FS_Subset DEF LeaksInv
    <3>2. Cardinality(LeakedContexts') \in Nat
      BY <3>1, FS_CardinalityType
    <3> QED
      BY <1>2, <1>3, <3>1, <3>2
  <2> QED
    BY <2>1, <2>2
<1>5. Cardinality(LeakedHandles') \in Nat /\ Cardinality(LeakedContexts') \in Nat
  BY <1>4, FS_CardinalityType
<1>6. m + n <= MaxFaults - f
  BY DEF LeaksInv, LeaksOnlyByFaults
<1> HIDE DEF m, n
<1>7. Cardinality(LeakedHandles') + Cardinality(LeakedContexts') <= MaxFaults - f'
  BY <1>1, <1>2, <1>4, <1>5, <1>6
<1> QED
  BY <1>4, <1>7 DEF LeaksInv, LeaksOnlyByFaults

\* Held handles and contexts are the client's own and those of the others.
LEMMA ContextDestroyed ==
  ASSUME IInv, LeaksInv, NEW c \in Clients, DestroyContext(c), UNCHANGED cardHandle
  PROVE  LeaksInv'
<1> DEFINE x == contextHandle[c]
<1>1. HeldHandles' = HeldHandles /\ HeldContexts \ {x} \subseteq HeldContexts'
  <2>1. \A d \in Clients : contextHandle[d] = x \/ contextHandle'[d] = contextHandle[d]
    BY DEF DestroyContext, IInv, TypeOK
  <2> QED
    BY <2>1 DEF HeldHandles, HeldContexts
<1>2. CASE /\ context' = [context EXCEPT ![x] = FALSE]
           /\ CloseHandles({h \in Handles : handle[h].ctx = x})
           /\ UNCHANGED budget
  <2>1. \A h \in Handles : handle'[h].state # "closed" => handle[h].state # "closed"
    BY <1>2 DEF CloseHandles, ClosedHandle
  <2>2. \A y \in Contexts : context'[y] => y # x /\ context[y]
    BY <1>2 DEF IInv, TypeOK, ServiceTypeOK
  <2>3. LeakedHandles' \subseteq LeakedHandles
    BY <1>1, <2>1 DEF LeakedHandles
  <2>4. LeakedContexts' \subseteq LeakedContexts
    BY <1>1, <2>2 DEF LeakedContexts
  <2> QED
    BY <1>2, <2>3, <2>4, NothingLeaks DEF IInv, TypeOK
<1>3. CASE Spend("faults") /\ UNCHANGED <<context, handle, lock>>
  <2>1. LeakedHandles' \subseteq LeakedHandles
    BY <1>1, <1>3 DEF LeakedHandles
  <2>2. LeakedContexts' \subseteq LeakedContexts \cup {x}
    BY <1>1, <1>3 DEF LeakedContexts
  <2> QED
    BY <1>3, <2>1, <2>2, OneThingLeaks DEF IInv, TypeOK
<1> QED
  BY <1>2, <1>3 DEF DestroyContext, SCardReleaseContext

LEMMA CardDestroyed ==
  ASSUME IInv, LeaksInv, NEW c \in Clients, DestroyCardImpl(c),
         UNCHANGED contextHandle
  PROVE  LeaksInv'
<1> DEFINE h == cardHandle[c]
<1>1. HeldContexts' = HeldContexts /\ HeldHandles \ {h} \subseteq HeldHandles'
  <2>1. \A d \in Clients : cardHandle[d] = h \/ cardHandle'[d] = cardHandle[d]
    BY DEF DestroyCardImpl, IInv, TypeOK
  <2> QED
    BY <2>1 DEF HeldHandles, HeldContexts
<1>2. LeakedContexts' \subseteq LeakedContexts
  BY <1>1 DEF LeakedContexts, DestroyCardImpl
<1>3. CASE CloseHandles({h}) /\ UNCHANGED budget
  <2>1. \A g \in Handles :
          handle'[g].state # "closed" => g # h /\ handle[g].state # "closed"
    BY <1>3 DEF CloseHandles, ClosedHandle
  <2>2. LeakedHandles' \subseteq LeakedHandles
    BY <1>1, <2>1 DEF LeakedHandles
  <2> QED
    BY <1>2, <1>3, <2>2, NothingLeaks DEF IInv, TypeOK
<1>4. CASE Spend("faults") /\ UNCHANGED <<handle, lock>>
  <2>1. LeakedHandles' \subseteq LeakedHandles \cup {h}
    BY <1>1, <1>4 DEF LeakedHandles
  <2> QED
    BY <1>2, <1>4, <2>1, OneThingLeaks DEF IInv, TypeOK
<1> QED
  BY <1>3, <1>4 DEF DestroyCardImpl, SCardDisconnect

\* What is acquired is held.
LEMMA ContextAcquired ==
  ASSUME IInv, LeaksInv, NEW c \in Clients, EstablishContext(c)
  PROVE  LeaksInv'
<1>1. PICK x \in Contexts :
         /\ context' = [context EXCEPT ![x] = TRUE]
         /\ contextHandle' = [contextHandle EXCEPT ![c] = x]
         /\ contextHandle[c] = Null
         /\ UNCHANGED <<handle, cardHandle, budget>>
  BY DEF EstablishContext, SCardEstablishContext
<1>2. HeldContexts \cup {x} \subseteq HeldContexts'
  <2>1. \A d \in Clients :
          contextHandle[d] # Null => contextHandle'[d] = contextHandle[d]
    BY <1>1 DEF IInv, TypeOK
  <2>2. contextHandle'[c] = x /\ x # Null
    BY <1>1, NullAssumption DEF IInv, TypeOK
  <2> QED
    BY <2>1, <2>2 DEF HeldContexts
<1>3. \A y \in Contexts : context'[y] => y = x \/ context[y]
  BY <1>1 DEF IInv, TypeOK, ServiceTypeOK
<1>4. LeakedContexts' \subseteq LeakedContexts
  BY <1>2, <1>3 DEF LeakedContexts
<1>5. LeakedHandles' \subseteq LeakedHandles
  BY <1>1 DEF LeakedHandles, HeldHandles
<1> QED
  BY <1>1, <1>4, <1>5, NothingLeaks DEF IInv, TypeOK

LEMMA HandleAcquired ==
  ASSUME IInv, LeaksInv, NEW c \in Clients, NEW r \in Readers, ConnectCard(c, r)
  PROVE  LeaksInv'
<1>1. PICK h \in Handles :
         /\ \E v : handle' = [handle EXCEPT ![h] = v]
         /\ cardHandle' = [cardHandle EXCEPT ![c] = h]
         /\ cardHandle[c] = Null
         /\ UNCHANGED <<context, contextHandle, budget>>
  BY DEF ConnectCard, SCardConnect, HasCard
<1>2. HeldHandles \cup {h} \subseteq HeldHandles'
  <2>1. \A d \in Clients : cardHandle[d] # Null => cardHandle'[d] = cardHandle[d]
    BY <1>1 DEF IInv, TypeOK
  <2>2. cardHandle'[c] = h /\ h # Null
    BY <1>1, NullAssumption DEF IInv, TypeOK
  <2> QED
    BY <2>1, <2>2 DEF HeldHandles
<1>3. \A g \in Handles : g = h \/ handle'[g] = handle[g]
  BY <1>1 DEF IInv, TypeOK, ServiceTypeOK
<1>4. LeakedHandles' \subseteq LeakedHandles
  BY <1>2, <1>3 DEF LeakedHandles
<1>5. LeakedContexts' \subseteq LeakedContexts
  BY <1>1 DEF LeakedContexts, HeldContexts
<1> QED
  BY <1>1, <1>4, <1>5, NothingLeaks DEF IInv, TypeOK

\* What nobody holds nobody loses: everything else that happens to contexts and
\* handles closes them.
LEMMA SameHolders ==
  ASSUME IInv, LeaksInv, UNCHANGED <<contextHandle, cardHandle>>,
         \A x \in Contexts : context'[x] => context[x],
         \A h \in Handles : handle'[h].state # "closed" => handle[h].state # "closed",
         UNCHANGED budget \/ \E kind \in {"faults", "events", "restarts"} : Spend(kind)
  PROVE  LeaksInv'
<1>1. LeakedHandles' \subseteq LeakedHandles
  BY DEF LeakedHandles, HeldHandles
<1>2. LeakedContexts' \subseteq LeakedContexts
  BY DEF LeakedContexts, HeldContexts
<1>3. CASE Spend("faults")
  BY <1>1, <1>2, <1>3, OneThingLeaks DEF IInv, TypeOK
<1>4. CASE UNCHANGED budget \/ Spend("events") \/ Spend("restarts")
  <2>1. budget'["faults"] = budget["faults"]
    BY <1>4 DEF Spend, IInv, TypeOK, ServiceTypeOK
  <2> QED
    BY <1>1, <1>2, <2>1, NothingLeaks DEF IInv, TypeOK
<1> QED
  BY <1>3, <1>4

LEMMA ClientStepLeaksByFaults ==
  ASSUME IInv, LeaksInv, NEW c \in Clients, ClientStep(c)
  PROVE  LeaksInv'
<1>1. CASE EstablishContext(c)
  BY <1>1, ContextAcquired
<1>2. CASE EnumerateNothing(c)
  BY <1>2, ContextDestroyed DEF EnumerateNothing
<1>3. ASSUME NEW r \in Readers, DropReader(c, r)
      PROVE  LeaksInv'
  <2>1. CASE LastReferenceGone(c, r)
    BY <1>3, <2>1, ContextDestroyed DEF DropReader
  <2>2. CASE ~LastReferenceGone(c, r)
    BY <1>3, <2>2, SameHolders DEF DropReader, serviceVars
  <2> QED
    BY <2>1, <2>2
<1>4. ASSUME NEW r \in Readers, ConnectCard(c, r)
      PROVE  LeaksInv'
  BY <1>4, HandleAcquired
<1>5. CASE RejectProtocol(c) \/ DestroyCard(c)
  BY <1>5, CardDestroyed DEF RejectProtocol, UnwindConstructor, DestroyCard
<1>6. CASE \/ EnumerateReaders(c) \/ ConstructCard(c) \/ BeginTransaction(c)
           \/ BeginGranted(c) \/ BeginRefused(c) \/ BeginFailed(c)
           \/ EndTransaction(c) \/ TransmitCommand(c) \/ GetResponse(c)
           \/ ChainBroken(c)
  <2>1. UNCHANGED <<context, handle, contextHandle, cardHandle>>
    BY <1>6 DEF EnumerateReaders, ConstructCard, BeginTransaction, BeginGranted,
                BeginRefused, BeginFailed, EndTransaction, TransmitCommand,
                GetResponse, ChainBroken, serviceVars
  <2> QED
    BY <2>1, StepSpends, SameHolders DEF Next
<1> QED
  BY <1>1, <1>2, <1>3, <1>4, <1>5, <1>6 DEF ClientStep

LEMMA EnvironmentStepLeaksNothing ==
  ASSUME IInv, LeaksInv, EnvironmentStep
  PROVE  LeaksInv'
<1>1. /\ \A x \in Contexts : context'[x] => context[x]
      /\ \A h \in Handles : handle'[h].state # "closed" => handle[h].state # "closed"
  <2>1. ASSUME NEW r \in Readers, ResetCard(r) \/ RemoveCard(r)
        PROVE  /\ \A x \in Contexts : context'[x] => context[x]
               /\ \A h \in Handles :
                     handle'[h].state # "closed" => handle[h].state # "closed"
    <3>1. UNCHANGED context /\ \E how \in {"reset", "removed"} : Spoil(r, how)
      BY <2>1 DEF ResetCard, RemoveCard
    <3> QED
      BY <3>1 DEF Spoil, IInv, TypeOK, ServiceTypeOK
  <2>2. ASSUME NEW r \in Readers, InsertCard(r) \/ ForeignTransmit(r)
        PROVE  UNCHANGED <<context, handle>>
    BY <2>2 DEF InsertCard, ForeignTransmit
  <2>3. CASE RestartService
    BY <2>3 DEF RestartService, CloseHandles, ClosedHandle
  <2> QED
    BY <2>1, <2>2, <2>3 DEF EnvironmentStep, Environment
<1> QED
  BY <1>1, StepSpends, SameHolders DEF EnvironmentStep, clientVars, Next

\* Every handle and every context that no object will give back costs one failed
\* call of a destructor, for any number of them (SmartCard.cpp:103-111,
\* Context.hpp:48-56).
THEOREM LeaksAreFaults == Spec => []LeaksOnlyByFaults
<1>1. Init => LeaksInv
  <2> SUFFICES ASSUME Init
               PROVE  LeaksInv
    OBVIOUS
  <2>1. LeakedHandles = {} /\ LeakedContexts = {}
    BY DEF Init, ServiceInit, ClosedHandle, LeakedHandles, LeakedContexts
  <2>2. budget["faults"] = MaxFaults /\ MaxFaults \in Nat
    BY BoundsAssumption DEF Init, ServiceInit, Bounds
  <2> QED
    BY <2>1, <2>2, FS_EmptySet DEF LeaksInv, LeaksOnlyByFaults
<1>2. IInv /\ LeaksInv /\ [Next]_vars => LeaksInv'
  <2> SUFFICES ASSUME IInv, LeaksInv, [Next]_vars
               PROVE  LeaksInv'
    OBVIOUS
  <2>1. CASE Next
    BY <2>1, ClientStepLeaksByFaults, EnvironmentStepLeaksNothing DEF Next
  <2>2. CASE UNCHANGED vars
    BY <2>2, SameHolders DEF vars, serviceVars, clientVars
  <2> QED
    BY <2>1, <2>2
<1>3. LeaksInv => LeaksOnlyByFaults
  BY DEF LeaksInv
<1> QED
  BY <1>1, <1>2, <1>3, Invariance, PTL DEF Spec
=============================================================================
