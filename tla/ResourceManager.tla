--------------------------- MODULE ResourceManager ---------------------------
(***************************************************************************)
(* The PC/SC resource manager (pcscd, Winscard) as libpcsc-cpp uses it.    *)
(* It is not part of the library: every operator below is one SCard*       *)
(* function called in src/, or one thing that happens to a card or to the  *)
(* service behind the library's back.                                      *)
(*                                                                         *)
(* The manager keeps contexts, card handles that belong to a context, and  *)
(* for each reader a transaction lock that nests for the handle that holds *)
(* it.  Releasing a context closes the handles opened through it.  A card  *)
(* that is reset or removed makes its handles useless until they are       *)
(* reopened.  Any call may also fail for no reason the caller can see and  *)
(* leave the manager as it was; "faults" bounds how often.                 *)
(***************************************************************************)
EXTENDS Naturals

CONSTANTS
    Contexts,       \* SCARDCONTEXT values
    Handles,        \* SCARDHANDLE values
    Readers,        \* smart card readers attached to the machine
    Null,           \* 0, the null context and the null handle
    MaxChunks,      \* bound: how often a card answers 61xx to one command
    MaxFaults,      \* bound: calls that fail without a visible reason
    MaxEvents,      \* bound: cards reset, removed or inserted
    MaxRestarts     \* bound: restarts of the service

ASSUME NullAssumption == Null \notin Contexts \cup Handles \cup Readers
ASSUME BoundsAssumption ==
    /\ MaxChunks \in Nat
    /\ MaxFaults \in Nat
    /\ MaxEvents \in Nat
    /\ MaxRestarts \in Nat

VARIABLES
    context,        \* is the context established?
    handle,         \* state, context and reader of each handle
    lock,           \* transaction on each reader: holding handle and depth
    inserted,       \* is there a card in the reader?
    answering,      \* the command the card answered last: by which handle it
                    \* was sent (Null: not by the library) and how many parts
                    \* of the answer are still to be fetched
    budget          \* what is left of the bounds

serviceVars == <<context, handle, lock, inserted, answering, budget>>

Bounds == [faults |-> MaxFaults, events |-> MaxEvents, restarts |-> MaxRestarts]

HandleStates == {"closed", "open", "reset", "removed"}
ClosedHandle == [state |-> "closed", ctx |-> Null, reader |-> Null]
FreeLock     == [holder |-> Null, depth |-> 0]
NoAnswer     == [to |-> Null, left |-> 0]

ServiceTypeOK ==
    /\ context \in [Contexts -> BOOLEAN]
    /\ handle \in [Handles -> [state  : HandleStates,
                               ctx    : Contexts \cup {Null},
                               reader : Readers \cup {Null}]]
    /\ lock \in [Readers -> [holder : Handles \cup {Null}, depth : Nat]]
    /\ inserted \in [Readers -> BOOLEAN]
    /\ answering \in [Readers -> [to : Handles \cup {Null}, left : Nat]]
    /\ budget \in [{"faults", "events", "restarts"} -> Nat]

ServiceInit ==
    /\ context = [x \in Contexts |-> FALSE]
    /\ handle = [h \in Handles |-> ClosedHandle]
    /\ lock = [r \in Readers |-> FreeLock]
    /\ inserted = [r \in Readers |-> TRUE]
    /\ answering = [r \in Readers |-> NoAnswer]
    /\ budget = Bounds

IsOpen(h) == handle[h].state = "open"

\* What can no longer be true once a bound has been drawn upon.
NoFaultYet   == budget["faults"] = MaxFaults
NoRestartYet == budget["restarts"] = MaxRestarts

Spend(kind) ==
    /\ budget[kind] > 0
    /\ budget' = [budget EXCEPT ![kind] = @ - 1]

-----------------------------------------------------------------------------
(* The calls.  Each constrains context', handle', lock' and budget' as far  *)
(* as it may change them; answering' and inserted' are left to the caller.  *)

CloseHandles(H) ==
    /\ handle' = [h \in Handles |-> IF h \in H THEN ClosedHandle ELSE handle[h]]
    /\ lock' = [r \in Readers |-> IF lock[r].holder \in H THEN FreeLock ELSE lock[r]]

SCardEstablishContext(x) ==
    context' = [context EXCEPT ![x] = TRUE]

SCardReleaseContext(x) ==
    \/ /\ context' = [context EXCEPT ![x] = FALSE]
       /\ CloseHandles({h \in Handles : handle[h].ctx = x})
       /\ UNCHANGED budget
    \/ /\ Spend("faults")
       /\ UNCHANGED <<context, handle, lock>>

\* SCARD_SHARE_SHARED: other handles to the same card do not matter.
SCardConnect(x, r, h) ==
    /\ x # Null /\ context[x]
    /\ inserted[r]
    /\ handle' = [handle EXCEPT ![h] = [state |-> "open", ctx |-> x, reader |-> r]]

SCardDisconnect(h) ==
    \/ CloseHandles({h}) /\ UNCHANGED budget
    \/ Spend("faults") /\ UNCHANGED <<handle, lock>>

\* The call waits until no other handle has the reader's transaction.
SCardBeginTransaction(h) ==
    LET r == handle[h].reader IN
    /\ IsOpen(h)
    /\ lock[r].holder \in {Null, h}
    /\ lock' = [lock EXCEPT ![r] = [holder |-> h, depth |-> @.depth + 1]]

Unlocked(l) ==
    IF l.depth <= 1 THEN FreeLock ELSE [l EXCEPT !.depth = @ - 1]

\* Without a transaction to end the call fails and changes nothing; on a card
\* that was reset or removed it may do either.
SCardEndTransaction(h) ==
    \/ /\ lock' = [r \in Readers |->
                     IF lock[r].holder = h THEN Unlocked(lock[r]) ELSE lock[r]]
       /\ UNCHANGED budget
    \/ ~IsOpen(h) /\ UNCHANGED <<lock, budget>>
    \/ Spend("faults") /\ UNCHANGED lock

\* A command reaches the card unless another handle has the transaction; the
\* card then has n more parts of its answer to give.
SCardTransmit(h, n) ==
    LET r == handle[h].reader IN
    /\ IsOpen(h)
    /\ lock[r].holder \in {Null, h}
    /\ answering' = [answering EXCEPT ![r] = [to |-> h, left |-> n]]

-----------------------------------------------------------------------------
(* What happens behind the library's back.                                  *)

\* The handles of reader r that are in use become useless for reason s.
Spoil(r, s) ==
    handle' = [h \in Handles |->
                 IF handle[h].reader = r /\ handle[h].state = "open"
                 THEN [handle[h] EXCEPT !.state = s] ELSE handle[h]]

\* Another program resets the card, or Winscard does so because a transaction
\* was idle for too long.
ResetCard(r) ==
    /\ Spend("events")
    /\ inserted[r]
    /\ Spoil(r, "reset")
    /\ lock' = [lock EXCEPT ![r] = FreeLock]
    /\ answering' = [answering EXCEPT ![r] = NoAnswer]
    /\ UNCHANGED <<context, inserted>>

\* pcscd keeps the transaction of a removed card's handle until that handle is
\* closed, Winscard does not.
RemoveCard(r) ==
    /\ Spend("events")
    /\ inserted[r]
    /\ inserted' = [inserted EXCEPT ![r] = FALSE]
    /\ Spoil(r, "removed")
    /\ lock' \in {lock, [lock EXCEPT ![r] = FreeLock]}
    /\ answering' = [answering EXCEPT ![r] = NoAnswer]
    /\ UNCHANGED context

InsertCard(r) ==
    /\ Spend("events")
    /\ ~inserted[r]
    /\ inserted' = [inserted EXCEPT ![r] = TRUE]
    /\ UNCHANGED <<context, handle, lock, answering>>

\* A program that does not use the library, nor transactions, sends a command.
ForeignTransmit(r) ==
    /\ inserted[r]
    /\ lock[r].holder = Null
    /\ answering' = [answering EXCEPT ![r] = NoAnswer]
    /\ UNCHANGED <<context, handle, lock, inserted, budget>>

RestartService ==
    /\ Spend("restarts")
    /\ context' = [x \in Contexts |-> FALSE]
    /\ CloseHandles(Handles)
    /\ answering' = [r \in Readers |-> NoAnswer]
    /\ UNCHANGED inserted

Environment ==
    \/ \E r \in Readers : \/ ResetCard(r)
                          \/ RemoveCard(r)
                          \/ InsertCard(r)
                          \/ ForeignTransmit(r)
    \/ RestartService
=============================================================================
