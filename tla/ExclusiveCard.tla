---------------------------- MODULE ExclusiveCard ----------------------------
(***************************************************************************)
(* What a transaction promises, for every reader: a card that someone owns *)
(* hears commands of its owner only, and what it still has to say answers  *)
(* the last of them, until the owner gives it up or it is interrupted, for *)
(* which there is a bounded number of occasions.                           *)
(***************************************************************************)
EXTENDS Naturals

CONSTANTS Cards, Owners, None, Interruptions, MaxParts

VARIABLES
    owner,      \* who has the card to itself
    dialogue,   \* to whom and in how many parts the card still answers
    calm        \* interruptions that may still happen

exclusiveVars == <<owner, dialogue, calm>>

Silence == [to |-> None, left |-> 0]

Init ==
    /\ owner = [k \in Cards |-> None]
    /\ dialogue = [k \in Cards |-> Silence]
    /\ calm = Interruptions

Acquire(o, k) ==
    /\ owner[k] = None
    /\ owner' = [owner EXCEPT ![k] = o]
    /\ UNCHANGED <<dialogue, calm>>

\* To nobody's card, an outsider may talk.
Outsider(k) ==
    /\ owner[k] = None
    /\ dialogue' = [dialogue EXCEPT ![k] = Silence]
    /\ UNCHANGED <<owner, calm>>

Command(o, k, n) ==
    /\ owner[k] = o
    /\ dialogue' = [dialogue EXCEPT ![k] = [to |-> o, left |-> n]]
    /\ UNCHANGED <<owner, calm>>

\* The next part of the answer goes to the owner, who asked for it.
Continue(o, k) ==
    /\ owner[k] = o
    /\ dialogue[k].to = o
    /\ dialogue[k].left > 0
    /\ dialogue' = [dialogue EXCEPT ![k].left = @ - 1]
    /\ UNCHANGED <<owner, calm>>

Release(K) ==
    /\ owner' = [k \in Cards |-> IF k \in K THEN None ELSE owner[k]]
    /\ UNCHANGED <<dialogue, calm>>

\* Some cards fall silent, and some of those become free.
Interrupt(K, F) ==
    /\ calm > 0
    /\ calm' = calm - 1
    /\ dialogue' = [k \in Cards |-> IF k \in K THEN Silence ELSE dialogue[k]]
    /\ owner' = [k \in Cards |-> IF k \in F THEN None ELSE owner[k]]

Next ==
    \/ \E k \in Cards :
          \/ Outsider(k)
          \/ \E o \in Owners : \/ Acquire(o, k)
                               \/ Continue(o, k)
                               \/ \E n \in 0..MaxParts : Command(o, k, n)
    \/ \E K \in SUBSET Cards : Release(K) \/ \E F \in SUBSET K : Interrupt(K, F)

Spec == Init /\ [][Next]_exclusiveVars
=============================================================================
