---------------------------- MODULE MCCardSession ----------------------------
(***************************************************************************)
(* Instances of CardSession for TLC.                                       *)
(***************************************************************************)
EXTENDS CardSession, TLC

\* Clients, handles and contexts are told apart by nothing but their identity.
Symmetry == Permutations(Clients) \cup Permutations(Handles)
            \cup Permutations(Contexts)

\* As Symmetry, for instances with several readers.
ReaderSymmetry == Symmetry \cup Permutations(Readers)
=============================================================================
