------------------------------ MODULE FlagSet ------------------------------
(***************************************************************************)
(* What the library uses of flag_set: a std::bitset with a bit for each    *)
(* enumerator, made without flags or with one, and in which flags are set. *)
(* The enumerators have different numbers, so they stand for the bits.     *)
(***************************************************************************)

CONSTANT Enum       \* the enumerators before the sentinel _

FlagSets   == [Enum -> BOOLEAN]
Members(f) == {e \in Enum : f[e]}

NoFlags        == [e \in Enum |-> FALSE]
FlagSetOf(val) == [NoFlags EXCEPT ![val] = TRUE]

\* set(val) for every val of vals.
Set(f, vals)   == [e \in Enum |-> f[e] \/ e \in vals]
=============================================================================
