-------------------------- MODULE MCReaderListing --------------------------
(***************************************************************************)
(* Names of two lengths, for TLC: one reader may or may not make room for  *)
(* another.  Reports with every state that there is, with and without an   *)
(* event count.                                                            *)
(***************************************************************************)
EXTENDS ReaderListing

CONSTANT r1

NameLengths == [r \in Readers |-> IF r = r1 THEN 3 ELSE 2]

FourReports ==
    {[states |-> {"CHANGED", "UNKNOWN", "UNAVAILABLE", "IGNORE"}, count |-> 0],
     [states |-> {"CHANGED", "EMPTY"}, count |-> 3],
     [states |-> {"CHANGED", "PRESENT", "ATRMATCH", "UNPOWERED"}, count |-> 0],
     [states |-> {"CHANGED", "PRESENT", "INUSE", "EXCLUSIVE", "MUTE"}, count |-> 1]}
=============================================================================
