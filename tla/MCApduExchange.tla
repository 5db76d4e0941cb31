--------------------------- MODULE MCApduExchange ---------------------------
(***************************************************************************)
(* Commands and bytes on both sides of every length at which an encoding   *)
(* changes or ends, for TLC.                                               *)
(***************************************************************************)
EXTENDS ApduExchange

Header     == <<0, 164, 4, 12>>
Payload(n) == [i \in 1..n |-> (i + 30) % 256]

MCCommands ==
    {[header |-> Header, data |-> Payload(n), le |-> le] :
        n \in {0, 1, 2, 254, 255, 256}, le \in {0, 1, 255, 256, 257, LE_UNUSED}}

\* Short ones, with a fifth byte that may be Lc, Le or neither, and long ones.
MCCommandBytes ==
    {SubSeq(Header, 1, n) : n \in 1..4}
    \cup {Header \o <<fifth>> \o Payload(n) : fifth \in {0, 1, 2, 3}, n \in 0..4}
    \cup {Header \o <<lc>> \o Payload(n) : lc \in {254, 255}, n \in 254..257}

MCReplies ==
    {<<>>, <<144>>}
    \cup {Payload(n) \o status : n \in {0, 1, 256},
             status \in {APDU_RESPONSE_OK, <<144, 1>>, <<106, 130>>, <<98, 131>>}}

MCExpectations ==
    {APDU_RESPONSE_OK, Payload(1) \o APDU_RESPONSE_OK, <<106, 130>>, <<>>}
=============================================================================
