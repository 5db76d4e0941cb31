------------------------------ MODULE MCPinPad ------------------------------
(***************************************************************************)
(* Readers with and without a complete PIN pad, for TLC.                   *)
(***************************************************************************)
EXTENDS PinPad

\* None; one control call or two; both; no FINISH; MODIFY only; DIRECT twice.
MCAnnouncements == {<<>>, <<DIRECT>>, <<START, FINISH>>, <<10, FINISH, DIRECT, START>>,
                    <<START>>, <<3, 4>>, <<DIRECT, 18, DIRECT>>}

\* VERIFY without a PIN, with a PIN block to fill in, and one that is too long.
Verify     == <<0, 32, 0, 1>>
MCCommands ==
    {[header |-> Verify, data |-> [i \in 1..n |-> 255], le |-> LE_UNUSED] :
        n \in {0, 8, 256}}
=============================================================================
