---------------------------- MODULE ResponseChain ----------------------------
(***************************************************************************)
(* CardImpl::transmitBytes(): one command, and the GET RESPONSE commands   *)
(* that fetch the rest of its answer while the card says 61xx.             *)
(*                                                                         *)
(* transmitBytes() and getMoreResponseData() call each other, so that      *)
(* every part of the answer is held in a frame of its own until the        *)
(* recursion unwinds.  The frames are kept here as a stack.  What a part   *)
(* contains does not matter: the k-th part is the number k.  The card is   *)
(* external and answers as it likes; a call may also fail.                 *)
(***************************************************************************)
EXTENDS Naturals, Sequences

CONSTANTS
    Lengths,        \* second status bytes: after 61, what is still to come
    MaxReplies      \* bound: how often the card replies to one command

ASSUME ChainAssumption ==
    /\ Lengths \subseteq 0..255
    /\ 0 \in Lengths
    /\ MaxReplies \in Nat \ {0}

VARIABLES
    phase,          \* "send", "return" from transmitBytes(), or "done"
    frames,         \* response.data of each getMoreResponseData() under way
    result,         \* what the innermost transmitBytes() returns
    outcome,        \* of the outermost one: "none", "returned" or "thrown"
    replies,        \* history: the status of every reply of the card
    asked           \* history: Le of every GET RESPONSE

vars == <<phase, frames, result, outcome, replies, asked>>

\* The first status byte, in hexadecimal; "6F" stands for all not listed.
OK                 == "90"
MoreDataAvailable  == "61"
WrongLeLength      == "6C"
ExpectedStatus     == {OK, MoreDataAvailable, "63", "64", "67", "69", "6A",
                       WrongLeLength}
FirstBytes         == ExpectedStatus \cup {"6F"}
Reply              == [sw1 : FirstBytes, sw2 : Lengths]
Response           == [sw1 : FirstBytes, sw2 : Lengths, data : Seq(Nat)]
NoResponse         == [sw1 |-> OK, sw2 |-> 0, data |-> <<>>]

TypeOK ==
    /\ phase \in {"send", "return", "done"}
    /\ frames \in Seq(Seq(Nat))
    /\ result \in Response
    /\ outcome \in {"none", "returned", "thrown"}
    /\ replies \in Seq(Reply)
    /\ asked \in Seq(Lengths)

Init ==
    /\ phase = "send"
    /\ frames = <<>>
    /\ result = NoResponse
    /\ outcome = "none"
    /\ replies = <<>>
    /\ asked = <<>>

-----------------------------------------------------------------------------
\* An exception unwinds all frames, and their parts are gone.
Throw ==
    /\ phase' = "done"
    /\ outcome' = "thrown"
    /\ frames' = <<>>
    /\ result' = NoResponse
    /\ UNCHANGED asked

\* toResponse() lets pass what a caller may want to see, and 61.
PassesWrongLe(sw1) == sw1 \in ExpectedStatus
Passes(sw1)        == sw1 \in ExpectedStatus \ {WrongLeLength}

StopsAtOnce(sw1)   == FALSE
MoreToFetch(sw1)   == sw1 = MoreDataAvailable

\* getResponseCommand[4], one byte, for which 0 means 256.
AskForAnything(sw2) == 0
AskFor(sw2)         == sw2

\* Calls itself for the GET RESPONSE, with the frames fs under way.
Recurse(fs, sw2) ==
    /\ frames' = fs
    /\ asked' = Append(asked, AskFor(sw2))
    /\ phase' = "send"
    /\ UNCHANGED <<result, outcome>>

\* transmitBytes() up to its call of getMoreResponseData(), or to its return.
Transmit(reply) ==
    LET part == <<Len(replies) + 1>> IN
    /\ phase = "send"
    /\ Len(replies) < MaxReplies
    /\ reply.sw1 = MoreDataAvailable => Len(replies) + 1 < MaxReplies
    /\ replies' = Append(replies, reply)
    /\ \/ ~Passes(reply.sw1) /\ Throw
       \/ /\ Passes(reply.sw1)
          /\ MoreToFetch(reply.sw1)
          /\ Recurse(Append(frames, part), reply.sw2)
       \/ /\ Passes(reply.sw1)
          /\ ~MoreToFetch(reply.sw1)
          /\ result' = [sw1 |-> reply.sw1, sw2 |-> reply.sw2, data |-> part]
          /\ phase' = "return"
          /\ UNCHANGED <<frames, outcome, asked>>

\* SCardTransmit() fails, or its reply is too short or too long to be one.
TransmitFails ==
    /\ phase = "send"
    /\ Throw
    /\ UNCHANGED replies

\* response.data.insert(response.data.end(), ...) of the innermost frame.
JoinBefore(frame) == result.data \o frame
JoinOver(frame)   == result.data
Join(frame)       == frame \o result.data

\* The loop's condition looks at what transmitBytes() has just returned, not at
\* the reply that started the loop.
LoopsForever(sw1) == TRUE
LoopsOn(sw1)      == MoreToFetch(sw1)

\* The rest of getMoreResponseData(), and of the transmitBytes() that called it.
\* The status of a joined answer is set to 9000, whatever the last reply's was.
UnwindFrame ==
    LET joined == Join(frames[Len(frames)]) IN
    /\ phase = "return"
    /\ frames # <<>>
    /\ IF LoopsOn(result.sw1)
       THEN Recurse([frames EXCEPT ![Len(frames)] = joined], result.sw2)
       ELSE /\ result' = [sw1 |-> OK, sw2 |-> 0, data |-> joined]
            /\ frames' = SubSeq(frames, 1, Len(frames) - 1)
            /\ UNCHANGED <<phase, outcome, asked>>
    /\ UNCHANGED replies

Deliver ==
    /\ phase = "return"
    /\ frames = <<>>
    /\ phase' = "done"
    /\ outcome' = "returned"
    /\ UNCHANGED <<frames, result, replies, asked>>

Progress ==
    \/ \E reply \in Reply : Transmit(reply)
    \/ UnwindFrame
    \/ Deliver

Next == Progress \/ TransmitFails

Spec == Init /\ [][Next]_vars

\* The calls of one transmit() follow each other without a pause, and the card
\* replies; that a call fails at last is not taken for granted.
FairSpec == Spec /\ WF_vars(Progress)

-----------------------------------------------------------------------------
Returned == outcome = "returned"

\* The parts of the answer after the first a, up to the b-th.
Span(a, b) == [k \in 1..(b - a) |-> a + k]

PartsInv ==
    /\ \A i \in 1..Len(frames) : frames[i] = <<i>>
    /\ phase = "send" => Len(frames) = Len(replies)
    /\ phase = "return" =>
          /\ Len(frames) < Len(replies)
          /\ result.data = Span(Len(frames), Len(replies))
    /\ Returned => result.data = Span(0, Len(replies))

\* Every reply but the last one announced more and was asked for it.
RepliesInv ==
    /\ phase = "done" <=> outcome # "none"
    /\ phase = "send" => Len(asked) = Len(replies)
    /\ outcome # "thrown" => \A k \in 1..Len(replies) : Passes(replies[k].sw1)
    /\ phase = "return" \/ Returned => result.sw1 # MoreDataAvailable

\* What transmit() returns is the card's whole answer, every part once and in the
\* order in which the card gave them, although the parts are joined from the
\* last to the first (SmartCard.cpp:135-137, 233-238).
WholeAnswer == Returned => result.data = [k \in 1..Len(replies) |-> k]

\* 61 is the library's business, a caller never sees it and never has to fetch
\* anything itself (SmartCard.cpp:135-137, 240-241).
CallerNeverSees61 == Returned => result.sw1 # MoreDataAvailable

\* Each GET RESPONSE asks for as much as the reply before it announced; nothing
\* is asked for that was not announced, and all that was is asked for
\* (SmartCard.cpp:229-235).
AsksForWhatIsAnnounced ==
    /\ \A k \in 1..Len(asked) :
          /\ k <= Len(replies)
          /\ replies[k].sw1 = MoreDataAvailable
          /\ asked[k] = replies[k].sw2
    /\ \A k \in 1..Len(replies) :
          replies[k].sw1 = MoreDataAvailable => k <= Len(asked)

\* The recursion and its history belong together: a frame holds just the one part
\* it was made for, what is being returned is all that came after it, and the
\* loop of getMoreResponseData() does not go round a second time, since what
\* transmitBytes() returns is never 61 (SmartCard.cpp:123-140, 227-242).
ChainInv == TypeOK /\ PartsInv /\ RepliesInv /\ AsksForWhatIsAnnounced

\* No error that toResponse() turns into an exception is lost in the recursion:
\* what is returned was joined from replies that all let pass
\* (SmartCard.cpp:203-222).
NothingBadIsJoined ==
    Returned => \A k \in 1..Len(replies) :
                   replies[k].sw1 \in ExpectedStatus \ {WrongLeLength}

\* A card that stops saying 61 at last gets transmit() to return or to throw: the
\* loop and the recursion end together (SmartCard.cpp:123-140, 227-242).
Terminates == <>(phase = "done")

\* "Let expected errors through for handling in upper layers or in if blocks
\* below" (SmartCard.cpp:203): the caller sees the status the card ended with.
StatusLetThrough == Returned => result.sw1 = replies[Len(replies)].sw1
=============================================================================
