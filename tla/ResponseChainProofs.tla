------------------------- MODULE ResponseChainProofs -------------------------
(***************************************************************************)
(* What transmitBytes() returns, for any number of replies of the card and *)
(* any lengths it announces.  Every frame of the recursion holds just the  *)
(* one part it was made for: what transmitBytes() returns is never 61, so  *)
(* that the loop in getMoreResponseData() does not go round a second time. *)
(***************************************************************************)
EXTENDS ResponseChain, SequenceTheorems, TLAPS

-----------------------------------------------------------------------------
(* Lemmas about spans                                                      *)

LEMMA SpanIsSeq ==
    ASSUME NEW a \in Nat, NEW b \in Nat, a <= b
    PROVE  /\ Span(a, b) \in Seq(Nat)
           /\ Len(Span(a, b)) = b - a
           /\ \A k \in 1..(b - a) : Span(a, b)[k] = a + k
<1>1. b - a \in Nat
  OBVIOUS
<1>2. Span(a, b) \in [1..(b - a) -> Nat]
  BY DEF Span
<1>3. Span(a, b) \in Seq(Nat) /\ Len(Span(a, b)) = b - a
  BY <1>1, <1>2, SeqDef, LenProperties
<1> QED
  BY <1>3 DEF Span

\* The first part of an answer, or the last one, is a span of its own.
LEMMA OnePart ==
    ASSUME NEW n \in Nat
    PROVE  <<n + 1>> = Span(n, n + 1)
<1>1. (n + 1) - n = 1
  OBVIOUS
<1> QED
  BY <1>1 DEF Span

\* A part in front of what came after it.
LEMMA PartInFront ==
    ASSUME NEW n \in Nat, NEW c \in Nat, n + 1 <= c
    PROVE  <<n + 1>> \o Span(n + 1, c) = Span(n, c)
<1> DEFINE one  == <<n + 1>>
           rest == Span(n + 1, c)
           all  == Span(n, c)
           r    == c - (n + 1)
<1>1. /\ one \in Seq(Nat) /\ Len(one) = 1 /\ one[1] = n + 1
      /\ r \in Nat /\ r + 1 = c - n /\ n + 1 \in Nat /\ n <= c
  OBVIOUS
<1>2. /\ rest \in Seq(Nat) /\ Len(rest) = r
      /\ \A k \in 1..r : rest[k] = (n + 1) + k
  BY <1>1, SpanIsSeq
<1>3. /\ all \in Seq(Nat) /\ Len(all) = r + 1
      /\ \A k \in 1..(r + 1) : all[k] = n + k
  BY <1>1, SpanIsSeq
<1> HIDE DEF one, rest, all, r
<1>4. /\ one \o rest \in Seq(Nat)
      /\ Len(one \o rest) = 1 + r
      /\ \A k \in 1..(1 + r) :
            (one \o rest)[k] = IF k <= 1 THEN one[k] ELSE rest[k - 1]
  <2>1. /\ one \o rest \in Seq(Nat)
        /\ Len(one \o rest) = Len(one) + Len(rest)
        /\ \A k \in 1..(Len(one) + Len(rest)) :
              (one \o rest)[k] = IF k <= Len(one) THEN one[k] ELSE rest[k - Len(one)]
    BY <1>1, <1>2, ConcatProperties
  <2>2. Len(one) = 1 /\ Len(rest) = r
    BY <1>1, <1>2
  <2> QED
    BY <2>1, <2>2
<1>5. ASSUME NEW k \in 1..(1 + r)
      PROVE  (one \o rest)[k] = all[k]
  <2>1. all[k] = n + k
    BY <1>1, <1>3
  <2>2. CASE k = 1
    BY <1>1, <1>4, <2>1, <2>2
  <2>3. CASE k # 1
    <3>1. k - 1 \in 1..r /\ ~(k <= 1) /\ (n + 1) + (k - 1) = n + k
      BY <1>1, <2>3
    <3>2. (one \o rest)[k] = rest[k - 1]
      BY <1>4, <3>1
    <3>3. rest[k - 1] = (n + 1) + (k - 1)
      BY <1>2, <3>1
    <3> QED
      BY <2>1, <3>1, <3>2, <3>3
  <2> QED
    BY <2>2, <2>3
<1>6. Len(one \o rest) = Len(all) /\ \A k \in 1..Len(one \o rest) : (one \o rest)[k] = all[k]
  <2>1. 1 + r = r + 1
    BY <1>1
  <2>2. Len(one \o rest) = 1 + r /\ Len(all) = 1 + r
    BY <1>3, <1>4, <2>1
  <2> QED
    BY <1>5, <2>2
<1>7. one \o rest = all
  BY <1>3, <1>4, <1>6, SeqEqual
<1> QED
  BY <1>7 DEF one, rest, all

-----------------------------------------------------------------------------
(* The initial state and the steps                                         *)

LEMMA ResponseType ==
    ASSUME NEW sw1 \in FirstBytes, NEW sw2 \in Lengths, NEW data \in Seq(Nat)
    PROVE  [sw1 |-> sw1, sw2 |-> sw2, data |-> data] \in Response
BY DEF Response

LEMMA NoResponseType == NoResponse \in Response
BY ChainAssumption DEF NoResponse, Response, FirstBytes, ExpectedStatus, OK

LEMMA InitChain == Init => ChainInv
<1> SUFFICES ASSUME Init PROVE ChainInv
  OBVIOUS
<1> USE DEF Init
<1>1. TypeOK
  BY NoResponseType DEF TypeOK
<1>2. PartsInv
  BY DEF PartsInv, Returned
<1>3. RepliesInv
  BY DEF RepliesInv, Returned
<1>4. AsksForWhatIsAnnounced
  BY DEF AsksForWhatIsAnnounced
<1> QED
  BY <1>1, <1>2, <1>3, <1>4 DEF ChainInv

\* An exception leaves nothing behind that the invariant is about.
LEMMA ThrowKeepsChain ==
    ASSUME ChainInv, phase = "send", Throw,
           replies' \in Seq(Reply),
           \/ replies' = replies
           \/ \E reply \in Reply : /\ reply.sw1 # MoreDataAvailable
                                   /\ replies' = Append(replies, reply)
    PROVE  ChainInv'
<1> USE DEF Throw
<1>1. TypeOK'
  BY NoResponseType DEF ChainInv, TypeOK
<1>2. PartsInv'
  BY DEF PartsInv, Returned
<1>3. RepliesInv'
  BY DEF RepliesInv, Returned
<1>4. AsksForWhatIsAnnounced'
  <2>1. CASE replies' = replies
    BY <2>1 DEF ChainInv, AsksForWhatIsAnnounced
  <2>2. ASSUME NEW reply \in Reply, reply.sw1 # MoreDataAvailable,
               replies' = Append(replies, reply)
        PROVE  AsksForWhatIsAnnounced'
    <3>1. replies \in Seq(Reply) /\ Len(replies) \in Nat /\ Len(asked) \in Nat
      BY LenProperties DEF ChainInv, TypeOK
    <3>2. /\ Len(replies') = Len(replies) + 1
          /\ \A k \in 1..Len(replies) : replies'[k] = replies[k]
          /\ replies'[Len(replies) + 1] = reply
      BY <2>2, <3>1, AppendProperties
    <3> QED
      BY <2>2, <3>1, <3>2 DEF ChainInv, AsksForWhatIsAnnounced
  <2> QED
    BY <2>1, <2>2
<1> QED
  BY <1>1, <1>2, <1>3, <1>4 DEF ChainInv

\* Facts about the sequences that every step needs.
LEMMA ChainLengths ==
    ASSUME ChainInv
    PROVE  /\ replies \in Seq(Reply) /\ Len(replies) \in Nat
           /\ frames \in Seq(Seq(Nat)) /\ Len(frames) \in Nat
           /\ asked \in Seq(Lengths) /\ Len(asked) \in Nat
BY LenProperties DEF ChainInv, TypeOK

\* The reply announces more: its part gets a frame, and its length is asked for.
LEMMA FetchKeepsChain ==
    ASSUME ChainInv, phase = "send", NEW reply \in Reply,
           reply.sw1 = MoreDataAvailable,
           replies' = Append(replies, reply),
           Recurse(Append(frames, <<Len(replies) + 1>>), reply.sw2)
    PROVE  ChainInv'
<1> USE DEF Recurse, AskFor
<1> DEFINE n    == Len(replies)
           part == <<n + 1>>
<1>1. /\ replies \in Seq(Reply) /\ n \in Nat
      /\ frames \in Seq(Seq(Nat)) /\ Len(frames) = n
      /\ asked \in Seq(Lengths) /\ Len(asked) = n
  BY ChainLengths DEF ChainInv, PartsInv, RepliesInv
<1>2. part \in Seq(Nat) /\ reply.sw2 \in Lengths
  BY <1>1 DEF Reply
<1>3. /\ replies' \in Seq(Reply) /\ Len(replies') = n + 1
      /\ \A k \in 1..n : replies'[k] = replies[k]
      /\ replies'[n + 1] = reply
  BY <1>1, AppendProperties
<1>4. /\ frames' \in Seq(Seq(Nat)) /\ Len(frames') = n + 1
      /\ \A k \in 1..n : frames'[k] = frames[k]
      /\ frames'[n + 1] = part
  BY <1>1, <1>2, AppendProperties
<1>5. /\ asked' \in Seq(Lengths) /\ Len(asked') = n + 1
      /\ \A k \in 1..n : asked'[k] = asked[k]
      /\ asked'[n + 1] = reply.sw2
  BY <1>1, <1>2, AppendProperties
<1>6. phase' = "send" /\ result' = result /\ outcome' = outcome /\ outcome = "none"
  BY DEF ChainInv, RepliesInv, TypeOK
<1>7. 1..(n + 1) = (1..n) \cup {n + 1}
  BY <1>1
<1>8. TypeOK'
  BY <1>3, <1>4, <1>5, <1>6 DEF ChainInv, TypeOK
<1>9. PartsInv'
  <2>1. \A i \in 1..n : frames[i] = <<i>>
    BY <1>1 DEF ChainInv, PartsInv
  <2>2. \A i \in 1..(n + 1) : frames'[i] = <<i>>
    BY <2>1, <1>4, <1>7
  <2> QED
    BY <2>2, <1>3, <1>4, <1>6 DEF PartsInv, Returned
<1>10. RepliesInv'
  <2>1. \A k \in 1..n : Passes(replies[k].sw1)
    BY <1>6 DEF ChainInv, RepliesInv
  <2>2. \A k \in 1..(n + 1) : Passes(replies'[k].sw1)
    BY <2>1, <1>3, <1>7 DEF Passes, ExpectedStatus, MoreDataAvailable, WrongLeLength
  <2> QED
    BY <2>2, <1>3, <1>5, <1>6 DEF RepliesInv, Returned
<1>11. AsksForWhatIsAnnounced'
  <2>1. \A k \in 1..n : replies[k].sw1 = MoreDataAvailable /\ asked[k] = replies[k].sw2
    BY <1>1 DEF ChainInv, AsksForWhatIsAnnounced
  <2>2. \A k \in 1..(n + 1) : /\ replies'[k].sw1 = MoreDataAvailable
                              /\ asked'[k] = replies'[k].sw2
    BY <2>1, <1>3, <1>5, <1>7
  <2>3. \A k \in 1..(n + 1) : k <= n + 1
    BY <1>1
  <2> QED
    BY <2>2, <2>3, <1>3, <1>5 DEF AsksForWhatIsAnnounced
<1> QED
  BY <1>8, <1>9, <1>10, <1>11 DEF ChainInv

\* The last reply: its part is the rest of the answer.
LEMMA LastReplyKeepsChain ==
    ASSUME ChainInv, phase = "send", NEW reply \in Reply,
           Passes(reply.sw1), reply.sw1 # MoreDataAvailable,
           replies' = Append(replies, reply),
           result' = [sw1 |-> reply.sw1, sw2 |-> reply.sw2,
                      data |-> <<Len(replies) + 1>>],
           phase' = "return",
           UNCHANGED <<frames, outcome, asked>>
    PROVE  ChainInv'
<1> DEFINE n    == Len(replies)
           part == <<n + 1>>
<1>1. /\ replies \in Seq(Reply) /\ n \in Nat
      /\ frames \in Seq(Seq(Nat)) /\ Len(frames) = n
      /\ asked \in Seq(Lengths) /\ Len(asked) = n
  BY ChainLengths DEF ChainInv, PartsInv, RepliesInv
<1>2. part \in Seq(Nat) /\ reply.sw1 \in FirstBytes /\ reply.sw2 \in Lengths
  BY <1>1 DEF Reply
<1>3. /\ replies' \in Seq(Reply) /\ Len(replies') = n + 1
      /\ \A k \in 1..n : replies'[k] = replies[k]
      /\ replies'[n + 1] = reply
  BY <1>1, AppendProperties
<1>4. result' \in Response /\ result'.sw1 = reply.sw1 /\ result'.data = part
  BY <1>2, ResponseType
<1>5. outcome = "none"
  BY DEF ChainInv, RepliesInv
<1>6. 1..(n + 1) = (1..n) \cup {n + 1}
  BY <1>1
<1>7. TypeOK'
  BY <1>3, <1>4, <1>5 DEF ChainInv, TypeOK
<1>8. PartsInv'
  <2>1. \A i \in 1..Len(frames) : frames[i] = <<i>>
    BY DEF ChainInv, PartsInv
  <2>2. n < n + 1 /\ part = Span(n, n + 1)
    BY <1>1, OnePart
  <2> QED
    BY <2>1, <2>2, <1>1, <1>3, <1>4, <1>5 DEF PartsInv, Returned
<1>9. RepliesInv'
  <2>1. \A k \in 1..n : Passes(replies[k].sw1)
    BY <1>5 DEF ChainInv, RepliesInv
  <2>2. \A k \in 1..(n + 1) : Passes(replies'[k].sw1)
    BY <2>1, <1>3, <1>6
  <2> QED
    BY <2>2, <1>3, <1>4, <1>5 DEF RepliesInv, Returned
<1>10. AsksForWhatIsAnnounced'
  <2>1. \A k \in 1..n : /\ replies[k].sw1 = MoreDataAvailable
                        /\ asked[k] = replies[k].sw2
    BY <1>1 DEF ChainInv, AsksForWhatIsAnnounced
  <2>2. \A k \in 1..n : /\ k <= n + 1
                        /\ replies'[k].sw1 = MoreDataAvailable
                        /\ asked[k] = replies'[k].sw2
    BY <2>1, <1>1, <1>3
  <2>3. \A k \in 1..(n + 1) : replies'[k].sw1 = MoreDataAvailable => k <= n
    BY <1>1, <1>3, <1>6
  <2> QED
    BY <2>2, <2>3, <1>1, <1>3 DEF AsksForWhatIsAnnounced
<1> QED
  BY <1>7, <1>8, <1>9, <1>10 DEF ChainInv

\* The innermost frame's part goes in front of what came after it.
LEMMA UnwindKeepsChain ==
    ASSUME ChainInv, UnwindFrame
    PROVE  ChainInv'
<1> DEFINE n      == Len(frames)
           c      == Len(replies)
           joined == Join(frames[n])
<1>1. /\ replies \in Seq(Reply) /\ c \in Nat
      /\ frames \in Seq(Seq(Nat)) /\ n \in Nat
  BY ChainLengths
<1>2. /\ phase = "return" /\ outcome = "none" /\ n < c
      /\ result.sw1 # MoreDataAvailable /\ result.data = Span(n, c)
  BY DEF UnwindFrame, ChainInv, PartsInv, RepliesInv
<1>3. /\ result' = [sw1 |-> OK, sw2 |-> 0, data |-> joined]
      /\ frames' = SubSeq(frames, 1, n - 1)
      /\ UNCHANGED <<phase, outcome, asked, replies>>
  BY <1>2 DEF UnwindFrame, LoopsOn, MoreToFetch
<1>4. PICK m \in Nat : n = m + 1
  <2>1. n # 0
    BY <1>1, EmptySeq DEF UnwindFrame
  <2>2. n - 1 \in Nat /\ n = (n - 1) + 1
    BY <1>1, <2>1
  <2> QED
    BY <2>2
<1>5. joined = Span(m, c)
  <2>1. n \in 1..n
    BY <1>4
  <2>2. frames[n] = <<n>>
    BY <2>1 DEF ChainInv, PartsInv
  <2>3. joined = <<m + 1>> \o Span(m + 1, c)
    BY <2>2, <1>2, <1>4 DEF Join
  <2>4. m + 1 <= c
    BY <1>1, <1>2, <1>4
  <2> QED
    BY <2>3, <2>4, <1>1, PartInFront
<1> HIDE DEF n, c, joined
<1>6. m < c /\ m <= c /\ m = n - 1 /\ 1..m \subseteq 1..n
  BY <1>1, <1>2, <1>4
<1>7. /\ frames' \in Seq(Seq(Nat)) /\ Len(frames') = m
      /\ \A i \in 1..m : frames'[i] = frames[i]
  <2>1. frames' = SubSeq(frames, 1, m) /\ 1 \in Int /\ m \in Int
    BY <1>3, <1>6
  <2>2. \A i \in 1..m : frames[i] \in Seq(Nat)
    BY <1>1, <1>6, ElementOfSeq DEF n
  <2>3. /\ SubSeq(frames, 1, m) \in Seq(Seq(Nat))
        /\ Len(SubSeq(frames, 1, m)) = IF 1 <= m THEN (m - 1) + 1 ELSE 0
        /\ \A i \in 1..((m - 1) + 1) : SubSeq(frames, 1, m)[i] = frames[(1 + i) - 1]
    BY <2>1, <2>2, SubSeqProperties
  <2>4. (m - 1) + 1 = m /\ (~(1 <= m) => m = 0) /\ \A i \in 1..m : (1 + i) - 1 = i
    BY <1>4
  <2> QED
    BY <2>1, <2>3, <2>4
<1>8. /\ result' \in Response /\ result'.sw1 = OK /\ result'.data = Span(m, c)
  <2>1. OK \in FirstBytes /\ 0 \in Lengths
    BY ChainAssumption DEF FirstBytes, ExpectedStatus
  <2>2. Span(m, c) \in Seq(Nat)
    BY <1>1, <1>6, SpanIsSeq
  <2> QED
    BY <2>1, <2>2, <1>3, <1>5, ResponseType
<1>9. TypeOK'
  BY <1>3, <1>7, <1>8 DEF ChainInv, TypeOK
<1>10. PartsInv'
  <2>1. \A i \in 1..n : frames[i] = <<i>>
    BY DEF ChainInv, PartsInv, n
  <2>2. \A i \in 1..m : frames'[i] = <<i>>
    BY <2>1, <1>6, <1>7
  <2>3. Len(replies') = c
    BY <1>3 DEF c
  <2> QED
    BY <2>2, <2>3, <1>2, <1>3, <1>6, <1>7, <1>8 DEF PartsInv, Returned
<1>11. RepliesInv'
  BY <1>2, <1>3, <1>8 DEF ChainInv, RepliesInv, Returned, OK, MoreDataAvailable
<1>12. AsksForWhatIsAnnounced'
  BY <1>3 DEF ChainInv, AsksForWhatIsAnnounced
<1> QED
  BY <1>9, <1>10, <1>11, <1>12 DEF ChainInv

\* With no frame left, what is returned began with the first part.
LEMMA DeliverKeepsChain ==
    ASSUME ChainInv, Deliver
    PROVE  ChainInv'
<1> USE DEF Deliver
<1>1. TypeOK'
  BY DEF ChainInv, TypeOK
<1>2. PartsInv'
  <2>1. Len(frames) = 0
    BY EmptySeq
  <2>2. result.data = Span(0, Len(replies))
    BY <2>1 DEF ChainInv, PartsInv
  <2> QED
    BY <2>1, <2>2 DEF PartsInv, Returned
<1>3. RepliesInv'
  BY DEF ChainInv, RepliesInv, Returned
<1>4. AsksForWhatIsAnnounced'
  BY DEF ChainInv, AsksForWhatIsAnnounced
<1> QED
  BY <1>1, <1>2, <1>3, <1>4 DEF ChainInv

LEMMA TransmitKeepsChain ==
    ASSUME ChainInv, NEW reply \in Reply, Transmit(reply)
    PROVE  ChainInv'
<1>1. phase = "send" /\ replies' = Append(replies, reply)
  BY DEF Transmit
<1>2. replies' \in Seq(Reply)
  BY <1>1, ChainLengths, AppendProperties
<1>3. CASE ~Passes(reply.sw1) /\ Throw
  <2>1. reply.sw1 # MoreDataAvailable
    BY <1>3 DEF Passes, ExpectedStatus, MoreDataAvailable, WrongLeLength
  <2> QED
    BY <1>1, <1>2, <1>3, <2>1, ThrowKeepsChain
<1>4. CASE /\ MoreToFetch(reply.sw1)
           /\ Recurse(Append(frames, <<Len(replies) + 1>>), reply.sw2)
  BY <1>1, <1>4, FetchKeepsChain DEF MoreToFetch
<1>5. CASE /\ Passes(reply.sw1)
           /\ ~MoreToFetch(reply.sw1)
           /\ result' = [sw1 |-> reply.sw1, sw2 |-> reply.sw2,
                         data |-> <<Len(replies) + 1>>]
           /\ phase' = "return"
           /\ UNCHANGED <<frames, outcome, asked>>
  BY <1>1, <1>5, LastReplyKeepsChain DEF MoreToFetch
<1> QED
  BY <1>3, <1>4, <1>5 DEF Transmit

LEMMA StepChain == ChainInv /\ [Next]_vars => ChainInv'
<1> SUFFICES ASSUME ChainInv, [Next]_vars PROVE ChainInv'
  OBVIOUS
<1>1. ASSUME NEW reply \in Reply, Transmit(reply) PROVE ChainInv'
  BY <1>1, TransmitKeepsChain
<1>2. CASE UnwindFrame
  BY <1>2, UnwindKeepsChain
<1>3. CASE Deliver
  BY <1>3, DeliverKeepsChain
<1>4. CASE TransmitFails
  BY <1>4, ChainLengths, ThrowKeepsChain DEF TransmitFails
<1>5. CASE UNCHANGED vars
  BY <1>5 DEF vars, ChainInv, TypeOK, PartsInv, RepliesInv, Returned,
              AsksForWhatIsAnnounced
<1> QED
  BY <1>1, <1>2, <1>3, <1>4, <1>5 DEF Next, Progress

-----------------------------------------------------------------------------
(* Theorems                                                                *)

\* The inductive invariant: every frame holds its one part, and what is being
\* returned is all that came after the innermost frame (SmartCard.cpp:123-140,
\* 227-242).
THEOREM ChainInvariance == Spec => []ChainInv
<1> QED
  BY InitChain, StepChain, PTL DEF Spec

\* Every variable has its type (SmartCard.cpp:123-140, 203-243).
THEOREM ChainTypes == Spec => []TypeOK
<1>1. ChainInv => TypeOK
  BY DEF ChainInv
<1> QED
  BY <1>1, ChainInvariance, PTL

\* However often the card says 61, what transmit() returns is every part of its
\* answer, once, in order (SmartCard.cpp:135-137, 233-238).
THEOREM AnswerIsWhole == Spec => []WholeAnswer
<1>1. ChainInv => WholeAnswer
  <2> SUFFICES ASSUME ChainInv, Returned
               PROVE  result.data = [k \in 1..Len(replies) |-> k]
    BY DEF WholeAnswer
  <2>1. result.data = [k \in 1..(Len(replies) - 0) |-> 0 + k] /\ Len(replies) \in Nat
    BY ChainLengths DEF ChainInv, PartsInv, Span
  <2> QED
    BY <2>1
<1> QED
  BY <1>1, ChainInvariance, PTL

\* A caller never sees 61 (SmartCard.cpp:135-137, 240-241).
THEOREM NoCallerSees61 == Spec => []CallerNeverSees61
<1>1. ChainInv => CallerNeverSees61
  BY DEF ChainInv, RepliesInv, CallerNeverSees61
<1> QED
  BY <1>1, ChainInvariance, PTL

\* The k-th GET RESPONSE asks for what the k-th reply announced, also for 0, which
\* stands for 256 (SmartCard.cpp:229-235).
THEOREM AskedAsAnnounced == Spec => []AsksForWhatIsAnnounced
<1>1. ChainInv => AsksForWhatIsAnnounced
  BY DEF ChainInv
<1> QED
  BY <1>1, ChainInvariance, PTL

\* No reply that toResponse() throws at is joined into what is returned
\* (SmartCard.cpp:203-222).
THEOREM JoinedAllPassed == Spec => []NothingBadIsJoined
<1>1. ChainInv => NothingBadIsJoined
  BY DEF ChainInv, RepliesInv, NothingBadIsJoined, Passes, Returned
<1> QED
  BY <1>1, ChainInvariance, PTL
=============================================================================
