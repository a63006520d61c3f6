---------------------------- MODULE SenderProofs ----------------------------
(***************************************************************************)
(* Proofs about Sender for every size of fb, every time-out, every limit   *)
(* on descriptors and every set of answers: the types, the accounting of   *)
(* sockets, and what the miscounted room of Recv still guarantees.         *)
(***************************************************************************)
EXTENDS Sender, TLAPS

\* Outside Recv nothing of an exchange is left over.
Fresh ==
    spc \in {"idle", "connect", "send"} =>
        /\ answer = Nothing
        /\ arrived = 0 /\ segs = 0 /\ ~closed
        /\ strlen = 0 /\ len = 0 /\ seen = 0 /\ time = 0

\* Bytes only come in segments.
Segmented == segs = 0 => arrived = 0

Untouched == strlen = 0 /\ len = FEEDBACK_MSG_LEN - 1

\* One segment: recv took it in one piece, as far as it fits.
OneSegment ==
    (spc \in {"recv", "lost"} /\ segs <= 1) =>
        /\ spc = "recv"
        /\ \/ Untouched
           \/ /\ strlen = Min(FEEDBACK_MSG_LEN - 1, arrived)
              /\ len = FEEDBACK_MSG_LEN - 1 - strlen

\* Two segments that fit: len is right until the second piece was taken.
TwoSegments ==
    (spc \in {"recv", "forward", "lost"} /\ Fits /\ segs <= 2) =>
        /\ strlen = seen
        /\ spc = "recv" =>
              \/ Untouched
              \/ /\ len = FEEDBACK_MSG_LEN - 1 - strlen
                 /\ segs <= 1 => strlen = arrived
              \/ segs = 2 /\ strlen = arrived

Overflown == spc = "lost" => strlen >= FEEDBACK_MSG_LEN

IInv ==
    /\ TypeOK
    /\ SocketsAccounted
    /\ Fresh
    /\ Segmented
    /\ OneSegment
    /\ TwoSegments
    /\ Overflown

-----------------------------------------------------------------------------

\* What a call of recv takes is there, and at most the room when it is counted.
LEMMA ReceivedBounds ==
    ASSUME TypeOK
    PROVE  /\ Received \in Nat
           /\ Received <= arrived - strlen
           /\ len >= 0 => Received = Min(len, arrived - strlen)
           /\ len >= 0 => Received <= len
           /\ len < 0 => Received = arrived - strlen
<1>1. arrived \in Int /\ strlen \in Int /\ strlen <= arrived /\ len \in Int
  <2>1. answer.len \in Nat
    BY AnswersAssumption DEF TypeOK, Nothing
  <2>. QED  BY <2>1 DEF TypeOK
<1>. QED  BY <1>1 DEF Received, Min

\* The length and the mark of an answer are numbers.
LEMMA AnswerTypes ==
    ASSUME TypeOK
    PROVE  answer.len \in Nat /\ answer.mark \in Nat
BY AnswersAssumption DEF TypeOK, Nothing

\* The invariant before the first exchange.
LEMMA InitIInv == Init => IInv
<1>. SUFFICES ASSUME Init
              PROVE  IInv
  OBVIOUS
<1>1. answer.len = 0
  BY DEF Init, Nothing
<1>2. TypeOK
  <2>1. closed \in BOOLEAN
    BY DEF Init
  <2>2. /\ spc \in Places /\ peer \in {"none", "syn", "up", "refused"}
        /\ open \in 0..MaxFds /\ failed \in 0..MaxFds
        /\ answer \in Answers \union {Nothing}
    BY FdsAssumption DEF Init, Places
  <2>3. /\ arrived \in 0..answer.len /\ segs \in Nat /\ strlen \in 0..arrived
        /\ len \in Int /\ seen \in strlen..arrived /\ time \in 0..(outtime_s + 1)
    BY <1>1, TimeAssumption DEF Init
  <2>. QED  BY <2>1, <2>2, <2>3 DEF TypeOK
<1>3. SocketsAccounted /\ Segmented /\ OneSegment /\ TwoSegments /\ Overflown
  BY DEF Init, SocketsAccounted, Segmented, OneSegment, TwoSegments, Overflown
<1>4. Fresh
  BY DEF Init, Fresh
<1>. QED  BY <1>2, <1>3, <1>4 DEF IInv

\* The invariant, in Csender::Connect.
LEMMA ConnectIInv == IInv /\ (Connect \/ Connected \/ ConnectFails \/ Resolve) => IInv'
<1>. SUFFICES ASSUME IInv, Connect \/ Connected \/ ConnectFails \/ Resolve
              PROVE  IInv'
  OBVIOUS
<1>. USE FdsAssumption DEF IInv
<1>1. answer.len \in Nat
  BY AnswerTypes
<1>2. CASE Connect
  BY <1>1, <1>2 DEF Connect, TypeOK, SocketsAccounted, Fresh, Segmented, OneSegment,
     TwoSegments, Overflown, Places, serverVars, recvVars, Fits, Untouched
<1>3. CASE Connected
  BY <1>1, <1>3 DEF Connected, TypeOK, SocketsAccounted, Fresh, Segmented, OneSegment,
     TwoSegments, Overflown, Places, serverVars, recvVars, Fits, Untouched
<1>4. CASE ConnectFails
  BY <1>1, <1>4 DEF ConnectFails, TypeOK, SocketsAccounted, Fresh, Segmented, OneSegment,
     TwoSegments, Overflown, Places, serverVars, recvVars, Fits, Untouched
<1>5. CASE Resolve
  BY <1>1, <1>5 DEF Resolve, TypeOK, SocketsAccounted, Fresh, Segmented, OneSegment,
     TwoSegments, Overflown, Places, serverVars, recvVars, Fits, Untouched
<1>. QED  BY <1>2, <1>3, <1>4, <1>5

\* The invariant, in Csender::Send.
LEMMA SendIInv == IInv /\ Send => IInv'
<1>. SUFFICES ASSUME IInv, Send
              PROVE  IInv'
  OBVIOUS
<1>1. answer'.len \in Nat
  BY AnswersAssumption DEF Send, Nothing
<1>2. arrived = 0 /\ segs = 0 /\ strlen = 0 /\ seen = 0
  BY DEF IInv, Fresh, Send
<1>3. TypeOK'
  BY <1>1, <1>2, LengthAssumption DEF IInv, TypeOK, Send, Places
<1>. QED
  BY <1>1, <1>2, <1>3, LengthAssumption
     DEF IInv, Send, SocketsAccounted, Fresh, Segmented, OneSegment, TwoSegments, Overflown,
         Untouched, Fits

\* The invariant, in CClient::sendback.
LEMMA SendbackIInv == IInv /\ Sendback => IInv'
<1>. SUFFICES ASSUME IInv, Sendback
              PROVE  IInv'
  OBVIOUS
<1>1. answer'.len = 0
  BY DEF Sendback, Nothing
<1>2. TypeOK'
  <2>1. closed' \in BOOLEAN
    BY DEF Sendback
  <2>2. /\ spc' \in Places /\ peer' \in {"none", "syn", "up", "refused"}
        /\ open' \in 0..MaxFds /\ failed' \in 0..MaxFds
        /\ answer' \in Answers \union {Nothing}
    BY DEF IInv, TypeOK, Sendback, Places
  <2>3. /\ arrived' \in 0..answer'.len /\ segs' \in Nat /\ strlen' \in 0..arrived'
        /\ len' \in Int /\ seen' \in strlen'..arrived' /\ time' \in 0..(outtime_s + 1)
    BY <1>1, TimeAssumption DEF Sendback
  <2>. QED  BY <2>1, <2>2, <2>3 DEF TypeOK
<1>3. SocketsAccounted' /\ Segmented' /\ OneSegment' /\ TwoSegments' /\ Overflown'
  BY DEF IInv, Sendback, SocketsAccounted, Segmented, OneSegment, TwoSegments, Overflown
<1>4. Fresh'
  BY DEF Sendback, Fresh
<1>. QED  BY <1>2, <1>3, <1>4 DEF IInv

\* The invariant, as the car server answers and time passes.
LEMMA OutsideIInv == IInv /\ (Arrive \/ ServerCloses \/ Tick) => IInv'
<1>. SUFFICES ASSUME IInv, Arrive \/ ServerCloses \/ Tick
              PROVE  IInv'
  OBVIOUS
<1>. USE LengthAssumption, TimeAssumption, FdsAssumption
<1>1. /\ answer.len \in Nat /\ arrived \in Nat /\ strlen \in Nat /\ seen \in Nat
      /\ segs \in Nat /\ len \in Int
  BY AnswerTypes DEF IInv, TypeOK
<1>2. CASE Arrive
  <2>1. TypeOK'
    BY <1>1, <1>2 DEF IInv, TypeOK, Arrive, Places, recvVars
  <2>2. OneSegment'
    BY <1>1, <1>2 DEF IInv, TypeOK, OneSegment, Segmented, Arrive, recvVars, Untouched, Min
  <2>3. TwoSegments'
    BY <1>1, <1>2 DEF IInv, TypeOK, TwoSegments, Segmented, Arrive, recvVars, Untouched, Fits
  <2>. QED
    BY <1>1, <1>2, <2>1, <2>2, <2>3
       DEF IInv, SocketsAccounted, Fresh, Segmented, Overflown, Arrive, recvVars
<1>3. CASE ServerCloses
  BY <1>1, <1>3
     DEF IInv, TypeOK, SocketsAccounted, Fresh, Segmented, OneSegment, TwoSegments, Overflown,
         ServerCloses, Places, recvVars, Fits, Untouched
<1>4. CASE Tick
  BY <1>1, <1>4
     DEF IInv, TypeOK, SocketsAccounted, Fresh, Segmented, OneSegment, TwoSegments, Overflown,
         Tick, Places, serverVars, Fits, Untouched
<1>. QED  BY <1>2, <1>3, <1>4

\* The invariant, in a turn of the loop of Csender::Recv.
LEMMA RecvIInv == IInv /\ Recv => IInv'
<1>. SUFFICES ASSUME IInv, Recv
              PROVE  IInv'
  OBVIOUS
<1>. USE LengthAssumption, TimeAssumption, FdsAssumption
<1>1. /\ answer.len \in Nat /\ answer.mark \in Nat /\ arrived \in Nat /\ strlen \in Nat
      /\ seen \in Nat /\ segs \in Nat /\ len \in Int /\ strlen <= seen /\ seen <= arrived
      /\ arrived <= answer.len
  BY AnswerTypes DEF IInv, TypeOK
<1>2. /\ Received \in Nat
      /\ Received <= arrived - strlen
      /\ len >= 0 => Received = Min(len, arrived - strlen)
      /\ len < 0 => Received = arrived - strlen
  BY ReceivedBounds DEF IInv
<1>3. /\ strlen' = strlen + Received /\ seen' = arrived
      /\ len' = (IF Received > 0 THEN len - (strlen + Received) ELSE len)
      /\ spc = "recv"
      /\ arrived' = arrived /\ segs' = segs /\ answer' = answer
  BY DEF Recv, RoomLeft, serverVars
<1>4. open = failed + 1 /\ open \in 0..MaxFds /\ failed \in 0..MaxFds
  BY <1>3 DEF IInv, SocketsAccounted, TypeOK
<1>5. TypeOK' /\ SocketsAccounted'
  <2>1. strlen' \in 0..arrived' /\ seen' \in strlen'..arrived' /\ len' \in Int
    BY <1>1, <1>2, <1>3
  <2>. QED
    BY <1>1, <1>4, <2>1
       DEF IInv, Recv, TypeOK, SocketsAccounted, Close, serverVars, Places
<1>6. Fresh' /\ Segmented' /\ Overflown'
  BY <1>1, <1>2, <1>3 DEF IInv, Recv, Fresh, Segmented, Overflown
<1>7. OneSegment'
  BY <1>1, <1>2, <1>3 DEF IInv, Recv, OneSegment, Segmented, Untouched, Min
<1>8. TwoSegments'
  BY <1>1, <1>2, <1>3 DEF IInv, Recv, TwoSegments, Segmented, Untouched, Fits, Min
<1>. QED  BY <1>5, <1>6, <1>7, <1>8 DEF IInv

\* Every step of the worker, the car server, the network and the clock keeps
\* the accounts of sockets and of bytes.
LEMMA NextIInv == IInv /\ [Next]_vars => IInv'
<1>. SUFFICES ASSUME IInv, [Next]_vars
              PROVE  IInv'
  OBVIOUS
<1>1. CASE UNCHANGED vars
  BY <1>1
     DEF IInv, vars, TypeOK, SocketsAccounted, Fresh, Segmented, OneSegment, TwoSegments,
         Overflown, Fits, Untouched
<1>2. CASE SocketFails \/ Lost
  BY <1>1, <1>2 DEF SocketFails, Lost
<1>. QED
  BY <1>1, <1>2, ConnectIInv, SendIInv, SendbackIInv, OutsideIInv, RecvIInv
     DEF Next, WorkerStep

\* The invariant of all exchanges.
LEMMA Invariance == Spec => []IInv
BY InitIInv, NextIInv, PTL DEF Spec

-----------------------------------------------------------------------------

(* The types of the exchange with the car server (Csender.cpp:34-285):     *)
(* among them that Recv never holds more bytes than have arrived and that  *)
(* the number of open sockets stays between 0 and the limit.               *)
THEOREM TypeCorrect == Spec => []TypeOK
BY Invariance, PTL DEF IInv

(* Csender.cpp:26-33, 34-170, 233-285: the process holds the socket of the *)
(* exchange under way and one for each refused connection, for every       *)
(* number of exchanges.                                                    *)
THEOREM SocketsAccountedCorrect == Spec => []SocketsAccounted
BY Invariance, PTL DEF IInv

(* Csender.cpp:236-269: for every size of fb, an answer that fits, or      *)
(* comes in one segment, is never written outside fb.                      *)
THEOREM StaysInsideCorrect == Spec => []StaysInside
<1>1. IInv => StaysInside
  <2>. SUFFICES ASSUME IInv, Fits \/ segs <= 1, spc = "lost"
                PROVE  FALSE
    BY DEF StaysInside
  <2>1. answer.len \in Nat /\ strlen \in Nat /\ strlen <= answer.len
    BY AnswerTypes DEF IInv, TypeOK
  <2>. QED
    BY <2>1, LengthAssumption DEF IInv, OneSegment, Overflown, Fits
<1>. QED  BY <1>1, Invariance, PTL

(* Csender.cpp:236-269: for every size of fb and of the two segments, what *)
(* had arrived of an answer that fits is sent back without a gap.          *)
THEOREM TwoSegmentsReturnedCorrect == Spec => []TwoSegmentsReturned
<1>1. IInv => TwoSegmentsReturned
  BY DEF IInv, TwoSegments, TwoSegmentsReturned
<1>. QED  BY <1>1, Invariance, PTL
=============================================================================
