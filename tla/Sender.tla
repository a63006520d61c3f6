-------------------------------- MODULE Sender --------------------------------
(***************************************************************************)
(* CClient::Send2CarServer with Csender: a worker connects to the car      *)
(* server without blocking, sends the request, collects the answer piece   *)
(* by piece in fb and sends it back to the phone.  All of it happens under *)
(* mmutex, so that there is one exchange at a time in the process.         *)
(*                                                                         *)
(* Only numbers of bytes are modelled.  An answer has len bytes; after the *)
(* first mark of them fb contains what Recv waits for: {"succ":" and }.    *)
(* An answer without them has a mark beyond its length.                    *)
(***************************************************************************)
EXTENDS Integers, FiniteSets

CONSTANTS
    FEEDBACK_MSG_LEN,   \* bytes of fb
    outtime_s,          \* LINK_TIMEOUT, seconds
    MaxFds,             \* descriptors the process may open for car servers
    Answers             \* the answers of the car server, [len, mark]

ASSUME LengthAssumption == FEEDBACK_MSG_LEN \in Nat \ {0}
ASSUME TimeAssumption == outtime_s \in Nat
ASSUME FdsAssumption == MaxFds \in Nat
ASSUME AnswersAssumption == Answers \subseteq [len : Nat, mark : Nat \ {0}]

VARIABLES
    spc,        \* the place of the worker
    peer,       \* the connection: "none", "syn", "up" or "refused"
    open,       \* sockets the process holds
    failed,     \* history: exchanges whose connection was refused
    answer,     \* what the car server will send
    arrived,    \* bytes of it that have reached the socket
    segs,       \* history: segments in which they came
    closed,     \* the car server has closed the connection
    strlen,     \* Recv: bytes received
    len,        \* Recv: the room it believes is left
    seen,       \* history: bytes that had arrived at the last call of recv
    time        \* seconds since Recv began

vars == <<spc, peer, open, failed, answer, arrived, segs, closed, strlen, len, seen, time>>

serverVars == <<answer, arrived, segs, closed>>
recvVars == <<strlen, len, seen, time>>

Nothing == [len |-> 0, mark |-> 1]

\* "idle": outside Send2CarServer; "connect": select in Connect; "send"; "recv":
\* the loop of Recv; "forward": fb is complete and the socket closed; "lost":
\* memory behind fb has been overwritten.
Places == {"idle", "connect", "send", "recv", "forward", "lost"}

Min(a, b) == IF a < b THEN a ELSE b

TypeOK ==
    /\ spc \in Places
    /\ peer \in {"none", "syn", "up", "refused"}
    /\ open \in 0..MaxFds
    /\ failed \in 0..MaxFds
    /\ answer \in Answers \union {Nothing}
    /\ arrived \in 0..answer.len
    /\ segs \in Nat
    /\ closed \in BOOLEAN
    /\ strlen \in 0..arrived
    /\ len \in Int
    /\ seen \in strlen..arrived
    /\ time \in 0..(outtime_s + 1)

Init ==
    /\ spc = "idle"
    /\ peer = "none"
    /\ open = 0
    /\ failed = 0
    /\ answer = Nothing
    /\ arrived = 0
    /\ segs = 0
    /\ closed = FALSE
    /\ strlen = 0
    /\ len = 0
    /\ seen = 0
    /\ time = 0

-----------------------------------------------------------------------------
(* Csender::Connect                                                        *)

\* socket() has no descriptor left: Send2CarServer gives up.
SocketFails ==
    /\ spc = "idle"
    /\ open = MaxFds
    /\ UNCHANGED vars

\* A non-blocking connect: under way, or decided at once.
Connect ==
    /\ spc = "idle"
    /\ open < MaxFds
    /\ open' = open + 1
    /\ peer' \in {"syn", "up", "refused"}
    /\ spc' = "connect"
    /\ UNCHANGED <<failed, serverVars, recvVars>>

\* select reports the descriptor writable and without an error.
Connected ==
    /\ spc = "connect"
    /\ peer = "up"
    /\ spc' = "send"
    /\ UNCHANGED <<peer, open, failed, serverVars, recvVars>>

\* Connect returns false; nobody closes the socket.
ConnectFails ==
    /\ spc = "connect"
    /\ peer = "refused"
    /\ spc' = "idle"
    /\ peer' = "none"
    /\ failed' = failed + 1
    /\ UNCHANGED <<open, serverVars, recvVars>>

-----------------------------------------------------------------------------
(* Csender::Send and Csender::Recv                                         *)

\* The result of send is not looked at: the request may not have gone out, and
\* then nothing is answered.
Send ==
    /\ spc = "send"
    /\ spc' = "recv"
    /\ answer' \in Answers \union {Nothing}
    /\ len' = FEEDBACK_MSG_LEN - 1
    /\ UNCHANGED <<peer, open, failed, arrived, segs, closed, strlen, seen, time>>

\* Seeded defect: recv is always asked for the whole of fb.
ReceivedTwice == Min(FEEDBACK_MSG_LEN - 1, arrived)

\* Seeded defect: one byte is kept back for a terminating zero each time.
ReceivedLess ==
    IF len < 0 THEN arrived - strlen ELSE Min(IF len > 0 THEN len - 1 ELSE 0, arrived - strlen)

\* Bytes recv returns: with a negative len it takes all there are.
Received == IF len < 0 THEN arrived - strlen ELSE Min(len, arrived - strlen)

\* Seeded defect: the time is only looked at when something was received.
TimeIsUpIdle == time > outtime_s /\ Received > 0

TimeIsUp == time > outtime_s

Complete(bytes) == bytes >= answer.mark

\* Seeded defect: the time-out leaves the socket open.
CloseInTime ==
    /\ open' = IF TimeIsUp THEN open ELSE open - 1
    /\ peer' = "none"

Close ==
    /\ open' = open - 1
    /\ peer' = "none"

\* Seeded defect: len is not reduced.
RoomLeftNever(bytes) == len

\* The room is reduced by all bytes so far, not by the last piece.
RoomLeft(bytes) == len - bytes

\* One turn of the loop; Recv ends by the time or when the answer is complete.
Recv ==
    /\ spc = "recv"
    /\ strlen' = strlen + Received
    /\ seen' = arrived
    /\ len' = IF Received > 0 THEN RoomLeft(strlen') ELSE len
    /\ \/ /\ strlen' >= FEEDBACK_MSG_LEN
          /\ spc' = "lost"
          /\ UNCHANGED <<peer, open>>
       \/ /\ strlen' < FEEDBACK_MSG_LEN
          /\ TimeIsUp \/ Complete(strlen')
          /\ spc' = "forward"
          /\ Close
       \/ /\ strlen' < FEEDBACK_MSG_LEN
          /\ ~TimeIsUp /\ ~Complete(strlen')
          /\ UNCHANGED <<spc, peer, open>>
    /\ UNCHANGED <<failed, serverVars, time>>

\* CClient::sendback: fb goes to the phone; the next exchange starts anew.
Sendback ==
    /\ spc = "forward"
    /\ spc' = "idle"
    /\ answer' = Nothing
    /\ arrived' = 0
    /\ segs' = 0
    /\ closed' = FALSE
    /\ strlen' = 0
    /\ len' = 0
    /\ seen' = 0
    /\ time' = 0
    /\ UNCHANGED <<peer, open, failed>>

-----------------------------------------------------------------------------
(* The car server, the network and the clock                               *)

\* The kernel ends every attempt to connect.
Resolve ==
    /\ peer = "syn"
    /\ peer' \in {"up", "refused"}
    /\ UNCHANGED <<spc, open, failed, serverVars, recvVars>>

Arrive ==
    /\ spc = "recv"
    /\ ~closed
    /\ arrived' \in (arrived + 1)..answer.len
    /\ segs' = segs + 1
    /\ UNCHANGED <<spc, peer, open, failed, answer, closed, recvVars>>

ServerCloses ==
    /\ spc = "recv"
    /\ ~closed
    /\ closed' = TRUE
    /\ UNCHANGED <<spc, peer, open, failed, answer, arrived, segs, recvVars>>

Tick ==
    /\ spc = "recv"
    /\ time <= outtime_s
    /\ time' = time + 1
    /\ UNCHANGED <<spc, peer, open, failed, serverVars, strlen, len, seen>>

\* Nothing is known any more.
Lost ==
    /\ spc = "lost"
    /\ UNCHANGED vars

WorkerStep ==
    \/ Connected \/ ConnectFails \/ Send \/ Recv \/ Sendback

Next ==
    \/ SocketFails \/ Connect \/ WorkerStep
    \/ Resolve \/ Arrive \/ ServerCloses \/ Tick \/ Lost

Spec == Init /\ [][Next]_vars

(***************************************************************************)
(* The worker runs, time passes and connecting ends (the kernel gives up   *)
(* by itself).  Nothing is assumed of the car server.                      *)
(***************************************************************************)
Fairness == WF_vars(WorkerStep) /\ WF_vars(Tick) /\ WF_vars(Resolve)

FairSpec == Spec /\ Fairness

-----------------------------------------------------------------------------
(* Properties                                                              *)

Fits == answer.len < FEEDBACK_MSG_LEN

(* Csender.cpp:236-284: an answer that fits in fb, or comes in one         *)
(* segment, is never written outside it, although the room left is         *)
(* miscounted and may go below zero.                                       *)
StaysInside == Fits \/ segs <= 1 => spc # "lost"

(* Csender.cpp:236-284: an answer that fits and comes in at most two       *)
(* segments is sent back as far as it had arrived: nothing that recv could *)
(* have delivered is missing when Recv ends.                               *)
TwoSegmentsReturned ==
    spc = "forward" /\ Fits /\ segs <= 2 => strlen = seen

(* Csender.cpp:26-33, 34-170, 236-284: the sockets of the process are the  *)
(* one of the exchange under way and one for each refused connection: no   *)
(* path through Recv loses another.                                        *)
SocketsAccounted ==
    open = failed + (IF spc \in {"connect", "send", "recv", "lost"} THEN 1 ELSE 0)

(* Csender.cpp:242-262, CclientManager.cpp:335-361: an exchange ends and   *)
(* releases mmutex, whatever the car server does or leaves undone.         *)
ExchangeEnds == (spc # "idle") ~> (spc \in {"idle", "lost"})
=============================================================================
