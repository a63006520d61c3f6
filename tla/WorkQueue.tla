------------------------------ MODULE WorkQueue ------------------------------
(***************************************************************************)
(* CclientManager::notificationthreads and the waiting half of             *)
(* CclientManager::run: how a complete request reaches a worker thread.    *)
(*                                                                         *)
(* The event loop appends to msglist under mtx4msgqueue and then, in a     *)
(* second critical section under mtx4cond, sets the one flag test_cond and *)
(* signals cond.  A worker waits for the flag with a timed wait, clears it *)
(* under mtx4cond and, in a second critical section, removes at most one   *)
(* message.  Each critical section is one step; a timed wait ends its      *)
(* critical section, so the steps around it are apart.                     *)
(*                                                                         *)
(* The timespec of the timed wait has its tv_nsec never assigned.  What it *)
(* holds is fixed per thread by the stack it starts on: a valid value, or  *)
(* one that makes every wait return EINVAL at once.                        *)
(***************************************************************************)
EXTENDS Integers, Sequences, FiniteSets

CONSTANTS
    Workers,        \* the threads CclientManager::start creates (g_cfg.max_worker)
    Fds,            \* the descriptors a request can arrive on
    MaxRequests     \* bound of the model: requests the event loop completes

ASSUME WorkersAssumption == IsFiniteSet(Workers) /\ Workers # {}
ASSUME FdsAssumption == Fds \subseteq Nat
ASSUME MaxRequestsAssumption == MaxRequests \in Nat

VARIABLES
    allExitFlag,    \* gps.cpp: every loop of the process has to end
    msglist,        \* CclientManager::msglist
    test_cond,      \* CclientManager::test_cond
    mpc,            \* the event loop: "idle", or "notify" between push and signal
    wpc,            \* the place of each worker in run
    rc,             \* the local variable rc of run
    fd,             \* the local variable fd of run
    nsecValid,      \* whether the thread's ts.tv_nsec is a legal value
    requests,       \* how many requests have been pushed
    coalesced       \* history: signals that found test_cond still set

vars == <<allExitFlag, msglist, test_cond, mpc, wpc, rc, fd, nsecValid, requests, coalesced>>

\* the initial value of the local variable fd of run
INVALID_SOCKET == -1

\* What pthread_cond_timedwait can have returned last.
ReturnCodes == {"OK", "ETIMEDOUT", "EINVAL"}

\* "loop": at while (!allExitFlag); "lock": before locking mtx4cond;
\* "wait": in pthread_cond_timedwait; "woken": the wait is over and mtx4cond
\* is to be locked again; "take": before locking mtx4msgqueue; "check": at
\* if (!allExitFlag); "work": at the request; "done": run has returned.
Places == {"loop", "lock", "wait", "woken", "take", "check", "work", "done"}

TypeOK ==
    /\ allExitFlag \in BOOLEAN
    /\ msglist \in Seq(Fds)
    /\ test_cond \in BOOLEAN
    /\ mpc \in {"idle", "notify"}
    /\ wpc \in [Workers -> Places]
    /\ rc \in [Workers -> ReturnCodes]
    /\ fd \in [Workers -> Fds \union {INVALID_SOCKET}]
    /\ nsecValid \in [Workers -> BOOLEAN]
    /\ requests \in 0..MaxRequests
    /\ coalesced \in Nat

Init ==
    /\ allExitFlag = FALSE
    /\ msglist = <<>>
    /\ test_cond = FALSE
    /\ mpc = "idle"
    /\ wpc = [w \in Workers |-> "loop"]
    /\ rc = [w \in Workers |-> "ETIMEDOUT"]
    /\ fd = [w \in Workers |-> INVALID_SOCKET]
    /\ nsecValid \in [Workers -> BOOLEAN]
    /\ requests = 0
    /\ coalesced = 0

Goto(w, place) == wpc' = [wpc EXCEPT ![w] = place]

-----------------------------------------------------------------------------
(* The event loop: notificationthreads(f), called by CClient::parse.       *)

Push(f) ==
    /\ mpc = "idle"
    /\ requests < MaxRequests
    /\ requests' = requests + 1
    /\ msglist' = Append(msglist, f)
    /\ mpc' = "notify"
    /\ UNCHANGED <<allExitFlag, test_cond, wpc, rc, fd, nsecValid, coalesced>>

Waiting == {w \in Workers : wpc[w] = "wait"}

\* Seeded defect: the flag is raised and nobody is signalled.
NotifyNoSignal ==
    /\ mpc = "notify"
    /\ mpc' = "idle"
    /\ coalesced' = IF test_cond THEN coalesced + 1 ELSE coalesced
    /\ test_cond' = TRUE
    /\ UNCHANGED <<allExitFlag, msglist, wpc, rc, fd, nsecValid, requests>>

\* pthread_cond_signal wakes one waiting worker, if there is one.
Notify ==
    /\ mpc = "notify"
    /\ mpc' = "idle"
    /\ coalesced' = IF test_cond THEN coalesced + 1 ELSE coalesced
    /\ test_cond' = TRUE
    /\ \/ /\ Waiting = {}
          /\ UNCHANGED <<wpc, rc>>
       \/ \E w \in Waiting :
             /\ Goto(w, "woken")
             /\ rc' = [rc EXCEPT ![w] = "OK"]
    /\ UNCHANGED <<allExitFlag, msglist, fd, nsecValid, requests>>

-----------------------------------------------------------------------------
(* A worker: run                                                           *)

Loop(w) ==
    /\ wpc[w] = "loop"
    /\ Goto(w, IF allExitFlag THEN "done" ELSE "lock")
    /\ UNCHANGED <<allExitFlag, msglist, test_cond, mpc, rc, fd, nsecValid, requests, coalesced>>

\* Seeded defect: the inner loop does not look at allExitFlag.
MustWaitNoExit(w) == ~test_cond /\ rc[w] = "ETIMEDOUT"

\* The condition of the inner loop, evaluated with mtx4cond held.
MustWait(w) == ~test_cond /\ rc[w] = "ETIMEDOUT" /\ ~allExitFlag

AtCondition(w) == wpc[w] \in {"lock", "woken"}

\* pthread_cond_timedwait releases mtx4cond and sleeps ...
Wait(w) ==
    /\ AtCondition(w)
    /\ MustWait(w)
    /\ nsecValid[w]
    /\ Goto(w, "wait")
    /\ UNCHANGED <<allExitFlag, msglist, test_cond, mpc, rc, fd, nsecValid, requests, coalesced>>

\* Seeded defect: the flag stays set for the next worker.
ConsumeKeepsFlag(w) ==
    /\ AtCondition(w)
    /\ ~MustWait(w)
    /\ rc' = [rc EXCEPT ![w] = "ETIMEDOUT"]
    /\ Goto(w, "take")
    /\ UNCHANGED <<allExitFlag, msglist, test_cond, mpc, fd, nsecValid, requests, coalesced>>

\* test_cond = false; unlock; rc = ETIMEDOUT
Consume(w) ==
    /\ AtCondition(w)
    /\ ~MustWait(w)
    /\ test_cond' = FALSE
    /\ rc' = [rc EXCEPT ![w] = "ETIMEDOUT"]
    /\ Goto(w, "take")
    /\ UNCHANGED <<allExitFlag, msglist, mpc, fd, nsecValid, requests, coalesced>>

\* ... or fails with EINVAL without sleeping: rc ends the inner loop, and the
\* flag is cleared in the same critical section.
WaitInvalid(w) ==
    /\ AtCondition(w)
    /\ MustWait(w)
    /\ ~nsecValid[w]
    /\ test_cond' = FALSE
    /\ Goto(w, "take")
    /\ UNCHANGED <<allExitFlag, msglist, mpc, rc, fd, nsecValid, requests, coalesced>>

\* Seeded defect: the flag is cleared inside the inner loop.
TimeoutClears(w) ==
    /\ wpc[w] = "wait"
    /\ Goto(w, "woken")
    /\ test_cond' = FALSE
    /\ UNCHANGED <<allExitFlag, msglist, mpc, rc, fd, nsecValid, requests, coalesced>>

\* The ten seconds are over; rc keeps the value ETIMEDOUT.
Timeout(w) ==
    /\ wpc[w] = "wait"
    /\ Goto(w, "woken")
    /\ UNCHANGED <<allExitFlag, msglist, test_cond, mpc, rc, fd, nsecValid, requests, coalesced>>

\* POSIX allows the wait to return 0 without a signal.
SpuriousWakeup(w) ==
    /\ wpc[w] = "wait"
    /\ Goto(w, "woken")
    /\ rc' = [rc EXCEPT ![w] = "OK"]
    /\ UNCHANGED <<allExitFlag, msglist, test_cond, mpc, fd, nsecValid, requests, coalesced>>

\* Seeded defect: the oldest descriptor is read and left in the list.
TakeNoPop(w) ==
    /\ wpc[w] = "take"
    /\ Goto(w, "check")
    /\ fd' = IF msglist = <<>> THEN fd ELSE [fd EXCEPT ![w] = Head(msglist)]
    /\ UNCHANGED <<allExitFlag, msglist, test_cond, mpc, rc, nsecValid, requests, coalesced>>

\* Seeded defect: the newest request is served first.
TakeNewest(w) ==
    /\ wpc[w] = "take"
    /\ Goto(w, "check")
    /\ \/ /\ msglist # <<>>
          /\ fd' = [fd EXCEPT ![w] = msglist[Len(msglist)]]
          /\ msglist' = SubSeq(msglist, 1, Len(msglist) - 1)
       \/ /\ msglist = <<>>
          /\ UNCHANGED <<msglist, fd>>
    /\ UNCHANGED <<allExitFlag, test_cond, mpc, rc, nsecValid, requests, coalesced>>

\* Seeded defect: front() without the test for an empty list yields whatever
\* the list header holds.
TakeUnchecked(w) ==
    /\ wpc[w] = "take"
    /\ Goto(w, "check")
    /\ \/ /\ msglist # <<>>
          /\ fd' = [fd EXCEPT ![w] = Head(msglist)]
          /\ msglist' = Tail(msglist)
       \/ /\ msglist = <<>>
          /\ fd' = [fd EXCEPT ![w] = -2]
          /\ UNCHANGED msglist
    /\ UNCHANGED <<allExitFlag, test_cond, mpc, rc, nsecValid, requests, coalesced>>

\* One message at most; an empty list leaves the descriptor of the last one.
Take(w) ==
    /\ wpc[w] = "take"
    /\ Goto(w, "check")
    /\ \/ /\ msglist # <<>>
          /\ fd' = [fd EXCEPT ![w] = Head(msglist)]
          /\ msglist' = Tail(msglist)
       \/ /\ msglist = <<>>
          /\ UNCHANGED <<msglist, fd>>
    /\ UNCHANGED <<allExitFlag, test_cond, mpc, rc, nsecValid, requests, coalesced>>

Check(w) ==
    /\ wpc[w] = "check"
    /\ Goto(w, IF allExitFlag THEN "done" ELSE "work")
    /\ UNCHANGED <<allExitFlag, msglist, test_cond, mpc, rc, fd, nsecValid, requests, coalesced>>

\* The request itself is Server's subject; an exception ends the daemon.
Work(w) ==
    /\ wpc[w] = "work"
    /\ Goto(w, "loop")
    /\ allExitFlag' \in {allExitFlag, TRUE}
    /\ UNCHANGED <<msglist, test_cond, mpc, rc, fd, nsecValid, requests, coalesced>>

-----------------------------------------------------------------------------
\* A signal, or setallthreadexitflag called by another part of the daemon.
Exit ==
    /\ ~allExitFlag
    /\ allExitFlag' = TRUE
    /\ UNCHANGED <<msglist, test_cond, mpc, wpc, rc, fd, nsecValid, requests, coalesced>>

\* The daemon has ended: the event loop pushes nothing more, the workers are gone.
Ended ==
    /\ allExitFlag
    /\ mpc = "idle"
    /\ \A w \in Workers : wpc[w] = "done"
    /\ UNCHANGED vars

WorkerStep(w) ==
    \/ Loop(w) \/ Wait(w) \/ Consume(w) \/ WaitInvalid(w)
    \/ Take(w) \/ Check(w) \/ Work(w)

Next ==
    \/ \E f \in Fds : Push(f)
    \/ Notify
    \/ \E w \in Workers : WorkerStep(w) \/ Timeout(w) \/ SpuriousWakeup(w)
    \/ Exit
    \/ Ended

Spec == Init /\ [][Next]_vars

(***************************************************************************)
(* Threads keep running: a thread that can take a step takes it in the     *)
(* end, and a timed wait ends after ten seconds at the latest.  Nothing is *)
(* assumed of spurious wake-ups, of clients (Push) nor of Exit.            *)
(***************************************************************************)
Fairness ==
    /\ WF_vars(Notify)
    /\ \A w \in Workers : WF_vars(WorkerStep(w)) /\ WF_vars(Timeout(w))

FairSpec == Spec /\ Fairness

-----------------------------------------------------------------------------
(* Properties                                                              *)

(* CclientManager.cpp:276-277 with 307: a raised test_cond is never left   *)
(* with all workers asleep on it (until their timeout), although the flag  *)
(* is raised, signalled and tested in different critical sections and one  *)
(* worker may clear the flag another was woken for.                        *)
NoLostWakeup ==
    test_cond => \E w \in Workers : wpc[w] # "wait"

\* The workers that have cleared the flag and not yet taken their message.
Takers == {w \in Workers : wpc[w] = "take"}

(* CclientManager.cpp:272-276 and 313-323: a request can be left in        *)
(* msglist without a worker on its way to it only when its signal found    *)
(* test_cond still set by an earlier one.  Every other message is covered  *)
(* by the raised flag, by a worker about to take, or by the event loop     *)
(* about to signal.                                                        *)
BacklogBound ==
    Len(msglist) <= coalesced + (IF test_cond THEN 1 ELSE 0)
                    + Cardinality(Takers) + (IF mpc = "notify" THEN 1 ELSE 0)

(* CclientManager.cpp:276,307-313: a raised flag is consumed in the end,   *)
(* or the daemon is ending.                                                *)
FlagConsumed == test_cond ~> (~test_cond \/ allExitFlag)

(* CclientManager.cpp:303,307,330: after allExitFlag every worker leaves   *)
(* run, wherever it was, a sleeping one at its next timeout.               *)
WorkersLeave == allExitFlag ~> \A w \in Workers : wpc[w] = "done"

(* CclientManager.cpp:264-330: as long as no two signals are merged, every *)
(* request that reaches msglist is taken by a worker, or the daemon ends.  *)
UnmergedServed ==
    [](coalesced = 0) => (msglist # <<>> ~> (msglist = <<>> \/ allExitFlag))

(* src/readme:3 says that the daemon receives the positions phones send,   *)
(* corrects them and forwards them: a queued request is served, or the     *)
(* daemon ends.                                                            *)
RequestsServed == msglist # <<>> ~> (msglist = <<>> \/ allExitFlag)

\* A worker is handed the right to work from Take to the end of the round.
Busy == {w \in Workers : wpc[w] \in {"check", "work"}}

Queue == INSTANCE MsgQueue WITH busy <- Busy

(* CclientManager.cpp:264-280 and 295-330 implement the queue Server       *)
(* relies on: first in first out, each message to one worker, and a worker *)
(* that finds the list empty goes on with its previous descriptor.         *)
ImplementsMsgQueue == Queue!QueueSpec
=============================================================================
