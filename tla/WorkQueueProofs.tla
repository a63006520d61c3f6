--------------------------- MODULE WorkQueueProofs ---------------------------
(***************************************************************************)
(* Proofs about WorkQueue, for any set of workers, any descriptors and any *)
(* number of requests.                                                     *)
(***************************************************************************)
EXTENDS WorkQueue, FiniteSetTheorems, TLAPS

(* The values the variables of notificationthreads and run can take, for   *)
(* every interleaving of the event loop and the workers.                   *)
THEOREM TypeCorrect == Spec => []TypeOK
<1>1. Init => TypeOK
  <2> SUFFICES ASSUME Init PROVE TypeOK
    OBVIOUS
  <2>1. msglist \in Seq(Fds) /\ requests \in 0..MaxRequests /\ coalesced \in Nat
    BY MaxRequestsAssumption DEF Init
  <2>2. wpc \in [Workers -> Places] /\ rc \in [Workers -> ReturnCodes]
    BY DEF Init, Places, ReturnCodes
  <2>3. fd \in [Workers -> Fds \union {INVALID_SOCKET}]
    BY DEF Init
  <2> QED
    BY <2>1, <2>2, <2>3 DEF Init, TypeOK
<1>2. TypeOK /\ [Next]_vars => TypeOK'
  <2> SUFFICES ASSUME TypeOK, [Next]_vars PROVE TypeOK'
    OBVIOUS
  <2> USE DEF TypeOK, Places, ReturnCodes, INVALID_SOCKET
  <2>1. ASSUME NEW f \in Fds, Push(f) PROVE TypeOK'
    BY <2>1, MaxRequestsAssumption DEF Push
  <2>2. CASE Notify
    BY <2>2 DEF Notify, Waiting, Goto
  <2>3. ASSUME NEW w \in Workers, Loop(w) PROVE TypeOK'
    BY <2>3 DEF Loop, Goto
  <2>4. ASSUME NEW w \in Workers, Wait(w) PROVE TypeOK'
    BY <2>4 DEF Wait, Goto
  <2>5. ASSUME NEW w \in Workers, Consume(w) PROVE TypeOK'
    BY <2>5 DEF Consume, Goto
  <2>6. ASSUME NEW w \in Workers, WaitInvalid(w) PROVE TypeOK'
    BY <2>6 DEF WaitInvalid, Goto
  <2>7. ASSUME NEW w \in Workers, Take(w) PROVE TypeOK'
    <3>1. CASE msglist = <<>>
      BY <2>7, <3>1 DEF Take, Goto
    <3>2. CASE msglist # <<>>
      <4>1. Head(msglist) \in Fds /\ Tail(msglist) \in Seq(Fds)
        BY <3>2
      <4> QED
        BY <2>7, <3>2, <4>1 DEF Take, Goto
    <3> QED
      BY <3>1, <3>2
  <2>8. ASSUME NEW w \in Workers, Check(w) PROVE TypeOK'
    BY <2>8 DEF Check, Goto
  <2>9. ASSUME NEW w \in Workers, Work(w) PROVE TypeOK'
    BY <2>9 DEF Work, Goto
  <2>10. ASSUME NEW w \in Workers, Timeout(w) PROVE TypeOK'
    BY <2>10 DEF Timeout, Goto
  <2>11. ASSUME NEW w \in Workers, SpuriousWakeup(w) PROVE TypeOK'
    BY <2>11 DEF SpuriousWakeup, Goto
  <2>12. CASE Exit
    BY <2>12 DEF Exit
  <2>13. CASE Ended \/ UNCHANGED vars
    BY <2>13 DEF Ended, vars
  <2> QED
    BY <2>1, <2>2, <2>3, <2>4, <2>5, <2>6, <2>7, <2>8, <2>9, <2>10, <2>11, <2>12, <2>13
       DEF Next, WorkerStep
<1> QED
  BY <1>1, <1>2, PTL DEF Spec

(* CclientManager.cpp:276-277,307: a raised test_cond never finds all the  *)
(* workers asleep.  The invariant is inductive given the types.            *)
THEOREM NoLostWakeupCorrect == Spec => []NoLostWakeup
<1>1. Init => NoLostWakeup
  BY DEF Init, NoLostWakeup
<1>2. TypeOK /\ NoLostWakeup /\ [Next]_vars => NoLostWakeup'
  <2> SUFFICES ASSUME TypeOK, NoLostWakeup, [Next]_vars PROVE NoLostWakeup'
    OBVIOUS
  <2> USE DEF NoLostWakeup, TypeOK, Goto
  <2>1. ASSUME NEW f \in Fds, Push(f) PROVE NoLostWakeup'
    BY <2>1 DEF Push
  <2>2. CASE Notify
    <3>1. CASE Waiting = {}
      BY <2>2, <3>1, WorkersAssumption DEF Notify, Waiting
    <3>2. CASE Waiting # {}
      <4>1. PICK v \in Waiting : Goto(v, "woken")
        BY <2>2, <3>2 DEF Notify
      <4>2. wpc'[v] = "woken"
        BY <4>1 DEF Waiting, Goto
      <4> QED
        BY <4>1, <4>2 DEF Waiting
    <3> QED
      BY <3>1, <3>2
  <2>3. ASSUME NEW w \in Workers, Loop(w) PROVE NoLostWakeup'
    BY <2>3 DEF Loop
  <2>4. ASSUME NEW w \in Workers, Wait(w) PROVE NoLostWakeup'
    BY <2>4 DEF Wait, MustWait
  <2>5. ASSUME NEW w \in Workers, Consume(w) \/ WaitInvalid(w) PROVE NoLostWakeup'
    BY <2>5 DEF Consume, WaitInvalid
  <2>6. ASSUME NEW w \in Workers, Take(w) \/ Check(w) \/ Work(w) PROVE NoLostWakeup'
    BY <2>6 DEF Take, Check, Work
  <2>7. ASSUME NEW w \in Workers, Timeout(w) \/ SpuriousWakeup(w) PROVE NoLostWakeup'
    BY <2>7 DEF Timeout, SpuriousWakeup
  <2>8. CASE Exit \/ Ended \/ UNCHANGED vars
    BY <2>8 DEF Exit, Ended, vars
  <2> QED
    BY <2>1, <2>2, <2>3, <2>4, <2>5, <2>6, <2>7, <2>8 DEF Next, WorkerStep
<1> QED
  BY <1>1, <1>2, TypeCorrect, PTL DEF Spec

(* The workers between clearing the flag and taking are finitely many.     *)
LEMMA TakersFinite == IsFiniteSet(Takers) /\ Cardinality(Takers) \in Nat
  BY WorkersAssumption, FS_Subset, FS_CardinalityType DEF Takers

(* A worker that clears test_cond (CclientManager.cpp:313) is one taker    *)
(* more.                                                                   *)
LEMMA OneTakerMore ==
    ASSUME TypeOK, NEW w \in Workers, wpc[w] # "take", Goto(w, "take")
    PROVE  Cardinality(Takers') = Cardinality(Takers) + 1
<1>1. Takers' = Takers \union {w}
  BY DEF TypeOK, Takers, Goto
<1>2. w \notin Takers
  BY DEF Takers
<1> QED
  BY <1>1, <1>2, TakersFinite, FS_AddElement

(* A worker that has taken its message (CclientManager.cpp:322) is one     *)
(* taker less.                                                             *)
LEMMA OneTakerLess ==
    ASSUME TypeOK, NEW w \in Workers, wpc[w] = "take", Goto(w, "check")
    PROVE  Cardinality(Takers') = Cardinality(Takers) - 1
<1>1. Takers' = Takers \ {w}
  BY DEF TypeOK, Takers, Goto
<1>2. w \in Takers
  BY DEF Takers
<1> QED
  BY <1>1, <1>2, TakersFinite, FS_RemoveElement

(* CclientManager.cpp:272-276,313-323: a message without a worker on its   *)
(* way to it is one whose signal was merged with an earlier one.           *)
THEOREM BacklogBoundCorrect == Spec => []BacklogBound
<1>1. Init => BacklogBound
  <2> SUFFICES ASSUME Init PROVE BacklogBound
    OBVIOUS
  <2>1. Takers = {}
    BY DEF Init, Takers
  <2> QED
    BY <2>1, FS_EmptySet DEF Init, BacklogBound
<1>2. TypeOK /\ BacklogBound /\ [Next]_vars => BacklogBound'
  <2> SUFFICES ASSUME TypeOK, BacklogBound, [Next]_vars PROVE BacklogBound'
    OBVIOUS
  <2>0. Cardinality(Takers) \in Nat /\ Len(msglist) \in Nat /\ coalesced \in Nat
    BY TakersFinite DEF TypeOK
  <2>1. ASSUME NEW f \in Fds, Push(f) PROVE BacklogBound'
    <3>1. Len(msglist') = Len(msglist) + 1
      BY <2>1 DEF Push, TypeOK
    <3>2. Takers' = Takers
      BY <2>1 DEF Push, Takers
    <3> QED
      BY <2>0, <2>1, <3>1, <3>2 DEF Push, BacklogBound
  <2>2. CASE Notify
    <3>1. Takers' = Takers
      BY <2>2 DEF Notify, Takers, Waiting, Goto, TypeOK
    <3> QED
      BY <2>0, <2>2, <3>1 DEF Notify, BacklogBound
  <2>3. ASSUME NEW w \in Workers, Consume(w) \/ WaitInvalid(w) PROVE BacklogBound'
    <3>1. Cardinality(Takers') = Cardinality(Takers) + 1
      BY <2>3, OneTakerMore DEF Consume, WaitInvalid, AtCondition
    <3> QED
      BY <2>0, <2>3, <3>1 DEF Consume, WaitInvalid, BacklogBound
  <2>4. ASSUME NEW w \in Workers, Take(w) PROVE BacklogBound'
    <3>1. Cardinality(Takers') = Cardinality(Takers) - 1
      BY <2>4, OneTakerLess DEF Take
    <3>2. Cardinality(Takers') \in Nat
      <4>1. Takers' \in SUBSET Workers
        BY DEF Takers
      <4> QED
        BY <4>1, WorkersAssumption, FS_Subset, FS_CardinalityType
    <3>3. CASE msglist = <<>>
      <4>1. Len(msglist') = 0
        BY <2>4, <3>3 DEF Take
      <4> QED
        BY <2>0, <2>4, <3>2, <4>1 DEF Take, BacklogBound
    <3>4. CASE msglist # <<>>
      <4>1. Len(msglist') = Len(msglist) - 1
        BY <2>4, <3>4 DEF Take, TypeOK
      <4> QED
        BY <2>0, <2>4, <3>1, <4>1 DEF Take, BacklogBound
    <3> QED
      BY <3>3, <3>4
  <2>5. ASSUME NEW w \in Workers,
               \/ Loop(w) \/ Wait(w) \/ Check(w) \/ Work(w)
               \/ Timeout(w) \/ SpuriousWakeup(w)
        PROVE  BacklogBound'
    <3>1. Takers' = Takers
      BY <2>5 DEF Loop, Wait, Check, Work, Timeout, SpuriousWakeup, AtCondition,
                  Goto, Takers, TypeOK
    <3>2. UNCHANGED <<msglist, test_cond, mpc, coalesced>>
      BY <2>5 DEF Loop, Wait, Check, Work, Timeout, SpuriousWakeup
    <3> QED
      BY <3>1, <3>2, Zenon DEF BacklogBound
  <2>6. CASE Exit \/ Ended \/ UNCHANGED vars
    <3>1. UNCHANGED <<msglist, test_cond, mpc, coalesced, wpc>>
      BY <2>6 DEF Exit, Ended, vars
    <3>2. Takers' = Takers
      BY <3>1 DEF Takers
    <3> QED
      BY <3>1, <3>2, Zenon DEF BacklogBound
  <2> QED
    BY <2>1, <2>2, <2>3, <2>4, <2>5, <2>6 DEF Next, WorkerStep
<1> QED
  BY <1>1, <1>2, TypeCorrect, PTL DEF Spec

(* CclientManager.cpp:264-330 implement MsgQueue: under the mapping of     *)
(* "has taken, has not finished the round" to busy, every step of the two  *)
(* threads is a step of the abstract queue or leaves it alone.             *)
THEOREM RefinesMsgQueue == Spec => ImplementsMsgQueue
<1>1. Init => Queue!QueueInit
  <2> SUFFICES ASSUME Init PROVE Queue!QueueInit
    OBVIOUS
  <2>1. Busy = {}
    BY DEF Init, Busy
  <2> QED
    BY <2>1 DEF Init, Queue!QueueInit, INVALID_SOCKET, Queue!INVALID_SOCKET
<1>2. TypeOK /\ [Next]_vars => [Queue!QueueNext]_Queue!queueVars
  <2> SUFFICES ASSUME TypeOK, [Next]_vars
               PROVE  Queue!QueueNext \/ UNCHANGED <<msglist, fd, Busy>>
    BY DEF Queue!queueVars
  <2>1. ASSUME NEW f \in Fds, Push(f) PROVE Queue!QueueNext
    BY <2>1 DEF Push, Queue!QueueNext, Queue!PushBack, Busy
  <2>2. CASE Notify
    <3>1. Busy' = Busy
      BY <2>2 DEF Notify, Waiting, Goto, Busy, TypeOK
    <3> QED
      BY <2>2, <3>1 DEF Notify
  <2>3. ASSUME NEW w \in Workers,
               \/ Loop(w) \/ Wait(w) \/ Consume(w) \/ WaitInvalid(w)
               \/ Timeout(w) \/ SpuriousWakeup(w)
        PROVE  UNCHANGED <<msglist, fd, Busy>>
    <3>1. Busy' = Busy
      BY <2>3 DEF Loop, Wait, Consume, WaitInvalid, Timeout, SpuriousWakeup,
                  AtCondition, Goto, Busy, TypeOK
    <3> QED
      BY <2>3, <3>1 DEF Loop, Wait, Consume, WaitInvalid, Timeout, SpuriousWakeup
  <2>4. ASSUME NEW w \in Workers, Take(w) PROVE Queue!QueueNext
    <3>1. w \notin Busy /\ Busy' = Busy \union {w}
      BY <2>4 DEF Take, Goto, Busy, TypeOK
    <3>2. Queue!TakeFront(w)
      BY <2>4, <3>1 DEF Take, Queue!TakeFront
    <3> QED
      BY <3>2 DEF Queue!QueueNext
  <2>5. ASSUME NEW w \in Workers, Check(w)
        PROVE  Queue!QueueNext \/ UNCHANGED <<msglist, fd, Busy>>
    <3>1. CASE allExitFlag
      <4>1. w \in Busy /\ Busy' = Busy \ {w}
        BY <2>5, <3>1 DEF Check, Goto, Busy, TypeOK
      <4>2. Queue!Release(w)
        BY <2>5, <4>1 DEF Check, Queue!Release
      <4> QED
        BY <4>2 DEF Queue!QueueNext
    <3>2. CASE ~allExitFlag
      <4>1. Busy' = Busy
        BY <2>5, <3>2 DEF Check, Goto, Busy, TypeOK
      <4> QED
        BY <2>5, <4>1 DEF Check
    <3> QED
      BY <3>1, <3>2
  <2>6. ASSUME NEW w \in Workers, Work(w) PROVE Queue!QueueNext
    <3>1. w \in Busy /\ Busy' = Busy \ {w}
      BY <2>6 DEF Work, Goto, Busy, TypeOK
    <3>2. Queue!Release(w)
      BY <2>6, <3>1 DEF Work, Queue!Release
    <3> QED
      BY <3>2 DEF Queue!QueueNext
  <2>7. CASE Exit \/ Ended \/ UNCHANGED vars
    BY <2>7 DEF Exit, Ended, vars, Busy
  <2> QED
    BY <2>1, <2>2, <2>3, <2>4, <2>5, <2>6, <2>7 DEF Next, WorkerStep
<1> QED
  BY <1>1, <1>2, TypeCorrect, PTL DEF Spec, ImplementsMsgQueue, Queue!QueueSpec
=============================================================================
