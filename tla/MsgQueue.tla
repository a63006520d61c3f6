------------------------------ MODULE MsgQueue ------------------------------
(***************************************************************************)
(* What CclientManager's request queue promises to the rest of the daemon: *)
(* the event loop appends the descriptor of a complete request to msglist, *)
(* and a worker that is handed the right to work removes the oldest        *)
(* descriptor, or goes on with the one it handled last when the list is    *)
(* empty.  When a worker is handed that right is left open.                *)
(*                                                                         *)
(* WorkQueue implements this specification with the flag test_cond and a   *)
(* condition variable; Server uses it as the queue between its event loop  *)
(* and its workers, so what Server shows holds for every wake-up order.    *)
(***************************************************************************)
EXTENDS Integers, Sequences

CONSTANTS
    Workers,    \* the threads CclientManager::start creates
    Fds         \* the descriptors a request can arrive on

VARIABLES
    msglist,    \* CclientManager::msglist
    fd,         \* fd[w]: the local variable fd of run in worker w
    busy        \* the workers between taking a message and waiting again

queueVars == <<msglist, fd, busy>>

\* the initial value of the local variable fd of run
INVALID_SOCKET == -1

QueueInit ==
    /\ msglist = <<>>
    /\ fd = [w \in Workers |-> INVALID_SOCKET]
    /\ busy = {}

PushBack(f) ==
    /\ msglist' = Append(msglist, f)
    /\ UNCHANGED <<fd, busy>>

\* An empty list leaves fd as it was: the worker looks its last client up again.
TakeFront(w) ==
    /\ w \notin busy
    /\ busy' = busy \union {w}
    /\ \/ /\ msglist # <<>>
          /\ fd' = [fd EXCEPT ![w] = Head(msglist)]
          /\ msglist' = Tail(msglist)
       \/ /\ msglist = <<>>
          /\ UNCHANGED <<msglist, fd>>

Release(w) ==
    /\ w \in busy
    /\ busy' = busy \ {w}
    /\ UNCHANGED <<msglist, fd>>

QueueNext ==
    \/ \E f \in Fds : PushBack(f)
    \/ \E w \in Workers : TakeFront(w) \/ Release(w)

QueueSpec == QueueInit /\ [][QueueNext]_queueVars
=============================================================================
