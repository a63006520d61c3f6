-------------------------------- MODULE Server --------------------------------
(***************************************************************************)
(* The running daemon: the event loop of gps.cpp with SelEpolKqEvPrt, the  *)
(* table of clients and the CClient objects of CclientManager, the worker  *)
(* threads with their Csender sockets, and the phones.                     *)
(*                                                                         *)
(* One action is one step between two points where another thread can      *)
(* interfere: a system call, an unprotected read or write of shared state, *)
(* or a whole critical section of mmutex.  Workers hold mmutex over        *)
(* several steps (they talk to the car server inside it); the event loop   *)
(* only for one.  The hand-off of requests is the abstract MsgQueue.       *)
(*                                                                         *)
(* Descriptors are reused (the kernel hands out the lowest free one), heap *)
(* cells are reused (any free one), and a field read through a pointer to  *)
(* a freed client has an arbitrary value.  A local variable that the code  *)
(* does not read again is set back to its initial value.                   *)
(***************************************************************************)
EXTENDS Integers, Sequences, FiniteSets

CONSTANTS
    Workers,        \* worker threads
    Conn,           \* connections phones open
    Fds,            \* descriptors the process can open besides the listener
    Addr,           \* heap cells for CClient objects
    MaxClients,     \* g_cfg.max_clients
    Parts,          \* segments one phone sends at most
    BareHangup,     \* a socket that is not connected yet is told without EPOLLIN
    Listener,       \* the listening descriptor
    Free,           \* an unused descriptor
    Nil             \* the null pointer, and no owner of mmutex

ASSUME ServerFinite ==
    IsFiniteSet(Workers) /\ IsFiniteSet(Conn) /\ IsFiniteSet(Fds) /\ IsFiniteSet(Addr)
ASSUME FdsAssumption == Fds \subseteq Nat
ASSUME MaxClientsAssumption == MaxClients \in Nat
ASSUME PartsAssumption == Parts \in Nat
ASSUME BareHangupAssumption == BareHangup \in BOOLEAN
ASSUME Distinct ==
    /\ Free \notin Conn \union Workers
    /\ Conn \intersect Workers = {}
    /\ Nil \notin Addr \union Workers
    /\ Listener \notin Fds

VARIABLES
    \* the kernel and the phones
    fdt,            \* what each descriptor is: Free, a connection, a worker's socket
    backlog,        \* connections waiting for accept, oldest first
    started,        \* connections the phones have opened
    sent,           \* segments a phone has sent
    rcvd,           \* segments of them the daemon has received
    hung,           \* connections closed by the phone
    reg,            \* descriptors in the epoll set, the listener aside
    ready,          \* descriptors with an undelivered edge
    \* SelEpolKqEvPrt and the event loop
    curfds,         \* SelEpolKqEvPrt::curfds
    mpc,            \* place in the loop of main
    batch,          \* events of the last epoll_wait not dispatched yet
    ev,             \* the event being dispatched
    mfd,            \* new_fd or descriptor
    mptr,           \* pclient of AddToQueue, client of DoRead
    mkill,          \* the argument of DoKill called by receive
    \* CclientManager and CClient
    clientqueue,    \* CclientManager::clientqueue
    live,           \* allocated CClient objects
    obj,            \* their fields
    mmutex,         \* the worker that holds CclientManager::mmutex, or Nil
    msglist,        \* CclientManager::msglist
    \* the workers
    wpc,            \* place in run
    fd,             \* the local variable fd of run
    pc,             \* the local variable pc of run
    sock,           \* m_sockfd of the Csender in use
    wkill           \* the argument of DoKill called by run

netVars == <<backlog, started, sent, rcvd, hung>>
epollVars == <<reg, ready, curfds>>
mainVars == <<mpc, batch, ev, mfd, mptr, mkill>>
tableVars == <<clientqueue, live, obj>>
workerVars == <<wpc, fd, pc, sock, wkill>>
vars == <<fdt, netVars, epollVars, mainVars, tableVars, mmutex, msglist, workerVars>>

INVALID_SOCKET == -1

MaybeFd == Fds \union {INVALID_SOCKET}

\* fd, status and serial are the fields of CClient (serial: whether strlen is
\* positive); kept says that offset is not 0, an incomplete request is kept;
\* sent is history: the request has been sent to the car server.
Client == [fd : MaybeFd, status : 0..2, serial : BOOLEAN, kept : BOOLEAN, sent : BOOLEAN]

\* read: EPOLLIN is set; hup: EPOLLRDHUP or EPOLLERR is.
Event == [fd : Fds \union {Listener}, read : BOOLEAN, hup : BOOLEAN]

MainPlaces == {"wait", "dispatch", "getnew", "insert", "register", "badclose",
               "find", "receive", "notify", "rkill", "hup", "hupkill"}

WorkerPlaces == {"idle", "find", "connect", "sending", "unlock", "pcfd", "kill"}

TypeOK ==
    /\ fdt \in [Fds -> {Free} \union Conn \union Workers]
    /\ backlog \in Seq(Conn)
    /\ started \subseteq Conn
    /\ sent \in [Conn -> 0..Parts]
    /\ rcvd \in [Conn -> 0..Parts]
    /\ hung \subseteq Conn
    /\ reg \subseteq Fds
    /\ ready \subseteq reg \union {Listener}
    /\ curfds \in Int
    /\ mpc \in MainPlaces
    /\ batch \subseteq Event
    /\ ev \in Event
    /\ mfd \in MaybeFd
    /\ mptr \in Addr \union {Nil}
    /\ mkill \in MaybeFd
    /\ clientqueue \in [Fds -> Addr \union {Nil}]
    /\ live \subseteq Addr
    /\ obj \in [Addr -> Client]
    /\ mmutex \in Workers \union {Nil}
    /\ msglist \in Seq(MaybeFd)
    /\ wpc \in [Workers -> WorkerPlaces]
    /\ fd \in [Workers -> MaybeFd]
    /\ pc \in [Workers -> Addr \union {Nil}]
    /\ sock \in [Workers -> MaybeFd]
    /\ wkill \in [Workers -> MaybeFd]

\* The fields ini sets.
ini(f) == [fd |-> f, status |-> 0, serial |-> FALSE, kept |-> FALSE, sent |-> FALSE]

\* A cell without a client.
NoClient == ini(INVALID_SOCKET)

\* initialize(sockfd): curfds starts at 1 and registering the listener adds 1.
Init ==
    /\ fdt = [f \in Fds |-> Free]
    /\ backlog = <<>>
    /\ started = {}
    /\ sent = [c \in Conn |-> 0]
    /\ rcvd = [c \in Conn |-> 0]
    /\ hung = {}
    /\ reg = {}
    /\ ready = {}
    /\ curfds = 2
    /\ mpc = "wait"
    /\ batch = {}
    /\ ev = [fd |-> Listener, read |-> TRUE, hup |-> FALSE]
    /\ mfd = INVALID_SOCKET
    /\ mptr = Nil
    /\ mkill = INVALID_SOCKET
    /\ clientqueue = [f \in Fds |-> Nil]
    /\ live = {}
    /\ obj = [a \in Addr |-> NoClient]
    /\ mmutex = Nil
    /\ msglist = <<>>
    /\ wpc = [w \in Workers |-> "idle"]
    /\ fd = [w \in Workers |-> INVALID_SOCKET]
    /\ pc = [w \in Workers |-> Nil]
    /\ sock = [w \in Workers |-> INVALID_SOCKET]
    /\ wkill = [w \in Workers |-> INVALID_SOCKET]

-----------------------------------------------------------------------------
(* The kernel                                                              *)

FreeFds == {f \in Fds : fdt[f] = Free}

IsLowestFree(f) == f \in FreeFds /\ \A g \in FreeFds : f <= g

\* close(f): the descriptor leaves the epoll set with it.  Closing what is
\* not open does nothing.  curfds is not the kernel's and stays.
Close(f) ==
    /\ fdt' = [g \in Fds |-> IF g = f THEN Free ELSE fdt[g]]
    /\ reg' = reg \ {f}
    /\ ready' = ready \ {f}

\* The edges a change of connection c raises.
Edge(c) == {f \in reg : fdt[f] = c}

Readable(f) == fdt[f] \in Conn /\ (rcvd[fdt[f]] < sent[fdt[f]] \/ fdt[f] \in hung)

-----------------------------------------------------------------------------
(* The phones                                                              *)

Open(c) == \E f \in Fds : fdt[f] = c

\* Neither end has closed the connection.
Connected(c) ==
    /\ c \notin hung
    /\ Open(c) \/ \E i \in 1..Len(backlog) : backlog[i] = c

PhoneConnect(c) ==
    /\ c \notin started
    /\ started' = started \union {c}
    /\ backlog' = Append(backlog, c)
    /\ ready' = ready \union {Listener}
    /\ UNCHANGED <<fdt, sent, rcvd, hung, reg, curfds, mainVars, tableVars, mmutex,
                   msglist, workerVars>>

PhoneSend(c) ==
    /\ Connected(c)
    /\ sent[c] < Parts
    /\ sent' = [sent EXCEPT ![c] = @ + 1]
    /\ ready' = ready \union Edge(c)
    /\ UNCHANGED <<fdt, backlog, started, rcvd, hung, reg, curfds, mainVars, tableVars,
                   mmutex, msglist, workerVars>>

PhoneHangup(c) ==
    /\ Connected(c)
    /\ hung' = hung \union {c}
    /\ ready' = ready \union Edge(c)
    /\ UNCHANGED <<fdt, backlog, started, sent, rcvd, reg, curfds, mainVars, tableVars,
                   mmutex, msglist, workerVars>>

\* The car server's answer reaches a worker's socket that the event loop has
\* put into the epoll set by its number.
CarServerEdge(f) ==
    /\ f \in reg \ ready
    /\ fdt[f] \in Workers
    /\ ready' = ready \union {f}
    /\ UNCHANGED <<fdt, netVars, reg, curfds, mainVars, tableVars, mmutex, msglist,
                   workerVars>>

-----------------------------------------------------------------------------
(* The table of clients                                                    *)

Size == Cardinality({f \in Fds : clientqueue[f] # Nil})

\* What reading pc->fd yields: a freed cell holds anything.
ReadFd(p) == IF p \in live THEN {obj[p].fd} ELSE MaybeFd

\* delete p: ~CClient closes the descriptor the object holds.
Destroy(p) ==
    /\ live' = live \ {p}
    /\ Close(obj[p].fd)

Found(f) == f \in Fds /\ clientqueue[f] # Nil

\* Seeded defect: the entry is erased and the client never deleted.
DoKillNoDelete(f) ==
    /\ mmutex = Nil
    /\ clientqueue' = [g \in Fds |-> IF g = f THEN Nil ELSE clientqueue[g]]
    /\ UNCHANGED <<live, obj, fdt, reg, ready>>

\* Seeded defect: the client is deleted and its entry stays.
DoKillNoErase(f) ==
    /\ mmutex = Nil
    /\ \/ /\ Found(f)
          /\ Destroy(clientqueue[f])
          /\ obj' = [obj EXCEPT ![clientqueue[f]] = NoClient]
          /\ UNCHANGED clientqueue
       \/ /\ ~Found(f)
          /\ UNCHANGED <<tableVars, fdt, reg, ready>>

\* Seeded defect: DoKill does not wait for mmutex.
DoKillNoLock(f) ==
    \/ /\ Found(f)
       /\ Destroy(clientqueue[f])
       /\ obj' = [obj EXCEPT ![clientqueue[f]] = NoClient]
       /\ clientqueue' = [clientqueue EXCEPT ![f] = Nil]
    \/ /\ ~Found(f)
       /\ UNCHANGED <<tableVars, fdt, reg, ready>>

\* DoKill(f), one critical section of mmutex.
DoKill(f) ==
    /\ mmutex = Nil
    /\ \/ /\ Found(f)
          /\ Destroy(clientqueue[f])
          /\ obj' = [obj EXCEPT ![clientqueue[f]] = NoClient]
          /\ clientqueue' = [clientqueue EXCEPT ![f] = Nil]
       \/ /\ ~Found(f)
          /\ UNCHANGED <<tableVars, fdt, reg, ready>>

-----------------------------------------------------------------------------
(* The event loop                                                          *)

\* What epoll may report of a worker's socket that main has registered by its
\* number: data, an error, or EPOLLHUP alone before connect.
WorkerReports ==
    {[read |-> TRUE, hup |-> h] : h \in BOOLEAN}
        \union {r \in {[read |-> FALSE, hup |-> FALSE]} : BareHangup}

\* The event of a descriptor: its flags are those of the report, or a phone's.
Told(f, report) ==
    [fd |-> f,
     read |-> f \in DOMAIN report => report[f].read,
     hup |-> IF f \in DOMAIN report THEN report[f].hup ELSE f # Listener /\ fdt[f] \in hung]

\* getEvents: at most curfds of the pending edges, each with the flags the
\* descriptor has at that moment.
EpollWait ==
    /\ mpc = "wait"
    /\ \E S \in SUBSET ready :
          /\ S # {}
          /\ Cardinality(S) <= curfds
          /\ S = ready \/ Cardinality(S) = curfds
          /\ \E report \in [{f \in S \ {Listener} : fdt[f] \in Workers} -> WorkerReports] :
                batch' = {Told(f, report) : f \in S}
          /\ ready' = ready \ S
    /\ mpc' = "dispatch"
    /\ UNCHANGED <<fdt, netVars, reg, curfds, ev, mfd, mptr, mkill, tableVars, mmutex,
                   msglist, workerVars>>

BatchDone ==
    /\ mpc = "dispatch"
    /\ batch = {}
    /\ mpc' = "wait"
    /\ mfd' = INVALID_SOCKET
    /\ ev' = [fd |-> Listener, read |-> TRUE, hup |-> FALSE]
    /\ UNCHANGED <<fdt, netVars, epollVars, batch, mptr, mkill, tableVars, mmutex,
                   msglist, workerVars>>

NextEvent(e) ==
    /\ mpc = "dispatch"
    /\ e \in batch
    /\ batch' = batch \ {e}
    /\ ev' = e

\* accept succeeds: AddToQueue(new_fd) follows.
Accept(e) ==
    /\ NextEvent(e)
    /\ e.fd = Listener
    /\ backlog # <<>>
    /\ \E f \in Fds :
          /\ IsLowestFree(f)
          /\ fdt' = [fdt EXCEPT ![f] = Head(backlog)]
          /\ mfd' = f
    /\ backlog' = Tail(backlog)
    /\ mpc' = "getnew"
    /\ UNCHANGED <<started, sent, rcvd, hung, epollVars, mptr, mkill, tableVars, mmutex,
                   msglist, workerVars>>

\* Seeded defect: with a full table the connection is left to the kernel.
AcceptFailsFull(e) ==
    /\ NextEvent(e)
    /\ e.fd = Listener
    /\ backlog = <<>> \/ FreeFds = {} \/ Size >= MaxClients
    /\ UNCHANGED <<fdt, netVars, epollVars, mpc, mfd, mptr, mkill, tableVars, mmutex,
                   msglist, workerVars>>

\* accept returns -1: nothing to accept, or no descriptor left.
AcceptFails(e) ==
    /\ NextEvent(e)
    /\ e.fd = Listener
    /\ backlog = <<>> \/ FreeFds = {}
    /\ UNCHANGED <<fdt, netVars, epollVars, mpc, mfd, mptr, mkill, tableVars, mmutex,
                   msglist, workerVars>>

\* Seeded defect: curfds is decremented although EPOLL_CTL_DEL failed.
unRegisterAlways(f) ==
    /\ reg' = reg \ {f}
    /\ ready' = ready \ {f}
    /\ curfds' = curfds - 1

unRegisterForEvent(f) ==
    /\ reg' = reg \ {f}
    /\ ready' = ready \ {f}
    /\ curfds' = IF f \in reg THEN curfds - 1 ELSE curfds

\* An event of a client, or of what has its number by now.  Without EPOLLIN it is
\* neither read nor registered again.
ClientEvent(e) ==
    /\ NextEvent(e)
    /\ e.fd # Listener
    /\ unRegisterForEvent(e.fd)
    /\ mfd' = e.fd
    /\ mpc' = IF e.read THEN "find" ELSE IF e.hup THEN "hup" ELSE "dispatch"
    /\ UNCHANGED <<fdt, netVars, mptr, mkill, tableVars, mmutex, msglist, workerVars>>

\* Seeded defect: a client too many.
AdmitOneMore == Size <= MaxClients

\* GetNewClient reads the size without mmutex.
Admit == Size < MaxClients

GetNewClient ==
    /\ mpc = "getnew"
    /\ \/ /\ Admit
          /\ \E a \in Addr \ live :
                /\ live' = live \union {a}
                /\ obj' = [obj EXCEPT ![a] = ini(mfd)]
                /\ mptr' = a
          /\ mpc' = "insert"
       \/ /\ ~Admit
          /\ mpc' = "register"
          /\ UNCHANGED <<live, obj, mptr>>
    /\ UNCHANGED <<fdt, netVars, epollVars, batch, ev, mfd, mkill, clientqueue, mmutex,
                   msglist, workerVars>>

\* The critical section of AddToQueue: an entry with the same key is deleted.
AddToQueue ==
    /\ mpc = "insert"
    /\ mmutex = Nil
    /\ clientqueue' = [clientqueue EXCEPT ![mfd] = mptr]
    /\ \/ /\ Found(mfd)
          /\ Destroy(clientqueue[mfd])
          /\ obj' = [obj EXCEPT ![clientqueue[mfd]] = NoClient]
       \/ /\ ~Found(mfd)
          /\ UNCHANGED <<live, obj, fdt, reg, ready>>
    /\ mpc' = "register"
    /\ mptr' = Nil
    /\ UNCHANGED <<netVars, curfds, batch, ev, mfd, mkill, mmutex, msglist,
                   workerVars>>

\* Where the loop goes on after registerForEvent.
AfterRegister == IF ev.fd # Listener /\ ev.hup THEN "hup" ELSE "dispatch"

\* registerForEvent: EPOLL_CTL_ADD raises the edge of a readable descriptor;
\* it fails with EEXIST on a registered one.
Register ==
    /\ mpc = "register"
    /\ fdt[mfd] # Free
    /\ \/ /\ mfd \notin reg
          /\ reg' = reg \union {mfd}
          /\ curfds' = curfds + 1
          /\ ready' = IF Readable(mfd) THEN ready \union {mfd} ELSE ready
       \/ /\ mfd \in reg
          /\ UNCHANGED epollVars
    /\ mpc' = AfterRegister
    /\ UNCHANGED <<fdt, netVars, batch, ev, mfd, mptr, mkill, tableVars, mmutex, msglist,
                   workerVars>>

\* registerForEvent on a descriptor a worker has closed: setsockopt fails and
\* close(descriptor) is still to come, or only EPOLL_CTL_ADD came too late.
RegisterFails ==
    /\ mpc = "register"
    /\ fdt[mfd] = Free
    /\ mpc' \in {"badclose", AfterRegister}
    /\ UNCHANGED <<fdt, netVars, epollVars, batch, ev, mfd, mptr, mkill, tableVars, mmutex,
                   msglist, workerVars>>

\* The number may belong to a worker's new socket by now.
BadClose ==
    /\ mpc = "badclose"
    /\ Close(mfd)
    /\ mpc' = AfterRegister
    /\ UNCHANGED <<netVars, curfds, batch, ev, mfd, mptr, mkill, tableVars, mmutex, msglist,
                   workerVars>>

\* DoRead looks the client up without mmutex: a search that runs while a
\* worker erases an entry may miss the client it looks for.
DoRead ==
    /\ mpc = "find"
    /\ \/ mptr' = clientqueue[mfd]
       \/ (\E w \in Workers : wpc[w] = "kill") /\ mptr' = Nil
    /\ mpc' = IF mptr' = Nil THEN "register" ELSE "receive"
    /\ UNCHANGED <<fdt, netVars, epollVars, batch, ev, mfd, mkill, tableVars, mmutex,
                   msglist, workerVars>>

(***************************************************************************)
(* parse of what recv returned, on the client p.  The first segment of a   *)
(* request holds its keyword, the second its end.  A first segment alone   *)
(* is kept, unless it ends inside the keyword.  offset is not reset by a   *)
(* complete request, so a later segment is read behind the kept first one  *)
(* and may look like a complete request again.                             *)
(***************************************************************************)
FirstSegment(c) == rcvd[c] = 0 /\ sent[c] = 1

Completes(p, c) ==
    /\ rcvd[c] = 0 \/ obj[p].kept
    /\ sent[c] >= 2

\* recv delivers everything that has arrived.
Recv(c) == rcvd' = [rcvd EXCEPT ![c] = sent[c]]

HasData(f) == f \in Fds /\ fdt[f] \in Conn /\ rcvd[fdt[f]] < sent[fdt[f]]

\* receive: data, through a client that is still allocated.
ReceiveData ==
    /\ mpc = "receive"
    /\ mptr \in live
    /\ HasData(obj[mptr].fd)
    /\ LET c == fdt[obj[mptr].fd]
       IN  /\ Recv(c)
           /\ \/ /\ Completes(mptr, c)
                 /\ obj' = [obj EXCEPT ![mptr].serial = TRUE]
                 /\ mpc' = "notify"
                 /\ UNCHANGED mptr
              \/ /\ FirstSegment(c)
                 /\ \E k \in BOOLEAN : obj' = [obj EXCEPT ![mptr].kept = k]
                 /\ mpc' = "register"
                 /\ mptr' = Nil
              \/ /\ ~FirstSegment(c)
                 /\ Completes(mptr, c) => rcvd[c] >= 2
                 /\ mpc' = "register"
                 /\ mptr' = Nil
                 /\ UNCHANGED obj
    /\ UNCHANGED <<fdt, backlog, started, sent, hung, epollVars, batch, ev, mfd,
                   mkill, clientqueue, live, mmutex, msglist, workerVars>>

\* receive, the data lost: what came from the car server on a worker's socket
\* that has the same number by now, or data read through a freed client, where
\* parse finds what it may.
ReceiveLost ==
    /\ mpc = "receive"
    /\ \E f \in ReadFd(mptr) :
          \/ mptr \notin live /\ HasData(f) /\ Recv(fdt[f])
          \/ f \in Fds /\ fdt[f] \in Workers /\ UNCHANGED rcvd
    /\ \/ mpc' = "register" /\ mptr' = Nil
       \/ mptr \notin live /\ mpc' = "notify" /\ UNCHANGED mptr
    /\ UNCHANGED <<fdt, backlog, started, sent, hung, epollVars, batch, ev, mfd,
                   mkill, tableVars, mmutex, msglist, workerVars>>

\* receive gets no data: an end of file, an error, EAGAIN or (through a freed
\* client) a descriptor of any kind.  All are treated as an error.
ReceiveNothing ==
    /\ mpc = "receive"
    /\ \E f \in ReadFd(mptr) :
          /\ ~HasData(f)
          /\ mkill' = f
    /\ mpc' = "rkill"
    /\ mptr' = Nil
    /\ UNCHANGED <<fdt, netVars, epollVars, batch, ev, mfd, tableVars, mmutex,
                   msglist, workerVars>>

\* Seeded defect: the status is counted up, not set.
NotifyCounts ==
    /\ mpc = "notify"
    /\ \E f \in ReadFd(mptr) : msglist' = Append(msglist, f)
    /\ obj' = IF mptr \in live THEN [obj EXCEPT ![mptr].status = @ + 1] ELSE obj
    /\ mpc' = "register"
    /\ mptr' = Nil
    /\ UNCHANGED <<fdt, netVars, epollVars, batch, ev, mfd, mkill, clientqueue, live,
                   mmutex, workerVars>>

\* Seeded defect: push_front for push_back.
NotifyFront ==
    /\ mpc = "notify"
    /\ \E f \in ReadFd(mptr) : msglist' = <<f>> \o msglist
    /\ obj' = IF mptr \in live THEN [obj EXCEPT ![mptr].status = 1] ELSE obj
    /\ mpc' = "register"
    /\ mptr' = Nil
    /\ UNCHANGED <<fdt, netVars, epollVars, batch, ev, mfd, mkill, clientqueue, live,
                   mmutex, workerVars>>

\* Seeded defect: after a complete request the descriptor is not registered again.
NotifyUnwatched ==
    /\ mpc = "notify"
    /\ \E f \in ReadFd(mptr) : msglist' = Append(msglist, f)
    /\ obj' = IF mptr \in live THEN [obj EXCEPT ![mptr].status = 1] ELSE obj
    /\ mpc' = "dispatch"
    /\ mptr' = Nil
    /\ UNCHANGED <<fdt, netVars, epollVars, batch, ev, mfd, mkill, clientqueue, live,
                   mmutex, workerVars>>

\* The end of parse: status = 1 and notificationthreads(this->fd).
Notify ==
    /\ mpc = "notify"
    /\ \E f \in ReadFd(mptr) : msglist' = Append(msglist, f)
    /\ obj' = IF mptr \in live THEN [obj EXCEPT ![mptr].status = 1] ELSE obj
    /\ mpc' = "register"
    /\ mptr' = Nil
    /\ UNCHANGED <<fdt, netVars, epollVars, batch, ev, mfd, mkill, clientqueue, live,
                   mmutex, workerVars>>

ReceiveKills ==
    /\ mpc = "rkill"
    /\ DoKill(mkill)
    /\ mpc' = "register"
    /\ mkill' = INVALID_SOCKET
    /\ UNCHANGED <<netVars, curfds, batch, ev, mfd, mptr, mmutex, msglist,
                   workerVars>>

\* EPOLLRDHUP or EPOLLERR in the event that was delivered.
HupUnregister ==
    /\ mpc = "hup"
    /\ unRegisterForEvent(mfd)
    /\ mpc' = "hupkill"
    /\ UNCHANGED <<fdt, netVars, batch, ev, mfd, mptr, mkill, tableVars, mmutex, msglist,
                   workerVars>>

\* Seeded defect: the client of a closed connection is only unregistered.
HupForgetsKill ==
    /\ mpc = "hupkill"
    /\ mpc' = "dispatch"
    /\ UNCHANGED <<fdt, netVars, epollVars, batch, ev, mfd, mptr, mkill, tableVars, mmutex,
                   msglist, workerVars>>

HupKills ==
    /\ mpc = "hupkill"
    /\ DoKill(mfd)
    /\ mpc' = "dispatch"
    /\ UNCHANGED <<netVars, curfds, batch, ev, mfd, mptr, mkill, mmutex, msglist,
                   workerVars>>

MainStep ==
    \/ EpollWait \/ BatchDone
    \/ \E e \in batch : Accept(e) \/ AcceptFails(e) \/ ClientEvent(e)
    \/ GetNewClient \/ AddToQueue
    \/ Register \/ RegisterFails \/ BadClose
    \/ DoRead \/ ReceiveData \/ ReceiveLost \/ ReceiveNothing \/ Notify \/ ReceiveKills
    \/ HupUnregister \/ HupKills

-----------------------------------------------------------------------------
(* The workers                                                             *)

Goto(w, place) == wpc' = [wpc EXCEPT ![w] = place]

\* A worker is handed the right to work: MsgQueue's TakeFront.
Take(w) ==
    /\ wpc[w] = "idle"
    /\ Goto(w, "find")
    /\ \/ /\ msglist # <<>>
          /\ fd' = [fd EXCEPT ![w] = Head(msglist)]
          /\ msglist' = Tail(msglist)
       \/ /\ msglist = <<>>
          /\ UNCHANGED <<msglist, fd>>
    /\ UNCHANGED <<fdt, netVars, epollVars, mainVars, tableVars, mmutex, pc, sock, wkill>>

\* mmutex is locked, the client looked up, corrected and its status set to 2;
\* without a client, without a serial, or when the status = 1 of parse, which
\* takes no lock, comes in between, the round is over.
LookupNothing(w) ==
    /\ wpc[w] = "find"
    /\ mmutex = Nil
    /\ Found(fd[w]) => \/ ~obj[clientqueue[fd[w]]].serial
                       \/ mpc = "notify" /\ mptr = clientqueue[fd[w]]
    /\ obj' = IF Found(fd[w]) THEN [obj EXCEPT ![clientqueue[fd[w]]].status = 2] ELSE obj
    /\ Goto(w, "idle")
    /\ UNCHANGED <<fdt, netVars, epollVars, mainVars, clientqueue, live, mmutex, msglist,
                   fd, pc, sock, wkill>>

Lookup(w) ==
    /\ wpc[w] = "find"
    /\ mmutex = Nil
    /\ Found(fd[w])
    /\ obj[clientqueue[fd[w]]].serial
    /\ obj' = [obj EXCEPT ![clientqueue[fd[w]]].status = 2]
    /\ pc' = [pc EXCEPT ![w] = clientqueue[fd[w]]]
    /\ mmutex' = w
    /\ Goto(w, "connect")
    /\ UNCHANGED <<fdt, netVars, epollVars, mainVars, clientqueue, live, msglist, fd, sock,
                   wkill>>

\* Csender::Connect: socket().
Connect(w) ==
    /\ wpc[w] = "connect"
    /\ \E f \in Fds :
          /\ IsLowestFree(f)
          /\ fdt' = [fdt EXCEPT ![f] = w]
          /\ sock' = [sock EXCEPT ![w] = f]
    /\ Goto(w, "sending")
    /\ UNCHANGED <<netVars, epollVars, mainVars, tableVars, mmutex, msglist, fd, pc, wkill>>

\* Connect returns false: no descriptor, or the car server refuses; then the
\* socket stays open.
ConnectFails(w) ==
    /\ \/ wpc[w] = "connect" /\ FreeFds = {}
       \/ wpc[w] = "sending"
    /\ sock' = [sock EXCEPT ![w] = INVALID_SOCKET]
    /\ Goto(w, "unlock")
    /\ UNCHANGED <<fdt, netVars, epollVars, mainVars, tableVars, mmutex, msglist, fd, pc,
                   wkill>>

\* Csender::Send and Csender::Recv: whatever the car server answers before the
\* timeout, the socket is closed.
CarServerAnswers(w) ==
    /\ Close(sock[w])
    /\ sock' = [sock EXCEPT ![w] = INVALID_SOCKET]

\* Send2CarServer: the answer goes back on the client's descriptor.
Exchange(w) ==
    /\ wpc[w] = "sending"
    /\ CarServerAnswers(w)
    /\ obj' = [obj EXCEPT ![pc[w]].sent = TRUE]
    /\ Goto(w, "unlock")
    /\ UNCHANGED <<netVars, curfds, mainVars, clientqueue, live, mmutex, msglist, fd, pc, wkill>>

\* The end of the critical section.
Unlock(w) ==
    /\ wpc[w] = "unlock"
    /\ mmutex' = Nil
    /\ Goto(w, "pcfd")
    /\ UNCHANGED <<fdt, netVars, epollVars, mainVars, tableVars, msglist, fd, pc, sock,
                   wkill>>

\* pc->fd is read after it, when the client may be gone ...
ReadPcFd(w) ==
    /\ wpc[w] = "pcfd"
    /\ \E f \in ReadFd(pc[w]) : wkill' = [wkill EXCEPT ![w] = f]
    /\ pc' = [pc EXCEPT ![w] = Nil]
    /\ Goto(w, "kill")
    /\ UNCHANGED <<fdt, netVars, epollVars, mainVars, tableVars, mmutex, msglist, fd,
                   sock>>

\* Seeded defect: the worker goes back to waiting without DoKill.
WorkerForgetsKill(w) ==
    /\ wpc[w] = "kill"
    /\ Goto(w, "idle")
    /\ UNCHANGED <<fdt, reg, ready, tableVars, netVars, curfds, mainVars, mmutex, msglist, fd, pc,
                   sock, wkill>>

\* ... and DoKill takes mmutex again.
WorkerKills(w) ==
    /\ wpc[w] = "kill"
    /\ DoKill(wkill[w])
    /\ wkill' = [wkill EXCEPT ![w] = INVALID_SOCKET]
    /\ Goto(w, "idle")
    /\ UNCHANGED <<netVars, curfds, mainVars, mmutex, msglist, fd, pc, sock>>

WorkerStep(w) ==
    \/ LookupNothing(w) \/ Lookup(w) \/ Connect(w) \/ ConnectFails(w) \/ Exchange(w)
    \/ Unlock(w) \/ ReadPcFd(w) \/ WorkerKills(w)

PhoneStep(c) == PhoneConnect(c) \/ PhoneSend(c) \/ PhoneHangup(c)

Next ==
    \/ MainStep
    \/ \E w \in Workers : Take(w) \/ WorkerStep(w)
    \/ \E c \in Conn : PhoneStep(c)
    \/ \E f \in Fds : CarServerEdge(f)

Spec == Init /\ [][Next]_vars

(***************************************************************************)
(* The event loop and a worker inside a round keep running; a lock that is *)
(* free again and again is obtained (SF): both sides leave it between two  *)
(* rounds.  A worker need not take a message.  Nothing is assumed of the   *)
(* phones.                                                                 *)
(***************************************************************************)
Fairness ==
    /\ SF_vars(MainStep)
    /\ \A w \in Workers : SF_vars(WorkerStep(w))

FairSpec == Spec /\ Fairness

-----------------------------------------------------------------------------
(* Properties                                                              *)

(* CclientManager.cpp:67-108: every entry of clientqueue points to an      *)
(* allocated client that holds the entry's own key as its descriptor, so   *)
(* DoKill deletes each client once and closes the right number, whichever  *)
(* thread calls it and whatever number an unprotected pc->fd gave it.      *)
TableOwnsClients ==
    \A f \in Fds : clientqueue[f] # Nil =>
        /\ clientqueue[f] \in live
        /\ obj[clientqueue[f]].fd = f

(* CclientManager.cpp:69-108: every allocated client is in the table, or   *)
(* is the one AddToQueue is about to insert: none is lost by an eviction,  *)
(* a kill or an overwritten entry.                                         *)
NoClientLeak ==
    \A a \in live :
        \/ obj[a].fd \in Fds /\ clientqueue[obj[a].fd] = a
        \/ mpc = "insert" /\ mptr = a

InSection(w) == wpc[w] \in {"connect", "sending", "unlock"}

(* CclientManager.cpp:337-361: while a worker talks to the car server for  *)
(* a client, nobody deletes or replaces that client.                       *)
WorkerHoldsClient ==
    \A w \in Workers : InSection(w) =>
        /\ mmutex = w
        /\ pc[w] \in live
        /\ clientqueue[obj[pc[w]].fd] = pc[w]

(* CclientManager.cpp:69-91,118: the table never has more than max_clients *)
(* entries although the size is read before mmutex is taken.               *)
QueueBound == Size <= MaxClients

(* SelEpolKqEvPrt.cpp:81,189,204: curfds, the room one epoll_wait offers,  *)
(* covers every registered descriptor and the listener, although workers   *)
(* close registered descriptors behind its back and the loop unregisters   *)
(* descriptors it no longer finds.                                         *)
EventsFit == Cardinality(reg) + 1 <= curfds

(* CclientManager.cpp:337-363: the request of a client goes to the car     *)
(* server at most once: a client that has been served is gone before a     *)
(* worker looks for the next one.  (One worker, the default of MAX_WORKER.)*)
ServedOnce == \A w \in Workers : wpc[w] = "connect" => ~obj[pc[w]].sent

\* The connection has a descriptor and a client of its own.
Served(c) == \E f \in Fds : fdt[f] = c /\ clientqueue[f] # Nil

(* gps.cpp:176-193, CClient.cpp:88-97: the descriptor of a connection that *)
(* has a client is closed after the phone hangs up, although edges are     *)
(* consumed by unRegister, read and re-register and connections over the   *)
(* limit, which nothing closes, take part.  (Not with BareHangup: see      *)
(* NoLostEdge.)                                                            *)
HungClosed ==
    \A c \in Conn : (Served(c) /\ c \in hung) ~> ~Open(c)

\* main handles an event of f: registerForEvent or DoKill is still to come.
MainAt(f) == mpc \notin {"wait", "dispatch"} /\ mfd = f

(* gps.cpp:171-193, SelEpolKqEvPrt.cpp:131-212: epoll is edge-triggered,   *)
(* each edge is told once, and a descriptor is out of the set while it is  *)
(* read.  Still no edge is lost: what a phone with a client has sent, or   *)
(* that it has hung up, is an edge yet to be told, an event of the batch,  *)
(* or main is at this descriptor and will register it again or kill it;    *)
(* although workers close descriptors, and others get their numbers, at    *)
(* any moment in between.  An event without EPOLLIN (BareHangup) would     *)
(* take its number out of the set for good, whoever has it by now.         *)
NoLostEdge ==
    ~BareHangup =>
        \A f \in Fds :
            (clientqueue[f] # Nil /\ Readable(f)) =>
                f \in ready \/ (\E e \in batch : e.fd = f) \/ MainAt(f)

(* gps.cpp:146-170, SelEpolKqEvPrt.cpp:74-99: an edge of the listener is   *)
(* worth one phone: the one that has waited longest is accepted, unless    *)
(* the process has no descriptor left.  (The others wait for the edge of   *)
(* another connection.)                                                    *)
OldestAccepted ==
    \A c \in Conn :
        (backlog # <<>> /\ Head(backlog) = c /\ Listener \in ready)
            ~> (FreeFds = {} \/ \A k \in 1..Len(backlog) : backlog[k] # c)

(* CclientManager.h:48 says mmutex is there "for clientqueue": what the    *)
(* event loop has looked up there is still allocated when it uses it.      *)
MainUsesLiveClient == mpc = "receive" => mptr \in live

Queue == INSTANCE MsgQueue WITH
    Fds <- MaybeFd,
    busy <- {w \in Workers : wpc[w] # "idle"}

(* The queue between the event loop and the workers is the one WorkQueue   *)
(* is shown to implement.                                                  *)
ImplementsMsgQueue == Queue!QueueSpec
=============================================================================
