----------------------------- MODULE ServerProofs -----------------------------
(***************************************************************************)
(* Proofs about Server, for any number of workers, connections,            *)
(* descriptors and heap cells and any limit of clients.                    *)
(***************************************************************************)
EXTENDS Server, FiniteSetTheorems, TLAPS

(* Inside the handling of an event the event loop has a descriptor, never  *)
(* -1 (gps.cpp:155,171).                                                   *)
MainHasFd == mpc \notin {"wait", "dispatch"} => mfd \in Fds

(* What close(f) does to the descriptor table and the epoll set has the    *)
(* right type.                                                             *)
LEMMA CloseType ==
    ASSUME TypeOK, NEW f, Close(f)
    PROVE  /\ fdt' \in [Fds -> {Free} \union Conn \union Workers]
           /\ reg' \subseteq Fds
           /\ ready' \subseteq reg' \union {Listener}
  BY DEF TypeOK, Close

(* A client the code has just initialised or deleted (CClient.cpp:29-73).  *)
LEMMA IniType ==
    ASSUME NEW f \in MaybeFd
    PROVE  ini(f) \in Client /\ NoClient \in Client
  BY DEF ini, NoClient, Client, MaybeFd

(* Assigning one field of a client keeps the types (CClient.cpp:164,268,   *)
(* 286).                                                                   *)
LEMMA FieldType ==
    ASSUME NEW o \in [Addr -> Client], NEW p \in Addr
    PROVE  /\ \A x \in 0..2 : [o EXCEPT ![p].status = x] \in [Addr -> Client]
           /\ \A x \in BOOLEAN : [o EXCEPT ![p].serial = x] \in [Addr -> Client]
           /\ \A x \in BOOLEAN : [o EXCEPT ![p].kept = x] \in [Addr -> Client]
           /\ \A x \in BOOLEAN : [o EXCEPT ![p].sent = x] \in [Addr -> Client]
<1> DEFINE q == o[p]
<1>1. q \in Client
  OBVIOUS
<1>2. /\ \A x \in 0..2 : [q EXCEPT !.status = x] \in Client
      /\ \A x \in BOOLEAN : [q EXCEPT !.serial = x] \in Client
      /\ \A x \in BOOLEAN : [q EXCEPT !.kept = x] \in Client
      /\ \A x \in BOOLEAN : [q EXCEPT !.sent = x] \in Client
  BY <1>1 DEF Client
<1> QED
  BY <1>2

(* DoKill (CclientManager.cpp:96-108) keeps the types of the table, the    *)
(* heap, the descriptors and the epoll set.                                *)
LEMMA DoKillType ==
    ASSUME TypeOK, NEW f \in MaybeFd, DoKill(f)
    PROVE  /\ fdt' \in [Fds -> {Free} \union Conn \union Workers]
           /\ reg' \subseteq Fds
           /\ ready' \subseteq reg' \union {Listener}
           /\ clientqueue' \in [Fds -> Addr \union {Nil}]
           /\ live' \subseteq Addr
           /\ obj' \in [Addr -> Client]
<1>1. CASE Found(f)
  <2>1. clientqueue[f] \in Addr
    BY <1>1 DEF Found, TypeOK
  <2>2. Close(obj[clientqueue[f]].fd) /\ live' = live \ {clientqueue[f]}
    BY <1>1 DEF DoKill, Destroy
  <2>3. obj' \in [Addr -> Client]
    BY <1>1, IniType DEF DoKill, TypeOK, MaybeFd
  <2>4. clientqueue' \in [Fds -> Addr \union {Nil}]
    BY <1>1 DEF DoKill, TypeOK
  <2> QED
    BY <2>2, <2>3, <2>4, CloseType DEF TypeOK
<1>2. CASE ~Found(f)
  BY <1>2 DEF DoKill, TypeOK, tableVars
<1> QED
  BY <1>1, <1>2

(* What an unprotected read of pc->fd yields is a number DoKill may be     *)
(* called with.                                                            *)
LEMMA ReadFdType ==
    ASSUME TypeOK, NEW p, p \in live => p \in Addr
    PROVE  ReadFd(p) \subseteq MaybeFd
  BY DEF TypeOK, ReadFd, Client

(* An epoll_wait tells events of descriptors that had an edge, all of them *)
(* with EPOLLIN unless an unconnected socket may be told without.          *)
LEMMA WaitTells ==
    ASSUME ready \subseteq Fds \union {Listener}, EpollWait
    PROVE  /\ batch' \subseteq Event
           /\ \E S \in SUBSET ready :
                 ready' = ready \ S /\ \A f \in S : \E e \in batch' : e.fd = f
           /\ ~BareHangup => \A e \in batch' : e.read
<1>1. PICK S \in SUBSET ready :
         /\ ready' = ready \ S
         /\ \E report \in [{f \in S \ {Listener} : fdt[f] \in Workers} -> WorkerReports] :
               batch' = {Told(f, report) : f \in S}
  BY DEF EpollWait
<1>2. PICK report \in [{f \in S \ {Listener} : fdt[f] \in Workers} -> WorkerReports] :
         batch' = {Told(f, report) : f \in S}
  BY <1>1
<1>3. ASSUME NEW r \in WorkerReports
      PROVE  r.read \in BOOLEAN /\ r.hup \in BOOLEAN /\ (~BareHangup => r.read)
  <2>1. CASE \E h \in BOOLEAN : r = [read |-> TRUE, hup |-> h]
    BY <2>1
  <2>2. CASE r = [read |-> FALSE, hup |-> FALSE] /\ BareHangup
    BY <2>2
  <2> QED
    BY <2>1, <2>2, Zenon DEF WorkerReports
<1>4. ASSUME NEW f \in S
      PROVE  Told(f, report) \in Event /\ Told(f, report).fd = f
             /\ (~BareHangup => Told(f, report).read)
  <2>1. f \in DOMAIN report => report[f] \in WorkerReports
    OBVIOUS
  <2> DEFINE r == f \in DOMAIN report => report[f].read
             h == IF f \in DOMAIN report THEN report[f].hup ELSE f # Listener /\ fdt[f] \in hung
  <2>2. r \in BOOLEAN /\ (~BareHangup => r)
    BY <1>3, <2>1
  <2>3. h \in BOOLEAN
    BY <1>3, <2>1
  <2>4. Told(f, report) = [fd |-> f, read |-> r, hup |-> h]
    BY DEF Told
  <2> HIDE DEF r, h
  <2>5. f \in Fds \union {Listener}
    BY <1>1
  <2> QED
    BY <2>2, <2>3, <2>4, <2>5 DEF Event
<1>5. batch' \subseteq Event
  BY <1>2, <1>4
<1>6. \A f \in S : \E e \in batch' : e.fd = f
  BY <1>2, <1>4
<1>7. ~BareHangup => \A e \in batch' : e.read
  BY <1>2, <1>4
<1> QED
  BY <1>1, <1>5, <1>6, <1>7

(* The types of the state, and the descriptor of the event loop, without   *)
(* which registerForEvent would register -1.                               *)
LEMMA TypeInvariant == Spec => [](TypeOK /\ MainHasFd)
<1>1. Init => TypeOK /\ MainHasFd
  <2> SUFFICES ASSUME Init PROVE TypeOK /\ MainHasFd
    OBVIOUS
  <2>1. obj \in [Addr -> Client]
    BY IniType DEF Init, MaybeFd
  <2>2. ev \in Event /\ batch \subseteq Event /\ mpc \in MainPlaces /\ wpc \in [Workers -> WorkerPlaces]
    BY DEF Init, Event, MainPlaces, WorkerPlaces
  <2>3. backlog \in Seq(Conn) /\ msglist \in Seq(MaybeFd)
    BY DEF Init
  <2>4. sent \in [Conn -> 0..Parts] /\ rcvd \in [Conn -> 0..Parts] /\ curfds \in Int
    BY PartsAssumption DEF Init
  <2>5. INVALID_SOCKET \in MaybeFd
    BY DEF MaybeFd
  <2> QED
    BY <2>1, <2>2, <2>3, <2>4, <2>5 DEF Init, TypeOK, MainHasFd
<1>2. TypeOK /\ MainHasFd /\ [Next]_vars => TypeOK'
  <2> SUFFICES ASSUME TypeOK, MainHasFd, [Next]_vars PROVE TypeOK'
    OBVIOUS
  <2>0. INVALID_SOCKET \in MaybeFd /\ Fds \subseteq MaybeFd
    BY DEF MaybeFd
  <2> USE DEF netVars, epollVars, mainVars, tableVars, workerVars
  <2>1. CASE EpollWait
    <3>1. batch' \subseteq Event
      BY <2>1, WaitTells DEF TypeOK
    <3>2. ready' \subseteq reg' \union {Listener}
      BY <2>1 DEF EpollWait, TypeOK
    <3> QED
      BY <2>1, <3>1, <3>2 DEF EpollWait, TypeOK, MainPlaces
  <2>2. CASE BatchDone
    BY <2>0, <2>2 DEF BatchDone, TypeOK, Event, MainPlaces
  <2>3. ASSUME NEW e \in batch, Accept(e) PROVE TypeOK'
    <3>1. Head(backlog) \in Conn /\ Tail(backlog) \in Seq(Conn)
      BY <2>3 DEF Accept, TypeOK
    <3> QED
      BY <2>0, <2>3, <3>1 DEF Accept, NextEvent, TypeOK, MainPlaces
  <2>4. ASSUME NEW e \in batch, AcceptFails(e) PROVE TypeOK'
    BY <2>4 DEF AcceptFails, NextEvent, TypeOK
  <2>5. ASSUME NEW e \in batch, ClientEvent(e) PROVE TypeOK'
    <3>1. e.fd \in Fds
      BY <2>5 DEF ClientEvent, TypeOK, Event
    <3> QED
      BY <2>0, <2>5, <3>1 DEF ClientEvent, NextEvent, unRegisterForEvent, TypeOK, MainPlaces
  <2>6. CASE GetNewClient
    BY <2>6, IniType DEF GetNewClient, TypeOK, MainPlaces
  <2>7. CASE AddToQueue
    <3>1. CASE Found(mfd)
      <4>1. Close(obj[clientqueue[mfd]].fd)
        BY <2>7, <3>1 DEF AddToQueue, Destroy
      <4>2. obj' \in [Addr -> Client] /\ live' \subseteq Addr
        BY <2>0, <2>7, <3>1, IniType DEF AddToQueue, Destroy, TypeOK
      <4> QED
        BY <2>7, <4>1, <4>2, CloseType DEF AddToQueue, TypeOK, MainPlaces
    <3>2. CASE ~Found(mfd)
      BY <2>7, <3>2 DEF AddToQueue, TypeOK, MainPlaces
    <3> QED
      BY <3>1, <3>2
  <2>8. CASE Register
    <3>1. mfd \in Fds
      BY <2>8 DEF Register, MainHasFd
    <3> QED
      BY <2>8, <3>1 DEF Register, AfterRegister, TypeOK, MainPlaces
  <2>9. CASE RegisterFails
    BY <2>9 DEF RegisterFails, AfterRegister, TypeOK, MainPlaces
  <2>10. CASE BadClose
    <3>1. Close(mfd)
      BY <2>10 DEF BadClose
    <3> QED
      BY <2>10, <3>1, CloseType DEF BadClose, AfterRegister, TypeOK, MainPlaces
  <2>11. CASE DoRead
    <3>1. mfd \in Fds
      BY <2>11 DEF DoRead, MainHasFd
    <3> QED
      BY <2>11, <3>1 DEF DoRead, TypeOK, MainPlaces
  <2>12. CASE ReceiveData
    <3>1. mptr \in Addr /\ fdt[obj[mptr].fd] \in Conn
      BY <2>12 DEF ReceiveData, HasData, TypeOK
    <3>2. rcvd' \in [Conn -> 0..Parts]
      BY <2>12, <3>1 DEF ReceiveData, Recv, TypeOK
    <3>3. obj' \in [Addr -> Client]
      <4>1. \/ obj' = [obj EXCEPT ![mptr].serial = TRUE]
            \/ \E k \in BOOLEAN : obj' = [obj EXCEPT ![mptr].kept = k]
            \/ obj' = obj
        BY <2>12 DEF ReceiveData
      <4>2. obj \in [Addr -> Client]
        BY DEF TypeOK
      <4> QED
        <5>1. \A x \in BOOLEAN : /\ [obj EXCEPT ![mptr].serial = x] \in [Addr -> Client]
                                  /\ [obj EXCEPT ![mptr].kept = x] \in [Addr -> Client]
          BY <3>1, <4>2, FieldType, Zenon
        <5>2. CASE obj' = [obj EXCEPT ![mptr].serial = TRUE]
          BY <5>1, <5>2, Zenon
        <5>3. ASSUME NEW k \in BOOLEAN, obj' = [obj EXCEPT ![mptr].kept = k]
              PROVE  obj' \in [Addr -> Client]
          BY <5>1, <5>3, Zenon
        <5> QED
          BY <4>1, <4>2, <5>2, <5>3, Zenon
    <3> QED
      BY <2>12, <3>2, <3>3 DEF ReceiveData, TypeOK, MainPlaces
  <2>13. CASE ReceiveLost
    <3>1. rcvd' \in [Conn -> 0..Parts]
      BY <2>13 DEF ReceiveLost, HasData, Recv, TypeOK
    <3> QED
      BY <2>13, <3>1 DEF ReceiveLost, TypeOK, MainPlaces
  <2>14. CASE ReceiveNothing
    BY <2>14, ReadFdType DEF ReceiveNothing, TypeOK, MainPlaces
  <2>15. CASE Notify
    <3>1. PICK f \in MaybeFd : msglist' = Append(msglist, f)
      BY <2>15, ReadFdType DEF Notify, TypeOK
    <3>2. obj' \in [Addr -> Client]
      <4>1. mptr \in live => mptr \in Addr
        BY DEF TypeOK
      <4>2. obj \in [Addr -> Client] /\ 1 \in 0..2
        BY DEF TypeOK
      <4> QED
        BY <2>15, <4>1, <4>2, FieldType, Zenon DEF Notify
    <3> QED
      BY <2>15, <3>1, <3>2 DEF Notify, TypeOK, MainPlaces
  <2>16. CASE ReceiveKills
    <3>1. DoKill(mkill) /\ mkill \in MaybeFd
      BY <2>16 DEF ReceiveKills, TypeOK
    <3> QED
      BY <2>0, <2>16, <3>1, DoKillType DEF ReceiveKills, TypeOK, MainPlaces
  <2>17. CASE HupUnregister
    BY <2>17 DEF HupUnregister, unRegisterForEvent, TypeOK, MainPlaces
  <2>18. CASE HupKills
    <3>1. DoKill(mfd) /\ mfd \in MaybeFd
      BY <2>18 DEF HupKills, TypeOK
    <3> QED
      BY <2>18, <3>1, DoKillType DEF HupKills, TypeOK, MainPlaces
  <2>19. ASSUME NEW w \in Workers, Take(w) PROVE TypeOK'
    <3>1. CASE msglist = <<>>
      BY <2>19, <3>1 DEF Take, Goto, TypeOK, WorkerPlaces
    <3>2. CASE msglist # <<>>
      <4>1. Head(msglist) \in MaybeFd /\ Tail(msglist) \in Seq(MaybeFd)
        BY <3>2 DEF TypeOK
      <4>2. fd' = [fd EXCEPT ![w] = Head(msglist)] /\ msglist' = Tail(msglist)
        BY <2>19, <3>2 DEF Take
      <4>3. fd' \in [Workers -> MaybeFd] /\ msglist' \in Seq(MaybeFd)
        <5>1. fd \in [Workers -> MaybeFd]
          BY DEF TypeOK
        <5> QED
          BY <4>1, <4>2, <5>1
      <4> QED
        BY <2>19, <4>3 DEF Take, Goto, TypeOK, WorkerPlaces
    <3> QED
      BY <3>1, <3>2
  <2>20. ASSUME NEW w \in Workers, LookupNothing(w) \/ Lookup(w) PROVE TypeOK'
    <3>1. obj' \in [Addr -> Client]
      <4>1. Found(fd[w]) => clientqueue[fd[w]] \in Addr
        BY DEF Found, TypeOK
      <4> QED
        <5>1. obj' = obj \/ (/\ Found(fd[w])
                              /\ obj' = [obj EXCEPT ![clientqueue[fd[w]]].status = 2])
          BY <2>20 DEF LookupNothing, Lookup
        <5>2. obj \in [Addr -> Client] /\ 2 \in 0..2
          BY DEF TypeOK
        <5> QED
          <6>1. CASE obj' = obj
            BY <5>2, <6>1, Zenon
          <6>2. CASE Found(fd[w]) /\ obj' = [obj EXCEPT ![clientqueue[fd[w]]].status = 2]
            <7>1. \A x \in 0..2 : [obj EXCEPT ![clientqueue[fd[w]]].status = x] \in [Addr -> Client]
              BY <4>1, <5>2, <6>2, FieldType, Zenon
            <7> QED
              BY <5>2, <6>2, <7>1, Zenon
          <6> QED
            BY <5>1, <6>1, <6>2, Zenon
    <3>2. CASE LookupNothing(w)
      BY <3>1, <3>2 DEF LookupNothing, Goto, TypeOK, WorkerPlaces
    <3>3. CASE Lookup(w)
      BY <3>1, <3>3 DEF Lookup, Found, Goto, TypeOK, WorkerPlaces
    <3> QED
      BY <2>20, <3>2, <3>3
  <2>21. ASSUME NEW w \in Workers, Connect(w) PROVE TypeOK'
    BY <2>0, <2>21 DEF Connect, Goto, TypeOK, WorkerPlaces
  <2>22. ASSUME NEW w \in Workers, ConnectFails(w) PROVE TypeOK'
    BY <2>0, <2>22 DEF ConnectFails, Goto, TypeOK, WorkerPlaces
  <2>23. ASSUME NEW w \in Workers, Exchange(w) PROVE TypeOK'
    <3>1. Close(sock[w])
      BY <2>23 DEF Exchange, CarServerAnswers
    <3>2. obj' \in [Addr -> Client]
      BY <2>23 DEF Exchange, CarServerAnswers, TypeOK, Client
    <3> QED
      BY <2>0, <2>23, <3>1, <3>2, CloseType DEF Exchange, CarServerAnswers, Goto, TypeOK, WorkerPlaces
  <2>24. ASSUME NEW w \in Workers, Unlock(w) PROVE TypeOK'
    BY <2>24 DEF Unlock, Goto, TypeOK, WorkerPlaces
  <2>25. ASSUME NEW w \in Workers, ReadPcFd(w) PROVE TypeOK'
    <3>1. ReadFd(pc[w]) \subseteq MaybeFd
      BY ReadFdType DEF TypeOK
    <3> QED
      BY <2>25, <3>1 DEF ReadPcFd, Goto, TypeOK, WorkerPlaces
  <2>26. ASSUME NEW w \in Workers, WorkerKills(w) PROVE TypeOK'
    <3>1. DoKill(wkill[w]) /\ wkill[w] \in MaybeFd
      BY <2>26 DEF WorkerKills, TypeOK
    <3> QED
      BY <2>0, <2>26, <3>1, DoKillType DEF WorkerKills, Goto, TypeOK, WorkerPlaces
  <2>27. ASSUME NEW c \in Conn, PhoneConnect(c) PROVE TypeOK'
    BY <2>27 DEF PhoneConnect, TypeOK
  <2>28. ASSUME NEW c \in Conn, PhoneSend(c) PROVE TypeOK'
    <3>1. sent' \in [Conn -> 0..Parts]
      BY <2>28, PartsAssumption DEF PhoneSend, TypeOK
    <3> QED
      BY <2>28, <3>1 DEF PhoneSend, Edge, TypeOK
  <2>29. ASSUME NEW c \in Conn, PhoneHangup(c) PROVE TypeOK'
    BY <2>29 DEF PhoneHangup, Edge, TypeOK
  <2>30. ASSUME NEW f \in Fds, CarServerEdge(f) PROVE TypeOK'
    BY <2>30 DEF CarServerEdge, TypeOK
  <2>31. CASE UNCHANGED vars
    BY <2>31 DEF vars, TypeOK
  <2> QED
    BY <2>1, <2>2, <2>3, <2>4, <2>5, <2>6, <2>7, <2>8, <2>9, <2>10, <2>11, <2>12, <2>13,
       <2>14, <2>15, <2>16, <2>17, <2>18, <2>19, <2>20, <2>21, <2>22, <2>23, <2>24, <2>25,
       <2>26, <2>27, <2>28, <2>29, <2>30, <2>31
       DEF Next, MainStep, WorkerStep, PhoneStep
<1>3. TypeOK /\ MainHasFd /\ [Next]_vars => MainHasFd'
  <2> SUFFICES ASSUME TypeOK, MainHasFd, [Next]_vars PROVE MainHasFd'
    OBVIOUS
  <2> USE DEF MainHasFd, mainVars
  <2>1. ASSUME NEW e \in batch, Accept(e) \/ AcceptFails(e) PROVE MainHasFd'
    BY <2>1 DEF Accept, AcceptFails, NextEvent
  <2>2. ASSUME NEW e \in batch, ClientEvent(e) PROVE MainHasFd'
    BY <2>2 DEF ClientEvent, TypeOK, Event
  <2>3. CASE EpollWait \/ BatchDone
    BY <2>3 DEF EpollWait, BatchDone
  <2>4. CASE GetNewClient \/ AddToQueue \/ Register \/ RegisterFails \/ BadClose
    BY <2>4 DEF GetNewClient, AddToQueue, Register, RegisterFails, BadClose
  <2>5. CASE DoRead \/ ReceiveLost \/ ReceiveNothing \/ Notify
    BY <2>5 DEF DoRead, ReceiveLost, ReceiveNothing, Notify
  <2>6. CASE ReceiveData
    BY <2>6 DEF ReceiveData
  <2>7. CASE ReceiveKills \/ HupUnregister \/ HupKills
    BY <2>7 DEF ReceiveKills, HupUnregister, HupKills
  <2>8. ASSUME NEW w \in Workers, Take(w) \/ WorkerStep(w) PROVE MainHasFd'
    BY <2>8 DEF Take, WorkerStep, LookupNothing, Lookup, Connect, ConnectFails, Exchange, CarServerAnswers,
                Unlock, ReadPcFd, WorkerKills
  <2>9. ASSUME NEW c \in Conn, PhoneStep(c) PROVE MainHasFd'
    BY <2>9 DEF PhoneStep, PhoneConnect, PhoneSend, PhoneHangup
  <2>10. ASSUME NEW f \in Fds, CarServerEdge(f) PROVE MainHasFd'
    BY <2>10 DEF CarServerEdge
  <2>11. CASE UNCHANGED vars
    BY <2>11 DEF vars
  <2> QED
    BY <2>1, <2>2, <2>3, <2>4, <2>5, <2>6, <2>7, <2>8, <2>9, <2>10, <2>11 DEF Next, MainStep
<1> QED
  BY <1>1, <1>2, <1>3, PTL DEF Spec

(* The values the state of the daemon can take, under every interleaving   *)
(* of the event loop, the workers and the phones.                          *)
THEOREM TypeCorrect == Spec => []TypeOK
  BY TypeInvariant, PTL

(***************************************************************************)
(* The ownership invariant.  None of the three properties about clients is *)
(* inductive: AddToQueue needs to know that the client it inserts is not   *)
(* in the table yet (InsertFresh), and a kill must not take the client a   *)
(* worker is busy with, which needs mmutex to be exactly the lock of the   *)
(* worker inside the section (LockOwned).                                  *)
(***************************************************************************)
InsertFresh ==
    mpc = "insert" =>
        /\ mptr \in live
        /\ obj[mptr].fd = mfd
        /\ \A f \in Fds : clientqueue[f] # mptr

LockOwned == \A w \in Workers : mmutex = w <=> InSection(w)

OwnInv ==
    /\ TableOwnsClients
    /\ NoClientLeak
    /\ WorkerHoldsClient
    /\ InsertFresh
    /\ LockOwned

(* Steps that leave the table, the heap and the owners of both alone.      *)
LEMMA OwnFrame ==
    ASSUME OwnInv,
           UNCHANGED <<clientqueue, live>>,
           \A a \in live : obj'[a].fd = obj[a].fd,
           (mpc = "insert" \/ mpc' = "insert") => UNCHANGED <<mpc, mptr, mfd>>,
           \A w \in Workers : mmutex' = w <=> InSection(w)',
           \A w \in Workers : InSection(w)' => InSection(w) /\ pc'[w] = pc[w]
    PROVE  OwnInv'
<1>1. TableOwnsClients'
  BY DEF OwnInv, TableOwnsClients
<1>2. NoClientLeak'
  BY DEF OwnInv, NoClientLeak
<1>3. WorkerHoldsClient'
  <2> SUFFICES ASSUME NEW w \in Workers, InSection(w)'
               PROVE  mmutex' = w /\ pc'[w] \in live' /\ clientqueue'[obj'[pc'[w]].fd] = pc'[w]
    BY DEF WorkerHoldsClient
  <2>1. InSection(w) /\ pc'[w] = pc[w] /\ mmutex' = w
    OBVIOUS
  <2>2. pc[w] \in live /\ clientqueue[obj[pc[w]].fd] = pc[w]
    BY <2>1 DEF OwnInv, WorkerHoldsClient
  <2> QED
    BY <2>1, <2>2
<1>4. InsertFresh'
  BY DEF OwnInv, InsertFresh
<1>5. LockOwned'
  BY DEF LockOwned
<1> QED
  BY <1>1, <1>2, <1>3, <1>4, <1>5 DEF OwnInv

(* Nobody is inside the section while mmutex is free.                      *)
LEMMA NobodyInside ==
    ASSUME LockOwned, mmutex = Nil
    PROVE  \A w \in Workers : ~InSection(w)
  BY Distinct DEF LockOwned

(* DoKill(f) keeps the invariant, whoever calls it and with whatever       *)
(* number, as long as the caller does not touch the other owners.          *)
LEMMA DoKillOwn ==
    ASSUME TypeOK, OwnInv, NEW f \in MaybeFd, DoKill(f),
           UNCHANGED mmutex,
           \A w \in Workers : ~InSection(w)',
           (mpc = "insert" \/ mpc' = "insert") => UNCHANGED <<mpc, mptr, mfd>>
    PROVE  OwnInv'
<1>0. mmutex = Nil /\ mmutex' = Nil
  BY DEF DoKill
<1>1. WorkerHoldsClient'
  BY DEF WorkerHoldsClient
<1>2. LockOwned'
  BY <1>0, Distinct DEF LockOwned
<1>3. CASE Found(f)
  <2> DEFINE p == clientqueue[f]
  <2>1. /\ clientqueue' = [clientqueue EXCEPT ![f] = Nil]
        /\ live' = live \ {p}
        /\ obj' = [obj EXCEPT ![p] = NoClient]
        /\ f \in Fds /\ p # Nil
    BY <1>3 DEF DoKill, Destroy, Found
  <2>2. p \in live /\ obj[p].fd = f
    BY <2>1 DEF OwnInv, TableOwnsClients
  <2>3. \A g \in Fds : g # f => clientqueue[g] # p
    BY <2>1, <2>2 DEF OwnInv, TableOwnsClients
  <2>4. \A a \in live' : obj'[a] = obj[a]
    BY <2>1 DEF TypeOK
  <2>5. \A g \in Fds : clientqueue'[g] = IF g = f THEN Nil ELSE clientqueue[g]
    BY <2>1 DEF TypeOK
  <2>6. TableOwnsClients'
    BY <2>1, <2>3, <2>4, <2>5 DEF OwnInv, TableOwnsClients
  <2>7. NoClientLeak'
    <3> SUFFICES ASSUME NEW a \in live'
                 PROVE  \/ obj'[a].fd \in Fds /\ clientqueue'[obj'[a].fd] = a
                        \/ mpc' = "insert" /\ mptr' = a
      BY DEF NoClientLeak
    <3>1. a \in live /\ a # p /\ obj'[a] = obj[a]
      BY <2>1, <2>4
    <3>2. CASE obj[a].fd \in Fds /\ clientqueue[obj[a].fd] = a
      <4>1. obj[a].fd # f
        BY <3>1, <3>2
      <4> QED
        BY <2>5, <3>1, <3>2, <4>1
    <3>3. CASE mpc = "insert" /\ mptr = a
      BY <3>3
    <3> QED
      BY <3>1, <3>2, <3>3 DEF OwnInv, NoClientLeak
  <2>8. InsertFresh'
    <3> SUFFICES ASSUME mpc' = "insert"
                 PROVE  /\ mptr' \in live'
                        /\ obj'[mptr'].fd = mfd'
                        /\ \A g \in Fds : clientqueue'[g] # mptr'
      BY DEF InsertFresh
    <3>1. /\ mpc = "insert" /\ mptr' = mptr /\ mfd' = mfd
          /\ mptr \in live /\ obj[mptr].fd = mfd /\ \A g \in Fds : clientqueue[g] # mptr
      BY DEF OwnInv, InsertFresh
    <3>2. mptr # p /\ mptr # Nil
      BY <2>1, <3>1, Distinct DEF TypeOK
    <3> QED
      BY <2>1, <2>4, <2>5, <3>1, <3>2
  <2> QED
    BY <1>1, <1>2, <2>6, <2>7, <2>8 DEF OwnInv
<1>4. CASE ~Found(f)
  <2>1. UNCHANGED <<clientqueue, live, obj>>
    BY <1>4 DEF DoKill, tableVars
  <2> QED
    BY <1>0, <2>1, Distinct, OwnFrame
<1> QED
  BY <1>3, <1>4

(* GetNewClient (CclientManager.cpp:115-130): a new client is neither in   *)
(* the table nor in the hands of a worker.                                 *)
LEMMA GetNewClientOwn ==
    ASSUME TypeOK, OwnInv, GetNewClient
    PROVE  OwnInv'
<1>0. UNCHANGED <<clientqueue, mmutex, wpc, pc, mfd>> /\ mpc = "getnew"
  BY DEF GetNewClient, workerVars
<1>1. CASE Admit
  <2>1. PICK a \in Addr \ live :
           /\ live' = live \union {a}
           /\ obj' = [obj EXCEPT ![a] = ini(mfd)]
           /\ mptr' = a
           /\ mpc' = "insert"
    BY <1>1 DEF GetNewClient
  <2>2. \A b \in live : b # a /\ obj'[b] = obj[b]
    BY <2>1 DEF TypeOK
  <2>3. obj'[a].fd = mfd
    BY <2>1 DEF TypeOK, ini
  <2>4. \A f \in Fds : clientqueue[f] # a
    BY Distinct DEF OwnInv, TableOwnsClients, TypeOK
  <2>5. TableOwnsClients'
    BY <1>0, <2>1, <2>2 DEF OwnInv, TableOwnsClients
  <2>6. NoClientLeak'
    BY <1>0, <2>1, <2>2 DEF OwnInv, NoClientLeak
  <2>7. WorkerHoldsClient'
    BY <1>0, <2>1, <2>2 DEF OwnInv, WorkerHoldsClient, InSection
  <2>8. InsertFresh'
    BY <1>0, <2>1, <2>3, <2>4 DEF InsertFresh
  <2>9. LockOwned'
    BY <1>0 DEF OwnInv, LockOwned, InSection
  <2> QED
    BY <2>5, <2>6, <2>7, <2>8, <2>9 DEF OwnInv
<1>2. CASE ~Admit
  <2>1. UNCHANGED <<live, obj>> /\ mpc' = "register"
    BY <1>2 DEF GetNewClient
  <2>2. \A w \in Workers : InSection(w)' <=> InSection(w)
    BY <1>0 DEF InSection
  <2>3. \A w \in Workers : mmutex = w <=> InSection(w)
    BY DEF OwnInv, LockOwned
  <2> QED
    BY <1>0, <2>1, <2>2, <2>3, OwnFrame
<1> QED
  BY <1>1, <1>2

(* The critical section of AddToQueue (CclientManager.cpp:73-91): a client *)
(* already in the table under the same number is deleted, the new one      *)
(* takes its entry.                                                        *)
LEMMA AddToQueueOwn ==
    ASSUME TypeOK, MainHasFd, OwnInv, AddToQueue
    PROVE  OwnInv'
<1>0. /\ UNCHANGED <<mmutex, wpc, pc>>
      /\ mmutex = Nil /\ mfd \in Fds /\ mpc' = "register"
      /\ clientqueue' = [clientqueue EXCEPT ![mfd] = mptr]
      /\ mptr \in live /\ obj[mptr].fd = mfd /\ \A f \in Fds : clientqueue[f] # mptr
  BY DEF AddToQueue, MainHasFd, OwnInv, InsertFresh, workerVars
<1>1. \A w \in Workers : ~InSection(w)'
  BY <1>0, NobodyInside DEF OwnInv, InSection
<1>2. WorkerHoldsClient' /\ InsertFresh'
  BY <1>0, <1>1 DEF WorkerHoldsClient, InsertFresh
<1>3. LockOwned'
  BY <1>0, <1>1, Distinct DEF LockOwned
<1>4. \A g \in Fds : clientqueue'[g] = IF g = mfd THEN mptr ELSE clientqueue[g]
  BY <1>0 DEF TypeOK
<1>5. CASE Found(mfd)
  <2> DEFINE p == clientqueue[mfd]
  <2>1. live' = live \ {p} /\ obj' = [obj EXCEPT ![p] = NoClient] /\ p # Nil
    BY <1>5 DEF AddToQueue, Destroy, Found
  <2>2. p \in live /\ obj[p].fd = mfd /\ p # mptr
    BY <1>0, <2>1 DEF OwnInv, TableOwnsClients
  <2>3. \A a \in live' : obj'[a] = obj[a]
    BY <2>1 DEF TypeOK
  <2>4. mptr \in live'
    BY <1>0, <2>1, <2>2
  <2>5. \A g \in Fds : g # mfd => clientqueue[g] # p
    BY <2>1, <2>2 DEF OwnInv, TableOwnsClients
  <2>6. TableOwnsClients'
    BY <1>0, <1>4, <2>1, <2>3, <2>4, <2>5 DEF OwnInv, TableOwnsClients
  <2>7. NoClientLeak'
    <3> SUFFICES ASSUME NEW a \in live'
                 PROVE  obj'[a].fd \in Fds /\ clientqueue'[obj'[a].fd] = a
      BY DEF NoClientLeak
    <3>1. a \in live /\ a # p /\ obj'[a] = obj[a]
      BY <2>1, <2>3
    <3>2. CASE a = mptr
      BY <1>0, <1>4, <3>1, <3>2
    <3>3. CASE a # mptr
      <4>1. obj[a].fd \in Fds /\ clientqueue[obj[a].fd] = a
        BY <3>1, <3>3 DEF OwnInv, NoClientLeak
      <4>2. obj[a].fd # mfd
        BY <3>1, <4>1
      <4> QED
        BY <1>4, <3>1, <4>1, <4>2
    <3> QED
      BY <3>2, <3>3
  <2> QED
    BY <1>2, <1>3, <2>6, <2>7 DEF OwnInv
<1>6. CASE ~Found(mfd)
  <2>1. UNCHANGED <<live, obj>> /\ clientqueue[mfd] = Nil
    BY <1>0, <1>6 DEF AddToQueue, Found
  <2>2. TableOwnsClients'
    BY <1>0, <1>4, <2>1 DEF OwnInv, TableOwnsClients
  <2>3. NoClientLeak'
    <3> SUFFICES ASSUME NEW a \in live
                 PROVE  obj[a].fd \in Fds /\ clientqueue'[obj[a].fd] = a
      BY <2>1 DEF NoClientLeak
    <3>1. CASE a = mptr
      BY <1>0, <1>4, <3>1
    <3>2. CASE a # mptr
      <4>1. obj[a].fd \in Fds /\ clientqueue[obj[a].fd] = a
        BY <3>2 DEF OwnInv, NoClientLeak
      <4>2. a # Nil
        BY Distinct DEF TypeOK
      <4>3. obj[a].fd # mfd
        BY <2>1, <4>1, <4>2
      <4> QED
        BY <1>4, <4>1, <4>3
    <3> QED
      BY <3>1, <3>2
  <2> QED
    BY <1>2, <1>3, <2>2, <2>3 DEF OwnInv
<1> QED
  BY <1>5, <1>6

(* run finds a client to serve (CclientManager.cpp:338-352): the worker    *)
(* enters the section with a client of the table.                          *)
LEMMA LookupOwn ==
    ASSUME TypeOK, OwnInv, NEW w \in Workers, Lookup(w)
    PROVE  OwnInv'
<1> DEFINE p == clientqueue[fd[w]]
<1>0. /\ UNCHANGED <<clientqueue, live, mpc, mptr, mfd>>
      /\ mmutex = Nil /\ mmutex' = w
      /\ obj' = [obj EXCEPT ![p].status = 2]
      /\ pc' = [pc EXCEPT ![w] = p]
      /\ wpc' = [wpc EXCEPT ![w] = "connect"]
      /\ fd[w] \in Fds /\ p # Nil
  BY DEF Lookup, Found, Goto, mainVars
<1>1. p \in live /\ p \in Addr /\ obj[p].fd = fd[w]
  BY <1>0 DEF OwnInv, TableOwnsClients, TypeOK
<1>2. \A a \in Addr : obj'[a].fd = obj[a].fd
  BY <1>0, <1>1 DEF TypeOK, Client
<1>3. \A v \in Workers : InSection(v)' <=> v = w
  BY <1>0, NobodyInside DEF OwnInv, InSection, TypeOK
<1>4. pc'[w] = p
  BY <1>0 DEF TypeOK
<1>5. TableOwnsClients'
  BY <1>0, <1>2 DEF OwnInv, TableOwnsClients, TypeOK
<1>6. NoClientLeak'
  BY <1>0, <1>2 DEF OwnInv, NoClientLeak, TypeOK
<1>7. WorkerHoldsClient'
  BY <1>0, <1>1, <1>2, <1>3, <1>4 DEF WorkerHoldsClient
<1>8. InsertFresh'
  BY <1>0, <1>2 DEF OwnInv, InsertFresh, TypeOK
<1>9. LockOwned'
  BY <1>0, <1>3 DEF LockOwned
<1> QED
  BY <1>5, <1>6, <1>7, <1>8, <1>9 DEF OwnInv

(* Steps of the event loop and of the phones that leave the clients and    *)
(* the workers alone.                                                      *)
LEMMA OtherOwn ==
    ASSUME OwnInv,
           UNCHANGED <<clientqueue, live, mmutex, wpc, pc>>,
           \A a \in live : obj'[a].fd = obj[a].fd,
           (mpc = "insert" \/ mpc' = "insert") => UNCHANGED <<mpc, mptr, mfd>>
    PROVE  OwnInv'
<1>1. \A w \in Workers : InSection(w)' <=> InSection(w)
  BY DEF InSection
<1>2. \A w \in Workers : mmutex = w <=> InSection(w)
  BY DEF OwnInv, LockOwned
<1> QED
  BY <1>1, <1>2, OwnFrame

(* Steps of a worker that leave the table alone and do not enter the       *)
(* section.                                                                *)
LEMMA WorkerOwn ==
    ASSUME TypeOK, OwnInv, NEW w \in Workers, NEW place \in WorkerPlaces,
           UNCHANGED <<clientqueue, live, mpc, mptr, mfd>>,
           \A a \in live : obj'[a].fd = obj[a].fd,
           Goto(w, place),
           \A v \in Workers : v # w => pc'[v] = pc[v],
           \/ ~InSection(w) /\ place \notin {"connect", "sending", "unlock"} /\ UNCHANGED mmutex
           \/ InSection(w) /\ place \in {"connect", "sending", "unlock"} /\ UNCHANGED <<mmutex, pc>>
           \/ InSection(w) /\ place \notin {"connect", "sending", "unlock"} /\ mmutex' = Nil
    PROVE  OwnInv'
<1>1. \A v \in Workers : wpc'[v] = IF v = w THEN place ELSE wpc[v]
  BY DEF Goto, TypeOK
<1>2. \A v \in Workers : mmutex = v <=> InSection(v)
  BY DEF OwnInv, LockOwned
<1>3. \A v \in Workers : InSection(v)' => InSection(v) /\ pc'[v] = pc[v]
  BY <1>1 DEF InSection
<1>4. \A v \in Workers : mmutex' = v <=> InSection(v)'
  BY <1>1, <1>2, Distinct DEF InSection
<1> QED
  BY <1>3, <1>4, OwnFrame

(* The ownership invariant holds in every state of the daemon.             *)
THEOREM OwnershipCorrect == Spec => []OwnInv
<1>1. Init => OwnInv
  BY Distinct DEF Init, OwnInv, TableOwnsClients, NoClientLeak, WorkerHoldsClient, InsertFresh,
                  LockOwned, InSection
<1>2. TypeOK /\ MainHasFd /\ OwnInv /\ [Next]_vars => OwnInv'
  <2> SUFFICES ASSUME TypeOK, MainHasFd, OwnInv, [Next]_vars PROVE OwnInv'
    OBVIOUS
  <2> USE DEF netVars, epollVars, mainVars, tableVars, workerVars
  <2>1. CASE EpollWait \/ BatchDone
    BY <2>1, OtherOwn DEF EpollWait, BatchDone
  <2>2. ASSUME NEW e \in batch, Accept(e) \/ AcceptFails(e) \/ ClientEvent(e) PROVE OwnInv'
    BY <2>2, OtherOwn DEF Accept, AcceptFails, ClientEvent, NextEvent
  <2>3. CASE GetNewClient
    BY <2>3, GetNewClientOwn
  <2>4. CASE AddToQueue
    BY <2>4, AddToQueueOwn
  <2>5. CASE Register \/ RegisterFails \/ BadClose
    <3>1. AfterRegister \in {"hup", "dispatch"}
      BY DEF AfterRegister
    <3> QED
      BY <2>5, <3>1, OtherOwn DEF Register, RegisterFails, BadClose
  <2>6. CASE DoRead \/ ReceiveLost \/ ReceiveNothing
    BY <2>6, OtherOwn DEF DoRead, ReceiveLost, ReceiveNothing
  <2>7. CASE ReceiveData
    <3>1. \A a \in live : obj'[a].fd = obj[a].fd
      <4>1. \/ obj' = [obj EXCEPT ![mptr].serial = TRUE]
            \/ \E k \in BOOLEAN : obj' = [obj EXCEPT ![mptr].kept = k]
            \/ obj' = obj
        BY <2>7 DEF ReceiveData
      <4>2. obj \in [Addr -> Client] /\ live \subseteq Addr
        BY DEF TypeOK
      <4> QED
        BY <4>1, <4>2 DEF Client
    <3> QED
      BY <2>7, <3>1, OtherOwn DEF ReceiveData
  <2>8. CASE Notify
    <3>1. \A a \in live : obj'[a].fd = obj[a].fd
      BY <2>8 DEF Notify, TypeOK, Client
    <3> QED
      BY <2>8, <3>1, OtherOwn DEF Notify
  <2>9. CASE ReceiveKills \/ HupKills
    <3>1. PICK f \in MaybeFd : DoKill(f)
      BY <2>9 DEF ReceiveKills, HupKills, TypeOK
    <3>2. UNCHANGED <<mmutex, wpc>> /\ mpc # "insert" /\ mpc' # "insert" /\ mmutex = Nil
      BY <2>9 DEF ReceiveKills, HupKills, DoKill
    <3>3. \A w \in Workers : ~InSection(w)'
      BY <3>2, NobodyInside DEF OwnInv, InSection
    <3> QED
      BY <3>1, <3>2, <3>3, DoKillOwn
  <2>10. CASE HupUnregister
    BY <2>10, OtherOwn DEF HupUnregister
  <2>11. ASSUME NEW w \in Workers, Take(w) PROVE OwnInv'
    BY <2>11, WorkerOwn DEF Take, InSection, WorkerPlaces
  <2>12. ASSUME NEW w \in Workers, LookupNothing(w) PROVE OwnInv'
    <3>1. \A a \in live : obj'[a].fd = obj[a].fd
      BY <2>12 DEF LookupNothing, TypeOK, Client
    <3> QED
      BY <2>12, <3>1, WorkerOwn DEF LookupNothing, InSection, WorkerPlaces
  <2>13. ASSUME NEW w \in Workers, Lookup(w) PROVE OwnInv'
    BY <2>13, LookupOwn
  <2>14. ASSUME NEW w \in Workers, Connect(w) \/ ConnectFails(w) PROVE OwnInv'
    BY <2>14, WorkerOwn DEF Connect, ConnectFails, InSection, WorkerPlaces
  <2>15. ASSUME NEW w \in Workers, Exchange(w) PROVE OwnInv'
    <3>1. \A a \in live : obj'[a].fd = obj[a].fd
      BY <2>15 DEF Exchange, CarServerAnswers, TypeOK, Client
    <3> QED
      BY <2>15, <3>1, WorkerOwn DEF Exchange, CarServerAnswers, InSection, WorkerPlaces
  <2>16. ASSUME NEW w \in Workers, Unlock(w) PROVE OwnInv'
    BY <2>16, WorkerOwn DEF Unlock, InSection, WorkerPlaces
  <2>17. ASSUME NEW w \in Workers, ReadPcFd(w) PROVE OwnInv'
    <3>1. \A v \in Workers : v # w => pc'[v] = pc[v]
      BY <2>17 DEF ReadPcFd, TypeOK
    <3> QED
      BY <2>17, <3>1, WorkerOwn DEF ReadPcFd, InSection, WorkerPlaces
  <2>18. ASSUME NEW w \in Workers, WorkerKills(w) PROVE OwnInv'
    <3>1. wkill[w] \in MaybeFd /\ DoKill(wkill[w]) /\ UNCHANGED <<mmutex, mpc, mptr, mfd>>
      BY <2>18 DEF WorkerKills, TypeOK
    <3>2. \A v \in Workers : ~InSection(v)'
      BY <2>18, <3>1, NobodyInside DEF WorkerKills, DoKill, Goto, OwnInv, InSection, TypeOK
    <3> QED
      BY <3>1, <3>2, DoKillOwn
  <2>19. ASSUME NEW c \in Conn, PhoneStep(c) PROVE OwnInv'
    BY <2>19, OtherOwn DEF PhoneStep, PhoneConnect, PhoneSend, PhoneHangup
  <2>20. ASSUME NEW f \in Fds, CarServerEdge(f) PROVE OwnInv'
    BY <2>20, OtherOwn DEF CarServerEdge
  <2>21. CASE UNCHANGED vars
    BY <2>21, OtherOwn DEF vars
  <2> QED
    BY <2>1, <2>2, <2>3, <2>4, <2>5, <2>6, <2>7, <2>8, <2>9, <2>10, <2>11, <2>12, <2>13,
       <2>14, <2>15, <2>16, <2>17, <2>18, <2>19, <2>20, <2>21
       DEF Next, MainStep, WorkerStep
<1> QED
  BY <1>1, <1>2, TypeInvariant, PTL DEF Spec

(* CclientManager.cpp:67-108: every entry of clientqueue is an allocated   *)
(* client that holds its key.                                              *)
THEOREM TableOwnsClientsCorrect == Spec => []TableOwnsClients
<1>1. OwnInv => TableOwnsClients
  BY DEF OwnInv
<1> QED
  BY <1>1, OwnershipCorrect, PTL

(* CclientManager.cpp:69-108: no client is lost.                           *)
THEOREM NoClientLeakCorrect == Spec => []NoClientLeak
<1>1. OwnInv => NoClientLeak
  BY DEF OwnInv
<1> QED
  BY <1>1, OwnershipCorrect, PTL

(* CclientManager.cpp:337-361: the client of a busy worker stays allocated *)
(* and in the table.                                                       *)
THEOREM WorkerHoldsClientCorrect == Spec => []WorkerHoldsClient
<1>1. OwnInv => WorkerHoldsClient
  BY DEF OwnInv
<1> QED
  BY <1>1, OwnershipCorrect, PTL

-----------------------------------------------------------------------------
(* The limit of clients.  The size is read before mmutex is taken, so the  *)
(* bound needs to be carried to the insertion: until then other threads    *)
(* only remove entries.                                                    *)
RoomToInsert == mpc = "insert" => Size < MaxClients

Entries == {f \in Fds : clientqueue[f] # Nil}

(* The table is finite, its size a number.                                 *)
LEMMA SizeType == IsFiniteSet(Entries) /\ Size = Cardinality(Entries) /\ Size \in Nat
  BY ServerFinite, FS_Subset, FS_CardinalityType DEF Entries, Size

(* A step after which no descriptor has an entry that had none before does *)
(* not enlarge the table.                                                  *)
LEMMA SizeShrinks ==
    ASSUME \A f \in Fds : clientqueue'[f] # Nil => clientqueue[f] # Nil
    PROVE  Size' <= Size /\ Size' \in Nat
<1>1. Entries' \in SUBSET Entries
  BY DEF Entries
<1>2. Size' = Cardinality(Entries')
  BY DEF Size, Entries
<1> QED
  BY <1>1, <1>2, SizeType, FS_Subset, FS_CardinalityType

(* DoKill only removes an entry.                                           *)
LEMMA DoKillShrinks ==
    ASSUME TypeOK, NEW g, DoKill(g)
    PROVE  \A f \in Fds : clientqueue'[f] # Nil => clientqueue[f] # Nil
  BY DEF DoKill, Found, TypeOK, tableVars

(* AddToQueue adds at most one entry.                                      *)
LEMMA InsertGrowsByOne ==
    ASSUME TypeOK, MainHasFd, AddToQueue
    PROVE  Size' <= Size + 1
<1>1. mfd \in Fds
  BY DEF AddToQueue, MainHasFd
<1>2. Entries' \in SUBSET (Entries \union {mfd})
  BY <1>1 DEF AddToQueue, Entries, TypeOK
<1>3. Size' = Cardinality(Entries')
  BY DEF Size, Entries
<1>4. /\ IsFiniteSet(Entries \union {mfd})
      /\ Cardinality(Entries \union {mfd}) <= Size + 1
  BY SizeType, FS_AddElement
<1>5. Cardinality(Entries') <= Cardinality(Entries \union {mfd})
  BY <1>2, <1>4, FS_Subset
<1>6. Cardinality(Entries') \in Nat /\ Cardinality(Entries \union {mfd}) \in Nat
  BY <1>2, <1>4, FS_Subset, FS_CardinalityType
<1> QED
  BY <1>3, <1>4, <1>5, <1>6, SizeType

(* Steps that neither add an entry nor start or end an insertion.          *)
LEMMA BoundFrame ==
    ASSUME QueueBound, RoomToInsert,
           \A f \in Fds : clientqueue'[f] # Nil => clientqueue[f] # Nil,
           mpc' = "insert" => mpc = "insert"
    PROVE  QueueBound' /\ RoomToInsert'
  BY SizeType, SizeShrinks, MaxClientsAssumption DEF QueueBound, RoomToInsert

(* CclientManager.cpp:69-91,118: the table never exceeds max_clients.      *)
THEOREM QueueBoundCorrect == Spec => []QueueBound
<1>1. Init => QueueBound /\ RoomToInsert
  <2> SUFFICES ASSUME Init PROVE QueueBound /\ RoomToInsert
    OBVIOUS
  <2>1. Entries = {}
    BY DEF Init, Entries
  <2>2. Size = 0
    BY <2>1, SizeType, FS_EmptySet
  <2> QED
    BY <2>2, MaxClientsAssumption DEF Init, QueueBound, RoomToInsert
<1>2. /\ TypeOK /\ MainHasFd /\ QueueBound /\ RoomToInsert /\ [Next]_vars
      => QueueBound' /\ RoomToInsert'
  <2> SUFFICES ASSUME TypeOK, MainHasFd, QueueBound, RoomToInsert, [Next]_vars
               PROVE  QueueBound' /\ RoomToInsert'
    OBVIOUS
  <2> USE DEF netVars, epollVars, mainVars, tableVars, workerVars
  <2>1. CASE GetNewClient
    <3>1. clientqueue' = clientqueue
      BY <2>1 DEF GetNewClient
    <3>2. Size' = Size
      BY <3>1 DEF Size
    <3>3. mpc' = "insert" => Size < MaxClients
      BY <2>1 DEF GetNewClient, Admit
    <3> QED
      BY <3>2, <3>3 DEF QueueBound, RoomToInsert
  <2>2. CASE AddToQueue
    <3>1. Size < MaxClients /\ mpc' = "register"
      BY <2>2 DEF AddToQueue, RoomToInsert
    <3>2. Size' <= Size + 1
      BY <2>2, InsertGrowsByOne
    <3>3. Size' \in Nat
      BY ServerFinite, FS_Subset, FS_CardinalityType DEF Size
    <3> QED
      BY <3>1, <3>2, <3>3, SizeType, MaxClientsAssumption DEF QueueBound, RoomToInsert
  <2>3. CASE ReceiveKills \/ HupKills
    <3>1. \E g : DoKill(g)
      BY <2>3 DEF ReceiveKills, HupKills
    <3>2. mpc' # "insert"
      BY <2>3 DEF ReceiveKills, HupKills
    <3> QED
      BY <3>1, <3>2, DoKillShrinks, BoundFrame
  <2>4. ASSUME NEW w \in Workers, WorkerKills(w) PROVE QueueBound' /\ RoomToInsert'
    BY <2>4, DoKillShrinks, BoundFrame DEF WorkerKills
  <2>5. CASE EpollWait \/ BatchDone \/ Register \/ RegisterFails \/ BadClose
    BY <2>5, BoundFrame DEF EpollWait, BatchDone, Register, RegisterFails, BadClose, AfterRegister
  <2>6. CASE DoRead \/ ReceiveData \/ ReceiveLost \/ ReceiveNothing \/ Notify \/ HupUnregister
    BY <2>6, BoundFrame DEF DoRead, ReceiveData, ReceiveLost, ReceiveNothing, Notify, HupUnregister
  <2>7. ASSUME NEW e \in batch, Accept(e) \/ AcceptFails(e) \/ ClientEvent(e)
        PROVE  QueueBound' /\ RoomToInsert'
    BY <2>7, BoundFrame DEF Accept, AcceptFails, ClientEvent, NextEvent
  <2>8. ASSUME NEW w \in Workers, Take(w) \/ WorkerStep(w), ~WorkerKills(w)
        PROVE  QueueBound' /\ RoomToInsert'
    BY <2>8, BoundFrame DEF Take, WorkerStep, LookupNothing, Lookup, Connect, ConnectFails,
                            Exchange, CarServerAnswers, Unlock, ReadPcFd
  <2>9. ASSUME NEW c \in Conn, PhoneStep(c) PROVE QueueBound' /\ RoomToInsert'
    BY <2>9, BoundFrame DEF PhoneStep, PhoneConnect, PhoneSend, PhoneHangup
  <2>10. ASSUME NEW f \in Fds, CarServerEdge(f) PROVE QueueBound' /\ RoomToInsert'
    BY <2>10, BoundFrame DEF CarServerEdge
  <2>11. CASE UNCHANGED vars
    BY <2>11, BoundFrame DEF vars
  <2> QED
    BY <2>1, <2>2, <2>3, <2>4, <2>5, <2>6, <2>7, <2>8, <2>9, <2>10, <2>11 DEF Next, MainStep
<1> QED
  BY <1>1, <1>2, TypeInvariant, PTL DEF Spec

-----------------------------------------------------------------------------
(* The room of epoll_wait.  reg shrinks without curfds whenever a          *)
(* registered descriptor is closed, so the counter only drifts upwards:    *)
(* every decrement goes with a removal, every addition with an increment.  *)

(* Closing, killing and every step that leaves the epoll set alone: no     *)
(* descriptor enters the set and the counter stays                         *)
(* (CClient.cpp:65-73, SelEpolKqEvPrt.cpp:74-99).                          *)
LEMMA FitShrinks ==
    ASSUME TypeOK, EventsFit, reg' \subseteq reg, curfds' = curfds
    PROVE  EventsFit'
<1>1. IsFiniteSet(reg) /\ Cardinality(reg) \in Nat
  BY ServerFinite, FS_Subset, FS_CardinalityType DEF TypeOK
<1>2. IsFiniteSet(reg') /\ Cardinality(reg') <= Cardinality(reg) /\ Cardinality(reg') \in Nat
  <2>1. reg' \in SUBSET reg
    OBVIOUS
  <2> QED
    BY <1>1, <2>1, FS_Subset, FS_CardinalityType
<1> QED
  BY <1>1, <1>2 DEF EventsFit, TypeOK

(* unRegisterForEvent takes one from the counter only with a descriptor    *)
(* that was in the set (SelEpolKqEvPrt.cpp:196-209).                       *)
LEMMA FitUnregister ==
    ASSUME TypeOK, EventsFit, NEW f, unRegisterForEvent(f)
    PROVE  EventsFit'
<1>1. IsFiniteSet(reg) /\ Cardinality(reg) \in Nat
  BY ServerFinite, FS_Subset, FS_CardinalityType DEF TypeOK
<1>2. CASE f \in reg
  <2>1. reg' = reg \ {f} /\ curfds' = curfds - 1
    BY <1>2 DEF unRegisterForEvent
  <2>2. Cardinality(reg \ {f}) = Cardinality(reg) - 1
    BY <1>1, <1>2, FS_RemoveElement
  <2> QED
    BY <1>1, <2>1, <2>2 DEF EventsFit, TypeOK
<1>3. CASE f \notin reg
  BY <1>3, FitShrinks DEF unRegisterForEvent
<1> QED
  BY <1>2, <1>3

(* registerForEvent adds a descriptor and one to the counter together      *)
(* (SelEpolKqEvPrt.cpp:130-194).                                           *)
LEMMA FitRegister ==
    ASSUME TypeOK, EventsFit, Register
    PROVE  EventsFit'
<1>1. IsFiniteSet(reg) /\ Cardinality(reg) \in Nat
  BY ServerFinite, FS_Subset, FS_CardinalityType DEF TypeOK
<1>2. CASE mfd \notin reg
  <2>1. reg' = reg \union {mfd} /\ curfds' = curfds + 1
    BY <1>2 DEF Register
  <2>2. Cardinality(reg \union {mfd}) = Cardinality(reg) + 1
    BY <1>1, <1>2, FS_AddElement
  <2> QED
    BY <1>1, <2>1, <2>2 DEF EventsFit, TypeOK
<1>3. CASE mfd \in reg
  BY <1>3, FitShrinks DEF Register, epollVars
<1> QED
  BY <1>2, <1>3

(* DoKill takes at most the descriptor it closes out of the set.           *)
LEMMA DoKillReg ==
    ASSUME NEW f, DoKill(f)
    PROVE  reg' \subseteq reg
  BY DEF DoKill, Destroy, Close

(* SelEpolKqEvPrt.cpp:81,189,204: epoll_wait is always offered room for    *)
(* every registered descriptor and the listener.                           *)
THEOREM EventsFitCorrect == Spec => []EventsFit
<1>1. Init => EventsFit
  BY FS_EmptySet DEF Init, EventsFit
<1>2. TypeOK /\ EventsFit /\ [Next]_vars => EventsFit'
  <2> SUFFICES ASSUME TypeOK, EventsFit, [Next]_vars PROVE EventsFit'
    OBVIOUS
  <2> USE DEF netVars, epollVars, mainVars, tableVars, workerVars
  <2>1. CASE Register
    BY <2>1, FitRegister
  <2>2. ASSUME NEW e \in batch, ClientEvent(e) PROVE EventsFit'
    BY <2>2, FitUnregister DEF ClientEvent
  <2>3. CASE HupUnregister
    BY <2>3, FitUnregister DEF HupUnregister
  <2>4. CASE ReceiveKills \/ HupKills
    <3>1. curfds' = curfds /\ \E f : DoKill(f)
      BY <2>4 DEF ReceiveKills, HupKills
    <3> QED
      BY <3>1, DoKillReg, FitShrinks
  <2>5. ASSUME NEW w \in Workers, WorkerKills(w) PROVE EventsFit'
    BY <2>5, DoKillReg, FitShrinks DEF WorkerKills
  <2>6. CASE AddToQueue
    <3>1. curfds' = curfds /\ reg' \subseteq reg
      BY <2>6 DEF AddToQueue, Destroy, Close
    <3> QED
      BY <3>1, FitShrinks
  <2>7. CASE BadClose
    <3>1. curfds' = curfds /\ reg' \subseteq reg
      BY <2>7 DEF BadClose, Close
    <3> QED
      BY <3>1, FitShrinks
  <2>8. ASSUME NEW w \in Workers, Exchange(w) PROVE EventsFit'
    <3>1. curfds' = curfds /\ reg' \subseteq reg
      BY <2>8 DEF Exchange, CarServerAnswers, Close
    <3> QED
      BY <3>1, FitShrinks
  <2>9. CASE \/ EpollWait \/ BatchDone \/ GetNewClient \/ RegisterFails
             \/ DoRead \/ ReceiveData \/ ReceiveLost \/ ReceiveNothing \/ Notify
    <3>1. UNCHANGED <<reg, curfds>>
      BY <2>9 DEF EpollWait, BatchDone, GetNewClient, RegisterFails, DoRead, ReceiveData,
                  ReceiveLost, ReceiveNothing, Notify
    <3> QED
      BY <3>1 DEF EventsFit
  <2>10. ASSUME NEW e \in batch, Accept(e) \/ AcceptFails(e) PROVE EventsFit'
    BY <2>10 DEF Accept, AcceptFails, EventsFit
  <2>11. ASSUME NEW w \in Workers,
                \/ Take(w) \/ LookupNothing(w) \/ Lookup(w) \/ Connect(w) \/ ConnectFails(w)
                \/ Unlock(w) \/ ReadPcFd(w)
         PROVE  EventsFit'
    <3>1. UNCHANGED <<reg, curfds>>
      BY <2>11 DEF Take, LookupNothing, Lookup, Connect, ConnectFails, Unlock, ReadPcFd
    <3> QED
      BY <3>1 DEF EventsFit
  <2>12. ASSUME NEW c \in Conn, PhoneStep(c) PROVE EventsFit'
    BY <2>12 DEF PhoneStep, PhoneConnect, PhoneSend, PhoneHangup, EventsFit
  <2>13. ASSUME NEW f \in Fds, CarServerEdge(f) PROVE EventsFit'
    BY <2>13 DEF CarServerEdge, EventsFit
  <2>14. CASE UNCHANGED vars
    BY <2>14 DEF vars, EventsFit
  <2> QED
    BY <2>1, <2>2, <2>3, <2>4, <2>5, <2>6, <2>7, <2>8, <2>9, <2>10, <2>11, <2>12, <2>13, <2>14
       DEF Next, MainStep, WorkerStep
<1> QED
  BY <1>1, <1>2, TypeInvariant, PTL DEF Spec

-----------------------------------------------------------------------------
(* The hand-off of requests.  Busy is what busy of MsgQueue is mapped to.  *)
Busy == {w \in Workers : wpc[w] # "idle"}

(* A step that leaves the list and fd alone and keeps every worker on its  *)
(* side of the wait is invisible to the queue.                             *)
LEMMA QueueStutter ==
    ASSUME UNCHANGED <<msglist, fd>>,
           \A v \in Workers : wpc'[v] = "idle" <=> wpc[v] = "idle"
    PROVE  UNCHANGED Queue!queueVars
<1>1. Busy' = Busy
  BY DEF Busy
<1> QED
  BY <1>1 DEF Queue!queueVars, Busy

(* The end of a round (CclientManager.cpp:361-363) is a Release.           *)
LEMMA QueueRelease ==
    ASSUME TypeOK, NEW w \in Workers, wpc[w] # "idle", Goto(w, "idle"),
           UNCHANGED <<msglist, fd>>
    PROVE  Queue!QueueNext
<1>1. w \in Busy /\ Busy' = Busy \ {w}
  BY DEF Busy, Goto, TypeOK
<1>2. Queue!Release(w)
  BY <1>1 DEF Queue!Release, Busy
<1> QED
  BY <1>2 DEF Queue!QueueNext

(* CclientManager.cpp:264-280,319-363: the event loop and the workers of   *)
(* the composed daemon touch msglist only as MsgQueue allows: requests are *)
(* appended at the end by parse, taken from the front by a worker that was *)
(* waiting, and a worker's fd changes in no other way.                     *)
THEOREM ServerRefinesMsgQueue == Spec => ImplementsMsgQueue
<1>1. Init => Queue!QueueInit
  <2> SUFFICES ASSUME Init PROVE Queue!QueueInit
    OBVIOUS
  <2>1. Busy = {}
    BY DEF Init, Busy
  <2> QED
    BY <2>1 DEF Init, Queue!QueueInit, Busy, INVALID_SOCKET, Queue!INVALID_SOCKET
<1>2. TypeOK /\ [Next]_vars => [Queue!QueueNext]_(Queue!queueVars)
  <2> SUFFICES ASSUME TypeOK, [Next]_vars
               PROVE  Queue!QueueNext \/ UNCHANGED Queue!queueVars
    OBVIOUS
  <2> USE DEF workerVars
  <2>1. CASE Notify
    <3>1. PICK f \in MaybeFd : msglist' = Append(msglist, f)
      BY <2>1, ReadFdType DEF Notify, TypeOK
    <3>2. UNCHANGED <<wpc, fd>>
      BY <2>1 DEF Notify
    <3>3. Busy' = Busy
      BY <3>2 DEF Busy
    <3>4. Queue!PushBack(f)
      BY <3>1, <3>2, <3>3 DEF Queue!PushBack, Busy
    <3> QED
      BY <3>4 DEF Queue!QueueNext
  <2>2. ASSUME NEW w \in Workers, Take(w)
        PROVE  Queue!QueueNext \/ UNCHANGED Queue!queueVars
    <3>1. w \notin Busy /\ Busy' = Busy \union {w}
      BY <2>2 DEF Take, Goto, Busy, TypeOK
    <3>2. Queue!TakeFront(w)
      BY <2>2, <3>1 DEF Take, Queue!TakeFront, Busy
    <3> QED
      BY <3>2 DEF Queue!QueueNext
  <2>3. ASSUME NEW w \in Workers, LookupNothing(w) \/ WorkerKills(w)
        PROVE  Queue!QueueNext \/ UNCHANGED Queue!queueVars
    BY <2>3, QueueRelease DEF LookupNothing, WorkerKills
  <2>4. ASSUME NEW w \in Workers,
               \/ Lookup(w) \/ Connect(w) \/ ConnectFails(w) \/ Exchange(w) \/ Unlock(w)
               \/ ReadPcFd(w)
        PROVE  Queue!QueueNext \/ UNCHANGED Queue!queueVars
    <3>1. /\ UNCHANGED <<msglist, fd>>
          /\ wpc[w] # "idle"
          /\ \E place \in WorkerPlaces \ {"idle"} : Goto(w, place)
      BY <2>4 DEF Lookup, Connect, ConnectFails, Exchange, Unlock, ReadPcFd, WorkerPlaces
    <3>2. \A v \in Workers : wpc'[v] = "idle" <=> wpc[v] = "idle"
      BY <3>1 DEF Goto, TypeOK
    <3> QED
      BY <3>1, <3>2, QueueStutter
  <2>5. CASE \/ EpollWait \/ BatchDone \/ GetNewClient \/ AddToQueue
             \/ Register \/ RegisterFails \/ BadClose
    BY <2>5, QueueStutter DEF EpollWait, BatchDone, GetNewClient, AddToQueue, Register,
                              RegisterFails, BadClose
  <2>6. CASE \/ DoRead \/ ReceiveData \/ ReceiveLost \/ ReceiveNothing \/ ReceiveKills
             \/ HupUnregister \/ HupKills
    BY <2>6, QueueStutter DEF DoRead, ReceiveData, ReceiveLost, ReceiveNothing, ReceiveKills,
                              HupUnregister, HupKills
  <2>7. ASSUME NEW e \in batch, Accept(e) \/ AcceptFails(e) \/ ClientEvent(e)
        PROVE  Queue!QueueNext \/ UNCHANGED Queue!queueVars
    BY <2>7, QueueStutter DEF Accept, AcceptFails, ClientEvent
  <2>8. ASSUME NEW c \in Conn, PhoneStep(c)
        PROVE  Queue!QueueNext \/ UNCHANGED Queue!queueVars
    BY <2>8, QueueStutter DEF PhoneStep, PhoneConnect, PhoneSend, PhoneHangup
  <2>9. ASSUME NEW f \in Fds, CarServerEdge(f)
        PROVE  Queue!QueueNext \/ UNCHANGED Queue!queueVars
    BY <2>9, QueueStutter DEF CarServerEdge
  <2>10. CASE UNCHANGED vars
    BY <2>10, QueueStutter DEF vars
  <2> QED
    BY <2>1, <2>2, <2>3, <2>4, <2>5, <2>6, <2>7, <2>8, <2>9, <2>10
       DEF Next, MainStep, WorkerStep
<1> QED
  BY <1>1, <1>2, TypeInvariant, PTL DEF Spec, ImplementsMsgQueue, Queue!QueueSpec

-----------------------------------------------------------------------------
(* The request of a client is forwarded once.  A client whose request has  *)
(* been sent stays marked until some worker deletes it, and that worker is *)
(* on its way: behind its exchange, with the client in pc or its number    *)
(* for DoKill.  A single worker cannot be there and at the next exchange.  *)
OneWorkerOnly == \A v, w \in Workers : v = w

Afterwards(w, a) ==
    \/ wpc[w] \in {"unlock", "pcfd"} /\ pc[w] = a
    \/ wpc[w] = "kill" /\ wkill[w] = obj[a].fd

SentInv ==
    \A a \in Addr : obj[a].sent =>
        /\ a \in live
        /\ ~(mpc = "insert" /\ mptr = a)
        /\ \E w \in Workers : Afterwards(w, a)

(* Steps that mark no client as sent and do not delete a marked one, begin *)
(* no insertion, and move no worker that is behind its exchange.           *)
LEMMA SentFrame ==
    ASSUME SentInv,
           \A a \in Addr : obj'[a].sent =>
               obj[a].sent /\ obj'[a].fd = obj[a].fd /\ (a \in live => a \in live'),
           mpc' = "insert" => mpc = "insert" /\ mptr' = mptr,
           \A w \in Workers : wpc[w] \in {"unlock", "pcfd", "kill"} =>
               wpc'[w] = wpc[w] /\ pc'[w] = pc[w] /\ wkill'[w] = wkill[w]
    PROVE  SentInv'
<1> SUFFICES ASSUME NEW a \in Addr, obj'[a].sent
             PROVE  /\ a \in live'
                    /\ ~(mpc' = "insert" /\ mptr' = a)
                    /\ \E w \in Workers : Afterwards(w, a)'
  BY DEF SentInv
<1>1. obj[a].sent /\ obj'[a].fd = obj[a].fd /\ (a \in live => a \in live')
  OBVIOUS
<1>2. a \in live /\ ~(mpc = "insert" /\ mptr = a)
  BY <1>1 DEF SentInv
<1>3. PICK w \in Workers : Afterwards(w, a)
  BY <1>1 DEF SentInv
<1>4. Afterwards(w, a)'
  BY <1>1, <1>3 DEF Afterwards
<1> QED
  BY <1>1, <1>2, <1>4

(* A freed cell is not marked, and DoKill leaves the other cells alone.    *)
LEMMA DoKillSent ==
    ASSUME TypeOK, NEW f, DoKill(f)
    PROVE  \A a \in Addr : obj'[a].sent =>
               /\ obj'[a] = obj[a]
               /\ a \in live => a \in live'
               /\ f \in Fds => a # clientqueue[f]
<1>1. CASE Found(f)
  <2>1. clientqueue[f] \in Addr
    BY <1>1 DEF Found, TypeOK
  <2>2. /\ obj' = [obj EXCEPT ![clientqueue[f]] = NoClient]
        /\ live' = live \ {clientqueue[f]}
    BY <1>1 DEF DoKill, Destroy
  <2>3. obj'[clientqueue[f]] = NoClient /\ ~NoClient.sent
    BY <2>1, <2>2 DEF TypeOK, NoClient, ini
  <2>4. \A a \in Addr : a # clientqueue[f] => obj'[a] = obj[a]
    BY <2>2 DEF TypeOK
  <2> QED
    BY <2>2, <2>3, <2>4
<1>2. CASE ~Found(f)
  <2>1. UNCHANGED tableVars
    BY <1>2 DEF DoKill
  <2> QED
    BY <1>2, <2>1, Distinct DEF Found, tableVars
<1> QED
  BY <1>1, <1>2

(* The new client of GetNewClient (CclientManager.cpp:115-130) is not      *)
(* marked, in whatever cell it is.                                         *)
LEMMA GetNewClientSent ==
    ASSUME TypeOK, SentInv, GetNewClient
    PROVE  SentInv'
<1> USE DEF mainVars, tableVars, workerVars
<1>1. UNCHANGED workerVars
  BY DEF GetNewClient
<1>2. CASE ~Admit
  BY <1>2, SentFrame DEF GetNewClient
<1>3. CASE Admit
  <2>1. PICK b \in Addr \ live : /\ live' = live \union {b}
                               /\ obj' = [obj EXCEPT ![b] = ini(mfd)]
                               /\ mptr' = b
    BY <1>3 DEF GetNewClient
  <2>2. obj'[b] = ini(mfd) /\ ~obj'[b].sent
    BY <2>1 DEF TypeOK, ini
  <2>3. \A a \in Addr : a # b => obj'[a] = obj[a]
    BY <2>1 DEF TypeOK
  <2> SUFFICES ASSUME NEW a \in Addr, obj'[a].sent
               PROVE  /\ a \in live'
                      /\ ~(mpc' = "insert" /\ mptr' = a)
                      /\ \E w \in Workers : Afterwards(w, a)'
    BY DEF SentInv
  <2>4. a # b /\ obj'[a] = obj[a]
    BY <2>2, <2>3
  <2>5. a \in live /\ \E w \in Workers : Afterwards(w, a)
    BY <2>4 DEF SentInv
  <2> QED
    BY <1>1, <2>1, <2>4, <2>5 DEF Afterwards
<1> QED
  BY <1>2, <1>3

(* AddToQueue frees at most the client it replaces.                        *)
LEMMA AddToQueueSent ==
    ASSUME TypeOK, SentInv, AddToQueue
    PROVE  SentInv'
<1> USE DEF mainVars, tableVars, workerVars
<1>1. UNCHANGED workerVars /\ mpc' = "register"
  BY DEF AddToQueue
<1>2. \A a \in Addr : obj'[a].sent =>
          obj[a].sent /\ obj'[a].fd = obj[a].fd /\ (a \in live => a \in live')
  <2>1. CASE Found(mfd)
    <3>1. clientqueue[mfd] \in Addr
      BY <2>1 DEF Found, TypeOK
    <3>2. /\ obj' = [obj EXCEPT ![clientqueue[mfd]] = NoClient]
          /\ live' = live \ {clientqueue[mfd]}
      BY <2>1 DEF AddToQueue, Destroy
    <3>3. obj'[clientqueue[mfd]] = NoClient /\ ~NoClient.sent
      BY <3>1, <3>2 DEF TypeOK, NoClient, ini
    <3>4. \A a \in Addr : a # clientqueue[mfd] => obj'[a] = obj[a]
      BY <3>2 DEF TypeOK
    <3> QED
      BY <3>2, <3>3, <3>4
  <2>2. CASE ~Found(mfd)
    BY <2>2 DEF AddToQueue
  <2> QED
    BY <2>1, <2>2
<1> QED
  BY <1>1, <1>2, SentFrame

(* Send2CarServer marks the client of the worker, which is in the table    *)
(* and so not the one about to be inserted.                                *)
LEMMA ExchangeSent ==
    ASSUME TypeOK, MainHasFd, OwnInv, SentInv, NEW w \in Workers, Exchange(w)
    PROVE  SentInv'
<1> USE DEF mainVars
<1>0. /\ UNCHANGED <<live, mpc, mptr, mfd, pc, wkill>>
      /\ obj' = [obj EXCEPT ![pc[w]].sent = TRUE]
      /\ wpc[w] = "sending" /\ wpc' = [wpc EXCEPT ![w] = "unlock"]
  BY DEF Exchange, Goto
<1>1. pc[w] \in live /\ clientqueue[obj[pc[w]].fd] = pc[w]
  BY <1>0 DEF OwnInv, WorkerHoldsClient, InSection
<1>2. pc[w] \in Addr /\ pc[w] # Nil
  BY <1>1, Distinct DEF TypeOK
<1>3. ~(mpc = "insert" /\ mptr = pc[w])
  <2> SUFFICES ASSUME mpc = "insert", mptr = pc[w] PROVE FALSE
    OBVIOUS
  <2>1. obj[mptr].fd = mfd /\ \A f \in Fds : clientqueue[f] # mptr
    BY DEF OwnInv, InsertFresh
  <2>2. mfd \in Fds
    BY DEF MainHasFd
  <2> QED
    BY <1>1, <2>1, <2>2
<1>4. wpc'[w] = "unlock" /\ \A v \in Workers : v # w => wpc'[v] = wpc[v]
  BY <1>0 DEF TypeOK
<1>5. \A a \in Addr : obj'[a].fd = obj[a].fd /\ (a # pc[w] => obj'[a].sent = obj[a].sent)
  BY <1>0, <1>2 DEF TypeOK, Client
<1> SUFFICES ASSUME NEW a \in Addr, obj'[a].sent
             PROVE  /\ a \in live'
                    /\ ~(mpc' = "insert" /\ mptr' = a)
                    /\ \E v \in Workers : Afterwards(v, a)'
  BY DEF SentInv
<1>6. CASE a = pc[w]
  BY <1>0, <1>1, <1>3, <1>4, <1>6 DEF Afterwards
<1>7. CASE a # pc[w]
  <2>1. obj[a].sent
    BY <1>5, <1>7
  <2>2. a \in live /\ ~(mpc = "insert" /\ mptr = a)
    BY <2>1 DEF SentInv
  <2>3. PICK v \in Workers : Afterwards(v, a)
    BY <2>1 DEF SentInv
  <2>4. v # w
    BY <1>0, <2>3 DEF Afterwards
  <2>5. Afterwards(v, a)'
    BY <1>0, <1>4, <1>5, <2>3, <2>4 DEF Afterwards
  <2> QED
    BY <1>0, <2>2, <2>5
<1> QED
  BY <1>6, <1>7

(* Behind the section (CclientManager.cpp:361-363) a worker that holds a   *)
(* marked client goes on to the place from which it will kill it: a client *)
(* that is marked is allocated, so pc->fd is its number.                   *)
LEMMA LeaveSent ==
    ASSUME TypeOK, SentInv, NEW w \in Workers, Unlock(w) \/ ReadPcFd(w)
    PROVE  SentInv'
<1> USE DEF mainVars, tableVars
<1>0. UNCHANGED <<live, obj, mpc, mptr>>
  BY DEF Unlock, ReadPcFd
<1> SUFFICES ASSUME NEW a \in Addr, obj[a].sent
             PROVE  \E v \in Workers : Afterwards(v, a)'
  BY <1>0 DEF SentInv
<1>1. PICK v \in Workers : Afterwards(v, a)
  BY DEF SentInv
<1>2. a \in live
  BY DEF SentInv
<1>3. CASE Unlock(w)
  <2>1. UNCHANGED <<pc, wkill>> /\ wpc[w] = "unlock" /\ wpc' = [wpc EXCEPT ![w] = "pcfd"]
    BY <1>3 DEF Unlock, Goto
  <2> QED
    BY <1>0, <1>1, <2>1 DEF Afterwards, TypeOK
<1>4. CASE ReadPcFd(w)
  <2>1. PICK f \in ReadFd(pc[w]) : wkill' = [wkill EXCEPT ![w] = f]
    BY <1>4 DEF ReadPcFd
  <2>2. /\ wpc[w] = "pcfd" /\ wpc' = [wpc EXCEPT ![w] = "kill"]
        /\ pc' = [pc EXCEPT ![w] = Nil]
    BY <1>4 DEF ReadPcFd, Goto
  <2>3. CASE v = w
    <3>1. pc[w] = a
      BY <1>1, <2>2, <2>3 DEF Afterwards
    <3>2. f = obj[a].fd
      BY <1>2, <2>1, <3>1 DEF ReadFd
    <3>3. wpc'[w] = "kill" /\ wkill'[w] = f
      BY <2>1, <2>2 DEF TypeOK
    <3> QED
      BY <1>0, <3>2, <3>3 DEF Afterwards
  <2>4. CASE v # w
    <3>1. wpc'[v] = wpc[v] /\ pc'[v] = pc[v] /\ wkill'[v] = wkill[v]
      BY <2>1, <2>2, <2>4 DEF TypeOK
    <3> QED
      BY <1>0, <1>1, <3>1 DEF Afterwards
  <2> QED
    BY <2>3, <2>4
<1> QED
  BY <1>3, <1>4

(* The kill at the end of a round deletes the marked client the worker     *)
(* answered for: it is still the one in the table under its number.        *)
LEMMA WorkerKillsSent ==
    ASSUME TypeOK, OwnInv, SentInv, NEW w \in Workers, WorkerKills(w)
    PROVE  SentInv'
<1> USE DEF mainVars
<1>0. /\ UNCHANGED <<mpc, mptr, pc>>
      /\ DoKill(wkill[w])
      /\ wpc[w] = "kill" /\ wpc' = [wpc EXCEPT ![w] = "idle"]
      /\ wkill' = [wkill EXCEPT ![w] = INVALID_SOCKET]
  BY DEF WorkerKills, Goto
<1> SUFFICES ASSUME NEW a \in Addr, obj'[a].sent
             PROVE  /\ a \in live'
                    /\ ~(mpc' = "insert" /\ mptr' = a)
                    /\ \E v \in Workers : Afterwards(v, a)'
  BY DEF SentInv
<1>1. /\ obj'[a] = obj[a]
      /\ a \in live => a \in live'
      /\ wkill[w] \in Fds => a # clientqueue[wkill[w]]
  BY <1>0, DoKillSent
<1>2. a \in live /\ ~(mpc = "insert" /\ mptr = a)
  BY <1>1 DEF SentInv
<1>3. PICK v \in Workers : Afterwards(v, a)
  BY <1>1 DEF SentInv
<1>4. obj[a].fd \in Fds /\ clientqueue[obj[a].fd] = a
  BY <1>2 DEF OwnInv, NoClientLeak
<1>5. v # w
  BY <1>0, <1>1, <1>3, <1>4 DEF Afterwards
<1>6. wpc'[v] = wpc[v] /\ pc'[v] = pc[v] /\ wkill'[v] = wkill[v]
  BY <1>0, <1>5 DEF TypeOK
<1>7. Afterwards(v, a)'
  BY <1>1, <1>3, <1>6 DEF Afterwards
<1> QED
  BY <1>0, <1>1, <1>2, <1>7

(* With any number of workers, a client whose request has been forwarded   *)
(* has a worker on its way to delete it (CclientManager.cpp:337-363).      *)
THEOREM SentInvariant == Spec => []SentInv
<1>1. Init => SentInv
  BY DEF Init, SentInv, NoClient, ini
<1>2. TypeOK /\ MainHasFd /\ OwnInv /\ SentInv /\ [Next]_vars => SentInv'
  <2> SUFFICES ASSUME TypeOK, MainHasFd, OwnInv, SentInv, [Next]_vars PROVE SentInv'
    OBVIOUS
  <2> USE DEF mainVars, tableVars, workerVars
  <2>1. CASE GetNewClient
    BY <2>1, GetNewClientSent
  <2>2. CASE AddToQueue
    BY <2>2, AddToQueueSent
  <2>3. CASE ReceiveKills \/ HupKills
    <3>1. PICK f : DoKill(f)
      BY <2>3 DEF ReceiveKills, HupKills
    <3>2. UNCHANGED workerVars /\ mpc' # "insert"
      BY <2>3 DEF ReceiveKills, HupKills
    <3>3. \A a \in Addr : obj'[a].sent => obj'[a] = obj[a] /\ (a \in live => a \in live')
      BY <3>1, DoKillSent
    <3> QED
      BY <3>2, <3>3, SentFrame
  <2>4. ASSUME NEW w \in Workers, WorkerKills(w) PROVE SentInv'
    BY <2>4, WorkerKillsSent
  <2>5. ASSUME NEW w \in Workers, Exchange(w) PROVE SentInv'
    BY <2>5, ExchangeSent
  <2>6. ASSUME NEW w \in Workers, Unlock(w) \/ ReadPcFd(w) PROVE SentInv'
    BY <2>6, LeaveSent
  <2>7. CASE ReceiveData
    <3>1. \A a \in Addr : obj'[a].sent = obj[a].sent /\ obj'[a].fd = obj[a].fd
      <4>1. \/ obj' = [obj EXCEPT ![mptr].serial = TRUE]
            \/ \E k \in BOOLEAN : obj' = [obj EXCEPT ![mptr].kept = k]
            \/ obj' = obj
        BY <2>7 DEF ReceiveData
      <4>2. obj \in [Addr -> Client]
        BY DEF TypeOK
      <4> QED
        BY <4>1, <4>2 DEF Client
    <3>2. UNCHANGED <<workerVars, live>> /\ mpc' # "insert"
      BY <2>7 DEF ReceiveData
    <3> QED
      BY <3>1, <3>2, SentFrame
  <2>8. CASE Notify
    <3>1. \A a \in Addr : obj'[a].sent = obj[a].sent /\ obj'[a].fd = obj[a].fd
      BY <2>8 DEF Notify, TypeOK, Client
    <3>2. UNCHANGED <<workerVars, live>> /\ mpc' # "insert"
      BY <2>8 DEF Notify
    <3> QED
      BY <3>1, <3>2, SentFrame
  <2>9. ASSUME NEW w \in Workers, LookupNothing(w) \/ Lookup(w) PROVE SentInv'
    <3>1. \A a \in Addr : obj'[a].sent = obj[a].sent /\ obj'[a].fd = obj[a].fd
      <4>1. obj' = obj \/ obj' = [obj EXCEPT ![clientqueue[fd[w]]].status = 2]
        BY <2>9 DEF LookupNothing, Lookup
      <4>2. obj \in [Addr -> Client]
        BY DEF TypeOK
      <4> QED
        BY <4>1, <4>2 DEF Client
    <3>2. UNCHANGED <<mainVars, live, wkill>> /\ wpc[w] = "find"
      BY <2>9 DEF LookupNothing, Lookup
    <3>3. \A v \in Workers : v # w => wpc'[v] = wpc[v] /\ pc'[v] = pc[v]
      BY <2>9 DEF LookupNothing, Lookup, Goto, TypeOK
    <3> QED
      BY <3>1, <3>2, <3>3, SentFrame
  <2>10. ASSUME NEW w \in Workers, Take(w) \/ Connect(w) \/ ConnectFails(w) PROVE SentInv'
    <3>1. UNCHANGED <<mainVars, tableVars, pc, wkill>> /\ wpc[w] \in {"idle", "connect", "sending"}
      BY <2>10 DEF Take, Connect, ConnectFails
    <3>2. \A v \in Workers : v # w => wpc'[v] = wpc[v]
      BY <2>10 DEF Take, Connect, ConnectFails, Goto, TypeOK
    <3> QED
      BY <3>1, <3>2, SentFrame
  <2>11. CASE EpollWait \/ BatchDone \/ Register \/ RegisterFails \/ BadClose
    <3>1. UNCHANGED <<tableVars, workerVars>> /\ mpc' # "insert"
      BY <2>11 DEF EpollWait, BatchDone, Register, RegisterFails, BadClose, AfterRegister
    <3> QED
      BY <3>1, SentFrame
  <2>12. CASE DoRead \/ ReceiveLost \/ ReceiveNothing \/ HupUnregister
    <3>1. UNCHANGED <<tableVars, workerVars>> /\ mpc' # "insert"
      BY <2>12 DEF DoRead, ReceiveLost, ReceiveNothing, HupUnregister
    <3> QED
      BY <3>1, SentFrame
  <2>13. ASSUME NEW e \in batch, Accept(e) \/ AcceptFails(e) \/ ClientEvent(e) PROVE SentInv'
    <3>1. UNCHANGED <<tableVars, workerVars>> /\ mpc' # "insert"
      BY <2>13 DEF Accept, AcceptFails, ClientEvent, NextEvent
    <3> QED
      BY <3>1, SentFrame
  <2>14. ASSUME NEW c \in Conn, PhoneStep(c) PROVE SentInv'
    BY <2>14, SentFrame DEF PhoneStep, PhoneConnect, PhoneSend, PhoneHangup
  <2>15. ASSUME NEW f \in Fds, CarServerEdge(f) PROVE SentInv'
    BY <2>15, SentFrame DEF CarServerEdge
  <2>16. CASE UNCHANGED vars
    BY <2>16, SentFrame DEF vars
  <2> QED
    BY <2>1, <2>2, <2>3, <2>4, <2>5, <2>6, <2>7, <2>8, <2>9, <2>10, <2>11, <2>12, <2>13,
       <2>14, <2>15, <2>16
       DEF Next, MainStep, WorkerStep
<1> QED
  BY <1>1, <1>2, TypeInvariant, OwnershipCorrect, PTL DEF Spec

(* CclientManager.cpp:337-363: a single worker, the default of MAX_WORKER, *)
(* never forwards the request of a client twice.                           *)
THEOREM ServedOnceCorrect ==
    ASSUME OneWorkerOnly
    PROVE  Spec => []ServedOnce
<1>1. TypeOK /\ OwnInv /\ SentInv => ServedOnce
  <2> SUFFICES ASSUME TypeOK, SentInv, OwnInv,
                      NEW w \in Workers, wpc[w] = "connect", obj[pc[w]].sent
               PROVE  FALSE
    BY DEF ServedOnce
  <2>1. pc[w] \in Addr
    BY DEF OwnInv, WorkerHoldsClient, InSection, TypeOK
  <2>2. PICK v \in Workers : Afterwards(v, pc[w])
    BY <2>1 DEF SentInv
  <2>3. v = w
    BY DEF OneWorkerOnly
  <2> QED
    BY <2>2, <2>3 DEF Afterwards
<1> QED
  BY <1>1, TypeInvariant, OwnershipCorrect, SentInvariant, PTL

(***************************************************************************)
(* The edges of the epoll set.  NoLostEdge says nothing of a descriptor    *)
(* that is not readable yet, so it is not inductive: it needs that a       *)
(* phone's descriptor with a client is in the set whenever main is not at  *)
(* it (Watched), that the set holds only open descriptors, so that none    *)
(* enters it with the number of a closed one and without its edge          *)
(* (RegOpen), and that every readable member has its edge (EdgeKept),      *)
(* which the next epoll_wait does not overwrite (BatchEmpty).              *)
(***************************************************************************)
RegOpen == \A f \in reg : fdt[f] # Free

BatchEmpty == mpc = "wait" => batch = {}

InBatch(f) == \E e \in batch : e.fd = f

Watched ==
    \A f \in Fds : fdt[f] \in Conn /\ clientqueue[f] # Nil => f \in reg \/ MainAt(f)

EdgeKept == \A f \in reg : Readable(f) => f \in ready \/ InBatch(f)

EdgeInv == RegOpen /\ BatchEmpty /\ Watched /\ EdgeKept

(* Steps that open no descriptor and add none to the epoll set; they may   *)
(* close some, read from some, and change the table.                       *)
LEMMA EdgeFrame ==
    ASSUME TypeOK, EdgeInv,
           \A f \in Fds : fdt'[f] = fdt[f] \/ fdt'[f] = Free,
           reg' = {f \in reg : fdt'[f] # Free},
           \A f \in Fds : f \in ready /\ fdt'[f] # Free => f \in ready',
           UNCHANGED batch,
           mpc' = "wait" => mpc = "wait",
           \A f \in reg : fdt'[f] = fdt[f] /\ Readable(f)' => Readable(f),
           \A f \in Fds : clientqueue'[f] # Nil /\ fdt'[f] \in Conn
                            => clientqueue[f] # Nil \/ MainAt(f)',
           \A f \in Fds : MainAt(f)
                            => MainAt(f)' \/ clientqueue'[f] = Nil \/ fdt'[f] = Free
    PROVE  EdgeInv'
<1>0. reg \subseteq Fds
  BY DEF TypeOK
<1>1. RegOpen'
  BY DEF RegOpen
<1>2. BatchEmpty'
  BY DEF EdgeInv, BatchEmpty
<1>3. Watched'
  <2> SUFFICES ASSUME NEW f \in Fds, fdt'[f] \in Conn, clientqueue'[f] # Nil
               PROVE  f \in reg' \/ MainAt(f)'
    BY DEF Watched
  <2>1. fdt'[f] = fdt[f] /\ fdt'[f] # Free
    BY Distinct
  <2>2. CASE MainAt(f) \/ MainAt(f)'
    BY <2>1, <2>2
  <2>3. CASE ~MainAt(f) /\ clientqueue[f] # Nil
    BY <2>1, <2>3 DEF EdgeInv, Watched
  <2> QED
    BY <2>2, <2>3
<1>4. EdgeKept'
  <2> SUFFICES ASSUME NEW f \in reg', Readable(f)' PROVE f \in ready' \/ InBatch(f)'
    BY DEF EdgeKept
  <2>1. f \in reg /\ f \in Fds /\ fdt'[f] # Free /\ fdt'[f] = fdt[f]
    BY <1>0
  <2>2. f \in ready \/ InBatch(f)
    BY <2>1 DEF EdgeInv, EdgeKept
  <2> QED
    BY <2>1, <2>2 DEF InBatch
<1> QED
  BY <1>1, <1>2, <1>3, <1>4 DEF EdgeInv

(* close(f), as EdgeFrame wants it: the closed descriptor leaves the set   *)
(* and nothing else does.                                                  *)
LEMMA CloseEdges ==
    ASSUME TypeOK, RegOpen, NEW f, Close(f), UNCHANGED <<rcvd, sent, hung>>
    PROVE  /\ \A g \in Fds : fdt'[g] = fdt[g] \/ fdt'[g] = Free
           /\ reg' = {g \in reg : fdt'[g] # Free}
           /\ \A g \in Fds : g \in ready /\ fdt'[g] # Free => g \in ready'
           /\ \A g \in reg : fdt'[g] = fdt[g] /\ Readable(g)' => Readable(g)
           /\ f \in Fds => fdt'[f] = Free
  BY DEF TypeOK, RegOpen, Close, Readable

(* The same of DoKill: the descriptor it closes is that of the entry it    *)
(* erases.                                                                 *)
LEMMA DoKillEdges ==
    ASSUME TypeOK, RegOpen, TableOwnsClients, NEW f \in MaybeFd, DoKill(f),
           UNCHANGED <<rcvd, sent, hung>>
    PROVE  /\ \A g \in Fds : fdt'[g] = fdt[g] \/ fdt'[g] = Free
           /\ reg' = {g \in reg : fdt'[g] # Free}
           /\ \A g \in Fds : g \in ready /\ fdt'[g] # Free => g \in ready'
           /\ \A g \in reg : fdt'[g] = fdt[g] /\ Readable(g)' => Readable(g)
           /\ \A g \in Fds : clientqueue'[g] # Nil => clientqueue[g] # Nil
           /\ f \in Fds => clientqueue'[f] = Nil
<1>1. CASE Found(f)
  <2>1. Close(f) /\ f \in Fds
    BY <1>1 DEF DoKill, Destroy, Found, TableOwnsClients
  <2>2. clientqueue' = [clientqueue EXCEPT ![f] = Nil]
    BY <1>1 DEF DoKill
  <2>3. \A g \in Fds : clientqueue'[g] = IF g = f THEN Nil ELSE clientqueue[g]
    BY <2>2 DEF TypeOK
  <2> QED
    BY <2>1, <2>3, CloseEdges
<1>2. CASE ~Found(f)
  <2>1. UNCHANGED <<clientqueue, fdt, reg, ready>>
    BY <1>2 DEF DoKill, tableVars
  <2>2. f \in Fds => clientqueue[f] = Nil
    BY <1>2 DEF Found
  <2> QED
    BY <2>1, <2>2 DEF RegOpen, Readable
<1> QED
  BY <1>1, <1>2

(* Reading from a descriptor makes none readable (CClient.cpp:76-85).      *)
LEMMA RecvReadsOnly ==
    ASSUME TypeOK, NEW c \in Conn, Recv(c), UNCHANGED <<fdt, sent, hung>>
    PROVE  \A f \in Fds : Readable(f)' => Readable(f)
<1> SUFFICES ASSUME NEW f \in Fds, Readable(f)' PROVE Readable(f)
  OBVIOUS
<1>1. \A d \in Conn : rcvd'[d] = IF d = c THEN sent[c] ELSE rcvd[d]
  BY DEF Recv, TypeOK
<1>2. fdt[f] \in Conn /\ (rcvd'[fdt[f]] < sent[fdt[f]] \/ fdt[f] \in hung)
  BY DEF Readable
<1>3. sent[c] \in Nat
  BY PartsAssumption DEF TypeOK
<1> QED
  BY <1>1, <1>2, <1>3 DEF Readable

\* Every event main has to dispatch is one to read, unless BareHangup.
BatchRead == ~BareHangup => \A e \in batch : e.read

\* The batch comes from epoll_wait and only shrinks until the next one.
LEMMA BatchReadInvariant == Spec => []BatchRead
<1>1. Init => BatchRead
  BY DEF Init, BatchRead
<1>2. TypeOK /\ BatchRead /\ [Next]_vars => BatchRead'
  <2> SUFFICES ASSUME TypeOK, BatchRead, [Next]_vars PROVE BatchRead'
    OBVIOUS
  <2> USE DEF mainVars
  <2>1. CASE EpollWait
    <3>1. ready \subseteq Fds \union {Listener}
      BY DEF TypeOK
    <3> QED
      BY <2>1, <3>1, WaitTells DEF BatchRead
  <2>2. CASE batch' \subseteq batch
    BY <2>2 DEF BatchRead
  <2>3. ASSUME NEW e \in batch, Accept(e) \/ AcceptFails(e) \/ ClientEvent(e)
        PROVE  batch' \subseteq batch
    BY <2>3 DEF Accept, AcceptFails, ClientEvent, NextEvent
  <2>4. CASE \/ BatchDone \/ GetNewClient \/ AddToQueue \/ Register \/ RegisterFails
             \/ BadClose \/ DoRead \/ ReceiveData \/ ReceiveLost \/ ReceiveNothing
             \/ Notify \/ ReceiveKills \/ HupUnregister \/ HupKills
    <3>1. batch' = batch
      BY <2>4 DEF BatchDone, GetNewClient, AddToQueue, Register, RegisterFails, BadClose,
         DoRead, ReceiveData, ReceiveLost, ReceiveNothing, Notify, ReceiveKills,
         HupUnregister, HupKills
    <3> QED
      BY <2>2, <3>1
  <2>5. ASSUME NEW w \in Workers, Take(w) \/ WorkerStep(w)
        PROVE  batch' \subseteq batch
    BY <2>5 DEF Take, WorkerStep, LookupNothing, Lookup, Connect, ConnectFails, Exchange,
       Unlock, ReadPcFd, WorkerKills
  <2>6. ASSUME NEW c \in Conn, PhoneStep(c)
        PROVE  batch' \subseteq batch
    BY <2>6 DEF PhoneStep, PhoneConnect, PhoneSend, PhoneHangup
  <2>7. ASSUME NEW f \in Fds, CarServerEdge(f)
        PROVE  batch' \subseteq batch
    BY <2>7 DEF CarServerEdge
  <2>8. CASE UNCHANGED vars
    <3>1. batch' = batch
      BY <2>8 DEF vars
    <3> QED
      BY <2>2, <3>1
  <2> QED
    BY <2>1, <2>2, <2>3, <2>4, <2>5, <2>6, <2>7, <2>8 DEF Next, MainStep
<1> QED
  BY <1>1, <1>2, TypeInvariant, PTL DEF Spec

(* The invariant of the edges, under every interleaving of the event loop, *)
(* the workers and the phones.                                             *)
LEMMA EdgeInvariant ==
    ASSUME ~BareHangup
    PROVE  Spec => []EdgeInv
<1>1. Init => EdgeInv
  BY DEF Init, EdgeInv, RegOpen, BatchEmpty, Watched, EdgeKept
<1>2. TypeOK /\ MainHasFd /\ OwnInv /\ BatchRead /\ EdgeInv /\ [Next]_vars => EdgeInv'
  <2> SUFFICES ASSUME TypeOK, MainHasFd, OwnInv, BatchRead, EdgeInv, [Next]_vars PROVE EdgeInv'
    OBVIOUS
  <2>0. RegOpen /\ TableOwnsClients /\ reg \subseteq Fds
    BY DEF EdgeInv, OwnInv, TypeOK
  <2> USE DEF netVars, epollVars, mainVars, tableVars, workerVars
  <2>1. CASE EpollWait
    <3>1. PICK S \in SUBSET ready : /\ ready' = ready \ S
                                    /\ \A f \in S : \E e \in batch' : e.fd = f
      BY <2>1, WaitTells DEF TypeOK
    <3>2. \A f \in S : InBatch(f)'
      BY <3>1 DEF InBatch
    <3>3. batch = {}
      BY <2>1 DEF EpollWait, EdgeInv, BatchEmpty
    <3>4. EdgeKept'
      <4> SUFFICES ASSUME NEW f \in reg, Readable(f) PROVE f \in ready' \/ InBatch(f)'
        BY <2>1 DEF EpollWait, EdgeKept, Readable
      <4>1. f \in ready
        BY <3>3 DEF EdgeInv, EdgeKept, InBatch
      <4> QED
        BY <3>1, <3>2, <4>1
    <3>5. RegOpen' /\ BatchEmpty' /\ Watched'
      BY <2>1 DEF EpollWait, EdgeInv, RegOpen, BatchEmpty, Watched, MainAt
    <3> QED
      BY <3>4, <3>5 DEF EdgeInv
  <2>2. CASE BatchDone
    BY <2>2 DEF BatchDone, EdgeInv, RegOpen, BatchEmpty, Watched, EdgeKept, Readable, InBatch, MainAt
  <2>3. ASSUME NEW e \in batch, Accept(e) PROVE EdgeInv'
    <3>1. PICK f \in Fds : /\ fdt[f] = Free /\ fdt' = [fdt EXCEPT ![f] = Head(backlog)]
                           /\ mfd' = f
      BY <2>3 DEF Accept, IsLowestFree, FreeFds
    <3>2. \A g \in Fds : g # f => fdt'[g] = fdt[g]
      BY <3>1 DEF TypeOK
    <3>3. f \notin reg
      BY <2>0, <3>1 DEF RegOpen
    <3>4. \A g \in Fds : InBatch(g) => InBatch(g)'
      BY <2>3, Distinct DEF Accept, NextEvent, InBatch
    <3>5. UNCHANGED <<reg, ready, clientqueue, rcvd, sent, hung>> /\ mpc' = "getnew"
          /\ mpc = "dispatch"
      BY <2>3 DEF Accept, NextEvent
    <3>6. RegOpen' /\ BatchEmpty'
      BY <2>0, <3>2, <3>3, <3>5 DEF RegOpen, BatchEmpty
    <3>7. Watched'
      BY <3>1, <3>2, <3>5 DEF EdgeInv, Watched, MainAt
    <3>8. EdgeKept'
      BY <2>0, <3>2, <3>3, <3>4, <3>5 DEF EdgeInv, EdgeKept, Readable
    <3> QED
      BY <3>6, <3>7, <3>8 DEF EdgeInv
  <2>4. ASSUME NEW e \in batch, AcceptFails(e) PROVE EdgeInv'
    <3>1. \A g \in Fds : InBatch(g) => InBatch(g)'
      BY <2>4, Distinct DEF AcceptFails, NextEvent, InBatch
    <3>2. UNCHANGED <<fdt, reg, ready, clientqueue, rcvd, sent, hung, mpc, mfd>> /\ mpc = "dispatch"
      BY <2>4 DEF AcceptFails, NextEvent
    <3> QED
      BY <2>0, <3>1, <3>2 DEF EdgeInv, RegOpen, BatchEmpty, Watched, EdgeKept, Readable, MainAt
  <2>5. ASSUME NEW e \in batch, ClientEvent(e) PROVE EdgeInv'
    <3>1. /\ reg' = reg \ {e.fd} /\ ready' = ready \ {e.fd} /\ mfd' = e.fd
          /\ batch' = batch \ {e} /\ mpc = "dispatch" /\ mpc' = "find"
          /\ UNCHANGED <<fdt, clientqueue, rcvd, sent, hung>>
      BY <2>5 DEF ClientEvent, NextEvent, unRegisterForEvent, BatchRead
    <3>2. \A g \in Fds : g # e.fd /\ InBatch(g) => InBatch(g)'
      BY <3>1 DEF InBatch
    <3>3. RegOpen' /\ BatchEmpty' /\ Watched'
      BY <2>0, <3>1 DEF EdgeInv, RegOpen, BatchEmpty, Watched, MainAt
    <3>4. EdgeKept'
      BY <2>0, <3>1, <3>2 DEF EdgeInv, EdgeKept, Readable
    <3> QED
      BY <3>3, <3>4 DEF EdgeInv
  <2>6. CASE GetNewClient
    <3>1. /\ UNCHANGED <<fdt, reg, ready, clientqueue, rcvd, sent, hung, batch, mfd>>
          /\ mpc' \in {"insert", "register"}
      BY <2>6 DEF GetNewClient
    <3> QED
      BY <2>0, <3>1, EdgeFrame DEF RegOpen, Readable, MainAt
  <2>7. CASE AddToQueue
    <3>1. /\ UNCHANGED <<rcvd, sent, hung, batch, mfd>> /\ mpc' = "register" /\ mfd \in Fds
          /\ clientqueue' = [clientqueue EXCEPT ![mfd] = mptr]
      BY <2>7 DEF AddToQueue, MainHasFd
    <3>2. \A f \in Fds : f # mfd => clientqueue'[f] = clientqueue[f]
      BY <3>1 DEF TypeOK
    <3>3. Close(mfd) \/ UNCHANGED <<fdt, reg, ready>>
      BY <2>0, <2>7 DEF AddToQueue, Destroy, Found, TableOwnsClients
    <3>4. /\ \A g \in Fds : fdt'[g] = fdt[g] \/ fdt'[g] = Free
          /\ reg' = {g \in reg : fdt'[g] # Free}
          /\ \A g \in Fds : g \in ready /\ fdt'[g] # Free => g \in ready'
          /\ \A g \in reg : fdt'[g] = fdt[g] /\ Readable(g)' => Readable(g)
      <4>1. CASE Close(mfd)
        BY <2>0, <3>1, <4>1, CloseEdges
      <4>2. CASE UNCHANGED <<fdt, reg, ready>>
        BY <2>0, <3>1, <4>2 DEF RegOpen, Readable
      <4> QED
        BY <3>3, <4>1, <4>2
    <3>5. \A f \in Fds : MainAt(f)' <=> f = mfd
      BY <3>1 DEF MainAt
    <3>6. \A f \in Fds : MainAt(f) => f = mfd
      BY DEF MainAt
    <3> QED
      BY <3>1, <3>2, <3>4, <3>5, <3>6, EdgeFrame
  <2>8. CASE Register
    <3>1. /\ UNCHANGED <<fdt, clientqueue, rcvd, sent, hung, batch, mfd>>
          /\ mpc' \in {"hup", "dispatch"} /\ fdt[mfd] # Free
      BY <2>8 DEF Register, AfterRegister
    <3>2. /\ reg' = reg \union {mfd} /\ ready \subseteq ready'
          /\ mfd \notin reg /\ Readable(mfd) => mfd \in ready'
      BY <2>8 DEF Register
    <3>3. RegOpen' /\ BatchEmpty'
      BY <2>0, <3>1, <3>2 DEF RegOpen, BatchEmpty
    <3>4. Watched'
      BY <3>1, <3>2 DEF EdgeInv, Watched, MainAt
    <3>5. EdgeKept'
      BY <3>1, <3>2 DEF EdgeInv, EdgeKept, Readable, InBatch
    <3> QED
      BY <3>3, <3>4, <3>5 DEF EdgeInv
  <2>9. CASE RegisterFails
    <3>1. /\ UNCHANGED <<fdt, reg, ready, clientqueue, rcvd, sent, hung, batch, mfd>>
          /\ mpc' \in {"badclose", "hup", "dispatch"} /\ fdt[mfd] = Free
      BY <2>9 DEF RegisterFails, AfterRegister
    <3> QED
      BY <2>0, <3>1, EdgeFrame DEF RegOpen, Readable, MainAt
  <2>10. CASE BadClose
    <3>1. /\ Close(mfd) /\ UNCHANGED <<clientqueue, rcvd, sent, hung, batch, mfd>>
          /\ mpc' \in {"hup", "dispatch"} /\ mfd \in Fds
      BY <2>10 DEF BadClose, AfterRegister, MainHasFd
    <3>2. \A f \in Fds : MainAt(f) => f = mfd
      BY DEF MainAt
    <3> QED
      BY <2>0, <3>1, <3>2, CloseEdges, EdgeFrame
  <2>11. CASE DoRead \/ ReceiveNothing \/ Notify
    <3>1. /\ UNCHANGED <<fdt, reg, ready, clientqueue, rcvd, sent, hung, batch, mfd>>
          /\ mpc' \in {"register", "receive", "rkill"}
      BY <2>11 DEF DoRead, ReceiveNothing, Notify
    <3> QED
      BY <2>0, <3>1, EdgeFrame DEF RegOpen, Readable, MainAt
  <2>12. CASE ReceiveData \/ ReceiveLost
    <3>1. /\ UNCHANGED <<fdt, reg, ready, clientqueue, sent, hung, batch, mfd>>
          /\ mpc' \in {"register", "notify"}
      BY <2>12 DEF ReceiveData, ReceiveLost
    <3>2. UNCHANGED rcvd \/ \E c \in Conn : Recv(c)
      BY <2>12 DEF ReceiveData, ReceiveLost, HasData
    <3>3. \A f \in Fds : Readable(f)' => Readable(f)
      BY <3>1, <3>2, RecvReadsOnly DEF Readable
    <3>4. \A f \in Fds : MainAt(f) => MainAt(f)'
      BY <3>1 DEF MainAt
    <3> QED
      BY <2>0, <3>1, <3>3, <3>4, EdgeFrame DEF RegOpen
  <2>13. CASE ReceiveKills
    <3>1. /\ DoKill(mkill) /\ mkill \in MaybeFd /\ UNCHANGED <<rcvd, sent, hung, batch, mfd>>
          /\ mpc' = "register"
      BY <2>13 DEF ReceiveKills, TypeOK
    <3>2. \A f \in Fds : MainAt(f) => MainAt(f)'
      BY <3>1 DEF MainAt
    <3> QED
      BY <2>0, <3>1, <3>2, DoKillEdges, EdgeFrame
  <2>14. CASE HupUnregister
    <3>1. /\ reg' = reg \ {mfd} /\ ready' = ready \ {mfd} /\ mpc = "hup" /\ mpc' = "hupkill"
          /\ UNCHANGED <<fdt, clientqueue, rcvd, sent, hung, batch, mfd>>
      BY <2>14 DEF HupUnregister, unRegisterForEvent
    <3>2. RegOpen' /\ BatchEmpty' /\ Watched'
      BY <2>0, <3>1 DEF EdgeInv, RegOpen, BatchEmpty, Watched, MainAt
    <3>3. EdgeKept'
      BY <3>1 DEF EdgeInv, EdgeKept, Readable, InBatch
    <3> QED
      BY <3>2, <3>3 DEF EdgeInv
  <2>15. CASE HupKills
    <3>1. /\ DoKill(mfd) /\ mfd \in Fds /\ mfd \in MaybeFd
          /\ UNCHANGED <<rcvd, sent, hung, batch>> /\ mpc' = "dispatch"
      BY <2>15 DEF HupKills, MainHasFd, MaybeFd
    <3>2. \A f \in Fds : MainAt(f) => f = mfd
      BY DEF MainAt
    <3> QED
      BY <2>0, <3>1, <3>2, DoKillEdges, EdgeFrame
  <2>16. ASSUME NEW w \in Workers,
                Take(w) \/ LookupNothing(w) \/ Lookup(w) \/ ConnectFails(w) \/ Unlock(w) \/ ReadPcFd(w)
         PROVE  EdgeInv'
    <3>1. UNCHANGED <<fdt, reg, ready, clientqueue, rcvd, sent, hung, batch, mfd, mpc>>
      BY <2>16 DEF Take, LookupNothing, Lookup, ConnectFails, Unlock, ReadPcFd
    <3> QED
      BY <2>0, <3>1, EdgeFrame DEF RegOpen, Readable, MainAt
  <2>17. ASSUME NEW w \in Workers, Connect(w) PROVE EdgeInv'
    <3>1. PICK f \in Fds : fdt[f] = Free /\ fdt' = [fdt EXCEPT ![f] = w]
      BY <2>17 DEF Connect, IsLowestFree, FreeFds
    <3>2. fdt'[f] = w /\ w \notin Conn /\ \A g \in Fds : g # f => fdt'[g] = fdt[g]
      BY <3>1, Distinct DEF TypeOK
    <3>3. f \notin reg
      BY <2>0, <3>1 DEF RegOpen
    <3>4. UNCHANGED <<reg, ready, clientqueue, rcvd, sent, hung, batch, mfd, mpc>>
      BY <2>17 DEF Connect
    <3>5. RegOpen' /\ BatchEmpty' /\ Watched'
      BY <2>0, <3>2, <3>3, <3>4 DEF EdgeInv, RegOpen, BatchEmpty, Watched, MainAt
    <3>6. EdgeKept'
      BY <2>0, <3>2, <3>3, <3>4 DEF EdgeInv, EdgeKept, Readable, InBatch
    <3> QED
      BY <3>5, <3>6 DEF EdgeInv
  <2>18. ASSUME NEW w \in Workers, Exchange(w) PROVE EdgeInv'
    <3>1. Close(sock[w]) /\ UNCHANGED <<clientqueue, rcvd, sent, hung, batch, mfd, mpc>>
      BY <2>18 DEF Exchange, CarServerAnswers
    <3>2. \A f \in Fds : MainAt(f) => MainAt(f)'
      BY <3>1 DEF MainAt
    <3> QED
      BY <2>0, <3>1, <3>2, CloseEdges, EdgeFrame
  <2>19. ASSUME NEW w \in Workers, WorkerKills(w) PROVE EdgeInv'
    <3>1. /\ DoKill(wkill[w]) /\ wkill[w] \in MaybeFd
          /\ UNCHANGED <<rcvd, sent, hung, batch, mfd, mpc>>
      BY <2>19 DEF WorkerKills, TypeOK
    <3>2. \A f \in Fds : MainAt(f) => MainAt(f)'
      BY <3>1 DEF MainAt
    <3> QED
      BY <2>0, <3>1, <3>2, DoKillEdges, EdgeFrame
  <2>20. ASSUME NEW c \in Conn, PhoneConnect(c) PROVE EdgeInv'
    BY <2>20 DEF PhoneConnect, EdgeInv, RegOpen, BatchEmpty, Watched, EdgeKept, Readable, InBatch, MainAt
  <2>21. ASSUME NEW c \in Conn, PhoneSend(c) \/ PhoneHangup(c) PROVE EdgeInv'
    <3>1. /\ UNCHANGED <<fdt, reg, clientqueue, rcvd, batch, mfd, mpc>>
          /\ ready' = ready \union {f \in reg : fdt[f] = c}
      BY <2>21 DEF PhoneSend, PhoneHangup, Edge
    <3>2. \A d \in Conn : d # c => sent'[d] = sent[d] /\ (d \in hung' <=> d \in hung)
      BY <2>21 DEF PhoneSend, PhoneHangup, TypeOK
    <3>3. RegOpen' /\ BatchEmpty' /\ Watched'
      BY <3>1 DEF EdgeInv, RegOpen, BatchEmpty, Watched, MainAt
    <3>4. EdgeKept'
      BY <3>1, <3>2 DEF EdgeInv, EdgeKept, Readable, InBatch
    <3> QED
      BY <3>3, <3>4 DEF EdgeInv
  <2>22. ASSUME NEW f \in Fds, CarServerEdge(f) PROVE EdgeInv'
    BY <2>22 DEF CarServerEdge, EdgeInv, RegOpen, BatchEmpty, Watched, EdgeKept, Readable, InBatch, MainAt
  <2>23. CASE UNCHANGED vars
    BY <2>23 DEF vars, EdgeInv, RegOpen, BatchEmpty, Watched, EdgeKept, Readable, InBatch, MainAt
  <2> QED
    BY <2>1, <2>2, <2>3, <2>4, <2>5, <2>6, <2>7, <2>8, <2>9, <2>10, <2>11, <2>12, <2>13,
       <2>14, <2>15, <2>16, <2>17, <2>18, <2>19, <2>20, <2>21, <2>22, <2>23
       DEF Next, MainStep, WorkerStep, PhoneStep
<1> QED
  BY <1>1, <1>2, TypeInvariant, OwnershipCorrect, BatchReadInvariant, PTL DEF Spec

(* gps.cpp:171-193, SelEpolKqEvPrt.cpp:131-212: with any number of         *)
(* workers and phones, the edge of a readable connection that has a client *)
(* is never lost, although each is told once and descriptors are closed    *)
(* and reused behind the loop's back.                                      *)
THEOREM NoLostEdgeCorrect == Spec => []NoLostEdge
<1>1. TypeOK /\ EdgeInv => NoLostEdge
  <2> SUFFICES ASSUME TypeOK, EdgeInv, NEW f \in Fds, clientqueue[f] # Nil, Readable(f)
               PROVE  f \in ready \/ InBatch(f) \/ MainAt(f)
    BY DEF NoLostEdge, InBatch
  <2>1. f \in reg \/ MainAt(f)
    BY DEF EdgeInv, Watched, Readable
  <2> QED
    BY <2>1 DEF EdgeInv, EdgeKept
<1>2. CASE BareHangup
  <2>1. NoLostEdge
    BY <1>2 DEF NoLostEdge
  <2> QED
    BY <2>1, PTL
<1>3. CASE ~BareHangup
  BY <1>1, <1>3, EdgeInvariant, TypeInvariant, PTL
<1> QED
  BY <1>2, <1>3
=============================================================================
