---------------------------- MODULE LifecycleProofs ----------------------------
(***************************************************************************)
(* Proofs about Lifecycle, for every number of threads, signals and        *)
(* descriptors, every host and every configuration file.                   *)
(***************************************************************************)
EXTENDS Lifecycle, TLAPS

\* The places of main behind its loop.
Leaving == {"return", "cond", "map", "exit"}

\* Places that are reached before the descriptors 0, 1 and 2 are opened.
BeforeClose == {"fork", "setsid", "fork2", "close"}

-----------------------------------------------------------------------------
(* Who sets and who keeps the flags                                        *)

\* Every step sets allExitFlag or leaves it, and termReceived comes with it.
FlagsSet ==
    /\ allExitFlag \in BOOLEAN /\ termReceived \in BOOLEAN
    /\ termReceived => allExitFlag
    /\ pc \in Leaving => allExitFlag

Destroyed ==
    /\ manager = "destroyed" => pc \in Leaving
    /\ mapinfo = "destroyed" => pc \in Leaving

\* Threads never move main or its objects; they set the flag at most.
LEMMA ThreadsLeaveMain ==
    ASSUME \/ \E t \in Threads : Run(t)
           \/ LoaderStep
    PROVE  /\ UNCHANGED <<pc, objVars, termReceived>>
           /\ allExitFlag' = TRUE \/ UNCHANGED allExitFlag
<1>. USE DEF Moves, Quietly, SetExit, flagVars, objVars
<1>1. ASSUME NEW t \in Threads, Run(t)
      PROVE  /\ UNCHANGED <<pc, objVars, termReceived>>
             /\ allExitFlag' = TRUE \/ UNCHANGED allExitFlag
  BY <1>1 DEF Run, RunTests, RunCond, RunWakes, RunTestsAgain, RunBegins, RunEnds
<1>2. CASE LoaderStep
  BY <1>2 DEF LoaderStep, ReadFunctor, LoaderLinked, LoaderTests, LoaderQueries,
     LoaderPageEnds, LoaderDisconnects, Ends
<1>. QED  BY <1>1, <1>2

\* A step that leaves the objects alone, and sets the flag or leaves it too.
LEMMA FlagsKept ==
    ASSUME FlagsSet, Destroyed, manager' = manager, mapinfo' = mapinfo,
           \/ allExitFlag' = TRUE /\ termReceived' \in BOOLEAN
           \/ /\ allExitFlag' = allExitFlag /\ termReceived' = termReceived
              /\ pc' \in Leaving => pc \in Leaving,
           pc \in Leaving => pc' \in Leaving
    PROVE  FlagsSet' /\ Destroyed'
<1>1. FlagsSet'
  <2>1. CASE allExitFlag' = TRUE /\ termReceived' \in BOOLEAN
    <3>1. allExitFlag' \in BOOLEAN
      BY <2>1
    <3>2. allExitFlag'
      BY <2>1
    <3>. QED  BY <2>1, <3>1, <3>2, Zenon DEF FlagsSet
  <2>2. CASE /\ allExitFlag' = allExitFlag /\ termReceived' = termReceived
             /\ pc' \in Leaving => pc \in Leaving
    BY <2>2, Zenon DEF FlagsSet
  <2>. QED  BY <2>1, <2>2
<1>2. Destroyed'
  BY Zenon DEF Destroyed
<1>. QED  BY <1>1, <1>2

\* Every step keeps the flag set behind the loop, and the objects before it.
LEMMA FlagStep == FlagsSet /\ Destroyed /\ [Next]_vars => FlagsSet' /\ Destroyed'
<1>. SUFFICES ASSUME FlagsSet, Destroyed, [Next]_vars
              PROVE  FlagsSet' /\ Destroyed'
  OBVIOUS
<1>. USE DEF FlagsSet, Destroyed, Leaving, At, Goto, Ends, objVars, flagVars
<1>1. CASE \/ Fork \/ Setsid \/ CloseFiles \/ Reopen \/ InstallHandlers
           \/ OpenConfig \/ file_to_items \/ readConfigFile \/ NewMap
  BY <1>1 DEF Fork, Setsid, CloseFiles, Reopen, InstallHandlers, OpenConfig, file_to_items,
     readConfigFile, NewMap
<1>2. CASE DataBaseIni \/ loaddb \/ DeleteFunctor \/ NewManager \/ StartWorker \/ Started
  BY <1>2 DEF DataBaseIni, loaddb, DeleteFunctor, NewManager, StartWorker, Started
<1>3. CASE createListener \/ initialize
  <2>1. /\ manager' = manager /\ mapinfo' = mapinfo /\ termReceived' = termReceived
        /\ pc \notin Leaving
        /\ allExitFlag' = TRUE \/ (allExitFlag' = allExitFlag /\ pc' \notin Leaving)
    BY <1>3 DEF createListener, initialize, SetExit
  <2>2. termReceived' \in BOOLEAN
    BY <2>1, Zenon DEF FlagsSet
  <2>. QED  BY <2>1, <2>2, FlagsKept, Zenon
<1>4. CASE While \/ GetEvents \/ EpollTimeout \/ Restart \/ EpollEvents
  BY <1>4 DEF While, GetEvents, EpollTimeout, Restart, EpollEvents, Loop
<1>5. CASE Dispatch \/ TestHup
  <2>1. /\ manager' = manager /\ mapinfo' = mapinfo /\ termReceived' = termReceived
        /\ pc \notin Leaving /\ pc' \notin Leaving
        /\ allExitFlag' = TRUE \/ allExitFlag' = allExitFlag
    BY <1>5 DEF Dispatch, TestHup, Loop, SetExit
  <2>2. termReceived' \in BOOLEAN
    BY <2>1, Zenon DEF FlagsSet
  <2>. QED  BY <2>1, <2>2, FlagsKept, Zenon
<1>6. CASE DestroyManager \/ DestroyCond \/ DestroyMap \/ ExitProcess
  BY <1>6 DEF DestroyManager, DestroyCond, DestroyMap, ExitProcess
<1>7. CASE (\E t \in Threads : Run(t)) \/ LoaderStep
  <2>1. /\ manager' = manager /\ mapinfo' = mapinfo /\ termReceived' = termReceived
        /\ pc' = pc
        /\ allExitFlag' = TRUE \/ allExitFlag' = allExitFlag
    BY <1>7, ThreadsLeaveMain, Zenon
  <2>2. termReceived' \in BOOLEAN
    BY <2>1, Zenon DEF FlagsSet
  <2>. QED  BY <2>1, <2>2, FlagsKept, Zenon
<1>8. ASSUME NEW term \in BOOLEAN, Signal(term)
      PROVE  FlagsSet' /\ Destroyed'
  <2>1. CASE pc' = pc /\ allExitFlag' = allExitFlag /\ termReceived' = termReceived
    BY <1>8, <2>1 DEF Signal
  <2>2. CASE allExitFlag' = TRUE /\ termReceived' = (termReceived \/ term)
    <3>1. manager' = manager /\ mapinfo' = mapinfo /\ (pc \in Leaving => pc' \in Leaving)
      BY <1>8 DEF Signal
    <3>2. termReceived' \in BOOLEAN
      BY <2>2, Zenon
    <3>. QED  BY <2>2, <3>1, <3>2, FlagsKept, Zenon
  <2>. QED  BY <1>8, <2>1, <2>2 DEF Signal
<1>9. CASE Over \/ UNCHANGED vars
  BY <1>9 DEF Over, vars
<1>. QED
  BY <1>1, <1>2, <1>3, <1>4, <1>5, <1>6, <1>7, <1>8, <1>9 DEF Next, MainStep

\* main is behind its loop, and objects are destroyed, only with the flag set.
LEMMA FlagInvariant == Spec => [](FlagsSet /\ Destroyed)
<1>1. Init => FlagsSet /\ Destroyed
  BY DEF Init, FlagsSet, Destroyed, Leaving
<1>. QED  BY <1>1, FlagStep, PTL DEF Spec

(* gps.cpp:115-213, Cserver.cpp:28-110: whatever fails and whichever       *)
(* signals come, main destroys the objects its threads use only after      *)
(* allExitFlag was set.                                                    *)
THEOREM FlagBeforeDestructionCorrect == Spec => []FlagBeforeDestruction
<1>1. FlagsSet /\ Destroyed => FlagBeforeDestruction
  BY DEF FlagsSet, Destroyed, FlagBeforeDestruction
<1>. QED  BY <1>1, FlagInvariant, PTL

-----------------------------------------------------------------------------
(* What threads begin after the flag was set                               *)

\* A thread that has begun a piece with the flag set is not at the place where
\* it would begin another one, and the test before this place stops it.
Counted ==
    /\ thr \in [Threads -> ThreadPlaces]
    /\ begun \in [Threads -> {0, 1}]
    /\ \A t \in Threads :
          begun[t] = 1 => allExitFlag /\ thr[t] \notin {"begin", "query"}

\* The flag is never taken back.
LEMMA FlagStays == FlagsSet /\ [Next]_vars => (allExitFlag => allExitFlag')
<1>. SUFFICES ASSUME FlagsSet, [Next]_vars, allExitFlag
              PROVE  allExitFlag'
  OBVIOUS
<1>. USE DEF flagVars, SetExit
<1>1. CASE MainStep \/ EpollEvents
  BY <1>1 DEF MainStep, Fork, Setsid, CloseFiles, Reopen, InstallHandlers, OpenConfig,
     file_to_items, readConfigFile, NewMap, DataBaseIni, loaddb, DeleteFunctor, NewManager, StartWorker, Started, createListener,
     initialize, While, GetEvents, EpollTimeout, Dispatch, TestHup, Restart, EpollEvents,
     DestroyManager, DestroyCond, DestroyMap, ExitProcess
<1>2. CASE (\E t \in Threads : Run(t)) \/ LoaderStep
  BY <1>2, ThreadsLeaveMain
<1>3. ASSUME NEW term \in BOOLEAN, Signal(term)
      PROVE  allExitFlag'
  BY <1>3 DEF Signal
<1>4. CASE Over \/ UNCHANGED vars
  BY <1>4 DEF Over, vars
<1>. QED  BY <1>1, <1>2, <1>3, <1>4 DEF Next

\* A thread goes on without beginning anything.
LEMMA CountedMove ==
    ASSUME Counted, FlagsSet, [Next]_vars, NEW t \in Threads, NEW from, NEW to \in ThreadPlaces,
           Moves(t, from, to), UNCHANGED begun,
           to \in {"begin", "query"} => ~allExitFlag
    PROVE  Counted'
<1>1. thr' = [thr EXCEPT ![t] = to] /\ begun' = begun
  BY DEF Moves
<1>2. allExitFlag => allExitFlag'
  BY FlagStays
<1>. QED  BY <1>1, <1>2 DEF Counted

\* A thread begins a piece of work.
LEMMA CountedBegin ==
    ASSUME Counted, NEW t \in Threads, NEW from \in {"begin", "query"}, NEW to \in {"round", "page"},
           Moves(t, from, to), Count(t), UNCHANGED allExitFlag
    PROVE  Counted'
<1>1. thr' = [thr EXCEPT ![t] = to] /\ thr[t] = from
  BY DEF Moves
<1>2. begun' = [begun EXCEPT ![t] = IF allExitFlag THEN begun[t] + 1 ELSE begun[t]]
  BY DEF Count
<1>3. begun[t] = 0
  BY <1>1 DEF Counted
<1>4. begun'[t] = 1 => allExitFlag
  BY <1>2, <1>3 DEF Counted
<1>5. begun' \in [Threads -> {0, 1}]
  BY <1>2, <1>3 DEF Counted
<1>. QED  BY <1>1, <1>2, <1>4, <1>5 DEF Counted, ThreadPlaces

\* Every step keeps the count of pieces begun after the flag (Counted).
LEMMA CountedStep == FlagsSet /\ Counted /\ [Next]_vars => Counted'
<1>. SUFFICES ASSUME FlagsSet, Counted, [Next]_vars
              PROVE  Counted'
  OBVIOUS
<1>0. allExitFlag => allExitFlag'
  BY FlagStays
<1>1. CASE UNCHANGED <<thr, begun>>
  BY <1>0, <1>1 DEF Counted
<1>2. CASE MainStep \/ EpollEvents
  <2>1. CASE loaddb
    BY <1>0, <2>1 DEF loaddb, Counted, ThreadPlaces
  <2>2. CASE StartWorker
    BY <1>0, <2>2 DEF StartWorker, Counted, ThreadPlaces
  <2>3. CASE ~loaddb /\ ~StartWorker
    <3>1. UNCHANGED <<thr, begun>>
      BY <1>2, <2>3 DEF MainStep, Fork, Setsid, CloseFiles, Reopen, InstallHandlers,
         OpenConfig, file_to_items, readConfigFile, NewMap, DataBaseIni, DeleteFunctor, NewManager, Started, createListener,
         initialize, While, GetEvents, EpollTimeout, Dispatch, TestHup, Restart, EpollEvents,
         DestroyManager, DestroyCond, DestroyMap, ExitProcess, Loop, threadVars
    <3>. QED  BY <1>1, <3>1
  <2>. QED  BY <2>1, <2>2, <2>3
<1>3. ASSUME NEW t \in Threads, Run(t)
      PROVE  Counted'
  <2>. USE DEF Quietly, ThreadPlaces
  <2>1. CASE RunTests(t) \/ RunCond(t) \/ RunWakes(t)
    BY <2>1, CountedMove DEF RunTests, RunCond, RunWakes
  <2>2. CASE RunTestsAgain(t)
    BY <2>2, CountedMove DEF RunTestsAgain
  <2>3. CASE RunBegins(t)
    BY <2>3, CountedBegin DEF RunBegins, flagVars
  <2>4. CASE RunEnds(t)
    BY <2>4, CountedMove DEF RunEnds
  <2>. QED  BY <1>3, <2>1, <2>2, <2>3, <2>4 DEF Run
<1>4. CASE LoaderStep
  <2>. USE DEF Quietly, ThreadPlaces
  <2>0. 0 \in Threads
    BY ThreadsAssumption DEF Threads
  <2>1. CASE ReadFunctor
    BY <1>1, <2>0, <2>1, CountedMove DEF ReadFunctor
  <2>2. CASE LoaderLinked \/ LoaderTests
    BY <2>0, <2>2, CountedMove DEF LoaderLinked, LoaderTests
  <2>3. CASE LoaderQueries
    BY <2>0, <2>3, CountedMove, CountedBegin DEF LoaderQueries, flagVars
  <2>4. CASE LoaderPageEnds
    BY <2>0, <2>4, CountedMove DEF LoaderPageEnds
  <2>5. CASE LoaderDisconnects
    BY <1>0, <2>0, <2>5 DEF LoaderDisconnects, Counted
  <2>. QED  BY <1>4, <2>1, <2>2, <2>3, <2>4, <2>5 DEF LoaderStep
<1>5. ASSUME NEW term \in BOOLEAN, Signal(term)
      PROVE  Counted'
  BY <1>1, <1>5 DEF Signal, threadVars
<1>6. CASE Over \/ UNCHANGED vars
  BY <1>1, <1>6 DEF Over, vars, threadVars
<1>. QED  BY <1>2, <1>3, <1>4, <1>5, <1>6 DEF Next

(* CclientManager.cpp:303-374, dbdo.cpp:134: no thread, however many there *)
(* are, begins more than one piece of work after allExitFlag was set.      *)
THEOREM OneMorePieceCorrect == Spec => []OneMorePiece
<1>1. Init => Counted
  BY DEF Init, Counted, ThreadPlaces
<1>2. Counted => OneMorePiece
  BY DEF Counted, OneMorePiece
<1>. QED  BY <1>1, <1>2, FlagInvariant, CountedStep, PTL DEF Spec

-----------------------------------------------------------------------------
(* Descriptors                                                             *)

(***************************************************************************)
(* Before the descriptors are closed the process has none of its own; then *)
(* 0, 1 and 2 are occupied, and are not freed again: syslog, whose number  *)
(* may be one of them, takes the one it closes.                            *)
(***************************************************************************)
Occupied ==
    /\ fdt \in [Fds -> FdKinds]
    /\ pc \in BeforeClose => \A f \in Fds : fdt[f] \notin {"db", "listen", "epoll"}
    /\ pc = "reopen" => \A f \in Fds : fdt[f] = "free"
    /\ pc = "signal" => \A f \in Std : fdt[f] = "null"
    /\ pc \notin BeforeClose \union {"reopen", "signal"} => \A f \in Std : fdt[f] \in {"null", "log"}

\* 0, 1 and 2 are descriptors of the model.
LEMMA StdFds == Std \subseteq Fds
BY FdAssumption DEF Std, Fds

\* Opening takes one free descriptor and leaves the others (Opened).
LEMMA OpenedKeeps ==
    ASSUME NEW table \in [Fds -> FdKinds], NEW kind \in FdKinds, NEW new \in Opened(table, kind)
    PROVE  /\ new \in [Fds -> FdKinds]
           /\ \A f \in Fds : new[f] = table[f] \/ (table[f] = "free" /\ new[f] = kind)
BY DEF Opened, IsLowest

\* log_msg opens nothing but a log.
LEMMA LogKeeps ==
    ASSUME fdt \in [Fds -> FdKinds], log_msg
    PROVE  /\ fdt' \in [Fds -> FdKinds]
           /\ \A f \in Fds : fdt'[f] \in {fdt[f], "free", "log"}
<1>1. CASE UNCHANGED fdt
  BY <1>1
<1>2. CASE ~UNCHANGED fdt
  <2>. DEFINE unlogged == [f \in Fds |-> IF f = logfd THEN "free" ELSE fdt[f]]
  <2>1. fdt' \in Opened(unlogged, "log")
    BY <1>2 DEF log_msg
  <2>2. unlogged \in [Fds -> FdKinds] /\ "log" \in FdKinds
    BY DEF FdKinds
  <2>3. \A f \in Fds : unlogged[f] \in {fdt[f], "free"}
    OBVIOUS
  <2>. HIDE DEF unlogged
  <2>. QED  BY <2>1, <2>2, <2>3, OpenedKeeps
<1>. QED  BY <1>1, <1>2

\* The log's number, if it is 0, 1 or 2, is the only one of them that is free.
LEMMA LogRefills ==
    ASSUME fdt \in [Fds -> FdKinds], \A f \in Std : fdt[f] = "null", log_msg
    PROVE  \A f \in Std : fdt'[f] \in {"null", "log"}
<1>1. CASE UNCHANGED fdt
  BY <1>1
<1>2. CASE ~UNCHANGED fdt
  <2>. DEFINE unlogged == [f \in Fds |-> IF f = logfd THEN "free" ELSE fdt[f]]
  <2>1. fdt' \in Opened(unlogged, "log")
    BY <1>2 DEF log_msg
  <2>2. PICK g \in Fds : IsLowest(g, unlogged) /\ fdt' = [unlogged EXCEPT ![g] = "log"]
    BY <2>1 DEF Opened
  <2>. SUFFICES ASSUME NEW f \in Std
                PROVE  fdt'[f] \in {"null", "log"}
    OBVIOUS
  <2>3. f \in Fds /\ f \in Nat
    BY StdFds DEF Std
  <2>4. CASE f # logfd
    BY <2>2, <2>3, <2>4
  <2>5. CASE f = logfd
    <3>1. unlogged[f] = "free" /\ \A h \in Std : h # f => unlogged[h] # "free"
      BY <2>3, <2>5, StdFds
    <3>2. g \in Nat /\ unlogged[g] = "free" /\ \A h \in 0..(g - 1) : unlogged[h] # "free"
      BY <2>2 DEF IsLowest, Fds
    <3>3. g = f
      <4>1. ~(f < g)
        <5>. SUFFICES ASSUME f < g
                      PROVE  FALSE
          OBVIOUS
        <5>1. f \in 0..(g - 1)
          BY <2>3, <3>2
        <5>. QED  BY <3>1, <3>2, <5>1
      <4>2. ~(g < f)
        <5>. SUFFICES ASSUME g < f
                      PROVE  FALSE
          OBVIOUS
        <5>1. g \in Std /\ g # f
          BY <2>3, <3>2 DEF Std
        <5>. QED  BY <3>1, <3>2, <5>1
      <4>. QED  BY <2>3, <3>2, <4>1, <4>2
    <3>. QED  BY <2>2, <2>3, <3>3
  <2>. QED  BY <2>4, <2>5
<1>. QED  BY <1>1, <1>2

\* Once 0, 1 and 2 are taken, whatever is opened is above them.
LEMMA OccupiedOpen ==
    ASSUME Occupied, pc \notin BeforeClose \union {"reopen", "signal"},
           pc' \notin BeforeClose \union {"reopen", "signal"},
           NEW kind \in FdKinds, fdt' \in Opened(fdt, kind) \union {fdt}
    PROVE  Occupied'
<1>1. CASE fdt' = fdt
  BY <1>1 DEF Occupied, BeforeClose
<1>2. CASE fdt' \in Opened(fdt, kind)
  <2>1. fdt' \in [Fds -> FdKinds]
    BY <1>2, OpenedKeeps DEF Occupied
  <2>2. \A f \in Std : fdt'[f] = fdt[f]
    BY <1>2, OpenedKeeps, StdFds DEF Occupied
  <2>. QED  BY <2>1, <2>2 DEF Occupied, BeforeClose
<1>. QED  BY <1>1, <1>2

\* Every step keeps the standard descriptors occupied (Occupied).
LEMMA OccupiedStep == Occupied /\ [Next]_vars => Occupied'
<1>. SUFFICES ASSUME Occupied, [Next]_vars
              PROVE  Occupied'
  OBVIOUS
<1>. USE DEF At, Goto, Ends, fdVars
<1>1. CASE Fork
  <2>1. UNCHANGED pc \/ (pc \in BeforeClose /\ pc' \in BeforeClose)
    BY <1>1 DEF Fork, BeforeClose
  <2>2. pc \in BeforeClose /\ log_msg
    BY <1>1 DEF Fork, BeforeClose
  <2>3. pc' \in BeforeClose
    BY <2>1, <2>2
  <2>4. /\ fdt' \in [Fds -> FdKinds]
        /\ \A f \in Fds : fdt'[f] \in {fdt[f], "free", "log"}
    BY <2>2, LogKeeps DEF Occupied
  <2>. QED  BY <2>2, <2>3, <2>4 DEF Occupied, BeforeClose
<1>2. CASE Setsid
  BY <1>2 DEF Setsid, Occupied, BeforeClose
<1>3. CASE CloseFiles
  BY <1>3 DEF CloseFiles, Occupied, BeforeClose, FdKinds
<1>4. CASE Reopen
  BY <1>4, StdFds DEF Reopen, Occupied, BeforeClose, FdKinds
<1>5. CASE InstallHandlers
  BY <1>5, LogKeeps, LogRefills DEF InstallHandlers, Occupied, BeforeClose
<1>6. CASE \/ OpenConfig \/ file_to_items \/ readConfigFile \/ NewMap
           \/ loaddb \/ DeleteFunctor \/ NewManager \/ StartWorker \/ Started
  BY <1>6 DEF OpenConfig, file_to_items, readConfigFile, NewMap, loaddb, DeleteFunctor, NewManager, StartWorker, Started,
     Occupied, BeforeClose
<1>7. CASE DataBaseIni
  <2>1. /\ pc \notin BeforeClose \union {"reopen", "signal"}
        /\ pc' \notin BeforeClose \union {"reopen", "signal"}
        /\ fdt' \in Opened(fdt, "db") \union {fdt}
    BY <1>7 DEF DataBaseIni, BeforeClose
  <2>. QED  BY <2>1, OccupiedOpen DEF FdKinds
<1>8. CASE createListener
  <2>1. /\ pc \notin BeforeClose \union {"reopen", "signal"}
        /\ pc' \notin BeforeClose \union {"reopen", "signal"}
        /\ fdt' \in Opened(fdt, "listen") \union {fdt}
    BY <1>8 DEF createListener, BeforeClose
  <2>. QED  BY <2>1, OccupiedOpen DEF FdKinds
<1>9. CASE initialize
  <2>1. /\ pc \notin BeforeClose \union {"reopen", "signal"}
        /\ pc' \notin BeforeClose \union {"reopen", "signal"}
        /\ fdt' \in Opened(fdt, "epoll") \union {fdt}
    BY <1>9 DEF initialize, BeforeClose
  <2>. QED  BY <2>1, OccupiedOpen DEF FdKinds
<1>10. CASE While \/ GetEvents \/ EpollTimeout \/ EpollEvents \/ Dispatch \/ TestHup \/ Restart
  BY <1>10 DEF While, GetEvents, EpollTimeout, EpollEvents, Dispatch, TestHup, Restart, Loop,
     Occupied, BeforeClose
<1>11. CASE DestroyManager \/ DestroyCond \/ DestroyMap \/ ExitProcess
  BY <1>11 DEF DestroyManager, DestroyCond, DestroyMap, ExitProcess, Occupied, BeforeClose
<1>12. ASSUME NEW t \in Threads, Run(t)
       PROVE  Occupied'
  <2>1. UNCHANGED <<fdt, pc>>
    BY <1>12 DEF Run, RunTests, RunCond, RunWakes, RunTestsAgain, RunBegins, RunEnds, Moves
  <2>. QED  BY <2>1 DEF Occupied
<1>13. CASE LoaderDisconnects
  BY <1>13, StdFds DEF LoaderDisconnects, Occupied, BeforeClose, FdKinds
<1>14. CASE ReadFunctor \/ LoaderLinked \/ LoaderTests \/ LoaderQueries \/ LoaderPageEnds
  <2>1. UNCHANGED <<fdt, pc>>
    BY <1>14 DEF ReadFunctor, LoaderLinked, LoaderTests, LoaderQueries, LoaderPageEnds, Moves
  <2>. QED  BY <2>1 DEF Occupied
<1>15. ASSUME NEW term \in BOOLEAN, Signal(term)
       PROVE  Occupied'
  BY <1>15 DEF Signal, Occupied, BeforeClose
<1>16. CASE Over \/ UNCHANGED vars
  BY <1>16 DEF Over, vars, Occupied
<1>. QED
  BY <1>1, <1>2, <1>3, <1>4, <1>5, <1>6, <1>7, <1>8, <1>9, <1>10, <1>11, <1>12, <1>13, <1>14,
     <1>15, <1>16 DEF Next, MainStep, LoaderStep

(* become_daemon.cpp:70-99, SelEpolKqEvPrt.cpp:198: on every host, with    *)
(* and without a log daemon, no socket of the daemon and no epoll is ever  *)
(* descriptor 0, 1 or 2.                                                   *)
THEOREM SocketsAboveStdCorrect == Spec => []SocketsAboveStd
<1>1. Init => Occupied
  BY DEF Init, Occupied, BeforeClose, FdKinds
<1>2. Occupied => SocketsAboveStd
  BY StdFds DEF Occupied, SocketsAboveStd, BeforeClose, Std
<1>. QED  BY <1>1, <1>2, OccupiedStep, PTL DEF Spec

-----------------------------------------------------------------------------
(* The configuration                                                       *)

\* A configuration file is a sequence of lines.
LEMMA FileLines ==
    ASSUME NEW f \in Files
    PROVE  /\ Len(f) \in Nat
           /\ \A j \in 1..Len(f) : f[j] \in Line
BY FilesAssumption

\* What a line says is a number or a word.
LEMMA LineFields ==
    ASSUME NEW line \in Line
    PROVE  line.value \in Int \union {Word}
BY DEF Line

(***************************************************************************)
(* The map of a reader holds, for each name met so far, what the first     *)
(* line of this name says; it is used when the file was not opened or read *)
(* to its end.                                                             *)
(***************************************************************************)
MapOfLines ==
    /\ file \in Files
    /\ lines \in 0..Len(file)
    /\ kvmap \in [DOMAIN kvmap -> Int \union {Word}]
    /\ \A name \in DOMAIN kvmap :
          \E j \in 1..lines : SaysFirst(file, j, name) /\ kvmap[name] = file[j].value
    /\ \A j \in 1..lines : file[j].kind = "item" => file[j].name \in DOMAIN kvmap

ReadWhole ==
    /\ pc = "settings" => lines \in {0, Len(file)}
    /\ pc \notin {"lines", "settings"} => lines = 0

\* A name has one first line.
LEMMA FirstLineUnique ==
    ASSUME NEW f, NEW name, NEW j \in Nat \ {0}, NEW k \in Nat \ {0},
           SaysFirst(f, j, name), SaysFirst(f, k, name)
    PROVE  j = k
<1>1. ~(j < k)
  <2>. SUFFICES ASSUME j < k
                PROVE  FALSE
    OBVIOUS
  <2>1. j \in 1..(k - 1)
    OBVIOUS
  <2>. QED  BY <2>1 DEF SaysFirst
<1>2. ~(k < j)
  <2>. SUFFICES ASSUME k < j
                PROVE  FALSE
    OBVIOUS
  <2>1. k \in 1..(j - 1)
    OBVIOUS
  <2>. QED  BY <2>1 DEF SaysFirst
<1>. QED  BY <1>1, <1>2

\* The map of the whole file says what the reference says.
LEMMA MapIsReference ==
    ASSUME MapOfLines, lines = Len(file), NEW name
    PROVE  /\ name \notin DOMAIN kvmap => Written(file, name) = {}
           /\ name \in DOMAIN kvmap => Written(file, name) = {Taken(name, kvmap[name])}
<1>0. Len(file) \in Nat
  BY FileLines DEF MapOfLines
<1>1. ASSUME name \notin DOMAIN kvmap
      PROVE  Written(file, name) = {}
  <2>1. \A j \in 1..Len(file) : ~SaysFirst(file, j, name)
    BY <1>1 DEF MapOfLines, SaysFirst
  <2>. QED  BY <2>1 DEF Written
<1>2. ASSUME name \in DOMAIN kvmap
      PROVE  Written(file, name) = {Taken(name, kvmap[name])}
  <2>1. PICK j \in 1..Len(file) : SaysFirst(file, j, name) /\ kvmap[name] = file[j].value
    BY <1>2 DEF MapOfLines
  <2>2. \A k \in 1..Len(file) : SaysFirst(file, k, name) => k = j
    BY <1>0, <2>1, FirstLineUnique
  <2>3. {k \in 1..Len(file) : SaysFirst(file, k, name)} = {j}
    BY <2>1, <2>2
  <2>4. Written(file, name) = {Taken(name, file[j].value)}
    BY <2>3 DEF Written
  <2>. QED  BY <2>1, <2>4
<1>. QED  BY <1>1, <1>2

\* Another line is put into the map.
LEMMA MapOfNextLine ==
    ASSUME MapOfLines, lines < Len(file),
           kvmap' = get_item_from_line(kvmap, file[lines + 1]),
           lines' = lines + 1, file' = file
    PROVE  MapOfLines'
<1>. DEFINE line == file[lines + 1]
<1>1. Len(file) \in Nat /\ lines \in Nat /\ lines + 1 \in 1..Len(file)
  BY FileLines DEF MapOfLines
<1>2. line \in Line /\ line.value \in Int \union {Word}
  BY <1>1, FileLines, LineFields DEF MapOfLines
<1>3. /\ 1..(lines + 1) = (1..lines) \union {lines + 1}
      /\ lines' \in 0..Len(file)
  BY <1>1
<1>. SUFFICES /\ kvmap' \in [DOMAIN kvmap' -> Int \union {Word}]
              /\ \A name \in DOMAIN kvmap' :
                    \E j \in 1..(lines + 1) :
                       SaysFirst(file, j, name) /\ kvmap'[name] = file[j].value
              /\ \A j \in 1..(lines + 1) :
                    file[j].kind = "item" => file[j].name \in DOMAIN kvmap'
  BY <1>3 DEF MapOfLines
<1>. HIDE DEF line
<1>4. CASE line.kind # "item"
  <2>1. kvmap' = kvmap
    BY <1>4 DEF get_item_from_line, line
  <2>. QED  BY <1>3, <1>4, <2>1 DEF MapOfLines, line
<1>5. CASE line.kind = "item"
  <2>1. kvmap' = [k \in DOMAIN kvmap \union {line.name} |->
                     IF k \in DOMAIN kvmap THEN kvmap[k] ELSE line.value]
    BY <1>5 DEF get_item_from_line, line
  <2>2. DOMAIN kvmap' = DOMAIN kvmap \union {line.name}
    BY <2>1
  <2>3. kvmap' \in [DOMAIN kvmap' -> Int \union {Word}]
    BY <1>2, <2>1, <2>2 DEF MapOfLines
  <2>4. ASSUME NEW name \in DOMAIN kvmap'
        PROVE  \E j \in 1..(lines + 1) :
                  SaysFirst(file, j, name) /\ kvmap'[name] = file[j].value
    <3>1. CASE name \in DOMAIN kvmap
      <4>1. kvmap'[name] = kvmap[name]
        BY <2>1, <3>1
      <4>. QED  BY <1>3, <3>1, <4>1 DEF MapOfLines
    <3>2. CASE name \notin DOMAIN kvmap
      <4>1. name = line.name /\ kvmap'[name] = line.value
        BY <2>1, <2>2, <3>2
      <4>2. \A j \in 1..((lines + 1) - 1) : file[j].kind = "item" => file[j].name # name
        BY <1>1, <3>2 DEF MapOfLines
      <4>3. SaysFirst(file, lines + 1, name)
        BY <1>5, <4>1, <4>2 DEF SaysFirst, line
      <4>. QED  BY <1>3, <4>1, <4>3 DEF line
    <3>. QED  BY <3>1, <3>2
  <2>5. \A j \in 1..(lines + 1) : file[j].kind = "item" => file[j].name \in DOMAIN kvmap'
    BY <1>3, <2>2 DEF MapOfLines, line
  <2>. QED  BY <2>3, <2>4, <2>5
<1>. QED  BY <1>4, <1>5

Value == Int \union {Word}

\* A default is a number or a word.
LEMMA DefaultType == \A name : Default(name) \in Value
BY DEF Default, Value

\* The conversion to unsigned gives a natural number.
LEMMA Remainder ==
    ASSUME NEW a \in Int, NEW b \in Nat, b # 0
    PROVE  a % b \in Nat
<1>1. b > 0
  OBVIOUS
<1>2. 0 <= a % b /\ a % b < b
  BY <1>1
<1>. QED  BY <1>2

\* What is taken from a line is a number or a word, a number for MAX_WORKER.
LEMMA TakenType ==
    ASSUME NEW name, NEW value \in Value
    PROVE  /\ Taken(name, value) \in Value
           /\ name = "MAX_WORKER" => Taken(name, value) \in Nat
<1>1. atoi(value) \in Int
  BY DEF atoi, Value
<1>2. atoi(value) % UIntRange \in Nat
  BY <1>1, UIntAssumption, Remainder, Zenon
<1>3. CASE name \in Unsigned
  <2>0. name \notin Signed
    BY <1>3 DEF Signed, Unsigned
  <2>1. Taken(name, value) = atoi(value) % UIntRange
    BY <1>3, <2>0 DEF Taken
  <2>2. \A k \in Nat : k \in Value
    BY DEF Value
  <2>. QED  BY <1>2, <2>1, <2>2, Zenon
<1>4. CASE name \notin Unsigned
  BY <1>1, <1>4 DEF Taken, Value, Unsigned
<1>. QED  BY <1>3, <1>4

\* The same of a setting, from the file or by default.
LEMMA SettingType ==
    ASSUME MapOfLines, NEW name
    PROVE  /\ Setting(kvmap, name) \in Value
           /\ name = "MAX_WORKER" => Setting(kvmap, name) \in Nat
<1>1. CASE name \in DOMAIN kvmap
  <2>1. kvmap[name] \in Value
    BY <1>1 DEF MapOfLines, Value
  <2>. QED  BY <1>1, <2>1, TakenType DEF Setting
<1>2. CASE name \notin DOMAIN kvmap
  BY <1>2, DefaultType DEF Setting, Default
<1>. QED  BY <1>1, <1>2

\* What a reader took is what the file says, or the defaults.
FromFile(names) ==
    \/ \A name \in names : settings[name] = Default(name)
    \/ \A name \in names : AsWritten(name)

SettingsRead ==
    /\ reader \in Readers
    /\ settings \in [Names -> Value]
    /\ settings["MAX_WORKER"] \in Nat
    /\ \A r \in Readers : FromFile(Asked(r))

\* The loop of start has not passed the setting, and ends with it.
WorkersStarted ==
    /\ started \in 0..MaxThreads
    /\ pc \in Starting \ {"start"} => started = 0
    /\ pc = "start" => started <= settings["MAX_WORKER"]
    /\ pc \notin Starting => started = settings["MAX_WORKER"]

ConfigInv == MapOfLines /\ ReadWhole /\ SettingsRead /\ WorkersStarted

\* The settings include all that the readers ask for.
LEMMA WorkerAsked == "MAX_WORKER" \in Names /\ \A r \in Readers : Asked(r) \subseteq Names
BY DEF Names, Readers, Asked

\* The readers ask for different names.
LEMMA ReadersApart ==
    ASSUME NEW r \in Readers, NEW s \in Readers, r # s
    PROVE  Asked(r) \intersect Asked(s) = {}
BY DEF Readers, Asked

\* A step that leaves the configuration and the number of workers alone, and
\* main where it is or on the same side of each of its places.
Elsewhere ==
    /\ UNCHANGED <<cfgVars, started>>
    /\ pc = "settings" <=> pc' = "settings"
    /\ pc \in {"lines", "settings"} <=> pc' \in {"lines", "settings"}
    /\ pc \in Starting \ {"start"} <=> pc' \in Starting \ {"start"}
    /\ pc \in Starting <=> pc' \in Starting

\* Such a step keeps the invariant of the configuration.
LEMMA ElsewhereStep == ConfigInv /\ Elsewhere => ConfigInv'
<1>. SUFFICES ASSUME ConfigInv, Elsewhere
              PROVE  ConfigInv'
  OBVIOUS
<1>1. MapOfLines'
  BY DEF ConfigInv, Elsewhere, cfgVars, MapOfLines, SaysFirst
<1>2. ReadWhole'
  BY DEF ConfigInv, Elsewhere, cfgVars, ReadWhole
<1>3. SettingsRead'
  BY DEF ConfigInv, Elsewhere, cfgVars, SettingsRead, FromFile, AsWritten
<1>4. WorkersStarted'
  <2>1. UNCHANGED <<started, settings>>
    BY DEF Elsewhere, cfgVars
  <2>2. "start" \in Starting
    BY DEF Starting
  <2>3. pc' = "start" => pc = "start"
    BY <2>2 DEF Elsewhere
  <2>. QED  BY <2>1, <2>3 DEF ConfigInv, Elsewhere, WorkersStarted
<1>. QED  BY <1>1, <1>2, <1>3, <1>4 DEF ConfigInv

\* All other steps are elsewhere.
LEMMA ElsewhereOr ==
    ASSUME [Next]_vars
    PROVE  \/ OpenConfig \/ file_to_items \/ readConfigFile \/ NewMap
           \/ NewManager \/ StartWorker \/ Started
           \/ Elsewhere
<1>. USE DEF Elsewhere, At, Goto, Ends, Starting
<1>1. CASE Fork \/ Setsid \/ CloseFiles \/ Reopen \/ InstallHandlers
  BY <1>1 DEF Fork, Setsid, CloseFiles, Reopen, InstallHandlers, threadVars
<1>2. CASE DataBaseIni \/ loaddb \/ DeleteFunctor
  BY <1>2 DEF DataBaseIni, loaddb, DeleteFunctor, threadVars
<1>3. CASE createListener \/ initialize
  BY <1>3 DEF createListener, initialize, threadVars
<1>4. CASE While \/ GetEvents \/ EpollTimeout \/ EpollEvents \/ Dispatch \/ TestHup \/ Restart
  BY <1>4 DEF While, GetEvents, EpollTimeout, EpollEvents, Dispatch, TestHup, Restart, Loop,
     threadVars
<1>5. CASE DestroyManager \/ DestroyCond \/ DestroyMap \/ ExitProcess
  BY <1>5 DEF DestroyManager, DestroyCond, DestroyMap, ExitProcess, threadVars
<1>6. CASE (\E t \in Threads : Run(t)) \/ LoaderStep
  <2>1. UNCHANGED <<pc, cfgVars, started>>
    BY <1>6 DEF Run, RunTests, RunCond, RunWakes, RunTestsAgain, RunBegins, RunEnds, LoaderStep,
       ReadFunctor, LoaderLinked, LoaderTests, LoaderQueries, LoaderPageEnds,
       LoaderDisconnects, Moves
  <2>. QED  BY <2>1
<1>7. ASSUME NEW term \in BOOLEAN, Signal(term)
      PROVE  Elsewhere
  BY <1>7 DEF Signal, threadVars
<1>8. CASE Over \/ UNCHANGED vars
  BY <1>8 DEF Over, vars, threadVars
<1>. QED
  BY <1>1, <1>2, <1>3, <1>4, <1>5, <1>6, <1>7, <1>8 DEF Next, MainStep

\* Every step keeps the invariant of the configuration.
LEMMA ConfigStep == ConfigInv /\ [Next]_vars => ConfigInv'
<1>. SUFFICES ASSUME ConfigInv, [Next]_vars
              PROVE  ConfigInv'
  OBVIOUS
<1>1. CASE OpenConfig
  <2>1. UNCHANGED <<cfgVars, started>> /\ pc = "config"
    BY <1>1 DEF OpenConfig, At, threadVars
  <2>2. pc' \in {"config", "lines", "settings"}
    BY <1>1, <2>1 DEF OpenConfig, Goto, Ends
  <2>3. MapOfLines' /\ SettingsRead'
    BY <2>1 DEF ConfigInv, cfgVars, MapOfLines, SaysFirst, SettingsRead, FromFile, AsWritten
  <2>4. ReadWhole' /\ WorkersStarted'
    BY <2>1, <2>2 DEF ConfigInv, ReadWhole, WorkersStarted, Starting, cfgVars
  <2>. QED  BY <2>3, <2>4 DEF ConfigInv
<1>2. CASE file_to_items
  <2>1. UNCHANGED <<file, reader, settings, started>> /\ pc = "lines"
    BY <1>2 DEF file_to_items, At, threadVars
  <2>2. SettingsRead'
    BY <2>1 DEF ConfigInv, SettingsRead, FromFile, AsWritten
  <2>3. pc' \in {"lines", "settings"} /\ WorkersStarted'
    BY <1>2, <2>1 DEF file_to_items, Goto, Ends, ConfigInv, WorkersStarted, Starting
  <2>4. CASE UNCHANGED <<lines, kvmap>> /\ (pc' = "settings" => lines = Len(file))
    <3>1. MapOfLines'
      BY <2>1, <2>4 DEF ConfigInv, MapOfLines, SaysFirst
    <3>2. ReadWhole'
      BY <2>1, <2>3, <2>4 DEF ReadWhole
    <3>. QED  BY <2>2, <2>3, <3>1, <3>2 DEF ConfigInv
  <2>5. CASE /\ lines < Len(file) /\ lines' = lines + 1 /\ pc' = pc
             /\ kvmap' = get_item_from_line(kvmap, file[lines + 1])
    <3>1. MapOfLines'
      BY <2>1, <2>5, MapOfNextLine DEF ConfigInv
    <3>2. ReadWhole'
      BY <2>1, <2>5 DEF ReadWhole
    <3>. QED  BY <2>2, <2>3, <3>1, <3>2 DEF ConfigInv
  <2>. QED  BY <1>2, <2>1, <2>4, <2>5 DEF file_to_items, Goto, Ends
<1>3. CASE readConfigFile
  <2>1. /\ pc = "settings" /\ pc' \in {"newmap", "database"}
        /\ UNCHANGED <<file, reader, started>> /\ lines' = 0 /\ kvmap' = NoItems
        /\ settings' = [name \in Names |->
                          IF name \in Asked(reader) THEN Setting(kvmap, name) ELSE settings[name]]
    BY <1>3 DEF readConfigFile, At, Goto, threadVars
  <2>2. MapOfLines' /\ ReadWhole'
    BY <2>1, FileLines DEF ConfigInv, MapOfLines, ReadWhole, NoItems
  <2>3. settings' \in [Names -> Value] /\ settings'["MAX_WORKER"] \in Nat
    BY <2>1, SettingType, WorkerAsked DEF ConfigInv, SettingsRead
  <2>4. ASSUME NEW r \in Readers
        PROVE  FromFile(Asked(r))'
    <3>1. CASE r # reader
      <4>1. \A name \in Asked(r) : settings'[name] = settings[name]
        BY <2>1, <3>1, ReadersApart, WorkerAsked DEF ConfigInv, SettingsRead
      <4>. QED  BY <2>1, <4>1 DEF ConfigInv, SettingsRead, FromFile, AsWritten
    <3>2. CASE r = reader
      <4>1. \A name \in Asked(r) : settings'[name] = Setting(kvmap, name)
        BY <2>1, <3>2, WorkerAsked
      <4>2. CASE lines = 0
        <5>1. DOMAIN kvmap = {}
          BY <4>2 DEF ConfigInv, MapOfLines
        <5>2. \A name \in Asked(r) : settings'[name] = Default(name)
          BY <4>1, <5>1 DEF Setting
        <5>. QED  BY <5>2 DEF FromFile
      <4>3. CASE lines = Len(file)
        <5>1. ASSUME NEW name \in Asked(r)
              PROVE  AsWritten(name)'
          <6>1. CASE name \in DOMAIN kvmap
            <7>1. Written(file, name) = {settings'[name]}
              BY <4>1, <4>3, <6>1, MapIsReference DEF ConfigInv, Setting
            <7>. QED  BY <2>1, <7>1 DEF AsWritten
          <6>2. CASE name \notin DOMAIN kvmap
            <7>1. Written(file, name) = {} /\ settings'[name] = Default(name)
              BY <4>1, <4>3, <6>2, MapIsReference DEF ConfigInv, Setting
            <7>. QED  BY <2>1, <7>1 DEF AsWritten
          <6>. QED  BY <6>1, <6>2
        <5>. QED  BY <5>1 DEF FromFile, Asked
      <4>. QED  BY <2>1, <4>2, <4>3 DEF ConfigInv, ReadWhole
    <3>. QED  BY <3>1, <3>2
  <2>5. SettingsRead'
    BY <2>1, <2>3, <2>4 DEF ConfigInv, SettingsRead
  <2>6. WorkersStarted'
    BY <2>1, ThreadsAssumption DEF ConfigInv, WorkersStarted, Starting
  <2>. QED  BY <2>2, <2>5, <2>6 DEF ConfigInv
<1>4. CASE NewMap
  <2>1. /\ UNCHANGED <<file, lines, kvmap, settings, started>> /\ reader' = "Cdbdo"
        /\ pc = "newmap" /\ pc' = "config"
    BY <1>4 DEF NewMap, At, Goto, threadVars
  <2>2. MapOfLines' /\ SettingsRead'
    BY <2>1 DEF ConfigInv, MapOfLines, SaysFirst, SettingsRead, FromFile, AsWritten, Readers
  <2>3. ReadWhole' /\ WorkersStarted'
    BY <2>1 DEF ConfigInv, ReadWhole, WorkersStarted, Starting
  <2>. QED  BY <2>2, <2>3 DEF ConfigInv
<1>5. CASE NewManager \/ StartWorker \/ Started
  <2>1. /\ UNCHANGED cfgVars /\ pc \notin {"lines", "settings"} /\ pc' \notin {"lines", "settings"}
    BY <1>5 DEF NewManager, StartWorker, Started, At, Goto, Ends
  <2>2. MapOfLines' /\ ReadWhole' /\ SettingsRead'
    BY <2>1 DEF ConfigInv, cfgVars, MapOfLines, SaysFirst, ReadWhole, SettingsRead, FromFile,
       AsWritten
  <2>3. settings' = settings /\ settings["MAX_WORKER"] \in Nat
    BY <2>1 DEF cfgVars, ConfigInv, SettingsRead
  <2>4. CASE NewManager
    <3>1. started = 0 /\ started' = 0 /\ pc' = "start"
      BY <2>4 DEF NewManager, At, Goto, threadVars, ConfigInv, WorkersStarted, Starting
    <3>. QED  BY <2>2, <2>3, <3>1, ThreadsAssumption
       DEF ConfigInv, WorkersStarted, Starting
  <2>5. CASE StartWorker
    BY <2>2, <2>3, <2>5, ThreadsAssumption
       DEF StartWorker, At, Ends, ConfigInv, WorkersStarted, Starting
  <2>6. CASE Started
    BY <2>2, <2>3, <2>6, ThreadsAssumption
       DEF Started, At, Goto, threadVars, ConfigInv, WorkersStarted, Starting
  <2>. QED  BY <1>5, <2>2, <2>4, <2>5, <2>6 DEF ConfigInv
<1>6. CASE Elsewhere
  BY <1>6, ElsewhereStep
<1>. QED  BY <1>1, <1>2, <1>3, <1>4, <1>5, <1>6, ElsewhereOr

\* What is read of the file, and the workers started, at every place of main.
LEMMA ConfigInvariant == Spec => []ConfigInv
<1>1. Init => ConfigInv
  <2>. SUFFICES ASSUME Init
                PROVE  ConfigInv
    OBVIOUS
  <2>1. MapOfLines
    BY FileLines DEF Init, MapOfLines, NoItems
  <2>2. ReadWhole
    BY DEF Init, ReadWhole
  <2>3. settings = [name \in Names |-> Default(name)]
    BY DEF Init
  <2>4. SettingsRead
    <3>1. settings \in [Names -> Value] /\ reader \in Readers
      BY <2>3, DefaultType DEF Init, Readers
    <3>2. settings["MAX_WORKER"] \in Nat
      BY <2>3, WorkerAsked DEF Default
    <3>3. \A r \in Readers : FromFile(Asked(r))
      BY <2>3, WorkerAsked DEF FromFile
    <3>. QED  BY <3>1, <3>2, <3>3 DEF SettingsRead
  <2>5. WorkersStarted
    BY ThreadsAssumption DEF Init, WorkersStarted, Starting
  <2>. QED  BY <2>1, <2>2, <2>4, <2>5 DEF ConfigInv
<1>. QED  BY <1>1, ConfigStep, PTL DEF Spec

(* Ccfg.cpp:30-116, dbdo.cpp:367-428, tools.cpp:55-95, CclientManager.cpp: *)
(* 191-207: for every configuration file, whichever of the two readers     *)
(* finds it: the daemon that listens has as many workers as its settings   *)
(* say, and the settings are those of the first lines of their names.      *)
THEOREM WorkersAsConfiguredCorrect == Spec => []WorkersAsConfigured
<1>1. ConfigInv => WorkersAsConfigured
  BY DEF ConfigInv, WorkersAsConfigured, WorkersStarted, SettingsRead, FromFile
<1>. QED  BY <1>1, ConfigInvariant, PTL

-----------------------------------------------------------------------------
(* Types                                                                   *)

\* What the other invariants do not speak of.
Places ==
    /\ pc \in MainPlaces
    /\ over \in {"no", "exit", "killed", "crashed"}
    /\ host \in Hosts
    /\ logfd \in Fds \union {-1}
    /\ functor \in {"none", "loader", "freed", "worker"}
    /\ manager \in {"none", "live", "destroyed"}
    /\ mapinfo \in {"none", "live", "destroyed"}

\* What signals and failures set.
SignalTypes ==
    /\ hupmReceived \in BOOLEAN /\ failed \in BOOLEAN
    /\ signals \in 0..MaxSignals

\* A message leaves syslog without a descriptor or with one.
LEMMA LogType == logfd \in Fds \union {-1} /\ log_msg => logfd' \in Fds \union {-1}
BY DEF log_msg

\* Every step leaves main, the process and its objects at places they have.
LEMMA PlacesStep == Places /\ [Next]_vars => Places'
<1>. SUFFICES ASSUME Places, [Next]_vars
              PROVE  Places'
  OBVIOUS
<1>. USE DEF Places, MainPlaces, At, Goto, Ends
<1>1. CASE Fork \/ InstallHandlers
  <2>1. logfd' \in Fds \union {-1}
    BY <1>1, LogType DEF Fork, InstallHandlers
  <2>. QED  BY <1>1, <2>1 DEF Fork, InstallHandlers, threadVars, objVars
<1>2. CASE \/ Setsid \/ CloseFiles \/ Reopen \/ OpenConfig \/ file_to_items \/ readConfigFile
           \/ NewMap \/ DataBaseIni
  BY <1>2 DEF Setsid, CloseFiles, Reopen, OpenConfig, file_to_items, readConfigFile, NewMap,
     DataBaseIni, fdVars, threadVars, objVars
<1>3. CASE \/ loaddb \/ DeleteFunctor \/ NewManager \/ StartWorker \/ Started
           \/ createListener \/ initialize
  BY <1>3 DEF loaddb, DeleteFunctor, NewManager, StartWorker, Started, createListener,
     initialize, fdVars, threadVars, objVars
<1>4. CASE While \/ GetEvents \/ EpollTimeout \/ EpollEvents \/ Dispatch \/ TestHup \/ Restart
  BY <1>4 DEF While, GetEvents, EpollTimeout, EpollEvents, Dispatch, TestHup, Restart, Loop,
     fdVars, threadVars, objVars
<1>5. CASE DestroyManager \/ DestroyCond \/ DestroyMap \/ ExitProcess
  BY <1>5 DEF DestroyManager, DestroyCond, DestroyMap, ExitProcess, fdVars, threadVars, objVars
<1>6. CASE (\E t \in Threads : Run(t)) \/ LoaderStep
  BY <1>6 DEF Run, RunTests, RunCond, RunWakes, RunTestsAgain, RunBegins, RunEnds, LoaderStep,
     ReadFunctor, LoaderLinked, LoaderTests, LoaderQueries, LoaderPageEnds,
     LoaderDisconnects, Moves, fdVars, objVars
<1>7. ASSUME NEW term \in BOOLEAN, Signal(term)
      PROVE  Places'
  BY <1>7 DEF Signal, fdVars, threadVars, objVars
<1>8. CASE Over \/ UNCHANGED vars
  BY <1>8 DEF Over, vars, fdVars, threadVars, objVars
<1>. QED
  BY <1>1, <1>2, <1>3, <1>4, <1>5, <1>6, <1>7, <1>8 DEF Next, MainStep

\* Every step keeps the types of what signals and failures set.
LEMMA SignalTypesStep == SignalTypes /\ [Next]_vars => SignalTypes'
<1>. SUFFICES ASSUME SignalTypes, [Next]_vars
              PROVE  SignalTypes'
  OBVIOUS
<1>0. ASSUME UNCHANGED <<hupmReceived, signals>>, failed' = TRUE \/ UNCHANGED failed
      PROVE  SignalTypes'
  BY <1>0, Zenon DEF SignalTypes
<1>. USE DEF flagVars, SetExit
<1>1. CASE TestHup
  BY <1>1 DEF TestHup, SignalTypes
<1>2. CASE (MainStep /\ ~TestHup) \/ EpollEvents
  <2>1. UNCHANGED <<hupmReceived, signals>> /\ (failed' = TRUE \/ UNCHANGED failed)
    BY <1>2 DEF MainStep, Fork, Setsid, CloseFiles, Reopen, InstallHandlers, OpenConfig,
       file_to_items, readConfigFile, NewMap, DataBaseIni, loaddb, DeleteFunctor, NewManager,
       StartWorker, Started, createListener, initialize, While, GetEvents, EpollTimeout,
       Dispatch, Restart, EpollEvents, DestroyManager, DestroyCond, DestroyMap, ExitProcess
  <2>. QED  BY <1>0, <2>1
<1>3. CASE (\E t \in Threads : Run(t)) \/ LoaderStep
  <2>1. UNCHANGED <<hupmReceived, signals>> /\ (failed' = TRUE \/ UNCHANGED failed)
    BY <1>3 DEF Run, RunTests, RunCond, RunWakes, RunTestsAgain, RunBegins, RunEnds, LoaderStep,
       ReadFunctor, LoaderLinked, LoaderTests, LoaderQueries, LoaderPageEnds,
       LoaderDisconnects, Quietly
  <2>. QED  BY <1>0, <2>1
<1>4. ASSUME NEW term \in BOOLEAN, Signal(term)
      PROVE  SignalTypes'
  <2>1. signals' \in 0..MaxSignals
    BY <1>4, SignalsAssumption DEF Signal, SignalTypes
  <2>2. failed' = failed /\ (hupmReceived' = hupmReceived \/ hupmReceived' = (hupmReceived \/ ~term))
    BY <1>4, Zenon DEF Signal
  <2>. QED  BY <2>1, <2>2, Zenon DEF SignalTypes
<1>5. CASE Over \/ UNCHANGED vars
  BY <1>5 DEF Over, vars, SignalTypes
<1>. QED  BY <1>1, <1>2, <1>3, <1>4, <1>5 DEF Next

(* gps.cpp:44-214, CclientManager.cpp:191-207, tools.cpp:78-95: the types  *)
(* of the process: among them that no worker is started beyond the threads *)
(* there can be, and no line read behind the end of the file.              *)
THEOREM LifecycleTypeCorrect == Spec => []TypeOK
<1>1. Init => Places /\ SignalTypes /\ Counted /\ Occupied
  <2>. SUFFICES ASSUME Init
                PROVE  Places /\ SignalTypes /\ Counted /\ Occupied
    OBVIOUS
  <2>1. Places
    BY DEF Init, Places, MainPlaces
  <2>2. SignalTypes
    <3>1. signals \in 0..MaxSignals
      BY SignalsAssumption DEF Init
    <3>. QED  BY <3>1, Zenon DEF Init, SignalTypes
  <2>3. Counted
    BY DEF Init, Counted, ThreadPlaces
  <2>4. Occupied
    BY DEF Init, Occupied, BeforeClose, FdKinds
  <2>. QED  BY <2>1, <2>2, <2>3, <2>4
<1>2. Places /\ SignalTypes /\ Counted /\ Occupied /\ FlagsSet /\ ConfigInv => TypeOK
  <2>. SUFFICES ASSUME Places, SignalTypes, Counted, Occupied, FlagsSet, ConfigInv
                PROVE  TypeOK
    OBVIOUS
  <2>1. /\ file \in Files /\ reader \in Readers /\ lines \in 0..Len(file)
        /\ kvmap \in [DOMAIN kvmap -> Int \union {Word}]
        /\ settings \in [Names -> Int \union {Word}] /\ started \in 0..MaxThreads
    BY DEF ConfigInv, MapOfLines, SettingsRead, WorkersStarted, Value
  <2>2. begun \in [Threads -> Nat] /\ thr \in [Threads -> ThreadPlaces]
    <3>1. \A k \in {0, 1} : k \in Nat
      OBVIOUS
    <3>. QED  BY <3>1, Zenon DEF Counted
  <2>3. fdt \in [Fds -> FdKinds]
    BY DEF Occupied
  <2>. QED  BY <2>1, <2>2, <2>3, Zenon DEF TypeOK, Places, SignalTypes, FlagsSet
<1>. QED
  BY <1>1, <1>2, FlagInvariant, ConfigInvariant, PlacesStep, SignalTypesStep, CountedStep,
     OccupiedStep, PTL DEF Spec
=============================================================================
