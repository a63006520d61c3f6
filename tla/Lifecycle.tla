------------------------------ MODULE Lifecycle ------------------------------
(***************************************************************************)
(* The life of the process: becomeDaemon, main from signal() to its return *)
(* and the destructors behind it, the threads it starts and never joins,   *)
(* and the signals of the service script correctgpsd.                      *)
(*                                                                         *)
(* A thread is known by its number: 0 is the one loaddb starts for the     *)
(* table, the others are the workers.  What the event loop, the workers    *)
(* and the loader do with clients and rows is left to the modules Server   *)
(* and Loader; here they only begin and end pieces of work.                *)
(***************************************************************************)
EXTENDS Config, FiniteSets

CONSTANTS
    Hosts,          \* the circumstances the process is launched in
    MaxFd,          \* descriptors 0..MaxFd may be opened
    MaxThreads,     \* workers that pthread_create allows
    MaxSignals,     \* bound of the model: signals sent
    Files           \* the files that may stand for correctgps.conf

ASSUME FdAssumption == MaxFd \in Nat /\ MaxFd > 2

(***************************************************************************)
(* A host: the standard descriptors of the launching process, whether      *)
(* syslog finds a log daemon, and whether pthread_cond_destroy of its      *)
(* library waits for the threads asleep.                                   *)
(***************************************************************************)
ASSUME HostsAssumption ==
    Hosts \subseteq [std : SUBSET (0..2), syslogd : BOOLEAN, condWaits : BOOLEAN]

ASSUME ThreadsAssumption == MaxThreads \in Nat
ASSUME SignalsAssumption == MaxSignals \in Nat
ASSUME FilesAssumption == \A f \in Files : f \in Seq(Line)

VARIABLES
    pc,             \* the place of main
    over,           \* how the process has ended: "no", "exit", "killed" or "crashed"
    fdt,            \* what each descriptor is
    host,           \* one of Hosts
    logfd,          \* the descriptor syslog believes to be its socket, or -1
    file,           \* correctgps.conf
    reader,         \* whose readConfigFile is next or running
    lines,          \* lines of the file that fgets has returned
    kvmap,          \* the kvmap of the reader
    settings,       \* g_cfg, and the settings of doit
    thr,            \* the place of each thread
    started,        \* threads CclientManager::start has created
    functor,        \* the heap cell of the loader's ThreadFunctor
    manager,        \* clientmanager: "none", "live" or "destroyed"
    mapinfo,        \* likewise
    allExitFlag, termReceived, hupmReceived,
    signals,        \* signals sent
    failed,         \* history: setallthreadexitflag was called
    begun           \* history: pieces of work a thread began with the flag set

fdVars == <<fdt, logfd>>
cfgVars == <<file, reader, lines, kvmap, settings>>
threadVars == <<thr, started, functor, begun>>
objVars == <<manager, mapinfo>>
flagVars == <<allExitFlag, termReceived, hupmReceived, signals, failed>>
vars == <<pc, over, host, fdVars, cfgVars, threadVars, objVars, flagVars>>

Fds == 0..MaxFd
Std == 0..2
Threads == 0..MaxThreads

FdKinds == {"free", "inherited", "null", "log", "db", "listen", "epoll"}

\* Places in becomeDaemon, in main, in its loop and behind its return.
MainPlaces ==
    {"fork", "setsid", "fork2", "close", "reopen", "signal", "config", "lines",
     "settings", "newmap", "database", "loaddb", "unloaddb", "manager", "start",
     "listen", "initialize", "while", "getEvents", "epoll", "dispatch", "hup", "sleep",
     "return", "cond", "map", "exit"}

\* "service" is _service before it reads the functor.  run: at its while, at the
\* inner while, in the timed wait, at the second test behind msglist, at the look-up,
\* in a round.  getdb: in checklink, at its while, at the query, in a page.
ThreadPlaces ==
    {"none", "service", "run", "cond", "sleep", "test", "begin", "round",
     "checklink", "pages", "query", "page", "left"}

TypeOK ==
    /\ pc \in MainPlaces
    /\ over \in {"no", "exit", "killed", "crashed"}
    /\ fdt \in [Fds -> FdKinds]
    /\ host \in Hosts
    /\ logfd \in Fds \union {-1}
    /\ file \in Files
    /\ reader \in Readers
    /\ lines \in 0..Len(file)
    /\ kvmap \in [DOMAIN kvmap -> Int \union {Word}]
    /\ settings \in [Names -> Int \union {Word}]
    /\ thr \in [Threads -> ThreadPlaces]
    /\ started \in 0..MaxThreads
    /\ functor \in {"none", "loader", "freed", "worker"}
    /\ manager \in {"none", "live", "destroyed"}
    /\ mapinfo \in {"none", "live", "destroyed"}
    /\ allExitFlag \in BOOLEAN
    /\ termReceived \in BOOLEAN
    /\ hupmReceived \in BOOLEAN
    /\ signals \in 0..MaxSignals
    /\ failed \in BOOLEAN
    /\ begun \in [Threads -> Nat]

Init ==
    /\ pc = "fork"
    /\ over = "no"
    /\ host \in Hosts
    /\ fdt = [f \in Fds |-> IF f \in host.std THEN "inherited" ELSE "free"]
    /\ logfd = -1
    /\ file \in Files
    /\ reader = "Ccfg"
    /\ lines = 0
    /\ kvmap = NoItems
    /\ settings = [name \in Names |-> Default(name)]
    /\ thr = [t \in Threads |-> "none"]
    /\ started = 0
    /\ functor = "none"
    /\ manager = "none"
    /\ mapinfo = "none"
    /\ allExitFlag = FALSE
    /\ termReceived = FALSE
    /\ hupmReceived = FALSE
    /\ signals = 0
    /\ failed = FALSE
    /\ begun = [t \in Threads |-> 0]

-----------------------------------------------------------------------------
(* Descriptors and the log                                                 *)

IsLowest(f, table) == f \in Fds /\ table[f] = "free" /\ \A g \in 0..(f - 1) : table[g] # "free"

\* socket, open and epoll_create give the lowest free descriptor.
Opened(table, kind) ==
    {[table EXCEPT ![f] = kind] : f \in {g \in Fds : IsLowest(g, table)}}

LogWorks == logfd # -1 /\ fdt[logfd] = "log"

\* glibc's syslog: a socket that does not work is closed by its number, whatever
\* has this number now, and opened anew.
log_msg ==
    \/ /\ LogWorks \/ ~host.syslogd
       /\ UNCHANGED <<fdt, logfd>>
    \/ /\ ~LogWorks /\ host.syslogd
       /\ LET unlogged == [f \in Fds |-> IF f = logfd THEN "free" ELSE fdt[f]]
          IN  /\ fdt' \in Opened(unlogged, "log")
              /\ logfd' \in {f \in Fds : IsLowest(f, unlogged)}

\* main goes on to another place.
Goto(place) == pc' = place /\ UNCHANGED over

\* The process ends, with all its threads.
Ends(how) == over' = how /\ UNCHANGED pc

\* setallthreadexitflag
SetExit == allExitFlag' = TRUE /\ failed' = TRUE /\ UNCHANGED <<termReceived, hupmReceived, signals>>

-----------------------------------------------------------------------------
(* becomeDaemon.  The parents _exit at once; the model follows the child.  *)

At(place) == over = "no" /\ pc = place

\* fork succeeds, or main logs it and exits.
Fork ==
    /\ \/ At("fork") /\ (Goto("setsid") \/ Ends("exit"))
       \/ At("fork2") /\ (Goto("close") \/ Ends("exit"))
    /\ log_msg
    /\ UNCHANGED <<host, cfgVars, threadVars, objVars, flagVars>>

\* The child of a fork leads no group: setsid succeeds.
Setsid ==
    /\ At("setsid")
    /\ Goto("fork2")
    /\ UNCHANGED <<host, fdVars, cfgVars, threadVars, objVars, flagVars>>

\* syslog does not learn that its socket is closed.
CloseFiles ==
    /\ At("close")
    /\ fdt' = [f \in Fds |-> "free"]
    /\ Goto("reopen")
    /\ UNCHANGED <<host, logfd, cfgVars, threadVars, objVars, flagVars>>

\* Seeded defect: standard output and error are not opened.
ReopenStdinOnly ==
    /\ At("reopen")
    /\ fdt' = [fdt EXCEPT ![0] = "null"]
    /\ Goto("signal")
    /\ UNCHANGED <<host, logfd, cfgVars, threadVars, objVars, flagVars>>

\* /dev/null becomes 0, 1 and 2, or main exits.
Reopen ==
    /\ At("reopen")
    /\ \/ /\ fdt' = [f \in Fds |-> IF f \in Std THEN "null" ELSE fdt[f]]
          /\ Goto("signal")
       \/ /\ Ends("exit")
          /\ UNCHANGED fdt
    /\ UNCHANGED <<host, logfd, cfgVars, threadVars, objVars, flagVars>>

-----------------------------------------------------------------------------
(* main up to the loop                                                     *)

\* "becomeDaemon ok" and "correctgps started." are logged on the way.
InstallHandlers ==
    /\ At("signal")
    /\ log_msg
    /\ Goto("config")
    /\ UNCHANGED <<host, cfgVars, threadVars, objVars, flagVars>>

\* getexedir fails, and a string is made of NULL; or it returns a pointer into a
\* string that is gone: the name of the file may be wrong, and a file that cannot
\* be opened sets nothing.
OpenConfig ==
    /\ At("config")
    /\ Goto("lines") \/ Goto("settings") \/ Ends("crashed")
    /\ UNCHANGED <<host, fdVars, cfgVars, threadVars, objVars, flagVars>>

\* One turn of the loop: the end of the file; a line without =, for which a null
\* pointer is written through; or another line.
file_to_items ==
    /\ At("lines")
    /\ \/ /\ lines = Len(file)
          /\ Goto("settings")
          /\ UNCHANGED <<lines, kvmap>>
       \/ /\ lines < Len(file)
          /\ file[lines + 1].kind = "bare"
          /\ Ends("crashed")
          /\ UNCHANGED <<lines, kvmap>>
       \/ /\ lines < Len(file)
          /\ file[lines + 1].kind # "bare"
          /\ kvmap' = get_item_from_line(kvmap, file[lines + 1])
          /\ lines' = lines + 1
          /\ UNCHANGED <<pc, over>>
    /\ UNCHANGED <<host, fdVars, file, reader, settings, threadVars, objVars, flagVars>>

\* Nobody looks at the map afterwards.
readConfigFile ==
    /\ At("settings")
    /\ settings' = [name \in Names |->
                       IF name \in Asked(reader) THEN Setting(kvmap, name) ELSE settings[name]]
    /\ lines' = 0
    /\ kvmap' = NoItems
    /\ Goto(IF reader = "Ccfg" THEN "newmap" ELSE "database")
    /\ UNCHANGED <<host, fdVars, file, reader, threadVars, objVars, flagVars>>

\* mapinfo and a Cdbdo, whose DataBaseIni reads the file again.
NewMap ==
    /\ At("newmap")
    /\ mapinfo' = "live"
    /\ reader' = "Cdbdo"
    /\ Goto("config")
    /\ UNCHANGED <<host, fdVars, file, lines, kvmap, settings, threadVars, manager, flagVars>>

\* The rest of DataBaseIni.  Nobody looks at its result; a connection that
\* mysql_init could not allocate is used all the same.
DataBaseIni ==
    /\ At("database")
    /\ \/ fdt' \in Opened(fdt, "db") \union {fdt} /\ Goto("loaddb")
       \/ UNCHANGED fdt /\ Ends("crashed")
    /\ UNCHANGED <<host, logfd, cfgVars, threadVars, objVars, flagVars>>

\* Without a link main goes on without a table; with one, a thread is started
\* whose functor belongs to a local variable, or pthread_create fails and the
\* exception ends the process.
loaddb ==
    /\ At("loaddb")
    /\ \/ /\ Goto("manager")
          /\ UNCHANGED <<thr, functor>>
       \/ /\ \E f \in Fds : fdt[f] = "db"
          /\ functor' = "loader"
          /\ \/ thr' = [thr EXCEPT ![0] = "service"] /\ Goto("unloaddb")
             \/ UNCHANGED thr /\ Ends("crashed")
    /\ UNCHANGED <<host, fdVars, cfgVars, started, begun, objVars, flagVars>>

\* loaddb returns: ~Thread deletes the functor.
DeleteFunctor ==
    /\ At("unloaddb")
    /\ functor' = "freed"
    /\ Goto("manager")
    /\ UNCHANGED <<host, fdVars, cfgVars, thr, started, begun, objVars, flagVars>>

\* The constructor of CclientManager.
NewManager ==
    /\ At("manager")
    /\ manager' = "live"
    /\ Goto("start")
    /\ UNCHANGED <<host, fdVars, cfgVars, threadVars, mapinfo, flagVars>>

\* Seeded defect: one thread more than the limit.
StartWorkerOneMore ==
    /\ At("start")
    /\ started < settings["MAX_WORKER"]
    /\ UNCHANGED functor
    /\ \/ /\ started <= MaxThreads
          /\ started' = started + 1
          /\ thr' = [thr EXCEPT ![started'] = "run"]
          /\ UNCHANGED <<pc, over>>
       \/ /\ started > MaxThreads
          /\ Ends("crashed")
          /\ UNCHANGED <<started, thr>>
    /\ UNCHANGED <<host, fdVars, cfgVars, begun, objVars, flagVars>>

\* One turn of the loop of start.  The new functor may get the freed cell.
StartWorker ==
    /\ At("start")
    /\ started < settings["MAX_WORKER"]
    /\ functor' \in IF functor = "freed" THEN {"freed", "worker"} ELSE {functor}
    /\ \/ /\ started < MaxThreads
          /\ started' = started + 1
          /\ thr' = [thr EXCEPT ![started'] = "run"]
          /\ UNCHANGED <<pc, over>>
       \/ /\ started = MaxThreads
          /\ Ends("crashed")
          /\ UNCHANGED <<started, thr>>
    /\ UNCHANGED <<host, fdVars, cfgVars, begun, objVars, flagVars>>

Started ==
    /\ At("start")
    /\ started >= settings["MAX_WORKER"]
    /\ Goto("listen")
    /\ UNCHANGED <<host, fdVars, cfgVars, threadVars, objVars, flagVars>>

\* Seeded defect: a failure of listen is only reported.
createListenerQuiet ==
    /\ At("listen")
    /\ \/ /\ fdt' \in Opened(fdt, "listen")
          /\ Goto("initialize")
       \/ /\ UNCHANGED fdt
          /\ Goto("return")
    /\ UNCHANGED <<host, logfd, cfgVars, threadVars, objVars, flagVars>>

\* The socket listens; or every attempt has failed (a socket whose options cannot
\* be set stays open) and the daemon has to end.
createListener ==
    /\ At("listen")
    /\ \/ /\ fdt' \in Opened(fdt, "listen")
          /\ Goto("initialize")
          /\ UNCHANGED flagVars
       \/ /\ fdt' \in Opened(fdt, "listen") \union {fdt}
          /\ Goto("return")
          /\ SetExit
    /\ UNCHANGED <<host, logfd, cfgVars, threadVars, objVars>>

\* epoll_create may fail.
initialize ==
    /\ At("initialize")
    /\ Goto("while")
    /\ \/ /\ fdt' \in Opened(fdt, "epoll")
          /\ UNCHANGED flagVars
       \/ /\ SetExit
          /\ UNCHANGED fdt
    /\ UNCHANGED <<host, logfd, cfgVars, threadVars, objVars>>

-----------------------------------------------------------------------------
(* The loop of main                                                        *)

Loop(from, to) ==
    /\ At(from)
    /\ Goto(to)
    /\ UNCHANGED <<host, fdVars, cfgVars, threadVars, objVars>>

While ==
    /\ Loop("while", IF termReceived \/ allExitFlag THEN "return" ELSE "getEvents")
    /\ UNCHANGED flagVars

\* getEvents returns -1 without looking at epoll when the flag is set.
GetEvents ==
    /\ Loop("getEvents", IF allExitFlag THEN "hup" ELSE "epoll")
    /\ UNCHANGED flagVars

\* Seeded defect: epoll_wait waits without a limit.
EpollTimeoutNever ==
    /\ Loop("epoll", "hup")
    /\ ~allExitFlag
    /\ UNCHANGED flagVars

\* One second has passed, or epoll_wait fails: there is nothing to dispatch.
EpollTimeout ==
    /\ Loop("epoll", "hup")
    /\ UNCHANGED flagVars

EpollEvents ==
    /\ Loop("epoll", "dispatch")
    /\ UNCHANGED flagVars

\* The events are dispatched, whatever the flags say; a client that cannot be
\* allocated ends the daemon.
Dispatch ==
    /\ Loop("dispatch", "hup")
    /\ SetExit \/ UNCHANGED flagVars

TestHup ==
    /\ Loop("hup", IF hupmReceived THEN "sleep" ELSE "while")
    /\ hupmReceived' = FALSE
    /\ UNCHANGED <<allExitFlag, termReceived, signals, failed>>

\* goto RESTART passes by the condition of the loop.
Restart ==
    /\ Loop("sleep", "getEvents")
    /\ UNCHANGED flagVars

-----------------------------------------------------------------------------
(* The end of main: nobody waits for the threads                           *)

\* ~CclientManager deletes the clients and destroys the mutexes.
DestroyManager ==
    /\ At("return")
    /\ manager' = "destroyed"
    /\ Goto("cond")
    /\ UNCHANGED <<host, fdVars, cfgVars, threadVars, mapinfo, flagVars>>

\* pthread_cond_destroy: a new glibc waits for the threads asleep, an old one
\* does not.
DestroyCond ==
    /\ At("cond")
    /\ host.condWaits => \A t \in Threads : thr[t] # "sleep"
    /\ Goto("map")
    /\ UNCHANGED <<host, fdVars, cfgVars, threadVars, objVars, flagVars>>

DestroyMap ==
    /\ At("map")
    /\ mapinfo' = "destroyed"
    /\ Goto("exit")
    /\ UNCHANGED <<host, fdVars, cfgVars, threadVars, manager, flagVars>>

ExitProcess ==
    /\ At("exit")
    /\ Ends("exit")
    /\ UNCHANGED <<host, fdVars, cfgVars, threadVars, objVars, flagVars>>

-----------------------------------------------------------------------------
(* Threads                                                                 *)

\* A thread goes on to another place.
Moves(t, from, to) ==
    /\ over = "no"
    /\ thr[t] = from
    /\ thr' = [thr EXCEPT ![t] = to]
    /\ UNCHANGED <<pc, over, host, fdVars, cfgVars, started, functor, objVars>>

Quietly == UNCHANGED <<begun, flagVars>>

\* _service reads the functor: the loader's, a freed cell, which may still hold
\* what it held, or the functor of a worker.
ReadFunctor ==
    /\ \/ functor \in {"loader", "freed"} /\ Moves(0, "service", "checklink")
       \/ functor = "worker" /\ Moves(0, "service", "run")
       \/ /\ over = "no" /\ thr[0] = "service" /\ functor = "freed"
          /\ Ends("crashed")
          /\ UNCHANGED <<host, fdVars, cfgVars, thr, started, functor, objVars>>
    /\ Quietly

\* CclientManager::run, without the requests.
RunTests(t) ==
    /\ Moves(t, "run", IF allExitFlag THEN "left" ELSE "cond")
    /\ Quietly

\* The inner loop ends by test_cond, by a result of the wait or by the flag.
RunCond(t) ==
    /\ \/ Moves(t, "cond", "test")
       \/ ~allExitFlag /\ Moves(t, "cond", "sleep")
    /\ Quietly

\* Signalled, or after ten seconds.
RunWakes(t) ==
    /\ Moves(t, "sleep", "cond") \/ Moves(t, "sleep", "test")
    /\ Quietly

RunTestsAgain(t) ==
    /\ Moves(t, "test", IF allExitFlag THEN "left" ELSE "begin")
    /\ Quietly

Count(t) == begun' = [begun EXCEPT ![t] = IF allExitFlag THEN @ + 1 ELSE @]

RunBegins(t) ==
    /\ Moves(t, "begin", "round")
    /\ Count(t)
    /\ UNCHANGED flagVars

\* An exception in the round ends the daemon.
RunEnds(t) ==
    /\ Moves(t, "round", "run")
    /\ SetExit \/ UNCHANGED flagVars
    /\ UNCHANGED begun

\* Cdbdo::getdb, without the rows.
LoaderLinked ==
    /\ Moves(0, "checklink", "pages") \/ Moves(0, "checklink", "left")
    /\ Quietly

\* Seeded defect: the loader reads all pages whatever the flag says.
LoaderTestsNot ==
    /\ Moves(0, "pages", "query")
    /\ Quietly

LoaderTests ==
    /\ ~allExitFlag
    /\ Moves(0, "pages", "query")
    /\ Quietly

\* The flag is set or the last page read: the link to the database is closed.
LoaderDisconnects ==
    /\ over = "no"
    /\ thr[0] = "pages"
    /\ thr' = [thr EXCEPT ![0] = "left"]
    /\ fdt' = [f \in Fds |-> IF fdt[f] = "db" THEN "free" ELSE fdt[f]]
    /\ UNCHANGED <<pc, over, host, logfd, cfgVars, started, functor, objVars>>
    /\ Quietly

LoaderQueries ==
    /\ \/ /\ Moves(0, "query", "page") /\ Count(0)
          /\ UNCHANGED flagVars
       \/ /\ Moves(0, "query", "left") /\ SetExit
          /\ UNCHANGED begun

\* A page is read to its end; an array that cannot be allocated sets the flag.
LoaderPageEnds ==
    /\ Moves(0, "page", "pages")
    /\ SetExit \/ UNCHANGED flagVars
    /\ UNCHANGED begun

Run(t) ==
    \/ RunTests(t) \/ RunCond(t) \/ RunWakes(t) \/ RunTestsAgain(t)
    \/ RunBegins(t) \/ RunEnds(t)

LoaderStep ==
    \/ ReadFunctor \/ LoaderLinked \/ LoaderTests \/ LoaderQueries \/ LoaderPageEnds
    \/ LoaderDisconnects

-----------------------------------------------------------------------------
(* Signals                                                                 *)

\* sig_term runs in any thread; if it is main's, epoll_wait returns EINTR and
\* getEvents looks at the flag again.  Before signal() the process is killed.
Signal(term) ==
    /\ over = "no"
    /\ signals < MaxSignals
    /\ signals' = signals + 1
    /\ \/ /\ pc \in {"fork", "setsid", "fork2", "close", "reopen", "signal"}
          /\ Ends("killed")
          /\ UNCHANGED <<allExitFlag, termReceived, hupmReceived>>
       \/ /\ pc \notin {"fork", "setsid", "fork2", "close", "reopen", "signal"}
          /\ allExitFlag' = TRUE
          /\ termReceived' = (termReceived \/ term)
          /\ hupmReceived' = (hupmReceived \/ ~term)
          /\ Goto(pc) \/ (pc = "epoll" /\ Goto("getEvents"))
    /\ UNCHANGED <<failed, host, fdVars, cfgVars, threadVars, objVars>>

Over ==
    /\ over # "no"
    /\ UNCHANGED vars

MainStep ==
    \/ Fork \/ Setsid \/ CloseFiles \/ Reopen \/ InstallHandlers
    \/ OpenConfig \/ file_to_items \/ readConfigFile \/ NewMap \/ DataBaseIni \/ loaddb \/ DeleteFunctor \/ NewManager \/ StartWorker \/ Started
    \/ createListener \/ initialize
    \/ While \/ GetEvents \/ EpollTimeout \/ Dispatch \/ TestHup \/ Restart
    \/ DestroyManager \/ DestroyCond \/ DestroyMap
    \/ ExitProcess

Next ==
    \/ MainStep
    \/ EpollEvents
    \/ \E t \in Threads : Run(t)
    \/ LoaderStep
    \/ \E term \in BOOLEAN : Signal(term)
    \/ Over

Spec == Init /\ [][Next]_vars

(***************************************************************************)
(* Main and the threads are scheduled; calls of the library return; a      *)
(* timed wait ends.  Nothing is assumed of signals, of phones and of the   *)
(* loader.                                                                 *)
(***************************************************************************)
Fairness ==
    /\ WF_vars(MainStep)
    /\ \A t \in Threads : WF_vars(Run(t))

FairSpec == Spec /\ Fairness

-----------------------------------------------------------------------------
(* Properties                                                              *)

(* gps.cpp:49-71, 121-207, SelEpolKqEvPrt.cpp:74-99, CclientManager.cpp:   *)
(* 41-61: once allExitFlag is set, by a signal in any thread or by a       *)
(* failure anywhere, the process ends: epoll_wait and the timed waits are  *)
(* left, the jump to RESTART does not keep the loop alive, and the         *)
(* destructors do not wait for ever.                                       *)
EndsAfterFlag == allExitFlag ~> (over # "no")

(* gps.cpp:115-213, Cserver.cpp:28-110: clientmanager and mapinfo are only *)
(* destroyed when allExitFlag tells the threads, which nobody joins, to    *)
(* leave; every way out of main sets it.                                   *)
FlagBeforeDestruction ==
    manager = "destroyed" \/ mapinfo = "destroyed" => allExitFlag

(* CclientManager.cpp:303-374, dbdo.cpp:134: after allExitFlag is set a    *)
(* thread begins at most one more round or page, the one it had already    *)
(* tested the flag for: that is all the destroyed objects can meet.        *)
OneMorePiece == \A t \in Threads : begun[t] <= 1

\* The places up to the start of the workers.
Starting ==
    {"fork", "setsid", "fork2", "close", "reopen", "signal", "config", "lines", "settings",
     "newmap", "database", "loaddb", "unloaddb", "manager", "start"}

\* A setting is what the first line of its name says, or its default.
AsWritten(name) ==
    IF Written(file, name) = {}
    THEN settings[name] = Default(name)
    ELSE Written(file, name) = {settings[name]}

(* Ccfg.cpp:30-116, dbdo.cpp:367-428, tools.cpp:55-95, CclientManager.cpp: *)
(* 191-207: the daemon listens with as many workers as its settings say,   *)
(* and the settings of g_cfg, and those of the database, are what the file *)
(* says, or all are defaults because that reader could not open the file.  *)
WorkersAsConfigured ==
    pc \notin Starting =>
        /\ started = settings["MAX_WORKER"]
        /\ \A r \in Readers :
              \/ \A name \in Asked(r) : settings[name] = Default(name)
              \/ \A name \in Asked(r) : AsWritten(name)

(* become_daemon.cpp:70-99, SelEpolKqEvPrt.cpp:198: the daemon never has a *)
(* socket of its own, or epoll, as descriptor 0, 1 or 2, whatever it was   *)
(* launched with and although syslog's descriptor is closed behind its     *)
(* back: unRegisterForEvent ignores descriptor 0.                          *)
SocketsAboveStd == \A f \in 0..2 : fdt[f] \notin {"db", "listen", "epoll"}

(* correctgpsd:17-19: "restart) kill -HUP ..., correctgps restart ok": a   *)
(* daemon that took the SIGHUP in its loop (it resets hupmReceived there   *)
(* before it jumps to RESTART) ends only if it was terminated or failed.   *)
RestartSurvives ==
    over = "exit" /\ pc = "exit" /\ ~hupmReceived => termReceived \/ failed
=============================================================================
