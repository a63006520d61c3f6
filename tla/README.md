# CorrectGPS: a TLA+ model of the daemon

CorrectGPS is a daemon that receives navigation requests from phones, replaces
the Baidu coordinates in them by GPS coordinates with the help of a table loaded
from MySQL, forwards each request to the HTTP server of the car and sends the
answer back to the phone. This directory holds the specification of its core:
modules that model the code, TLC configurations that check them on small
instances, and proofs checked by TLAPS. Paths below are relative to `src/src`.

## Inventory

| part | state | operations | interacts with |
|---|---|---|---|
| event loop (`gps.cpp`, `SelEpolKqEvPrt`) | epoll set, `curfds`, the batch of `epoll_wait` being dispatched | `getEvents`, `accept`, `registerForEvent`, `unRegisterForEvent`, dispatch | calls the client table; the kernel; phones |
| client table (`CclientManager`) | `clientqueue` (descriptor to client), `mmutex` | `AddToQueue`, `GetNewClient`, `DoRead`, `DoKill` | called by event loop and workers |
| client (`CClient`) | descriptor, buffer with `offset`, `serial`, `status` | `ini`, `receive`, `parse`, `Close`, `Send2CarServer`, `sendback` | notifies workers, closes its descriptor when deleted |
| hand-off (`CclientManager`) | `msglist`, `test_cond`, `cond`, two mutexes | `notificationthreads`, the waiting half of `run` | from event loop to workers |
| worker (`CclientManager::run`, `Csender`) | locals `fd`, `pc`, `rc`; a socket to the car server, `fb` | look up, correct, `Connect`, `Send`, `Recv`, answer, kill | client table, car server |
| correction table (`CXArray`) | `arraylng`, `index` | `append`, `getGpsxy` | loader writes, workers read |
| correction (`Ccorrectit`, `chang2uint`) | none | key of a position, table or original | reads `infomap` |
| loader (`dbdo`, `Thread`) | connection, `infomap` | `loaddb`, `getdb`, `checklink` | writes `infomap` without a lock while workers read |
| lifecycle (`gps.cpp`) | `allExitFlag`, `termReceived`, `hupmReceived` | signals, `setallthreadexitflag` | every loop tests the flag |
| configuration (`Ccfg`, `Cdbdo`, `tools.cpp`) | `kvmap`, the settings | `file_to_items`, the two `readConfigFile` | the file is read twice, before any thread starts |
| start-up (`become_daemon`, `log`, `Cserver`) | the process's descriptors, syslog's socket | `becomeDaemon`, `log_msg`, `createListener` | decides the numbers of all later descriptors |

What is hard in this code: one event loop thread and several workers share the
table of clients, partly without its lock; descriptors and heap cells are reused
at once; epoll is edge-triggered and events are applied after the descriptor
they were reported for may have changed; a single flag stands for any number of
queued messages; the table is filled by a thread that shares it without a lock;
`Recv` miscounts the room in its buffer; signals and failures end the process while
threads nobody joins still use its objects.
`PROJECT.json` lists each such place under "hazards".

What correctness means here: the table and the allocated clients stay one to
one; nobody deletes a client that a worker serves; a request in the queue reaches
a worker; a connection that ends is closed; the limits hold; a lookup never
applies the offset of another place; an exchange with the car server ends, inside its
buffer; the process ends when it is told to.

## Modules

| module | models | role |
|---|---|---|
| `MsgQueue` | - | abstract hand-off: first in first out, each message to one worker, an empty list leaves the worker its last descriptor |
| `WorkQueue` | `notificationthreads` and the waiting half of `run` | implements `MsgQueue` |
| `Server` | event loop, client table, clients, workers, phones | composes them around `MsgQueue` |
| `XArray` | `CXArray` | the table of one latitude, each `append` one step |
| `Position` | `chang2uint` | keys of positions, with the value of the text as reference |
| `Loader` | `getdb`, `checklink`, `correctgps_worker`, `getGpsxy` step by step | composes `XArray` with `Position` and a reader; implements `XArray` |
| `Sender` | `Send2CarServer`, `Csender` | the exchange that is one step in `Server` |
| `Config` | `get_item_from_line`, the settings of `Ccfg` and `Cdbdo` | a line into the map, the map into settings; with a reference |
| `Lifecycle` | `becomeDaemon`, `main`, `file_to_items`, `readConfigFile`, signals, `Thread`, `loaddb`, `createListener`, destructors | composes `Config` with the process and its threads |
| `MCWorkQueue`, `MCServer`, `MCXArray`, `MCLoader`, `MCSender`, `MCLifecycle` | - | small instances for TLC |
| `WorkQueueProofs`, `ServerProofs`, `XArrayProofs`, `LoaderProofs`, `SenderProofs`, `LifecycleProofs` | - | theorems |

Operators whose comment begins with "Seeded defect" are plausible mistakes in the
code. Nothing uses them in the specifications; each replaces one definition to show
that a property notices the mistake (`PROJECT.json`, "mutants").

### WorkQueue

State: `msglist`, `test_cond`, `allExitFlag`, the locals `rc` and `fd` of each worker
and its place in `run`. A critical section is one step; the timed wait releases
`mtx4cond` and so separates two. `Push` and `Notify` are the two critical sections of
`notificationthreads`. `Wait`, `Timeout`, `SpuriousWakeup`, `WaitInvalid` are the
ways through `pthread_cond_timedwait`: `ts.tv_nsec` is never assigned, and each
thread either has a valid value on its stack or gets EINVAL for ever. `coalesced` is a
history variable: signals that found the flag still raised. `requests` bounds the
model.

### Server

State: what each descriptor is (`fdt`), the epoll set with its pending edges, the
batch being dispatched, the table, the allocated clients with their fields, the owner
of `mmutex`, and the locals of the event loop and the workers. A step ends where
another thread can interfere: at a system call, an unprotected access to shared
state, or the end of a critical section.

- The kernel gives the lowest free descriptor, drops a descriptor from the epoll set
  when it is closed, and raises an edge when data or a hang-up arrives or when a
  readable descriptor is added. An event carries the flags at the time of
  `epoll_wait` and is applied later, perhaps to another connection.
- A field read through a pointer to a freed client has any value (`ReadFd`). A search
  of the table that runs while a worker erases an entry may miss its client.
- `DoKill` is one step. It closes the descriptor before it erases the entry; the
  threads that could look in between without the lock are the event loop's `DoRead`
  (which then has the freed client, as if it had looked before) and the size test of
  `GetNewClient`, which may see one client more.
- Phones send well-formed requests in segments. The first holds the keyword, the second
  the rest; a first segment that ends inside the keyword is not kept. Which
  characters are in a field is left out. `parse` does not reset `offset`, so a
  trailing segment may look like another complete request.
- An event has EPOLLIN for every socket that is connected: data, a hang-up and an error
  all set it. A worker's socket that main has registered by its number may be told
  before it is connected, with EPOLLHUP alone; `main` then takes the number out of the
  set and does not put it back (`BareHangup`). If the number has gone to a new phone in
  between, the edges of that phone are lost. TLC finds this when `BareHangup` is TRUE and
  there are three connections, and does not find it with two; `NoLostEdge` and
  `HungClosed` are stated for events with EPOLLIN.
- `parse` sets `status` to 1 without `mmutex`, so that it may do so between a worker's
  setting it to 2 and testing it: that worker then leaves the client alone
  (`LookupNothing`), and the notification that follows makes it be served.
- `registerForEvent` fails on a descriptor that is closed, and then closes the number
  in a further step, when it may be a worker's socket.
- The worker's exchange with the car server is one step under `mmutex`; a failed
  connect leaves its socket open, as the code does.
- The local variable `fd` of `run` keeps its value between rounds. Other local
  variables are reset when they are dead, to keep the state space small.

### XArray

State: the cells, `index` and, as history, the rows handed to `append`; a row is known
by its number, which stands for its pair of offsets. One action per branch of
`append`. The overlapping `memcpy` either behaves like `memmove` or repeats the first
cell. When the code leaves the array, `overrun` is set and the model stops.
`getGpsxy` gives the set of offsets it may apply: `Uninitialised` when it finds
none, `Wild` in addition when it compares the key with memory outside the array.

### Position and Loader

A coordinate is a text: its degrees and the digits behind the point. `chang2uint`
takes at most two of them, so that 1.1 has the key 11 and not 110. `Loader` follows
one latitude. Its array is the one of `XArray`; `mem` is the array as another thread
sees it, and the stores of one `append` become visible one field at a time in any
order, since nothing orders them for a reader without a lock. `MULTI_THREAD` is not
defined in the build, so that neither side takes one. The reader is
`correctgps_worker` with every read of shared memory a step of its own: `find` (which
may miss an entry while the tree is changed), the guess, the comparison, each cell of
the scan, and the two offsets. An index outside the array is one value,
`ARRAY_COUNT`; what is read there matches by chance or not. `late` and `atStart` are
history variables: the look-up began when the loader had ended, and the rows of its
place that were stored and visible when it began. `Original`, `Uninitialised` and `Wild` stand for the position as
it came, the unassigned local variable and memory outside the array.

### Sender

State: the place in `Send2CarServer`, the state of the connection, the sockets held by
the process, the bytes that have arrived, and the locals `strlen` and `len` of `Recv`.
Only numbers of bytes are modelled; an answer has a length and a mark, the byte with
which `fb` contains what `Recv` looks for. `len` is reduced by all bytes so far for
each piece, as in the code, and a negative `len` makes `recv` take all there is.
`Recv` is a turn of its loop; time passes between turns. The contents of `fb` before
the first byte are unassigned in the code and taken not to contain an answer.

### Config and Lifecycle

A configuration file is a sequence of lines. It is read twice, by `Ccfg` and then by
`Cdbdo`, each with a map of its own: `file_to_items` takes a line a step, so that
signals come between lines; `get_item_from_line` keeps the first value of a name, and
a line without `=` crashes the process. A file name that `getexedir` spoiled is a
file that is not found, by one reader or by both. The values are numbers or words;
`atoi` and the conversion to unsigned are modelled.

`Lifecycle` follows the surviving child through `becomeDaemon`, and `main` from
`signal()` to its return and the destructors behind it. Its state: the places of main
and of each thread, what each descriptor is, the number syslog believes to have, the
settings, the heap cell of the loader's functor, whether `clientmanager` and
`mapinfo` are alive, and the three flags. Signals come at any time, are delivered to
any thread, and kill the process before `signal()` was called. The functor of the
loader's local `Thread` is deleted when `loaddb` returns; the new thread may read it
before, find a freed cell, or find the functor of a worker in it. A host says which
standard descriptors the process was launched with, whether syslog finds a log
daemon, and whether `pthread_cond_destroy` waits for sleepers (new glibc does). What
threads do in a round or with a page is left to the other modules. `begun` and
`failed` are history variables.

## Runs

| run | instance | checks |
|---|---|---|
| `workqueue` | 2 workers, 2 descriptors, 3 requests, with fairness | types; no raised flag with all asleep; unattended messages are at most the merged signals; the flag is consumed; workers leave after `allExitFlag`; unmerged requests are taken; refines `MsgQueue` |
| `server_ownership` | 2 workers, 2 phones with 2 segments, 3 descriptors, 2 cells, 2 clients allowed, events with EPOLLIN | types; the table owns its clients; no client leaks; a worker's client stays; no edge is lost |
| `server_one_worker` | 1 worker, 2 phones with 3 segments, 2 descriptors, 1 client allowed, events with and without EPOLLIN | no request is forwarded twice; `max_clients`; room in `epoll_wait`; uses the queue as `MsgQueue` allows |
| `server_hangup` | 1 worker, 2 phones with 2 segments, 2 descriptors, 1 client allowed, events with EPOLLIN, with fairness | a descriptor whose phone has a client and hung up is closed; of the phones waiting when an edge is reported the first is accepted |
| `xarray` | 4 cells, 4 longitudes, 7 rows in any order | types; own offset only; rows in order are found and stay inside |
| `loader` | 3 cells, 3 longitudes, 2 pages of 2 rows, phones at two places with 3 digits and at one with 1 digit, with fairness | types; own place only while loading; a place that was loaded when the look-up began is found while rows come; found after loading; the loader ends |
| `sender` | buffer of 7, answers of 1 to 8 bytes, 3 descriptors, time limit 1, with fairness | types; stays inside; all of two segments returned; sockets accounted for; exchanges end |
| `lifecycle` | 1 worker and the loader, 2 signals, 3 files, 2 hosts, 8 descriptors, with fairness | types; flag before destruction; one more piece; workers and settings as configured; no socket as standard descriptor; the process ends after the flag |

Four runs show where the code does something other than a comment, the readme or the
service script says ("findings"):

| run | what TLC shows |
|---|---|
| `workqueue_stranded` | a request whose signal was merged with another stays queued until a further request comes |
| `server_use_after_free` | `DoRead` uses a client that a worker has deleted |
| `position_uninitialised` | after the table was read to its end, a longitude the array does not have is forwarded as an unassigned variable |
| `restart_ends_daemon` | the script's restart ends the daemon: SIGHUP comes while main is in its loop, `getEvents` returns -1, main jumps to `RESTART` and the loop ends |

Bounds. Two workers are enough for one to clear the flag another was woken for, and to
meet on one client; three requests for two merged signals and one that is not. Two
connections with two or three descriptors make descriptors and cells be reused by the
other connection, by a later one and by a worker's socket. Three segments give a
trailing one. Seven rows for four cells fill the array, repeat longitudes, insert in
front of and between cells and overrun. One client allowed and two phones is the limit
and one over it. Four rows for three cells let `Loader` fill, repeat, shift and
overrun; two pages make the loop of pages turn. Eight bytes for a buffer of seven give
answers that fit, that fill it and that do not, in up to eight segments: from three on
the miscounted room is zero or negative. In `Lifecycle` a worker and the loader are
enough for the loader to become a worker; files give no worker, more than there can
be and a crash, and one that is not found gives one worker (what they say of the
database is left to the proof); two signals are a restart and a termination in either
order. `BareHangup` is TRUE where the properties allow it, FALSE where they speak of
edges.
`UIntRange` stands for 2^32 and is 16 there, so that -1 wraps to a number that is
above the limit of threads as in the program. `Parts`, `MaxRequests`, `MaxRows`,
`MaxFds`, `MaxFd`, `MaxThreads` and `MaxSignals` bound the inputs; nothing else is cut.
The safety runs of `Server` use the symmetry of connections, cells and workers; runs
with liveness do not. Deadlock is checked in every run: phones, time-outs or the
explicit final steps (`Ended`, `Loaded`, `Finished`, `Lost`, `Over`) are always
possible in the models as in the daemon.

Fairness. In `WorkQueue`: the event loop finishes `notificationthreads`, a worker that
can run does, and a timed wait ends (ten seconds). In `Server`: the event loop and a
worker inside a round go on, strongly fair because both compete for `mmutex`, which
each releases after a bounded time (`Recv` has a time limit). A worker need not take a
message, phones need do nothing and spurious wake-ups need not happen. In `Loader`:
the loader's thread and a worker inside a look-up are scheduled. In `Sender`: the
worker runs, time passes, and the kernel ends an attempt to connect by itself; the car
server owes nothing. In `Lifecycle`: main and each thread run, `epoll_wait` returns
after its second and the timed wait after its ten; nothing is assumed of signals,
events and the database.

## Proofs

All theorems hold for every value of the constants under the assumptions named in the
modules (finite sets of workers, connections, descriptors and cells; descriptors are
naturals; model values are distinct; longitudes span at most the array and the table
has two digits behind the point, as `api.h` says of the data; no coordinate of the
region is ten times another).

- `WorkQueueProofs`: `TypeCorrect`; `NoLostWakeupCorrect`, inductive with the types
  because a step that raises the flag wakes a sleeper and a step to sleep needs the
  flag down; `BacklogBoundCorrect`, by counting the takers, with three lemmas on the
  cardinality of the set of takers when one joins or leaves; `RefinesMsgQueue`: each
  step maps to a push, a take, a release or a stutter.
- `ServerProofs`: `TypeCorrect`, strengthened by the fact that the event loop has a
  descriptor in hand wherever it uses one; the ownership theorems
  (`TableOwnsClientsCorrect`, `NoClientLeakCorrect`, `WorkerHoldsClientCorrect`) from
  one inductive invariant that adds that the client about to be inserted is allocated,
  carries the accepted descriptor and is in no entry, and that `mmutex` has an owner
  exactly while a worker is in its section; `QueueBoundCorrect`, strengthened by room
  for the client between its admission and its insertion, which holds because only the
  event loop inserts; `EventsFitCorrect`, inductive: every decrement of `curfds` goes
  with a removal, every addition with an increment, and a close only makes the set
  smaller; `ServerRefinesMsgQueue`: `Notify`, `Take` and the two ends of a round are
  the steps of the queue, all others stutter; `ServedOnceCorrect`, for a single worker,
  from `SentInvariant`, which holds with any number: a client whose request was
  forwarded has a worker behind its exchange that holds it in `pc`, or has its number
  for `DoKill`, and under that number it is in the table. `NoLostEdgeCorrect` from
  `EdgeInv`: the property speaks of readable descriptors only, so it needs that a
  phone's descriptor with a client is in the epoll set unless main is at it
  (`Watched`), that the set holds open descriptors only, so that a reused number is
  registered afresh and gets its edge (`RegOpen`), that every readable member has its
  edge (`EdgeKept`), that `epoll_wait` finds the last batch empty (`BatchEmpty`), and that
  every event of a batch has EPOLLIN when none is told without (`BatchRead`).
  That main, when it kills a descriptor and leaves it, closes that one and no other
  comes from `TableOwnsClients`.
- `XArrayProofs`: `TypeCorrect`; `OwnOffsetCorrect` from the invariant that a cell is
  empty or holds the longitude and the offset of one row, since `append` only ever
  moves whole cells; `InOrderFoundCorrect` from the invariant that rows in order fill
  the array from its start, one cell each, so that no branch but the first and the
  last of `append` is taken.
- `LoaderProofs`: `KeyIsPlace`, arithmetic on the digits: a short text is off by a
  factor of ten, which leads out of the region. `RefinesXArray`: only `AppendRow`
  touches the array, so that the invariants of `XArray` hold of it. `LoaderTypeCorrect`.
  `OwnPlaceCorrect` from two more invariants: rows in order go to empty cells, so that
  what is seen of a field is the array's value or nothing (`InOrderMem`), and the cell
  a look-up has chosen is and stays the one of its key (`OwnCell`).
  `SettledLookupCorrect`: when the loader has ended nothing is outstanding (`AtRest`);
  the guess is inside the array, and a scan has passed no cell of the place
  (`KnownInv`), so it cannot reach the end without a match. `LoadedPlaceFoundCorrect`:
  a look-up that runs beside the loader finds what was there when it began. Rows in
  order are never stored in a cell that is in use, so that a row once visible stays
  visible (`VisibleInv`), and a cell of the place is still ahead of the scan or has
  been chosen (`PresentInv`). A row that repeats the place meanwhile is left aside: its
  cell may be seen half stored.
- `SenderProofs`: `TypeCorrect`; `SocketsAccountedCorrect`, inductive;
  `StaysInsideCorrect` and `TwoSegmentsReturnedCorrect`, which need what `len` is after
  the first and the second piece: with one segment the subtraction is right, with two
  the room is too small only when all has been received.
- `LifecycleProofs`: `FlagBeforeDestructionCorrect`: main is behind its loop only with
  the flag set, and destroys only there. `OneMorePieceCorrect`: a thread that has begun
  a piece with the flag set is not at the place where it would begin another, and the
  test before it stops it, the flag never being taken back. `SocketsAboveStdCorrect`:
  after `becomeDaemon` the descriptors 0, 1 and 2 are never free again; if syslog
  closes one of them, it is the only free one below 3 and syslog takes it.
  `WorkersAsConfiguredCorrect` needs no induction over the file, since the file is read
  in steps: the map holds for each name what the first of the lines read so far says
  (`MapOfLines`), at the end of the file of all lines (`ReadWhole`), and the settings
  of one reader are not touched by the other (`SettingsRead`, `WorkersStarted`).
  `LifecycleTypeCorrect`, with the types of what these invariants leave out (`Places`,
  `SignalTypes`): no worker is started beyond the threads there can be, no line is
  read behind the end of the file.

Every invariant of a passing run and both uses of `MsgQueue` are proved. Only
model-checked: liveness (`FlagConsumed`, `WorkersLeave`, `UnmergedServed`,
`HungClosed`, `OldestAccepted`, `LoaderEnds`, `ExchangeEnds`, `EndsAfterFlag`), which
needs fairness and is out of the prover's reach.

## Not modelled

About three quarters of the lines in the repository are the headers of the vendored
MySQL connector, which declare a library and hold no logic of this program; the
daemon's own code is some 4400 lines with blank lines, comments and disabled branches
in them. The mapped lines are most of what it executes. Left out are: the string
helpers and the text of requests, answers and messages; code that nothing calls
(`killTimeoutClient`, `stop`, `ReInit`, `resetbuf`, `BBT_DOSQL`, `join`, `wait` and
`interrupt` of `Thread`, the UTF-8 and checksum helpers) and branches that the build
does not define (`MULTI_THREAD`, the map instead of the array, select and kqueue).
Malformed requests (the assertions of `parse`) and SIGPIPE, which is not ignored, end
the process and are outside the models, as are a descriptor above `FD_SETSIZE` in
`Csender::Connect` and the growth of `curfds` beyond `MAXDESCRIPTORS`. Whether syslog
finds a log daemon is fixed for a behaviour of `Lifecycle`: a log daemon that restarts
while the process runs, and the close and reopen of syslog's socket it causes, is not
modelled. `Server` runs
for ever; the end of `main` while workers run is in `Lifecycle`.

## Plan

1. Done: `MsgQueue`, `WorkQueue`, `Server`, `XArray`, `Position`, `Loader`, `Sender`,
   `Config`, `Lifecycle`; the invariants and refinements of all of them are proved.
2. Open: `Sender` shown to implement the exchange of `Server`. The two have different
   notions of a descriptor: in `Server` a number can be closed and reused during an
   exchange, in `Sender` the socket is the worker's own.
