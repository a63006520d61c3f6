-------------------------------- MODULE Loader --------------------------------
(***************************************************************************)
(* Cdbdo::getdb, the thread that reads the correction table from MySQL, and *)
(* Ccorrectit::correctgps_worker, which searches the table at the same      *)
(* time.  MULTI_THREAD is not defined, so that neither of them takes a      *)
(* lock for the table.  The workers themselves exclude one another by       *)
(* mmutex: there is one look-up at a time.                                  *)
(*                                                                          *)
(* The model follows one latitude: infomap has an entry for it or not, and  *)
(* its CXArray is the one of the module XArray.  Rows of other latitudes    *)
(* only change the shape of the tree.  arraylng is the array as append      *)
(* leaves it; mem is what another thread sees of it: the stores of one      *)
(* append become visible field by field, in any order.                      *)
(***************************************************************************)
EXTENDS XArray, Position

CONSTANTS
    Pages,          \* MAX_RECORD / COUNT_PER_READ
    PageRows,       \* COUNT_PER_READ
    RowTexts,       \* longitudes as the database prints them
    PhoneTexts      \* longitudes as phones send them

ASSUME PagesAssumption == Pages \in Nat /\ PageRows \in Nat

ASSUME RowsBoundAssumption == Pages * PageRows <= MaxRows

(***************************************************************************)
(* The table is kept to an accuracy of 0.01 (api.h:46): its columns have   *)
(* two digits behind the point.  A phone sends as many as it likes.        *)
(***************************************************************************)
ASSUME TextsAssumption ==
    /\ \A t \in RowTexts : InRegion(t) /\ Padded(t)
    /\ \A t \in PhoneTexts : InRegion(t)
    /\ Keys = {chang2uint(t) : t \in RowTexts}

VARIABLES
    allExitFlag,    \* gps.cpp
    lpc,            \* the place of the loader in getdb
    n,              \* checklink: failed calls of mysql_ping
    m,              \* pages asked for
    fetched,        \* rows taken from the current result
    lngkey,         \* the local variable lngkey of getdb
    inmap,          \* infomap has an array for the latitude
    mem,            \* the array as other threads see it
    rpc,            \* the place of a worker in correctgps_worker and getGpsxy
    pos,            \* the longitude the worker corrects
    i,              \* the local variable i of getGpsxy
    got,            \* the offsets subtracted from the position
    late,           \* history: the look-up began when the loader had ended
    atStart         \* history: the rows of the place when the look-up began

arrayVars == <<arraylng, index, rows, overrun>>
loaderVars == <<lpc, n, m, fetched, lngkey>>
readerVars == <<rpc, pos, i, got, late, atStart>>

allVars == <<arrayVars, allExitFlag, loaderVars, inmap, mem, readerVars>>

\* "checklink"; "page": at while (!allExitFlag && m < max); "query"; "fetch":
\* at mysql_fetch_row; "insert", "insertOther": in m_mapinfo->insert; "append";
\* "store": append's stores on their way; the rest are ends of the thread.
LoaderPlaces ==
    {"checklink", "page", "query", "fetch", "insert", "insertOther", "append", "store",
     "done", "unlinked", "failed", "lost"}

LoaderEnd == {"done", "unlinked", "failed", "lost"}

ReaderPlaces == {"idle", "find", "guess", "compare", "scan", "dx", "dy", "done"}

\* The position is forwarded as it came.
Original == -3

Offset == (0..MaxRows) \union {Uninitialised, Wild, Original}

Image(c) == [x |-> arraylng[c].x, dx |-> arraylng[c].d, dy |-> arraylng[c].d]

Settled == \A c \in Cells : mem[c] = Image(c)

LoaderTypeOK ==
    /\ TypeOK
    /\ allExitFlag \in BOOLEAN
    /\ lpc \in LoaderPlaces
    /\ n \in 0..4
    /\ m \in 0..Pages
    /\ fetched \in 0..PageRows
    /\ lngkey \in Keys \union {0}
    /\ inmap \in BOOLEAN
    /\ mem \in [Cells -> [x : Keys \union {0}, dx : 0..MaxRows, dy : 0..MaxRows]]
    /\ rpc \in ReaderPlaces
    /\ pos \in PhoneTexts
    /\ i \in 0..ARRAY_COUNT
    /\ got \in [dx : Offset, dy : Offset]
    /\ late \in BOOLEAN
    /\ atStart \in SUBSET (1..MaxRows)

LoaderInit ==
    /\ Init
    /\ allExitFlag = FALSE
    /\ lpc = "checklink"
    /\ n = 0
    /\ m = 0
    /\ fetched = 0
    /\ lngkey = 0
    /\ inmap = FALSE
    /\ mem = [c \in Cells |-> [x |-> 0, dx |-> 0, dy |-> 0]]
    /\ rpc = "idle"
    /\ pos \in PhoneTexts
    /\ i = 0
    /\ got = [dx |-> Original, dy |-> Original]
    /\ late = FALSE
    /\ atStart = {}

-----------------------------------------------------------------------------
(* The loader                                                              *)

\* checklink gives up after the fourth failure; the thread ends and the daemon
\* goes on with an empty table.
PingFails ==
    /\ lpc = "checklink"
    /\ n' = n + 1
    /\ lpc' = IF n' > 3 THEN "unlinked" ELSE "checklink"
    /\ UNCHANGED <<arrayVars, allExitFlag, m, fetched, lngkey, inmap, mem, readerVars>>

PingSucceeds ==
    /\ lpc = "checklink"
    /\ lpc' = "page"
    /\ n' = 0
    /\ UNCHANGED <<arrayVars, allExitFlag, m, fetched, lngkey, inmap, mem, readerVars>>

\* Seeded defect: m is not advanced.
NextPageAgain ==
    /\ lpc = "page"
    /\ lpc' = IF allExitFlag \/ m = Pages THEN "done" ELSE "query"
    /\ UNCHANGED <<arrayVars, allExitFlag, n, m, fetched, lngkey, inmap, mem, readerVars>>

\* The next page, or the end of the table.
NextPage ==
    /\ lpc = "page"
    /\ \/ /\ allExitFlag \/ m = Pages
          /\ lpc' = "done"
          /\ UNCHANGED m
       \/ /\ ~allExitFlag /\ m < Pages
          /\ lpc' = "query"
          /\ m' = m + 1
    /\ UNCHANGED <<arrayVars, allExitFlag, n, fetched, lngkey, inmap, mem, readerVars>>

\* getResult: no result ends the whole daemon.
QueryFails ==
    /\ lpc = "query"
    /\ allExitFlag' = TRUE
    /\ lpc' = "failed"
    /\ UNCHANGED <<arrayVars, n, m, fetched, lngkey, inmap, mem, readerVars>>

QuerySucceeds ==
    /\ lpc = "query"
    /\ lpc' = "fetch"
    /\ UNCHANGED <<arrayVars, allExitFlag, n, m, fetched, lngkey, inmap, mem, readerVars>>

\* The last row of the result, or a row with a NULL column, which ends the page.
FetchEnds ==
    /\ lpc = "fetch"
    /\ lpc' = "page"
    /\ fetched' = 0
    /\ UNCHANGED <<arrayVars, allExitFlag, n, m, lngkey, inmap, mem, readerVars>>

\* A row of the latitude.
FetchRow(t) ==
    /\ lpc = "fetch"
    /\ fetched < PageRows
    /\ fetched' = fetched + 1
    /\ lngkey' = chang2uint(t)
    /\ lpc' = IF inmap THEN "append" ELSE "insert"
    /\ UNCHANGED <<arrayVars, allExitFlag, n, m, inmap, mem, readerVars>>

\* A row of another latitude, known or new.
FetchOther ==
    /\ lpc = "fetch"
    /\ fetched < PageRows
    /\ fetched' = fetched + 1
    /\ lpc' \in {"fetch", "insertOther"}
    /\ UNCHANGED <<arrayVars, allExitFlag, n, m, lngkey, inmap, mem, readerVars>>

\* new CXArray throws: the row is dropped and the daemon has to end.
NewFails ==
    /\ lpc \in {"insert", "insertOther"}
    /\ allExitFlag' = TRUE
    /\ lpc' = "fetch"
    /\ lngkey' = 0
    /\ UNCHANGED <<arrayVars, n, m, fetched, inmap, mem, readerVars>>

\* The empty array is in the map before its first row is appended.
Insert ==
    /\ \/ /\ lpc = "insert"
          /\ lpc' = "append"
          /\ inmap' = TRUE
       \/ /\ lpc = "insertOther"
          /\ lpc' = "fetch"
          /\ UNCHANGED inmap
    /\ UNCHANGED <<arrayVars, allExitFlag, n, m, fetched, lngkey, mem, readerVars>>

AppendRow ==
    /\ lpc = "append"
    /\ append(lngkey)
    /\ lpc' = IF overrun' THEN "lost" ELSE "store"
    /\ lngkey' = 0
    /\ UNCHANGED <<allExitFlag, n, m, fetched, inmap, mem, readerVars>>

\* One field of one cell becomes visible.
Store(c, f) ==
    /\ lpc = "store"
    /\ mem[c][f] # Image(c)[f]
    /\ mem' = [mem EXCEPT ![c][f] = Image(c)[f]]
    /\ UNCHANGED <<arrayVars, allExitFlag, loaderVars, inmap, readerVars>>

Stored ==
    /\ lpc = "store"
    /\ Settled
    /\ lpc' = "fetch"
    /\ UNCHANGED <<arrayVars, allExitFlag, n, m, fetched, lngkey, inmap, mem, readerVars>>

LoaderStep ==
    \/ PingFails \/ PingSucceeds \/ NextPage \/ QueryFails \/ QuerySucceeds
    \/ FetchEnds \/ (\E t \in RowTexts : FetchRow(t)) \/ FetchOther
    \/ NewFails \/ Insert \/ AppendRow
    \/ (\E c \in Cells, f \in {"x", "dx", "dy"} : Store(c, f)) \/ Stored

-----------------------------------------------------------------------------
(* A worker: correctgps_worker and getGpsxy                                *)

ReaderGoto(place) ==
    /\ rpc' = place
    /\ UNCHANGED <<arrayVars, allExitFlag, loaderVars, inmap, mem, pos, late, atStart>>

\* gpsxy is returned; i is dead.
Return(dx, dy) ==
    /\ got' = [dx |-> dx, dy |-> dy]
    /\ i' = 0
    /\ ReaderGoto("done")

\* The rows of a longitude that were appended and whose stores are not under way.
VisibleRows(x) == {d \in 1..Len(rows) : rows[d] = x /\ (lpc = "store" => d < Len(rows))}

\* A worker takes another request (CclientManager::run tests allExitFlag first).
StartLookup(t) ==
    /\ rpc \in {"idle", "done"}
    /\ ~allExitFlag
    /\ ~overrun
    /\ rpc' = "find"
    /\ pos' = t
    /\ i' = 0
    /\ got' = [dx |-> Uninitialised, dy |-> Uninitialised]
    /\ late' = (lpc \in LoaderEnd)
    /\ atStart' = VisibleRows(Hundredths(t))
    /\ UNCHANGED <<arrayVars, allExitFlag, loaderVars, inmap, mem>>

\* pinfomap->find finds nothing, or loses its way in a tree that is being changed.
FindNothing ==
    /\ rpc = "find"
    /\ ~inmap \/ lpc \in {"insert", "insertOther"}
    /\ Return(Original, Original)

Find ==
    /\ rpc = "find"
    /\ inmap
    /\ ReaderGoto("guess")
    /\ UNCHANGED <<i, got>>

\* i = key - arraylng[0]._x, which is unsigned; ARRAY_COUNT stands for every
\* index outside the array.
GuessIndex ==
    /\ rpc = "guess"
    /\ i' = LET key == chang2uint(pos)
                cell == key - mem[0].x
            IN  IF cell \in Cells THEN cell ELSE ARRAY_COUNT
    /\ ReaderGoto("compare")
    /\ UNCHANGED got

\* The guessed cell holds the longitude, or the search starts at the first.
Compare ==
    /\ rpc = "compare"
    /\ i \in Cells
    /\ \/ /\ mem[i].x = chang2uint(pos)
          /\ ReaderGoto("dx")
          /\ UNCHANGED i
       \/ /\ mem[i].x # chang2uint(pos)
          /\ ReaderGoto("scan")
          /\ i' = 0
    /\ UNCHANGED got

\* Memory outside the array holds the number by chance, or does not.
CompareOutside ==
    /\ rpc = "compare"
    /\ i \notin Cells
    /\ \/ Return(Wild, Wild)
       \/ ReaderGoto("scan") /\ i' = 0 /\ UNCHANGED got

\* Seeded defect: the last cell is not searched.
ScanCellShort ==
    /\ rpc = "scan"
    /\ \/ /\ i < ARRAY_COUNT - 1
          /\ mem[i].x = chang2uint(pos)
          /\ ReaderGoto("dx")
          /\ UNCHANGED <<i, got>>
       \/ /\ i < ARRAY_COUNT - 1
          /\ mem[i].x # chang2uint(pos)
          /\ ReaderGoto("scan")
          /\ i' = i + 1
          /\ UNCHANGED got
       \/ /\ i >= ARRAY_COUNT - 1
          /\ Return(Uninitialised, Uninitialised)

\* One cell of the search; without a match gpsxy is returned as it is.
ScanCell ==
    /\ rpc = "scan"
    /\ \/ /\ i < ARRAY_COUNT
          /\ mem[i].x = chang2uint(pos)
          /\ ReaderGoto("dx")
          /\ UNCHANGED <<i, got>>
       \/ /\ i < ARRAY_COUNT
          /\ mem[i].x # chang2uint(pos)
          /\ ReaderGoto("scan")
          /\ i' = i + 1
          /\ UNCHANGED got
       \/ /\ i = ARRAY_COUNT
          /\ Return(Uninitialised, Uninitialised)

ReadDx ==
    /\ rpc = "dx"
    /\ got' = [got EXCEPT !.dx = mem[i].dx]
    /\ ReaderGoto("dy")
    /\ UNCHANGED i

ReadDy ==
    /\ rpc = "dy"
    /\ Return(got.dx, mem[i].dy)

ReaderStep ==
    \/ FindNothing \/ Find \/ GuessIndex \/ Compare \/ CompareOutside \/ ScanCell
    \/ ReadDx \/ ReadDy

-----------------------------------------------------------------------------

\* A signal, or another thread's failure.
Exit ==
    /\ ~allExitFlag
    /\ allExitFlag' = TRUE
    /\ UNCHANGED <<arrayVars, loaderVars, inmap, mem, readerVars>>

\* Loader and worker have ended, or nothing is known any more.
Finished ==
    /\ lpc \in LoaderEnd
    /\ rpc \in {"idle", "done"}
    /\ allExitFlag \/ overrun
    /\ UNCHANGED allVars

LoaderNext ==
    \/ LoaderStep
    \/ (\E t \in PhoneTexts : StartLookup(t))
    \/ ReaderStep
    \/ Exit
    \/ Finished

LoaderSpec == LoaderInit /\ [][LoaderNext]_allVars

\* The loader's thread is scheduled; a worker inside a look-up too.
LoaderFairness == WF_allVars(LoaderStep) /\ WF_allVars(ReaderStep)

LoaderFairSpec == LoaderSpec /\ LoaderFairness

-----------------------------------------------------------------------------
(* Properties                                                              *)

\* The rows of the place a phone is at.
RowsHere == {d \in 1..Len(rows) : rows[d] = Hundredths(pos)}

(* Ccorrectit.cpp:47-67 with dbdo.cpp:217-221: while the table is being    *)
(* loaded in the order of longitudes, a look-up that runs between the      *)
(* stores of append never mixes in the offset of another place: each       *)
(* coordinate is corrected by a row of the phone's own 0.01 cell, or by    *)
(* nothing when the row is only half visible, whatever number of digits    *)
(* the phone sends.                                                        *)
OwnPlace ==
    (rpc = "done" /\ Ascending) =>
        {got.dx, got.dy} \subseteq RowsHere \union {0, Uninitialised, Wild, Original}

(* CXArray.cpp:126-157, dbdo.cpp:108-300: a look-up that begins after the  *)
(* table was read to its end, in order and within the array's size,        *)
(* corrects both coordinates by one and the same row if the table has the  *)
(* place and the phone sends two digits or more.                           *)
SettledLookup ==
    ( /\ rpc = "done" /\ late /\ lpc = "done"
      /\ Ascending /\ Len(rows) <= ARRAY_COUNT
      /\ Padded(pos) /\ RowsHere # {} )
    => got.dx \in RowsHere /\ got.dy = got.dx

(* dbdo.cpp:217-258 with Ccorrectit.cpp:47-67: without a lock, and however *)
(* many other rows are appended, stored and inserted into the map while    *)
(* the look-up runs, the rows that came before it, in order, are not lost  *)
(* to it: a place with such a row in the array is found, and both offsets  *)
(* come from one row, unless find lost its way in the map and the position *)
(* goes as it came.  A row that repeats the place in the meantime is left  *)
(* aside: its cell may be seen half stored.                                *)
LoadedPlaceFound ==
    ( /\ rpc = "done" /\ Ascending /\ Padded(pos)
      /\ RowsHere = atStart /\ \E d \in atStart : d <= ARRAY_COUNT )
    => \/ got.dx \in atStart /\ got.dy = got.dx
       \/ got = [dx |-> Original, dy |-> Original]

(* Ccorrectit.cpp:69: "not found: send the original position".  Here for a *)
(* longitude that is missing in the array of its latitude when the table   *)
(* was read to its end, and that memory outside the array does not match.  *)
NotFoundOriginal ==
    ( /\ rpc = "done" /\ late /\ lpc = "done"
      /\ inmap /\ Padded(pos) /\ RowsHere = {} /\ got.dx # Wild )
    => got = [dx |-> Original, dy |-> Original]

(* dbdo.cpp:68-83, 131-300: the loader comes to an end, whatever the link, *)
(* the queries and the rows do.                                            *)
LoaderEnds == <>(lpc \in LoaderEnd)
=============================================================================
