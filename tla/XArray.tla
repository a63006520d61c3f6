-------------------------------- MODULE XArray --------------------------------
(***************************************************************************)
(* CXArray: the correction values of one latitude.  The loader of dbdo     *)
(* calls append(x, dx, dy) for every row of the database it reads, in the  *)
(* order in which the database returns them; the correction calls          *)
(* getGpsxy to find the offset of a longitude.                             *)
(*                                                                         *)
(* A row is told apart by its number: d stands for the pair dx, dy of the  *)
(* d-th row handed to append.  A cell that was never written holds what    *)
(* the constructor's memset left, longitude 0 and offset 0.                *)
(***************************************************************************)
EXTENDS Integers, Sequences, FiniteSets

CONSTANTS
    ARRAY_COUNT,    \* cells of the array
    Keys,           \* longitudes of the database, times 100
    MaxRows         \* bound of the model: rows handed to append

ASSUME CountAssumption == ARRAY_COUNT \in Nat \ {0}
ASSUME MaxRowsAssumption == MaxRows \in Nat

(***************************************************************************)
(* api.h: longitudes go from 72.00 to 137.99, one cell for each.           *)
(***************************************************************************)
ASSUME KeysAssumption ==
    /\ Keys \subseteq Nat \ {0}
    /\ \A j, k \in Keys : j - k < ARRAY_COUNT

VARIABLES
    arraylng,       \* CXArray::arraylng
    index,          \* CXArray::index
    rows,           \* history: the longitudes of the rows handed to append
    overrun         \* the code has left the array: nothing is known any more

vars == <<arraylng, index, rows, overrun>>

Cells == 0..(ARRAY_COUNT - 1)

\* What getGpsxy returns when it finds nothing, and what it may return when it
\* compares the key with memory outside the array.
Uninitialised == -1
Wild == -2

Zero == [x |-> 0, d |-> 0]

TypeOK ==
    /\ arraylng \in [Cells -> [x : Keys \union {0}, d : 0..MaxRows]]
    /\ index \in 0..(ARRAY_COUNT + 1)
    /\ rows \in Seq(Keys)
    /\ Len(rows) <= MaxRows
    /\ overrun \in BOOLEAN

Init ==
    /\ arraylng = [i \in Cells |-> Zero]
    /\ index = 0
    /\ rows = <<>>
    /\ overrun = FALSE

-----------------------------------------------------------------------------
(* append                                                                  *)

\* memcpy of n cells from the cell "from" to the next one.  The areas overlap:
\* a library may copy as memmove does, or forward, repeating the first cell.
Moved(from, n) ==
    [i \in Cells |-> IF i \in (from + 1)..(from + n) THEN arraylng[i - 1] ELSE arraylng[i]]

Repeated(from, n) ==
    [i \in Cells |-> IF i \in (from + 1)..(from + n) THEN arraylng[from] ELSE arraylng[i]]

memcpy(from, n) == {Moved(from, n), Repeated(from, n)}

\* The search from the end: t is the last cell not above x, or the first cell.
IsTindex(t, x) ==
    /\ t \in 0..(index - 1)
    /\ arraylng[t].x <= x \/ t = 0
    /\ \A i \in (t + 1)..(index - 1) : arraylng[i].x > x

\* Seeded defect: longitude and offset are stored in each other's field.
RowSwapped(x) == [x |-> Len(rows) + 1, d |-> x]

Row(x) == [x |-> x, d |-> Len(rows) + 1]

\* Every call of append: another row of the database.
AnotherRow(x) ==
    /\ ~overrun
    /\ Len(rows) < MaxRows
    /\ rows' = Append(rows, x)

AppendFirst(x) ==
    /\ AnotherRow(x)
    /\ index = 0
    /\ arraylng' = [arraylng EXCEPT ![0] = Row(x)]
    /\ index' = 1
    /\ UNCHANGED overrun

\* x is below all cells: the cells move up, but one too few.
AppendFront(x) ==
    /\ AnotherRow(x)
    /\ index \in 1..ARRAY_COUNT
    /\ IsTindex(0, x)
    /\ arraylng[0].x > x
    /\ \E a \in memcpy(0, index - 1) : arraylng' = [a EXCEPT ![0] = Row(x)]
    /\ index' = index + 1
    /\ UNCHANGED overrun

\* x is there already, before the last cell: the row is dropped.
AppendDuplicate(x) ==
    /\ AnotherRow(x)
    /\ index <= ARRAY_COUNT
    /\ \E t \in 0..(index - 2) : IsTindex(t, x) /\ arraylng[t].x = x
    /\ UNCHANGED <<arraylng, index, overrun>>

\* x belongs between two cells: those above it move up by one.
AppendMiddle(x) ==
    /\ AnotherRow(x)
    /\ index < ARRAY_COUNT
    /\ \E t \in 0..(index - 2) :
          /\ IsTindex(t, x)
          /\ arraylng[t].x < x
          /\ \E a \in memcpy(t + 1, index - t - 1) :
                arraylng' = [a EXCEPT ![t + 1] = Row(x)]
    /\ index' = index + 1
    /\ UNCHANGED overrun

\* Seeded defect: a full array takes one row less than it has room for.
AppendLastEarlyFull(x) ==
    /\ AnotherRow(x)
    /\ index \in 1..ARRAY_COUNT
    /\ IsTindex(index - 1, x)
    /\ arraylng[index - 1].x <= x
    /\ \/ /\ index < ARRAY_COUNT - 1
          /\ arraylng' = [arraylng EXCEPT ![index] = Row(x)]
          /\ index' = index + 1
       \/ /\ index >= ARRAY_COUNT - 1
          /\ UNCHANGED <<arraylng, index>>
    /\ UNCHANGED overrun

\* Seeded defect: the last cell is overwritten (index - 1 for index).
AppendLastOverwrites(x) ==
    /\ AnotherRow(x)
    /\ index \in 1..ARRAY_COUNT
    /\ IsTindex(index - 1, x)
    /\ arraylng[index - 1].x <= x
    /\ \/ /\ index < ARRAY_COUNT
          /\ arraylng' = [arraylng EXCEPT ![index - 1] = Row(x)]
          /\ index' = index + 1
       \/ /\ index = ARRAY_COUNT
          /\ UNCHANGED <<arraylng, index>>
    /\ UNCHANGED overrun

\* x is not below the last cell: it goes behind it, or is dropped when full.
AppendLast(x) ==
    /\ AnotherRow(x)
    /\ index \in 1..ARRAY_COUNT
    /\ IsTindex(index - 1, x)
    /\ arraylng[index - 1].x <= x
    /\ \/ /\ index < ARRAY_COUNT
          /\ arraylng' = [arraylng EXCEPT ![index] = Row(x)]
          /\ index' = index + 1
       \/ /\ index = ARRAY_COUNT
          /\ UNCHANGED <<arraylng, index>>
    /\ UNCHANGED overrun

\* Room is made between two cells of a full array, or the search starts at a
\* cell behind the array, which a front insertion has counted.
AppendOverruns(x) ==
    /\ AnotherRow(x)
    /\ \/ /\ index = ARRAY_COUNT
          /\ \E t \in 0..(index - 2) : IsTindex(t, x) /\ arraylng[t].x < x
       \/ index > ARRAY_COUNT
    /\ overrun' = TRUE
    /\ UNCHANGED <<arraylng, index>>

append(x) ==
    \/ AppendFirst(x) \/ AppendFront(x) \/ AppendDuplicate(x)
    \/ AppendMiddle(x) \/ AppendLast(x) \/ AppendOverruns(x)

\* The table is read, or the model's bound is reached, or all is lost.
Loaded ==
    /\ overrun \/ Len(rows) = MaxRows
    /\ UNCHANGED vars

Next == (\E x \in Keys : append(x)) \/ Loaded

Spec == Init /\ [][Next]_vars

-----------------------------------------------------------------------------
(* getGpsxy                                                                *)

\* The cell the key would have in a table without gaps; an unsigned number, so
\* a key below the first longitude is far outside the array.
Guess(key) == IF key >= arraylng[0].x THEN key - arraylng[0].x ELSE ARRAY_COUNT

IsFirstMatch(i, key) ==
    /\ arraylng[i].x = key
    /\ \A j \in 0..(i - 1) : arraylng[j].x # key

\* The search through all cells.
Scan(key) ==
    {arraylng[i].d : i \in {j \in Cells : IsFirstMatch(j, key)}}
        \union {r \in {Uninitialised} : \A i \in Cells : arraylng[i].x # key}

\* Seeded defect: the guess is taken without comparing the longitude.
getGpsxyTrusting(key) ==
    IF Guess(key) \in Cells THEN {arraylng[Guess(key)].d} ELSE Scan(key) \union {Wild}

\* The offsets getGpsxy may subtract for a key.
getGpsxy(key) ==
    IF Guess(key) \in Cells
    THEN IF arraylng[Guess(key)].x = key THEN {arraylng[Guess(key)].d} ELSE Scan(key)
    ELSE Scan(key) \union {Wild}

-----------------------------------------------------------------------------
(* Properties                                                              *)

RowsOf(key) == {d \in 1..Len(rows) : rows[d] = key}

(* CXArray.cpp:126-157: whatever order the rows came in, and however the   *)
(* overlapping memcpy behaved, a lookup inside the array never applies the *)
(* offset of another longitude: it yields a row of this longitude or finds *)
(* none.                                                                   *)
OwnOffset ==
    \A key \in Keys : getGpsxy(key) \subseteq RowsOf(key) \union {Uninitialised, Wild}

Ascending == \A i, j \in 1..Len(rows) : i < j => rows[i] <= rows[j]

(* CXArray.cpp:34-157: rows that come in the order of their longitudes     *)
(* never lead outside the array, and while they fit in it each longitude   *)
(* is found, with gaps and with repeated rows too.                         *)
InOrderFound ==
    Ascending =>
        /\ ~overrun
        /\ Len(rows) <= ARRAY_COUNT =>
              \A key \in Keys : RowsOf(key) # {} => getGpsxy(key) \subseteq RowsOf(key)
=============================================================================
