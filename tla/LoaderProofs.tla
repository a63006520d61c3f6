----------------------------- MODULE LoaderProofs -----------------------------
(***************************************************************************)
(* Proofs about Loader, for every size of the array, number of pages and   *)
(* rows, and all texts of rows and phones that the assumptions allow.      *)
(***************************************************************************)
EXTENDS Loader, XArrayProofs

-----------------------------------------------------------------------------
(* Keys                                                                    *)

\* Arithmetic on digits: ten or a hundred times too small is not in the region.
LEMMA KeysApart ==
    ASSUME NEW w \in Nat, NEW a \in 0..9, NEW b \in 0..9, NEW v \in Nat, NEW c \in 0..9,
           NEW min \in Nat, NEW max \in Nat, v <= max, max < 10 * min, min <= w
    PROVE  /\ v # 100 * w + 10 * a + b
           /\ 10 * v + c # 100 * w + 10 * a + b
OBVIOUS

\* Arithmetic: neither 0 nor 1.
LEMMA AtLeastTwo ==
    ASSUME NEW k \in Nat, k # 0, k # 1
    PROVE  1 <= k /\ 2 <= k
OBVIOUS

(* tools.cpp:307-334: within the region of the map, a text that has the    *)
(* key of a row of the table (two digits behind the point) lies in the     *)
(* row's cell of 0.01, however many digits it has: a short text is off by  *)
(* a factor of ten and never meets another place by accident.              *)
THEOREM KeyIsPlace ==
    ASSUME NEW t, InRegion(t), chang2uint(t) \in Keys
    PROVE  chang2uint(t) = Hundredths(t)
<1>1. PICK r \in RowTexts : chang2uint(t) = chang2uint(r)
  BY TextsAssumption
<1>2. /\ InRegion(r) /\ Len(r.frac) >= 2
  BY TextsAssumption DEF Padded
<1>3. /\ t.whole \in Nat /\ t.frac \in Seq(0..9) /\ t.whole <= WholeMax
      /\ r.whole \in Nat /\ r.frac \in Seq(0..9) /\ WholeMin <= r.whole
      /\ WholeMin \in Nat /\ WholeMax \in Nat /\ WholeMax < 10 * WholeMin
  BY <1>2, RegionAssumption DEF InRegion, Text
<1>4. Len(t.frac) \in Nat /\ Len(r.frac) \in Nat
  BY <1>3
<1>5. r.frac[1] \in 0..9 /\ r.frac[2] \in 0..9
  BY <1>2, <1>3, <1>4
<1>6. chang2uint(r) = 100 * r.whole + 10 * r.frac[1] + r.frac[2]
  BY <1>2, <1>4 DEF chang2uint
<1>7. \A c \in 0..9 : chang2uint(t) # t.whole /\ chang2uint(t) # 10 * t.whole + c
  <2>. SUFFICES ASSUME NEW c \in 0..9
                PROVE  chang2uint(t) # t.whole /\ chang2uint(t) # 10 * t.whole + c
    OBVIOUS
  <2>. DEFINE key == 100 * r.whole + 10 * r.frac[1] + r.frac[2]
  <2>1. t.whole # key /\ 10 * t.whole + c # key
    BY <1>3, <1>5, KeysApart, ZenonT(60)
  <2>. QED  BY <1>1, <1>6, <2>1, Zenon
<1>8. Len(t.frac) # 0
  BY <1>7 DEF chang2uint
<1>9. Len(t.frac) # 1
  <2>. SUFFICES ASSUME Len(t.frac) = 1
                PROVE  FALSE
    OBVIOUS
  <2>1. t.frac[1] \in 0..9
    BY <1>3
  <2>2. chang2uint(t) = 10 * t.whole + t.frac[1]
    BY DEF chang2uint
  <2>. QED  BY <1>7, <2>1, <2>2
<1>10. chang2uint(t) = 100 * t.whole + 10 * t.frac[1] + t.frac[2]
  BY <1>4, <1>8, <1>9 DEF chang2uint
<1>11. 1 <= Len(t.frac) /\ 2 <= Len(t.frac)
  BY <1>4, <1>8, <1>9, AtLeastTwo, Zenon
<1>12. Digit(t, 1) = t.frac[1] /\ Digit(t, 2) = t.frac[2]
  BY <1>11, Zenon DEF Digit
<1>. QED
  BY <1>10, <1>12 DEF Hundredths

-----------------------------------------------------------------------------
(* The loader builds the array of the module XArray                        *)

LoaderLocal ==
    /\ lpc \in LoaderPlaces
    /\ n \in 0..4
    /\ m \in 0..Pages
    /\ fetched \in 0..PageRows
    /\ lngkey \in Keys \union {0}
    /\ lpc = "checklink" => n <= 3
    /\ lpc \in {"insert", "append"} => lngkey \in Keys

\* Every step keeps the types of the loader.
LEMMA LoaderLocalStep == LoaderLocal /\ [LoaderNext]_allVars => LoaderLocal'
<1>. SUFFICES ASSUME LoaderLocal, [LoaderNext]_allVars
              PROVE  LoaderLocal'
  OBVIOUS
<1>. USE PagesAssumption DEF LoaderLocal, LoaderPlaces
<1>1. CASE PingFails
  BY <1>1 DEF PingFails
<1>2. CASE PingSucceeds
  BY <1>2 DEF PingSucceeds
<1>3. CASE NextPage
  BY <1>3 DEF NextPage
<1>4. CASE QueryFails \/ QuerySucceeds
  BY <1>4 DEF QueryFails, QuerySucceeds
<1>5. CASE FetchEnds \/ FetchOther
  BY <1>5 DEF FetchEnds, FetchOther
<1>6. ASSUME NEW t \in RowTexts, FetchRow(t)
      PROVE  LoaderLocal'
  <2>1. chang2uint(t) \in Keys
    BY TextsAssumption
  <2>. QED  BY <1>6, <2>1 DEF FetchRow
<1>7. CASE NewFails
  BY <1>7 DEF NewFails
<1>8. CASE Insert
  BY <1>8 DEF Insert
<1>9. CASE AppendRow
  BY <1>9 DEF AppendRow
<1>10. ASSUME NEW c \in Cells, NEW f \in {"x", "dx", "dy"}, Store(c, f)
       PROVE  LoaderLocal'
  BY <1>10 DEF Store, loaderVars
<1>11. CASE Stored
  BY <1>11 DEF Stored
<1>12. CASE loaderVars' = loaderVars
  BY <1>12 DEF loaderVars
<1>13. ASSUME NEW t \in PhoneTexts, StartLookup(t)
       PROVE  loaderVars' = loaderVars
  BY <1>13 DEF StartLookup
<1>14. CASE ReaderStep
  <2>1. loaderVars' = loaderVars
    BY <1>14 DEF ReaderStep, FindNothing, Find, GuessIndex, Compare, CompareOutside,
       ScanCell, ReadDx, ReadDy, Return, ReaderGoto
  <2>. QED  BY <1>12, <2>1
<1>15. CASE Exit \/ Finished \/ UNCHANGED allVars
  <2>1. loaderVars' = loaderVars
    BY <1>15 DEF Exit, Finished, allVars
  <2>. QED  BY <1>12, <2>1
<1>. QED
  BY <1>1, <1>2, <1>3, <1>4, <1>5, <1>6, <1>7, <1>8, <1>9, <1>10, <1>11, <1>12, <1>13,
     <1>14, <1>15
     DEF LoaderNext, LoaderStep

\* The types of the loader.
LEMMA LoaderLocalInvariant == LoaderSpec => []LoaderLocal
<1>1. LoaderInit => LoaderLocal
  BY PagesAssumption DEF LoaderInit, LoaderLocal, LoaderPlaces
<1>. QED  BY <1>1, LoaderLocalStep, PTL DEF LoaderSpec

(***************************************************************************)
(* Only AppendRow touches the array, and it is a call of append.           *)
(***************************************************************************)
LEMMA ArrayStep ==
    ASSUME LoaderLocal, [LoaderNext]_allVars
    PROVE  \/ AppendRow /\ lngkey \in Keys /\ append(lngkey)
           \/ UNCHANGED arrayVars
<1>1. CASE AppendRow
  BY <1>1 DEF AppendRow, LoaderLocal
<1>2. CASE \/ PingFails \/ PingSucceeds \/ NextPage \/ QueryFails \/ QuerySucceeds
           \/ FetchEnds \/ FetchOther \/ NewFails \/ Insert \/ Stored
  BY <1>2 DEF PingFails, PingSucceeds, NextPage, QueryFails, QuerySucceeds, FetchEnds,
     FetchOther, NewFails, Insert, Stored
<1>3. ASSUME NEW t \in RowTexts, FetchRow(t)
      PROVE  UNCHANGED arrayVars
  BY <1>3 DEF FetchRow
<1>4. ASSUME NEW c \in Cells, NEW f \in {"x", "dx", "dy"}, Store(c, f)
      PROVE  UNCHANGED arrayVars
  BY <1>4 DEF Store
<1>5. ASSUME NEW t \in PhoneTexts, StartLookup(t)
      PROVE  UNCHANGED arrayVars
  BY <1>5 DEF StartLookup
<1>6. CASE ReaderStep
  BY <1>6 DEF ReaderStep, FindNothing, Find, GuessIndex, Compare, CompareOutside,
     ScanCell, ReadDx, ReadDy, Return, ReaderGoto
<1>7. CASE Exit \/ Finished \/ UNCHANGED allVars
  BY <1>7 DEF Exit, Finished, allVars
<1>. QED
  BY <1>1, <1>2, <1>3, <1>4, <1>5, <1>6, <1>7 DEF LoaderNext, LoaderStep

(* dbdo.cpp:217-258: whatever the link, the queries, the other threads and *)
(* the signals do, what the loader builds is an array of XArray: all that  *)
(* is proved of XArray holds of the array that workers search.             *)
THEOREM RefinesXArray == LoaderSpec => Spec
<1>1. LoaderInit => Init
  BY DEF LoaderInit
<1>2. LoaderLocal /\ [LoaderNext]_allVars => [Next]_vars
  BY ArrayStep DEF Next, vars, arrayVars
<1>. QED
  BY <1>1, <1>2, LoaderLocalInvariant, PTL DEF LoaderSpec, Spec

-----------------------------------------------------------------------------
(* Types                                                                   *)

Flags ==
    /\ allExitFlag \in BOOLEAN /\ inmap \in BOOLEAN /\ late \in BOOLEAN
    /\ atStart \in SUBSET (1..MaxRows)

Seen == [x : Keys \union {0}, dx : 0..MaxRows, dy : 0..MaxRows]

MemType == mem \in [Cells -> Seen]

ReaderLocal ==
    /\ rpc \in ReaderPlaces
    /\ pos \in PhoneTexts
    /\ i \in 0..ARRAY_COUNT
    /\ got \in [dx : Offset, dy : Offset]
    /\ rpc \in {"dx", "dy"} => i \in Cells

\* Every step keeps the types of the flags.
LEMMA FlagsStep == TypeOK /\ Flags /\ [LoaderNext]_allVars => Flags'
<1>. SUFFICES ASSUME TypeOK, Flags, [LoaderNext]_allVars
              PROVE  Flags'
  OBVIOUS
<1>. USE DEF Flags, readerVars
<1>1. CASE \/ PingFails \/ PingSucceeds \/ NextPage \/ QuerySucceeds
           \/ FetchEnds \/ FetchOther \/ Stored
  BY <1>1 DEF PingFails, PingSucceeds, NextPage, QuerySucceeds, FetchEnds, FetchOther, Stored
<1>2. ASSUME NEW t \in RowTexts, FetchRow(t)
      PROVE  Flags'
  BY <1>2 DEF FetchRow
<1>3. CASE QueryFails \/ NewFails \/ Exit
  BY <1>3 DEF QueryFails, NewFails, Exit
<1>4. CASE Insert
  BY <1>4 DEF Insert
<1>5. CASE AppendRow
  BY <1>5 DEF AppendRow
<1>6. ASSUME NEW c \in Cells, NEW f \in {"x", "dx", "dy"}, Store(c, f)
      PROVE  Flags'
  BY <1>6 DEF Store
<1>7. ASSUME NEW t \in PhoneTexts, StartLookup(t)
      PROVE  Flags'
  <2>1. 1..Len(rows) \subseteq 1..MaxRows
    BY MaxRowsAssumption DEF TypeOK
  <2>2. atStart' \in SUBSET (1..MaxRows)
    BY <1>7, <2>1 DEF StartLookup, VisibleRows
  <2>. QED  BY <1>7, <2>2 DEF StartLookup
<1>8. CASE ReaderStep
  BY <1>8 DEF ReaderStep, FindNothing, Find, GuessIndex, Compare, CompareOutside,
     ScanCell, ReadDx, ReadDy, Return, ReaderGoto
<1>9. CASE Finished \/ UNCHANGED allVars
  BY <1>9 DEF Finished, allVars
<1>. QED
  BY <1>1, <1>2, <1>3, <1>4, <1>5, <1>6, <1>7, <1>8, <1>9 DEF LoaderNext, LoaderStep

\* The array is something another thread can see.
LEMMA ImageType ==
    ASSUME TypeOK, NEW c \in Cells
    PROVE  Image(c) \in Seen
BY DEF TypeOK, Image, Seen

\* A store changes one field of one cell to the array's value.
LEMMA StoreEffect ==
    ASSUME MemType, NEW c \in Cells, NEW f \in {"x", "dx", "dy"}, Store(c, f)
    PROVE  /\ mem' \in [Cells -> Seen] \/ ~TypeOK
           /\ \A b \in Cells : \A g \in {"x", "dx", "dy"} :
                 mem'[b][g] = mem[b][g] \/ mem'[b][g] = Image(b)[g]
<1>1. mem' = [mem EXCEPT ![c][f] = Image(c)[f]]
  BY DEF Store
<1>2. CASE f = "x"
  BY <1>1, <1>2, ImageType DEF MemType, Seen
<1>3. CASE f = "dx"
  BY <1>1, <1>3, ImageType DEF MemType, Seen
<1>4. CASE f = "dy"
  BY <1>1, <1>4, ImageType DEF MemType, Seen
<1>. QED  BY <1>2, <1>3, <1>4

\* What other threads see changes by stores only.
LEMMA MemUnchanged ==
    ASSUME [LoaderNext]_allVars
    PROVE  \/ UNCHANGED mem
           \/ \E c \in Cells, f \in {"x", "dx", "dy"} : Store(c, f)
<1>1. CASE \/ PingFails \/ PingSucceeds \/ NextPage \/ QueryFails \/ QuerySucceeds
           \/ FetchEnds \/ FetchOther \/ NewFails \/ Insert \/ Stored \/ AppendRow
  BY <1>1 DEF PingFails, PingSucceeds, NextPage, QueryFails, QuerySucceeds, FetchEnds,
     FetchOther, NewFails, Insert, Stored, AppendRow
<1>2. ASSUME NEW t \in RowTexts, FetchRow(t)
      PROVE  UNCHANGED mem
  BY <1>2 DEF FetchRow
<1>3. ASSUME NEW t \in PhoneTexts, StartLookup(t)
      PROVE  UNCHANGED mem
  BY <1>3 DEF StartLookup
<1>4. CASE ReaderStep
  BY <1>4 DEF ReaderStep, FindNothing, Find, GuessIndex, Compare, CompareOutside,
     ScanCell, ReadDx, ReadDy, Return, ReaderGoto
<1>5. CASE Exit \/ Finished \/ UNCHANGED allVars
  BY <1>5 DEF Exit, Finished, allVars
<1>. QED
  BY <1>1, <1>2, <1>3, <1>4, <1>5 DEF LoaderNext, LoaderStep

\* Every step keeps the type of what other threads see.
LEMMA MemTypeStep == TypeOK /\ MemType /\ [LoaderNext]_allVars => MemType'
<1>. SUFFICES ASSUME TypeOK, MemType, [LoaderNext]_allVars
              PROVE  MemType'
  OBVIOUS
<1>1. CASE UNCHANGED mem
  BY <1>1 DEF MemType
<1>2. ASSUME NEW c \in Cells, NEW f \in {"x", "dx", "dy"}, Store(c, f)
      PROVE  MemType'
  BY <1>2, StoreEffect DEF MemType
<1>. QED  BY <1>1, <1>2, MemUnchanged

\* The loader and the signals leave the look-up alone.
LEMMA ReaderAlone ==
    ASSUME [LoaderNext]_allVars
    PROVE  \/ UNCHANGED readerVars
           \/ \E t \in PhoneTexts : StartLookup(t)
           \/ ReaderStep
<1>1. CASE \/ PingFails \/ PingSucceeds \/ NextPage \/ QueryFails \/ QuerySucceeds
           \/ FetchEnds \/ FetchOther \/ NewFails \/ Insert \/ Stored \/ AppendRow
  BY <1>1 DEF PingFails, PingSucceeds, NextPage, QueryFails, QuerySucceeds, FetchEnds,
     FetchOther, NewFails, Insert, Stored, AppendRow
<1>2. ASSUME NEW t \in RowTexts, FetchRow(t)
      PROVE  UNCHANGED readerVars
  BY <1>2 DEF FetchRow
<1>3. ASSUME NEW c \in Cells, NEW f \in {"x", "dx", "dy"}, Store(c, f)
      PROVE  UNCHANGED readerVars
  BY <1>3 DEF Store
<1>4. CASE Exit \/ Finished \/ UNCHANGED allVars
  BY <1>4 DEF Exit, Finished, allVars
<1>. QED
  BY <1>1, <1>2, <1>3, <1>4 DEF LoaderNext, LoaderStep

\* Every step keeps the types of the reader.
LEMMA ReaderLocalStep == MemType /\ ReaderLocal /\ [LoaderNext]_allVars => ReaderLocal'
<1>. SUFFICES ASSUME MemType, ReaderLocal, [LoaderNext]_allVars
              PROVE  ReaderLocal'
  OBVIOUS
<1>. USE CountAssumption, MaxRowsAssumption
     DEF ReaderLocal, ReaderPlaces, Cells, ReaderGoto, Return
<1>1. CASE UNCHANGED readerVars
  BY <1>1 DEF readerVars
<1>2. ASSUME NEW t \in PhoneTexts, StartLookup(t)
      PROVE  ReaderLocal'
  BY <1>2 DEF StartLookup, Offset
<1>3. CASE FindNothing
  BY <1>3 DEF FindNothing, Offset
<1>4. CASE Find
  BY <1>4 DEF Find
<1>5. CASE GuessIndex
  BY <1>5 DEF GuessIndex
<1>6. CASE Compare
  BY <1>6 DEF Compare
<1>7. CASE CompareOutside
  BY <1>7 DEF CompareOutside, Offset
<1>8. CASE ScanCell
  BY <1>8 DEF ScanCell, Offset
<1>9. CASE ReadDx
  <2>1. mem[i].dx \in Offset
    BY <1>9 DEF ReadDx, MemType, Seen, Offset
  <2>. QED  BY <1>9, <2>1 DEF ReadDx
<1>10. CASE ReadDy
  <2>1. mem[i].dy \in Offset
    BY <1>10 DEF ReadDy, MemType, Seen, Offset
  <2>. QED  BY <1>10, <2>1 DEF ReadDy
<1>. QED
  BY <1>1, <1>2, <1>3, <1>4, <1>5, <1>6, <1>7, <1>8, <1>9, <1>10, ReaderAlone DEF ReaderStep

Types == TypeOK /\ LoaderLocal /\ Flags /\ MemType /\ ReaderLocal

\* The types of loader, reader and what the reader sees.
LEMMA TypesInvariant == LoaderSpec => []Types
<1>1. LoaderInit => Flags /\ MemType /\ ReaderLocal
  <2>. SUFFICES ASSUME LoaderInit
                PROVE  Flags /\ MemType /\ ReaderLocal
    OBVIOUS
  <2>1. Flags
    BY DEF LoaderInit, Flags
  <2>2. MemType
    BY MaxRowsAssumption DEF LoaderInit, MemType, Seen
  <2>3. ReaderLocal
    BY CountAssumption DEF LoaderInit, ReaderLocal, ReaderPlaces, Offset
  <2>. QED  BY <2>1, <2>2, <2>3
<1>2. LoaderSpec => []TypeOK
  BY RefinesXArray, TypeCorrect, PTL
<1>3. TypeOK /\ Flags /\ [LoaderNext]_allVars => Flags'
  BY FlagsStep
<1>4. TypeOK /\ MemType /\ [LoaderNext]_allVars => MemType'
  BY MemTypeStep
<1>5. MemType /\ ReaderLocal /\ [LoaderNext]_allVars => ReaderLocal'
  BY ReaderLocalStep
<1>. QED
  BY <1>1, <1>2, <1>3, <1>4, <1>5, LoaderLocalInvariant, PTL DEF LoaderSpec, Types

(* The types of loader and look-up (dbdo.cpp:68-303, CXArray.cpp:126-157): *)
(* among them that no step of the search leaves the array, the guess       *)
(* aside, and that four failed pings end the attempt to link.              *)
THEOREM LoaderTypeCorrect == LoaderSpec => []LoaderTypeOK
<1>1. Types => LoaderTypeOK
  BY DEF Types, LoaderTypeOK, LoaderLocal, Flags, MemType, Seen, ReaderLocal
<1>. QED  BY <1>1, TypesInvariant, PTL

-----------------------------------------------------------------------------
(* Look-ups while the table is loaded in order                             *)

(***************************************************************************)
(* Rows in order are put into empty cells, so that what another thread     *)
(* sees of a cell is the row it is going to hold, or nothing, field by     *)
(* field.                                                                  *)
(***************************************************************************)
InOrderMem ==
    Ascending =>
        \A c \in Cells :
            /\ c >= index => arraylng[c] = Zero
            /\ mem[c].x \in {0, arraylng[c].x}
            /\ mem[c].dx \in {0, arraylng[c].d}
            /\ mem[c].dy \in {0, arraylng[c].d}

\* append of rows in order changes no cell but an empty one.
LEMMA InOrderCells ==
    ASSUME TypeOK, InOrderShape, InOrderMem, NEW x \in Keys, append(x), Ascending',
           NEW c \in Cells
    PROVE  /\ Ascending
           /\ arraylng'[c] = arraylng[c] \/ arraylng[c] = Zero
           /\ c >= index' => arraylng'[c] = Zero
<1>1. Ascending
  BY AppendInOrder
<1>2. AppendFirst(x) \/ AppendLast(x)
  BY AppendInOrder
<1>3. index \in Nat /\ arraylng \in [Cells -> [x : Keys \union {0}, d : 0..MaxRows]]
  BY DEF TypeOK
<1>4. \A b \in Cells : b >= index => arraylng[b] = Zero
  BY <1>1 DEF InOrderMem
<1>5. CASE AppendFirst(x)
  BY <1>1, <1>3, <1>4, <1>5, CountAssumption DEF AppendFirst, Cells
<1>6. CASE AppendLast(x)
  BY <1>1, <1>3, <1>4, <1>6, CountAssumption DEF AppendLast, Cells
<1>. QED  BY <1>2, <1>5, <1>6

\* Every step keeps that a field seen is the array's or empty (InOrderMem).
LEMMA InOrderMemStep ==
    Types /\ InOrderShape /\ InOrderMem /\ [LoaderNext]_allVars => InOrderMem'
<1>. SUFFICES ASSUME Types, InOrderShape, InOrderMem, [LoaderNext]_allVars, Ascending',
                     NEW c \in Cells
              PROVE  /\ c >= index' => arraylng'[c] = Zero
                     /\ mem'[c].x \in {0, arraylng'[c].x}
                     /\ mem'[c].dx \in {0, arraylng'[c].d}
                     /\ mem'[c].dy \in {0, arraylng'[c].d}
  BY DEF InOrderMem
<1>1. CASE AppendRow /\ lngkey \in Keys /\ append(lngkey)
  <2>1. /\ Ascending
        /\ arraylng'[c] = arraylng[c] \/ arraylng[c] = Zero
        /\ c >= index' => arraylng'[c] = Zero
    BY <1>1, InOrderCells DEF Types
  <2>2. mem' = mem
    BY <1>1 DEF AppendRow
  <2>. QED  BY <2>1, <2>2 DEF InOrderMem, Zero
<1>2. CASE UNCHANGED arrayVars
  <2>1. Ascending /\ arraylng' = arraylng /\ index' = index
    BY <1>2 DEF arrayVars, Ascending
  <2>2. CASE UNCHANGED mem
    BY <2>1, <2>2 DEF InOrderMem
  <2>3. ASSUME NEW b \in Cells, NEW f \in {"x", "dx", "dy"}, Store(b, f)
        PROVE  /\ mem'[c].x \in {0, arraylng'[c].x}
               /\ mem'[c].dx \in {0, arraylng'[c].d}
               /\ mem'[c].dy \in {0, arraylng'[c].d}
    <3>1. /\ mem'[c].x = mem[c].x \/ mem'[c].x = arraylng[c].x
          /\ mem'[c].dx = mem[c].dx \/ mem'[c].dx = arraylng[c].d
          /\ mem'[c].dy = mem[c].dy \/ mem'[c].dy = arraylng[c].d
      BY <2>3, StoreEffect DEF Types, Image
    <3>. QED  BY <2>1, <3>1 DEF InOrderMem
  <2>. QED  BY <2>1, <2>2, <2>3, MemUnchanged DEF InOrderMem
<1>. QED  BY <1>1, <1>2, ArrayStep DEF Types

\* Arithmetic: a key with digits is not 0.
LEMMA LongKeyPositive ==
    ASSUME NEW w \in Nat, w >= 1, NEW a \in 0..9, NEW b \in 0..9
    PROVE  100 * w + 10 * a + b # 0
OBVIOUS

\* No position of the region has the key of an empty cell.
LEMMA KeyPositive ==
    ASSUME NEW t, InRegion(t)
    PROVE  chang2uint(t) # 0
<1>1. t.whole \in Nat /\ t.whole >= 1 /\ t.frac \in Seq(0..9)
  BY RegionAssumption DEF InRegion, Text
<1>2. CASE Len(t.frac) = 0
  BY <1>1, <1>2 DEF chang2uint
<1>3. CASE Len(t.frac) = 1
  <2>1. t.frac[1] \in 0..9
    BY <1>1, <1>3
  <2>2. chang2uint(t) = 10 * t.whole + t.frac[1]
    BY <1>3 DEF chang2uint
  <2>. QED  BY <1>1, <2>1, <2>2
<1>4. CASE Len(t.frac) # 0 /\ Len(t.frac) # 1
  <2>1. Len(t.frac) \in Nat
    BY <1>1
  <2>2. 1 <= Len(t.frac) /\ 2 <= Len(t.frac)
    BY <1>4, <2>1, AtLeastTwo, Zenon
  <2>3. 1 \in 1..Len(t.frac) /\ 2 \in 1..Len(t.frac)
    BY <2>1, <2>2
  <2>4. t.frac[1] \in 0..9 /\ t.frac[2] \in 0..9
    BY <1>1, <2>3
  <2>5. chang2uint(t) = 100 * t.whole + 10 * t.frac[1] + t.frac[2]
    BY <1>4 DEF chang2uint
  <2>6. 100 * t.whole + 10 * t.frac[1] + t.frac[2] # 0
    BY <1>1, <2>4, LongKeyPositive, Zenon
  <2>. QED  BY <2>5, <2>6, Zenon
<1>. QED  BY <1>2, <1>3, <1>4

(***************************************************************************)
(* While a look-up reads the offsets, the cell it has chosen is and stays  *)
(* the one of its longitude.                                               *)
(***************************************************************************)
OwnCell ==
    Ascending =>
        /\ rpc \in {"dx", "dy"} => arraylng[i].x = chang2uint(pos)
        /\ rpc = "dy" => got.dx \in {0, arraylng[i].d}

\* The offset of the chosen cell is one of the phone's own place.
LEMMA OwnCellRow ==
    ASSUME Types, Genuine, NEW c \in Cells, arraylng[c].x = chang2uint(pos)
    PROVE  arraylng[c].d \in RowsHere
<1>1. InRegion(pos)
  BY TextsAssumption DEF Types, ReaderLocal
<1>2. chang2uint(pos) \in Keys
  BY <1>1, KeyPositive DEF Types, TypeOK
<1>3. chang2uint(pos) = Hundredths(pos)
  BY <1>1, <1>2, KeyIsPlace
<1>4. arraylng[c].d \in RowsOf(chang2uint(pos))
  BY <1>2, MatchIsRow DEF Types
<1>. QED  BY <1>3, <1>4 DEF RowsOf, RowsHere

Inv == Types /\ Genuine /\ InOrderShape /\ InOrderMem /\ OwnCell /\ OwnPlace

\* Every step keeps the chosen cell, and the offset read, those of the key.
LEMMA OwnPlaceStep == Inv /\ [LoaderNext]_allVars => OwnCell' /\ OwnPlace'
<1>. SUFFICES ASSUME Inv, [LoaderNext]_allVars, Ascending'
              PROVE  OwnCell' /\ OwnPlace'
  BY DEF OwnCell, OwnPlace
<1>. USE DEF Inv
<1>0. InRegion(pos) /\ chang2uint(pos) # 0
  BY TextsAssumption, KeyPositive DEF Types, ReaderLocal
<1>1. CASE AppendRow /\ lngkey \in Keys /\ append(lngkey)
  <2>1. rpc' = rpc /\ pos' = pos /\ i' = i /\ got' = got
    BY <1>1 DEF AppendRow, readerVars
  <2>2. Ascending
    BY <1>1, AppendInOrder DEF Types
  <2>3. rpc \in {"dx", "dy"} => arraylng'[i] = arraylng[i]
    BY <1>0, <1>1, <2>2, InOrderCells DEF Types, ReaderLocal, OwnCell, Zero
  <2>4. RowsHere \subseteq RowsHere'
    <3>1. rows \in Seq(Keys) /\ rows' = Append(rows, lngkey)
      BY <1>1, AppendAddsRow DEF AnotherRow, Types, TypeOK
    <3>2. \A d \in 1..Len(rows) : d \in 1..Len(rows') /\ rows'[d] = rows[d]
      BY <1>1, <3>1
    <3>. QED  BY <2>1, <3>2 DEF RowsHere
  <2>5. OwnCell'
    BY <2>1, <2>2, <2>3 DEF OwnCell
  <2>6. OwnPlace'
    BY <2>1, <2>2, <2>4 DEF OwnPlace
  <2>. QED  BY <2>5, <2>6
<1>2. CASE UNCHANGED arrayVars
  <2>1. Ascending /\ arraylng' = arraylng /\ rows' = rows
    BY <1>2 DEF arrayVars, Ascending
  <2>2. CASE UNCHANGED readerVars
    BY <2>1, <2>2 DEF readerVars, OwnCell, OwnPlace, RowsHere
  <2>3. ASSUME NEW t \in PhoneTexts, StartLookup(t)
        PROVE  OwnCell' /\ OwnPlace'
    BY <2>3 DEF StartLookup, OwnCell, OwnPlace
  <2>4. CASE FindNothing
    BY <2>4 DEF FindNothing, Return, ReaderGoto, OwnCell, OwnPlace
  <2>5. CASE Find \/ GuessIndex
    BY <2>5 DEF Find, GuessIndex, ReaderGoto, OwnCell, OwnPlace
  <2>6. ASSUME i \in Cells, mem[i].x = chang2uint(pos)
        PROVE  arraylng[i].x = chang2uint(pos)
    BY <1>0, <2>1, <2>6 DEF InOrderMem
  <2>7. CASE Compare
    BY <2>1, <2>6, <2>7 DEF Compare, ReaderGoto, OwnCell, OwnPlace
  <2>8. CASE CompareOutside
    BY <2>8 DEF CompareOutside, Return, ReaderGoto, OwnCell, OwnPlace
  <2>9. CASE ScanCell
    <3>1. i < ARRAY_COUNT => i \in Cells
      BY CountAssumption DEF Types, ReaderLocal, Cells
    <3>. QED
      BY <2>1, <2>6, <2>9, <3>1 DEF ScanCell, Return, ReaderGoto, OwnCell, OwnPlace
  <2>10. CASE ReadDx
    <3>1. i \in Cells
      BY <2>10 DEF ReadDx, Types, ReaderLocal
    <3>2. mem[i].dx \in {0, arraylng[i].d}
      BY <2>1, <3>1 DEF InOrderMem
    <3>3. got'.dx = mem[i].dx /\ i' = i /\ pos' = pos /\ rpc' = "dy" /\ rpc = "dx"
      BY <2>10 DEF ReadDx, ReaderGoto, Types, ReaderLocal
    <3>. QED  BY <2>1, <3>2, <3>3 DEF OwnCell, OwnPlace
  <2>11. CASE ReadDy
    <3>1. i \in Cells /\ arraylng[i].x = chang2uint(pos) /\ got.dx \in {0, arraylng[i].d}
      BY <2>1, <2>11 DEF ReadDy, Types, ReaderLocal, OwnCell
    <3>2. mem[i].dy \in {0, arraylng[i].d}
      BY <2>1, <3>1 DEF InOrderMem
    <3>3. arraylng[i].d \in RowsHere
      BY <3>1, OwnCellRow
    <3>4. /\ rpc' = "done" /\ pos' = pos
          /\ got'.dx = got.dx /\ got'.dy = mem[i].dy
      BY <2>11 DEF ReadDy, Return, ReaderGoto
    <3>5. RowsHere' = RowsHere
      BY <2>1, <3>4 DEF RowsHere
    <3>. QED  BY <3>1, <3>2, <3>3, <3>4, <3>5 DEF OwnCell, OwnPlace
  <2>. QED
    BY <2>2, <2>3, <2>4, <2>5, <2>7, <2>8, <2>9, <2>10, <2>11, ReaderAlone DEF ReaderStep
<1>. QED  BY <1>1, <1>2, ArrayStep DEF Types

\* The invariants of the array and of a look-up together.
LEMMA InvInvariant == LoaderSpec => []Inv
<1>1. LoaderInit => InOrderMem /\ OwnCell /\ OwnPlace
  BY DEF LoaderInit, Init, InOrderMem, OwnCell, OwnPlace
<1>2. LoaderSpec => [](Genuine /\ InOrderShape)
  BY RefinesXArray, GenuineInvariant, InOrderInvariant, PTL
<1>3. Types /\ InOrderShape /\ InOrderMem /\ [LoaderNext]_allVars => InOrderMem'
  BY InOrderMemStep
<1>4. Inv /\ [LoaderNext]_allVars => OwnCell' /\ OwnPlace'
  BY OwnPlaceStep
<1>. QED
  BY <1>1, <1>2, <1>3, <1>4, TypesInvariant, PTL DEF LoaderSpec, Inv

(* Ccorrectit.cpp:47-67, dbdo.cpp:217-258, tools.cpp:307-334: for every    *)
(* size of the table, while it is loaded in the order of longitudes and    *)
(* without a lock, no coordinate of a phone is corrected by the offset of  *)
(* another place, in whatever order the stores of append become visible    *)
(* and however many digits the phone sends.                                *)
THEOREM OwnPlaceCorrect == LoaderSpec => []OwnPlace
BY InvInvariant, PTL DEF Inv

-----------------------------------------------------------------------------
(* Look-ups after the table was read                                       *)

(***************************************************************************)
(* When the loader has ended nothing is stored any more; what was appended *)
(* is visible, and the array is in the map.                                *)
(***************************************************************************)
AtRest ==
    /\ late => lpc \in LoaderEnd
    /\ lpc \notin {"store", "lost"} => Settled
    /\ lpc = "append" => inmap
    /\ Len(rows) > 0 => inmap

\* Every step keeps that no store is outstanding at the end (AtRest).
LEMMA AtRestStep == Types /\ AtRest /\ [LoaderNext]_allVars => AtRest'
<1>. SUFFICES ASSUME Types, AtRest, [LoaderNext]_allVars
              PROVE  AtRest'
  OBVIOUS
<1>. USE DEF AtRest, LoaderEnd, Settled, Image
<1>1. CASE \/ PingFails \/ PingSucceeds \/ NextPage \/ QueryFails \/ QuerySucceeds
           \/ FetchEnds \/ FetchOther
  BY <1>1 DEF PingFails, PingSucceeds, NextPage, QueryFails, QuerySucceeds, FetchEnds,
     FetchOther, arrayVars, readerVars
<1>2. ASSUME NEW t \in RowTexts, FetchRow(t)
      PROVE  AtRest'
  BY <1>2 DEF FetchRow, arrayVars, readerVars
<1>3. CASE NewFails \/ Insert
  BY <1>3 DEF NewFails, Insert, arrayVars, readerVars
<1>4. CASE AppendRow
  BY <1>4 DEF AppendRow, readerVars
<1>5. ASSUME NEW c \in Cells, NEW f \in {"x", "dx", "dy"}, Store(c, f)
      PROVE  AtRest'
  BY <1>5 DEF Store, arrayVars, loaderVars, readerVars
<1>6. CASE Stored
  BY <1>6 DEF Stored, arrayVars, readerVars
<1>7. ASSUME NEW t \in PhoneTexts, StartLookup(t)
      PROVE  AtRest'
  BY <1>7 DEF StartLookup, arrayVars, loaderVars
<1>8. CASE ReaderStep
  BY <1>8 DEF ReaderStep, FindNothing, Find, GuessIndex, Compare, CompareOutside,
     ScanCell, ReadDx, ReadDy, Return, ReaderGoto, arrayVars, loaderVars
<1>9. CASE Exit \/ Finished \/ UNCHANGED allVars
  <2>1. UNCHANGED <<arrayVars, loaderVars, inmap, mem, readerVars>>
    BY <1>9 DEF Exit, Finished, allVars
  <2>. QED  BY <2>1 DEF arrayVars, loaderVars, readerVars
<1>. QED
  BY <1>1, <1>2, <1>3, <1>4, <1>5, <1>6, <1>7, <1>8, <1>9 DEF LoaderNext, LoaderStep

\* A look-up the theorem speaks of.
Known ==
    /\ late /\ lpc = "done"
    /\ Ascending /\ Len(rows) <= ARRAY_COUNT
    /\ Padded(pos) /\ RowsHere # {}

KnownInv ==
    Known =>
        /\ rpc = "compare" => i \in Cells
        /\ rpc = "scan" => \A c \in Cells : c < i => arraylng[c].x # chang2uint(pos)
        /\ rpc = "dy" => got.dx = arraylng[i].d
        /\ rpc = "done" => got.dx \in RowsHere /\ got.dy = got.dx

\* Arithmetic: two at least.
LEMMA NotBelowTwo ==
    ASSUME NEW k \in Nat, k >= 2
    PROVE  k # 0 /\ k # 1 /\ 1 <= k /\ 2 <= k
OBVIOUS

\* Arithmetic: a difference that is an index.
LEMMA DifferenceInside ==
    ASSUME NEW j \in Nat, NEW k \in Nat, j <= k, NEW count \in Nat, k - j < count
    PROVE  k - j \in 0..(count - 1)
OBVIOUS

\* With nothing outstanding the fields seen are those of the array.
LEMMA ImageFields ==
    ASSUME NEW c \in Cells, \A b \in Cells : mem[b] = Image(b)
    PROVE  mem[c].x = arraylng[c].x /\ mem[c].dx = arraylng[c].d /\ mem[c].dy = arraylng[c].d
<1>1. mem[c] = Image(c)
  BY Zenon
<1>. QED  BY <1>1 DEF Image

\* With two digits the key is the position in hundredths.
LEMMA PaddedKey ==
    ASSUME NEW t, InRegion(t), Padded(t)
    PROVE  chang2uint(t) = Hundredths(t)
<1>1. Len(t.frac) \in Nat /\ Len(t.frac) >= 2
  BY DEF InRegion, Text, Padded
<1>2. Len(t.frac) # 0 /\ Len(t.frac) # 1 /\ 1 <= Len(t.frac) /\ 2 <= Len(t.frac)
  BY <1>1, NotBelowTwo, Zenon
<1>3. chang2uint(t) = 100 * t.whole + 10 * t.frac[1] + t.frac[2]
  BY <1>2 DEF chang2uint
<1>4. Digit(t, 1) = t.frac[1] /\ Digit(t, 2) = t.frac[2]
  BY <1>2, Zenon DEF Digit
<1>. QED  BY <1>3, <1>4 DEF Hundredths

\* The array has a cell of the place, and the guess stays inside it.
LEMMA KnownCell ==
    ASSUME Inv, AtRest, Known
    PROVE  /\ inmap
           /\ \E c \in Cells : arraylng[c].x = chang2uint(pos)
           /\ chang2uint(pos) - mem[0].x \in Cells
           /\ \A c \in Cells : mem[c] = Image(c)
<1>. USE CountAssumption, KeysAssumption DEF Inv
<1>1. chang2uint(pos) = Hundredths(pos)
  BY TextsAssumption, PaddedKey DEF Known, Types, ReaderLocal
<1>2. PICK d \in 1..Len(rows) : rows[d] = chang2uint(pos)
  BY <1>1 DEF Known, RowsHere
<1>3. rows \in Seq(Keys) /\ Len(rows) \in Nat /\ index \in Nat
  BY DEF Types, TypeOK
<1>4. /\ index = Len(rows)
      /\ \A c \in 0..(index - 1) : arraylng[c] = [x |-> rows[c + 1], d |-> c + 1]
  BY <1>3 DEF Known, InOrderShape, Filled
<1>5. \A c \in Cells : mem[c] = Image(c)
  BY DEF Known, AtRest, Settled
<1>6. d - 1 \in Cells /\ arraylng[d - 1].x = chang2uint(pos)
  <2>1. d - 1 \in 0..(index - 1) /\ (d - 1) + 1 = d /\ d - 1 \in Cells
    BY <1>3, <1>4 DEF Known, Cells
  <2>2. arraylng[d - 1] = [x |-> rows[(d - 1) + 1], d |-> (d - 1) + 1]
    BY <1>4, <2>1
  <2>. QED  BY <1>2, <2>1, <2>2
<1>7. mem[0].x = rows[1]
  <2>1. 0 \in 0..(index - 1) /\ 0 \in Cells /\ 0 + 1 = 1
    BY <1>3, <1>4 DEF Cells
  <2>2. arraylng[0] = [x |-> rows[0 + 1], d |-> 0 + 1]
    BY <1>4, <2>1
  <2>3. arraylng[0].x = rows[1]
    BY <2>1, <2>2
  <2>4. mem[0].x = arraylng[0].x
    BY <1>5, <2>1, ImageFields
  <2>. QED  BY <2>3, <2>4, Zenon
<1>8. chang2uint(pos) - rows[1] \in Cells
  <2>1. 1 \in 1..Len(rows) /\ d \in 1..Len(rows)
    BY <1>3
  <2>2. rows[1] \in Keys /\ rows[d] \in Keys
    BY <1>3, <2>1
  <2>3. rows[1] \in Nat /\ rows[d] \in Nat /\ rows[d] - rows[1] < ARRAY_COUNT
    BY <2>2
  <2>4. rows[1] <= rows[d]
    <3>1. CASE d = 1
      BY <2>3, <3>1
    <3>2. CASE d # 1
      <4>1. 1 < d
        BY <2>1, <3>2
      <4>2. rows[1] <= rows[d]
        BY <2>1, <4>1 DEF Known, Ascending
      <4>. QED  BY <2>3, <4>2
    <3>. QED  BY <3>1, <3>2
  <2>5. rows[d] - rows[1] \in 0..(ARRAY_COUNT - 1)
    BY <2>3, <2>4, DifferenceInside
  <2>. QED  BY <1>2, <2>5 DEF Cells
<1>9. inmap
  BY <1>3 DEF AtRest
<1>. QED  BY <1>5, <1>6, <1>7, <1>8, <1>9

\* A loader that has ended stays so: such a look-up was one from its start.
LEMMA KnownBefore ==
    ASSUME Types, AtRest, [LoaderNext]_allVars, Known'
    PROVE  \/ rpc' = "find"
           \/ Known /\ UNCHANGED <<arraylng, mem, rows, pos>> /\ (ReaderStep \/ UNCHANGED readerVars)
<1>. USE DEF Known
<1>1. CASE \/ PingFails \/ PingSucceeds \/ NextPage \/ QueryFails \/ QuerySucceeds
           \/ FetchEnds \/ FetchOther \/ NewFails \/ Insert \/ AppendRow \/ Stored
  BY <1>1 DEF PingFails, PingSucceeds, NextPage, QueryFails, QuerySucceeds, FetchEnds,
     FetchOther, NewFails, Insert, AppendRow, Stored, AtRest, LoaderEnd, readerVars
<1>2. ASSUME NEW t \in RowTexts, FetchRow(t)
      PROVE  FALSE
  BY <1>2 DEF FetchRow
<1>3. ASSUME NEW c \in Cells, NEW f \in {"x", "dx", "dy"}, Store(c, f)
      PROVE  FALSE
  BY <1>3 DEF Store, loaderVars
<1>4. ASSUME NEW t \in PhoneTexts, StartLookup(t)
      PROVE  rpc' = "find"
  BY <1>4 DEF StartLookup
<1>5. CASE ReaderStep
  <2>1. UNCHANGED <<arrayVars, loaderVars, mem, pos, late>>
    BY <1>5 DEF ReaderStep, FindNothing, Find, GuessIndex, Compare, CompareOutside,
       ScanCell, ReadDx, ReadDy, Return, ReaderGoto
  <2>. QED  BY <1>5, <2>1 DEF arrayVars, loaderVars, Ascending, RowsHere
<1>6. CASE Exit \/ Finished \/ UNCHANGED allVars
  <2>1. UNCHANGED <<arrayVars, loaderVars, mem, readerVars>>
    BY <1>6 DEF Exit, Finished, allVars
  <2>. QED  BY <2>1 DEF arrayVars, loaderVars, readerVars, Ascending, RowsHere
<1>. QED
  BY <1>1, <1>2, <1>3, <1>4, <1>5, <1>6 DEF LoaderNext, LoaderStep

\* Every step of a look-up after the loading keeps KnownInv.
LEMMA KnownStep == Inv /\ AtRest /\ KnownInv /\ [LoaderNext]_allVars => KnownInv'
<1>. SUFFICES ASSUME Inv, AtRest, KnownInv, [LoaderNext]_allVars, Known'
              PROVE  /\ rpc' = "compare" => i' \in Cells
                     /\ rpc' = "scan" => \A c \in Cells : c < i' => arraylng'[c].x # chang2uint(pos')
                     /\ rpc' = "dy" => got'.dx = arraylng'[i'].d
                     /\ rpc' = "done" => got'.dx \in RowsHere' /\ got'.dy = got'.dx
  BY DEF KnownInv
<1>1. CASE rpc' = "find"
  BY <1>1
<1>2. CASE /\ Known /\ UNCHANGED <<arraylng, mem, rows, pos>>
           /\ ReaderStep \/ UNCHANGED readerVars
  <2>1. /\ inmap
        /\ \E c \in Cells : arraylng[c].x = chang2uint(pos)
        /\ chang2uint(pos) - mem[0].x \in Cells
        /\ \A c \in Cells : mem[c] = Image(c)
    BY <1>2, KnownCell
  <2>2. /\ rpc = "compare" => i \in Cells
        /\ rpc = "scan" => \A c \in Cells : c < i => arraylng[c].x # chang2uint(pos)
        /\ rpc = "dy" => got.dx = arraylng[i].d
        /\ rpc = "done" => got.dx \in RowsHere /\ got.dy = got.dx
    BY <1>2 DEF KnownInv
  <2>3. UNCHANGED <<arraylng, pos>> /\ RowsHere' = RowsHere
    BY <1>2 DEF RowsHere
  <2>4. CASE UNCHANGED readerVars
    BY <2>2, <2>3, <2>4 DEF readerVars
  <2>5. CASE FindNothing
    BY <1>2, <2>1, <2>5 DEF FindNothing, Known
  <2>6. CASE Find
    BY <2>6 DEF Find, ReaderGoto
  <2>7. CASE GuessIndex
    BY <2>1, <2>7 DEF GuessIndex, ReaderGoto
  <2>8. CASE Compare
    BY <2>8, CountAssumption DEF Compare, ReaderGoto, Cells
  <2>9. CASE CompareOutside
    BY <2>2, <2>9 DEF CompareOutside
  <2>10. CASE ScanCell
    <3>1. i \in 0..ARRAY_COUNT /\ rpc = "scan"
      BY <2>10 DEF ScanCell, Inv, Types, ReaderLocal
    <3>2. i # ARRAY_COUNT
      <4>. SUFFICES ASSUME i = ARRAY_COUNT
                    PROVE  FALSE
        OBVIOUS
      <4>1. \A c \in Cells : c < i
        BY CountAssumption DEF Cells
      <4>. QED  BY <2>1, <2>2, <3>1, <4>1
    <3>3. i \in Cells
      BY <3>1, <3>2, CountAssumption DEF Cells
    <3>4. mem[i].x = arraylng[i].x
      BY <2>1, <3>3, ImageFields
    <3>5. CASE rpc' = "dx"
      BY <3>5
    <3>6. CASE rpc' = "scan" /\ i' = i + 1 /\ mem[i].x # chang2uint(pos)
      <4>1. \A c \in Cells : c < i + 1 => c < i \/ c = i
        BY <3>3, CountAssumption DEF Cells
      <4>. QED  BY <2>2, <2>3, <3>1, <3>4, <3>6, <4>1
    <3>. QED  BY <2>10, <3>2, <3>5, <3>6 DEF ScanCell, ReaderGoto
  <2>11. CASE ReadDx
    <3>1. i \in Cells /\ rpc' = "dy" /\ i' = i /\ got'.dx = mem[i].dx
      BY <2>11 DEF ReadDx, ReaderGoto, Inv, Types, ReaderLocal
    <3>2. mem[i].dx = arraylng[i].d
      BY <2>1, <3>1, ImageFields
    <3>. QED  BY <2>3, <3>1, <3>2
  <2>12. CASE ReadDy
    <3>1. /\ i \in Cells /\ rpc = "dy" /\ rpc' = "done"
          /\ got'.dx = got.dx /\ got'.dy = mem[i].dy
      BY <2>12 DEF ReadDy, Return, ReaderGoto, Inv, Types, ReaderLocal
    <3>2. mem[i].dy = arraylng[i].d
      BY <2>1, <3>1, ImageFields
    <3>3. arraylng[i].x = chang2uint(pos)
      BY <1>2, <3>1 DEF Inv, OwnCell, Known
    <3>4. arraylng[i].d \in RowsHere
      BY <3>1, <3>3, OwnCellRow DEF Inv
    <3>. QED  BY <2>2, <2>3, <3>1, <3>2, <3>4
  <2>. QED
    BY <1>2, <2>4, <2>5, <2>6, <2>7, <2>8, <2>9, <2>10, <2>11, <2>12 DEF ReaderStep
<1>. QED  BY <1>1, <1>2, KnownBefore DEF Inv

(* CXArray.cpp:126-157, dbdo.cpp:108-300: for every size of the table, a   *)
(* look-up that begins after the table was read in order and fits the      *)
(* array finds the row of its place, if the table has one, and takes both  *)
(* offsets from it.                                                        *)
THEOREM SettledLookupCorrect == LoaderSpec => []SettledLookup
<1>1. LoaderInit => AtRest /\ KnownInv
  <2>. SUFFICES ASSUME LoaderInit
                PROVE  AtRest /\ KnownInv
    OBVIOUS
  <2>1. AtRest
    BY DEF LoaderInit, Init, AtRest, Settled, Image, Zero
  <2>2. KnownInv
    BY DEF LoaderInit, KnownInv
  <2>. QED  BY <2>1, <2>2
<1>2. Inv /\ AtRest /\ [LoaderNext]_allVars => AtRest'
  BY AtRestStep DEF Inv
<1>3. KnownInv => SettledLookup
  BY DEF KnownInv, Known, SettledLookup
<1>. QED
  BY <1>1, <1>2, <1>3, InvInvariant, KnownStep, PTL DEF LoaderSpec

-----------------------------------------------------------------------------
(* Look-ups of places that are loaded already                              *)

(***************************************************************************)
(* While append's stores are under way, only the cell of the last row may  *)
(* be seen half stored; the cells up to the rows a look-up counts on were  *)
(* visible when it began, and stay as they are.                            *)
(***************************************************************************)
VisibleInv ==
    /\ atStart \subseteq 1..Len(rows)
    /\ lpc = "lost" => overrun
    /\ Ascending =>
          /\ lpc # "lost" =>
                \A c \in Cells : mem[c] = Image(c) \/ (lpc = "store" /\ c + 1 >= Len(rows))
          /\ \A c \in Cells, d \in atStart : c < d => mem[c] = Image(c)

\* The cells of the rows before the last are filled, and append leaves them alone.
LEMMA FilledStays ==
    ASSUME Inv, NEW x \in Keys, append(x), Ascending', NEW c \in Cells, c < Len(rows)
    PROVE  arraylng'[c] = arraylng[c]
<1>. USE CountAssumption, KeysAssumption DEF Inv
<1>1. rows \in Seq(Keys) /\ Len(rows) \in Nat /\ index \in Nat
  BY DEF Types, TypeOK
<1>2. /\ Ascending
      /\ arraylng'[c] = arraylng[c] \/ arraylng[c] = Zero
  BY InOrderCells DEF Types
<1>3. c \in 0..(index - 1) /\ c + 1 \in 1..Len(rows)
  BY <1>1, <1>2 DEF InOrderShape, Filled, Cells
<1>4. arraylng[c] = [x |-> rows[c + 1], d |-> c + 1]
  BY <1>2, <1>3 DEF InOrderShape, Filled
<1>5. rows[c + 1] \in Keys
  BY <1>1, <1>3
<1>. QED  BY <1>2, <1>4, <1>5 DEF Zero

\* A store is one to a cell that is not fully visible.
LEMMA StoreElsewhere ==
    ASSUME MemType, NEW c \in Cells, NEW f \in {"x", "dx", "dy"}, Store(c, f),
           NEW b \in Cells, mem[b] = Image(b)
    PROVE  mem'[b] = Image(b)'
<1>1. mem[c][f] # Image(c)[f] /\ mem' = [mem EXCEPT ![c][f] = Image(c)[f]] /\ arraylng' = arraylng
  BY DEF Store, arrayVars
<1>2. b # c
  BY <1>1, Zenon
<1>3. mem'[b] = mem[b]
  BY <1>1, <1>2 DEF MemType
<1>4. Image(b)' = Image(b)
  BY <1>1 DEF Image
<1>. QED  BY <1>3, <1>4, Zenon

\* The loader between two stores, and the other steps that leave the array alone.
LEMMA StillVisible ==
    ASSUME VisibleInv, UNCHANGED <<arrayVars, mem, atStart>>,
           lpc' = "lost" => lpc = "lost",
           lpc = "store" => (lpc' = "store" \/ Settled),
           lpc = "lost" => lpc' = "lost"
    PROVE  VisibleInv'
<1>1. UNCHANGED <<arraylng, rows, overrun, mem, atStart>>
  BY DEF arrayVars
<1>2. \A c \in Cells : Image(c)' = Image(c)
  BY <1>1 DEF Image
<1>3. Ascending' = Ascending
  BY <1>1 DEF Ascending
<1>. QED  BY <1>1, <1>2, <1>3 DEF VisibleInv, Settled

\* Every step keeps what look-ups count on visible.
LEMMA VisibleStep == Inv /\ AtRest /\ VisibleInv /\ [LoaderNext]_allVars => VisibleInv'
<1>. SUFFICES ASSUME Inv, AtRest, VisibleInv, [LoaderNext]_allVars
              PROVE  VisibleInv'
  OBVIOUS
<1>0. rows \in Seq(Keys) /\ Len(rows) \in Nat
  BY DEF Inv, Types, TypeOK
<1>1. CASE \/ PingFails \/ PingSucceeds \/ NextPage \/ QueryFails \/ QuerySucceeds
           \/ FetchEnds \/ FetchOther \/ NewFails \/ Insert \/ Stored
  <2>1. /\ UNCHANGED <<arrayVars, mem, atStart>> /\ lpc # "lost" /\ lpc' # "lost"
        /\ lpc = "store" => Settled
    BY <1>1 DEF PingFails, PingSucceeds, NextPage, QueryFails, QuerySucceeds, FetchEnds,
       FetchOther, NewFails, Insert, Stored, readerVars
  <2>. QED  BY <2>1, StillVisible
<1>2. ASSUME NEW t \in RowTexts, FetchRow(t)
      PROVE  VisibleInv'
  <2>1. UNCHANGED <<arrayVars, mem, atStart>> /\ lpc = "fetch" /\ lpc' # "lost"
    BY <1>2 DEF FetchRow, readerVars
  <2>. QED  BY <2>1, StillVisible
<1>3. CASE AppendRow /\ lngkey \in Keys /\ append(lngkey)
  <2>1. /\ lpc = "append" /\ UNCHANGED <<mem, atStart>>
        /\ lpc' = IF overrun' THEN "lost" ELSE "store"
    BY <1>3 DEF AppendRow, readerVars
  <2>2. rows' = Append(rows, lngkey) /\ Len(rows') = Len(rows) + 1
    BY <1>0, <1>3, AppendAddsRow DEF AnotherRow
  <2>3. atStart' \subseteq 1..Len(rows')
    BY <1>0, <2>1, <2>2 DEF VisibleInv
  <2>4. Settled
    BY <2>1 DEF AtRest
  <2>5. ASSUME Ascending', NEW c \in Cells, c < Len(rows)
        PROVE  mem'[c] = Image(c)'
    <3>1. arraylng'[c] = arraylng[c]
      BY <1>3, <2>5, FilledStays
    <3>. QED  BY <2>1, <2>4, <3>1 DEF Settled, Image
  <2>6. ASSUME NEW c \in Cells
        PROVE  c < Len(rows) \/ c + 1 >= Len(rows')
    BY <1>0, <2>2, CountAssumption DEF Cells
  <2>7. ASSUME NEW c \in Cells, NEW d \in atStart, c < d
        PROVE  c < Len(rows)
    <3>1. d \in 1..Len(rows)
      BY DEF VisibleInv
    <3>. QED  BY <1>0, <2>7, <3>1, CountAssumption DEF Cells
  <2>. QED  BY <2>1, <2>3, <2>5, <2>6, <2>7 DEF VisibleInv
<1>4. ASSUME NEW b \in Cells, NEW f \in {"x", "dx", "dy"}, Store(b, f)
      PROVE  VisibleInv'
  <2>1. UNCHANGED <<arrayVars, loaderVars, readerVars>> /\ lpc = "store" /\ lpc' = "store"
    BY <1>4 DEF Store, loaderVars
  <2>2. UNCHANGED <<rows, atStart>> /\ Ascending' = Ascending
    BY <2>1 DEF arrayVars, readerVars, Ascending
  <2>3. ASSUME NEW c \in Cells, mem[c] = Image(c)
        PROVE  mem'[c] = Image(c)'
    BY <1>4, <2>3, StoreElsewhere DEF Inv, Types
  <2>. QED  BY <2>1, <2>2, <2>3 DEF VisibleInv
<1>5. ASSUME NEW t \in PhoneTexts, StartLookup(t)
      PROVE  VisibleInv'
  <2>1. /\ UNCHANGED <<arrayVars, lpc, mem>> /\ ~overrun
        /\ atStart' = {d \in 1..Len(rows) :
                          rows[d] = Hundredths(t) /\ (lpc = "store" => d < Len(rows))}
    BY <1>5 DEF StartLookup, VisibleRows, loaderVars
  <2>2. UNCHANGED <<arraylng, rows, overrun>> /\ Ascending' = Ascending
    BY <2>1 DEF arrayVars, Ascending
  <2>3. \A c \in Cells : Image(c)' = Image(c)
    BY <2>2 DEF Image
  <2>4. lpc # "lost"
    BY <2>1 DEF VisibleInv
  <2>5. ASSUME Ascending, NEW c \in Cells, NEW d \in atStart', c < d
        PROVE  mem[c] = Image(c)
    <3>1. d \in 1..Len(rows) /\ (lpc = "store" => d < Len(rows))
      BY <2>1
    <3>2. ~(lpc = "store" /\ c + 1 >= Len(rows))
      BY <1>0, <2>5, <3>1, CountAssumption DEF Cells
    <3>. QED  BY <2>4, <2>5, <3>2 DEF VisibleInv
  <2>. QED  BY <2>1, <2>2, <2>3, <2>4, <2>5 DEF VisibleInv
<1>6. CASE ReaderStep \/ Exit \/ Finished \/ UNCHANGED allVars
  <2>1. UNCHANGED <<arrayVars, lpc, mem, atStart>>
    BY <1>6 DEF ReaderStep, FindNothing, Find, GuessIndex, Compare, CompareOutside,
       ScanCell, ReadDx, ReadDy, Return, ReaderGoto, Exit, Finished, allVars, loaderVars,
       readerVars
  <2>. QED  BY <2>1, StillVisible
<1>7. AppendRow => AppendRow /\ lngkey \in Keys /\ append(lngkey)
  BY DEF AppendRow, Inv, Types, LoaderLocal
<1>. QED
  BY <1>1, <1>2, <1>3, <1>4, <1>5, <1>6, <1>7 DEF LoaderNext, LoaderStep

\* A look-up of a place that has a row in the array since before it began.
Present ==
    /\ Ascending /\ Padded(pos)
    /\ RowsHere = atStart /\ \E d \in atStart : d <= ARRAY_COUNT

(***************************************************************************)
(* The search in terms of rows: the cells passed by are not those of the   *)
(* place, and the one chosen is.                                           *)
(***************************************************************************)
PresentInv ==
    Present =>
        /\ rpc = "compare" => i \in Cells
        /\ rpc = "scan" => \A c \in Cells : c < i => c + 1 \notin atStart
        /\ rpc \in {"dx", "dy"} => i + 1 \in atStart
        /\ rpc = "dy" => got.dx = i + 1
        /\ rpc = "done" => \/ got.dx \in atStart /\ got.dy = got.dx
                           \/ got = [dx |-> Original, dy |-> Original]

\* The cells that show the key are those of the rows there from the start, and
\* such a cell shows the row's offsets; the guess stays inside the array.
LEMMA PresentCells ==
    ASSUME Inv, VisibleInv, Present
    PROVE  /\ \A c \in Cells : mem[c].x = chang2uint(pos) <=> c + 1 \in atStart
           /\ \A c \in Cells : c + 1 \in atStart => mem[c].dx = c + 1 /\ mem[c].dy = c + 1
           /\ \E c \in Cells : c + 1 \in atStart
           /\ chang2uint(pos) - mem[0].x \in Cells
<1>. USE CountAssumption, KeysAssumption DEF Inv
<1>1. chang2uint(pos) = Hundredths(pos) /\ chang2uint(pos) # 0
  BY TextsAssumption, PaddedKey, KeyPositive DEF Present, Types, ReaderLocal
<1>2. rows \in Seq(Keys) /\ Len(rows) \in Nat /\ index \in Nat
  BY DEF Types, TypeOK
<1>3. /\ index <= ARRAY_COUNT /\ index <= Len(rows)
      /\ index < ARRAY_COUNT => index = Len(rows)
      /\ \A c \in 0..(index - 1) : arraylng[c] = [x |-> rows[c + 1], d |-> c + 1]
  BY DEF Present, InOrderShape, Filled
<1>4. \A d \in Int : d \in atStart <=> d \in 1..Len(rows) /\ rows[d] = chang2uint(pos)
  BY <1>1 DEF Present, RowsHere
<1>5. ASSUME NEW c \in Cells, c + 1 \in atStart
      PROVE  /\ arraylng[c] = [x |-> chang2uint(pos), d |-> c + 1]
             /\ mem[c] = Image(c)
  <2>1. c \in Int /\ c < c + 1 /\ c + 1 \in Int
    BY DEF Cells
  <2>2. c + 1 \in 1..Len(rows) /\ rows[c + 1] = chang2uint(pos)
    BY <1>4, <1>5, <2>1
  <2>3. c \in 0..(index - 1)
    BY <1>2, <1>3, <2>2 DEF Cells
  <2>4. mem[c] = Image(c)
    BY <1>5, <2>1 DEF VisibleInv, Present
  <2>. QED  BY <1>3, <2>2, <2>3, <2>4
<1>6. ASSUME NEW c \in Cells, mem[c].x = chang2uint(pos)
      PROVE  c + 1 \in atStart
  <2>1. arraylng[c].x = chang2uint(pos) /\ (c >= index => arraylng[c] = Zero)
    BY <1>1, <1>6 DEF InOrderMem, Present
  <2>2. c \in 0..(index - 1)
    BY <1>1, <1>2, <2>1 DEF Zero, Cells
  <2>3. arraylng[c] = [x |-> rows[c + 1], d |-> c + 1]
    BY <1>3, <2>2
  <2>4. rows[c + 1] = chang2uint(pos)
    BY <2>1, <2>3
  <2>5. c + 1 \in 1..Len(rows) /\ c + 1 \in Int
    BY <1>2, <1>3, <2>2
  <2>. QED  BY <1>4, <2>4, <2>5
<1>7. PICK d \in 1..Len(rows) : d \in atStart /\ d <= ARRAY_COUNT /\ rows[d] = chang2uint(pos)
  <2>1. PICK d \in atStart : d <= ARRAY_COUNT
    BY DEF Present
  <2>2. d \in Int
    BY <1>2 DEF VisibleInv
  <2>. QED  BY <1>4, <2>1, <2>2
<1>8. d - 1 \in Cells /\ (d - 1) + 1 \in atStart
  BY <1>2, <1>7 DEF Cells
<1>9. mem[0].x = rows[1]
  <2>1. 0 \in Cells /\ 0 < d /\ 0 \in 0..(index - 1) /\ 0 + 1 = 1
    BY <1>2, <1>3, <1>7 DEF Cells
  <2>2. mem[0] = Image(0)
    BY <1>7, <2>1 DEF VisibleInv, Present
  <2>3. arraylng[0] = [x |-> rows[0 + 1], d |-> 0 + 1]
    BY <1>3, <2>1
  <2>. QED  BY <2>1, <2>2, <2>3 DEF Image
<1>10. rows[d] - rows[1] \in Cells
  <2>1. 1 \in 1..Len(rows)
    BY <1>2, <1>7
  <2>2. rows[1] \in Keys /\ rows[d] \in Keys
    BY <1>2, <1>7, <2>1
  <2>3. rows[1] \in Nat /\ rows[d] \in Nat /\ rows[d] - rows[1] < ARRAY_COUNT
    BY <2>2
  <2>4. rows[1] <= rows[d]
    <3>1. CASE d = 1
      BY <2>3, <3>1
    <3>2. CASE d # 1
      <4>1. 1 < d
        BY <1>7, <3>2
      <4>2. rows[1] <= rows[d]
        BY <1>7, <2>1, <4>1 DEF Present, Ascending
      <4>. QED  BY <2>3, <4>2
    <3>. QED  BY <3>1, <3>2
  <2>5. rows[d] - rows[1] \in 0..(ARRAY_COUNT - 1)
    BY <2>3, <2>4, DifferenceInside
  <2>. QED  BY <2>5 DEF Cells
<1>11. \A c \in Cells : c + 1 \in atStart =>
          mem[c].x = chang2uint(pos) /\ mem[c].dx = c + 1 /\ mem[c].dy = c + 1
  <2>. SUFFICES ASSUME NEW c \in Cells, c + 1 \in atStart
                PROVE  mem[c].x = chang2uint(pos) /\ mem[c].dx = c + 1 /\ mem[c].dy = c + 1
    OBVIOUS
  <2>1. arraylng[c] = [x |-> chang2uint(pos), d |-> c + 1] /\ mem[c] = Image(c)
    BY <1>5
  <2>. QED  BY <2>1 DEF Image
<1>. QED  BY <1>6, <1>7, <1>8, <1>9, <1>10, <1>11

\* Such a look-up has just begun, or was one before, and the loader's steps leave
\* it alone.
LEMMA PresentBefore ==
    ASSUME Inv, VisibleInv, [LoaderNext]_allVars, Present'
    PROVE  \/ rpc' = "find"
           \/ Present /\ (ReaderStep \/ UNCHANGED readerVars) /\ UNCHANGED <<pos, atStart>>
<1>1. CASE AppendRow /\ lngkey \in Keys /\ append(lngkey)
  <2>1. UNCHANGED readerVars /\ UNCHANGED <<pos, atStart>>
    BY <1>1 DEF AppendRow, readerVars
  <2>2. Ascending
    BY <1>1, AppendInOrder DEF Inv, Types, Present
  <2>3. rows \in Seq(Keys) /\ rows' = Append(rows, lngkey) /\ Len(rows) \in Nat
    BY <1>1, AppendAddsRow DEF AnotherRow, Inv, Types, TypeOK
  <2>4. \A d \in 1..Len(rows) : d \in 1..Len(rows') /\ rows'[d] = rows[d]
    BY <1>1, <2>3
  <2>5. RowsHere = RowsHere' \cap 1..Len(rows)
    BY <2>1, <2>4 DEF RowsHere
  <2>6. RowsHere = atStart
    BY <2>1, <2>5 DEF Present, VisibleInv
  <2>. QED  BY <2>1, <2>2, <2>6 DEF Present
<1>2. CASE UNCHANGED arrayVars
  <2>1. UNCHANGED rows /\ Ascending' = Ascending
    BY <1>2 DEF arrayVars, Ascending
  <2>2. ASSUME NEW t \in PhoneTexts, StartLookup(t)
        PROVE  rpc' = "find"
    BY <2>2 DEF StartLookup
  <2>3. CASE ReaderStep \/ UNCHANGED readerVars
    <3>1. UNCHANGED <<pos, atStart>>
      BY <2>3 DEF ReaderStep, FindNothing, Find, GuessIndex, Compare, CompareOutside,
         ScanCell, ReadDx, ReadDy, Return, ReaderGoto, readerVars
    <3>. QED  BY <2>1, <2>3, <3>1 DEF Present, RowsHere
  <2>. QED  BY <2>2, <2>3, ReaderAlone
<1>. QED  BY <1>1, <1>2, ArrayStep DEF Inv, Types

\* Every step of such a look-up keeps PresentInv.
LEMMA PresentStep == Inv /\ VisibleInv /\ PresentInv /\ [LoaderNext]_allVars => PresentInv'
<1>. SUFFICES ASSUME Inv, VisibleInv, PresentInv, [LoaderNext]_allVars, Present'
              PROVE  /\ rpc' = "compare" => i' \in Cells
                     /\ rpc' = "scan" => \A c \in Cells : c < i' => c + 1 \notin atStart'
                     /\ rpc' \in {"dx", "dy"} => i' + 1 \in atStart'
                     /\ rpc' = "dy" => got'.dx = i' + 1
                     /\ rpc' = "done" => \/ got'.dx \in atStart' /\ got'.dy = got'.dx
                                         \/ got' = [dx |-> Original, dy |-> Original]
  BY DEF PresentInv
<1>1. CASE rpc' = "find"
  BY <1>1
<1>2. CASE /\ Present /\ UNCHANGED <<pos, atStart>>
           /\ ReaderStep \/ UNCHANGED readerVars
  <2>1. /\ \A c \in Cells : mem[c].x = chang2uint(pos) <=> c + 1 \in atStart
        /\ \A c \in Cells : c + 1 \in atStart => mem[c].dx = c + 1 /\ mem[c].dy = c + 1
        /\ \E c \in Cells : c + 1 \in atStart
        /\ chang2uint(pos) - mem[0].x \in Cells
    BY <1>2, PresentCells
  <2>2. /\ rpc = "compare" => i \in Cells
        /\ rpc = "scan" => \A c \in Cells : c < i => c + 1 \notin atStart
        /\ rpc \in {"dx", "dy"} => i + 1 \in atStart
        /\ rpc = "dy" => got.dx = i + 1
        /\ rpc = "done" => \/ got.dx \in atStart /\ got.dy = got.dx
                           \/ got = [dx |-> Original, dy |-> Original]
    BY <1>2 DEF PresentInv
  <2>3. atStart' = atStart
    BY <1>2
  <2>4. CASE UNCHANGED readerVars
    BY <2>2, <2>3, <2>4 DEF readerVars
  <2>5. CASE FindNothing
    BY <2>5 DEF FindNothing, Return, ReaderGoto
  <2>6. CASE Find
    BY <2>6 DEF Find, ReaderGoto
  <2>7. CASE GuessIndex
    BY <2>1, <2>7 DEF GuessIndex, ReaderGoto
  <2>8. CASE Compare
    <3>1. \A c \in Cells : ~(c < 0)
      BY CountAssumption DEF Cells
    <3>2. \/ rpc' = "dx" /\ i' = i /\ i \in Cells /\ mem[i].x = chang2uint(pos)
          \/ rpc' = "scan" /\ i' = 0
      BY <2>8 DEF Compare, ReaderGoto
    <3>. QED  BY <2>1, <2>3, <3>1, <3>2
  <2>9. CASE CompareOutside
    BY <2>2, <2>9 DEF CompareOutside
  <2>10. CASE ScanCell
    <3>1. i \in 0..ARRAY_COUNT /\ rpc = "scan"
      BY <2>10 DEF ScanCell, Inv, Types, ReaderLocal
    <3>2. i # ARRAY_COUNT
      <4>. SUFFICES ASSUME i = ARRAY_COUNT
                    PROVE  FALSE
        OBVIOUS
      <4>1. \A c \in Cells : c < i
        BY CountAssumption DEF Cells
      <4>. QED  BY <2>1, <2>2, <3>1, <4>1
    <3>3. i \in Cells
      BY <3>1, <3>2, CountAssumption DEF Cells
    <3>4. CASE rpc' = "dx" /\ i' = i /\ mem[i].x = chang2uint(pos)
      BY <2>1, <2>3, <3>3, <3>4
    <3>5. CASE rpc' = "scan" /\ i' = i + 1 /\ mem[i].x # chang2uint(pos)
      <4>1. \A c \in Cells : c < i + 1 => c < i \/ c = i
        BY <3>3, CountAssumption DEF Cells
      <4>. QED  BY <2>1, <2>2, <2>3, <3>1, <3>3, <3>5, <4>1
    <3>. QED  BY <2>10, <3>2, <3>4, <3>5 DEF ScanCell, ReaderGoto
  <2>11. CASE ReadDx
    <3>1. rpc = "dx" /\ i \in Cells /\ rpc' = "dy" /\ i' = i /\ got'.dx = mem[i].dx
      BY <2>11 DEF ReadDx, ReaderGoto, Inv, Types, ReaderLocal
    <3>. QED  BY <2>1, <2>2, <2>3, <3>1
  <2>12. CASE ReadDy
    <3>1. /\ i \in Cells /\ rpc = "dy" /\ rpc' = "done"
          /\ got'.dx = got.dx /\ got'.dy = mem[i].dy
      BY <2>12 DEF ReadDy, Return, ReaderGoto, Inv, Types, ReaderLocal
    <3>. QED  BY <2>1, <2>2, <2>3, <3>1
  <2>. QED
    BY <1>2, <2>4, <2>5, <2>6, <2>7, <2>8, <2>9, <2>10, <2>11, <2>12 DEF ReaderStep
<1>. QED  BY <1>1, <1>2, PresentBefore

(* dbdo.cpp:217-258, CXArray.cpp:126-157: for every size of the array and  *)
(* of the table, and every interleaving with the loader, which takes no    *)
(* lock, a look-up finds a place whose row came, in order, before it       *)
(* began, and takes both offsets from one row, unless it lost its way in   *)
(* the map.                                                                *)
THEOREM LoadedPlaceFoundCorrect == LoaderSpec => []LoadedPlaceFound
<1>1. LoaderInit => AtRest /\ VisibleInv /\ PresentInv
  <2>. SUFFICES ASSUME LoaderInit
                PROVE  AtRest /\ VisibleInv /\ PresentInv
    OBVIOUS
  <2>1. AtRest
    BY DEF LoaderInit, Init, AtRest, Settled, Image, Zero
  <2>2. \A c \in Cells : mem[c] = Image(c)
    BY DEF LoaderInit, Init, Image, Zero
  <2>3. VisibleInv
    BY <2>2 DEF LoaderInit, VisibleInv
  <2>4. PresentInv
    BY DEF LoaderInit, PresentInv
  <2>. QED  BY <2>1, <2>3, <2>4
<1>2. Inv /\ AtRest /\ [LoaderNext]_allVars => AtRest'
  BY AtRestStep DEF Inv
<1>3. PresentInv => LoadedPlaceFound
  BY DEF PresentInv, Present, LoadedPlaceFound
<1>. QED
  BY <1>1, <1>2, <1>3, InvInvariant, VisibleStep, PresentStep, PTL DEF LoaderSpec
=============================================================================
