----------------------------- MODULE XArrayProofs -----------------------------
(***************************************************************************)
(* Proofs about XArray, for every size of the array, every set of          *)
(* longitudes and every number of rows.                                    *)
(***************************************************************************)
EXTENDS XArray, TLAPS

(* The types of the array, its count and the rows, whatever order the rows *)
(* come in (CXArray.cpp:34-113).                                           *)
THEOREM TypeCorrect == Spec => []TypeOK
<1> USE CountAssumption, MaxRowsAssumption, KeysAssumption
<1>1. Init => TypeOK
  BY DEF Init, TypeOK, Cells, Zero
<1>2. TypeOK /\ [Next]_vars => TypeOK'
  <2> SUFFICES ASSUME TypeOK, [Next]_vars PROVE TypeOK'
    OBVIOUS
  <2> DEFINE Cell == [x : Keys \union {0}, d : 0..MaxRows]
             Put(a, i, x) == [a EXCEPT ![i] = Row(x)]
  <2>0. /\ arraylng \in [Cells -> Cell]
        /\ index \in 0..(ARRAY_COUNT + 1)
        /\ overrun \in BOOLEAN
    BY DEF TypeOK
  <2>r. ASSUME NEW x \in Keys, AnotherRow(x)
        PROVE  Row(x) \in Cell /\ rows' \in Seq(Keys) /\ Len(rows') <= MaxRows
    BY <2>r DEF AnotherRow, Row, TypeOK
  <2>p. ASSUME NEW x \in Keys, AnotherRow(x), NEW a \in [Cells -> Cell], NEW i \in Cells
        PROVE  Put(a, i, x) \in [Cells -> Cell]
    <3>1. Row(x) \in Cell
      BY <2>r, <2>p
    <3> HIDE DEF Cell
    <3> QED
      BY <3>1
  <2>m. ASSUME NEW from \in Nat, NEW n \in Int, NEW a \in memcpy(from, n), from + n < ARRAY_COUNT
        PROVE  a \in [Cells -> Cell]
    <3> HIDE DEF Cell
    <3> QED
      BY <2>0, <2>m DEF memcpy, Moved, Repeated, Cells
  <2>k. ASSUME NEW x \in Keys, AnotherRow(x), arraylng' \in [Cells -> Cell],
               index' \in 0..(ARRAY_COUNT + 1), overrun' \in BOOLEAN
        PROVE  TypeOK'
    BY <2>r, <2>k DEF TypeOK
  <2> HIDE DEF Cell
  <2>1. ASSUME NEW x \in Keys, AppendFirst(x) PROVE TypeOK'
    <3>1. AnotherRow(x) /\ arraylng' = Put(arraylng, 0, x) /\ index' = 1 /\ overrun' = overrun
      BY <2>1 DEF AppendFirst
    <3> QED
      BY <2>0, <2>p, <2>k, <3>1 DEF Cells
  <2>2. ASSUME NEW x \in Keys, AppendFront(x) PROVE TypeOK'
    <3>1. /\ AnotherRow(x)
          /\ index \in 1..ARRAY_COUNT
          /\ index' = index + 1
          /\ overrun' = overrun
      BY <2>2 DEF AppendFront
    <3>2. PICK a \in memcpy(0, index - 1) : arraylng' = Put(a, 0, x)
      BY <2>2 DEF AppendFront
    <3>3. a \in [Cells -> Cell]
      BY <2>m, <3>1
    <3>4. arraylng' \in [Cells -> Cell]
      BY <2>p, <3>1, <3>2, <3>3 DEF Cells
    <3> QED
      BY <2>0, <2>k, <3>1, <3>4
  <2>3. ASSUME NEW x \in Keys, AppendDuplicate(x) PROVE TypeOK'
    BY <2>0, <2>k, <2>3 DEF AppendDuplicate
  <2>4. ASSUME NEW x \in Keys, AppendMiddle(x) PROVE TypeOK'
    <3>1. /\ AnotherRow(x)
          /\ index < ARRAY_COUNT
          /\ index' = index + 1
          /\ overrun' = overrun
      BY <2>4 DEF AppendMiddle
    <3>2. PICK t \in 0..(index - 2) :
            \E a \in memcpy(t + 1, index - t - 1) : arraylng' = Put(a, t + 1, x)
      BY <2>4 DEF AppendMiddle
    <3>3. PICK a \in memcpy(t + 1, index - t - 1) : arraylng' = Put(a, t + 1, x)
      BY <3>2
    <3>4. t + 1 \in Nat /\ index - t - 1 \in Int /\ (t + 1) + (index - t - 1) < ARRAY_COUNT
      BY <2>0, <3>1
    <3>5. a \in [Cells -> Cell]
      BY <2>m, <3>4
    <3>6. arraylng' \in [Cells -> Cell]
      BY <2>0, <2>p, <3>1, <3>3, <3>5 DEF Cells
    <3> QED
      BY <2>0, <2>k, <3>1, <3>6
  <2>5. ASSUME NEW x \in Keys, AppendLast(x) PROVE TypeOK'
    <3>1. AnotherRow(x) /\ index \in 1..ARRAY_COUNT /\ overrun' = overrun
      BY <2>5 DEF AppendLast
    <3>2. CASE /\ index < ARRAY_COUNT
               /\ arraylng' = Put(arraylng, index, x)
               /\ index' = index + 1
      <4>1. arraylng' \in [Cells -> Cell]
        BY <2>0, <2>p, <3>1, <3>2 DEF Cells
      <4> QED
        BY <2>0, <2>k, <3>1, <3>2, <4>1
    <3>3. CASE UNCHANGED <<arraylng, index>>
      BY <2>0, <2>k, <3>1, <3>3
    <3> QED
      BY <2>5, <3>2, <3>3 DEF AppendLast
  <2>6. ASSUME NEW x \in Keys, AppendOverruns(x) PROVE TypeOK'
    BY <2>0, <2>k, <2>6 DEF AppendOverruns
  <2>7. CASE UNCHANGED vars
    BY <2>7 DEF vars, TypeOK
  <2> QED
    BY <2>1, <2>2, <2>3, <2>4, <2>5, <2>6, <2>7 DEF Next, append, Loaded
<1> QED
  BY <1>1, <1>2, PTL DEF Spec

(***************************************************************************)
(* A cell holds a row, longitude and offset together, or nothing.          *)
(***************************************************************************)
HoldsRow(i) ==
    /\ arraylng[i].d \in 1..Len(rows)
    /\ rows[arraylng[i].d] = arraylng[i].x

Genuine == \A i \in Cells : arraylng[i] = Zero \/ HoldsRow(i)

(***************************************************************************)
(* append writes nothing into a cell but the new row or another cell.      *)
(***************************************************************************)
LEMMA AppendMovesCells ==
    ASSUME TypeOK, NEW x \in Keys, append(x), NEW i \in Cells
    PROVE  arraylng'[i] = Row(x) \/ \E j \in Cells : arraylng'[i] = arraylng[j]
<1> USE CountAssumption DEF Cells
<1>0. arraylng \in [Cells -> [x : Keys \union {0}, d : 0..MaxRows]] /\ index \in Nat
  BY DEF TypeOK
<1>m. ASSUME NEW from \in Nat, NEW n \in Int, NEW a \in memcpy(from, n), from + n < ARRAY_COUNT
      PROVE  /\ a = [k \in Cells |-> a[k]]
             /\ \E j \in Cells : a[i] = arraylng[j]
  <2>1. CASE a = Moved(from, n)
    <3>1. a[i] = IF i \in (from + 1)..(from + n) THEN arraylng[i - 1] ELSE arraylng[i]
      BY <2>1 DEF Moved
    <3>2. i \in (from + 1)..(from + n) => i - 1 \in Cells
      BY <1>m
    <3> QED
      BY <2>1, <3>1, <3>2 DEF Moved
  <2>2. CASE a = Repeated(from, n)
    <3>1. a[i] = IF i \in (from + 1)..(from + n) THEN arraylng[from] ELSE arraylng[i]
      BY <2>2 DEF Repeated
    <3>2. i \in (from + 1)..(from + n) => from \in Cells
      BY <1>m
    <3> QED
      BY <2>2, <3>1, <3>2 DEF Repeated
  <2> QED
    BY <1>m, <2>1, <2>2 DEF memcpy
<1>1. CASE AppendFirst(x)
  BY <1>0, <1>1 DEF AppendFirst
<1>2. CASE AppendFront(x)
  <2>1. index \in 1..ARRAY_COUNT
    BY <1>2 DEF AppendFront
  <2>2. PICK a \in memcpy(0, index - 1) : arraylng' = [a EXCEPT ![0] = Row(x)]
    BY <1>2 DEF AppendFront
  <2>3. /\ a = [k \in Cells |-> a[k]]
        /\ \E j \in Cells : a[i] = arraylng[j]
    <3>1. 0 \in Nat /\ index - 1 \in Int /\ 0 + (index - 1) < ARRAY_COUNT
      BY <2>1
    <3> QED
      BY <1>m, <3>1
  <2>4. arraylng'[i] = IF i = 0 THEN Row(x) ELSE a[i]
    BY <2>2, <2>3
  <2> QED
    BY <2>3, <2>4
<1>3. CASE AppendDuplicate(x)
  BY <1>3 DEF AppendDuplicate
<1>4. CASE AppendMiddle(x)
  <2>1. index < ARRAY_COUNT
    BY <1>4 DEF AppendMiddle
  <2>2. PICK t \in 0..(index - 2) :
          \E a \in memcpy(t + 1, index - t - 1) : arraylng' = [a EXCEPT ![t + 1] = Row(x)]
    BY <1>4 DEF AppendMiddle
  <2>3. PICK a \in memcpy(t + 1, index - t - 1) : arraylng' = [a EXCEPT ![t + 1] = Row(x)]
    BY <2>2
  <2>4. t + 1 \in Nat /\ index - t - 1 \in Int /\ (t + 1) + (index - t - 1) < ARRAY_COUNT
    BY <1>0, <2>1
  <2>5. /\ a = [k \in Cells |-> a[k]]
        /\ \E j \in Cells : a[i] = arraylng[j]
    BY <1>m, <2>4
  <2>6. arraylng'[i] = IF i = t + 1 THEN Row(x) ELSE a[i]
    BY <2>3, <2>5
  <2> QED
    BY <2>5, <2>6
<1>5. CASE AppendLast(x)
  BY <1>0, <1>5 DEF AppendLast
<1>6. CASE AppendOverruns(x)
  BY <1>6 DEF AppendOverruns
<1> QED
  BY <1>1, <1>2, <1>3, <1>4, <1>5, <1>6 DEF append

\* Each branch of append records the row it was handed.
LEMMA AppendAddsRow ==
    ASSUME NEW x \in Keys, append(x)
    PROVE  AnotherRow(x)
BY DEF append, AppendFirst, AppendFront, AppendDuplicate, AppendMiddle, AppendLast,
       AppendOverruns

(***************************************************************************)
(* No step ever mixes the longitude of one row with the offset of another. *)
(***************************************************************************)
LEMMA GenuineInvariant == Spec => [](TypeOK /\ Genuine)
<1>1. Init => Genuine
  BY DEF Init, Genuine
<1>2. TypeOK /\ Genuine /\ [Next]_vars => Genuine'
  <2> SUFFICES ASSUME TypeOK, Genuine, [Next]_vars PROVE Genuine'
    OBVIOUS
  <2>1. ASSUME NEW x \in Keys, append(x), NEW i \in Cells
        PROVE  arraylng'[i] = Zero \/ HoldsRow(i)'
    <3>1. /\ rows \in Seq(Keys)
          /\ rows' = Append(rows, x)
          /\ Len(rows') = Len(rows) + 1
          /\ Len(rows) \in Nat
          /\ rows'[Len(rows) + 1] = x
          /\ \A d \in 1..Len(rows) : rows'[d] = rows[d]
      <4>1. rows \in Seq(Keys) /\ rows' = Append(rows, x)
        BY <2>1, AppendAddsRow DEF AnotherRow, TypeOK
      <4>2. Append(rows, x)[Len(rows) + 1] = x
        BY <4>1
      <4>3. \A d \in 1..Len(rows) : Append(rows, x)[d] = rows[d]
        BY <4>1
      <4> QED
        BY <4>1, <4>2, <4>3
    <3>2. CASE arraylng'[i] = Row(x)
      <4>1. arraylng'[i].x = x /\ arraylng'[i].d = Len(rows) + 1
        BY <3>2 DEF Row
      <4> QED
        BY <3>1, <4>1 DEF HoldsRow
    <3>3. ASSUME NEW j \in Cells, arraylng'[i] = arraylng[j]
          PROVE  arraylng'[i] = Zero \/ HoldsRow(i)'
      <4>1. arraylng[j] = Zero \/ HoldsRow(j)
        BY DEF Genuine
      <4> QED
        BY <3>1, <3>3, <4>1 DEF HoldsRow
    <3> QED
      BY <2>1, <3>2, <3>3, AppendMovesCells
  <2>2. CASE UNCHANGED vars
    BY <2>2 DEF vars, Genuine, HoldsRow
  <2> QED
    BY <2>1, <2>2 DEF Next, Loaded, Genuine, Cells
<1> QED
  BY <1>1, <1>2, TypeCorrect, PTL DEF Spec

\* A cell with the longitude looked up holds the offset of a row of it.
LEMMA MatchIsRow ==
    ASSUME TypeOK, Genuine, NEW key \in Keys, NEW i \in Cells, arraylng[i].x = key
    PROVE  arraylng[i].d \in RowsOf(key)
BY KeysAssumption DEF Genuine, HoldsRow, RowsOf, Zero

(* CXArray.cpp:126-157: a lookup inside the array never applies the offset *)
(* of another longitude, whatever order the rows were loaded in.           *)
THEOREM OwnOffsetCorrect == Spec => []OwnOffset
<1>1. TypeOK /\ Genuine => OwnOffset
  <2> SUFFICES ASSUME TypeOK, Genuine, NEW key \in Keys
               PROVE  getGpsxy(key) \subseteq RowsOf(key) \union {Uninitialised, Wild}
    BY DEF OwnOffset
  <2>1. Scan(key) \subseteq RowsOf(key) \union {Uninitialised}
    BY MatchIsRow DEF Scan, IsFirstMatch
  <2> QED
    BY <2>1, MatchIsRow DEF getGpsxy
<1> QED
  BY <1>1, GenuineInvariant, PTL

(***************************************************************************)
(* Rows that come in order fill the array from its start, one cell each.   *)
(***************************************************************************)
Filled ==
    /\ ~overrun
    /\ index <= ARRAY_COUNT
    /\ index <= Len(rows)
    /\ index < ARRAY_COUNT => index = Len(rows)
    /\ \A i \in 0..(index - 1) : arraylng[i] = [x |-> rows[i + 1], d |-> i + 1]

InOrderShape == Ascending => Filled

(***************************************************************************)
(* A row in order is only ever put behind the cells that are filled.       *)
(***************************************************************************)
LEMMA AppendInOrder ==
    ASSUME TypeOK, InOrderShape, NEW x \in Keys, append(x), Ascending'
    PROVE  /\ Ascending
           /\ Filled
           /\ AppendFirst(x) \/ AppendLast(x)
<1> USE CountAssumption, KeysAssumption
<1>1. rows \in Seq(Keys) /\ rows' = Append(rows, x)
  BY AppendAddsRow DEF AnotherRow, TypeOK
<1>2. /\ Len(rows') = Len(rows) + 1
      /\ Len(rows) \in Nat
      /\ \A d \in 1..Len(rows) : rows'[d] = rows[d]
  <2>1. \A d \in 1..Len(rows) : Append(rows, x)[d] = rows[d]
    BY <1>1
  <2> QED
    BY <1>1, <2>1
<1>3. rows'[Len(rows) + 1] = x
  BY <1>1
<1>4. Ascending
  BY <1>2 DEF Ascending
<1>5. \A d \in 1..Len(rows) : rows[d] \in Nat /\ rows[d] <= x
  <2>1. \A d \in 1..Len(rows) : rows[d] \in Keys
    BY <1>1
  <2>2. ASSUME NEW d \in 1..Len(rows) PROVE rows[d] <= x
    <3>1. /\ d \in 1..Len(rows') /\ Len(rows) + 1 \in 1..Len(rows')
          /\ d < Len(rows) + 1
      BY <1>2
    <3>2. rows'[d] <= rows'[Len(rows) + 1]
      BY <3>1 DEF Ascending
    <3> QED
      BY <1>2, <1>3, <3>2
  <2> QED
    BY <2>1, <2>2
<1>6. Filled
  BY <1>4 DEF InOrderShape
<1>7. index \in Nat /\ arraylng \in [Cells -> [x : Keys \union {0}, d : 0..MaxRows]]
  BY DEF TypeOK
<1>9. \A t \in 0..(index - 2) : ~IsTindex(t, x)
  <2> SUFFICES ASSUME NEW t \in 0..(index - 2), IsTindex(t, x) PROVE FALSE
    OBVIOUS
  <2>1. index - 1 \in (t + 1)..(index - 1) /\ index - 1 \in 0..(index - 1)
    BY <1>7
  <2>2. arraylng[index - 1].x > x
    BY <2>1 DEF IsTindex
  <2>3. arraylng[index - 1] = [x |-> rows[index], d |-> index] /\ index \in 1..Len(rows)
    BY <1>2, <1>6, <1>7, <2>1 DEF Filled
  <2> QED
    BY <1>5, <2>2, <2>3
<1>11. ~AppendFront(x)
  <2> SUFFICES ASSUME AppendFront(x) PROVE FALSE
    OBVIOUS
  <2>1. index \in 1..ARRAY_COUNT /\ arraylng[0].x > x
    BY DEF AppendFront
  <2>2. arraylng[0] = [x |-> rows[1], d |-> 1] /\ 1 \in 1..Len(rows)
    BY <1>2, <1>6, <2>1 DEF Filled
  <2> QED
    BY <1>5, <2>1, <2>2
<1>13. ~AppendDuplicate(x) /\ ~AppendMiddle(x)
  BY <1>9 DEF AppendDuplicate, AppendMiddle
<1>14. ~AppendOverruns(x)
  BY <1>6, <1>7, <1>9 DEF AppendOverruns, Filled
<1> QED
  BY <1>4, <1>6, <1>11, <1>13, <1>14 DEF append

\* Rows in order fill the array from its start, one cell each.
LEMMA InOrderInvariant == Spec => []InOrderShape
<1> USE CountAssumption, KeysAssumption
<1>1. Init => InOrderShape
  BY DEF Init, InOrderShape, Filled
<1>2. TypeOK /\ InOrderShape /\ [Next]_vars => InOrderShape'
  <2> SUFFICES ASSUME TypeOK, InOrderShape, [Next]_vars, Ascending' PROVE Filled'
    BY DEF InOrderShape
  <2>1. ASSUME NEW x \in Keys, append(x) PROVE Filled'
    <3>1. rows \in Seq(Keys) /\ rows' = Append(rows, x)
      BY <2>1, AppendAddsRow DEF AnotherRow, TypeOK
    <3>2. /\ Len(rows') = Len(rows) + 1
          /\ Len(rows) \in Nat
          /\ \A d \in 1..Len(rows) : rows'[d] = rows[d]
      <4>1. \A d \in 1..Len(rows) : Append(rows, x)[d] = rows[d]
        BY <3>1
      <4> QED
        BY <3>1, <4>1
    <3>3. rows'[Len(rows) + 1] = x
      BY <3>1
    <3>5. AppendFirst(x) \/ AppendLast(x)
      BY <2>1, AppendInOrder
    <3>6. Filled
      BY <2>1, AppendInOrder
    <3>7. index \in Nat /\ arraylng \in [Cells -> [x : Keys \union {0}, d : 0..MaxRows]]
      BY DEF TypeOK
    <3>10. CASE AppendFirst(x)
      <4>1. /\ index = 0
            /\ index' = 1
            /\ overrun' = overrun
            /\ arraylng' = [arraylng EXCEPT ![0] = Row(x)]
        BY <3>10 DEF AppendFirst
      <4>2. Len(rows) = 0
        BY <3>2, <3>6, <4>1 DEF Filled
      <4>3. arraylng'[0] = [x |-> rows'[1], d |-> 1]
        BY <3>3, <3>7, <4>1, <4>2 DEF Cells, Row
      <4> QED
        BY <3>2, <3>6, <4>1, <4>2, <4>3 DEF Filled
    <3>12. CASE AppendLast(x)
      <4>0. index \in 1..ARRAY_COUNT /\ overrun' = overrun
        BY <3>12 DEF AppendLast
      <4>1. CASE /\ index < ARRAY_COUNT
                 /\ arraylng' = [arraylng EXCEPT ![index] = Row(x)]
                 /\ index' = index + 1
        <5>1. index = Len(rows)
          BY <3>6, <4>1 DEF Filled
        <5>2. arraylng'[index] = [x |-> rows'[index + 1], d |-> index + 1]
          BY <3>3, <3>7, <4>0, <4>1, <5>1 DEF Cells, Row
        <5>3. \A i \in 0..(index - 1) : arraylng'[i] = [x |-> rows'[i + 1], d |-> i + 1]
          <6> SUFFICES ASSUME NEW i \in 0..(index - 1)
                       PROVE  arraylng'[i] = [x |-> rows'[i + 1], d |-> i + 1]
            OBVIOUS
          <6>1. arraylng'[i] = arraylng[i]
            BY <3>7, <4>1 DEF Cells
          <6>2. rows'[i + 1] = rows[i + 1]
            BY <3>2, <5>1
          <6> QED
            BY <3>6, <6>1, <6>2 DEF Filled
        <5> QED
          BY <3>2, <3>6, <4>0, <4>1, <5>1, <5>2, <5>3 DEF Filled
      <4>2. CASE index = ARRAY_COUNT /\ UNCHANGED <<arraylng, index>>
        <5>1. \A i \in 0..(index - 1) : rows'[i + 1] = rows[i + 1]
          BY <3>2, <3>6, <3>7 DEF Filled
        <5> QED
          BY <3>2, <3>6, <3>7, <4>0, <4>2, <5>1 DEF Filled
      <4> QED
        BY <3>12, <4>1, <4>2 DEF AppendLast
    <3> QED
      BY <3>5, <3>10, <3>12
  <2>2. CASE UNCHANGED vars
    BY <2>2 DEF vars, InOrderShape, Ascending, Filled
  <2> QED
    BY <2>1, <2>2 DEF Next, Loaded
<1> QED
  BY <1>1, <1>2, TypeCorrect, PTL DEF Spec

(* CXArray.cpp:34-157: rows in the order of their longitudes never lead    *)
(* outside the array, and while they fit every longitude is found again,   *)
(* for every size of the array.                                            *)
THEOREM InOrderFoundCorrect == Spec => []InOrderFound
<1> USE CountAssumption, KeysAssumption
<1>1. TypeOK /\ Genuine /\ InOrderShape => InOrderFound
  <2> SUFFICES ASSUME TypeOK, Genuine, InOrderShape, Ascending
               PROVE  /\ ~overrun
                      /\ Len(rows) <= ARRAY_COUNT =>
                            \A key \in Keys :
                                RowsOf(key) # {} => getGpsxy(key) \subseteq RowsOf(key)
    BY DEF InOrderFound
  <2>1. Filled
    BY DEF InOrderShape
  <2>2. SUFFICES ASSUME Len(rows) <= ARRAY_COUNT, NEW key \in Keys, NEW d \in RowsOf(key)
                 PROVE  getGpsxy(key) \subseteq RowsOf(key)
    BY <2>1 DEF Filled
  <2>3. /\ d \in 1..Len(rows) /\ rows[d] = key
        /\ rows \in Seq(Keys)
        /\ Len(rows) \in Nat
        /\ index \in Nat
    BY DEF RowsOf, TypeOK
  <2>4. index = Len(rows)
    BY <2>1, <2>2, <2>3 DEF Filled
  <2>5. arraylng[0] = [x |-> rows[1], d |-> 1]
    BY <2>1, <2>3, <2>4 DEF Filled
  <2>6. rows[1] \in Keys /\ rows[1] <= key
    BY <2>3 DEF Ascending
  <2>7. Guess(key) \in Cells
    <3>1. key - rows[1] < ARRAY_COUNT /\ key \in Nat /\ rows[1] \in Nat
      BY <2>6
    <3>2. Guess(key) = key - rows[1]
      BY <2>5, <2>6, <3>1 DEF Guess
    <3> QED
      BY <2>6, <3>1, <3>2 DEF Cells
  <2>8. d - 1 \in Cells /\ arraylng[d - 1].x = key
    <3>1. d - 1 \in 0..(index - 1) /\ d - 1 \in Cells /\ (d - 1) + 1 = d
      BY <2>2, <2>3, <2>4 DEF Cells
    <3>2. arraylng[d - 1] = [x |-> rows[(d - 1) + 1], d |-> (d - 1) + 1]
      BY <2>1, <3>1 DEF Filled
    <3> QED
      BY <2>3, <3>1, <3>2
  <2>9. Scan(key) \subseteq RowsOf(key)
    BY <2>8, MatchIsRow DEF Scan, IsFirstMatch
  <2> QED
    BY <2>7, <2>9, MatchIsRow DEF getGpsxy
<1> QED
  BY <1>1, GenuineInvariant, InOrderInvariant, PTL
=============================================================================
