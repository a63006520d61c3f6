------------------------------ MODULE Position ------------------------------
(***************************************************************************)
(* tools.cpp, chang2uint: the key of a coordinate.  A coordinate arrives   *)
(* as text, from a phone or from a column of the database; its key is the  *)
(* number formed by the digits in front of the point and at most two       *)
(* behind it.  api.h:168 says what it is meant to be: the value taken to   *)
(* an accuracy of 0.01, times 100.                                         *)
(***************************************************************************)
EXTENDS Integers, Sequences

CONSTANTS
    WholeMin, WholeMax      \* the degrees the map covers

(***************************************************************************)
(* api.h: longitudes from 72 to 137 degrees, latitudes from 17 to 53; no   *)
(* coordinate is ten times another one.                                    *)
(***************************************************************************)
ASSUME RegionAssumption ==
    /\ WholeMin \in Nat
    /\ WholeMax \in Nat
    /\ WholeMax < 10 * WholeMin

\* A decimal number: its degrees and the digits behind the point.
Text == [whole : Nat, frac : Seq(0..9)]

InRegion(t) == t \in Text /\ t.whole \in WholeMin..WholeMax

Padded(t) == Len(t.frac) >= 2

\* Seeded defect: only one digit behind the point is taken.
chang2uintTenths(t) ==
    CASE Len(t.frac) = 0 -> t.whole
      [] OTHER -> 10 * t.whole + t.frac[1]

chang2uint(t) ==
    CASE Len(t.frac) = 0 -> t.whole
      [] Len(t.frac) = 1 -> 10 * t.whole + t.frac[1]
      [] OTHER -> 100 * t.whole + 10 * t.frac[1] + t.frac[2]

Digit(t, k) == IF k <= Len(t.frac) THEN t.frac[k] ELSE 0

\* The reference: the value of the text in steps of 0.01.
Hundredths(t) == 100 * t.whole + 10 * Digit(t, 1) + Digit(t, 2)
=============================================================================
