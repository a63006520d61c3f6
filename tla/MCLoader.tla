------------------------------ MODULE MCLoader ------------------------------
(* Loader with a table of three places from 1.10 degrees; phones at two of *)
(* them send three digits behind the point, or one digit.                  *)
EXTENDS Loader

Degree(frac) == [whole |-> 1, frac |-> frac]

MCRowTexts == {Degree(<<1, 0>>), Degree(<<1, 1>>), Degree(<<1, 2>>)}
MCPhoneTexts == {Degree(<<1, 2, 9>>), Degree(<<1, 1, 9>>), Degree(<<1>>)}
MCKeys == {chang2uint(t) : t \in MCRowTexts}
=============================================================================
