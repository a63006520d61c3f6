------------------------------ MODULE MCServer ------------------------------
(* Server with few workers, connections, descriptors and heap cells.       *)
EXTENDS Server, TLC

CONSTANTS w1, w2, c1, c2, c3, a1, a2

OneWorker == {w1}
TwoWorkers == {w1, w2}
TwoConn == {c1, c2}
ThreeConn == {c1, c2, c3}
TwoAddr == {a1, a2}
OneAddr == {a1}
TwoFds == 1..2
ThreeFds == 1..3

\* Connections, heap cells and workers are interchangeable (safety runs only).
Symmetry == Permutations(ThreeConn) \union Permutations(TwoAddr) \union Permutations(TwoWorkers)
=============================================================================
