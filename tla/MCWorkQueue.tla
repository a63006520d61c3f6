----------------------------- MODULE MCWorkQueue -----------------------------
(* WorkQueue with two workers, two descriptors and a few requests.         *)
EXTENDS WorkQueue

CONSTANTS w1, w2

MCWorkers == {w1, w2}

MCFds == {5, 6}
=============================================================================
