-------------------------- MODULE MCOrderProcessor --------------------------
(***************************************************************************)
(* Small instances of OrderProcessor for TLC.                              *)
(***************************************************************************)
EXTENDS OrderProcessor, TLC

CONSTANTS o1, o2, w1, w2

OneOrder == {o1}
TwoOrders == {o1, o2}
OneWorker == {w1}
TwoWorkers == {w1, w2}

\* Orders are interchangeable, and so are workers.
Symmetry == Permutations(Orders) \cup Permutations(Workers)
=============================================================================
