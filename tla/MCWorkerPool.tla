---------------------------- MODULE MCWorkerPool ----------------------------
(* Model values and symmetry for the TLC runs of WorkerPool. *)
EXTENDS WorkerPool, TLC

CONSTANTS c1, c2, t1, t2, t3, w1, w2, w3

OneConv  == {c1}
ThreeTurns == {t1, t2, t3}
ThreeWorkers == {w1, w2, w3}
WorkerSymmetry == Permutations(ThreeWorkers)
TurnAndWorkerSymmetry == Permutations(ThreeTurns) \cup Permutations(ThreeWorkers)
=============================================================================
