---------------------------- MODULE MCOrphanSweep ----------------------------
(* Model values for the TLC run of OrphanSweep. *)
EXTENDS OrphanSweep, TLC

CONSTANTS h1, h2, h3, w1, w2, f1, p1, p2, p3, p4

ThreeHosts == {h1, h2, h3}
TwoWorkers == {w1, w2}
OneForeign == {f1}
FourPids == {p1, p2, p3, p4}
ReuseSymmetry ==
    Permutations(ThreeHosts) \cup Permutations(TwoWorkers) \cup Permutations(FourPids)
=============================================================================
