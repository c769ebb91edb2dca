---------------------------- MODULE MCAccounting ----------------------------
\* Model values for Accounting.
EXTENDS Accounting, TLC

CONSTANTS a1, a2

OneAttempt == {a1}
TwoAttempts == {a1, a2}
AttemptSymmetry == Permutations(TwoAttempts)
=============================================================================
