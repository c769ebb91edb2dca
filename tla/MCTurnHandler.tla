--------------------------- MODULE MCTurnHandler ---------------------------
(* Model values, starting points and symmetry for the runs of TurnHandler. *)
EXTENDS TurnHandler, TLC

CONSTANTS r1, r2

OneRequest == {r1}
TwoRequests == {r1, r2}
RequestSymmetry == Permutations(TwoRequests)

Running == [id |-> 1, state |-> "running", blocked |-> FALSE]
Blocked == [id |-> 1, state |-> "running", blocked |-> TRUE]
Reviewed == [id |-> 1, state |-> "review", blocked |-> FALSE]

Stored(h, ledgers) == [history : {h}, ledger : ledgers]
AnyLedger == Stored(<< >>, {NoRun, Running, Blocked, Reviewed})

(* A blocked run, with room for two messages but no second run; and with a  *)
(* second run that may follow, but no room for messages.                   *)
BlockedRun == Stored(<< >>, {[Blocked EXCEPT !.id = 2]}) \cup Stored(<<0, 0>>, {Blocked})

EnterAndComplete == {"enter", "complete"}
AllTools == {"enter", "exit", "complete", "block", "decide"}
=============================================================================
