--------------------------- MODULE MCWorkerStream ---------------------------
(* Model values for the TLC run of WorkerStream: pairs of calls, one of each *)
(* kind of answer at least.                                                *)
EXTENDS WorkerStream

CONSTANTS a, b

TwoCalls == {a, b}
Pair(k, l) == [c \in TwoCalls |-> IF c = a THEN k ELSE l]
Pairs == {Pair("infer", "event"), Pair("profile", "ask"),
          Pair("ask", "authorize")}
SecondCall == {b}
=============================================================================
