----------------------------- MODULE MCEventHub -----------------------------
(* Model values for the TLC run of EventHub. *)
EXTENDS EventHub

CONSTANTS s1, s2

OneStream == {s1}
TwoStreams == {s1, s2}
=============================================================================
