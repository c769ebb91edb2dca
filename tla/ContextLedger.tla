---------------------------- MODULE ContextLedger ----------------------------
(***************************************************************************)
(* What the model's memory of one conversation promises, whatever passes,  *)
(* sweeps and edits run at the same time: turns are only added, a digest   *)
(* stands for the oldest of them and only grows, and the body of a turn is *)
(* only thrown away when a digest has stood for it. The user can delete    *)
(* turns and can have the digest dropped.                                  *)
(***************************************************************************)
EXTENDS Naturals, Sequences, SequencesExt

VARIABLES
    log,        \* the turns stored, oldest first: numbers given in order
    gone,       \* turns whose body was thrown away
    digest,     \* turns the digest stands for
    saved,      \* turns a digest ever stood for
    resets      \* times the user had the digest dropped

vars == <<log, gone, digest, saved, resets>>

Init ==
    /\ log = << >> /\ gone = {} /\ digest = {} /\ saved = {}
    /\ resets = 0

\* A digest stands for the oldest turns: what is still to be read is younger.
Oldest(d) == \A i \in d, j \in ToSet(log') \ (d \cup gone') : i < j

Add ==
    /\ log' # << >> /\ log' = Append(log, Last(log'))
    /\ \A i \in ToSet(log) \cup digest \cup saved : i < Last(log')
    /\ UNCHANGED <<gone, digest, saved, resets>>

Extend ==
    /\ digest \subseteq digest' /\ Oldest(digest')
    /\ saved' = saved \cup digest'
    /\ UNCHANGED <<log, gone, resets>>

Discard ==
    /\ gone \subseteq gone' /\ gone' \subseteq gone \cup saved
    /\ UNCHANGED <<log, digest, saved, resets>>

\* Some turns are deleted, or all of them and the digest. Numbers are in order.
Delete ==
    /\ log' \in Seq(ToSet(log)) /\ \A i, j \in DOMAIN log' : i < j => log'[i] < log'[j]
    /\ digest' = digest \/ (log' = << >> /\ digest' = {})
    /\ gone' = gone \cap ToSet(log')
    /\ UNCHANGED <<saved, resets>>

Reset ==
    /\ resets' = resets + 1
    /\ Oldest(digest')
    /\ saved' = saved \cup digest'
    /\ UNCHANGED <<log, gone>>

Next == Add \/ Extend \/ Discard \/ Delete \/ Reset

Spec == Init /\ [][Next]_vars
=============================================================================
