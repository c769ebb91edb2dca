------------------------------ MODULE EventFeed ------------------------------
(***************************************************************************)
(* What the broker promises the readers of a conversation's events: one    *)
(* ordered log; a reader that joins sees it from the start of the live     *)
(* turn, every event once and in order; a reader that is sealed sees it up *)
(* to the seal and then its end; only a reader that leaves may miss events.*)
(* The promise is the package comment of internal/broker/broker.go; the    *)
(* module says nothing of queues, channels or goroutines.                  *)
(***************************************************************************)
EXTENDS Naturals, Sequences

CONSTANTS Conv, Reader

VARIABLES
    live,   \* live[c]: the generation whose events the log accepts
    log,    \* log[c]: the accepted events, each the generation it is from
    conv,   \* conv[r]: the conversation reader r reads
    phase,  \* phase[r]: "out", "in", "sealed", "ended" or "left"
    from,   \* from[r]: r reads the log from the event after this one
    upto,   \* upto[r]: the last event of a sealed reader
    seen    \* seen[r]: the events r has read, by their position in the log

feedVars == <<live, log, conv, phase, from, upto, seen>>

Init ==
    /\ live = [c \in Conv |-> 0]
    /\ log = [c \in Conv |-> << >>]
    /\ conv \in [Reader -> Conv]
    /\ phase = [r \in Reader |-> "out"]
    /\ from = [r \in Reader |-> 0]
    /\ upto = [r \in Reader |-> 0]
    /\ seen = [r \in Reader |-> << >>]

Supersede ==
    /\ \E C \in SUBSET Conv : live' = [c \in Conv |-> IF c \in C THEN live[c] + 1
                                                                 ELSE live[c]]
    /\ UNCHANGED <<log, conv, phase, from, upto, seen>>

Accept(c) ==
    /\ log' = [log EXCEPT ![c] = Append(@, live[c])]
    /\ UNCHANGED <<live, conv, phase, from, upto, seen>>

(* Join with the live turn's events so far. *)
Join(r) ==
    LET c == conv[r]
        old == {i \in 1..Len(log[c]) : log[c][i] # live[c]}
        start == CHOOSE k \in 0..Len(log[c]) : old = 1..k
    IN
    /\ phase[r] = "out"
    /\ phase' = [phase EXCEPT ![r] = "in"]
    /\ from' = [from EXCEPT ![r] = start]
    /\ seen' = [seen EXCEPT ![r] = [i \in 1..(Len(log[c]) - start) |-> start + i]]
    /\ UNCHANGED <<live, log, conv, upto>>

(* Read the next event, and no other. *)
Deliver(r) ==
    LET next == from[r] + Len(seen[r]) + 1 IN
    /\ \/ phase[r] = "in" /\ next <= Len(log[conv[r]])
       \/ phase[r] = "sealed" /\ next <= upto[r]
    /\ seen' = [seen EXCEPT ![r] = Append(@, next)]
    /\ UNCHANGED <<live, log, conv, phase, from, upto>>

Seal(r) ==
    /\ phase[r] = "in"
    /\ phase' = [phase EXCEPT ![r] = "sealed"]
    /\ upto' = [upto EXCEPT ![r] = Len(log[conv[r]])]
    /\ UNCHANGED <<live, log, conv, from, seen>>

(* The end of a sealed reader's channel: it has read everything. *)
End(r) ==
    /\ phase[r] = "sealed" /\ from[r] + Len(seen[r]) = upto[r]
    /\ phase' = [phase EXCEPT ![r] = "ended"]
    /\ UNCHANGED <<live, log, conv, from, upto, seen>>

Leave(r) ==
    /\ phase[r] \in {"in", "sealed", "ended"}
    /\ phase' = [phase EXCEPT ![r] = "left"]
    /\ upto' = [upto EXCEPT ![r] = 0]
    /\ UNCHANGED <<live, log, conv, from, seen>>

(* After leaving, some of what was under way may still arrive, in order. *)
Straggle(r) ==
    /\ phase[r] = "left"
    /\ \E e \in 1..Len(log[conv[r]]) :
          /\ \A i \in 1..Len(seen[r]) : seen[r][i] < e
          /\ seen' = [seen EXCEPT ![r] = Append(@, e)]
    /\ UNCHANGED <<live, log, conv, phase, from, upto>>

Read(r) == Deliver(r) \/ End(r)

Next ==
    \/ Supersede
    \/ \E c \in Conv : Accept(c)
    \/ \E r \in Reader : Join(r) \/ Seal(r) \/ Read(r) \/ Leave(r) \/ Straggle(r)

Safety == Init /\ [][Next]_feedVars

(* A sealed reader is not kept waiting for events the log already has. *)
Spec == Safety /\ \A r \in Reader : WF_feedVars(phase[r] = "sealed" /\ Read(r))
=============================================================================
