---------------------------- MODULE MCTurnBroker ----------------------------
(* An instance of TurnBroker: many turns with no subscriber, or with a      *)
(* lossy one, or one turn with a lossless one. Each scene has its own      *)
(* bounds on who takes part and on how much a turn publishes.              *)
EXTENDS TurnBroker, TLC

CONSTANTS c1, c2, t1, t2, t3, s1, s2

VARIABLE scene

TwoConvs == {c1, c2}
ThreeTurns == {t1, t2, t3}
OneLossless == {s1}
OneLossy == {s2}

(* Turns of two conversations, superseding, cancelling, releasing and       *)
(* publishing late in every order.                                         *)
Turns == [turns |-> ThreeTurns, subs |-> {}, convs |-> TwoConvs, max |-> 2]

(* A lossy subscriber that attaches and detaches while a turn supersedes    *)
(* another.                                                                *)
Lossy == [turns |-> {t1, t2}, subs |-> OneLossy, convs |-> {c1}, max |-> 2]

(* The delivery of one turn to its lossless subscriber, event by event. *)
Deliver == [turns |-> {t1}, subs |-> OneLossless, convs |-> {c1}, max |-> 3]

(* Those that take no part have conversation c1 and do nothing. *)
Idle ==
    /\ \A t \in Turn \ scene.turns : tpc[t] = "new" /\ tconv[t] = c1
    /\ \A s \in Sub \ scene.subs : spc[s] = "new"

Within ==
    /\ Idle
    /\ \A t \in Turn : tconv[t] \in scene.convs
    /\ \A c \in Conv : Len(log[c]) <= scene.max

SceneInit ==
    /\ scene \in {Turns, Lossy, Deliver}
    /\ Init /\ Within
    /\ \A s \in Sub : sconv[s] = c1

SceneNext == Next /\ scene' = scene /\ Within'

SceneSpec == SceneInit /\ [][SceneNext]_<<vars, scene>> /\ Fairness
=============================================================================
