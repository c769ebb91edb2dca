------------------------------ MODULE MCGates ------------------------------
(* An instance of the two gates at which a turn waits for its user: the     *)
(* permission of a tool call (PermissionBarrier) and the sign-in a model    *)
(* call needs (AuthenticationGate). They share no state, so a behaviour    *)
(* has calls at one of them.                                               *)
EXTENDS AuthenticationGate, PermissionBarrier, TLC

CONSTANTS m1, m2, l1, l2, d1, d2, p1, p2, c1, c2, i1, i2, a1, a2

(* Two tool calls, of one conversation or of two, and ids as local models   *)
(* give them, which collide.                                               *)
TwoPrompts == {p1, p2}
TwoConversations == {c1, c2}
TwoIds == {i1, i2}
TwoAnswers == {a1, a2}

TwoCalls == {m1, m2}
TwoLogins == {l1, l2}
TwoDecisions == {d1, d2}
FirstOnly == {m1}

Bounds(expiry, write, fault, edit) ==
    [expiry |-> expiry, write |-> write, fault |-> fault, edit |-> edit]

(* Two calls share the refresh of an expired set while a user signs in. *)
Sharing ==
    [calls |-> TwoCalls, logins |-> {l1}, decisions |-> {}, stores |-> {Expired(0)},
     bounds |-> Bounds(0, 0, 0, 0)]

(* The same with a set that is deleted or replaced ... *)
Replacing ==
    [calls |-> TwoCalls, logins |-> {}, decisions |-> {}, stores |-> {Expired(0)},
     bounds |-> Bounds(0, 1, 0, 0)]

(* ... or expires, with a response that is lost or a set that cannot be     *)
(* stored.                                                                 *)
Failing ==
    [calls |-> TwoCalls, logins |-> {}, decisions |-> {}, stores |-> {SignedIn(0), Expired(0)},
     bounds |-> Bounds(1, 0, 1, 0)]

(* A paused call, two decisions, a sign-in and an edit. *)
Pausing ==
    [calls |-> {m1}, logins |-> {l1}, decisions |-> TwoDecisions, stores |-> {Missing(0)},
     bounds |-> Bounds(0, 0, 0, 1)]

(* A decision on a call that has no fallback. *)
Refusing ==
    [calls |-> {m2}, logins |-> {}, decisions |-> {d1}, stores |-> {Missing(0)},
     bounds |-> Bounds(0, 0, 0, 0)]

(* Two paused calls and the sign-in that both wait for. *)
Resuming ==
    [calls |-> TwoCalls, logins |-> {l1}, decisions |-> {}, stores |-> {Missing(0)},
     bounds |-> Bounds(0, 0, 0, 0)]

(* A sign-in that supersedes another. *)
Superseding ==
    [calls |-> {m1}, logins |-> TwoLogins, decisions |-> {}, stores |-> {Expired(0)},
     bounds |-> Bounds(0, 0, 0, 0)]

(* No model call: tool calls are at the other gate. *)
Permission ==
    [calls |-> {}, logins |-> {}, decisions |-> {}, stores |-> {Missing(0)},
     bounds |-> Bounds(0, 0, 0, 0)]

AllScenes ==
    {Sharing, Replacing, Failing, Pausing, Refusing, Resuming, Superseding, Permission}
OnlyResuming == {Resuming}

NoToolCall ==
    /\ key = [c \in Call |-> <<c1, i1>>]
    /\ cpc = [c \in Call |-> "done"]
    /\ promptDone = [c \in Call |-> FALSE]
    /\ got = [c \in Call |-> NoAnswer]
    /\ channels = [k \in Key |-> NoCall]
    /\ chan = [c \in Call |-> << >>]
    /\ apc = [a \in Answer |-> "false"]
    /\ sendTo = [a \in Answer |-> NoCall]
    /\ answersTo = [a \in Answer |-> p1]

GatesInit ==
    /\ Init
    /\ IF \A c \in Caller : gate[c].pc = "done"
       THEN BarrierInit /\ key[p1] = <<c1, i1>>
       ELSE NoToolCall

GatesNext ==
    \/ Next /\ UNCHANGED barrierVars
    \/ BarrierNext /\ UNCHANGED vars

GatesSpec == GatesInit /\ [][GatesNext]_<<vars, barrierVars>>

FairGatesSpec ==
    /\ GatesSpec
    /\ Fairness
    /\ \A c \in Call : WF_barrierVars(PromptStep(c))
    /\ \A a \in Answer : WF_barrierVars(AnswerStep(a))
=============================================================================
