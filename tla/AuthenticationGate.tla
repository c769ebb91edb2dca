------------------------- MODULE AuthenticationGate -------------------------
(***************************************************************************)
(* A model call that needs a subscription's credential, from its turn's    *)
(* start to its outcome: Token (Credentials), and if that says that a user *)
(* has to sign in, the pause of source/server/internal/server/             *)
(* authentication_gate.go, which ends with a sign-in, with a decision of a *)
(* client or with the turn.                                                *)
(***************************************************************************)
EXTENDS Credentials

CONSTANTS
    Decision,       \* ResolveAuthentication requests of clients
    NoCaller,       \* the call of a decision that is not sent
    HasFallback,    \* the calls whose challenge offers a fallback
    Scenes          \* bound: the environments to look at, each with who takes
                    \* part, the sets stored at first and what may happen

ASSUME GateAssumption ==
    /\ NoCaller \notin Caller
    /\ HasFallback \subseteq Caller
    /\ \A s \in Scenes :
          /\ s.stores \subseteq {SignedIn(0), Expired(0), Missing(0)}
          /\ s.bounds \in [{"expiry", "write", "fault", "edit"} -> Nat]

VARIABLES
    gate,       \* gate[c]: the model call of c and its authenticationWaiter
    registered, \* the calls whose waiter is in authenticationWaiters
    reply,      \* reply[c]: what is in the waiter's one-slot channel
    decision    \* decision[d]: a request of a client

gateVars == <<gate, registered, reply, decision>>
vars == <<credVars, gateVars>>

Choices == {"login", "fallback", "cancel"}

TypeOK ==
    /\ CredTypeOK
    /\ gate \in [Caller ->
           [pc : {"off", "calling", "paused", "claimed", "finishing", "leaving", "done"},
            routing : Nat \X Nat, watched : Nat, shown : BOOLEAN,
            choice : {"none"} \cup Choices,
            outcome : {"none", "served", "failed", "cancelled", "stale"} \cup Choices]]
    /\ registered \subseteq Caller
    /\ reply \in [Caller -> {"none", "fallback", "cancel"}]
    /\ decision \in [Decision ->
           [pc : {"unsent", "checked", "stale", "claiming", "ok", "refused"},
            call : Caller \cup {NoCaller}, choice : {"none", "fallback", "cancel"}]]

Init ==
    \E s \in Scenes :
        /\ CredInit(s.stores, s.logins, s.bounds)
        /\ gate = [c \in Caller |->
               [pc |-> IF c \in s.calls THEN "off" ELSE "done", routing |-> <<0, 0>>,
                watched |-> 0, shown |-> FALSE, choice |-> "none", outcome |-> "none"]]
        /\ registered = {}
        /\ reply = [c \in Caller |-> "none"]
        /\ decision = [d \in Decision |->
               [pc |-> IF d \in s.decisions THEN "unsent" ELSE "refused",
                call |-> NoCaller, choice |-> "none"]]

(* authenticationRoutingIdentity: credentials are not part of it. *)
Routing == <<profile, locus>>

Over(c, outcome) == [gate[c] EXCEPT !.pc = "done", !.outcome = outcome]

-----------------------------------------------------------------------------
(* The call *)

(* A turn starts, which fixes the routing its decisions are good for, and   *)
(* its model call asks for a token.                                        *)
Start(c) ==
    /\ gate[c].pc = "off"
    /\ gate' = [gate EXCEPT ![c].pc = "calling", ![c].routing = Routing]
    /\ Ask(c)
    /\ UNCHANGED <<profileVars, loginVars, configVars, ctxDone, granted, historyVars, budget,
                   registered, reply, decision>>

(* The call is over: served, failed, or in need of a second sign-in, for    *)
(* which it does not pause (requestAuth).                                  *)
Conclude(c) ==
    /\ gate[c].pc = "calling" /\ caller[c].pc = "returned"
    /\ caller[c].res = "login" => gate[c].shown
    /\ gate' = [gate EXCEPT ![c] =
           Over(c, CASE caller[c].res = "token" -> "served"
                     [] caller[c].res = "cancelled" -> "cancelled"
                     [] OTHER -> "failed")]
    /\ caller' = [caller EXCEPT ![c] = CallAt("idle", "none")]
    /\ UNCHANGED <<profileVars, loginVars, configVars, ctxDone, granted, historyVars, budget,
                   registered, reply, decision>>

(* authenticationRequester: watch the sign-ins, register the waiter, tell   *)
(* the clients.                                                            *)
Pause(c) ==
    /\ gate[c].pc = "calling" /\ caller[c].pc = "returned" /\ caller[c].res = "login"
    /\ ~gate[c].shown
    /\ gate' = [gate EXCEPT ![c].pc = "paused", ![c].watched = logins, ![c].shown = TRUE]
    /\ registered' = registered \cup {c}
    /\ caller' = [caller EXCEPT ![c] = CallAt("idle", "none")]
    /\ UNCHANGED <<profileVars, loginVars, configVars, ctxDone, granted, historyVars, budget,
                   reply, decision>>

(* case choice := <-waiter.reply *)
TakeReply(c) ==
    /\ gate[c].pc \in {"paused", "claimed"} /\ reply[c] # "none"
    /\ gate' = [gate EXCEPT ![c].pc = "finishing", ![c].choice = reply[c]]
    /\ reply' = [reply EXCEPT ![c] = "none"]
    /\ UNCHANGED <<credVars, registered, decision>>

(* Mutant: a sign-in always ends the pause. *)
SeeLoginFirst(c) ==
    /\ gate[c].pc = "paused" /\ logins > gate[c].watched
    /\ registered' = registered \ {c}
    /\ gate' = [gate EXCEPT ![c].pc = "finishing", ![c].choice = "login"]
    /\ UNCHANGED <<credVars, reply, decision>>

(* case <-completedLogin: claim the waiter, or wait for the decision that   *)
(* has claimed it.                                                         *)
SeeLogin(c) ==
    /\ gate[c].pc = "paused" /\ logins > gate[c].watched
    /\ registered' = registered \ {c}
    /\ gate' = [gate EXCEPT ![c] =
           IF c \in registered THEN [@ EXCEPT !.pc = "finishing", !.choice = "login"]
           ELSE [@ EXCEPT !.pc = "claimed"]]
    /\ UNCHANGED <<credVars, reply, decision>>

(* case <-ctx.Done() *)
SeeCancel(c) ==
    /\ gate[c].pc \in {"paused", "claimed"} /\ ctxDone[c]
    /\ gate' = [gate EXCEPT ![c].pc = "leaving"]
    /\ UNCHANGED <<credVars, registered, reply, decision>>

(* The deferred delete. *)
Leave(c) ==
    /\ gate[c].pc = "leaving"
    /\ registered' = registered \ {c}
    /\ gate' = [gate EXCEPT ![c] = Over(c, "cancelled")]
    /\ UNCHANGED <<credVars, reply, decision>>

(* finish, unless the choice is to call again. *)
Finish(c) ==
    /\ gate[c].pc = "finishing"
    /\ \/ ctxDone[c]
       \/ gate[c].choice # "login"
       \/ gate[c].routing # Routing
    /\ gate' = [gate EXCEPT ![c] =
           Over(c, IF ctxDone[c] THEN "cancelled"
                   ELSE IF gate[c].choice # "cancel" /\ gate[c].routing # Routing THEN "stale"
                   ELSE gate[c].choice)]
    /\ UNCHANGED <<credVars, registered, reply, decision>>

(* After the sign-in the call is tried once more. *)
Retry(c) ==
    /\ gate[c].pc = "finishing" /\ gate[c].choice = "login"
    /\ ~ctxDone[c] /\ gate[c].routing = Routing
    /\ gate' = [gate EXCEPT ![c].pc = "calling"]
    /\ Ask(c)
    /\ UNCHANGED <<profileVars, loginVars, configVars, ctxDone, granted, historyVars, budget,
                   registered, reply, decision>>

(* The turn is cancelled, superseded or loses its client. *)
CancelTurn(c) ==
    /\ gate[c].pc \notin {"off", "done"} /\ ~ctxDone[c]
    /\ ctxDone' = [ctxDone EXCEPT ![c] = TRUE]
    /\ UNCHANGED <<profileVars, loginVars, configVars, caller, granted, historyVars, budget,
                   gateVars>>

-----------------------------------------------------------------------------
(* ResolveAuthentication *)

(* A client that was shown the challenge decides. What the handler reads    *)
(* before it claims the waiter: the map, the turn's context, the routing   *)
(* and whether there is a fallback.                                        *)
Decide(d) ==
    /\ decision[d].pc = "unsent"
    /\ \E c \in Caller : \E choice \in {"fallback", "cancel"} :
          /\ gate[c].shown
          /\ decision' = [decision EXCEPT ![d] =
                 [pc |-> IF c \notin registered \/ ctxDone[c] THEN "refused"
                         ELSE IF choice = "cancel" THEN "checked"
                         ELSE IF gate[c].routing # Routing THEN "stale"
                         ELSE IF c \in HasFallback THEN "checked"
                         ELSE "refused",
                  call |-> c, choice |-> choice]]
    /\ UNCHANGED <<credVars, gate, registered, reply>>

(* CompareAndDelete: claim the waiter or find it taken. *)
Claim(d) ==
    LET c == decision[d].call IN
    /\ decision[d].pc = "checked"
    /\ registered' = registered \ {c}
    /\ decision' = [decision EXCEPT ![d].pc = IF c \in registered THEN "claiming" ELSE "refused"]
    /\ UNCHANGED <<credVars, gate, reply>>

(* waiter.reply <- decision *)
Reply(d) ==
    LET c == decision[d].call IN
    /\ decision[d].pc = "claiming"
    /\ reply' = [reply EXCEPT ![c] = decision[d].choice]
    /\ decision' = [decision EXCEPT ![d].pc = "ok"]
    /\ UNCHANGED <<credVars, gate, registered>>

(* The routing has changed: cancel the call, if nobody has claimed it.     *)
CancelStale(d) ==
    LET c == decision[d].call IN
    /\ decision[d].pc = "stale"
    /\ registered' = registered \ {c}
    /\ reply' = IF c \in registered THEN [reply EXCEPT ![c] = "cancel"] ELSE reply
    /\ decision' = [decision EXCEPT ![d].pc = "refused"]
    /\ UNCHANGED <<credVars, gate>>

-----------------------------------------------------------------------------
(* The goroutine of a call: in Token, at the gate, or after it. *)
GateStep(c) ==
    \/ CallStep(c) /\ UNCHANGED gateVars
    \/ Conclude(c) \/ Pause(c) \/ TakeReply(c) \/ SeeLogin(c) \/ SeeCancel(c) \/ Leave(c)
    \/ Finish(c) \/ Retry(c)

DecisionStep(d) == Claim(d) \/ Reply(d) \/ CancelStale(d)

Next ==
    \/ CredNext /\ UNCHANGED gateVars
    \/ \E c \in Caller : Start(c) \/ GateStep(c) \/ CancelTurn(c)
    \/ \E d \in Decision : Decide(d) \/ DecisionStep(d)

Spec == Init /\ [][Next]_vars

(* Ready goroutines run, and a refresh ends, if by its time limit. Nobody    *)
(* has to decide, to sign in or to cancel.                                 *)
Fairness ==
    /\ \A c \in Caller : WF_vars(GateStep(c))
    /\ \A f \in Flight : WF_vars(FlightStep(f) /\ UNCHANGED gateVars)
    /\ \A d \in Decision : WF_vars(DecisionStep(d))

FairSpec == Spec /\ Fairness

-----------------------------------------------------------------------------
(* A decision a client was told is taken is the one its call gets: no       *)
(* sign-in replaces it, although both wake the call, and no second one is  *)
(* taken. It can only come too late for the turn or for its routing.       *)
DecisionStands ==
    /\ TypeOK
    /\ \A d \in Decision : decision[d].pc = "ok" =>
          LET c == decision[d].call IN
          /\ gate[c].choice \in {"none", decision[d].choice}
          /\ gate[c].pc = "done" =>
                \/ gate[c].outcome = decision[d].choice
                \/ ctxDone[c]
                \/ gate[c].outcome = "stale" /\ gate[c].routing # Routing
          /\ \A e \in Decision \ {d} :
                decision[e].pc = "ok" => decision[e].call # c

(* What is up to the program, not to a user: a call in Token or after its    *)
(* pause, and a pause that the end of the turn, a decision or a sign-in     *)
(* completed after it began should end.                                    *)
Owed(c) ==
    \/ gate[c].pc \notin {"off", "paused", "done"}
    \/ /\ gate[c].pc = "paused"
       /\ \/ ctxDone[c]
          \/ logins > gate[c].watched
          \/ \E d \in Decision : decision[d].pc = "ok" /\ decision[d].call = c

(* A call waits for nothing but a user: Token comes back, and a pause ends  *)
(* with the turn, with a decision that was taken and with a sign-in that   *)
(* was completed after the pause began.                                    *)
CallsEnd == \A c \in Caller : Owed(c) ~> ~Owed(c)

(* authentication_gate.go:103: completing a sign-in must not invalidate its *)
(* own gate. Where no user changed the configuration, a paused call that     *)
(* wakes to a sign-in goes on.                                             *)
LoginOpensGate ==
    \A c \in Caller :
        gate[c].choice = "login" /\ gate[c].outcome = "stale" => edited
=============================================================================
