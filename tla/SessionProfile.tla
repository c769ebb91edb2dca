--------------------------- MODULE SessionProfile ---------------------------
(***************************************************************************)
(* The capability profile of one conversation: agent/profile_broker.go,    *)
(* setSessionProfile in server/events.go, the restore at turn start in     *)
(* server/autonomy_continuation.go, GetSessionProfile in server/server.go, *)
(* and the tools that enter and leave autonomous mode in                   *)
(* capabilities/builtins/autonomous.go, over the ledger of                 *)
(* conversation/autonomy.go.                                               *)
(*                                                                         *)
(* The broker is in memory, the ledger is durable. A tool runs in a worker *)
(* and asks the host for each of its steps; the host answers a request in  *)
(* a goroutine that finishes even when the worker is killed meanwhile.     *)
(* Callers are RPCs, starting turns and tools; a superseded turn's tool    *)
(* overlaps those of its successor.                                        *)
(***************************************************************************)
EXTENDS Naturals, FiniteSets

CONSTANTS
    Caller,         \* goroutines that use the profile
    Selectable,     \* profiles a client or a planning tool asks for
    MaxRuns,        \* bound: rows of the ledger
    MaxCalls,       \* bound: calls begun
    MaxRestarts     \* bound: restarts of the agent

Profile == {"default", "plan", "autonomous"}

ASSUME ProfileAssumption ==
    /\ IsFiniteSet(Caller)
    /\ Selectable \subseteq Profile
    /\ MaxRuns \in Nat \ {0} /\ MaxCalls \in Nat /\ MaxRestarts \in Nat

VARIABLES
    active,     \* the broker's entry for the conversation
    wired,      \* the profile broker is configured
    row,        \* row[i]: state of the i-th run in the ledger
    call,       \* call[c]: what c is doing, where, with which row and name
    chip,       \* the profile a client shows
    calls,      \* calls begun
    restarts,   \* restarts so far
    raced,      \* history: the last change overlapped with another use
    torn,       \* history: autonomous, though its run closed, for a reason below
    touched     \* history: touched[c]: others wrote while c was in flight

vars == <<active, wired, row, call, chip, calls, restarts, raced, torn, touched>>

Row == 1..MaxRuns
Op == {"select", "enter", "leave", "exit", "start", "ask"}
Idle == [op |-> "none", at |-> "idle", row |-> 0, name |-> "default", cut |-> FALSE]

Running == {i \in Row : row[i] = "running"}
InFlight(c) == call[c].at # "idle"
Others(c) == {d \in Caller \ {c} : InFlight(d)}
Goto(c, at) == call' = [call EXCEPT ![c].at = at]
\* Everyone in flight learns that c wrote to the broker or the ledger.
Touch(c) == touched' = [d \in Caller |-> touched[d] \/ d \in Others(c)]

TypeOK ==
    /\ active \in Profile /\ chip \in Profile
    /\ wired \in BOOLEAN /\ raced \in BOOLEAN /\ torn \in BOOLEAN
    /\ row \in [Row -> {"none", "running", "abandoned", "completed"}]
    /\ call \in [Caller -> [op : Op \cup {"none"}, row : 0..MaxRuns, name : Profile, cut : BOOLEAN,
                            at : {"idle", "look", "ledger", "write", "set", "name", "tell",
                                  "failed", "reply"}]]
    /\ calls \in 0..MaxCalls /\ restarts \in 0..MaxRestarts
    /\ touched \in [Caller -> BOOLEAN]

\* A server starts with the profile "default" and whatever the ledger holds.
Init ==
    /\ active = "default" /\ chip = "default"
    /\ wired \in BOOLEAN
    /\ \E first \in {"none", "running", "completed"} :
           row = [i \in Row |-> IF i = 1 THEN first ELSE "none"]
    /\ call = [c \in Caller |-> Idle]
    /\ calls = 0 /\ restarts = 0
    /\ raced = FALSE /\ torn = FALSE
    /\ touched = [c \in Caller |-> FALSE]

-----------------------------------------------------------------------------
(* Beginning a call                                                        *)

Begin(c, op, at, name) ==
    /\ ~InFlight(c) /\ calls < MaxCalls
    /\ calls' = calls + 1
    /\ call' = [call EXCEPT ![c] = [op |-> op, at |-> at, row |-> 0, name |-> name, cut |-> FALSE]]
    /\ touched' = [touched EXCEPT ![c] = Others(c) # {}]
    /\ UNCHANGED <<active, wired, row, chip, restarts, raced, torn>>

\* SetSessionProfile, suggest_plan, plan_exit, request_plan_approval.
Select(c) == \E name \in Selectable : Begin(c, "select", "set", name)
\* suggest_autonomous and request_autonomous_execution.
Enter(c) == Begin(c, "enter", "ledger", "autonomous")
\* auto_exit; request_autonomous_exit.
Leave(c) == Begin(c, "leave", "ledger", "default")
Exit(c) == Begin(c, "exit", "ledger", "default")
\* A turn starts; GetSessionProfile.
StartTurn(c) == Begin(c, "start", "look", "autonomous")
Ask(c) == Begin(c, "ask", "look", "autonomous")

-----------------------------------------------------------------------------
(* The broker, and the one way to change it                                *)

Finish(c) == call' = [call EXCEPT ![c] = Idle]

\* SetActive: under the broker's lock.
SetActive(c) ==
    /\ call[c].at = "set" /\ wired
    /\ active' = call[c].name
    /\ Goto(c, "name")
    /\ raced' = (Others(c) # {})
    /\ torn' = \/ torn /\ (active' = "autonomous" \/ Others(c) # {})
               \/ call[c].op = "select" /\ active' = "autonomous"
    /\ Touch(c)
    /\ UNCHANGED <<wired, row, chip, calls, restarts>>

\* "profile broker not configured": nothing changes.
SetRefused(c) ==
    /\ call[c].at = "set" /\ ~wired
    /\ Goto(c, "failed")
    /\ UNCHANGED <<active, wired, row, chip, calls, restarts, raced, torn, touched>>

\* ActiveName, under the lock again: what is announced is read back.
ReadName(c) ==
    /\ call[c].at = "name"
    /\ call' = [call EXCEPT ![c] = [@ EXCEPT !.at = "tell", !.name = active]]
    /\ UNCHANGED <<active, wired, row, chip, calls, restarts, raced, torn, touched>>

\* Mutant of Announce: the restore at turn start goes to the broker directly.
AnnounceSome(c) ==
    /\ call[c].at = "tell"
    /\ chip' = IF call[c].op = "start" THEN chip ELSE call[c].name
    /\ IF call[c].op = "ask"
       THEN call' = [call EXCEPT ![c] = [@ EXCEPT !.at = "reply", !.name = "autonomous"]]
       ELSE Finish(c)
    /\ UNCHANGED <<active, wired, row, calls, restarts, raced, torn, touched>>

\* broadcastSessionProfile: the hub's lock orders what the clients get.
\* The caller of GetSessionProfile goes on, any other is done.
Announce(c) ==
    /\ call[c].at = "tell"
    /\ chip' = call[c].name
    /\ IF call[c].op = "ask"
       THEN call' = [call EXCEPT ![c] = [@ EXCEPT !.at = "reply", !.name = "autonomous"]]
       ELSE Finish(c)
    /\ UNCHANGED <<active, wired, row, calls, restarts, raced, torn, touched>>

-----------------------------------------------------------------------------
(* Restoring the profile from the ledger                                   *)

\* Mutant of Look: a session in the default posture is taken as settled.
LookTrusting(c) ==
    /\ call[c].at = "look"
    /\ IF call[c].op = "ask"
       THEN call' = [call EXCEPT ![c] = [@ EXCEPT !.at = "reply", !.name = active]]
       ELSE Finish(c)
    /\ raced' = IF call[c].op = "ask" THEN Others(c) # {} ELSE raced
    /\ UNCHANGED <<active, wired, row, chip, calls, restarts, torn, touched>>

\* ActiveName: only the default posture is restored over. GetSessionProfile reads
\* it twice; that a change between the reads is seen is left to the next step.
Look(c) ==
    /\ call[c].at = "look"
    /\ IF active = "default" /\ wired THEN Goto(c, "ledger")
       ELSE IF call[c].op = "ask"
            THEN call' = [call EXCEPT ![c] = [@ EXCEPT !.at = "reply", !.name = active]]
            ELSE Finish(c)
    /\ raced' = IF call[c].op = "ask" THEN Others(c) # {} ELSE raced
    /\ UNCHANGED <<active, wired, row, chip, calls, restarts, torn, touched>>

\* GetActiveAutonomyRun: an unfinished run has the profile set.
Restore(c) ==
    /\ call[c].at = "ledger" /\ call[c].op \in {"start", "ask"}
    /\ IF Running # {} THEN Goto(c, "set")
       ELSE IF call[c].op = "ask"
            THEN call' = [call EXCEPT ![c] = [@ EXCEPT !.at = "reply", !.name = "default"]]
            ELSE Finish(c)
    /\ UNCHANGED <<active, wired, row, chip, calls, restarts, raced, torn, touched>>

\* The reply of GetSessionProfile reaches the client, or comes too late for it.
Reply(c) ==
    /\ call[c].at = "reply"
    /\ \/ chip' = call[c].name /\ UNCHANGED raced
       \/ raced' = TRUE /\ UNCHANGED chip
    /\ Finish(c)
    /\ UNCHANGED <<active, wired, row, calls, restarts, torn, touched>>

-----------------------------------------------------------------------------
(* Autonomous mode: the tools                                              *)

\* enterAutonomousMode refuses a second run; the others want an active one.
ReadLedger(c) ==
    /\ call[c].at = "ledger" /\ call[c].op \in {"enter", "leave", "exit"}
    /\ IF call[c].op = "enter"
       THEN IF Running = {} THEN Goto(c, "write") ELSE Finish(c)
       ELSE IF Running = {} THEN Finish(c)
            ELSE call' = [call EXCEPT ![c] = [@ EXCEPT !.at = "write",
                                                      !.row = CHOOSE i \in Running : TRUE]]
    /\ UNCHANGED <<active, wired, row, chip, calls, restarts, raced, torn, touched>>

\* CreateAutonomyRun: the index admits one active run per conversation.
CreateRun(c) ==
    /\ call[c].at = "write" /\ call[c].op = "enter"
    /\ LET free == {i \in Row : row[i] = "none"} IN
       IF Running # {}
       THEN Finish(c) /\ UNCHANGED <<row, touched>>
       ELSE /\ free # {}
            /\ \E i \in free :
                 /\ \A j \in free : i <= j
                 /\ row' = [row EXCEPT ![i] = "running"]
                 /\ IF call[c].cut THEN Finish(c)
                    ELSE call' = [call EXCEPT ![c] = [@ EXCEPT !.at = "set", !.row = i]]
            /\ Touch(c)
    /\ UNCHANGED <<active, wired, chip, calls, restarts, raced, torn>>

\* Those who hold that the run is active, and will set or have set its profile.
Stale(c) == \E d \in Others(c) : call[d].op \in {"start", "ask", "enter"}
                                 /\ call[d].at \in {"set", "name", "tell", "reply"}

\* Mutant of CloseRun: the profile is left alone.
CloseRunOnly(c) ==
    /\ call[c].at = "write" /\ call[c].op \in {"leave", "exit"}
    /\ row' = [row EXCEPT ![call[c].row] = IF call[c].op = "leave" THEN "abandoned" ELSE "completed"]
    /\ torn' = (torn \/ Stale(c))
    /\ Finish(c)
    /\ Touch(c)
    /\ UNCHANGED <<active, wired, chip, calls, restarts, raced>>

\* UpdateAutonomyRun: by run id, whatever the row's state is by now.
CloseRun(c) ==
    /\ call[c].at = "write" /\ call[c].op \in {"leave", "exit"}
    /\ row' = [row EXCEPT ![call[c].row] = IF call[c].op = "leave" THEN "abandoned" ELSE "completed"]
    /\ torn' = (torn \/ Stale(c) \/ call[c].cut)
    /\ IF call[c].cut THEN Finish(c) ELSE Goto(c, "set")
    /\ Touch(c)
    /\ UNCHANGED <<active, wired, chip, calls, restarts, raced>>

\* The profile was refused: enter abandons its run, request_autonomous_exit
\* restores the row it read (unless the index refuses), auto_exit gives up.
Failed(c) ==
    /\ call[c].at = "failed" /\ ~call[c].cut
    /\ CASE call[c].op = "enter" -> row' = [row EXCEPT ![call[c].row] = "abandoned"]
         [] call[c].op = "exit" /\ Running \subseteq {call[c].row} ->
                row' = [row EXCEPT ![call[c].row] = "running"]
         [] OTHER -> UNCHANGED row
    /\ Finish(c)
    /\ Touch(c)
    /\ UNCHANGED <<active, wired, chip, calls, restarts, raced, torn>>

\* The worker is killed: its tool goes no further, but a request that was sent
\* is still carried out.
Cut(c) ==
    /\ call[c].op \in {"enter", "leave", "exit"} /\ ~call[c].cut
    /\ \/ /\ call[c].at \in {"write", "set", "name", "tell"}
          /\ call' = [call EXCEPT ![c].cut = TRUE]
       \/ call[c].at \in {"ledger", "write", "set", "failed"} /\ Finish(c)
    /\ torn' = (torn \/ (call[c].at = "set" /\ call[c].op # "enter"))
    /\ UNCHANGED <<active, wired, row, chip, calls, restarts, raced, touched>>

\* The refusal of a request whose tool is gone.
CutRefused(c) ==
    /\ call[c].at = "failed" /\ call[c].cut
    /\ Finish(c)
    /\ UNCHANGED <<active, wired, row, chip, calls, restarts, raced, torn, touched>>

\* The agent restarts: the ledger stays, the rest is gone.
Restart ==
    /\ restarts < MaxRestarts
    /\ restarts' = restarts + 1
    /\ active' = "default"
    /\ call' = [c \in Caller |-> Idle]
    /\ raced' = TRUE /\ torn' = FALSE
    /\ touched' = [c \in Caller |-> FALSE]
    /\ UNCHANGED <<wired, row, chip, calls>>

CallStep(c) ==
    \/ Select(c) \/ Enter(c) \/ Leave(c) \/ Exit(c) \/ StartTurn(c) \/ Ask(c)
    \/ SetActive(c) \/ SetRefused(c) \/ ReadName(c) \/ Announce(c)
    \/ Look(c) \/ Restore(c) \/ Reply(c)
    \/ ReadLedger(c) \/ CreateRun(c) \/ CloseRun(c) \/ Failed(c)
    \/ Cut(c) \/ CutRefused(c)

Next == Restart \/ \E c \in Caller : CallStep(c)

Spec == Init /\ [][Next]_vars

-----------------------------------------------------------------------------
(* Properties                                                              *)

Quiet == \A c \in Caller : ~InFlight(c)

\* Once nothing is in flight clients show the broker's profile, unless the last
\* change overlapped with another change or a query, or the agent restarted.
ChipFollows == Quiet /\ ~raced => chip = active

\* A conversation is left in autonomous mode without a run only if a client
\* asked for just that, the tool that closed the run was killed before it could
\* leave, or another call set the profile for a run that closed meanwhile; and
\* it never has two active runs, whoever writes the rows.
FenceHasRun ==
    /\ TypeOK
    /\ Cardinality(Running) <= 1
    /\ Quiet /\ active = "autonomous" /\ ~torn => Running # {}

\* A turn does not start unfenced on an unfinished run, whatever restarts and
\* killed tools left behind, unless others wrote while it was restoring.
TurnFenced ==
    [][\A c \in Caller :
           call[c].op = "start" /\ call'[c].op = "none" /\ restarts' = restarts
           /\ wired /\ ~touched[c]
           /\ (\E i \in Row : row'[i] = "running")
           => active' # "default"]_vars
=============================================================================
