---------------------------- MODULE TurnHandler ----------------------------
(***************************************************************************)
(* The front door of a conversation's turns: streamProcessRequestWithTool- *)
(* Loop of source/server/internal/server/server.go with the continuation   *)
(* gate of autonomy_continuation.go.                                       *)
(*                                                                         *)
(* A request begins a turn, attaches to the broker without loss, and chains*)
(* model turns: each runs in a goroutine of its own that publishes events, *)
(* persists messages and works on the autonomy ledger while the handler    *)
(* forwards events to the client. Requests of one conversation overlap: a  *)
(* newer one cancels the context of the one before it, whose handler and   *)
(* runner go on until they notice.                                         *)
(*                                                                         *)
(* The broker is taken at its promise (EventFeed, which TurnBroker         *)
(* implements): a log, and per request how far it has been forwarded into  *)
(* the channel (fwd) and read from it (pos).                               *)
(***************************************************************************)
EXTENDS Naturals, Sequences

CONSTANTS
    Request,            \* calls of StreamProcessRequest for one conversation
    NoRequest,          \* no registered turn
    NoProgressLimit,    \* autonomyNoProgressLimit, 3 in the code
    Start,              \* what may be stored of the conversation at the start
    Tools,              \* bound: the ledger tools runners use
    MayPrompt,          \* bound: runners ask for permission
    MayLeave,           \* bound: clients disconnect, turns are cancelled
    MaxLog,             \* bound: events published
    MaxHistory,         \* bound: messages persisted
    MaxRuns             \* bound: autonomy runs created

States == {"closed", "running", "review"}
Ledger == [id : Nat, state : States, blocked : BOOLEAN]
NoRun == [id |-> 0, state |-> "closed", blocked |-> FALSE]

ASSUME HandlerAssumption ==
    /\ NoRequest \notin Request
    /\ NoProgressLimit \in Nat \ {0}
    /\ Start \subseteq [history : Seq({0}), ledger : Ledger]
    /\ Tools \subseteq {"enter", "exit", "complete", "block", "decide"}
    /\ MayPrompt \in BOOLEAN /\ MayLeave \in BOOLEAN
    /\ MaxLog \in Nat /\ MaxHistory \in Nat /\ MaxRuns \in Nat

VARIABLES
    gen,        \* the live generation
    handle,     \* the request whose turn is registered
    log,        \* the accepted events: who published them, in which turn, and
                \* whether they are evidence of work
    start,      \* the replay buffer is log after this position
    history,    \* the generations of the persisted messages, in order
    ledger,     \* the autonomy run that is active, or was last
    runs,       \* autonomy runs created so far
    rpc,        \* rpc[r]: where the handler is
    rgen,       \* rgen[r]: turnGen
    ctxDone,    \* ctxDone[r]: the turn's context is done
    gone,       \* gone[r]: the client of r disconnected
    replayTo,   \* replayTo[r]: the end of the replay
    fwd,        \* fwd[r]: the last event in r's channel
    pos,        \* pos[r]: the last event r took
    inSend,     \* inSend[r]: the handler is inside stream.Send
    mark,       \* mark[r]: the position of the barrier or the seal
    sealed,     \* sealed[r]: finishDelivery was called
    cont,       \* cont[r]: the gate chains another turn
    turn,       \* turn[r]: the number of model turns started
    prev,       \* prev[r]: the ledger snapshot, NoRun for havePrevRun = false
    noProgress, \* noProgress[r]
    work,       \* work[r]: workMonitor.HasWork()
    run,        \* run[r]: the runner goroutine: "off", "on" or its result
    op,         \* op[r]: what the runner or handler has begun and not finished
    row,        \* row[r]: the ledger row it read for that
    idle,       \* history: idle[r] turns in a row published no work and did
                \* not move the ledger
    late        \* history: late[r] turns started with the context done

brokerVars == <<gen, handle, log, start>>
storeVars == <<history, ledger, runs>>
feedVars == <<replayTo, fwd, pos, inSend, mark, sealed>>
chainVars == <<cont, turn, prev, noProgress, work, idle, late>>
runVars == <<run, op, row>>
ctxVars == <<rgen, ctxDone, gone>>
vars == <<brokerVars, storeVars, rpc, ctxVars, feedVars, chainVars, runVars>>

Results == {"ok", "err", "synthetic"}

TypeOK ==
    /\ gen \in Nat /\ start \in 0..Len(log)
    /\ handle \in Request \cup {NoRequest}
    /\ log \in Seq([req : Request, turn : Nat, work : BOOLEAN])
    /\ history \in Seq(Nat)
    /\ ledger \in Ledger /\ runs \in Nat
    /\ rpc \in [Request -> {"new", "begun", "attached", "clearing", "cleared", "replaying",
                            "ready", "draining", "failing", "fencing", "trailing",
                            "sealing", "final", "done"}]
    /\ rgen \in [Request -> 0..gen]
    /\ ctxDone \in [Request -> BOOLEAN] /\ gone \in [Request -> BOOLEAN]
    /\ replayTo \in [Request -> 0..Len(log)] /\ mark \in [Request -> 0..Len(log)]
    /\ fwd \in [Request -> 0..Len(log)] /\ pos \in [Request -> 0..Len(log)]
    /\ \A r \in Request : pos[r] <= fwd[r]
    /\ inSend \in [Request -> BOOLEAN] /\ sealed \in [Request -> BOOLEAN]
    /\ cont \in [Request -> BOOLEAN] /\ work \in [Request -> BOOLEAN]
    /\ turn \in [Request -> Nat] /\ idle \in [Request -> Nat] /\ late \in [Request -> Nat]
    /\ noProgress \in [Request -> 0..NoProgressLimit]
    /\ prev \in [Request -> Ledger] /\ row \in [Request -> Ledger]
    /\ run \in [Request -> {"off", "on"} \cup Results]
    /\ op \in [Request -> {"none", "persist", "enter", "exit", "complete", "block", "decide",
                           "join", "leave", "prompt"}]

Init ==
    /\ gen = 0 /\ handle = NoRequest /\ log = << >> /\ start = 0
    /\ \E stored \in Start : history = stored.history /\ ledger = stored.ledger
    /\ runs = ledger.id
    /\ rpc = [r \in Request |-> "new"]
    /\ rgen = [r \in Request |-> 0]
    /\ ctxDone = [r \in Request |-> FALSE]
    /\ gone = [r \in Request |-> FALSE]
    /\ replayTo = [r \in Request |-> 0]
    /\ fwd = [r \in Request |-> 0]
    /\ pos = [r \in Request |-> 0]
    /\ inSend = [r \in Request |-> FALSE]
    /\ mark = [r \in Request |-> 0]
    /\ sealed = [r \in Request |-> FALSE]
    /\ cont = [r \in Request |-> FALSE]
    /\ turn = [r \in Request |-> 0]
    /\ prev = [r \in Request |-> NoRun]
    /\ noProgress = [r \in Request |-> 0]
    /\ work = [r \in Request |-> FALSE]
    /\ run = [r \in Request |-> "off"]
    /\ op = [r \in Request |-> "none"]
    /\ row = [r \in Request |-> NoRun]
    /\ idle = [r \in Request |-> 0]
    /\ late = [r \in Request |-> 0]

-----------------------------------------------------------------------------
(* The store *)

Active(l) == l.state \in {"running", "review"}

(* UpdateAutonomyRun: the whole row, by run id; a second active row of the  *)
(* conversation violates the unique index and changes nothing.             *)
Update(l) ==
    ledger' = IF l.id = ledger.id \/ (Active(l) /\ ~Active(ledger)) THEN l ELSE ledger

(* activeAutonomyRun: nothing when the context is done. *)
ActiveRun(r) == IF Active(ledger) /\ ~ctxDone[r] THEN ledger ELSE NoRun

-----------------------------------------------------------------------------
(* The beginning and the end of a request *)

Goto(r, pc) == rpc' = [rpc EXCEPT ![r] = pc]

(* beginTurn: supersede the registered turn. *)
Begin(r) ==
    /\ rpc[r] = "new"
    /\ Goto(r, "begun")
    /\ gen' = gen + 1
    /\ rgen' = [rgen EXCEPT ![r] = gen + 1]
    /\ handle' = r
    /\ ctxDone' = [q \in Request |-> ctxDone[q] \/ q = handle]
    /\ start' = Len(log)
    /\ UNCHANGED <<log, storeVars, gone, feedVars, chainVars, runVars>>

(* return: the deferred detach and releaseTurn. *)
Return(r) ==
    /\ Goto(r, "done")
    /\ ctxDone' = [ctxDone EXCEPT ![r] = TRUE]
    /\ handle' = IF handle = r THEN NoRequest ELSE handle

(* persistDevMode fails. *)
BeginFails(r) ==
    /\ rpc[r] = "begun" /\ Return(r)
    /\ UNCHANGED <<gen, log, start, storeVars, rgen, gone, feedVars, chainVars, runVars>>

(* AttachLosslessWithBarrierAndFinish *)
Attach(r) ==
    /\ rpc[r] = "begun"
    /\ Goto(r, "attached")
    /\ replayTo' = [replayTo EXCEPT ![r] = Len(log)]
    /\ fwd' = [fwd EXCEPT ![r] = Len(log)]
    /\ pos' = [pos EXCEPT ![r] = start]
    /\ UNCHANGED <<brokerVars, storeVars, ctxVars, inSend, mark, sealed, chainVars, runVars>>

(* clearAutonomyBlockerAtRequestStart: read the active run ... *)
ReadBlocker(r) ==
    LET l == ActiveRun(r) IN
    /\ rpc[r] = "attached"
    /\ row' = [row EXCEPT ![r] = l]
    /\ Goto(r, IF l.state = "running" /\ l.blocked THEN "clearing" ELSE "cleared")
    /\ UNCHANGED <<brokerVars, storeVars, ctxVars, feedVars, chainVars, run, op>>

(* Mutant: the row is written whatever happened to the turn meanwhile. *)
ClearBlockerDetached(r) ==
    /\ rpc[r] = "clearing"
    /\ Update([row[r] EXCEPT !.blocked = FALSE])
    /\ Goto(r, "cleared")
    /\ UNCHANGED <<brokerVars, history, runs, ctxVars, feedVars, chainVars, runVars>>

(* ... and write it back without the blocker, under the turn's context. *)
ClearBlocker(r) ==
    /\ rpc[r] = "clearing"
    /\ IF ctxDone[r] THEN UNCHANGED ledger ELSE Update([row[r] EXCEPT !.blocked = FALSE])
    /\ Goto(r, "cleared")
    /\ UNCHANGED <<brokerVars, history, runs, ctxVars, feedVars, chainVars, runVars>>

SnapshotLedger(r) ==
    /\ rpc[r] = "cleared"
    /\ prev' = [prev EXCEPT ![r] = ActiveRun(r)]
    /\ Goto(r, "replaying")
    /\ UNCHANGED <<brokerVars, storeVars, ctxVars, feedVars, cont, turn, noProgress, work,
                   idle, late, runVars>>

(* sendRunnerEvent of a replayed event; a dead stream ends the request. *)
Replay(r) ==
    /\ rpc[r] = "replaying" /\ pos[r] < replayTo[r]
    /\ pos' = [pos EXCEPT ![r] = @ + 1]
    /\ \/ UNCHANGED <<rpc, ctxDone, handle>>
       \/ gone[r] /\ Return(r)
    /\ UNCHANGED <<gen, log, start, storeVars, rgen, gone, replayTo, fwd, inSend, mark,
                   sealed, chainVars, runVars>>

Replayed(r) ==
    /\ rpc[r] = "replaying" /\ pos[r] = replayTo[r]
    /\ Goto(r, "ready")
    /\ UNCHANGED <<brokerVars, storeVars, ctxVars, feedVars, chainVars, runVars>>

(* go func() { ... RunTurn ... }() *)
StartTurn(r) ==
    /\ rpc[r] = "ready"
    /\ Goto(r, "draining")
    /\ run' = [run EXCEPT ![r] = "on"]
    /\ turn' = [turn EXCEPT ![r] = @ + 1]
    /\ late' = [late EXCEPT ![r] = IF ctxDone[r] THEN @ + 1 ELSE @]
    /\ UNCHANGED <<brokerVars, storeVars, ctxVars, feedVars, cont, prev, noProgress, work,
                   idle, op, row>>

-----------------------------------------------------------------------------
(* The runner goroutine *)

Free(r) == run[r] = "on" /\ op[r] = "none"

(* brokerSink.Emit; a fenced Publish changes nothing. *)
Publish(r, w) ==
    /\ Free(r) /\ gen = rgen[r] /\ Len(log) < MaxLog
    /\ log' = Append(log, [req |-> r, turn |-> turn[r], work |-> w])
    /\ UNCHANGED <<gen, handle, start, storeVars, rpc, ctxVars, feedVars, chainVars, runVars>>

(* persist: the fence, without the broker's lock ... *)
PersistCheck(r) ==
    /\ Free(r) /\ gen = rgen[r] /\ Len(history) < MaxHistory
    /\ op' = [op EXCEPT ![r] = "persist"]
    /\ UNCHANGED <<brokerVars, storeVars, rpc, ctxVars, feedVars, chainVars, run, row>>

(* Mutant: the write does not look at the turn's context. *)
PersistWriteDetached(r) ==
    /\ op[r] = "persist"
    /\ history' = Append(history, rgen[r])
    /\ op' = [op EXCEPT ![r] = "none"]
    /\ UNCHANGED <<brokerVars, ledger, runs, rpc, ctxVars, feedVars, chainVars, run, row>>

(* ... and the write, under the turn's context. *)
PersistWrite(r) ==
    /\ op[r] = "persist"
    /\ history' = IF ctxDone[r] THEN history ELSE Append(history, rgen[r])
    /\ op' = [op EXCEPT ![r] = "none"]
    /\ UNCHANGED <<brokerVars, ledger, runs, rpc, ctxVars, feedVars, chainVars, run, row>>

(* The ledger tools read the active run ... *)
ToolRead(r, tool) ==
    /\ Free(r) /\ ~ctxDone[r]
    /\ CASE tool = "enter" -> ~Active(ledger) /\ runs < MaxRuns
         [] tool \in {"exit", "complete"} -> Active(ledger)
         [] tool \in {"block", "decide"} -> ledger.state = "running"
    /\ op' = [op EXCEPT ![r] = tool]
    /\ row' = [row EXCEPT ![r] = ledger]
    /\ UNCHANGED <<brokerVars, storeVars, rpc, ctxVars, feedVars, chainVars, run>>

Written(r) ==
    CASE op[r] \in {"exit", "complete"} -> [row[r] EXCEPT !.state = "closed"]
      [] op[r] = "block" -> [row[r] EXCEPT !.blocked = TRUE]
      [] op[r] = "decide" -> row[r]

(* ... and write it back changed (a captured decision does not show here).  *)
(* Once a run is saved as completed, the session leaves autonomous mode.   *)
ToolWrite(r) ==
    /\ op[r] \in {"exit", "complete", "block", "decide"}
    /\ IF ctxDone[r] THEN UNCHANGED ledger ELSE Update(Written(r))
    /\ op' = [op EXCEPT ![r] = IF @ = "complete" /\ ~ctxDone[r] THEN "leave" ELSE "none"]
    /\ UNCHANGED <<brokerVars, history, runs, rpc, ctxVars, feedVars, chainVars, run, row>>

(* request_autonomous_exit: EnterProfile succeeds, or it fails and the row  *)
(* of before the completion is written back, whatever became of the turn   *)
(* (in a worker the host refuses the write once the turn is cancelled).    *)
ExitProfile(r) ==
    /\ op[r] = "leave"
    /\ UNCHANGED ledger \/ Update(row[r])
    /\ op' = [op EXCEPT ![r] = "none"]
    /\ UNCHANGED <<brokerVars, history, runs, rpc, ctxVars, feedVars, chainVars, run, row>>

(* enterAutonomousMode: insert a run, unless one is active by now, and      *)
(* enter the profile.                                                      *)
CreateRun(r) ==
    LET l == [id |-> runs + 1, state |-> "running", blocked |-> FALSE]
        created == ~ctxDone[r] /\ ~Active(ledger) IN
    /\ op[r] = "enter"
    /\ IF created THEN ledger' = l /\ runs' = l.id ELSE UNCHANGED <<ledger, runs>>
    /\ row' = IF created THEN [row EXCEPT ![r] = l] ELSE row
    /\ op' = [op EXCEPT ![r] = IF created THEN "join" ELSE "none"]
    /\ UNCHANGED <<brokerVars, history, rpc, ctxVars, feedVars, chainVars, run>>

(* EnterProfile succeeds, or the new run is abandoned. *)
EnterProfile(r) ==
    /\ op[r] = "join"
    /\ \/ UNCHANGED ledger
       \/ ~ctxDone[r] /\ Update([row[r] EXCEPT !.state = "closed"])
    /\ op' = [op EXCEPT ![r] = "none"]
    /\ UNCHANGED <<brokerVars, history, runs, rpc, ctxVars, feedVars, chainVars, run, row>>

(* requester: stream.Send(PermissionRequired), from the runner's goroutine. *)
PromptSend(r) ==
    /\ MayPrompt /\ Free(r)
    /\ op' = [op EXCEPT ![r] = "prompt"]
    /\ UNCHANGED <<brokerVars, storeVars, rpc, ctxVars, feedVars, chainVars, run, row>>

(* The Send is over and the call is answered, cancelled or failed. *)
PromptDone(r) ==
    /\ op[r] = "prompt"
    /\ op' = [op EXCEPT ![r] = "none"]
    /\ UNCHANGED <<brokerVars, storeVars, rpc, ctxVars, feedVars, chainVars, run, row>>

(* doneCh <- turnResult *)
RunnerEnd(r) ==
    /\ Free(r)
    /\ \E res \in Results : run' = [run EXCEPT ![r] = res]
    /\ UNCHANGED <<brokerVars, storeVars, rpc, ctxVars, feedVars, chainVars, op, row>>

-----------------------------------------------------------------------------
(* Delivery to the client *)

(* The broker's drain goroutine; after the seal it stops at the seal. *)
BrokerForward(r) ==
    /\ rpc[r] \notin {"new", "begun", "done"}
    /\ fwd[r] < (IF sealed[r] THEN mark[r] ELSE Len(log))
    /\ fwd' = [fwd EXCEPT ![r] = @ + 1]
    /\ UNCHANGED <<brokerVars, storeVars, rpc, ctxVars, replayTo, pos, inSend, mark, sealed,
                   chainVars, runVars>>

(* ev := <-ch; workMonitor.Observe(ev) *)
Take(r) ==
    /\ pos[r] < fwd[r]
    /\ pos' = [pos EXCEPT ![r] = @ + 1]
    /\ work' = [work EXCEPT ![r] = @ \/ log[pos[r] + 1].work]

(* While the runner runs: take an event and call stream.Send ... *)
Forward(r) ==
    /\ rpc[r] = "draining" /\ ~inSend[r]
    /\ Take(r)
    /\ inSend' = [inSend EXCEPT ![r] = TRUE]
    /\ UNCHANGED <<brokerVars, storeVars, rpc, ctxVars, replayTo, fwd, mark, sealed, cont,
                   turn, prev, noProgress, idle, late, runVars>>

(* ... which returns; on an error the handler waits for the runner. *)
Sent(r) ==
    /\ inSend[r]
    /\ inSend' = [inSend EXCEPT ![r] = FALSE]
    /\ \/ UNCHANGED rpc
       \/ gone[r] /\ Goto(r, "failing")
    /\ UNCHANGED <<brokerVars, storeVars, ctxVars, replayTo, fwd, pos, mark, sealed,
                   chainVars, runVars>>

Failed(r) ==
    /\ rpc[r] = "failing" /\ run[r] \in Results
    /\ Return(r)
    /\ UNCHANGED <<gen, log, start, storeVars, rgen, gone, feedVars, chainVars, runVars>>

(* Mutant: the end of the turn is not fenced by a barrier. *)
TurnDoneUnfenced(r) ==
    /\ rpc[r] = "draining" /\ ~inSend[r] /\ run[r] \in Results
    /\ Goto(r, "trailing")
    /\ UNCHANGED <<brokerVars, storeVars, ctxVars, feedVars, chainVars, runVars>>

(* tr = <-doneCh; deliveryBarrier() *)
TurnDone(r) ==
    /\ rpc[r] = "draining" /\ ~inSend[r] /\ run[r] \in Results
    /\ mark' = [mark EXCEPT ![r] = Len(log)]
    /\ Goto(r, "fencing")
    /\ UNCHANGED <<brokerVars, storeVars, ctxVars, replayTo, fwd, pos, inSend, sealed,
                   chainVars, runVars>>

(* Receive and send until the barrier, while events are left, and after the *)
(* seal until the channel is closed; a dead stream ends the request.       *)
Deliver(r) ==
    /\ rpc[r] \in {"fencing", "trailing", "sealing"}
    /\ Take(r)
    /\ \/ UNCHANGED <<rpc, ctxDone, handle>>
       \/ gone[r] /\ Return(r)
    /\ UNCHANGED <<gen, log, start, storeVars, rgen, gone, replayTo, fwd, inSend, mark,
                   sealed, cont, turn, prev, noProgress, idle, late, runVars>>

(* case <-stream.Context().Done() while waiting for the barrier. *)
StreamDone(r) ==
    /\ rpc[r] = "fencing" /\ gone[r] /\ Return(r)
    /\ UNCHANGED <<gen, log, start, storeVars, rgen, gone, feedVars, chainVars, runVars>>

(* Mutant: the barrier waits for an event after it. *)
DeliveredLate(r) ==
    /\ rpc[r] = "fencing" /\ fwd[r] > mark[r]
    /\ Goto(r, "trailing")
    /\ UNCHANGED <<brokerVars, storeVars, ctxVars, feedVars, chainVars, runVars>>

(* case <-delivered *)
Delivered(r) ==
    /\ rpc[r] = "fencing" /\ fwd[r] >= mark[r]
    /\ Goto(r, "trailing")
    /\ UNCHANGED <<brokerVars, storeVars, ctxVars, feedVars, chainVars, runVars>>

(* finishDelivery() *)
Seal(r) ==
    /\ sealed' = [sealed EXCEPT ![r] = TRUE]
    /\ mark' = [mark EXCEPT ![r] = Len(log)]
    /\ Goto(r, "sealing")

Drained(r) == rpc[r] = "trailing" /\ pos[r] = fwd[r]

(* The turn failed or was cancelled. *)
EndFailed(r) ==
    /\ Drained(r) /\ run[r] = "err" /\ Return(r)
    /\ UNCHANGED <<gen, log, start, storeVars, rgen, gone, feedVars, chainVars, runVars>>

(* No loop ran: seal, then the only response. *)
EndSynthetic(r) ==
    /\ Drained(r) /\ run[r] = "synthetic" /\ Seal(r)
    /\ cont' = [cont EXCEPT ![r] = FALSE]
    /\ UNCHANGED <<brokerVars, storeVars, ctxVars, replayTo, fwd, pos, inSend, turn, prev,
                   noProgress, work, idle, late, runVars>>

(* evaluateAutonomyContinuation *)
Changed(r) == prev[r] = NoRun \/ prev[r].id # ledger.id \/ prev[r].state # ledger.state

MayChain(r) ==
    /\ ~ctxDone[r] /\ gen = rgen[r]
    /\ ledger.state = "running" /\ ~ledger.blocked

WorkedThisTurn(r) ==
    \E i \in 1..Len(log) : log[i].req = r /\ log[i].turn = turn[r] /\ log[i].work

(* The gate chains another turn, or the streak is at its limit. *)
Counted(r) ==
    /\ noProgress' = [noProgress EXCEPT ![r] = IF Changed(r) \/ work[r] THEN 0 ELSE @ + 1]
    /\ idle' = [idle EXCEPT ![r] = IF Changed(r) \/ WorkedThisTurn(r) THEN 0 ELSE @ + 1]

(* Mutant: the gate looks at the ledger only. *)
GateContinueUnchecked(r) ==
    /\ Drained(r) /\ run[r] = "ok" /\ Active(ledger)
    /\ Counted(r) /\ noProgress'[r] < NoProgressLimit
    /\ cont' = [cont EXCEPT ![r] = TRUE]
    /\ prev' = [prev EXCEPT ![r] = ledger]
    /\ work' = [work EXCEPT ![r] = FALSE]
    /\ Goto(r, "final")
    /\ UNCHANGED <<brokerVars, storeVars, ctxVars, feedVars, turn, late, runVars>>

(* Mutant: the monitor of the last segment is kept. *)
GateContinueStale(r) ==
    /\ Drained(r) /\ run[r] = "ok" /\ MayChain(r)
    /\ Counted(r) /\ noProgress'[r] < NoProgressLimit
    /\ cont' = [cont EXCEPT ![r] = TRUE]
    /\ prev' = [prev EXCEPT ![r] = ledger]
    /\ Goto(r, "final")
    /\ UNCHANGED <<brokerVars, storeVars, ctxVars, feedVars, turn, work, late, runVars>>

(* Chain: the next turn is measured on its own evidence. *)
GateContinue(r) ==
    /\ Drained(r) /\ run[r] = "ok" /\ MayChain(r)
    /\ Counted(r) /\ noProgress'[r] < NoProgressLimit
    /\ cont' = [cont EXCEPT ![r] = TRUE]
    /\ prev' = [prev EXCEPT ![r] = ledger]
    /\ work' = [work EXCEPT ![r] = FALSE]
    /\ Goto(r, "final")
    /\ UNCHANGED <<brokerVars, storeVars, ctxVars, feedVars, turn, late, runVars>>

(* autonomyNoProgressLimit turns without progress: pause. *)
GatePause(r) ==
    /\ Drained(r) /\ run[r] = "ok" /\ MayChain(r)
    /\ Counted(r) /\ noProgress'[r] >= NoProgressLimit
    /\ cont' = [cont EXCEPT ![r] = FALSE]
    /\ Seal(r)
    /\ UNCHANGED <<brokerVars, storeVars, ctxVars, replayTo, fwd, pos, inSend, turn, prev,
                   work, late, runVars>>

GateStop(r) ==
    /\ Drained(r) /\ run[r] = "ok" /\ ~MayChain(r)
    /\ cont' = [cont EXCEPT ![r] = FALSE]
    /\ Seal(r)
    /\ UNCHANGED <<brokerVars, storeVars, ctxVars, replayTo, fwd, pos, inSend, turn, prev,
                   noProgress, work, idle, late, runVars>>

(* for ev := range ch ended: the channel is closed and empty. *)
Sealed(r) ==
    /\ rpc[r] = "sealing" /\ pos[r] = mark[r]
    /\ Goto(r, "final")
    /\ UNCHANGED <<brokerVars, storeVars, ctxVars, feedVars, chainVars, runVars>>

(* FinalResponse; then the notice and return, or the announcement and the   *)
(* next turn. A dead stream ends the request.                              *)
Final(r) ==
    /\ rpc[r] = "final"
    /\ \/ ~cont[r] /\ Return(r)
       \/ gone[r] /\ Return(r)
       \/ cont[r] /\ Goto(r, "ready") /\ UNCHANGED <<ctxDone, handle>>
    /\ UNCHANGED <<gen, log, start, storeVars, rgen, gone, feedVars, chainVars, runVars>>

-----------------------------------------------------------------------------
(* The client *)

Disconnect(r) ==
    /\ MayLeave /\ rpc[r] \notin {"new", "done"} /\ ~gone[r]
    /\ gone' = [gone EXCEPT ![r] = TRUE]
    /\ ctxDone' = [ctxDone EXCEPT ![r] = TRUE]
    /\ UNCHANGED <<brokerVars, storeVars, rpc, rgen, feedVars, chainVars, runVars>>

(* Broker.CancelTurn or CancelAllTurns, when a route is changed mid-turn. *)
CancelTurn ==
    /\ MayLeave /\ handle # NoRequest
    /\ ctxDone' = [ctxDone EXCEPT ![handle] = TRUE]
    /\ gen' = gen + 1
    /\ handle' = NoRequest
    /\ start' = Len(log)
    /\ UNCHANGED <<log, storeVars, rpc, rgen, gone, feedVars, chainVars, runVars>>

-----------------------------------------------------------------------------
HandlerStep(r) ==
    \/ BeginFails(r) \/ Attach(r) \/ ReadBlocker(r) \/ ClearBlocker(r) \/ SnapshotLedger(r)
    \/ Replay(r) \/ Replayed(r) \/ StartTurn(r)
    \/ Forward(r) \/ Sent(r) \/ Failed(r) \/ TurnDone(r)
    \/ Deliver(r) \/ StreamDone(r) \/ Delivered(r) \/ EndFailed(r) \/ EndSynthetic(r)
    \/ GateContinue(r) \/ GatePause(r) \/ GateStop(r) \/ Sealed(r) \/ Final(r)

RunnerStep(r) ==
    \/ \E w \in BOOLEAN : Publish(r, w)
    \/ PersistCheck(r) \/ PersistWrite(r)
    \/ \E tool \in Tools : ToolRead(r, tool)
    \/ ToolWrite(r) \/ ExitProfile(r) \/ CreateRun(r) \/ EnterProfile(r)
    \/ PromptSend(r) \/ PromptDone(r) \/ RunnerEnd(r)

Next ==
    \/ \E r \in Request :
          Begin(r) \/ HandlerStep(r) \/ RunnerStep(r) \/ BrokerForward(r) \/ Disconnect(r)
    \/ CancelTurn

Spec == Init /\ [][Next]_vars

(* The handler and the drain goroutine run; stream.Send returns; a runner   *)
(* finishes what it has begun and, whatever it begins again, comes to its  *)
(* end once its context is done, which its loop looks at in every round.   *)
Fairness ==
    \A r \in Request :
        /\ WF_vars(HandlerStep(r)) /\ WF_vars(BrokerForward(r))
        /\ WF_vars(\/ PersistWrite(r) \/ PromptDone(r)
                   \/ ToolWrite(r) \/ ExitProfile(r) \/ CreateRun(r) \/ EnterProfile(r))
        /\ SF_vars(ctxDone[r] /\ RunnerEnd(r))

FairSpec == Spec /\ Fairness

-----------------------------------------------------------------------------
(* A FinalResponse comes after every event its turns published: what the    *)
(* runner published last is not overtaken by the answer (the barrier, the  *)
(* trailing drain and the seal).                                           *)
FinalAfterEvents ==
    \A r \in Request : rpc[r] = "final" =>
        \A i \in 1..Len(log) : log[i].req = r => i <= pos[r]

(* Messages of a superseded turn never come after messages of the turn that *)
(* superseded it, although the generation is checked before the write and  *)
(* without a lock (persist).                                               *)
HistoryByGeneration ==
    \A j \in 1..Len(history) : \A i \in 1..j : history[i] <= history[j]

(* A request whose turn is over starts at most one more model turn: a chain *)
(* does not outlive supersession, cancellation or its client. Nor does a    *)
(* runner goroutine outlive its handler, on any return path.               *)
OneLateStart ==
    /\ TypeOK
    /\ \A r \in Request : late[r] <= 1 /\ (rpc[r] = "done" => run[r] # "on")

(* The no-progress count is the number of consecutive turns that really did *)
(* nothing: work is neither missed because its event was still under way   *)
(* nor counted twice.                                                      *)
CountsIdleTurns == \A r \in Request : noProgress[r] = idle[r]

(* A run that was completed or abandoned becomes active again in one way    *)
(* only: request_autonomous_exit, which completed it and could not leave   *)
(* autonomous mode, writes back the row that it replaced. No other write   *)
(* of a row read before brings it back, whoever read it, and that call     *)
(* replaces, and so restores, an active row and never a stale one.         *)
ClosedStaysClosed ==
    [][/\ ~Active(ledger) /\ Active(ledger') =>
              \/ runs' > runs /\ ledger'.id = runs'
              \/ \E r \in Request : /\ op[r] = "leave" /\ op'[r] = "none"
                                    /\ ledger' = row[r]
       /\ \A r \in Request : op[r] # "leave" /\ op'[r] = "leave" =>
              Active(ledger) /\ row'[r] = ledger /\ ledger'.id = ledger.id /\ ~Active(ledger')
      ]_vars

(* A request that is superseded, cancelled or disconnected comes to an end. *)
CancelledRequestEnds ==
    \A r \in Request : (rpc[r] # "new" /\ ctxDone[r]) ~> rpc[r] = "done"
=============================================================================
