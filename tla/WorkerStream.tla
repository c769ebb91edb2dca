---------------------------- MODULE WorkerStream ----------------------------
(***************************************************************************)
(* One turn in a worker process, both ends of its grpc stream: runTurn and *)
(* the proxies of source/server/internal/worker (worker.go, proxies.go,    *)
(* open_provider.go, mcp_proxy.go, autonomy_proxy.go, runtime_control.go,  *)
(* session_model.go, authentication.go, model_authorization.go) in the     *)
(* worker, workerRunner.RunTurn (host.go) in the host.                     *)
(*                                                                         *)
(* A call is a tool, a sub-agent or a model call of the worker that asks   *)
(* the host for something once. Its kind says how the host answers:        *)
(*   ask       in a goroutine of its own (permission, credential, login,   *)
(*             MCP tool, autonomy ledger, session model, runtime restart)  *)
(*   profile   likewise, but the tool waits with a context nobody ends     *)
(*   event     in the drain loop, after the write of the evidence of a     *)
(*             sub-agent whose conversation was announced before           *)
(*   authorize in the drain loop, from the policy                          *)
(*   infer     by a goroutine that streams pieces and a last message       *)
(* Calls run in parallel, as read-only tools do. A note is anything the    *)
(* worker does not wait for: an event of the turn or a message to persist. *)
(* grpc is external: two bounded FIFO channels that the end of the host's  *)
(* context or of the worker breaks.                                        *)
(***************************************************************************)
EXTENDS Naturals, Sequences

CONSTANTS
    Call,       \* the calls of the turn
    Mixes,      \* the kinds a turn's calls may have
    Impatient,  \* calls whose context may end before the turn's
    BufCap,     \* sendBufSize of the sender's queue, 128 in the code
    Window,     \* messages that fit grpc's flow control in one direction
    StashCap,   \* capacity of an openStreamReader, 64 in the code
    Pieces      \* bound: pieces of an inference

Kinds == {"ask", "profile", "event", "authorize", "infer"}

ASSUME StreamAssumption ==
    /\ Mixes \subseteq [Call -> Kinds] /\ Impatient \subseteq Call
    /\ BufCap \in Nat \ {0} /\ Window \in Nat \ {0} /\ StashCap \in Nat \ {0}
    /\ Pieces \in Nat

VARIABLES
    kind,       \* kind[c]: how the host answers c
    call,       \* call[c]: where the caller is
    pending,    \* the calls that wait in their proxy's map
    slot,       \* slot[c]: the answer, or the end of the inference, delivered to it
    stash,      \* stash[c]: pieces in its reader, and one the receive loop holds for it
    buf,        \* the sender's queue
    worker,     \* where runTurn is
    alive,      \* the worker process runs
    up,         \* messages to the host in flight
    down,       \* messages to the worker in flight
    host,       \* the drain loop: recv, reply, stop, over
    todo,       \* the answer the drain loop has to send
    turnDone,   \* it read TurnDone
    verdict,    \* how RunTurn returned
    ctx,        \* the turn's context is done, at both ends
    scope,      \* dispatchScope
    helper,     \* helper[c]: the host's goroutine for c
    given,      \* given[c]: pieces sent for c
    said,       \* history: notes so far
    heard,      \* history: the notes the host handled
    applied,    \* history: the operations the host carried out
    refused,    \* history: evidence refused for its conversation
    orphan      \* history: conversations the store did not create

callVars == <<call, pending, slot, stash>>
workerVars == <<kind, worker, alive>>
hostVars == <<host, todo, turnDone, verdict, scope>>
helpVars == <<helper, given>>
histVars == <<said, heard, applied, refused, orphan>>
vars == <<callVars, workerVars, hostVars, helpVars, histVars, buf, up, down, ctx>>

Note(n) == [kind |-> "note", n |-> n]
Msg(k, c) == [kind |-> k, call |-> c]
Answer(c, a) == [kind |-> a, call |-> c]    \* a is ok, no or piece

Waiting(c) == call[c] \in {"waiting", "telling"}
Settled(c) == call[c] \in {"new", "ok", "failed"}
\* stream.Send of the host fails.
Broken == ctx \/ ~alive \/ worker = "gone"

Init ==
    /\ kind \in Mixes
    /\ call = [c \in Call |-> "new"] /\ pending = {}
    /\ slot = [c \in Call |-> "none"] /\ stash = [c \in Call |-> 0]
    /\ buf = << >> /\ up = << >> /\ down = << >>
    /\ worker = "running" /\ alive = TRUE /\ ctx = FALSE
    /\ host = "recv" /\ todo = << >> /\ turnDone = FALSE /\ verdict = "none"
    /\ scope = {} /\ helper = [c \in Call |-> "none"] /\ given = [c \in Call |-> 0]
    /\ said = 0 /\ heard = << >> /\ applied = {} /\ refused = {} /\ orphan = {}

-----------------------------------------------------------------------------
(* The worker: calls                                                       *)

\* sender.send blocks while the queue is full; once the stream is cancelled the
\* sender's goroutine only discards.
Put(m) == IF ctx THEN UNCHANGED buf ELSE Len(buf) < BufCap /\ buf' = Append(buf, m)

PutNote == Put(Note(said + 1)) /\ said' = IF ctx THEN said ELSE said + 1

\* A dispatch begins with EnsureSubagent, for which it does not wait.
Announce(c) ==
    /\ alive /\ worker = "running" /\ call[c] = "new" /\ kind[c] = "event"
    /\ Put(Msg("ensure", c))
    /\ call' = [call EXCEPT ![c] = "ready"]
    /\ UNCHANGED <<pending, slot, stash, workerVars, hostVars, helpVars, histVars, up, down, ctx>>

\* Mutant of Ask: the request goes to the stream, past the queue.
AskDirect(c) ==
    /\ alive /\ worker = "running" /\ Len(up) < Window
    /\ call[c] = IF kind[c] = "event" THEN "ready" ELSE "new"
    /\ up' = Append(up, Msg("request", c))
    /\ call' = [call EXCEPT ![c] = "waiting"] /\ pending' = pending \cup {c}
    /\ UNCHANGED <<slot, stash, workerVars, hostVars, helpVars, histVars, buf, down, ctx>>

\* Registers and sends the request.
Ask(c) ==
    /\ alive /\ worker = "running"
    /\ call[c] = IF kind[c] = "event" THEN "ready" ELSE "new"
    /\ Put(Msg("request", c))
    /\ call' = [call EXCEPT ![c] = "waiting"]
    /\ pending' = pending \cup {c}
    /\ UNCHANGED <<slot, stash, workerVars, hostVars, helpVars, histVars, up, down, ctx>>

End(c, result) ==
    /\ call' = [call EXCEPT ![c] = result]
    /\ pending' = pending \ {c}
    /\ slot' = [slot EXCEPT ![c] = "none"] /\ stash' = [stash EXCEPT ![c] = 0]
    /\ UNCHANGED <<workerVars, hostVars, helpVars, histVars, buf, up, down, ctx>>

\* The select receives the answer; a reader gives its pieces first.
Return(c) ==
    /\ alive /\ call[c] = "waiting" /\ slot[c] # "none" /\ stash[c] = 0
    /\ End(c, IF slot[c] = "ok" THEN "ok" ELSE "failed")

\* The select, or the check before the request, finds the context done.
GiveUp(c) ==
    /\ alive /\ call[c] \in {"new", "ready", "waiting"} /\ worker = "running"
    /\ kind[c] # "profile" /\ (ctx \/ c \in Impatient)
    /\ End(c, "failed")

\* Next returns a piece; the consumer has a note to send about it.
NextPiece(c) ==
    /\ alive /\ call[c] = "waiting" /\ stash[c] > 0
    /\ stash' = [stash EXCEPT ![c] = @ - 1]
    /\ call' = [call EXCEPT ![c] = "telling"]
    /\ UNCHANGED <<pending, slot, workerVars, hostVars, helpVars, histVars, buf, up, down, ctx>>

Tell(c) ==
    /\ alive /\ call[c] = "telling" /\ PutNote
    /\ call' = [call EXCEPT ![c] = "waiting"]
    /\ UNCHANGED <<pending, slot, stash, workerVars, hostVars, helpVars, heard, applied, refused, orphan, up, down, ctx>>

CallStep(c) == Announce(c) \/ Ask(c) \/ Return(c) \/ NextPiece(c) \/ Tell(c)

-----------------------------------------------------------------------------
(* The worker: sender, receive loop and the end of the turn                *)

\* sender.run: the one goroutine that sends.
Transmit ==
    /\ alive /\ buf # << >> /\ Len(up) < Window
    /\ up' = Append(up, Head(buf)) /\ buf' = Tail(buf)
    /\ UNCHANGED <<callVars, workerVars, hostVars, helpVars, histVars, down, ctx>>

\* The receive loop holds a piece for a reader that is full: push blocks until
\* there is room, the reader is closed or its context done.
Pushing == \E c \in Call : stash[c] > StashCap

\* The receive loop routes an answer to the call that waits for it; a late one
\* is dropped.
Route ==
    /\ alive /\ ~Pushing /\ down # << >>
    /\ down' = Tail(down)
    /\ LET m == Head(down) IN
       CASE m.call \notin pending -> UNCHANGED <<slot, stash>>
         [] m.call \in pending /\ m.kind = "piece" -> stash' = [stash EXCEPT ![m.call] = @ + 1] /\ UNCHANGED slot
         [] OTHER -> slot' = [slot EXCEPT ![m.call] = m.kind] /\ UNCHANGED stash
    /\ UNCHANGED <<call, pending, workerVars, hostVars, helpVars, histVars, buf, up, ctx>>

\* The runner returns, all its calls have ended; sndr.close().
Finish ==
    /\ alive /\ worker = "running" /\ \A c \in Call : Settled(c)
    /\ worker' = "flushing"
    /\ UNCHANGED <<kind, callVars, alive, hostVars, helpVars, histVars, buf, up, down, ctx>>

\* Mutant of Flushed: close does not wait for the goroutine.
FlushedEarly ==
    /\ alive /\ worker = "flushing"
    /\ worker' = "ended"
    /\ UNCHANGED <<kind, callVars, alive, hostVars, helpVars, histVars, buf, up, down, ctx>>

\* close returns once the goroutine has sent the rest.
Flushed ==
    /\ alive /\ worker = "flushing" /\ buf = << >>
    /\ worker' = "ended"
    /\ UNCHANGED <<kind, callVars, alive, hostVars, helpVars, histVars, buf, up, down, ctx>>

\* TurnDone, or TurnError for a turn that failed; the handler returns.
Terminal ==
    /\ alive /\ worker = "ended"
    /\ \/ ctx /\ UNCHANGED up
       \/ Len(up) < Window /\ up' \in {Append(up, [kind |-> k]) : k \in {"done", "error"}}
    /\ worker' = "gone"
    /\ UNCHANGED <<kind, callVars, alive, hostVars, helpVars, histVars, buf, down, ctx>>

\* The process is gone with its memory and what was on the way to it; call
\* stays as a record of what its callers knew.
Die ==
    /\ alive' = FALSE /\ worker' = "gone"
    /\ pending' = {} /\ slot' = [c \in Call |-> "none"] /\ stash' = [c \in Call |-> 0]
    /\ buf' = << >> /\ down' = << >> /\ UNCHANGED kind

\* What a worker sent before it died may still arrive.
Crash ==
    /\ alive /\ Die
    /\ UNCHANGED <<call, hostVars, helpVars, histVars, up, ctx>>

-----------------------------------------------------------------------------
(* The host: the drain loop of RunTurn                                     *)

\* The context is looked at before the next Recv.
Again == host' = IF ctx THEN "stop" ELSE "recv"

\* RunTurn returns an error: its deferred Release kills the worker.
Fail == host' = "over" /\ verdict' = "failed" /\ Die

Stop ==
    /\ host = "stop" /\ Fail /\ up' = << >>
    /\ UNCHANGED <<call, todo, turnDone, scope, helpVars, histVars, ctx>>

Recv(k) ==
    /\ host = "recv" /\ up # << >> /\ Head(up).kind = k
    /\ up' = Tail(up)

\* An event goes to the sink, a message to the store.
HandleNote ==
    /\ Recv("note") /\ Again
    /\ heard' = Append(heard, Head(up).n)
    /\ UNCHANGED <<callVars, workerVars, todo, turnDone, verdict, scope, helpVars, said, applied, refused, orphan, buf, down, ctx>>

\* ensureDispatchChild: the conversation is created, or the store fails.
EnsureChild ==
    /\ Recv("ensure") /\ Again
    /\ LET c == Head(up).call IN
       \/ scope' = scope \cup {c} /\ UNCHANGED orphan
       \/ orphan' = orphan \cup {c} /\ UNCHANGED scope
    /\ UNCHANGED <<callVars, workerVars, todo, turnDone, verdict, helpVars, said, heard, applied, refused, buf, down, ctx>>

\* handleDispatchEvent, or the policy check: carried out here, then answered.
HandleInline ==
    /\ Recv("request") /\ kind[Head(up).call] \in {"event", "authorize"}
    /\ LET c == Head(up).call IN
       \/ /\ kind[c] = "event" => c \in scope
          /\ applied' = applied \cup {c} /\ todo' = <<Answer(c, "ok")>> /\ UNCHANGED refused
       \/ /\ refused' = IF kind[c] = "event" /\ c \notin scope THEN refused \cup {c} ELSE refused
          /\ todo' = <<Answer(c, "no")>> /\ UNCHANGED applied
    /\ host' = "reply"
    /\ UNCHANGED <<callVars, workerVars, turnDone, verdict, scope, helpVars, said, heard, orphan, buf, down, ctx>>

\* safeSend in the drain loop. An error of it is logged for evidence, and ends
\* the turn for an authorization.
Reply ==
    /\ host = "reply" /\ todo' = << >>
    /\ \/ /\ Broken /\ kind[todo[1].call] = "authorize"
          /\ Fail /\ up' = << >> /\ UNCHANGED call
       \/ /\ Broken => kind[todo[1].call] = "event"
          /\ Again /\ UNCHANGED <<callVars, workerVars, verdict, buf, up>>
          /\ IF Broken THEN UNCHANGED down ELSE Len(down) < Window /\ down' = down \o todo
    /\ UNCHANGED <<turnDone, scope, helpVars, histVars, ctx>>

\* Everything else is answered by a goroutine.
HandOver ==
    /\ Recv("request") /\ kind[Head(up).call] \notin {"event", "authorize"} /\ Again
    /\ helper' = [helper EXCEPT ![Head(up).call] = "working"]
    /\ UNCHANGED <<callVars, workerVars, todo, turnDone, verdict, scope, given, histVars, buf, down, ctx>>

HandleDone ==
    /\ Recv("done") /\ Again
    /\ turnDone' = TRUE
    /\ UNCHANGED <<callVars, workerVars, todo, verdict, scope, helpVars, histVars, buf, down, ctx>>

HandleError ==
    /\ Recv("error") /\ Fail
    /\ UNCHANGED <<call, todo, turnDone, scope, helpVars, histVars, ctx>>

\* Recv fails: the stream ended, the worker died or the context is done.
RecvFails ==
    /\ host = "recv"
    /\ ctx \/ ~alive \/ (worker = "gone" /\ up = << >>)
    /\ IF turnDone
       THEN /\ host' = "over" /\ verdict' = "result"
            /\ UNCHANGED <<pending, slot, stash, workerVars, buf, up, down>>
       ELSE Fail /\ up' = << >>
    /\ UNCHANGED <<call, todo, turnDone, scope, helpVars, histVars, ctx>>

\* The turn is cancelled or superseded, and the stream reset: it is the context
\* of the turn in the worker too. What the worker does before it notices, it
\* could have done before.
Cancel ==
    /\ host # "over" /\ ~ctx /\ ctx' = TRUE
    /\ down' = << >> /\ buf' = << >>
    /\ UNCHANGED <<callVars, workerVars, hostVars, helpVars, histVars, up>>

-----------------------------------------------------------------------------
(* The host: goroutines                                                    *)

\* The operation, or the stream of the model, ends. One that failed may have
\* been carried out nevertheless; applied does not count it.
Operate(c) ==
    /\ helper[c] = "working"
    /\ \/ helper' = [helper EXCEPT ![c] = "ok"] /\ applied' = applied \cup {c}
       \/ helper' = [helper EXCEPT ![c] = "no"] /\ UNCHANGED applied
    /\ UNCHANGED <<callVars, workerVars, hostVars, given, said, heard, refused, orphan, buf, up, down, ctx>>

\* safeSend of a goroutine.
Send(m) == IF Broken THEN UNCHANGED down ELSE Len(down) < Window /\ down' = Append(down, m)

Stream(c) ==
    /\ helper[c] = "working" /\ kind[c] = "infer" /\ given[c] < Pieces
    /\ ~Broken /\ Send(Answer(c, "piece"))
    /\ given' = [given EXCEPT ![c] = @ + 1]
    /\ UNCHANGED <<callVars, workerVars, hostVars, helper, histVars, buf, up, ctx>>

\* Mutant of Respond: an operation that failed sends no response.
RespondOk(c) ==
    /\ helper[c] \in {"ok", "no"}
    /\ IF helper[c] = "ok" THEN Send(Answer(c, "ok")) ELSE UNCHANGED down
    /\ helper' = [helper EXCEPT ![c] = "none"]
    /\ UNCHANGED <<callVars, workerVars, hostVars, given, histVars, buf, up, ctx>>

Respond(c) ==
    /\ helper[c] \in {"ok", "no"} /\ Send(Answer(c, helper[c]))
    /\ helper' = [helper EXCEPT ![c] = "none"]
    /\ UNCHANGED <<callVars, workerVars, hostVars, given, histVars, buf, up, ctx>>

-----------------------------------------------------------------------------
Next ==
    \/ \E c \in Call :
        \/ CallStep(c) \/ GiveUp(c)
        \/ Operate(c) \/ Stream(c) \/ Respond(c)
    \/ Transmit \/ Route \/ Finish \/ Flushed \/ Terminal \/ Crash
    \/ HandleNote \/ EnsureChild \/ HandleInline \/ Reply \/ HandOver \/ HandleDone \/ HandleError
    \/ RecvFails \/ Stop \/ Cancel

Spec == Init /\ [][Next]_vars

HostStep ==
    \/ HandleNote \/ EnsureChild \/ HandleInline \/ Reply \/ HandOver \/ HandleDone \/ HandleError
    \/ RecvFails \/ Stop

(* Goroutines that can run do, and grpc carries what it accepted. Nobody   *)
(* has to cancel, to crash or to lose patience, and no operation of the     *)
(* host has to end: a permission waits for a human.                        *)
FairSpec ==
    /\ Spec
    /\ \A c \in Call :
        /\ WF_vars(CallStep(c)) /\ WF_vars(ctx /\ GiveUp(c))
        /\ WF_vars(Respond(c))
    /\ WF_vars(Transmit) /\ WF_vars(Route)
    /\ WF_vars(Finish \/ Flushed \/ Terminal)
    /\ WF_vars(HostStep)

\* The operations of the host end.
HostAnswers == \A c \in Call : WF_vars(Operate(c))

-----------------------------------------------------------------------------
(* Properties                                                              *)

TypeOK ==
    /\ kind \in Mixes
    /\ call \in [Call -> {"new", "ready", "waiting", "telling", "ok", "failed"}]
    /\ pending \subseteq Call /\ slot \in [Call -> {"none", "ok", "no"}]
    /\ stash \in [Call -> 0..(StashCap + 1)] /\ given \in [Call -> 0..Pieces]
    /\ Len(buf) <= BufCap /\ Len(up) <= Window /\ Len(down) <= Window
    /\ worker \in {"running", "flushing", "ended", "gone"}
    /\ {alive, ctx, turnDone} \subseteq BOOLEAN
    /\ host \in {"recv", "reply", "stop", "over"} /\ Len(todo) <= 1
    /\ verdict \in {"none", "result", "failed"}
    /\ helper \in [Call -> {"none", "working", "ok", "no"}]
    /\ scope \subseteq Call /\ applied \subseteq Call
    /\ refused \subseteq Call /\ orphan \subseteq Call
    /\ said \in Nat

(* Evidence of a sub-agent is refused for its conversation only if the     *)
(* store failed to create that conversation ("any EnsureSubagent that      *)
(* created the child conversation on this stream has already run").        *)
EvidenceFollowsChild == TypeOK /\ refused \subseteq orphan

\* The promise of RemoteTurn: see there.
Known(c) ==
    CASE call[c] \in {"new", "ready"} -> "idle"
      [] Waiting(c) -> "asked"
      [] OTHER -> call[c]

Remote == INSTANCE RemoteTurn WITH op <- [c \in Call |-> Known(c)]

TurnSpec == Remote!Spec

\* The drain loop answers inline while both directions are full: it does not
\* receive, so the sender stands still, the consumer of the inference cannot
\* send, its reader is full and the receive loop does not take the answer.
Jammed ==
    /\ host = "reply" /\ Len(down) = Window
    /\ Pushing /\ \A c \in Call : stash[c] > StashCap => call[c] = "telling"
    /\ Len(buf) = BufCap /\ Len(up) = Window

TurnOver == host = "over" /\ (verdict = "failed" => ~alive)

(* A turn ends: once cancelled, whatever its calls wait for, and the worker *)
(* of one that failed is gone; and without that if the host's operations   *)
(* end, unless the inline answer of the drain loop jams the stream.        *)
TurnEnds ==
    /\ ctx ~> TurnOver
    /\ HostAnswers => <>(TurnOver \/ Jammed)
=============================================================================
