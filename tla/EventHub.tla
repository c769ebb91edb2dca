------------------------------ MODULE EventHub ------------------------------
(***************************************************************************)
(* The standing event streams of the clients and the end of the agent:     *)
(* source/server/internal/server/events.go and shutdown.go, with the signal*)
(* handling of runServerMode and the cleanup of startGRPCServer in         *)
(* source/server/cmd/cercano/main.go.                                      *)
(*                                                                         *)
(* A stream is one call of SubscribeEvents; a client that reconnects calls *)
(* again. Every unsubscribe that empties the hub starts a timer of its own *)
(* when the agent stops itself once idle. grpc is external: GracefulStop   *)
(* refuses new calls and waits for the handlers, Stop ends their contexts, *)
(* or hangs on the mutex GracefulStop holds.                               *)
(***************************************************************************)
EXTENDS Naturals, Sequences, FiniteSets

CONSTANTS
    Stream,         \* calls of SubscribeEvents
    Wedged,         \* the streams whose client may stop reading
    Cap,            \* capacity of a subscriber channel, 16 in the code
    IdleShutdown,   \* EnableIdleShutdown was called
    SelfStops,      \* bound: calls of ShutdownAgent
    UserSignals,    \* bound: signals sent by a user or a launcher
    MaxEvents       \* bound: events broadcast

ASSUME HubAssumption ==
    /\ IsFiniteSet(Stream) /\ Wedged \subseteq Stream
    /\ Cap \in Nat \ {0}
    /\ IdleShutdown \in BOOLEAN
    /\ SelfStops \in Nat /\ UserSignals \in Nat /\ MaxEvents \in Nat

VARIABLES
    call,       \* call[s]: where the handler of s is
    subs,       \* the streams registered in the hub
    closes,     \* closes[s]: how often close was called on its channel
    queue,      \* queue[s]: the channel's buffer
    hold,       \* hold[s]: the event in stream.Send, 0 for none
    gone,       \* gone[s]: the stream's context is done
    due,        \* history: due[s]: events broadcast since s subscribed
    got,        \* history: got[s]: those handed to its client
    missed,     \* history: missed[s]: one met a full channel
    timer,      \* timer[s]: the idle goroutine started when s left last
    deserted,   \* history: the hub is empty because its last client left
    selfStop,   \* self shutdowns: scheduled, and those that closed the hub
    userSent,   \* signals sent from outside
    signals,    \* signals in main's channel, which holds two
    proc,       \* where main is
    turn,       \* a turn in flight while the agent stops
    expired     \* the grace of DrainThenStop ran out

hubVars == <<subs, closes, queue, due, missed>>
callVars == <<call, hold, gone, got>>
timerVars == <<timer, deserted>>
stopVars == <<selfStop, userSent, signals, proc, turn, expired>>
vars == <<hubVars, callVars, timerVars, stopVars>>

Alive == proc \notin {"exited", "killed"}
\* GracefulStop closes the listener and refuses calls on open connections.
Accepting == proc \in {"up", "received", "closed"}
\* signal.Notify: a signal that does not fit the channel is lost.
Deliver == signals' = IF signals < 2 THEN signals + 1 ELSE signals
\* A handler that GracefulStop waits for.
Handling(s) == call[s] \notin {"none", "ended"}

TypeOK ==
    /\ call \in [Stream -> {"none", "called", "serving", "sending", "leaving", "emptied", "ended"}]
    /\ subs \subseteq Stream
    /\ closes \in [Stream -> Nat]
    /\ due \in [Stream -> 0..MaxEvents] /\ hold \in [Stream -> 0..MaxEvents]
    /\ queue \in [Stream -> Seq(1..MaxEvents)] /\ \A s \in Stream : Len(queue[s]) <= Cap
    /\ got \in [Stream -> Seq(1..MaxEvents)]
    /\ gone \in [Stream -> BOOLEAN] /\ missed \in [Stream -> BOOLEAN]
    /\ timer \in [Stream -> {"off", "sleeping", "firing", "fired", "done"}]
    /\ deserted \in BOOLEAN
    /\ selfStop \in [scheduled : Nat, closed : Nat]
    /\ userSent \in Nat /\ signals \in 0..2
    /\ proc \in {"up", "received", "closed", "draining", "hard", "stopped", "exited", "killed"}
    /\ turn \in {"none", "running", "done"} /\ expired \in BOOLEAN

Init ==
    /\ call = [s \in Stream |-> "none"] /\ subs = {}
    /\ closes = [s \in Stream |-> 0]
    /\ queue = [s \in Stream |-> << >>] /\ hold = [s \in Stream |-> 0]
    /\ gone = [s \in Stream |-> FALSE]
    /\ due = [s \in Stream |-> 0] /\ got = [s \in Stream |-> << >>]
    /\ missed = [s \in Stream |-> FALSE]
    /\ timer = [s \in Stream |-> "off"]
    /\ deserted = FALSE
    /\ selfStop = [scheduled |-> 0, closed |-> 0]
    /\ userSent = 0 /\ signals = 0 /\ proc = "up" /\ turn = "none" /\ expired = FALSE

-----------------------------------------------------------------------------
(* The hub and the stream handlers                                         *)

\* grpc accepts a call; the handler runs later.
Call(s) ==
    /\ Accepting /\ call[s] = "none"
    /\ call' = [call EXCEPT ![s] = "called"]
    /\ UNCHANGED <<hubVars, hold, gone, got, timerVars, stopVars>>

\* subscribe: registers, whatever happened to the hub before.
Subscribe(s) ==
    /\ Alive /\ call[s] = "called"
    /\ call' = [call EXCEPT ![s] = "serving"]
    /\ subs' = subs \cup {s}
    /\ deserted' = FALSE
    /\ UNCHANGED <<closes, queue, due, missed, hold, gone, got, timer, stopVars>>

\* The registered streams whose handler still reads its channel.
Listening == {s \in subs : call[s] \in {"serving", "sending"}}

\* Mutant of Broadcast: one full channel costs every stream the event.
BroadcastStalls ==
    /\ Alive /\ \A s \in Listening : due[s] < MaxEvents
    /\ due' = [s \in Stream |-> IF s \in Listening THEN due[s] + 1 ELSE due[s]]
    /\ LET full == {s \in Listening : Len(queue[s]) = Cap}
       IN  /\ queue' = [s \in Stream |-> IF s \in Listening /\ full = {} THEN Append(queue[s], due'[s]) ELSE queue[s]]
           /\ missed' = [s \in Stream |-> missed[s] \/ s \in full]
    /\ UNCHANGED <<subs, closes, callVars, timerVars, stopVars>>

\* broadcast: a full channel loses the event, the others get it. An event is
\* its number among those of the stream.
Broadcast ==
    /\ Alive /\ \A s \in Listening : due[s] < MaxEvents
    /\ due' = [s \in Stream |-> IF s \in Listening THEN due[s] + 1 ELSE due[s]]
    /\ LET full == {s \in Listening : Len(queue[s]) = Cap}
       IN  /\ queue' = [s \in Stream |-> IF s \in Listening \ full THEN Append(queue[s], due'[s]) ELSE queue[s]]
           /\ missed' = [s \in Stream |-> missed[s] \/ s \in full]
    /\ UNCHANGED <<subs, closes, callVars, timerVars, stopVars>>

\* The loop of SubscribeEvents receives an event and sends it.
Take(s) ==
    /\ Alive /\ call[s] = "serving" /\ queue[s] # << >>
    /\ call' = [call EXCEPT ![s] = "sending"]
    /\ hold' = [hold EXCEPT ![s] = Head(queue[s])]
    /\ queue' = [queue EXCEPT ![s] = Tail(@)]
    /\ UNCHANGED <<subs, closes, due, missed, gone, got, timerVars, stopVars>>

\* stream.Send returns nil.
Sent(s) ==
    /\ Alive /\ call[s] = "sending"
    /\ call' = [call EXCEPT ![s] = "serving"]
    /\ got' = [got EXCEPT ![s] = Append(@, hold[s])]
    /\ hold' = [hold EXCEPT ![s] = 0]
    /\ UNCHANGED <<hubVars, gone, timerVars, stopVars>>

\* The client disconnects.
Disconnect(s) ==
    /\ Alive /\ Handling(s) /\ ~gone[s]
    /\ gone' = [gone EXCEPT ![s] = TRUE]
    /\ UNCHANGED <<hubVars, call, hold, got, timerVars, stopVars>>

\* The loop ends: the context is done (select may prefer it, Send fails with
\* it), or the channel is closed and its buffer empty. Nobody reads what is left
\* in the channel.
Leave(s) ==
    /\ Alive
    /\ \/ gone[s] /\ call[s] \in {"serving", "sending"}
       \/ call[s] = "serving" /\ closes[s] > 0 /\ queue[s] = << >>
    /\ call' = [call EXCEPT ![s] = "leaving"]
    /\ hold' = [hold EXCEPT ![s] = 0]
    /\ queue' = [queue EXCEPT ![s] = << >>] /\ due' = [due EXCEPT ![s] = 0]
    /\ got' = [got EXCEPT ![s] = << >>] /\ missed' = [missed EXCEPT ![s] = FALSE]
    /\ UNCHANGED <<subs, closes, gone, timerVars, stopVars>>

\* unsubscribe: nothing to do for a stream that closeAll removed; the last to
\* leave has onEmpty to call.
Unsubscribe(s) ==
    /\ Alive /\ call[s] = "leaving"
    /\ IF s \in subs
       THEN /\ subs' = subs \ {s}
            /\ closes' = [closes EXCEPT ![s] = @ + 1]
            /\ call' = [call EXCEPT ![s] = IF subs' = {} /\ IdleShutdown THEN "emptied" ELSE "ended"]
            /\ deserted' = (subs' = {})
       ELSE /\ call' = [call EXCEPT ![s] = "ended"]
            /\ UNCHANGED <<subs, closes, deserted>>
    /\ UNCHANGED <<queue, due, missed, hold, gone, got, timer, stopVars>>

\* onEmpty: a goroutine that sleeps for the delay.
OnEmpty(s) ==
    /\ Alive /\ call[s] = "emptied"
    /\ call' = [call EXCEPT ![s] = "ended"]
    /\ timer' = [timer EXCEPT ![s] = "sleeping"]
    /\ UNCHANGED <<hubVars, hold, gone, got, deserted, stopVars>>

-----------------------------------------------------------------------------
(* The idle timers                                                         *)

\* The recheck after the sleep, which takes no particular time here.
Recheck(s) ==
    /\ Alive /\ timer[s] = "sleeping"
    /\ timer' = [timer EXCEPT ![s] = IF subs = {} THEN "firing" ELSE "done"]
    /\ UNCHANGED <<hubVars, callVars, deserted, stopVars>>

\* shutdown(): the process signals itself.
IdleSignal(s) ==
    /\ Alive /\ timer[s] = "firing"
    /\ timer' = [timer EXCEPT ![s] = "fired"]
    /\ Deliver
    /\ UNCHANGED <<hubVars, callVars, deserted, selfStop, userSent, proc, turn, expired>>

-----------------------------------------------------------------------------
(* The end of the agent                                                    *)

\* closeAll: every channel is closed and forgotten; onEmpty is not called.
CloseAll ==
    /\ subs' = {}
    /\ closes' = [s \in Stream |-> IF s \in subs THEN closes[s] + 1 ELSE closes[s]]
    /\ deserted' = FALSE
    /\ UNCHANGED <<queue, due, missed, callVars, timer>>

\* A model turn runs; grpc counts its handler.
TurnStarts ==
    /\ Accepting /\ turn = "none"
    /\ turn' = "running"
    /\ UNCHANGED <<hubVars, callVars, timerVars, selfStop, userSent, signals, proc, expired>>

TurnEnds ==
    /\ Alive /\ turn = "running"
    /\ turn' = "done"
    /\ UNCHANGED <<hubVars, callVars, timerVars, selfStop, userSent, signals, proc, expired>>

\* ShutdownAgent answers and schedules the rest.
ShutdownAgent ==
    /\ Accepting /\ selfStop.scheduled < SelfStops
    /\ selfStop' = [selfStop EXCEPT !.scheduled = @ + 1]
    /\ UNCHANGED <<hubVars, callVars, timerVars, userSent, signals, proc, turn, expired>>

\* scheduleSelfShutdown, after its sleep: BeginShutdown and SIGTERM.
SelfShutdown ==
    /\ Alive /\ selfStop.closed < selfStop.scheduled
    /\ CloseAll
    /\ selfStop' = [selfStop EXCEPT !.closed = @ + 1]
    /\ Deliver
    /\ UNCHANGED <<userSent, proc, turn, expired>>

UserSignal ==
    /\ Alive /\ userSent < UserSignals
    /\ userSent' = userSent + 1 /\ Deliver
    /\ UNCHANGED <<hubVars, callVars, timerVars, selfStop, proc, turn, expired>>

\* The first signal: main goes on to cleanup.
FirstSignal ==
    /\ proc = "up" /\ signals > 0
    /\ proc' = "received" /\ signals' = signals - 1
    /\ UNCHANGED <<hubVars, callVars, timerVars, selfStop, userSent, turn, expired>>

\* Any further signal: os.Exit(1).
SecondSignal ==
    /\ Alive /\ proc # "up" /\ signals > 0
    /\ proc' = "killed" /\ signals' = signals - 1
    /\ UNCHANGED <<hubVars, callVars, timerVars, selfStop, userSent, turn, expired>>

BeginShutdown ==
    /\ proc = "received"
    /\ CloseAll
    /\ proc' = "closed"
    /\ UNCHANGED <<selfStop, userSent, signals, turn, expired>>

\* DrainThenStop starts GracefulStop.
StartDrain ==
    /\ proc = "closed"
    /\ proc' = "draining"
    /\ UNCHANGED <<hubVars, callVars, timerVars, selfStop, userSent, signals, turn, expired>>

\* Mutant of Drained: the drain waits for the streams only.
DrainedEarly ==
    /\ proc \in {"draining", "hard"}
    /\ \A s \in Stream : ~Handling(s)
    /\ proc' = "stopped"
    /\ UNCHANGED <<hubVars, callVars, timerVars, selfStop, userSent, signals, turn, expired>>

\* GracefulStop returns: every handler has.
Drained ==
    /\ proc \in {"draining", "hard"}
    /\ turn # "running" /\ \A s \in Stream : ~Handling(s)
    /\ proc' = "stopped"
    /\ UNCHANGED <<hubVars, callVars, timerVars, selfStop, userSent, signals, turn, expired>>

\* The grace is over: Stop runs in a goroutine of its own. It ends the contexts,
\* or hangs on the server's mutex.
GraceExpires ==
    /\ proc = "draining"
    /\ proc' = "hard" /\ expired' = TRUE
    /\ gone' \in {gone, [s \in Stream |-> gone[s] \/ Handling(s)]}
    /\ UNCHANGED <<hubVars, call, hold, got, timerVars, selfStop, userSent, signals, turn>>

\* Mutant of HardStopped: Stop is called on the path that returns and may hang.
HardStoppedInline ==
    /\ proc = "hard"
    /\ \A s \in Stream : Handling(s) => gone[s]
    /\ proc' = "stopped"
    /\ UNCHANGED <<hubVars, callVars, timerVars, selfStop, userSent, signals, turn, expired>>

\* Stop returns or stopBackstop is over.
HardStopped ==
    /\ proc = "hard"
    /\ proc' = "stopped"
    /\ UNCHANGED <<hubVars, callVars, timerVars, selfStop, userSent, signals, turn, expired>>

\* The rest of cleanup, and main returns.
Exit ==
    /\ proc = "stopped"
    /\ proc' = "exited"
    /\ UNCHANGED <<hubVars, callVars, timerVars, selfStop, userSent, signals, turn, expired>>

Next ==
    \/ \E s \in Stream :
        \/ Call(s) \/ Subscribe(s) \/ Take(s) \/ Sent(s) \/ Disconnect(s)
        \/ Leave(s) \/ Unsubscribe(s) \/ OnEmpty(s) \/ Recheck(s) \/ IdleSignal(s)
    \/ Broadcast \/ TurnStarts \/ TurnEnds
    \/ ShutdownAgent \/ SelfShutdown \/ UserSignal
    \/ FirstSignal \/ SecondSignal \/ BeginShutdown \/ StartDrain
    \/ Drained \/ GraceExpires \/ HardStopped \/ Exit

Spec == Init /\ [][Next]_vars

(* Goroutines that are ready run, sleeps end, and a client that reads lets  *)
(* Send return. Nothing makes a client call, disconnect or a turn end.      *)
Scheduled ==
    /\ \A s \in Stream :
        /\ WF_vars(Subscribe(s)) /\ WF_vars(Take(s)) /\ WF_vars(Leave(s))
        /\ WF_vars(Unsubscribe(s)) /\ WF_vars(OnEmpty(s))
        /\ WF_vars(Recheck(s)) /\ WF_vars(IdleSignal(s))
        /\ s \notin Wedged => WF_vars(Sent(s))
    /\ WF_vars(SelfShutdown)
    /\ WF_vars(FirstSignal) /\ WF_vars(SecondSignal) /\ WF_vars(BeginShutdown)
    /\ WF_vars(StartDrain) /\ WF_vars(Drained) /\ WF_vars(Exit)

(* The time limits of DrainThenStop.                                       *)
Backstop == WF_vars(GraceExpires) /\ WF_vars(HardStopped)

(* Without the limits: what ends without the help of a timeout.             *)
PatientSpec == Spec /\ Scheduled

-----------------------------------------------------------------------------
(* Properties                                                              *)

InOrder(q) == \A i, j \in 1..Len(q) : i < j => q[i] < q[j]
\* What the client of s has, is being sent and will still find in the channel.
Seen(s) == got[s] \o (IF hold[s] > 0 THEN <<hold[s]>> ELSE << >>) \o queue[s]

(* A stream sees the events broadcast after it subscribed, in order and     *)
(* none twice, and until it is closed or meets a full channel all of them:  *)
(* a slow client never costs another client an event (broadcast). Its       *)
(* channel is closed when it leaves the hub and only then: close of a       *)
(* closed channel and a send on one are panics, and unsubscribe and        *)
(* closeAll both close, in any order.                                       *)
StreamIsExact ==
    /\ TypeOK
    /\ \A s \in Stream :
          /\ InOrder(Seen(s))
          /\ s \in Listening /\ ~missed[s] => Len(Seen(s)) = due[s]
          /\ closes[s] = IF s \in subs \/ call[s] \in {"none", "called"} THEN 0 ELSE 1

(* An agent whose clients have all left stops unless one comes back         *)
(* (EnableIdleShutdown).                                                    *)
IdleAgentStops == (IdleShutdown /\ deserted) ~> (subs # {} \/ proc # "up")

(* With its time limits, a process that was told to stop ends, whatever its *)
(* streams and turns do (DrainThenStop "returns ... no matter how wedged    *)
(* the server is").                                                         *)
StopEnds == Backstop => ((signals > 0) ~> ~Alive)

(* An agent that nobody needs any more comes to its end: both of the above. *)
AgentEnds == IdleAgentStops /\ StopEnds

\* The signals the process was ever sent.
Signalled == userSent + selfStop.closed + Cardinality({s \in Stream : timer[s] = "fired"})

(* A process that was signalled once cuts no turn off before the grace ran  *)
(* out (DrainThenStop lets in-flight turns finish).                         *)
TurnOutlivesStop == ~Alive /\ turn = "running" /\ Signalled <= 1 => expired
=============================================================================
