----------------------------- MODULE TurnBroker -----------------------------
(***************************************************************************)
(* The per-conversation turn registry, event fan-out and replay buffer of   *)
(* source/server/internal/broker/broker.go.                                *)
(*                                                                         *)
(* Every method of Broker runs under one mutex, so a method is one action. *)
(* What runs outside that mutex is split into steps: the release function  *)
(* of a turn, detach, the drain goroutine of a lossless subscriber and the *)
(* consumer that reads its channel.                                        *)
(*                                                                         *)
(* An event is identified by its position in the order in which its        *)
(* conversation accepted it; log, a history variable, holds the generation *)
(* of the turn that published each position.                               *)
(***************************************************************************)
EXTENDS Naturals, Sequences

CONSTANTS
    Conv,           \* conversation ids
    Turn,           \* one identity per BeginTurn call (a *turnHandle)
    NoTurn,         \* the nil handle
    LossySub,       \* subscribers made by Attach
    LosslessSub,    \* subscribers made by AttachLossless...
    SubChanCap,     \* subChanCap: capacity of a subscriber's channel
    MaxLog,         \* bound: events accepted per conversation
    MaxBarriers     \* bound: barriers requested per lossless subscriber

Sub == LossySub \cup LosslessSub

ASSUME BrokerAssumption ==
    /\ NoTurn \notin Turn
    /\ LossySub \cap LosslessSub = {}
    /\ SubChanCap \in Nat \ {0}
    /\ MaxLog \in Nat
    /\ MaxBarriers \in Nat

VARIABLES
    gen,        \* gen[c]: the live generation, 0 before the first turn
    handle,     \* handle[c]: the registered turn or NoTurn
    buffer,     \* buffer[c]: the replay buffer
    log,        \* history: log[c][i] is the generation that published event i
    tpc,        \* tpc[t]: "new", "live", "releasing" (ctx cancelled), "released"
    tconv,      \* tconv[t]: the conversation of turn t
    tgen,       \* tgen[t]: the generation BeginTurn returned
    cancelled,  \* cancelled[t]: the context of turn t is done
    spc,        \* spc[s]: "new", "open", "detaching" (unregistered), "detached"
    sconv,      \* sconv[s]: the conversation s is attached to
    registered, \* registered[s]: s is in the subs or lsubs map
    replay,     \* replay[s]: the snapshot Attach returned
    base,       \* history: base[s] is Len(log) when s attached
    out,        \* out[s]: the buffered channel to the consumer
    recv,       \* recv[s]: what the consumer has read from the channel
    eof,        \* eof[s]: the consumer has seen the channel closed and empty
    queue,      \* queue[s]: losslessSub.queue
    notify,     \* notify[s]: the one-slot notify channel holds a token
    finishing,  \* finishing[s]: finish has run
    last,       \* history: the last event put in queue[s], base[s] if none
    dpc,        \* dpc[s]: the drain goroutine: "select", "forward", "tail", "exited"
    items,      \* items[s]: what the drain goroutine took and has not handled
    fin,        \* fin[s]: the finishing flag it read with items[s]
    barrierAt,  \* history: barrierAt[s][b] is last[s] when barrier b was requested
    acked       \* acked[s]: the barriers that are closed

turnVars  == <<gen, handle, buffer, log, tpc, tconv, tgen, cancelled>>
subVars   == <<spc, sconv, registered, replay, base>>
drainVars == <<dpc, items, fin, acked>>
queueVars == <<queue, notify, finishing, last, barrierAt>>
readVars  == <<recv, eof>>
vars == <<turnVars, subVars, out, readVars, queueVars, drainVars>>

(* losslessItem: an event (barrier 0) or a barrier; at is the event's       *)
(* position, or for a barrier the last event queued before it.             *)
Item == [at : Nat, barrier : Nat]

TypeOK ==
    /\ gen \in [Conv -> Nat]
    /\ handle \in [Conv -> Turn \cup {NoTurn}]
    /\ buffer \in [Conv -> Seq(Nat)]
    /\ log \in [Conv -> Seq(Nat)]
    /\ tpc \in [Turn -> {"new", "live", "releasing", "released"}]
    /\ tconv \in [Turn -> Conv]
    /\ tgen \in [Turn -> Nat]
    /\ cancelled \in [Turn -> BOOLEAN]
    /\ spc \in [Sub -> {"new", "open", "detaching", "detached"}]
    /\ sconv \in [Sub -> Conv]
    /\ registered \in [Sub -> BOOLEAN]
    /\ replay \in [Sub -> Seq(Nat)]
    /\ base \in [Sub -> Nat]
    /\ out \in [Sub -> Seq(Nat)]
    /\ recv \in [Sub -> Seq(Nat)]
    /\ eof \in [Sub -> BOOLEAN]
    /\ queue \in [LosslessSub -> Seq(Item)]
    /\ notify \in [LosslessSub -> BOOLEAN]
    /\ finishing \in [LosslessSub -> BOOLEAN]
    /\ last \in [LosslessSub -> Nat]
    /\ dpc \in [LosslessSub -> {"select", "forward", "tail", "exited"}]
    /\ items \in [LosslessSub -> Seq(Item)]
    /\ fin \in [LosslessSub -> BOOLEAN]
    /\ barrierAt \in [LosslessSub -> Seq(Nat)]
    /\ acked \in [LosslessSub -> SUBSET Nat]

Init ==
    /\ gen = [c \in Conv |-> 0]
    /\ handle = [c \in Conv |-> NoTurn]
    /\ buffer = [c \in Conv |-> << >>]
    /\ log = [c \in Conv |-> << >>]
    /\ tpc = [t \in Turn |-> "new"]
    /\ tconv \in [Turn -> Conv]
    /\ tgen = [t \in Turn |-> 0]
    /\ cancelled = [t \in Turn |-> FALSE]
    /\ spc = [s \in Sub |-> "new"]
    /\ sconv \in [Sub -> Conv]
    /\ registered = [s \in Sub |-> FALSE]
    /\ replay = [s \in Sub |-> << >>]
    /\ base = [s \in Sub |-> 0]
    /\ out = [s \in Sub |-> << >>]
    /\ recv = [s \in Sub |-> << >>]
    /\ eof = [s \in Sub |-> FALSE]
    /\ queue = [s \in LosslessSub |-> << >>]
    /\ notify = [s \in LosslessSub |-> FALSE]
    /\ finishing = [s \in LosslessSub |-> FALSE]
    /\ last = [s \in LosslessSub |-> 0]
    /\ dpc = [s \in LosslessSub |-> "select"]
    /\ items = [s \in LosslessSub |-> << >>]
    /\ fin = [s \in LosslessSub |-> FALSE]
    /\ barrierAt = [s \in LosslessSub |-> << >>]
    /\ acked = [s \in LosslessSub |-> {}]

-----------------------------------------------------------------------------
(* Turn exclusivity *)

(* Mutant: Publish does not check the generation. *)
IsCurrentUnchecked(c, g) == gen[c] >= g

IsCurrent(c, g) == gen[c] = g

(* cs.handle.cancel(): the contexts done once the registered turns of the   *)
(* conversations in C are cancelled.                                       *)
CancelHandles(C) ==
    [t \in Turn |-> cancelled[t] \/ \E c \in C : handle[c] = t]

(* Mutant: the buffer of the superseded turn stays. *)
BeginTurnKeepsBuffer(t) ==
    LET c == tconv[t] IN
    /\ tpc[t] = "new"
    /\ cancelled' = CancelHandles({c})
    /\ gen' = [gen EXCEPT ![c] = @ + 1]
    /\ tgen' = [tgen EXCEPT ![t] = gen[c] + 1]
    /\ handle' = [handle EXCEPT ![c] = t]
    /\ tpc' = [tpc EXCEPT ![t] = "live"]
    /\ UNCHANGED <<buffer, log, tconv, subVars, out, readVars, queueVars, drainVars>>

BeginTurn(t) ==
    LET c == tconv[t] IN
    /\ tpc[t] = "new"
    /\ cancelled' = CancelHandles({c})
    /\ gen' = [gen EXCEPT ![c] = @ + 1]
    /\ tgen' = [tgen EXCEPT ![t] = gen[c] + 1]
    /\ handle' = [handle EXCEPT ![c] = t]
    /\ buffer' = [buffer EXCEPT ![c] = << >>]
    /\ tpc' = [tpc EXCEPT ![t] = "live"]
    /\ UNCHANGED <<log, tconv, subVars, out, readVars, queueVars, drainVars>>

(* release, first half: cancel() runs before the lock is taken. *)
ReleaseCancel(t) ==
    /\ tpc[t] = "live"
    /\ tpc' = [tpc EXCEPT ![t] = "releasing"]
    /\ cancelled' = [cancelled EXCEPT ![t] = TRUE]
    /\ UNCHANGED <<gen, handle, buffer, log, tconv, tgen, subVars, out, readVars,
                   queueVars, drainVars>>

(* Mutant: clear the registration whoever has it. *)
ReleaseClearAlways(t) ==
    LET c == tconv[t] IN
    /\ tpc[t] = "releasing"
    /\ tpc' = [tpc EXCEPT ![t] = "released"]
    /\ handle' = [handle EXCEPT ![c] = NoTurn]
    /\ UNCHANGED <<gen, buffer, log, tconv, tgen, cancelled, subVars, out, readVars,
                   queueVars, drainVars>>

(* release, second half: clear the registration only if it is still ours. *)
ReleaseClear(t) ==
    LET c == tconv[t] IN
    /\ tpc[t] = "releasing"
    /\ tpc' = [tpc EXCEPT ![t] = "released"]
    /\ handle' = [handle EXCEPT ![c] = IF @ = t THEN NoTurn ELSE @]
    /\ UNCHANGED <<gen, buffer, log, tconv, tgen, cancelled, subVars, out, readVars,
                   queueVars, drainVars>>

(* The parent context ends: the client went away. *)
ParentDone(t) ==
    /\ tpc[t] = "live" /\ ~cancelled[t]
    /\ cancelled' = [cancelled EXCEPT ![t] = TRUE]
    /\ UNCHANGED <<gen, handle, buffer, log, tpc, tconv, tgen, subVars, out, readVars,
                   queueVars, drainVars>>

(* Mutant: delete the conversations' state instead of advancing it. *)
CancelForgets(C) ==
    /\ cancelled' = CancelHandles(C)
    /\ gen' = [c \in Conv \ C |-> gen[c]]
    /\ handle' = [c \in Conv \ C |-> handle[c]]
    /\ buffer' = [c \in Conv \ C |-> buffer[c]]
    /\ UNCHANGED <<log, tpc, tconv, tgen, subVars, out, readVars, queueVars, drainVars>>

(* CancelTurn and CancelAllTurns share this effect on the conversations C   *)
(* that have a registered turn.                                            *)
CancelRegistered(C) ==
    /\ cancelled' = CancelHandles(C)
    /\ gen' = [c \in Conv |-> IF c \in C THEN gen[c] + 1 ELSE gen[c]]
    /\ handle' = [c \in Conv |-> IF c \in C THEN NoTurn ELSE handle[c]]
    /\ buffer' = [c \in Conv |-> IF c \in C THEN << >> ELSE buffer[c]]
    /\ UNCHANGED <<log, tpc, tconv, tgen, subVars, out, readVars, queueVars, drainVars>>

CancelTurn(c) == handle[c] # NoTurn /\ CancelRegistered({c})

CancelAllTurns ==
    LET Active == {c \in Conv : handle[c] # NoTurn}
    IN  Active # {} /\ CancelRegistered(Active)

-----------------------------------------------------------------------------
(* Publish: fenced by the generation, then buffer and fan-out in one        *)
(* critical section. A runner may go on publishing after its turn released *)
(* its registration; a fenced call changes nothing.                        *)
Publish(t) ==
    LET c == tconv[t]
        e == Len(log[c]) + 1
        Fed(s) == registered[s] /\ sconv[s] = c
    IN
    /\ tpc[t] # "new" /\ e <= MaxLog
    /\ IsCurrent(c, tgen[t])
    /\ log' = [log EXCEPT ![c] = Append(@, tgen[t])]
    /\ buffer' = [buffer EXCEPT ![c] = Append(@, e)]
    /\ out' = [s \in Sub |->
                 IF s \in LossySub /\ Fed(s) /\ Len(out[s]) < SubChanCap
                 THEN Append(out[s], e) ELSE out[s]]
    /\ queue' = [s \in LosslessSub |->
                   IF Fed(s) THEN Append(queue[s], [at |-> e, barrier |-> 0])
                   ELSE queue[s]]
    /\ notify' = [s \in LosslessSub |-> notify[s] \/ Fed(s)]
    /\ last' = [s \in LosslessSub |-> IF Fed(s) THEN e ELSE last[s]]
    /\ UNCHANGED <<gen, handle, tpc, tconv, tgen, cancelled, subVars, readVars,
                   finishing, barrierAt, drainVars>>

-----------------------------------------------------------------------------
(* Attach and AttachLossless: snapshot and registration under the lock. *)

(* Mutant: the snapshot leaves out what was published before. *)
SnapshotWithoutReplay(s) ==
    LET c == sconv[s] IN
    /\ spc[s] = "new"
    /\ spc' = [spc EXCEPT ![s] = "open"]
    /\ registered' = [registered EXCEPT ![s] = TRUE]
    /\ replay' = [replay EXCEPT ![s] = << >>]
    /\ base' = [base EXCEPT ![s] = Len(log[c])]

Snapshot(s) ==
    LET c == sconv[s] IN
    /\ spc[s] = "new"
    /\ spc' = [spc EXCEPT ![s] = "open"]
    /\ registered' = [registered EXCEPT ![s] = TRUE]
    /\ replay' = [replay EXCEPT ![s] = buffer[c]]
    /\ base' = [base EXCEPT ![s] = Len(log[c])]

Attach(s) ==
    /\ s \in LossySub /\ Snapshot(s)
    /\ UNCHANGED <<turnVars, sconv, out, readVars, queueVars, drainVars>>

AttachLossless(s) ==
    /\ s \in LosslessSub /\ Snapshot(s)
    /\ last' = [last EXCEPT ![s] = Len(log[sconv[s]])]
    /\ UNCHANGED <<turnVars, sconv, out, readVars, queue, notify, finishing, barrierAt,
                   drainVars>>

(* detach of a lossy subscriber: unregister, then close(c). Nobody can send *)
(* to c once it is unregistered, so the two are one step.                  *)
Detach(s) ==
    /\ s \in LossySub /\ spc[s] = "open"
    /\ spc' = [spc EXCEPT ![s] = "detached"]
    /\ registered' = [registered EXCEPT ![s] = FALSE]
    /\ UNCHANGED <<turnVars, sconv, replay, base, out, readVars, queueVars, drainVars>>

(* detach of a lossless subscriber: unregister under the lock ... *)
DetachLossless(s) ==
    /\ s \in LosslessSub /\ spc[s] = "open"
    /\ spc' = [spc EXCEPT ![s] = "detaching"]
    /\ registered' = [registered EXCEPT ![s] = FALSE]
    /\ UNCHANGED <<turnVars, sconv, replay, base, out, readVars, queueVars, drainVars>>

(* ... then close(ls.done) without it. *)
CloseDone(s) ==
    /\ spc[s] = "detaching"
    /\ spc' = [spc EXCEPT ![s] = "detached"]
    /\ UNCHANGED <<turnVars, sconv, registered, replay, base, out, readVars, queueVars,
                   drainVars>>

Done(s) == spc[s] = "detached"

(* finish: end the registration; the drain goroutine stops after the queue. *)
Finish(s) ==
    /\ s \in LosslessSub /\ spc[s] = "open" /\ ~finishing[s]
    /\ registered' = [registered EXCEPT ![s] = FALSE]
    /\ finishing' = [finishing EXCEPT ![s] = TRUE]
    /\ notify' = [notify EXCEPT ![s] = TRUE]
    /\ UNCHANGED <<turnVars, spc, sconv, replay, base, out, readVars, queue, last,
                   barrierAt, drainVars>>

(* Mutant: the drain goroutine is not woken for a barrier. *)
BarrierQuietly(s) ==
    LET b == Len(barrierAt[s]) + 1 IN
    /\ s \in LosslessSub /\ spc[s] \in {"open", "detaching"} /\ b <= MaxBarriers
    /\ barrierAt' = [barrierAt EXCEPT ![s] = Append(@, last[s])]
    /\ queue' = [queue EXCEPT ![s] = Append(@, [at |-> last[s], barrier |-> b])]
    /\ UNCHANGED <<turnVars, subVars, out, readVars, notify, finishing, last, drainVars>>

(* Mutant: an empty queue answers a barrier at once, whatever the drain     *)
(* goroutine has taken and not forwarded yet.                              *)
BarrierShortcut(s) ==
    LET b == Len(barrierAt[s]) + 1
        i == [at |-> last[s], barrier |-> b]
    IN
    /\ s \in LosslessSub /\ spc[s] \in {"open", "detaching"} /\ b <= MaxBarriers
    /\ barrierAt' = [barrierAt EXCEPT ![s] = Append(@, last[s])]
    /\ acked' = [acked EXCEPT ![s] = IF queue[s] = << >> THEN @ \cup {b} ELSE @]
    /\ queue' = [queue EXCEPT ![s] = IF @ = << >> THEN @ ELSE Append(@, i)]
    /\ UNCHANGED <<turnVars, subVars, out, readVars, notify, finishing, last, dpc, items,
                   fin>>

(* barrier: queue an acknowledgement, unless done is closed already. *)
Barrier(s) ==
    LET b == Len(barrierAt[s]) + 1 IN
    /\ s \in LosslessSub /\ spc[s] \in {"open", "detaching"} /\ b <= MaxBarriers
    /\ barrierAt' = [barrierAt EXCEPT ![s] = Append(@, last[s])]
    /\ queue' = [queue EXCEPT ![s] = Append(@, [at |-> last[s], barrier |-> b])]
    /\ notify' = [notify EXCEPT ![s] = TRUE]
    /\ UNCHANGED <<turnVars, subVars, out, readVars, finishing, last, drainVars>>

-----------------------------------------------------------------------------
(* The drain goroutine of a lossless subscriber. *)

(* case <-ls.notify: take the whole queue and the finishing flag. *)
DrainTake(s) ==
    /\ spc[s] # "new" /\ dpc[s] = "select" /\ notify[s]
    /\ dpc' = [dpc EXCEPT ![s] = "forward"]
    /\ items' = [items EXCEPT ![s] = queue[s]]
    /\ fin' = [fin EXCEPT ![s] = finishing[s]]
    /\ queue' = [queue EXCEPT ![s] = << >>]
    /\ notify' = [notify EXCEPT ![s] = FALSE]
    /\ UNCHANGED <<turnVars, subVars, out, readVars, finishing, last, barrierAt, acked>>

(* Mutant: drop the event when the channel is full. *)
DrainForwardLossy(s) ==
    /\ dpc[s] = "forward" /\ items[s] # << >> /\ Head(items[s]).barrier = 0
    /\ out' = [out EXCEPT ![s] =
                 IF Len(@) < SubChanCap THEN Append(@, Head(items[s]).at) ELSE @]
    /\ items' = [items EXCEPT ![s] = Tail(@)]
    /\ UNCHANGED <<turnVars, subVars, readVars, queueVars, dpc, fin, acked>>

(* case out <- item.event *)
DrainForward(s) ==
    /\ dpc[s] = "forward" /\ items[s] # << >> /\ Head(items[s]).barrier = 0
    /\ Len(out[s]) < SubChanCap
    /\ out' = [out EXCEPT ![s] = Append(@, Head(items[s]).at)]
    /\ items' = [items EXCEPT ![s] = Tail(@)]
    /\ UNCHANGED <<turnVars, subVars, readVars, queueVars, dpc, fin, acked>>

(* close(item.barrier) *)
DrainAck(s) ==
    /\ dpc[s] = "forward" /\ items[s] # << >> /\ Head(items[s]).barrier # 0
    /\ acked' = [acked EXCEPT ![s] = @ \cup {Head(items[s]).barrier}]
    /\ items' = [items EXCEPT ![s] = Tail(@)]
    /\ UNCHANGED <<turnVars, subVars, out, readVars, queueVars, dpc, fin>>

(* case <-ls.done while forwarding: return, abandoning the rest. *)
DrainAbort(s) ==
    /\ dpc[s] = "forward" /\ items[s] # << >> /\ Head(items[s]).barrier = 0
    /\ Done(s)
    /\ dpc' = [dpc EXCEPT ![s] = "exited"]
    /\ items' = [items EXCEPT ![s] = << >>]
    /\ UNCHANGED <<turnVars, subVars, out, readVars, queueVars, fin, acked>>

(* Mutant: look at the finishing flag after forwarding, not with the batch. *)
DrainEndLate(s) ==
    /\ dpc[s] = "forward" /\ items[s] = << >>
    /\ dpc' = [dpc EXCEPT ![s] = IF finishing[s] THEN "exited" ELSE "select"]
    /\ UNCHANGED <<turnVars, subVars, out, readVars, queueVars, items, fin, acked>>

DrainEnd(s) ==
    /\ dpc[s] = "forward" /\ items[s] = << >>
    /\ dpc' = [dpc EXCEPT ![s] = IF fin[s] THEN "exited" ELSE "select"]
    /\ UNCHANGED <<turnVars, subVars, out, readVars, queueVars, items, fin, acked>>

(* case <-ls.done: take the queue for best-effort delivery. *)
DrainDone(s) ==
    /\ dpc[s] = "select" /\ Done(s)
    /\ dpc' = [dpc EXCEPT ![s] = "tail"]
    /\ items' = [items EXCEPT ![s] = queue[s]]
    /\ queue' = [queue EXCEPT ![s] = << >>]
    /\ UNCHANGED <<turnVars, subVars, out, readVars, notify, finishing, last, barrierAt,
                   fin, acked>>

(* Forward what fits at the moment it is tried, never block. *)
DrainTail(s) ==
    LET i == Head(items[s]) IN
    /\ dpc[s] = "tail" /\ items[s] # << >>
    /\ out' = [out EXCEPT ![s] =
                 IF i.barrier = 0 /\ Len(@) < SubChanCap THEN Append(@, i.at) ELSE @]
    /\ items' = [items EXCEPT ![s] = Tail(@)]
    /\ UNCHANGED <<turnVars, subVars, readVars, queueVars, dpc, fin, acked>>

DrainExit(s) ==
    /\ dpc[s] = "tail" /\ items[s] = << >>
    /\ dpc' = [dpc EXCEPT ![s] = "exited"]
    /\ UNCHANGED <<turnVars, subVars, out, readVars, queueVars, items, fin, acked>>

(* The consumer reads one event from its channel. *)
Receive(s) ==
    /\ out[s] # << >>
    /\ recv' = [recv EXCEPT ![s] = Append(@, Head(out[s]))]
    /\ out' = [out EXCEPT ![s] = Tail(@)]
    /\ UNCHANGED <<turnVars, subVars, eof, queueVars, drainVars>>

(* close(out), or close(c) of a lossy subscriber: no more sends. *)
Closed(s) == IF s \in LossySub THEN spc[s] = "detached" ELSE dpc[s] = "exited"

(* The consumer's receive reports the channel closed. *)
ReceiveClosed(s) ==
    /\ Closed(s) /\ out[s] = << >> /\ ~eof[s]
    /\ eof' = [eof EXCEPT ![s] = TRUE]
    /\ UNCHANGED <<turnVars, subVars, out, recv, queueVars, drainVars>>

Consume(s) == Receive(s) \/ ReceiveClosed(s)

-----------------------------------------------------------------------------
Drain(s) ==
    \/ DrainTake(s) \/ DrainForward(s) \/ DrainAck(s) \/ DrainAbort(s)
    \/ DrainEnd(s) \/ DrainDone(s) \/ DrainTail(s) \/ DrainExit(s)

TurnStep ==
    \/ \E t \in Turn : \/ BeginTurn(t) \/ ReleaseCancel(t) \/ ReleaseClear(t)
                       \/ ParentDone(t) \/ Publish(t)
    \/ \E c \in Conv : CancelTurn(c)
    \/ CancelAllTurns

Next ==
    \/ TurnStep
    \/ \E s \in LossySub : Attach(s) \/ Detach(s)
    \/ \E s \in LosslessSub :
          \/ AttachLossless(s) \/ DetachLossless(s) \/ CloseDone(s)
          \/ Finish(s) \/ Barrier(s) \/ Drain(s)
    \/ \E s \in Sub : Consume(s)

Spec == Init /\ [][Next]_vars

(* A goroutine that can run does run: the drain goroutine, and the rest of  *)
(* a detach that has begun. The consumer of a lossless subscription reads,  *)
(* as the turn's handler does, until it detaches and no longer. Nothing     *)
(* makes a turn publish or end.                                             *)
Fairness ==
    \A s \in LosslessSub :
        /\ WF_vars(Drain(s)) /\ WF_vars(CloseDone(s))
        /\ WF_vars(spc[s] = "open" /\ Consume(s))

FairSpec == Spec /\ Fairness

-----------------------------------------------------------------------------
(* At most one turn is live per conversation: a turn whose context is not   *)
(* done is the registered one and passes the fence, and a registered turn  *)
(* always has the live generation (BeginTurn, release, CancelTurn).        *)
TurnExclusive ==
    /\ \A t \in Turn : tpc[t] = "live" /\ ~cancelled[t] => handle[tconv[t]] = t
    /\ \A c \in Conv : handle[c] # NoTurn =>
          /\ tconv[handle[c]] = c
          /\ IsCurrent(c, tgen[handle[c]])

(* Events of a superseded turn never come after events of the turn that     *)
(* superseded it: what a conversation accepted is ordered by generation,   *)
(* however late the old runner calls Publish.                              *)
FenceOrder ==
    \A c \in Conv : \A i \in 1..Len(log[c]) :
        /\ log[c][i] <= gen[c]
        /\ \A j \in 1..i : log[c][j] <= log[c][i]

(* The replay buffer is exactly what the live generation has published, in  *)
(* order: nothing older survives BeginTurn or CancelTurn, nothing is lost. *)
ReplayIsLiveTurn ==
    \A c \in Conv :
        LET old == Len(log[c]) - Len(buffer[c]) IN
        /\ Len(buffer[c]) <= Len(log[c])
        /\ \A i \in 1..Len(buffer[c]) : buffer[c][i] = old + i
        /\ \A i \in 1..Len(log[c]) : log[c][i] = gen[c] <=> i > old

(* The last event sent on the channel, if none was dropped. *)
Sent(s) == base[s] + Len(recv[s]) + Len(out[s])

(* The items of q take up after event p: an event is the next one, and a    *)
(* barrier stands after the event queued before it.                        *)
Chain(p, q) ==
    \A i \in 1..Len(q) :
        q[i].at = (IF i = 1 THEN p ELSE q[i - 1].at)
                      + (IF q[i].barrier = 0 THEN 1 ELSE 0)

EndOf(p, q) == IF Len(q) = 0 THEN p ELSE q[Len(q)].at

Continuous(s) ==
    LET taken == EndOf(Sent(s), items[s]) IN
    /\ Chain(Sent(s), items[s])
    /\ Chain(taken, queue[s])
    /\ EndOf(taken, queue[s]) = last[s]

(* Until it is detached a lossless subscriber misses nothing: replay, what  *)
(* was read, the channel, the drain goroutine's batch and the queue are,   *)
(* one after the other, every event from the start of the replay to the    *)
(* last one published while it was registered.                             *)
LosslessDelivery ==
    \A s \in LosslessSub : spc[s] = "open" =>
        LET seen == replay[s] \o recv[s] \o out[s] IN
        /\ \A i \in 1..Len(seen) : seen[i] = base[s] - Len(replay[s]) + i
        /\ Continuous(s)
        /\ ~finishing[s] => last[s] = Len(log[sconv[s]])

(* A closed barrier is a delivery fence: every event published before the   *)
(* barrier was requested has reached the channel, even if the subscriber   *)
(* was detached since (AttachLosslessWithBarrier's promise).               *)
BarrierFence ==
    \A s \in LosslessSub : \A b \in acked[s] :
        Len(recv[s]) + Len(out[s]) >= barrierAt[s][b] - base[s]

(* After finish, a consumer that sees its channel closed and empty has read *)
(* everything published before finish.                                     *)
FinishDeliversAll ==
    \A s \in LosslessSub :
        spc[s] = "open" /\ eof[s] =>
            /\ finishing[s]
            /\ base[s] + Len(recv[s]) = last[s]

(* While the consumer keeps reading, neither fence leaves it waiting: after  *)
(* finish it gets to the end of its channel, and a barrier requested before *)
(* is closed, without another event to wake the drain goroutine, unless    *)
(* the subscription is given up. And giving it up never leaks the drain     *)
(* goroutine: it exits although the consumer has stopped reading.          *)
FencesEnd ==
    \A s \in LosslessSub :
        /\ spc[s] = "detaching" ~> dpc[s] = "exited"
        /\ finishing[s] ~> (eof[s] \/ spc[s] # "open")
        /\ \A b \in 1..MaxBarriers :
              (Len(barrierAt[s]) >= b /\ ~finishing[s])
                  ~> (b \in acked[s] \/ spc[s] # "open" \/ finishing[s])

(* The lossless subscribers see what EventFeed promises. Reading an empty,  *)
(* closed channel is the end of the feed; a detach, from the moment it      *)
(* unregisters the subscriber, is leaving it.                              *)
FeedPhase(s) ==
    CASE spc[s] = "new" -> "out"
      [] spc[s] \in {"detaching", "detached"} -> "left"
      [] spc[s] = "open" /\ ~finishing[s] -> "in"
      [] OTHER -> IF eof[s] THEN "ended" ELSE "sealed"

FeedFrom(s) == base[s] - Len(replay[s])
FeedUpto(s) == IF finishing[s] /\ spc[s] = "open" THEN last[s] ELSE 0
FeedSeen(s) == replay[s] \o recv[s]

Feed == INSTANCE EventFeed WITH
    Reader <- LosslessSub,
    live  <- gen,
    conv  <- [s \in LosslessSub |-> sconv[s]],
    phase <- [s \in LosslessSub |-> FeedPhase(s)],
    from  <- [s \in LosslessSub |-> FeedFrom(s)],
    upto  <- [s \in LosslessSub |-> FeedUpto(s)],
    seen  <- [s \in LosslessSub |-> FeedSeen(s)]

(* What it promises of every step, and what it promises in the end. *)
FeedSafety == Feed!Safety
FeedSpec == Feed!Spec
=============================================================================
