----------------------------- MODULE Accounting -----------------------------
(***************************************************************************)
(* Usage records of one worker process on their way to the host's          *)
(* database: usage/attempt.go, the collector of                            *)
(* telemetry/accounting_collector.go in the worker, the writer and the     *)
(* drain of worker/accounting_stream.go and accounting_lifecycle.go, the   *)
(* session and receiver of accounting_connections.go and                   *)
(* accounting_receiver.go, and the upsert of telemetry/accounting_store.go.*)
(*                                                                         *)
(* Every model call is an attempt; each change of it is a snapshot with a  *)
(* higher revision. Snapshots may be lost, sent twice or overtake each     *)
(* other on the way. What the host must not do is lose one and not say so. *)
(***************************************************************************)
EXTENDS Naturals, FiniteSets, Sequences, SequencesExt

CONSTANTS
    Attempt,        \* model calls
    MaxRevision,    \* bound: snapshots of an attempt
    MaxTurns,       \* bound: turns, one after the other
    Capacity,       \* Capacity of the worker's collector
    BatchSize,      \* BatchSize
    MaxRetries,     \* MaxRetries
    HostCapacity,   \* messages the host's collector holds
    MaxStreams,     \* bound: accounting streams opened
    MaxStatus,      \* bound: health messages the run loop sends
    MaxFaults       \* bound: early timeouts, host writes not acknowledged

ASSUME AccountingAssumption ==
    /\ IsFiniteSet(Attempt)
    /\ MaxRevision \in Nat /\ MaxTurns \in Nat /\ Capacity \in Nat /\ BatchSize \in 1..Capacity
    /\ MaxRetries \in Nat /\ HostCapacity \in Nat
    /\ MaxStreams \in Nat /\ MaxStatus \in Nat /\ MaxFaults \in Nat

VARIABLES
    prod,       \* producers: each attempt's Revision, and whether its Outcome is
                \* final; snapshots taken and not yet emitted; turns, one registered
    col,        \* collector: the channel; the run loop's place, batch and failed
                \* tries; Closed; and Lost, Uncertain or CoverageIncomplete ("bad")
    fin,        \* the one close operation and its error; the drain that asked
    wr,         \* writer: the stream attached (0: none), the writes, their sequence
    net,        \* the stream: number, open, and what is on its way up and down
    host,       \* session: place, message, drain requested and sent, gap marked
    disk,       \* host collector's messages not decided; rows of the database
    alive,      \* the worker process runs
    faults,     \* faults so far
    persisted   \* history: what the worker counts as persisted

vars == <<prod, col, fin, wr, net, host, disk, alive, faults, persisted>>

Snapshot == [id : Attempt, rev : 1..MaxRevision, final : BOOLEAN]
Writer == {"loop", "drain"}

NoMsg == [kind |-> "none", obs |-> << >>, seq |-> 0, bad |-> FALSE]
Obs(s) == [NoMsg EXCEPT !.kind = "obs", !.obs = s]
Health(n, b) == [NoMsg EXCEPT !.kind = "health", !.seq = n, !.bad = b]
Result(err) == [NoMsg EXCEPT !.kind = "result", !.bad = err]
NoCall == [msg |-> NoMsg, link |-> 0, answer |-> "none"]
Receipt(m, ok) == [id |-> m, ok |-> ok]
Drain == Receipt(NoMsg, FALSE)

NewCollector == [queue |-> << >>, batch |-> << >>, at |-> "tick", tries |-> 0,
                 bad |-> FALSE, closed |-> FALSE]
NotClosing == [at |-> "open", err |-> FALSE, ask |-> "none"]
NewWriter == [link |-> 0, call |-> [w \in Writer |-> NoCall], status |-> 0]

Init ==
    /\ prod = [rev |-> [a \in Attempt |-> 0], over |-> [a \in Attempt |-> FALSE],
               unsent |-> {}, turns |-> 0, live |-> FALSE]
    /\ col = NewCollector /\ fin = NotClosing /\ wr = NewWriter
    /\ net = [n |-> 0, open |-> FALSE, up |-> << >>, down |-> << >>]
    /\ host = [at |-> "connect", msg |-> NoMsg, drain |-> FALSE, asked |-> FALSE, marked |-> FALSE]
    /\ disk = [inbox |-> << >>, row |-> [a \in Attempt |-> [rev |-> 0, final |-> FALSE]]]
    /\ alive = TRUE /\ faults = 0 /\ persisted = {}

-----------------------------------------------------------------------------
(* Producers                                                               *)

BeginTurn ==
    /\ alive /\ ~prod.live /\ fin.at = "open" /\ prod.turns < MaxTurns
    /\ prod' = [prod EXCEPT !.live = TRUE, !.turns = @ + 1]
    /\ UNCHANGED <<col, fin, wr, net, host, disk, alive, faults, persisted>>

\* StartAttempt, Observe, Finish: the revision grows under the attempt's lock.
\* StartAttempt has emitted before the others are called.
Take(a, final) ==
    LET r == prod.rev[a] + 1 IN
    /\ alive /\ prod.live /\ ~prod.over[a]
    /\ IF final THEN r \in 2..MaxRevision ELSE r < MaxRevision
    /\ \A s \in prod.unsent : s.id = a => s.rev > 1
    /\ prod' = [prod EXCEPT !.rev[a] = r, !.over[a] = final,
                            !.unsent = @ \cup {[id |-> a, rev |-> r, final |-> final]}]
    /\ UNCHANGED <<col, fin, wr, net, host, disk, alive, faults, persisted>>

\* Admitted and not yet decided: in the channel, or in the batch of the run loop.
Pending == Len(col.queue) + Len(col.batch)

\* Emit: outside the attempt's lock, so snapshots come in any order.
Emit(s) ==
    /\ alive /\ s \in prod.unsent
    /\ prod' = [prod EXCEPT !.unsent = @ \ {s}]
    /\ col' = IF col.closed \/ Pending >= Capacity THEN [col EXCEPT !.bad = TRUE]
              ELSE [col EXCEPT !.queue = Append(@, s)]
    /\ UNCHANGED <<fin, wr, net, host, disk, alive, faults, persisted>>

\* release, when the turn returns: nothing of it emits any more.
EndTurn ==
    /\ alive /\ prod.live /\ prod.unsent = {}
    /\ prod' = [prod EXCEPT !.live = FALSE]
    /\ UNCHANGED <<col, fin, wr, net, host, disk, alive, faults, persisted>>

-----------------------------------------------------------------------------
(* The writer: one write at a time on a link                               *)

Waiting(w) == wr.call[w].link = wr.link /\ wr.link # 0
CanRegister == wr.link # 0 /\ ~\E w \in Writer : Waiting(w)

\* writeBatch: the message waits for its receipt, and is on its way to the host
\* unless the stream is broken already.
Register(w, m) ==
    /\ wr' = [wr EXCEPT !.call[w] = [NoCall EXCEPT !.msg = m, !.link = wr.link],
                        !.status = IF m.kind = "health" THEN @ + 1 ELSE @]
    /\ net' = IF net.open /\ net.n = wr.link THEN [net EXCEPT !.up = Append(@, m)] ELSE net
Leave(w) == wr' = [wr EXCEPT !.call[w] = NoCall]

\* The message or its receipt has not arrived yet.
InTransit(m) ==
    /\ net.open /\ net.n = wr.link
    /\ \/ m \in ToSet(net.up)
       \/ host.at = "commit" /\ host.msg = m
       \/ m \in {r.id : r \in ToSet(net.down)}

\* A write ends well, or with an error: refused, link closed, timed out.
Succeeds(w) == Waiting(w) /\ wr.call[w].answer = "yes" /\ UNCHANGED faults
Fails(w) ==
    /\ wr.call[w] # NoCall
    /\ IF Waiting(w) /\ (wr.call[w].answer = "none" => InTransit(wr.call[w].msg))
                      /\ wr.call[w].answer # "no"
       THEN faults < MaxFaults /\ faults' = faults + 1
       ELSE UNCHANGED faults

-----------------------------------------------------------------------------
(* The collector's run loop                                                *)

TakeBatch ==
    /\ alive /\ col.at = "tick" /\ col.queue # << >>
    /\ LET n == IF Len(col.queue) < BatchSize THEN Len(col.queue) ELSE BatchSize IN
       col' = [col EXCEPT !.at = "write",
                          !.batch = SubSeq(col.queue, 1, n),
                          !.queue = SubSeq(col.queue, n + 1, Len(col.queue))]
    /\ UNCHANGED <<prod, fin, wr, net, host, disk, alive, faults, persisted>>

WriteBatch ==
    /\ alive /\ col.at = "write" /\ CanRegister
    /\ Register("loop", Obs(col.batch))
    /\ col' = [col EXCEPT !.at = "await"]
    /\ UNCHANGED <<prod, fin, host, disk, alive, faults, persisted>>

BatchWritten ==
    /\ alive /\ col.at = "await" /\ Succeeds("loop")
    /\ persisted' = persisted \cup ToSet(col.batch)
    /\ col' = [col EXCEPT !.at = "health", !.batch = << >>, !.tries = 0]
    /\ Leave("loop")
    /\ UNCHANGED <<prod, fin, net, host, disk, alive>>

\* "worker accounting not connected", or the write's error.
BatchError == \/ col.at = "write" /\ ~CanRegister /\ UNCHANGED faults
              \/ col.at = "await" /\ Fails("loop")

\* Again, or the batch is uncertain; a loop that was cancelled returns.
BatchFailed ==
    /\ alive /\ BatchError
    /\ col' = IF fin.at = "closed" THEN [col EXCEPT !.at = "done"]
              ELSE IF col.tries < MaxRetries THEN [col EXCEPT !.at = "write", !.tries = @ + 1]
              ELSE [col EXCEPT !.at = "health", !.batch = << >>, !.tries = 0, !.bad = TRUE]
    /\ Leave("loop")
    /\ UNCHANGED <<prod, fin, net, host, disk, alive, persisted>>

\* persistHealth, after a batch or on a tick without one: tried once.
WriteHealth ==
    /\ alive /\ (col.at = "health" \/ (col.at = "tick" /\ col.queue = << >>))
    /\ CanRegister /\ wr.status < MaxStatus
    /\ Register("loop", Health(wr.status + 1, col.bad))
    /\ col' = [col EXCEPT !.at = "told"]
    /\ UNCHANGED <<prod, fin, host, disk, alive, faults, persisted>>

HealthDone ==
    /\ alive
    /\ \/ col.at = "health" /\ (~CanRegister \/ wr.status >= MaxStatus) /\ UNCHANGED faults
       \/ col.at = "told" /\ (Succeeds("loop") \/ Fails("loop"))
    /\ col' = [col EXCEPT !.at = "tick"]
    /\ Leave("loop")
    /\ UNCHANGED <<prod, fin, net, host, disk, alive, persisted>>

\* Closed and drained.
LoopEnds ==
    /\ alive /\ col.at = "tick" /\ col.queue = << >> /\ col.closed
    /\ col' = [col EXCEPT !.at = "done"]
    /\ UNCHANGED <<prod, fin, wr, net, host, disk, alive, faults, persisted>>

-----------------------------------------------------------------------------
(* Closing the worker's side: once, on the first drain request             *)

\* The producers are done, or two seconds are over: the coverage is incomplete.
CloseCollector ==
    /\ alive /\ fin.at = "producers"
    /\ fin' = [fin EXCEPT !.at = "collector", !.err = prod.live]
    /\ col' = [col EXCEPT !.closed = TRUE, !.bad = @ \/ prod.live]
    /\ UNCHANGED <<prod, wr, net, host, disk, alive, faults, persisted>>

\* The loop is done, or the time is over and what is pending is uncertain.
CloseEnds ==
    /\ alive /\ fin.at = "collector"
    /\ fin' = [fin EXCEPT !.at = "closed", !.err = @ \/ col.at # "done"]
    /\ col' = [col EXCEPT !.bad = @ \/ (col.at # "done" /\ Pending > 0)]
    /\ UNCHANGED <<prod, wr, net, host, disk, alive, faults, persisted>>

\* Mutant of FinalHealth: the health the loop wrote last is taken as the final one.
NoFinalHealth ==
    /\ alive /\ fin.ask = "wait" /\ fin.at = "closed" /\ wr.link # 0
    /\ fin' = [fin EXCEPT !.ask = "told"] /\ UNCHANGED <<wr, net>>
    /\ UNCHANGED <<prod, col, host, disk, alive, faults, persisted>>

\* finishAccounting: when all is closed it writes the final health,
FinalHealth ==
    /\ alive /\ fin.ask = "wait" /\ fin.at = "closed" /\ wr.link # 0
    /\ IF CanRegister
       THEN Register("drain", Health(wr.status + 1, col.bad)) /\ fin' = [fin EXCEPT !.ask = "await"]
       ELSE fin' = [fin EXCEPT !.ask = "failed"] /\ UNCHANGED <<wr, net>>
    /\ UNCHANGED <<prod, col, host, disk, alive, faults, persisted>>

\* and has a result when that was answered.
FinalAnswer ==
    /\ alive /\ fin.ask = "await"
    /\ \/ Succeeds("drain") /\ fin' = [fin EXCEPT !.ask = "told"]
       \/ Fails("drain") /\ fin' = [fin EXCEPT !.ask = "failed"]
    /\ Leave("drain")
    /\ UNCHANGED <<prod, col, net, host, disk, alive, persisted>>

-----------------------------------------------------------------------------
(* The worker's end of the stream                                          *)

Up == alive /\ wr.link = net.n /\ net.open

\* The handler sends the drain's result, returns and detaches.
SendResult ==
    /\ Up /\ fin.ask \in {"told", "failed"}
    /\ net' = [net EXCEPT !.up = Append(@, Result(fin.err \/ fin.ask = "failed"))]
    /\ wr' = [wr EXCEPT !.link = 0]
    /\ fin' = [fin EXCEPT !.ask = "none"]
    /\ UNCHANGED <<prod, col, host, disk, alive, faults, persisted>>

\* The first drain request starts the close, each makes one answer.
DrainAsked == [fin EXCEPT !.ask = "wait", !.at = IF @ = "open" THEN "producers" ELSE @]

\* Mutant of Deliver: any receipt answers the write that waits.
DeliverAny ==
    /\ Up /\ net.down # << >>
    /\ LET r == Head(net.down) IN
       IF r = Drain THEN fin' = DrainAsked /\ UNCHANGED wr
       ELSE /\ wr' = [wr EXCEPT !.call = [w \in Writer |->
                        IF Waiting(w) /\ @[w].answer = "none"
                        THEN [@[w] EXCEPT !.answer = IF r.ok THEN "yes" ELSE "no"] ELSE @[w]]]
            /\ UNCHANGED fin
    /\ net' = [net EXCEPT !.down = Tail(@)]
    /\ UNCHANGED <<prod, col, host, disk, alive, faults, persisted>>

\* deliver: by batch id, which is a hash of the content; the first one counts.
Deliver ==
    /\ Up /\ net.down # << >>
    /\ LET r == Head(net.down) IN
       IF r = Drain THEN fin' = DrainAsked /\ UNCHANGED wr
       ELSE /\ wr' = [wr EXCEPT !.call = [w \in Writer |->
                        IF Waiting(w) /\ @[w].answer = "none" /\ @[w].msg = r.id
                        THEN [@[w] EXCEPT !.answer = IF r.ok THEN "yes" ELSE "no"] ELSE @[w]]]
            /\ UNCHANGED fin
    /\ net' = [net EXCEPT !.down = Tail(@)]
    /\ UNCHANGED <<prod, col, host, disk, alive, faults, persisted>>

\* The handler of a broken stream returns; its drain goes with it.
Detach ==
    /\ alive /\ wr.link # 0 /\ ~Up
    /\ wr' = [wr EXCEPT !.link = 0, !.call["drain"] = NoCall]
    /\ fin' = [fin EXCEPT !.ask = "none"]
    /\ UNCHANGED <<prod, col, net, host, disk, alive, faults, persisted>>

-----------------------------------------------------------------------------
(* The host's session                                                      *)

\* A stream is refused while the worker's last handler is attached.
Connect ==
    /\ host.at = "connect" /\ alive /\ wr.link = 0 /\ net.n < MaxStreams
    /\ net' = [n |-> net.n + 1, open |-> TRUE, up |-> << >>, down |-> << >>]
    /\ wr' = [wr EXCEPT !.link = net.n + 1]
    /\ host' = [host EXCEPT !.at = "receive"]
    /\ UNCHANGED <<prod, col, fin, disk, alive, faults, persisted>>

\* Before an idle worker is killed, and when the host shuts down.
RequestDrain ==
    /\ ~host.drain
    /\ host' = [host EXCEPT !.drain = TRUE]
    /\ UNCHANGED <<prod, col, fin, wr, net, disk, alive, faults, persisted>>

SendDrain ==
    /\ host.at \in {"receive", "commit"} /\ net.open /\ host.drain /\ ~host.asked
    /\ host' = [host EXCEPT !.asked = TRUE]
    /\ net' = [net EXCEPT !.down = Append(@, Drain)]
    /\ UNCHANGED <<prod, col, fin, wr, disk, alive, faults, persisted>>

Cut == net' = [net EXCEPT !.open = FALSE, !.up = << >>, !.down = << >>]

\* The process is killed, and its memory gone; both callers of a drain do so
\* when it returns.
Retire ==
    /\ alive' = FALSE /\ Cut
    /\ prod' = [prod EXCEPT !.unsent = {}, !.live = FALSE]
    /\ col' = NewCollector /\ fin' = NotClosing /\ wr' = NewWriter

\* The result ends the session.
ReceiveResult ==
    /\ host.at = "receive" /\ net.open /\ net.up # << >>
    /\ LET m == Head(net.up) IN
       /\ m.kind = "result"
       /\ host' = [host EXCEPT !.at = "over", !.marked = @ \/ m.bad]
    /\ Retire
    /\ UNCHANGED <<disk, faults, persisted>>

\* A batch or health: bad health marks the coverage; a full collector refuses,
\* otherwise the receiver waits for the receipt.
ReceiveBatch ==
    /\ host.at = "receive" /\ net.open /\ net.up # << >>
    /\ LET m == Head(net.up)
           full == Len(disk.inbox) >= HostCapacity IN
       /\ m.kind # "result"
       /\ host' = [host EXCEPT !.marked = @ \/ m.bad, !.msg = IF full THEN @ ELSE m,
                               !.at = IF full THEN @ ELSE "commit"]
       /\ disk' = IF full THEN disk
                  ELSE [disk EXCEPT !.inbox = Append(@, [msg |-> m, waited |-> TRUE])]
       /\ net' = [net EXCEPT !.up = Tail(@),
                             !.down = IF full THEN Append(@, Receipt(m, FALSE)) ELSE @]
    /\ UNCHANGED <<prod, col, fin, wr, alive, faults, persisted>>

Reply(ok) == net' = IF net.open THEN [net EXCEPT !.down = Append(@, Receipt(host.msg, ok))] ELSE net
GoOn == host' = [host EXCEPT !.at = "receive", !.msg = NoMsg]
\* The receiver waits no more.
GiveUp == disk' = [disk EXCEPT !.inbox = [i \in DOMAIN @ |-> [@[i] EXCEPT !.waited = FALSE]]]

\* WriteAttempts, one row: a higher revision, and never started over final.
Upsert(rows, o) ==
    IF o.rev > rows[o.id].rev /\ (o.final \/ ~rows[o.id].final)
    THEN [rows EXCEPT ![o.id] = [rev |-> o.rev, final |-> o.final]]
    ELSE rows

\* The rows of a transaction, one after the other.
Upserted(rows, obs) ==
    LET after[n \in 0..Len(obs)] ==
            IF n = 0 THEN rows ELSE Upsert(after[n - 1], obs[n])
    IN after

\* The host's collector decides its oldest message. A write it could not
\* confirm may have reached the disk, whole or in part.
Commit(ok) ==
    /\ disk.inbox # << >>
    /\ IF ok THEN UNCHANGED faults ELSE faults < MaxFaults /\ faults' = faults + 1
    /\ LET obs == Head(disk.inbox).msg.obs IN
       \E n \in 0..Len(obs) :
          /\ ok => n = Len(obs)
          /\ disk' = [inbox |-> Tail(disk.inbox),
                      row |-> Upserted(disk.row, obs)[n]]
    /\ IF Head(disk.inbox).waited
       THEN GoOn /\ Reply(ok)
       ELSE UNCHANGED <<host, net>>
    /\ UNCHANGED <<prod, col, fin, wr, alive, persisted>>

\* Two seconds: the write is refused, though it stays admitted.
ReceiptTimeout ==
    /\ host.at = "commit" /\ faults < MaxFaults
    /\ faults' = faults + 1
    /\ GoOn
    /\ GiveUp /\ Reply(FALSE)
    /\ UNCHANGED <<prod, col, fin, wr, alive, persisted>>

\* A broken stream is opened again; with the connection closed the session ends.
StreamLost ==
    /\ ~net.open
    /\ \/ alive /\ host.at = "receive" /\ host' = [host EXCEPT !.at = "connect", !.asked = FALSE]
       \/ ~alive /\ host.at \in {"receive", "connect"}
          /\ host' = [host EXCEPT !.at = "over", !.marked = TRUE]
    /\ UNCHANGED <<prod, col, fin, wr, net, disk, alive, faults, persisted>>

\* close: the caller's budget is spent.
Budget ==
    /\ host.drain /\ host.at # "over"
    /\ host' = [host EXCEPT !.at = "over", !.marked = TRUE]
    /\ GiveUp /\ Retire
    /\ UNCHANGED <<faults, persisted>>

-----------------------------------------------------------------------------
(* Faults                                                                  *)

Break ==
    /\ net.open /\ Cut
    /\ UNCHANGED <<prod, col, fin, wr, host, disk, alive, faults, persisted>>

\* The pool kills the process and closes the connection.
Kill ==
    /\ alive /\ Retire
    /\ UNCHANGED <<host, disk, faults, persisted>>

Turns == \/ BeginTurn \/ EndTurn
         \/ \E a \in Attempt, final \in BOOLEAN : Take(a, final)
         \/ \E s \in prod.unsent : Emit(s)
Loop == TakeBatch \/ WriteBatch \/ BatchWritten \/ BatchFailed \/ WriteHealth \/ HealthDone \/ LoopEnds
Close == CloseCollector \/ CloseEnds \/ FinalHealth \/ FinalAnswer
Stream == SendResult \/ Deliver \/ Detach
Session == \/ Connect \/ RequestDrain \/ SendDrain \/ ReceiveResult \/ ReceiveBatch
           \/ ReceiptTimeout \/ StreamLost \/ Budget
           \/ \E ok \in BOOLEAN : Commit(ok)

Next == Turns \/ Loop \/ Close \/ Stream \/ Session \/ Break \/ Kill

Spec == Init /\ [][Next]_vars

-----------------------------------------------------------------------------
(* Properties                                                              *)

TypeOK ==
    /\ prod.rev \in [Attempt -> 0..MaxRevision] /\ prod.over \in [Attempt -> BOOLEAN]
    /\ prod.unsent \subseteq Snapshot /\ prod.live \in BOOLEAN
    /\ col.at \in {"tick", "write", "await", "health", "told", "done"}
    /\ col.tries \in 0..MaxRetries /\ col.bad \in BOOLEAN
    /\ fin.at \in {"open", "producers", "collector", "closed"}
    /\ fin.ask \in {"none", "wait", "await", "told", "failed"}
    /\ host.at \in {"connect", "receive", "commit", "over"}
    /\ Len(disk.inbox) <= HostCapacity
    /\ persisted \subseteq Snapshot

\* What the worker counts as persisted is in the database: no receipt of
\* another batch, of an earlier try or of another stream stands for it.
AckMeansStored ==
    TypeOK /\ \A s \in persisted : disk.row[s.id].rev >= s.rev

\* A session that ended without marking the coverage incomplete has brought
\* the latest snapshot of every attempt into the database.
NoSilentLoss ==
    host.at = "over" /\ ~host.marked
    => \A a \in Attempt : disk.row[a] = [rev |-> prod.rev[a], final |-> prod.over[a]]
=============================================================================
