# TLA+ models of the Cercano agent

Cercano is a local agent server (Go, `source/server`) with a command line client and editor
plugins. A client sends a request over gRPC; the server runs it as a *turn* (a loop of model calls
and tool calls), usually in a worker process of its own, streams the turn's events to the client
and to any other client that watches the conversation, asks a client for permission when a tool
needs it, and persists the conversation. An *autonomous run* chains turns without the user.

The modules here model the part of that server in which goroutines, processes and clients meet:
the broker of turns and events, the handler that drives a conversation's turns, the prompts for a
permission and for a sign-in with the credential behind the latter, the pool of worker processes and their orphans, the stream to a
worker with its calls and its usage records, the profile of a session, the compacted history, the downloads of
local models, and the end of the agent. Paths below are
relative to `src/source/server/internal/` unless they start with `cmd/`.

## 1. Inventory

### Components, state and operations

| component | code | state it keeps | operations | model |
|---|---|---|---|---|
| turn broker | `broker/broker.go` | per conversation: generation, registered turn, replay buffer, lossy and lossless subscribers with their queues | `BeginTurn` and its release, `CancelTurn`, `CancelAllTurns`, `Publish`, `Attach`, `AttachLosslessWithBarrier`, finish, barrier, detach, drain goroutine | `TurnBroker`, `EventFeed` |
| turn handler and autonomous run | `server/server.go` (`streamProcessRequestWithToolLoop`), `server/autonomy_*.go`, `conversation/autonomy.go`, `capabilities/builtins/autonomous.go` | per request: generation, context, position in the event stream, runner; per conversation: history, ledger of the run | begin, attach, start a model turn, forward, fence, gate, final; persist; the ledger tools; `CancelTurn` | `TurnHandler` |
| permission prompts | `agent/pending.go`, requester in `server/server.go` | the waiters by (conversation, tool-use id) | `Wait`, `Resolve`, prompt, `AllowToolCall`/`DenyToolCall` | `PermissionBarrier` |
| worker pool | `worker/pool.go` | per conversation: warm worker, in use, managed, last use | `Acquire`, `Release`, idle scan, `Shutdown`, health check | `WorkerPool` |
| worker processes | `worker/spawn.go`, `worker/reap.go` | processes, pidfiles | spawn, `Kill`, `ReapOrphanWorkers` | `OrphanSweep` |
| session events and shutdown | `server/events.go`, `server/shutdown.go`, `cmd/cercano/main.go` | subscriber channels, idle timers, the process's phase | subscribe, unsubscribe, broadcast, `closeAll`, `EnableIdleShutdown`, `ShutdownAgent`, `DrainThenStop`, signals | `EventHub` |
| session profile | `agent/profile_broker.go`, `server/events.go`, `server/autonomy_continuation.go`, `capabilities/builtins/autonomous.go` | active profile per conversation (in memory), ledger (durable), what clients show | `SetActive`, announce, restore at turn start, `GetSessionProfile`, the tools that enter and leave autonomous mode | `SessionProfile` |
| worker stream | `worker/host.go`, `proxies.go`, `open_provider.go`, `worker.go` and the other proxies | queue and goroutine of the sender, calls in flight at both ends, readers of inferences, scope of sub-agents | drain loop, goroutines that answer, receive loop, proxied calls, end of turn, cancel, crash | `WorkerStream`, `RemoteTurn` |
| accounting | `worker/accounting_*.go`, `telemetry/accounting_*.go`, `usage/attempt.go` | revisions of attempts, the worker's collector and writer, stream and receipts, the host's queue and table, the mark of incomplete coverage | emit, batch, write, acknowledge, retry, drain, reconnect | `Accounting` |
| persistence and compaction | `conversation/store.go`, `hostsvc/persistence`, `compactor`, `compactiongen`, `retention` | turns, summary with its boundary, timer and claim of passes | append, delete, pass, regenerate, clear, prune, collapse, assemble | `ContextCompaction`, `ContextLedger` |
| credentials | `hostsvc/credentials`, `hostsvc/config/cloud_login.go` | per subscription: stored token set, generation, the shared refresh and its waiters, the open sign-in | `Token` (join, start, leave, settle a refresh), begin, commit and close a sign-in, delete, replace, configuration edits | `Credentials` |
| authentication gate | `server/authentication_gate.go` | paused calls with their routing and reply channel | pause, `ResolveAuthentication`, wake on a sign-in, single retry | `AuthenticationGate` |
| model downloads | `localruntime/manager.go`, `download_shard.go`, `state.go` | per model: record, job, files on disk | `DownloadModel`, `CancelDownload`, `DeleteModel`, `EnrollDownload`, the goroutine of a job | `ModelDownloads` |
| permission modes | `agent/permissions.go`, `hostsvc/permissions` | mode, grants on disk | decide, remember, watch the file | not modelled, see section 7 |
| runtime processes | `localruntime/llamaserver`, `runtimecontrol` | instances and their state file | start, stop, adopt | not modelled, see section 7 |
| dispatch, watchdog, task plans | `dispatch`, `watchdog`, `taskmodel` | run records, counters, a forest | | only what of dispatch crosses the worker stream |
| tool loop, runner, providers, routing | `agent/toolloop.go`, `runner`, `hostsvc`, `inference`, `managedrouting` | mostly per turn | | content of a turn, see section 7 |
| catalogs, research, web, git tools, logins, upgrade, clients | | caches, token files | | not modelled, see section 7 |

### How they interact

* A request calls `BeginTurn` on the broker, which cancels the turn before it and starts a new
  generation. Everything that comes from a turn carries its generation; the broker drops events of
  an old one, the history writer checks it before it writes.
* The handler attaches to the broker without loss, starts the runner in a goroutine (which acquires
  a worker from the pool), and forwards events to the client. When the runner returns it asks the
  broker for a barrier and forwards up to it, so the answer comes after the events; the gate then reads
  the ledger and either chains another model turn or finishes the subscription.
* The runner's goroutine sends permission prompts on the same client stream and waits at the
  permission barrier; any client answers by RPC.
* A model call asks the credential service for a token. If only a sign-in can help, it pauses at the authentication gate and
  wakes to the broadcast of a sign-in, to a client's decision (fallback or cancel), or to the end of its turn.
* Clients and a switch of the runtime start downloads, which run in goroutines of the manager; the dashboard cancels and deletes.
* Other clients attach as lossy observers of the conversation; every client has a standing event
  stream at the hub. The last stream to leave may stop the agent.
* The runner of a turn is the host's end of one grpc stream; the worker's tools ask the host over it
  for whatever the host owns (permissions, credentials, profile, ledger, local models, the store). Notes and
  requests leave the worker through one queue; the host answers most requests in goroutines and a few in its receive loop.
* A second stream per worker process, which outlives its turns, carries usage records and receipts.
* A turn starts from the assembled history: the summary and the turns after its boundary, both of which
  background passes, the retention sweep and the user change meanwhile.
* Pool and sweep meet in the operating system: a worker the host forgot to kill, or that outlived a
  crash, is found by the next host through its pidfile.

### What is hard, and what makes each part correct

* **Broker**: superseded runners publish late; attaching falls between two publishes; the drain
  goroutine forwards outside the lock while publishing, finishing and detaching go on. Correct: one
  live turn per conversation, no event of an old generation after one of a newer, the replay buffer is
  the live turn, a lossless subscriber gets every event once and in order, a barrier is a fence, the
  channel ends after finish, detach frees the goroutine.
* **Handler**: requests overlap; a turn's context ends at any step; rows of the ledger are read and
  written back whole; the gate counts turns without progress. Correct: the final answer follows the
  events, no return path leaves a runner behind, history is in order of generations, a closed run stays
  closed, the count is exact, a cancelled request ends.
* **Barrier**: an answer, a cancel and a second answer race. Correct: a call is decided by one
  answer meant for it, a call whose answer was taken or whose turn is over ends.
* **Credentials and sign-in**: callers share a refresh whose grant works once, and leave it; sign-ins, deletions and edits overlap with it;
  a paused call is woken from three sides. Correct: the newest credential wins, no grant is lost that could be kept, a decision that was
  acknowledged is the one that counts, a call waits for nothing but its user.
* **Downloads**: goroutines that have not noticed a cancel, progress ticks that write the whole record, deletes that decided before.
  Correct: one writer per file, no record left at "downloading", "downloaded" only with the files.
* **Pool**: a turn and its successor acquire and release around a spawn outside the lock, with
  the reaper and a shutdown. Correct: no worker serves two turns, is killed under a turn, forgotten or
  signalled twice; managed and unmanaged turns never share one.
* **Sweep**: hosts crash and pids come back. Correct: orphans and only orphans are killed.
* **Worker stream**: bounded queues in both directions, a loop that both receives and answers, callers that give up,
  cancel and crash at any point. Correct: what the worker says is heard in order, a turn with a result left nothing
  behind, evidence is not refused because it overtook its conversation, a turn ends.
* **Session profile**: the broker, the ledger and the announcement change in separate steps, from RPCs, tools and
  turn starts, and only the ledger survives. Correct: clients show the broker's profile, autonomous mode has a run, a turn on an open run starts fenced.
* **Accounting**: snapshots overtake each other, receipts are late, queues overflow, drains time out. Correct: a receipt means
  the record is stored, and a missing record is known to be missing.
* **Compaction**: a pass decides on what it read minutes ago, at a boundary that is a second of wall time. Correct: an assembled history
  shows every turn once, only what a summary stood for is thrown away, no request for a pass is dropped.
* **Hub and shutdown**: timers overlap, streams come while the hub closes. Correct: nothing is closed
  twice, a slow client costs the others nothing, an idle agent stops, one told to stop ends and spares
  the turn in flight.

`PROJECT.json` lists each of these hazards at its line, with the properties that watch it.

## 2. Modules and how they correspond to the code

| module | role |
|---|---|
| `EventFeed` | abstract: one log per conversation; readers see it from the start of the live turn, each event once and in order, up to a seal |
| `TurnBroker` | the broker; implements `EventFeed` (`FeedSpec`) |
| `TurnHandler` | requests of one conversation with their runners; takes the broker at the promise of `EventFeed` |
| `PermissionBarrier` | calls that wait and answers that resolve |
| `Credentials` | the credential of one subscription: calls of `Token`, refreshes, sign-ins, the authorization server |
| `AuthenticationGate` | model calls over `Credentials`: call, pause, decision, retry |
| `ModelDownloads` | the downloads of one model |
| `WorkerPool` | turns of several conversations at the pool |
| `OrphanSweep` | hosts, workers, foreign processes and pids |
| `EventHub` | event streams, idle timers, signals and the drain |
| `SessionProfile` | profile of one conversation with its ledger, callers in flight and restarts |
| `RemoteTurn` | abstract: what a turn in another process promises the host about operations, notes and its result |
| `WorkerStream` | one turn at both ends of its stream; implements `RemoteTurn` (`TurnSpec`) |
| `Accounting` | usage records of one worker from the attempt to the row |
| `ContextLedger` | abstract: turns are added, a digest of the oldest grows, bodies go only after a digest stood for them |
| `ContextCompaction` | turns, summary, passes, sweep and assembly; implements `ContextLedger` (`LedgerSpec`) |
| `TurnBroker_proofs`, `TurnHandler_proofs`, `ContextCompaction_proofs`, `Accounting_proofs` | theorems about the module each is named for |
| `Gates_proofs` | theorems about `PermissionBarrier`, `Credentials` and `AuthenticationGate` |
| `ClientCalls_proofs` | theorems about `SessionProfile` and `ModelDownloads` |
| `Workers_proofs` | theorems about `WorkerPool` and `WorkerStream`, with the refinement of `RemoteTurn` |
| `Lifecycle_proofs` | theorems about `OrphanSweep` and `EventHub`: how the agent's processes start and end |
| `MC*` | model values, scenes and symmetry for TLC; `MCGates` and `MCClientCalls` each hold two components that share no state |

What is one action follows the locks. `Broker` has one mutex and every method runs under it, so a
method is an action; what it does before or after the lock (cancel in a release, `close(done)` in a
detach) and each step of the drain goroutine are actions of their own. `Acquire` has two critical
sections with a kill or a spawn between them, so it is up to four steps; `reapIdle` and `Shutdown` remove under the
lock and kill afterwards. `Wait` and `Resolve` are split where they leave their mutex. In `TurnHandler`
a store call is a step, and a tool that reads a row and writes it back is two; those that enter and complete a run have a third, in which
the profile is switched or what they wrote is taken back. In `OrphanSweep` each
question to the operating system is a step. In `EventHub` the recheck of an idle timer and the signal it
sends are two steps, and so are the unsubscribe and the start of the timer.

In `Credentials` the actions are the sections under its two locks (join, leave, settle; begin, commit, close); a refresh goes to the
authorization server between them, is answered, and may lose the answer. In `AuthenticationGate` a decision is claimed under the lock and
replied after it, and a call that wakes leaves the table in a later step. In `ModelDownloads` a call that looks at the record and then acts
is two steps, a delete is one per file, and the goroutine has a step per call of the file system or the record.

`SessionProfile` splits `setSessionProfile` into its three steps (write the broker, read the name, announce) and each tool where it
asks the host, whose answer goes on when the worker that asked is killed. `ContextCompaction` has one action per transaction of
the store; a pass is read, advance (the model's answer, which may fail in part) and save, a sweep prunes and then collapses by the boundary it read first, and
an assembly reads turns and then the summary. `Accounting` has a step per hand-over: attempt, channel, run loop, writer, stream, host
queue, upsert, receipt, and the way back. In `WorkerStream` the sender's queue, each direction of grpc and the reader of an inference are
bounded, a goroutine's step ends where it may block, and calls are told apart by the way they are answered: in a
goroutine (`ask`), likewise but for a tool that waits with `context.Background()` (`profile`), in the drain loop (`event`, `authorize`), or as a stream of pieces (`infer`).

Data is abstract. An event is its position in the order in which the conversation accepted it,
with the generation it came from; `TurnHandler` also keeps whether it counts as work. A ledger row is its id, its state and
whether it is blocked. A stored turn is its number, its second and whether it is text, a call or a result; a summary is its boundary and the set of
turns it stands for. A usage record is an attempt's revision. A note of a worker is its number, a call of a tool is its kind. A token set is the write of the user it goes back to and the number of its grant. A download's file is
absent, partial, whole but not renamed, or in place. A worker is one process. Mutated forms of some definitions stand in front of
them, marked as such; no specification uses them. They show that each property can fail.

History variables (`log`, `wmode`, `kills`, `idle`, `late`, `orphans`, `got`, `deserted`, `lost`, `edited`, `undone`, ...) are
written and never read by a guard, and are named in the declarations; `log` is also the state the abstract feed has.

## 3. Runs

`tlc -config <cfg> <module>`. The names are those of `PROJECT.json`.

| run | question and result | instance, and why it is enough |
|---|---|---|
| `broker` | one live turn, fenced log, exact replay; nothing lost through queue, batch and channel; fences hold and end; the broker implements `EventFeed` | three scenes: 3 turns on 2 conversations (a turn, its successor, one elsewhere) with 2 events; 2 turns with a lossy subscriber; 1 turn with a lossless subscriber, a channel of 1, 3 events (one in the channel, one blocked, one queued), a barrier, a seal and a detach at any moment. What the scenes keep apart, the theorems prove for any number |
| `pool` | exclusive, modes apart, never killed under a turn, killed once, never forgotten | 3 turns of one conversation (a holder, one displaced, one acquiring), 3 workers, deaths and a shutdown at any step; conversations share nothing but the lock |
| `gates` | newest credential wins, grants are kept, decisions stand, an answer decides one call, of its conversation and id, nothing waits but for a user | eight scenes: two calls that share a refresh while a user signs in, that a set is replaced under, whose refresh fails or expires again; a paused call with two decisions, a sign-in and an edit; a call without a fallback; two paused calls and one sign-in; a sign-in that supersedes another; and 2 gated tool calls with 2 answers to either of them, under every assignment of 2 conversations and 2 ids: the same key, one id in two conversations, two ids in one. 3 tries (the code's limit), 3 refreshes |
| `gate_login` | *violated*: completing a sign-in does not invalidate its own gate (`authentication_gate.go:103`) | the scene of two paused calls and one sign-in; see below |
| `sweep` | only orphans die, and all of those the sweep can tell | 3 host runs (one that crashed, one that sweeps, one in parallel), 2 workers, a foreign process, 4 pids for the 6 of them, handed out again |
| `turn_chain` | idle count, cancelled requests end | 1 request, the code's limit of 3, all tools, any ledger at start, prompts, a client that leaves, cancels |
| `turn_overlap` | history by generation, at most one late start and no runner that outlives its handler, the answer after the events, a closed run comes back only by the call that closed it | 2 overlapping requests, an event, and a blocked run that a turn may complete, restore, or follow by a second run; or the same with 2 messages and no second run |
| `client_calls` | clients show the profile, autonomous mode has a run, turns on an open run start fenced; one writer per download, no record left at "downloading", "downloaded" has its files | 3 callers in flight at once (a tool, its successor's and a client), 3 calls, 2 rows (one closed, one new), a restart; and 3 calls about a model of 2 files (download, cancel, download again is the least for two writers; download, cancel, delete for a delete under a goroutine), one retry, any files left from before |
| `turn_stream` | the stream implements `RemoteTurn`, evidence follows its conversation, the turn ends | 2 parallel calls in three mixes that have every kind of answer, all capacities 1, so that every queue is full at times, and 5 pieces, the least with which the stream jams (see below) |
| `drain` | a receipt means stored, no silent loss | 1 attempt with 3 snapshots (two may overtake each other while a third waits), batches of 1 in a queue of 2, one retry, two streams, one fault |
| `history` | a history shows each turn once, a request for a pass is served, the ledger is implemented | 3 turns of any kind (a call, its result, a text), in 3 seconds or fewer, a delete, one command of the user, two activities at once |
| `hub` | exact streams, no channel closed twice, one signal cuts off no turn, an idle agent stops, a signalled one ends | 2 streams, one of a client that may have stopped reading, channel of 1, 2 events: one fills it and one is lost, idle timers, a self shutdown, an outside signal |

Where the code does less than a reader of its comments may expect, the property has the exception
written into it, or a hazard's note has it:

* Broker: after a detach a full channel leaves a gap (`LosslessDelivery` ends with the detach), and a lossy channel is closed by detach
  only, not by the end of the turn.
* Handler: the permission requester and the event loop can be inside `stream.Send` at once.
* Barrier: an answer between the prompt and the registration is refused and the call waits on (`TakenAnswerEndsCall` starts with the taken answer).
  Calls of a conversation that have the same id are not told apart (`agent/pending.go:28`; with Ollama they all have the empty one, `llm/ollama/stream.go:89`): a late answer to one may
  decide the next, and a superseded call's deferred delete removes its successor's registration, whose answers are then refused. Ids may be any in model, run and theorem; `OwnAnswerOnly` says
  that an answer decides one call only, and one with the conversation and the id it was given for.
* Ledger: a completed run becomes active again when `request_autonomous_exit` cannot leave autonomous mode, which the code intends, so that it can be retried
  (`capabilities/builtins/autonomous.go:273`), and also after its turn was superseded. `ClosedStaysClosed` has this as its only exception.
* Pool: `worker/reap.go:5` says that a host that shuts down cleanly kills its pooled workers; an `Acquire` in its spawn puts one into
  the pool `Shutdown` has emptied (`NoForgottenWorker` excepts it). A worker killed by `Shutdown` under its turn is signalled again by the
  turn's `Release` (`LiveTurnKeepsWorker`), and a worker that exited is a zombie, which signal 0 reaches (`Healthy`).
* Credentials: a refresh whose answer is lost, or cannot be stored, has used its grant; the user has to sign in again (`lost` in `GrantKept`).
* Authentication gate: the routing a pause compares includes the account label of every profile (`server/authentication_gate.go:106`), and a
  sign-in writes the label (`hostsvc/config/cloud_login.go:70`). A call whose user signs in with another account than before, or for the
  first time, wakes and then fails with "routing changed while paused". The comment at `authentication_gate.go:103` promises the contrary; `gate_login` shows the trace.
  A sign-in that completes after `Token` failed and before the call watches for sign-ins is missed: the call pauses although it need not (`Owed` counts the sign-ins since the pause began).
* Downloads: `storeDownload` is to be used "ONLY for mutations that do not change DownloadState" (`localruntime/manager.go:617`), but a tick of a running
  goroutine writes "downloading" over a cancel, a failure or an enrolment; the goroutine's own last transition repairs that (`OneWriter`). While a goroutine
  waits between two attempts the record says "failed": a cancel is ignored and a delete allowed, and the download goes on. A delete that
  meets a running download, or fails at a later file, can leave "downloaded" without files (`undone` in `DownloadedOnDisk`; `state.go:26` has every shard present).
  A `.part` that is whole when the agent is killed is asked for its rest at every attempt, and a server may refuse that each time.
* Sweep: a pid handed out between the identity check and the kill (`Prompt` excludes it), a dead host's file
  that names a pid now held by a live host's worker (`OnlyOrphansKilled`), a dead spawner's pid that is in use again (`OrphansReaped`). A host that
  crashes between the start of a worker and the write of its pidfile leaves one no sweep can find.
* Hub: two idle timers may both signal, and a second signal forces the exit (`TurnOutlivesStop` speaks of one signal). A departure's
  timer may find the hub deserted by a later departure, and a stream that subscribes after `closeAll` holds the drain up to its time limit (`StopEnds` assumes it).
* Profile: `server/events.go:158` has the footer chip never drift from the broker's state; it does after overlapping changes and after a restart
  (`ChipFollows`). A restore at turn start can override a plan profile set meanwhile (`TurnFenced` excepts it), and a tool killed between closing
  its run and leaving autonomous mode leaves the session there without a run (`FenceHasRun`).
* Worker stream: `worker/proxies.go:107` expects the host to drain promptly. The drain loop sends the answer to evidence and to a model
  authorization itself; if by then the worker's receive loop waits for a reader whose consumer waits for the sender, and all buffers are full, neither end
  moves until the turn is cancelled (`Jammed` in `TurnEnds`). The code's capacities make that rare. An operation of the host may be carried out after the turn
  failed, or after its caller stopped waiting (`Apply` of `RemoteTurn`).
* Accounting: a crash of the host loses the mark of incomplete coverage along with the session; `NoSilentLoss` is about sessions that end.
* Compaction: a result of a later turn than its call keeps both verbatim, so a call whose result never came blocks compaction past it. The boundary is
  a second: with no verbatim turns kept, or after the clock stepped back, a turn of the boundary's second would be neither summarised nor shown
  (`VerbatimRecent` is at least 1 and the clock of the model does not step back). `SetEnabled` says no pass will start; a timer already set still fires. `CollapseConversation`
  deletes turns added since the listing that made the conversation look old. After the user drops a summary whose turns were pruned their content is gone (`ViewExact` and `resets`), and a sweep
  that read the boundary of a summary before it was dropped still prunes by it: `Discard` of `ContextLedger` allows what a summary ever stood for. A pass whose read of the turns fails drops
  the request it came for (`compactiongen/compactiongen.go:237`); the next append makes a new one.

Bounds are constants with a comment (`MaxLog`, `MaxBarriers`, `MaxHistory`, `MaxRuns`, `MaxEvents`,
`SelfStops`, `UserSignals`, `MaxCalls`, `MaxRestarts`, `MaxFlights`, `Pieces`, `MaxTurns`, `MaxSecond`, `MaxFaults` and so on; `budget` in `Credentials` counts
down what the environment may still do, by kind). A scene fixes who takes part and what may happen, and the initial states choose one. `MaxTries`, `MaxRetries`, `NoProgressLimit` and the capacities
are the program's own limits (`turn_overlap` has `NoProgressLimit` 1: a request then chains until the first idle turn, which is enough for a superseded one to start one too many). They limit how often the environment acts and appear only in the guards of those
actions. `MayPrompt`, `MayLeave`, `MayShutdown`, `Tools` and `Prompt` switch parts of
the environment off in runs that do not need them. The idle delay has no length in `EventHub`: an idle timer sleeps
for as long as it takes. Symmetry is used over turns, workers, requests, pids and streams,
and only in runs without liveness properties. Deadlock checking is off because every
instance stops once its turns, calls or streams are used up.

## 4. Fairness

* `TurnBroker`: the drain goroutine and a detach that has begun go on (the Go scheduler runs a ready
  goroutine), and the consumer of a lossless subscription reads until it detaches, which is the handler's loop over its
  channel; nothing makes it read after that, so the drain goroutine's exit (a part of `FencesEnd`) does not rest on it.
  Nothing makes a turn publish or end, or a consumer finish or detach.
* `PermissionBarrier`: a call that prompted registers, a receive with something in the channel happens, an
  answer that arrived is looked up and sent if it can be. No client has to answer.
* `AuthenticationGate`: ready goroutines run, and a refresh ends, if by its time limit (`refreshTimeout`). Nobody has to decide, to sign
  in or to cancel: `CallsEnd` promises only what is up to the program.
* `TurnHandler`: handler and runner go on; a runner whose context is done returns, which the tool
  loop and the worker's stream do on cancellation.
* `EventHub`: ready handlers and timers run, a client that reads lets `Send` return (not so for
  `Wedged`). Whether `time.After` fires (`Backstop`) is not part of the specification: `StopEnds` has it as a premise, and
  `IdleAgentStops` holds without.
* `WorkerStream`: ready goroutines run, grpc carries what it accepted, a caller whose context is done gives up. Nobody has to
  cancel, to crash or to lose patience, and no operation of the host has to end (a permission waits for a human): that
  cancelled turns end holds without, and for the others `HostAnswers` is a premise inside `TurnEnds`.
* `SessionProfile`, `ModelDownloads`, `Accounting`, `ContextCompaction`, `WorkerPool` and `OrphanSweep` are checked for safety only; `RequestsServed` states as an invariant
  that a request for a pass is never dropped, and `OneWriter` that a record at "downloading" has a goroutine that moves it on.

## 5. Proofs

`tlapm M.tla` for each of the eight modules `*_proofs`. All theorems hold for any values of the constants that satisfy the named
assumption of the module they are about, which every run of that module evaluates.

The broker (`TurnBroker_proofs`), under `BrokerAssumption` (bounds and the capacity are naturals,
turns are distinct from `NoTurn`, lossy and lossless subscribers are distinct):

* `TypeCorrect`: `TypeOK` is inductive; the proof has a lemma for the operations on turns, one for the
  drain goroutine and one for attach, detach and the consumer.
* `OneLiveTurn`: `TurnExclusive` is inductive given `TypeOK`. Only the operations of `TurnStep` change what it
  speaks of (`OthersKeepTurns`), and at most one turn is registered per conversation because registering replaces.
* `Fenced` and `ReplayExact`: what changes the log is an accepted publish, which appends the live
  generation, and generations only grow (`LogSteps`). So the log is sorted, and its tail of the live generation is the buffer.
* `NothingLost`, `BarrierIsFence`, `FinishIsComplete`: none of the three is inductive, since an
  event may be in any of four places. `SubInv` says for each subscriber that these places form one chain: what was read, then
  the channel, then the batch, then the queue, consecutive positions up to the last event published while it was registered
  (`Continuous`, `Numbered`), with every barrier standing after the event before it (`Placed`), and that
  the flags of the subscription and the drain goroutine agree (`Wired`); after the flag of finish was taken with a
  batch, the batch ends with the last event (`Complete`). `Delivered` proves it inductive; the lemmas about chains say what appending
  to and taking from one does. The three theorems follow from it by induction over positions within the
  chain, which is done by the arithmetic of `Numbered` rather than by recursion.
* `KeepsTheFeed` (`FeedSafety`, the part of `FeedSpec` without fairness): every step is one of `EventFeed` or a stutter. A join finds the start of the live turn in
  the log because the replay is exact; a read in the open is the next event by `Numbered`, and the end of a sealed channel comes after
  the last one by `Complete`. After a detach the drain goroutine may drop part of the queue, so `SubInv` claims no chain any more: `InLogOrder` (`HandedInOrder`) says by
  three watermarks that read, channel, batch and queue still follow each other in the log, and a read is then a `Straggle`.

The worker pool (first part of `Workers_proofs`), under `PoolAssumption`: `Ownership` is the inductive invariant behind both theorems. A live
worker has exactly one owner, which is an entry of the pool, a turn between two critical sections, the reaper or the shutdown (`Unique`,
by who may hold what: `PcInv`, `EntryInv`, `HeldInv`, `VictimInv`, `ReapInv`, `CloseInv`), and what is being killed has been removed first (`KillInv`).

* `WorkerHasOneTurn` (`TurnOwnsWorker`) and `EveryWorkerIsOwned` (`NoForgottenWorker`) follow from it. They cover any number of
  conversations at once, where the run has a single one.

One turn in a worker (second part of `Workers_proofs`), under `StreamAssumption`, for any calls of any kinds, any capacities, any number of pieces, and a cancel or a crash at any
point: `StreamInv` is inductive. It looks at the sender's queue and the messages in flight to the host as one sequence, `Pipe`, to which every step adds one at the end, from
which it takes one at the front, or which it cuts (`Grows`, `Drops`, `Cuts`), and says

* what stands in the pipe and in which order (`PipeInv`): nothing follows the end of the turn, a call is requested once, its evidence follows its conversation, and notes rise
  without a gap from the last one heard;
* that what a worker nobody cancelled has said is in the pipe or heard, and is before the end of the turn (`SayInv`), which is false once a cancel has thrown the queue away;
* what the end of the runner, of the queue and of the turn have to do with each other and with the drain loop (`WorkInv`);
* how far a call has got: not yet with the host (`OpenInv`), not yet carried out and then without an answer anywhere on the way back (`AnswerInv`), answered ok only if it was
  carried out (`AppliedInv`); a call that ended before that was cancelled or impatient (`LeftInv`).

`ResultInv` puts them together at the one step that matters, the host's reading of `TurnDone`.

* `EvidenceHasChild` (`EvidenceFollowsChild`): the announcement was before the request in the pipe, and what the host takes from the front has everything before it handled.
* `TurnKeepsPromise` (`TurnSpec`): the refinement of `RemoteTurn`, whose specification has no fairness, so that the theorem is the whole of it (`TurnStep` has a case for each
  action). Most steps are stutters; `Hear` needs the order of the notes, `Return` needs `AppliedInv`, and `Finish` and a late `Apply` need `ResultInv`.

The sweep (first part of `Lifecycle_proofs`), under `SweepAssumption`: every step either lets one process be born or lets those there are only
go towards their end (`StepKinds`); so a process keeps its pid and its spawner, and a dead spawner stays dead (`Frame`).

* `OnlyOrphansDie` (`OnlyOrphansKilled`, given `Prompt`): between the identity check and the kill the pid of the file is held by workers
  only (`KillInv`), since nobody is forked then. Without `Prompt` the step from check to kill is the hole that section 1 lists.
* `NoOrphanLeft` (`OrphansReaped`, with or without `Prompt`): an orphan that was recorded when the host started is ahead of the
  sweep with its file in place until it dies, or its spawner's pid is somebody else's too (`AheadInv`).

The event hub and the end of the agent (second part of `Lifecycle_proofs`), under `HubAssumption`, for any streams, capacities, timers and signals: `HubInv` is the inductive
invariant. It ties where a handler is to what it holds, to the hub's table and to how often its channel was closed (`Handles`); what the client has, is being sent and will
still find rises, as one sequence, up to the number of events there were (`Exact`), so that the next event may be appended whatever the handler is doing.

* `StreamsAreExact` (`StreamIsExact`): `Send` and the channel only move an event along that sequence (`SeenMoves`), and of `unsubscribe` and `closeAll` whichever comes
  second finds the stream gone from the table.
* `TurnSurvivesOneSignal` (`TurnOutlivesStop`): the signals `main` has received and those waiting are at most those sent (`StopInv`), so one alone never reaches the second
  receive that exits at once; the other way out waits for the turn or for the grace. Each idle timer sends once (`FiredSteps`), which the count of signals rests on.

The turn handler (`TurnHandler_proofs`), under `HandlerAssumption`: `HandlerInv` is the inductive invariant. Any number of requests overlap and any
ledger may be there at the start. It says which turn is the live one (`Generations`) and for each request where its handler is and what its runner
may do there (`Placed`), how far it has come with its own events (`Behind`) and, while its turn is the live one, that its work monitor has noted work exactly if
one of the events it has read since the segment began is work (`Evidence`). A step judges the request that takes it; the others keep their part (`OthersKeep`), and a
turn that was superseded has nothing to answer for.

* `CountIsExact` (`CountsIdleTurns`): the count equals the idle turns in a row, which is `Evidence` at the moment the gate reads the monitor, since by then everything the
  turn published is read (`DrainedSeesWork`).
* `HistoryInOrder` (`HistoryByGeneration`), `ChainEndsWithTurn` (`OneLateStart`) and `AnswerIsLast` (`FinalAfterEvents`) are parts of it or follow at once.
* `RunStaysClosed` (`ClosedStaysClosed`, an action property) needs what a tool or the handler has read and will write back: unless its turn is over, it
  is the ledger's row and active (`Rows`), because each run of the ledger has one turn at a time that may write. The rollback of a completion may come after that, from a turn that is
  over; what it restores is the row that the same call replaced, of a run that is closed until then and that no other call can restore (`Undoable`).

The session profile (first part of `ClientCalls_proofs`), under `ProfileAssumption`, for any number of callers, runs, calls and restarts: each call holds what its
next steps rely on (`Own`): an open run when it is about to enter autonomous mode (`Holds`), the broker's profile when it is about to announce it (`Current`), what it set
when it restored (`Fenced`).

* `ChipConverges` (`ChipFollows`): where clients are behind, a call is on its way to tell them (`ChipInv`).
* `AutonomyIsFenced` (`FenceHasRun`): where autonomous mode has no run, the call that closed it is about to leave the mode (`FenceInv`); at most one run is open (`OneRun`).
* `TurnsStartFenced` (`TurnFenced`, an action property) follows from the same invariant at the step that starts the turn.

Permission prompts (in `Gates_proofs`), under `BarrierAssumption`, for any number of calls and answers and any ids, unique or not: `AnswerReachesItsCall` (`OwnAnswerOnly`).
`AnswerInv` says that a channel is registered under its call's key, that an answer which found it was given for that key, and that what lies in a channel or was taken from it was sent to that call.

Credentials and the authentication gate (in `Gates_proofs`), under `CredentialsAssumption` and `GateAssumption`: `AllInv` is inductive. `CredInv` looks at a refresh apart from its
callers: it counts them exactly (`Counted`), it is the current one and has the profile as it is stored (`CurrentOwns`), or it has settled or was superseded and those who
wait have been told (`OthersKnow`, `Valued`). `GateInv` says of a call where its pause is (`Turned`) and of a decision what became of it (`Sent`).

* `CredentialIsLatest` (`LatestCredential`) and `GrantIsKept` (`GrantKept`): a settle of a superseded refresh finds another generation and writes nothing.
* `DecisionIsFinal` (`DecisionStands`): a decision that was acknowledged is the one its call takes, whatever arrives between the reply and the call's next step.

Downloads (second part of `ClientCalls_proofs`), under `DownloadAssumption`:

* `SingleWriter` (`OneWriter`): goroutines and the table of jobs agree (`JobInv`).
* `DownloadedIsOnDisk` (`DownloadedOnDisk`): a goroutine's partial file starts from nothing (`FreshInv`), and what it has behind
  it is on the disk unless a delete took it (`FilesInv`).

Compaction (`ContextCompaction_proofs`), under `ContextAssumption`: the claim in flight belongs to the one pass that is not idle (`ClaimInv`, `OnePass`), so a
timer that finds the conversation claimed arms itself again and nobody else can take its turn (`RequestNotDropped`, `RequestsServed`).

The turns and the summary need an invariant of their own, `CompactionInv`, because a pass, a sweep and an assembly act on what they read long ago. It
speaks of every state of the table that someone still holds (`Known`) and of every summary that is stored or to be stored (`Summaries`):

* the stored turns were in such a table already, perhaps with a body that is gone since, or are younger than all of it (`Since`), and all tables agree on the second of a turn (`Agree`);
* the boundary of a summary is behind the clock (`Past`); it stands for nothing after it (`UpTo`), for every turn before it that has its body (`Full`), and no exchange is open at it (`Shut`);
* a summary about to be saved extends the stored one (`Grows`), unless the user asked for another; what a sweep will prune was summarised (`Stored`); and
  without a reset all that is missing its body is in the summary (`Kept`).

`SummarisedIs` proves of the recursion-free definition of a pass (`Eligible`, `Boundary`, `SafeFreezeCount`) what the invariant needs, as the relation `Cut` between what was
read, the old summary and the new one; `CutIsSound` carries that over to the table as it has become meanwhile. Then:

* `HistoryIsExact` (`ViewExact`): a turn is not shown twice because of `UpTo`, and none is missing because of `Since`, `Shut`, and `Full` for turns with a body or `Kept` for all of them (`ShownOnce`, `NoneMissing`).
* `KeepsTheLedger` (`LedgerSpec`): the refinement of `ContextLedger`, whose specification has no fairness, so that the theorem is the whole of it. Each action has its
  lemma: an append, a deletion, a collapse, a prune and a save are steps of the ledger, everything else stutters.

Accounting (`Accounting_proofs`), under `AccountingAssumption`, for any number of attempts, revisions, streams, retries and faults: `AccInv` is inductive. The latest snapshot of
every attempt is not yet emitted, in the channel, in the batch or stored, unless the collector has admitted a loss (`LoopInv`); a receipt's message is stored and
its mark set (`ReceiptInv`); a close without an error leaves nothing behind, and says so in its result (`CloseInv`, `OverInv`); and no snapshot is on its
way that no attempt made (`KnownInv`).

* `AckedIsStored` (`AckMeansStored`) and `NothingIsLostSilently` (`NoSilentLoss`) follow. What an upsert of many rows leaves in the table is a recursive function over the message;
  `UpsertedSteps` and `UpsertMany` prove what it does by induction in the form of a minimal counterexample over a set of naturals (`NatLessThanWellFounded`), which needs no operator parameter.

Only model-checked: liveness (the prover handles neither fairness nor `ENABLED`), which is `FencesEnd`, `CancelledRequestEnds`, `TurnEnds`, `AgentEnds`, `CallsEnd`,
`TakenAnswerEndsCall` and the fairness in `FeedSpec`.
Every invariant and every safety action property that a passing run checks is also a theorem.

## 6. Plan

The project is kept to about a dozen runs, so that all of them can be repeated in minutes; a new component gets a run of its own or a scene in one.

1. *Done*: `TurnBroker` with `EventFeed`, `WorkerPool`, `PermissionBarrier`, `OrphanSweep`, `TurnHandler`, `EventHub`; proofs about the broker.
2. *Done*: `SessionProfile`; `WorkerStream` with `RemoteTurn`; `Accounting`; `ContextCompaction` with `ContextLedger`; `Credentials` and
   `AuthenticationGate`; `ModelDownloads`.
3. *Done*: theorems about `WorkerPool`, `OrphanSweep`, `PermissionBarrier`, `ModelDownloads`, and the passes of `ContextCompaction`; then about `SessionProfile`, `Credentials`,
   `AuthenticationGate`, `Accounting` and `TurnHandler`; then the turns and summaries of `ContextCompaction` with its refinement, the steps of `FeedSpec`, `EventHub`, and
   `WorkerStream` with the refinement `TurnSpec`.
4. Candidates for further models: the broker of permission modes (its watcher and its announcements, which may overtake each other); the registry of runtime processes.

## 7. Not modelled

* The content of a turn: prompts, model calls, tool results, routing between models, what a call does on its fallback. `TurnHandler` and
  `WorkerStream` take a turn as any sequence of events, messages and calls; the other modules do not look inside.
* Of the worker stream: how `StartTurn` is assembled and read, the negotiation of the protocol and of managed turns, the queries of an inference for its
  context window, and `PermissionUpdate`, which nothing sends.
* Of accounting: malformed messages, which end the session, and queries over the tables.
* Of compaction: the text of a summary with its floor for elided turns, truncation at the hard limit and pruning to a budget, the mode that only elides,
  compaction within a turn (`loopcompact`), `Close` and the kill switch of the generator, and the error path of `GetCompaction`.
* Of credentials: `ReplaceStore`, called once at boot before anything waits; a mismatch between provider and profile, which fails before any state is touched;
  the first sign-in of a profile that does not exist yet; the OAuth flows themselves, which are one round trip with an external service.
* Of local models: the processes of llama-server, mistral.rs and Ollama with their health and adoption, since what can go wrong depends on those programs; the
  sweep of old `.part` files at boot; the observers of a record, which are told after the lock is released.
* Permission modes: the decision is a pure function of configuration and grants. A gated call in `PermissionBarrier` is one for which it says "ask".
* Dispatch, watchdog and task plans: a sub-agent's run is a turn in the host's own process with a history row; the watchdog counts calls in one goroutine;
  a plan is a tree under one lock.
* `server.go` has many unary handlers (configuration, listing, models) that read or write one field under one lock.
* Providers, routing and resilience: choice functions over configuration, with the backoff and the sticky backup of one provider as their only state.
* Catalogs, research and web tools, git tools, the enterprise client: sequential clients of external services whose
  state is a cache or a token file. Upgrade and restart depend on launchd and Homebrew.
* Command line and editor clients: they are the environment of every module.
* The platform without `ps` or `/proc` (`reap_other.go`, `spawn_other.go`).
* External behaviour that is modelled from its use: gRPC streams and `GracefulStop`/`Stop`, the operating system's
  processes and pids, the authorization server, the servers of model files, Go channels, select, mutexes and `context`.
