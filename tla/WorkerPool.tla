----------------------------- MODULE WorkerPool -----------------------------
(***************************************************************************)
(* The per-conversation pool of warm worker processes of                   *)
(* source/server/internal/worker/pool.go, with the part of RunTurn         *)
(* (worker/host.go) that acquires a worker for a turn and releases it.     *)
(*                                                                         *)
(* Turns of one conversation may overlap here: a superseded turn still has *)
(* to return while its successor acquires. A step between two lock         *)
(* sections of Acquire is an action of its own; killing and spawning run   *)
(* outside the lock.                                                       *)
(***************************************************************************)
EXTENDS Naturals

CONSTANTS
    Conv,           \* conversations
    Turn,           \* one RunTurn call each
    Worker,         \* one spawned process each (a *workerHandle)
    NoWorker,       \* no entry, no handle
    MayShutdown     \* bound: the host may shut down in this instance

ASSUME PoolAssumption ==
    /\ NoWorker \notin Worker
    /\ MayShutdown \in BOOLEAN

VARIABLES
    entry,      \* entry[c]: byConv[c].handle, NoWorker when there is no entry
    inUse,      \* inUse[c]: the entry's flag
    managed,    \* managed[c]: the mode the entry was made for
    expired,    \* expired[c]: now - lastUsed exceeds the idle window
    wstate,     \* wstate[w]: "unborn", "healthy", "exited", "unhealthy" or "killed"
    kills,      \* kills[w]: how often Kill signalled w's process group
    wmode,      \* history: wmode[w] is the mode of the turn w was spawned for
    tpc,        \* tpc[t]: where turn t is in RunTurn
    tconv,      \* tconv[t]: the turn's conversation
    tmode,      \* tmode[t]: the turn is managed
    held,       \* held[t]: the worker turn t spawned or runs on
    victim,     \* victim[t]: the worker turn t has still to kill
    reaping,    \* idle workers the reaper removed and has still to kill
    hostpc,     \* "serving", "closing" (Shutdown is killing) or "down"
    closing     \* the workers Shutdown has still to kill

poolVars == <<entry, inUse, managed, expired>>
procVars == <<wstate, kills, wmode>>
turnVars == <<tpc, tconv, tmode, held, victim>>
agentVars == <<reaping, hostpc, closing>>
allVars == <<poolVars, procVars, turnVars, agentVars>>

PoolTypeOK ==
    /\ entry \in [Conv -> Worker \cup {NoWorker}]
    /\ inUse \in [Conv -> BOOLEAN]
    /\ managed \in [Conv -> BOOLEAN]
    /\ expired \in [Conv -> BOOLEAN]
    /\ wstate \in [Worker -> {"unborn", "healthy", "exited", "unhealthy", "killed"}]
    /\ kills \in [Worker -> Nat]
    /\ wmode \in [Worker -> BOOLEAN]
    /\ tpc \in [Turn -> {"new", "evict", "spawn", "recheck", "discard",
                         "running", "drop", "done"}]
    /\ tconv \in [Turn -> Conv]
    /\ tmode \in [Turn -> BOOLEAN]
    /\ held \in [Turn -> Worker \cup {NoWorker}]
    /\ victim \in [Turn -> Worker \cup {NoWorker}]
    /\ reaping \in SUBSET Worker
    /\ hostpc \in {"serving", "closing", "down"}
    /\ closing \in SUBSET Worker

PoolInit ==
    /\ entry = [c \in Conv |-> NoWorker]
    /\ inUse = [c \in Conv |-> FALSE]
    /\ managed = [c \in Conv |-> FALSE]
    /\ expired = [c \in Conv |-> FALSE]
    /\ wstate = [w \in Worker |-> "unborn"]
    /\ kills = [w \in Worker |-> 0]
    /\ wmode = [w \in Worker |-> FALSE]
    /\ tpc = [t \in Turn |-> "new"]
    /\ tconv \in [Turn -> Conv]
    /\ tmode \in [Turn -> BOOLEAN]
    /\ held = [t \in Turn |-> NoWorker]
    /\ victim = [t \in Turn |-> NoWorker]
    /\ reaping = {}
    /\ hostpc = "serving"
    /\ closing = {}

-----------------------------------------------------------------------------
(* Kill: signal the process group. It is called again on a handle that was  *)
(* killed before whenever two owners give it up.                           *)
Kill(w) ==
    /\ wstate' = [wstate EXCEPT ![w] = "killed"]
    /\ kills' = [kills EXCEPT ![w] = @ + 1]
    /\ UNCHANGED wmode

(* workerHealthy: signal 0 reaches the process and the connection is not    *)
(* broken. An exited worker that nobody waited for is a zombie, which      *)
(* signal 0 reaches, and its connection may be merely idle: it passes.     *)
Healthy(w) == wstate[w] \in {"healthy", "exited"}

(* Mutant: reuse an entry another turn holds. *)
ReusableInUse(c, mode) == managed[c] = mode /\ Healthy(entry[c])

Reusable(c, mode) == ~inUse[c] /\ managed[c] = mode /\ Healthy(entry[c])

SetEntry(c, w, mode) ==
    /\ entry' = [entry EXCEPT ![c] = w]
    /\ inUse' = [inUse EXCEPT ![c] = TRUE]
    /\ managed' = [managed EXCEPT ![c] = mode]
    /\ expired' = [expired EXCEPT ![c] = FALSE]

DropEntry(c) ==
    /\ entry' = [entry EXCEPT ![c] = NoWorker]
    /\ UNCHANGED <<inUse, managed, expired>>

(* Acquire, first lock section: warm reuse. *)
AcquireWarm(t) ==
    LET c == tconv[t] IN
    /\ tpc[t] = "new"
    /\ entry[c] # NoWorker /\ Reusable(c, tmode[t])
    /\ inUse' = [inUse EXCEPT ![c] = TRUE]
    /\ expired' = [expired EXCEPT ![c] = FALSE]
    /\ held' = [held EXCEPT ![t] = entry[c]]
    /\ tpc' = [tpc EXCEPT ![t] = "running"]
    /\ UNCHANGED <<entry, managed, procVars, tconv, tmode, victim, agentVars>>

(* Acquire, first lock section: evict an idle entry that cannot be reused. *)
AcquireEvict(t) ==
    LET c == tconv[t] IN
    /\ tpc[t] = "new"
    /\ entry[c] # NoWorker /\ ~inUse[c] /\ ~Reusable(c, tmode[t])
    /\ DropEntry(c)
    /\ victim' = [victim EXCEPT ![t] = entry[c]]
    /\ tpc' = [tpc EXCEPT ![t] = "evict"]
    /\ UNCHANGED <<procVars, tconv, tmode, held, agentVars>>

(* stale.Kill(), outside the lock (after beforeIdleKill on a mode change). *)
AcquireKillEvicted(t) ==
    /\ tpc[t] = "evict"
    /\ Kill(victim[t])
    /\ victim' = [victim EXCEPT ![t] = NoWorker]
    /\ tpc' = [tpc EXCEPT ![t] = "spawn"]
    /\ UNCHANGED <<poolVars, tconv, tmode, held, agentVars>>

(* Acquire, first lock section: no entry, or one another turn holds. *)
AcquireMiss(t) ==
    LET c == tconv[t] IN
    /\ tpc[t] = "new"
    /\ entry[c] = NoWorker \/ inUse[c]
    /\ tpc' = [tpc EXCEPT ![t] = "spawn"]
    /\ UNCHANGED <<poolVars, procVars, tconv, tmode, held, victim, agentVars>>

(* p.spawn succeeds: the process runs and only this turn knows it. *)
Spawn(t) ==
    /\ tpc[t] = "spawn"
    /\ \E w \in Worker :
          /\ wstate[w] = "unborn"
          /\ wstate' = [wstate EXCEPT ![w] = "healthy"]
          /\ wmode' = [wmode EXCEPT ![w] = tmode[t]]
          /\ held' = [held EXCEPT ![t] = w]
    /\ tpc' = [tpc EXCEPT ![t] = "recheck"]
    /\ UNCHANGED <<poolVars, kills, tconv, tmode, victim, agentVars>>

(* p.spawn fails: binary missing, socket not ready in time, turn cancelled; *)
(* spawnWorker killed what it had started.                                 *)
SpawnFail(t) ==
    /\ tpc[t] = "spawn"
    /\ tpc' = [tpc EXCEPT ![t] = "done"]
    /\ UNCHANGED <<poolVars, procVars, tconv, tmode, held, victim, agentVars>>

(* Acquire, second lock section: a warm entry raced in; use it and discard  *)
(* the worker just spawned.                                                *)
RecheckReuse(t) ==
    LET c == tconv[t] IN
    /\ tpc[t] = "recheck"
    /\ entry[c] # NoWorker /\ Reusable(c, tmode[t])
    /\ inUse' = [inUse EXCEPT ![c] = TRUE]
    /\ expired' = [expired EXCEPT ![c] = FALSE]
    /\ victim' = [victim EXCEPT ![t] = held[t]]
    /\ held' = [held EXCEPT ![t] = entry[c]]
    /\ tpc' = [tpc EXCEPT ![t] = "discard"]
    /\ UNCHANGED <<entry, managed, procVars, tconv, tmode, agentVars>>

(* Acquire, second lock section: replace an entry that cannot be reused. A  *)
(* turn that holds it kills its own worker; an idle one is killed here.    *)
RecheckReplace(t) ==
    LET c == tconv[t] IN
    /\ tpc[t] = "recheck"
    /\ entry[c] # NoWorker /\ ~Reusable(c, tmode[t])
    /\ SetEntry(c, held[t], tmode[t])
    /\ IF inUse[c]
       THEN /\ tpc' = [tpc EXCEPT ![t] = "running"]
            /\ UNCHANGED victim
       ELSE /\ tpc' = [tpc EXCEPT ![t] = "discard"]
            /\ victim' = [victim EXCEPT ![t] = entry[c]]
    /\ UNCHANGED <<procVars, tconv, tmode, held, agentVars>>

(* Acquire, second lock section: no entry, cache the new worker. *)
RecheckInsert(t) ==
    LET c == tconv[t] IN
    /\ tpc[t] = "recheck"
    /\ entry[c] = NoWorker
    /\ SetEntry(c, held[t], tmode[t])
    /\ tpc' = [tpc EXCEPT ![t] = "running"]
    /\ UNCHANGED <<procVars, tconv, tmode, held, victim, agentVars>>

(* Kill the discarded or replaced worker, then return from Acquire. *)
AcquireDiscard(t) ==
    /\ tpc[t] = "discard"
    /\ Kill(victim[t])
    /\ victim' = [victim EXCEPT ![t] = NoWorker]
    /\ tpc' = [tpc EXCEPT ![t] = "running"]
    /\ UNCHANGED <<poolVars, tconv, tmode, held, agentVars>>

(* Release of a handle the entry still has, after a turn that ended well. *)
ReleaseWarm(t) ==
    LET c == tconv[t] IN
    /\ tpc[t] = "running" /\ entry[c] = held[t]
    /\ inUse' = [inUse EXCEPT ![c] = FALSE]
    /\ expired' = [expired EXCEPT ![c] = FALSE]
    /\ held' = [held EXCEPT ![t] = NoWorker]
    /\ tpc' = [tpc EXCEPT ![t] = "done"]
    /\ UNCHANGED <<entry, managed, procVars, tconv, tmode, victim, agentVars>>

(* Release after a crash or a cancel: evict, then kill outside the lock. *)
ReleaseUnhealthy(t) ==
    LET c == tconv[t] IN
    /\ tpc[t] = "running" /\ entry[c] = held[t]
    /\ DropEntry(c)
    /\ tpc' = [tpc EXCEPT ![t] = "drop"]
    /\ UNCHANGED <<procVars, tconv, tmode, held, victim, agentVars>>

(* Mutant: a displaced handle is not killed. *)
ReleaseDisplacedForgets(t) ==
    /\ tpc[t] = "running" /\ entry[tconv[t]] # held[t]
    /\ held' = [held EXCEPT ![t] = NoWorker]
    /\ tpc' = [tpc EXCEPT ![t] = "done"]
    /\ UNCHANGED <<poolVars, procVars, tconv, tmode, victim, agentVars>>

(* Release of a displaced handle: the entry belongs to a newer turn. *)
ReleaseDisplaced(t) ==
    /\ tpc[t] = "running" /\ entry[tconv[t]] # held[t]
    /\ tpc' = [tpc EXCEPT ![t] = "drop"]
    /\ UNCHANGED <<poolVars, procVars, tconv, tmode, held, victim, agentVars>>

ReleaseKill(t) ==
    /\ tpc[t] = "drop"
    /\ Kill(held[t])
    /\ held' = [held EXCEPT ![t] = NoWorker]
    /\ tpc' = [tpc EXCEPT ![t] = "done"]
    /\ UNCHANGED <<poolVars, tconv, tmode, victim, agentVars>>

-----------------------------------------------------------------------------
(* The idle window of an entry passes; during a long turn, too. *)
Expire(c) ==
    /\ entry[c] # NoWorker /\ ~expired[c]
    /\ expired' = [expired EXCEPT ![c] = TRUE]
    /\ UNCHANGED <<entry, inUse, managed, procVars, turnVars, agentVars>>

(* Remove the entries of C from the pool and kill the workers in K. *)
Retire(C, K) ==
    /\ hostpc # "down" /\ C # {} /\ reaping = {}
    /\ reaping' = K
    /\ entry' = [c \in Conv |-> IF c \in C THEN NoWorker ELSE entry[c]]
    /\ UNCHANGED <<inUse, managed, expired, procVars, turnVars, hostpc, closing>>

(* reapIdle: remove every idle expired entry under the lock ... *)
ReapScan ==
    LET C == {c \in Conv : entry[c] # NoWorker /\ ~inUse[c] /\ expired[c]}
    IN  Retire(C, {entry[c] : c \in C})

(* ... and kill them outside it, one after the other. *)
ReapKill(w) ==
    /\ w \in reaping
    /\ Kill(w)
    /\ reaping' = reaping \ {w}
    /\ UNCHANGED <<poolVars, turnVars, hostpc, closing>>

(* The process dies between or during turns and leaves the connection idle, *)
(* or the connection breaks.                                               *)
WorkerFails(w) ==
    /\ wstate[w] \in {"healthy", "exited"}
    /\ \E s \in {"exited", "unhealthy"} : wstate' = [wstate EXCEPT ![w] = s]
    /\ UNCHANGED <<poolVars, kills, wmode, turnVars, agentVars>>

(* Shutdown: stop the reaper and empty the map under the lock ... DrainThen-*)
(* Stop gives up after its grace, so turns may still be running.           *)
Shutdown ==
    /\ MayShutdown /\ hostpc = "serving"
    /\ hostpc' = "closing"
    /\ closing' = {entry[c] : c \in Conv} \ {NoWorker}
    /\ entry' = [c \in Conv |-> NoWorker]
    /\ UNCHANGED <<inUse, managed, expired, procVars, turnVars, reaping>>

(* ... then kill what it held. *)
ShutdownKill(w) ==
    /\ hostpc = "closing" /\ w \in closing
    /\ Kill(w)
    /\ closing' = closing \ {w}
    /\ UNCHANGED <<poolVars, turnVars, reaping, hostpc>>

ShutdownEnd ==
    /\ hostpc = "closing" /\ closing = {}
    /\ hostpc' = "down"
    /\ UNCHANGED <<poolVars, procVars, turnVars, reaping, closing>>

-----------------------------------------------------------------------------
Acquire(t) ==
    \/ AcquireWarm(t) \/ AcquireEvict(t) \/ AcquireKillEvicted(t) \/ AcquireMiss(t)
    \/ Spawn(t) \/ SpawnFail(t)
    \/ RecheckReuse(t) \/ RecheckReplace(t) \/ RecheckInsert(t) \/ AcquireDiscard(t)

Release(t) ==
    ReleaseWarm(t) \/ ReleaseUnhealthy(t) \/ ReleaseDisplaced(t) \/ ReleaseKill(t)

Reaper == ReapScan \/ \E w \in Worker : ReapKill(w)

PoolNext ==
    \/ \E t \in Turn : Acquire(t) \/ Release(t)
    \/ \E c \in Conv : Expire(c)
    \/ Reaper
    \/ \E w \in Worker : WorkerFails(w) \/ ShutdownKill(w)
    \/ Shutdown \/ ShutdownEnd

PoolSpec == PoolInit /\ [][PoolNext]_allVars

-----------------------------------------------------------------------------
Running(t) == tpc[t] \in {"running", "discard"}

(* No two turns, of any conversations, are ever given the same worker, even *)
(* while a superseded turn races its successor, and a managed turn is never *)
(* given one that served unmanaged turns or the other way round (Acquire,  *)
(* Release).                                                               *)
NoSharedWorker ==
    /\ \A t, u \in Turn : t # u /\ held[t] = held[u] => held[t] = NoWorker
    /\ \A t \in Turn : Running(t) => wmode[held[t]] = tmode[t]

(* Nobody but its own turn kills the worker a turn runs on: not the reaper, *)
(* not the Acquire of a newer turn; only a host that shuts down. And a     *)
(* process group is signalled once, since a second signal would go to      *)
(* whatever process has the pid by then (Kill waits for the process). Only  *)
(* Shutdown is not held to it: it kills the worker of a turn that still     *)
(* runs, and the turn's Release kills the handle again.                    *)
LiveTurnKeepsWorker ==
    /\ \A t \in Turn : Running(t) =>
          /\ wstate[held[t]] = "killed" => hostpc # "serving"
          /\ held[t] \notin reaping
    /\ \A w \in Worker : kills[w] <= (IF hostpc = "serving" THEN 1 ELSE 2)

(* What a turn was given stays its own until it gives it up (Acquire,       *)
(* Release, reapIdle): both of the above.                                  *)
TurnOwnsWorker == NoSharedWorker /\ LiveTurnKeepsWorker

(* A process is never forgotten: whatever is spawned and not yet killed is  *)
(* in the pool, in the hands of a turn, or about to be killed; and a pool   *)
(* entry in use has a turn that will release it, since otherwise it could   *)
(* neither be reused nor reaped.                                           *)
NoForgottenWorker ==
    /\ PoolTypeOK
    /\ \A w \in Worker : wstate[w] \in {"healthy", "exited", "unhealthy"} =>
          \/ \E c \in Conv : entry[c] = w
          \/ \E t \in Turn : w \in {held[t], victim[t]}
          \/ w \in reaping \cup closing
    /\ \A c \in Conv : entry[c] # NoWorker /\ inUse[c] =>
          \E t \in Turn : Running(t) /\ held[t] = entry[c]
=============================================================================
