----------------------------- MODULE OrphanSweep -----------------------------
(***************************************************************************)
(* Worker processes, their pidfiles and the sweep a host makes at startup: *)
(* source/server/internal/worker/spawn.go and reap.go.                     *)
(*                                                                         *)
(* Hosts start, crash and run side by side; the operating system hands out *)
(* process ids and may hand one out again when its process is gone. A      *)
(* pidfile is one per spawned worker, since its name is drawn at random,   *)
(* and holds the worker's pid and the spawner's.                           *)
(***************************************************************************)
EXTENDS Naturals

CONSTANTS
    Host,       \* runs of the server
    Worker,     \* worker processes, one per spawn
    Foreign,    \* other process groups of the user
    Pid,
    NoPid, NoHost, NoWorker,
    PidReuse,   \* the operating system may hand a pid out twice
    Prompt      \* bound: no pid is handed out while a sweep decides on a file

Proc == Host \cup Worker \cup Foreign

ASSUME SweepAssumption ==
    /\ Host \cap Worker = {} /\ Host \cap Foreign = {} /\ Worker \cap Foreign = {}
    /\ NoPid \notin Pid /\ NoHost \notin Host /\ NoWorker \notin Worker
    /\ PidReuse \in BOOLEAN /\ Prompt \in BOOLEAN

VARIABLES
    state,      \* state[x]: "unborn", "running", "zombie", "gone" or "killed" (by a sweep)
    pid,        \* pid[x]: the process id x has or had
    spawner,    \* spawner[w]: the host that spawned w
    file,       \* file[w]: "none", "present" or "removed"
    hpc,        \* hpc[h]: "sweep", "judge", "kill" or "serving"
    todo,       \* todo[h]: the pidfiles of the directory listing still to handle
    cur,        \* cur[h]: the pidfile under decision
    orphans     \* history: orphans[h] are the recorded orphans when h started

procVars == <<state, pid, spawner>>
sweepVars == <<hpc, todo, cur, orphans>>
orphanVars == <<procVars, file, sweepVars>>

SweepTypeOK ==
    /\ state \in [Proc -> {"unborn", "running", "zombie", "gone", "killed"}]
    /\ pid \in [Proc -> Pid \cup {NoPid}]
    /\ spawner \in [Worker -> Host \cup {NoHost}]
    /\ file \in [Worker -> {"none", "present", "removed"}]
    /\ hpc \in [Host -> {"sweep", "judge", "kill", "serving"}]
    /\ todo \in [Host -> SUBSET Worker]
    /\ cur \in [Host -> Worker \cup {NoWorker}]
    /\ \A h \in Host : hpc[h] \in {"judge", "kill"} => cur[h] \in todo[h]
    /\ orphans \in [Host -> SUBSET Worker]

SweepInit ==
    /\ state = [x \in Proc |-> "unborn"]
    /\ pid = [x \in Proc |-> NoPid]
    /\ spawner = [w \in Worker |-> NoHost]
    /\ file = [w \in Worker |-> "none"]
    /\ hpc = [h \in Host |-> "sweep"]
    /\ todo = [h \in Host |-> {}]
    /\ cur = [h \in Host |-> NoWorker]
    /\ orphans = [h \in Host |-> {}]

-----------------------------------------------------------------------------
(* Processes and pids *)

Holds(x, p) == state[x] \in {"running", "zombie"} /\ pid[x] = p

Running(h) == state[h] = "running"

(* syscall.Kill(pid, 0) == nil, for a pid or a process group. *)
PidAlive(p) == \E x \in Proc : Holds(x, p)

(* pgrep -f -g pgid "cercano worker": the command line of a live worker. *)
LooksLikeWorker(p) == \E w \in Worker : Holds(w, p) /\ Running(w)

(* fork: a pid that nobody holds, and that nobody ever had unless reused. *)
Fork(x) ==
    /\ state[x] = "unborn"
    /\ Prompt => \A h \in Host : Running(h) => hpc[h] \notin {"judge", "kill"}
    /\ \E p \in Pid :
          /\ ~PidAlive(p)
          /\ PidReuse \/ \A y \in Proc : pid[y] # p
          /\ pid' = [pid EXCEPT ![x] = p]
    /\ state' = [state EXCEPT ![x] = "running"]

(* A worker exits by itself; it stays a zombie while its host is there to   *)
(* wait for it.                                                            *)
WorkerExit(w) ==
    /\ state[w] = "running"
    /\ state' = [state EXCEPT ![w] = IF Running(spawner[w]) THEN "zombie" ELSE "gone"]
    /\ UNCHANGED <<pid, spawner, file, sweepVars>>

ForeignStart(f) == Fork(f) /\ UNCHANGED <<spawner, file, sweepVars>>

ForeignExit(f) ==
    /\ state[f] = "running"
    /\ state' = [state EXCEPT ![f] = "gone"]
    /\ UNCHANGED <<pid, spawner, file, sweepVars>>

(* SIGKILL or crash of a host, at any step; its zombies are reaped by init. *)
Crash(h) ==
    /\ Running(h)
    /\ state' = [x \in Proc |->
                   IF x = h \/ (x \in Worker /\ spawner[x] = h /\ state[x] = "zombie")
                   THEN "gone" ELSE state[x]]
    /\ UNCHANGED <<pid, spawner, file, sweepVars>>

-----------------------------------------------------------------------------
(* Spawning and killing *)

(* cmd.Start *)
Spawn(h, w) ==
    /\ Running(h) /\ hpc[h] = "serving"
    /\ Fork(w)
    /\ spawner' = [spawner EXCEPT ![w] = h]
    /\ UNCHANGED <<file, sweepVars>>

(* writePidFile, after cmd.Start returned. *)
WritePidFile(w) ==
    /\ state[w] # "unborn" /\ file[w] = "none" /\ Running(spawner[w])
    /\ file' = [file EXCEPT ![w] = "present"]
    /\ UNCHANGED <<procVars, sweepVars>>

(* workerHandle.Kill: signal the group and wait for the process ... *)
Kill(w) ==
    /\ state[w] \in {"running", "zombie"} /\ file[w] # "none" /\ Running(spawner[w])
    /\ state' = [state EXCEPT ![w] = "gone"]
    /\ UNCHANGED <<pid, spawner, file, sweepVars>>

(* ... then removePidFileIfOwned. *)
RemovePidFile(w) ==
    /\ state[w] = "gone" /\ file[w] = "present" /\ Running(spawner[w])
    /\ file' = [file EXCEPT ![w] = "removed"]
    /\ UNCHANGED <<procVars, sweepVars>>

-----------------------------------------------------------------------------
(* The sweep *)

Recorded == {w \in Worker : file[w] = "present"}

Orphan(w) == state[w] = "running" /\ ~Running(spawner[w])

(* A host starts and lists the pidfile directory. *)
StartHost(h) ==
    /\ Fork(h)
    /\ todo' = [todo EXCEPT ![h] = Recorded]
    /\ orphans' = [orphans EXCEPT ![h] = {w \in Recorded : Orphan(w)}]
    /\ UNCHANGED <<spawner, file, hpc, cur>>

Clean(h, w) ==
    /\ file' = [file EXCEPT ![w] = "removed"]
    /\ todo' = [todo EXCEPT ![h] = @ \ {w}]

Skip(h, w) ==
    /\ todo' = [todo EXCEPT ![h] = @ \ {w}]
    /\ UNCHANGED file

(* Mutant: no look at the spawner. *)
SpawnerIgnored(w) == FALSE /\ PidAlive(pid[spawner[w]])

SpawnerAlive(w) == PidAlive(pid[spawner[w]])

(* reapOnePidfile up to the identity check: a file that is gone is skipped, *)
(* a dead group's files are removed, a live spawner's are left alone.      *)
Inspect(h) ==
    /\ Running(h) /\ hpc[h] = "sweep"
    /\ \E w \in todo[h] :
          \/ /\ file[w] # "present"
             /\ Skip(h, w) /\ UNCHANGED <<hpc, cur>>
          \/ /\ file[w] = "present" /\ ~PidAlive(pid[w])
             /\ Clean(h, w) /\ UNCHANGED <<hpc, cur>>
          \/ /\ file[w] = "present" /\ PidAlive(pid[w]) /\ SpawnerAlive(w)
             /\ Skip(h, w) /\ UNCHANGED <<hpc, cur>>
          \/ /\ file[w] = "present" /\ PidAlive(pid[w]) /\ ~SpawnerAlive(w)
             /\ cur' = [cur EXCEPT ![h] = w]
             /\ hpc' = [hpc EXCEPT ![h] = "judge"]
             /\ UNCHANGED <<file, todo>>
    /\ UNCHANGED <<procVars, orphans>>

(* identifyGroup: only what looks like a worker goes on to be killed. *)
Judge(h) ==
    LET w == cur[h] IN
    /\ Running(h) /\ hpc[h] = "judge"
    /\ IF LooksLikeWorker(pid[w])
       THEN /\ hpc' = [hpc EXCEPT ![h] = "kill"]
            /\ UNCHANGED <<file, todo>>
       ELSE /\ hpc' = [hpc EXCEPT ![h] = "sweep"]
            /\ Clean(h, w)
    /\ UNCHANGED <<procVars, cur, orphans>>

(* killGroup: whoever holds the pid by now, then cleanupStaleFiles. *)
Reap(h) ==
    LET w == cur[h] IN
    /\ Running(h) /\ hpc[h] = "kill"
    /\ state' = [x \in Proc |-> IF Holds(x, pid[w]) THEN "killed" ELSE state[x]]
    /\ Clean(h, w)
    /\ hpc' = [hpc EXCEPT ![h] = "sweep"]
    /\ UNCHANGED <<pid, spawner, cur, orphans>>

(* Mutant: serve while the sweep is still going on. *)
ServeEarly(h) ==
    /\ Running(h) /\ hpc[h] = "sweep"
    /\ hpc' = [hpc EXCEPT ![h] = "serving"]
    /\ UNCHANGED <<procVars, file, todo, cur, orphans>>

(* The sweep is over: from here on the host spawns workers. *)
Serve(h) ==
    /\ Running(h) /\ hpc[h] = "sweep" /\ todo[h] = {}
    /\ hpc' = [hpc EXCEPT ![h] = "serving"]
    /\ UNCHANGED <<procVars, file, todo, cur, orphans>>

-----------------------------------------------------------------------------
SweepNext ==
    \/ \E h \in Host :
          \/ StartHost(h) \/ Inspect(h) \/ Judge(h) \/ Reap(h) \/ Serve(h) \/ Crash(h)
          \/ \E w \in Worker : Spawn(h, w)
    \/ \E w \in Worker : WritePidFile(w) \/ Kill(w) \/ RemovePidFile(w) \/ WorkerExit(w)
    \/ \E f \in Foreign : ForeignStart(f) \/ ForeignExit(f)

SweepSpec == SweepInit /\ [][SweepNext]_orphanVars

-----------------------------------------------------------------------------
(* "A stale pidfile whose pid the kernel handed to an innocent process must *)
(* NEVER be killed", only what is "alive AND ours AND no live spawner"      *)
(* (reap.go:14-16, 132): all a sweep kills is workers that have the pid an  *)
(* orphan was recorded under. Two exceptions are the code's: it needs       *)
(* Prompt, since between the identity check and the kill the pid can change*)
(* hands, and the worker may be a running host's that was given the pid.    *)
OnlyOrphansKilled ==
    /\ SweepTypeOK
    /\ \A x \in Proc : state[x] = "killed" =>
        /\ x \in Worker
        /\ \E v \in Worker : pid[v] = pid[x] /\ ~Running(spawner[v])

(* The sweep does its job: a host that serves has left no orphan that was   *)
(* recorded when it started, save those whose dead spawner's pid some other *)
(* process had as well: the sweep takes that process for the spawner.      *)
OrphansReaped ==
    \A h \in Host : Running(h) /\ hpc[h] = "serving" =>
        \A w \in orphans[h] :
            Orphan(w) => \E x \in Proc \ {spawner[w]} : pid[x] = pid[spawner[w]]
=============================================================================
