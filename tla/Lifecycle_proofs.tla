--------------------------- MODULE Lifecycle_proofs ---------------------------
(***************************************************************************)
(* Proofs about the start and the end of the agent's processes.            *)
(*                                                                         *)
(* OrphanSweep, for any hosts, workers, foreign processes and pids: what a *)
(* sweep kills is workers recorded under a dead host, and no orphan on the *)
(* list is left behind.                                                    *)
(*                                                                         *)
(* EventHub, for any streams, channels and signals: a stream gets its      *)
(* events in order and, unless it was full, all of them, its channel is    *)
(* closed once, and one signal cuts off no turn before the grace is over.  *)
(* The two share no state.                                                 *)
(***************************************************************************)
EXTENDS OrphanSweep, EventHub, FiniteSetTheorems, TLAPS

(***************************************************************************)
(* The sweep                                                               *)
(***************************************************************************)


(* A process has a pid from its start on, and no two that are there share   *)
(* one; hosts have no host to wait for them, so they are never zombies.    *)
ProcInv ==
    /\ \A x \in Proc : (state[x] = "unborn") <=> (pid[x] = NoPid)
    /\ \A x, y \in Proc : Holds(x, pid[x]) /\ Holds(y, pid[x]) => x = y
    /\ \A h \in Host : state[h] # "zombie"

(* A worker has a host that had started, and a pidfile only once started. *)
SpawnInv == \A w \in Worker :
    /\ state[w] # "unborn" => spawner[w] \in Host /\ state[spawner[w]] # "unborn"
    /\ file[w] # "none" => state[w] # "unborn"

(* A host sweeps from its start on, serves when it has no file left, and    *)
(* decides only on files whose spawner is gone.                            *)
SweepInv == \A h \in Host :
    /\ state[h] = "unborn" => hpc[h] = "sweep" /\ todo[h] = {} /\ orphans[h] = {}
    /\ hpc[h] = "serving" => todo[h] = {}
    /\ \A w \in todo[h] \cup orphans[h] : file[w] # "none"
    /\ hpc[h] \in {"judge", "kill"} => ~Running(spawner[cur[h]])

(* What the identity check saw still holds when the signal is sent. *)
KillInv == \A h \in Host :
    Running(h) /\ hpc[h] = "kill" =>
        \A x \in Proc : Holds(x, pid[cur[h]]) => x \in Worker

KilledInv == \A x \in Proc : state[x] = "killed" =>
    /\ x \in Worker
    /\ \E v \in Worker : pid[v] = pid[x] /\ ~Running(spawner[v])

(* An orphan that was recorded is ahead of the sweep until it is killed,    *)
(* unless its spawner's pid was given to another process.                  *)
Taken(p, s) == \E x \in Proc \ {s} : pid[x] = p

AheadInv == \A h \in Host : \A w \in orphans[h] :
    /\ ~Running(spawner[w])
    /\ Running(h) /\ Running(w) /\ ~Taken(pid[spawner[w]], spawner[w]) =>
          file[w] = "present" /\ w \in todo[h]

-----------------------------------------------------------------------------
(* What a fork does, pointwise. *)

LEMMA ForkFrame ==
  ASSUME SweepTypeOK, NEW x \in Proc, Fork(x)
  PROVE  /\ state[x] = "unborn" /\ state'[x] = "running"
         /\ pid'[x] \in Pid /\ ~PidAlive(pid'[x])
         /\ \A y \in Proc : y # x => state'[y] = state[y] /\ pid'[y] = pid[y]
         /\ state' \in [Proc -> {"unborn", "running", "zombie", "gone", "killed"}]
         /\ pid' \in [Proc -> Pid \cup {NoPid}]
         /\ Prompt => \A h \in Host : Running(h) => hpc[h] \notin {"judge", "kill"}
<1>1. PICK p \in Pid : ~PidAlive(p) /\ pid' = [pid EXCEPT ![x] = p]
  BY DEF Fork
<1>2. state[x] = "unborn" /\ state' = [state EXCEPT ![x] = "running"]
  BY DEF Fork
<1>3. Prompt => \A h \in Host : Running(h) => hpc[h] \notin {"judge", "kill"}
  BY DEF Fork
<1>4. pid'[x] = p
  BY <1>1 DEF SweepTypeOK
<1> QED
  BY <1>1, <1>2, <1>3, <1>4 DEF SweepTypeOK

-----------------------------------------------------------------------------
(* Type correctness *)

LEMMA TypeProcStep ==
  ASSUME SweepTypeOK, NEW w \in Worker, WorkerExit(w) \/ Kill(w) \/ WritePidFile(w) \/ RemovePidFile(w)
  PROVE  SweepTypeOK'
<1>1. CASE WorkerExit(w)
  BY <1>1 DEF WorkerExit, SweepTypeOK, sweepVars
<1>2. CASE Kill(w)
  BY <1>2 DEF Kill, SweepTypeOK, sweepVars
<1>3. CASE WritePidFile(w)
  BY <1>3 DEF WritePidFile, SweepTypeOK, sweepVars, procVars
<1>4. CASE RemovePidFile(w)
  BY <1>4 DEF RemovePidFile, SweepTypeOK, sweepVars, procVars
<1> QED
  BY <1>1, <1>2, <1>3, <1>4

LEMMA TypeForeignStep ==
  ASSUME SweepTypeOK, NEW f \in Foreign, ForeignStart(f) \/ ForeignExit(f) PROVE SweepTypeOK'
<1>0. f \in Proc
  BY DEF Proc
<1>1. CASE ForeignStart(f)
  BY <1>0, <1>1, ForkFrame DEF ForeignStart, SweepTypeOK, sweepVars
<1>2. CASE ForeignExit(f)
  BY <1>2 DEF ForeignExit, SweepTypeOK, sweepVars
<1> QED
  BY <1>1, <1>2

LEMMA TypeHostStep ==
  ASSUME SweepTypeOK, SweepInv, NEW h \in Host,
         StartHost(h) \/ Crash(h) \/ Serve(h) \/ \E w \in Worker : Spawn(h, w)
  PROVE  SweepTypeOK'
<1>0. h \in Proc
  BY DEF Proc
<1>1. CASE StartHost(h)
  <2>1. /\ todo' \in [Host -> SUBSET Worker] /\ orphans' \in [Host -> SUBSET Worker]
        /\ \A g \in Host : g # h => todo'[g] = todo[g]
        /\ todo'[h] = Recorded
    BY <1>1 DEF StartHost, SweepTypeOK, Recorded
  <2>2. hpc[h] = "sweep"
    BY <1>0, <1>1, ForkFrame DEF StartHost, SweepInv
  <2>3. /\ state' \in [Proc -> {"unborn", "running", "zombie", "gone", "killed"}]
        /\ pid' \in [Proc -> Pid \cup {NoPid}]
    BY <1>0, <1>1, ForkFrame DEF StartHost
  <2>4. \A g \in Host : hpc'[g] \in {"judge", "kill"} => cur'[g] \in todo'[g]
    BY <1>1, <2>1, <2>2 DEF StartHost, SweepTypeOK
  <2> QED
    BY <1>1, <2>1, <2>3, <2>4 DEF StartHost, SweepTypeOK
<1>2. CASE Crash(h)
  BY <1>2 DEF Crash, SweepTypeOK, sweepVars
<1>3. CASE Serve(h)
  BY <1>3 DEF Serve, SweepTypeOK, procVars
<1>4. ASSUME NEW w \in Worker, Spawn(h, w) PROVE SweepTypeOK'
  <2>1. w \in Proc
    BY DEF Proc
  <2> QED
    BY <1>4, <2>1, ForkFrame DEF Spawn, SweepTypeOK, sweepVars
<1> QED
  BY <1>1, <1>2, <1>3, <1>4

LEMMA TypeSweepStep ==
  ASSUME SweepTypeOK, NEW h \in Host, Inspect(h) \/ Judge(h) \/ Reap(h) PROVE SweepTypeOK'
<1>1. CASE Inspect(h)
  <2>1. PICK w \in todo[h] :
          \/ Skip(h, w) /\ UNCHANGED <<hpc, cur>>
          \/ Clean(h, w) /\ UNCHANGED <<hpc, cur>>
          \/ /\ cur' = [cur EXCEPT ![h] = w] /\ hpc' = [hpc EXCEPT ![h] = "judge"]
             /\ UNCHANGED <<file, todo>>
    BY <1>1 DEF Inspect
  <2>2. hpc[h] = "sweep" /\ UNCHANGED <<procVars, orphans>> /\ w \in Worker
    BY <1>1 DEF Inspect, SweepTypeOK
  <2>3. CASE (Skip(h, w) \/ Clean(h, w)) /\ UNCHANGED <<hpc, cur>>
    <3>1. todo' = [todo EXCEPT ![h] = @ \ {w}] /\ todo' \in [Host -> SUBSET Worker]
      BY <2>3 DEF Skip, Clean, SweepTypeOK
    <3>2. file' \in [Worker -> {"none", "present", "removed"}]
      BY <2>3 DEF Skip, Clean, SweepTypeOK
    <3>3. \A g \in Host : hpc'[g] \in {"judge", "kill"} => cur'[g] \in todo'[g]
      BY <2>2, <2>3, <3>1 DEF SweepTypeOK
    <3> QED
      BY <2>2, <2>3, <3>1, <3>2, <3>3 DEF SweepTypeOK, procVars
  <2>4. CASE /\ cur' = [cur EXCEPT ![h] = w] /\ hpc' = [hpc EXCEPT ![h] = "judge"]
             /\ UNCHANGED <<file, todo>>
    BY <2>2, <2>4 DEF SweepTypeOK, procVars
  <2> QED
    BY <2>1, <2>3, <2>4
<1>2. CASE Judge(h)
  <2>1. CASE LooksLikeWorker(pid[cur[h]])
    BY <1>2, <2>1 DEF Judge, SweepTypeOK, procVars
  <2>2. CASE ~LooksLikeWorker(pid[cur[h]])
    <3>1. PICK w : w = cur[h]
      OBVIOUS
    <3>2. /\ Clean(h, w) /\ hpc' = [hpc EXCEPT ![h] = "sweep"]
          /\ UNCHANGED <<procVars, cur, orphans>>
      BY <1>2, <2>2, <3>1 DEF Judge
    <3> QED
      BY <3>2 DEF Clean, SweepTypeOK, procVars
  <2> QED
    BY <2>1, <2>2
<1>3. CASE Reap(h)
  <2>1. PICK w : w = cur[h]
    OBVIOUS
  <2>2. /\ Clean(h, w) /\ hpc' = [hpc EXCEPT ![h] = "sweep"]
        /\ UNCHANGED <<pid, spawner, cur, orphans>>
    BY <1>3, <2>1 DEF Reap
  <2>3. state' \in [Proc -> {"unborn", "running", "zombie", "gone", "killed"}]
    BY <1>3 DEF Reap, SweepTypeOK
  <2> QED
    BY <2>2, <2>3 DEF Clean, SweepTypeOK
<1> QED
  BY <1>1, <1>2, <1>3

LEMMA TypeNext == SweepTypeOK /\ SweepInv /\ SweepNext => SweepTypeOK'
  BY TypeProcStep, TypeForeignStep, TypeHostStep, TypeSweepStep DEF SweepNext

-----------------------------------------------------------------------------
(* The two kinds of step: one process is born, or none is and those there   *)
(* are go only from running towards gone.                                  *)

Birth(x) ==
    /\ Fork(x)
    /\ file' = file /\ hpc' = hpc /\ cur' = cur
    /\ \A w \in Worker : w # x => spawner'[w] = spawner[w]
    /\ x \in Worker => \E h \in Host : Running(h) /\ spawner'[x] = h
    /\ \A g \in Host : g # x => todo'[g] = todo[g] /\ orphans'[g] = orphans[g]
    /\ x \in Host => /\ todo'[x] = Recorded
                     /\ orphans'[x] = {w \in Recorded : Orphan(w)}

Quiet ==
    /\ pid' = pid /\ spawner' = spawner /\ orphans' = orphans
    /\ \A x \in Proc :
          /\ state'[x] = "unborn" <=> state[x] = "unborn"
          /\ state'[x] \in {"running", "zombie"} => state[x] \in {"running", "zombie"}
          /\ Running(x)' => Running(x)
    /\ \A h \in Host : state'[h] = "zombie" => state[h] = "zombie"
    /\ \A w \in Worker :
          /\ file[w] # "none" => file'[w] # "none"
          /\ file'[w] # "none" => file[w] # "none" \/ state[w] # "unborn"

LEMMA QuietWorker ==
  ASSUME SweepTypeOK, NEW w \in Worker,
         WorkerExit(w) \/ Kill(w) \/ WritePidFile(w) \/ RemovePidFile(w)
  PROVE  Quiet
<1>0. w \in Proc /\ w \notin Host
  BY SweepAssumption DEF Proc
<1>1. CASE WorkerExit(w)
  BY <1>0, <1>1 DEF WorkerExit, Quiet, SweepTypeOK, sweepVars, Running
<1>2. CASE Kill(w)
  BY <1>0, <1>2 DEF Kill, Quiet, SweepTypeOK, sweepVars, Running
<1>3. CASE WritePidFile(w)
  BY <1>3 DEF WritePidFile, Quiet, SweepTypeOK, procVars, sweepVars, Running
<1>4. CASE RemovePidFile(w)
  BY <1>4 DEF RemovePidFile, Quiet, SweepTypeOK, procVars, sweepVars, Running
<1> QED
  BY <1>1, <1>2, <1>3, <1>4

LEMMA QuietForeign ==
  ASSUME SweepTypeOK, NEW f \in Foreign, ForeignExit(f) PROVE Quiet
<1>1. f \in Proc /\ f \notin Host
  BY SweepAssumption DEF Proc
<1> QED
  BY <1>1 DEF ForeignExit, Quiet, SweepTypeOK, sweepVars, Running

LEMMA QuietHost ==
  ASSUME SweepTypeOK, NEW h \in Host, Crash(h) \/ Serve(h) PROVE Quiet
<1>1. h \in Proc
  BY DEF Proc
<1>2. CASE Crash(h)
  BY <1>1, <1>2 DEF Crash, Quiet, SweepTypeOK, sweepVars, Running, Proc
<1>3. CASE Serve(h)
  BY <1>3 DEF Serve, Quiet, procVars, Running
<1> QED
  BY <1>2, <1>3

LEMMA QuietSweep ==
  ASSUME SweepTypeOK, SweepInv, NEW h \in Host, Inspect(h) \/ Judge(h) \/ Reap(h) PROVE Quiet
<1>1. ASSUME NEW w \in todo[h], Clean(h, w) \/ Skip(h, w)
      PROVE  \A v \in Worker : file'[v] # "none" <=> file[v] # "none"
  <2>1. file[w] # "none" /\ w \in Worker
    BY DEF SweepInv, SweepTypeOK
  <2> QED
    BY <1>1, <2>1 DEF Clean, Skip, SweepTypeOK
<1>2. \A v \in Worker : file'[v] # "none" <=> file[v] # "none"
  <2>1. Judge(h) \/ Reap(h) => cur[h] \in todo[h]
    BY DEF Judge, Reap, SweepTypeOK
  <2> QED
    BY <1>1, <2>1 DEF Inspect, Judge, Reap
<1>3. pid' = pid /\ spawner' = spawner /\ orphans' = orphans
  BY DEF Inspect, Judge, Reap, procVars
<1>4. CASE state' = state
  BY <1>2, <1>3, <1>4 DEF Quiet, Running
<1>5. CASE Reap(h)
  <2>1. \A x \in Proc : state'[x] = state[x] \/ (state'[x] = "killed" /\ state[x] \in {"running", "zombie"})
    BY <1>5 DEF Reap, Holds
  <2>2. \A x \in Host : x \in Proc
    BY DEF Proc
  <2> QED
    BY <1>2, <1>3, <2>1, <2>2 DEF Quiet, Running
<1> QED
  BY <1>4, <1>5 DEF Inspect, Judge, procVars

LEMMA StepKinds ==
  ASSUME SweepTypeOK, SweepInv, SweepNext PROVE Quiet \/ \E x \in Proc : Birth(x)
<1>1. Host \subseteq Proc /\ Worker \subseteq Proc /\ Foreign \subseteq Proc
  BY DEF Proc
<1>2. ASSUME NEW h \in Host, StartHost(h) PROVE \E x \in Proc : Birth(x)
  <2>1. h \notin Worker
    BY SweepAssumption
  <2> QED
    BY <1>1, <1>2, <2>1 DEF StartHost, Birth, SweepTypeOK
<1>3. ASSUME NEW h \in Host, NEW w \in Worker, Spawn(h, w) PROVE \E x \in Proc : Birth(x)
  <2>1. w \notin Host
    BY SweepAssumption
  <2> QED
    BY <1>1, <1>3, <2>1 DEF Spawn, Birth, SweepTypeOK, sweepVars
<1>4. ASSUME NEW f \in Foreign, ForeignStart(f) PROVE \E x \in Proc : Birth(x)
  <2>1. f \notin Host /\ f \notin Worker
    BY SweepAssumption
  <2> QED
    BY <1>1, <1>4, <2>1 DEF ForeignStart, Birth, sweepVars
<1> QED
  BY <1>2, <1>3, <1>4, QuietWorker, QuietForeign, QuietHost, QuietSweep DEF SweepNext

-----------------------------------------------------------------------------
(* Processes, pids and spawners *)

LEMMA ProcStep ==
  ASSUME SweepTypeOK, ProcInv, Quiet \/ \E x \in Proc : Birth(x) PROVE ProcInv'
<1>1. CASE Quiet
  <2>1. \A x \in Proc : state'[x] = "unborn" <=> pid'[x] = NoPid
    BY <1>1 DEF Quiet, ProcInv
  <2>2. \A x, y \in Proc : Holds(x, pid[x])' /\ Holds(y, pid[x])' => x = y
    BY <1>1 DEF Quiet, ProcInv, Holds
  <2> QED
    BY <1>1, <2>1, <2>2 DEF Quiet, ProcInv
<1>2. ASSUME NEW z \in Proc, Birth(z) PROVE ProcInv'
  <2>1. /\ state'[z] = "running" /\ pid'[z] \in Pid /\ ~PidAlive(pid'[z])
        /\ \A y \in Proc : y # z => state'[y] = state[y] /\ pid'[y] = pid[y]
    BY <1>2, ForkFrame DEF Birth
  <2>2. \A x \in Proc : state'[x] = "unborn" <=> pid'[x] = NoPid
    BY <2>1, SweepAssumption DEF ProcInv
  <2>3. \A y \in Proc : y # z => ~Holds(y, pid'[z])
    BY <2>1 DEF PidAlive
  <2>4. \A x, y \in Proc : Holds(x, pid[x])' /\ Holds(y, pid[x])' => x = y
    BY <2>1, <2>3 DEF ProcInv, Holds
  <2>5. \A h \in Host : state'[h] # "zombie"
    BY <2>1 DEF ProcInv, Proc
  <2> QED
    BY <2>2, <2>4, <2>5 DEF ProcInv
<1> QED
  BY <1>1, <1>2

(* Who had started stays who it was, and is never started again. *)
LEMMA Frame ==
  ASSUME SweepTypeOK, SpawnInv, Quiet \/ \E x \in Proc : Birth(x)
  PROVE  /\ \A x \in Proc : state[x] # "unborn" =>
              /\ state'[x] # "unborn" /\ pid'[x] = pid[x]
              /\ state'[x] \in {"running", "zombie"} => state[x] \in {"running", "zombie"}
              /\ Running(x)' => Running(x)
         /\ \A w \in Worker :
              /\ state[w] # "unborn" => spawner'[w] = spawner[w]
              /\ file[w] # "none" => file'[w] # "none"
<1>0. Worker \subseteq Proc
  BY DEF Proc
<1>1. CASE Quiet
  BY <1>1 DEF Quiet
<1>2. ASSUME NEW z \in Proc, Birth(z)
      PROVE  /\ \A x \in Proc : state[x] # "unborn" =>
                  state'[x] = state[x] /\ pid'[x] = pid[x]
             /\ \A w \in Worker : state[w] # "unborn" => spawner'[w] = spawner[w]
             /\ file' = file
  BY <1>0, <1>2, ForkFrame DEF Birth
<1> QED
  BY <1>1, <1>2 DEF Running

LEMMA SpawnStep ==
  ASSUME SweepTypeOK, SpawnInv, Quiet \/ \E x \in Proc : Birth(x) PROVE SpawnInv'
<1>0. Worker \subseteq Proc /\ Host \subseteq Proc
  BY DEF Proc
<1>1. ASSUME NEW w \in Worker
      PROVE  state'[w] # "unborn" => spawner'[w] \in Host /\ state'[spawner'[w]] # "unborn"
  <2>1. CASE state[w] # "unborn"
    BY <1>0, <2>1, Frame DEF SpawnInv
  <2>2. CASE state[w] = "unborn" /\ Quiet
    BY <1>0, <2>2 DEF Quiet
  <2>3. ASSUME NEW z \in Proc, Birth(z), state[w] = "unborn"
        PROVE  state'[w] # "unborn" => spawner'[w] \in Host /\ state'[spawner'[w]] # "unborn"
    <3>1. CASE z = w
      <4>1. PICK h \in Host : Running(h) /\ spawner'[w] = h
        BY <2>3, <3>1 DEF Birth
      <4>2. state'[h] # "unborn"
        BY <1>0, <4>1, Frame DEF Running
      <4> QED
        BY <4>1, <4>2
    <3>2. CASE z # w
      BY <1>0, <2>3, <3>2, ForkFrame DEF Birth
    <3> QED
      BY <3>1, <3>2
  <2> QED
    BY <2>1, <2>2, <2>3
<1>2. ASSUME NEW w \in Worker, file'[w] # "none" PROVE state'[w] # "unborn"
  <2>1. CASE file[w] # "none"
    BY <1>0, <2>1, Frame DEF SpawnInv
  <2>2. CASE Quiet
    BY <1>0, <1>2, <2>2 DEF Quiet, SpawnInv
  <2>3. CASE \E z \in Proc : Birth(z)
    BY <1>2, <2>1, <2>3 DEF Birth
  <2> QED
    BY <2>2, <2>3
<1> QED
  BY <1>1, <1>2 DEF SpawnInv

-----------------------------------------------------------------------------
(* The sweep *)

(* What a step does to the sweep of a host. *)
LEMMA SweepMoves ==
  ASSUME SweepTypeOK, SweepInv, SweepNext, NEW h \in Host
  PROVE  \/ UNCHANGED <<hpc[h], todo[h], cur[h], orphans[h]>>
         \/ Birth(h)
         \/ Inspect(h) \/ Judge(h) \/ Reap(h) \/ Serve(h)
<1>1. ASSUME NEW g \in Host, g # h, Inspect(g) \/ Judge(g) \/ Reap(g) \/ Serve(g) \/ StartHost(g)
      PROVE  UNCHANGED <<hpc[h], todo[h], cur[h], orphans[h]>>
  <2>1. \A w : Clean(g, w) \/ Skip(g, w) => todo'[h] = todo[h]
    BY <1>1 DEF Clean, Skip, SweepTypeOK
  <2>2. CASE Inspect(g)
    BY <1>1, <2>1, <2>2 DEF Inspect, SweepTypeOK
  <2>3. CASE Judge(g)
    BY <1>1, <2>1, <2>3 DEF Judge, SweepTypeOK
  <2>4. CASE Reap(g)
    BY <1>1, <2>1, <2>4 DEF Reap, SweepTypeOK
  <2>5. CASE Serve(g)
    BY <1>1, <2>5 DEF Serve, SweepTypeOK
  <2>6. CASE StartHost(g)
    BY <1>1, <2>6 DEF StartHost, SweepTypeOK
  <2> QED
    BY <1>1, <2>2, <2>3, <2>4, <2>5, <2>6
<1>2. StartHost(h) => Birth(h)
  BY SweepAssumption DEF StartHost, Birth, SweepTypeOK
<1>3. ASSUME UNCHANGED sweepVars PROVE UNCHANGED <<hpc[h], todo[h], cur[h], orphans[h]>>
  BY <1>3 DEF sweepVars
<1>4. ASSUME NEW w \in Worker,
             WritePidFile(w) \/ Kill(w) \/ RemovePidFile(w) \/ WorkerExit(w)
      PROVE  UNCHANGED sweepVars
  BY <1>4 DEF WritePidFile, Kill, RemovePidFile, WorkerExit
<1>5. ASSUME NEW f \in Foreign, ForeignStart(f) \/ ForeignExit(f) PROVE UNCHANGED sweepVars
  BY <1>5 DEF ForeignStart, ForeignExit
<1>6. ASSUME NEW g \in Host, Crash(g) \/ \E w \in Worker : Spawn(g, w) PROVE UNCHANGED sweepVars
  BY <1>6 DEF Crash, Spawn
<1> QED
  BY <1>1, <1>2, <1>3, <1>4, <1>5, <1>6 DEF SweepNext

(* A file is off the list of its sweep only after a decision on it. *)
LEMMA SweepStep ==
  ASSUME SweepTypeOK, ProcInv, SpawnInv, SweepInv, SweepNext PROVE SweepInv'
<1>0. Worker \subseteq Proc /\ Host \subseteq Proc
  BY DEF Proc
<1>1. Quiet \/ \E x \in Proc : Birth(x)
  BY StepKinds
<1>2. SUFFICES ASSUME NEW h \in Host
      PROVE  /\ state'[h] = "unborn" => hpc'[h] = "sweep" /\ todo'[h] = {} /\ orphans'[h] = {}
             /\ hpc'[h] = "serving" => todo'[h] = {}
             /\ \A w \in todo'[h] \cup orphans'[h] : file'[w] # "none"
             /\ hpc'[h] \in {"judge", "kill"} => ~Running(spawner[cur[h]])'
  BY DEF SweepInv
<1>3. todo[h] \subseteq Worker /\ orphans[h] \subseteq Worker
  BY DEF SweepTypeOK
<1>4. state'[h] = "unborn" => state[h] = "unborn"
  BY <1>0, <1>1, Frame
<1>5. \A w \in Worker : file[w] # "none" => file'[w] # "none"
  BY <1>1, Frame
<1>6. \A w \in Worker : file[w] # "none" /\ ~Running(spawner[w]) => ~Running(spawner[w])'
  BY <1>0, <1>1, Frame DEF SpawnInv
<1>7. CASE UNCHANGED <<hpc[h], todo[h], cur[h], orphans[h]>>
  <2>1. hpc'[h] \in {"judge", "kill"} => ~Running(spawner[cur[h]])'
    <3>1. SUFFICES ASSUME hpc[h] \in {"judge", "kill"} PROVE ~Running(spawner[cur[h]])'
      BY <1>7
    <3>2. PICK w : w = cur[h]
      OBVIOUS
    <3>3. w \in Worker /\ file[w] # "none" /\ ~Running(spawner[w])
      BY <1>3, <3>1, <3>2 DEF SweepTypeOK, SweepInv
    <3> QED
      BY <1>6, <1>7, <3>2, <3>3
  <2> QED
    BY <1>3, <1>4, <1>5, <1>7, <2>1 DEF SweepInv
<1>8. CASE Birth(h)
  <2>1. /\ state[h] = "unborn" /\ state'[h] = "running" /\ hpc' = hpc /\ file' = file
        /\ todo'[h] = Recorded /\ orphans'[h] \subseteq Recorded
    BY <1>0, <1>8, ForkFrame DEF Birth
  <2> QED
    BY <2>1 DEF SweepInv, Recorded
<1>9. CASE Serve(h)
  BY <1>3, <1>5, <1>9 DEF Serve, SweepInv, Running, SweepTypeOK, procVars
<1>10. CASE Inspect(h)
  <2>1. PICK w \in todo[h] :
          \/ (Skip(h, w) \/ Clean(h, w)) /\ UNCHANGED <<hpc, cur>>
          \/ /\ cur' = [cur EXCEPT ![h] = w] /\ hpc' = [hpc EXCEPT ![h] = "judge"]
             /\ ~SpawnerAlive(w) /\ UNCHANGED <<file, todo>>
    BY <1>10 DEF Inspect
  <2>2. Running(h) /\ hpc[h] = "sweep" /\ UNCHANGED <<procVars, orphans>>
    BY <1>10 DEF Inspect
  <2>3. todo'[h] \subseteq todo[h] /\ (hpc'[h] = "sweep" \/ hpc'[h] = "judge")
    BY <2>1, <2>2 DEF Skip, Clean, SweepTypeOK
  <2>4. hpc'[h] = "judge" => cur'[h] = w /\ ~SpawnerAlive(w)
    BY <2>1, <2>2 DEF SweepTypeOK
  <2>5. w \in Worker /\ spawner[w] \in Proc
    BY <1>0, <1>3 DEF SweepInv, SpawnInv
  <2>6. ~SpawnerAlive(w) => ~Running(spawner[w])
    BY <2>5 DEF SpawnerAlive, PidAlive, Holds, Running
  <2>7. hpc'[h] \in {"judge", "kill"} => ~Running(spawner[cur[h]])'
    BY <2>2, <2>3, <2>4, <2>6 DEF Running, procVars
  <2>8. state'[h] # "unborn"
    BY <2>2 DEF Running, procVars
  <2> QED
    BY <1>3, <1>5, <2>2, <2>3, <2>7, <2>8 DEF SweepInv
<1>11. CASE Judge(h)
  <2>1. PICK w : w = cur[h]
    OBVIOUS
  <2>2. /\ Running(h) /\ hpc[h] = "judge" /\ UNCHANGED <<procVars, cur, orphans>>
        /\ hpc'[h] \in {"kill", "sweep"} /\ todo'[h] \subseteq todo[h]
    BY <1>11, <2>1 DEF Judge, Clean, SweepTypeOK
  <2>3. w \in Worker /\ ~Running(spawner[w])
    BY <2>1, <2>2 DEF SweepInv, SweepTypeOK
  <2>4. ~Running(spawner[cur[h]])'
    BY <2>1, <2>2, <2>3 DEF Running, procVars
  <2>5. state'[h] # "unborn"
    BY <2>2 DEF Running, procVars
  <2> QED
    BY <1>3, <1>5, <2>2, <2>4, <2>5 DEF SweepInv
<1>12. CASE Reap(h)
  <2>1. /\ Running(h) /\ UNCHANGED orphans
        /\ hpc'[h] = "sweep" /\ todo'[h] \subseteq todo[h]
    BY <1>12 DEF Reap, Clean, SweepTypeOK
  <2>2. state'[h] # "unborn"
    BY <1>4, <2>1 DEF Running
  <2> QED
    BY <1>3, <1>5, <2>1, <2>2 DEF SweepInv
<1> QED
  BY <1>7, <1>8, <1>9, <1>10, <1>11, <1>12, SweepMoves

LEMMA KillStep ==
  ASSUME SweepTypeOK, ProcInv, SpawnInv, SweepInv, KillInv, SweepNext, Prompt PROVE KillInv'
<1>0. Worker \subseteq Proc /\ Host \subseteq Proc
  BY DEF Proc
<1>1. SUFFICES ASSUME NEW h \in Host, Running(h)', hpc'[h] = "kill",
                      NEW x \in Proc, Holds(x, pid[cur[h]])'
               PROVE  x \in Worker
  BY DEF KillInv
<1>2. CASE \E z \in Proc : Birth(z)
  <2>1. PICK z \in Proc : Birth(z)
    BY <1>2
  <2>2. hpc[h] = "kill" /\ state[z] = "unborn" /\ (z # h => Running(h))
    BY <1>0, <1>1, <2>1, ForkFrame DEF Birth, Running
  <2>3. z # h
    BY <2>2 DEF SweepInv
  <2> QED
    BY <2>1, <2>2, <2>3, ForkFrame DEF Birth
<1>3. CASE Quiet /\ UNCHANGED <<hpc[h], cur[h]>>
  <2>1. PICK w : w = cur[h]
    OBVIOUS
  <2>2. Running(h) /\ hpc[h] = "kill" /\ pid' = pid /\ cur'[h] = w
    BY <1>0, <1>1, <1>3, <2>1 DEF Quiet
  <2>3. state'[x] \in {"running", "zombie"} /\ pid[x] = pid[w]
    BY <1>1, <2>2 DEF Holds
  <2>4. Holds(x, pid[w])
    BY <1>3, <2>3 DEF Quiet, Holds
  <2> QED
    BY <2>1, <2>2, <2>4 DEF KillInv
<1>4. CASE Judge(h)
  <2>1. PICK w : w = cur[h]
    OBVIOUS
  <2>2. LooksLikeWorker(pid[w]) /\ UNCHANGED <<procVars, cur>>
    BY <1>1, <1>4, <2>1 DEF Judge, SweepTypeOK
  <2>3. PICK v \in Worker : Holds(v, pid[w])
    BY <2>2 DEF LooksLikeWorker
  <2>4. Holds(x, pid[w])
    BY <1>1, <2>1, <2>2 DEF Holds, procVars
  <2> QED
    BY <1>0, <2>3, <2>4 DEF ProcInv, Holds
<1>5. CASE Inspect(h) \/ Reap(h) \/ Serve(h)
  BY <1>1, <1>5 DEF Inspect, Reap, Serve, SweepTypeOK
<1> QED
  BY <1>0, <1>2, <1>3, <1>4, <1>5, StepKinds, SweepMoves

LEMMA OnlyReapKills ==
  ASSUME SweepTypeOK, SweepNext, NEW x \in Proc, state[x] # "killed", state'[x] = "killed"
  PROVE  \E h \in Host : Reap(h)
<1>1. ASSUME NEW y \in Proc, Fork(y) PROVE FALSE
  BY <1>1, ForkFrame
<1>2. Host \subseteq Proc /\ Worker \subseteq Proc /\ Foreign \subseteq Proc
  BY DEF Proc
<1>3. ASSUME NEW w \in Worker, WorkerExit(w) \/ Kill(w) \/ WritePidFile(w) \/ RemovePidFile(w)
      PROVE  FALSE
  BY <1>2, <1>3 DEF WorkerExit, Kill, WritePidFile, RemovePidFile, procVars, SweepTypeOK
<1>4. ASSUME NEW f \in Foreign, ForeignStart(f) \/ ForeignExit(f) PROVE FALSE
  BY <1>1, <1>2, <1>4 DEF ForeignStart, ForeignExit, SweepTypeOK
<1>5. ASSUME NEW h \in Host, StartHost(h) \/ \E w \in Worker : Spawn(h, w) PROVE FALSE
  BY <1>1, <1>2, <1>5 DEF StartHost, Spawn
<1>6. ASSUME NEW h \in Host, Crash(h) \/ Inspect(h) \/ Judge(h) \/ Serve(h) PROVE FALSE
  BY <1>6 DEF Crash, Inspect, Judge, Serve, procVars
<1> QED
  BY <1>3, <1>4, <1>5, <1>6 DEF SweepNext

LEMMA KilledStep ==
  ASSUME SweepTypeOK, ProcInv, SpawnInv, SweepInv, KillInv, KilledInv, SweepNext PROVE KilledInv'
<1>0. Worker \subseteq Proc /\ Host \subseteq Proc
  BY DEF Proc
<1>1. Quiet \/ \E x \in Proc : Birth(x)
  BY StepKinds
<1>2. SUFFICES ASSUME NEW x \in Proc, state'[x] = "killed"
               PROVE  x \in Worker /\ \E v \in Worker : (pid[v] = pid[x] /\ ~Running(spawner[v]))'
  BY DEF KilledInv
<1>3. ASSUME NEW v \in Worker, pid[v] = pid[x], ~Running(spawner[v]), state[x] # "unborn"
      PROVE  (pid[v] = pid[x] /\ ~Running(spawner[v]))'
  <2>1. state[v] # "unborn"
    BY <1>0, <1>3 DEF ProcInv
  <2>2. spawner[v] \in Host /\ state[spawner[v]] # "unborn"
    BY <2>1 DEF SpawnInv
  <2> QED
    BY <1>0, <1>1, <1>3, <2>1, <2>2, Frame
<1>4. CASE state[x] = "killed"
  BY <1>3, <1>4 DEF KilledInv
<1>5. CASE state[x] # "killed"
  <2>1. PICK h \in Host : Reap(h)
    BY <1>2, <1>5, OnlyReapKills
  <2>2. PICK w : w = cur[h]
    OBVIOUS
  <2>3. w \in Worker /\ ~Running(spawner[w]) /\ Holds(x, pid[w]) /\ Running(h) /\ hpc[h] = "kill"
    BY <1>2, <1>5, <2>1, <2>2 DEF Reap, SweepTypeOK, SweepInv
  <2>4. x \in Worker
    BY <2>2, <2>3 DEF KillInv
  <2> QED
    BY <1>3, <2>3, <2>4 DEF Holds
<1> QED
  BY <1>4, <1>5

-----------------------------------------------------------------------------
(* Orphans on the list *)

(* A sweep passes an orphan by only when it takes another process for the   *)
(* spawner; otherwise it keeps its file or kills it.                       *)
LEMMA NotPassedBy ==
  ASSUME SweepTypeOK, ProcInv, SpawnInv, SweepInv, NEW g \in Host, Inspect(g) \/ Judge(g) \/ Reap(g),
         NEW w \in Worker, file[w] = "present", Running(w), Running(w)',
         ~Running(spawner[w]), ~Taken(pid[spawner[w]], spawner[w])
  PROVE  file'[w] = "present" /\ (w \in todo[g] => w \in todo'[g])
<1>0. w \in Proc /\ spawner[w] \in Proc /\ Holds(w, pid[w]) /\ state[spawner[w]] # "zombie"
  BY DEF Proc, SpawnInv, ProcInv, Holds, Running
<1>1. PidAlive(pid[w]) /\ LooksLikeWorker(pid[w])
  BY <1>0 DEF PidAlive, LooksLikeWorker
<1>2. ~SpawnerAlive(w)
  BY <1>0 DEF SpawnerAlive, PidAlive, Holds, Running, Taken
<1>3. ASSUME NEW v, v # w, Clean(g, v) \/ Skip(g, v)
      PROVE  file'[w] = "present" /\ (w \in todo[g] => w \in todo'[g])
  BY <1>3 DEF Clean, Skip, SweepTypeOK
<1>4. CASE Inspect(g)
  BY <1>1, <1>2, <1>3, <1>4 DEF Inspect
<1>5. CASE Judge(g)
  BY <1>1, <1>3, <1>5 DEF Judge
<1>6. CASE Reap(g)
  <2>1. cur[g] # w
    BY <1>0, <1>6 DEF Reap, Running
  <2> QED
    BY <1>3, <1>6, <2>1 DEF Reap
<1> QED
  BY <1>4, <1>5, <1>6

LEMMA FileKept ==
  ASSUME SweepTypeOK, ProcInv, SpawnInv, SweepInv, SweepNext,
         NEW w \in Worker, file[w] = "present", Running(w), Running(w)',
         ~Running(spawner[w]), ~Taken(pid[spawner[w]], spawner[w])
  PROVE  file'[w] = "present"
<1>1. ASSUME NEW v \in Worker, WorkerExit(v) \/ Kill(v) \/ WritePidFile(v) \/ RemovePidFile(v)
      PROVE  file'[w] = "present"
  BY <1>1 DEF WorkerExit, Kill, WritePidFile, RemovePidFile, SweepTypeOK, Running
<1>2. ASSUME NEW f \in Foreign, ForeignStart(f) \/ ForeignExit(f) PROVE file' = file
  BY <1>2 DEF ForeignStart, ForeignExit
<1>3. ASSUME NEW h \in Host,
             StartHost(h) \/ Crash(h) \/ Serve(h) \/ \E v \in Worker : Spawn(h, v)
      PROVE  file' = file
  BY <1>3 DEF StartHost, Crash, Serve, Spawn
<1> QED
  BY <1>1, <1>2, <1>3, NotPassedBy DEF SweepNext

LEMMA AheadStep ==
  ASSUME SweepTypeOK, ProcInv, SpawnInv, SweepInv, AheadInv, SweepNext PROVE AheadInv'
<1>0. Worker \subseteq Proc /\ Host \subseteq Proc
  BY DEF Proc
<1>1. Quiet \/ \E x \in Proc : Birth(x)
  BY StepKinds
<1>2. SUFFICES ASSUME NEW h \in Host, NEW w \in orphans'[h]
      PROVE  /\ ~Running(spawner[w])'
             /\ Running(h)' /\ Running(w)' /\ ~Taken(pid[spawner[w]], spawner[w])' =>
                   file'[w] = "present" /\ w \in todo'[h]
  BY DEF AheadInv
<1>3. ASSUME NEW v \in Worker, file[v] # "none", ~Running(spawner[v])
      PROVE  ~Running(spawner[v])'
  <2>1. /\ state[v] # "unborn" /\ spawner[v] \in Proc /\ state[spawner[v]] # "unborn"
    BY <1>0, <1>3 DEF SpawnInv
  <2> QED
    BY <1>1, <1>3, <2>1, Frame
<1>4. CASE Birth(h)
  <2>1. w \in Recorded /\ Orphan(w) /\ todo'[h] = Recorded /\ file' = file
    BY <1>4 DEF Birth
  <2> QED
    BY <1>3, <2>1 DEF Recorded, Orphan
<1>5. CASE ~Birth(h)
  <2>1. orphans'[h] = orphans[h]
    BY <1>5, SweepMoves DEF Inspect, Judge, Reap, Serve
  <2>2. w \in orphans[h] /\ w \in Worker /\ file[w] # "none" /\ ~Running(spawner[w])
    BY <2>1 DEF SweepTypeOK, SweepInv, AheadInv
  <2>3. /\ state[w] # "unborn" /\ state[h] # "unborn"
        /\ spawner[w] \in Proc /\ state[spawner[w]] # "unborn"
    BY <1>0, <2>2 DEF SpawnInv, SweepInv
  <2>4. SUFFICES ASSUME Running(h)', Running(w)', ~Taken(pid[spawner[w]], spawner[w])'
                 PROVE  file'[w] = "present" /\ w \in todo'[h]
    BY <1>3, <2>2
  <2>5. Running(h) /\ Running(w)
    BY <1>0, <1>1, <2>2, <2>3, <2>4, Frame
  <2>6. spawner'[w] = spawner[w] /\ pid'[spawner[w]] = pid[spawner[w]] /\ pid[spawner[w]] # NoPid
    BY <1>1, <2>2, <2>3, Frame DEF ProcInv
  <2>7. ~Taken(pid[spawner[w]], spawner[w])
    <3>1. SUFFICES ASSUME NEW x \in Proc, x # spawner[w], pid[x] = pid[spawner[w]] PROVE FALSE
      BY DEF Taken
    <3>2. state[x] # "unborn"
      BY <2>6, <3>1 DEF ProcInv
    <3>3. pid'[x] = pid[x]
      BY <1>1, <3>2, Frame
    <3> QED
      BY <2>4, <2>6, <3>1, <3>3 DEF Taken
  <2>8. file[w] = "present" /\ w \in todo[h]
    BY <2>2, <2>5, <2>7 DEF AheadInv
  <2>9. file'[w] = "present"
    BY <2>2, <2>4, <2>5, <2>7, <2>8, FileKept
  <2>10. w \in todo'[h]
    <3>1. CASE Inspect(h) \/ Judge(h) \/ Reap(h)
      BY <2>2, <2>4, <2>5, <2>7, <2>8, <3>1, NotPassedBy
    <3>2. CASE Serve(h)
      BY <2>8, <3>2 DEF Serve
    <3> QED
      BY <1>5, <2>8, <3>1, <3>2, SweepMoves
  <2> QED
    BY <2>9, <2>10
<1> QED
  BY <1>4, <1>5

-----------------------------------------------------------------------------
(* The theorems *)

SafeInv == SweepTypeOK /\ ProcInv /\ SpawnInv /\ SweepInv /\ AheadInv

LEMMA InitInv == SweepInit => SafeInv /\ KillInv /\ KilledInv
<1> SUFFICES ASSUME SweepInit PROVE SafeInv /\ KillInv /\ KilledInv
  OBVIOUS
<1>1. SweepTypeOK
  BY DEF SweepInit, SweepTypeOK
<1>2. Worker \subseteq Proc /\ Host \subseteq Proc
  BY DEF Proc
<1>3. ProcInv
  BY <1>2 DEF SweepInit, ProcInv, Holds
<1>4. SpawnInv
  BY <1>2 DEF SweepInit, SpawnInv
<1>5. SweepInv /\ AheadInv /\ KillInv /\ KilledInv
  BY <1>2 DEF SweepInit, SweepInv, AheadInv, KillInv, KilledInv, Running
<1> QED
  BY <1>1, <1>3, <1>4, <1>5 DEF SafeInv

LEMMA Safety == SweepSpec => []SafeInv
<1>1. SafeInv /\ SweepNext => SafeInv'
  BY TypeNext, StepKinds, ProcStep, SpawnStep, SweepStep, AheadStep DEF SafeInv
<1>2. SafeInv /\ UNCHANGED orphanVars => SafeInv'
  BY DEF SafeInv, SweepTypeOK, ProcInv, SpawnInv, SweepInv, AheadInv, Holds, Running, Taken,
         orphanVars, procVars, sweepVars
<1> QED
  BY InitInv, <1>1, <1>2, PTL DEF SweepSpec

(* OrphansReaped: a host that serves has left no orphan that was recorded   *)
(* when it started, save those whose spawner's pid another process had too, *)
(* whatever the other hosts' sweeps, crashes and reused pids do.           *)
THEOREM NoOrphanLeft == SweepSpec => []OrphansReaped
<1>1. SafeInv => OrphansReaped
  BY DEF SafeInv, OrphansReaped, AheadInv, SweepInv, Orphan, Running, Taken
<1> QED
  BY Safety, <1>1, PTL

(* OnlyOrphansKilled: while no pid changes hands during a decision (Prompt),*)
(* all a sweep kills is workers under the pid of a worker whose host is gone.*)
THEOREM OnlyOrphansDie == ASSUME Prompt PROVE SweepSpec => []OnlyOrphansKilled
<1>1. SafeInv /\ KillInv /\ KilledInv /\ SweepNext => (KillInv /\ KilledInv)'
  BY KillStep, KilledStep DEF SafeInv
<1>2. KillInv /\ KilledInv /\ UNCHANGED orphanVars => (KillInv /\ KilledInv)'
  BY DEF KillInv, KilledInv, Holds, Running, orphanVars, procVars, sweepVars
<1>3. SafeInv /\ KilledInv => OnlyOrphansKilled
  BY DEF SafeInv, KilledInv, OnlyOrphansKilled
<1> QED
  BY InitInv, Safety, <1>1, <1>2, <1>3, PTL DEF SweepSpec

-----------------------------------------------------------------------------
(***************************************************************************)
(* The event hub and the end of the agent                                  *)
(***************************************************************************)

\* Where the handler of s is, what it holds and what the hub has of it.
Handles(s) ==
    /\ call[s] = "sending" <=> hold[s] # 0
    /\ call[s] \in {"none", "called", "emptied", "ended"} => s \notin subs
    /\ call[s] \in {"none", "called"} => due[s] = 0
    /\ call[s] # "ended" => timer[s] = "off"
    /\ closes[s] = IF s \in subs \/ call[s] \in {"none", "called"} THEN 0 ELSE 1

\* What the client of s sees goes up to the last event there was.
Exact(s) ==
    /\ InOrder(Seen(s))
    /\ \A i \in 1..Len(Seen(s)) : Seen(s)[i] <= due[s]
    /\ s \in Listening /\ ~missed[s] => Len(Seen(s)) = due[s]
    /\ call[s] \in {"none", "called"} => Len(Seen(s)) = 0

\* Signals that main has received.
Received == IF proc = "up" THEN 0 ELSE IF proc = "killed" THEN 2 ELSE 1
Fired == {s \in Stream : timer[s] = "fired"}

\* A signal is received once; what drained has no turn, and what did not waited.
StopInv ==
    /\ signals + Received <= Signalled
    /\ proc = "hard" => expired
    /\ proc \in {"stopped", "exited"} => turn # "running" \/ expired

HubInv ==
    /\ TypeOK
    /\ \A s \in Stream : Handles(s) /\ Exact(s)
    /\ StopInv

-----------------------------------------------------------------------------
(* Sequences *)

LEMMA SeenMoves ==
  ASSUME NEW g \in Seq(Nat), NEW q \in Seq(Nat), NEW x \in Nat
  PROVE  /\ g \o <<x>> \o q = Append(g, x) \o << >> \o q
         /\ g \o << >> \o Append(q, x) = Append(g \o << >> \o q, x)
         /\ \A h \in Nat : g \o <<h>> \o Append(q, x) = Append(g \o <<h>> \o q, x)
         /\ q # << >> => g \o << >> \o q = g \o <<Head(q)>> \o Tail(q)
<1>1. g \o <<x>> \o q = Append(g, x) \o << >> \o q
  <2>1. g \o <<x>> = Append(g, x) /\ Append(g, x) \in Seq(Nat)
    BY SMTT(30)
  <2>2. \A p \in Seq(Nat) : p \o << >> = p
    OBVIOUS
  <2> QED BY <2>1, <2>2
<1>2. g \o << >> \o Append(q, x) = Append(g \o << >> \o q, x)
  OBVIOUS
<1>3. \A h \in Nat : g \o <<h>> \o Append(q, x) = Append(g \o <<h>> \o q, x)
  BY SMTT(30)
<1>4. q # << >> => g \o << >> \o q = g \o <<Head(q)>> \o Tail(q)
  BY SMTT(30)
<1> QED BY <1>1, <1>2, <1>3, <1>4

LEMMA OrderAppend ==
  ASSUME NEW q \in Seq(Nat), NEW x \in Nat, InOrder(q), \A i \in 1..Len(q) : q[i] < x
  PROVE  InOrder(Append(q, x)) /\ \A i \in 1..Len(Append(q, x)) : Append(q, x)[i] <= x
<1> DEFINE r == Append(q, x)
<1>1. /\ Len(r) = Len(q) + 1 /\ Len(q) \in Nat /\ r[Len(q) + 1] = x
      /\ \A i \in 1..Len(q) : r[i] = q[i] /\ q[i] \in Nat
  OBVIOUS
<1> HIDE DEF r
<1>2. ASSUME NEW i \in 1..Len(r), NEW j \in 1..Len(r), i < j PROVE r[i] < r[j]
  <2>1. i \in 1..Len(q) /\ (j \in 1..Len(q) \/ j = Len(q) + 1)
    <3>1. Len(r) = Len(q) + 1 /\ Len(q) \in Nat
      BY <1>1
    <3> QED BY <1>2, <3>1
  <2>2. CASE j \in 1..Len(q)
    <3>1. q[i] < q[j]
      BY <1>2, <2>1, <2>2 DEF InOrder
    <3> QED BY <1>1, <2>1, <2>2, <3>1
  <2>3. CASE j = Len(q) + 1
    BY <1>1, <2>1, <2>3
  <2> QED BY <2>1, <2>2, <2>3
<1>3. ASSUME NEW i \in 1..Len(r) PROVE r[i] <= x
  <2>1. CASE i \in 1..Len(q)
    BY <1>1, <2>1
  <2>2. CASE i = Len(q) + 1
    BY <1>1, <2>2
  <2> QED BY <1>1, <2>1, <2>2
<1> QED BY <1>2, <1>3 DEF InOrder, r

\* What the parts of a stream's state are.
LEMMA StreamTypes ==
  ASSUME TypeOK, NEW s \in Stream
  PROVE  /\ queue[s] \in Seq(1..MaxEvents) /\ got[s] \in Seq(1..MaxEvents)
         /\ queue[s] \in Seq(Nat) /\ got[s] \in Seq(Nat)
         /\ hold[s] \in 0..MaxEvents /\ due[s] \in 0..MaxEvents
         /\ hold[s] \in Nat /\ due[s] \in Nat /\ closes[s] \in Nat
         /\ Seen(s) \in Seq(Nat)
<1>1. /\ queue[s] \in Seq(1..MaxEvents) /\ got[s] \in Seq(1..MaxEvents)
      /\ hold[s] \in 0..MaxEvents /\ due[s] \in 0..MaxEvents /\ closes[s] \in Nat
  BY DEF TypeOK
<1>2. \A q \in Seq(1..MaxEvents) : q \in Seq(Nat)
  <2> DEFINE S == 1..MaxEvents
  <2>1. S \subseteq Nat
    BY HubAssumption
  <2> HIDE DEF S
  <2>2. ASSUME NEW q \in Seq(S) PROVE q \in Seq(Nat)
    <3>1. Len(q) \in Nat /\ q \in [1..Len(q) -> S]
      OBVIOUS
    <3>2. q \in [1..Len(q) -> Nat]
      BY <2>1, <3>1
    <3> QED BY <3>1, <3>2
  <2> QED BY <2>2 DEF S
<1>3. 0..MaxEvents \subseteq Nat
  BY HubAssumption
<1>4. queue[s] \in Seq(Nat) /\ got[s] \in Seq(Nat) /\ hold[s] \in Nat /\ due[s] \in Nat
  BY <1>1, <1>2, <1>3
<1>5. (IF hold[s] > 0 THEN <<hold[s]>> ELSE << >>) \in Seq(Nat)
  BY <1>4
<1>6. Seen(s) \in Seq(Nat)
  BY <1>4, <1>5 DEF Seen
<1> QED BY <1>1, <1>4, <1>6

LEMMA HeadIsEvent ==
  ASSUME TypeOK, NEW s \in Stream, queue[s] # << >>
  PROVE  Head(queue[s]) \in 1..MaxEvents
<1> DEFINE S == 1..MaxEvents
<1>1. queue[s] \in Seq(S)
  BY StreamTypes
<1> HIDE DEF S
<1>2. Head(queue[s]) \in S
  BY <1>1
<1> QED BY <1>2 DEF S

-----------------------------------------------------------------------------
(* Types *)

LEMMA TypeStep ==
  ASSUME HubInv, Next
  PROVE  TypeOK'
<1> USE HubAssumption DEF TypeOK, hubVars, callVars, timerVars, stopVars
<1>0. TypeOK
  BY DEF HubInv
<1>1. ASSUME NEW s \in Stream,
             Call(s) \/ Subscribe(s) \/ Disconnect(s) \/ OnEmpty(s) \/ Recheck(s) \/ IdleSignal(s)
      PROVE  TypeOK'
  <2>1. CASE Call(s) \/ Subscribe(s)
    BY <1>0, <2>1 DEF Call, Subscribe
  <2>2. CASE Disconnect(s) \/ OnEmpty(s)
    BY <1>0, <2>2 DEF Disconnect, OnEmpty
  <2>3. CASE Recheck(s)
    BY <1>0, <2>3 DEF Recheck
  <2>4. CASE IdleSignal(s)
    BY <1>0, <2>4 DEF IdleSignal, Deliver
  <2> QED BY <1>1, <2>1, <2>2, <2>3, <2>4
<1>2. ASSUME NEW s \in Stream, Take(s) PROVE TypeOK'
  <2>1. /\ Head(queue[s]) \in 1..MaxEvents /\ Tail(queue[s]) \in Seq(1..MaxEvents)
        /\ Len(Tail(queue[s])) <= Cap
    BY <1>0, <1>2 DEF Take
  <2>2. hold' \in [Stream -> 0..MaxEvents] /\ queue' \in [Stream -> Seq(1..MaxEvents)]
    BY <1>0, <1>2, <2>1, SMTT(30) DEF Take
  <2>3. \A r \in Stream : Len(queue'[r]) <= Cap
    BY <1>0, <1>2, <2>1 DEF Take
  <2> QED BY <1>0, <1>2, <2>2, <2>3 DEF Take
<1>3. ASSUME NEW s \in Stream, Sent(s) PROVE TypeOK'
  <2>1. hold[s] \in 1..MaxEvents
    BY <1>0, <1>3 DEF Sent, HubInv, Handles
  <2>2. got' \in [Stream -> Seq(1..MaxEvents)] /\ hold' \in [Stream -> 0..MaxEvents]
    BY <1>0, <1>3, <2>1 DEF Sent
  <2> QED BY <1>0, <1>3, <2>2 DEF Sent
<1>4. ASSUME NEW s \in Stream, Leave(s) PROVE TypeOK'
  <2>1. << >> \in Seq(1..MaxEvents) /\ Len(<< >>) <= Cap /\ 0 \in 0..MaxEvents
    OBVIOUS
  <2>2. /\ got' \in [Stream -> Seq(1..MaxEvents)] /\ queue' \in [Stream -> Seq(1..MaxEvents)]
        /\ hold' \in [Stream -> 0..MaxEvents] /\ due' \in [Stream -> 0..MaxEvents]
    BY <1>0, <1>4, <2>1 DEF Leave
  <2>3. \A r \in Stream : Len(queue'[r]) <= Cap
    BY <1>0, <1>4, <2>1 DEF Leave
  <2> QED BY <1>0, <1>4, <2>2, <2>3 DEF Leave
<1>5. ASSUME NEW s \in Stream, Unsubscribe(s) PROVE TypeOK'
  <2>1. closes' \in [Stream -> Nat]
    <3>1. closes \in [Stream -> Nat]
      BY <1>0
    <3>2. closes' = closes \/ closes' = [closes EXCEPT ![s] = @ + 1]
      BY <1>5 DEF Unsubscribe
    <3> QED BY <3>1, <3>2
  <2>2. subs' \subseteq Stream /\ deserted' \in BOOLEAN
    BY <1>0, <1>5 DEF Unsubscribe
  <2>3. call' \in [Stream -> {"none", "called", "serving", "sending", "leaving", "emptied", "ended"}]
    <3>1. \E at \in {"emptied", "ended"} : call' = [call EXCEPT ![s] = at]
      BY <1>5 DEF Unsubscribe
    <3> QED BY <1>0, <3>1
  <2> QED BY <1>0, <1>5, <2>1, <2>2, <2>3 DEF Unsubscribe
<1>6. CASE Broadcast
  <2>1. due' \in [Stream -> 0..MaxEvents]
    BY <1>0, <1>6 DEF Broadcast
  <2>2. ASSUME NEW s \in Stream
        PROVE  queue'[s] \in Seq(1..MaxEvents) /\ Len(queue'[s]) <= Cap
    <3>1. CASE s \in Listening /\ Len(queue[s]) # Cap
      <4>1. due'[s] \in 1..MaxEvents
        BY <1>0, <1>6, <3>1 DEF Broadcast
      <4>2. queue'[s] = Append(queue[s], due'[s])
        BY <1>6, <3>1 DEF Broadcast
      <4> QED BY <1>0, <3>1, <4>1, <4>2
    <3>2. CASE ~(s \in Listening /\ Len(queue[s]) # Cap)
      <4>1. queue'[s] = queue[s]
        BY <1>6, <3>2 DEF Broadcast
      <4> QED BY <1>0, <4>1
    <3> QED BY <3>1, <3>2
  <2>3. queue' \in [Stream -> Seq(1..MaxEvents)]
    <3>1. \E f : queue' = [s \in Stream |-> f[s]]
      <4>1. queue' = [s \in Stream |-> queue'[s]]
        BY <1>6 DEF Broadcast
      <4> QED BY <4>1
    <3> QED BY <2>2, <3>1
  <2>4. missed' \in [Stream -> BOOLEAN]
    BY <1>0, <1>6 DEF Broadcast
  <2> QED BY <1>0, <1>6, <2>1, <2>2, <2>3, <2>4 DEF Broadcast
<1>7. CASE TurnStarts \/ TurnEnds \/ ShutdownAgent \/ UserSignal
  BY <1>0, <1>7, SMTT(30) DEF TurnStarts, TurnEnds, ShutdownAgent, UserSignal, Deliver
<1>8. CASE SelfShutdown
  <2>1. closes' \in [Stream -> Nat]
    BY <1>0, <1>8 DEF SelfShutdown, CloseAll
  <2>2. selfStop' \in [scheduled : Nat, closed : Nat]
    <3>1. selfStop \in [scheduled : Nat, closed : Nat]
      BY <1>0
    <3>2. selfStop' = [selfStop EXCEPT !.closed = @ + 1]
      BY <1>8 DEF SelfShutdown
    <3> QED BY <3>1, <3>2
  <2>3. signals' \in 0..2
    BY <1>0, <1>8 DEF SelfShutdown, Deliver
  <2> QED BY <1>0, <1>8, <2>1, <2>2, <2>3 DEF SelfShutdown, CloseAll
<1>9. CASE FirstSignal \/ SecondSignal \/ StartDrain \/ Drained \/ HardStopped \/ Exit
  BY <1>0, <1>9 DEF FirstSignal, SecondSignal, StartDrain, Drained, HardStopped, Exit
<1>10. CASE BeginShutdown
  <2>1. closes' \in [Stream -> Nat]
    BY <1>0, <1>10 DEF BeginShutdown, CloseAll
  <2> QED BY <1>0, <1>10, <2>1 DEF BeginShutdown, CloseAll
<1>11. CASE GraceExpires
  BY <1>0, <1>11 DEF GraceExpires
<1> QED BY <1>1, <1>2, <1>3, <1>4, <1>5, <1>6, <1>7, <1>8, <1>9, <1>10, <1>11 DEF Next

-----------------------------------------------------------------------------
(* The handlers                                                            *)

\* A step that leaves the handler of s, its channel and its timer alone.
SameHandler(s) ==
    /\ call'[s] = call[s] /\ hold'[s] = hold[s] /\ closes'[s] = closes[s]
    /\ (s \in subs' <=> s \in subs) /\ timer'[s] = timer[s]

LEMMA HandlesStay ==
  ASSUME NEW s \in Stream, Handles(s), SameHandler(s), due'[s] = due[s] \/ s \in Listening
  PROVE  Handles(s)'
<1>1. s \in Listening => s \in subs
  BY DEF Listening
<1>2. call[s] \in {"none", "called"} => due'[s] = 0
  BY <1>1 DEF Handles
<1> QED BY <1>2 DEF Handles, SameHandler

\* closeAll closes the channels of those it removes.
LEMMA HandlesClose ==
  ASSUME TypeOK, NEW s \in Stream, Handles(s), CloseAll
  PROVE  Handles(s)'
<1>1. /\ call' = call /\ hold' = hold /\ due' = due /\ timer' = timer /\ subs' = {}
      /\ closes'[s] = IF s \in subs THEN closes[s] + 1 ELSE closes[s]
  BY DEF CloseAll, callVars
<1> QED BY <1>1 DEF Handles

LEMMA HandlesStep ==
  ASSUME HubInv, Next, NEW s \in Stream
  PROVE  Handles(s)'
<1> USE DEF hubVars, callVars, timerVars, stopVars
<1>0. TypeOK /\ Handles(s)
  BY DEF HubInv
<1>1. ASSUME NEW r \in Stream, r # s,
             \/ Call(r) \/ Subscribe(r) \/ Take(r) \/ Sent(r) \/ Disconnect(r)
             \/ Leave(r) \/ Unsubscribe(r) \/ OnEmpty(r) \/ Recheck(r) \/ IdleSignal(r)
      PROVE  Handles(s)'
  <2>1. SameHandler(s) /\ due'[s] = due[s]
    <3>1. CASE Call(r) \/ Subscribe(r) \/ Take(r) \/ Sent(r) \/ Disconnect(r)
      BY <1>0, <1>1, <3>1 DEF Call, Subscribe, Take, Sent, Disconnect, SameHandler, TypeOK
    <3>2. CASE Leave(r) \/ OnEmpty(r) \/ Recheck(r) \/ IdleSignal(r)
      BY <1>0, <1>1, <3>2 DEF Leave, OnEmpty, Recheck, IdleSignal, SameHandler, TypeOK
    <3>3. CASE Unsubscribe(r)
      BY <1>0, <1>1, <3>3 DEF Unsubscribe, SameHandler, TypeOK
    <3> QED BY <1>1, <3>1, <3>2, <3>3
  <2> QED BY <1>0, <2>1, HandlesStay
<1>2. CASE Call(s)
  BY <1>0, <1>2 DEF Call, Handles, TypeOK
<1>3. CASE Subscribe(s)
  BY <1>0, <1>3 DEF Subscribe, Handles, TypeOK
<1>4. CASE Take(s)
  <2>1. Head(queue[s]) \in 1..MaxEvents
    BY <1>0, <1>4, HeadIsEvent DEF Take
  <2>2. /\ call[s] = "serving" /\ call'[s] = "sending" /\ hold'[s] = Head(queue[s])
        /\ UNCHANGED <<subs, closes, due, timer>>
    BY <1>0, <1>4 DEF Take, TypeOK
  <2> QED BY <1>0, <2>1, <2>2 DEF Handles
<1>5. CASE Sent(s)
  BY <1>0, <1>5 DEF Sent, Handles, TypeOK
<1>6. CASE Disconnect(s)
  BY <1>0, <1>6 DEF Disconnect, Handles
<1>7. CASE Leave(s)
  BY <1>0, <1>7 DEF Leave, Handles, TypeOK
<1>8. CASE Unsubscribe(s)
  <2>1. /\ call[s] = "leaving" /\ call'[s] \in {"emptied", "ended"} /\ hold' = hold
        /\ timer' = timer /\ due' = due /\ s \notin subs'
    BY <1>0, <1>8 DEF Unsubscribe, TypeOK
  <2>2. closes'[s] = 1
    BY <1>0, <1>8 DEF Unsubscribe, TypeOK, Handles
  <2> QED BY <1>0, <2>1, <2>2 DEF Handles
<1>9. CASE OnEmpty(s)
  BY <1>0, <1>9 DEF OnEmpty, Handles, TypeOK
<1>10. CASE Recheck(s) \/ IdleSignal(s)
  <2>1. /\ UNCHANGED <<call, subs, closes, due, hold>> /\ timer[s] # "off"
    BY <1>10 DEF Recheck, IdleSignal
  <2> QED BY <1>0, <2>1 DEF Handles
<1>11. CASE Broadcast
  <2>1. SameHandler(s) /\ (due'[s] = due[s] \/ s \in Listening)
    BY <1>11 DEF Broadcast, SameHandler
  <2> QED BY <1>0, <2>1, HandlesStay
<1>12. CASE SelfShutdown \/ BeginShutdown
  BY <1>0, <1>12, HandlesClose DEF SelfShutdown, BeginShutdown
<1>13. CASE \/ TurnStarts \/ TurnEnds \/ ShutdownAgent \/ UserSignal \/ FirstSignal \/ SecondSignal
            \/ StartDrain \/ Drained \/ GraceExpires \/ HardStopped \/ Exit
  <2>1. UNCHANGED <<call, subs, closes, due, hold, timer>>
    BY <1>13 DEF TurnStarts, TurnEnds, ShutdownAgent, UserSignal, FirstSignal, SecondSignal,
                 StartDrain, Drained, GraceExpires, HardStopped, Exit
  <2> QED BY <1>0, <2>1 DEF Handles
<1> QED BY <1>1, <1>2, <1>3, <1>4, <1>5, <1>6, <1>7, <1>8, <1>9, <1>10, <1>11, <1>12, <1>13
        DEF Next

-----------------------------------------------------------------------------
(* What a client sees                                                      *)

LEMMA ExactStays ==
  ASSUME NEW s \in Stream, Exact(s),
         queue'[s] = queue[s], hold'[s] = hold[s], got'[s] = got[s], due'[s] = due[s],
         missed'[s] = missed[s], (s \in Listening)' => s \in Listening \/ Len(Seen(s)) = due[s],
         call'[s] \in {"none", "called"} => call[s] \in {"none", "called"}
  PROVE  Exact(s)'
<1>1. Seen(s)' = Seen(s)
  BY DEF Seen
<1> QED BY <1>1 DEF Exact

LEMMA ExactStep ==
  ASSUME HubInv, Next, NEW s \in Stream
  PROVE  Exact(s)'
<1> USE DEF hubVars, callVars, timerVars, stopVars
<1>0. TypeOK /\ Handles(s) /\ Exact(s)
  BY DEF HubInv
<1>1. ASSUME NEW r \in Stream, r # s,
             \/ Call(r) \/ Subscribe(r) \/ Take(r) \/ Sent(r) \/ Disconnect(r)
             \/ Leave(r) \/ Unsubscribe(r) \/ OnEmpty(r) \/ Recheck(r) \/ IdleSignal(r)
      PROVE  Exact(s)'
  <2>1. /\ queue'[s] = queue[s] /\ hold'[s] = hold[s] /\ got'[s] = got[s] /\ due'[s] = due[s]
        /\ missed'[s] = missed[s] /\ call'[s] = call[s] /\ (s \in subs' <=> s \in subs)
    <3>1. CASE Call(r) \/ Subscribe(r) \/ Disconnect(r) \/ OnEmpty(r) \/ Recheck(r) \/ IdleSignal(r)
      BY <1>0, <1>1, <3>1 DEF Call, Subscribe, Disconnect, OnEmpty, Recheck, IdleSignal, TypeOK
    <3>2. CASE Take(r) \/ Sent(r)
      BY <1>0, <1>1, <3>2 DEF Take, Sent, TypeOK
    <3>3. CASE Leave(r)
      BY <1>0, <1>1, <3>3 DEF Leave, TypeOK
    <3>4. CASE Unsubscribe(r)
      BY <1>0, <1>1, <3>4 DEF Unsubscribe, TypeOK
    <3> QED BY <1>1, <3>1, <3>2, <3>3, <3>4
  <2>2. (s \in Listening)' => s \in Listening
    BY <2>1 DEF Listening
  <2> QED BY <1>0, <2>1, <2>2, ExactStays
<1>2. CASE Call(s) \/ Unsubscribe(s) \/ OnEmpty(s)
  <2>1. /\ UNCHANGED <<queue, hold, got, due, missed>>
        /\ call[s] \in {"none", "leaving", "emptied"} /\ call'[s] \notin {"none", "serving", "sending"}
        /\ call'[s] = "called" => call[s] = "none"
    BY <1>0, <1>2 DEF Call, Unsubscribe, OnEmpty, TypeOK
  <2>2. ~(s \in Listening)'
    BY <2>1 DEF Listening
  <2> QED BY <1>0, <2>1, <2>2, ExactStays
<1>3. CASE Subscribe(s)
  <2>1. /\ UNCHANGED <<queue, hold, got, due, missed>> /\ call[s] = "called"
        /\ call'[s] = "serving"
    BY <1>0, <1>3 DEF Subscribe, TypeOK
  <2>2. Len(Seen(s)) = due[s]
    BY <1>0, <2>1 DEF Exact, Handles
  <2> QED BY <1>0, <2>1, <2>2, ExactStays
<1>4. CASE Take(s) \/ Sent(s)
  <2>1. Seen(s)' = Seen(s)
    <3>1. queue[s] \in Seq(Nat) /\ got[s] \in Seq(Nat) /\ hold[s] \in Nat
      BY <1>0, StreamTypes
    <3>2. CASE Take(s)
      <4>1. /\ queue[s] # << >> /\ hold[s] = 0 /\ hold'[s] = Head(queue[s])
            /\ queue'[s] = Tail(queue[s]) /\ got'[s] = got[s]
        BY <1>0, <3>2 DEF Take, TypeOK, Handles
      <4>2. Head(queue[s]) > 0
        <5>1. Head(queue[s]) \in 1..MaxEvents
          BY <1>0, <4>1, HeadIsEvent
        <5> QED BY <5>1
      <4>3. Seen(s) = got[s] \o << >> \o queue[s]
        BY <4>1 DEF Seen
      <4>4. Seen(s)' = got[s] \o <<Head(queue[s])>> \o Tail(queue[s])
        BY <4>1, <4>2 DEF Seen
      <4> QED BY <3>1, <4>1, <4>3, <4>4, SeenMoves
    <3>3. CASE Sent(s)
      <4>1. /\ hold[s] > 0 /\ hold'[s] = 0 /\ queue'[s] = queue[s]
            /\ got'[s] = Append(got[s], hold[s])
        BY <1>0, <3>1, <3>3 DEF Sent, TypeOK, Handles
      <4>2. Seen(s) = got[s] \o <<hold[s]>> \o queue[s]
        BY <4>1 DEF Seen
      <4>3. Seen(s)' = Append(got[s], hold[s]) \o << >> \o queue[s]
        BY <4>1 DEF Seen
      <4> QED BY <3>1, <4>2, <4>3, SeenMoves
    <3> QED BY <1>4, <3>2, <3>3
  <2>2. /\ UNCHANGED <<due, missed, subs>> /\ call[s] \in {"serving", "sending"}
        /\ call'[s] \in {"serving", "sending"}
    BY <1>0, <1>4 DEF Take, Sent, TypeOK
  <2>3. (s \in Listening)' => s \in Listening
    BY <2>2 DEF Listening
  <2> QED BY <1>0, <2>1, <2>2, <2>3 DEF Exact
<1>5. CASE Leave(s)
  <2>1. /\ got'[s] = << >> /\ queue'[s] = << >> /\ hold'[s] = 0 /\ due'[s] = 0
        /\ call'[s] = "leaving"
    BY <1>0, <1>5 DEF Leave, TypeOK
  <2>2. Seen(s)' = << >>
    BY <2>1 DEF Seen
  <2>3. ~(s \in Listening)'
    BY <2>1 DEF Listening
  <2> QED BY <2>1, <2>2, <2>3 DEF Exact, InOrder
<1>6. CASE Broadcast
  <2>1. UNCHANGED <<subs, call, hold, got>>
    BY <1>6 DEF Broadcast
  <2>2. CASE s \notin Listening
    <3>1. queue'[s] = queue[s] /\ due'[s] = due[s] /\ missed'[s] = missed[s]
      BY <1>0, <1>6, <2>2 DEF Broadcast, TypeOK
    <3>2. (s \in Listening)' = (s \in Listening)
      BY <2>1 DEF Listening
    <3> QED BY <1>0, <2>1, <3>1, <3>2, ExactStays
  <2>3. CASE s \in Listening
    <3>1. PICK e \in Nat : e = due[s] + 1 /\ due'[s] = e
      <4>1. due[s] + 1 \in Nat
        BY <1>0, StreamTypes
      <4>2. due'[s] = due[s] + 1
        BY <1>6, <2>3 DEF Broadcast
      <4> QED BY <4>1, <4>2
    <3>2. Seen(s) \in Seq(Nat) /\ Len(Seen(s)) \in Nat /\ due[s] \in Nat
      BY <1>0, StreamTypes
    <3>3. InOrder(Seen(s)) /\ \A i \in 1..Len(Seen(s)) : Seen(s)[i] < e
      <4>1. ASSUME NEW i \in 1..Len(Seen(s)) PROVE Seen(s)[i] < e
        <5>1. Seen(s)[i] \in Nat /\ Seen(s)[i] <= due[s]
          BY <1>0, <3>2 DEF Exact
        <5> HIDE DEF Seen
        <5> QED BY <3>1, <3>2, <5>1
      <4> QED BY <1>0, <4>1 DEF Exact
    <3>4. call'[s] \notin {"none", "called"}
      BY <2>1, <2>3 DEF Listening
    <3>5. CASE Len(queue[s]) = Cap
      <4>1. queue'[s] = queue[s] /\ missed'[s]
        BY <1>0, <1>6, <2>3, <3>5 DEF Broadcast, TypeOK
      <4>2. Seen(s)' = Seen(s)
        BY <2>1, <4>1 DEF Seen
      <4>3. \A i \in 1..Len(Seen(s)) : Seen(s)[i] <= e
        BY <3>2, <3>3
      <4> QED BY <3>1, <3>3, <3>4, <4>1, <4>2, <4>3 DEF Exact
    <3>6. CASE Len(queue[s]) # Cap
      <4>1. queue'[s] = Append(queue[s], e) /\ missed'[s] = missed[s]
        BY <1>0, <1>6, <2>3, <3>1, <3>6 DEF Broadcast, TypeOK
      <4>2. Seen(s)' = Append(Seen(s), e)
        <5>1. queue[s] \in Seq(Nat) /\ got[s] \in Seq(Nat) /\ hold[s] \in Nat
          BY <1>0, StreamTypes
        <5>2. CASE hold[s] > 0
          <6>1. Seen(s) = got[s] \o <<hold[s]>> \o queue[s]
            BY <5>2 DEF Seen
          <6>2. Seen(s)' = got[s] \o <<hold[s]>> \o Append(queue[s], e)
            BY <2>1, <4>1, <5>2 DEF Seen
          <6>3. got[s] \o <<hold[s]>> \o Append(queue[s], e) = Append(got[s] \o <<hold[s]>> \o queue[s], e)
            BY <3>1, <5>1, SeenMoves, ZenonT(40)
          <6> QED BY <6>1, <6>2, <6>3
        <5>3. CASE ~(hold[s] > 0)
          <6>1. Seen(s) = got[s] \o << >> \o queue[s]
            BY <5>3 DEF Seen
          <6>2. Seen(s)' = got[s] \o << >> \o Append(queue[s], e)
            BY <2>1, <4>1, <5>3 DEF Seen
          <6>3. got[s] \o << >> \o Append(queue[s], e) = Append(got[s] \o << >> \o queue[s], e)
            BY <3>1, <5>1, SeenMoves
          <6> QED BY <6>1, <6>2, <6>3
        <5> QED BY <5>2, <5>3
      <4>3. /\ InOrder(Append(Seen(s), e))
            /\ \A i \in 1..Len(Append(Seen(s), e)) : Append(Seen(s), e)[i] <= e
        BY <3>1, <3>2, <3>3, OrderAppend
      <4>4. Len(Append(Seen(s), e)) = Len(Seen(s)) + 1
        BY <3>1, <3>2
      <4>5. ~missed[s] => Len(Seen(s)) = due[s]
        BY <1>0, <2>3 DEF Exact
      <4> HIDE DEF Seen
      <4>6. ~missed'[s] => Len(Seen(s)') = due'[s]
        BY <3>1, <4>1, <4>2, <4>4, <4>5
      <4> QED BY <3>1, <3>4, <4>2, <4>3, <4>6 DEF Exact
    <3> QED BY <3>5, <3>6
  <2> QED BY <2>2, <2>3
<1>7. CASE \/ Disconnect(s) \/ Recheck(s) \/ IdleSignal(s)
           \/ SelfShutdown \/ BeginShutdown \/ TurnStarts \/ TurnEnds \/ ShutdownAgent \/ UserSignal
           \/ FirstSignal \/ SecondSignal \/ StartDrain \/ Drained \/ GraceExpires \/ HardStopped
           \/ Exit
  <2>1. UNCHANGED <<queue, hold, got, due, missed, call>> /\ subs' \subseteq subs
    BY <1>7 DEF Disconnect, Recheck, IdleSignal, SelfShutdown, BeginShutdown, CloseAll, TurnStarts,
                TurnEnds, ShutdownAgent, UserSignal, FirstSignal, SecondSignal, StartDrain, Drained,
                GraceExpires, HardStopped, Exit
  <2>2. (s \in Listening)' => s \in Listening
    BY <2>1 DEF Listening
  <2> QED BY <1>0, <2>1, <2>2, ExactStays
<1> QED BY <1>1, <1>2, <1>3, <1>4, <1>5, <1>6, <1>7 DEF Next

-----------------------------------------------------------------------------
(* The end of the agent                                                    *)

LEMMA SignalTypes ==
  ASSUME TypeOK
  PROVE  /\ IsFiniteSet(Fired) /\ Cardinality(Fired) \in Nat
         /\ userSent \in Nat /\ selfStop.closed \in Nat /\ signals \in 0..2
         /\ Signalled = userSent + selfStop.closed + Cardinality(Fired) /\ Signalled \in Nat
<1>1. IsFiniteSet(Fired)
  <2>1. Fired \subseteq Stream
    BY DEF Fired
  <2> QED BY <2>1, HubAssumption, FS_Subset
<1>2. Cardinality(Fired) \in Nat
  BY <1>1, FS_CardinalityType
<1>3. userSent \in Nat /\ selfStop.closed \in Nat /\ signals \in 0..2
  BY DEF TypeOK
<1>4. Signalled = userSent + selfStop.closed + Cardinality(Fired)
  BY DEF Signalled, Fired
<1> QED BY <1>1, <1>2, <1>3, <1>4

\* A timer that has fired stays so.
LEMMA FiredSteps ==
  ASSUME HubInv, Next
  PROVE  \/ Fired' = Fired
         \/ \E s \in Stream : IdleSignal(s) /\ s \notin Fired /\ Fired' = Fired \cup {s}
<1>0. TypeOK
  BY DEF HubInv
<1>1. ASSUME NEW s \in Stream, IdleSignal(s)
      PROVE  s \notin Fired /\ Fired' = Fired \cup {s}
  BY <1>0, <1>1 DEF IdleSignal, Fired, TypeOK
<1>2. ASSUME NEW s \in Stream, OnEmpty(s) \/ Recheck(s) PROVE Fired' = Fired
  <2>1. timer[s] # "fired"
    BY <1>2 DEF OnEmpty, Recheck, HubInv, Handles
  <2>2. \E v \in {"sleeping", "firing", "done"} : timer' = [timer EXCEPT ![s] = v]
    BY <1>2 DEF OnEmpty, Recheck
  <2> QED BY <1>0, <2>1, <2>2 DEF Fired, TypeOK
<1>3. ASSUME timer' = timer PROVE Fired' = Fired
  BY <1>3 DEF Fired
<1>4. ASSUME NEW s \in Stream,
             \/ Call(s) \/ Subscribe(s) \/ Take(s) \/ Sent(s) \/ Disconnect(s)
             \/ Leave(s) \/ Unsubscribe(s)
      PROVE  timer' = timer
  BY <1>4 DEF Call, Subscribe, Take, Sent, Disconnect, Leave, Unsubscribe, timerVars
<1>5. CASE \/ Broadcast \/ TurnStarts \/ TurnEnds \/ ShutdownAgent \/ SelfShutdown \/ UserSignal
           \/ FirstSignal \/ SecondSignal \/ BeginShutdown \/ StartDrain
           \/ Drained \/ GraceExpires \/ HardStopped \/ Exit
  <2>1. timer' = timer
    BY <1>5 DEF Broadcast, TurnStarts, TurnEnds, ShutdownAgent, SelfShutdown, UserSignal, FirstSignal,
                SecondSignal, BeginShutdown, CloseAll, StartDrain, Drained, GraceExpires, HardStopped,
                Exit, timerVars
  <2> QED BY <1>3, <2>1
<1> QED BY <1>1, <1>2, <1>3, <1>4, <1>5 DEF Next

\* A step that sends no signal and receives none.
LEMMA StopStays ==
  ASSUME TypeOK, StopInv, signals' = signals, Received' = Received, Signalled' = Signalled,
         proc' = proc \/ proc' \notin {"hard", "stopped", "exited"},
         expired' = expired, turn' = turn \/ turn' # "running" \/ Accepting
  PROVE  StopInv'
  BY DEF StopInv, Accepting

LEMMA StopStep ==
  ASSUME HubInv, Next
  PROVE  StopInv'
<1> USE DEF hubVars, callVars, timerVars, stopVars
<1> DEFINE n == Cardinality(Fired)
<1>0. TypeOK /\ StopInv
  BY DEF HubInv
<1>1. /\ n \in Nat /\ n' \in Nat /\ userSent \in Nat /\ selfStop.closed \in Nat
      /\ signals \in 0..2 /\ Signalled = userSent + selfStop.closed + n /\ Signalled \in Nat
      /\ Signalled' = userSent' + selfStop'.closed + n' /\ Received \in 0..2
  <2>1. /\ IsFiniteSet(Fired) /\ n \in Nat /\ userSent \in Nat /\ selfStop.closed \in Nat
        /\ signals \in 0..2 /\ Signalled = userSent + selfStop.closed + n /\ Signalled \in Nat
    BY <1>0, SignalTypes
  <2>2. Fired' \subseteq Stream
    BY DEF Fired
  <2>3. IsFiniteSet(Fired')
    BY <2>2, HubAssumption, FS_Subset
  <2>4. n' \in Nat
    BY <2>3, FS_CardinalityType
  <2>5. Signalled' = userSent' + selfStop'.closed + n'
    BY DEF Signalled, Fired
  <2>6. Received \in 0..2
    BY DEF Received
  <2> QED BY <2>1, <2>4, <2>5, <2>6
<1>2. (\A s \in Stream : ~IdleSignal(s)) => n' = n
  BY FiredSteps
<1>3. ASSUME NEW s \in Stream, IdleSignal(s) PROVE n' = n + 1
  <2>1. s \notin Fired /\ Fired' = Fired \cup {s}
    BY <1>0, <1>3 DEF IdleSignal, Fired, TypeOK
  <2>2. IsFiniteSet(Fired)
    BY <1>0, SignalTypes
  <2> QED BY <2>1, <2>2, FS_AddElement
<1> HIDE DEF n
<1>4. ASSUME NEW s \in Stream, IdleSignal(s) PROVE StopInv'
  <2>1. /\ signals' <= signals + 1 /\ signals' \in Nat
        /\ UNCHANGED <<selfStop, userSent, proc, turn, expired>>
    BY <1>1, <1>4 DEF IdleSignal, Deliver
  <2>2. Signalled' = Signalled + 1 /\ Received' = Received
    BY <1>1, <1>3, <1>4, <2>1 DEF Received
  <2> QED BY <1>0, <1>1, <2>1, <2>2 DEF StopInv
<1>5. CASE UserSignal
  <2>1. /\ signals' <= signals + 1 /\ signals' \in Nat /\ userSent' = userSent + 1
        /\ UNCHANGED <<timer, selfStop, proc, turn, expired>>
    BY <1>1, <1>5 DEF UserSignal, Deliver
  <2>2. n' = n
    BY <2>1 DEF n, Fired
  <2>3. Signalled' = Signalled + 1 /\ Received' = Received
    BY <1>1, <2>1, <2>2 DEF Received
  <2> QED BY <1>0, <1>1, <2>1, <2>3 DEF StopInv
<1>6. CASE SelfShutdown
  <2>1. /\ signals' <= signals + 1 /\ signals' \in Nat /\ selfStop'.closed = selfStop.closed + 1
        /\ UNCHANGED <<timer, userSent, proc, turn, expired>>
    BY <1>0, <1>1, <1>6 DEF SelfShutdown, CloseAll, Deliver, TypeOK
  <2>2. n' = n
    BY <2>1 DEF n, Fired
  <2>3. Signalled' = Signalled + 1 /\ Received' = Received
    BY <1>1, <2>1, <2>2 DEF Received
  <2> QED BY <1>0, <1>1, <2>1, <2>3 DEF StopInv
<1>7. ASSUME UNCHANGED <<timer, selfStop, userSent>> PROVE Signalled' = Signalled
  BY <1>1, <1>7 DEF n, Fired
<1>8. CASE FirstSignal \/ SecondSignal
  <2>1. /\ UNCHANGED <<timer, selfStop, userSent, turn, expired>>
        /\ signals' = signals - 1 /\ proc' \in {"received", "killed"} /\ Received' <= Received + 1
        /\ Received' \in 0..2
    BY <1>0, <1>8 DEF FirstSignal, SecondSignal, Received, Alive, TypeOK
  <2> QED BY <1>0, <1>1, <1>7, <2>1 DEF StopInv
<1>9. CASE Drained \/ HardStopped \/ Exit \/ GraceExpires
  <2>1. /\ UNCHANGED <<timer, selfStop, userSent, signals, turn>>
    BY <1>9 DEF Drained, HardStopped, Exit, GraceExpires
  <2>2. Received' = Received
    BY <1>9 DEF Drained, HardStopped, Exit, GraceExpires, Received
  <2>3. /\ proc' = "hard" => expired'
        /\ proc' \in {"stopped", "exited"} => turn' # "running" \/ expired'
    BY <1>0, <1>9 DEF Drained, HardStopped, Exit, GraceExpires, StopInv
  <2> QED BY <1>0, <1>7, <2>1, <2>2, <2>3 DEF StopInv
<1>10. CASE BeginShutdown \/ StartDrain
  <2>1. /\ UNCHANGED <<timer, selfStop, userSent, signals, turn, expired>>
        /\ proc \in {"received", "closed"} /\ proc' \in {"closed", "draining"}
    BY <1>10 DEF BeginShutdown, CloseAll, StartDrain
  <2>2. Received' = Received
    BY <2>1 DEF Received
  <2> QED BY <1>0, <1>7, <2>1, <2>2, StopStays
<1>11. CASE TurnStarts \/ TurnEnds \/ ShutdownAgent
  <2>1. /\ UNCHANGED <<timer, userSent, signals, proc, expired>>
        /\ selfStop'.closed = selfStop.closed
        /\ turn' = turn \/ turn' # "running" \/ Accepting
    BY <1>0, <1>11 DEF TurnStarts, TurnEnds, ShutdownAgent, TypeOK
  <2>2. Signalled' = Signalled
    BY <1>1, <2>1 DEF n, Fired
  <2>3. Received' = Received
    BY <2>1 DEF Received
  <2> QED BY <1>0, <2>1, <2>2, <2>3, StopStays
<1>12. ASSUME NEW s \in Stream,
             \/ Call(s) \/ Subscribe(s) \/ Take(s) \/ Sent(s) \/ Disconnect(s)
             \/ Leave(s) \/ Unsubscribe(s) \/ OnEmpty(s) \/ Recheck(s)
       PROVE  StopInv'
  <2>1. UNCHANGED stopVars
    BY <1>12 DEF Call, Subscribe, Take, Sent, Disconnect, Leave, Unsubscribe, OnEmpty, Recheck
  <2>2. \A r \in Stream : ~IdleSignal(r)
    <3> SUFFICES ASSUME NEW r \in Stream, IdleSignal(r) PROVE FALSE
      OBVIOUS
    <3>1. call' = call /\ timer'[r] = "fired" /\ timer[r] = "firing" /\ UNCHANGED <<hubVars, hold, gone, got>>
      BY <1>0 DEF IdleSignal, TypeOK
    <3> QED BY <1>0, <1>12, <3>1 DEF Call, Subscribe, Take, Sent, Disconnect, Leave, Unsubscribe,
                 OnEmpty, Recheck, TypeOK
  <2>3. Signalled' = Signalled
    BY <1>1, <1>2, <2>1, <2>2
  <2>4. Received' = Received
    BY <2>1 DEF Received
  <2> QED BY <1>0, <2>1, <2>3, <2>4, StopStays
<1>13. CASE Broadcast
  <2>1. UNCHANGED <<stopVars, timer>>
    BY <1>13 DEF Broadcast
  <2>2. Signalled' = Signalled
    BY <1>7, <2>1
  <2>3. Received' = Received
    BY <2>1 DEF Received
  <2> QED BY <1>0, <2>1, <2>2, <2>3, StopStays
<1> QED BY <1>4, <1>5, <1>6, <1>8, <1>9, <1>10, <1>11, <1>12, <1>13 DEF Next

-----------------------------------------------------------------------------
(* The theorems                                                            *)

LEMMA HubInvariant == Spec => []HubInv
<1>1. Init => HubInv
  <2> SUFFICES ASSUME Init PROVE HubInv
    OBVIOUS
  <2>1. TypeOK
    <3>1. 0 \in Nat /\ 0 \in 0..MaxEvents /\ << >> \in Seq(1..MaxEvents) /\ Len(<< >>) <= Cap
      BY HubAssumption
    <3>2. selfStop \in [scheduled : Nat, closed : Nat]
      BY DEF Init
    <3>3. \A s \in Stream : Len(queue[s]) <= Cap
      BY <3>1 DEF Init
    <3>4. queue \in [Stream -> Seq(1..MaxEvents)] /\ got \in [Stream -> Seq(1..MaxEvents)]
      BY <3>1 DEF Init
    <3>5. due \in [Stream -> 0..MaxEvents] /\ hold \in [Stream -> 0..MaxEvents]
          /\ closes \in [Stream -> Nat]
      BY <3>1 DEF Init
    <3>6. /\ call \in [Stream -> {"none", "called", "serving", "sending", "leaving", "emptied", "ended"}]
          /\ timer \in [Stream -> {"off", "sleeping", "firing", "fired", "done"}]
          /\ gone \in [Stream -> BOOLEAN] /\ missed \in [Stream -> BOOLEAN]
      BY DEF Init
    <3>7. subs \subseteq Stream /\ userSent \in Nat /\ signals \in 0..2
      BY DEF Init
    <3>8. /\ proc \in {"up", "received", "closed", "draining", "hard", "stopped", "exited", "killed"}
          /\ turn \in {"none", "running", "done"}
      BY DEF Init
    <3>9. deserted \in BOOLEAN /\ expired \in BOOLEAN
      BY DEF Init
    <3> QED BY <3>2, <3>3, <3>4, <3>5, <3>6, <3>7, <3>8, <3>9 DEF TypeOK
  <2>2. ASSUME NEW s \in Stream PROVE Handles(s) /\ Exact(s)
    <3>1. Seen(s) = << >>
      BY DEF Init, Seen
    <3>2. Exact(s)
      BY <3>1 DEF Exact, Init, InOrder, Listening
    <3>3. Handles(s)
      BY DEF Handles, Init
    <3> QED BY <3>2, <3>3
  <2>3. StopInv
    <3>1. Signalled \in Nat
      BY <2>1, SignalTypes
    <3> QED BY <3>1 DEF StopInv, Received, Init
  <2> QED BY <2>1, <2>2, <2>3 DEF HubInv
<1>2. HubInv /\ [Next]_vars => HubInv'
  <2>1. CASE HubInv /\ Next
    BY <2>1, TypeStep, HandlesStep, ExactStep, StopStep DEF HubInv
  <2>2. CASE HubInv /\ UNCHANGED vars
    BY <2>2 DEF HubInv, vars, hubVars, callVars, timerVars, stopVars, TypeOK, Handles, Exact, Seen,
                Listening, StopInv, Received, Signalled
  <2> QED BY <2>1, <2>2
<1> QED BY <1>1, <1>2, PTL DEF Spec

(* A stream's client sees its events in order, none twice and, unless its    *)
(* channel was full, all of them; and every channel is closed once.        *)
THEOREM StreamsAreExact == Spec => []StreamIsExact
<1>1. HubInv => StreamIsExact
  BY DEF HubInv, StreamIsExact, Exact, Handles
<1> QED BY <1>1, HubInvariant, PTL

(* One signal alone cuts no turn off before the grace is over. *)
THEOREM TurnSurvivesOneSignal == Spec => []TurnOutlivesStop
<1>1. HubInv => TurnOutlivesStop
  <2> SUFFICES ASSUME HubInv, ~Alive, turn = "running", Signalled <= 1 PROVE expired
    BY DEF TurnOutlivesStop
  <2>1. Signalled \in Nat /\ signals \in 0..2 /\ signals + Received <= Signalled
    BY SignalTypes DEF HubInv, StopInv
  <2>2. proc # "killed"
    BY <2>1 DEF Received
  <2> QED BY <2>2 DEF Alive, HubInv, StopInv
<1> QED BY <1>1, HubInvariant, PTL
=============================================================================
