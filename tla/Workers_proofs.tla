---------------------------- MODULE Workers_proofs ----------------------------
(***************************************************************************)
(* Proofs about the worker processes.                                      *)
(*                                                                         *)
(* WorkerPool, for any sets of conversations, turns and workers. The       *)
(* argument is ownership: a worker that was spawned and not killed is in   *)
(* the pool, in the hands of one turn or on the reaper's list, at one of   *)
(* them only (an entry in use and the turn that uses it count as one), and *)
(* what Shutdown took it took from the pool.                               *)
(*                                                                         *)
(* WorkerStream, for any calls of any kinds, any capacities and windows:   *)
(* evidence of a sub-agent follows its conversation, and a turn is a step  *)
(* by step implementation of RemoteTurn. The argument is about the one     *)
(* pipe from the worker's queue to the host's drain loop (Pipe): the order *)
(* of what is in it, what the worker knows it put there, and how far each  *)
(* call has got on its way through it and back.                            *)
(*                                                                         *)
(* The two share no state.                                                 *)
(***************************************************************************)
EXTENDS WorkerPool, WorkerStream, TLAPS

(***************************************************************************)
(* The pool                                                                *)
(***************************************************************************)


LEMMA KillType ==
  ASSUME PoolTypeOK, NEW w, Kill(w)
  PROVE  /\ wstate' \in [Worker -> {"unborn", "healthy", "exited", "unhealthy", "killed"}]
         /\ kills' \in [Worker -> Nat]
         /\ wmode' \in [Worker -> BOOLEAN]
<1>1. wstate' \in [Worker -> {"unborn", "healthy", "exited", "unhealthy", "killed"}]
  BY DEF PoolTypeOK, Kill
<1>2. kills' \in [Worker -> Nat]
  <2>1. \A v \in Worker : kills[v] \in Nat /\ kills[v] + 1 \in Nat
    BY DEF PoolTypeOK
  <2> QED
    BY <2>1 DEF PoolTypeOK, Kill
<1>3. wmode' \in [Worker -> BOOLEAN]
  BY DEF PoolTypeOK, Kill
<1> QED
  BY <1>1, <1>2, <1>3

LEMMA TypeInit == PoolInit => PoolTypeOK
BY PoolAssumption DEF PoolInit, PoolTypeOK

LEMMA TypeAcquire ==
  ASSUME PoolTypeOK, NEW t \in Turn, Acquire(t) PROVE PoolTypeOK'
<1>1. CASE AcquireWarm(t)
  BY <1>1 DEF AcquireWarm, PoolTypeOK, procVars, agentVars
<1>2. CASE AcquireEvict(t)
  BY <1>2 DEF AcquireEvict, DropEntry, PoolTypeOK, procVars, agentVars
<1>3. CASE AcquireKillEvicted(t)
  BY <1>3, KillType DEF AcquireKillEvicted, PoolTypeOK, poolVars, agentVars
<1>4. CASE AcquireMiss(t)
  BY <1>4 DEF AcquireMiss, PoolTypeOK, poolVars, procVars, agentVars
<1>5. CASE Spawn(t)
  BY <1>5 DEF Spawn, PoolTypeOK, poolVars, agentVars
<1>6. CASE SpawnFail(t)
  BY <1>6 DEF SpawnFail, PoolTypeOK, poolVars, procVars, agentVars
<1>7. CASE RecheckReuse(t)
  BY <1>7 DEF RecheckReuse, PoolTypeOK, procVars, agentVars
<1>8. CASE RecheckReplace(t)
  <2>1. /\ entry' \in [Conv -> Worker \cup {NoWorker}]
        /\ inUse' \in [Conv -> BOOLEAN]
        /\ managed' \in [Conv -> BOOLEAN]
        /\ expired' \in [Conv -> BOOLEAN]
    BY <1>8 DEF RecheckReplace, SetEntry, PoolTypeOK
  <2>2. /\ tpc' \in [Turn -> {"new", "evict", "spawn", "recheck", "discard",
                              "running", "drop", "done"}]
        /\ victim' \in [Turn -> Worker \cup {NoWorker}]
    BY <1>8 DEF RecheckReplace, PoolTypeOK
  <2> QED
    BY <1>8, <2>1, <2>2 DEF RecheckReplace, PoolTypeOK, procVars, agentVars
<1>9. CASE RecheckInsert(t)
  BY <1>9 DEF RecheckInsert, SetEntry, PoolTypeOK, procVars, agentVars
<1>10. CASE AcquireDiscard(t)
  BY <1>10, KillType DEF AcquireDiscard, PoolTypeOK, poolVars, agentVars
<1> QED
  BY <1>1, <1>2, <1>3, <1>4, <1>5, <1>6, <1>7, <1>8, <1>9, <1>10 DEF Acquire

LEMMA TypeRelease ==
  ASSUME PoolTypeOK, NEW t \in Turn, Release(t) PROVE PoolTypeOK'
<1>1. CASE ReleaseWarm(t)
  BY <1>1 DEF ReleaseWarm, PoolTypeOK, procVars, agentVars
<1>2. CASE ReleaseUnhealthy(t)
  BY <1>2 DEF ReleaseUnhealthy, DropEntry, PoolTypeOK, procVars, agentVars
<1>3. CASE ReleaseDisplaced(t)
  BY <1>3 DEF ReleaseDisplaced, PoolTypeOK, poolVars, procVars, agentVars
<1>4. CASE ReleaseKill(t)
  BY <1>4, KillType DEF ReleaseKill, PoolTypeOK, poolVars, agentVars
<1> QED
  BY <1>1, <1>2, <1>3, <1>4 DEF Release

(* What the reaper, the host and the workers do themselves. *)
AgentStep ==
    \/ \E c \in Conv : Expire(c)
    \/ Reaper
    \/ \E w \in Worker : WorkerFails(w) \/ ShutdownKill(w)
    \/ Shutdown \/ ShutdownEnd

LEMMA TypeHost ==
  ASSUME PoolTypeOK, AgentStep PROVE PoolTypeOK'
<1>1. CASE \E c \in Conv : Expire(c)
  BY <1>1 DEF Expire, PoolTypeOK, procVars, turnVars, agentVars
<1>2. CASE ReapScan
  <2> DEFINE C == {c \in Conv : entry[c] # NoWorker /\ ~inUse[c] /\ expired[c]}
  <2>1. {entry[c] : c \in C} \in SUBSET Worker
    BY DEF PoolTypeOK
  <2> HIDE DEF C
  <2>2. Retire(C, {entry[c] : c \in C})
    BY <1>2 DEF ReapScan, C
  <2>3. reaping' \in SUBSET Worker /\ entry' \in [Conv -> Worker \cup {NoWorker}]
    BY <2>1, <2>2 DEF Retire, PoolTypeOK
  <2> QED
    BY <2>2, <2>3 DEF Retire, PoolTypeOK, procVars, turnVars
<1>3. ASSUME NEW w \in Worker, ReapKill(w) PROVE PoolTypeOK'
  BY <1>3, KillType DEF ReapKill, PoolTypeOK, poolVars, turnVars
<1>4. ASSUME NEW w \in Worker, WorkerFails(w) PROVE PoolTypeOK'
  BY <1>4 DEF WorkerFails, PoolTypeOK, poolVars, turnVars, agentVars
<1>5. ASSUME NEW w \in Worker, ShutdownKill(w) PROVE PoolTypeOK'
  BY <1>5, KillType DEF ShutdownKill, PoolTypeOK, poolVars, turnVars
<1>6. CASE Shutdown
  <2>1. closing' \in SUBSET Worker /\ entry' \in [Conv -> Worker \cup {NoWorker}]
    BY <1>6 DEF Shutdown, PoolTypeOK
  <2> QED
    BY <1>6, <2>1 DEF Shutdown, PoolTypeOK, procVars, turnVars
<1>7. CASE ShutdownEnd
  BY <1>7 DEF ShutdownEnd, PoolTypeOK, poolVars, procVars, turnVars
<1> QED
  BY <1>1, <1>2, <1>3, <1>4, <1>5, <1>6, <1>7 DEF AgentStep, Reaper

(* Every state has the types. *)
THEOREM TypeCorrect == PoolSpec => []PoolTypeOK
<1>1. PoolTypeOK /\ [PoolNext]_allVars => PoolTypeOK'
  <2> SUFFICES ASSUME PoolTypeOK, [PoolNext]_allVars PROVE PoolTypeOK'
    OBVIOUS
  <2>1. CASE PoolNext
    BY <2>1, TypeAcquire, TypeRelease, TypeHost DEF PoolNext, AgentStep
  <2>2. CASE UNCHANGED allVars
    BY <2>2 DEF allVars, poolVars, procVars, turnVars, agentVars, PoolTypeOK
  <2> QED
    BY <2>1, <2>2
<1> QED
  BY TypeInit, <1>1, PTL DEF PoolSpec

-----------------------------------------------------------------------------
(* Ownership *)

Owned(w) ==
    \/ \E c \in Conv : entry[c] = w
    \/ \E t \in Turn : held[t] = w \/ victim[t] = w
    \/ w \in reaping

(* Where a turn is says what it has in its hands. *)
PcInv ==
    \A t \in Turn :
        /\ tpc[t] \in {"recheck", "running", "discard", "drop"} <=> held[t] # NoWorker
        /\ tpc[t] \in {"evict", "discard"} <=> victim[t] # NoWorker

(* An entry is of one conversation, of the mode of its worker, and in use   *)
(* only by a turn that runs on it.                                         *)
EntryInv ==
    /\ \A c, d \in Conv : entry[c] # NoWorker /\ entry[c] = entry[d] => c = d
    /\ \A c \in Conv : entry[c] # NoWorker => wmode[entry[c]] = managed[c]
    /\ \A c \in Conv : entry[c] # NoWorker /\ inUse[c] =>
          \E t \in Turn : Running(t) /\ held[t] = entry[c]

(* A worker is held by one turn, of its mode; while it is in the pool, by   *)
(* one that runs, and its entry is in use.                                 *)
HeldInv ==
    /\ \A t, u \in Turn : held[t] # NoWorker /\ held[t] = held[u] => t = u
    /\ \A t \in Turn : held[t] # NoWorker => wmode[held[t]] = tmode[t]
    /\ \A t \in Turn, c \in Conv : held[t] # NoWorker /\ held[t] = entry[c] =>
          Running(t) /\ tconv[t] = c /\ inUse[c]

(* A worker that a turn has to kill is nobody else's. *)
VictimInv ==
    \A t \in Turn : victim[t] # NoWorker =>
        /\ \A u \in Turn : victim[t] # held[u] /\ (victim[t] = victim[u] => t = u)
        /\ \A c \in Conv : victim[t] # entry[c]

(* Nor is one that the reaper has to kill. *)
ReapInv ==
    \A w \in reaping :
        /\ \A c \in Conv : entry[c] # w
        /\ \A t \in Turn : held[t] # w /\ victim[t] # w

(* One that Shutdown has to kill may still have a turn that runs on it.     *)
CloseInv ==
    /\ hostpc = "serving" => closing = {}
    /\ \A w \in closing :
        /\ w \notin reaping
        /\ \A c \in Conv : entry[c] # w
        /\ \A t \in Turn : victim[t] # w /\ (held[t] = w => tpc[t] # "recheck")

(* A worker has an owner or is about to be closed until it is killed, and   *)
(* every signal it gets has used up one of the two.                        *)
KillInv ==
    \A w \in Worker :
        /\ wstate[w] = "unborn" => kills[w] = 0 /\ ~Owned(w) /\ w \notin closing
        /\ wstate[w] = "killed" => kills[w] # 0
        /\ wstate[w] \in {"healthy", "exited", "unhealthy"} => Owned(w) \/ w \in closing
        /\ kills[w] <= 2 /\ (hostpc = "serving" => kills[w] <= 1)
        /\ Owned(w) /\ hostpc = "serving" => kills[w] = 0
        /\ Owned(w) \/ w \in closing => kills[w] <= 1
        /\ Owned(w) /\ w \in closing => kills[w] = 0

Unique == PcInv /\ EntryInv /\ HeldInv /\ VictimInv /\ ReapInv /\ CloseInv

(* A step that neither spawns nor kills keeps every owner ... *)
LEMMA NoKill ==
  ASSUME PoolTypeOK, KillInv, kills' = kills, closing' = closing, hostpc' = hostpc,
         wstate' = wstate,
         \A w \in Worker : Owned(w)' <=> Owned(w)
  PROVE KillInv'
BY DEF KillInv

(* ... an owner that kills gives up what it owned ... *)
LEMMA OwnerKills ==
  ASSUME PoolTypeOK, KillInv, NEW w \in Worker, Owned(w), Kill(w),
         closing' = closing, hostpc' = hostpc,
         ~Owned(w)', \A v \in Worker \ {w} : Owned(v)' <=> Owned(v)
  PROVE KillInv'
<1>1. kills[w] \in Nat /\ kills'[w] = kills[w] + 1 /\ wstate'[w] = "killed"
  BY DEF PoolTypeOK, Kill
<1>2. \A v \in Worker \ {w} : kills'[v] = kills[v] /\ wstate'[v] = wstate[v]
  BY DEF PoolTypeOK, Kill
<1>3. kills'[w] # 0 /\ kills'[w] <= 2 /\ (hostpc = "serving" => kills'[w] <= 1)
      /\ (w \in closing => kills'[w] <= 1)
  BY <1>1 DEF KillInv
<1> QED
  BY <1>1, <1>2, <1>3 DEF KillInv

(* ... and Shutdown strikes the worker off its list. *)
LEMMA ShutdownKills ==
  ASSUME PoolTypeOK, KillInv, NEW w \in Worker, w \in closing, Kill(w),
         closing' = closing \ {w}, hostpc' = hostpc, hostpc # "serving",
         \A v \in Worker : Owned(v)' <=> Owned(v)
  PROVE KillInv'
<1>1. kills[w] \in Nat /\ kills'[w] = kills[w] + 1 /\ wstate'[w] = "killed"
  BY DEF PoolTypeOK, Kill
<1>2. \A v \in Worker \ {w} : kills'[v] = kills[v] /\ wstate'[v] = wstate[v]
  BY DEF PoolTypeOK, Kill
<1>3. kills'[w] # 0 /\ kills'[w] <= 2 /\ (Owned(w) => kills'[w] <= 1)
  BY <1>1 DEF KillInv
<1> QED
  BY <1>1, <1>2, <1>3 DEF KillInv

LEMMA WarmKeeps ==
  ASSUME PoolTypeOK, Unique, KillInv, NEW t \in Turn, AcquireWarm(t) PROVE Unique' /\ KillInv'
<1> DEFINE c == tconv[t]
           w == entry[c]
<1>1. /\ c \in Conv /\ w \in Worker /\ w # NoWorker /\ ~inUse[c]
      /\ held[t] = NoWorker /\ victim[t] = NoWorker /\ tpc[t] = "new"
      /\ wmode[w] = tmode[t]
  BY PoolAssumption DEF AcquireWarm, Reusable, PoolTypeOK, Unique, PcInv, EntryInv
<1>2. /\ \A u \in Turn : held[u] # w /\ victim[u] # w
      /\ \A d \in Conv \ {c} : entry[d] # w
      /\ w \notin reaping /\ w \notin closing
  BY <1>1 DEF Unique, HeldInv, EntryInv, VictimInv, ReapInv, CloseInv
<1>3. /\ held'[t] = w /\ \A u \in Turn \ {t} : held'[u] = held[u]
      /\ tpc'[t] = "running" /\ \A u \in Turn \ {t} : tpc'[u] = tpc[u]
      /\ inUse'[c] /\ \A d \in Conv \ {c} : inUse'[d] = inUse[d]
      /\ UNCHANGED <<entry, managed, wstate, kills, wmode, tconv, tmode, victim, reaping, hostpc, closing>>
  BY <1>1 DEF AcquireWarm, PoolTypeOK, procVars, agentVars
<1> HIDE DEF c, w
<1>4. w = entry[c]
  BY DEF c, w
<1>5. PcInv'
  BY <1>1, <1>3 DEF Unique, PcInv
<1>6. EntryInv'
  BY <1>1, <1>2, <1>3, <1>4 DEF Unique, EntryInv, Running
<1>7. HeldInv'
  BY <1>1, <1>2, <1>3, <1>4 DEF Unique, HeldInv, Running, c
<1>8. VictimInv' /\ ReapInv'
  BY <1>1, <1>2, <1>3, <1>4 DEF Unique, VictimInv, ReapInv
<1>9. CloseInv'
  BY <1>1, <1>2, <1>3, <1>4 DEF Unique, CloseInv
<1>10. \A v \in Worker : Owned(v)' <=> Owned(v)
  BY <1>1, <1>3, <1>4, PoolAssumption DEF Owned
<1> QED
  BY <1>3, <1>5, <1>6, <1>7, <1>8, <1>9, <1>10, NoKill DEF Unique

LEMMA EvictKeeps ==
  ASSUME PoolTypeOK, Unique, KillInv, NEW t \in Turn, AcquireEvict(t) PROVE Unique' /\ KillInv'
<1> DEFINE c == tconv[t]
           w == entry[c]
<1>1. /\ c \in Conv /\ w \in Worker /\ w # NoWorker /\ ~inUse[c]
      /\ held[t] = NoWorker /\ victim[t] = NoWorker
  BY PoolAssumption DEF AcquireEvict, PoolTypeOK, Unique, PcInv
<1>2. /\ \A u \in Turn : held[u] # w /\ victim[u] # w
      /\ \A d \in Conv \ {c} : entry[d] # w
      /\ w \notin reaping /\ w \notin closing
  BY <1>1 DEF Unique, HeldInv, EntryInv, VictimInv, ReapInv, CloseInv
<1>3. /\ entry'[c] = NoWorker /\ \A d \in Conv \ {c} : entry'[d] = entry[d]
      /\ victim'[t] = w /\ \A u \in Turn \ {t} : victim'[u] = victim[u]
      /\ tpc'[t] = "evict" /\ \A u \in Turn \ {t} : tpc'[u] = tpc[u]
      /\ UNCHANGED <<inUse, managed, wstate, kills, wmode, tconv, tmode, held, reaping, hostpc, closing>>
  BY <1>1 DEF AcquireEvict, DropEntry, PoolTypeOK, procVars, agentVars
<1> HIDE DEF c, w
<1>4. w = entry[c] /\ NoWorker \notin closing /\ NoWorker \notin reaping
  BY PoolAssumption DEF c, w, PoolTypeOK
<1>5. PcInv'
  BY <1>1, <1>3 DEF Unique, PcInv
<1>6. EntryInv' /\ HeldInv'
  BY <1>1, <1>3 DEF Unique, EntryInv, HeldInv, Running
<1>7. VictimInv' /\ ReapInv'
  BY <1>1, <1>2, <1>3, <1>4 DEF Unique, VictimInv, ReapInv
<1>8. CloseInv'
  BY <1>1, <1>2, <1>3, <1>4 DEF Unique, CloseInv
<1>9. \A v \in Worker : Owned(v)' <=> Owned(v)
  BY <1>1, <1>3, <1>4, PoolAssumption DEF Owned
<1> QED
  BY <1>3, <1>5, <1>6, <1>7, <1>8, <1>9, NoKill DEF Unique

(* A turn kills its victim; from "discard" it goes on to run. *)
LEMMA VictimKillKeeps ==
  ASSUME PoolTypeOK, Unique, KillInv, NEW t \in Turn, AcquireKillEvicted(t) \/ AcquireDiscard(t)
  PROVE  Unique' /\ KillInv'
<1>0. PICK w \in Worker : w = victim[t]
  BY DEF AcquireKillEvicted, AcquireDiscard, PoolTypeOK, Unique, PcInv
<1>1. w # NoWorker /\ tpc[t] \in {"evict", "discard"}
  BY <1>0, PoolAssumption DEF AcquireKillEvicted, AcquireDiscard
<1>2. /\ \A u \in Turn : held[u] # w
      /\ \A u \in Turn \ {t} : victim[u] # w
      /\ \A d \in Conv : entry[d] # w
      /\ w \notin reaping /\ w \notin closing
  BY <1>0, <1>1 DEF Unique, VictimInv, ReapInv, CloseInv
<1>3. /\ victim'[t] = NoWorker /\ \A u \in Turn \ {t} : victim'[u] = victim[u]
      /\ \A u \in Turn \ {t} : tpc'[u] = tpc[u]
      /\ UNCHANGED <<entry, inUse, managed, wmode, tconv, tmode, held, reaping, hostpc, closing>>
  BY <1>1 DEF AcquireKillEvicted, AcquireDiscard, Kill, PoolTypeOK, poolVars, agentVars
<1>4. tpc'[t] = IF tpc[t] = "evict" THEN "spawn" ELSE "running"
  BY DEF AcquireKillEvicted, AcquireDiscard, PoolTypeOK
<1>5. Kill(w)
  BY <1>0 DEF AcquireKillEvicted, AcquireDiscard
<1>6. NoWorker \notin closing /\ NoWorker \notin reaping
  BY PoolAssumption DEF PoolTypeOK
<1>7. PcInv'
  BY <1>1, <1>3, <1>4 DEF Unique, PcInv
<1>8. \A u \in Turn : Running(u)' <=> Running(u)
  BY <1>1, <1>3, <1>4 DEF Running
<1>9. EntryInv' /\ HeldInv'
  BY <1>3, <1>8 DEF Unique, EntryInv, HeldInv
<1>10. VictimInv' /\ ReapInv' /\ CloseInv'
  BY <1>1, <1>3, <1>4, <1>6 DEF Unique, VictimInv, ReapInv, CloseInv
<1>11. Owned(w)
  BY <1>0 DEF Owned
<1>12. ~Owned(w)'
  BY <1>1, <1>2, <1>3 DEF Owned
<1>13. \A v \in Worker \ {w} : Owned(v)' <=> Owned(v)
  BY <1>0, <1>3, PoolAssumption DEF Owned
<1>14. KillInv'
  BY <1>1, <1>3, <1>5, <1>11, <1>12, <1>13, OwnerKills
<1> QED
  BY <1>7, <1>9, <1>10, <1>14 DEF Unique

LEMMA MissKeeps ==
  ASSUME PoolTypeOK, Unique, KillInv, NEW t \in Turn, AcquireMiss(t) \/ SpawnFail(t)
  PROVE  Unique' /\ KillInv'
<1>1. /\ tpc[t] \in {"new", "spawn"} /\ tpc'[t] \in {"spawn", "done"}
      /\ \A u \in Turn \ {t} : tpc'[u] = tpc[u]
      /\ UNCHANGED <<entry, inUse, managed, wstate, kills, wmode, tconv, tmode, held, victim,
                     reaping, hostpc, closing>>
  BY DEF AcquireMiss, SpawnFail, PoolTypeOK, poolVars, procVars, agentVars
<1>2. \A u \in Turn : Running(u)' <=> Running(u)
  BY <1>1 DEF Running
<1>3. Unique'
  BY <1>1, <1>2 DEF Unique, PcInv, EntryInv, HeldInv, VictimInv, ReapInv, CloseInv
<1>4. \A v \in Worker : Owned(v)' <=> Owned(v)
  BY <1>1 DEF Owned
<1> QED
  BY <1>1, <1>3, <1>4, NoKill

LEMMA SpawnKeeps ==
  ASSUME PoolTypeOK, Unique, KillInv, NEW t \in Turn, Spawn(t) PROVE Unique' /\ KillInv'
<1>1. PICK w \in Worker : /\ wstate[w] = "unborn"
                          /\ wstate' = [wstate EXCEPT ![w] = "healthy"]
                          /\ wmode' = [wmode EXCEPT ![w] = tmode[t]]
                          /\ held' = [held EXCEPT ![t] = w]
  BY DEF Spawn
<1>2. /\ w # NoWorker /\ kills[w] = 0 /\ w \notin closing /\ w \notin reaping
      /\ \A u \in Turn : held[u] # w /\ victim[u] # w
      /\ \A d \in Conv : entry[d] # w
      /\ held[t] = NoWorker /\ victim[t] = NoWorker /\ tpc[t] = "spawn"
  BY <1>1, PoolAssumption DEF KillInv, Owned, Spawn, Unique, PcInv
<1>3. /\ tpc'[t] = "recheck" /\ \A u \in Turn \ {t} : tpc'[u] = tpc[u]
      /\ held'[t] = w /\ \A u \in Turn \ {t} : held'[u] = held[u]
      /\ wstate'[w] = "healthy" /\ \A v \in Worker \ {w} : wstate'[v] = wstate[v]
      /\ wmode'[w] = tmode[t] /\ \A v \in Worker \ {w} : wmode'[v] = wmode[v]
      /\ UNCHANGED <<entry, inUse, managed, kills, tconv, tmode, victim, reaping, hostpc, closing>>
  BY <1>1 DEF Spawn, PoolTypeOK, poolVars, agentVars
<1>4. \A u \in Turn : Running(u)' <=> Running(u)
  BY <1>2, <1>3 DEF Running
<1>5. PcInv' /\ VictimInv' /\ ReapInv' /\ CloseInv'
  BY <1>2, <1>3 DEF Unique, PcInv, VictimInv, ReapInv, CloseInv
<1>6. \A c \in Conv : entry[c] # NoWorker => entry[c] \in Worker \ {w}
  BY <1>2 DEF PoolTypeOK
<1>7. \A u \in Turn : held[u] # NoWorker => held[u] \in Worker \ {w}
  BY <1>2 DEF PoolTypeOK
<1>8. EntryInv'
  BY <1>2, <1>3, <1>4, <1>6 DEF Unique, EntryInv
<1>9. HeldInv'
  BY <1>2, <1>3, <1>4, <1>7 DEF Unique, HeldInv
<1>10. Owned(w)' /\ \A v \in Worker \ {w} : Owned(v)' <=> Owned(v)
  BY <1>2, <1>3, PoolAssumption DEF Owned
<1>11. KillInv'
  BY <1>2, <1>3, <1>10 DEF KillInv
<1> QED
  BY <1>5, <1>8, <1>9, <1>11 DEF Unique

LEMMA ReuseKeeps ==
  ASSUME PoolTypeOK, Unique, KillInv, NEW t \in Turn, RecheckReuse(t) PROVE Unique' /\ KillInv'
<1> DEFINE c == tconv[t]
           w == entry[c]
           own == held[t]
<1>1. /\ c \in Conv /\ w \in Worker /\ w # NoWorker /\ ~inUse[c] /\ wmode[w] = tmode[t]
      /\ own \in Worker /\ own # NoWorker /\ victim[t] = NoWorker /\ tpc[t] = "recheck"
  BY PoolAssumption DEF RecheckReuse, Reusable, PoolTypeOK, Unique, PcInv, EntryInv
<1>2. /\ \A u \in Turn : held[u] # w /\ victim[u] # w
      /\ \A d \in Conv \ {c} : entry[d] # w
      /\ w \notin reaping /\ w \notin closing
  BY <1>1 DEF Unique, HeldInv, EntryInv, VictimInv, ReapInv, CloseInv
<1>3. /\ \A u \in Turn \ {t} : held[u] # own
      /\ \A u \in Turn : victim[u] # own
      /\ \A d \in Conv : entry[d] # own
      /\ own \notin reaping /\ own \notin closing
  BY <1>1 DEF Unique, HeldInv, EntryInv, VictimInv, ReapInv, CloseInv, Running
<1>4. /\ held'[t] = w /\ \A u \in Turn \ {t} : held'[u] = held[u]
      /\ victim'[t] = own /\ \A u \in Turn \ {t} : victim'[u] = victim[u]
      /\ tpc'[t] = "discard" /\ \A u \in Turn \ {t} : tpc'[u] = tpc[u]
      /\ inUse'[c] /\ \A d \in Conv \ {c} : inUse'[d] = inUse[d]
      /\ UNCHANGED <<entry, managed, wstate, kills, wmode, tconv, tmode, reaping, hostpc, closing>>
  BY <1>1 DEF RecheckReuse, PoolTypeOK, procVars, agentVars
<1> HIDE DEF c, w, own
<1>5. c = tconv[t] /\ w = entry[c] /\ own = held[t]
  BY DEF c, w, own
<1>6. PcInv'
  BY <1>1, <1>4 DEF Unique, PcInv
<1>7. EntryInv'
  BY <1>1, <1>2, <1>4, <1>5 DEF Unique, EntryInv, Running
<1>8. HeldInv'
  BY <1>1, <1>2, <1>4, <1>5 DEF Unique, HeldInv, Running
<1>9. VictimInv' /\ ReapInv' /\ CloseInv'
  BY <1>1, <1>2, <1>3, <1>4, <1>5 DEF Unique, VictimInv, ReapInv, CloseInv
<1>10. \A v \in Worker : Owned(v)' <=> Owned(v)
  BY <1>1, <1>4, <1>5, PoolAssumption DEF Owned
<1> QED
  BY <1>4, <1>6, <1>7, <1>8, <1>9, <1>10, NoKill DEF Unique

(* The turn puts its own worker into the pool: beside nothing, in place of  *)
(* an entry that keeps its turn, or of one that becomes its victim.        *)
LEMMA InsertKeeps ==
  ASSUME PoolTypeOK, Unique, KillInv, NEW t \in Turn, RecheckInsert(t) \/ RecheckReplace(t)
  PROVE  Unique' /\ KillInv'
<1> DEFINE c == tconv[t]
           old == entry[c]
           own == held[t]
<1>1. /\ c \in Conv /\ own \in Worker /\ own # NoWorker
      /\ victim[t] = NoWorker /\ tpc[t] = "recheck"
      /\ wmode[own] = tmode[t] /\ old \in Worker \cup {NoWorker}
  BY PoolAssumption DEF RecheckInsert, RecheckReplace, PoolTypeOK, Unique, PcInv, HeldInv
<1>2. /\ \A u \in Turn \ {t} : held[u] # own
      /\ \A u \in Turn : victim[u] # own
      /\ \A d \in Conv : entry[d] # own
      /\ own \notin reaping /\ own \notin closing
  BY <1>1 DEF Unique, HeldInv, EntryInv, VictimInv, ReapInv, CloseInv, Running
<1>3. /\ entry'[c] = own /\ \A d \in Conv \ {c} : entry'[d] = entry[d]
      /\ inUse'[c] /\ \A d \in Conv \ {c} : inUse'[d] = inUse[d]
      /\ managed'[c] = tmode[t] /\ \A d \in Conv \ {c} : managed'[d] = managed[d]
      /\ UNCHANGED <<wstate, kills, wmode, tconv, tmode, held, reaping, hostpc, closing>>
      /\ \A u \in Turn \ {t} : tpc'[u] = tpc[u] /\ victim'[u] = victim[u]
  BY <1>1 DEF RecheckInsert, RecheckReplace, SetEntry, PoolTypeOK, procVars, agentVars
<1>4. \/ tpc'[t] = "running" /\ victim' = victim /\ (old = NoWorker \/ inUse[c])
      \/ tpc'[t] = "discard" /\ victim'[t] = old /\ old # NoWorker /\ ~inUse[c]
  BY <1>1 DEF RecheckInsert, RecheckReplace, PoolTypeOK
<1> HIDE DEF c, old, own
<1>5. c = tconv[t] /\ old = entry[c] /\ own = held[t]
  BY DEF c, old, own
<1>6. PcInv'
  BY <1>1, <1>3, <1>4, <1>5 DEF Unique, PcInv
<1>7. Running(t)' /\ ~Running(t) /\ \A u \in Turn \ {t} : Running(u)' <=> Running(u)
  BY <1>1, <1>3, <1>4 DEF Running
<1>8. EntryInv'
  <2>1. \A d, e \in Conv : entry'[d] # NoWorker /\ entry'[d] = entry'[e] => d = e
    BY <1>2, <1>3 DEF Unique, EntryInv
  <2>2. \A d \in Conv : entry'[d] # NoWorker => wmode'[entry'[d]] = managed'[d]
    BY <1>1, <1>3 DEF Unique, EntryInv
  <2>3. \A d \in Conv : entry'[d] # NoWorker /\ inUse'[d] =>
            \E u \in Turn : Running(u)' /\ held'[u] = entry'[d]
    BY <1>1, <1>3, <1>5, <1>7 DEF Unique, EntryInv
  <2> QED
    BY <2>1, <2>2, <2>3 DEF EntryInv
<1>9. HeldInv'
  BY <1>1, <1>2, <1>3, <1>5, <1>7 DEF Unique, HeldInv
<1>10. /\ old # NoWorker => /\ \A d \in Conv \ {c} : entry[d] # old
                            /\ \A u \in Turn : victim[u] # old
                            /\ old \notin reaping /\ old \notin closing
       /\ old # NoWorker /\ ~inUse[c] => \A u \in Turn : held[u] # old
       /\ old # NoWorker /\ inUse[c] => \E u \in Turn : held[u] = old
  BY <1>1, <1>5 DEF Unique, EntryInv, HeldInv, VictimInv, ReapInv, CloseInv
<1>11. VictimInv'
  BY <1>1, <1>2, <1>3, <1>4, <1>5, <1>10 DEF Unique, VictimInv
<1>12. ReapInv' /\ CloseInv'
  BY <1>1, <1>2, <1>3, <1>4, <1>5, <1>10 DEF Unique, ReapInv, CloseInv
<1>13. \A v \in Worker : Owned(v)' <=> Owned(v)
  BY <1>1, <1>3, <1>4, <1>5, <1>10, PoolAssumption DEF Owned
<1> QED
  BY <1>3, <1>6, <1>8, <1>9, <1>11, <1>12, <1>13, NoKill DEF Unique

LEMMA ReleaseWarmKeeps ==
  ASSUME PoolTypeOK, Unique, KillInv, NEW t \in Turn, ReleaseWarm(t) PROVE Unique' /\ KillInv'
<1>0. PICK c \in Conv, w \in Worker : c = tconv[t] /\ w = entry[c] /\ w = held[t]
  BY DEF ReleaseWarm, PoolTypeOK, Unique, PcInv
<1>1. w # NoWorker /\ tpc[t] = "running" /\ victim[t] = NoWorker
  BY PoolAssumption DEF ReleaseWarm, Unique, PcInv
<1>2. /\ \A u \in Turn \ {t} : held[u] # w
      /\ \A d \in Conv \ {c} : entry[d] # w
  BY <1>0, <1>1 DEF Unique, HeldInv, EntryInv
<1>3. /\ held'[t] = NoWorker /\ \A u \in Turn \ {t} : held'[u] = held[u]
      /\ tpc'[t] = "done" /\ \A u \in Turn \ {t} : tpc'[u] = tpc[u]
      /\ ~inUse'[c] /\ \A d \in Conv \ {c} : inUse'[d] = inUse[d]
      /\ UNCHANGED <<entry, managed, wstate, kills, wmode, tconv, tmode, victim, reaping, hostpc, closing>>
  BY <1>0 DEF ReleaseWarm, PoolTypeOK, procVars, agentVars
<1>4. PcInv'
  BY <1>1, <1>3 DEF Unique, PcInv
<1>5. EntryInv'
  BY <1>0, <1>1, <1>2, <1>3 DEF Unique, EntryInv, Running
<1>6. HeldInv'
  <2>1. \A u \in Turn : held'[u] # NoWorker => u # t /\ held'[u] = held[u] /\ held[u] # w
    BY <1>2, <1>3
  <2>2. \A u \in Turn, d \in Conv : held'[u] # NoWorker /\ held'[u] = entry'[d] =>
            Running(u)' /\ tconv'[u] = d /\ inUse'[d]
    <3> SUFFICES ASSUME NEW u \in Turn, NEW d \in Conv,
                        held'[u] # NoWorker, held'[u] = entry'[d]
                 PROVE  Running(u)' /\ tconv'[u] = d /\ inUse'[d]
      OBVIOUS
    <3>1. u # t /\ held[u] = entry[d] /\ held[u] # NoWorker /\ held[u] # w
      BY <1>3, <2>1
    <3>2. d # c
      BY <1>0, <3>1
    <3>3. Running(u) /\ tconv[u] = d /\ inUse[d]
      BY <3>1 DEF Unique, HeldInv
    <3> QED
      BY <1>3, <3>1, <3>2, <3>3 DEF Running
  <2> QED
    BY <1>3, <2>1, <2>2 DEF Unique, HeldInv
<1>7. VictimInv' /\ ReapInv' /\ CloseInv'
  <2>1. NoWorker \notin reaping /\ NoWorker \notin closing
    BY PoolAssumption DEF PoolTypeOK
  <2>2. VictimInv'
    BY <1>3 DEF Unique, VictimInv
  <2> QED
    BY <1>3, <2>1, <2>2 DEF Unique, ReapInv, CloseInv
<1>8. \A v \in Worker : Owned(v)' <=> Owned(v)
  BY <1>0, <1>3, PoolAssumption, ZenonT(40) DEF Owned
<1> QED
  BY <1>3, <1>4, <1>5, <1>6, <1>7, <1>8, NoKill DEF Unique

(* The worker leaves the pool, or had left it, before it is killed. *)
LEMMA DropKeeps ==
  ASSUME PoolTypeOK, Unique, KillInv, NEW t \in Turn, ReleaseUnhealthy(t) \/ ReleaseDisplaced(t)
  PROVE  Unique' /\ KillInv'
<1>0. PICK c \in Conv, w \in Worker : c = tconv[t] /\ w = held[t]
  BY DEF ReleaseUnhealthy, ReleaseDisplaced, PoolTypeOK, Unique, PcInv
<1>1. w # NoWorker /\ tpc[t] = "running" /\ victim[t] = NoWorker
  BY PoolAssumption DEF ReleaseUnhealthy, ReleaseDisplaced, Unique, PcInv
<1>2. /\ \A u \in Turn \ {t} : held[u] # w
      /\ \A d \in Conv \ {c} : entry[d] # w
  BY <1>0, <1>1 DEF Unique, HeldInv
<1>3. /\ tpc'[t] = "drop" /\ \A u \in Turn \ {t} : tpc'[u] = tpc[u]
      /\ \A d \in Conv \ {c} : entry'[d] = entry[d]
      /\ UNCHANGED <<inUse, managed, wstate, kills, wmode, tconv, tmode, held, victim, reaping,
                     hostpc, closing>>
  BY <1>0 DEF ReleaseUnhealthy, ReleaseDisplaced, DropEntry, PoolTypeOK, poolVars, procVars, agentVars
<1>4. /\ entry'[c] # w
      /\ entry[c] = w => entry'[c] = NoWorker
      /\ entry[c] # w => entry'[c] = entry[c]
  BY <1>0, <1>1 DEF ReleaseUnhealthy, ReleaseDisplaced, DropEntry, PoolTypeOK, poolVars
<1>5. PcInv'
  BY <1>1, <1>3 DEF Unique, PcInv
<1>6. \A u \in Turn \ {t} : Running(u)' <=> Running(u)
  BY <1>3 DEF Running
<1>7. \A d \in Conv : entry'[d] # NoWorker => entry'[d] = entry[d] /\ entry[d] # w
  BY <1>2, <1>3, <1>4
<1>8. EntryInv'
  <2>1. \A d \in Conv : entry'[d] # NoWorker /\ inUse'[d] =>
            \E u \in Turn : Running(u)' /\ held'[u] = entry'[d]
    BY <1>0, <1>3, <1>6, <1>7 DEF Unique, EntryInv
  <2>2. \A d, e \in Conv : entry'[d] # NoWorker /\ entry'[d] = entry'[e] => d = e
    BY <1>3, <1>7 DEF Unique, EntryInv
  <2>3. \A d \in Conv : entry'[d] # NoWorker => wmode'[entry'[d]] = managed'[d]
    BY <1>3, <1>7 DEF Unique, EntryInv
  <2> QED
    BY <2>1, <2>2, <2>3 DEF EntryInv
<1>9. HeldInv'
  BY <1>0, <1>3, <1>6, <1>7 DEF Unique, HeldInv
<1>10. \A d \in Conv : entry'[d] = entry[d] \/ entry'[d] = NoWorker
  BY <1>3, <1>4
<1>11. VictimInv' /\ ReapInv' /\ CloseInv'
  <2>1. NoWorker \notin reaping /\ NoWorker \notin closing
    BY PoolAssumption DEF PoolTypeOK
  <2> QED
    BY <1>3, <1>10, <2>1 DEF Unique, VictimInv, ReapInv, CloseInv
<1>12. \A v \in Worker : Owned(v)' <=> Owned(v)
  BY <1>0, <1>3, <1>4, PoolAssumption DEF Owned
<1> QED
  BY <1>3, <1>5, <1>8, <1>9, <1>11, <1>12, NoKill DEF Unique

LEMMA ReleaseKillKeeps ==
  ASSUME PoolTypeOK, Unique, KillInv, NEW t \in Turn, ReleaseKill(t) PROVE Unique' /\ KillInv'
<1>0. PICK w \in Worker : w = held[t]
  BY DEF ReleaseKill, PoolTypeOK, Unique, PcInv
<1>1. w # NoWorker /\ tpc[t] = "drop" /\ victim[t] = NoWorker
  BY PoolAssumption DEF ReleaseKill, Unique, PcInv
<1>2. /\ \A u \in Turn \ {t} : held[u] # w
      /\ \A u \in Turn : victim[u] # w
      /\ \A d \in Conv : entry[d] # w
      /\ w \notin reaping
  BY <1>0, <1>1 DEF Unique, HeldInv, VictimInv, ReapInv, Running
<1>3. /\ held'[t] = NoWorker /\ \A u \in Turn \ {t} : held'[u] = held[u]
      /\ tpc'[t] = "done" /\ \A u \in Turn \ {t} : tpc'[u] = tpc[u]
      /\ UNCHANGED <<entry, inUse, managed, wmode, tconv, tmode, victim, reaping, hostpc, closing>>
  BY DEF ReleaseKill, Kill, PoolTypeOK, poolVars, agentVars
<1>4. Kill(w)
  BY <1>0 DEF ReleaseKill
<1>5. PcInv'
  BY <1>1, <1>3 DEF Unique, PcInv
<1>6. \A u \in Turn : Running(u)' <=> Running(u)
  BY <1>1, <1>3 DEF Running
<1>7. EntryInv'
  BY <1>0, <1>2, <1>3, <1>6 DEF Unique, EntryInv
<1>8. HeldInv'
  BY <1>3, <1>6 DEF Unique, HeldInv
<1>9. VictimInv' /\ ReapInv' /\ CloseInv'
  BY <1>3, PoolAssumption DEF Unique, VictimInv, ReapInv, CloseInv, PoolTypeOK
<1>10. Owned(w) /\ ~Owned(w)'
  BY <1>0, <1>1, <1>2, <1>3 DEF Owned
<1>11. \A v \in Worker \ {w} : Owned(v)' <=> Owned(v)
  BY <1>0, <1>3, PoolAssumption DEF Owned
<1>12. KillInv'
  BY <1>3, <1>4, <1>10, <1>11, OwnerKills
<1> QED
  BY <1>5, <1>7, <1>8, <1>9, <1>12 DEF Unique

-----------------------------------------------------------------------------
(* reapIdle removes entries that nobody uses. *)
LEMMA ReapScanKeeps ==
  ASSUME PoolTypeOK, Unique, KillInv, ReapScan PROVE Unique' /\ KillInv'
<1> DEFINE C == {c \in Conv : entry[c] # NoWorker /\ ~inUse[c] /\ expired[c]}
<1>1. PICK R \in SUBSET Conv :
          /\ Retire(R, {entry[c] : c \in R})
          /\ \A c \in R : entry[c] # NoWorker /\ ~inUse[c]
  BY DEF ReapScan
<1>2. /\ reaping = {} /\ reaping' = {entry[c] : c \in R}
      /\ \A c \in Conv : entry'[c] = IF c \in R THEN NoWorker ELSE entry[c]
      /\ UNCHANGED <<inUse, managed, wstate, kills, wmode, tpc, tconv, tmode, held, victim,
                     hostpc, closing>>
  BY <1>1 DEF Retire, procVars, turnVars
<1>3. \A w \in reaping' : w # NoWorker /\ \E c \in R : w = entry[c]
  BY <1>1, <1>2
<1>4. \A t \in Turn : Running(t)' <=> Running(t)
  BY <1>2 DEF Running
<1>5. PcInv' /\ EntryInv' /\ HeldInv'
  BY <1>2, <1>4 DEF Unique, PcInv, EntryInv, HeldInv
<1>6. VictimInv'
  BY <1>2 DEF Unique, VictimInv
<1>7. ReapInv'
  BY <1>1, <1>2, <1>3 DEF Unique, EntryInv, HeldInv, VictimInv, ReapInv
<1>8. CloseInv'
  BY <1>1, <1>2, <1>3, PoolAssumption DEF Unique, CloseInv, PoolTypeOK
<1>9. \A v \in Worker : Owned(v)' <=> Owned(v)
  BY <1>1, <1>2, PoolAssumption DEF Owned
<1> QED
  BY <1>2, <1>5, <1>6, <1>7, <1>8, <1>9, NoKill DEF Unique

LEMMA ReapKillKeeps ==
  ASSUME PoolTypeOK, Unique, KillInv, NEW w \in Worker, ReapKill(w) PROVE Unique' /\ KillInv'
<1>1. /\ w \in reaping /\ reaping' = reaping \ {w} /\ Kill(w)
      /\ UNCHANGED <<entry, inUse, managed, wmode, tpc, tconv, tmode, held, victim, hostpc, closing>>
  BY DEF ReapKill, Kill, poolVars, turnVars
<1>2. \A t \in Turn : Running(t)' <=> Running(t)
  BY <1>1 DEF Running
<1>3. Unique'
  BY <1>1, <1>2 DEF Unique, PcInv, EntryInv, HeldInv, VictimInv, ReapInv, CloseInv
<1>4. Owned(w) /\ ~Owned(w)'
  BY <1>1 DEF Owned, Unique, ReapInv
<1>5. \A v \in Worker \ {w} : Owned(v)' <=> Owned(v)
  BY <1>1 DEF Owned
<1> QED
  BY <1>1, <1>3, <1>4, <1>5, OwnerKills

(* Shutdown takes over what is in the pool; a worker in use keeps its turn. *)
LEMMA ShutdownKeeps ==
  ASSUME PoolTypeOK, Unique, KillInv, Shutdown PROVE Unique' /\ KillInv'
<1>1. /\ hostpc = "serving" /\ hostpc' = "closing" /\ closing = {}
      /\ closing' = {entry[c] : c \in Conv} \ {NoWorker}
      /\ \A c \in Conv : entry'[c] = NoWorker
      /\ UNCHANGED <<inUse, managed, wstate, kills, wmode, tpc, tconv, tmode, held, victim, reaping>>
  BY DEF Shutdown, procVars, turnVars, Unique, CloseInv
<1>2. \A w \in closing' : w # NoWorker /\ \E c \in Conv : w = entry[c]
  BY <1>1
<1>3. \A t \in Turn : Running(t)' <=> Running(t)
  BY <1>1 DEF Running
<1>4. PcInv' /\ EntryInv' /\ HeldInv' /\ VictimInv'
  BY <1>1, <1>3 DEF Unique, PcInv, EntryInv, HeldInv, VictimInv
<1>5. ReapInv'
  BY <1>1, PoolAssumption DEF Unique, ReapInv, PoolTypeOK
<1>6. CloseInv'
  BY <1>1, <1>2 DEF Unique, HeldInv, VictimInv, ReapInv, CloseInv, Running
<1>7. \A w \in Worker : Owned(w)' => Owned(w)
  BY <1>1, PoolAssumption DEF Owned
<1>8. \A w \in Worker : Owned(w) => Owned(w)' \/ w \in closing'
  BY <1>1, PoolAssumption DEF Owned
<1>9. \A w \in closing' : Owned(w)
  BY <1>2 DEF Owned
<1>10. KillInv'
  BY <1>1, <1>7, <1>8, <1>9 DEF KillInv
<1> QED
  BY <1>4, <1>5, <1>6, <1>10 DEF Unique

LEMMA ShutdownKillKeeps ==
  ASSUME PoolTypeOK, Unique, KillInv, NEW w \in Worker, ShutdownKill(w) PROVE Unique' /\ KillInv'
<1>1. /\ hostpc = "closing" /\ w \in closing /\ closing' = closing \ {w} /\ Kill(w)
      /\ UNCHANGED <<entry, inUse, managed, wmode, tpc, tconv, tmode, held, victim, reaping, hostpc>>
  BY DEF ShutdownKill, Kill, poolVars, turnVars
<1>2. \A t \in Turn : Running(t)' <=> Running(t)
  BY <1>1 DEF Running
<1>3. Unique'
  BY <1>1, <1>2 DEF Unique, PcInv, EntryInv, HeldInv, VictimInv, ReapInv, CloseInv
<1>4. \A v \in Worker : Owned(v)' <=> Owned(v)
  BY <1>1 DEF Owned
<1> QED
  BY <1>1, <1>3, <1>4, ShutdownKills

(* Expiry, a failing worker and the end of Shutdown change no owner. *)
LEMMA QuietKeeps ==
  ASSUME PoolTypeOK, Unique, KillInv,
         (\E c \in Conv : Expire(c)) \/ (\E w \in Worker : WorkerFails(w)) \/ ShutdownEnd
  PROVE  Unique' /\ KillInv'
<1>1. /\ UNCHANGED <<entry, inUse, managed, kills, wmode, tpc, tconv, tmode, held, victim, reaping,
                     closing>>
      /\ (hostpc' = "serving") <=> (hostpc = "serving")
  BY DEF Expire, WorkerFails, ShutdownEnd, poolVars, procVars, turnVars, agentVars
<1>2. \A w \in Worker : \/ wstate'[w] = wstate[w]
                        \/ /\ wstate[w] \in {"healthy", "exited"}
                           /\ wstate'[w] \in {"exited", "unhealthy"}
  BY DEF Expire, WorkerFails, ShutdownEnd, poolVars, procVars, turnVars, agentVars, PoolTypeOK
<1>3. \A t \in Turn : Running(t)' <=> Running(t)
  BY <1>1 DEF Running
<1>4. Unique'
  BY <1>1, <1>3 DEF Unique, PcInv, EntryInv, HeldInv, VictimInv, ReapInv, CloseInv
<1>5. \A v \in Worker : Owned(v)' <=> Owned(v)
  BY <1>1 DEF Owned
<1>6. KillInv'
  BY <1>1, <1>2, <1>5 DEF KillInv
<1> QED
  BY <1>4, <1>6

-----------------------------------------------------------------------------
LEMMA Ownership == PoolSpec => [](PoolTypeOK /\ Unique /\ KillInv)
<1>1. PoolInit => Unique /\ KillInv
  BY PoolAssumption DEF PoolInit, Unique, PcInv, EntryInv, HeldInv, VictimInv, ReapInv, CloseInv,
     KillInv, Owned
<1>2. PoolTypeOK /\ Unique /\ KillInv /\ [PoolNext]_allVars => Unique' /\ KillInv'
  <2> SUFFICES ASSUME PoolTypeOK, Unique, KillInv, [PoolNext]_allVars PROVE Unique' /\ KillInv'
    OBVIOUS
  <2>1. ASSUME NEW t \in Turn, Acquire(t) PROVE Unique' /\ KillInv'
    BY <2>1, WarmKeeps, EvictKeeps, VictimKillKeeps, MissKeeps, SpawnKeeps, ReuseKeeps, InsertKeeps
       DEF Acquire
  <2>2. ASSUME NEW t \in Turn, Release(t) PROVE Unique' /\ KillInv'
    BY <2>2, ReleaseWarmKeeps, DropKeeps, ReleaseKillKeeps DEF Release
  <2>3. CASE AgentStep
    BY <2>3, ReapScanKeeps, ReapKillKeeps, ShutdownKeeps, ShutdownKillKeeps, QuietKeeps
       DEF AgentStep, Reaper
  <2>4. CASE UNCHANGED allVars
    BY <2>4 DEF allVars, poolVars, procVars, turnVars, agentVars, Unique, PcInv, EntryInv, HeldInv,
                VictimInv, ReapInv, CloseInv, KillInv, Owned, Running
  <2> QED
    BY <2>1, <2>2, <2>3, <2>4 DEF PoolNext, AgentStep
<1> QED
  BY <1>1, <1>2, TypeCorrect, PTL DEF PoolSpec

(* A worker serves one turn at a time and one mode for its life; only its    *)
(* own turn or a host that shuts down kills it; and it is signalled once,   *)
(* twice at most when the host shuts down.                                 *)
THEOREM WorkerHasOneTurn == PoolSpec => []TurnOwnsWorker
<1>1. PoolTypeOK /\ Unique /\ KillInv => TurnOwnsWorker
  <2> SUFFICES ASSUME PoolTypeOK, Unique, KillInv PROVE TurnOwnsWorker
    OBVIOUS
  <2>1. \A t \in Turn : Running(t) => held[t] \in Worker /\ held[t] # NoWorker
    BY DEF Running, Unique, PcInv, PoolTypeOK
  <2>2. NoSharedWorker
    BY <2>1 DEF NoSharedWorker, Unique, HeldInv
  <2>3. \A t \in Turn : Running(t) => Owned(held[t])
    BY DEF Owned
  <2>4. LiveTurnKeepsWorker
    BY <2>1, <2>3 DEF LiveTurnKeepsWorker, Unique, ReapInv, KillInv
  <2> QED
    BY <2>2, <2>4 DEF TurnOwnsWorker
<1> QED
  BY <1>1, Ownership, PTL

(* No worker that was spawned is ever out of reach of those who kill it, and *)
(* no entry stays in use without a turn.                                   *)
THEOREM EveryWorkerIsOwned == PoolSpec => []NoForgottenWorker
<1>1. PoolTypeOK /\ Unique /\ KillInv => NoForgottenWorker
  BY DEF NoForgottenWorker, Unique, EntryInv, KillInv, Owned
<1> QED
  BY <1>1, Ownership, PTL

-----------------------------------------------------------------------------
(***************************************************************************)
(* One turn in a worker                                                    *)
(***************************************************************************)


UpMsg == [kind : {"note"}, n : Nat] \cup [kind : {"ensure", "request"}, call : Call]
             \cup [kind : {"done", "error"}]
DownMsg == [kind : {"ok", "no", "piece"}, call : Call]

\* What the callers have.
CallTypes ==
    /\ kind \in [Call -> Kinds]
    /\ call \in [Call -> {"new", "ready", "waiting", "telling", "ok", "failed"}]
    /\ pending \subseteq Call /\ slot \in [Call -> {"none", "ok", "no"}]
    /\ stash \in [Call -> 0..(StashCap + 1)]
\* What is between them and the host.
QueueTypes ==
    /\ buf \in Seq(UpMsg) /\ up \in Seq(UpMsg) /\ down \in Seq(DownMsg) /\ todo \in Seq(DownMsg)
    /\ Len(buf) <= BufCap /\ Len(up) <= Window /\ Len(down) <= Window /\ Len(todo) <= 1
\* What the host has, and what becomes of the turn.
HostTypes ==
    /\ worker \in {"running", "flushing", "ended", "gone"}
    /\ alive \in BOOLEAN /\ ctx \in BOOLEAN /\ turnDone \in BOOLEAN
    /\ host \in {"recv", "reply", "stop", "over"} /\ verdict \in {"none", "result", "failed"}
    /\ helper \in [Call -> {"none", "working", "ok", "no"}] /\ given \in [Call -> 0..Pieces]
    /\ scope \subseteq Call /\ applied \subseteq Call
    /\ refused \subseteq Call /\ orphan \subseteq Call
    /\ said \in Nat /\ heard \in Seq(Nat)

Types == kind \in Mixes /\ CallTypes /\ QueueTypes /\ HostTypes

\* What the worker has sent and the host has not received, oldest first.
Pipe == up \o buf

\* The conversation of c was announced before the message at i.
Announced(c, i) ==
    \/ c \in scope \cup orphan
    \/ \E j \in 1..(i - 1) : Pipe[j].kind = "ensure" /\ Pipe[j].call = c
\* Note n was heard last, or is before the message at i.
NoteBefore(n, i) ==
    \/ n = Len(heard)
    \/ \E j \in 1..(i - 1) : Pipe[j].kind = "note" /\ Pipe[j].n = n

Requested(c) == \E i \in 1..Len(Pipe) : Pipe[i].kind = "request" /\ Pipe[i].call = c

\* The order of the messages in the pipe: nothing follows the end of the turn,
EndInv == \A i \in 1..Len(Pipe) :
    Pipe[i].kind \in {"done", "error"} => i = Len(Pipe) /\ worker = "gone"
\* evidence follows its conversation,
RequestInv == \A i \in 1..Len(Pipe) : Pipe[i].kind = "request" =>
    /\ call[Pipe[i].call] \notin {"new", "ready"}
    /\ kind[Pipe[i].call] = "event" => Announced(Pipe[i].call, i)
\* a call is asked for once,
OnceInv == \A i, j \in 1..Len(Pipe) :
    Pipe[i].kind = "request" /\ Pipe[j].kind = "request" /\ Pipe[i].call = Pipe[j].call => i = j
\* notes rise and leave no number out.
NoteInv == \A i \in 1..Len(Pipe) : Pipe[i].kind = "note" =>
    /\ Pipe[i].n > Len(heard) /\ Pipe[i].n <= said
    /\ NoteBefore(Pipe[i].n - 1, i)
OrderInv == \A i, j \in 1..Len(Pipe) :
    i < j /\ Pipe[i].kind = "note" /\ Pipe[j].kind = "note" => Pipe[i].n < Pipe[j].n

PipeInv == EndInv /\ RequestInv /\ OnceInv /\ NoteInv /\ OrderInv

\* What a worker nobody cancelled has said is in the pipe or heard.
SayInv ==
    /\ Len(heard) <= said
    /\ alive /\ ~ctx =>
          /\ NoteBefore(said, Len(Pipe) + 1)
          /\ \A c \in Call : call[c] = "ready" => Announced(c, Len(Pipe) + 1)
    /\ \A i \in 1..Len(Pipe) : Pipe[i].kind = "done" /\ ~ctx => NoteBefore(said, i)

\* Where the worker is: its calls have ended when its runner returns, and its
\* queue is empty when close does.
LifeInv ==
    /\ ~alive => worker = "gone"
    /\ worker \in {"ended", "gone"} => buf = << >>
    /\ alive /\ worker # "running" => \A c \in Call : Settled(c)
\* What follows when the turn is done.
DoneInv ==
    /\ \A i \in 1..Len(Pipe) : Pipe[i].kind = "done" => \A c \in Call : Settled(c)
    /\ turnDone => worker = "gone" /\ up = << >> /\ \A c \in Call : Settled(c)
\* Where the drain loop is.
LoopInv ==
    /\ host = "over" <=> verdict # "none"
    /\ host = "reply" => Len(todo) = 1 /\ ~turnDone
    /\ host # "reply" => todo = << >>
    /\ verdict = "result" => turnDone

WorkInv == LifeInv /\ DoneInv /\ LoopInv

\* The host has not got to c yet.
Open(c) == call[c] \in {"new", "ready"} \/ Requested(c)
\* The host has not carried c out.
Undone(c) == Open(c) \/ helper[c] = "working"
\* Nothing of an answer to c, pieces aside.
Unanswered(c) ==
    /\ slot[c] = "none"
    /\ \A i \in 1..Len(todo) : todo[i].call # c
    /\ \A i \in 1..Len(down) : down[i].call = c => down[i].kind = "piece"

\* A call is handed over once, answered after that, and told ok when it was
\* carried out.
OpenInv == \A c \in Call : Open(c) => helper[c] = "none"
AnswerInv == \A c \in Call : Undone(c) => Unanswered(c)
AppliedInv == \A c \in Call :
    /\ helper[c] = "ok" \/ slot[c] = "ok" => c \in applied
    /\ \A i \in 1..Len(todo) : todo[i].call = c /\ todo[i].kind = "ok" => c \in applied
    /\ \A i \in 1..Len(down) : down[i].call = c /\ down[i].kind = "ok" => c \in applied

\* Whoever stopped waiting without being cancelled may do so.
LeftInv == \A c \in Call : ~ctx /\ call[c] \in {"ok", "failed"} /\ Undone(c) => c \in Impatient

\* A turn that has its result left nothing behind.
ResultInv ==
    turnDone /\ (host = "recv" \/ verdict = "result") =>
        /\ Len(heard) = said
        /\ \A c \in Call : helper[c] = "working" => c \in Impatient

StreamInv ==
    /\ Types /\ PipeInv /\ SayInv /\ WorkInv
    /\ OpenInv /\ AnswerInv /\ AppliedInv /\ LeftInv /\ ResultInv
    /\ refused \subseteq orphan

-----------------------------------------------------------------------------
(* Messages *)

LEMMA UpMessages ==
  /\ \A m \in UpMsg : /\ m.kind \in {"note", "ensure", "request", "done", "error"}
                      /\ m.kind = "note" => m.n \in Nat
                      /\ m.kind \in {"ensure", "request"} => m.call \in Call
  /\ \A n \in Nat : Note(n) \in UpMsg /\ Note(n).kind = "note" /\ Note(n).n = n
  /\ \A c \in Call, k \in {"ensure", "request"} :
        Msg(k, c) \in UpMsg /\ Msg(k, c).kind = k /\ Msg(k, c).call = c
  /\ \A k \in {"done", "error"} : [kind |-> k] \in UpMsg /\ [kind |-> k].kind = k
<1>1. ASSUME NEW m \in UpMsg
      PROVE  /\ m.kind \in {"note", "ensure", "request", "done", "error"}
             /\ m.kind = "note" => m.n \in Nat
             /\ m.kind \in {"ensure", "request"} => m.call \in Call
  <2>1. CASE m \in [kind : {"note"}, n : Nat]
    BY <2>1
  <2>2. CASE m \in [kind : {"ensure", "request"}, call : Call]
    BY <2>2
  <2>3. CASE m \in [kind : {"done", "error"}]
    BY <2>3
  <2> QED BY <1>1, <2>1, <2>2, <2>3 DEF UpMsg
<1>2. ASSUME NEW n \in Nat PROVE Note(n) \in UpMsg /\ Note(n).kind = "note" /\ Note(n).n = n
  <2>1. Note(n) \in [kind : {"note"}, n : Nat]
    BY DEF Note
  <2> QED BY <2>1 DEF UpMsg, Note
<1>3. ASSUME NEW c \in Call, NEW k \in {"ensure", "request"}
      PROVE  Msg(k, c) \in UpMsg /\ Msg(k, c).kind = k /\ Msg(k, c).call = c
  <2>1. Msg(k, c) \in [kind : {"ensure", "request"}, call : Call]
    BY DEF Msg
  <2> QED BY <2>1 DEF UpMsg, Msg
<1>4. ASSUME NEW k \in {"done", "error"} PROVE [kind |-> k] \in UpMsg /\ [kind |-> k].kind = k
  <2>1. [kind |-> k] \in [kind : {"done", "error"}]
    OBVIOUS
  <2> QED BY <2>1 DEF UpMsg
<1> QED BY <1>1, <1>2, <1>3, <1>4

LEMMA DownMessages ==
  /\ \A m \in DownMsg : m.kind \in {"ok", "no", "piece"} /\ m.call \in Call
  /\ \A c \in Call, k \in {"ok", "no", "piece"} :
        Answer(c, k) \in DownMsg /\ Answer(c, k).kind = k /\ Answer(c, k).call = c
BY DEF DownMsg, Answer

\* The first message of a queue and the rest.
LEMMA FirstAndRest ==
  ASSUME NEW S, NEW q \in Seq(S), q # << >>
  PROVE  /\ Head(q) \in S /\ Tail(q) \in Seq(S) /\ Head(q) = q[1]
         /\ Len(q) \in Nat /\ Len(q) >= 1 /\ Len(Tail(q)) = Len(q) - 1
         /\ \A i \in 1..Len(Tail(q)) : Tail(q)[i] = q[i + 1]
OBVIOUS

LEMMA PutTypes ==
  ASSUME Types, NEW m \in UpMsg, Put(m)
  PROVE  buf' \in Seq(UpMsg) /\ Len(buf') <= BufCap
<1>1. /\ buf \in Seq(UpMsg) /\ Len(buf) <= BufCap /\ Len(buf) \in Nat /\ BufCap \in Nat
  BY StreamAssumption DEF Types, QueueTypes
<1>2. Append(buf, m) \in Seq(UpMsg) /\ Len(Append(buf, m)) = Len(buf) + 1
  BY <1>1
<1> QED BY <1>1, <1>2 DEF Put

\* What is appended to a queue.
LEMMA Added ==
  ASSUME NEW S, NEW q \in Seq(S), NEW m \in S, NEW cap \in Nat, Len(q) < cap
  PROVE  Append(q, m) \in Seq(S) /\ Len(Append(q, m)) <= cap
<1>1. Append(q, m) \in Seq(S) /\ Len(Append(q, m)) = Len(q) + 1 /\ Len(q) \in Nat
  OBVIOUS
<1> QED BY <1>1

LEMMA QueueTypesStep ==
  ASSUME Types, Next,
         host = "reply" => Len(todo) = 1
  PROVE  QueueTypes'
<1> USE DEF callVars, workerVars, hostVars, helpVars, histVars
<1>0. /\ buf \in Seq(UpMsg) /\ up \in Seq(UpMsg) /\ down \in Seq(DownMsg) /\ todo \in Seq(DownMsg)
      /\ Len(buf) <= BufCap /\ Len(up) <= Window /\ Len(down) <= Window /\ Len(todo) <= 1
      /\ BufCap \in Nat /\ Window \in Nat /\ Len(buf) \in Nat /\ Len(up) \in Nat /\ Len(down) \in Nat
      /\ << >> \in Seq(UpMsg) /\ << >> \in Seq(DownMsg) /\ Len(<< >>) = 0 /\ 0 <= BufCap /\ 0 <= Window /\ 0 <= 1
  BY StreamAssumption DEF Types, QueueTypes
<1>1. ASSUME NEW c \in Call, Announce(c) \/ Ask(c) \/ Tell(c) PROVE QueueTypes'
  <2>1. PICK m \in UpMsg : Put(m)
    <3>1. Note(said + 1) \in UpMsg
      BY UpMessages DEF Types, HostTypes
    <3>2. Msg("ensure", c) \in UpMsg /\ Msg("request", c) \in UpMsg
      BY UpMessages
    <3> QED BY <1>1, <3>1, <3>2 DEF Announce, Ask, Tell, PutNote
  <2>2. buf' \in Seq(UpMsg) /\ Len(buf') <= BufCap
    BY <2>1, PutTypes
  <2> QED BY <1>0, <1>1, <2>2 DEF QueueTypes, Announce, Ask, Tell
<1>2. ASSUME NEW c \in Call, Return(c) \/ GiveUp(c) \/ NextPiece(c) \/ Operate(c) PROVE QueueTypes'
  BY <1>0, <1>2 DEF QueueTypes, Return, GiveUp, End, NextPiece, Operate
<1>3. ASSUME NEW c \in Call, Stream(c) \/ Respond(c) PROVE QueueTypes'
  <2>1. UNCHANGED <<buf, up, todo>>
    BY <1>3 DEF Stream, Respond
  <2>2. PICK m \in DownMsg : Send(m)
    <3>1. helper[c] \in {"ok", "no"} => Answer(c, helper[c]) \in DownMsg
      BY DownMessages
    <3> QED BY <1>3, <3>1, DownMessages DEF Stream, Respond
  <2>3. down' \in Seq(DownMsg) /\ Len(down') <= Window
    <3>1. CASE Broken
      BY <1>0, <2>2, <3>1 DEF Send
    <3>2. CASE ~Broken
      BY <1>0, <2>2, <3>2, Added DEF Send
    <3> QED BY <3>1, <3>2
  <2> QED BY <1>0, <2>1, <2>3 DEF QueueTypes
<1>4. CASE Transmit
  <2>1. Head(buf) \in UpMsg /\ Tail(buf) \in Seq(UpMsg) /\ Len(Tail(buf)) <= BufCap
    BY <1>0, <1>4, FirstAndRest DEF Transmit
  <2>2. up' \in Seq(UpMsg) /\ Len(up') <= Window
    BY <1>0, <1>4, <2>1, Added DEF Transmit
  <2> QED BY <1>0, <1>4, <2>1, <2>2 DEF QueueTypes, Transmit
<1>5. CASE Route
  <2>1. Tail(down) \in Seq(DownMsg) /\ Len(Tail(down)) <= Window
    BY <1>0, <1>5, FirstAndRest DEF Route
  <2> QED BY <1>0, <1>5, <2>1 DEF QueueTypes, Route
<1>6. CASE Finish \/ Flushed
  BY <1>0, <1>6 DEF QueueTypes, Finish, Flushed
<1>7. CASE Terminal
  <2>1. up' \in Seq(UpMsg) /\ Len(up') <= Window
    <3>1. CASE up' = up
      BY <1>0, <3>1
    <3>2. CASE up' # up
      <4>1. PICK k \in {"done", "error"} : up' = Append(up, [kind |-> k])
        BY <1>7, <3>2 DEF Terminal
      <4>2. Len(up) < Window
        BY <1>7, <3>2 DEF Terminal
      <4> QED BY <1>0, <4>1, <4>2, UpMessages, Added
    <3> QED BY <3>1, <3>2
  <2> QED BY <1>0, <1>7, <2>1 DEF QueueTypes, Terminal
<1>8. CASE Crash \/ Cancel \/ Stop
  BY <1>0, <1>8 DEF QueueTypes, Crash, Die, Cancel, Stop, Fail
<1>9. ASSUME up # << >> PROVE Head(up) \in UpMsg /\ Tail(up) \in Seq(UpMsg) /\ Len(Tail(up)) <= Window
  BY <1>0, <1>9, FirstAndRest
<1>10. CASE HandleNote \/ EnsureChild \/ HandOver \/ HandleDone
  BY <1>0, <1>9, <1>10 DEF QueueTypes, HandleNote, EnsureChild, HandOver, HandleDone, Recv
<1>11. CASE HandleInline
  <2>1. Head(up).call \in Call
    BY <1>9, <1>11, UpMessages DEF HandleInline, Recv
  <2>2. todo' \in Seq(DownMsg) /\ Len(todo') = 1
    <3>1. Answer(Head(up).call, "ok") \in DownMsg /\ Answer(Head(up).call, "no") \in DownMsg
      BY <2>1, DownMessages
    <3>2. PICK m \in DownMsg : todo' = <<m>>
      BY <1>11, <3>1 DEF HandleInline
    <3> QED BY <3>2
  <2> QED BY <1>0, <1>9, <1>11, <2>2 DEF QueueTypes, HandleInline, Recv
<1>12. CASE HandleError
  BY <1>0, <1>9, <1>12 DEF QueueTypes, HandleError, Fail, Die, Recv
<1>13. CASE RecvFails
  BY <1>0, <1>13 DEF QueueTypes, RecvFails, Fail, Die
<1>14. CASE Reply
  <2>1. todo' = << >>
    BY <1>14 DEF Reply
  <2>2. up' \in {up, << >>} /\ buf' \in {buf, << >>}
    BY <1>14 DEF Reply, Fail, Die
  <2>3. down' \in Seq(DownMsg) /\ Len(down') <= Window
    <3>1. down' = down \/ down' = << >> \/ (Len(down) < Window /\ down' = down \o todo)
      BY <1>14 DEF Reply, Fail, Die
    <3>2. ASSUME Len(down) < Window PROVE down \o todo \in Seq(DownMsg) /\ Len(down \o todo) <= Window
      BY <1>0, <3>2
    <3> QED BY <1>0, <3>1, <3>2
  <2> QED BY <1>0, <2>1, <2>2, <2>3 DEF QueueTypes
<1> QED BY <1>1, <1>2, <1>3, <1>4, <1>5, <1>6, <1>7, <1>8, <1>10, <1>11, <1>12, <1>13, <1>14
        DEF Next, CallStep

LEMMA CallTypesStep ==
  ASSUME Types, Next
  PROVE  CallTypes'
<1> USE DEF callVars, workerVars, hostVars, helpVars, histVars
<1>0. /\ kind \in [Call -> Kinds]
      /\ call \in [Call -> {"new", "ready", "waiting", "telling", "ok", "failed"}]
      /\ pending \subseteq Call /\ slot \in [Call -> {"none", "ok", "no"}]
      /\ stash \in [Call -> 0..(StashCap + 1)] /\ StashCap \in Nat
  BY StreamAssumption DEF Types, CallTypes
<1>1. ASSUME NEW c \in Call, Announce(c) \/ Ask(c) \/ Tell(c) PROVE CallTypes'
  BY <1>0, <1>1 DEF CallTypes, Announce, Ask, Tell
<1>2. ASSUME NEW c \in Call, Return(c) \/ GiveUp(c) PROVE CallTypes'
  <2>1. PICK r \in {"ok", "failed"} : End(c, r)
    BY <1>2 DEF Return, GiveUp
  <2> QED BY <1>0, <2>1 DEF CallTypes, End
<1>3. ASSUME NEW c \in Call, NextPiece(c) PROVE CallTypes'
  <2>1. stash' \in [Call -> 0..(StashCap + 1)]
    BY <1>0, <1>3 DEF NextPiece
  <2> QED BY <1>0, <1>3, <2>1 DEF CallTypes, NextPiece
<1>4. ASSUME NEW c \in Call, Operate(c) \/ Stream(c) \/ Respond(c) PROVE CallTypes'
  BY <1>0, <1>4 DEF CallTypes, Operate, Stream, Respond
<1>5. CASE Route
  <2>1. Head(down) \in DownMsg
    BY <1>5, FirstAndRest DEF Route, Types, QueueTypes
  <2>2. PICK m \in DownMsg : m = Head(down)
    BY <2>1
  <2>3. m.call \in Call /\ m.kind \in {"ok", "no", "piece"}
    BY DownMessages
  <2>4. stash[m.call] \in 0..StashCap
    BY <1>0, <1>5, <2>3 DEF Route, Pushing
  <2>5. \/ UNCHANGED <<slot, stash>>
        \/ stash' = [stash EXCEPT ![m.call] = @ + 1] /\ UNCHANGED slot
        \/ m.kind # "piece" /\ slot' = [slot EXCEPT ![m.call] = m.kind] /\ UNCHANGED stash
    BY <1>5, <2>2, <2>3 DEF Route
  <2>6. stash' \in [Call -> 0..(StashCap + 1)]
    BY <1>0, <2>3, <2>4, <2>5
  <2>7. slot' \in [Call -> {"none", "ok", "no"}]
    BY <1>0, <2>3, <2>5
  <2> QED BY <1>0, <1>5, <2>6, <2>7 DEF CallTypes, Route
<1>6. CASE Transmit \/ Finish \/ Flushed \/ Terminal \/ Cancel
  BY <1>0, <1>6 DEF CallTypes, Transmit, Finish, Flushed, Terminal, Cancel
<1>7. CASE Die /\ UNCHANGED call
  BY <1>0, <1>7 DEF CallTypes, Die
<1>8. CASE HandleNote \/ EnsureChild \/ HandOver \/ HandleDone \/ HandleInline
  BY <1>0, <1>8 DEF CallTypes, HandleNote, EnsureChild, HandOver, HandleDone, HandleInline
<1>9. CASE Crash \/ Stop \/ HandleError
  BY <1>7, <1>9 DEF Crash, Stop, HandleError, Fail
<1>10. CASE RecvFails
  BY <1>0, <1>7, <1>10 DEF RecvFails, Fail, CallTypes
<1>11. CASE Reply
  BY <1>0, <1>7, <1>11 DEF Reply, Fail, CallTypes
<1> QED BY <1>1, <1>2, <1>3, <1>4, <1>5, <1>6, <1>8, <1>9, <1>10, <1>11 DEF Next, CallStep

LEMMA HostTypesStep ==
  ASSUME Types, Next
  PROVE  HostTypes'
<1> USE DEF callVars, workerVars, hostVars, helpVars, histVars
<1>0. /\ worker \in {"running", "flushing", "ended", "gone"}
      /\ alive \in BOOLEAN /\ ctx \in BOOLEAN /\ turnDone \in BOOLEAN
      /\ host \in {"recv", "reply", "stop", "over"} /\ verdict \in {"none", "result", "failed"}
      /\ helper \in [Call -> {"none", "working", "ok", "no"}] /\ given \in [Call -> 0..Pieces]
      /\ scope \subseteq Call /\ applied \subseteq Call
      /\ refused \subseteq Call /\ orphan \subseteq Call
      /\ said \in Nat /\ heard \in Seq(Nat)
  BY DEF Types, HostTypes
<1>1. ASSUME NEW c \in Call, Announce(c) \/ Ask(c) \/ Return(c) \/ GiveUp(c) \/ NextPiece(c) PROVE HostTypes'
  BY <1>0, <1>1 DEF HostTypes, Announce, Ask, Return, GiveUp, End, NextPiece
<1>2. ASSUME NEW c \in Call, Tell(c) PROVE HostTypes'
  BY <1>0, <1>2 DEF HostTypes, Tell, PutNote
<1>3. ASSUME NEW c \in Call, Operate(c) \/ Respond(c) PROVE HostTypes'
  <2>1. helper' \in [Call -> {"none", "working", "ok", "no"}]
    BY <1>0, <1>3 DEF Operate, Respond
  <2>2. applied' \subseteq Call
    BY <1>0, <1>3 DEF Operate, Respond
  <2> QED BY <1>0, <1>3, <2>1, <2>2 DEF HostTypes, Operate, Respond
<1>4. ASSUME NEW c \in Call, Stream(c) PROVE HostTypes'
  <2>1. given' \in [Call -> 0..Pieces]
    BY <1>0, <1>4, StreamAssumption DEF Stream
  <2> QED BY <1>0, <1>4, <2>1 DEF HostTypes, Stream
<1>5. CASE Transmit \/ Route \/ Finish \/ Flushed \/ Terminal \/ Cancel
  BY <1>0, <1>5, ZenonT(40) DEF HostTypes, Transmit, Route, Finish, Flushed, Terminal, Cancel
<1>6. CASE Crash \/ Stop \/ HandleError
  BY <1>0, <1>6 DEF HostTypes, Crash, Stop, HandleError, Fail, Die
<1>7. CASE RecvFails \/ Reply
  BY <1>0, <1>7 DEF HostTypes, RecvFails, Reply, Fail, Die, Again
<1>8. ASSUME up # << >> PROVE Head(up) \in UpMsg
  BY <1>8, FirstAndRest DEF Types, QueueTypes
<1>9. CASE HandleNote
  <2>1. Head(up).n \in Nat
    BY <1>8, <1>9, UpMessages DEF HandleNote, Recv
  <2>2. heard' \in Seq(Nat)
    BY <1>0, <1>9, <2>1 DEF HandleNote
  <2> QED BY <1>0, <1>9, <2>2 DEF HostTypes, HandleNote, Again
<1>10. CASE EnsureChild
  <2>1. Head(up).call \in Call
    BY <1>8, <1>10, UpMessages DEF EnsureChild, Recv
  <2>2. scope' \subseteq Call /\ orphan' \subseteq Call
    BY <1>0, <1>10, <2>1 DEF EnsureChild
  <2> QED BY <1>0, <1>10, <2>2 DEF HostTypes, EnsureChild, Again
<1>11. CASE HandleInline
  <2>1. Head(up).call \in Call
    BY <1>8, <1>11, UpMessages DEF HandleInline, Recv
  <2>2. applied' \subseteq Call /\ refused' \subseteq Call
    BY <1>0, <1>11, <2>1 DEF HandleInline
  <2> QED BY <1>0, <1>11, <2>2 DEF HostTypes, HandleInline
<1>12. CASE HandOver
  <2>1. helper' \in [Call -> {"none", "working", "ok", "no"}]
    BY <1>0, <1>12 DEF HandOver
  <2> QED BY <1>0, <1>12, <2>1 DEF HostTypes, HandOver, Again
<1>13. CASE HandleDone
  BY <1>0, <1>13 DEF HostTypes, HandleDone, Again
<1> QED BY <1>1, <1>2, <1>3, <1>4, <1>5, <1>6, <1>7, <1>9, <1>10, <1>11, <1>12, <1>13 DEF Next, CallStep

LEMMA TypesStep ==
  ASSUME Types, Next, host = "reply" => Len(todo) = 1
  PROVE  Types'
<1>1. kind' = kind
  BY DEF Next, CallStep, Announce, Ask, Return, GiveUp, End, NextPiece, Tell, Operate, Stream, Respond, Transmit,
         Route, Finish, Flushed, Terminal, Crash, HandleNote, EnsureChild, HandleInline, Reply, HandOver,
         HandleDone, HandleError, RecvFails, Stop, Cancel, Fail, Die, workerVars
<1> QED BY <1>1, QueueTypesStep, CallTypesStep, HostTypesStep DEF Types

-----------------------------------------------------------------------------
(* The pipe from the worker to the host *)

LEMMA PipeTypes ==
  ASSUME Types
  PROVE  /\ Pipe \in Seq(UpMsg) /\ Len(Pipe) \in Nat
         /\ \A i \in 1..Len(Pipe) : Pipe[i] \in UpMsg
         /\ up # << >> => Len(Pipe) >= 1 /\ Head(up) = Pipe[1]
BY DEF Types, QueueTypes, Pipe

LEMMA NextPipeTypes ==
  ASSUME Types'
  PROVE  Len(Pipe') \in Nat /\ \A i \in 1..Len(Pipe') : Pipe'[i] \in UpMsg
BY DEF Types, QueueTypes, Pipe

\* How a step changes the pipe: one more at the end, one less at the front, or
\* nothing new.
Grows(m) ==
    /\ Len(Pipe') = Len(Pipe) + 1 /\ Pipe'[Len(Pipe) + 1] = m
    /\ \A i \in 1..Len(Pipe) : Pipe'[i] = Pipe[i]
Drops ==
    /\ Len(Pipe) >= 1 /\ Len(Pipe') = Len(Pipe) - 1
    /\ \A i \in 1..Len(Pipe') : Pipe'[i] = Pipe[i + 1]
Cuts ==
    /\ Len(Pipe') <= Len(Pipe)
    /\ \A i \in 1..Len(Pipe') : Pipe'[i] = Pipe[i]

LEMMA PipePut ==
  ASSUME Types, NEW m \in UpMsg, Put(m), up' = up
  PROVE  IF ctx THEN Cuts ELSE Grows(m)
<1>1. up \in Seq(UpMsg) /\ buf \in Seq(UpMsg)
  BY DEF Types, QueueTypes
<1>2. CASE ctx
  <2>1. Pipe' = Pipe
    BY <1>2 DEF Put, Pipe
  <2>2. Len(Pipe) \in Nat
    BY PipeTypes
  <2> QED BY <1>2, <2>1, <2>2 DEF Cuts
<1>3. CASE ~ctx
  <2>1. Pipe' = up \o Append(buf, m)
    BY <1>3 DEF Put, Pipe
  <2>2. up \o Append(buf, m) = Append(up \o buf, m)
    BY <1>1
  <2>3. Pipe' = Append(Pipe, m)
    BY <2>1, <2>2 DEF Pipe
  <2>4. Pipe \in Seq(UpMsg)
    BY PipeTypes
  <2> QED BY <1>3, <2>3, <2>4 DEF Grows
<1> QED BY <1>2, <1>3

LEMMA PipeRecv ==
  ASSUME Types, up # << >>, up' = Tail(up), buf' = buf
  PROVE  Drops
<1>1. up \in Seq(UpMsg) /\ buf \in Seq(UpMsg)
  BY DEF Types, QueueTypes
<1>2. Pipe' = Tail(up) \o buf
  BY DEF Pipe
<1>3. Tail(up) \o buf = Tail(up \o buf)
  BY <1>1
<1>4. Pipe' = Tail(Pipe) /\ Pipe # << >> /\ Pipe \in Seq(UpMsg)
  BY <1>1, <1>2, <1>3 DEF Pipe
<1> QED BY <1>4, FirstAndRest DEF Drops

LEMMA PipeCut ==
  ASSUME Types, up' \in {up, << >>}, buf' \in {buf, << >>}, up' = << >> => buf' = << >> \/ up = << >>
  PROVE  Cuts
<1>1. up \in Seq(UpMsg) /\ buf \in Seq(UpMsg)
  BY DEF Types, QueueTypes
<1>2. CASE up' = up /\ buf' = buf
  <2>1. Pipe' = Pipe /\ Len(Pipe) \in Nat
    BY <1>2, PipeTypes DEF Pipe
  <2> QED BY <2>1 DEF Cuts
<1>3. CASE up' = up /\ buf' = << >>
  <2>1. Pipe' = up
    BY <1>1, <1>3 DEF Pipe
  <2> QED BY <1>1, <2>1 DEF Cuts, Pipe
<1>4. CASE up' = << >> /\ buf' = << >>
  <2>1. Pipe' = << >> /\ Len(Pipe) \in Nat
    BY <1>4, PipeTypes DEF Pipe
  <2> QED BY <2>1 DEF Cuts
<1> QED BY <1>2, <1>3, <1>4

LEMMA PipeTransmit ==
  ASSUME Types, Transmit
  PROVE  Pipe' = Pipe
<1>1. up \in Seq(UpMsg) /\ buf \in Seq(UpMsg) /\ buf # << >>
  BY DEF Types, QueueTypes, Transmit
<1>2. Append(up, Head(buf)) \o Tail(buf) = up \o buf
  BY <1>1
<1> QED BY <1>2 DEF Pipe, Transmit

LEMMA PipeEnd ==
  ASSUME Types, NEW m \in UpMsg, buf = << >>, buf' = buf, up' = Append(up, m)
  PROVE  Grows(m)
<1>1. up \in Seq(UpMsg) /\ Pipe = up /\ Pipe' = Append(up, m)
  BY DEF Types, QueueTypes, Pipe
<1> QED BY <1>1 DEF Grows

\* What is before a message stays before it.
LEMMA BeforeCut ==
  ASSUME Types, Types', Cuts, NEW i \in 1..(Len(Pipe') + 1), scope \subseteq scope', orphan \subseteq orphan'
  PROVE  /\ \A c \in Call : Announced(c, i) => Announced(c, i)'
         /\ heard' = heard => \A n \in Nat : NoteBefore(n, i) => NoteBefore(n, i)'
<1>1. Len(Pipe) \in Nat /\ Len(Pipe') \in Nat
  BY PipeTypes, NextPipeTypes
<1>2. \A j \in 1..(i - 1) : j \in 1..Len(Pipe') /\ Pipe'[j] = Pipe[j]
  BY <1>1 DEF Cuts
<1> QED BY <1>2 DEF Announced, NoteBefore

LEMMA BeforeGrow ==
  ASSUME Types, NEW m \in UpMsg, Grows(m), NEW i \in 1..(Len(Pipe) + 1), scope \subseteq scope', orphan \subseteq orphan'
  PROVE  /\ \A c \in Call : Announced(c, i) => Announced(c, i)'
         /\ heard' = heard => \A n \in Nat : NoteBefore(n, i) => NoteBefore(n, i)'
<1>1. Len(Pipe) \in Nat
  BY PipeTypes
<1>2. \A j \in 1..(i - 1) : Pipe'[j] = Pipe[j]
  BY <1>1 DEF Grows
<1> QED BY <1>2 DEF Announced, NoteBefore

LEMMA BeforeDrop ==
  ASSUME Types, Drops, NEW i \in 1..(Len(Pipe') + 1), scope \subseteq scope', orphan \subseteq orphan',
         Pipe[1].kind = "ensure" => Pipe[1].call \in scope' \cup orphan',
         IF Pipe[1].kind = "note" THEN Len(heard') = Pipe[1].n ELSE heard' = heard
  PROVE  /\ \A c \in Call : Announced(c, i + 1) => Announced(c, i)'
         /\ \A n \in Nat : n >= Len(heard') /\ NoteBefore(n, i + 1) => n = Len(heard) \/ NoteBefore(n, i)'
<1>1. Len(Pipe) \in Nat /\ Len(Pipe') = Len(Pipe) - 1 /\ Len(Pipe) >= 1 /\ i \in Nat /\ i >= 1
  BY PipeTypes DEF Drops
<1>2. \A j \in 1..((i + 1) - 1) : j = 1 \/ (j - 1 \in 1..(i - 1) /\ Pipe'[j - 1] = Pipe[j])
  <2> SUFFICES ASSUME NEW j \in 1..((i + 1) - 1), j # 1
               PROVE  j - 1 \in 1..(i - 1) /\ Pipe'[j - 1] = Pipe[j]
    OBVIOUS
  <2>1. j - 1 \in 1..(i - 1) /\ j - 1 \in 1..Len(Pipe') /\ (j - 1) + 1 = j
    BY <1>1
  <2> QED BY <2>1 DEF Drops
<1>3. ASSUME NEW c \in Call, Announced(c, i + 1) PROVE Announced(c, i)'
  <2>1. CASE c \in scope \cup orphan
    BY <2>1 DEF Announced
  <2>2. CASE \E j \in 1..((i + 1) - 1) : Pipe[j].kind = "ensure" /\ Pipe[j].call = c
    <3>1. PICK j \in 1..((i + 1) - 1) : Pipe[j].kind = "ensure" /\ Pipe[j].call = c
      BY <2>2
    <3>2. CASE j = 1
      BY <3>1, <3>2 DEF Announced
    <3>3. CASE j # 1
      <4>1. j - 1 \in 1..(i - 1) /\ Pipe'[j - 1].kind = "ensure" /\ Pipe'[j - 1].call = c
        BY <1>2, <3>1, <3>3
      <4> QED BY <4>1 DEF Announced
    <3> QED BY <3>2, <3>3
  <2> QED BY <1>3, <2>1, <2>2 DEF Announced
<1>4. ASSUME NEW n \in Nat, n >= Len(heard'), NoteBefore(n, i + 1), n # Len(heard) PROVE NoteBefore(n, i)'
  <2>1. PICK j \in 1..((i + 1) - 1) : Pipe[j].kind = "note" /\ Pipe[j].n = n
    BY <1>4 DEF NoteBefore
  <2>2. CASE j = 1
    BY <2>1, <2>2 DEF NoteBefore
  <2>3. CASE j # 1
    <3>1. j - 1 \in 1..(i - 1) /\ Pipe'[j - 1].kind = "note" /\ Pipe'[j - 1].n = n
      BY <1>2, <2>1, <2>3
    <3> QED BY <3>1 DEF NoteBefore
  <2> QED BY <2>2, <2>3
<1> QED BY <1>3, <1>4

\* What no step takes back.
Onward ==
    /\ kind' = kind /\ scope \subseteq scope' /\ orphan \subseteq orphan' /\ said <= said'
    /\ \A c \in Call : call[c] \notin {"new", "ready"} => call'[c] \notin {"new", "ready"}
    /\ worker = "gone" => worker' = "gone"

LEMMA GoesOnward == ASSUME Types, Next, WorkInv PROVE Onward
<1> USE DEF callVars, workerVars, hostVars, helpVars, histVars, Onward
<1>0. call \in [Call -> {"new", "ready", "waiting", "telling", "ok", "failed"}] /\ said \in Nat
  BY DEF Types, CallTypes, HostTypes
<1>1. ASSUME NEW c \in Call, Announce(c) \/ Ask(c) \/ NextPiece(c) PROVE Onward
  BY <1>0, <1>1 DEF Announce, Ask, NextPiece
<1>2. ASSUME NEW c \in Call, Return(c) \/ GiveUp(c) PROVE Onward
  BY <1>0, <1>2 DEF Return, GiveUp, End
<1>3. ASSUME NEW c \in Call, Tell(c) PROVE Onward
  BY <1>0, <1>3 DEF Tell, PutNote
<1>4. ASSUME NEW c \in Call, Operate(c) \/ Stream(c) \/ Respond(c) PROVE Onward
  BY <1>0, <1>4 DEF Operate, Stream, Respond
<1>5. CASE Transmit \/ Route \/ Finish \/ Flushed \/ Terminal \/ Cancel \/ Crash
  BY <1>0, <1>5 DEF Transmit, Route, Finish, Flushed, Terminal, Cancel, Crash, Die
<1>6. CASE HandleNote \/ EnsureChild \/ HandleInline \/ HandOver \/ HandleDone
  BY <1>0, <1>6 DEF HandleNote, EnsureChild, HandleInline, HandOver, HandleDone
<1>7. CASE Reply \/ HandleError \/ RecvFails \/ Stop
  BY <1>0, <1>7 DEF Reply, HandleError, RecvFails, Stop, Fail, Die
<1> QED BY <1>1, <1>2, <1>3, <1>4, <1>5, <1>6, <1>7 DEF Next, CallStep

LEMMA PipeQuiet ==
  ASSUME Types, Types', PipeInv, Onward, Cuts, heard' = heard
  PROVE  PipeInv'
<1>0. /\ Len(Pipe) \in Nat /\ Len(Pipe') \in Nat /\ Len(Pipe') <= Len(Pipe)
      /\ \A i \in 1..Len(Pipe') : i \in 1..Len(Pipe) /\ Pipe'[i] = Pipe[i] /\ Pipe[i] \in UpMsg
  BY PipeTypes, NextPipeTypes DEF Cuts
<1>1. EndInv'
  BY <1>0 DEF EndInv, PipeInv, Onward
<1>2. RequestInv'
  <2> SUFFICES ASSUME NEW i \in 1..Len(Pipe'), Pipe'[i].kind = "request"
               PROVE  (/\ call[Pipe[i].call] \notin {"new", "ready"}
                       /\ kind[Pipe[i].call] = "event" => Announced(Pipe[i].call, i))'
    BY DEF RequestInv
  <2>1. PICK c \in Call : c = Pipe[i].call /\ c = Pipe'[i].call
    BY <1>0, UpMessages
  <2>2. call[c] \notin {"new", "ready"} /\ (kind[c] = "event" => Announced(c, i))
    BY <1>0, <2>1 DEF PipeInv, RequestInv
  <2>3. Announced(c, i) => Announced(c, i)'
    BY <1>0, BeforeCut DEF Onward
  <2> QED BY <2>1, <2>2, <2>3 DEF Onward, Announced
<1>3. OnceInv'
  BY <1>0 DEF OnceInv, PipeInv
<1>4. NoteInv'
  <2> SUFFICES ASSUME NEW i \in 1..Len(Pipe'), Pipe'[i].kind = "note"
               PROVE  (/\ Pipe[i].n > Len(heard) /\ Pipe[i].n <= said
                       /\ NoteBefore(Pipe[i].n - 1, i))'
    BY DEF NoteInv
  <2>1. PICK n \in Nat : n = Pipe[i].n /\ n = Pipe'[i].n
    BY <1>0, UpMessages
  <2>2. n > Len(heard) /\ n <= said /\ NoteBefore(n - 1, i)
    BY <1>0, <2>1 DEF PipeInv, NoteInv
  <2>3. Len(heard) \in Nat /\ said \in Nat /\ said' \in Nat /\ n - 1 \in Nat
    BY <2>2 DEF Types, HostTypes
  <2>4. NoteBefore(n - 1, i)'
    BY <1>0, <2>2, <2>3, BeforeCut DEF Onward
  <2> QED BY <2>1, <2>2, <2>3, <2>4 DEF Onward, NoteBefore
<1>5. OrderInv'
  BY <1>0 DEF OrderInv, PipeInv
<1> QED BY <1>1, <1>2, <1>3, <1>4, <1>5 DEF PipeInv

LEMMA PipeGrow ==
  ASSUME Types, Types', PipeInv, Onward, NEW m \in UpMsg, Grows(m), heard' = heard,
         worker # "gone", m.kind \in {"done", "error"} => worker' = "gone",
         m.kind = "request" => /\ call'[m.call] \notin {"new", "ready"} /\ ~Requested(m.call)
                               /\ kind[m.call] = "event" => Announced(m.call, Len(Pipe) + 1),
         m.kind = "note" => /\ m.n = said + 1 /\ said' = said + 1 /\ Len(heard) <= said
                            /\ NoteBefore(said, Len(Pipe) + 1)
  PROVE  PipeInv'
<1>0. /\ Len(Pipe) \in Nat /\ Len(Pipe') = Len(Pipe) + 1 /\ Pipe'[Len(Pipe) + 1] = m
      /\ \A i \in 1..Len(Pipe) : Pipe'[i] = Pipe[i] /\ Pipe[i] \in UpMsg
      /\ \A i \in 1..Len(Pipe') : i \in 1..Len(Pipe) \/ (i = Len(Pipe) + 1 /\ Pipe'[i] = m)
  BY PipeTypes DEF Grows
<1>a. \A i \in 1..Len(Pipe) : Pipe[i].kind \notin {"done", "error"}
  BY DEF PipeInv, EndInv
<1>1. EndInv'
  BY <1>0, <1>a DEF EndInv
<1>2. RequestInv'
  <2> SUFFICES ASSUME NEW i \in 1..Len(Pipe'), Pipe'[i].kind = "request"
               PROVE  (/\ call[Pipe[i].call] \notin {"new", "ready"}
                       /\ kind[Pipe[i].call] = "event" => Announced(Pipe[i].call, i))'
    BY DEF RequestInv
  <2>1. PICK c \in Call : c = Pipe'[i].call
    BY <1>0, UpMessages
  <2>2. i \in 1..(Len(Pipe) + 1)
    BY <1>0
  <2>3. call'[c] \notin {"new", "ready"} /\ (kind[c] = "event" => Announced(c, i))
    <3>1. CASE i \in 1..Len(Pipe)
      BY <1>0, <2>1, <3>1 DEF PipeInv, RequestInv, Onward
    <3>2. CASE i = Len(Pipe) + 1
      BY <1>0, <2>1, <3>2
    <3> QED BY <1>0, <3>1, <3>2
  <2>4. Announced(c, i) => Announced(c, i)'
    BY <2>2, BeforeGrow DEF Onward
  <2> QED BY <2>1, <2>3, <2>4 DEF Onward, Announced
<1>3. OnceInv'
  <2> SUFFICES ASSUME NEW i \in 1..Len(Pipe'), NEW j \in 1..Len(Pipe'), Pipe'[i].kind = "request",
                      Pipe'[j].kind = "request", Pipe'[i].call = Pipe'[j].call
               PROVE  i = j
    BY DEF OnceInv
  <2>1. CASE i \in 1..Len(Pipe) /\ j \in 1..Len(Pipe)
    BY <1>0, <2>1 DEF PipeInv, OnceInv
  <2>2. CASE i \notin 1..Len(Pipe) /\ j \in 1..Len(Pipe)
    BY <1>0, <2>2 DEF Requested
  <2>3. CASE i \in 1..Len(Pipe) /\ j \notin 1..Len(Pipe)
    BY <1>0, <2>3 DEF Requested
  <2> QED BY <1>0, <2>1, <2>2, <2>3
<1>b. Len(heard) \in Nat /\ said \in Nat /\ said' \in Nat
  BY DEF Types, HostTypes
<1>4. NoteInv'
  <2> SUFFICES ASSUME NEW i \in 1..Len(Pipe'), Pipe'[i].kind = "note"
               PROVE  (/\ Pipe[i].n > Len(heard) /\ Pipe[i].n <= said
                       /\ NoteBefore(Pipe[i].n - 1, i))'
    BY DEF NoteInv
  <2>1. PICK n \in Nat : n = Pipe'[i].n
    BY <1>0, UpMessages
  <2>2. i \in 1..(Len(Pipe) + 1)
    BY <1>0
  <2>3. n > Len(heard) /\ n <= said' /\ NoteBefore(n - 1, i)
    <3>1. CASE i \in 1..Len(Pipe)
      BY <1>0, <1>b, <2>1, <3>1 DEF PipeInv, NoteInv, Onward
    <3>2. CASE i = Len(Pipe) + 1
      <4>1. m.kind = "note" /\ n = said + 1 /\ n - 1 = said
        BY <1>0, <1>b, <2>1, <3>2
      <4> QED BY <1>b, <3>2, <4>1
    <3> QED BY <1>0, <3>1, <3>2
  <2>4. n - 1 \in Nat
    BY <1>b, <2>3
  <2>5. NoteBefore(n - 1, i)'
    BY <2>2, <2>3, <2>4, BeforeGrow DEF Onward
  <2> QED BY <2>1, <2>3, <2>5 DEF NoteBefore
<1>5. OrderInv'
  <2> SUFFICES ASSUME NEW i \in 1..Len(Pipe'), NEW j \in 1..Len(Pipe'), i < j, Pipe'[i].kind = "note",
                      Pipe'[j].kind = "note"
               PROVE  Pipe'[i].n < Pipe'[j].n
    BY DEF OrderInv
  <2>1. i \in 1..Len(Pipe)
    BY <1>0
  <2>2. CASE j \in 1..Len(Pipe)
    BY <1>0, <2>1, <2>2 DEF PipeInv, OrderInv
  <2>3. CASE j = Len(Pipe) + 1
    <3>1. Pipe[i].n \in Nat /\ Pipe[i].n <= said
      BY <1>0, <2>1, UpMessages DEF PipeInv, NoteInv
    <3> QED BY <1>0, <1>b, <2>1, <2>3, <3>1
  <2> QED BY <1>0, <2>2, <2>3
<1> QED BY <1>1, <1>2, <1>3, <1>4, <1>5 DEF PipeInv

\* The first note is the next one to hear.
LEMMA FirstNote ==
  ASSUME Types, PipeInv, Len(Pipe) >= 1, Pipe[1].kind = "note"
  PROVE  Pipe[1].n = Len(heard) + 1 /\ Pipe[1].n <= said
<1>1. 1 \in 1..Len(Pipe) /\ Pipe[1].n \in Nat /\ Len(heard) \in Nat
  BY PipeTypes, UpMessages DEF Types, HostTypes
<1>2. Pipe[1].n <= said /\ NoteBefore(Pipe[1].n - 1, 1)
  BY <1>1 DEF PipeInv, NoteInv
<1>3. 1..(1 - 1) = {}
  OBVIOUS
<1> QED BY <1>1, <1>2, <1>3 DEF NoteBefore

LEMMA PipeDrop ==
  ASSUME Types, Types', PipeInv, Onward, Drops, said' = said,
         Pipe[1].kind = "ensure" => Pipe[1].call \in scope' \cup orphan',
         IF Pipe[1].kind = "note" THEN heard' = Append(heard, Pipe[1].n) ELSE heard' = heard
  PROVE  PipeInv'
<1>0. /\ Len(Pipe) \in Nat /\ Len(Pipe') = Len(Pipe) - 1 /\ Len(Pipe) >= 1 /\ 1 \in 1..Len(Pipe)
      /\ \A i \in 1..Len(Pipe') : i + 1 \in 1..Len(Pipe) /\ Pipe'[i] = Pipe[i + 1] /\ Pipe[i + 1] \in UpMsg
  BY PipeTypes DEF Drops
<1>b. /\ Len(heard) \in Nat /\ said \in Nat
      /\ IF Pipe[1].kind = "note" THEN Len(heard') = Pipe[1].n /\ Pipe[1].n = Len(heard) + 1 ELSE heard' = heard
  <2>1. heard \in Seq(Nat) /\ said \in Nat
    BY DEF Types, HostTypes
  <2>2. CASE Pipe[1].kind = "note"
    BY <1>0, <2>1, <2>2, FirstNote
  <2> QED BY <2>1, <2>2
<1>1. EndInv'
  BY <1>0, SMTT(30) DEF EndInv, PipeInv, Onward
<1>2. RequestInv'
  <2> SUFFICES ASSUME NEW i \in 1..Len(Pipe'), Pipe'[i].kind = "request"
               PROVE  (/\ call[Pipe[i].call] \notin {"new", "ready"}
                       /\ kind[Pipe[i].call] = "event" => Announced(Pipe[i].call, i))'
    BY DEF RequestInv
  <2>1. PICK c \in Call : c = Pipe[i + 1].call /\ c = Pipe'[i].call
    BY <1>0, UpMessages
  <2>2. call[c] \notin {"new", "ready"} /\ (kind[c] = "event" => Announced(c, i + 1))
    BY <1>0, <2>1 DEF PipeInv, RequestInv
  <2>3. i \in 1..(Len(Pipe') + 1)
    BY <1>0
  <2>4. Announced(c, i + 1) => Announced(c, i)'
    BY <1>b, <2>3, BeforeDrop DEF Onward
  <2> QED BY <2>1, <2>2, <2>4 DEF Onward, Announced
<1>3. OnceInv'
  <2> SUFFICES ASSUME NEW i \in 1..Len(Pipe'), NEW j \in 1..Len(Pipe'), Pipe'[i].kind = "request",
                      Pipe'[j].kind = "request", Pipe'[i].call = Pipe'[j].call
               PROVE  i = j
    BY DEF OnceInv
  <2>1. i + 1 = j + 1
    BY <1>0 DEF PipeInv, OnceInv
  <2> QED BY <2>1
<1>4. NoteInv'
  <2> SUFFICES ASSUME NEW i \in 1..Len(Pipe'), Pipe'[i].kind = "note"
               PROVE  (/\ Pipe[i].n > Len(heard) /\ Pipe[i].n <= said
                       /\ NoteBefore(Pipe[i].n - 1, i))'
    BY DEF NoteInv
  <2>1. PICK n \in Nat : n = Pipe[i + 1].n /\ n = Pipe'[i].n
    BY <1>0, UpMessages
  <2>2. n > Len(heard) /\ n <= said /\ NoteBefore(n - 1, i + 1)
    BY <1>0, <2>1 DEF PipeInv, NoteInv
  <2>3. n > Len(heard')
    <3>1. CASE Pipe[1].kind = "note"
      <4>1. Pipe[1].n < n
        BY <1>0, <2>1, <3>1, SMTT(30) DEF PipeInv, OrderInv
      <4> QED BY <1>b, <3>1, <4>1
    <3>2. CASE Pipe[1].kind # "note"
      BY <1>b, <2>2, <3>2
    <3> QED BY <3>1, <3>2
  <2>4. n - 1 \in Nat /\ n - 1 >= Len(heard') /\ i \in 1..(Len(Pipe') + 1)
    BY <1>0, <1>b, <2>2, <2>3
  <2>5. n - 1 = Len(heard) \/ NoteBefore(n - 1, i)'
    BY <1>b, <2>2, <2>4, BeforeDrop DEF Onward
  <2>6. NoteBefore(n - 1, i)'
    BY <1>b, <2>3, <2>5 DEF NoteBefore
  <2> QED BY <2>1, <2>2, <2>3, <2>6 DEF NoteBefore
<1>5. OrderInv'
  <2> SUFFICES ASSUME NEW i \in 1..Len(Pipe'), NEW j \in 1..Len(Pipe'), i < j, Pipe'[i].kind = "note",
                      Pipe'[j].kind = "note"
               PROVE  Pipe'[i].n < Pipe'[j].n
    BY DEF OrderInv
  <2>1. i + 1 < j + 1
    OBVIOUS
  <2> QED BY <1>0, <2>1 DEF PipeInv, OrderInv
<1> QED BY <1>1, <1>2, <1>3, <1>4, <1>5 DEF PipeInv

LEMMA SayQuiet ==
  ASSUME Types, Types', SayInv, Onward, Cuts, heard' = heard, said' = said,
         ctx => ctx', alive' => alive, alive' /\ ~ctx' => Len(Pipe') = Len(Pipe),
         \A c \in Call : call'[c] = "ready" => call[c] = "ready"
  PROVE  SayInv'
<1>0. /\ Len(Pipe) \in Nat /\ Len(Pipe') \in Nat /\ Len(Pipe') <= Len(Pipe)
      /\ \A i \in 1..Len(Pipe') : i \in 1..Len(Pipe) /\ Pipe'[i] = Pipe[i]
      /\ said \in Nat
  BY PipeTypes, NextPipeTypes DEF Cuts, Types, HostTypes
<1>1. (Len(heard) <= said)'
  BY DEF SayInv
<1>2. ASSUME alive', ~ctx'
      PROVE  (/\ NoteBefore(said, Len(Pipe) + 1)
              /\ \A c \in Call : call[c] = "ready" => Announced(c, Len(Pipe) + 1))'
  <2>1. PICK k \in Nat : k = Len(Pipe) /\ k = Len(Pipe') /\ k + 1 \in 1..(Len(Pipe') + 1)
    BY <1>0, <1>2
  <2>2. NoteBefore(said, k + 1) /\ \A c \in Call : call[c] = "ready" => Announced(c, k + 1)
    BY <1>2, <2>1 DEF SayInv
  <2>3. PICK n \in Nat : n = said
    BY <1>0
  <2>4. NoteBefore(n, k + 1)' /\ \A c \in Call : Announced(c, k + 1) => Announced(c, k + 1)'
    BY <2>1, <2>2, <2>3, BeforeCut DEF Onward
  <2> QED BY <2>1, <2>2, <2>3, <2>4 DEF NoteBefore, Announced
<1>3. ASSUME NEW i \in 1..Len(Pipe'), Pipe'[i].kind = "done", ~ctx' PROVE NoteBefore(said, i)'
  <2>1. PICK n \in Nat : n = said
    BY <1>0
  <2>2. NoteBefore(n, i)
    BY <1>0, <1>3, <2>1 DEF SayInv
  <2>3. NoteBefore(n, i)'
    BY <1>0, <2>2, BeforeCut DEF Onward
  <2> QED BY <2>1, <2>3 DEF NoteBefore
<1> QED BY <1>1, <1>2, <1>3 DEF SayInv

LEMMA SayGrow ==
  ASSUME Types, Types', SayInv, EndInv, Onward, NEW m \in UpMsg, Grows(m), heard' = heard,
         alive, worker # "gone", ctx' = ctx,
         IF m.kind = "note" THEN said' = said + 1 /\ m.n = said + 1 ELSE said' = said,
         \A c \in Call : call'[c] = "ready" => call[c] = "ready" \/ (m.kind = "ensure" /\ m.call = c)
  PROVE  SayInv'
<1>0. /\ Len(Pipe) \in Nat /\ Len(Pipe') = Len(Pipe) + 1 /\ Pipe'[Len(Pipe) + 1] = m
      /\ \A i \in 1..Len(Pipe) : Pipe'[i] = Pipe[i]
      /\ \A i \in 1..Len(Pipe') : i \in 1..Len(Pipe) \/ (i = Len(Pipe) + 1 /\ Pipe'[i] = m)
      /\ said \in Nat /\ Len(heard) \in Nat
  BY PipeTypes DEF Grows, Types, HostTypes
<1>1. (Len(heard) <= said)'
  BY <1>0 DEF SayInv
<1>p. PICK k \in Nat : k = Len(Pipe) /\ k + 1 = Len(Pipe') /\ k + 1 \in 1..(Len(Pipe) + 1)
  BY <1>0
<1>q. PICK n \in Nat : n = said
  BY <1>0
<1>r. ASSUME ~ctx
      PROVE  /\ NoteBefore(n, k + 1) /\ NoteBefore(n, k + 1)'
             /\ \A c \in Call : call[c] = "ready" => Announced(c, k + 1)'
  <2>1. NoteBefore(n, k + 1) /\ \A c \in Call : call[c] = "ready" => Announced(c, k + 1)
    BY <1>p, <1>q, <1>r DEF SayInv
  <2> QED BY <1>p, <2>1, BeforeGrow DEF Onward
<1>2. ASSUME alive', ~ctx'
      PROVE  (/\ NoteBefore(said, Len(Pipe) + 1)
              /\ \A c \in Call : call[c] = "ready" => Announced(c, Len(Pipe) + 1))'
  <2>1. k + 1 \in 1..((k + 2) - 1) /\ \A j \in 1..((k + 1) - 1) : j \in 1..((k + 2) - 1)
    OBVIOUS
  <2>2. NoteBefore(said, k + 2)'
    <3>1. CASE m.kind = "note"
      BY <1>0, <1>p, <2>1, <3>1 DEF NoteBefore
    <3>2. CASE m.kind # "note"
      BY <1>2, <1>q, <1>r, <2>1, <3>2 DEF NoteBefore
    <3> QED BY <3>1, <3>2
  <2>3. ASSUME NEW c \in Call, call'[c] = "ready" PROVE Announced(c, k + 2)'
    <3>1. CASE call[c] = "ready"
      BY <1>2, <1>r, <2>1, <3>1 DEF Announced
    <3>2. CASE m.kind = "ensure" /\ m.call = c
      BY <1>0, <1>p, <2>1, <3>2 DEF Announced
    <3> QED BY <2>3, <3>1, <3>2
  <2>4. Len(Pipe') + 1 = k + 2
    BY <1>p
  <2> QED BY <2>2, <2>3, <2>4 DEF NoteBefore, Announced
<1>3. ASSUME NEW i \in 1..Len(Pipe'), Pipe'[i].kind = "done", ~ctx' PROVE NoteBefore(said, i)'
  <2>1. i = k + 1 /\ m.kind = "done"
    BY <1>0, <1>3, <1>p DEF EndInv
  <2> QED BY <1>3, <1>q, <1>r, <2>1 DEF NoteBefore
<1> QED BY <1>1, <1>2, <1>3 DEF SayInv

LEMMA SayDrop ==
  ASSUME Types, Types', SayInv, PipeInv, Onward, Drops, said' = said, ctx' = ctx, alive' = alive, call' = call,
         Pipe[1].kind = "ensure" => Pipe[1].call \in scope' \cup orphan',
         IF Pipe[1].kind = "note" THEN heard' = Append(heard, Pipe[1].n) ELSE heard' = heard
  PROVE  SayInv'
<1>0. /\ Len(Pipe) \in Nat /\ Len(Pipe') = Len(Pipe) - 1 /\ Len(Pipe) >= 1
      /\ \A i \in 1..Len(Pipe') : i + 1 \in 1..Len(Pipe) /\ Pipe'[i] = Pipe[i + 1] /\ i \in 1..(Len(Pipe') + 1)
  BY PipeTypes DEF Drops
<1>b. /\ Len(heard) \in Nat /\ said \in Nat /\ Len(heard') <= said
      /\ IF Pipe[1].kind = "note" THEN Len(heard') = Pipe[1].n /\ Pipe[1].n = Len(heard) + 1 ELSE heard' = heard
  <2>1. heard \in Seq(Nat) /\ said \in Nat /\ Len(heard) <= said
    BY DEF Types, HostTypes, SayInv
  <2>2. CASE Pipe[1].kind = "note"
    BY <1>0, <2>1, <2>2, FirstNote
  <2> QED BY <2>1, <2>2
<1>q. PICK n \in Nat : n = said
  BY <1>b
<1>d. ASSUME NEW i \in 1..(Len(Pipe') + 1), NoteBefore(n, i + 1) PROVE NoteBefore(n, i)'
  <2>1. n = Len(heard) \/ NoteBefore(n, i)'
    BY <1>b, <1>d, <1>q, BeforeDrop DEF Onward
  <2>2. n = Len(heard) => n = Len(heard')
    BY <1>b, <1>q
  <2> QED BY <2>1, <2>2 DEF NoteBefore
<1>2. ASSUME alive', ~ctx'
      PROVE  (/\ NoteBefore(said, Len(Pipe) + 1)
              /\ \A c \in Call : call[c] = "ready" => Announced(c, Len(Pipe) + 1))'
  <2>1. PICK k \in 1..(Len(Pipe') + 1) : k = Len(Pipe') + 1 /\ k + 1 = Len(Pipe) + 1
    BY <1>0
  <2>2. NoteBefore(n, k + 1) /\ \A c \in Call : call[c] = "ready" => Announced(c, k + 1)
    BY <1>2, <1>q, <2>1 DEF SayInv
  <2>3. NoteBefore(n, k)'
    BY <1>d, <2>2
  <2>4. \A c \in Call : Announced(c, k + 1) => Announced(c, k)'
    BY <1>b, BeforeDrop DEF Onward
  <2> QED BY <1>q, <2>1, <2>2, <2>3, <2>4 DEF NoteBefore, Announced
<1>3. ASSUME NEW i \in 1..Len(Pipe'), Pipe'[i].kind = "done", ~ctx' PROVE NoteBefore(said, i)'
  <2>1. NoteBefore(n, i + 1)
    BY <1>0, <1>3, <1>q DEF SayInv
  <2>2. NoteBefore(n, i)'
    BY <1>0, <1>d, <2>1
  <2> QED BY <1>q, <2>2 DEF NoteBefore
<1> QED BY <1>b, <1>2, <1>3 DEF SayInv

\* A step that sends nothing and receives nothing.
LEMMA PipeStays ==
  ASSUME Types, Types', PipeInv, SayInv, Onward, UNCHANGED <<up, buf, heard, said, alive, ctx>>,
         \A c \in Call : call'[c] = "ready" => call[c] = "ready"
  PROVE  PipeInv' /\ SayInv'
<1>1. Pipe' = Pipe /\ Len(Pipe) \in Nat
  BY PipeTypes DEF Pipe
<1>2. Cuts
  BY <1>1 DEF Cuts
<1> QED BY <1>1, <1>2, PipeQuiet, SayQuiet

\* A step that loses messages, or none if nobody is left to care.
LEMMA PipeLoses ==
  ASSUME Types, Types', PipeInv, SayInv, Onward, Cuts, UNCHANGED <<heard, said, call>>,
         ctx => ctx', alive' => alive, ~alive' \/ ctx'
  PROVE  PipeInv' /\ SayInv'
BY PipeQuiet, SayQuiet

LEMMA PipeStep ==
  ASSUME Types, Types', PipeInv, SayInv, WorkInv, Next
  PROVE  PipeInv' /\ SayInv'
<1> USE DEF callVars, workerVars, hostVars, helpVars, histVars
<1>0. /\ Onward
      /\ call \in [Call -> {"new", "ready", "waiting", "telling", "ok", "failed"}]
      /\ said \in Nat /\ said + 1 \in Nat /\ heard \in Seq(Nat)
      /\ worker \in {"running", "flushing", "ended", "gone"}
  BY GoesOnward DEF Types, CallTypes, HostTypes
<1>1. ASSUME NEW c \in Call, Announce(c) PROVE PipeInv' /\ SayInv'
  <2>1. PICK m \in UpMsg : m.kind = "ensure" /\ m.call = c /\ Put(m)
    BY <1>1, UpMessages DEF Announce
  <2>2. /\ UNCHANGED <<up, heard, said, alive, ctx>> /\ worker # "gone" /\ alive
        /\ \A d \in Call : call'[d] = "ready" => call[d] = "ready" \/ d = c
    BY <1>0, <1>1 DEF Announce
  <2>3. CASE ctx
    <3>1. Cuts
      BY <2>1, <2>2, <2>3, PipePut
    <3>2. PipeInv'
      BY <1>0, <2>2, <3>1, PipeQuiet
    <3>3. SayInv'
      <4>1. \A i \in 1..Len(Pipe') : i \in 1..Len(Pipe) /\ Pipe'[i] = Pipe[i]
        BY <3>1, PipeTypes, NextPipeTypes DEF Cuts
      <4> QED BY <2>2, <2>3, <4>1 DEF SayInv
    <3> QED BY <3>2, <3>3
  <2>4. CASE ~ctx
    <3>1. Grows(m)
      BY <2>1, <2>2, <2>4, PipePut
    <3>2. PipeInv'
      BY <1>0, <2>1, <2>2, <3>1, PipeGrow
    <3>3. SayInv'
      BY <1>0, <2>1, <2>2, <3>1, SayGrow DEF PipeInv
    <3> QED BY <3>2, <3>3
  <2> QED BY <2>3, <2>4
<1>2. ASSUME NEW c \in Call, Ask(c) PROVE PipeInv' /\ SayInv'
  <2>1. PICK m \in UpMsg : m.kind = "request" /\ m.call = c /\ Put(m)
    BY <1>2, UpMessages DEF Ask
  <2>2. /\ UNCHANGED <<up, heard, said, alive, ctx, kind>> /\ worker # "gone" /\ alive
        /\ call[c] = IF kind[c] = "event" THEN "ready" ELSE "new"
        /\ call'[c] = "waiting" /\ \A d \in Call : call'[d] = "ready" => call[d] = "ready"
    BY <1>0, <1>2 DEF Ask
  <2>3. CASE ctx
    <3>1. Cuts
      BY <2>1, <2>2, <2>3, PipePut
    <3>2. PipeInv'
      BY <1>0, <2>2, <3>1, PipeQuiet
    <3>3. SayInv'
      BY <1>0, <2>2, <2>3, <3>1, SayQuiet
    <3> QED BY <3>2, <3>3
  <2>4. CASE ~ctx
    <3>1. Grows(m)
      BY <2>1, <2>2, <2>4, PipePut
    <3>2. ~Requested(c)
      BY <2>2 DEF Requested, PipeInv, RequestInv
    <3>3. kind[c] = "event" => Announced(c, Len(Pipe) + 1)
      BY <2>2, <2>4 DEF SayInv
    <3>4. PipeInv'
      BY <1>0, <2>1, <2>2, <3>1, <3>2, <3>3, PipeGrow
    <3>5. SayInv'
      BY <1>0, <2>1, <2>2, <3>1, SayGrow DEF PipeInv
    <3> QED BY <3>4, <3>5
  <2> QED BY <2>3, <2>4
<1>3. ASSUME NEW c \in Call, Tell(c) PROVE PipeInv' /\ SayInv'
  <2>1. PICK m \in UpMsg : m.kind = "note" /\ m.n = said + 1 /\ Put(m)
    BY <1>0, <1>3, UpMessages DEF Tell, PutNote
  <2>2. /\ UNCHANGED <<up, heard, alive, ctx>> /\ alive /\ worker # "gone"
        /\ said' = IF ctx THEN said ELSE said + 1
        /\ \A d \in Call : call'[d] = "ready" => call[d] = "ready"
    <3>1. call[c] = "telling" /\ alive
      BY <1>3 DEF Tell
    <3>2. worker # "gone"
      BY <3>1 DEF WorkInv, LifeInv, Settled
    <3> QED BY <1>0, <1>3, <3>2 DEF Tell, PutNote
  <2>3. CASE ctx
    <3>1. Cuts
      BY <2>1, <2>2, <2>3, PipePut
    <3>2. PipeInv'
      BY <1>0, <2>2, <3>1, PipeQuiet
    <3>3. SayInv'
      BY <1>0, <2>2, <2>3, <3>1, SayQuiet
    <3> QED BY <3>2, <3>3
  <2>4. CASE ~ctx
    <3>1. Grows(m)
      BY <2>1, <2>2, <2>4, PipePut
    <3>2. NoteBefore(said, Len(Pipe) + 1) /\ Len(heard) <= said
      BY <2>2, <2>4 DEF SayInv
    <3>3. PipeInv'
      BY <1>0, <2>1, <2>2, <2>4, <3>1, <3>2, PipeGrow
    <3>4. SayInv'
      BY <1>0, <2>1, <2>2, <2>4, <3>1, SayGrow DEF PipeInv
    <3> QED BY <3>3, <3>4
  <2> QED BY <2>3, <2>4
<1>4. ASSUME NEW c \in Call, Return(c) \/ GiveUp(c) \/ NextPiece(c) PROVE PipeInv' /\ SayInv'
  <2>1. /\ UNCHANGED <<up, buf, heard, said, alive, ctx>>
        /\ \A d \in Call : call'[d] = "ready" => call[d] = "ready"
    BY <1>0, <1>4 DEF Return, GiveUp, End, NextPiece
  <2> QED BY <1>0, <2>1, PipeStays
<1>5. ASSUME NEW c \in Call, Operate(c) \/ Stream(c) \/ Respond(c) PROVE PipeInv' /\ SayInv'
  <2>1. UNCHANGED <<up, buf, heard, said, alive, ctx, call>>
    BY <1>5 DEF Operate, Stream, Respond
  <2> QED BY <1>0, <2>1, PipeStays
<1>6. CASE Route \/ Finish \/ Flushed
  <2>1. UNCHANGED <<up, buf, heard, said, alive, ctx, call>>
    BY <1>6 DEF Route, Finish, Flushed
  <2> QED BY <1>0, <2>1, PipeStays
<1>7. CASE Transmit
  <2>1. UNCHANGED <<heard, said, alive, ctx, call>>
    BY <1>7 DEF Transmit
  <2>2. Pipe' = Pipe /\ Len(Pipe) \in Nat
    BY <1>7, PipeTransmit, PipeTypes
  <2>3. Cuts
    BY <2>2 DEF Cuts
  <2> QED BY <1>0, <2>1, <2>2, <2>3, PipeQuiet, SayQuiet
<1>8. CASE Terminal
  <2>1. /\ UNCHANGED <<buf, heard, said, alive, ctx, call>> /\ worker # "gone" /\ worker' = "gone" /\ alive
        /\ buf = << >>
    BY <1>8 DEF Terminal, WorkInv, LifeInv
  <2>2. CASE up' = up
    BY <1>0, <2>1, <2>2, PipeStays
  <2>3. CASE up' # up
    <3>1. PICK m \in UpMsg : m.kind \in {"done", "error"} /\ up' = Append(up, m)
      BY <1>8, <2>3, UpMessages DEF Terminal
    <3>2. Grows(m)
      BY <2>1, <3>1, PipeEnd
    <3>3. PipeInv'
      BY <1>0, <2>1, <3>1, <3>2, PipeGrow
    <3>4. SayInv'
      BY <1>0, <2>1, <3>1, <3>2, SayGrow DEF PipeInv
    <3> QED BY <3>3, <3>4
  <2> QED BY <2>2, <2>3
<1>9. CASE Crash \/ Stop \/ Cancel
  <2>1. /\ UNCHANGED <<heard, said, call>> /\ up' \in {up, << >>} /\ buf' = << >>
        /\ (ctx => ctx') /\ (alive' => alive) /\ (~alive' \/ ctx')
    BY <1>9 DEF Crash, Stop, Fail, Die, Cancel
  <2>2. Cuts
    BY <2>1, PipeCut
  <2> QED BY <1>0, <2>1, <2>2, PipeLoses
<1>10. CASE RecvFails \/ Reply
  <2>1. UNCHANGED <<heard, said, call, ctx>>
    BY <1>10 DEF RecvFails, Reply
  <2>2. CASE UNCHANGED <<up, buf, alive>>
    BY <1>0, <2>1, <2>2, PipeStays
  <2>3. CASE Fail /\ up' = << >>
    <3>1. ~alive' /\ buf' = << >>
      BY <2>3 DEF Fail, Die
    <3>2. Cuts
      BY <2>3, <3>1, PipeCut
    <3> QED BY <1>0, <2>1, <3>1, <3>2, PipeLoses
  <2> QED BY <1>10, <2>2, <2>3 DEF RecvFails, Reply
<1>11. CASE HandleError
  <2>1. /\ UNCHANGED <<heard, said, call, ctx>> /\ ~alive' /\ buf' = << >> /\ up' = Tail(up)
        /\ up # << >> /\ Head(up).kind = "error"
    BY <1>11 DEF HandleError, Recv, Fail, Die
  <2>2. Len(Pipe) = 1
    <3>1. 1 \in 1..Len(Pipe) /\ Pipe[1].kind = "error"
      BY <2>1, PipeTypes
    <3> QED BY <3>1 DEF PipeInv, EndInv
  <2>3. Pipe' = << >>
    <3>1. up \in Seq(UpMsg) /\ buf \in Seq(UpMsg)
      BY DEF Types, QueueTypes
    <3>2. Len(Pipe) = Len(up) + Len(buf)
      BY <3>1 DEF Pipe
    <3>3. Tail(up) = << >>
      <4>1. Len(up) \in Nat /\ Len(up) >= 1 /\ Len(Tail(up)) = Len(up) - 1 /\ Tail(up) \in Seq(UpMsg)
        BY <2>1, <3>1, FirstAndRest
      <4>2. Len(buf) \in Nat
        BY <3>1
      <4>3. Len(Tail(up)) = 0
        BY <2>2, <3>2, <4>1, <4>2
      <4>4. \A q \in Seq(UpMsg) : Len(q) = 0 => q = << >>
        OBVIOUS
      <4> QED BY <4>1, <4>3, <4>4
    <3> QED BY <2>1, <3>3 DEF Pipe
  <2>4. Cuts
    BY <2>2, <2>3 DEF Cuts
  <2> QED BY <1>0, <2>1, <2>4, PipeLoses
<1>12. ASSUME up # << >>, up' = Tail(up), buf' = buf, UNCHANGED <<said, ctx, alive, call>>,
              Head(up).kind = "ensure" => Head(up).call \in scope' \cup orphan',
              IF Head(up).kind = "note" THEN heard' = Append(heard, Head(up).n) ELSE heard' = heard
       PROVE  PipeInv' /\ SayInv'
  <2>1. Drops
    BY <1>12, PipeRecv
  <2>2. Head(up) = Pipe[1]
    BY <1>12, PipeTypes
  <2> QED BY <1>0, <1>12, <2>1, <2>2, PipeDrop, SayDrop
<1>13. CASE HandleNote
  BY <1>12, <1>13 DEF HandleNote, Recv
<1>14. CASE EnsureChild
  BY <1>12, <1>14 DEF EnsureChild, Recv
<1>15. CASE HandleInline \/ HandOver \/ HandleDone
  BY <1>12, <1>15 DEF HandleInline, HandOver, HandleDone, Recv
<1> QED BY <1>1, <1>2, <1>3, <1>4, <1>5, <1>6, <1>7, <1>8, <1>9, <1>10, <1>11, <1>13, <1>14, <1>15
        DEF Next, CallStep

-----------------------------------------------------------------------------
(* The worker and the drain loop *)

\* Calls that have ended do nothing once the runner has returned.
LEMMA SettledStays ==
  ASSUME Next, worker # "running", \A c \in Call : Settled(c)
  PROVE  call' = call
<1> USE DEF callVars, workerVars, hostVars, helpVars, histVars
<1>1. ASSUME NEW c \in Call, CallStep(c) \/ GiveUp(c) PROVE FALSE
  BY <1>1 DEF CallStep, Announce, Ask, Return, GiveUp, NextPiece, Tell, Settled
<1>2. ASSUME NEW c \in Call, Operate(c) \/ Stream(c) \/ Respond(c) PROVE call' = call
  BY <1>2 DEF Operate, Stream, Respond
<1>3. CASE Transmit \/ Route \/ Finish \/ Flushed \/ Terminal \/ Crash \/ Stop \/ Cancel
  BY <1>3 DEF Transmit, Route, Finish, Flushed, Terminal, Crash, Stop, Cancel
<1>4. CASE HandleNote \/ EnsureChild \/ HandleInline \/ HandOver \/ HandleDone \/ HandleError \/ RecvFails \/ Reply
  BY <1>4 DEF HandleNote, EnsureChild, HandleInline, HandOver, HandleDone, HandleError, RecvFails, Reply
<1> QED BY <1>1, <1>2, <1>3, <1>4 DEF Next

LEMMA LifeStep ==
  ASSUME Types, WorkInv, Next
  PROVE  LifeInv'
<1> USE DEF callVars, workerVars, hostVars, helpVars, histVars
<1>0. /\ ~alive => worker = "gone"
      /\ worker \in {"ended", "gone"} => buf = << >>
      /\ alive /\ worker # "running" => \A c \in Call : Settled(c)
      /\ worker \in {"running", "flushing", "ended", "gone"}
  BY DEF WorkInv, LifeInv, Types, HostTypes
<1>a. ASSUME UNCHANGED <<alive, worker, buf>> PROVE LifeInv'
  <2>1. ASSUME alive', worker' # "running" PROVE call' = call
    BY <1>0, <1>a, <2>1, SettledStays
  <2> QED BY <1>0, <1>a, <2>1 DEF LifeInv, Settled
<1>b. ASSUME Die PROVE LifeInv'
  BY <1>b DEF LifeInv, Die
<1>1. ASSUME NEW c \in Call, Announce(c) \/ Ask(c) \/ Tell(c) PROVE LifeInv'
  <2>1. UNCHANGED <<alive, worker>> /\ alive /\ worker = "running"
    <3>1. Tell(c) => worker = "running"
      BY <1>0 DEF Tell, Settled
    <3> QED BY <1>1, <3>1 DEF Announce, Ask, Tell
  <2> QED BY <2>1 DEF LifeInv
<1>2. ASSUME NEW c \in Call, Return(c) \/ GiveUp(c) \/ NextPiece(c) \/ Operate(c) \/ Stream(c) \/ Respond(c)
      PROVE LifeInv'
  BY <1>2, <1>a DEF Return, GiveUp, End, NextPiece, Operate, Stream, Respond
<1>3. CASE Transmit
  <2>1. UNCHANGED <<alive, worker, call>> /\ worker \notin {"ended", "gone"}
    BY <1>0, <1>3 DEF Transmit
  <2> QED BY <1>0, <2>1 DEF LifeInv, Settled
<1>4. CASE Finish \/ Flushed \/ Terminal
  <2>1. UNCHANGED <<alive, call, buf>> /\ alive /\ worker' \in {"flushing", "ended", "gone"}
    BY <1>4 DEF Finish, Flushed, Terminal
  <2>2. worker' # "flushing" => buf = << >>
    BY <1>0, <1>4 DEF Finish, Flushed, Terminal
  <2>3. \A c \in Call : Settled(c)
    BY <1>0, <1>4 DEF Finish, Flushed, Terminal
  <2> QED BY <2>1, <2>2, <2>3 DEF LifeInv, Settled
<1>5. CASE Cancel
  <2>1. UNCHANGED <<alive, worker, call>> /\ buf' = << >>
    BY <1>5 DEF Cancel
  <2> QED BY <1>0, <2>1 DEF LifeInv, Settled
<1>6. CASE Crash \/ Stop \/ HandleError
  BY <1>6, <1>b DEF Crash, Stop, HandleError, Fail
<1>7. CASE Route \/ HandleNote \/ EnsureChild \/ HandleInline \/ HandOver \/ HandleDone
  BY <1>7, <1>a DEF Route, HandleNote, EnsureChild, HandleInline, HandOver, HandleDone
<1>8. CASE Reply \/ RecvFails
  BY <1>8, <1>a, <1>b DEF Reply, RecvFails, Fail
<1> QED BY <1>1, <1>2, <1>3, <1>4, <1>5, <1>6, <1>7, <1>8 DEF Next, CallStep

LEMMA LoopStep ==
  ASSUME Types, WorkInv, Next
  PROVE  LoopInv'
<1> USE DEF callVars, workerVars, hostVars, helpVars, histVars
<1>0. LoopInv
  BY DEF WorkInv
<1>a. ASSUME UNCHANGED hostVars PROVE LoopInv'
  BY <1>0, <1>a DEF LoopInv
<1>1. ASSUME NEW c \in Call, CallStep(c) \/ GiveUp(c) PROVE LoopInv'
  BY <1>1, <1>a DEF CallStep, Announce, Ask, Return, GiveUp, End, NextPiece, Tell
<1>2. ASSUME NEW c \in Call, Operate(c) \/ Stream(c) \/ Respond(c) PROVE LoopInv'
  BY <1>2, <1>a DEF Operate, Stream, Respond
<1>3. CASE Transmit \/ Route \/ Finish \/ Flushed \/ Terminal \/ Crash \/ Cancel
  BY <1>3, <1>a DEF Transmit, Route, Finish, Flushed, Terminal, Crash, Cancel
<1>4. CASE HandleNote \/ EnsureChild \/ HandOver
  BY <1>0, <1>4 DEF LoopInv, HandleNote, EnsureChild, HandOver, Recv, Again
<1>5. CASE HandleDone
  BY <1>0, <1>5 DEF LoopInv, HandleDone, Recv, Again
<1>6. CASE HandleInline
  <2>1. /\ Len(todo') = 1 /\ host' = "reply" /\ host = "recv" /\ UNCHANGED <<verdict, turnDone>>
        /\ ~turnDone
    BY <1>6 DEF HandleInline, Recv, WorkInv, DoneInv
  <2> QED BY <1>0, <2>1 DEF LoopInv
<1>7. CASE HandleError \/ RecvFails \/ Stop
  BY <1>0, <1>7 DEF LoopInv, HandleError, RecvFails, Stop, Fail, Recv
<1>8. CASE Reply
  BY <1>0, <1>8 DEF LoopInv, Reply, Fail, Again
<1> QED BY <1>1, <1>2, <1>3, <1>4, <1>5, <1>6, <1>7, <1>8 DEF Next

LEMMA DoneStep ==
  ASSUME Types, Types', PipeInv, WorkInv, Next
  PROVE  DoneInv'
<1> USE DEF callVars, workerVars, hostVars, helpVars, histVars
<1>0. /\ \A i \in 1..Len(Pipe) : Pipe[i].kind = "done" => worker = "gone" /\ i = Len(Pipe) /\ \A c \in Call : Settled(c)
      /\ turnDone => worker = "gone" /\ up = << >> /\ buf = << >> /\ \A c \in Call : Settled(c)
      /\ worker = "gone" => worker' = "gone"
      /\ Len(Pipe) \in Nat /\ Len(Pipe') \in Nat
  BY GoesOnward, PipeTypes, NextPipeTypes DEF WorkInv, DoneInv, LifeInv, PipeInv, EndInv, Onward
<1>s. ASSUME worker = "gone", \A c \in Call : Settled(c) PROVE \A c \in Call : Settled(c)'
  BY <1>s, SettledStays DEF Settled
\* A message of the pipe was there before.
<1>a. ASSUME NEW i \in 1..Len(Pipe'), Pipe'[i].kind = "done", Cuts \/ Drops PROVE \A c \in Call : Settled(c)'
  <2>1. \E j \in 1..Len(Pipe) : Pipe'[i] = Pipe[j]
    <3>1. CASE Cuts
      BY <1>0, <3>1 DEF Cuts
    <3>2. CASE Drops
      <4>1. i + 1 \in 1..Len(Pipe)
        BY <1>0, <3>2 DEF Drops
      <4> QED BY <3>2, <4>1 DEF Drops
    <3> QED BY <1>a, <3>1, <3>2
  <2> QED BY <1>0, <1>a, <1>s, <2>1
<1>b. ASSUME Cuts \/ Drops, turnDone' = turnDone, turnDone => up' = << >> PROVE DoneInv'
  BY <1>0, <1>a, <1>b, <1>s DEF DoneInv, Settled
<1>c. ASSUME NEW m \in UpMsg, m.kind # "done", Put(m), UNCHANGED <<up, turnDone>>, worker # "gone" PROVE DoneInv'
  <2>1. CASE ctx
    BY <1>0, <1>b, <1>c, <2>1, PipePut
  <2>2. CASE ~ctx
    <3>1. Grows(m)
      BY <1>c, <2>2, PipePut
    <3>2. ~turnDone' /\ \A i \in 1..Len(Pipe') : Pipe'[i].kind # "done"
      BY <1>0, <1>c, <3>1 DEF Grows
    <3> QED BY <3>2 DEF DoneInv
  <2> QED BY <2>1, <2>2
<1>d. ASSUME UNCHANGED <<up, buf>> PROVE Cuts
  BY <1>0, <1>d DEF Cuts, Pipe
<1>1. ASSUME NEW c \in Call, Announce(c) \/ Ask(c) \/ Tell(c) PROVE DoneInv'
  <2>1. PICK m \in UpMsg : m.kind # "done" /\ Put(m)
    <3>1. said + 1 \in Nat
      BY DEF Types, HostTypes
    <3> QED BY <1>1, <3>1, UpMessages DEF Announce, Ask, Tell, PutNote
  <2>2. UNCHANGED <<up, turnDone>> /\ worker # "gone"
    <3>1. Tell(c) => worker = "running"
      BY DEF Tell, Settled, WorkInv, LifeInv
    <3> QED BY <1>1, <3>1 DEF Announce, Ask, Tell
  <2> QED BY <1>c, <2>1, <2>2
<1>2. ASSUME NEW c \in Call, Return(c) \/ GiveUp(c) \/ NextPiece(c) \/ Operate(c) \/ Stream(c) \/ Respond(c)
      PROVE DoneInv'
  <2>1. UNCHANGED <<up, buf, turnDone>>
    BY <1>2 DEF Return, GiveUp, End, NextPiece, Operate, Stream, Respond
  <2> QED BY <1>0, <1>b, <1>d, <2>1
<1>3. CASE Route \/ Finish \/ Flushed
  <2>1. UNCHANGED <<up, buf, turnDone>>
    BY <1>3 DEF Route, Finish, Flushed
  <2> QED BY <1>0, <1>b, <1>d, <2>1
<1>4. CASE Transmit
  <2>1. Pipe' = Pipe /\ UNCHANGED turnDone /\ ~turnDone
    BY <1>0, <1>4, PipeTransmit DEF Transmit
  <2>2. Cuts
    BY <1>0, <2>1 DEF Cuts
  <2> QED BY <1>b, <2>1, <2>2
<1>5. CASE Terminal
  <2>1. UNCHANGED <<buf, turnDone, call>> /\ ~turnDone /\ buf = << >> /\ \A c \in Call : Settled(c)
    BY <1>0, <1>5 DEF Terminal, WorkInv, LifeInv
  <2> QED BY <2>1 DEF DoneInv, Settled
<1>6. CASE Crash \/ Stop \/ Cancel
  <2>1. /\ UNCHANGED turnDone /\ up' \in {up, << >>} /\ buf' = << >>
    BY <1>6 DEF Crash, Stop, Fail, Die, Cancel
  <2>2. Cuts
    BY <2>1, PipeCut
  <2> QED BY <1>0, <1>b, <2>1, <2>2
<1>7. CASE RecvFails \/ Reply
  <2>1. /\ turnDone' = turnDone
        /\ (up' = up /\ buf' = buf) \/ (up' = << >> /\ buf' = << >>)
    <3>1. turnDone' = turnDone
      BY <1>7 DEF RecvFails, Reply
    <3>2. UNCHANGED <<up, buf>> \/ (Die /\ up' = << >>)
      BY <1>7 DEF RecvFails, Reply, Fail
    <3> QED BY <3>1, <3>2 DEF Die
  <2>2. Cuts
    BY <2>1, PipeCut
  <2> QED BY <1>0, <1>b, <2>1, <2>2
<1>8. CASE HandleError
  <2>1. UNCHANGED <<turnDone, call>> /\ up # << >> /\ buf' = << >> /\ up' = Tail(up)
    BY <1>8 DEF HandleError, Recv, Fail, Die
  <2>2. ~turnDone'
    BY <1>0, <2>1
  <2>3. Head(up).kind = "error"
    BY <1>8 DEF HandleError, Recv
  <2>4. 1 = Len(Pipe) /\ worker = "gone"
    <3>1. 1 \in 1..Len(Pipe) /\ Pipe[1].kind = "error"
      BY <2>1, <2>3, PipeTypes
    <3> QED BY <3>1 DEF PipeInv, EndInv
  <2>5. Drops
    BY <2>1, <2>4, PipeRecv DEF WorkInv, LifeInv
  <2> QED BY <1>b, <2>1, <2>2, <2>5
<1>9. CASE HandleNote \/ EnsureChild \/ HandleInline \/ HandOver
  <2>1. UNCHANGED <<turnDone, buf>> /\ up # << >> /\ up' = Tail(up)
    BY <1>9 DEF HandleNote, EnsureChild, HandleInline, HandOver, Recv
  <2>2. Drops /\ ~turnDone
    BY <1>0, <2>1, PipeRecv
  <2> QED BY <1>b, <2>1, <2>2
<1>10. CASE HandleDone
  <2>1. UNCHANGED <<buf, call, worker>> /\ up # << >> /\ up' = Tail(up) /\ Head(up).kind = "done" /\ turnDone'
    BY <1>10 DEF HandleDone, Recv
  <2>2. 1 \in 1..Len(Pipe) /\ Pipe[1].kind = "done"
    BY <2>1, PipeTypes
  <2>3. 1 = Len(Pipe) /\ worker = "gone" /\ \A c \in Call : Settled(c)
    BY <1>0, <2>2
  <2>4. Drops
    BY <2>1, PipeRecv
  <2>5. Len(Pipe') = 0
    BY <2>3, <2>4 DEF Drops
  <2>6. up' = << >>
    <3>1. up' \in Seq(UpMsg) /\ buf' \in Seq(UpMsg)
      BY DEF Types, QueueTypes
    <3>2. Len(Pipe') = Len(up') + Len(buf') /\ Len(up') \in Nat /\ Len(buf') \in Nat
      BY <3>1 DEF Pipe
    <3>3. Len(up') = 0
      BY <2>5, <3>2
    <3>4. \A q \in Seq(UpMsg) : Len(q) = 0 => q = << >>
      OBVIOUS
    <3> QED BY <3>1, <3>3, <3>4
  <2> QED BY <2>1, <2>3, <2>5, <2>6 DEF DoneInv, Settled
<1> QED BY <1>1, <1>2, <1>3, <1>4, <1>5, <1>6, <1>7, <1>8, <1>9, <1>10 DEF Next, CallStep

-----------------------------------------------------------------------------
(* Calls and their answers *)

\* Where a request in the pipe comes from, and that it leaves it for good.
LEMMA RequestedStep ==
  ASSUME Types, Types', PipeInv, WorkInv, Next, NEW c \in Call
  PROVE  /\ Requested(c)' => Requested(c) \/ call[c] \in {"new", "ready"}
         /\ (HandleInline \/ HandOver) /\ Head(up).call = c => Requested(c) /\ ~Requested(c)'
<1> USE DEF callVars, workerVars, hostVars, helpVars, histVars
<1>0. Len(Pipe) \in Nat /\ Len(Pipe') \in Nat
  BY PipeTypes, NextPipeTypes
<1>a. Cuts => (Requested(c)' => Requested(c))
  BY <1>0 DEF Cuts, Requested
<1>b. Drops => (Requested(c)' => Requested(c))
  <2> SUFFICES ASSUME Drops, NEW i \in 1..Len(Pipe'), Pipe'[i].kind = "request", Pipe'[i].call = c
               PROVE  Requested(c)
    BY DEF Requested
  <2>1. i + 1 \in 1..Len(Pipe) /\ Pipe'[i] = Pipe[i + 1]
    BY <1>0 DEF Drops
  <2> QED BY <2>1 DEF Requested
<1>c. ASSUME NEW m \in UpMsg, Grows(m), m.kind = "request" => m.call # c
      PROVE  Requested(c)' => Requested(c)
  BY <1>0, <1>c DEF Grows, Requested
<1>d. ASSUME UNCHANGED <<up, buf>> PROVE Requested(c)' => Requested(c)
  BY <1>d DEF Requested, Pipe
<1>e. ASSUME NEW m \in UpMsg, Put(m), up' = up, m.kind = "request" => m.call # c
      PROVE  Requested(c)' => Requested(c)
  BY <1>a, <1>c, <1>e, PipePut
<1>f. ASSUME up # << >>, up' = Tail(up), buf' = buf PROVE Drops
  BY <1>f, PipeRecv
<1>1. (HandleInline \/ HandOver) /\ Head(up).call = c => Requested(c) /\ ~Requested(c)'
  <2> SUFFICES ASSUME HandleInline \/ HandOver, Head(up).call = c PROVE Requested(c) /\ ~Requested(c)'
    OBVIOUS
  <2>1. up # << >> /\ up' = Tail(up) /\ buf' = buf /\ Head(up).kind = "request"
    BY DEF HandleInline, HandOver, Recv
  <2>2. Pipe[1].kind = "request" /\ Pipe[1].call = c /\ 1 \in 1..Len(Pipe)
    BY <2>1, PipeTypes
  <2>3. ASSUME NEW i \in 1..Len(Pipe'), Pipe'[i].kind = "request", Pipe'[i].call = c PROVE FALSE
    <3>1. i + 1 \in 1..Len(Pipe) /\ Pipe'[i] = Pipe[i + 1]
      BY <1>0, <1>f, <2>1 DEF Drops
    <3>2. i + 1 = 1
      BY <2>2, <2>3, <3>1 DEF PipeInv, OnceInv
    <3> QED BY <3>2
  <2> QED BY <2>2, <2>3 DEF Requested
<1> SUFFICES Requested(c)' => Requested(c) \/ call[c] \in {"new", "ready"}
  BY <1>1
<1>2. ASSUME NEW d \in Call, Announce(d) \/ Tell(d) PROVE Requested(c)' => Requested(c)
  <2>1. PICK m \in UpMsg : m.kind # "request" /\ Put(m)
    <3>1. said + 1 \in Nat
      BY DEF Types, HostTypes
    <3> QED BY <1>2, <3>1, UpMessages DEF Announce, Tell, PutNote
  <2> QED BY <1>2, <1>e, <2>1 DEF Announce, Tell
<1>3. ASSUME NEW d \in Call, Ask(d) PROVE Requested(c)' => Requested(c) \/ call[c] \in {"new", "ready"}
  <2>1. call[d] \in {"new", "ready"} /\ up' = up
    BY <1>3 DEF Ask
  <2>2. PICK m \in UpMsg : m.call = d /\ Put(m)
    BY <1>3, UpMessages DEF Ask
  <2>3. CASE d = c
    BY <2>1, <2>3
  <2>4. CASE d # c
    BY <1>e, <2>1, <2>2, <2>4
  <2> QED BY <2>3, <2>4
<1>4. ASSUME NEW d \in Call, \/ Return(d) \/ GiveUp(d) \/ NextPiece(d)
                             \/ Operate(d) \/ Stream(d) \/ Respond(d)
      PROVE  Requested(c)' => Requested(c)
  BY <1>4, <1>d DEF Return, GiveUp, End, NextPiece, Operate, Stream, Respond
<1>5. CASE Route \/ Finish \/ Flushed
  BY <1>5, <1>d DEF Route, Finish, Flushed
<1>6. CASE Transmit
  BY <1>6, PipeTransmit DEF Requested
<1>7. CASE Terminal
  <2>1. buf = << >> /\ buf' = buf
    BY <1>7 DEF Terminal, WorkInv, LifeInv
  <2>2. CASE up' = up
    BY <1>d, <2>1, <2>2
  <2>3. CASE up' # up
    <3>1. PICK m \in UpMsg : m.kind # "request" /\ up' = Append(up, m)
      BY <1>7, <2>3, UpMessages DEF Terminal
    <3> QED BY <1>c, <2>1, <3>1, PipeEnd
  <2> QED BY <2>2, <2>3
<1>8. CASE Crash \/ Stop \/ Cancel
  <2>1. up' \in {up, << >>} /\ buf' = << >>
    BY <1>8 DEF Crash, Stop, Fail, Die, Cancel
  <2> QED BY <1>a, <2>1, PipeCut
<1>9. CASE RecvFails \/ Reply
  <2>1. UNCHANGED <<up, buf>> \/ (Die /\ up' = << >>)
    BY <1>9 DEF RecvFails, Reply, Fail
  <2> QED BY <1>a, <2>1, PipeCut DEF Die
<1>10. CASE HandleError
  <2>1. up # << >> /\ Head(up).kind = "error" /\ up' = Tail(up) /\ buf' = << >>
    BY <1>10 DEF HandleError, Recv, Fail, Die
  <2>2. worker = "gone"
    <3>1. 1 \in 1..Len(Pipe) /\ Pipe[1].kind = "error"
      BY <2>1, PipeTypes
    <3> QED BY <3>1 DEF PipeInv, EndInv
  <2> QED BY <1>b, <1>f, <2>1, <2>2 DEF WorkInv, LifeInv
<1>11. CASE HandleNote \/ EnsureChild \/ HandleInline \/ HandOver \/ HandleDone
  BY <1>b, <1>f, <1>11 DEF HandleNote, EnsureChild, HandleInline, HandOver, HandleDone, Recv
<1> QED BY <1>2, <1>3, <1>4, <1>5, <1>6, <1>7, <1>8, <1>9, <1>10, <1>11 DEF Next, CallStep

\* What happens to the goroutine of a call.
LEMMA HelperStep ==
  ASSUME Types, Next, NEW c \in Call
  PROVE  \/ helper'[c] = helper[c] /\ ~Respond(c)
         \/ HandOver /\ Head(up).call = c /\ helper'[c] = "working"
         \/ helper[c] = "working" /\ helper'[c] = "ok" /\ applied' = applied \cup {c}
         \/ helper[c] = "working" /\ helper'[c] = "no"
         \/ helper[c] \in {"ok", "no"} /\ helper'[c] = "none"
<1> USE DEF callVars, workerVars, hostVars, helpVars, histVars
<1>0. helper \in [Call -> {"none", "working", "ok", "no"}]
  BY DEF Types, HostTypes
<1>1. CASE Respond(c)
  BY <1>0, <1>1 DEF Respond
<1>2. CASE ~Respond(c)
  <2>1. ASSUME NEW d \in Call, CallStep(d) \/ GiveUp(d) PROVE helper' = helper
    BY <2>1 DEF CallStep, Announce, Ask, Return, GiveUp, End, NextPiece, Tell
  <2>2. ASSUME NEW d \in Call, Stream(d) \/ Respond(d) PROVE helper'[c] = helper[c]
    BY <1>0, <1>2, <2>2 DEF Stream, Respond
  <2>3. ASSUME NEW d \in Call, Operate(d), d # c PROVE helper'[c] = helper[c]
    BY <1>0, <2>3 DEF Operate
  <2>4. CASE Operate(c)
    BY <1>0, <2>4 DEF Operate
  <2>5. CASE HandOver
    BY <1>0, <1>2, <2>5 DEF HandOver
  <2>6. CASE Transmit \/ Route \/ Finish \/ Flushed \/ Terminal \/ Crash \/ Stop \/ Cancel
    BY <1>2, <2>6 DEF Transmit, Route, Finish, Flushed, Terminal, Crash, Stop, Cancel
  <2>7. CASE HandleNote \/ EnsureChild \/ HandleInline \/ HandleDone \/ HandleError \/ RecvFails \/ Reply
    BY <1>2, <2>7 DEF HandleNote, EnsureChild, HandleInline, HandleDone, HandleError, RecvFails, Reply
  <2> QED BY <1>2, <2>1, <2>2, <2>3, <2>4, <2>5, <2>6, <2>7 DEF Next
<1> QED BY <1>1, <1>2

LEMMA OpenStep ==
  ASSUME Types, Types', PipeInv, WorkInv, OpenInv, Next, NEW c \in Call
  PROVE  /\ Open(c)' => Open(c) /\ helper'[c] = "none"
         /\ Undone(c)' => Undone(c)
         /\ (HandleInline \/ HandOver) /\ Head(up).call = c => Open(c) /\ ~Open(c)'
<1>1. call[c] \notin {"new", "ready"} => call'[c] \notin {"new", "ready"}
  BY GoesOnward DEF Onward
<1>2. Open(c)' => Open(c)
  BY <1>1, RequestedStep DEF Open
<1>3. (HandleInline \/ HandOver) /\ Head(up).call = c => Open(c) /\ ~Open(c)'
  <2> SUFFICES ASSUME HandleInline \/ HandOver, Head(up).call = c PROVE Open(c) /\ ~Open(c)'
    OBVIOUS
  <2>1. Requested(c) /\ ~Requested(c)'
    BY RequestedStep
  <2>2. call[c] \notin {"new", "ready"}
    BY <2>1 DEF Requested, PipeInv, RequestInv
  <2> QED BY <1>1, <2>1, <2>2 DEF Open
<1>4. Open(c)' => helper'[c] = "none"
  <2> SUFFICES ASSUME Open(c)' PROVE helper'[c] = "none"
    OBVIOUS
  <2>1. Open(c) /\ helper[c] = "none"
    BY <1>2 DEF OpenInv
  <2>2. helper'[c] = helper[c]
    BY <1>3, <2>1, HelperStep
  <2> QED BY <2>1, <2>2
<1>5. helper'[c] = "working" => Undone(c)
  BY <1>3, HelperStep DEF Undone
<1> QED BY <1>2, <1>3, <1>4, <1>5 DEF Undone

\* Where the answers on their way to the worker come from.
LEMMA DownStep ==
  ASSUME Types, LoopInv, Next, NEW i \in 1..Len(down')
  PROVE  \/ \E j \in 1..Len(down) : down'[i] = down[j]
         \/ \E c \in Call : Stream(c) /\ down'[i] = Answer(c, "piece")
         \/ \E c \in Call : Respond(c) /\ down'[i] = Answer(c, helper[c])
         \/ \E j \in 1..Len(todo) : down'[i] = todo[j]
<1> USE DEF callVars, workerVars, hostVars, helpVars, histVars
<1>0. down \in Seq(DownMsg) /\ Len(down) \in Nat
  BY DEF Types, QueueTypes
<1>a. ASSUME down' = down \/ down' = << >> PROVE \E j \in 1..Len(down) : down'[i] = down[j]
  BY <1>a
<1>b. ASSUME NEW m \in DownMsg, Send(m) PROVE down'[i] = m \/ \E j \in 1..Len(down) : down'[i] = down[j]
  <2>1. CASE down' = down
    BY <1>a, <2>1
  <2>2. CASE down' = Append(down, m)
    <3>1. Len(down') = Len(down) + 1 /\ down'[Len(down) + 1] = m /\ \A j \in 1..Len(down) : down'[j] = down[j]
      BY <1>0, <2>2
    <3>2. i \in 1..Len(down) \/ i = Len(down) + 1
      BY <1>0, <3>1
    <3> QED BY <3>1, <3>2
  <2> QED BY <1>b, <2>1, <2>2 DEF Send
<1>1. ASSUME NEW c \in Call, CallStep(c) \/ GiveUp(c) \/ Operate(c) PROVE down' = down
  BY <1>1 DEF CallStep, Announce, Ask, Return, GiveUp, End, NextPiece, Tell, Operate
<1>2. ASSUME NEW c \in Call, Stream(c)
      PROVE  down'[i] = Answer(c, "piece") \/ \E j \in 1..Len(down) : down'[i] = down[j]
  BY <1>2, <1>b, DownMessages DEF Stream
<1>3. ASSUME NEW c \in Call, Respond(c)
      PROVE  down'[i] = Answer(c, helper[c]) \/ \E j \in 1..Len(down) : down'[i] = down[j]
  <2>1. Answer(c, helper[c]) \in DownMsg /\ Send(Answer(c, helper[c]))
    BY <1>3, DownMessages DEF Respond
  <2> QED BY <1>b, <2>1
<1>4. CASE Route
  <2>1. down # << >> /\ down' = Tail(down)
    BY <1>4 DEF Route
  <2>2. down'[i] = down[i + 1] /\ i + 1 \in 1..Len(down)
    BY <1>0, <2>1, FirstAndRest
  <2> QED BY <2>2
<1>5. CASE Transmit \/ Finish \/ Flushed \/ Terminal \/ Crash \/ Cancel \/ Stop
  <2>1. down' = down \/ down' = << >>
    BY <1>5 DEF Transmit, Finish, Flushed, Terminal, Crash, Cancel, Stop, Fail, Die
  <2> QED BY <1>a, <2>1
<1>6. CASE HandleNote \/ EnsureChild \/ HandleInline \/ HandOver \/ HandleDone
  <2>1. down' = down
    BY <1>6 DEF HandleNote, EnsureChild, HandleInline, HandOver, HandleDone
  <2> QED BY <1>a, <2>1
<1>7. CASE HandleError \/ RecvFails
  <2>1. down' = down \/ down' = << >>
    BY <1>7 DEF HandleError, RecvFails, Fail, Die
  <2> QED BY <1>a, <2>1
<1>8. CASE Reply
  <2>1. down' = down \/ down' = << >> \/ down' = down \o todo
    BY <1>8 DEF Reply, Fail, Die
  <2>2. CASE down' = down \o todo
    <3>1. /\ todo \in Seq(DownMsg) /\ Len(todo) = 1
      BY <1>8 DEF Types, QueueTypes, LoopInv, Reply
    <3>a. PICK m \in DownMsg : todo = <<m>>
      <4>1. \A q \in Seq(DownMsg) : Len(q) = 1 => q = <<q[1]>> /\ q[1] \in DownMsg
        OBVIOUS
      <4> QED BY <3>1, <4>1
    <3>b. down \o <<m>> = Append(down, m)
      BY <1>0
    <3>2. Len(down') = Len(down) + 1 /\ down'[Len(down) + 1] = todo[1] /\ \A j \in 1..Len(down) : down'[j] = down[j]
      BY <1>0, <2>2, <3>a, <3>b
    <3>3. i \in 1..Len(down) \/ i = Len(down) + 1
      BY <1>0, <3>2
    <3> QED BY <3>1, <3>2, <3>3
  <2> QED BY <1>a, <2>1, <2>2
<1> QED BY <1>a, <1>1, <1>2, <1>3, <1>4, <1>5, <1>6, <1>7, <1>8 DEF Next

\* Where the answer a caller finds comes from.
LEMMA SlotStep ==
  ASSUME Types, Next, NEW c \in Call
  PROVE  \/ slot'[c] \in {slot[c], "none"}
         \/ \E i \in 1..Len(down) : down[i].call = c /\ down[i].kind = slot'[c] /\ down[i].kind # "piece"
<1> USE DEF callVars, workerVars, hostVars, helpVars, histVars
<1>0. slot \in [Call -> {"none", "ok", "no"}] /\ down \in Seq(DownMsg)
  BY DEF Types, CallTypes, QueueTypes
<1> SUFFICES ASSUME slot'[c] \notin {slot[c], "none"}
             PROVE  \E i \in 1..Len(down) : down[i].call = c /\ down[i].kind = slot'[c] /\ down[i].kind # "piece"
  OBVIOUS
<1>1. ASSUME NEW d \in Call, CallStep(d) \/ GiveUp(d) PROVE FALSE
  BY <1>0, <1>1 DEF CallStep, Announce, Ask, Return, GiveUp, End, NextPiece, Tell
<1>2. ASSUME NEW d \in Call, Operate(d) \/ Stream(d) \/ Respond(d) PROVE FALSE
  BY <1>2 DEF Operate, Stream, Respond
<1>3. CASE Transmit \/ Finish \/ Flushed \/ Terminal \/ Cancel \/ Crash \/ Stop
  BY <1>3 DEF Transmit, Finish, Flushed, Terminal, Cancel, Crash, Stop, Fail, Die
<1>4. CASE HandleNote \/ EnsureChild \/ HandleInline \/ HandOver \/ HandleDone
  BY <1>4 DEF HandleNote, EnsureChild, HandleInline, HandOver, HandleDone
<1>5. CASE HandleError \/ RecvFails \/ Reply
  BY <1>5 DEF HandleError, RecvFails, Reply, Fail, Die
<1>6. CASE Route
  <2>1. PICK m \in DownMsg : m = Head(down) /\ m = down[1] /\ 1 \in 1..Len(down)
    BY <1>0, <1>6, FirstAndRest DEF Route
  <2>2. m.kind # "piece" /\ slot' = [slot EXCEPT ![m.call] = m.kind]
    BY <1>6, <2>1 DEF Route
  <2>3. m.call = c /\ slot'[c] = m.kind
    BY <1>0, <2>2
  <2> QED BY <2>1, <2>2, <2>3
<1> QED BY <1>1, <1>2, <1>3, <1>4, <1>5, <1>6 DEF Next

LEMMA TodoStep ==
  ASSUME Types, Next
  PROVE  \/ todo' = todo \/ todo' = << >>
         \/ /\ HandleInline /\ Head(up).call \in Call
            /\ \/ todo' = <<Answer(Head(up).call, "ok")>> /\ Head(up).call \in applied'
               \/ todo' = <<Answer(Head(up).call, "no")>>
<1> USE DEF callVars, workerVars, hostVars, helpVars, histVars
<1>1. ASSUME NEW c \in Call, CallStep(c) \/ GiveUp(c) PROVE todo' = todo
  BY <1>1 DEF CallStep, Announce, Ask, Return, GiveUp, End, NextPiece, Tell
<1>2. ASSUME NEW c \in Call, Operate(c) \/ Stream(c) \/ Respond(c) PROVE todo' = todo
  BY <1>2 DEF Operate, Stream, Respond
<1>3. CASE Transmit \/ Route \/ Finish \/ Flushed \/ Terminal \/ Crash \/ Stop \/ Cancel
  BY <1>3 DEF Transmit, Route, Finish, Flushed, Terminal, Crash, Stop, Cancel
<1>4. CASE HandleNote \/ EnsureChild \/ HandOver \/ HandleDone \/ HandleError \/ RecvFails \/ Reply
  BY <1>4 DEF HandleNote, EnsureChild, HandOver, HandleDone, HandleError, RecvFails, Reply
<1>5. CASE HandleInline
  <2>1. up # << >> /\ Head(up).kind = "request"
    BY <1>5 DEF HandleInline, Recv
  <2>2. Head(up).call \in Call
    BY <2>1, FirstAndRest, UpMessages DEF Types, QueueTypes
  <2> QED BY <1>5, <2>2 DEF HandleInline
<1> QED BY <1>1, <1>2, <1>3, <1>4, <1>5 DEF Next

LEMMA AppliedGrows == ASSUME Next PROVE applied \subseteq applied'
<1> USE DEF callVars, workerVars, hostVars, helpVars, histVars
<1>1. ASSUME NEW c \in Call, CallStep(c) \/ GiveUp(c) PROVE applied' = applied
  BY <1>1 DEF CallStep, Announce, Ask, Return, GiveUp, End, NextPiece, Tell
<1>2. ASSUME NEW c \in Call, Operate(c) \/ Stream(c) \/ Respond(c) PROVE applied \subseteq applied'
  BY <1>2 DEF Operate, Stream, Respond
<1>3. CASE Transmit \/ Route \/ Finish \/ Flushed \/ Terminal \/ Crash \/ Stop \/ Cancel
  BY <1>3 DEF Transmit, Route, Finish, Flushed, Terminal, Crash, Stop, Cancel
<1>4. CASE HandleNote \/ EnsureChild \/ HandOver \/ HandleDone \/ HandleError \/ RecvFails \/ Reply
  BY <1>4 DEF HandleNote, EnsureChild, HandOver, HandleDone, HandleError, RecvFails, Reply
<1>5. CASE HandleInline
  BY <1>5 DEF HandleInline
<1> QED BY <1>1, <1>2, <1>3, <1>4, <1>5 DEF Next

LEMMA AnswerStep ==
  ASSUME Types, Types', PipeInv, WorkInv, OpenInv, AnswerInv, Next
  PROVE  AnswerInv'
<1> SUFFICES ASSUME NEW c \in Call, Undone(c)' PROVE Unanswered(c)'
  BY DEF AnswerInv
<1>1. Undone(c) /\ Unanswered(c)
  BY OpenStep DEF AnswerInv
<1>2. helper[c] \notin {"ok", "no"}
  BY <1>1 DEF Undone, OpenInv
<1>3. slot'[c] = "none"
  BY <1>1, SlotStep DEF Unanswered
<1>4. ASSUME NEW i \in 1..Len(todo') PROVE todo'[i].call # c
  <2>1. CASE todo' = todo
    BY <1>1, <2>1 DEF Unanswered
  <2>2. CASE todo' = << >>
    BY <2>2
  <2>3. CASE /\ HandleInline /\ Head(up).call \in Call
             /\ \E k \in {"ok", "no"} : todo' = <<Answer(Head(up).call, k)>>
    <3>1. todo'[i].call = Head(up).call
      BY <2>3, DownMessages
    <3>2. ASSUME Head(up).call = c PROVE FALSE
      <4>1. Open(c) /\ ~Open(c)'
        BY <2>3, <3>2, OpenStep
      <4>2. helper[c] = "none"
        BY <4>1 DEF OpenInv
      <4>3. helper' = helper
        BY <2>3 DEF HandleInline, helpVars
      <4> QED BY <1>1, <4>1, <4>2, <4>3 DEF Undone
    <3> QED BY <3>1, <3>2
  <2> QED BY <2>1, <2>2, <2>3, TodoStep
<1>5. ASSUME NEW i \in 1..Len(down'), down'[i].call = c PROVE down'[i].kind = "piece"
  <2>1. CASE \E j \in 1..Len(down) : down'[i] = down[j]
    BY <1>1, <1>5, <2>1 DEF Unanswered
  <2>2. CASE \E d \in Call : Stream(d) /\ down'[i] = Answer(d, "piece")
    BY <2>2, DownMessages
  <2>3. CASE \E d \in Call : Respond(d) /\ down'[i] = Answer(d, helper[d])
    <3>1. PICK d \in Call : Respond(d) /\ down'[i] = Answer(d, helper[d])
      BY <2>3
    <3>2. helper[d] \in {"ok", "no"}
      BY <3>1 DEF Respond
    <3>3. d = c
      BY <1>5, <3>1, <3>2, DownMessages
    <3> QED BY <1>2, <3>2, <3>3
  <2>4. CASE \E j \in 1..Len(todo) : down'[i] = todo[j]
    BY <1>1, <1>5, <2>4 DEF Unanswered
  <2> QED BY <2>1, <2>2, <2>3, <2>4, DownStep DEF WorkInv
<1> QED BY <1>3, <1>4, <1>5 DEF Unanswered

LEMMA AppliedStep ==
  ASSUME Types, Types', WorkInv, AppliedInv, Next
  PROVE  AppliedInv'
<1> SUFFICES ASSUME NEW c \in Call
             PROVE  /\ helper'[c] = "ok" \/ slot'[c] = "ok" => c \in applied'
                    /\ \A i \in 1..Len(todo') : todo'[i].call = c /\ todo'[i].kind = "ok" => c \in applied'
                    /\ \A i \in 1..Len(down') : down'[i].call = c /\ down'[i].kind = "ok" => c \in applied'
  BY DEF AppliedInv
<1>0. /\ helper[c] = "ok" \/ slot[c] = "ok" => c \in applied'
      /\ \A i \in 1..Len(todo) : todo[i].call = c /\ todo[i].kind = "ok" => c \in applied'
      /\ \A i \in 1..Len(down) : down[i].call = c /\ down[i].kind = "ok" => c \in applied'
  BY AppliedGrows DEF AppliedInv
<1>1. helper'[c] = "ok" => c \in applied'
  BY <1>0, HelperStep
<1>2. slot'[c] = "ok" => c \in applied'
  BY <1>0, SlotStep
<1>3. ASSUME NEW i \in 1..Len(todo'), todo'[i].call = c, todo'[i].kind = "ok" PROVE c \in applied'
  <2>1. CASE todo' = todo
    BY <1>0, <1>3, <2>1
  <2>2. CASE todo' = << >>
    BY <2>2
  <2>3. ASSUME NEW d \in Call, todo' = <<Answer(d, "ok")>>, d \in applied' PROVE c \in applied'
    BY <1>3, <2>3, DownMessages
  <2>4. ASSUME NEW d \in Call, todo' = <<Answer(d, "no")>> PROVE FALSE
    BY <1>3, <2>4, DownMessages
  <2> QED BY <2>1, <2>2, <2>3, <2>4, TodoStep
<1>4. ASSUME NEW i \in 1..Len(down'), down'[i].call = c, down'[i].kind = "ok" PROVE c \in applied'
  <2>1. CASE \E j \in 1..Len(down) : down'[i] = down[j]
    BY <1>0, <1>4, <2>1
  <2>2. CASE \E d \in Call : Stream(d) /\ down'[i] = Answer(d, "piece")
    BY <1>4, <2>2, DownMessages
  <2>3. CASE \E d \in Call : Respond(d) /\ down'[i] = Answer(d, helper[d])
    <3>1. PICK d \in Call : Respond(d) /\ down'[i] = Answer(d, helper[d])
      BY <2>3
    <3>2. helper[d] \in {"ok", "no"}
      BY <3>1 DEF Respond
    <3>3. d = c /\ helper[d] = "ok"
      BY <1>4, <3>1, <3>2, DownMessages
    <3> QED BY <1>0, <3>3
  <2>4. CASE \E j \in 1..Len(todo) : down'[i] = todo[j]
    BY <1>0, <1>4, <2>4
  <2> QED BY <2>1, <2>2, <2>3, <2>4, DownStep DEF WorkInv
<1> QED BY <1>1, <1>2, <1>3, <1>4

LEMMA CallStepEnds ==
  ASSUME Types, Next, NEW c \in Call
  PROVE  \/ call'[c] = call[c]
         \/ call'[c] \in {"ready", "waiting", "telling"}
         \/ Return(c) /\ slot[c] # "none"
         \/ GiveUp(c) /\ (ctx \/ c \in Impatient)
<1> USE DEF callVars, workerVars, hostVars, helpVars, histVars
<1>0. call \in [Call -> {"new", "ready", "waiting", "telling", "ok", "failed"}]
  BY DEF Types, CallTypes
<1>1. ASSUME NEW d \in Call, d # c, CallStep(d) \/ GiveUp(d) PROVE call'[c] = call[c]
  BY <1>0, <1>1 DEF CallStep, Announce, Ask, Return, GiveUp, End, NextPiece, Tell
<1>2. ASSUME Announce(c) \/ Ask(c) \/ NextPiece(c) \/ Tell(c)
      PROVE  call'[c] \in {"ready", "waiting", "telling"}
  BY <1>0, <1>2 DEF Announce, Ask, NextPiece, Tell
<1>3. ASSUME Return(c) PROVE slot[c] # "none"
  BY <1>3 DEF Return
<1>4. ASSUME GiveUp(c) PROVE ctx \/ c \in Impatient
  BY <1>4 DEF GiveUp
<1>5. ASSUME NEW d \in Call, Operate(d) \/ Stream(d) \/ Respond(d) PROVE call' = call
  BY <1>5 DEF Operate, Stream, Respond
<1>6. CASE Transmit \/ Route \/ Finish \/ Flushed \/ Terminal \/ Crash \/ Stop \/ Cancel
  BY <1>6 DEF Transmit, Route, Finish, Flushed, Terminal, Crash, Stop, Cancel
<1>7. CASE HandleNote \/ EnsureChild \/ HandleInline \/ HandOver \/ HandleDone \/ HandleError \/ RecvFails \/ Reply
  BY <1>7 DEF HandleNote, EnsureChild, HandleInline, HandOver, HandleDone, HandleError, RecvFails, Reply
<1> QED BY <1>1, <1>2, <1>3, <1>4, <1>5, <1>6, <1>7 DEF Next, CallStep

\* A context that is done stays done.
LEMMA CancelStays == ASSUME Next PROVE ctx => ctx'
<1> USE DEF callVars, workerVars, hostVars, helpVars, histVars
<1>1. ASSUME NEW c \in Call, CallStep(c) \/ GiveUp(c) PROVE ctx' = ctx
  BY <1>1 DEF CallStep, Announce, Ask, Return, GiveUp, End, NextPiece, Tell
<1>2. ASSUME NEW c \in Call, Operate(c) \/ Stream(c) \/ Respond(c) PROVE ctx' = ctx
  BY <1>2 DEF Operate, Stream, Respond
<1>3. CASE Transmit \/ Route \/ Finish \/ Flushed \/ Terminal \/ Crash \/ Stop \/ Cancel
  BY <1>3 DEF Transmit, Route, Finish, Flushed, Terminal, Crash, Stop, Cancel
<1>4. CASE HandleNote \/ EnsureChild \/ HandleInline \/ HandOver \/ HandleDone \/ HandleError \/ RecvFails \/ Reply
  BY <1>4 DEF HandleNote, EnsureChild, HandleInline, HandOver, HandleDone, HandleError, RecvFails, Reply
<1> QED BY <1>1, <1>2, <1>3, <1>4 DEF Next

LEMMA LeftStep ==
  ASSUME Types, Types', PipeInv, WorkInv, OpenInv, AnswerInv, LeftInv, Next
  PROVE  LeftInv'
<1> SUFFICES ASSUME NEW c \in Call, ~ctx', call'[c] \in {"ok", "failed"}, Undone(c)' PROVE c \in Impatient
  BY DEF LeftInv
<1>1. ~ctx /\ Undone(c) /\ slot[c] = "none"
  BY CancelStays, OpenStep DEF AnswerInv, Unanswered
<1>2. CASE call'[c] = call[c]
  BY <1>1, <1>2 DEF LeftInv
<1>3. CASE call'[c] # call[c]
  BY <1>1, <1>3, CallStepEnds
<1> QED BY <1>2, <1>3

\* What becomes of the end of the turn.
LEMMA EndStep ==
  ASSUME Types, WorkInv, Next
  PROVE  \/ turnDone' = turnDone
         \/ HandleDone /\ ~turnDone
<1> USE DEF callVars, workerVars, hostVars, helpVars, histVars
<1>1. ASSUME NEW c \in Call, CallStep(c) \/ GiveUp(c) PROVE turnDone' = turnDone
  BY <1>1 DEF CallStep, Announce, Ask, Return, GiveUp, End, NextPiece, Tell
<1>2. ASSUME NEW c \in Call, Operate(c) \/ Stream(c) \/ Respond(c) PROVE turnDone' = turnDone
  BY <1>2 DEF Operate, Stream, Respond
<1>3. CASE Transmit \/ Route \/ Finish \/ Flushed \/ Terminal \/ Crash \/ Stop \/ Cancel
  BY <1>3 DEF Transmit, Route, Finish, Flushed, Terminal, Crash, Stop, Cancel
<1>4. CASE HandleNote \/ EnsureChild \/ HandleInline \/ HandOver \/ HandleError \/ RecvFails \/ Reply
  BY <1>4 DEF HandleNote, EnsureChild, HandleInline, HandOver, HandleError, RecvFails, Reply
<1>5. CASE HandleDone
  BY <1>5 DEF HandleDone, Recv, WorkInv, DoneInv
<1> QED BY <1>1, <1>2, <1>3, <1>4, <1>5 DEF Next

\* After the end of the turn nothing is said or heard, and no call is handed over.
LEMMA AfterTheEnd ==
  ASSUME Types, WorkInv, Next, turnDone
  PROVE  /\ said' = said /\ heard' = heard
         /\ host' = "recv" => host = "recv"
         /\ verdict' = "result" => verdict = "result" \/ host = "recv"
         /\ \A c \in Call : helper'[c] = "working" => helper[c] = "working"
<1> USE DEF callVars, workerVars, hostVars, helpVars, histVars
<1>0. /\ worker = "gone" /\ up = << >> /\ buf = << >> /\ host # "reply"
      /\ \A c \in Call : Settled(c)
      /\ host = "over" <=> verdict # "none"
  BY DEF WorkInv, LifeInv, DoneInv, LoopInv
<1>1. ASSUME NEW c \in Call, CallStep(c) \/ GiveUp(c) PROVE FALSE
  BY <1>0, <1>1 DEF CallStep, Announce, Ask, Return, GiveUp, NextPiece, Tell, Settled
<1>2. ~HandleNote /\ ~EnsureChild /\ ~HandleInline /\ ~HandOver /\ ~HandleDone /\ ~HandleError /\ ~Reply
  BY <1>0 DEF HandleNote, EnsureChild, HandleInline, HandOver, HandleDone, HandleError, Reply, Recv
<1>3. \A c \in Call : helper'[c] = "working" => helper[c] = "working"
  BY <1>2, HelperStep
<1>4. ASSUME NEW c \in Call, Operate(c) \/ Stream(c) \/ Respond(c) PROVE UNCHANGED <<said, heard, host, verdict>>
  BY <1>4 DEF Operate, Stream, Respond
<1>5. CASE Transmit \/ Route \/ Finish \/ Flushed \/ Terminal \/ Crash \/ Cancel
  BY <1>3, <1>5 DEF Transmit, Route, Finish, Flushed, Terminal, Crash, Cancel
<1>6. CASE Stop \/ RecvFails
  BY <1>3, <1>6 DEF Stop, RecvFails, Fail
<1> QED BY <1>1, <1>2, <1>3, <1>4, <1>5, <1>6 DEF Next

LEMMA ResultStep ==
  ASSUME Types, Types', PipeInv, SayInv, WorkInv, OpenInv, LeftInv, ResultInv, Next
  PROVE  ResultInv'
<1> USE DEF callVars, workerVars, hostVars, helpVars, histVars
<1>1. CASE turnDone
  <2> SUFFICES ASSUME turnDone', host' = "recv" \/ verdict' = "result"
               PROVE  /\ Len(heard') = said'
                      /\ \A c \in Call : helper'[c] = "working" => c \in Impatient
    BY DEF ResultInv
  <2>1. host = "recv" \/ verdict = "result"
    BY <1>1, AfterTheEnd
  <2>2. Len(heard) = said /\ \A c \in Call : helper[c] = "working" => c \in Impatient
    BY <1>1, <2>1 DEF ResultInv
  <2> QED BY <1>1, <2>2, AfterTheEnd
<1>2. CASE ~turnDone /\ HandleDone /\ host' = "recv"
  <2>1. /\ up # << >> /\ Head(up).kind = "done" /\ ~ctx /\ UNCHANGED <<helper, said, heard>>
    BY <1>2 DEF HandleDone, Recv, Again
  <2>2. 1 \in 1..Len(Pipe) /\ Pipe[1].kind = "done"
    BY <2>1, PipeTypes
  <2>3. NoteBefore(said, 1)
    BY <2>1, <2>2 DEF SayInv
  <2>4. 1..(1 - 1) = {}
    OBVIOUS
  <2>5. said = Len(heard)
    BY <2>3, <2>4 DEF NoteBefore
  <2>6. \A c \in Call : Settled(c)
    BY <2>2 DEF WorkInv, DoneInv
  <2>7. ASSUME NEW c \in Call, helper[c] = "working" PROVE c \in Impatient
    <3>1. Undone(c) /\ ~Open(c)
      BY <2>7 DEF Undone, OpenInv
    <3>2. call[c] \in {"ok", "failed"}
      BY <2>6, <3>1 DEF Settled, Open
    <3> QED BY <2>1, <3>1, <3>2 DEF LeftInv
  <2> QED BY <2>1, <2>5, <2>7 DEF ResultInv
<1>3. CASE ~turnDone /\ HandleDone /\ host' # "recv"
  <2>1. verdict' = verdict /\ host = "recv"
    BY <1>3 DEF HandleDone, Recv
  <2>2. verdict' # "result"
    BY <2>1 DEF WorkInv, LoopInv
  <2> QED BY <1>3, <2>2 DEF ResultInv
<1>4. CASE ~turnDone /\ ~HandleDone
  <2>1. ~turnDone'
    BY <1>4, EndStep
  <2> QED BY <2>1 DEF ResultInv
<1> QED BY <1>1, <1>2, <1>3, <1>4

\* Evidence is refused for a conversation the store did not create.
LEMMA RefusedStep ==
  ASSUME Types, PipeInv, WorkInv, Next, refused \subseteq orphan
  PROVE  (refused \subseteq orphan)'
<1> USE DEF callVars, workerVars, hostVars, helpVars, histVars
<1>0. orphan \subseteq orphan'
  BY GoesOnward DEF Onward
<1>1. ASSUME NEW c \in Call, CallStep(c) \/ GiveUp(c) PROVE refused' = refused
  BY <1>1 DEF CallStep, Announce, Ask, Return, GiveUp, End, NextPiece, Tell
<1>2. ASSUME NEW c \in Call, Operate(c) \/ Stream(c) \/ Respond(c) PROVE refused' = refused
  BY <1>2 DEF Operate, Stream, Respond
<1>3. CASE Transmit \/ Route \/ Finish \/ Flushed \/ Terminal \/ Crash \/ Stop \/ Cancel
  BY <1>0, <1>3 DEF Transmit, Route, Finish, Flushed, Terminal, Crash, Stop, Cancel
<1>4. CASE HandleNote \/ EnsureChild \/ HandOver \/ HandleDone \/ HandleError \/ RecvFails \/ Reply
  BY <1>0, <1>4 DEF HandleNote, EnsureChild, HandOver, HandleDone, HandleError, RecvFails, Reply
<1>5. CASE HandleInline
  <2>1. PICK c : c = Head(up).call
    OBVIOUS
  <2>2. Pipe[1].kind = "request" /\ Pipe[1].call = c /\ 1 \in 1..Len(Pipe)
    BY <1>5, <2>1, PipeTypes DEF HandleInline, Recv
  <2>3. kind[c] = "event" => Announced(c, 1)
    BY <2>2 DEF PipeInv, RequestInv
  <2>4. 1..(1 - 1) = {}
    OBVIOUS
  <2>5. kind[c] = "event" => c \in scope \cup orphan
    BY <2>3, <2>4 DEF Announced
  <2>6. refused' \in {refused, refused \cup {c}} /\ (refused' # refused => kind[c] = "event" /\ c \notin scope)
    BY <1>5, <2>1 DEF HandleInline
  <2>7. orphan' = orphan
    BY <1>5 DEF HandleInline
  <2> QED BY <2>5, <2>6, <2>7
<1> QED BY <1>0, <1>1, <1>2, <1>3, <1>4, <1>5 DEF Next

LEMMA StreamInit == ASSUME Init PROVE StreamInv
<1> USE DEF Init
<1>1. kind \in [Call -> Kinds] /\ Len(<< >>) = 0
  BY StreamAssumption
<1>2. Types
  <2>1. CallTypes
    BY <1>1, StreamAssumption DEF CallTypes
  <2>2. << >> \in Seq(UpMsg) /\ << >> \in Seq(DownMsg) /\ << >> \in Seq(Nat)
    OBVIOUS
  <2>3. QueueTypes
    BY <1>1, <2>2, StreamAssumption DEF QueueTypes
  <2>4. HostTypes
    <3>1. /\ helper \in [Call -> {"none", "working", "ok", "no"}]
          /\ given \in [Call -> 0..Pieces]
      BY StreamAssumption
    <3>2. said \in Nat /\ heard \in Seq(Nat)
      BY <2>2
    <3> QED BY <3>1, <3>2 DEF HostTypes
  <2> QED BY <2>1, <2>3, <2>4 DEF Types
<1>3. Pipe = << >> /\ Len(Pipe) = 0
  BY DEF Pipe
<1>4. PipeInv
  BY <1>3 DEF PipeInv, EndInv, RequestInv, OnceInv, NoteInv, OrderInv
<1>5. SayInv
  BY <1>1, <1>3 DEF SayInv, NoteBefore
<1>6. WorkInv
  BY <1>3 DEF WorkInv, LifeInv, DoneInv, LoopInv, Settled
<1>7. OpenInv /\ AnswerInv /\ AppliedInv
  BY <1>1 DEF OpenInv, AnswerInv, AppliedInv, Unanswered
<1>8. LeftInv /\ ResultInv
  BY DEF LeftInv, ResultInv
<1> QED BY <1>2, <1>4, <1>5, <1>6, <1>7, <1>8 DEF StreamInv

LEMMA StreamStep == ASSUME StreamInv, [Next]_vars PROVE StreamInv'
<1>1. CASE Next
  <2> USE <1>1 DEF StreamInv
  <2>1. Types'
    BY TypesStep DEF WorkInv, LoopInv
  <2>2. PipeInv' /\ SayInv'
    BY <2>1, PipeStep
  <2>3. WorkInv'
    BY <2>1, LifeStep, DoneStep, LoopStep DEF WorkInv
  <2>4. OpenInv'
    <3>1. \A c \in Call : Open(c)' => helper'[c] = "none"
      BY <2>1, OpenStep
    <3> QED BY <3>1 DEF OpenInv
  <2>5. AnswerInv' /\ AppliedInv'
    BY <2>1, AnswerStep, AppliedStep
  <2>6. LeftInv' /\ ResultInv'
    BY <2>1, LeftStep, ResultStep
  <2>7. (refused \subseteq orphan)'
    BY RefusedStep
  <2> QED BY <2>1, <2>2, <2>3, <2>4, <2>5, <2>6, <2>7
<1>2. CASE UNCHANGED vars
  <2> USE <1>2 DEF vars, callVars, workerVars, hostVars, helpVars, histVars
  <2>1. Types' /\ (refused \subseteq orphan)'
    BY DEF StreamInv, Types, CallTypes, QueueTypes, HostTypes
  <2>2. Pipe' = Pipe
    BY DEF Pipe
  <2>4. PipeInv'
    BY <2>2 DEF StreamInv, PipeInv, EndInv, RequestInv, OnceInv, NoteInv, OrderInv, Announced, NoteBefore
  <2>5. SayInv'
    BY <2>2 DEF StreamInv, SayInv, Announced, NoteBefore
  <2>6. WorkInv'
    BY <2>2 DEF StreamInv, WorkInv, LifeInv, DoneInv, LoopInv, Settled
  <2>7. OpenInv' /\ AnswerInv' /\ LeftInv'
    BY <2>2 DEF StreamInv, OpenInv, AnswerInv, LeftInv, Open, Undone, Unanswered, Requested
  <2>8. AppliedInv' /\ ResultInv'
    BY DEF StreamInv, AppliedInv, ResultInv
  <2> QED BY <2>1, <2>4, <2>5, <2>6, <2>7, <2>8 DEF StreamInv
<1> QED BY <1>1, <1>2

LEMMA StreamInvariant == Spec => []StreamInv
BY StreamInit, StreamStep, PTL DEF Spec

\* Evidence is refused only for a conversation the store failed to create.
THEOREM EvidenceHasChild == Spec => []EvidenceFollowsChild
<1>1. StreamInv => EvidenceFollowsChild
  BY DEF StreamInv, Types, CallTypes, QueueTypes, HostTypes, EvidenceFollowsChild, TypeOK
<1> QED BY <1>1, StreamInvariant, PTL

-----------------------------------------------------------------------------
(* The promise of a turn *)

Callers == [c \in Call |-> Known(c)]

LEMMA KnownCases ==
  ASSUME Types, NEW c \in Call
  PROVE  /\ Known(c) = "idle" <=> call[c] \in {"new", "ready"}
         /\ Known(c) = "asked" <=> call[c] \in {"waiting", "telling"}
         /\ Known(c) = "ok" <=> call[c] = "ok"
         /\ Known(c) = "failed" <=> call[c] = "failed"
         /\ Known(c) \in {"idle", "asked", "ok", "failed"}
BY DEF Types, CallTypes, Known, Waiting

\* The callers see nothing of a step, or one of them does.
LEMMA CallersSame ==
  ASSUME \A c \in Call : Known(c)' = Known(c)
  PROVE  Callers' = Callers
BY DEF Callers

LEMMA CallersMove ==
  ASSUME Types, Types', NEW c \in Call, NEW r, call' = [call EXCEPT ![c] = r],
         r \in {"waiting", "ok", "failed"}
  PROVE  Callers' = [Callers EXCEPT ![c] = IF r = "waiting" THEN "asked" ELSE r]
<1>0. call \in [Call -> {"new", "ready", "waiting", "telling", "ok", "failed"}]
  BY DEF Types, CallTypes
<1>1. call'[c] = r /\ \A d \in Call \ {c} : call'[d] = call[d]
  BY <1>0
<1>2. Known(c)' = IF r = "waiting" THEN "asked" ELSE r
  BY <1>1 DEF Known, Waiting
<1>3. ASSUME NEW d \in Call \ {c} PROVE Known(d)' = Known(d)
  BY <1>1 DEF Known, Waiting
<1> QED BY <1>2, <1>3 DEF Callers

\* A step of a turn is a step of its promise, or none.
LEMMA TurnStep ==
  ASSUME StreamInv, StreamInv', Next
  PROVE  [Remote!Next]_(Remote!vars)
<1> USE DEF callVars, workerVars, hostVars, helpVars, histVars
<1>0. /\ Types /\ Types'
      /\ call \in [Call -> {"new", "ready", "waiting", "telling", "ok", "failed"}]
      /\ helper \in [Call -> {"none", "working", "ok", "no"}]
  BY DEF StreamInv, Types, CallTypes, HostTypes
<1>l. /\ host = "over" <=> verdict # "none"
      /\ verdict = "result" => turnDone
      /\ turnDone => worker = "gone" /\ \A c \in Call : Settled(c)
  BY DEF StreamInv, WorkInv, LoopInv, DoneInv
<1>s. ASSUME call' = call PROVE Callers' = Callers
  BY <1>s DEF Callers, Known, Waiting
<1>u. ASSUME Callers' = Callers, UNCHANGED <<applied, said, heard, verdict>>
      PROVE  [Remote!Next]_(Remote!vars)
  BY <1>u DEF Callers, Remote!vars
<1>a. ASSUME Callers' = Callers, verdict = "none", verdict' = "failed", UNCHANGED <<applied, said, heard>>
      PROVE  [Remote!Next]_(Remote!vars)
  <2>1. Remote!Abort
    BY <1>a DEF Callers, Remote!Abort
  <2> QED BY <2>1 DEF Remote!Next
<1>p. ASSUME NEW c \in Call, Callers[c] # "idle", verdict = "result" => c \in Impatient, applied' = applied \cup {c},
             Callers' = Callers, UNCHANGED <<said, heard, verdict>>
      PROVE  [Remote!Next]_(Remote!vars)
  <2>1. CASE c \in applied
    <3>1. applied' = applied
      BY <1>p, <2>1
    <3> QED BY <1>p, <1>u, <3>1
  <2>2. CASE c \notin applied
    <3>1. Remote!Apply(c)
      BY <1>p, <2>2 DEF Callers, Remote!Apply
    <3> QED BY <3>1 DEF Remote!Next
  <2> QED BY <2>1, <2>2
<1>1. ASSUME NEW c \in Call, Announce(c) \/ NextPiece(c) PROVE [Remote!Next]_(Remote!vars)
  <2>1. \A d \in Call : Known(d)' = Known(d)
    BY <1>0, <1>1 DEF Announce, NextPiece, Known, Waiting
  <2> QED BY <1>1, <1>u, <2>1, CallersSame DEF Announce, NextPiece
<1>2. ASSUME NEW c \in Call, Ask(c) PROVE [Remote!Next]_(Remote!vars)
  <2>1. Callers' = [Callers EXCEPT ![c] = "asked"]
    BY <1>0, <1>2, CallersMove DEF Ask
  <2>2. Callers[c] = "idle" /\ verdict # "result"
    BY <1>0, <1>2, <1>l, KnownCases DEF Ask, Callers
  <2>3. UNCHANGED <<applied, said, heard, verdict>>
    BY <1>2 DEF Ask
  <2>4. Remote!Ask(c)
    BY <2>1, <2>2, <2>3 DEF Callers, Remote!Ask
  <2> QED BY <2>4 DEF Remote!Next
<1>f. ASSUME NEW c \in Call, End(c, "failed"), call[c] \in {"new", "ready", "waiting"}
      PROVE  [Remote!Next]_(Remote!vars)
  <2>1. Callers' = [Callers EXCEPT ![c] = "failed"]
    BY <1>0, <1>f, CallersMove DEF End
  <2>2. Callers[c] \in {"idle", "asked"}
    BY <1>0, <1>f, KnownCases DEF Callers
  <2>3. UNCHANGED <<applied, said, heard, verdict>>
    BY <1>f DEF End
  <2>4. Remote!Fail(c)
    BY <2>1, <2>2, <2>3 DEF Callers, Remote!Fail
  <2> QED BY <2>4 DEF Remote!Next
<1>3. ASSUME NEW c \in Call, Return(c) PROVE [Remote!Next]_(Remote!vars)
  <2>1. CASE slot[c] = "ok"
    <3>1. Callers' = [Callers EXCEPT ![c] = "ok"]
      BY <1>0, <1>3, <2>1, CallersMove DEF Return, End
    <3>2. Callers[c] = "asked" /\ c \in applied
      BY <1>0, <1>3, <2>1, KnownCases DEF Return, Callers, StreamInv, AppliedInv
    <3>3. UNCHANGED <<applied, said, heard, verdict>>
      BY <1>3 DEF Return, End
    <3>4. Remote!Return(c)
      BY <3>1, <3>2, <3>3 DEF Callers, Remote!Return
    <3> QED BY <3>4 DEF Remote!Next
  <2>2. CASE slot[c] # "ok"
    BY <1>3, <1>f, <2>2 DEF Return
  <2> QED BY <2>1, <2>2
<1>4. ASSUME NEW c \in Call, GiveUp(c) PROVE [Remote!Next]_(Remote!vars)
  BY <1>4, <1>f DEF GiveUp
<1>5. ASSUME NEW c \in Call, Tell(c) PROVE [Remote!Next]_(Remote!vars)
  <2>1. \A d \in Call : Known(d)' = Known(d)
    BY <1>0, <1>5 DEF Tell, Known, Waiting
  <2>2. Callers' = Callers
    BY <2>1, CallersSame
  <2>3. verdict # "result"
    BY <1>5, <1>l DEF Tell, Settled
  <2>4. UNCHANGED <<applied, heard, verdict>> /\ said' \in {said, said + 1}
    BY <1>5 DEF Tell, PutNote
  <2>5. CASE said' = said
    BY <1>u, <2>2, <2>4, <2>5
  <2>6. CASE said' = said + 1
    <3>1. Remote!Say
      BY <2>2, <2>3, <2>4, <2>6 DEF Callers, Remote!Say
    <3> QED BY <3>1 DEF Remote!Next
  <2> QED BY <2>4, <2>5, <2>6
<1>6. ASSUME NEW c \in Call, Operate(c) PROVE [Remote!Next]_(Remote!vars)
  <2>1. call' = call /\ UNCHANGED <<said, heard, verdict>> /\ helper[c] = "working" /\ applied' \in {applied, applied \cup {c}}
    BY <1>6 DEF Operate
  <2>2. Callers[c] # "idle"
    <3>1. ~Open(c)
      BY <2>1 DEF StreamInv, OpenInv
    <3> QED BY <1>0, <3>1, KnownCases DEF Callers, Open
  <2>3. verdict = "result" => c \in Impatient
    BY <1>l, <2>1 DEF StreamInv, ResultInv
  <2> QED BY <1>p, <1>s, <1>u, <2>1, <2>2, <2>3
<1>7. ASSUME NEW c \in Call, Stream(c) \/ Respond(c) PROVE [Remote!Next]_(Remote!vars)
  BY <1>7, <1>s, <1>u DEF Stream, Respond
<1>8. CASE Transmit \/ Route \/ Finish \/ Flushed \/ Terminal \/ Crash \/ Cancel \/ EnsureChild \/ HandOver \/ HandleDone
  BY <1>8, <1>s, <1>u DEF Transmit, Route, Finish, Flushed, Terminal, Crash, Cancel, EnsureChild, HandOver, HandleDone
<1>9. CASE HandleNote
  <2>1. /\ up # << >> /\ Head(up).kind = "note" /\ host = "recv" /\ heard' = Append(heard, Head(up).n)
        /\ UNCHANGED <<call, applied, said, verdict>>
    BY <1>9 DEF HandleNote, Recv
  <2>2. Len(Pipe) >= 1 /\ Pipe[1] = Head(up)
    BY <1>0, <2>1, PipeTypes
  <2>3. Head(up).n = Len(heard) + 1 /\ Head(up).n <= said
    BY <1>0, <2>1, <2>2, FirstNote DEF StreamInv
  <2>4. heard' = Append(heard, Len(heard) + 1) /\ Len(heard) < said
    BY <2>1, <2>3 DEF StreamInv, Types, HostTypes
  <2>5. Callers' = Callers /\ verdict = "none"
    BY <1>l, <1>s, <2>1
  <2>6. Remote!Hear
    BY <2>1, <2>4, <2>5 DEF Callers, Remote!Hear
  <2> QED BY <2>6 DEF Remote!Next
<1>10. CASE HandleInline
  <2>1. PICK c : c = Head(up).call
    OBVIOUS
  <2>2. /\ up # << >> /\ Head(up).kind = "request" /\ host = "recv" /\ applied' \in {applied, applied \cup {c}}
        /\ UNCHANGED <<call, said, heard, verdict>>
    BY <1>10, <2>1 DEF HandleInline, Recv
  <2>3. 1 \in 1..Len(Pipe) /\ Pipe[1] = Head(up) /\ Pipe[1] \in UpMsg
    BY <1>0, <2>2, PipeTypes
  <2>4. c \in Call /\ call[c] \notin {"new", "ready"}
    BY <2>1, <2>2, <2>3, UpMessages DEF StreamInv, PipeInv, RequestInv
  <2>5. Callers[c] # "idle" /\ verdict = "none"
    BY <1>0, <1>l, <2>2, <2>4, KnownCases DEF Callers
  <2> QED BY <1>p, <1>s, <1>u, <2>2, <2>4, <2>5
<1>11. CASE HandleError \/ Stop
  <2>1. verdict = "none" /\ verdict' = "failed" /\ UNCHANGED <<call, applied, said, heard>>
    BY <1>11, <1>l DEF HandleError, Stop, Recv, Fail
  <2> QED BY <1>a, <1>s, <2>1
<1>12. CASE Reply
  <2>1. verdict = "none" /\ verdict' \in {"none", "failed"} /\ UNCHANGED <<call, applied, said, heard>>
    BY <1>12, <1>l DEF Reply, Fail
  <2> QED BY <1>a, <1>s, <1>u, <2>1
<1>13. CASE RecvFails
  <2>1. verdict = "none" /\ host = "recv" /\ UNCHANGED <<call, applied, said, heard>>
    BY <1>13, <1>l DEF RecvFails
  <2>2. CASE verdict' = "failed"
    BY <1>a, <1>s, <2>1, <2>2
  <2>3. CASE turnDone /\ verdict' = "result"
    <3>1. Len(heard) = said
      BY <2>1, <2>3 DEF StreamInv, ResultInv
    <3>2. \A c \in Call : Callers[c] # "asked"
      <4>1. \A c \in Call : Settled(c)
        BY <1>l, <2>3
      <4> QED BY <1>0, <4>1, KnownCases DEF Callers, Settled
    <3>3. Callers' = Callers
      BY <1>s, <2>1
    <3>4. Remote!Finish
      BY <2>1, <2>3, <3>1, <3>2, <3>3 DEF Callers, Remote!Finish
    <3> QED BY <3>4 DEF Remote!Next
  <2> QED BY <1>13, <2>2, <2>3 DEF RecvFails, Fail
<1> QED BY <1>1, <1>2, <1>3, <1>4, <1>5, <1>6, <1>7, <1>8, <1>9, <1>10, <1>11, <1>12, <1>13 DEF Next, CallStep

\* A turn in a worker process keeps what it promises to the host: an operation
\* a tool was told about has happened, the notes are heard in order and each
\* once, and a turn that has a result left none of them and no operation behind.
THEOREM TurnKeepsPromise == Spec => TurnSpec
<1>1. Init => Remote!Init
  <2> SUFFICES ASSUME Init PROVE Remote!Init
    OBVIOUS
  <2>1. Types /\ \A c \in Call : call[c] = "new"
    BY StreamInit DEF StreamInv, Init
  <2>2. \A c \in Call : Known(c) = "idle"
    BY <2>1, KnownCases
  <2> QED BY <2>2 DEF Init, Remote!Init
<1>2. StreamInv /\ StreamInv' /\ [Next]_vars => [Remote!Next]_(Remote!vars)
  <2> SUFFICES ASSUME StreamInv, StreamInv', [Next]_vars PROVE [Remote!Next]_(Remote!vars)
    OBVIOUS
  <2>1. CASE UNCHANGED vars
    BY <2>1 DEF vars, callVars, histVars, hostVars, Remote!vars, Known, Waiting
  <2> QED BY <2>1, TurnStep
<1> QED BY <1>1, <1>2, StreamInvariant, PTL DEF Spec, TurnSpec, Remote!Spec
=============================================================================
