------------------------- MODULE TurnHandler_proofs -------------------------
(***************************************************************************)
(* Proofs about TurnHandler for every number of overlapping requests, every*)
(* ledger and every bound.                                                 *)
(*                                                                         *)
(* HandlerInv says of every request where its handler is and what that     *)
(* leaves possible (Placed), how far it has come with its own events       *)
(* (Behind) and, while its turn is the live one, what its work monitor has *)
(* seen (Evidence); Generations says which turn is the live one. A step    *)
(* judges the request it is a step of; the others keep their part          *)
(* (OthersKeep), and a superseded turn has no evidence to answer for.      *)
(***************************************************************************)
EXTENDS TurnHandler, TLAPS

-----------------------------------------------------------------------------
(* Types, by the group of variables that steps change together.            *)

Event == [req : Request, turn : Nat, work : BOOLEAN]
Place == {"new", "begun", "attached", "clearing", "cleared", "replaying", "ready", "draining",
          "failing", "fencing", "trailing", "sealing", "final", "done"}
BrokerType ==
    /\ gen \in Nat /\ start \in 0..Len(log)
    /\ handle \in Request \cup {NoRequest} /\ log \in Seq(Event)
StoreType == history \in Seq(Nat) /\ ledger \in Ledger /\ runs \in Nat
ContextType ==
    /\ rgen \in [Request -> 0..gen]
    /\ ctxDone \in [Request -> BOOLEAN] /\ gone \in [Request -> BOOLEAN]
FeedType ==
    /\ replayTo \in [Request -> 0..Len(log)] /\ mark \in [Request -> 0..Len(log)]
    /\ fwd \in [Request -> 0..Len(log)] /\ pos \in [Request -> 0..Len(log)]
    /\ \A r \in Request : pos[r] <= fwd[r]
    /\ inSend \in [Request -> BOOLEAN] /\ sealed \in [Request -> BOOLEAN]
ChainType ==
    /\ cont \in [Request -> BOOLEAN] /\ work \in [Request -> BOOLEAN]
    /\ turn \in [Request -> Nat] /\ idle \in [Request -> Nat] /\ late \in [Request -> Nat]
    /\ noProgress \in [Request -> 0..NoProgressLimit]
    /\ prev \in [Request -> Ledger]
RunType ==
    /\ row \in [Request -> Ledger]
    /\ run \in [Request -> {"off", "on"} \cup Results]
    /\ op \in [Request -> {"none", "persist", "enter", "exit", "complete", "block", "decide",
                           "join", "leave", "prompt"}]

Grouped ==
    /\ BrokerType /\ StoreType /\ rpc \in [Request -> Place] /\ ContextType
    /\ FeedType /\ ChainType /\ RunType

\* The groups are the type invariant.
LEMMA TypeGroups == TypeOK <=> Grouped
<1>1. TypeOK => Grouped
  BY DEF Grouped, TypeOK, Event, Place, BrokerType, StoreType, ContextType, FeedType, ChainType, RunType
<1>2. ASSUME Grouped PROVE TypeOK
  <2>1. /\ gen \in Nat /\ start \in 0..Len(log) /\ handle \in Request \cup {NoRequest}
        /\ log \in Seq([req : Request, turn : Nat, work : BOOLEAN])
    BY <1>2 DEF Grouped, BrokerType, Event
  <2>2. history \in Seq(Nat) /\ ledger \in Ledger /\ runs \in Nat
    BY <1>2 DEF Grouped, StoreType
  <2>3. rpc \in [Request -> {"new", "begun", "attached", "clearing", "cleared", "replaying",
                            "ready", "draining", "failing", "fencing", "trailing",
                            "sealing", "final", "done"}]
    <3>1. Place = {"new", "begun", "attached", "clearing", "cleared", "replaying",
                   "ready", "draining", "failing", "fencing", "trailing",
                   "sealing", "final", "done"}
      BY DEF Place
    <3>2. rpc \in [Request -> Place]
      BY <1>2 DEF Grouped
    <3> QED
      BY <3>1, <3>2, Zenon
  <2>4. /\ rgen \in [Request -> 0..gen]
        /\ ctxDone \in [Request -> BOOLEAN] /\ gone \in [Request -> BOOLEAN]
    BY <1>2 DEF Grouped, ContextType
  <2>5. /\ replayTo \in [Request -> 0..Len(log)] /\ mark \in [Request -> 0..Len(log)]
        /\ fwd \in [Request -> 0..Len(log)] /\ pos \in [Request -> 0..Len(log)]
        /\ \A r \in Request : pos[r] <= fwd[r]
        /\ inSend \in [Request -> BOOLEAN] /\ sealed \in [Request -> BOOLEAN]
    BY <1>2 DEF Grouped, FeedType
  <2>6. /\ cont \in [Request -> BOOLEAN] /\ work \in [Request -> BOOLEAN]
        /\ turn \in [Request -> Nat] /\ idle \in [Request -> Nat] /\ late \in [Request -> Nat]
        /\ noProgress \in [Request -> 0..NoProgressLimit]
        /\ prev \in [Request -> Ledger]
    BY <1>2 DEF Grouped, ChainType
  <2>7. /\ row \in [Request -> Ledger]
        /\ run \in [Request -> {"off", "on"} \cup Results]
        /\ op \in [Request -> {"none", "persist", "enter", "exit", "complete", "block", "decide",
                               "join", "leave", "prompt"}]
    BY <1>2 DEF Grouped, RunType
  <2> QED
    BY <2>1, <2>2, <2>3, <2>4, <2>5, <2>6, <2>7, Zenon DEF TypeOK
<1> QED
  BY <1>1, <1>2

LEMMA TypeGroupsNext == TypeOK' <=> Grouped'
  BY TypeGroups, PTL

\* A group whose variables a step leaves alone keeps its type.
LEMMA TypeFrames ==
  ASSUME TypeOK
  PROVE /\ UNCHANGED brokerVars => BrokerType'
        /\ UNCHANGED storeVars => StoreType'
        /\ UNCHANGED rpc => rpc' \in [Request -> Place]
        /\ gen' = gen /\ UNCHANGED ctxVars => ContextType'
        /\ log' = log /\ UNCHANGED feedVars => FeedType'
        /\ UNCHANGED chainVars => ChainType'
        /\ UNCHANGED runVars => RunType'
<1>1. /\ BrokerType /\ StoreType /\ rpc \in [Request -> Place] /\ ContextType
      /\ FeedType /\ ChainType /\ RunType
  BY TypeGroups DEF Grouped
<1>2. UNCHANGED brokerVars => BrokerType'
  BY <1>1 DEF BrokerType, brokerVars
<1>3. UNCHANGED storeVars => StoreType'
  BY <1>1 DEF StoreType, storeVars
<1>4. gen' = gen /\ UNCHANGED ctxVars => ContextType'
  BY <1>1 DEF ContextType, ctxVars
<1>5. log' = log /\ UNCHANGED feedVars => FeedType'
  BY <1>1 DEF FeedType, feedVars
<1>6. UNCHANGED chainVars => ChainType'
  BY <1>1 DEF ChainType, chainVars
<1>7. UNCHANGED runVars => RunType'
  BY <1>1 DEF RunType, runVars
<1> QED
  BY <1>1, <1>2, <1>3, <1>4, <1>5, <1>6, <1>7

-----------------------------------------------------------------------------
(* The inductive invariant                                                 *)

(* The generations: the registered turn has the live one, a turn that is    *)
(* not over is the registered one, and what is persisted is not ahead.     *)
Generations ==
    /\ handle # NoRequest => rgen[handle] = gen
    /\ \A r \in Request : (rpc[r] = "new") = (rgen[r] = 0)
    /\ \A q, r \in Request : rgen[q] = rgen[r] /\ rgen[r] # 0 => q = r
    /\ \A r \in Request : rpc[r] # "new" /\ ~ctxDone[r] => handle = r
    /\ HistoryByGeneration
    /\ \A i \in 1..Len(history) : history[i] <= gen

Before == {"new", "begun", "attached", "clearing", "cleared", "replaying"}
Segment == {"draining", "fencing", "trailing"}

(* Where the handler is, and what its runner may do there. *)
Placed(r) ==
    /\ run[r] = "on" => rpc[r] \in {"draining", "failing"}
    /\ op[r] # "none" => run[r] = "on"
    /\ inSend[r] => rpc[r] = "draining"
    /\ replayTo[r] <= fwd[r]
    /\ late[r] = 0 \/ /\ late[r] = 1 /\ ctxDone[r]
                      /\ rpc[r] \notin Before \cup {"ready"}
                      /\ rpc[r] \in {"sealing", "final"} => ~cont[r]
    /\ noProgress[r] >= NoProgressLimit =>
          rpc[r] \in {"sealing", "final", "done"} /\ ~cont[r]
    /\ noProgress[r] = idle[r]
    /\ rpc[r] \in Before \cup {"ready"} \/ (rpc[r] = "final" /\ cont[r]) => ~work[r]
    /\ rpc[r] = "sealing" => ~cont[r]

(* The events of r are at most at n. *)
UpTo(r, n) == \A i \in 1..Len(log) : log[i].req = r => i <= n

(* How far the handler has come with the events of its own turns. *)
Behind(r) ==
    /\ rpc[r] \in Before => UpTo(r, 0)
    /\ rpc[r] = "fencing" => UpTo(r, mark[r])
    /\ rpc[r] = "trailing" => UpTo(r, fwd[r])
    /\ rpc[r] \in {"sealing", "final", "ready"} => UpTo(r, pos[r])
    /\ \A i \in 1..Len(log) : log[i].req = r => log[i].turn <= turn[r]

(* What the live turn's handler has noted as work is work of its segment. *)
Worked(r, n) ==
    \E i \in 1..n : log[i].req = r /\ log[i].turn = turn[r] /\ log[i].work
Live(r) == rpc[r] # "new" /\ rgen[r] = gen
Evidence(r) ==
    Live(r) =>
      /\ \A i \in (start + 1)..Len(log) : log[i].req = r
      /\ rpc[r] \notin {"begun", "done"} => pos[r] >= start
      /\ rpc[r] \in Segment =>
            /\ \A i \in 1..Len(log) : log[i].req = r /\ i > pos[r] => log[i].turn = turn[r]
            /\ work[r] = Worked(r, pos[r])

HandlerInv ==
    /\ TypeOK /\ Generations
    /\ \A r \in Request : Placed(r) /\ Behind(r) /\ Evidence(r)

-----------------------------------------------------------------------------
(* What a step leaves alone                                                *)

\* A step of another request.
Same(q) ==
    /\ rpc'[q] = rpc[q] /\ rgen'[q] = rgen[q] /\ (ctxDone[q] => ctxDone'[q])
    /\ replayTo'[q] = replayTo[q] /\ fwd'[q] = fwd[q] /\ pos'[q] = pos[q]
    /\ inSend'[q] = inSend[q] /\ mark'[q] = mark[q] /\ cont'[q] = cont[q]
    /\ turn'[q] = turn[q] /\ noProgress'[q] = noProgress[q] /\ work'[q] = work[q]
    /\ run'[q] = run[q] /\ op'[q] = op[q] /\ idle'[q] = idle[q] /\ late'[q] = late[q]

\* A turn that is superseded has no evidence to answer for.
LEMMA OthersKeep ==
  ASSUME NEW q \in Request, TypeOK, Placed(q), Behind(q), Evidence(q), Same(q), log' = log,
         (gen' = gen /\ start' = start) \/ (gen' = gen + 1)
  PROVE Placed(q)' /\ Behind(q)' /\ Evidence(q)'
<1>1. Placed(q)'
  BY DEF Placed, Same
<1>2. Behind(q)'
  BY DEF Behind, Same, UpTo
<1>3. Evidence(q)'
  <2>1. CASE gen' = gen /\ start' = start
    BY <2>1 DEF Evidence, Live, Worked, Same
  <2>2. CASE gen' = gen + 1
    <3>1. rgen[q] \in 0..gen /\ gen \in Nat
      BY TypeGroups DEF Grouped, BrokerType, ContextType
    <3>2. ~Live(q)'
      BY <2>2, <3>1 DEF Live, Same
    <3> QED
      BY <3>2 DEF Evidence
  <2> QED
    BY <2>1, <2>2
<1> QED
  BY <1>1, <1>2, <1>3

\* No turn begins, is cancelled or persists a message; one may end.
LEMMA GenerationsFrame ==
  ASSUME TypeOK, Generations, gen' = gen, rgen' = rgen, history' = history,
         \A q \in Request : (rpc'[q] = "new") = (rpc[q] = "new"),
         \A q \in Request : ctxDone[q] => ctxDone'[q],
         handle' = handle \/ (handle' = NoRequest /\ ctxDone'[handle])
  PROVE Generations'
<1>1. handle' # NoRequest => rgen'[handle'] = gen'
  BY DEF Generations
<1>2. \A q \in Request : (rpc'[q] = "new") = (rgen'[q] = 0)
  BY DEF Generations
<1>3. \A q \in Request : rpc'[q] # "new" /\ ~ctxDone'[q] => handle' = q
  BY DEF Generations
<1>4. HistoryByGeneration'
  BY DEF Generations, HistoryByGeneration
<1> QED
  BY <1>1, <1>2, <1>3, <1>4 DEF Generations

\* A step of r is judged by its own part: nobody else's evidence moves.
LEMMA StepFrame ==
  ASSUME HandlerInv, NEW r \in Request, TypeOK', Generations',
         Placed(r)', Behind(r)', Evidence(r)',
         gen' = gen, start' = start, log' = log,
         \A q \in Request \ {r} : Same(q)
  PROVE HandlerInv'
<1>1. TypeOK /\ \A q \in Request : Placed(q) /\ Behind(q) /\ Evidence(q)
  BY DEF HandlerInv
<1>2. ASSUME NEW q \in Request PROVE Placed(q)' /\ Behind(q)' /\ Evidence(q)'
  <2>1. CASE q = r
    BY <2>1
  <2>2. CASE q # r
    <3>1. Same(q) /\ Placed(q) /\ Behind(q) /\ Evidence(q)
      BY <1>1, <2>2
    <3>2. (gen' = gen /\ start' = start) \/ (gen' = gen + 1)
      OBVIOUS
    <3> QED
      BY <1>1, <3>1, <3>2, OthersKeep
  <2> QED
    BY <2>1, <2>2
<1>3. \A q \in Request : Placed(q)' /\ Behind(q)' /\ Evidence(q)'
  BY <1>2
<1> QED
  BY <1>3 DEF HandlerInv

\* The runner's side of a step: the handler and what it has delivered stay.
LEMMA RunnerKeeps ==
  ASSUME HandlerInv, NEW r \in Request,
         UNCHANGED <<brokerVars, rpc, ctxVars, feedVars, chainVars>>,
         StoreType', RunType', history' = history \/ Generations',
         \A q \in Request \ {r} : run'[q] = run[q] /\ op'[q] = op[q],
         run'[r] = "on" => run[r] = "on", op'[r] # "none" => run'[r] = "on"
  PROVE HandlerInv'
<1>1. TypeOK /\ Generations /\ Placed(r) /\ Behind(r) /\ Evidence(r)
  BY DEF HandlerInv
<1>2. TypeOK'
  <2>1. BrokerType' /\ rpc' \in [Request -> Place] /\ ContextType' /\ FeedType' /\ ChainType'
    BY <1>1, TypeFrames DEF brokerVars, ctxVars
  <2> QED
    BY <2>1, TypeGroupsNext DEF Grouped
<1>3. Generations'
  <2>1. CASE history' = history
    BY <1>1, <2>1, GenerationsFrame DEF brokerVars, ctxVars
  <2> QED
    BY <2>1
<1>4. \A q \in Request \ {r} : Same(q)
  BY DEF Same, brokerVars, ctxVars, feedVars, chainVars
<1>5. Placed(r)'
  BY <1>1 DEF Placed, feedVars, chainVars, ctxVars
<1>6. Behind(r)'
  BY <1>1 DEF Behind, UpTo, brokerVars, feedVars, chainVars
<1>7. Evidence(r)'
  BY <1>1 DEF Evidence, Live, Worked, brokerVars, feedVars, chainVars, ctxVars
<1> QED
  BY <1>2, <1>3, <1>4, <1>5, <1>6, <1>7, StepFrame DEF brokerVars

\* A handler that returns owes nothing any more.
LEMMA ReturnKeeps ==
  ASSUME HandlerInv, NEW r \in Request, rpc[r] # "new", run[r] # "on", ~inSend[r], Return(r),
         UNCHANGED <<gen, log, start, storeVars, rgen, gone, replayTo, fwd, inSend, mark, sealed,
                     cont, turn, prev, noProgress, idle, late, runVars>>,
         FeedType', work' \in [Request -> BOOLEAN],
         \A q \in Request \ {r} : pos'[q] = pos[q] /\ work'[q] = work[q]
  PROVE HandlerInv'
<1>1. TypeOK /\ Generations /\ Placed(r) /\ Behind(r) /\ Evidence(r)
  BY DEF HandlerInv
<1>2. /\ BrokerType /\ StoreType /\ rpc \in [Request -> Place] /\ ContextType
      /\ FeedType /\ ChainType /\ RunType
  BY <1>1, TypeGroups DEF Grouped
<1>3. /\ rpc'[r] = "done" /\ ctxDone'[r]
      /\ \A q \in Request \ {r} : rpc'[q] = rpc[q] /\ ctxDone'[q] = ctxDone[q]
  BY <1>2 DEF Return, Goto, ContextType
<1>4. TypeOK'
  <2>1. BrokerType'
    BY <1>2 DEF BrokerType, Return
  <2>2. rpc' \in [Request -> Place]
    BY <1>2 DEF Return, Goto, Place
  <2>3. ContextType'
    BY <1>2 DEF ContextType, Return
  <2>4. ChainType'
    BY <1>2 DEF ChainType
  <2>5. StoreType' /\ RunType'
    BY <1>1, TypeFrames
  <2> QED
    BY <2>1, <2>2, <2>3, <2>4, <2>5, TypeGroupsNext DEF Grouped
<1>5. Generations'
  <2>1. \A q \in Request : (rpc'[q] = "new") = (rpc[q] = "new")
    BY <1>3
  <2>2. \A q \in Request : ctxDone[q] => ctxDone'[q]
    BY <1>3
  <2>3. handle' = handle \/ (handle' = NoRequest /\ ctxDone'[handle])
    BY <1>3 DEF Return
  <2> QED
    BY <1>1, <2>1, <2>2, <2>3, GenerationsFrame DEF storeVars
<1>6. \A q \in Request \ {r} : Same(q)
  BY <1>3 DEF Same, runVars
<1>7. Placed(r)'
  <2>1. run'[r] # "on" /\ ~inSend'[r] /\ op'[r] = "none"
    BY <1>1 DEF Placed, runVars
  <2>2. noProgress[r] >= NoProgressLimit => ~cont[r]
    BY <1>1 DEF Placed
  <2>3. late[r] = 0 \/ late[r] = 1
    BY <1>1 DEF Placed
  <2>4. replayTo[r] <= fwd[r] /\ noProgress[r] = idle[r]
    BY <1>1 DEF Placed
  <2> QED
    BY <1>3, <2>1, <2>2, <2>3, <2>4 DEF Placed, Before
<1>8. Behind(r)'
  BY <1>1, <1>3 DEF Behind, Before
<1>9. Evidence(r)'
  BY <1>1, <1>3 DEF Evidence, Live, Segment
<1> QED
  BY <1>4, <1>5, <1>6, <1>7, <1>8, <1>9, StepFrame

\* A handler that goes on to its next place, with its feed and its counts.
LEMMA GotoKeeps ==
  ASSUME HandlerInv, NEW r \in Request, NEW p \in Place \ {"new"}, rpc[r] # "new", Goto(r, p),
         UNCHANGED <<brokerVars, history, ctxVars>>,
         StoreType', FeedType', ChainType', RunType',
         \A q \in Request \ {r} : rpc'[q] = rpc[q] => Same(q),
         rpc'[r] = p => Placed(r)' /\ Behind(r)' /\ Evidence(r)'
  PROVE HandlerInv'
<1>1. TypeOK /\ Generations
  BY DEF HandlerInv
<1>2. rpc \in [Request -> Place]
  BY <1>1, TypeGroups DEF Grouped
<1>3. rpc'[r] = p /\ \A q \in Request \ {r} : rpc'[q] = rpc[q]
  BY <1>2 DEF Goto
<1>4. TypeOK'
  <2>1. BrokerType' /\ ContextType'
    BY <1>1, TypeFrames DEF brokerVars
  <2>2. rpc' \in [Request -> Place]
    BY <1>2 DEF Goto
  <2> QED
    BY <2>1, <2>2, TypeGroupsNext DEF Grouped
<1>5. Generations'
  <2>1. \A q \in Request : (rpc'[q] = "new") = (rpc[q] = "new")
    BY <1>3
  <2> QED
    BY <1>1, <2>1, GenerationsFrame DEF brokerVars, ctxVars
<1>6. \A q \in Request \ {r} : Same(q)
  BY <1>3
<1> QED
  BY <1>3, <1>4, <1>5, <1>6, StepFrame DEF brokerVars

-----------------------------------------------------------------------------
(* The runner's steps                                                      *)

LEMMA PersistCheckKeeps ==
  ASSUME HandlerInv, NEW r \in Request, PersistCheck(r)
  PROVE HandlerInv'
<1>1. TypeOK /\ StoreType /\ RunType
  BY TypeGroups DEF HandlerInv, Grouped
<1>2. RunType'
  BY <1>1 DEF PersistCheck, RunType
<1>3. StoreType'
  BY <1>1, TypeFrames DEF PersistCheck
<1> QED
  BY <1>1, <1>2, <1>3, RunnerKeeps DEF PersistCheck, Free, storeVars, RunType

LEMMA PersistWriteKeeps ==
  ASSUME HandlerInv, NEW r \in Request, PersistWrite(r)
  PROVE HandlerInv'
<1>1. TypeOK /\ Generations /\ Placed(r) /\ BrokerType /\ StoreType /\ RunType /\ ContextType
  BY TypeGroups DEF HandlerInv, Grouped
<1>2. RunType'
  BY <1>1 DEF PersistWrite, RunType
<1>3. StoreType'
  BY <1>1 DEF PersistWrite, StoreType, ContextType
<1>4. history' = history \/ Generations'
  <2>1. CASE ctxDone[r]
    BY <2>1 DEF PersistWrite
  <2>2. CASE ~ctxDone[r]
    \* A turn that is not over is the registered one: no message is newer.
    <3>1. rpc[r] # "new"
      BY <1>1 DEF PersistWrite, Placed
    <3>2. rgen[r] = gen
      BY <1>1, <2>2, <3>1, HandlerAssumption DEF Generations
    <3>3. history' = Append(history, gen)
      BY <2>2, <3>2 DEF PersistWrite
    <3>4. /\ Len(history') = Len(history) + 1 /\ Len(history) \in Nat
          /\ history'[Len(history) + 1] = gen
          /\ \A i \in 1..Len(history) : history'[i] = history[i]
      BY <1>1, <3>3 DEF StoreType, BrokerType
    <3>5. \A i \in 1..Len(history) : history[i] <= gen
      BY <1>1 DEF Generations
    <3>6. \A i \in 1..Len(history') : history'[i] <= gen
      BY <3>4, <3>5, <1>1 DEF BrokerType
    <3>7. HistoryByGeneration'
      <4> SUFFICES ASSUME NEW j \in 1..Len(history'), NEW i \in 1..j
                   PROVE history'[i] <= history'[j]
        BY DEF HistoryByGeneration
      <4>1. CASE j = Len(history')
        BY <4>1, <3>4, <3>6
      <4>2. CASE j # Len(history')
        <5>1. j \in 1..Len(history) /\ i \in 1..Len(history)
          BY <4>2, <3>4
        <5>2. history[i] <= history[j]
          BY <5>1, <1>1 DEF Generations, HistoryByGeneration
        <5> QED
          BY <5>1, <5>2, <3>4
      <4> QED
        BY <4>1, <4>2
    <3> QED
      BY <1>1, <3>6, <3>7 DEF Generations, PersistWrite, brokerVars, ctxVars
  <2> QED
    BY <2>1, <2>2
<1> QED
  BY <1>1, <1>2, <1>3, <1>4, RunnerKeeps DEF PersistWrite, RunType

LEMMA ToolReadKeeps ==
  ASSUME HandlerInv, NEW r \in Request, NEW tool \in Tools, ToolRead(r, tool)
  PROVE HandlerInv'
<1>1. TypeOK /\ StoreType /\ RunType
  BY TypeGroups DEF HandlerInv, Grouped
<1>2. tool \in {"enter", "exit", "complete", "block", "decide"}
  BY HandlerAssumption
<1>3. op' = [op EXCEPT ![r] = tool] /\ row' = [row EXCEPT ![r] = ledger] /\ run' = run
  BY DEF ToolRead
<1>4. RunType'
  BY <1>1, <1>2, <1>3 DEF RunType, StoreType
<1>5. StoreType'
  BY <1>1, TypeFrames DEF ToolRead
<1>6. run'[r] = "on" /\ \A q \in Request \ {r} : run'[q] = run[q] /\ op'[q] = op[q]
  BY <1>1, <1>3 DEF ToolRead, Free, RunType
<1>7. UNCHANGED <<brokerVars, rpc, ctxVars, feedVars, chainVars>> /\ history' = history
  BY DEF ToolRead, storeVars
<1> QED
  BY <1>3, <1>4, <1>5, <1>6, <1>7, RunnerKeeps

\* Whatever row is written, it is a row.
LEMMA UpdateType ==
  ASSUME ledger \in Ledger, NEW l \in Ledger, Update(l)
  PROVE ledger' \in Ledger
  BY DEF Update

\* A step of a running runner that changes the ledger, its row and what it is at.
LEMMA LedgerStepKeeps ==
  ASSUME HandlerInv, NEW r \in Request, run[r] = "on", ledger' \in Ledger, runs' \in Nat,
         row' \in [Request -> Ledger], NEW o \in {"join", "leave", "none"},
         op' = [op EXCEPT ![r] = o],
         UNCHANGED <<brokerVars, history, rpc, ctxVars, feedVars, chainVars, run>>
  PROVE HandlerInv'
<1>1. StoreType /\ RunType
  BY TypeGroups DEF HandlerInv, Grouped
<1>2. RunType'
  BY <1>1 DEF RunType
<1>3. StoreType'
  BY <1>1 DEF StoreType
<1>4. run'[r] = "on" /\ \A q \in Request \ {r} : run'[q] = run[q] /\ op'[q] = op[q]
  BY <1>1 DEF RunType
<1> QED
  BY <1>2, <1>3, <1>4, RunnerKeeps

LEMMA ToolWriteKeeps ==
  ASSUME HandlerInv, NEW r \in Request, ToolWrite(r)
  PROVE HandlerInv'
<1>1. TypeOK /\ StoreType /\ RunType /\ Placed(r)
  BY TypeGroups DEF HandlerInv, Grouped
<1>2. Written(r) \in Ledger
  <2>1. row[r] \in Ledger /\ "closed" \in States
    BY <1>1 DEF RunType, States
  <2>2. [row[r] EXCEPT !.state = "closed"] \in Ledger /\ [row[r] EXCEPT !.blocked = TRUE] \in Ledger
    BY <2>1 DEF Ledger
  <2> QED
    BY <2>1, <2>2 DEF ToolWrite, Written
<1>3. ledger' \in Ledger
  BY <1>1, <1>2, UpdateType DEF ToolWrite, StoreType
<1>4. UNCHANGED <<brokerVars, history, runs, rpc, ctxVars, feedVars, chainVars, run, row>>
  BY DEF ToolWrite
<1>5. PICK o \in {"leave", "none"} : op' = [op EXCEPT ![r] = o]
  BY <1>1 DEF ToolWrite, RunType
<1>6. run[r] = "on" /\ runs' \in Nat /\ row' \in [Request -> Ledger]
  BY <1>1, <1>4 DEF ToolWrite, Placed, RunType, StoreType
<1> QED
  BY <1>3, <1>4, <1>5, <1>6, LedgerStepKeeps

LEMMA ProfileKeeps ==
  ASSUME HandlerInv, NEW r \in Request, ExitProfile(r) \/ EnterProfile(r)
  PROVE HandlerInv'
<1>1. StoreType /\ RunType /\ Placed(r)
  BY TypeGroups DEF HandlerInv, Grouped
<1>2. row[r] \in Ledger /\ [row[r] EXCEPT !.state = "closed"] \in Ledger
  BY <1>1 DEF RunType, Ledger, States
<1>3. ledger' \in Ledger
  BY <1>1, <1>2, UpdateType DEF ExitProfile, EnterProfile, StoreType
<1>4. /\ UNCHANGED <<brokerVars, history, runs, rpc, ctxVars, feedVars, chainVars, run, row>>
      /\ op' = [op EXCEPT ![r] = "none"] /\ op[r] # "none"
  BY DEF ExitProfile, EnterProfile
<1>5. run[r] = "on" /\ runs' \in Nat /\ row' \in [Request -> Ledger]
  BY <1>1, <1>4 DEF Placed, RunType, StoreType
<1>6. PICK o \in {"join", "leave", "none"} : op' = [op EXCEPT ![r] = o]
  BY <1>4
<1> QED
  BY <1>3, <1>4, <1>5, <1>6, LedgerStepKeeps

LEMMA CreateRunKeeps ==
  ASSUME HandlerInv, NEW r \in Request, CreateRun(r)
  PROVE HandlerInv'
<1>1. StoreType /\ RunType /\ Placed(r)
  BY TypeGroups DEF HandlerInv, Grouped
<1> DEFINE l == [id |-> runs + 1, state |-> "running", blocked |-> FALSE]
<1>2. l \in Ledger /\ l.id \in Nat
  BY <1>1 DEF StoreType, Ledger, States
<1>3. PICK o \in {"join", "none"} : op' = [op EXCEPT ![r] = o]
  BY DEF CreateRun
<1>4. ledger' \in Ledger /\ runs' \in Nat
  BY <1>1, <1>2 DEF CreateRun, StoreType
<1>5. row' \in [Request -> Ledger]
  BY <1>1, <1>2 DEF CreateRun, RunType
<1>6. UNCHANGED <<brokerVars, history, rpc, ctxVars, feedVars, chainVars, run>> /\ op[r] # "none"
  BY DEF CreateRun
<1> QED
  BY <1>1, <1>3, <1>4, <1>5, <1>6, LedgerStepKeeps DEF Placed

LEMMA PromptKeeps ==
  ASSUME HandlerInv, NEW r \in Request, PromptSend(r) \/ PromptDone(r)
  PROVE HandlerInv'
<1>1. TypeOK /\ StoreType /\ RunType /\ Placed(r)
  BY TypeGroups DEF HandlerInv, Grouped
<1>2. PICK o \in {"none", "prompt"} : op' = [op EXCEPT ![r] = o]
  BY DEF PromptSend, PromptDone
<1>3. RunType'
  BY <1>1, <1>2 DEF PromptSend, PromptDone, RunType
<1>4. run[r] = "on"
  BY <1>1 DEF PromptSend, PromptDone, Free, Placed
<1>5. UNCHANGED <<brokerVars, storeVars, rpc, ctxVars, feedVars, chainVars, run, row>>
  BY DEF PromptSend, PromptDone
<1>6. StoreType'
  BY <1>1, <1>5, TypeFrames
<1>7. \A q \in Request \ {r} : run'[q] = run[q] /\ op'[q] = op[q]
  BY <1>1, <1>2, <1>5 DEF RunType
<1> QED
  BY <1>3, <1>4, <1>5, <1>6, <1>7, RunnerKeeps DEF storeVars

LEMMA RunnerEndKeeps ==
  ASSUME HandlerInv, NEW r \in Request, RunnerEnd(r)
  PROVE HandlerInv'
<1>1. TypeOK /\ StoreType /\ RunType
  BY TypeGroups DEF HandlerInv, Grouped
<1>2. PICK res \in Results : run' = [run EXCEPT ![r] = res]
  BY DEF RunnerEnd
<1>3. RunType'
  BY <1>1, <1>2 DEF RunnerEnd, RunType
<1>4. StoreType'
  BY <1>1, TypeFrames DEF RunnerEnd
<1>5. run'[r] = res /\ res # "on" /\ op'[r] = "none"
  BY <1>1, <1>2 DEF RunnerEnd, Free, RunType, Results
<1>6. \A q \in Request \ {r} : run'[q] = run[q] /\ op'[q] = op[q]
  BY <1>1, <1>2 DEF RunnerEnd, RunType
<1>7. UNCHANGED <<brokerVars, storeVars, rpc, ctxVars, feedVars, chainVars>>
  BY DEF RunnerEnd
<1> QED
  BY <1>3, <1>4, <1>5, <1>6, <1>7, RunnerKeeps DEF storeVars

LEMMA PublishKeeps ==
  ASSUME HandlerInv, NEW r \in Request, NEW w \in BOOLEAN, Publish(r, w)
  PROVE HandlerInv'
<1>1. TypeOK /\ Generations /\ \A q \in Request : Placed(q) /\ Behind(q) /\ Evidence(q)
  BY DEF HandlerInv
<1>2. BrokerType /\ ContextType /\ FeedType /\ ChainType /\ RunType
  BY <1>1, TypeGroups DEF Grouped
<1> DEFINE e == [req |-> r, turn |-> turn[r], work |-> w]
<1>3. e \in Event /\ e.req = r /\ e.turn = turn[r]
  BY <1>2 DEF Event, ChainType
<1>4. /\ Len(log) \in Nat /\ Len(log') = Len(log) + 1 /\ log' \in Seq(Event)
      /\ log'[Len(log) + 1] = e /\ \A i \in 1..Len(log) : log'[i] = log[i]
  <2>1. log' = Append(log, e) /\ log \in Seq(Event)
    BY <1>2 DEF Publish, BrokerType
  <2> HIDE DEF e
  <2> QED
    BY <2>1, <1>3
<1>5. UNCHANGED <<gen, handle, start, storeVars, rpc, ctxVars, feedVars, chainVars, runVars>>
  BY DEF Publish
<1>6. rpc[r] \in {"draining", "failing"} /\ rgen[r] = gen /\ rgen[r] # 0
  BY <1>1 DEF Publish, Free, Placed, Generations
<1> HIDE DEF e
<1>7. TypeOK'
  <2>1. BrokerType'
    BY <1>2, <1>4, <1>5 DEF BrokerType
  <2>2. FeedType'
    <3>1. \A n \in 0..Len(log) : n \in 0..Len(log')
      BY <1>4
    <3>2. /\ replayTo \in [Request -> 0..Len(log')] /\ mark \in [Request -> 0..Len(log')]
          /\ fwd \in [Request -> 0..Len(log')] /\ pos \in [Request -> 0..Len(log')]
      BY <1>2, <3>1 DEF FeedType
    <3> QED
      BY <1>2, <1>5, <3>2 DEF FeedType, feedVars
  <2>3. /\ StoreType' /\ rpc' \in [Request -> Place] /\ ContextType' /\ ChainType' /\ RunType'
    BY <1>1, <1>5, TypeFrames
  <2> QED
    BY <2>1, <2>2, <2>3, TypeGroupsNext DEF Grouped
<1>8. Generations'
  BY <1>1, <1>5, GenerationsFrame DEF storeVars, ctxVars
<1>9. ASSUME NEW q \in Request PROVE Placed(q)' /\ Behind(q)' /\ Evidence(q)'
  <2>1. Placed(q) /\ Behind(q) /\ Evidence(q)
    BY <1>1
  <2>2. Placed(q)'
    BY <2>1, <1>5 DEF Placed, runVars, feedVars, chainVars, ctxVars
  <2>3. /\ rpc'[q] = rpc[q] /\ turn'[q] = turn[q] /\ pos'[q] = pos[q] /\ fwd'[q] = fwd[q]
        /\ mark'[q] = mark[q] /\ work'[q] = work[q] /\ rgen'[q] = rgen[q]
        /\ gen' = gen /\ start' = start /\ pos[q] \in 0..Len(log) /\ start \in 0..Len(log)
    BY <1>2, <1>5 DEF chainVars, feedVars, ctxVars, FeedType, BrokerType
  <2>4. \A i \in 1..Len(log') : i \in 1..Len(log) \/ (i = Len(log) + 1 /\ log'[i] = e)
    BY <1>4
  <2>5. Behind(q)'
    <3>1. CASE q = r
      <4>1. rpc'[q] \notin Before \cup {"fencing", "trailing", "sealing", "final", "ready"}
        BY <1>6, <2>3, <3>1 DEF Before
      <4>2. \A i \in 1..Len(log') : log'[i].req = q => log'[i].turn <= turn[q]
        <5>1. \A i \in 1..Len(log) : log[i].req = q => log[i].turn <= turn[q]
          BY <2>1 DEF Behind
        <5>2. turn[q] <= turn[q]
          BY <1>2 DEF ChainType
        <5> QED
          BY <5>1, <5>2, <2>4, <1>3, <1>4, <3>1
      <4> QED
        BY <4>1, <4>2, <2>3 DEF Behind
    <3>2. CASE q # r
      <4>1. \A i \in 1..Len(log') : log'[i].req = q => i \in 1..Len(log) /\ log'[i] = log[i]
        BY <2>4, <1>3, <1>4, <3>2
      <4>2. \A n : UpTo(q, n) => \A i \in 1..Len(log') : log'[i].req = q => i <= n
        BY <4>1 DEF UpTo
      <4>3. \A i \in 1..Len(log') : log'[i].req = q => log'[i].turn <= turn[q]
        BY <4>1, <2>1 DEF Behind
      <4> QED
        BY <4>2, <4>3, <2>1, <2>3 DEF Behind, UpTo
    <3> QED
      BY <3>1, <3>2
  <2>6. Evidence(q)'
    <3>1. CASE q = r
      <4>1. Live(q)
        BY <1>6, <3>1 DEF Live
      <4>2. \A i \in (start + 1)..Len(log') : log'[i].req = q
        BY <4>1, <2>1, <2>3, <2>4, <1>3, <1>4, <3>1 DEF Evidence
      <4>3. rpc[q] \notin {"begun", "done"} => pos[q] >= start
        BY <4>1, <2>1 DEF Evidence
      <4>4. rpc[q] \in Segment =>
               \A i \in 1..Len(log') : log'[i].req = q /\ i > pos[q] => log'[i].turn = turn[q]
        BY <4>1, <2>1, <2>4, <1>3, <1>4, <3>1 DEF Evidence
      <4>5. \A i \in 1..pos[q] : log'[i] = log[i]
        BY <1>4, <2>3
      <4>6. rpc[q] \in Segment => work[q] = Worked(q, pos[q])'
        BY <4>1, <4>5, <2>1, <2>3 DEF Evidence, Worked
      <4> QED
        BY <4>2, <4>3, <4>4, <4>6, <2>3 DEF Evidence
    <3>2. CASE q # r
      \* Only one turn has the live generation.
      <4>1. ~Live(q)
        BY <1>1, <1>6, <3>2 DEF Live, Generations
      <4> QED
        BY <4>1, <2>3 DEF Evidence, Live
    <3> QED
      BY <3>1, <3>2
  <2> QED
    BY <2>2, <2>5, <2>6
<1> QED
  BY <1>7, <1>8, <1>9 DEF HandlerInv

-----------------------------------------------------------------------------
(* The beginning of a request                                              *)

LEMMA BeginKeeps ==
  ASSUME HandlerInv, NEW r \in Request, Begin(r)
  PROVE HandlerInv'
<1>1. TypeOK /\ Generations /\ \A q \in Request : Placed(q) /\ Behind(q) /\ Evidence(q)
  BY DEF HandlerInv
<1>2. BrokerType /\ StoreType /\ rpc \in [Request -> Place] /\ ContextType /\ FeedType
  BY <1>1, TypeGroups DEF Grouped
<1>3. /\ rpc[r] = "new" /\ rpc'[r] = "begun" /\ \A q \in Request \ {r} : rpc'[q] = rpc[q]
      /\ gen' = gen + 1 /\ rgen'[r] = gen + 1 /\ \A q \in Request \ {r} : rgen'[q] = rgen[q]
      /\ handle' = r /\ start' = Len(log)
      /\ \A q \in Request : ctxDone'[q] = (ctxDone[q] \/ q = handle)
  BY <1>2 DEF Begin, Goto, ContextType
<1>4. UNCHANGED <<log, storeVars, gone, feedVars, chainVars, runVars>>
  BY DEF Begin
<1>5. gen \in Nat /\ Len(log) \in Nat /\ \A q \in Request : rgen[q] \in 0..gen
  BY <1>2 DEF BrokerType, ContextType
<1>6. TypeOK'
  <2>1. BrokerType'
    BY <1>2, <1>3, <1>4, <1>5 DEF BrokerType
  <2>2. rpc' \in [Request -> Place]
    BY <1>2 DEF Begin, Goto, Place
  <2>3. ContextType'
    <3>1. rgen' = [rgen EXCEPT ![r] = gen + 1] /\ rgen \in [Request -> 0..gen]
      BY <1>2 DEF Begin, ContextType
    <3>2. gen + 1 \in 0..(gen + 1) /\ \A n \in 0..gen : n \in 0..(gen + 1)
      BY <1>5
    <3>3. rgen' \in [Request -> 0..gen']
      BY <3>1, <3>2, <1>3
    <3>4. ctxDone' = [q \in Request |-> ctxDone[q] \/ q = handle]
      BY DEF Begin
    <3>5. \A q \in Request : (ctxDone[q] \/ q = handle) \in BOOLEAN
      OBVIOUS
    <3>6. ctxDone' \in [Request -> BOOLEAN]
      BY <3>4, <3>5, Zenon
    <3> QED
      BY <1>2, <1>4, <3>3, <3>6 DEF ContextType
  <2>4. StoreType' /\ FeedType' /\ ChainType' /\ RunType'
    BY <1>1, <1>4, TypeFrames
  <2> QED
    BY <2>1, <2>2, <2>3, <2>4, TypeGroupsNext DEF Grouped
<1>7. Generations'
  <2>1. handle' # NoRequest => rgen'[handle'] = gen'
    BY <1>3
  <2>2. \A q \in Request : (rpc'[q] = "new") = (rgen'[q] = 0)
    BY <1>1, <1>3, <1>5 DEF Generations
  <2>3. \A p, q \in Request : rgen'[p] = rgen'[q] /\ rgen'[q] # 0 => p = q
    <3> SUFFICES ASSUME NEW p \in Request, NEW q \in Request, rgen'[p] = rgen'[q], rgen'[q] # 0
                 PROVE p = q
      OBVIOUS
    <3>1. CASE p # r /\ q # r
      BY <3>1, <1>1, <1>3 DEF Generations
    <3>2. CASE p = r \/ q = r
      BY <3>2, <1>3, <1>5
    <3> QED
      BY <3>1, <3>2
  <2>4. \A q \in Request : rpc'[q] # "new" /\ ~ctxDone'[q] => handle' = q
    \* The one turn that was not over is the one that is superseded.
    <3> SUFFICES ASSUME NEW q \in Request, rpc'[q] # "new", ~ctxDone'[q], q # r PROVE FALSE
      BY <1>3
    <3>1. ~ctxDone[q] /\ q # handle
      BY <1>3
    <3>2. rpc[q] # "new"
      BY <1>3
    <3> QED
      BY <1>1, <3>1, <3>2 DEF Generations
  <2>5. HistoryByGeneration'
    BY <1>1, <1>4 DEF Generations, HistoryByGeneration, storeVars
  <2>6. \A i \in 1..Len(history') : history'[i] <= gen'
    <3>1. \A i \in 1..Len(history) : history[i] \in Nat /\ history[i] <= gen
      BY <1>1, <1>2 DEF Generations, StoreType
    <3> QED
      BY <3>1, <1>3, <1>4, <1>5 DEF storeVars
  <2> QED
    BY <2>1, <2>2, <2>3, <2>4, <2>5, <2>6 DEF Generations
<1>8. \A q \in Request \ {r} : Same(q)
  BY <1>3, <1>4 DEF Same, feedVars, chainVars, runVars
<1>9. \A q \in Request \ {r} : Placed(q)' /\ Behind(q)' /\ Evidence(q)'
  BY <1>1, <1>3, <1>4, <1>8, OthersKeep
<1>10. Placed(r) /\ Behind(r)
  BY <1>1
<1>11. Placed(r)'
  BY <1>3, <1>4, <1>10 DEF Placed, Before, feedVars, chainVars, runVars
<1>12. Behind(r)'
  BY <1>3, <1>4, <1>10 DEF Behind, Before, UpTo, chainVars
<1>13. Evidence(r)'
  <2>1. \A i \in (start' + 1)..Len(log') : log'[i].req = r
    BY <1>3, <1>4, <1>5
  <2> QED
    BY <2>1, <1>3 DEF Evidence, Segment
<1> QED
  BY <1>6, <1>7, <1>9, <1>11, <1>12, <1>13 DEF HandlerInv

LEMMA BeginFailsKeeps ==
  ASSUME HandlerInv, NEW r \in Request, BeginFails(r)
  PROVE HandlerInv'
<1>1. TypeOK /\ Placed(r) /\ ChainType
  BY TypeGroups DEF HandlerInv, Grouped
<1>2. run[r] # "on" /\ ~inSend[r] /\ rpc[r] # "new"
  BY <1>1 DEF BeginFails, Placed
<1>3. FeedType'
  BY <1>1, TypeFrames DEF BeginFails
<1>4. work' = work /\ pos' = pos
  BY DEF BeginFails, chainVars, feedVars
<1>5. work' \in [Request -> BOOLEAN]
  BY <1>1, <1>4 DEF ChainType
<1> QED
  BY <1>2, <1>3, <1>4, <1>5, ReturnKeeps DEF BeginFails, chainVars, feedVars

LEMMA AttachKeeps ==
  ASSUME HandlerInv, NEW r \in Request, Attach(r)
  PROVE HandlerInv'
<1>1. TypeOK /\ Placed(r) /\ Behind(r) /\ Evidence(r) /\ BrokerType /\ FeedType
  BY TypeGroups DEF HandlerInv, Grouped
<1>2. UNCHANGED <<brokerVars, storeVars, ctxVars, inSend, mark, sealed, chainVars, runVars>>
  BY DEF Attach
<1>3. /\ replayTo'[r] = Len(log) /\ fwd'[r] = Len(log) /\ pos'[r] = start
      /\ \A q \in Request \ {r} :
            replayTo'[q] = replayTo[q] /\ fwd'[q] = fwd[q] /\ pos'[q] = pos[q]
  BY <1>1 DEF Attach, FeedType
<1>4. Len(log) \in Nat /\ start \in 0..Len(log) /\ Len(log) \in 0..Len(log)
  BY <1>1 DEF BrokerType
<1>5. StoreType' /\ ChainType' /\ RunType'
  BY <1>1, <1>2, TypeFrames
<1>6. FeedType'
  <2>1. /\ replayTo' \in [Request -> 0..Len(log)] /\ fwd' \in [Request -> 0..Len(log)]
        /\ pos' \in [Request -> 0..Len(log)]
    BY <1>1, <1>4 DEF Attach, FeedType
  <2>2. ASSUME NEW q \in Request PROVE pos'[q] <= fwd'[q]
    <3>1. CASE q = r
      BY <1>3, <1>4, <3>1
    <3>2. CASE q # r
      BY <1>1, <1>3, <3>2 DEF FeedType
    <3> QED
      BY <3>1, <3>2
  <2> QED
    BY <1>1, <1>2, <2>1, <2>2 DEF FeedType, brokerVars
<1>7. \A q \in Request \ {r} : rpc'[q] = rpc[q] => Same(q)
  BY <1>2, <1>3 DEF Same, ctxVars, chainVars, runVars
<1>8. ASSUME rpc'[r] = "attached" PROVE Placed(r)' /\ Behind(r)' /\ Evidence(r)'
  <2>1. rpc[r] = "begun"
    BY DEF Attach
  <2>2. Placed(r)'
    BY <1>1, <1>2, <1>3, <1>4, <1>8, <2>1 DEF Placed, Before, chainVars, ctxVars, runVars
  <2>3. Behind(r)'
    BY <1>1, <1>2, <1>8, <2>1 DEF Behind, Before, UpTo, chainVars, brokerVars
  <2>4. Evidence(r)'
    BY <1>1, <1>2, <1>3, <1>4, <1>8, <2>1 DEF Evidence, Live, Segment, brokerVars, ctxVars
  <2> QED
    BY <2>2, <2>3, <2>4
<1>9. rpc[r] # "new" /\ Goto(r, "attached") /\ "attached" \in Place \ {"new"}
  BY DEF Attach, Place
<1> QED
  BY <1>2, <1>5, <1>6, <1>7, <1>8, <1>9, GotoKeeps DEF storeVars

\* From one place before the first turn to the next, with nothing delivered.
LEMMA AheadKeeps ==
  ASSUME HandlerInv, NEW r \in Request, NEW p \in {"clearing", "cleared", "replaying"},
         rpc[r] \in Before \ {"new", "begun"}, Goto(r, p),
         UNCHANGED <<brokerVars, history, runs, ctxVars, feedVars, cont, turn, noProgress, work,
                     idle, late, run, op>>,
         ledger' \in Ledger, prev' \in [Request -> Ledger], row' \in [Request -> Ledger]
  PROVE HandlerInv'
<1>1. /\ TypeOK /\ Placed(r) /\ Behind(r) /\ Evidence(r)
      /\ StoreType /\ ChainType /\ RunType
  BY TypeGroups DEF HandlerInv, Grouped
<1>2. StoreType' /\ ChainType' /\ RunType'
  BY <1>1 DEF StoreType, ChainType, RunType
<1>3. FeedType'
  BY <1>1, TypeFrames DEF brokerVars
<1>4. \A q \in Request \ {r} : rpc'[q] = rpc[q] => Same(q)
  BY DEF Same, ctxVars, feedVars
<1>5. ASSUME rpc'[r] = p PROVE Placed(r)' /\ Behind(r)' /\ Evidence(r)'
  <2>1. p \in Before \ {"new", "begun"}
    BY DEF Before
  <2>2. Placed(r)'
    BY <1>1, <1>5, <2>1 DEF Placed, Before, feedVars, ctxVars
  <2>3. Behind(r)'
    BY <1>1, <1>5, <2>1 DEF Behind, Before, UpTo, brokerVars
  <2>4. Evidence(r)'
    BY <1>1, <1>5, <2>1 DEF Evidence, Live, Segment, Before, feedVars, ctxVars, brokerVars
  <2> QED
    BY <2>2, <2>3, <2>4
<1>6. p \in Place \ {"new"} /\ rpc[r] # "new"
  BY DEF Place
<1> QED
  BY <1>2, <1>3, <1>4, <1>5, <1>6, GotoKeeps

LEMMA NoRunType == NoRun \in Ledger
  BY DEF NoRun, Ledger, States

LEMMA ReadBlockerKeeps ==
  ASSUME HandlerInv, NEW r \in Request, ReadBlocker(r)
  PROVE HandlerInv'
<1>1. StoreType /\ ChainType /\ RunType
  BY TypeGroups DEF HandlerInv, Grouped
<1>2. ActiveRun(r) \in Ledger
  BY <1>1, NoRunType DEF ActiveRun, StoreType
<1>3. row' = [row EXCEPT ![r] = ActiveRun(r)]
  BY DEF ReadBlocker
<1>4. row' \in [Request -> Ledger]
  BY <1>1, <1>2, <1>3 DEF RunType
<1>5. PICK p \in {"clearing", "cleared"} : Goto(r, p)
  BY DEF ReadBlocker
<1>6. UNCHANGED <<brokerVars, storeVars, ctxVars, feedVars, chainVars, run, op>>
  BY DEF ReadBlocker
<1>7. ledger' \in Ledger /\ prev' \in [Request -> Ledger]
  BY <1>1, <1>6 DEF StoreType, ChainType, storeVars, chainVars
<1>8. rpc[r] \in Before \ {"new", "begun"}
  BY DEF ReadBlocker, Before
<1> QED
  BY <1>4, <1>5, <1>6, <1>7, <1>8, AheadKeeps DEF storeVars, chainVars

LEMMA ClearBlockerKeeps ==
  ASSUME HandlerInv, NEW r \in Request, ClearBlocker(r)
  PROVE HandlerInv'
<1>1. StoreType /\ ChainType /\ RunType
  BY TypeGroups DEF HandlerInv, Grouped
<1>2. [row[r] EXCEPT !.blocked = FALSE] \in Ledger
  BY <1>1 DEF RunType, Ledger
<1>3. ledger' \in Ledger
  BY <1>1, <1>2, UpdateType DEF ClearBlocker, StoreType
<1>4. UNCHANGED <<brokerVars, history, runs, ctxVars, feedVars, chainVars, runVars>>
  BY DEF ClearBlocker
<1>5. prev' \in [Request -> Ledger] /\ row' \in [Request -> Ledger]
  BY <1>1, <1>4 DEF ChainType, RunType, chainVars, runVars
<1>6. rpc[r] \in Before \ {"new", "begun"} /\ Goto(r, "cleared")
  BY DEF ClearBlocker, Before
<1> QED
  BY <1>3, <1>4, <1>5, <1>6, AheadKeeps DEF chainVars, runVars

LEMMA SnapshotLedgerKeeps ==
  ASSUME HandlerInv, NEW r \in Request, SnapshotLedger(r)
  PROVE HandlerInv'
<1>1. StoreType /\ ChainType /\ RunType
  BY TypeGroups DEF HandlerInv, Grouped
<1>2. ActiveRun(r) \in Ledger
  BY <1>1, NoRunType DEF ActiveRun, StoreType
<1>3. prev' \in [Request -> Ledger]
  BY <1>1, <1>2 DEF SnapshotLedger, ChainType
<1>4. UNCHANGED <<brokerVars, storeVars, ctxVars, feedVars, cont, turn, noProgress, work,
                   idle, late, runVars>>
  BY DEF SnapshotLedger
<1>5. ledger' \in Ledger /\ row' \in [Request -> Ledger]
  BY <1>1, <1>4 DEF StoreType, RunType, storeVars, runVars
<1>6. rpc[r] \in Before \ {"new", "begun"} /\ Goto(r, "replaying")
  BY DEF SnapshotLedger, Before
<1> QED
  BY <1>3, <1>4, <1>5, <1>6, AheadKeeps DEF storeVars, runVars

LEMMA ReplayedKeeps ==
  ASSUME HandlerInv, NEW r \in Request, Replayed(r)
  PROVE HandlerInv'
<1>1. TypeOK /\ Placed(r) /\ Behind(r) /\ Evidence(r) /\ BrokerType /\ FeedType
  BY TypeGroups DEF HandlerInv, Grouped
<1>2. UNCHANGED <<brokerVars, storeVars, ctxVars, feedVars, chainVars, runVars>>
  BY DEF Replayed
<1>3. StoreType' /\ ChainType' /\ RunType' /\ FeedType'
  BY <1>1, <1>2, TypeFrames DEF brokerVars
<1>4. \A q \in Request \ {r} : rpc'[q] = rpc[q] => Same(q)
  BY <1>2 DEF Same, ctxVars, feedVars, chainVars, runVars
<1>5. rpc[r] = "replaying" /\ Goto(r, "ready") /\ "ready" \in Place \ {"new"}
  BY DEF Replayed, Place
<1>6. ASSUME rpc'[r] = "ready" PROVE Placed(r)' /\ Behind(r)' /\ Evidence(r)'
  <2>1. Placed(r)'
    BY <1>1, <1>2, <1>5, <1>6 DEF Placed, Before, feedVars, chainVars, ctxVars, runVars
  <2>2. UpTo(r, pos[r])
    <3>1. pos[r] \in Nat /\ UpTo(r, 0)
      BY <1>1, <1>5 DEF Behind, Before, FeedType
    <3> QED
      BY <3>1 DEF UpTo
  <2>3. Behind(r)'
    BY <1>1, <1>2, <1>6, <2>2 DEF Behind, Before, UpTo, feedVars, chainVars, brokerVars
  <2>4. Evidence(r)'
    BY <1>1, <1>2, <1>5, <1>6 DEF Evidence, Live, Segment, feedVars, brokerVars, ctxVars
  <2> QED
    BY <2>1, <2>3, <2>4
<1> QED
  BY <1>2, <1>3, <1>4, <1>5, <1>6, GotoKeeps DEF storeVars

\* A handler that stays where it is.
LEMMA StayKeeps ==
  ASSUME HandlerInv, NEW r \in Request,
         UNCHANGED <<brokerVars, storeVars, rpc, rgen, runVars>>,
         ContextType', FeedType', ChainType',
         \A q \in Request : ctxDone[q] => ctxDone'[q],
         \A q \in Request \ {r} : Same(q),
         Placed(r)', Behind(r)', Evidence(r)'
  PROVE HandlerInv'
<1>1. TypeOK /\ Generations
  BY DEF HandlerInv
<1>2. TypeOK'
  <2>1. BrokerType' /\ StoreType' /\ rpc' \in [Request -> Place] /\ RunType'
    BY <1>1, TypeFrames
  <2> QED
    BY <2>1, TypeGroupsNext DEF Grouped
<1>3. Generations'
  BY <1>1, GenerationsFrame DEF brokerVars, storeVars
<1> QED
  BY <1>2, <1>3, StepFrame DEF brokerVars

LEMMA ReplayKeeps ==
  ASSUME HandlerInv, NEW r \in Request, Replay(r)
  PROVE HandlerInv'
<1>1. TypeOK /\ Placed(r) /\ Behind(r) /\ Evidence(r) /\ BrokerType /\ FeedType /\ ContextType
      /\ ChainType
  BY TypeGroups DEF HandlerInv, Grouped
<1>2. /\ rpc[r] = "replaying" /\ pos[r] < replayTo[r] /\ pos'[r] = pos[r] + 1
      /\ \A q \in Request \ {r} : pos'[q] = pos[q]
  BY <1>1 DEF Replay, FeedType
<1>3. UNCHANGED <<gen, log, start, storeVars, rgen, gone, replayTo, fwd, inSend, mark,
                   sealed, chainVars, runVars>>
  BY DEF Replay
<1>4. /\ pos[r] \in Nat /\ replayTo[r] \in Nat /\ fwd[r] \in 0..Len(log) /\ Len(log) \in Nat
      /\ replayTo[r] <= fwd[r]
  BY <1>1 DEF Placed, FeedType, BrokerType
<1>5. FeedType'
  <2>1. pos[r] + 1 \in 0..Len(log) /\ pos[r] + 1 <= fwd[r]
    BY <1>2, <1>4
  <2>2. pos' \in [Request -> 0..Len(log)]
    BY <1>1, <2>1 DEF Replay, FeedType
  <2>3. ASSUME NEW q \in Request PROVE pos'[q] <= fwd[q]
    <3>1. CASE q = r
      BY <1>2, <2>1, <3>1
    <3>2. CASE q # r
      BY <1>1, <1>2, <3>2 DEF FeedType
    <3> QED
      BY <3>1, <3>2
  <2> QED
    BY <1>1, <1>3, <2>2, <2>3 DEF FeedType
<1>6. CASE UNCHANGED <<rpc, ctxDone, handle>>
  <2>1. ChainType' /\ ContextType'
    BY <1>1, <1>3, <1>6, TypeFrames DEF ctxVars
  <2>2. \A q \in Request \ {r} : Same(q)
    BY <1>2, <1>3, <1>6 DEF Same, chainVars, runVars
  <2>3. Placed(r)'
    BY <1>1, <1>3, <1>6 DEF Placed, chainVars, runVars
  <2>4. Behind(r)'
    BY <1>1, <1>2, <1>3, <1>6 DEF Behind, Before, UpTo, chainVars
  <2>5. Evidence(r)'
    <3>1. Live(r) => pos[r] >= start
      BY <1>1, <1>2 DEF Evidence
    <3>2. start \in Nat
      BY <1>1 DEF BrokerType
    <3> QED
      BY <1>1, <1>2, <1>3, <1>4, <1>6, <3>1, <3>2 DEF Evidence, Live, Segment
  <2> QED
    BY <1>3, <1>5, <1>6, <2>1, <2>2, <2>3, <2>4, <2>5, StayKeeps DEF brokerVars
<1>7. CASE Return(r)
  <2>1. run[r] # "on" /\ ~inSend[r]
    BY <1>1, <1>2 DEF Placed
  <2>2. work' = work /\ work' \in [Request -> BOOLEAN]
    BY <1>1, <1>3 DEF ChainType, chainVars
  <2> QED
    BY <1>2, <1>3, <1>5, <1>7, <2>1, <2>2, ReturnKeeps DEF chainVars
<1> QED
  BY <1>6, <1>7 DEF Replay

-----------------------------------------------------------------------------
(* A turn and the delivery of its events                                   *)

LEMMA StartTurnKeeps ==
  ASSUME HandlerInv, NEW r \in Request, StartTurn(r)
  PROVE HandlerInv'
<1>1. /\ TypeOK /\ Placed(r) /\ Behind(r) /\ Evidence(r) /\ BrokerType /\ FeedType
      /\ ChainType /\ RunType /\ ContextType
  BY TypeGroups DEF HandlerInv, Grouped
<1>2. UNCHANGED <<brokerVars, storeVars, ctxVars, feedVars, cont, prev, noProgress, work,
                   idle, op, row>>
  BY DEF StartTurn
<1>3. /\ rpc[r] = "ready" /\ Goto(r, "draining") /\ "draining" \in Place \ {"new"}
      /\ run' = [run EXCEPT ![r] = "on"] /\ turn' = [turn EXCEPT ![r] = turn[r] + 1]
      /\ late' = [late EXCEPT ![r] = IF ctxDone[r] THEN late[r] + 1 ELSE late[r]]
  BY DEF StartTurn, Place
<1>4. /\ run'[r] = "on" /\ turn'[r] = turn[r] + 1 /\ turn[r] \in Nat
      /\ late'[r] = (IF ctxDone[r] THEN late[r] + 1 ELSE late[r])
      /\ \A q \in Request \ {r} : run'[q] = run[q] /\ turn'[q] = turn[q] /\ late'[q] = late[q]
  BY <1>1, <1>3 DEF ChainType, RunType
<1>5. StoreType' /\ FeedType'
  BY <1>1, <1>2, TypeFrames DEF brokerVars
<1>6. RunType'
  BY <1>1, <1>2, <1>3 DEF RunType
<1>7. ChainType'
  <2>1. turn' \in [Request -> Nat]
    BY <1>1, <1>3, <1>4 DEF ChainType
  <2>2. late[r] + 1 \in Nat /\ late[r] \in Nat
    BY <1>1 DEF ChainType
  <2>3. late' \in [Request -> Nat]
    BY <1>1, <1>3, <2>2 DEF ChainType
  <2> QED
    BY <1>1, <1>2, <2>1, <2>3 DEF ChainType
<1>8. \A q \in Request \ {r} : rpc'[q] = rpc[q] => Same(q)
  BY <1>2, <1>4 DEF Same, ctxVars, feedVars
<1>9. ASSUME rpc'[r] = "draining" PROVE Placed(r)' /\ Behind(r)' /\ Evidence(r)'
  <2>1. Placed(r)'
    \* A turn that starts late is the first one that does.
    <3>1. late[r] = 0
      BY <1>1, <1>3 DEF Placed
    <3>2. late'[r] = 0 \/ (late'[r] = 1 /\ ctxDone'[r])
      BY <1>2, <1>4, <3>1 DEF ctxVars
    <3>3. ~(noProgress[r] >= NoProgressLimit) /\ noProgress[r] = idle[r] /\ replayTo[r] <= fwd[r]
          /\ ~inSend[r]
      BY <1>1, <1>3 DEF Placed
    <3> QED
      BY <1>2, <1>4, <1>9, <3>2, <3>3 DEF Placed, Before, feedVars
  <2>2. \A i \in 1..Len(log) : log[i].req = r => log[i].turn <= turn[r] /\ log[i].turn \in Nat
    <3>1. \A i \in 1..Len(log) : log[i] \in Event
      BY <1>1 DEF BrokerType
    <3> QED
      BY <1>1, <3>1 DEF Behind, Event
  <2>3. \A i \in 1..Len(log) : log[i].req = r => log[i].turn <= turn[r] + 1 /\ log[i].turn # turn[r] + 1
    BY <2>2, <1>4
  <2>4. Behind(r)'
    BY <2>3, <1>2, <1>4, <1>9 DEF Behind, Before, brokerVars
  <2>5. Evidence(r)'
    <3> SUFFICES ASSUME Live(r)' PROVE Evidence(r)'
      BY DEF Evidence
    <3>1. Live(r)
      BY <1>2, <1>3 DEF Live, brokerVars, ctxVars
    <3>2. /\ \A i \in (start + 1)..Len(log) : log[i].req = r
          /\ pos[r] >= start
      BY <1>1, <1>3, <3>1 DEF Evidence
    <3>3. \A i \in 1..Len(log) : ~(log[i].req = r /\ i > pos[r])
      <4>1. UpTo(r, pos[r]) /\ pos[r] \in Nat
        BY <1>1, <1>3 DEF Behind, FeedType
      <4> QED
        BY <4>1 DEF UpTo
    <3>4. ~work[r]
      BY <1>1, <1>3 DEF Placed
    <3>5. \A i \in 1..pos[r] : ~(log[i].req = r /\ log[i].turn = turn[r] + 1)
      <4>1. pos[r] \in 0..Len(log) /\ Len(log) \in Nat
        BY <1>1 DEF FeedType, BrokerType
      <4> QED
        BY <4>1, <2>3
    <3>6. work'[r] = FALSE
      BY <3>4, <1>1, <1>2 DEF ChainType
    <3>7. Worked(r, pos[r])' = FALSE
      BY <3>5, <1>2, <1>4 DEF Worked, brokerVars, feedVars
    <3> QED
      BY <1>2, <1>9, <3>2, <3>3, <3>6, <3>7 DEF Evidence, brokerVars, feedVars
  <2> QED
    BY <2>1, <2>4, <2>5
<1> QED
  BY <1>2, <1>3, <1>5, <1>6, <1>7, <1>8, <1>9, GotoKeeps DEF storeVars

LEMMA BrokerForwardKeeps ==
  ASSUME HandlerInv, NEW r \in Request, BrokerForward(r)
  PROVE HandlerInv'
<1>1. /\ TypeOK /\ Placed(r) /\ Behind(r) /\ Evidence(r) /\ BrokerType /\ FeedType
  BY TypeGroups DEF HandlerInv, Grouped
<1>2. UNCHANGED <<brokerVars, storeVars, rpc, ctxVars, replayTo, pos, inSend, mark, sealed,
                   chainVars, runVars>>
  BY DEF BrokerForward
<1>3. fwd' = [fwd EXCEPT ![r] = fwd[r] + 1]
  BY DEF BrokerForward
<1>4. /\ fwd'[r] = fwd[r] + 1 /\ \A q \in Request \ {r} : fwd'[q] = fwd[q]
  BY <1>1, <1>3 DEF FeedType
<1>5. fwd[r] \in Nat /\ pos[r] \in Nat /\ mark[r] \in 0..Len(log) /\ Len(log) \in Nat
      /\ replayTo[r] \in Nat /\ pos[r] <= fwd[r]
  BY <1>1 DEF FeedType, BrokerType
<1>6. fwd[r] + 1 \in 0..Len(log)
  BY <1>5 DEF BrokerForward
<1>7. FeedType'
  <2>1. fwd' \in [Request -> 0..Len(log)]
    BY <1>1, <1>3, <1>6 DEF FeedType
  <2>2. ASSUME NEW q \in Request PROVE pos[q] <= fwd'[q]
    <3>1. CASE q = r
      BY <1>4, <1>5, <3>1
    <3>2. CASE q # r
      BY <1>1, <1>4, <3>2 DEF FeedType
    <3> QED
      BY <3>1, <3>2
  <2> QED
    BY <1>1, <1>2, <2>1, <2>2 DEF FeedType, brokerVars
<1>8. ContextType' /\ ChainType'
  BY <1>1, <1>2, TypeFrames DEF brokerVars
<1>9. \A q \in Request \ {r} : Same(q)
  BY <1>2, <1>4 DEF Same, ctxVars, chainVars, runVars
<1>10. Placed(r)'
  BY <1>1, <1>2, <1>4, <1>5 DEF Placed, ctxVars, chainVars, runVars
<1>11. Behind(r)'
  <2>1. UpTo(r, fwd[r]) => UpTo(r, fwd[r] + 1)
    BY <1>5 DEF UpTo
  <2> QED
    BY <1>1, <1>2, <1>4, <2>1 DEF Behind, UpTo, brokerVars, chainVars
<1>12. Evidence(r)'
  BY <1>1, <1>2 DEF Evidence, Live, Worked, brokerVars, ctxVars, chainVars
<1> QED
  BY <1>2, <1>7, <1>8, <1>9, <1>10, <1>11, <1>12, StayKeeps DEF ctxVars

\* Taking an event: the feed stays typed, and the monitor sees what is there.
LEMMA TakeEffect ==
  ASSUME HandlerInv, NEW r \in Request, Take(r),
         UNCHANGED <<gen, log, start, rgen, replayTo, fwd, mark, sealed, turn>>,
         inSend' \in [Request -> BOOLEAN]
  PROVE /\ FeedType' /\ work' \in [Request -> BOOLEAN]
        /\ pos'[r] = pos[r] + 1 /\ pos[r] \in Nat
        /\ \A q \in Request \ {r} : pos'[q] = pos[q] /\ work'[q] = work[q]
        /\ rpc[r] \notin {"begun", "done"} /\ rpc'[r] = rpc[r] => Evidence(r)'
<1>1. /\ TypeOK /\ Evidence(r) /\ BrokerType /\ FeedType /\ ChainType
  BY TypeGroups DEF HandlerInv, Grouped
<1> DEFINE n == pos[r] + 1
<1>2. /\ pos' = [pos EXCEPT ![r] = pos[r] + 1]
      /\ work' = [work EXCEPT ![r] = work[r] \/ log[n].work]
  BY DEF Take
<1>3. /\ pos[r] \in Nat /\ fwd[r] \in 0..Len(log) /\ pos[r] < fwd[r] /\ Len(log) \in Nat
      /\ start \in Nat
  BY <1>1 DEF Take, FeedType, BrokerType
<1>4. n \in 1..Len(log) /\ n <= fwd[r] /\ n \in 0..Len(log)
  BY <1>3
<1>5. /\ pos'[r] = pos[r] + 1
      /\ work'[r] = (work[r] \/ log[n].work)
      /\ \A q \in Request \ {r} : pos'[q] = pos[q] /\ work'[q] = work[q]
  BY <1>1, <1>2 DEF FeedType, ChainType
<1>6. FeedType'
  <2>1. pos' \in [Request -> 0..Len(log)]
    BY <1>1, <1>2, <1>4 DEF FeedType
  <2>2. ASSUME NEW q \in Request PROVE pos'[q] <= fwd[q]
    <3>1. CASE q = r
      BY <1>4, <1>5, <3>1
    <3>2. CASE q # r
      BY <1>1, <1>5, <3>2 DEF FeedType
    <3> QED
      BY <3>1, <3>2
  <2> QED
    BY <1>1, <2>1, <2>2 DEF FeedType
<1>7. work' \in [Request -> BOOLEAN]
  <2>1. log[n].work \in BOOLEAN /\ work[r] \in BOOLEAN
    <3>1. log[n] \in Event
      BY <1>1, <1>4 DEF BrokerType
    <3> QED
      BY <1>1, <3>1 DEF Event, ChainType
  <2>2. (work[r] \/ log[n].work) \in BOOLEAN
    OBVIOUS
  <2> QED
    BY <1>1, <1>2, <2>2 DEF ChainType
<1>8. ASSUME rpc[r] \notin {"begun", "done"}, rpc'[r] = rpc[r] PROVE Evidence(r)'
  <2> SUFFICES ASSUME Live(r)' PROVE Evidence(r)'
    BY DEF Evidence
  <2>1. Live(r)
    BY <1>8 DEF Live
  <2>2. /\ \A i \in (start + 1)..Len(log) : log[i].req = r
        /\ pos[r] >= start
    BY <1>1, <1>8, <2>1 DEF Evidence
  <2>3. ASSUME rpc[r] \in Segment
        PROVE /\ \A i \in 1..Len(log) : log[i].req = r /\ i > n => log[i].turn = turn[r]
              /\ work'[r] = Worked(r, n)
    <3>1. /\ \A i \in 1..Len(log) : log[i].req = r /\ i > pos[r] => log[i].turn = turn[r]
          /\ work[r] = Worked(r, pos[r])
      BY <1>1, <2>1, <2>3 DEF Evidence
    \* The event taken is one of the live turn's.
    <3>2. log[n].req = r /\ log[n].turn = turn[r]
      <4>1. n \in (start + 1)..Len(log) /\ n > pos[r]
        BY <1>3, <1>4, <2>2
      <4> QED
        BY <1>4, <2>2, <3>1, <4>1
    <3>3. Worked(r, n) <=> (Worked(r, pos[r]) \/ log[n].work)
      <4>1. \A i \in 1..n : i \in 1..pos[r] \/ i = n
        BY <1>3
      <4>2. \A i \in 1..pos[r] : i \in 1..n
        BY <1>3
      <4>3. n \in 1..n
        BY <1>3
      <4> HIDE DEF n
      <4> QED
        BY <3>2, <4>1, <4>2, <4>3 DEF Worked
    <3>4. \A i \in 1..Len(log) : log[i].req = r /\ i > n => log[i].turn = turn[r]
      BY <1>3, <3>1
    <3>5. work'[r] = Worked(r, n)
      <4>1. work'[r] <=> Worked(r, n)
        BY <1>5, <3>1, <3>3
      <4>2. work'[r] \in BOOLEAN /\ Worked(r, n) \in BOOLEAN
        BY <1>7 DEF Worked
      <4> QED
        BY <4>1, <4>2
    <3> QED
      BY <3>4, <3>5
  <2>4. pos'[r] >= start' /\ Worked(r, pos[r])' = Worked(r, n)
    BY <1>3, <1>5, <2>2 DEF Worked
  <2> QED
    BY <1>5, <1>8, <2>2, <2>3, <2>4 DEF Evidence
<1> QED
  BY <1>3, <1>5, <1>6, <1>7, <1>8

LEMMA ForwardKeeps ==
  ASSUME HandlerInv, NEW r \in Request, Forward(r)
  PROVE HandlerInv'
<1>1. /\ TypeOK /\ Placed(r) /\ Behind(r) /\ Evidence(r) /\ BrokerType /\ FeedType /\ ChainType
  BY TypeGroups DEF HandlerInv, Grouped
<1>2. UNCHANGED <<brokerVars, storeVars, rpc, ctxVars, replayTo, fwd, mark, sealed, cont,
                   turn, prev, noProgress, idle, late, runVars>>
  BY DEF Forward
<1>3. /\ rpc[r] = "draining" /\ inSend' = [inSend EXCEPT ![r] = TRUE]
  BY DEF Forward
<1>4. inSend' \in [Request -> BOOLEAN] /\ \A q \in Request \ {r} : inSend'[q] = inSend[q]
  BY <1>1, <1>3 DEF FeedType
<1>5. /\ FeedType' /\ work' \in [Request -> BOOLEAN]
      /\ \A q \in Request \ {r} : pos'[q] = pos[q] /\ work'[q] = work[q]
      /\ Evidence(r)'
  <2>1. Take(r)
    BY DEF Forward
  <2>2. rpc[r] \notin {"begun", "done"} /\ rpc'[r] = rpc[r]
    BY <1>2, <1>3
  <2> QED
    BY <2>1, <2>2, <1>2, <1>4, TakeEffect DEF brokerVars, ctxVars
<1>6. ContextType'
  BY <1>1, <1>2, TypeFrames DEF brokerVars
<1>7. ChainType'
  BY <1>1, <1>2, <1>5 DEF ChainType
<1>8. \A q \in Request \ {r} : Same(q)
  BY <1>2, <1>4, <1>5 DEF Same, ctxVars, runVars
<1>9. Placed(r)'
  BY <1>1, <1>2, <1>3 DEF Placed, Before, ctxVars, runVars
<1>10. Behind(r)'
  BY <1>1, <1>2, <1>3 DEF Behind, Before, brokerVars
<1> QED
  BY <1>2, <1>5, <1>6, <1>7, <1>8, <1>9, <1>10, StayKeeps DEF ctxVars

LEMMA SentKeeps ==
  ASSUME HandlerInv, NEW r \in Request, Sent(r)
  PROVE HandlerInv'
<1>1. /\ TypeOK /\ Placed(r) /\ Behind(r) /\ Evidence(r) /\ BrokerType /\ FeedType
      /\ rpc \in [Request -> Place]
  BY TypeGroups DEF HandlerInv, Grouped
<1>2. UNCHANGED <<brokerVars, storeVars, ctxVars, replayTo, fwd, pos, mark, sealed,
                   chainVars, runVars>>
  BY DEF Sent
<1>3. rpc[r] = "draining"
  BY <1>1 DEF Sent, Placed
<1>4. inSend'[r] = FALSE /\ \A q \in Request \ {r} : inSend'[q] = inSend[q]
  BY <1>1 DEF Sent, FeedType
<1>5. FeedType'
  <2>1. inSend' \in [Request -> BOOLEAN]
    BY <1>1 DEF Sent, FeedType
  <2> QED
    BY <1>1, <1>2, <2>1 DEF FeedType, brokerVars
<1>6. StoreType' /\ ChainType' /\ RunType'
  BY <1>1, <1>2, TypeFrames
<1>7. PICK p \in {"draining", "failing"} : Goto(r, p)
  <2>1. CASE rpc' = rpc
    <3>1. rpc' = [rpc EXCEPT ![r] = "draining"]
      BY <1>1, <1>3, <2>1
    <3> QED
      BY <3>1 DEF Goto
  <2>2. CASE Goto(r, "failing")
    BY <2>2
  <2> QED
    BY <2>1, <2>2 DEF Sent
<1>8. \A q \in Request \ {r} : rpc'[q] = rpc[q] => Same(q)
  BY <1>2, <1>4 DEF Same, ctxVars, chainVars, runVars
<1>9. ASSUME rpc'[r] = p PROVE Placed(r)' /\ Behind(r)' /\ Evidence(r)'
  <2>1. Placed(r)'
    BY <1>1, <1>2, <1>3, <1>4, <1>9 DEF Placed, Before, ctxVars, chainVars, runVars
  <2>2. Behind(r)'
    BY <1>1, <1>2, <1>9 DEF Behind, Before, brokerVars, chainVars
  <2>3. Evidence(r)'
    BY <1>1, <1>2, <1>3, <1>9 DEF Evidence, Live, Worked, Segment, brokerVars, ctxVars, chainVars
  <2> QED
    BY <2>1, <2>2, <2>3
<1>10. p \in Place \ {"new"} /\ rpc[r] # "new"
  BY <1>3 DEF Place
<1> QED
  BY <1>2, <1>5, <1>6, <1>7, <1>8, <1>9, <1>10, GotoKeeps DEF storeVars

\* The returns that change nothing else.
LEMMA LeaveKeeps ==
  ASSUME HandlerInv, NEW r \in Request,
         Failed(r) \/ StreamDone(r) \/ EndFailed(r) \/ (Final(r) /\ Return(r))
  PROVE HandlerInv'
<1>1. TypeOK /\ Placed(r) /\ ChainType
  BY TypeGroups DEF HandlerInv, Grouped
<1>2. UNCHANGED <<gen, log, start, storeVars, rgen, gone, feedVars, chainVars, runVars>>
      /\ Return(r)
  BY DEF Failed, StreamDone, EndFailed, Final
<1>3. rpc[r] # "new" /\ ~inSend[r]
  BY <1>1 DEF Placed, Failed, StreamDone, EndFailed, Final, Drained
<1>4. run[r] # "on"
  <2>1. CASE Failed(r)
    BY <2>1 DEF Failed, Results
  <2>2. CASE ~Failed(r)
    BY <1>1, <2>2 DEF Placed, StreamDone, EndFailed, Final, Drained
  <2> QED
    BY <2>1, <2>2
<1>5. FeedType'
  BY <1>1, <1>2, TypeFrames
<1>6. work' = work /\ pos' = pos /\ work' \in [Request -> BOOLEAN]
  BY <1>1, <1>2 DEF chainVars, feedVars, ChainType
<1> QED
  BY <1>2, <1>3, <1>4, <1>5, <1>6, ReturnKeeps DEF chainVars, feedVars

LEMMA TurnDoneKeeps ==
  ASSUME HandlerInv, NEW r \in Request, TurnDone(r)
  PROVE HandlerInv'
<1>1. /\ TypeOK /\ Placed(r) /\ Behind(r) /\ Evidence(r) /\ BrokerType /\ FeedType
  BY TypeGroups DEF HandlerInv, Grouped
<1>2. UNCHANGED <<brokerVars, storeVars, ctxVars, replayTo, fwd, pos, inSend, sealed,
                   chainVars, runVars>>
  BY DEF TurnDone
<1>3. mark'[r] = Len(log) /\ \A q \in Request \ {r} : mark'[q] = mark[q]
  BY <1>1 DEF TurnDone, FeedType
<1>4. FeedType'
  <2>1. Len(log) \in 0..Len(log)
    BY <1>1 DEF BrokerType
  <2>2. mark' \in [Request -> 0..Len(log)]
    BY <1>1, <2>1 DEF TurnDone, FeedType
  <2> QED
    BY <1>1, <1>2, <2>2 DEF FeedType, brokerVars
<1>5. StoreType' /\ ChainType' /\ RunType'
  BY <1>1, <1>2, TypeFrames
<1>6. /\ rpc[r] = "draining" /\ run[r] # "on" /\ ~inSend[r]
      /\ Goto(r, "fencing") /\ "fencing" \in Place \ {"new"}
  BY DEF TurnDone, Place, Results
<1>7. \A q \in Request \ {r} : rpc'[q] = rpc[q] => Same(q)
  BY <1>2, <1>3 DEF Same, ctxVars, chainVars, runVars
<1>8. ASSUME rpc'[r] = "fencing" PROVE Placed(r)' /\ Behind(r)' /\ Evidence(r)'
  <2>1. Placed(r)'
    BY <1>1, <1>2, <1>6, <1>8 DEF Placed, Before, ctxVars, chainVars, runVars
  <2>2. Behind(r)'
    BY <1>1, <1>2, <1>3, <1>8 DEF Behind, Before, UpTo, brokerVars, chainVars
  <2>3. Evidence(r)'
    BY <1>1, <1>2, <1>6, <1>8 DEF Evidence, Live, Worked, Segment, brokerVars, ctxVars, chainVars
  <2> QED
    BY <2>1, <2>2, <2>3
<1> QED
  BY <1>2, <1>4, <1>5, <1>6, <1>7, <1>8, GotoKeeps DEF storeVars

LEMMA DeliverKeeps ==
  ASSUME HandlerInv, NEW r \in Request, Deliver(r)
  PROVE HandlerInv'
<1>1. /\ TypeOK /\ Placed(r) /\ Behind(r) /\ Evidence(r) /\ BrokerType /\ FeedType /\ ChainType
  BY TypeGroups DEF HandlerInv, Grouped
<1>2. UNCHANGED <<gen, log, start, storeVars, rgen, gone, replayTo, fwd, inSend, mark,
                   sealed, cont, turn, prev, noProgress, idle, late, runVars>>
  BY DEF Deliver
<1>3. rpc[r] \in {"fencing", "trailing", "sealing"} /\ Take(r)
  BY DEF Deliver
<1>4. inSend' \in [Request -> BOOLEAN]
  BY <1>1, <1>2 DEF FeedType
<1>5. /\ FeedType' /\ work' \in [Request -> BOOLEAN]
      /\ pos'[r] = pos[r] + 1 /\ pos[r] \in Nat
      /\ \A q \in Request \ {r} : pos'[q] = pos[q] /\ work'[q] = work[q]
      /\ rpc[r] \notin {"begun", "done"} /\ rpc'[r] = rpc[r] => Evidence(r)'
  BY <1>2, <1>3, <1>4, TakeEffect
<1>6. CASE UNCHANGED <<rpc, ctxDone, handle>>
  <2>1. ContextType'
    BY <1>1, <1>2, <1>6, TypeFrames DEF ctxVars
  <2>2. ChainType'
    BY <1>1, <1>2, <1>5 DEF ChainType
  <2>3. \A q \in Request \ {r} : Same(q)
    BY <1>2, <1>5, <1>6 DEF Same, runVars
  <2>4. Placed(r)'
    BY <1>1, <1>2, <1>3, <1>6 DEF Placed, Before, runVars
  <2>5. Behind(r)'
    <3>1. UpTo(r, pos[r]) => UpTo(r, pos[r] + 1)
      BY <1>5 DEF UpTo
    <3> QED
      BY <1>1, <1>2, <1>3, <1>5, <1>6, <3>1 DEF Behind, Before, UpTo
  <2>6. Evidence(r)'
    BY <1>3, <1>5, <1>6
  <2> QED
    BY <1>2, <1>5, <1>6, <2>1, <2>2, <2>3, <2>4, <2>5, <2>6, StayKeeps DEF brokerVars
<1>7. CASE Return(r)
  <2>1. run[r] # "on" /\ ~inSend[r] /\ rpc[r] # "new"
    BY <1>1, <1>3 DEF Placed
  <2> QED
    BY <1>2, <1>5, <1>7, <2>1, ReturnKeeps
<1> QED
  BY <1>6, <1>7 DEF Deliver

LEMMA DeliveredKeeps ==
  ASSUME HandlerInv, NEW r \in Request, Delivered(r)
  PROVE HandlerInv'
<1>1. /\ TypeOK /\ Placed(r) /\ Behind(r) /\ Evidence(r) /\ BrokerType /\ FeedType
  BY TypeGroups DEF HandlerInv, Grouped
<1>2. UNCHANGED <<brokerVars, storeVars, ctxVars, feedVars, chainVars, runVars>>
  BY DEF Delivered
<1>3. StoreType' /\ FeedType' /\ ChainType' /\ RunType'
  BY <1>1, <1>2, TypeFrames DEF brokerVars
<1>4. /\ rpc[r] = "fencing" /\ fwd[r] >= mark[r]
      /\ Goto(r, "trailing") /\ "trailing" \in Place \ {"new"}
  BY DEF Delivered, Place
<1>5. \A q \in Request \ {r} : rpc'[q] = rpc[q] => Same(q)
  BY <1>2 DEF Same, ctxVars, feedVars, chainVars, runVars
<1>6. ASSUME rpc'[r] = "trailing" PROVE Placed(r)' /\ Behind(r)' /\ Evidence(r)'
  <2>1. Placed(r)'
    BY <1>1, <1>2, <1>4, <1>6 DEF Placed, Before, ctxVars, feedVars, chainVars, runVars
  <2>2. UpTo(r, fwd[r])
    <3>1. UpTo(r, mark[r]) /\ mark[r] \in Nat /\ fwd[r] \in Nat
      BY <1>1, <1>4 DEF Behind, FeedType
    <3> QED
      BY <1>4, <3>1 DEF UpTo
  <2>3. Behind(r)'
    BY <1>1, <1>2, <1>6, <2>2 DEF Behind, Before, UpTo, brokerVars, feedVars, chainVars
  <2>4. Evidence(r)'
    BY <1>1, <1>2, <1>4, <1>6 DEF Evidence, Live, Worked, Segment, brokerVars, ctxVars, feedVars,
                                  chainVars
  <2> QED
    BY <2>1, <2>3, <2>4
<1> QED
  BY <1>2, <1>3, <1>4, <1>5, <1>6, GotoKeeps DEF storeVars

-----------------------------------------------------------------------------
(* The end of a turn                                                       *)

\* The monitor of a live turn that is drained has seen all its work.
LEMMA DrainedSeesWork ==
  ASSUME HandlerInv, NEW r \in Request, Drained(r), gen = rgen[r]
  PROVE work[r] = WorkedThisTurn(r)
<1>1. /\ Behind(r) /\ Evidence(r) /\ BrokerType /\ FeedType
  BY TypeGroups DEF HandlerInv, Grouped
<1>2. Live(r) /\ rpc[r] = "trailing" /\ pos[r] = fwd[r]
  BY DEF Drained, Live
<1>3. work[r] = Worked(r, pos[r])
  BY <1>1, <1>2 DEF Evidence, Segment
<1>4. pos[r] \in 0..Len(log) /\ Len(log) \in Nat
  BY <1>1 DEF FeedType, BrokerType
<1>5. \A i \in 1..Len(log) : log[i].req = r => i \in 1..pos[r]
  BY <1>1, <1>2, <1>4 DEF Behind, UpTo
<1>6. Worked(r, pos[r]) <=> WorkedThisTurn(r)
  BY <1>4, <1>5 DEF Worked, WorkedThisTurn
<1> QED
  BY <1>3, <1>6 DEF Worked, WorkedThisTurn

\* The count of the gate.
LEMMA CountedEffect ==
  ASSUME HandlerInv, NEW r \in Request, Drained(r), MayChain(r), Counted(r)
  PROVE /\ noProgress' \in [Request -> 0..NoProgressLimit] /\ idle' \in [Request -> Nat]
        /\ noProgress'[r] = idle'[r]
        /\ \A q \in Request \ {r} : noProgress'[q] = noProgress[q] /\ idle'[q] = idle[q]
<1>1. Placed(r) /\ ChainType
  BY TypeGroups DEF HandlerInv, Grouped
<1>2. work[r] = WorkedThisTurn(r)
  BY DrainedSeesWork DEF MayChain
<1>3. /\ noProgress[r] \in Nat /\ noProgress[r] < NoProgressLimit /\ noProgress[r] = idle[r]
      /\ NoProgressLimit \in Nat
  <2>1. rpc[r] = "trailing"
    BY DEF Drained
  <2>2. ~(noProgress[r] >= NoProgressLimit) /\ noProgress[r] = idle[r]
    BY <1>1, <2>1 DEF Placed
  <2>3. noProgress[r] \in 0..NoProgressLimit
    BY <1>1 DEF ChainType
  <2> QED
    BY <2>2, <2>3, HandlerAssumption
<1>4. PICK n \in 0..NoProgressLimit :
         noProgress' = [noProgress EXCEPT ![r] = n] /\ idle' = [idle EXCEPT ![r] = n]
  <2>1. CASE Changed(r) \/ work[r]
    <3>1. noProgress' = [noProgress EXCEPT ![r] = 0]
      BY <2>1 DEF Counted
    <3>2. idle' = [idle EXCEPT ![r] = 0]
      BY <1>2, <2>1 DEF Counted
    <3>3. 0 \in 0..NoProgressLimit
      BY <1>3
    <3> QED
      BY <3>1, <3>2, <3>3
  <2>2. CASE ~(Changed(r) \/ work[r])
    <3>1. noProgress' = [noProgress EXCEPT ![r] = noProgress[r] + 1]
      BY <2>2 DEF Counted
    <3>2. idle' = [idle EXCEPT ![r] = noProgress[r] + 1]
      BY <1>2, <1>3, <2>2 DEF Counted
    <3>3. noProgress[r] + 1 \in 0..NoProgressLimit
      BY <1>3
    <3> QED
      BY <3>1, <3>2, <3>3
  <2> QED
    BY <2>1, <2>2
<1>5. n \in Nat
  OBVIOUS
<1>6. noProgress'[r] = n /\ idle'[r] = n
  BY <1>1, <1>4 DEF ChainType
<1>7. \A q \in Request \ {r} : noProgress'[q] = noProgress[q] /\ idle'[q] = idle[q]
  BY <1>1, <1>4 DEF ChainType
<1>8. noProgress' \in [Request -> 0..NoProgressLimit]
  BY <1>1, <1>4 DEF ChainType
<1>9. idle' \in [Request -> Nat]
  BY <1>1, <1>4, <1>5 DEF ChainType
<1> QED
  BY <1>6, <1>7, <1>8, <1>9

LEMMA GateContinueKeeps ==
  ASSUME HandlerInv, NEW r \in Request, GateContinue(r)
  PROVE HandlerInv'
<1>1. /\ TypeOK /\ Placed(r) /\ Behind(r) /\ Evidence(r) /\ StoreType /\ ChainType
  BY TypeGroups DEF HandlerInv, Grouped
<1>2. UNCHANGED <<brokerVars, storeVars, ctxVars, feedVars, turn, late, runVars>>
  BY DEF GateContinue
<1>3. /\ Drained(r) /\ rpc[r] = "trailing" /\ pos[r] = fwd[r] /\ run[r] = "ok" /\ MayChain(r)
      /\ noProgress'[r] < NoProgressLimit /\ Goto(r, "final") /\ "final" \in Place \ {"new"}
  BY DEF GateContinue, Drained, Place
<1>4. /\ noProgress' \in [Request -> 0..NoProgressLimit] /\ idle' \in [Request -> Nat]
      /\ noProgress'[r] = idle'[r]
      /\ \A q \in Request \ {r} : noProgress'[q] = noProgress[q] /\ idle'[q] = idle[q]
  BY <1>3, CountedEffect DEF GateContinue
<1>5. /\ cont' = [cont EXCEPT ![r] = TRUE] /\ prev' = [prev EXCEPT ![r] = ledger]
      /\ work' = [work EXCEPT ![r] = FALSE]
  BY DEF GateContinue
<1>6. /\ cont'[r] = TRUE /\ work'[r] = FALSE
      /\ \A q \in Request \ {r} : cont'[q] = cont[q] /\ work'[q] = work[q]
  BY <1>1, <1>5 DEF ChainType
<1>7. ChainType'
  <2>1. prev' \in [Request -> Ledger]
    BY <1>1, <1>5 DEF ChainType, StoreType
  <2>2. cont' \in [Request -> BOOLEAN] /\ work' \in [Request -> BOOLEAN]
    BY <1>1, <1>5 DEF ChainType
  <2> QED
    BY <1>1, <1>2, <1>4, <2>1, <2>2 DEF ChainType
<1>8. StoreType' /\ FeedType' /\ RunType'
  BY <1>1, <1>2, TypeFrames DEF brokerVars
<1>9. \A q \in Request \ {r} : rpc'[q] = rpc[q] => Same(q)
  BY <1>2, <1>4, <1>6 DEF Same, ctxVars, feedVars, runVars
<1>10. ASSUME rpc'[r] = "final" PROVE Placed(r)' /\ Behind(r)' /\ Evidence(r)'
  <2>1. Placed(r)'
    <3>1. late[r] = 0
      BY <1>1, <1>3 DEF Placed, MayChain
    <3>2. run[r] # "on" /\ op[r] = "none" /\ ~inSend[r] /\ replayTo[r] <= fwd[r]
      BY <1>1, <1>3 DEF Placed
    <3>3. ~(noProgress'[r] >= NoProgressLimit)
      <4>1. noProgress'[r] \in Nat /\ NoProgressLimit \in Nat
        BY <1>4, HandlerAssumption
      <4> QED
        BY <1>3, <4>1
    <3> QED
      BY <1>2, <1>4, <1>6, <1>10, <3>1, <3>2, <3>3 DEF Placed, Before, feedVars, runVars
  <2>2. Behind(r)'
    BY <1>1, <1>2, <1>3, <1>10 DEF Behind, Before, UpTo, brokerVars, feedVars
  <2>3. Evidence(r)'
    BY <1>1, <1>2, <1>3, <1>10 DEF Evidence, Live, Segment, brokerVars, ctxVars, feedVars
  <2> QED
    BY <2>1, <2>2, <2>3
<1> QED
  BY <1>2, <1>3, <1>7, <1>8, <1>9, <1>10, GotoKeeps DEF storeVars

\* The seal: nothing of the request is published after it.
LEMMA SealKeeps ==
  ASSUME HandlerInv, NEW r \in Request, Drained(r), run[r] \in Results, Seal(r),
         UNCHANGED <<brokerVars, storeVars, ctxVars, replayTo, fwd, pos, inSend, turn, prev,
                     work, late, runVars>>,
         cont' = [cont EXCEPT ![r] = FALSE],
         noProgress' \in [Request -> 0..NoProgressLimit], idle' \in [Request -> Nat],
         noProgress'[r] = idle'[r],
         \A q \in Request \ {r} : noProgress'[q] = noProgress[q] /\ idle'[q] = idle[q]
  PROVE HandlerInv'
<1>1. /\ TypeOK /\ Placed(r) /\ Behind(r) /\ Evidence(r) /\ BrokerType /\ FeedType /\ ChainType
  BY TypeGroups DEF HandlerInv, Grouped
<1>2. /\ rpc[r] = "trailing" /\ pos[r] = fwd[r] /\ run[r] # "on"
      /\ Goto(r, "sealing") /\ "sealing" \in Place \ {"new"}
  BY DEF Drained, Seal, Place, Results
<1>3. /\ mark'[r] = Len(log) /\ \A q \in Request \ {r} : mark'[q] = mark[q]
      /\ cont'[r] = FALSE /\ \A q \in Request \ {r} : cont'[q] = cont[q]
  BY <1>1 DEF Seal, FeedType, ChainType
<1>4. FeedType'
  <2>1. Len(log) \in 0..Len(log)
    BY <1>1 DEF BrokerType
  <2>2. mark' \in [Request -> 0..Len(log)] /\ sealed' \in [Request -> BOOLEAN]
    BY <1>1, <2>1 DEF Seal, FeedType
  <2> QED
    BY <1>1, <2>2 DEF FeedType, brokerVars
<1>5. ChainType'
  <2>1. cont' \in [Request -> BOOLEAN]
    BY <1>1 DEF ChainType
  <2> QED
    BY <1>1, <2>1 DEF ChainType
<1>6. StoreType' /\ RunType'
  BY <1>1, TypeFrames
<1>7. \A q \in Request \ {r} : rpc'[q] = rpc[q] => Same(q)
  BY <1>3 DEF Same, ctxVars, runVars
<1>8. ASSUME rpc'[r] = "sealing" PROVE Placed(r)' /\ Behind(r)' /\ Evidence(r)'
  <2>1. Placed(r)'
    BY <1>1, <1>2, <1>3, <1>8 DEF Placed, Before, ctxVars, runVars
  <2>2. Behind(r)'
    BY <1>1, <1>2, <1>8 DEF Behind, Before, UpTo, brokerVars
  <2>3. Evidence(r)'
    BY <1>1, <1>2, <1>8 DEF Evidence, Live, Segment, brokerVars, ctxVars
  <2> QED
    BY <2>1, <2>2, <2>3
<1> QED
  BY <1>2, <1>4, <1>5, <1>6, <1>7, <1>8, GotoKeeps DEF storeVars

LEMMA GatePauseKeeps ==
  ASSUME HandlerInv, NEW r \in Request, GatePause(r)
  PROVE HandlerInv'
<1>1. /\ Drained(r) /\ run[r] \in Results /\ Seal(r) /\ MayChain(r) /\ Counted(r)
      /\ cont' = [cont EXCEPT ![r] = FALSE]
      /\ UNCHANGED <<brokerVars, storeVars, ctxVars, replayTo, fwd, pos, inSend, turn, prev,
                     work, late, runVars>>
  BY DEF GatePause, Results
<1>2. /\ noProgress' \in [Request -> 0..NoProgressLimit] /\ idle' \in [Request -> Nat]
      /\ noProgress'[r] = idle'[r]
      /\ \A q \in Request \ {r} : noProgress'[q] = noProgress[q] /\ idle'[q] = idle[q]
  BY <1>1, CountedEffect
<1> QED
  BY <1>1, <1>2, SealKeeps

LEMMA StopKeeps ==
  ASSUME HandlerInv, NEW r \in Request, GateStop(r) \/ EndSynthetic(r)
  PROVE HandlerInv'
<1>1. /\ Drained(r) /\ run[r] \in Results /\ Seal(r) /\ cont' = [cont EXCEPT ![r] = FALSE]
      /\ UNCHANGED <<brokerVars, storeVars, ctxVars, replayTo, fwd, pos, inSend, turn, prev,
                     noProgress, work, idle, late, runVars>>
  BY DEF GateStop, EndSynthetic, Results
<1>2. ChainType /\ Placed(r)
  BY TypeGroups DEF HandlerInv, Grouped
<1>3. /\ noProgress' \in [Request -> 0..NoProgressLimit] /\ idle' \in [Request -> Nat]
      /\ noProgress'[r] = idle'[r]
      /\ \A q \in Request \ {r} : noProgress'[q] = noProgress[q] /\ idle'[q] = idle[q]
  BY <1>1, <1>2 DEF ChainType, Placed
<1> QED
  BY <1>1, <1>3, SealKeeps

LEMMA SealedKeeps ==
  ASSUME HandlerInv, NEW r \in Request, Sealed(r)
  PROVE HandlerInv'
<1>1. /\ TypeOK /\ Placed(r) /\ Behind(r) /\ Evidence(r)
  BY DEF HandlerInv
<1>2. UNCHANGED <<brokerVars, storeVars, ctxVars, feedVars, chainVars, runVars>>
  BY DEF Sealed
<1>3. StoreType' /\ FeedType' /\ ChainType' /\ RunType'
  BY <1>1, <1>2, TypeFrames DEF brokerVars
<1>4. rpc[r] = "sealing" /\ Goto(r, "final") /\ "final" \in Place \ {"new"}
  BY DEF Sealed, Place
<1>5. \A q \in Request \ {r} : rpc'[q] = rpc[q] => Same(q)
  BY <1>2 DEF Same, ctxVars, feedVars, chainVars, runVars
<1>6. ASSUME rpc'[r] = "final" PROVE Placed(r)' /\ Behind(r)' /\ Evidence(r)'
  <2>1. Placed(r)'
    BY <1>1, <1>2, <1>4, <1>6 DEF Placed, Before, ctxVars, feedVars, chainVars, runVars
  <2>2. Behind(r)'
    BY <1>1, <1>2, <1>4, <1>6 DEF Behind, Before, UpTo, brokerVars, feedVars, chainVars
  <2>3. Evidence(r)'
    BY <1>1, <1>2, <1>4, <1>6 DEF Evidence, Live, Segment, brokerVars, ctxVars, feedVars
  <2> QED
    BY <2>1, <2>2, <2>3
<1> QED
  BY <1>2, <1>3, <1>4, <1>5, <1>6, GotoKeeps DEF storeVars

LEMMA FinalKeeps ==
  ASSUME HandlerInv, NEW r \in Request, Final(r)
  PROVE HandlerInv'
<1>1. CASE Return(r)
  BY <1>1, LeaveKeeps
<1>2. CASE cont[r] /\ Goto(r, "ready") /\ UNCHANGED <<ctxDone, handle>>
  <2>1. /\ TypeOK /\ Placed(r) /\ Behind(r) /\ Evidence(r)
    BY DEF HandlerInv
  <2>2. UNCHANGED <<brokerVars, storeVars, ctxVars, feedVars, chainVars, runVars>>
    BY <1>2 DEF Final, brokerVars, ctxVars
  <2>3. StoreType' /\ FeedType' /\ ChainType' /\ RunType'
    BY <2>1, <2>2, TypeFrames DEF brokerVars
  <2>4. rpc[r] = "final" /\ Goto(r, "ready") /\ "ready" \in Place \ {"new"}
    BY <1>2 DEF Final, Place
  <2>5. \A q \in Request \ {r} : rpc'[q] = rpc[q] => Same(q)
    BY <2>2 DEF Same, ctxVars, feedVars, chainVars, runVars
  <2>6. ASSUME rpc'[r] = "ready" PROVE Placed(r)' /\ Behind(r)' /\ Evidence(r)'
    <3>1. Placed(r)'
      BY <1>2, <2>1, <2>2, <2>4, <2>6 DEF Placed, Before, ctxVars, feedVars, chainVars, runVars
    <3>2. Behind(r)'
      BY <2>1, <2>2, <2>4, <2>6 DEF Behind, Before, UpTo, brokerVars, feedVars, chainVars
    <3>3. Evidence(r)'
      BY <2>1, <2>2, <2>4, <2>6 DEF Evidence, Live, Segment, brokerVars, ctxVars, feedVars
    <3> QED
      BY <3>1, <3>2, <3>3
  <2> QED
    BY <2>2, <2>3, <2>4, <2>5, <2>6, GotoKeeps DEF storeVars
<1> QED
  BY <1>1, <1>2 DEF Final

-----------------------------------------------------------------------------
(* The client and the cancellation                                         *)

LEMMA DisconnectKeeps ==
  ASSUME HandlerInv, NEW r \in Request, Disconnect(r)
  PROVE HandlerInv'
<1>1. /\ TypeOK /\ Placed(r) /\ Behind(r) /\ Evidence(r) /\ ContextType
  BY TypeGroups DEF HandlerInv, Grouped
<1>2. UNCHANGED <<brokerVars, storeVars, rpc, rgen, feedVars, chainVars, runVars>>
  BY DEF Disconnect
<1>3. ctxDone'[r] = TRUE /\ \A q \in Request \ {r} : ctxDone'[q] = ctxDone[q]
  BY <1>1 DEF Disconnect, ContextType
<1>4. ContextType'
  BY <1>1, <1>2 DEF Disconnect, ContextType, brokerVars
<1>5. FeedType' /\ ChainType'
  BY <1>1, <1>2, TypeFrames DEF brokerVars
<1>6. \A q \in Request : ctxDone[q] => ctxDone'[q]
  BY <1>3
<1>7. \A q \in Request \ {r} : Same(q)
  BY <1>2, <1>6 DEF Same, feedVars, chainVars, runVars
<1>8. Placed(r)'
  BY <1>1, <1>2, <1>3 DEF Placed, feedVars, chainVars, runVars
<1>9. Behind(r)'
  BY <1>1, <1>2 DEF Behind, UpTo, brokerVars, feedVars, chainVars
<1>10. Evidence(r)'
  BY <1>1, <1>2 DEF Evidence, Live, Worked, brokerVars, feedVars, chainVars
<1> QED
  BY <1>2, <1>4, <1>5, <1>6, <1>7, <1>8, <1>9, <1>10, StayKeeps

LEMMA CancelTurnKeeps ==
  ASSUME HandlerInv, CancelTurn
  PROVE HandlerInv'
<1>1. TypeOK /\ Generations /\ \A q \in Request : Placed(q) /\ Behind(q) /\ Evidence(q)
  BY DEF HandlerInv
<1>2. BrokerType /\ StoreType /\ ContextType
  BY <1>1, TypeGroups DEF Grouped
<1>3. /\ handle \in Request /\ handle' = NoRequest /\ gen' = gen + 1 /\ start' = Len(log)
      /\ ctxDone' = [ctxDone EXCEPT ![handle] = TRUE]
      /\ UNCHANGED <<log, storeVars, rpc, rgen, gone, feedVars, chainVars, runVars>>
  BY <1>2 DEF CancelTurn, BrokerType
<1>4. ctxDone'[handle] /\ \A q \in Request \ {handle} : ctxDone'[q] = ctxDone[q]
  BY <1>2, <1>3 DEF ContextType
<1>5. gen \in Nat /\ Len(log) \in Nat
  BY <1>2 DEF BrokerType
<1>6. TypeOK'
  <2>1. BrokerType'
    BY <1>2, <1>3, <1>5 DEF BrokerType
  <2>2. ContextType'
    <3>1. \A n \in 0..gen : n \in 0..(gen + 1)
      BY <1>5
    <3>2. rgen' \in [Request -> 0..gen']
      BY <1>2, <1>3, <3>1 DEF ContextType
    <3>3. ctxDone' \in [Request -> BOOLEAN]
      BY <1>2, <1>3 DEF ContextType
    <3> QED
      BY <1>2, <1>3, <3>2, <3>3 DEF ContextType
  <2>3. /\ StoreType' /\ rpc' \in [Request -> Place] /\ FeedType' /\ ChainType' /\ RunType'
    BY <1>1, <1>3, TypeFrames
  <2> QED
    BY <2>1, <2>2, <2>3, TypeGroupsNext DEF Grouped
<1>7. Generations'
  <2>1. \A q \in Request : ~(rpc'[q] # "new" /\ ~ctxDone'[q])
    BY <1>1, <1>3, <1>4 DEF Generations
  <2>2. \A i \in 1..Len(history') : history'[i] <= gen'
    <3>1. \A i \in 1..Len(history) : history[i] \in Nat /\ history[i] <= gen
      BY <1>1, <1>2 DEF Generations, StoreType
    <3> QED
      BY <3>1, <1>3, <1>5 DEF storeVars
  <2>3. HistoryByGeneration'
    BY <1>1, <1>3 DEF Generations, HistoryByGeneration, storeVars
  <2>4. /\ \A q \in Request : (rpc'[q] = "new") = (rgen'[q] = 0)
        /\ \A p, q \in Request : rgen'[p] = rgen'[q] /\ rgen'[q] # 0 => p = q
    BY <1>1, <1>3 DEF Generations
  <2> QED
    BY <1>3, <2>1, <2>2, <2>3, <2>4 DEF Generations
<1>8. \A q \in Request : Same(q)
  BY <1>3, <1>4 DEF Same, feedVars, chainVars, runVars
<1>9. \A q \in Request : Placed(q)' /\ Behind(q)' /\ Evidence(q)'
  BY <1>1, <1>3, <1>8, OthersKeep
<1> QED
  BY <1>6, <1>7, <1>9 DEF HandlerInv

-----------------------------------------------------------------------------
(* The invariant                                                           *)

LEMMA HandlerInvInit == Init => HandlerInv
<1> SUFFICES ASSUME Init PROVE HandlerInv
  OBVIOUS
<1>1. NoProgressLimit \in Nat \ {0} /\ NoRequest \notin Request
  BY HandlerAssumption
<1>2. /\ Len(log) = 0 /\ log \in Seq(Event)
      /\ history \in Seq({0}) /\ ledger \in Ledger /\ runs = ledger.id
  BY HandlerAssumption DEF Init
<1>3. TypeOK
  <2>1. BrokerType /\ StoreType
    <3>1. \A h \in Seq({0}) : h \in Seq(Nat)
      OBVIOUS
    <3> QED
      BY <1>1, <1>2, <3>1 DEF Init, BrokerType, StoreType, Ledger
  <2>2. rpc \in [Request -> Place] /\ ContextType
    BY DEF Init, Place, ContextType
  <2>3. FeedType
    BY <1>2 DEF Init, FeedType
  <2>4. ChainType
    BY <1>1, NoRunType DEF Init, ChainType
  <2>5. RunType
    BY NoRunType DEF Init, RunType
  <2> QED
    BY <2>1, <2>2, <2>3, <2>4, <2>5, TypeGroups DEF Grouped
<1>4. Generations
  <2>1. \A i \in 1..Len(history) : history[i] = 0
    BY <1>2
  <2>2. HistoryByGeneration
    BY <1>2, <2>1 DEF HistoryByGeneration
  <2> QED
    BY <2>1, <2>2 DEF Init, Generations
<1>5. ASSUME NEW r \in Request PROVE Placed(r) /\ Behind(r) /\ Evidence(r)
  <2>1. Placed(r)
    BY <1>1 DEF Init, Placed, Before
  <2>2. Behind(r)
    BY <1>2 DEF Init, Behind, Before, UpTo
  <2>3. Evidence(r)
    BY DEF Init, Evidence, Live
  <2> QED
    BY <2>1, <2>2, <2>3
<1> QED
  BY <1>3, <1>4, <1>5 DEF HandlerInv

LEMMA HandlerInvNext == HandlerInv /\ [Next]_vars => HandlerInv'
<1> SUFFICES ASSUME HandlerInv, [Next]_vars PROVE HandlerInv'
  OBVIOUS
<1>1. ASSUME NEW r \in Request, Begin(r) PROVE HandlerInv'
  BY <1>1, BeginKeeps
<1>2. ASSUME NEW r \in Request, HandlerStep(r) PROVE HandlerInv'
  BY <1>2, BeginFailsKeeps, AttachKeeps, ReadBlockerKeeps, ClearBlockerKeeps,
     SnapshotLedgerKeeps, ReplayKeeps, ReplayedKeeps, StartTurnKeeps, ForwardKeeps, SentKeeps,
     LeaveKeeps, TurnDoneKeeps, DeliverKeeps, DeliveredKeeps, GateContinueKeeps,
     GatePauseKeeps, StopKeeps, SealedKeeps, FinalKeeps
  DEF HandlerStep
<1>3. ASSUME NEW r \in Request, RunnerStep(r) PROVE HandlerInv'
  BY <1>3, PublishKeeps, PersistCheckKeeps, PersistWriteKeeps, ToolReadKeeps, ToolWriteKeeps,
     ProfileKeeps, CreateRunKeeps, PromptKeeps, RunnerEndKeeps
  DEF RunnerStep
<1>4. ASSUME NEW r \in Request, BrokerForward(r) PROVE HandlerInv'
  BY <1>4, BrokerForwardKeeps
<1>5. ASSUME NEW r \in Request, Disconnect(r) PROVE HandlerInv'
  BY <1>5, DisconnectKeeps
<1>6. CASE CancelTurn
  BY <1>6, CancelTurnKeeps
<1>7. CASE UNCHANGED vars
  <2>1. TypeOK /\ Generations /\ \A q \in Request : Placed(q) /\ Behind(q) /\ Evidence(q)
    BY DEF HandlerInv
  <2>2. /\ UNCHANGED brokerVars /\ UNCHANGED storeVars /\ UNCHANGED rpc /\ UNCHANGED ctxVars
        /\ UNCHANGED feedVars /\ UNCHANGED chainVars /\ UNCHANGED runVars
    BY <1>7 DEF vars
  <2>3. TypeOK'
    BY <2>1, <2>2, TypeFrames, TypeGroupsNext DEF Grouped, brokerVars
  <2>4. Generations'
    BY <2>1, <2>2, GenerationsFrame DEF brokerVars, storeVars, ctxVars
  <2>5. \A q \in Request : Same(q)
    BY <2>2 DEF Same, ctxVars, feedVars, chainVars, runVars
  <2>6. \A q \in Request : Placed(q)' /\ Behind(q)' /\ Evidence(q)'
    BY <2>1, <2>2, <2>5, OthersKeep DEF brokerVars
  <2> QED
    BY <2>3, <2>4, <2>6 DEF HandlerInv
<1> QED
  BY <1>1, <1>2, <1>3, <1>4, <1>5, <1>6, <1>7 DEF Next

LEMMA HandlerInvariant == Spec => []HandlerInv
  BY HandlerInvInit, HandlerInvNext, PTL DEF Spec

\* CountsIdleTurns: the gate's count of turns without progress is the number
\* of turns that published no work and left the ledger where it was, since
\* the barrier lets the gate see every event of the turn it judges.
THEOREM CountIsExact == Spec => []CountsIdleTurns
<1>1. HandlerInv => CountsIdleTurns
  BY DEF HandlerInv, Placed, CountsIdleTurns
<1> QED
  BY <1>1, HandlerInvariant, PTL

\* HistoryByGeneration: the persisted messages come in the order of the
\* turns, for persist writes under a context that ends before a newer turn
\* has a generation to write under.
THEOREM HistoryInOrder == Spec => []HistoryByGeneration
<1>1. HandlerInv => HistoryByGeneration
  BY DEF HandlerInv, Generations
<1> QED
  BY <1>1, HandlerInvariant, PTL

\* OneLateStart: at most one turn of a request starts after its context is
\* done, and no runner outlives its handler.
THEOREM ChainEndsWithTurn == Spec => []OneLateStart
<1>1. HandlerInv => OneLateStart
  <2> SUFFICES ASSUME HandlerInv PROVE OneLateStart
    OBVIOUS
  <2>1. TypeOK /\ \A r \in Request : Placed(r)
    BY DEF HandlerInv
  <2>2. ASSUME NEW r \in Request PROVE late[r] <= 1 /\ (rpc[r] = "done" => run[r] # "on")
    BY <2>1 DEF Placed
  <2> QED
    BY <2>1, <2>2 DEF OneLateStart
<1> QED
  BY <1>1, HandlerInvariant, PTL

\* FinalAfterEvents: when the handler answers, it has sent every event its
\* turns published.
THEOREM AnswerIsLast == Spec => []FinalAfterEvents
<1>1. HandlerInv => FinalAfterEvents
  <2> SUFFICES ASSUME HandlerInv PROVE FinalAfterEvents
    OBVIOUS
  <2>1. \A r \in Request : rpc[r] = "final" => UpTo(r, pos[r])
    BY DEF HandlerInv, Behind
  <2> QED
    BY <2>1 DEF FinalAfterEvents, UpTo
<1> QED
  BY <1>1, HandlerInvariant, PTL

-----------------------------------------------------------------------------
(* The ledger                                                              *)

Rewriters == {"exit", "complete", "block", "decide"}
Rewriting(r) == rpc[r] = "clearing" \/ op[r] \in Rewriters

\* A row that is about to be written back by a turn that is not over is the
\* ledger's, and active.
Rows == \A r \in Request : Rewriting(r) /\ ~ctxDone[r] => row[r] = ledger /\ Active(ledger)

\* A completion that may still be taken back is of a run that is closed, and
\* no other call can take it back.
Undoable ==
    /\ ledger.id <= runs /\ \A q \in Request : row[q].id <= runs
    /\ \A q \in Request : op[q] = "leave" => ~Active(ledger) \/ ledger.id # row[q].id
    /\ \A q, r \in Request : op[q] = "leave" /\ op[r] = "leave" /\ q # r => row[q].id # row[r].id

\* A step that neither reads nor writes the ledger.
Quiet ==
    /\ ledger' = ledger /\ runs' = runs /\ row' = row
    /\ \A q \in Request : /\ rpc'[q] = "clearing" => rpc[q] = "clearing"
                          /\ op'[q] \in Rewriters \cup {"leave"} => op'[q] = op[q]
                          /\ ctxDone[q] => ctxDone'[q]

LEMMA QuietKeeps ==
  ASSUME Rows, Undoable, Quiet
  PROVE Rows' /\ Undoable'
<1>1. Rows'
  BY DEF Rows, Quiet, Rewriting, Rewriters, Active
<1>2. Undoable'
  BY DEF Undoable, Quiet, Active
<1> QED
  BY <1>1, <1>2

LEMMA ReturnQuiet ==
  ASSUME HandlerInv, NEW r \in Request, Return(r), UNCHANGED <<storeVars, runVars>>
  PROVE Quiet
<1>1. rpc \in [Request -> Place] /\ ContextType
  BY TypeGroups DEF HandlerInv, Grouped
<1>2. \A q \in Request : (rpc'[q] = "clearing" => rpc[q] = "clearing") /\ (ctxDone[q] => ctxDone'[q])
  BY <1>1 DEF Return, Goto, ContextType
<1> QED
  BY <1>2 DEF Quiet, storeVars, runVars

LEMMA GotoQuiet ==
  ASSUME HandlerInv, NEW r \in Request, NEW p \in Place \ {"clearing"}, Goto(r, p),
         UNCHANGED <<ledger, runs, row, op, ctxDone>>
  PROVE Quiet
<1>1. rpc \in [Request -> Place]
  BY TypeGroups DEF HandlerInv, Grouped
<1>2. \A q \in Request : rpc'[q] = "clearing" => rpc[q] = "clearing"
  BY <1>1 DEF Goto
<1> QED
  BY <1>2 DEF Quiet

LEMMA HandlerQuiet ==
  ASSUME HandlerInv, NEW r \in Request, HandlerStep(r), ~ReadBlocker(r), ~ClearBlocker(r)
  PROVE Quiet
<1>1. CASE BeginFails(r) \/ Failed(r) \/ StreamDone(r) \/ EndFailed(r)
  BY <1>1, ReturnQuiet DEF BeginFails, Failed, StreamDone, EndFailed
<1>2. CASE Replay(r) \/ Deliver(r)
  <2>1. CASE Return(r)
    BY <1>2, <2>1, ReturnQuiet DEF Replay, Deliver
  <2>2. CASE UNCHANGED <<rpc, ctxDone, handle>>
    BY <1>2, <2>2 DEF Replay, Deliver, Quiet, storeVars, runVars
  <2> QED
    BY <1>2, <2>1, <2>2 DEF Replay, Deliver
<1>3. CASE Final(r)
  <2>1. CASE Return(r)
    BY <1>3, <2>1, ReturnQuiet DEF Final
  <2>2. CASE Goto(r, "ready") /\ UNCHANGED <<ctxDone, handle>>
    <3>1. "ready" \in Place \ {"clearing"}
      BY DEF Place
    <3> QED
      BY <1>3, <2>2, <3>1, GotoQuiet DEF Final, storeVars, runVars
  <2> QED
    BY <1>3, <2>1, <2>2 DEF Final
<1>4. CASE Forward(r)
  BY <1>4 DEF Forward, Quiet, storeVars, runVars, ctxVars
<1>5. CASE Sent(r)
  <2>1. CASE rpc' = rpc
    BY <1>5, <2>1 DEF Sent, Quiet, storeVars, runVars, ctxVars
  <2>2. CASE Goto(r, "failing")
    <3>1. "failing" \in Place \ {"clearing"}
      BY DEF Place
    <3> QED
      BY <1>5, <2>2, <3>1, GotoQuiet DEF Sent, storeVars, runVars, ctxVars
  <2> QED
    BY <1>5, <2>1, <2>2 DEF Sent
<1>6. CASE Attach(r) \/ Replayed(r) \/ TurnDone(r) \/ Delivered(r) \/ Sealed(r)
  <2>1. {"attached", "ready", "fencing", "trailing", "final"} \subseteq Place \ {"clearing"}
    BY DEF Place
  <2>2. \E p \in {"attached", "ready", "fencing", "trailing", "final"} : Goto(r, p)
    BY <1>6 DEF Attach, Replayed, TurnDone, Delivered, Sealed
  <2>3. UNCHANGED <<storeVars, runVars, ctxVars>>
    BY <1>6 DEF Attach, Replayed, TurnDone, Delivered, Sealed
  <2> QED
    BY <2>1, <2>2, <2>3, GotoQuiet DEF storeVars, runVars, ctxVars
<1>7. CASE SnapshotLedger(r) \/ StartTurn(r)
  <2>1. {"replaying", "draining"} \subseteq Place \ {"clearing"}
    BY DEF Place
  <2>2. \E p \in {"replaying", "draining"} : Goto(r, p)
    BY <1>7 DEF SnapshotLedger, StartTurn
  <2>3. UNCHANGED <<storeVars, op, row, ctxVars>>
    BY <1>7 DEF SnapshotLedger, StartTurn, runVars
  <2> QED
    BY <2>1, <2>2, <2>3, GotoQuiet DEF storeVars, ctxVars
<1>8. CASE EndSynthetic(r) \/ GateContinue(r) \/ GatePause(r) \/ GateStop(r)
  <2>1. {"sealing", "final"} \subseteq Place \ {"clearing"}
    BY DEF Place
  <2>2. \E p \in {"sealing", "final"} : Goto(r, p)
    BY <1>8 DEF EndSynthetic, GateContinue, GatePause, GateStop, Seal
  <2>3. UNCHANGED <<storeVars, runVars, ctxVars>>
    BY <1>8 DEF EndSynthetic, GateContinue, GatePause, GateStop
  <2> QED
    BY <2>1, <2>2, <2>3, GotoQuiet DEF storeVars, runVars, ctxVars
<1> QED
  BY <1>1, <1>2, <1>3, <1>4, <1>5, <1>6, <1>7, <1>8 DEF HandlerStep

LEMMA RunnerQuiet ==
  ASSUME HandlerInv, NEW r \in Request, RunnerStep(r), \A tool \in Tools : ~ToolRead(r, tool),
         ~ToolWrite(r), ~ExitProfile(r), ~CreateRun(r), ~EnterProfile(r)
  PROVE Quiet
<1>1. RunType
  BY TypeGroups DEF HandlerInv, Grouped
<1>2. CASE \E w \in BOOLEAN : Publish(r, w)
  BY <1>2 DEF Publish, Quiet, storeVars, runVars, ctxVars
<1>3. CASE PersistCheck(r) \/ PersistWrite(r) \/ PromptSend(r) \/ PromptDone(r)
  <2>1. PICK o \in {"none", "persist", "prompt"} : op' = [op EXCEPT ![r] = o]
    BY <1>3 DEF PersistCheck, PersistWrite, PromptSend, PromptDone
  <2>2. \A q \in Request : op'[q] \in Rewriters \cup {"leave"} => op'[q] = op[q]
    BY <1>1, <2>1 DEF RunType, Rewriters
  <2>3. UNCHANGED <<ledger, runs, row, rpc, ctxDone>>
    BY <1>3 DEF PersistCheck, PersistWrite, PromptSend, PromptDone, storeVars, ctxVars
  <2> QED
    BY <2>2, <2>3 DEF Quiet
<1>4. CASE RunnerEnd(r)
  BY <1>4 DEF RunnerEnd, Quiet, storeVars, ctxVars
<1> QED
  BY <1>2, <1>3, <1>4 DEF RunnerStep

LEMMA ClientQuiet ==
  ASSUME HandlerInv
  PROVE /\ \A r \in Request : Begin(r) \/ BrokerForward(r) \/ Disconnect(r) => Quiet
        /\ CancelTurn => Quiet
        /\ UNCHANGED vars => Quiet
<1>1. rpc \in [Request -> Place] /\ ContextType /\ BrokerType
  BY TypeGroups DEF HandlerInv, Grouped
<1>2. ASSUME NEW r \in Request, Begin(r) PROVE Quiet
  <2>1. \A q \in Request : rpc'[q] = "clearing" => rpc[q] = "clearing"
    BY <1>1, <1>2 DEF Begin, Goto
  <2>2. \A q \in Request : ctxDone[q] => ctxDone'[q]
    BY <1>2 DEF Begin
  <2> QED
    BY <1>2, <2>1, <2>2 DEF Begin, Quiet, storeVars, runVars
<1>3. ASSUME NEW r \in Request, BrokerForward(r) PROVE Quiet
  BY <1>3 DEF BrokerForward, Quiet, storeVars, runVars, ctxVars
<1>4. ASSUME NEW r \in Request, Disconnect(r) PROVE Quiet
  <2>1. \A q \in Request : ctxDone[q] => ctxDone'[q]
    BY <1>1, <1>4 DEF Disconnect, ContextType
  <2> QED
    BY <1>4, <2>1 DEF Disconnect, Quiet, storeVars, runVars
<1>5. ASSUME CancelTurn PROVE Quiet
  <2>1. \A q \in Request : ctxDone[q] => ctxDone'[q]
    BY <1>1, <1>5 DEF CancelTurn, ContextType
  <2> QED
    BY <1>5, <2>1 DEF CancelTurn, Quiet, storeVars, runVars
<1>6. ASSUME UNCHANGED vars PROVE Quiet
  BY <1>6 DEF vars, Quiet, storeVars, runVars, ctxVars
<1> QED
  BY <1>2, <1>3, <1>4, <1>5, <1>6

\* A closed run comes back as a new one or by the call that closed it.
Reopened ==
    ~Active(ledger) /\ Active(ledger') =>
        \/ runs' > runs /\ ledger'.id = runs'
        \/ \E r \in Request : op[r] = "leave" /\ op'[r] = "none" /\ ledger' = row[r]

\* A completion that may be taken back replaces the row it was told to.
Replaced ==
    \A r \in Request : op[r] # "leave" /\ op'[r] = "leave" =>
        Active(ledger) /\ row'[r] = ledger /\ ledger'.id = ledger.id /\ ~Active(ledger')

LedgerInv == HandlerInv /\ Rows /\ Undoable
Judged == Rows' /\ Undoable' /\ Reopened /\ Replaced

\* One turn at a time has a context that is not done, and it does one thing
\* at a time: what it writes back is what it has read.
LEMMA OneRewriter ==
  ASSUME HandlerInv, NEW q \in Request, NEW r \in Request, rpc[r] # "new", ~ctxDone[r], Rewriting(q),
         ~ctxDone[q]
  PROVE q = r
<1>1. Generations /\ Placed(q)
  BY DEF HandlerInv
<1>2. rpc[q] # "new"
  BY <1>1 DEF Rewriting, Rewriters, Placed
<1> QED
  BY <1>1, <1>2 DEF Generations

LEMMA QuietJudged ==
  ASSUME LedgerInv, Quiet
  PROVE Judged
<1>1. Rows' /\ Undoable'
  BY QuietKeeps DEF LedgerInv
<1>2. Reopened /\ Replaced
  BY DEF Quiet, Reopened, Replaced, Active
<1> QED
  BY <1>1, <1>2 DEF Judged

\* A request reads the ledger, in order to write it back or to give up.
LEMMA ReadJudged ==
  ASSUME LedgerInv, NEW r \in Request, UNCHANGED <<ledger, runs, ctxDone>>,
         row'[r] \in {ledger, NoRun}, op[r] = "none", op'[r] # "leave",
         Rewriting(r)' => row'[r] = ledger /\ Active(ledger),
         \A q \in Request \ {r} : row'[q] = row[q] /\ op'[q] = op[q] /\ rpc'[q] = rpc[q]
  PROVE Judged
<1>1. Rows /\ Undoable /\ StoreType
  BY TypeGroups DEF LedgerInv, HandlerInv, Grouped
<1>2. Rows'
  <2> SUFFICES ASSUME NEW q \in Request, Rewriting(q)', ~ctxDone'[q]
               PROVE row'[q] = ledger' /\ Active(ledger')
    BY DEF Rows, Active
  <2>1. CASE q = r
    BY <2>1 DEF Active
  <2>2. CASE q # r
    BY <1>1, <2>2 DEF Rewriting, Rows, Active
  <2> QED
    BY <2>1, <2>2
<1>3. NoRun.id <= runs
  BY <1>1 DEF NoRun, StoreType
<1>4. Undoable'
  BY <1>1, <1>3 DEF Undoable, Active
<1>5. Reopened /\ Replaced
  BY DEF Reopened, Replaced, Active
<1> QED
  BY <1>2, <1>4, <1>5 DEF Judged

LEMMA ReadBlockerJudged ==
  ASSUME LedgerInv, NEW r \in Request, ReadBlocker(r)
  PROVE Judged
<1>1. Placed(r) /\ RunType /\ rpc \in [Request -> Place]
  BY TypeGroups DEF LedgerInv, HandlerInv, Grouped
<1>2. /\ UNCHANGED <<ledger, runs, ctxDone, op>> /\ rpc[r] = "attached"
      /\ row'[r] = ActiveRun(r) /\ (rpc'[r] = "clearing" => ActiveRun(r).state = "running")
      /\ \A q \in Request \ {r} : row'[q] = row[q] /\ rpc'[q] = rpc[q]
  BY <1>1 DEF ReadBlocker, Goto, RunType, storeVars, ctxVars
<1>3. op[r] = "none"
  BY <1>1, <1>2 DEF Placed
<1>4. row'[r] \in {ledger, NoRun}
  BY <1>2 DEF ActiveRun
<1>5. Rewriting(r)' => row'[r] = ledger /\ Active(ledger)
  BY <1>2, <1>3 DEF Rewriting, Rewriters, ActiveRun, Active, NoRun
<1> QED
  BY <1>2, <1>3, <1>4, <1>5, ReadJudged

LEMMA ToolReadJudged ==
  ASSUME LedgerInv, NEW r \in Request, NEW tool \in Tools, ToolRead(r, tool)
  PROVE Judged
<1>1. Placed(r) /\ RunType
  BY TypeGroups DEF LedgerInv, HandlerInv, Grouped
<1>2. /\ UNCHANGED <<ledger, runs, ctxDone, rpc>> /\ op[r] = "none"
      /\ row'[r] = ledger /\ op'[r] = tool
      /\ \A q \in Request \ {r} : row'[q] = row[q] /\ op'[q] = op[q]
  BY <1>1 DEF ToolRead, Free, RunType, storeVars, ctxVars
<1>3. tool # "leave" /\ rpc[r] # "clearing"
  BY <1>1, HandlerAssumption DEF ToolRead, Free, Placed
<1>4. tool \in Rewriters => Active(ledger)
  BY DEF ToolRead, Active, Rewriters
<1>5. Rewriting(r)' => row'[r] = ledger /\ Active(ledger)
  BY <1>2, <1>3, <1>4 DEF Rewriting
<1> QED
  BY <1>2, <1>3, <1>5, ReadJudged

\* The request whose turn is not over writes the row back that it has read,
\* closed or not; nobody else has a write that will be taken.
LEMMA WriteJudged ==
  ASSUME LedgerInv, NEW r \in Request, Rewriting(r), ~ctxDone[r], op[r] # "leave",
         NEW l \in Ledger, l.id = row[r].id, Update(l), ~Rewriting(r)',
         op'[r] = "leave" => ~Active(l),
         UNCHANGED <<runs, ctxDone, row>>,
         \A q \in Request \ {r} : op'[q] = op[q] /\ rpc'[q] = rpc[q]
  PROVE Judged
<1>1. Rows /\ Undoable /\ Placed(r) /\ RunType /\ StoreType
  BY TypeGroups DEF LedgerInv, HandlerInv, Grouped
<1>2. row[r] = ledger /\ Active(ledger)
  BY <1>1 DEF Rows
<1>3. ledger' = l /\ ledger'.id = ledger.id
  BY <1>2 DEF Update
<1>4. rpc[r] # "new"
  BY <1>1 DEF Rewriting, Rewriters, Placed
<1>5. Rows'
  <2> SUFFICES ASSUME NEW q \in Request, Rewriting(q)', ~ctxDone'[q] PROVE FALSE
    BY DEF Rows
  <2>1. q # r
    OBVIOUS
  <2>2. Rewriting(q) /\ ~ctxDone[q]
    BY <2>1 DEF Rewriting
  <2> QED
    BY <1>4, <2>1, <2>2, OneRewriter DEF LedgerInv
<1>6. Undoable'
  <2>1. ledger'.id <= runs' /\ \A q \in Request : row'[q].id <= runs'
    BY <1>1, <1>3 DEF Undoable
  <2>2. ASSUME NEW q \in Request, q # r, op'[q] = "leave"
        PROVE op[q] = "leave" /\ row'[q] = row[q] /\ row[q].id # ledger.id
    BY <1>1, <1>2, <2>2 DEF Undoable
  <2>3. \A q \in Request : op'[q] = "leave" => ~Active(ledger') \/ ledger'.id # row'[q].id
    BY <1>3, <2>2 DEF Active
  <2>4. ASSUME NEW p \in Request, NEW q \in Request, op'[p] = "leave", op'[q] = "leave", p # q
        PROVE row'[p].id # row'[q].id
    <3>1. CASE p = r
      BY <1>2, <2>2, <2>4, <3>1
    <3>2. CASE q = r
      BY <1>2, <2>2, <2>4, <3>2
    <3>3. CASE p # r /\ q # r
      BY <1>1, <2>2, <2>4, <3>3 DEF Undoable
    <3> QED
      BY <3>1, <3>2, <3>3
  <2> QED
    BY <2>1, <2>3, <2>4 DEF Undoable
<1>7. Reopened /\ Replaced
  BY <1>2, <1>3 DEF Reopened, Replaced, Active
<1> QED
  BY <1>5, <1>6, <1>7 DEF Judged

LEMMA ClearBlockerJudged ==
  ASSUME LedgerInv, NEW r \in Request, ClearBlocker(r)
  PROVE Judged
<1>1. Placed(r) /\ RunType /\ rpc \in [Request -> Place]
  BY TypeGroups DEF LedgerInv, HandlerInv, Grouped
<1>2. /\ UNCHANGED <<runs, row, ctxDone, op>> /\ rpc[r] = "clearing" /\ rpc'[r] = "cleared"
      /\ \A q \in Request \ {r} : rpc'[q] = rpc[q]
  BY <1>1 DEF ClearBlocker, Goto, runVars, ctxVars
<1>3. op[r] = "none"
  BY <1>1, <1>2 DEF Placed
<1>4. CASE ctxDone[r]
  <2>1. Quiet
    BY <1>2, <1>4 DEF ClearBlocker, Quiet
  <2> QED
    BY <2>1, QuietJudged
<1>5. CASE ~ctxDone[r]
  <2> DEFINE l == [row[r] EXCEPT !.blocked = FALSE]
  <2>1. l \in Ledger /\ l.id = row[r].id
    BY <1>1 DEF RunType, Ledger
  <2>2. Update(l)
    BY <1>5 DEF ClearBlocker
  <2>3. Rewriting(r) /\ ~Rewriting(r)'
    BY <1>2, <1>3 DEF Rewriting, Rewriters
  <2> HIDE DEF l
  <2> QED
    BY <1>2, <1>3, <1>5, <2>1, <2>2, <2>3, WriteJudged
<1> QED
  BY <1>4, <1>5

LEMMA ToolWriteJudged ==
  ASSUME LedgerInv, NEW r \in Request, ToolWrite(r)
  PROVE Judged
<1>1. Placed(r) /\ RunType
  BY TypeGroups DEF LedgerInv, HandlerInv, Grouped
<1>2. /\ UNCHANGED <<runs, row, ctxDone, rpc>> /\ op[r] \in Rewriters
      /\ op'[r] \in {"none", "leave"}
      /\ op'[r] = "leave" => op[r] = "complete" /\ ~ctxDone[r]
      /\ \A q \in Request \ {r} : op'[q] = op[q]
  BY <1>1 DEF ToolWrite, RunType, ctxVars, Rewriters
<1>3. rpc[r] # "clearing"
  BY <1>1, <1>2 DEF Placed, Rewriters
<1>4. CASE ctxDone[r]
  <2>1. Quiet
    BY <1>2, <1>4 DEF ToolWrite, Quiet, Rewriters
  <2> QED
    BY <2>1, QuietJudged
<1>5. CASE ~ctxDone[r]
  <2>1. row[r] \in Ledger /\ "closed" \in States
    BY <1>1 DEF RunType, States
  <2>2. Written(r) \in Ledger /\ Written(r).id = row[r].id
    BY <1>2, <2>1 DEF Written, Ledger, Rewriters
  <2>3. op'[r] = "leave" => ~Active(Written(r))
    BY <1>2, <2>1 DEF Written, Active, Ledger
  <2>4. Update(Written(r))
    BY <1>5 DEF ToolWrite
  <2>5. Rewriting(r) /\ ~Rewriting(r)' /\ op[r] # "leave"
    BY <1>2, <1>3 DEF Rewriting, Rewriters
  <2> QED
    BY <1>2, <1>5, <2>2, <2>3, <2>4, <2>5, WriteJudged
<1> QED
  BY <1>4, <1>5

\* The rollback: the run it brings back is no one else's to bring back, and
\* nothing is written back while another run is active.
LEMMA ExitProfileJudged ==
  ASSUME LedgerInv, NEW r \in Request, ExitProfile(r)
  PROVE Judged
<1>1. Rows /\ Undoable /\ RunType
  BY TypeGroups DEF LedgerInv, HandlerInv, Grouped
<1>2. /\ UNCHANGED <<runs, row, ctxDone, rpc>> /\ op[r] = "leave" /\ op'[r] = "none"
      /\ \A q \in Request \ {r} : op'[q] = op[q]
  BY <1>1 DEF ExitProfile, RunType, ctxVars
<1>3. CASE ledger' = ledger
  <2>1. Quiet
    BY <1>2, <1>3 DEF Quiet, Rewriters
  <2> QED
    BY <2>1, QuietJudged
<1>4. CASE ledger' = row[r] /\ ~Active(ledger)
  <2>1. Rows'
    <3> SUFFICES ASSUME NEW q \in Request, Rewriting(q)', ~ctxDone'[q] PROVE FALSE
      BY DEF Rows
    <3>1. Rewriting(q) /\ ~ctxDone[q]
      BY <1>2 DEF Rewriting, Rewriters
    <3> QED
      BY <1>1, <1>4, <3>1 DEF Rows
  <2>2. \A q \in Request : op'[q] = "leave" => q # r /\ op[q] = "leave"
    BY <1>2
  <2>3. Undoable'
    BY <1>1, <1>2, <1>4, <2>2 DEF Undoable
  <2>4. Reopened /\ Replaced
    BY <1>2, <1>4, <2>2 DEF Reopened, Replaced
  <2> QED
    BY <2>1, <2>3, <2>4 DEF Judged
<1>5. ledger' = ledger \/ (ledger' = row[r] /\ ~Active(ledger))
  BY <1>1, <1>2 DEF ExitProfile, Update, Undoable
<1> QED
  BY <1>3, <1>4, <1>5

LEMMA CreateRunJudged ==
  ASSUME LedgerInv, NEW r \in Request, CreateRun(r)
  PROVE Judged
<1>1. Rows /\ Undoable /\ RunType /\ StoreType /\ Placed(r)
  BY TypeGroups DEF LedgerInv, HandlerInv, Grouped
<1>2. /\ UNCHANGED <<ctxDone, rpc>> /\ op[r] = "enter" /\ op'[r] \in {"none", "join"}
      /\ \A q \in Request \ {r} : op'[q] = op[q]
  BY <1>1 DEF CreateRun, RunType, ctxVars
<1>3. CASE ctxDone[r] \/ Active(ledger)
  <2>1. Quiet
    BY <1>2, <1>3 DEF CreateRun, Quiet, Rewriters
  <2> QED
    BY <2>1, QuietJudged
<1>4. CASE ~(ctxDone[r] \/ Active(ledger))
  <2>1. /\ ledger'.id = runs + 1 /\ runs' = runs + 1 /\ runs \in Nat
        /\ row'[r].id = runs + 1 /\ \A q \in Request \ {r} : row'[q] = row[q]
    BY <1>1, <1>4 DEF CreateRun, RunType, StoreType
  <2>2. Rows'
    <3> SUFFICES ASSUME NEW q \in Request, Rewriting(q)', ~ctxDone'[q] PROVE FALSE
      BY DEF Rows
    <3>1. rpc[r] # "clearing" /\ rpc[r] # "new"
      BY <1>1, <1>2 DEF Placed
    <3>2. q # r
      BY <1>2, <3>1 DEF Rewriting, Rewriters
    <3>3. Rewriting(q) /\ ~ctxDone[q]
      BY <1>2, <3>2 DEF Rewriting
    <3> QED
      BY <1>4, <3>1, <3>2, <3>3, OneRewriter DEF LedgerInv
  <2>3. \A q \in Request : op'[q] = "leave" => q # r /\ op[q] = "leave" /\ row'[q] = row[q]
    BY <1>2, <2>1
  <2>4. \A q \in Request : row[q].id \in Nat /\ row[q].id <= runs
    BY <1>1 DEF Undoable, RunType, Ledger
  <2>5. ledger'.id <= runs' /\ \A q \in Request : row'[q].id <= runs'
    BY <2>1, <2>4
  <2>6. \A q \in Request : op'[q] = "leave" => ledger'.id # row'[q].id
    BY <2>1, <2>3, <2>4
  <2>7. \A p, q \in Request : op'[p] = "leave" /\ op'[q] = "leave" /\ p # q => row'[p].id # row'[q].id
    BY <1>1, <2>3 DEF Undoable
  <2>8. Undoable'
    BY <2>5, <2>6, <2>7 DEF Undoable
  <2>9. Reopened
    BY <2>1 DEF Reopened
  <2>10. Replaced
    BY <2>3 DEF Replaced
  <2> QED
    BY <2>2, <2>8, <2>9, <2>10 DEF Judged
<1> QED
  BY <1>3, <1>4

LEMMA EnterProfileJudged ==
  ASSUME LedgerInv, NEW r \in Request, EnterProfile(r)
  PROVE Judged
<1>1. Rows /\ Undoable /\ RunType /\ Placed(r)
  BY TypeGroups DEF LedgerInv, HandlerInv, Grouped
<1>2. /\ UNCHANGED <<runs, row, ctxDone, rpc>> /\ op[r] = "join" /\ op'[r] = "none"
      /\ \A q \in Request \ {r} : op'[q] = op[q]
  BY <1>1 DEF EnterProfile, RunType, ctxVars
<1>3. CASE ledger' = ledger
  <2>1. Quiet
    BY <1>2, <1>3 DEF Quiet, Rewriters
  <2> QED
    BY <2>1, QuietJudged
<1>4. CASE ledger' # ledger
  <2> DEFINE l == [row[r] EXCEPT !.state = "closed"]
  <2>1. l.id = row[r].id /\ ~Active(l)
    BY <1>1 DEF RunType, Ledger, Active
  <2>2. ~ctxDone[r] /\ Update(l)
    BY <1>4 DEF EnterProfile
  <2> HIDE DEF l
  <2>3. ledger' = l /\ l.id = ledger.id
    BY <1>4, <2>1, <2>2 DEF Update
  <2>4. Rows'
    <3> SUFFICES ASSUME NEW q \in Request, Rewriting(q)', ~ctxDone'[q] PROVE FALSE
      BY DEF Rows
    <3>1. rpc[r] # "clearing" /\ rpc[r] # "new"
      BY <1>1, <1>2 DEF Placed
    <3>2. q # r
      BY <1>2, <3>1 DEF Rewriting, Rewriters
    <3>3. Rewriting(q) /\ ~ctxDone[q]
      BY <1>2, <3>2 DEF Rewriting
    <3> QED
      BY <2>2, <3>1, <3>2, <3>3, OneRewriter DEF LedgerInv
  <2>5. \A q \in Request : op'[q] = "leave" => q # r /\ op[q] = "leave"
    BY <1>2
  <2>6. Undoable'
    BY <1>1, <1>2, <2>1, <2>3, <2>5 DEF Undoable, Active
  <2>7. Reopened /\ Replaced
    BY <2>1, <2>3, <2>5 DEF Reopened, Replaced, Active
  <2> QED
    BY <2>4, <2>6, <2>7 DEF Judged
<1> QED
  BY <1>3, <1>4

LEMMA LedgerNext ==
  ASSUME LedgerInv, [Next]_vars
  PROVE Judged
<1>1. HandlerInv
  BY DEF LedgerInv
<1>2. CASE Quiet
  BY <1>2, QuietJudged
<1>3. ASSUME NEW r \in Request, HandlerStep(r) PROVE Judged
  BY <1>1, <1>2, <1>3, HandlerQuiet, ReadBlockerJudged, ClearBlockerJudged
<1>4. ASSUME NEW r \in Request, RunnerStep(r) PROVE Judged
  BY <1>1, <1>2, <1>4, RunnerQuiet, ToolReadJudged, ToolWriteJudged, ExitProfileJudged,
     CreateRunJudged, EnterProfileJudged
<1>5. ASSUME NEW r \in Request, Begin(r) \/ BrokerForward(r) \/ Disconnect(r) PROVE Judged
  BY <1>1, <1>2, <1>5, ClientQuiet
<1>6. CASE CancelTurn \/ UNCHANGED vars
  BY <1>1, <1>2, <1>6, ClientQuiet
<1> QED
  BY <1>3, <1>4, <1>5, <1>6 DEF Next

\* ClosedStaysClosed: a completed or abandoned autonomy run becomes active
\* again only by the rollback of the call that completed it. The live turn
\* alone writes back what it has read, which is still there (Rows); a
\* completion that may be taken back is the only one of its run, which stays
\* closed until then (Undoable).
THEOREM RunStaysClosed == Spec => ClosedStaysClosed
<1>1. Init => Rows /\ Undoable
  <2> SUFFICES ASSUME Init PROVE Rows /\ Undoable
    OBVIOUS
  <2>1. ledger \in Ledger /\ runs = ledger.id
    BY HandlerAssumption DEF Init
  <2>2. ledger.id <= runs /\ \A q \in Request : row[q].id <= runs
    BY <2>1 DEF Init, NoRun, Ledger
  <2> QED
    BY <2>2 DEF Init, Rows, Rewriting, Rewriters, Undoable
<1>2. HandlerInv /\ Rows /\ Undoable /\ [Next]_vars => Rows' /\ Undoable'
  BY LedgerNext DEF LedgerInv, Judged
<1>3. HandlerInv /\ Rows /\ Undoable /\ [Next]_vars =>
        [/\ ~Active(ledger) /\ Active(ledger') =>
              \/ runs' > runs /\ ledger'.id = runs'
              \/ \E r \in Request : /\ op[r] = "leave" /\ op'[r] = "none"
                                    /\ ledger' = row[r]
         /\ \A r \in Request : op[r] # "leave" /\ op'[r] = "leave" =>
              Active(ledger) /\ row'[r] = ledger /\ ledger'.id = ledger.id /\ ~Active(ledger')
        ]_vars
  BY LedgerNext DEF LedgerInv, Judged, Reopened, Replaced
<1> QED
  BY <1>1, <1>2, <1>3, HandlerInvariant, PTL DEF Spec, ClosedStaysClosed
=============================================================================
