-------------------------- MODULE TurnBroker_proofs --------------------------
(***************************************************************************)
(* Proofs about TurnBroker for every number of conversations, turns and    *)
(* subscribers, every channel capacity and every bound.                    *)
(*                                                                         *)
(* Every action but those of TurnStep leaves turnVars alone, so the         *)
(* invariants about turns, the fence and the replay buffer need only the   *)
(* actions of TurnStep; what a lossless subscriber sees needs them all.    *)
(*                                                                         *)
(* That a lossless subscriber misses nothing, that a closed barrier is a   *)
(* delivery fence and that finish delivers everything follow from one      *)
(* inductive invariant, SubInv, which says where every event is: read, in  *)
(* the channel, in the batch of the drain goroutine or in the queue. A     *)
(* second one, InLogOrder, says that what is under way is in the order of  *)
(* the log also after a detach, when SubInv claims less; with it every     *)
(* step of the broker is a step of EventFeed or of no concern to it.       *)
(***************************************************************************)
EXTENDS TurnBroker, TLAPS

LEMMA TypeInit == Init => TypeOK
  BY BrokerAssumption DEF Init, TypeOK, Item, Sub

(* One action per turn operation; Publish touches the subscribers too. *)
LEMMA TypeTurn == TypeOK /\ TurnStep => TypeOK'
<1> SUFFICES ASSUME TypeOK, TurnStep PROVE TypeOK'
  OBVIOUS
<1> USE BrokerAssumption DEF TypeOK, subVars, drainVars, queueVars, readVars, CancelHandles
<1>1. ASSUME NEW t \in Turn, BeginTurn(t) PROVE TypeOK'
  BY <1>1 DEF BeginTurn
<1>2. ASSUME NEW t \in Turn, ReleaseCancel(t) PROVE TypeOK'
  BY <1>2 DEF ReleaseCancel
<1>3. ASSUME NEW t \in Turn, ReleaseClear(t) PROVE TypeOK'
  BY <1>3 DEF ReleaseClear
<1>4. ASSUME NEW t \in Turn, ParentDone(t) PROVE TypeOK'
  BY <1>4 DEF ParentDone
<1>5. ASSUME NEW t \in Turn, Publish(t) PROVE TypeOK'
  <2> DEFINE e == Len(log[tconv[t]]) + 1
  <2>1. e \in Nat /\ [at |-> e, barrier |-> 0] \in Item
    BY DEF Item
  <2>2. log' \in [Conv -> Seq(Nat)] /\ buffer' \in [Conv -> Seq(Nat)]
    BY <1>5, <2>1 DEF Publish
  <2>3. out' \in [Sub -> Seq(Nat)]
    BY <1>5, <2>1 DEF Publish
  <2>4. queue' \in [LosslessSub -> Seq(Item)]
    BY <1>5, <2>1 DEF Publish
  <2>5. notify' \in [LosslessSub -> BOOLEAN] /\ last' \in [LosslessSub -> Nat]
    <3>1. \A s \in LosslessSub : registered[s] \in BOOLEAN
      BY DEF Sub
    <3> QED BY <1>5, <2>1, <3>1 DEF Publish
  <2> QED BY <1>5, <2>2, <2>3, <2>4, <2>5 DEF Publish
<1>6. ASSUME NEW C \in SUBSET Conv, CancelRegistered(C) PROVE TypeOK'
  BY <1>6 DEF CancelRegistered
<1>7. QED
  BY <1>1, <1>2, <1>3, <1>4, <1>5, <1>6 DEF TurnStep, CancelTurn, CancelAllTurns

LEMMA TypeDrain ==
  ASSUME TypeOK, NEW s \in LosslessSub, Drain(s) PROVE TypeOK'
<1> USE BrokerAssumption DEF TypeOK, subVars, queueVars, turnVars, readVars, Sub
<1>1. items[s] # << >> =>
        /\ Head(items[s]).at \in Nat /\ Head(items[s]).barrier \in Nat
        /\ Tail(items[s]) \in Seq(Item)
  <2>1. items[s] # << >> => Head(items[s]) \in Item /\ Tail(items[s]) \in Seq(Item)
    OBVIOUS
  <2> QED BY <2>1 DEF Item
<1>2. CASE DrainTake(s)
  BY <1>2, SMTT(30) DEF DrainTake
<1>3. CASE DrainForward(s)
  <2>1. out' \in [Sub -> Seq(Nat)] /\ items' \in [LosslessSub -> Seq(Item)]
    BY <1>1, <1>3, SMTT(30) DEF DrainForward
  <2> QED BY <1>3, <2>1 DEF DrainForward
<1>4. CASE DrainAck(s)
  BY <1>1, <1>4 DEF DrainAck
<1>5. CASE DrainAbort(s)
  <2>1. items' \in [LosslessSub -> Seq(Item)]
    BY <1>5 DEF DrainAbort
  <2>2. dpc' \in [LosslessSub -> {"select", "forward", "tail", "exited"}]
    BY <1>5 DEF DrainAbort
  <2> QED BY <1>5, <2>1, <2>2 DEF DrainAbort
<1>6. CASE DrainEnd(s)
  BY <1>6 DEF DrainEnd
<1>7. CASE DrainDone(s)
  <2>1. items' \in [LosslessSub -> Seq(Item)] /\ queue' \in [LosslessSub -> Seq(Item)]
    BY <1>7 DEF DrainDone
  <2>2. dpc' \in [LosslessSub -> {"select", "forward", "tail", "exited"}]
    BY <1>7 DEF DrainDone
  <2> QED BY <1>7, <2>1, <2>2 DEF DrainDone
<1>8. CASE DrainTail(s)
  <2>1. /\ out[s] \in Seq(Nat)
        /\ Append(out[s], Head(items[s]).at) \in Seq(Nat)
    BY <1>1, <1>8 DEF DrainTail
  <2>2. out' \in [Sub -> Seq(Nat)]
    BY <1>8, <2>1 DEF DrainTail
  <2>3. items' \in [LosslessSub -> Seq(Item)]
    BY <1>1, <1>8 DEF DrainTail
  <2> QED BY <1>8, <2>2, <2>3 DEF DrainTail
<1>9. CASE DrainExit(s)
  BY <1>9 DEF DrainExit
<1> QED BY <1>2, <1>3, <1>4, <1>5, <1>6, <1>7, <1>8, <1>9 DEF Drain

LEMMA TypeSub ==
  ASSUME TypeOK, NEW s \in Sub,
         \/ Attach(s) \/ Detach(s) \/ Consume(s)
         \/ AttachLossless(s) \/ DetachLossless(s)
         \/ s \in LosslessSub /\ CloseDone(s)
         \/ Finish(s) \/ Barrier(s)
  PROVE  TypeOK'
<1> USE BrokerAssumption DEF TypeOK, turnVars, drainVars, queueVars, readVars, subVars
<1>1. CASE Attach(s)
  BY <1>1 DEF Attach, Snapshot
<1>2. CASE Detach(s)
  BY <1>2 DEF Detach
<1>3. CASE Consume(s)
  <2>1. CASE Receive(s)
    <3>1. recv' \in [Sub -> Seq(Nat)] /\ out' \in [Sub -> Seq(Nat)]
      BY <2>1, SMTT(30) DEF Receive
    <3> QED BY <2>1, <3>1 DEF Receive
  <2>2. CASE ReceiveClosed(s)
    BY <2>2 DEF ReceiveClosed
  <2> QED BY <1>3, <2>1, <2>2 DEF Consume
<1>4. CASE AttachLossless(s)
  <2>1. s \in LosslessSub /\ sconv[s] \in Conv
    BY <1>4 DEF AttachLossless
  <2>2. last' \in [LosslessSub -> Nat] /\ base' \in [Sub -> Nat]
    BY <1>4, <2>1 DEF AttachLossless, Snapshot
  <2> QED BY <1>4, <2>1, <2>2 DEF AttachLossless, Snapshot
<1>5. CASE DetachLossless(s)
  BY <1>5 DEF DetachLossless
<1>6. CASE CloseDone(s)
  BY <1>6 DEF CloseDone
<1>7. CASE Finish(s)
  BY <1>7 DEF Finish
<1>8. CASE Barrier(s)
  <2>1. s \in LosslessSub /\ [at |-> last[s], barrier |-> Len(barrierAt[s]) + 1] \in Item
    BY <1>8 DEF Barrier, Item
  <2>2. queue' \in [LosslessSub -> Seq(Item)] /\ barrierAt' \in [LosslessSub -> Seq(Nat)]
    BY <1>8, <2>1 DEF Barrier
  <2> QED BY <1>8, <2>1, <2>2 DEF Barrier
<1> QED BY <1>1, <1>2, <1>3, <1>4, <1>5, <1>6, <1>7, <1>8

(* Type correctness: the variables keep their types in every behaviour. *)
THEOREM TypeCorrect == Spec => []TypeOK
<1>1. TypeOK /\ [Next]_vars => TypeOK'
  <2> SUFFICES ASSUME TypeOK, [Next]_vars PROVE TypeOK'
    OBVIOUS
  <2>1. CASE Next
    BY <2>1, TypeTurn, TypeDrain, TypeSub DEF Next, Sub
  <2>2. CASE UNCHANGED vars
    BY <2>2 DEF vars, turnVars, subVars, readVars, queueVars, drainVars, TypeOK
  <2> QED BY <2>1, <2>2
<1> QED BY TypeInit, <1>1, PTL DEF Spec

-----------------------------------------------------------------------------
(* Turns, fence and replay buffer. *)

(* The actions outside TurnStep leave the turns alone. *)
LEMMA OthersKeepTurns == [Next]_vars => TurnStep \/ UNCHANGED turnVars
  BY DEF Next, vars, Attach, Detach, AttachLossless, DetachLossless, CloseDone, Finish,
     Barrier, Drain, DrainTake, DrainForward, DrainAck, DrainAbort, DrainEnd, DrainDone,
     DrainTail, DrainExit, Consume, Receive, ReceiveClosed

(* Exclusivity step by step. The first conjunct says that a turn is current *)
(* unless it was cancelled, the second that the current one is fenced in.  *)
LEMMA ExclusiveStep == TypeOK /\ TurnExclusive /\ TurnStep => TurnExclusive'
<1> SUFFICES ASSUME TypeOK, TurnExclusive, TurnStep PROVE TurnExclusive'
  OBVIOUS
<1> USE BrokerAssumption DEF TypeOK, TurnExclusive, IsCurrent, CancelHandles
<1>1. ASSUME NEW t \in Turn, BeginTurn(t) PROVE TurnExclusive'
  <2>1. \A u \in Turn : tpc'[u] = "live" /\ ~cancelled'[u] => handle'[tconv'[u]] = u
    BY <1>1 DEF BeginTurn
  <2>2. ASSUME NEW c \in Conv, handle'[c] # NoTurn
        PROVE  tconv'[handle'[c]] = c /\ gen'[c] = tgen'[handle'[c]]
    <3>1. CASE c = tconv[t]
      BY <1>1, <3>1 DEF BeginTurn
    <3>2. CASE c # tconv[t]
      BY <1>1, <2>2, <3>2 DEF BeginTurn
    <3> QED BY <3>1, <3>2
  <2> QED BY <2>1, <2>2
<1>2. ASSUME NEW t \in Turn, ReleaseCancel(t) PROVE TurnExclusive'
  BY <1>2 DEF ReleaseCancel
<1>3. ASSUME NEW t \in Turn, ReleaseClear(t) PROVE TurnExclusive'
  BY <1>3 DEF ReleaseClear
<1>4. ASSUME NEW t \in Turn, ParentDone(t) PROVE TurnExclusive'
  BY <1>4 DEF ParentDone
<1>5. ASSUME NEW t \in Turn, Publish(t) PROVE TurnExclusive'
  BY <1>5 DEF Publish
<1>6. ASSUME NEW C \in SUBSET Conv, CancelRegistered(C) PROVE TurnExclusive'
  BY <1>6 DEF CancelRegistered
<1>7. QED
  BY <1>1, <1>2, <1>3, <1>4, <1>5, <1>6, ZenonT(40) DEF TurnStep, CancelTurn, CancelAllTurns

(* At most one live turn per conversation, and it passes the fence. *)
THEOREM OneLiveTurn == Spec => []TurnExclusive
<1>1. Init => TurnExclusive
  BY DEF Init, TurnExclusive
<1>2. TypeOK /\ TurnExclusive /\ [Next]_vars => TurnExclusive'
  <2>1. TurnExclusive /\ UNCHANGED turnVars => TurnExclusive'
    BY DEF turnVars, TurnExclusive, IsCurrent
  <2> QED BY <2>1, OthersKeepTurns, ExclusiveStep
<1> QED BY <1>1, <1>2, TypeCorrect, PTL DEF Spec

(* What a step of a turn does to the log of a conversation: nothing, or it  *)
(* appends an event of the live generation, or it empties the replay       *)
(* buffer and moves the generation on.                                     *)
Rests(c) == log'[c] = log[c] /\ buffer'[c] = buffer[c] /\ gen'[c] = gen[c]

Accepts(c) ==
    /\ log'[c] = Append(log[c], gen[c])
    /\ buffer'[c] = Append(buffer[c], Len(log[c]) + 1)
    /\ gen'[c] = gen[c]

MovesOn(c) == log'[c] = log[c] /\ buffer'[c] = << >> /\ gen'[c] = gen[c] + 1

LEMMA LogSteps ==
  ASSUME TypeOK, TurnStep, NEW c \in Conv
  PROVE  Rests(c) \/ Accepts(c) \/ MovesOn(c)
<1> USE DEF TypeOK, Rests, Accepts, MovesOn
<1>1. ASSUME NEW t \in Turn, Publish(t) PROVE Rests(c) \/ Accepts(c)
  BY <1>1 DEF Publish, IsCurrent
<1>2. ASSUME NEW t \in Turn, BeginTurn(t) PROVE Rests(c) \/ MovesOn(c)
  BY <1>2 DEF BeginTurn
<1>3. ASSUME NEW C \in SUBSET Conv, CancelRegistered(C) PROVE Rests(c) \/ MovesOn(c)
  BY <1>3 DEF CancelRegistered
<1> QED BY <1>1, <1>2, <1>3 DEF TurnStep, CancelTurn, CancelAllTurns, ReleaseCancel,
             ReleaseClear, ParentDone

(* Events are accepted in the order of the generations that publish them. *)
THEOREM Fenced == Spec => []FenceOrder
<1>1. Init => FenceOrder
  BY DEF Init, FenceOrder
<1>2. TypeOK /\ FenceOrder /\ TurnStep => FenceOrder'
  <2> SUFFICES ASSUME TypeOK, FenceOrder, TurnStep, NEW c \in Conv,
                      NEW i \in 1..Len(log'[c])
               PROVE  log'[c][i] <= gen'[c] /\ \A j \in 1..i : log'[c][j] <= log'[c][i]
    BY DEF FenceOrder
  <2>1. log[c] \in Seq(Nat) /\ gen[c] \in Nat
    BY DEF TypeOK
  <2>2. \A m \in 1..Len(log[c]) :
           log[c][m] <= gen[c] /\ \A j \in 1..m : log[c][j] <= log[c][m]
    BY DEF FenceOrder
  <2>3. CASE Rests(c)
    BY <2>2, <2>3 DEF Rests
  <2>4. CASE Accepts(c)
    <3>1. Len(log'[c]) = Len(log[c]) + 1 /\ log'[c][Len(log[c]) + 1] = gen[c]
      BY <2>1, <2>4 DEF Accepts
    <3>2. \A m \in 1..Len(log[c]) : log'[c][m] = log[c][m]
      BY <2>1, <2>4 DEF Accepts
    <3> QED BY <2>1, <2>2, <2>4, <3>1, <3>2 DEF Accepts
  <2>5. CASE MovesOn(c)
    <3>1. \A m \in 1..Len(log[c]) : log[c][m] \in Nat
      BY <2>1
    <3> QED BY <2>1, <2>2, <2>5, <3>1 DEF MovesOn
  <2> QED BY <2>3, <2>4, <2>5, LogSteps
<1>3. FenceOrder /\ UNCHANGED turnVars => FenceOrder'
  BY DEF turnVars, FenceOrder
<1>4. TypeOK /\ FenceOrder /\ [Next]_vars => FenceOrder'
  BY <1>2, <1>3, OthersKeepTurns
<1> QED BY <1>1, <1>4, TypeCorrect, PTL DEF Spec

(* The replay buffer holds the events of the live generation, all of them.  *)
(* FenceOrder is needed here: no event of the generation about to begin    *)
(* can be in the log yet.                                                  *)
THEOREM ReplayExact == Spec => []ReplayIsLiveTurn
<1> DEFINE Exact(b, l, g) ==
             LET old == Len(l) - Len(b) IN
             /\ Len(b) <= Len(l)
             /\ \A i \in 1..Len(b) : b[i] = old + i
             /\ \A i \in 1..Len(l) : l[i] = g <=> i > old
<1>1. Init => ReplayIsLiveTurn
  <2> SUFFICES ASSUME Init, NEW c \in Conv PROVE Exact(buffer[c], log[c], gen[c])
    BY DEF ReplayIsLiveTurn
  <2>1. buffer[c] = << >> /\ log[c] = << >>
    BY DEF Init
  <2> QED BY <2>1
<1>2. TypeOK /\ FenceOrder /\ ReplayIsLiveTurn /\ TurnStep => ReplayIsLiveTurn'
  <2> SUFFICES ASSUME TypeOK, FenceOrder, ReplayIsLiveTurn, TurnStep, NEW c \in Conv
               PROVE  Exact(buffer'[c], log'[c], gen'[c])
    BY DEF ReplayIsLiveTurn
  <2>1. log[c] \in Seq(Nat) /\ buffer[c] \in Seq(Nat) /\ gen[c] \in Nat
    BY DEF TypeOK
  <2>2. Exact(buffer[c], log[c], gen[c])
    BY DEF ReplayIsLiveTurn
  <2>3. CASE Rests(c)
    BY <2>2, <2>3 DEF Rests
  <2>4. CASE Accepts(c)
    <3> DEFINE n == Len(log[c])  m == Len(buffer[c])
    <3>1. /\ Len(log'[c]) = n + 1 /\ log'[c][n + 1] = gen[c]
          /\ \A i \in 1..n : log'[c][i] = log[c][i]
      BY <2>1, <2>4 DEF Accepts
    <3>2. /\ Len(buffer'[c]) = m + 1 /\ buffer'[c][m + 1] = n + 1
          /\ \A i \in 1..m : buffer'[c][i] = buffer[c][i]
      BY <2>1, <2>4 DEF Accepts
    <3>3. n \in Nat /\ m \in Nat /\ gen'[c] = gen[c]
      BY <2>1, <2>4 DEF Accepts
    <3>4. /\ m <= n
          /\ \A i \in 1..m : buffer[c][i] = (n - m) + i
          /\ \A i \in 1..n : log[c][i] = gen[c] <=> i > n - m
      BY <2>2
    <3> HIDE DEF n, m
    <3>5. \A i \in 1..(m + 1) : buffer'[c][i] = (n - m) + i
      <4>1. \A i \in 1..m : buffer'[c][i] = (n - m) + i
        BY <3>2, <3>4
      <4>2. buffer'[c][m + 1] = (n - m) + (m + 1)
        BY <3>2, <3>3
      <4> QED BY <4>1, <4>2, <3>3
    <3>6. \A i \in 1..(n + 1) : log'[c][i] = gen[c] <=> i > n - m
      <4>1. \A i \in 1..n : log'[c][i] = gen[c] <=> i > n - m
        BY <3>1, <3>4
      <4>2. log'[c][n + 1] = gen[c] /\ n + 1 > n - m
        BY <3>1, <3>3
      <4> QED BY <4>1, <4>2, <3>3
    <3>7. (n + 1) - (m + 1) = n - m
      BY <3>3
    <3> QED BY <3>1, <3>2, <3>3, <3>4, <3>5, <3>6, <3>7
  <2>5. CASE MovesOn(c)
    <3>1. \A i \in 1..Len(log[c]) : log[c][i] \in Nat /\ log[c][i] <= gen[c]
      BY <2>1 DEF FenceOrder
    <3>2. log'[c] = log[c] /\ gen'[c] = gen[c] + 1 /\ Len(buffer'[c]) = 0
      BY <2>5 DEF MovesOn
    <3> QED BY <2>1, <3>1, <3>2
  <2> QED BY <2>3, <2>4, <2>5, LogSteps
<1>3. ReplayIsLiveTurn /\ UNCHANGED turnVars => ReplayIsLiveTurn'
  BY ZenonT(40) DEF turnVars, ReplayIsLiveTurn
<1>4. TypeOK /\ FenceOrder /\ ReplayIsLiveTurn /\ [Next]_vars => ReplayIsLiveTurn'
  BY <1>2, <1>3, OthersKeepTurns
<1> QED BY <1>1, <1>4, TypeCorrect, Fenced, PTL DEF Spec

-----------------------------------------------------------------------------
(* Lossless delivery                                                       *)


(* The chain from the channel to the last queued event is unbroken until    *)
(* the drain goroutine has seen the subscriber's done channel.             *)
Kept(s) == spc[s] # "detached" \/ dpc[s] \in {"select", "forward"}

(* Before the subscriber attaches nothing is there. *)
Fresh(s) ==
    spc[s] = "new" =>
        /\ recv[s] = << >> /\ out[s] = << >> /\ queue[s] = << >> /\ items[s] = << >>
        /\ barrierAt[s] = << >> /\ acked[s] = {}
        /\ ~finishing[s] /\ ~fin[s] /\ ~eof[s]
        /\ dpc[s] = "select"

(* What the registration and the drain goroutine's state say of each other. *)
Wired(s) ==
    /\ registered[s] <=> spc[s] = "open" /\ ~finishing[s]
    /\ registered[s] => last[s] = Len(log[sconv[s]])
    /\ dpc[s] \in {"select", "exited"} => items[s] = << >>
    /\ dpc[s] = "tail" => spc[s] = "detached"
    /\ fin[s] => finishing[s]
    /\ dpc[s] = "exited" /\ spc[s] # "detached" => fin[s]
    /\ eof[s] => dpc[s] = "exited" /\ out[s] = << >>

(* After the drain goroutine took the queue with the finishing flag up, its *)
(* batch ends with the last event there will be.                           *)
Complete(s) == fin[s] => EndOf(Sent(s), items[s]) = last[s]

(* What was read and what is in the channel, event by event. *)
Numbered(s) ==
    /\ \A i \in 1..Len(replay[s]) : replay[s][i] = base[s] - Len(replay[s]) + i
    /\ \A i \in 1..Len(recv[s]) : recv[s][i] = base[s] + i
    /\ \A i \in 1..Len(out[s]) : out[s][i] = base[s] + Len(recv[s]) + i

(* A barrier under way stands where it was requested. *)
Placed(s, q) ==
    \A i \in 1..Len(q) : q[i].barrier # 0 =>
        q[i].barrier <= Len(barrierAt[s]) /\ q[i].at = barrierAt[s][q[i].barrier]

Acknowledged(s) ==
    \A b \in acked[s] : b \in 1..Len(barrierAt[s]) /\ barrierAt[s][b] <= Sent(s)

SubInv(s) ==
    /\ Fresh(s) /\ Wired(s)
    /\ Kept(s) => Continuous(s) /\ Numbered(s) /\ Complete(s)
    /\ Placed(s, items[s]) /\ Placed(s, queue[s])
    /\ Acknowledged(s)

-----------------------------------------------------------------------------
(* Lemmas about chains. *)

(* Queueing the next event, or a barrier, keeps a chain a chain. *)
LEMMA ChainAppend ==
  ASSUME NEW p \in Nat, NEW q \in Seq(Item), NEW x \in Item, Chain(p, q),
         x.at = EndOf(p, q) + (IF x.barrier = 0 THEN 1 ELSE 0)
  PROVE  Chain(p, Append(q, x)) /\ EndOf(p, Append(q, x)) = x.at
<1> DEFINE n == Len(q)
           r == Append(q, x)
<1>1. n \in Nat /\ Len(r) = n + 1 /\ r[n + 1] = x /\ \A i \in 1..n : r[i] = q[i]
  OBVIOUS
<1>2. EndOf(p, r) = x.at
  BY <1>1 DEF EndOf
<1>3. EndOf(p, q) = IF n = 0 THEN p ELSE q[n].at
  BY DEF EndOf
<1>4. ASSUME NEW i \in 1..Len(r)
      PROVE  r[i].at = (IF i = 1 THEN p ELSE r[i - 1].at)
                           + (IF r[i].barrier = 0 THEN 1 ELSE 0)
  <2>1. CASE i = n + 1
    BY <1>1, <1>3, <2>1
  <2>2. CASE i # n + 1
    BY <1>1, <2>2 DEF Chain
  <2> QED BY <2>1, <2>2
<1> QED BY <1>2, <1>4 DEF Chain

(* The head of a chain is what comes next, and the tail goes on from it. *)
LEMMA ChainTail ==
  ASSUME NEW p \in Nat, NEW q \in Seq(Item), q # << >>, Chain(p, q)
  PROVE  /\ Head(q) \in Item /\ Tail(q) \in Seq(Item)
         /\ Head(q).at = p + (IF Head(q).barrier = 0 THEN 1 ELSE 0)
         /\ Chain(Head(q).at, Tail(q))
         /\ EndOf(Head(q).at, Tail(q)) = EndOf(p, q)
<1> DEFINE n == Len(q)
           r == Tail(q)
<1>1. /\ n \in Nat \ {0} /\ r \in Seq(Item) /\ Head(q) = q[1] /\ q[1] \in Item
      /\ Len(r) = n - 1 /\ \A i \in 1..Len(r) : r[i] = q[i + 1]
  OBVIOUS
<1>2. q[1].at = p + (IF q[1].barrier = 0 THEN 1 ELSE 0)
  BY <1>1 DEF Chain
<1>3. ASSUME NEW i \in 1..Len(r)
      PROVE  r[i].at = (IF i = 1 THEN q[1].at ELSE r[i - 1].at)
                           + (IF r[i].barrier = 0 THEN 1 ELSE 0)
  <2>1. i + 1 \in 1..n /\ i + 1 # 1 /\ (i + 1) - 1 = i /\ r[i] = q[i + 1]
    BY <1>1
  <2>2. q[i + 1].at = q[i].at + (IF q[i + 1].barrier = 0 THEN 1 ELSE 0)
    BY <2>1 DEF Chain
  <2>3. i # 1 => r[i - 1] = q[i]
    BY <1>1
  <2> QED BY <2>1, <2>2, <2>3
<1>4. EndOf(q[1].at, r) = EndOf(p, q)
  <2>1. n # 1 => r[Len(r)] = q[n]
    BY <1>1
  <2> QED BY <1>1, <2>1 DEF EndOf
<1> QED BY <1>1, <1>2, <1>3, <1>4 DEF Chain

(* The number of barriers is a natural. *)
LEMMA LengthType ==
  ASSUME NEW q \in Seq(Nat)
  PROVE  Len(q) \in Nat
  OBVIOUS

(* The end of a chain of items is a position. *)
LEMMA EndType ==
  ASSUME NEW p \in Nat, NEW q \in Seq(Item) PROVE EndOf(p, q) \in Nat
<1>1. Len(q) # 0 => q[Len(q)] \in Item
  OBVIOUS
<1> QED BY <1>1 DEF EndOf, Item

LEMMA ChainEmpty ==
  ASSUME NEW p \in Nat PROVE Chain(p, << >>) /\ EndOf(p, << >>) = p
  BY DEF Chain, EndOf

-----------------------------------------------------------------------------
(* Steps that leave a subscriber alone. *)

SameButQueue(s) ==
    /\ spc'[s] = spc[s] /\ sconv'[s] = sconv[s] /\ registered'[s] = registered[s]
    /\ replay'[s] = replay[s] /\ base'[s] = base[s] /\ out'[s] = out[s]
    /\ recv'[s] = recv[s] /\ eof'[s] = eof[s] /\ finishing'[s] = finishing[s]
    /\ dpc'[s] = dpc[s] /\ items'[s] = items[s] /\ fin'[s] = fin[s]
    /\ acked'[s] = acked[s]

SameSub(s) ==
    /\ SameButQueue(s)
    /\ queue'[s] = queue[s] /\ last'[s] = last[s] /\ barrierAt'[s] = barrierAt[s]

LEMMA SameKeeps ==
  ASSUME NEW s \in LosslessSub, SubInv(s), SameSub(s),
         registered[s] => log'[sconv[s]] = log[sconv[s]]
  PROVE  SubInv(s)'
<1>1. Sent(s)' = Sent(s)
  BY DEF SameSub, SameButQueue, Sent
<1>2. (Fresh(s) /\ Wired(s))'
  BY DEF SubInv, Fresh, Wired, SameSub, SameButQueue
<1>3. Kept(s)' => Kept(s)
  BY DEF Kept, SameSub, SameButQueue
<1>4. Continuous(s) => Continuous(s)'
  BY <1>1 DEF Continuous, SameSub, SameButQueue, Chain, EndOf
<1>5. Numbered(s) => Numbered(s)'
  BY SMTT(30) DEF Numbered, SameSub, SameButQueue
<1>6. Complete(s) => Complete(s)'
  BY <1>1 DEF Complete, SameSub, SameButQueue, EndOf
<1>7. (Placed(s, items[s]) /\ Placed(s, queue[s]))'
  BY DEF SubInv, Placed, SameSub, SameButQueue
<1>8. Acknowledged(s)'
  BY <1>1 DEF SubInv, Acknowledged, SameSub, SameButQueue
<1> QED BY <1>2, <1>3, <1>4, <1>5, <1>6, <1>7, <1>8 DEF SubInv

(* Typing of what the drain lemmas speak of. *)
LEMMA SubTypes ==
  ASSUME TypeOK, NEW s \in LosslessSub
  PROVE  /\ s \in Sub /\ s \notin LossySub
         /\ queue[s] \in Seq(Item) /\ items[s] \in Seq(Item)
         /\ recv[s] \in Seq(Nat) /\ out[s] \in Seq(Nat) /\ replay[s] \in Seq(Nat)
         /\ base[s] \in Nat /\ last[s] \in Nat /\ Sent(s) \in Nat
         /\ barrierAt[s] \in Seq(Nat) /\ sconv[s] \in Conv
         /\ registered[s] \in BOOLEAN /\ finishing[s] \in BOOLEAN /\ fin[s] \in BOOLEAN
         /\ eof[s] \in BOOLEAN
  BY BrokerAssumption DEF TypeOK, Sub, Sent
-----------------------------------------------------------------------------
(* The steps of a subscriber itself. *)

LEMMA AttachKeeps ==
  ASSUME TypeOK, ReplayIsLiveTurn, NEW s \in LosslessSub, SubInv(s), AttachLossless(s)
  PROVE  SubInv(s)'
<1> DEFINE c == sconv[s]
           n == Len(log[c])
<1>1. /\ recv[s] = << >> /\ out[s] = << >> /\ queue[s] = << >> /\ items[s] = << >>
      /\ barrierAt[s] = << >> /\ acked[s] = {} /\ ~finishing[s] /\ ~fin[s] /\ ~eof[s]
      /\ dpc[s] = "select" /\ spc[s] = "new"
  BY DEF SubInv, Fresh, AttachLossless, Snapshot
<1>2. /\ spc'[s] = "open" /\ registered'[s] = TRUE /\ replay'[s] = buffer[c]
      /\ base'[s] = n /\ last'[s] = n /\ n \in Nat /\ buffer[c] \in Seq(Nat)
  BY SubTypes, SMTT(30) DEF TypeOK, AttachLossless, Snapshot
<1>3. /\ log' = log /\ sconv'[s] = c /\ recv'[s] = << >> /\ out'[s] = << >>
      /\ queue'[s] = << >> /\ items'[s] = << >> /\ barrierAt'[s] = << >> /\ acked'[s] = {}
      /\ ~finishing'[s] /\ ~fin'[s] /\ ~eof'[s] /\ dpc'[s] = "select"
  BY <1>1 DEF AttachLossless, turnVars, readVars, drainVars
<1>4. Sent(s)' = n
  BY <1>2, <1>3 DEF Sent
<1>5. (Fresh(s) /\ Wired(s))'
  BY <1>2, <1>3 DEF Fresh, Wired
<1>6. Continuous(s)'
  BY <1>2, <1>3, <1>4, ChainEmpty DEF Continuous
<1>7. Numbered(s)'
  <2>1. \A i \in 1..Len(buffer[c]) : buffer[c][i] = n - Len(buffer[c]) + i
    BY SubTypes DEF ReplayIsLiveTurn
  <2>2. Len(recv'[s]) = 0 /\ Len(out'[s]) = 0
    BY <1>3
  <2>3. \A i \in 1..Len(replay'[s]) : replay'[s][i] = base'[s] - Len(replay'[s]) + i
    BY <1>2, <2>1
  <2> QED BY <2>2, <2>3 DEF Numbered
<1>8. (Complete(s) /\ Placed(s, items[s]) /\ Placed(s, queue[s]) /\ Acknowledged(s))'
  BY <1>3 DEF Complete, Placed, Acknowledged
<1> QED BY <1>5, <1>6, <1>7, <1>8 DEF SubInv

(* Unregistering, closing done and finish move nothing. *)
LEMMA EndKeeps ==
  ASSUME TypeOK, NEW s \in LosslessSub, SubInv(s),
         DetachLossless(s) \/ CloseDone(s) \/ Finish(s)
  PROVE  SubInv(s)'
<1>1. /\ log' = log /\ sconv' = sconv /\ replay' = replay /\ base' = base /\ out' = out
      /\ recv' = recv /\ eof' = eof /\ queue' = queue /\ last' = last /\ dpc' = dpc
      /\ items' = items /\ fin' = fin /\ barrierAt' = barrierAt /\ acked' = acked
  BY DEF DetachLossless, CloseDone, Finish, turnVars, readVars, queueVars, drainVars, subVars
<1>2. /\ spc[s] # "new" /\ spc'[s] # "new"
      /\ spc[s] # "detached"
      /\ finishing[s] => finishing'[s]
      /\ registered'[s] <=> spc'[s] = "open" /\ ~finishing'[s]
      /\ ~registered'[s]
  BY SubTypes DEF TypeOK, DetachLossless, CloseDone, Finish, queueVars, SubInv, Wired
<1>3. (Fresh(s) /\ Wired(s))'
  BY <1>1, <1>2 DEF SubInv, Fresh, Wired
<1>4. Kept(s)
  BY <1>2 DEF Kept
<1>5. (Continuous(s) /\ Numbered(s) /\ Complete(s))'
  BY <1>1, <1>4 DEF SubInv, Continuous, Numbered, Complete, Sent, Chain, EndOf
<1>6. (Placed(s, items[s]) /\ Placed(s, queue[s]) /\ Acknowledged(s))'
  BY <1>1 DEF SubInv, Placed, Acknowledged, Sent
<1> QED BY <1>3, <1>5, <1>6 DEF SubInv

(* A new item at the end of the queue: an event, or a barrier. *)
LEMMA QueueKeeps ==
  ASSUME TypeOK, NEW s \in LosslessSub, SubInv(s), NEW x \in Item,
         x.at = last[s] + (IF x.barrier = 0 THEN 1 ELSE 0),
         x.barrier = 0 => ~finishing[s] /\ spc[s] = "open",
         queue'[s] = Append(queue[s], x), last'[s] = x.at,
         spc[s] \in {"open", "detaching"},
         SameButQueue(s),
         registered[s] => last'[s] = Len(log'[sconv[s]]),
         barrierAt'[s] \in Seq(Nat), Len(barrierAt'[s]) >= Len(barrierAt[s]),
         \A i \in 1..Len(barrierAt[s]) : barrierAt'[s][i] = barrierAt[s][i],
         x.barrier # 0 => x.barrier <= Len(barrierAt'[s]) /\ x.at = barrierAt'[s][x.barrier]
  PROVE  SubInv(s)'
<1>0. Len(barrierAt[s]) \in Nat /\ Len(barrierAt'[s]) \in Nat
  <2>1. barrierAt[s] \in Seq(Nat)
    BY SubTypes
  <2> QED BY <2>1, LengthType
<1> USE DEF SameButQueue
<1> DEFINE taken == EndOf(Sent(s), items[s])
<1>1. Kept(s) /\ Sent(s)' = Sent(s) /\ Sent(s) \in Nat /\ taken \in Nat
  BY SubTypes, EndType DEF Kept, Sent
<1>2. (Fresh(s) /\ Wired(s))'
  BY DEF SubInv, Fresh, Wired
<1>3. Continuous(s)'
  <2>1. Chain(taken, queue[s]) /\ EndOf(taken, queue[s]) = last[s]
    BY <1>1 DEF SubInv, Continuous
  <2>2. Chain(taken, queue'[s]) /\ EndOf(taken, queue'[s]) = last'[s]
    BY <1>1, <2>1, ChainAppend, SubTypes
  <2>3. Chain(Sent(s), items[s]) /\ EndOf(Sent(s)', items'[s]) = taken
    BY <1>1 DEF SubInv, Continuous
  <2> QED BY <1>1, <2>2, <2>3 DEF Continuous
<1>4. (Numbered(s) /\ Complete(s))'
  <2>1. fin[s] => x.barrier # 0
    BY DEF SubInv, Wired
  <2>2. fin[s] => last'[s] = last[s]
    BY <2>1, SubTypes
  <2> QED BY <1>1, <2>2 DEF SubInv, Numbered, Complete
<1>5. ASSUME NEW q \in Seq(Item), Placed(s, q), NEW i \in 1..Len(q), q[i].barrier # 0
      PROVE  /\ q[i].barrier <= Len(barrierAt'[s])
             /\ q[i].at = barrierAt'[s][q[i].barrier]
  <2>1. q[i] \in Item /\ q[i].barrier <= Len(barrierAt[s])
        /\ q[i].at = barrierAt[s][q[i].barrier]
    BY <1>5 DEF Placed
  <2>2. q[i].barrier \in 1..Len(barrierAt[s])
    BY <1>5, <2>1, SubTypes DEF Item
  <2>3. barrierAt'[s][q[i].barrier] = barrierAt[s][q[i].barrier]
    BY <2>2
  <2> QED BY <1>0, <2>1, <2>2, <2>3
<1>6. Placed(s, items[s])' /\ Placed(s, queue[s])'
  <2>1. Placed(s, items[s])'
    <3>1. items'[s] = items[s] /\ items[s] \in Seq(Item) /\ Placed(s, items[s])
      BY SubTypes DEF SubInv
    <3> QED BY <1>5, <3>1, ZenonT(40) DEF Placed
  <2>2. ASSUME NEW i \in 1..Len(queue'[s]), queue'[s][i].barrier # 0
        PROVE  /\ queue'[s][i].barrier <= Len(barrierAt'[s])
               /\ queue'[s][i].at = barrierAt'[s][queue'[s][i].barrier]
    <3> DEFINE n == Len(queue[s])
    <3>0. /\ n \in Nat /\ Len(queue'[s]) = n + 1 /\ queue'[s][n + 1] = x
          /\ \A j \in 1..n : queue'[s][j] = queue[s][j]
      BY SubTypes
    <3>1. CASE i <= n
      <4>1. i \in 1..Len(queue[s]) /\ queue'[s][i] = queue[s][i]
        BY <3>0, <3>1
      <4>2. Placed(s, queue[s]) /\ queue[s] \in Seq(Item)
        BY SubTypes DEF SubInv
      <4> QED BY <1>5, <2>2, <4>1, <4>2
    <3>2. CASE i > n
      <4>1. queue'[s][i] = x
        BY <3>0, <3>2
      <4> QED BY <2>2, <4>1
    <3> QED BY <3>0, <3>1, <3>2, SMTT(30)
  <2> QED BY <2>1, <2>2 DEF Placed
<1>7. Acknowledged(s)'
  <2>1. \A b \in acked[s] : b \in 1..Len(barrierAt[s]) /\ barrierAt[s][b] <= Sent(s)
    BY DEF SubInv, Acknowledged
  <2>2. 1..Len(barrierAt[s]) \subseteq 1..Len(barrierAt'[s])
    BY SubTypes
  <2> QED BY <1>1, <2>1, <2>2 DEF Acknowledged
<1> QED BY <1>2, <1>3, <1>4, <1>6, <1>7 DEF SubInv
LEMMA PublishKeeps ==
  ASSUME TypeOK, NEW s \in LosslessSub, SubInv(s), NEW t \in Turn, Publish(t)
  PROVE  SubInv(s)'
<1> DEFINE c == tconv[t]
           e == Len(log[c]) + 1
           x == [at |-> e, barrier |-> 0]
<1>1. /\ c \in Conv /\ log[c] \in Seq(Nat) /\ e \in Nat /\ x \in Item
      /\ tgen[t] \in Nat
  BY DEF TypeOK, Item
<1>2. UNCHANGED <<spc, sconv, registered, replay, base, recv, eof, finishing, dpc, items,
                  fin, acked, barrierAt>>
  BY DEF Publish, subVars, readVars, drainVars
<1>3. out'[s] = out[s]
  BY SubTypes DEF Publish
<1>4. CASE registered[s] /\ sconv[s] = c
  <2>1. queue'[s] = Append(queue[s], x) /\ last'[s] = e
    BY <1>4 DEF Publish
  <2>2. Len(log'[c]) = e
    BY <1>1 DEF TypeOK, Publish
  <2>3. last[s] = Len(log[c]) /\ ~finishing[s] /\ spc[s] = "open"
    BY <1>4 DEF SubInv, Wired
  <2>4. barrierAt'[s] = barrierAt[s] /\ barrierAt[s] \in Seq(Nat) /\ Len(barrierAt[s]) \in Nat
    BY <1>2, SubTypes
  <2> HIDE DEF c, e
  <2>5. x.at = e /\ x.barrier = 0
    OBVIOUS
  <2>6. e = last[s] + 1
    BY <2>3 DEF e
  <2>7. SameButQueue(s) /\ registered'[s] = registered[s] /\ sconv'[s] = sconv[s]
    BY <1>2, <1>3 DEF SameButQueue
  <2>8. last'[s] = x.at /\ last'[s] = Len(log'[sconv[s]])
    BY <1>4, <2>1, <2>2, <2>5
  <2> HIDE DEF x
  <2>9. /\ x.at = last[s] + (IF x.barrier = 0 THEN 1 ELSE 0)
        /\ x.barrier = 0 => ~finishing[s] /\ spc[s] = "open"
        /\ spc[s] \in {"open", "detaching"}
        /\ barrierAt'[s] \in Seq(Nat) /\ Len(barrierAt'[s]) >= Len(barrierAt[s])
        /\ \A i \in 1..Len(barrierAt[s]) : barrierAt'[s][i] = barrierAt[s][i]
        /\ x.barrier # 0 => x.barrier <= Len(barrierAt'[s])
                               /\ x.at = barrierAt'[s][x.barrier]
    BY <2>3, <2>4, <2>5, <2>6
  <2> QED BY <1>1, <2>1, <2>7, <2>8, <2>9, QueueKeeps
<1>5. CASE ~(registered[s] /\ sconv[s] = c)
  <2>1. queue'[s] = queue[s] /\ last'[s] = last[s]
    BY <1>5 DEF Publish
  <2>2. registered[s] => log'[sconv[s]] = log[sconv[s]]
    BY <1>5, SubTypes DEF Publish, TypeOK
  <2> QED BY <1>2, <1>3, <2>1, <2>2, SameKeeps DEF SameSub, SameButQueue
<1> QED BY <1>4, <1>5

LEMMA BarrierKeeps ==
  ASSUME TypeOK, NEW s \in LosslessSub, SubInv(s), Barrier(s)
  PROVE  SubInv(s)'
<1> DEFINE b == Len(barrierAt[s]) + 1
           x == [at |-> last[s], barrier |-> b]
<1>1. x \in Item /\ x.at = last[s] /\ x.barrier = b /\ b # 0
  BY SubTypes DEF Item
<1>2. /\ queue'[s] = Append(queue[s], x) /\ last' = last /\ log' = log
      /\ spc[s] \in {"open", "detaching"}
      /\ barrierAt'[s] = Append(barrierAt[s], last[s])
      /\ SameButQueue(s)
  BY DEF Barrier, TypeOK, turnVars, subVars, readVars, drainVars, SameButQueue
<1>3. /\ barrierAt'[s] \in Seq(Nat) /\ Len(barrierAt'[s]) = b /\ barrierAt'[s][b] = last[s]
      /\ \A i \in 1..Len(barrierAt[s]) : barrierAt'[s][i] = barrierAt[s][i]
  BY <1>2, SubTypes
<1>4. registered[s] => last'[s] = Len(log'[sconv[s]])
  BY <1>2 DEF SubInv, Wired
<1>5. /\ last'[s] = x.at /\ last[s] \in Nat /\ Len(barrierAt'[s]) >= Len(barrierAt[s])
      /\ x.at = last[s] + (IF x.barrier = 0 THEN 1 ELSE 0)
      /\ x.barrier <= Len(barrierAt'[s]) /\ x.at = barrierAt'[s][x.barrier]
  BY <1>1, <1>2, <1>3, SubTypes
<1> HIDE DEF b, x
<1> QED BY <1>1, <1>2, <1>3, <1>4, <1>5, QueueKeeps
-----------------------------------------------------------------------------
(* The steps of the drain goroutine and of the consumer. *)

(* What no step of these changes. *)
SameButDrain(s) ==
    /\ spc'[s] = spc[s] /\ sconv'[s] = sconv[s] /\ registered'[s] = registered[s]
    /\ replay'[s] = replay[s] /\ base'[s] = base[s] /\ finishing'[s] = finishing[s]
    /\ last'[s] = last[s] /\ barrierAt'[s] = barrierAt[s] /\ log' = log

(* Parts of the invariant that need no more than that, and what did change. *)
LEMMA DrainFrame ==
  ASSUME TypeOK, NEW s \in LosslessSub, SubInv(s), SameButDrain(s), spc[s] # "new",
         Sent(s)' \in Nat, Sent(s)' >= Sent(s), acked'[s] = acked[s]
  PROVE  Fresh(s)' /\ Acknowledged(s)'
<1>1. Fresh(s)'
  BY DEF SameButDrain, Fresh
<1>2. ASSUME NEW b \in acked[s]
      PROVE  b \in 1..Len(barrierAt[s]) /\ barrierAt[s][b] <= Sent(s)'
  <2>1. b \in 1..Len(barrierAt[s]) /\ barrierAt[s][b] <= Sent(s)
    BY <1>2 DEF SubInv, Acknowledged
  <2>2. barrierAt[s][b] \in Nat /\ Sent(s) \in Nat
    BY <2>1, SubTypes
  <2> HIDE DEF Sent
  <2> QED BY <2>1, <2>2
<1> QED BY <1>1, <1>2 DEF SameButDrain, Acknowledged

LEMMA PlacedTail ==
  ASSUME TypeOK, NEW s \in LosslessSub, NEW q \in Seq(Item), q # << >>, Placed(s, q)
  PROVE  Placed(s, Tail(q))
<1>1. Len(Tail(q)) = Len(q) - 1 /\ \A i \in 1..Len(Tail(q)) : Tail(q)[i] = q[i + 1]
  OBVIOUS
<1>2. \A i \in 1..Len(Tail(q)) : i + 1 \in 1..Len(q)
  BY <1>1
<1> QED BY <1>1, <1>2 DEF Placed

LEMMA TakeKeeps ==
  ASSUME TypeOK, NEW s \in LosslessSub, SubInv(s), DrainTake(s)
  PROVE  SubInv(s)'
<1>1. /\ SameButDrain(s) /\ spc[s] # "new" /\ dpc[s] = "select" /\ dpc'[s] = "forward"
      /\ items'[s] = queue[s] /\ queue'[s] = << >> /\ fin'[s] = finishing[s]
      /\ out'[s] = out[s] /\ recv'[s] = recv[s] /\ eof'[s] = eof[s] /\ acked'[s] = acked[s]
  BY DEF DrainTake, TypeOK, SameButDrain, turnVars, subVars, readVars
<1>2. Sent(s)' = Sent(s) /\ Sent(s) \in Nat
  BY <1>1, SubTypes DEF Sent, SameButDrain
<1>3. Fresh(s)' /\ Acknowledged(s)'
  BY <1>1, <1>2, DrainFrame
<1>4. Wired(s)'
  BY <1>1 DEF SubInv, Wired, SameButDrain
<1>5. Kept(s) /\ items[s] = << >>
  BY <1>1 DEF Kept, SubInv, Wired
<1>6. Chain(Sent(s), queue[s]) /\ EndOf(Sent(s), queue[s]) = last[s]
  BY <1>2, <1>5, ChainEmpty DEF SubInv, Continuous
<1>7. EndOf(Sent(s), queue[s]) \in Nat
  BY <1>2, SubTypes, EndType
<1>8. (Continuous(s) /\ Complete(s))'
  BY <1>1, <1>2, <1>6, <1>7, ChainEmpty DEF Continuous, Complete, SameButDrain
<1>9. Numbered(s)'
  BY <1>1, <1>5 DEF SubInv, Numbered, SameButDrain
<1>10. (Placed(s, items[s]) /\ Placed(s, queue[s]))'
  <2>1. Placed(s, items[s])'
    BY <1>1 DEF SubInv, Placed, SameButDrain
  <2>2. Placed(s, queue[s])'
    BY <1>1 DEF Placed
  <2> QED BY <2>1, <2>2
<1> QED BY <1>3, <1>4, <1>8, <1>9, <1>10 DEF SubInv

LEMMA ForwardKeeps ==
  ASSUME TypeOK, NEW s \in LosslessSub, SubInv(s), DrainForward(s)
  PROVE  SubInv(s)'
<1> DEFINE h == Head(items[s])
           n == Sent(s)
<1>1. /\ SameButDrain(s) /\ dpc[s] = "forward" /\ dpc'[s] = "forward"
      /\ items[s] # << >> /\ h.barrier = 0
      /\ items'[s] = Tail(items[s]) /\ queue'[s] = queue[s] /\ fin'[s] = fin[s]
      /\ out'[s] = Append(out[s], h.at) /\ recv'[s] = recv[s] /\ eof'[s] = eof[s]
      /\ acked'[s] = acked[s]
  BY SubTypes DEF DrainForward, TypeOK, SameButDrain, turnVars, subVars, readVars, queueVars
<1>2. /\ Kept(s) /\ Continuous(s) /\ Numbered(s) /\ Complete(s) /\ spc[s] # "new"
      /\ n \in Nat
  BY <1>1, SubTypes DEF Kept, SubInv, Fresh
<1>3. /\ h.at = n + 1 /\ Tail(items[s]) \in Seq(Item)
      /\ Chain(n + 1, Tail(items[s])) /\ EndOf(n + 1, Tail(items[s])) = EndOf(n, items[s])
  BY <1>1, <1>2, ChainTail, SubTypes DEF Continuous
<1>4. Sent(s)' = n + 1
  <2>1. Len(out'[s]) = Len(out[s]) + 1
    BY <1>1, <1>3, SubTypes
  <2>2. Len(out[s]) \in Nat /\ Len(recv[s]) \in Nat /\ base[s] \in Nat
    BY SubTypes
  <2> QED BY <1>1, <2>1, <2>2 DEF Sent, SameButDrain
<1>5. Fresh(s)' /\ Acknowledged(s)'
  BY <1>1, <1>2, <1>4, DrainFrame
<1>6. Wired(s)'
  BY <1>1 DEF SubInv, Wired, SameButDrain
<1>7. (Continuous(s) /\ Complete(s))'
  BY <1>1, <1>2, <1>3, <1>4 DEF Continuous, Complete, SameButDrain
<1>8. Numbered(s)'
  <2>1. /\ Len(out'[s]) = Len(out[s]) + 1 /\ out'[s][Len(out[s]) + 1] = n + 1
        /\ \A i \in 1..Len(out[s]) : out'[s][i] = out[s][i]
    BY <1>1, <1>3, SubTypes
  <2>2. \A i \in 1..Len(out'[s]) : out'[s][i] = base[s] + Len(recv[s]) + i
    <3>1. Len(out[s]) \in Nat /\ Len(recv[s]) \in Nat /\ base[s] \in Nat
      BY SubTypes
    <3>2. out'[s][Len(out[s]) + 1] = base[s] + Len(recv[s]) + (Len(out[s]) + 1)
      BY <2>1, <3>1 DEF Sent
    <3>3. \A i \in 1..Len(out[s]) : out'[s][i] = base[s] + Len(recv[s]) + i
      BY <1>2, <2>1 DEF Numbered
    <3> QED BY <2>1, <3>1, <3>2, <3>3
  <2> QED BY <1>1, <1>2, <2>2 DEF Numbered, SameButDrain
<1>9. (Placed(s, items[s]) /\ Placed(s, queue[s]))'
  <2>1. Placed(s, Tail(items[s]))
    BY <1>1, PlacedTail, SubTypes DEF SubInv
  <2> QED BY <1>1, <2>1 DEF SubInv, Placed, SameButDrain
<1> QED BY <1>5, <1>6, <1>7, <1>8, <1>9 DEF SubInv

LEMMA AckKeeps ==
  ASSUME TypeOK, NEW s \in LosslessSub, SubInv(s), DrainAck(s)
  PROVE  SubInv(s)'
<1> DEFINE h == Head(items[s])
           n == Sent(s)
<1>1. /\ SameButDrain(s) /\ dpc[s] = "forward" /\ dpc'[s] = "forward"
      /\ items[s] # << >> /\ h.barrier # 0
      /\ items'[s] = Tail(items[s]) /\ queue'[s] = queue[s] /\ fin'[s] = fin[s]
      /\ out'[s] = out[s] /\ recv'[s] = recv[s] /\ eof'[s] = eof[s]
      /\ acked'[s] = acked[s] \cup {h.barrier}
  BY SubTypes DEF DrainAck, TypeOK, SameButDrain, turnVars, subVars, readVars, queueVars
<1>2. /\ Kept(s) /\ Continuous(s) /\ Numbered(s) /\ Complete(s) /\ spc[s] # "new"
      /\ n \in Nat
  BY <1>1, SubTypes DEF Kept, SubInv, Fresh
<1>3. /\ h \in Item /\ h.at = n /\ Tail(items[s]) \in Seq(Item)
      /\ Chain(n, Tail(items[s])) /\ EndOf(n, Tail(items[s])) = EndOf(n, items[s])
  BY <1>1, <1>2, ChainTail, SubTypes DEF Continuous
<1>4. Sent(s)' = n
  BY <1>1 DEF Sent, SameButDrain
<1>5. Acknowledged(s)'
  <2>1. h = items[s][1] /\ 1 \in 1..Len(items[s])
    BY <1>1, SubTypes
  <2>2. h.barrier <= Len(barrierAt[s]) /\ barrierAt[s][h.barrier] = n
    BY <1>1, <1>3, <2>1 DEF SubInv, Placed
  <2>3. h.barrier \in 1..Len(barrierAt[s])
    BY <1>1, <1>3, <2>2, SubTypes DEF Item
  <2> HIDE DEF h, n
  <2> QED BY <1>1, <1>2, <1>4, <2>2, <2>3 DEF SubInv, Acknowledged, SameButDrain, n
<1>6. Fresh(s)' /\ Wired(s)'
  BY <1>1, <1>2 DEF SubInv, Wired, SameButDrain, Fresh
<1>7. (Continuous(s) /\ Complete(s) /\ Numbered(s))'
  BY <1>1, <1>2, <1>3, <1>4 DEF Continuous, Complete, SameButDrain, Numbered
<1>8. (Placed(s, items[s]) /\ Placed(s, queue[s]))'
  <2>1. Placed(s, Tail(items[s]))
    BY <1>1, PlacedTail, SubTypes DEF SubInv
  <2> QED BY <1>1, <2>1 DEF SubInv, Placed, SameButDrain
<1> QED BY <1>5, <1>6, <1>7, <1>8 DEF SubInv
(* The steps after which the chain is no longer claimed, or has no batch. *)
LEMMA StopKeeps ==
  ASSUME TypeOK, NEW s \in LosslessSub, SubInv(s),
         DrainAbort(s) \/ DrainEnd(s) \/ DrainDone(s) \/ DrainExit(s)
  PROVE  SubInv(s)'
<1>1. /\ SameButDrain(s) /\ fin' = fin /\ out' = out /\ recv' = recv /\ eof' = eof
      /\ acked' = acked
  BY DEF DrainAbort, DrainEnd, DrainDone, DrainExit, SameButDrain, turnVars, subVars, readVars,
         queueVars
<1>2. Sent(s)' = Sent(s) /\ Sent(s) \in Nat
  BY <1>1, SubTypes DEF Sent, SameButDrain
<1>3. spc[s] # "new"
  BY DEF SubInv, Fresh, DrainAbort, DrainEnd, DrainDone, DrainExit, Done
<1>4. Fresh(s)' /\ Acknowledged(s)'
  BY <1>1, <1>2, <1>3, DrainFrame
<1>5. CASE DrainAbort(s)
  <2>1. /\ items'[s] = << >> /\ queue'[s] = queue[s] /\ dpc'[s] = "exited"
        /\ dpc[s] = "forward" /\ spc[s] = "detached"
    BY <1>5 DEF DrainAbort, TypeOK, queueVars, Done
  <2>2. Wired(s)' /\ ~Kept(s)'
    BY <1>1, <2>1 DEF SubInv, Wired, Kept, SameButDrain
  <2>3. (Placed(s, items[s]) /\ Placed(s, queue[s]))'
    BY <1>1, <2>1 DEF SubInv, Placed, SameButDrain
  <2> QED BY <1>4, <2>2, <2>3 DEF SubInv
<1>6. CASE DrainEnd(s)
  <2>1. /\ items' = items /\ queue' = queue /\ dpc[s] = "forward" /\ items[s] = << >>
        /\ dpc'[s] = IF fin[s] THEN "exited" ELSE "select"
    BY <1>6 DEF DrainEnd, TypeOK, queueVars
  <2>2. Wired(s)'
    BY <1>1, <2>1 DEF SubInv, Wired, SameButDrain
  <2>3. (Continuous(s) /\ Numbered(s) /\ Complete(s))'
    <3>1. Continuous(s) /\ Numbered(s) /\ Complete(s)
      BY <2>1 DEF SubInv, Kept
    <3>2. Continuous(s)'
      BY <1>1, <1>2, <2>1, <3>1 DEF Continuous, SameButDrain
    <3>3. Numbered(s)'
      BY <1>1, <3>1 DEF Numbered, SameButDrain
    <3>4. Complete(s)'
      BY <1>1, <1>2, <2>1, <3>1 DEF Complete, SameButDrain
    <3> QED BY <3>2, <3>3, <3>4
  <2>4. (Placed(s, items[s]) /\ Placed(s, queue[s]))'
    BY <1>1, <2>1 DEF SubInv, Placed, SameButDrain
  <2> QED BY <1>4, <2>2, <2>3, <2>4 DEF SubInv
<1>7. CASE DrainDone(s)
  <2>1. /\ items'[s] = queue[s] /\ queue'[s] = << >> /\ dpc'[s] = "tail"
        /\ dpc[s] = "select" /\ spc[s] = "detached"
    BY <1>7 DEF DrainDone, TypeOK, Done
  <2>2. Wired(s)' /\ ~Kept(s)'
    BY <1>1, <2>1 DEF SubInv, Wired, Kept, SameButDrain
  <2>3. (Placed(s, items[s]) /\ Placed(s, queue[s]))'
    BY <1>1, <2>1 DEF SubInv, Placed, SameButDrain
  <2> QED BY <1>4, <2>2, <2>3 DEF SubInv
<1>8. CASE DrainExit(s)
  <2>1. /\ items' = items /\ queue' = queue /\ dpc[s] = "tail" /\ items[s] = << >>
        /\ dpc'[s] = "exited" /\ spc[s] = "detached"
    BY <1>8 DEF DrainExit, TypeOK, queueVars, SubInv, Wired
  <2>2. Wired(s)' /\ ~Kept(s)'
    BY <1>1, <2>1 DEF SubInv, Wired, Kept, SameButDrain
  <2>3. (Placed(s, items[s]) /\ Placed(s, queue[s]))'
    BY <1>1, <2>1 DEF SubInv, Placed, SameButDrain
  <2> QED BY <1>4, <2>2, <2>3 DEF SubInv
<1> QED BY <1>5, <1>6, <1>7, <1>8

LEMMA TailKeeps ==
  ASSUME TypeOK, NEW s \in LosslessSub, SubInv(s), DrainTail(s)
  PROVE  SubInv(s)'
<1>1. /\ SameButDrain(s) /\ dpc[s] = "tail" /\ dpc'[s] = "tail" /\ items[s] # << >>
      /\ items'[s] = Tail(items[s]) /\ queue'[s] = queue[s] /\ fin'[s] = fin[s]
      /\ recv'[s] = recv[s] /\ eof'[s] = eof[s] /\ acked'[s] = acked[s]
      /\ spc[s] = "detached"
  BY SubTypes DEF DrainTail, TypeOK, SameButDrain, turnVars, subVars, readVars, queueVars,
                  SubInv, Wired
<1>2. Sent(s)' \in Nat /\ Sent(s)' >= Sent(s)
  <2>1. Len(out'[s]) \in {Len(out[s]), Len(out[s]) + 1}
    <3>1. Head(items[s]).at \in Nat
      <4>1. Head(items[s]) \in Item
        BY <1>1, SubTypes
      <4> QED BY <4>1 DEF Item
    <3>2. out'[s] = out[s] \/ out'[s] = Append(out[s], Head(items[s]).at)
      BY SubTypes DEF DrainTail, TypeOK
    <3> QED BY <3>1, <3>2, SubTypes
  <2>2. Len(out[s]) \in Nat /\ Len(recv[s]) \in Nat /\ base[s] \in Nat
    BY SubTypes
  <2>3. /\ Sent(s)' = base[s] + Len(recv[s]) + Len(out'[s])
        /\ Sent(s) = base[s] + Len(recv[s]) + Len(out[s])
    BY <1>1 DEF Sent, SameButDrain
  <2> HIDE DEF Sent
  <2> QED BY <2>1, <2>2, <2>3, SMTT(30)
<1>3. Fresh(s)' /\ Acknowledged(s)'
  BY <1>1, <1>2, DrainFrame
<1>4. Wired(s)' /\ ~Kept(s)'
  BY <1>1 DEF SubInv, Wired, Kept, SameButDrain
<1>5. (Placed(s, items[s]) /\ Placed(s, queue[s]))'
  <2>1. Placed(s, Tail(items[s]))
    BY <1>1, PlacedTail, SubTypes DEF SubInv
  <2> QED BY <1>1, <2>1 DEF SubInv, Placed, SameButDrain
<1> QED BY <1>3, <1>4, <1>5 DEF SubInv

LEMMA ConsumeKeeps ==
  ASSUME TypeOK, NEW s \in LosslessSub, SubInv(s), Consume(s)
  PROVE  SubInv(s)'
<1>1. /\ SameButDrain(s) /\ dpc' = dpc /\ items' = items /\ queue' = queue /\ fin' = fin
      /\ acked' = acked
  BY DEF Consume, Receive, ReceiveClosed, SameButDrain, turnVars, subVars, queueVars, drainVars
<1>2. spc[s] # "new"
  BY SubTypes DEF Consume, Receive, ReceiveClosed, Closed, SubInv, Fresh
<1>3. CASE Receive(s)
  <2>1. /\ out[s] # << >> /\ recv'[s] = Append(recv[s], Head(out[s])) /\ out'[s] = Tail(out[s])
        /\ eof'[s] = eof[s]
    BY <1>3, SubTypes DEF Receive, TypeOK
  <2> DEFINE m == Len(out[s])
             n == Len(recv[s])
             b == base[s]
  <2>2. /\ m \in Nat /\ m > 0 /\ n \in Nat /\ b \in Nat
        /\ Len(recv'[s]) = n + 1 /\ recv'[s][n + 1] = out[s][1]
        /\ \A i \in 1..n : recv'[s][i] = recv[s][i]
        /\ Len(out'[s]) = m - 1 /\ \A i \in 1..(m - 1) : out'[s][i] = out[s][i + 1]
    BY <2>1, SubTypes
  <2>3. Sent(s)' = Sent(s) /\ Sent(s) \in Nat
    <3>1. Sent(s)' = b + Len(recv'[s]) + Len(out'[s]) /\ Sent(s) = b + n + m
      BY <1>1 DEF Sent, SameButDrain
    <3> HIDE DEF m, n, b
    <3> QED BY <2>2, <3>1
  <2>4. Fresh(s)' /\ Acknowledged(s)'
    BY <1>1, <1>2, <2>3, DrainFrame
  <2>5. Wired(s)'
    BY <1>1, <2>1 DEF SubInv, Wired, SameButDrain
  <2>6. Kept(s)' => (Continuous(s) /\ Complete(s))'
    BY <1>1, <2>3, SMTT(30) DEF SubInv, Kept, Continuous, Complete, SameButDrain, Chain, EndOf
  <2>7. Kept(s)' => Numbered(s)'
    <3> SUFFICES ASSUME Kept(s) PROVE Numbered(s)'
      BY <1>1 DEF Kept, SameButDrain
    <3>1. /\ \A i \in 1..n : recv[s][i] = b + i
          /\ \A i \in 1..m : out[s][i] = b + n + i
      BY DEF SubInv, Numbered
    <3> HIDE DEF m, n, b
    <3>2. \A i \in 1..(n + 1) : recv'[s][i] = b + i
      <4>1. 1 \in 1..m /\ out[s][1] = b + n + 1
        BY <2>2, <3>1
      <4>2. recv'[s][n + 1] = b + (n + 1)
        BY <2>2, <4>1
      <4>3. \A i \in 1..n : recv'[s][i] = b + i
        BY <2>2, <3>1
      <4> QED BY <2>2, <4>2, <4>3
    <3>3. \A i \in 1..(m - 1) : out'[s][i] = b + (n + 1) + i
      <4> SUFFICES ASSUME NEW i \in 1..(m - 1) PROVE out'[s][i] = b + (n + 1) + i
        OBVIOUS
      <4>1. i \in Nat /\ i + 1 \in 1..m
        BY <2>2
      <4>2. out'[s][i] = out[s][i + 1]
        BY <2>2
      <4>3. out[s][i + 1] = b + n + (i + 1)
        BY <3>1, <4>1
      <4> QED BY <2>2, <4>1, <4>2, <4>3
    <3> QED BY <1>1, <2>2, <3>2, <3>3 DEF SubInv, Numbered, SameButDrain, b
  <2>8. (Placed(s, items[s]) /\ Placed(s, queue[s]))'
    BY <1>1 DEF SubInv, Placed, SameButDrain
  <2> QED BY <2>4, <2>5, <2>6, <2>7, <2>8 DEF SubInv
<1>4. CASE ReceiveClosed(s)
  <2>1. /\ out[s] = << >> /\ out' = out /\ recv' = recv /\ dpc[s] = "exited"
    BY <1>4, SubTypes DEF ReceiveClosed, Closed
  <2>2. Sent(s)' = Sent(s) /\ Sent(s) \in Nat
    BY <1>1, <2>1, SubTypes DEF Sent, SameButDrain
  <2>3. Fresh(s)' /\ Acknowledged(s)'
    BY <1>1, <1>2, <2>2, DrainFrame
  <2>4. Wired(s)'
    BY <1>1, <2>1 DEF SubInv, Wired, SameButDrain
  <2>5. Kept(s)' => (Continuous(s) /\ Complete(s) /\ Numbered(s))'
    BY <1>1, <2>1, <2>2, ZenonT(40)
       DEF SubInv, Kept, Continuous, Complete, Numbered, SameButDrain, Chain, EndOf
  <2>6. (Placed(s, items[s]) /\ Placed(s, queue[s]))'
    BY <1>1 DEF SubInv, Placed, SameButDrain
  <2> QED BY <2>3, <2>4, <2>5, <2>6 DEF SubInv
<1> QED BY <1>3, <1>4 DEF Consume
-----------------------------------------------------------------------------
(* The invariant and the three theorems. *)

Delivery == \A s \in LosslessSub : SubInv(s)

(* Every step of another subscriber, and every step of a turn but Publish,  *)
(* leaves a subscriber alone.                                              *)
LEMMA OthersKeep ==
  ASSUME TypeOK, NEW s \in LosslessSub,
         \/ \E r \in LossySub : Attach(r) \/ Detach(r)
         \/ \E r \in LosslessSub \ {s} :
               \/ AttachLossless(r) \/ DetachLossless(r) \/ CloseDone(r)
               \/ Finish(r) \/ Barrier(r) \/ Drain(r)
         \/ \E r \in Sub \ {s} : Consume(r)
         \/ TurnStep /\ ~\E t \in Turn : Publish(t)
         \/ UNCHANGED vars
  PROVE  SameSub(s) /\ log' = log
<1> USE SubTypes DEF TypeOK, SameSub, SameButQueue, turnVars, subVars, drainVars, queueVars,
                     readVars
<1>1. ASSUME NEW r \in LossySub, Attach(r) \/ Detach(r)
      PROVE  SameSub(s) /\ log' = log
  <2>1. r # s /\ s \in Sub
    BY SubTypes
  <2>2. CASE Attach(r)
    BY <2>1, <2>2 DEF Attach, Snapshot
  <2>3. CASE Detach(r)
    BY <2>1, <2>3 DEF Detach
  <2> QED BY <1>1, <2>2, <2>3
<1>2. ASSUME NEW r \in LosslessSub, r # s,
             \/ AttachLossless(r) \/ DetachLossless(r) \/ CloseDone(r)
             \/ Finish(r) \/ Barrier(r)
      PROVE  SameSub(s) /\ log' = log
  BY <1>2, ZenonT(40) DEF AttachLossless, Snapshot, DetachLossless, CloseDone, Finish, Barrier
<1>3. ASSUME NEW r \in LosslessSub, r # s, Drain(r) PROVE SameSub(s) /\ log' = log
  BY <1>3, ZenonT(40) DEF Drain, DrainTake, DrainForward, DrainAck, DrainAbort, DrainEnd, DrainDone,
              DrainTail, DrainExit
<1>4. ASSUME NEW r \in Sub, r # s, Consume(r) PROVE SameSub(s) /\ log' = log
  BY <1>4 DEF Consume, Receive, ReceiveClosed
<1>5. ASSUME TurnStep, ~\E t \in Turn : Publish(t) PROVE SameSub(s) /\ log' = log
  BY <1>5 DEF TurnStep, BeginTurn, ReleaseCancel, ReleaseClear, ParentDone, CancelTurn,
              CancelAllTurns, CancelRegistered
<1>6. ASSUME UNCHANGED vars PROVE SameSub(s) /\ log' = log
  BY <1>6 DEF vars
<1> QED BY <1>1, <1>2, <1>3, <1>4, <1>5, <1>6

LEMMA DeliveryStep ==
  TypeOK /\ ReplayIsLiveTurn /\ Delivery /\ [Next]_vars => Delivery'
<1> SUFFICES ASSUME TypeOK, ReplayIsLiveTurn, Delivery, [Next]_vars, NEW s \in LosslessSub
             PROVE  SubInv(s)'
  BY DEF Delivery
<1>1. SubInv(s)
  BY DEF Delivery
<1>2. ASSUME NEW t \in Turn, Publish(t) PROVE SubInv(s)'
  BY <1>1, <1>2, PublishKeeps
<1>3. CASE AttachLossless(s) \/ DetachLossless(s) \/ CloseDone(s) \/ Finish(s) \/ Barrier(s)
  BY <1>1, <1>3, AttachKeeps, EndKeeps, BarrierKeeps
<1>4. CASE Drain(s)
  BY <1>1, <1>4, TakeKeeps, ForwardKeeps, AckKeeps, StopKeeps, TailKeeps DEF Drain
<1>5. CASE Consume(s)
  BY <1>1, <1>5, ConsumeKeeps
<1>6. CASE SameSub(s) /\ log' = log
  BY <1>1, <1>6, SameKeeps
<1> QED BY <1>2, <1>3, <1>4, <1>5, <1>6, OthersKeep DEF Next

THEOREM Delivered == Spec => []Delivery
<1>1. Init => Delivery
  <2> SUFFICES ASSUME Init, NEW s \in LosslessSub PROVE SubInv(s)
    BY DEF Delivery
  <2>1. /\ s \in Sub /\ recv[s] = << >> /\ out[s] = << >> /\ queue[s] = << >>
        /\ items[s] = << >> /\ replay[s] = << >> /\ barrierAt[s] = << >> /\ acked[s] = {}
        /\ base[s] = 0 /\ last[s] = 0 /\ ~finishing[s] /\ ~fin[s] /\ ~eof[s]
        /\ spc[s] = "new" /\ dpc[s] = "select" /\ ~registered[s]
    BY DEF Init, Sub
  <2>2. Sent(s) = 0
    BY <2>1 DEF Sent
  <2> QED BY <2>1, <2>2, ChainEmpty
          DEF SubInv, Fresh, Wired, Continuous, Numbered, Complete, Placed, Acknowledged
<1> QED BY <1>1, DeliveryStep, TypeCorrect, ReplayExact, PTL DEF Spec

(* Nothing is lost, doubled or reordered on the way to a lossless           *)
(* subscriber that is not detached.                                        *)
THEOREM NothingLost == Spec => []LosslessDelivery
<1>1. TypeOK /\ Delivery => LosslessDelivery
  <2> SUFFICES ASSUME TypeOK, Delivery, NEW s \in LosslessSub, spc[s] = "open"
               PROVE  LET seen == replay[s] \o recv[s] \o out[s] IN
                      /\ \A i \in 1..Len(seen) : seen[i] = base[s] - Len(replay[s]) + i
                      /\ Continuous(s)
                      /\ ~finishing[s] => last[s] = Len(log[sconv[s]])
    BY DEF LosslessDelivery
  <2>1. SubInv(s) /\ Kept(s)
    BY DEF Delivery, Kept
  <2>2. Continuous(s) /\ (~finishing[s] => last[s] = Len(log[sconv[s]]))
    BY <2>1 DEF SubInv, Wired
  <2> DEFINE r == replay[s]
             v == recv[s]
             o == out[s]
             b == base[s]
             seen == r \o v \o o
  <2>3. /\ \A i \in 1..Len(r) : r[i] = b - Len(r) + i
        /\ \A i \in 1..Len(v) : v[i] = b + i
        /\ \A i \in 1..Len(o) : o[i] = b + Len(v) + i
    BY <2>1 DEF SubInv, Numbered
  <2>4. r \in Seq(Nat) /\ v \in Seq(Nat) /\ o \in Seq(Nat) /\ b \in Nat
    BY SubTypes
  <2> HIDE DEF r, v, o, b
  <2>5. ASSUME NEW i \in 1..Len(seen) PROVE seen[i] = b - Len(r) + i
    <3>1. Len(seen) = Len(r) + Len(v) + Len(o)
      BY <2>4
    <3>2. CASE i <= Len(r)
      <4>1. seen[i] = r[i]
        BY <2>4, <3>1, <3>2
      <4> QED BY <2>3, <2>4, <3>2, <4>1
    <3>3. CASE i > Len(r) /\ i <= Len(r) + Len(v)
      <4>1. seen[i] = v[i - Len(r)] /\ i - Len(r) \in 1..Len(v)
        BY <2>4, <3>1, <3>3
      <4> QED BY <2>3, <2>4, <3>3, <4>1
    <3>4. CASE i > Len(r) + Len(v)
      <4>1. seen[i] = o[i - (Len(r) + Len(v))] /\ i - (Len(r) + Len(v)) \in 1..Len(o)
        BY <2>4, <3>1, <3>4
      <4> QED BY <2>3, <2>4, <3>4, <4>1
    <3>5. i \in Nat /\ Len(r) \in Nat /\ Len(v) \in Nat
      BY <2>4, <3>1
    <3>6. i <= Len(r) \/ (i > Len(r) /\ i <= Len(r) + Len(v)) \/ i > Len(r) + Len(v)
      BY <3>5
    <3> QED BY <3>2, <3>3, <3>4, <3>6
  <2> QED BY <2>2, <2>5 DEF r, v, o, b
<1> QED BY <1>1, Delivered, TypeCorrect, PTL

(* When a barrier is closed, the events before it are in the channel. *)
THEOREM BarrierIsFence == Spec => []BarrierFence
<1>1. TypeOK /\ Delivery => BarrierFence
  <2> SUFFICES ASSUME TypeOK, Delivery, NEW s \in LosslessSub, NEW k \in acked[s]
               PROVE  Len(recv[s]) + Len(out[s]) >= barrierAt[s][k] - base[s]
    BY DEF BarrierFence
  <2>1. k \in 1..Len(barrierAt[s]) /\ barrierAt[s][k] <= base[s] + Len(recv[s]) + Len(out[s])
    BY DEF Delivery, SubInv, Acknowledged, Sent
  <2>2. /\ barrierAt[s][k] \in Nat /\ base[s] \in Nat
        /\ Len(recv[s]) \in Nat /\ Len(out[s]) \in Nat
    BY <2>1, SubTypes, SMTT(30)
  <2> DEFINE at == barrierAt[s][k]
             b == base[s]
             n == Len(recv[s])
             m == Len(out[s])
  <2>3. at <= b + n + m /\ at \in Nat /\ b \in Nat /\ n \in Nat /\ m \in Nat
    BY <2>1, <2>2
  <2> HIDE DEF at, b, n, m
  <2>4. n + m >= at - b
    BY <2>3
  <2> QED BY <2>4 DEF at, b, n, m
<1> QED BY <1>1, Delivered, TypeCorrect, PTL

(* A consumer that gets to the end after finish has everything. *)
THEOREM FinishIsComplete == Spec => []FinishDeliversAll
<1>1. TypeOK /\ Delivery => FinishDeliversAll
  <2> SUFFICES ASSUME TypeOK, Delivery, NEW s \in LosslessSub, spc[s] = "open", eof[s]
               PROVE  finishing[s] /\ base[s] + Len(recv[s]) = last[s]
    BY DEF FinishDeliversAll
  <2>1. /\ fin[s] /\ finishing[s] /\ out[s] = << >> /\ items[s] = << >>
        /\ EndOf(Sent(s), items[s]) = last[s]
    BY DEF Delivery, SubInv, Wired, Kept, Complete
  <2>2. Sent(s) = last[s]
    BY <2>1, SubTypes, ChainEmpty
  <2> QED BY <2>1, <2>2, SubTypes DEF Sent
<1> QED BY <1>1, Delivered, TypeCorrect, PTL

-----------------------------------------------------------------------------
(* The refinement of EventFeed *)

Rising(lo, q, hi) ==
    /\ \A i \in 1..Len(q) : lo < q[i] /\ q[i] <= hi
    /\ \A i, j \in 1..Len(q) : i < j => q[i] < q[j]

(* The events of q, its barriers left aside. *)
EventsRise(lo, q, hi) ==
    /\ \A i \in 1..Len(q) : q[i].barrier = 0 => lo < q[i].at /\ q[i].at <= hi
    /\ \A i, j \in 1..Len(q) :
          i < j /\ q[i].barrier = 0 /\ q[j].barrier = 0 => q[i].at < q[j].at

(* What a subscriber is handed comes in the order of the log whatever       *)
(* becomes of it, also when its channel is closed under the drain          *)
(* goroutine and part of the queue is dropped: up to a it was read, up to  *)
(* b it is in the channel, up to c in the drain goroutine's batch.         *)
Stages(s, a, b, c) ==
    /\ base[s] <= a /\ a <= b /\ b <= c /\ c <= last[s]
    /\ \A i \in 1..Len(recv[s]) : recv[s][i] <= a
    /\ Rising(a, out[s], b)
    /\ EventsRise(b, items[s], c)
    /\ EventsRise(c, queue[s], last[s])

Ordered(s) ==
    /\ last[s] <= Len(log[sconv[s]])
    /\ \A i \in 1..Len(replay[s]) : replay[s][i] <= base[s]
    /\ \E a, b, c \in 0..last[s] : Stages(s, a, b, c)

InLogOrder == \A s \in LosslessSub : Ordered(s)

LEMMA RisingAppend ==
  ASSUME NEW q \in Seq(Nat), NEW lo \in Nat, NEW hi \in Nat, NEW x \in Nat,
         Rising(lo, q, hi), lo <= hi, hi < x
  PROVE  Rising(lo, Append(q, x), x)
<1> DEFINE r == Append(q, x)
<1>1. /\ Len(r) = Len(q) + 1 /\ Len(q) \in Nat /\ r[Len(q) + 1] = x
      /\ \A i \in 1..Len(q) : r[i] = q[i] /\ q[i] \in Nat
  OBVIOUS
<1> HIDE DEF r
<1>2. \A i \in 1..Len(q) : lo < q[i] /\ q[i] < x
  BY <1>1 DEF Rising
<1>3. \A i \in 1..Len(r) : lo < r[i] /\ r[i] <= x
  <2> SUFFICES ASSUME NEW i \in 1..Len(r) PROVE lo < r[i] /\ r[i] <= x
    OBVIOUS
  <2>1. CASE i \in 1..Len(q)
    BY <1>1, <1>2, <2>1
  <2>2. CASE i = Len(q) + 1
    BY <1>1, <2>2
  <2> QED BY <1>1, <2>1, <2>2
<1>4. \A i, j \in 1..Len(r) : i < j => r[i] < r[j]
  <2> SUFFICES ASSUME NEW i \in 1..Len(r), NEW j \in 1..Len(r), i < j PROVE r[i] < r[j]
    OBVIOUS
  <2>1. i \in 1..Len(q) /\ (j \in 1..Len(q) \/ j = Len(q) + 1)
    BY <1>1
  <2>2. CASE j \in 1..Len(q)
    <3>1. q[i] < q[j]
      BY <2>1, <2>2 DEF Rising
    <3> QED BY <1>1, <2>1, <2>2, <3>1
  <2>3. CASE j = Len(q) + 1
    BY <1>1, <1>2, <2>1, <2>3
  <2> QED BY <2>1, <2>2, <2>3
<1> QED BY <1>3, <1>4 DEF Rising, r

LEMMA RisingTail ==
  ASSUME NEW q \in Seq(Nat), NEW lo \in Nat, NEW hi \in Nat, Rising(lo, q, hi), q # << >>
  PROVE  /\ Head(q) \in Nat /\ lo < Head(q) /\ Head(q) <= hi
         /\ Rising(Head(q), Tail(q), hi)
<1> DEFINE r == Tail(q)
<1>1. /\ Len(r) = Len(q) - 1 /\ Len(q) \in Nat /\ 1 \in 1..Len(q) /\ Head(q) = q[1]
      /\ q[1] \in Nat
      /\ \A i \in 1..Len(r) : r[i] = q[i + 1] /\ i + 1 \in 1..Len(q)
  OBVIOUS
<1> HIDE DEF r
<1>2. lo < q[1] /\ q[1] <= hi
  BY <1>1 DEF Rising
<1>3. ASSUME NEW i \in 1..Len(r) PROVE q[1] < r[i] /\ r[i] <= hi
  <2>1. r[i] = q[i + 1] /\ i + 1 \in 1..Len(q) /\ 1 < i + 1
    BY <1>1
  <2>2. q[1] < q[i + 1] /\ q[i + 1] <= hi
    BY <1>1, <2>1 DEF Rising
  <2> QED BY <2>1, <2>2
<1>4. ASSUME NEW i \in 1..Len(r), NEW j \in 1..Len(r), i < j PROVE r[i] < r[j]
  <2>1. r[i] = q[i + 1] /\ i + 1 \in 1..Len(q) /\ r[j] = q[j + 1] /\ j + 1 \in 1..Len(q)
    BY <1>1
  <2>2. i + 1 < j + 1
    BY <1>1, <1>4
  <2>3. q[i + 1] < q[j + 1]
    BY <2>1, <2>2 DEF Rising
  <2> QED BY <2>1, <2>3
<1> QED BY <1>1, <1>2, <1>3, <1>4 DEF Rising, r

LEMMA EventsTail ==
  ASSUME NEW q \in Seq(Item), NEW lo \in Nat, NEW hi \in Nat, EventsRise(lo, q, hi),
         q # << >>
  PROVE  /\ Head(q) \in Item /\ Tail(q) \in Seq(Item)
         /\ EventsRise(lo, Tail(q), hi)
         /\ Head(q).barrier = 0 =>
               /\ lo < Head(q).at /\ Head(q).at <= hi
               /\ EventsRise(Head(q).at, Tail(q), hi)
<1> DEFINE r == Tail(q)
<1>1. /\ Len(r) = Len(q) - 1 /\ Len(q) \in Nat /\ 1 \in 1..Len(q) /\ Head(q) = q[1]
      /\ q[1] \in Item /\ r \in Seq(Item)
      /\ \A i \in 1..Len(r) : r[i] = q[i + 1] /\ i + 1 \in 1..Len(q)
  OBVIOUS
<1> HIDE DEF r
<1>2. q[1].barrier = 0 => lo < q[1].at /\ q[1].at <= hi
  BY <1>1 DEF EventsRise
<1>3. ASSUME NEW i \in 1..Len(r), r[i].barrier = 0
      PROVE  lo < r[i].at /\ r[i].at <= hi /\ (q[1].barrier = 0 => q[1].at < r[i].at)
  <2>1. r[i] = q[i + 1] /\ i + 1 \in 1..Len(q) /\ 1 < i + 1
    BY <1>1
  <2>2. lo < q[i + 1].at /\ q[i + 1].at <= hi /\ (q[1].barrier = 0 => q[1].at < q[i + 1].at)
    BY <1>1, <1>3, <2>1 DEF EventsRise
  <2> QED BY <2>1, <2>2
<1>4. ASSUME NEW i \in 1..Len(r), NEW j \in 1..Len(r), i < j,
             r[i].barrier = 0, r[j].barrier = 0
      PROVE  r[i].at < r[j].at
  <2>1. r[i] = q[i + 1] /\ i + 1 \in 1..Len(q) /\ r[j] = q[j + 1] /\ j + 1 \in 1..Len(q)
    BY <1>1
  <2>2. i + 1 < j + 1
    BY <1>1, <1>4
  <2>3. q[i + 1].at < q[j + 1].at
    BY <1>4, <2>1, <2>2 DEF EventsRise
  <2> QED BY <2>1, <2>3
<1> QED BY <1>1, <1>2, <1>3, <1>4 DEF EventsRise, r

LEMMA EventsAppend ==
  ASSUME NEW q \in Seq(Item), NEW lo \in Nat, NEW hi \in Nat, NEW x \in Item, NEW top \in Nat,
         EventsRise(lo, q, hi), lo <= hi, hi <= top,
         x.barrier = 0 => hi < x.at /\ x.at <= top
  PROVE  EventsRise(lo, Append(q, x), top)
<1> DEFINE r == Append(q, x)
<1>1. /\ Len(r) = Len(q) + 1 /\ Len(q) \in Nat /\ r[Len(q) + 1] = x
      /\ \A i \in 1..Len(q) : r[i] = q[i] /\ q[i] \in Item
  OBVIOUS
<1>0. x.at \in Nat /\ \A i \in 1..Len(q) : q[i].at \in Nat
  BY <1>1 DEF Item
<1> HIDE DEF r
<1>2. \A i \in 1..Len(q) : q[i].barrier = 0 => lo < q[i].at /\ q[i].at <= hi
  BY DEF EventsRise
<1>3. ASSUME NEW i \in 1..Len(r), r[i].barrier = 0 PROVE lo < r[i].at /\ r[i].at <= top
  <2>1. CASE i \in 1..Len(q)
    BY <1>0, <1>1, <1>2, <1>3, <2>1
  <2>2. CASE i = Len(q) + 1
    BY <1>0, <1>1, <1>3, <2>2
  <2> QED BY <1>1, <2>1, <2>2
<1>4. ASSUME NEW i \in 1..Len(r), NEW j \in 1..Len(r), i < j,
             r[i].barrier = 0, r[j].barrier = 0
      PROVE  r[i].at < r[j].at
  <2>1. i \in 1..Len(q) /\ (j \in 1..Len(q) \/ j = Len(q) + 1)
    BY <1>1, <1>4
  <2>2. CASE j \in 1..Len(q)
    <3>1. q[i].at < q[j].at
      BY <1>1, <1>4, <2>1, <2>2 DEF EventsRise
    <3> QED BY <1>1, <2>1, <2>2, <3>1
  <2>3. CASE j = Len(q) + 1
    <3>1. q[i].at <= hi /\ hi < x.at
      BY <1>1, <1>2, <1>4, <2>1, <2>3
    <3> QED BY <1>0, <1>1, <2>1, <2>3, <3>1
  <2> QED BY <2>1, <2>2, <2>3
<1> QED BY <1>3, <1>4 DEF EventsRise, r

LEMMA EventsNone ==
  ASSUME NEW lo, NEW hi
  PROVE  EventsRise(lo, << >>, hi)
  BY DEF EventsRise

(* Moving the bounds outwards. *)
LEMMA EventsWiden ==
  ASSUME NEW q \in Seq(Item), NEW lo \in Nat, NEW hi \in Nat, NEW lo2 \in Nat, NEW hi2 \in Nat,
         EventsRise(lo, q, hi), lo2 <= lo, hi <= hi2
  PROVE  EventsRise(lo2, q, hi2)
<1>1. ASSUME NEW i \in 1..Len(q) PROVE q[i].at \in Nat
  <2>1. q[i] \in Item
    OBVIOUS
  <2> QED BY <2>1 DEF Item
<1>2. ASSUME NEW i \in 1..Len(q), q[i].barrier = 0 PROVE lo2 < q[i].at /\ q[i].at <= hi2
  <2>1. lo < q[i].at /\ q[i].at <= hi /\ q[i].at \in Nat
    BY <1>1, <1>2 DEF EventsRise
  <2> QED BY <2>1
<1> QED BY <1>2 DEF EventsRise

(* What the drain goroutine and the consumer have to show.                  *)
LEMMA OrderByDrain ==
  ASSUME TypeOK, NEW s \in LosslessSub, SameButDrain(s), Ordered(s),
         \E a, b, c \in 0..last[s] :
            /\ base[s] <= a /\ a <= b /\ b <= c
            /\ \A i \in 1..Len(recv'[s]) : recv'[s][i] <= a
            /\ Rising(a, out'[s], b)
            /\ EventsRise(b, items'[s], c)
            /\ EventsRise(c, queue'[s], last[s])
  PROVE  Ordered(s)'
<1>1. last[s] \in Nat
  BY SubTypes
<1>2. PICK a \in 0..last[s], b \in 0..last[s], c \in 0..last[s] :
            /\ base[s] <= a /\ a <= b /\ b <= c
            /\ \A i \in 1..Len(recv'[s]) : recv'[s][i] <= a
            /\ Rising(a, out'[s], b)
            /\ EventsRise(b, items'[s], c)
            /\ EventsRise(c, queue'[s], last[s])
  OBVIOUS
<1>3. Stages(s, a, b, c)'
  BY <1>1, <1>2 DEF Stages, SameButDrain, Rising, EventsRise
<1>4. (last[s] <= Len(log[sconv[s]]))'
      /\ (\A i \in 1..Len(replay[s]) : replay[s][i] <= base[s])'
  BY DEF SameButDrain, Ordered
<1> QED BY <1>3, <1>4 DEF Ordered, SameButDrain

LEMMA OrderTake ==
  ASSUME TypeOK, NEW s \in LosslessSub, SubInv(s), Ordered(s), DrainTake(s) \/ DrainDone(s)
  PROVE  Ordered(s)'
<1>1. /\ SameButDrain(s) /\ dpc[s] = "select" /\ items'[s] = queue[s] /\ queue'[s] = << >>
      /\ out'[s] = out[s] /\ recv'[s] = recv[s]
  BY DEF DrainTake, DrainDone, TypeOK, SameButDrain, turnVars, subVars, readVars
<1>2. PICK a \in 0..last[s], b \in 0..last[s], c \in 0..last[s] : Stages(s, a, b, c)
  BY DEF Ordered
<1>3. /\ a \in Nat /\ b \in Nat /\ c \in Nat /\ last[s] \in Nat /\ queue[s] \in Seq(Item)
      /\ base[s] \in Nat
  BY SubTypes
<1>4. EventsRise(b, items'[s], last[s])
  BY <1>1, <1>2, <1>3, EventsWiden DEF Stages
<1>5. EventsRise(last[s], queue'[s], last[s])
  BY <1>1, EventsNone
<1>6. last[s] \in 0..last[s] /\ base[s] <= a /\ a <= b /\ b <= last[s]
  BY <1>2, <1>3 DEF Stages
<1>7. (\A i \in 1..Len(recv'[s]) : recv'[s][i] <= a) /\ Rising(a, out'[s], b)
  BY <1>1, <1>2 DEF Stages
<1> QED BY <1>1, <1>4, <1>5, <1>6, <1>7, OrderByDrain

LEMMA OrderForward ==
  ASSUME TypeOK, NEW s \in LosslessSub, Ordered(s),
         DrainForward(s) \/ DrainAck(s) \/ DrainTail(s)
  PROVE  Ordered(s)'
<1> DEFINE h == Head(items[s])
<1>1. /\ SameButDrain(s) /\ items[s] # << >> /\ items'[s] = Tail(items[s])
      /\ queue'[s] = queue[s] /\ recv'[s] = recv[s]
      /\ out'[s] = out[s] \/ (h.barrier = 0 /\ out'[s] = Append(out[s], h.at))
  <2>1. SameButDrain(s) /\ queue'[s] = queue[s] /\ recv'[s] = recv[s] /\ items[s] # << >>
    BY DEF DrainForward, DrainAck, DrainTail, SameButDrain, turnVars, subVars, readVars,
           queueVars
  <2>2. items'[s] = Tail(items[s])
    BY DEF DrainForward, DrainAck, DrainTail, TypeOK
  <2>3. out'[s] = out[s] \/ (h.barrier = 0 /\ out'[s] = Append(out[s], h.at))
    <3>1. s \in Sub /\ out \in [Sub -> Seq(Nat)]
      BY SubTypes DEF TypeOK
    <3>2. CASE DrainForward(s)
      BY <3>1, <3>2 DEF DrainForward
    <3>3. CASE DrainAck(s)
      BY <3>3 DEF DrainAck
    <3>4. CASE DrainTail(s)
      BY <3>1, <3>4 DEF DrainTail
    <3> QED BY <3>2, <3>3, <3>4
  <2> QED BY <2>1, <2>2, <2>3
<1>2. PICK a \in 0..last[s], b \in 0..last[s], c \in 0..last[s] : Stages(s, a, b, c)
  BY DEF Ordered
<1>3. /\ a \in Nat /\ b \in Nat /\ c \in Nat /\ last[s] \in Nat /\ items[s] \in Seq(Item)
      /\ out[s] \in Seq(Nat) /\ base[s] \in Nat
  BY SubTypes
<1>4. /\ h \in Item /\ EventsRise(b, Tail(items[s]), c)
      /\ h.barrier = 0 => b < h.at /\ h.at <= c /\ EventsRise(h.at, Tail(items[s]), c)
  BY <1>1, <1>2, <1>3, EventsTail DEF Stages
<1>5. h.at \in Nat
  BY <1>4 DEF Item
<1>6. base[s] <= a /\ a <= b /\ b <= c /\ c <= last[s]
  BY <1>2 DEF Stages
<1>7. /\ \A i \in 1..Len(recv'[s]) : recv'[s][i] <= a
      /\ EventsRise(c, queue'[s], last[s])
  BY <1>1, <1>2 DEF Stages
<1>8. CASE out'[s] = out[s]
  <2>1. Rising(a, out'[s], b) /\ EventsRise(b, items'[s], c)
    BY <1>1, <1>2, <1>4, <1>8 DEF Stages
  <2> QED BY <1>1, <1>6, <1>7, <2>1, OrderByDrain
<1>9. CASE h.barrier = 0 /\ out'[s] = Append(out[s], h.at)
  <2> HIDE DEF h
  <2>1. Rising(a, out[s], b)
    BY <1>2 DEF Stages
  <2>2. b < h.at
    BY <1>4, <1>9
  <2>3. Rising(a, Append(out[s], h.at), h.at)
    BY <1>3, <1>5, <1>6, <2>1, <2>2, RisingAppend
  <2>4. h.at \in 0..last[s] /\ a <= h.at /\ h.at <= c
    BY <1>3, <1>4, <1>5, <1>6, <1>9
  <2>5. EventsRise(h.at, items'[s], c)
    BY <1>1, <1>4, <1>9
  <2> QED BY <1>1, <1>6, <1>7, <1>9, <2>3, <2>4, <2>5, OrderByDrain
<1> QED BY <1>1, <1>8, <1>9

LEMMA OrderRead ==
  ASSUME TypeOK, NEW s \in LosslessSub, Ordered(s), Consume(s)
  PROVE  Ordered(s)'
<1>1. /\ SameButDrain(s) /\ items'[s] = items[s] /\ queue'[s] = queue[s]
  BY DEF Consume, Receive, ReceiveClosed, SameButDrain, turnVars, subVars, queueVars, drainVars
<1>2. PICK a \in 0..last[s], b \in 0..last[s], c \in 0..last[s] : Stages(s, a, b, c)
  BY DEF Ordered
<1>3. /\ a \in Nat /\ b \in Nat /\ c \in Nat /\ last[s] \in Nat /\ out[s] \in Seq(Nat)
      /\ recv[s] \in Seq(Nat) /\ base[s] \in Nat
  BY SubTypes
<1>4. /\ base[s] <= a /\ a <= b /\ b <= c /\ c <= last[s]
      /\ \A i \in 1..Len(recv[s]) : recv[s][i] <= a
      /\ Rising(a, out[s], b)
      /\ EventsRise(b, items[s], c) /\ EventsRise(c, queue[s], last[s])
  BY <1>2 DEF Stages
<1>5. CASE Receive(s)
  <2> DEFINE h == Head(out[s])
  <2>1. out[s] # << >> /\ recv'[s] = Append(recv[s], h) /\ out'[s] = Tail(out[s])
    BY <1>5, SubTypes DEF Receive, TypeOK
  <2>2. h \in Nat /\ a < h /\ h <= b /\ Rising(h, Tail(out[s]), b)
    BY <1>3, <1>4, <2>1, RisingTail
  <2> HIDE DEF h
  <2>3. /\ Len(recv'[s]) = Len(recv[s]) + 1 /\ Len(recv[s]) \in Nat
        /\ recv'[s][Len(recv[s]) + 1] = h
        /\ \A i \in 1..Len(recv[s]) : recv'[s][i] = recv[s][i] /\ recv[s][i] \in Nat
    <3> DEFINE r == recv[s]
    <3>1. r \in Seq(Nat) /\ recv'[s] = Append(r, h)
      BY <1>3, <2>1
    <3> HIDE DEF r
    <3>2. /\ Len(Append(r, h)) = Len(r) + 1 /\ Len(r) \in Nat
          /\ Append(r, h)[Len(r) + 1] = h
          /\ \A i \in 1..Len(r) : Append(r, h)[i] = r[i] /\ r[i] \in Nat
      BY <2>2, <3>1
    <3> QED BY <3>1, <3>2 DEF r
  <2>4. ASSUME NEW i \in 1..Len(recv'[s]) PROVE recv'[s][i] <= h
    <3>1. CASE i \in 1..Len(recv[s])
      <4>1. recv'[s][i] = recv[s][i] /\ recv[s][i] \in Nat /\ recv[s][i] <= a
        BY <1>4, <2>3, <3>1
      <4> QED BY <1>3, <2>2, <4>1
    <3>2. CASE i = Len(recv[s]) + 1
      BY <2>2, <2>3, <3>2
    <3> QED BY <2>3, <3>1, <3>2
  <2>5. h \in 0..last[s] /\ base[s] <= h /\ h <= b
    BY <1>3, <1>4, <2>2
  <2>6. Rising(h, out'[s], b) /\ EventsRise(b, items'[s], c) /\ EventsRise(c, queue'[s], last[s])
    BY <1>1, <1>4, <2>1, <2>2
  <2> QED BY <1>1, <1>4, <2>4, <2>5, <2>6, OrderByDrain
<1>6. CASE ReceiveClosed(s)
  <2>1. out' = out /\ recv' = recv
    BY <1>6 DEF ReceiveClosed
  <2> QED BY <1>1, <1>4, <2>1, OrderByDrain
<1> QED BY <1>5, <1>6 DEF Consume

(* A subscriber no step touches, while the log may grow. *)
LEMMA OrderRest ==
  ASSUME TypeOK, NEW s \in LosslessSub, Ordered(s),
         base'[s] = base[s], sconv'[s] = sconv[s], replay'[s] = replay[s],
         last'[s] = last[s], recv'[s] = recv[s], out'[s] = out[s],
         items'[s] = items[s], queue'[s] = queue[s],
         Len(log'[sconv[s]]) \in Nat, Len(log[sconv[s]]) <= Len(log'[sconv[s]])
  PROVE  Ordered(s)'
<1>1. PICK a \in 0..last[s], b \in 0..last[s], c \in 0..last[s] : Stages(s, a, b, c)
  BY DEF Ordered
<1>2. Stages(s, a, b, c)'
  BY <1>1 DEF Stages, Rising, EventsRise
<1>3. (last[s] <= Len(log[sconv[s]]))'
  <2>1. last[s] \in Nat /\ Len(log[sconv[s]]) \in Nat
    BY SubTypes, SMTT(30) DEF TypeOK
  <2> QED BY <2>1 DEF Ordered
<1>4. (\A i \in 1..Len(replay[s]) : replay[s][i] <= base[s])'
  BY DEF Ordered
<1> QED BY <1>2, <1>3, <1>4 DEF Ordered

LEMMA OrderAttach ==
  ASSUME TypeOK, ReplayIsLiveTurn, NEW s \in LosslessSub, SubInv(s), AttachLossless(s)
  PROVE  Ordered(s)'
<1>1. /\ s \in Sub /\ sconv[s] \in Conv /\ Len(log[sconv[s]]) \in Nat
      /\ buffer[sconv[s]] \in Seq(Nat)
  BY SubTypes DEF TypeOK
<1> PICK n \in Nat : n = Len(log[sconv[s]])
  BY <1>1
<1> PICK old \in Seq(Nat) : old = buffer[sconv[s]]
  BY <1>1
<1>2. /\ base'[s] = n /\ last'[s] = n /\ replay'[s] = old /\ log' = log
      /\ sconv' = sconv /\ recv'[s] = << >> /\ out'[s] = << >> /\ items'[s] = << >>
      /\ queue'[s] = << >>
  BY <1>1 DEF AttachLossless, Snapshot, TypeOK, turnVars, readVars, drainVars, SubInv, Fresh
<1>3. ASSUME NEW i \in 1..Len(old) PROVE old[i] <= n
  <2>1. Len(old) <= n /\ old[i] = n - Len(old) + i
    BY <1>1 DEF ReplayIsLiveTurn
  <2> QED BY <2>1
<1>4. Stages(s, n, n, n)'
  <2>1. EventsRise(n, << >>, n) /\ Rising(n, << >>, n)
    BY EventsNone DEF Rising
  <2>2. EventsRise(n, items'[s], n) /\ EventsRise(n, queue'[s], last'[s]) /\ Rising(n, out'[s], n)
    BY <1>2, <2>1
  <2>3. \A i \in 1..Len(recv'[s]) : recv'[s][i] <= n
    BY <1>2
  <2> QED BY <1>2, <2>2, <2>3 DEF Stages, Rising, EventsRise
<1>5. last'[s] <= Len(log'[sconv'[s]]) /\ n \in 0..last'[s]
  BY <1>1, <1>2
<1>6. (\A i \in 1..Len(replay[s]) : replay[s][i] <= base[s])'
  BY <1>2, <1>3
<1> QED BY <1>4, <1>5, <1>6 DEF Ordered

(* The next item of the queue: a barrier, or the event just published. *)
LEMMA OrderQueue ==
  ASSUME TypeOK, NEW s \in LosslessSub, Ordered(s), SameButQueue(s), NEW x \in Item,
         queue'[s] = Append(queue[s], x), last'[s] \in Nat, last[s] <= last'[s],
         x.barrier = 0 => last[s] < x.at /\ x.at <= last'[s],
         last'[s] <= Len(log'[sconv[s]])
  PROVE  Ordered(s)'
<1>1. PICK a \in 0..last[s], b \in 0..last[s], c \in 0..last[s] : Stages(s, a, b, c)
  BY DEF Ordered
<1>2. /\ c \in Nat /\ last[s] \in Nat /\ queue[s] \in Seq(Item)
      /\ a \in 0..last'[s] /\ b \in 0..last'[s] /\ c \in 0..last'[s]
  BY SubTypes
<1>3. c <= last[s] /\ EventsRise(c, queue[s], last[s])
  BY <1>1 DEF Stages
<1>4. EventsRise(c, queue'[s], last'[s])
  BY <1>2, <1>3, EventsAppend
<1>5. /\ base[s] <= a /\ a <= b /\ b <= c /\ c <= last'[s]
      /\ \A i \in 1..Len(recv[s]) : recv[s][i] <= a
      /\ Rising(a, out[s], b) /\ EventsRise(b, items[s], c)
  BY <1>1, <1>2 DEF Stages
<1>6. Stages(s, a, b, c)'
  BY <1>4, <1>5 DEF Stages, SameButQueue, Rising, EventsRise
<1>7. (last[s] <= Len(log[sconv[s]]))'
      /\ (\A i \in 1..Len(replay[s]) : replay[s][i] <= base[s])'
  BY DEF SameButQueue, Ordered
<1> QED BY <1>2, <1>6, <1>7 DEF Ordered

LEMMA OrderPublish ==
  ASSUME TypeOK, NEW s \in LosslessSub, SubInv(s), Ordered(s), NEW t \in Turn, Publish(t)
  PROVE  Ordered(s)'
<1> DEFINE c == sconv[s]
           e == Len(log[c]) + 1
           x == [at |-> e, barrier |-> 0]
<1>1. /\ SameButQueue(s) /\ log[c] \in Seq(Nat) /\ Len(log[c]) \in Nat /\ c \in Conv
  <2>1. s \in Sub /\ s \notin LossySub /\ c \in Conv
    BY SubTypes
  <2> QED BY <2>1 DEF Publish, TypeOK, SameButQueue, subVars, readVars, drainVars
<1>2. log'[c] = log[c] \/ log'[c] = Append(log[c], tgen[t])
  BY <1>1 DEF Publish, TypeOK
<1>3. Len(log'[c]) \in Nat /\ Len(log[c]) <= Len(log'[c])
  <2>1. tgen[t] \in Nat
    BY DEF TypeOK
  <2> QED BY <1>1, <1>2, <2>1
<1>4. CASE registered[s] /\ c = tconv[t]
  <2>1. /\ queue'[s] = Append(queue[s], x) /\ last'[s] = e
        /\ log'[c] = Append(log[c], tgen[t])
    BY <1>1, <1>4 DEF Publish, TypeOK
  <2>2. Len(log'[c]) = e
    <3>1. tgen[t] \in Nat
      BY DEF TypeOK
    <3> QED BY <1>1, <2>1, <3>1
  <2>3. x \in Item /\ x.at = e /\ e \in Nat
    BY <1>1 DEF Item
  <2>4. last[s] < e /\ last[s] \in Nat
    BY <1>1, SubTypes DEF Ordered
  <2> HIDE DEF x, e, c
  <2>5. last[s] <= e /\ e <= e
    BY <2>3, <2>4
  <2> QED BY <1>1, <2>1, <2>2, <2>3, <2>4, <2>5, OrderQueue DEF c
<1>5. CASE ~(registered[s] /\ c = tconv[t])
  <2>1. queue'[s] = queue[s] /\ last'[s] = last[s]
    BY <1>5 DEF Publish, TypeOK
  <2> QED BY <1>1, <1>3, <2>1, OrderRest DEF SameButQueue
<1> QED BY <1>4, <1>5

LEMMA OrderBarrier ==
  ASSUME TypeOK, NEW s \in LosslessSub, Ordered(s), Barrier(s)
  PROVE  Ordered(s)'
<1> DEFINE b == Len(barrierAt[s]) + 1
           x == [at |-> last[s], barrier |-> b]
<1>1. /\ SameButQueue(s) /\ queue'[s] = Append(queue[s], x) /\ last'[s] = last[s]
      /\ log' = log
  BY SubTypes DEF Barrier, TypeOK, SameButQueue, turnVars, subVars, readVars, drainVars
<1>2. x \in Item /\ x.barrier # 0 /\ last[s] \in Nat
  <2>1. b \in Nat /\ b # 0 /\ last[s] \in Nat
    BY SubTypes
  <2> HIDE DEF b
  <2> QED BY <2>1 DEF Item
<1> HIDE DEF x, b
<1>3. last[s] <= last[s] /\ last[s] <= Len(log[sconv[s]])
  BY <1>2 DEF Ordered
<1> QED BY <1>1, <1>2, <1>3, OrderQueue

LEMMA OrderStep ==
  TypeOK /\ ReplayIsLiveTurn /\ Delivery /\ InLogOrder /\ [Next]_vars => InLogOrder'
<1> SUFFICES ASSUME TypeOK, ReplayIsLiveTurn, Delivery, InLogOrder, [Next]_vars,
                    NEW s \in LosslessSub
             PROVE  Ordered(s)'
  BY DEF InLogOrder
<1>1. SubInv(s) /\ Ordered(s)
  BY DEF Delivery, InLogOrder
<1>2. ASSUME NEW t \in Turn, Publish(t) PROVE Ordered(s)'
  BY <1>1, <1>2, OrderPublish
<1>3. CASE AttachLossless(s) \/ Barrier(s)
  BY <1>1, <1>3, OrderAttach, OrderBarrier
<1>4. CASE \/ DetachLossless(s) \/ CloseDone(s) \/ Finish(s)
           \/ DrainAbort(s) \/ DrainEnd(s) \/ DrainExit(s)
  <2>1. Len(log[sconv[s]]) \in Nat
    BY SubTypes DEF TypeOK
  <2>2. CASE DetachLossless(s) \/ CloseDone(s) \/ Finish(s)
    BY <1>1, <2>1, <2>2, OrderRest
       DEF DetachLossless, CloseDone, Finish, turnVars, readVars, queueVars, drainVars
  <2>3. CASE DrainEnd(s) \/ DrainExit(s)
    BY <1>1, <2>1, <2>3, OrderRest
       DEF DrainEnd, DrainExit, turnVars, subVars, readVars, queueVars
  <2>4. CASE DrainAbort(s)
    <3>1. /\ SameButDrain(s) /\ items'[s] = << >> /\ queue' = queue /\ out' = out
          /\ recv' = recv
      BY <2>4 DEF DrainAbort, TypeOK, SameButDrain, turnVars, subVars, readVars, queueVars
    <3>2. PICK a \in 0..last[s], b \in 0..last[s], c \in 0..last[s] : Stages(s, a, b, c)
      BY <1>1 DEF Ordered
    <3>3. EventsRise(b, items'[s], c)
      BY <3>1, EventsNone
    <3>4. /\ base[s] <= a /\ a <= b /\ b <= c
          /\ \A i \in 1..Len(recv'[s]) : recv'[s][i] <= a
          /\ Rising(a, out'[s], b) /\ EventsRise(c, queue'[s], last[s])
      BY <3>1, <3>2 DEF Stages
    <3> QED BY <1>1, <3>1, <3>3, <3>4, OrderByDrain
  <2> QED BY <1>4, <2>2, <2>3, <2>4
<1>5. CASE DrainTake(s) \/ DrainForward(s) \/ DrainAck(s) \/ DrainDone(s) \/ DrainTail(s)
  BY <1>1, <1>5, OrderTake, OrderForward
<1>6. CASE Consume(s)
  BY <1>1, <1>6, OrderRead
<1>7. CASE SameSub(s) /\ log' = log
  <2>1. Len(log[sconv[s]]) \in Nat
    BY SubTypes DEF TypeOK
  <2> QED BY <1>1, <1>7, <2>1, OrderRest DEF SameSub, SameButQueue
<1> QED BY <1>2, <1>3, <1>4, <1>5, <1>6, <1>7, OthersKeep DEF Next, Drain

(* Every event a lossless subscriber is handed comes after those it has.    *)
THEOREM HandedInOrder == Spec => []InLogOrder
<1>1. Init => InLogOrder
  <2> SUFFICES ASSUME Init, NEW s \in LosslessSub PROVE Ordered(s)
    BY DEF InLogOrder
  <2>1. /\ s \in Sub /\ sconv[s] \in Conv /\ recv[s] = << >> /\ out[s] = << >>
        /\ queue[s] = << >> /\ items[s] = << >> /\ replay[s] = << >> /\ base[s] = 0
        /\ last[s] = 0 /\ log[sconv[s]] = << >>
    BY DEF Init, Sub
  <2>2. Stages(s, 0, 0, 0)
    BY <2>1, EventsNone DEF Stages, Rising
  <2>3. 0 \in 0..last[s]
    BY <2>1
  <2> QED BY <2>1, <2>2, <2>3 DEF Ordered
<1> QED BY <1>1, OrderStep, TypeCorrect, ReplayExact, Delivered, PTL DEF Spec

(* The feed's view of a subscriber. *)
LEMMA PhaseIs ==
  ASSUME TypeOK, NEW s \in LosslessSub
  PROVE  /\ spc[s] \in {"new", "open", "detaching", "detached"}
         /\ spc[s] = "new" => FeedPhase(s) = "out"
         /\ spc[s] \in {"detaching", "detached"} => FeedPhase(s) = "left"
         /\ spc[s] = "open" /\ ~finishing[s] => FeedPhase(s) = "in"
         /\ spc[s] = "open" /\ finishing[s] /\ ~eof[s] => FeedPhase(s) = "sealed"
         /\ spc[s] = "open" /\ finishing[s] /\ eof[s] => FeedPhase(s) = "ended"
<1>1. spc[s] \in {"new", "open", "detaching", "detached"}
  BY SubTypes DEF TypeOK
<1> QED BY <1>1 DEF FeedPhase

SameView(s) ==
    /\ sconv'[s] = sconv[s] /\ FeedPhase(s)' = FeedPhase(s)
    /\ FeedFrom(s)' = FeedFrom(s) /\ FeedUpto(s)' = FeedUpto(s)
    /\ FeedSeen(s)' = FeedSeen(s)

LEMMA ViewKept ==
  ASSUME NEW s \in LosslessSub,
         spc'[s] = spc[s], sconv'[s] = sconv[s], replay'[s] = replay[s], base'[s] = base[s],
         recv'[s] = recv[s], finishing'[s] = finishing[s], eof'[s] = eof[s],
         finishing[s] => last'[s] = last[s]
  PROVE  SameView(s)
  BY DEF SameView, FeedPhase, FeedFrom, FeedUpto, FeedSeen

LEMMA FeedStutter ==
  ASSUME \A s \in LosslessSub : SameView(s), gen' = gen, log' = log
  PROVE  UNCHANGED Feed!feedVars
  BY DEF SameView, Feed!feedVars

(* A step of a turn: the log moves on, no reader does. *)
LEMMA FeedTurn ==
  ASSUME TypeOK, Delivery, TurnStep
  PROVE  Feed!Next \/ UNCHANGED Feed!feedVars
<1>1. \A s \in LosslessSub : SameView(s)
  <2> SUFFICES ASSUME NEW s \in LosslessSub PROVE SameView(s)
    OBVIOUS
  <2>1. CASE \E t \in Turn : Publish(t)
    <3>1. PICK t \in Turn : Publish(t)
      BY <2>1
    <3>2. finishing[s] => ~registered[s]
      BY DEF Delivery, SubInv, Wired
    <3>3. finishing[s] => last'[s] = last[s]
      BY <3>1, <3>2 DEF Publish
    <3> QED BY <3>1, <3>3, ViewKept DEF Publish, subVars, readVars
  <2>2. CASE ~\E t \in Turn : Publish(t)
    <3>1. SameSub(s)
      BY <2>2, OthersKeep
    <3> QED BY <3>1, ViewKept DEF SameSub, SameButQueue
  <2> QED BY <2>1, <2>2
<1>2. ASSUME NEW C \in SUBSET Conv, log' = log,
             gen' = [c \in Conv |-> IF c \in C THEN gen[c] + 1 ELSE gen[c]]
      PROVE  Feed!Supersede
  BY <1>1, <1>2 DEF Feed!Supersede, SameView
<1>3. ASSUME NEW t \in Turn, Publish(t) PROVE Feed!Accept(tconv[t])
  <2>1. log' = [log EXCEPT ![tconv[t]] = Append(@, gen[tconv[t]])] /\ gen' = gen
    BY <1>3 DEF Publish, IsCurrent
  <2> QED BY <1>1, <2>1 DEF Feed!Accept, SameView
<1>4. ASSUME NEW t \in Turn, BeginTurn(t) PROVE Feed!Supersede
  <2>1. /\ {tconv[t]} \in SUBSET Conv /\ log' = log
        /\ gen' = [c \in Conv |-> IF c \in {tconv[t]} THEN gen[c] + 1 ELSE gen[c]]
    <3>1. gen' = [gen EXCEPT ![tconv[t]] = gen[tconv[t]] + 1] /\ log' = log
      BY <1>4 DEF BeginTurn
    <3>2. gen \in [Conv -> Nat] /\ tconv[t] \in Conv
      BY DEF TypeOK
    <3> QED BY <3>1, <3>2
  <2> QED BY <1>2, <2>1
<1>5. ASSUME NEW C \in SUBSET Conv, CancelRegistered(C) PROVE Feed!Supersede
  BY <1>2, <1>5 DEF CancelRegistered
<1>6. ASSUME NEW t \in Turn, ReleaseCancel(t) \/ ReleaseClear(t) \/ ParentDone(t)
      PROVE  UNCHANGED Feed!feedVars
  BY <1>1, <1>6, FeedStutter DEF ReleaseCancel, ReleaseClear, ParentDone
<1>7. \A t \in Turn : tconv[t] \in Conv
  BY DEF TypeOK
<1>8. CASE \E t \in Turn : Publish(t)
  BY <1>3, <1>7, <1>8 DEF Feed!Next
<1>9. CASE (\E t \in Turn : BeginTurn(t)) \/ (\E c \in Conv : CancelTurn(c)) \/ CancelAllTurns
  <2>1. ASSUME NEW c \in Conv, CancelTurn(c) PROVE Feed!Supersede
    BY <1>5, <2>1 DEF CancelTurn
  <2>2. ASSUME CancelAllTurns PROVE Feed!Supersede
    BY <1>5, <2>2 DEF CancelAllTurns
  <2> QED BY <1>4, <1>9, <2>1, <2>2 DEF Feed!Next
<1> QED BY <1>6, <1>8, <1>9 DEF TurnStep

(* A step of reader r alone: what it does to the view of r.                 *)
Others(r) == gen' = gen /\ log' = log /\ \A s \in LosslessSub \ {r} : SameView(s)

LEMMA FeedQuiet ==
  ASSUME NEW r \in LosslessSub, Others(r), SameView(r)
  PROVE  UNCHANGED Feed!feedVars
  BY FeedStutter DEF Others

LEMMA FeedJoin ==
  ASSUME TypeOK, ReplayIsLiveTurn, NEW r \in LosslessSub, SubInv(r), AttachLossless(r), Others(r)
  PROVE  Feed!Join(r)
<1> DEFINE c == [s \in LosslessSub |-> sconv[s]][r]
           start == CHOOSE k \in 0..Len(log[c]) :
                       {i \in 1..Len(log[c]) : log[c][i] # gen[c]} = 1..k
<1>1. /\ c = sconv[r] /\ r \in Sub /\ c \in Conv /\ log[c] \in Seq(Nat) /\ buffer[c] \in Seq(Nat)
      /\ gen[c] \in Nat
  BY SubTypes DEF TypeOK
<1>2. /\ spc[r] = "new" /\ spc'[r] = "open" /\ ~finishing[r] /\ finishing' = finishing
      /\ base'[r] = Len(log[sconv[r]]) /\ replay'[r] = buffer[sconv[r]]
      /\ recv[r] = << >> /\ recv' = recv
      /\ sconv' = sconv
  BY <1>1 DEF AttachLossless, Snapshot, TypeOK, turnVars, readVars, SubInv, Fresh
<1>3. PICK n \in Nat : n = Len(log[c])
  BY <1>1, SMTT(30)
<1>4. PICK m \in Nat : m = Len(buffer[c])
  BY <1>1
<1>5. /\ m <= n /\ \A i \in 1..m : buffer[c][i] = (n - m) + i
      /\ \A i \in 1..n : log[c][i] = gen[c] <=> i > n - m
  BY <1>1, <1>3, <1>4 DEF ReplayIsLiveTurn
<1>6. start = n - m
  <2> DEFINE old == {i \in 1..Len(log[c]) : log[c][i] # gen[c]}
  <2>1. n - m \in 0..n /\ n = Len(log[c])
    BY <1>3, <1>5
  <2>2. old = 1..(n - m)
    <3>1. ASSUME NEW i PROVE i \in old <=> i \in 1..(n - m)
      BY <1>5, <2>1
    <3> QED BY <3>1
  <2>3. \A j, k \in 0..n : 1..j = 1..k => j = k
    <3> SUFFICES ASSUME NEW j \in 0..n, NEW k \in 0..n, 1..j = 1..k PROVE j = k
      OBVIOUS
    <3>1. (j \in 1..j <=> j \in 1..k) /\ (k \in 1..j <=> k \in 1..k)
      OBVIOUS
    <3> QED BY <3>1
  <2> HIDE DEF old, start
  <2> DEFINE w == CHOOSE k \in 0..Len(log[c]) : old = 1..k
  <2>4. w \in 0..n /\ old = 1..w
    BY <2>1, <2>2
  <2>5. w = n - m
    BY <2>1, <2>2, <2>3, <2>4
  <2> QED BY <2>5 DEF old, start
<1>7. replay'[r] \o recv'[r] = [i \in 1..(n - (n - m)) |-> (n - m) + i]
  <2>1. replay'[r] \o recv'[r] = buffer[c]
    <3>1. ASSUME NEW q \in Seq(Nat) PROVE q \o << >> = q
      OBVIOUS
    <3> QED BY <1>1, <1>2, <3>1
  <2>2. buffer[c] = [i \in 1..m |-> buffer[c][i]]
    BY <1>1, <1>4
  <2>3. n - (n - m) = m
    OBVIOUS
  <2> QED BY <1>5, <2>1, <2>2, <2>3
<1>8. FeedPhase(r) = "out" /\ FeedPhase(r)' = "in"
  BY <1>2, PhaseIs DEF FeedPhase
<1>9. FeedFrom(r)' = n - m /\ FeedUpto(r)' = FeedUpto(r)
  BY <1>2, <1>3, <1>4 DEF FeedFrom, FeedUpto
<1>10. FeedSeen(r)' = [i \in 1..(n - (n - m)) |-> (n - m) + i]
  BY <1>7 DEF FeedSeen
<1>11. \A s \in LosslessSub : sconv'[s] = sconv[s]
  BY <1>2
<1>12. /\ [s \in LosslessSub |-> FeedPhase(s)][r] = "out"
       /\ ([s \in LosslessSub |-> FeedPhase(s)])'
             = [[s \in LosslessSub |-> FeedPhase(s)] EXCEPT ![r] = "in"]
  BY <1>8 DEF Others, SameView
<1>13. ([s \in LosslessSub |-> FeedFrom(s)])'
          = [[s \in LosslessSub |-> FeedFrom(s)] EXCEPT ![r] = start]
  BY <1>6, <1>9 DEF Others, SameView
<1>14. ([s \in LosslessSub |-> FeedSeen(s)])'
          = [[s \in LosslessSub |-> FeedSeen(s)] EXCEPT
               ![r] = [i \in 1..(Len(log[c]) - start) |-> start + i]]
  <2>1. FeedSeen(r)' = [i \in 1..(Len(log[c]) - start) |-> start + i]
    BY <1>3, <1>6, <1>10
  <2> HIDE DEF start, c
  <2> QED BY <2>1 DEF Others, SameView
<1>15. /\ UNCHANGED [s \in LosslessSub |-> sconv[s]]
       /\ UNCHANGED [s \in LosslessSub |-> FeedUpto(s)]
       /\ gen' = gen /\ log' = log
  BY <1>9, <1>11 DEF Others, SameView
<1> QED BY <1>12, <1>13, <1>14, <1>15 DEF Feed!Join

LEMMA FeedLeave ==
  ASSUME TypeOK, NEW r \in LosslessSub, SubInv(r), Others(r),
         DetachLossless(r) \/ CloseDone(r)
  PROVE  Feed!Leave(r) \/ UNCHANGED Feed!feedVars
<1>1. r \in Sub
  BY SubTypes
<1>2. CASE DetachLossless(r)
  <2>1. /\ spc[r] = "open" /\ spc'[r] = "detaching"
        /\ UNCHANGED <<sconv, replay, base, recv, finishing, eof, last>>
    BY <1>1, <1>2 DEF DetachLossless, TypeOK, turnVars, readVars, queueVars
  <2>2. FeedPhase(r) \in {"in", "sealed", "ended"} /\ FeedPhase(r)' = "left"
    BY <2>1, PhaseIs DEF FeedPhase
  <2>3. /\ FeedUpto(r)' = 0 /\ FeedFrom(r)' = FeedFrom(r) /\ FeedSeen(r)' = FeedSeen(r)
        /\ sconv'[r] = sconv[r]
    BY <2>1 DEF FeedUpto, FeedFrom, FeedSeen
  <2> QED BY <2>2, <2>3 DEF Feed!Leave, Others, SameView
<1>3. CASE CloseDone(r)
  <2>1. /\ spc[r] = "detaching" /\ spc'[r] = "detached"
        /\ UNCHANGED <<sconv, replay, base, recv, finishing, eof, last>>
    BY <1>1, <1>3 DEF CloseDone, TypeOK, turnVars, readVars, queueVars
  <2>2. SameView(r)
    BY <2>1 DEF SameView, FeedPhase, FeedUpto, FeedFrom, FeedSeen
  <2> QED BY <2>2, FeedQuiet
<1> QED BY <1>2, <1>3

LEMMA FeedSeal ==
  ASSUME TypeOK, NEW r \in LosslessSub, SubInv(r), Others(r), Finish(r)
  PROVE  Feed!Seal(r)
<1>1. /\ spc[r] = "open" /\ spc' = spc /\ ~finishing[r] /\ finishing'[r] = TRUE
      /\ UNCHANGED <<sconv, replay, base, recv, eof, last>>
  BY DEF Finish, TypeOK, turnVars, readVars
<1>2. ~eof[r] /\ last[r] = Len(log[sconv[r]])
  BY <1>1 DEF SubInv, Wired
<1>3. FeedPhase(r) = "in" /\ FeedPhase(r)' = "sealed"
  BY <1>1, <1>2, PhaseIs DEF FeedPhase
<1>4. /\ FeedUpto(r)' = Len(log[sconv[r]]) /\ FeedFrom(r)' = FeedFrom(r)
      /\ FeedSeen(r)' = FeedSeen(r) /\ sconv'[r] = sconv[r]
  BY <1>1, <1>2 DEF FeedUpto, FeedFrom, FeedSeen
<1> QED BY <1>3, <1>4 DEF Feed!Seal, Others, SameView

(* Reading the next event of the channel. *)
LEMMA FeedReceive ==
  ASSUME TypeOK, NEW r \in LosslessSub, SubInv(r), Ordered(r), Others(r), Receive(r)
  PROVE  Feed!Deliver(r) \/ Feed!Straggle(r)
<1> DEFINE seen == replay[r] \o recv[r]
           e == Head(out[r])
           top == Len(log[sconv[r]])
<1>1. /\ out[r] # << >> /\ recv'[r] = Append(recv[r], e)
      /\ UNCHANGED <<spc, sconv, replay, base, finishing, eof, last>>
  BY SubTypes DEF Receive, TypeOK, turnVars, subVars, queueVars
<1>2. PICK a \in 0..last[r], b \in 0..last[r], c \in 0..last[r] : Stages(r, a, b, c)
  BY DEF Ordered
<1>3. /\ a \in Nat /\ b \in Nat /\ c \in Nat /\ last[r] \in Nat /\ base[r] \in Nat
      /\ out[r] \in Seq(Nat) /\ recv[r] \in Seq(Nat) /\ replay[r] \in Seq(Nat)
      /\ top \in Nat
  BY SubTypes, SMTT(30) DEF TypeOK
<1>4. /\ base[r] <= a /\ b <= last[r] /\ last[r] <= top
      /\ Rising(a, out[r], b)
      /\ \A i \in 1..Len(recv[r]) : recv[r][i] <= a
      /\ \A i \in 1..Len(replay[r]) : replay[r][i] <= base[r]
  <2>1. base[r] <= a /\ a <= b /\ b <= c /\ c <= last[r] /\ Rising(a, out[r], b)
        /\ \A i \in 1..Len(recv[r]) : recv[r][i] <= a
    BY <1>2 DEF Stages
  <2>2. last[r] <= top /\ \A i \in 1..Len(replay[r]) : replay[r][i] <= base[r]
    BY DEF Ordered
  <2> QED BY <1>3, <2>1, <2>2
<1>5. e \in Nat /\ a < e /\ e <= b
  BY <1>1, <1>3, <1>4, RisingTail
<1>6. e \in 1..top /\ e <= last[r]
  BY <1>3, <1>4, <1>5, SMTT(30)
<1>7. FeedSeen(r) = seen /\ FeedSeen(r)' = Append(seen, e)
  <2>1. ASSUME NEW p \in Seq(Nat), NEW q \in Seq(Nat), NEW x \in Nat
        PROVE  p \o Append(q, x) = Append(p \o q, x)
    OBVIOUS
  <2> HIDE DEF e
  <2>2. replay'[r] \o recv'[r] = replay[r] \o Append(recv[r], e)
    BY <1>1
  <2> QED BY <1>3, <1>5, <2>1, <2>2 DEF FeedSeen
<1>8. /\ FeedPhase(r)' = FeedPhase(r) /\ FeedFrom(r)' = FeedFrom(r)
      /\ FeedUpto(r)' = FeedUpto(r) /\ sconv'[r] = sconv[r]
  BY <1>1 DEF FeedPhase, FeedFrom, FeedUpto
<1>9. ([s \in LosslessSub |-> FeedSeen(s)])'
         = [[s \in LosslessSub |-> FeedSeen(s)] EXCEPT ![r] = Append(@, e)]
  <2> HIDE DEF e, seen
  <2>1. ([s \in LosslessSub |-> FeedSeen(s)])'
           = [[s \in LosslessSub |-> FeedSeen(s)] EXCEPT ![r] = Append(seen, e)]
    BY <1>7 DEF Others, SameView
  <2> QED BY <1>7, <2>1
<1>10. UNCHANGED <<gen, log, [s \in LosslessSub |-> sconv[s]],
                   [s \in LosslessSub |-> FeedPhase(s)],
                   [s \in LosslessSub |-> FeedFrom(s)], [s \in LosslessSub |-> FeedUpto(s)]>>
  BY <1>8 DEF Others, SameView
<1> HIDE DEF e, top, seen
<1>11. CASE spc[r] = "open"
  <2>1. Kept(r) /\ ~eof[r]
    BY <1>1, <1>11 DEF Kept, SubInv, Wired
  <2>2. e = base[r] + Len(recv[r]) + 1
    <3>1. 1 \in 1..Len(out[r]) /\ e = out[r][1]
      BY <1>1, <1>3 DEF e
    <3> QED BY <2>1, <3>1 DEF SubInv, Numbered
  <2>3. e = FeedFrom(r) + Len(FeedSeen(r)) + 1
    <3> DEFINE x == base[r]
               k == Len(replay[r])
               m == Len(recv[r])
    <3>1. Len(FeedSeen(r)) = k + m /\ FeedFrom(r) = x - k /\ e = x + m + 1
      BY <1>3, <1>7, <2>2 DEF seen, FeedFrom
    <3>2. x \in Nat /\ k \in Nat /\ m \in Nat
      BY <1>3
    <3> HIDE DEF x, k, m
    <3>3. (x - k) + (k + m) + 1 = x + m + 1
      BY <3>2
    <3> QED BY <3>1, <3>3
  <2>4. \/ FeedPhase(r) = "in" /\ e <= Len(log[sconv[r]])
        \/ FeedPhase(r) = "sealed" /\ e <= FeedUpto(r)
    BY <1>6, <1>11, <2>1, PhaseIs DEF FeedUpto, top
  <2>5. /\ [s \in LosslessSub |-> FeedPhase(s)][r] = FeedPhase(r)
        /\ [s \in LosslessSub |-> FeedFrom(s)][r] = FeedFrom(r)
        /\ [s \in LosslessSub |-> FeedSeen(s)][r] = FeedSeen(r)
        /\ [s \in LosslessSub |-> FeedUpto(s)][r] = FeedUpto(r)
        /\ [s \in LosslessSub |-> sconv[s]][r] = sconv[r]
    OBVIOUS
  <2> QED BY <1>9, <1>10, <2>3, <2>4, <2>5 DEF Feed!Deliver
<1>12. CASE spc[r] # "open"
  <2>1. FeedPhase(r) = "left"
    BY <1>1, <1>12, PhaseIs DEF SubInv, Fresh
  <2>2. \A i \in 1..Len(seen) : seen[i] < e
    <3> SUFFICES ASSUME NEW i \in 1..Len(seen) PROVE seen[i] < e
      OBVIOUS
    <3> DEFINE p == replay[r]
               q == recv[r]
    <3>1. p \in Seq(Nat) /\ q \in Seq(Nat) /\ seen = p \o q
      BY <1>3 DEF seen
    <3>2. /\ \A j \in 1..Len(p) : p[j] \in Nat /\ p[j] <= base[r]
          /\ \A j \in 1..Len(q) : q[j] \in Nat /\ q[j] <= a
      BY <1>4, <3>1, SMTT(30)
    <3> HIDE DEF p, q
    <3>3. \/ i \in 1..Len(p) /\ seen[i] = p[i]
          \/ i - Len(p) \in 1..Len(q) /\ seen[i] = q[i - Len(p)]
      BY <3>1
    <3>4. seen[i] \in Nat /\ seen[i] <= a
      BY <1>3, <1>4, <3>2, <3>3, SMTT(30)
    <3> QED BY <1>3, <1>5, <3>4
  <2>3. /\ [s \in LosslessSub |-> FeedPhase(s)][r] = FeedPhase(r)
        /\ [s \in LosslessSub |-> FeedSeen(s)][r] = seen
        /\ [s \in LosslessSub |-> sconv[s]][r] = sconv[r]
    BY <1>7
  <2>4. e \in 1..Len(log[sconv[r]])
    BY <1>6 DEF top
  <2> QED BY <1>9, <1>10, <2>1, <2>2, <2>3, <2>4 DEF Feed!Straggle
<1> QED BY <1>11, <1>12

(* Reading that the channel is closed and empty. *)
LEMMA FeedEnd ==
  ASSUME TypeOK, NEW r \in LosslessSub, SubInv(r), Others(r), ReceiveClosed(r)
  PROVE  Feed!End(r) \/ UNCHANGED Feed!feedVars
<1>1. /\ out[r] = << >> /\ dpc[r] = "exited" /\ ~eof[r] /\ eof'[r] = TRUE
      /\ UNCHANGED <<spc, sconv, replay, base, finishing, recv, last>>
  BY SubTypes DEF ReceiveClosed, Closed, TypeOK, turnVars, subVars, queueVars
<1>2. spc[r] # "new" /\ items[r] = << >>
  BY <1>1 DEF SubInv, Fresh, Wired
<1>3. CASE spc[r] = "open"
  <2>1. fin[r] /\ finishing[r] /\ Complete(r)
    BY <1>1, <1>3 DEF SubInv, Wired, Kept
  <2>2. base[r] + Len(recv[r]) = last[r]
    <3>1. Sent(r) = last[r]
      BY <1>2, <2>1, SubTypes, ChainEmpty DEF Complete
    <3>2. Len(out[r]) = 0 /\ Len(recv[r]) \in Nat /\ base[r] \in Nat
      BY <1>1, SubTypes
    <3> QED BY <3>1, <3>2 DEF Sent
  <2>3. FeedFrom(r) + Len(FeedSeen(r)) = FeedUpto(r)
    <3> DEFINE x == base[r]
               k == Len(replay[r])
               m == Len(recv[r])
    <3>1. Len(FeedSeen(r)) = k + m /\ FeedFrom(r) = x - k /\ FeedUpto(r) = x + m
      BY <1>3, <2>1, <2>2, SubTypes DEF FeedSeen, FeedFrom, FeedUpto
    <3>2. x \in Nat /\ k \in Nat /\ m \in Nat
      BY SubTypes
    <3> HIDE DEF x, k, m
    <3>3. (x - k) + (k + m) = x + m
      BY <3>2
    <3> QED BY <3>1, <3>3
  <2>4. FeedPhase(r) = "sealed" /\ FeedPhase(r)' = "ended"
    BY <1>1, <1>3, <2>1, PhaseIs DEF FeedPhase
  <2>5. /\ FeedFrom(r)' = FeedFrom(r) /\ FeedUpto(r)' = FeedUpto(r)
        /\ FeedSeen(r)' = FeedSeen(r) /\ sconv'[r] = sconv[r]
    BY <1>1 DEF FeedFrom, FeedUpto, FeedSeen
  <2> QED BY <2>3, <2>4, <2>5 DEF Feed!End, Others, SameView
<1>4. CASE spc[r] # "open"
  <2>1. FeedPhase(r)' = FeedPhase(r)
    <3>1. spc[r] \in {"detaching", "detached"}
      BY <1>2, <1>4, PhaseIs
    <3> QED BY <1>1, <3>1 DEF FeedPhase
  <2>2. SameView(r)
    BY <1>1, <2>1 DEF SameView, FeedFrom, FeedUpto, FeedSeen
  <2> QED BY <2>2, FeedQuiet
<1> QED BY <1>3, <1>4

(* A barrier and the drain goroutine's steps are not seen. *)
LEMMA FeedUnseen ==
  ASSUME TypeOK, NEW r \in LosslessSub, Others(r), Barrier(r) \/ Drain(r)
  PROVE  UNCHANGED Feed!feedVars
<1>1. UNCHANGED <<spc, sconv, replay, base, recv, finishing, eof, last>>
  <2>1. CASE Barrier(r)
    BY <2>1 DEF Barrier, turnVars, subVars, readVars
  <2>2. CASE Drain(r)
    BY <2>2 DEF Drain, DrainTake, DrainForward, DrainAck, DrainAbort, DrainEnd, DrainDone,
                DrainTail, DrainExit, turnVars, subVars, readVars, queueVars
  <2> QED BY <2>1, <2>2
<1>2. SameView(r)
  BY <1>1, ViewKept
<1> QED BY <1>2, FeedQuiet

(* A lossy subscriber is none of the feed's readers. *)
LEMMA FeedLossy ==
  ASSUME TypeOK, NEW q \in Sub, q \notin LosslessSub,
         Attach(q) \/ Detach(q) \/ Consume(q)
  PROVE  UNCHANGED Feed!feedVars
<1> SUFFICES ASSUME NEW s \in LosslessSub PROVE SameView(s) /\ gen' = gen /\ log' = log
  BY FeedStutter DEF Attach, Detach, Consume, Receive, ReceiveClosed, turnVars
<1>1. s # q /\ s \in Sub
  BY SubTypes
<1>2. CASE Attach(q)
  BY <1>1, <1>2, ViewKept DEF Attach, Snapshot, TypeOK, turnVars, readVars, queueVars
<1>3. CASE Detach(q)
  BY <1>1, <1>3, ViewKept DEF Detach, TypeOK, turnVars, readVars, queueVars
<1>4. CASE Consume(q)
  BY <1>1, <1>4, ViewKept
     DEF Consume, Receive, ReceiveClosed, TypeOK, turnVars, subVars, queueVars
<1> QED BY <1>2, <1>3, <1>4

LEMMA FeedAlone ==
  ASSUME TypeOK, NEW r \in LosslessSub,
         \/ AttachLossless(r) \/ DetachLossless(r) \/ CloseDone(r)
         \/ Finish(r) \/ Barrier(r) \/ Drain(r) \/ Consume(r)
  PROVE  Others(r)
<1>1. gen' = gen
  BY DEF AttachLossless, DetachLossless, CloseDone, Finish, Barrier, Drain, DrainTake,
         DrainForward, DrainAck, DrainAbort, DrainEnd, DrainDone, DrainTail, DrainExit,
         Consume, Receive, ReceiveClosed, turnVars
<1>2. log' = log
  BY DEF AttachLossless, DetachLossless, CloseDone, Finish, Barrier, Drain, DrainTake,
         DrainForward, DrainAck, DrainAbort, DrainEnd, DrainDone, DrainTail, DrainExit,
         Consume, Receive, ReceiveClosed, turnVars
<1>3. ASSUME NEW s \in LosslessSub \ {r} PROVE SameView(s)
  <2>1. r \in LosslessSub \ {s} /\ r \in Sub \ {s}
    BY SubTypes
  <2>2. SameSub(s)
    BY <2>1, OthersKeep
  <2> QED BY <2>2, ViewKept DEF SameSub, SameButQueue
<1> QED BY <1>1, <1>2, <1>3 DEF Others

LEMMA FeedStep ==
  ASSUME TypeOK, ReplayIsLiveTurn, Delivery, InLogOrder, [Next]_vars
  PROVE  [Feed!Next]_(Feed!feedVars)
<1> USE DEF Delivery, InLogOrder
<1>1. CASE TurnStep
  BY <1>1, FeedTurn
<1>2. ASSUME NEW s \in LossySub, Attach(s) \/ Detach(s) \/ Consume(s)
      PROVE  UNCHANGED Feed!feedVars
  <2>1. s \in Sub /\ s \notin LosslessSub
    BY BrokerAssumption DEF Sub
  <2> QED BY <1>2, <2>1, FeedLossy
<1>3. ASSUME NEW r \in LosslessSub,
             \/ AttachLossless(r) \/ DetachLossless(r) \/ CloseDone(r)
             \/ Finish(r) \/ Barrier(r) \/ Drain(r) \/ Consume(r)
      PROVE  Feed!Next \/ UNCHANGED Feed!feedVars
  <2>1. SubInv(r) /\ Ordered(r) /\ Others(r)
    BY <1>3, FeedAlone
  <2>2. CASE AttachLossless(r)
    <3>1. Feed!Join(r)
      BY <2>1, <2>2, FeedJoin
    <3> QED BY <3>1 DEF Feed!Next
  <2>3. CASE DetachLossless(r) \/ CloseDone(r)
    <3>1. Feed!Leave(r) \/ UNCHANGED Feed!feedVars
      BY <2>1, <2>3, FeedLeave
    <3> QED BY <3>1 DEF Feed!Next
  <2>4. CASE Finish(r)
    <3>1. Feed!Seal(r)
      BY <2>1, <2>4, FeedSeal
    <3> QED BY <3>1 DEF Feed!Next
  <2>5. CASE Barrier(r) \/ Drain(r)
    BY <2>1, <2>5, FeedUnseen
  <2>6. CASE Receive(r)
    <3>1. Feed!Deliver(r) \/ Feed!Straggle(r)
      BY <2>1, <2>6, FeedReceive
    <3> QED BY <3>1 DEF Feed!Next, Feed!Read
  <2>7. CASE ReceiveClosed(r)
    <3>1. Feed!End(r) \/ UNCHANGED Feed!feedVars
      BY <2>1, <2>7, FeedEnd
    <3> QED BY <3>1 DEF Feed!Next, Feed!Read
  <2> QED BY <1>3, <2>2, <2>3, <2>4, <2>5, <2>6, <2>7 DEF Consume
<1>4. CASE UNCHANGED vars
  <2>1. \A s \in LosslessSub : SameView(s)
    BY <1>4, ViewKept DEF vars, subVars, readVars, queueVars
  <2> QED BY <1>4, <2>1, FeedStutter DEF vars, turnVars
<1>5. \A s \in Sub : s \in LossySub \/ s \in LosslessSub
  BY DEF Sub
<1> QED BY <1>1, <1>2, <1>3, <1>4, <1>5 DEF Next

(* Attach, publish, detach, finish and the drain goroutine implement the     *)
(* promise of broker.go's package comment: a lossless reader sees the log   *)
(* of its conversation from the start of the live turn, every event once    *)
(* and in order, up to its seal; only after a detach may events be missing, *)
(* and even then none comes twice or out of order.                         *)
THEOREM KeepsTheFeed == Spec => FeedSafety
<1>1. Init => Feed!Init
  <2> SUFFICES ASSUME Init PROVE Feed!Init
    OBVIOUS
  <2>1. ASSUME NEW s \in LosslessSub
        PROVE  /\ FeedPhase(s) = "out" /\ FeedFrom(s) = 0 /\ FeedUpto(s) = 0
               /\ FeedSeen(s) = << >> /\ sconv[s] \in Conv
    BY DEF Init, Sub, FeedPhase, FeedFrom, FeedUpto, FeedSeen
  <2> QED BY <2>1 DEF Init, Feed!Init
<1>2. TypeOK /\ ReplayIsLiveTurn /\ Delivery /\ InLogOrder /\ [Next]_vars
        => [Feed!Next]_(Feed!feedVars)
  BY FeedStep
<1> QED BY <1>1, <1>2, TypeCorrect, ReplayExact, Delivered, HandedInOrder, PTL
        DEF Spec, FeedSafety, Feed!Safety
=============================================================================
