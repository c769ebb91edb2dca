----------------------- MODULE ContextCompaction_proofs -----------------------
(***************************************************************************)
(* Proofs about ContextCompaction for any number of turns, seconds, edits  *)
(* and commands.                                                           *)
(*                                                                         *)
(* Passes: at most one has the conversation at any time, and a request for *)
(* a pass is not lost to the one that has it (PassInv).                    *)
(*                                                                         *)
(* Turns and summaries: whatever a pass, a sweep and an assembly have read *)
(* stays in a fixed relation to what is stored (CompactionInv), so that a  *)
(* history shows each turn once and the store behaves as ContextLedger.    *)
(* The lemmas go from positions in a sequence, over what a pass summarises *)
(* (Cut), to the invariant, step by step, and from there to the theorems.  *)
(***************************************************************************)
EXTENDS ContextCompaction, FiniteSetTheorems, WellFoundedInduction, TLAPS

Field == {"at", "turns", "next", "more", "first"}

(* What the steps need of the shape of a pass. *)
Shape ==
    /\ pass = [k \in Kind |-> pass[k]]
    /\ \A k \in Kind : pass[k] = [f \in Field |-> pass[k][f]]
    /\ timer \in BOOLEAN /\ inflight \in BOOLEAN /\ asked \in BOOLEAN

(* The claim in flight is that of the one pass that is not idle. *)
ClaimInv ==
    /\ \A k \in Kind : pass[k].at # "idle" => inflight
    /\ \A k, l \in Kind : pass[k].at # "idle" /\ pass[l].at # "idle" => k = l

PassInv == Shape /\ ClaimInv /\ RequestsServed

LEMMA NoPassShape == NoPass = [f \in Field |-> NoPass[f]] /\ NoPass.at = "idle"
  BY DEF NoPass, Field

LEMMA ClaimStep ==
  ASSUME PassInv, NEW k \in Kind, NEW at \in {"turns", "save"}, ~inflight, Claim(k, at),
         timer' \in BOOLEAN, asked' = asked, timer => timer' \/ (k = "pass" /\ at = "turns")
  PROVE  PassInv'
<1>1. /\ pass' = [pass EXCEPT ![k].at = at] /\ inflight'
      /\ \A l \in Kind : pass[l].at = "idle"
  BY DEF Claim, PassInv, ClaimInv
<1>2. /\ pass'[k] = [pass[k] EXCEPT !.at = at]
      /\ \A l \in Kind : l # k => pass'[l] = pass[l]
      /\ pass' = [l \in Kind |-> pass'[l]]
  BY <1>1 DEF PassInv, Shape
<1>3. pass'[k].at = at /\ pass'[k] = [f \in Field |-> pass'[k][f]]
  BY <1>2 DEF PassInv, Shape, Field
<1>4. Shape'
  BY <1>1, <1>2, <1>3 DEF PassInv, Shape
<1>5. ClaimInv'
  BY <1>1, <1>2, <1>3 DEF ClaimInv
<1>6. RequestsServed'
  BY <1>1, <1>2, <1>3 DEF PassInv, RequestsServed, Kind
<1> QED
  BY <1>4, <1>5, <1>6 DEF PassInv

LEMMA ReleaseStep ==
  ASSUME PassInv, NEW k \in Kind, pass[k].at # "idle", Release(k),
         timer' \in BOOLEAN, asked' \in BOOLEAN, timer => timer',
         asked' => timer' \/ (asked /\ ~(k = "pass" /\ pass[k].at = "turns"))
  PROVE  PassInv'
<1>1. inflight' = FALSE /\ pass' = [pass EXCEPT ![k] = NoPass]
  BY DEF Release
<1>2. /\ pass'[k] = NoPass
      /\ \A l \in Kind : l # k => pass'[l] = pass[l]
      /\ pass' = [l \in Kind |-> pass'[l]]
  BY <1>1 DEF PassInv, Shape
<1>3. \A l \in Kind : pass'[l].at = "idle"
  BY <1>2, NoPassShape DEF PassInv, ClaimInv
<1>4. Shape'
  <2>1. \A l \in Kind : pass'[l] = [f \in Field |-> pass'[l][f]]
    BY <1>2, NoPassShape DEF PassInv, Shape
  <2> QED
    BY <1>1, <1>2, <2>1 DEF Shape
<1>5. ClaimInv'
  BY <1>3 DEF ClaimInv
<1>6. RequestsServed'
  BY DEF PassInv, ClaimInv, RequestsServed, Kind
<1> QED
  BY <1>4, <1>5, <1>6 DEF PassInv

(* A pass moves on within its claim. *)
LEMMA MoveStep ==
  ASSUME PassInv, NEW k \in Kind, pass[k].at # "idle", UNCHANGED inflight,
         \A l \in Kind : l # k => pass'[l] = pass[l],
         pass' = [l \in Kind |-> pass'[l]],
         pass'[k] = [f \in Field |-> pass'[k][f]],
         timer' \in BOOLEAN, asked' \in BOOLEAN, timer => timer',
         asked' => timer' \/ (asked /\ ~(k = "pass" /\ pass[k].at = "turns"))
  PROVE  PassInv'
<1>1. Shape'
  BY DEF PassInv, Shape
<1>2. ClaimInv'
  BY DEF PassInv, ClaimInv
<1>3. RequestsServed'
  BY DEF PassInv, RequestsServed, Kind
<1> QED
  BY <1>1, <1>2, <1>3 DEF PassInv

LEMMA PassStepKeeps ==
  ASSUME PassInv, NEW k \in Kind, PassStep(k) \/ Fails(k) PROVE PassInv'
<1>0. /\ pass = [l \in Kind |-> pass[l]] /\ pass[k] = [f \in Field |-> pass[k][f]]
      /\ timer \in BOOLEAN /\ asked \in BOOLEAN
  BY DEF PassInv, Shape
<1>1. pass[k].at # "idle"
  BY DEF PassStep, ReadTurns, NothingToDo, Advance, Save, Fails
<1>2. CASE ReadTurns(k)
  <2>1. asked' \in BOOLEAN /\ timer' = timer /\ (asked' => asked /\ k # "pass")
    BY <1>2 DEF ReadTurns
  <2>2. CASE turns = << >>
    BY <1>0, <1>1, <1>2, <2>1, <2>2, ReleaseStep DEF ReadTurns
  <2>3. CASE turns # << >>
    <3>1. /\ pass' = [pass EXCEPT ![k].at = "advance", ![k].turns = turns]
          /\ UNCHANGED inflight
      BY <1>2, <2>3 DEF ReadTurns
    <3>2. /\ pass' = [l \in Kind |-> pass'[l]] /\ \A l \in Kind : l # k => pass'[l] = pass[l]
          /\ pass'[k] = [f \in Field |-> pass'[k][f]] /\ pass'[k].at = "advance"
      BY <1>0, <3>1 DEF Field
    <3> QED
      BY <1>0, <1>1, <2>1, <3>1, <3>2, MoveStep
  <2> QED
    BY <2>2, <2>3
<1>3. CASE NothingToDo(k)
  <2>1. pass[k].at = "advance" /\ UNCHANGED <<timer, asked>>
    BY <1>3 DEF NothingToDo
  <2>2. CASE Release(k)
    BY <1>0, <1>1, <2>1, <2>2, ReleaseStep
  <2>3. CASE ~Release(k)
    <3>1. /\ pass' = [pass EXCEPT ![k].at = "save", ![k].turns = << >>]
          /\ UNCHANGED inflight
      BY <1>3, <2>3 DEF NothingToDo
    <3>2. /\ pass' = [l \in Kind |-> pass'[l]] /\ \A l \in Kind : l # k => pass'[l] = pass[l]
          /\ pass'[k] = [f \in Field |-> pass'[k][f]]
      BY <1>0, <3>1 DEF Field
    <3> QED
      BY <1>0, <1>1, <2>1, <3>1, <3>2, MoveStep
  <2> QED
    BY <2>2, <2>3
<1>4. CASE Advance(k)
  <2>1. pass[k].at = "advance" /\ UNCHANGED <<timer, asked, inflight>>
    BY <1>4 DEF Advance
  <2> DEFINE e == Eligible(pass[k].turns, Base(k))
             More(c) == c \in Part(e) \/ Cardinality(Messages(e)) > PassLimit
             Rest(c, t) == IF More(c) /\ k # "pass" THEN t ELSE << >>
  <2>2. PICK c : pass' = [pass EXCEPT ![k] =
               [pass[k] EXCEPT !.at = "save", !.next = Summarised(Base(k), e, c), !.more = More(c),
                               !.turns = Rest(c, @)]]
    BY <1>4 DEF Advance
  <2> HIDE DEF e, More, Rest
  <2>6. /\ pass' = [l \in Kind |-> pass'[l]] /\ \A l \in Kind : l # k => pass'[l] = pass[l]
        /\ pass'[k] = [f \in Field |-> pass'[k][f]]
    BY <1>0, <2>2 DEF Field
  <2> QED
    BY <1>0, <1>1, <2>1, <2>6, MoveStep
<1>5. CASE Save(k)
  <2>1. /\ pass[k].at = "save"
        /\ timer' = (timer \/ (k = "pass" /\ pass[k].more))
        /\ asked' = (asked \/ (k = "pass" /\ pass[k].more))
    BY <1>5 DEF Save
  <2>2. CASE Release(k)
    BY <1>0, <1>1, <2>1, <2>2, ReleaseStep
  <2>3. CASE ~Release(k)
    <3>1. /\ pass' = [pass EXCEPT ![k].at = "advance", ![k].first = FALSE]
          /\ UNCHANGED inflight
      BY <1>5, <2>3 DEF Save
    <3>2. /\ pass' = [l \in Kind |-> pass'[l]] /\ \A l \in Kind : l # k => pass'[l] = pass[l]
          /\ pass'[k] = [f \in Field |-> pass'[k][f]]
      BY <1>0, <3>1 DEF Field
    <3> QED
      BY <1>0, <1>1, <2>1, <3>1, <3>2, MoveStep
  <2> QED
    BY <2>2, <2>3
<1>6. CASE Fails(k)
  <2>1. /\ asked' = (asked /\ ~(k = "pass" /\ pass[k].at = "turns")) /\ timer' = timer /\ Release(k)
    BY <1>6 DEF Fails
  <2> QED
    BY <1>0, <1>1, <2>1, ReleaseStep
<1> QED
  BY <1>2, <1>3, <1>4, <1>5, <1>6 DEF PassStep

LEMMA ClaimsKeep ==
  ASSUME PassInv, Fire \/ \E k \in {"compact", "rebuild", "clear"} : Command(k) PROVE PassInv'
<1>0. timer \in BOOLEAN /\ asked \in BOOLEAN /\ inflight \in BOOLEAN
  BY DEF PassInv, Shape
<1>1. CASE Fire /\ inflight
  <2>1. timer' = inflight /\ UNCHANGED <<inflight, pass, asked>>
    BY <1>1 DEF Fire
  <2> QED
    BY <1>0, <1>1, <2>1 DEF PassInv, Shape, ClaimInv, RequestsServed
<1>2. CASE Fire /\ ~inflight
  <2>1. timer' = inflight /\ Claim("pass", "turns") /\ asked' = asked /\ "pass" \in Kind
    BY <1>2 DEF Fire, Kind
  <2> QED
    BY <1>0, <1>2, <2>1, ClaimStep
<1>3. ASSUME NEW k \in {"compact", "rebuild", "clear"}, Command(k) PROVE PassInv'
  <2>1. ~inflight /\ UNCHANGED <<timer, asked>> /\ k \in Kind
    BY <1>3 DEF Command, Kind
  <2>2. \E at \in {"turns", "save"} : Claim(k, at)
    BY <1>3 DEF Command
  <2> QED
    BY <1>0, <2>1, <2>2, ClaimStep
<1> QED
  BY <1>1, <1>2, <1>3

LEMMA OthersKeep ==
  ASSUME PassInv, \/ UNCHANGED <<timer, inflight, pass, asked>>
                  \/ Schedule \/ Restart
  PROVE  PassInv'
<1>1. CASE UNCHANGED <<timer, inflight, pass, asked>>
  BY <1>1 DEF PassInv, Shape, ClaimInv, RequestsServed
<1>2. CASE Schedule
  BY <1>2 DEF Schedule, PassInv, Shape, ClaimInv, RequestsServed
<1>3. CASE Restart
  <2>1. /\ pass' = [k \in Kind |-> NoPass]
        /\ timer' = FALSE /\ inflight' = FALSE /\ asked' = FALSE
    BY <1>3 DEF Restart
  <2>2. \A k \in Kind : pass'[k].at = "idle" /\ pass'[k] = [f \in Field |-> pass'[k][f]]
    BY <2>1, NoPassShape
  <2> QED
    BY <2>1, <2>2 DEF PassInv, Shape, ClaimInv, RequestsServed
<1> QED
  BY <1>1, <1>2, <1>3

LEMMA PassInvInit == Init => PassInv
  BY NoPassShape DEF Init, PassInv, Shape, ClaimInv, RequestsServed

LEMMA PassInvNext == PassInv /\ [Next]_vars => PassInv'
<1>1. PassInv /\ Next => PassInv'
  <2>1. Tick \/ DeleteTurns \/ SweepList \/ Prune \/ Collapse \/ ReadHistory \/ Assemble
          => UNCHANGED <<timer, inflight, pass, asked>>
    BY DEF Tick, DeleteTurns, SweepList, Prune, Collapse, ReadHistory, Assemble
  <2>2. Add("text", 0) \/ Add("call", 0) \/ AddResult => UNCHANGED <<timer, inflight, pass, asked>>
    BY DEF Add, AddResult
  <2> QED
    BY <2>1, <2>2, PassStepKeeps, ClaimsKeep, OthersKeep DEF Next
<1>2. PassInv /\ UNCHANGED vars => PassInv'
  BY OthersKeep DEF vars
<1> QED
  BY <1>1, <1>2

LEMMA PassInvariant == Spec => []PassInv
  BY PassInvInit, PassInvNext, PTL DEF Spec

(* RequestsServed: a request for a pass that is made while another pass has *)
(* the conversation is scheduled again, however that pass ends, until a     *)
(* pass reads the turns, or the agent restarts.                            *)
THEOREM RequestNotDropped == Spec => []RequestsServed
  BY PassInvariant, PTL DEF PassInv

(* Two passes never have the conversation at once, whoever claims it: the   *)
(* timer, a regeneration or a clear (claim and release of                  *)
(* compactiongen.go).                                                      *)
THEOREM OnePass ==
  Spec => [](\A k, l \in Kind : pass[k].at # "idle" /\ pass[l].at # "idle" => k = l)
<1>1. PassInv => \A k, l \in Kind : pass[k].at # "idle" /\ pass[l].at # "idle" => k = l
  BY DEF PassInv, ClaimInv
<1> QED
  BY PassInvariant, <1>1, PTL

-----------------------------------------------------------------------------
(* Positions                                                               *)

\* A set of numbers that is not empty has a least one.
LEMMA LeastNat ==
  ASSUME NEW T \in SUBSET Nat, T # {}
  PROVE \E x \in T : \A y \in T : x <= y
<1> DEFINE R == {p \in Nat \X Nat : p[1] < p[2]}
<1>1. IsWellFoundedOn(R, Nat)
  <2>1. R = OpToRel(<, Nat)
    BY DEF OpToRel
  <2> QED BY <2>1, NatLessThanWellFounded
<1>2. PICK x \in T : \A y \in T : ~(<<y, x>> \in R)
   <2> HIDE DEF R
   <2> QED BY <1>1, WFMin
<1>3. \A y \in T : x <= y
  <2> SUFFICES ASSUME NEW y \in T PROVE x <= y
    OBVIOUS
  <2>1. x \in Nat /\ y \in Nat /\ ~(<<y, x>> \in R)
    BY <1>2
  <2> QED BY <2>1
<1> QED BY <1>3

\* Largest of a bounded set of numbers.
LEMMA LargestIs ==
  ASSUME NEW n \in Nat, NEW S \in SUBSET (0..n), S # {}
  PROVE Largest(S) \in S
<1> DEFINE T == {n - m : m \in S}
<1>1. T \in SUBSET Nat /\ T # {}
  <2>1. \A m \in S : m \in 0..n
    OBVIOUS
  <2>2. \A m \in S : n - m \in Nat
    BY <2>1
  <2> QED BY <2>2
<1>2. PICK x \in T : \A y \in T : x <= y
  <2> HIDE DEF T
  <2> QED BY <1>1, LeastNat
<1>3. PICK m \in S : x = n - m
  OBVIOUS
<1>4. \A k \in S : k <= m
  <2> SUFFICES ASSUME NEW k \in S PROVE k <= m
    OBVIOUS
  <2>1. x <= n - k
    BY <1>2
  <2> QED BY <1>3, <2>1
<1> QED BY <1>4 DEF Largest

\* The number of positions up to i.
Rank(P, i) == Cardinality({j \in P : j <= i})

LEMMA Positions ==
  ASSUME NEW N \in Nat, NEW P \in SUBSET (1..N)
  PROVE \A j \in P : j \in Nat /\ 1 <= j /\ j <= N
<1>1. \A j \in P : j \in 1..N
  OBVIOUS
<1> QED BY <1>1

LEMMA RankType ==
  ASSUME NEW N \in Nat, NEW P \in SUBSET (1..N)
  PROVE /\ IsFiniteSet(P) /\ Cardinality(P) \in Nat
        /\ \A i : Rank(P, i) \in Nat /\ Rank(P, i) <= Cardinality(P)
<1>1. IsFiniteSet(P)
  <2>1. IsFiniteSet(1..N)
    BY FS_Interval
  <2> QED BY <2>1, FS_Subset
<1>2. ASSUME NEW i PROVE Rank(P, i) \in Nat /\ Rank(P, i) <= Cardinality(P)
  <2>1. {j \in P : j <= i} \in SUBSET P
    OBVIOUS
  <2>2. IsFiniteSet({j \in P : j <= i})
    BY <1>1, <2>1, FS_Subset
  <2> QED BY <1>1, <2>1, <2>2, FS_Subset, FS_CardinalityType DEF Rank
<1> QED BY <1>1, <1>2, FS_CardinalityType

\* Ranks and positions have the same order.
LEMMA RankOrder ==
  ASSUME NEW N \in Nat, NEW P \in SUBSET (1..N), NEW i \in P, NEW k \in P
  PROVE i < k <=> Rank(P, i) < Rank(P, k)
<1> DEFINE A == {j \in P : j <= i}  B == {j \in P : j <= k}
<1>1. i \in Nat /\ k \in Nat /\ \A j \in P : j \in Nat
  BY Positions
<1>2. IsFiniteSet(A) /\ IsFiniteSet(B)
  BY RankType, FS_Subset
<1>3. Cardinality(A) \in Nat /\ Cardinality(B) \in Nat
  BY <1>2, FS_CardinalityType
<1>4. ASSUME i < k PROVE Cardinality(A) < Cardinality(B)
  <2>1. \A j \in P : j <= i => j <= k
    BY <1>1, <1>4
  <2>2. k <= k /\ ~(k <= i)
    BY <1>1, <1>4
  <2>3. A \in SUBSET B /\ k \in B /\ k \notin A
    BY <2>1, <2>2
  <2>4. Cardinality(A) <= Cardinality(B) /\ Cardinality(A) # Cardinality(B)
    <3> HIDE DEF A, B
    <3> QED BY <1>2, <2>3, FS_Subset
  <2> QED BY <1>3, <2>4
<1>5. ASSUME ~(i < k) PROVE ~(Cardinality(A) < Cardinality(B))
  <2>0. \A j \in P : j <= k => j <= i
    BY <1>1, <1>5
  <2>1. B \in SUBSET A
    BY <2>0
  <2>2. Cardinality(B) <= Cardinality(A)
    <3> HIDE DEF A, B
    <3> QED BY <1>2, <2>1, FS_Subset
  <2> QED BY <1>3, <2>2
<1> QED BY <1>4, <1>5 DEF Rank

\* Every rank is that of a position.
LEMMA RankOnto ==
  ASSUME NEW N \in Nat, NEW P \in SUBSET (1..N), NEW n \in 1..Cardinality(P)
  PROVE \E i \in P : Rank(P, i) = n
<1> DEFINE T == {i \in Nat : Rank(P, i) >= n}
<1>1. /\ IsFiniteSet(P) /\ Cardinality(P) \in Nat /\ n \in Nat /\ n >= 1
      /\ \A i : Rank(P, i) \in Nat /\ Rank(P, i) <= Cardinality(P)
  BY RankType
<1>2. Rank(P, N) = Cardinality(P)
  <2>1. {j \in P : j <= N} = P
    BY Positions, Zenon
  <2> QED BY <2>1 DEF Rank
<1>3. T \in SUBSET Nat /\ T # {}
  <2>1. N \in T
    BY <1>1, <1>2
  <2> QED BY <2>1
<1>4. PICK i \in T : \A y \in T : i <= y
  <2> HIDE DEF T
  <2> QED BY <1>3, LeastNat
<1>5. i \in Nat /\ Rank(P, i) >= n
  OBVIOUS
<1>6. i # 0
  <2>0. \A j \in P : ~(j <= 0)
    BY Positions
  <2>1. {j \in P : j <= 0} = {}
    BY <2>0
  <2>2. Rank(P, 0) = 0
    BY <2>1, FS_EmptySet DEF Rank
  <2> QED BY <1>1, <1>5, <2>2
<1>7. Rank(P, i - 1) < n
  <2>1. i - 1 \in Nat /\ i - 1 \notin T
    BY <1>4, <1>5, <1>6
  <2>2. ~(Rank(P, i - 1) >= n)
    BY <2>1
  <2> QED BY <1>1, <2>2
<1> DEFINE A == {j \in P : j <= i - 1}
<1>8. IsFiniteSet(A)
  BY <1>1, FS_Subset
<1>9. i \in P /\ Rank(P, i) = n
  <2>1. CASE i \notin P
    <3>0. \A j \in P : j <= i <=> j <= i - 1
      BY <1>5, <2>1, Positions
    <3>1. {j \in P : j <= i} = A
      BY <3>0
    <3> QED BY <1>1, <1>5, <1>7, <3>1 DEF Rank
  <2>2. CASE i \in P
    <3>0. \A j \in P : j <= i <=> (j <= i - 1 \/ j = i)
      BY <1>5, <2>2, Positions
    <3>00. ~(i <= i - 1)
      BY <1>5
    <3>1. {j \in P : j <= i} = A \cup {i} /\ i \notin A
      BY <2>2, <3>0, <3>00
    <3>2. Rank(P, i) = Rank(P, i - 1) + 1
      BY <1>8, <3>1, FS_AddElement DEF Rank
    <3> QED BY <1>1, <1>5, <1>7, <2>2, <3>2
  <2> QED BY <2>1, <2>2
<1> QED BY <1>9

LEMMA NthIs ==
  ASSUME NEW N \in Nat, NEW P \in SUBSET (1..N), NEW n \in 1..Cardinality(P)
  PROVE Nth(P, n) \in P /\ Rank(P, Nth(P, n)) = n
<1>1. \E i \in P : Cardinality({j \in P : j <= i}) = n
  BY RankOnto DEF Rank
<1> QED BY <1>1 DEF Nth, Rank

LEMMA NthOrder ==
  ASSUME NEW N \in Nat, NEW P \in SUBSET (1..N),
         NEW m \in 1..Cardinality(P), NEW n \in 1..Cardinality(P)
  PROVE m < n <=> Nth(P, m) < Nth(P, n)
<1>1. Nth(P, m) \in P /\ Rank(P, Nth(P, m)) = m
  BY NthIs
<1>2. Nth(P, n) \in P /\ Rank(P, Nth(P, n)) = n
  BY NthIs
<1>3. Nth(P, m) < Nth(P, n) <=> Rank(P, Nth(P, m)) < Rank(P, Nth(P, n))
  BY <1>1, <1>2, RankOrder
<1> QED BY <1>1, <1>2, <1>3

LEMMA NthOnto ==
  ASSUME NEW N \in Nat, NEW P \in SUBSET (1..N), NEW i \in P
  PROVE Rank(P, i) \in 1..Cardinality(P) /\ Nth(P, Rank(P, i)) = i
<1>1. Rank(P, i) \in 1..Cardinality(P)
  <2>1. IsFiniteSet({j \in P : j <= i})
    BY RankType, FS_Subset
  <2>2. i \in {j \in P : j <= i}
    OBVIOUS
  <2>3. Rank(P, i) # 0
    BY <2>1, <2>2, FS_EmptySet DEF Rank
  <2> QED BY <2>3, RankType
<1> DEFINE k == Nth(P, Rank(P, i))
<1>2. k \in P /\ Rank(P, k) = Rank(P, i)
  BY <1>1, NthIs
<1>3. ~(k < i) /\ ~(i < k)
  <2>1. Rank(P, i) \in Nat
    BY RankType
  <2> HIDE DEF k
  <2>2. k < i <=> Rank(P, k) < Rank(P, i)
    BY <1>2, RankOrder
  <2>3. i < k <=> Rank(P, i) < Rank(P, k)
    BY <1>2, RankOrder
  <2> QED BY <1>2, <2>1, <2>2, <2>3
<1>4. k = i
  <2>1. k \in Nat /\ i \in Nat
    <3> HIDE DEF k
    <3> QED BY <1>2, Positions
  <2> HIDE DEF k
  <2> QED BY <1>3, <2>1
<1> QED BY <1>1, <1>4

\* What a sequence has at a set of its positions: a shorter sequence, of the
\* same elements in the same order.
LEMMA AtIs ==
  ASSUME NEW S, NEW q \in Seq(S), NEW P \in SUBSET (DOMAIN q)
  PROVE /\ At(q, P) \in Seq(S) /\ Len(At(q, P)) = Cardinality(P) /\ Cardinality(P) \in Nat
        /\ DOMAIN At(q, P) = 1..Cardinality(P)
        /\ \A n \in DOMAIN At(q, P) : Nth(P, n) \in P /\ At(q, P)[n] = q[Nth(P, n)]
        /\ \A m, n \in DOMAIN At(q, P) : m < n <=> Nth(P, m) < Nth(P, n)
        /\ \A i \in P : \E n \in DOMAIN At(q, P) : i = Nth(P, n)
<1>1. DOMAIN q = 1..Len(q) /\ Len(q) \in Nat
  OBVIOUS
<1>2. Cardinality(P) \in Nat
  BY <1>1, RankType
<1>3. \A n \in 1..Cardinality(P) : Nth(P, n) \in P
  BY <1>1, NthIs
<1>4. DOMAIN At(q, P) = 1..Cardinality(P) /\ \A n \in 1..Cardinality(P) : At(q, P)[n] = q[Nth(P, n)]
  BY DEF At
<1>5. \A n \in 1..Cardinality(P) : q[Nth(P, n)] \in S
  BY <1>1, <1>3
<1>6. At(q, P) \in Seq(S) /\ Len(At(q, P)) = Cardinality(P)
  BY <1>2, <1>5 DEF At
<1>7. \A m, n \in 1..Cardinality(P) : m < n <=> Nth(P, m) < Nth(P, n)
  BY <1>1, NthOrder
<1>8. \A i \in P : \E n \in 1..Cardinality(P) : i = Nth(P, n)
  BY <1>1, NthOnto
<1> QED BY <1>2, <1>3, <1>4, <1>6, <1>7, <1>8


-----------------------------------------------------------------------------
(* What a pass summarises                                                  *)

LEMMA SafePrefix ==
  ASSUME NEW S, NEW q \in Seq(S), NEW n \in 0..Len(q)
  PROVE /\ SafeFreezeCount(q, n) \in 0..n
        /\ Closed(q, SafeFreezeCount(q, n)) /\ SecondEnds(q, SafeFreezeCount(q, n))
<1> DEFINE M == {m \in 0..n : Closed(q, m) /\ SecondEnds(q, m)}
<1>1. n \in Nat /\ Len(q) \in Nat
  OBVIOUS
<1>2. Closed(q, 0)
  <2>1. 1..0 = {}
    OBVIOUS
  <2> QED BY <2>1 DEF Closed
<1>3. SecondEnds(q, 0)
  BY DEF SecondEnds
<1>4. 0 \in M
  BY <1>1, <1>2, <1>3
<1>5. Largest(M) \in M
  <2>1. M \in SUBSET (0..n) /\ M # {}
    BY <1>4
  <2> HIDE DEF M
  <2> QED BY <1>1, <2>1, LargestIs
<1>6. SafeFreezeCount(q, n) = Largest(M)
  BY DEF SafeFreezeCount
<1> HIDE DEF M
<1>7. SafeFreezeCount(q, n) \in M
  BY <1>5, <1>6
<1> QED BY <1>7 DEF M

\* The turns that are eligible: the oldest after the boundary, but not all.
LEMMA EligibleIs ==
  ASSUME NEW q \in Seq(Turn), NEW s \in Summary, Eligible(q, s) # << >>
  PROVE \E n \in Nat : /\ n < Len(Live(q, s.frozen))
                       /\ Eligible(q, s) = SubSeq(Live(q, s.frozen), 1, n)
                       /\ SecondEnds(Live(q, s.frozen), n)
<1> DEFINE P == {i \in DOMAIN q : q[i].sec > s.frozen}
           live == Live(q, s.frozen)
<1>1. live \in Seq(Turn)
  <2>1. P \in SUBSET (DOMAIN q)
    OBVIOUS
  <2>2. At(q, P) \in Seq(Turn)
    <3> HIDE DEF P
    <3> QED BY <2>1, AtIs
  <2> QED BY <2>2 DEF Live
<1>2. /\ Len(live) > VerbatimRecent
      /\ Eligible(q, s) = SubSeq(live, 1, SafeFreezeCount(live, Len(live) - VerbatimRecent))
  <2>1. Len(live) \in Nat /\ VerbatimRecent \in Nat
    BY <1>1, ContextAssumption
  <2>2. ~(Len(live) <= VerbatimRecent)
    BY DEF Eligible
  <2>3. Eligible(q, s) = SubSeq(live, 1, SafeFreezeCount(live, Len(live) - VerbatimRecent))
    BY DEF Eligible
  <2> QED BY <2>1, <2>2, <2>3
<1> HIDE DEF live
<1>3. Len(live) \in Nat /\ VerbatimRecent \in Nat /\ VerbatimRecent # 0
  BY <1>1, ContextAssumption
<1>4. PICK k \in Nat : k = Len(live) - VerbatimRecent
  BY <1>2, <1>3
<1>5. k \in 0..Len(live) /\ k < Len(live)
  BY <1>2, <1>3, <1>4
<1>6. /\ SafeFreezeCount(live, k) \in 0..k /\ SecondEnds(live, SafeFreezeCount(live, k))
  BY <1>1, <1>5, SafePrefix
<1>7. SafeFreezeCount(live, k) \in Nat /\ SafeFreezeCount(live, k) < Len(live)
  BY <1>3, <1>5, <1>6
<1> QED BY <1>2, <1>4, <1>6, <1>7 DEF live

\* Where the boundary falls: at least one turn is before it.
LEMMA BoundaryIs ==
  ASSUME NEW q \in Seq(Turn), NEW c \in Whole(q) \cup Part(q)
  PROVE /\ Boundary(q, c) \in 1..Len(q)
        /\ Closed(q, Boundary(q, c)) /\ SecondEnds(q, Boundary(q, c))
<1> DEFINE M == Messages(q)
           b == Boundary(q, c)
<1>1. M \in SUBSET (1..Len(q)) /\ Len(q) \in Nat
  BY DEF Messages
<1>2. IsFiniteSet(M) /\ Cardinality(M) \in Nat
  <2> HIDE DEF M
  <2> QED BY <1>1, RankType
<1>3. /\ Covered(q) \in Nat /\ Covered(q) <= Cardinality(M)
  BY <1>2, ContextAssumption DEF Covered
<1>4. c \in 1..Cardinality(M)
  <2>1. CASE c \in Whole(q)
    BY <1>2, <1>3, <2>1 DEF Whole
  <2>2. CASE c \in Part(q)
    BY <1>2, <1>3, <2>2 DEF Part
  <2> QED BY <2>1, <2>2
<1>5. TurnOf(q, c) \in 1..Len(q)
  <2>1. Nth(M, c) \in M
    <3> HIDE DEF M
    <3> QED BY <1>1, <1>4, NthIs
  <2> QED BY <1>1, <2>1 DEF TurnOf
<1>6. TurnOf(q, c) \in 0..Len(q)
  BY <1>1, <1>5
<1>7. b \in 0..TurnOf(q, c) /\ Closed(q, b) /\ SecondEnds(q, b)
  BY <1>6, SafePrefix DEF Boundary
<1>8. b # 0
  <2> SUFFICES ASSUME b = 0 PROVE FALSE
    OBVIOUS
  <2>1. \A i \in M : ~(i <= 0)
    BY <1>1
  <2>2. {i \in M : i <= b} = {}
    BY <2>1
  <2>3. Frozen(q, c) = 0
    BY <2>2, FS_EmptySet DEF Frozen
  <2>4. Frozen(q, c) > 0
    <3>1. CASE c \in Whole(q)
      BY <3>1 DEF Whole
    <3>2. CASE c \in Part(q)
      <4>1. Frozen(q, c) = c
        BY <3>2 DEF Part
      <4> QED BY <1>4, <4>1
    <3> QED BY <3>1, <3>2
  <2> QED BY <2>3, <2>4
<1>9. b \in 1..Len(q)
  <2> HIDE DEF b
  <2> QED BY <1>1, <1>5, <1>7, <1>8
<1> QED BY <1>7, <1>9

\* The pass, in terms of the turns it has read: the boundary moves forward to
\* a second after which it has read more, the turns of that span join the
\* summary, and every call among them has its result among them.
Cut(q, s, n) ==
    /\ n.frozen \in 1..MaxSecond /\ n.frozen > s.frozen
    /\ \E j \in DOMAIN q : q[j].sec > n.frozen
    /\ \A x : x \in n.cover <=>
          \/ x \in s.cover
          \/ \E i \in DOMAIN q : q[i].id = x /\ q[i].raw /\ s.frozen < q[i].sec /\ q[i].sec <= n.frozen
    /\ \A i \in DOMAIN q :
          q[i].kind = "call" /\ q[i].raw /\ s.frozen < q[i].sec /\ q[i].sec <= n.frozen =>
             \E j \in DOMAIN q : q[j].ref = q[i].id /\ q[j].raw /\ q[j].sec <= n.frozen

LEMMA SummarisedIs ==
  ASSUME NEW q \in Seq(Turn), NEW s \in Summary,
         \A i, j \in DOMAIN q : i < j => q[i].sec <= q[j].sec,
         NEW c \in Whole(Eligible(q, s)) \cup Part(Eligible(q, s))
  PROVE Cut(q, s, Summarised(s, Eligible(q, s), c)) /\ Summarised(s, Eligible(q, s), c) \in Summary
<1> DEFINE e == Eligible(q, s)
           live == Live(q, s.frozen)
           P == {i \in DOMAIN q : q[i].sec > s.frozen}
           b == Boundary(e, c)
           new == Summarised(s, e, c)
<1>1. /\ live \in Seq(Turn) /\ Len(live) \in Nat /\ DOMAIN live = 1..Len(live)
      /\ \A n \in 1..Len(live) : Nth(P, n) \in P /\ live[n] = q[Nth(P, n)]
      /\ \A m, n \in 1..Len(live) : m < n <=> Nth(P, m) < Nth(P, n)
      /\ \A i \in P : \E n \in 1..Len(live) : i = Nth(P, n)
  <2>1. P \in SUBSET (DOMAIN q) /\ live = At(q, P)
    BY DEF Live
  <2> HIDE DEF P, live
  <2>2. live \in Seq(Turn) /\ Len(live) \in Nat /\ DOMAIN live = 1..Len(live)
    BY <2>1, AtIs
  <2>3. \A n \in DOMAIN live : Nth(P, n) \in P /\ live[n] = q[Nth(P, n)]
    BY <2>1, AtIs, Zenon
  <2>4. \A m, n \in DOMAIN live : m < n <=> Nth(P, m) < Nth(P, n)
    BY <2>1, AtIs, Zenon
  <2>5. \A j \in P : \E n \in DOMAIN live : j = Nth(P, n)
    <3>1. \A j \in P : \E n \in DOMAIN At(q, P) : j = Nth(P, n)
      BY <2>1, AtIs
    <3> QED BY <2>1, <3>1
  <2> QED BY <2>2, <2>3, <2>4, <2>5, Zenon
<1>2. e # << >>
  <2> SUFFICES ASSUME e = << >> PROVE FALSE
    OBVIOUS
  <2>1. Messages(e) = {}
    BY DEF Messages
  <2>2. Covered(e) = 0
    <3>1. Cardinality(Messages(e)) = 0
      BY <2>1, FS_EmptySet, Zenon
    <3>2. PassLimit \in Nat \ {0}
      BY ContextAssumption
    <3> HIDE DEF e
    <3> QED BY <3>1, <3>2 DEF Covered
  <2>3. Whole(e) = {} /\ Part(e) = {}
    BY <2>2 DEF Whole, Part
  <2> QED BY <2>3
<1>3. PICK n \in Nat : n < Len(live) /\ e = SubSeq(live, 1, n) /\ SecondEnds(live, n)
  BY <1>2, EligibleIs
<1>4. e \in Seq(Turn) /\ Len(e) = n /\ \A i \in 1..n : e[i] = live[i]
  <2> HIDE DEF e, live
  <2> QED BY <1>1, <1>3
<1>5. b \in 1..n /\ Closed(e, b) /\ SecondEnds(e, b)
  <2>1. c \in Whole(e) \cup Part(e)
    OBVIOUS
  <2> HIDE DEF e
  <2> QED BY <1>4, <2>1, BoundaryIs
<1>6. /\ b \in Nat /\ b >= 1 /\ b <= n /\ b + 1 \in 1..Len(live) /\ b \in 1..Len(live)
      /\ \A i \in 1..b : i \in 1..n /\ i \in 1..Len(live)
  <2> HIDE DEF b, live
  <2> QED BY <1>1, <1>3, <1>5
<1>7. /\ \A i \in 1..Len(live) : live[i] \in Turn /\ live[i].sec \in 1..MaxSecond /\ live[i].id \in Id
      /\ \A i \in DOMAIN q : q[i].sec \in Nat
      /\ s.frozen \in 0..MaxSecond /\ MaxSecond \in Nat /\ s.cover \in SUBSET Id
  <2>1. \A i \in 1..Len(live) : live[i] \in Turn
    <3> HIDE DEF live
    <3> QED BY <1>1
  <2>2. \A i \in DOMAIN q : q[i] \in Turn
    OBVIOUS
  <2> HIDE DEF live
  <2> QED BY <2>1, <2>2, ContextAssumption DEF Turn, Summary
<1>8. new = [frozen |-> e[b].sec, cover |-> s.cover \cup {e[i].id : i \in {j \in 1..b : e[j].raw}}]
  BY DEF Summarised
<1>9. /\ new.frozen = live[b].sec
      /\ \A x : x \in new.cover <=> x \in s.cover \/ \E i \in 1..b : live[i].id = x /\ live[i].raw
  <2> HIDE DEF new, e, b, live
  <2>1. e[b] = live[b] /\ \A i \in 1..b : e[i] = live[i]
    BY <1>4, <1>5, <1>6
  <2>2. new.frozen = live[b].sec
    BY <1>8, <2>1
  <2>3. new.cover = s.cover \cup {e[i].id : i \in {j \in 1..b : e[j].raw}}
    BY <1>8
  <2> QED BY <2>1, <2>2, <2>3
<1>10. new \in Summary
  <2>1. new.frozen \in 0..MaxSecond
    <3> HIDE DEF new, b, live
    <3> QED BY <1>6, <1>7, <1>9
  <2>2. \A x \in new.cover : x \in Id
    <3> HIDE DEF new, b, live
    <3> QED BY <1>6, <1>7, <1>9
  <2>3. new = [frozen |-> new.frozen, cover |-> new.cover]
    BY <1>8
  <2> HIDE DEF new
  <2> QED BY <2>1, <2>2, <2>3 DEF Summary
<1> HIDE DEF new, e, b, live
\* The live turns are in order, and all of them before the boundary's second
\* ends are summarised.
<1>11. \A i, j \in 1..Len(live) : i <= j => live[i].sec <= live[j].sec
  <2> SUFFICES ASSUME NEW i \in 1..Len(live), NEW j \in 1..Len(live), i <= j
               PROVE live[i].sec <= live[j].sec
    OBVIOUS
  <2>1. CASE i = j
    BY <2>1, <1>7
  <2>2. CASE i < j
    <3>1. Nth(P, i) < Nth(P, j) /\ Nth(P, i) \in DOMAIN q /\ Nth(P, j) \in DOMAIN q
      BY <1>1, <2>2
    <3>2. q[Nth(P, i)].sec <= q[Nth(P, j)].sec
      BY <3>1
    <3> QED BY <1>1, <3>2
  <2> QED BY <2>1, <2>2
<1>12. live[b].sec < live[b + 1].sec
  <2>1. CASE b = n
    <3>0. n \in Nat /\ n >= 1 /\ n < Len(live) /\ Len(live) \in Nat
      BY <1>1, <1>3, <1>6, <2>1
    <3>1. n \notin {0, Len(live)}
      BY <3>0
    <3> QED BY <1>3, <2>1, <3>1 DEF SecondEnds
  <2>2. CASE b # n
    <3>1. b \notin {0, Len(e)} /\ b + 1 \in 1..n
      BY <1>4, <1>6, <2>2
    <3>2. e[b].sec < e[b + 1].sec
      BY <1>5, <3>1 DEF SecondEnds
    <3>3. e[b] = live[b] /\ e[b + 1] = live[b + 1]
      BY <1>4, <1>6, <3>1
    <3> QED BY <3>2, <3>3
  <2> QED BY <2>1, <2>2
<1>13. \A i \in 1..Len(live) : live[i].sec <= live[b].sec <=> i \in 1..b
  <2> SUFFICES ASSUME NEW i \in 1..Len(live) PROVE live[i].sec <= live[b].sec <=> i \in 1..b
    OBVIOUS
  <2>1. CASE i <= b
    BY <1>6, <1>11, <2>1
  <2>2. CASE i > b
    <3>1. live[b + 1].sec <= live[i].sec
      <4>1. b + 1 <= i
        BY <1>6, <2>2
      <4> QED BY <1>6, <1>11, <4>1
    <3>2. live[i].sec \in Nat /\ live[b].sec \in Nat /\ live[b + 1].sec \in Nat
      BY <1>6, <1>7
    <3>3. ~(live[i].sec <= live[b].sec)
      BY <1>12, <3>1, <3>2
    <3>4. i \notin 1..b
      BY <1>6, <2>2
    <3> QED BY <3>3, <3>4
  <2>3. i \in Nat /\ b \in Nat
    BY <1>6
  <2> QED BY <2>1, <2>2, <2>3
<1>14. \A i \in 1..Len(live) : s.frozen < live[i].sec
  <2> SUFFICES ASSUME NEW i \in 1..Len(live) PROVE s.frozen < live[i].sec
    OBVIOUS
  <2>1. Nth(P, i) \in P /\ live[i] = q[Nth(P, i)]
    BY <1>1
  <2>2. q[Nth(P, i)].sec > s.frozen
    BY <2>1
  <2>3. live[i].sec > s.frozen
    BY <2>1, <2>2
  <2> QED BY <1>7, <2>3
\* A turn of q after the old boundary is a live one.
<1>15. ASSUME NEW i \in DOMAIN q, s.frozen < q[i].sec
       PROVE \E k \in 1..Len(live) : live[k] = q[i]
  <2>1. i \in P
    BY <1>7, <1>15
  <2>2. PICK k \in 1..Len(live) : i = Nth(P, k)
    BY <1>1, <2>1
  <2>3. live[k] = q[i]
    BY <1>1, <2>2
  <2> QED BY <2>3
<1>16. \A k \in 1..Len(live) : \E i \in DOMAIN q : live[k] = q[i]
  BY <1>1
<1>17. /\ new.frozen \in 1..MaxSecond /\ new.frozen > s.frozen
       /\ \E j \in DOMAIN q : q[j].sec > new.frozen
  <2>1. new.frozen \in 1..MaxSecond /\ new.frozen > s.frozen
    BY <1>6, <1>7, <1>9, <1>14
  <2>2. PICK j \in DOMAIN q : q[j] = live[b + 1]
    BY <1>6, <1>16
  <2>3. live[b].sec \in Nat /\ live[b + 1].sec \in Nat
    BY <1>6, <1>7
  <2>4. q[j].sec > new.frozen
    BY <1>9, <1>12, <2>2, <2>3
  <2> QED BY <2>1, <2>4
<1>18. ASSUME NEW x
       PROVE x \in new.cover <=>
               \/ x \in s.cover
               \/ \E i \in DOMAIN q : q[i].id = x /\ q[i].raw /\ s.frozen < q[i].sec /\ q[i].sec <= new.frozen
  <2>1. ASSUME NEW k \in 1..b, live[k].id = x, live[k].raw
        PROVE \E i \in DOMAIN q : q[i].id = x /\ q[i].raw /\ s.frozen < q[i].sec /\ q[i].sec <= new.frozen
    <3>1. k \in 1..Len(live)
      BY <1>6
    <3>2. s.frozen < live[k].sec /\ live[k].sec <= new.frozen
      BY <1>9, <1>13, <1>14, <3>1
    <3> QED BY <1>16, <2>1, <3>1, <3>2
  <2>2. ASSUME NEW i \in DOMAIN q, q[i].id = x, q[i].raw, s.frozen < q[i].sec, q[i].sec <= new.frozen
        PROVE \E k \in 1..b : live[k].id = x /\ live[k].raw
    <3>1. PICK k \in 1..Len(live) : live[k] = q[i]
      BY <1>15, <2>2
    <3>2. k \in 1..b
      BY <1>9, <1>13, <2>2, <3>1
    <3> QED BY <2>2, <3>1, <3>2
  <2> QED BY <1>9, <2>1, <2>2
<1>19. ASSUME NEW i \in DOMAIN q, q[i].kind = "call", q[i].raw, s.frozen < q[i].sec, q[i].sec <= new.frozen
       PROVE \E j \in DOMAIN q : q[j].ref = q[i].id /\ q[j].raw /\ q[j].sec <= new.frozen
  <2>1. PICK k \in 1..Len(live) : live[k] = q[i]
    BY <1>15, <1>19
  <2>2. k \in 1..b
    BY <1>9, <1>13, <1>19, <2>1
  <2>3. e[k] = live[k]
    BY <1>4, <1>6, <2>2
  <2>4. PICK m \in k + 1..b : e[m].ref = e[k].id /\ e[m].raw
    BY <1>5, <1>19, <2>1, <2>2, <2>3 DEF Closed
  <2>5. m \in 1..b
    BY <2>2, <2>4
  <2>6. e[m] = live[m] /\ m \in 1..Len(live)
    BY <1>4, <1>6, <2>5
  <2>7. live[m].sec <= new.frozen
    BY <1>9, <1>13, <2>5, <2>6
  <2>8. PICK j \in DOMAIN q : live[m] = q[j]
    BY <1>16, <2>6
  <2> QED BY <2>1, <2>3, <2>4, <2>6, <2>7, <2>8
<1>20. Cut(q, s, new)
  BY <1>17, <1>18, <1>19 DEF Cut
<1> QED BY <1>10, <1>20 DEF new, e


-----------------------------------------------------------------------------
(* The inductive invariant                                                 *)

\* The states of the table that someone still holds, and the summaries that
\* are stored or to be stored.
Known == {turns, reader.turns} \cup {pass[k].turns : k \in Kind}
Summaries == {summary} \cup {pass[k].next : k \in Kind}

\* A table of turns: in order, of the past, with one result for a call.
Table(q) ==
    /\ \A i, j \in DOMAIN q : i < j => q[i].id < q[j].id /\ q[i].sec <= q[j].sec
    /\ \A i \in DOMAIN q : q[i].id <= added /\ q[i].sec <= second /\ q[i].ref \in answered \cup {0}

\* The same turn, whose body may have been thrown away since.
Later(t, u) == t.id = u.id /\ t.sec = u.sec /\ t.kind = u.kind /\ t.ref = u.ref /\ (u.raw => t.raw)

\* Every stored turn was in q already or is younger than all of it.
Since(q) ==
    /\ \A j \in DOMAIN turns :
          \/ \E i \in DOMAIN q : Later(q[i], turns[j])
          \/ \A i \in DOMAIN q : q[i].id < turns[j].id /\ q[i].sec <= turns[j].sec
    /\ \A i \in DOMAIN q, j \in DOMAIN turns :
          q[i].ref = turns[j].ref /\ turns[j].ref # 0 => q[i].id = turns[j].id

\* A turn has one second wherever it is known, and ids follow the seconds.
Agree(p, q) == \A i \in DOMAIN p, j \in DOMAIN q :
    /\ p[i].id = q[j].id => p[i].sec = q[j].sec
    /\ p[i].sec < q[j].sec => p[i].id < q[j].id

\* A summary stands for turns up to its boundary, which the clock has passed,
\* and for none that is younger than one after it.
UpTo(s, q) == \A i \in DOMAIN q :
    /\ q[i].id \in s.cover => q[i].sec <= s.frozen
    /\ q[i].sec > s.frozen => \A x \in s.cover : x < q[i].id
Past(s) == s.cover \subseteq 1..added /\ s.frozen < second

\* No exchange is open at the boundary of s: a stored call before it has had
\* its result, and that is before it as well.
Shut(s) ==
    \A i \in DOMAIN turns : turns[i].kind = "call" /\ turns[i].raw /\ turns[i].sec <= s.frozen =>
        /\ turns[i].id \in answered
        /\ \A j \in DOMAIN turns : turns[j].ref = turns[i].id => turns[j].sec <= s.frozen

\* A turn before the boundary of s that has its body is in s.
Full(s) == \A j \in DOMAIN turns : turns[j].raw /\ turns[j].sec <= s.frozen => turns[j].id \in s.cover

\* A reference is to a call.
Calls ==
    /\ answered \subseteq 1..added
    /\ \A i, j \in DOMAIN turns : turns[i].id = turns[j].ref => turns[i].kind = "call"

World ==
    /\ Calls
    /\ \A q \in Known : Table(q) /\ Since(q)
    /\ \A p, q \in Known : Agree(p, q)
    /\ \A s \in Summaries : Past(s) /\ Shut(s) /\ Full(s) /\ \A q \in Known : UpTo(s, q)

\* s stands for every stored turn up to its boundary.
Complete(s) == \A j \in DOMAIN turns : turns[j].sec <= s.frozen => turns[j].id \in s.cover

\* The pass has a summary that extends the stored one.
Extending(k) ==
    /\ pass[k].at = "save" \/ (pass[k].at = "advance" /\ ~pass[k].first)
    /\ ~(pass[k].first /\ k \in {"rebuild", "clear"})
Extended(s) == summary.frozen <= s.frozen /\ summary.cover \subseteq s.cover /\ Complete(s)

Grows == \A k \in Kind : Extending(k) =>
            summary.frozen <= pass[k].next.frozen /\ summary.cover \subseteq pass[k].next.cover

\* What was summarised is remembered, and what a sweep will prune was.
Stored ==
    /\ summary.cover \subseteq saved /\ saved \subseteq 1..added
    /\ sweep.at = "prune" =>
          /\ sweep.frozen < second
          /\ \A j \in DOMAIN turns : turns[j].raw /\ turns[j].sec <= sweep.frozen => turns[j].id \in saved

Fresh == \A k \in Kind : pass[k].at \in {"idle", "turns"} => pass[k].first

\* Without the user's word nothing is forgotten.
Kept ==
    resets = 0 =>
        /\ Complete(summary)
        /\ \A j \in DOMAIN turns : ~turns[j].raw => turns[j].sec <= summary.frozen
        /\ \A k \in Kind : Extending(k) => Extended(pass[k].next)
        /\ sweep.at = "prune" => sweep.frozen <= summary.frozen

CompactionInv == TypeOK /\ Fresh /\ World /\ Grows /\ Stored /\ Kept

-----------------------------------------------------------------------------
(* What the turns and the summaries say of each other                      *)

LEMMA TurnFields ==
  ASSUME NEW q \in Seq(Turn), NEW i \in DOMAIN q
  PROVE /\ q[i] \in Turn /\ q[i].id \in Nat /\ q[i].id >= 1 /\ q[i].id \in Id
        /\ q[i].sec \in Nat /\ q[i].sec >= 1
        /\ q[i].ref \in Nat /\ q[i].raw \in BOOLEAN /\ q[i].kind \in {"text", "call", "result"}
<1>1. q[i] \in Turn
  OBVIOUS
<1> QED BY <1>1, ContextAssumption DEF Turn, Id

LEMMA KnownTypes ==
  ASSUME TypeOK
  PROVE /\ \A q \in Known : q \in Seq(Turn)
        /\ \A s \in Summaries : s \in Summary /\ s.frozen \in Nat
        /\ turns \in Known /\ reader.turns \in Known /\ summary \in Summaries
        /\ \A k \in Kind : pass[k].turns \in Known /\ pass[k].next \in Summaries
        /\ second \in Nat /\ added \in Nat
<1>1. \A k \in Kind : pass[k].turns \in Seq(Turn) /\ pass[k].next \in Summary
  BY DEF TypeOK
<1>2. \A s \in Summary : s.frozen \in Nat
  BY ContextAssumption DEF Summary
<1>3. second \in Nat /\ added \in Nat
  BY ContextAssumption DEF TypeOK
<1> QED BY <1>1, <1>2, <1>3 DEF TypeOK, Known, Summaries

\* The world is judged by the tables and summaries that may be in it.
LEMMA WorldFrom ==
  ASSUME NEW Q, NEW S, Calls', Known' \subseteq Q, Summaries' \subseteq S,
         \A q \in Q : Table(q)' /\ Since(q)',
         \A p, q \in Q : Agree(p, q),
         \A s \in S : Past(s)' /\ Shut(s)' /\ Full(s)' /\ \A q \in Q : UpTo(s, q)
  PROVE World'
<1>1. \A q \in Known' : q \in Q
  OBVIOUS
<1>2. \A s \in Summaries' : s \in S
  OBVIOUS
<1>3. \A q \in Known' : Table(q)' /\ Since(q)'
  BY <1>1
<1>4. \A p, q \in Known' : Agree(p, q)'
  BY <1>1 DEF Agree
<1>5. \A s \in Summaries' : Past(s)' /\ Shut(s)' /\ Full(s)' /\ \A q \in Known' : UpTo(s, q)'
  BY <1>1, <1>2 DEF UpTo
<1> QED BY <1>3, <1>4, <1>5 DEF World

\* What every step but that of an append leaves of the table of turns.
Shrinks ==
    /\ turns' \in Seq(Turn)
    /\ \A j \in DOMAIN turns' : \E i \in DOMAIN turns : Later(turns[i], turns'[j])
    /\ \A i, j \in DOMAIN turns' : i < j => turns'[i].id < turns'[j].id /\ turns'[i].sec <= turns'[j].sec
    /\ added' = added /\ answered' = answered
    /\ second' \in Nat /\ second <= second'

LEMMA ShrinkKeeps ==
  ASSUME TypeOK, World, Shrinks,
         Known' \subseteq Known \cup {turns', << >>}, Summaries' \subseteq Summaries \cup {NoSummary}
  PROVE World'
<1> DEFINE Q == Known \cup {turns', << >>}  S == Summaries \cup {NoSummary}
<1>0. /\ turns \in Known /\ \A q \in Known : q \in Seq(Turn)
      /\ \A s \in Summaries : s.frozen \in Nat
      /\ second \in Nat /\ added \in Nat
  BY KnownTypes
<1>1. \A j \in DOMAIN turns' : \E i \in DOMAIN turns :
        /\ turns[i].id = turns'[j].id /\ turns[i].sec = turns'[j].sec /\ turns[i].kind = turns'[j].kind
        /\ turns[i].ref = turns'[j].ref /\ (turns'[j].raw => turns[i].raw)
  BY DEF Shrinks, Later
<1>2. \A i \in DOMAIN turns' : turns'[i].sec \in Nat /\ turns'[i].sec >= 1
  BY TurnFields DEF Shrinks
<1>3. Table(turns) /\ Since(turns) /\ \A q \in Known : Agree(turns, q) /\ Agree(q, turns)
  BY <1>0 DEF World
<1>4. Calls'
  BY <1>1 DEF World, Calls, Shrinks
<1>5. ASSUME NEW q \in Known PROVE Table(q)' /\ Since(q)'
  <2>1. Table(q) /\ Since(q) /\ q \in Seq(Turn)
    BY <1>0 DEF World
  <2>2. \A i \in DOMAIN q : q[i].sec \in Nat
    BY <2>1, TurnFields
  <2>3. Table(q)'
    BY <1>0, <2>1, <2>2 DEF Table, Shrinks
  <2>4. ASSUME NEW j \in DOMAIN turns'
        PROVE \/ \E i \in DOMAIN q : Later(q[i], turns'[j])
              \/ \A i \in DOMAIN q : q[i].id < turns'[j].id /\ q[i].sec <= turns'[j].sec
    <3>1. PICK i \in DOMAIN turns :
             /\ turns[i].id = turns'[j].id /\ turns[i].sec = turns'[j].sec /\ turns[i].kind = turns'[j].kind
             /\ turns[i].ref = turns'[j].ref /\ (turns'[j].raw => turns[i].raw)
      BY <1>1
    <3> QED BY <2>1, <3>1 DEF Since, Later
  <2>5. ASSUME NEW i \in DOMAIN q, NEW j \in DOMAIN turns', q[i].ref = turns'[j].ref, turns'[j].ref # 0
        PROVE q[i].id = turns'[j].id
    BY <1>1, <2>1, <2>5 DEF Since
  <2>6. Since(q)'
    BY <2>4, <2>5 DEF Since
  <2> QED BY <2>3, <2>6
<1>6. Table(turns)' /\ Since(turns)'
  <2>0. ASSUME NEW i \in DOMAIN turns'
        PROVE turns'[i].id <= added' /\ turns'[i].sec <= second' /\ turns'[i].ref \in answered' \cup {0}
    <3>1. PICK m \in DOMAIN turns :
             turns[m].id = turns'[i].id /\ turns[m].sec = turns'[i].sec /\ turns[m].ref = turns'[i].ref
      BY <1>1
    <3>2. turns[m].id <= added /\ turns[m].sec <= second /\ turns[m].ref \in answered \cup {0}
      BY <1>3 DEF Table
    <3>3. turns'[i].sec \in Nat
      BY <1>2
    <3> QED BY <1>0, <3>1, <3>2, <3>3 DEF Shrinks
  <2>1. Table(turns)'
    BY <2>0 DEF Table, Shrinks
  <2>2. \A j \in DOMAIN turns' : Later(turns'[j], turns'[j])
    BY DEF Later
  <2>3. ASSUME NEW i \in DOMAIN turns', NEW j \in DOMAIN turns', turns'[i].ref = turns'[j].ref, turns'[j].ref # 0
        PROVE turns'[i].id = turns'[j].id
    <3>1. PICK m \in DOMAIN turns : turns[m].id = turns'[i].id /\ turns[m].ref = turns'[i].ref
      BY <1>1
    <3>2. PICK n \in DOMAIN turns : turns[n].id = turns'[j].id /\ turns[n].ref = turns'[j].ref
      BY <1>1
    <3> QED BY <1>3, <2>3, <3>1, <3>2 DEF Since
  <2>4. Since(turns)'
    BY <2>2, <2>3 DEF Since
  <2> QED BY <2>1, <2>4
<1>7. \A q : q = << >> => Table(q)' /\ Since(q)'
  BY DEF Table, Since
<1>8. ASSUME NEW p \in Q, NEW q \in Q PROVE Agree(p, q)
  <2>1. \A p0, q0 \in Known : Agree(p0, q0)
    BY DEF World
  <2>2. ASSUME NEW p0 \in Known PROVE Agree(p0, turns') /\ Agree(turns', p0)
    BY <1>1, <1>3 DEF Agree
  <2>3. Agree(turns', turns')
    BY <1>1, <1>3, <1>0, <2>2 DEF Agree
  <2>4. \A p0 : Agree(p0, << >>) /\ Agree(<< >>, p0)
    BY DEF Agree
  <2> QED BY <2>1, <2>2, <2>3, <2>4
<1>9. ASSUME NEW s \in Summaries PROVE Past(s)' /\ Shut(s)' /\ Full(s)' /\ \A q \in Q : UpTo(s, q)
  <2>1. Past(s) /\ Shut(s) /\ Full(s) /\ \A q \in Known : UpTo(s, q)
    BY DEF World
  <2>2. Past(s)'
    BY <1>0, <2>1 DEF Past, Shrinks
  <2>3. Shut(s)'
    <3> SUFFICES ASSUME NEW i \in DOMAIN turns', turns'[i].kind = "call", turns'[i].raw, turns'[i].sec <= s.frozen
                 PROVE /\ turns'[i].id \in answered'
                       /\ \A j \in DOMAIN turns' : turns'[j].ref = turns'[i].id => turns'[j].sec <= s.frozen
      BY DEF Shut
    <3>1. PICK m \in DOMAIN turns :
             turns[m].id = turns'[i].id /\ turns[m].sec = turns'[i].sec /\ turns[m].kind = "call" /\ turns[m].raw
      BY <1>1
    <3>2. /\ turns[m].id \in answered
          /\ \A j \in DOMAIN turns : turns[j].ref = turns[m].id => turns[j].sec <= s.frozen
      BY <2>1, <3>1 DEF Shut
    <3> QED BY <1>1, <3>1, <3>2 DEF Shrinks
  <2>4. UpTo(s, turns')
    BY <1>0, <1>1, <2>1 DEF UpTo
  <2>5. UpTo(s, << >>)
    BY DEF UpTo
  <2>6. Full(s)'
    BY <1>1, <2>1 DEF Full
  <2> QED BY <2>1, <2>2, <2>3, <2>4, <2>5, <2>6
<1>10. Past(NoSummary)' /\ Shut(NoSummary)' /\ Full(NoSummary)' /\ \A q \in Q : UpTo(NoSummary, q)
  <2>1. second' \in Nat /\ 0 < second'
    BY DEF Shrinks, TypeOK
  <2>2. NoSummary.frozen = 0 /\ NoSummary.cover = {}
    BY DEF NoSummary
  <2>3. Past(NoSummary)'
    BY <2>1, <2>2 DEF Past
  <2>4. Shut(NoSummary)'
    BY <1>2, <2>2 DEF Shut
  <2>5. Full(NoSummary)'
    BY <1>2, <2>2 DEF Full
  <2> QED BY <2>2, <2>3, <2>4, <2>5 DEF UpTo
<1> HIDE DEF Q, S
<1>11. Known' \subseteq Q /\ Summaries' \subseteq S
  BY DEF Q, S
<1>12. \A q \in Q : Table(q)' /\ Since(q)'
  <2> SUFFICES ASSUME NEW q \in Q PROVE Table(q)' /\ Since(q)'
    OBVIOUS
  <2>1. q \in Known \/ q = turns' \/ q = << >>
    BY DEF Q
  <2>2. q = turns' => Table(q)' /\ Since(q)'
    BY <1>6 DEF Table, Since
  <2> QED BY <2>1, <2>2, <1>5, <1>7
<1>13. \A s \in S : Past(s)' /\ Shut(s)' /\ Full(s)' /\ \A q \in Q : UpTo(s, q)
  <2> SUFFICES ASSUME NEW s \in S PROVE Past(s)' /\ Shut(s)' /\ Full(s)' /\ \A q \in Q : UpTo(s, q)
    OBVIOUS
  <2>1. s \in Summaries \/ s = NoSummary
    BY DEF S
  <2> QED BY <2>1, <1>9, <1>10
<1> QED BY <1>4, <1>8, <1>11, <1>12, <1>13, WorldFrom


\* A turn is added: no table that someone holds has it, and no summary.
LEMMA AddKeeps ==
  ASSUME TypeOK, World, NEW kind \in {"text", "call", "result"}, NEW ref, Add(kind, ref),
         ref = 0 \/ \E i \in DOMAIN turns : turns[i].kind = "call" /\ turns[i].id \notin answered /\ ref = turns[i].id
  PROVE World' /\ turns' \in Seq(Turn) /\ added' \in 0..MaxTurns /\ answered' \subseteq Id
<1> DEFINE new == [id |-> added + 1, sec |-> second, kind |-> kind, ref |-> ref, raw |-> TRUE]
           Q == Known \cup {turns'}  N == Len(turns)
<1>0. /\ turns \in Known /\ \A q \in Known : q \in Seq(Turn)
      /\ \A s \in Summaries : s.frozen \in Nat
      /\ second \in Nat /\ added \in Nat
  BY KnownTypes
<1>1. /\ added' = added + 1 /\ turns' = Append(turns, new) /\ answered' = answered \cup ({ref} \ {0})
      /\ second' = second /\ summary' = summary /\ pass' = pass /\ reader' = reader /\ added < MaxTurns
  BY DEF Add
<1>2. Table(turns) /\ Since(turns) /\ \A q \in Known : Agree(turns, q) /\ Agree(q, turns)
  BY <1>0 DEF World
<1>3. ref \in Nat /\ ref <= added /\ (ref # 0 => ref \notin answered)
  <2>1. \A i \in DOMAIN turns : turns[i].id \in Nat /\ turns[i].id <= added
    BY <1>0, <1>2, TurnFields DEF Table
  <2> QED BY <1>0, <2>1
<1>4. new \in Turn
  <2>1. added + 1 \in Id /\ second \in 1..MaxSecond /\ ref \in 0..MaxTurns
    BY <1>0, <1>1, <1>3, ContextAssumption DEF TypeOK, Id
  <2> QED BY <2>1 DEF Turn
<1>5. /\ turns' \in Seq(Turn) /\ Len(turns') = N + 1 /\ DOMAIN turns' = 1..N + 1 /\ N \in Nat
      /\ DOMAIN turns = 1..N /\ turns'[N + 1] = new /\ \A i \in 1..N : turns'[i] = turns[i]
  <2> HIDE DEF new
  <2> QED BY <1>0, <1>1, <1>4
<1>6. /\ turns'[N + 1].id = added + 1 /\ turns'[N + 1].sec = second /\ turns'[N + 1].kind = kind
      /\ turns'[N + 1].ref = ref /\ turns'[N + 1].raw
  BY <1>5
<1> HIDE DEF new
<1>7. \A i \in DOMAIN turns' : (i \in DOMAIN turns /\ turns'[i] = turns[i]) \/ i = N + 1
  BY <1>5
<1>8. \A i \in DOMAIN turns : i \in DOMAIN turns' /\ turns'[i] = turns[i] /\ i < N + 1
  BY <1>5
<1>9. answered' \subseteq 1..added' /\ answered' \subseteq Id
  <2>1. answered \subseteq 1..added /\ answered \subseteq Id
    BY DEF World, Calls, TypeOK
  <2>2. ref # 0 => ref \in 1..added + 1 /\ ref \in Id
    BY <1>0, <1>1, <1>3, ContextAssumption DEF Id, TypeOK
  <2>3. \A x \in 1..added : x \in 1..added + 1
    BY <1>0
  <2> QED BY <1>1, <2>1, <2>2, <2>3
<1> HIDE DEF N
\* What was known of a table.
<1>10. ASSUME NEW q \in Known
       PROVE /\ Table(q) /\ Since(q) /\ q \in Seq(Turn)
             /\ \A i \in DOMAIN q : /\ q[i].id \in Nat /\ q[i].id <= added /\ q[i].sec \in Nat
                                    /\ q[i].sec <= second /\ q[i].ref \in answered \cup {0}
  <2>1. Table(q) /\ Since(q) /\ q \in Seq(Turn)
    BY <1>0 DEF World
  <2> QED BY <2>1, TurnFields DEF Table
<1>11. Calls'
  <2> SUFFICES ASSUME NEW i \in DOMAIN turns', NEW j \in DOMAIN turns', turns'[i].id = turns'[j].ref
               PROVE turns'[i].kind = "call"
    BY <1>9 DEF Calls
  <2>1. answered \subseteq 1..added
    BY DEF World, Calls
  <2>2. \A m \in DOMAIN turns : turns[m].ref \in Nat /\ turns[m].ref <= added /\ turns[m].id \in Nat
    <3> SUFFICES ASSUME NEW m \in DOMAIN turns
                 PROVE turns[m].ref \in Nat /\ turns[m].ref <= added /\ turns[m].id \in Nat
      OBVIOUS
    <3>1. turns[m].ref \in answered \cup {0} /\ turns[m].id \in Nat
      BY <1>0, <1>10
    <3>2. turns[m].ref \in 1..added \/ turns[m].ref = 0
      BY <2>1, <3>1
    <3> QED BY <1>0, <3>1, <3>2
  <2>3. turns'[j].ref \in Nat /\ turns'[j].ref <= added
    BY <1>3, <1>6, <1>7, <2>2
  <2>4. i \in DOMAIN turns /\ turns'[i] = turns[i]
    BY <1>0, <1>6, <1>7, <2>3
  <2>5. CASE j \in DOMAIN turns /\ turns'[j] = turns[j]
    BY <2>4, <2>5 DEF World, Calls
  <2>6. CASE j = N + 1
    <3>1. turns[i].id = ref /\ ref # 0
      BY <1>0, <1>6, <2>4, <2>6, TurnFields
    <3>2. PICK m \in DOMAIN turns : turns[m].kind = "call" /\ ref = turns[m].id
      BY <3>1
    <3>3. ~(i < m) /\ ~(m < i)
      BY <1>2, <2>2, <2>4, <3>1, <3>2 DEF Table
    <3>4. i \in Nat /\ m \in Nat
      BY <1>0, <2>4
    <3>5. i = m
      BY <3>3, <3>4
    <3> QED BY <2>4, <3>2, <3>5
  <2> QED BY <1>7, <2>5, <2>6
<1>12. ASSUME NEW q \in Known PROVE Table(q)' /\ Since(q)'
  <2>1. Table(q)'
    BY <1>0, <1>1, <1>10 DEF Table
  <2>2. ASSUME NEW j \in DOMAIN turns'
        PROVE \/ \E i \in DOMAIN q : Later(q[i], turns'[j])
              \/ \A i \in DOMAIN q : q[i].id < turns'[j].id /\ q[i].sec <= turns'[j].sec
    <3>1. CASE j \in DOMAIN turns /\ turns'[j] = turns[j]
      BY <1>10, <3>1 DEF Since
    <3>2. CASE j = N + 1
      BY <1>0, <1>6, <1>10, <3>2
    <3> QED BY <1>7, <3>1, <3>2
  <2>3. ASSUME NEW i \in DOMAIN q, NEW j \in DOMAIN turns', q[i].ref = turns'[j].ref, turns'[j].ref # 0
        PROVE q[i].id = turns'[j].id
    <3>1. CASE j \in DOMAIN turns /\ turns'[j] = turns[j]
      BY <1>10, <2>3, <3>1 DEF Since
    <3>2. CASE j = N + 1
      BY <1>3, <1>6, <1>10, <2>3, <3>2
    <3> QED BY <1>7, <3>1, <3>2
  <2>4. Since(q)'
    BY <2>2, <2>3 DEF Since
  <2> QED BY <2>1, <2>4
<1>13. Table(turns)' /\ Since(turns)'
  <2>1. ASSUME NEW i \in DOMAIN turns', NEW j \in DOMAIN turns', i < j
        PROVE turns'[i].id < turns'[j].id /\ turns'[i].sec <= turns'[j].sec
    <3>1. i \in Nat /\ j \in Nat /\ j <= N + 1 /\ N + 1 \in Nat
      BY <1>5 DEF N
    <3>2. i \in DOMAIN turns /\ turns'[i] = turns[i]
      BY <1>7, <2>1, <3>1
    <3>3. CASE j \in DOMAIN turns /\ turns'[j] = turns[j]
      BY <1>2, <2>1, <3>2, <3>3 DEF Table
    <3>4. CASE j = N + 1
      BY <1>0, <1>6, <1>10, <3>2, <3>4
    <3> QED BY <1>7, <3>3, <3>4
  <2>2. ASSUME NEW i \in DOMAIN turns'
        PROVE turns'[i].id <= added' /\ turns'[i].sec <= second' /\ turns'[i].ref \in answered' \cup {0}
    <3>1. CASE i \in DOMAIN turns /\ turns'[i] = turns[i]
      BY <1>0, <1>1, <1>10, <3>1
    <3>2. CASE i = N + 1
      BY <1>0, <1>1, <1>3, <1>6, <3>2
    <3> QED BY <1>7, <3>1, <3>2
  <2>3. \A j \in DOMAIN turns' : Later(turns'[j], turns'[j])
    BY DEF Later
  <2>4. ASSUME NEW i \in DOMAIN turns', NEW j \in DOMAIN turns', turns'[i].ref = turns'[j].ref, turns'[j].ref # 0
        PROVE turns'[i].id = turns'[j].id
    <3>1. CASE i \in DOMAIN turns /\ turns'[i] = turns[i]
      <4>1. j \in DOMAIN turns /\ turns'[j] = turns[j]
        BY <1>0, <1>3, <1>6, <1>7, <1>10, <2>4, <3>1
      <4> QED BY <1>2, <2>4, <3>1, <4>1 DEF Since
    <3>2. CASE i = N + 1
      <4>1. j = N + 1
        BY <1>0, <1>3, <1>6, <1>7, <1>10, <2>4, <3>2
      <4> QED BY <3>2, <4>1
    <3> QED BY <1>7, <3>1, <3>2
  <2> QED BY <2>1, <2>2, <2>3, <2>4 DEF Table, Since
<1>14. \A q : q = turns' => Table(q)' /\ Since(q)'
  BY <1>13 DEF Table, Since
<1>15. ASSUME NEW p \in Q, NEW q \in Q PROVE Agree(p, q)
  <2>1. \A p0, q0 \in Known : Agree(p0, q0)
    BY DEF World
  <2>2. ASSUME NEW p0 \in Known PROVE Agree(p0, turns') /\ Agree(turns', p0)
    <3> SUFFICES ASSUME NEW i \in DOMAIN p0, NEW j \in DOMAIN turns'
                 PROVE /\ p0[i].id = turns'[j].id => p0[i].sec = turns'[j].sec
                       /\ p0[i].sec < turns'[j].sec => p0[i].id < turns'[j].id
                       /\ turns'[j].sec < p0[i].sec => turns'[j].id < p0[i].id
      BY DEF Agree
    <3>1. p0[i].id \in Nat /\ p0[i].id <= added /\ p0[i].sec \in Nat /\ p0[i].sec <= second
      BY <1>10
    <3>2. CASE j \in DOMAIN turns /\ turns'[j] = turns[j]
      BY <1>2, <3>2 DEF Agree
    <3>3. CASE j = N + 1
      BY <1>0, <1>6, <3>1, <3>3
    <3> QED BY <1>7, <3>2, <3>3
  <2>3. Agree(turns', turns')
    <3> SUFFICES ASSUME NEW i \in DOMAIN turns', NEW j \in DOMAIN turns'
                 PROVE /\ turns'[i].id = turns'[j].id => turns'[i].sec = turns'[j].sec
                       /\ turns'[i].sec < turns'[j].sec => turns'[i].id < turns'[j].id
      BY DEF Agree
    <3>1. CASE i \in DOMAIN turns /\ turns'[i] = turns[i]
      BY <1>0, <2>2, <3>1 DEF Agree
    <3>2. CASE j \in DOMAIN turns /\ turns'[j] = turns[j]
      BY <1>0, <2>2, <3>2 DEF Agree
    <3>3. CASE i = N + 1 /\ j = N + 1
      BY <1>0, <1>6, <3>3
    <3> QED BY <1>7, <3>1, <3>2, <3>3
  <2> QED BY <2>1, <2>2, <2>3
<1>16. ASSUME NEW s \in Summaries PROVE Past(s)' /\ Shut(s)' /\ Full(s)' /\ \A q \in Q : UpTo(s, q)
  <2>1. Past(s) /\ Shut(s) /\ Full(s) /\ (\A q \in Known : UpTo(s, q)) /\ s.frozen \in Nat
    BY <1>0 DEF World
  <2>2. Past(s)'
    <3>1. \A x \in 1..added : x \in 1..added + 1
      BY <1>0
    <3> QED BY <1>1, <2>1, <3>1 DEF Past
  <2>3. s.frozen < second
    BY <2>1 DEF Past
  <2>4. Shut(s)'
    <3> SUFFICES ASSUME NEW i \in DOMAIN turns', turns'[i].kind = "call", turns'[i].raw, turns'[i].sec <= s.frozen
                 PROVE /\ turns'[i].id \in answered'
                       /\ \A j \in DOMAIN turns' : turns'[j].ref = turns'[i].id => turns'[j].sec <= s.frozen
      BY DEF Shut
    <3>1. i \in DOMAIN turns /\ turns'[i] = turns[i]
      BY <1>0, <1>6, <1>7, <2>1, <2>3
    <3>2. /\ turns[i].id \in answered
          /\ \A j \in DOMAIN turns : turns[j].ref = turns[i].id => turns[j].sec <= s.frozen
      BY <2>1, <3>1 DEF Shut
    <3>3. turns[i].id # 0
      BY <1>0, <3>1, TurnFields
    <3>4. ref # turns[i].id
      BY <1>3, <3>2, <3>3
    <3> QED BY <1>1, <1>6, <1>7, <3>1, <3>2, <3>4
  <2>5. UpTo(s, turns')
    <3> SUFFICES ASSUME NEW i \in DOMAIN turns'
                 PROVE /\ turns'[i].id \in s.cover => turns'[i].sec <= s.frozen
                       /\ turns'[i].sec > s.frozen => \A x \in s.cover : x < turns'[i].id
      BY DEF UpTo
    <3>1. \A x \in s.cover : x \in Nat /\ x <= added
      BY <1>0, <2>1 DEF Past
    <3>2. CASE i \in DOMAIN turns /\ turns'[i] = turns[i]
      BY <1>0, <2>1, <3>2 DEF UpTo
    <3>3. CASE i = N + 1
      BY <1>0, <1>6, <3>1, <3>3
    <3> QED BY <1>7, <3>2, <3>3
  <2>6. Full(s)'
    <3> SUFFICES ASSUME NEW i \in DOMAIN turns', turns'[i].raw, turns'[i].sec <= s.frozen
                 PROVE turns'[i].id \in s.cover
      BY DEF Full
    <3>1. i \in DOMAIN turns /\ turns'[i] = turns[i]
      BY <1>0, <1>6, <1>7, <2>1, <2>3
    <3> QED BY <2>1, <3>1 DEF Full
  <2> QED BY <2>1, <2>2, <2>4, <2>5, <2>6
<1>17. Known' \subseteq Q /\ Summaries' \subseteq Summaries
  BY <1>1 DEF Known, Summaries
<1>18. \A q \in Q : Table(q)' /\ Since(q)'
  BY <1>12, <1>14
<1> HIDE DEF Q
<1>19. World'
  BY <1>11, <1>15, <1>16, <1>17, <1>18, WorldFrom
<1> QED BY <1>1, <1>5, <1>9, <1>19, <1>0, ContextAssumption


\* A summary that a pass makes of a table it has read, whatever has become of
\* the stored table since.
LEMMA CutIsSound ==
  ASSUME TypeOK, World, NEW q \in Known, NEW s \in Summary, NEW n \in Summary, Cut(q, s, n),
         s \in Summaries \/ s = NoSummary
  PROVE /\ Past(n) /\ Shut(n) /\ Full(n) /\ \A p \in Known : UpTo(n, p)
        /\ s.frozen <= n.frozen /\ s.cover \subseteq n.cover
        /\ Complete(s) /\ (\A j \in DOMAIN turns : ~turns[j].raw => turns[j].sec <= s.frozen)
              => Complete(n)
<1>0. /\ turns \in Known /\ q \in Seq(Turn) /\ turns \in Seq(Turn)
      /\ second \in Nat /\ added \in Nat /\ n.frozen \in Nat /\ s.frozen \in Nat
      /\ \A p \in Known : p \in Seq(Turn)
  BY KnownTypes, ContextAssumption DEF Summary
<1>1. /\ s.cover \subseteq 1..added
      /\ \A p \in Known : UpTo(s, p)
      /\ Shut(s) /\ Full(s)
  <2>1. CASE s \in Summaries
    BY <2>1 DEF World, Past
  <2>2. CASE s = NoSummary
    <3>1. s.cover = {} /\ s.frozen = 0
      BY <2>2 DEF NoSummary
    <3>2. \A i \in DOMAIN turns : ~(turns[i].sec <= 0)
      BY <1>0, TurnFields
    <3> QED BY <3>1, <3>2 DEF UpTo, Shut, Full
  <2> QED BY <2>1, <2>2
<1>2. /\ n.frozen > s.frozen
      /\ \E j \in DOMAIN q : q[j].sec > n.frozen
      /\ \A x : x \in n.cover <=>
            \/ x \in s.cover
            \/ \E i \in DOMAIN q : q[i].id = x /\ q[i].raw /\ s.frozen < q[i].sec /\ q[i].sec <= n.frozen
      /\ \A i \in DOMAIN q :
            q[i].kind = "call" /\ q[i].raw /\ s.frozen < q[i].sec /\ q[i].sec <= n.frozen =>
               \E j \in DOMAIN q : q[j].ref = q[i].id /\ q[j].raw /\ q[j].sec <= n.frozen
  BY DEF Cut
<1>3. Table(q) /\ Since(q) /\ \A p \in Known : Agree(p, q)
  BY DEF World
<1>4. \A i \in DOMAIN q : /\ q[i].id \in Nat /\ q[i].id >= 1 /\ q[i].id <= added /\ q[i].sec \in Nat
                          /\ q[i].sec <= second /\ q[i].ref \in answered \cup {0}
  BY <1>0, <1>3, TurnFields DEF Table
<1>5. Past(n)
  <2>1. n.frozen < second
    BY <1>0, <1>2, <1>4
  <2>2. n.cover \subseteq 1..added
    <3> SUFFICES ASSUME NEW x \in n.cover PROVE x \in 1..added
      OBVIOUS
    <3>1. CASE x \in s.cover
      BY <1>1, <3>1
    <3>2. CASE \E i \in DOMAIN q : q[i].id = x
      BY <1>0, <1>4, <3>2
    <3> QED BY <1>2, <3>1, <3>2
  <2> QED BY <2>1, <2>2 DEF Past
<1>6. ASSUME NEW p \in Known PROVE UpTo(n, p)
  <2>0. \A i \in DOMAIN p : p[i].sec \in Nat
    BY <1>0, TurnFields
  <2>1. ASSUME NEW i \in DOMAIN p, p[i].id \in n.cover PROVE p[i].sec <= n.frozen
    <3>1. CASE p[i].id \in s.cover
      <4>1. p[i].sec <= s.frozen
        BY <1>1, <3>1 DEF UpTo
      <4> QED BY <1>0, <1>2, <2>0, <4>1
    <3>2. CASE \E j \in DOMAIN q : q[j].id = p[i].id /\ q[j].sec <= n.frozen
      BY <1>3, <3>2 DEF Agree
    <3> QED BY <1>2, <2>1, <3>1, <3>2
  <2>2. ASSUME NEW i \in DOMAIN p, p[i].sec > n.frozen, NEW x \in n.cover PROVE x < p[i].id
    <3>1. CASE x \in s.cover
      <4>1. p[i].sec > s.frozen
        BY <1>0, <1>2, <2>0, <2>2
      <4> QED BY <1>1, <3>1, <4>1 DEF UpTo
    <3>2. CASE \E j \in DOMAIN q : q[j].id = x /\ q[j].sec <= n.frozen
      <4>1. PICK j \in DOMAIN q : q[j].id = x /\ q[j].sec <= n.frozen
        BY <3>2
      <4>2. q[j].sec < p[i].sec
        BY <1>0, <1>4, <2>0, <2>2, <4>1
      <4>3. Agree(q, p)
        BY DEF World
      <4> QED BY <4>1, <4>2, <4>3 DEF Agree
    <3> QED BY <1>2, <3>1, <3>2
  <2> QED BY <2>1, <2>2 DEF UpTo
\* A stored turn between the boundaries is one that was read.
<1>7. ASSUME NEW j \in DOMAIN turns, turns[j].sec <= n.frozen
      PROVE \E i \in DOMAIN q : Later(q[i], turns[j])
  <2>1. turns[j].sec \in Nat
    BY <1>0, TurnFields
  <2>2. ~ \A i \in DOMAIN q : q[i].id < turns[j].id /\ q[i].sec <= turns[j].sec
    BY <1>0, <1>2, <1>4, <1>7, <2>1
  <2> QED BY <1>3, <2>2 DEF Since
<1>8. Shut(n)
  <2> SUFFICES ASSUME NEW i \in DOMAIN turns, turns[i].kind = "call", turns[i].raw, turns[i].sec <= n.frozen
               PROVE /\ turns[i].id \in answered
                     /\ \A j \in DOMAIN turns : turns[j].ref = turns[i].id => turns[j].sec <= n.frozen
    BY DEF Shut
  <2>0. \A j \in DOMAIN turns : turns[j].sec \in Nat /\ turns[j].id \in Nat /\ turns[j].id >= 1
    BY <1>0, TurnFields
  <2>1. CASE turns[i].sec <= s.frozen
    <3>1. /\ turns[i].id \in answered
          /\ \A j \in DOMAIN turns : turns[j].ref = turns[i].id => turns[j].sec <= s.frozen
      BY <1>1, <2>1 DEF Shut
    <3> QED BY <1>0, <1>2, <2>0, <3>1
  <2>2. CASE s.frozen < turns[i].sec
    <3>1. PICK m \in DOMAIN q : q[m].id = turns[i].id /\ q[m].sec = turns[i].sec /\ q[m].kind = "call" /\ q[m].raw
      BY <1>7 DEF Later
    <3>2. PICK r \in DOMAIN q : q[r].ref = turns[i].id /\ q[r].sec <= n.frozen
      BY <1>2, <2>2, <3>1
    <3>3. turns[i].id \in answered
      BY <1>4, <2>0, <3>2
    <3>4. ASSUME NEW j \in DOMAIN turns, turns[j].ref = turns[i].id PROVE turns[j].sec <= n.frozen
      <4>1. q[r].id = turns[j].id
        <5>1. turns[j].ref # 0
          BY <2>0, <3>4
        <5> QED BY <1>3, <3>2, <3>4, <5>1 DEF Since
      <4>2. turns[j].sec = q[r].sec
        BY <1>0, <1>3, <4>1 DEF Agree
      <4> QED BY <3>2, <4>2
    <3> QED BY <3>3, <3>4
  <2> QED BY <1>0, <2>0, <2>1, <2>2
<1>9. ASSUME Complete(s), \A j \in DOMAIN turns : ~turns[j].raw => turns[j].sec <= s.frozen
      PROVE  Complete(n)
  <2> SUFFICES ASSUME NEW j \in DOMAIN turns, turns[j].sec <= n.frozen PROVE turns[j].id \in n.cover
    BY DEF Complete
  <2>0. turns[j].sec \in Nat
    BY <1>0, TurnFields
  <2>1. CASE turns[j].sec <= s.frozen
    BY <1>2, <1>9, <2>1 DEF Complete
  <2>2. CASE s.frozen < turns[j].sec
    <3>1. turns[j].raw
      BY <1>0, <1>9, <2>0, <2>2
    <3>2. PICK i \in DOMAIN q : q[i].id = turns[j].id /\ q[i].sec = turns[j].sec /\ q[i].raw
      BY <1>7, <3>1 DEF Later
    <3> QED BY <1>2, <2>2, <3>2
  <2> QED BY <1>0, <2>0, <2>1, <2>2
<1>10. Full(n)
  <2> SUFFICES ASSUME NEW j \in DOMAIN turns, turns[j].raw, turns[j].sec <= n.frozen PROVE turns[j].id \in n.cover
    BY DEF Full
  <2>0. turns[j].sec \in Nat
    BY <1>0, TurnFields
  <2>1. CASE turns[j].sec <= s.frozen
    BY <1>1, <1>2, <2>1 DEF Full
  <2>2. CASE s.frozen < turns[j].sec
    <3>1. PICK i \in DOMAIN q : q[i].id = turns[j].id /\ q[i].sec = turns[j].sec /\ q[i].raw
      BY <1>7 DEF Later
    <3> QED BY <1>2, <2>2, <3>1
  <2> QED BY <1>0, <2>0, <2>1, <2>2
<1>11. s.frozen <= n.frozen /\ s.cover \subseteq n.cover
  BY <1>0, <1>2
<1> QED BY <1>5, <1>6, <1>8, <1>9, <1>10, <1>11


-----------------------------------------------------------------------------
(* The steps that leave the turns alone                                    *)

PassRecord == [at : {"idle", "turns", "advance", "save"}, turns : Seq(Turn),
               next : Summary, more : BOOLEAN, first : BOOLEAN]

Still == UNCHANGED <<second, added, turns, answered>>

LEMMA NoTypes ==
  /\ NoSummary \in Summary /\ NoSummary.frozen = 0 /\ NoSummary.cover = {}
  /\ NoPass \in PassRecord /\ NoPass.at = "idle" /\ NoPass.turns = << >> /\ NoPass.first
  /\ NoPass.next = NoSummary
<1>1. NoSummary \in Summary /\ NoSummary.frozen = 0 /\ NoSummary.cover = {}
  BY ContextAssumption DEF NoSummary, Summary
<1>2. << >> \in Seq(Turn)
  OBVIOUS
<1> QED BY <1>1, <1>2 DEF NoPass, PassRecord

LEMMA StillShrinks ==
  ASSUME TypeOK, World, Still PROVE Shrinks
<1>1. Table(turns) /\ second \in Nat
  BY KnownTypes DEF World
<1>2. \A j \in DOMAIN turns : Later(turns[j], turns[j])
  BY DEF Later
<1> QED BY <1>1, <1>2 DEF Shrinks, Still, TypeOK, Table

LEMMA StillKeeps ==
  ASSUME TypeOK, World, Still,
         \A k \in Kind : /\ pass'[k].turns \in Known \cup {<< >>}
                         /\ pass'[k].next \in Summaries \cup {NoSummary},
         reader'.turns \in Known \cup {<< >>}, summary' \in Summaries \cup {NoSummary}
  PROVE World'
<1>1. Known' \subseteq Known \cup {turns', << >>}
  <2>1. Known' = {turns', reader'.turns} \cup {pass'[k].turns : k \in Kind}
    BY DEF Known
  <2> HIDE DEF Known
  <2> QED BY <2>1
<1>2. Summaries' \subseteq Summaries \cup {NoSummary}
  <2>1. Summaries' = {summary'} \cup {pass'[k].next : k \in Kind}
    BY DEF Summaries
  <2> QED BY <2>1
<1> QED BY <1>1, <1>2, StillShrinks, ShrinkKeeps

LEMMA KeptStill ==
  ASSUME TypeOK, Kept, Still, UNCHANGED <<summary, resets>>,
         \A k \in Kind : Extending(k)' => Extending(k) /\ pass'[k].next = pass[k].next,
         sweep'.at = "prune" => \/ sweep.at = "prune" /\ sweep'.frozen = sweep.frozen
                                \/ sweep'.frozen = summary.frozen
  PROVE Kept'
<1> SUFFICES ASSUME resets' = 0 PROVE
        /\ Complete(summary)'
        /\ \A j \in DOMAIN turns' : ~turns'[j].raw => turns'[j].sec <= summary'.frozen
        /\ \A k \in Kind : Extending(k)' => Extended(pass[k].next)'
        /\ sweep'.at = "prune" => sweep'.frozen <= summary'.frozen
  BY DEF Kept
<1>1. /\ Complete(summary)
      /\ \A j \in DOMAIN turns : ~turns[j].raw => turns[j].sec <= summary.frozen
      /\ \A k \in Kind : Extending(k) => Extended(pass[k].next)
      /\ sweep.at = "prune" => sweep.frozen <= summary.frozen
  BY DEF Kept
<1>2. summary.frozen \in Nat
  BY KnownTypes
<1>3. Complete(summary)'
  BY <1>1 DEF Complete, Still
<1>4. ASSUME NEW k \in Kind, Extending(k)' PROVE Extended(pass[k].next)'
  <2>1. Extended(pass[k].next) /\ pass'[k].next = pass[k].next
    BY <1>1, <1>4
  <2> QED BY <2>1 DEF Extended, Complete, Still
<1> QED BY <1>1, <1>2, <1>3, <1>4 DEF Still

LEMMA GrowsStill ==
  ASSUME Grows, summary' = summary,
         \A k \in Kind : Extending(k)' => Extending(k) /\ pass'[k].next = pass[k].next
  PROVE Grows'
BY DEF Grows

LEMMA StoredStill ==
  ASSUME TypeOK, World, Stored, Still, UNCHANGED <<summary, saved>>,
         sweep'.at = "prune" => \/ sweep.at = "prune" /\ sweep'.frozen = sweep.frozen
                                \/ sweep'.frozen = summary.frozen
  PROVE Stored'
<1>1. summary.cover \subseteq saved /\ Past(summary) /\ Full(summary)
  BY KnownTypes DEF World, Stored
<1>2. CASE sweep'.at = "prune" /\ sweep'.frozen = summary.frozen
  BY <1>1, <1>2 DEF Stored, Still, Past, Full
<1>3. CASE sweep'.at = "prune" => sweep.at = "prune" /\ sweep'.frozen = sweep.frozen
  BY <1>3 DEF Stored, Still
<1> QED BY <1>2, <1>3

\* A step that no pass takes.
LEMMA QuietKeeps ==
  ASSUME CompactionInv, Still, UNCHANGED <<summary, resets, saved, pass>>,
         timer' \in BOOLEAN, inflight' \in BOOLEAN, asked' \in BOOLEAN,
         sweep'.at \in {"idle", "prune", "collapse"}, sweep'.frozen \in 0..MaxSecond,
         reader'.at \in {"idle", "summary"}, reader'.turns \in Known \cup {<< >>},
         sweep'.at = "prune" => \/ sweep.at = "prune" /\ sweep'.frozen = sweep.frozen
                                \/ sweep'.frozen = summary.frozen
  PROVE CompactionInv'
<1>1. TypeOK /\ World /\ Kept /\ Fresh /\ Grows /\ Stored
  BY DEF CompactionInv
<1>2. /\ \A k \in Kind : pass[k].turns \in Known /\ pass[k].next \in Summaries
      /\ summary \in Summaries /\ \A q \in Known : q \in Seq(Turn)
  BY <1>1, KnownTypes
<1>3. World'
  BY <1>1, <1>2, StillKeeps
<1>4. Kept'
  BY <1>1, KeptStill DEF Extending
<1>5. reader'.turns \in Seq(Turn)
  <2>1. << >> \in Seq(Turn)
    OBVIOUS
  <2> QED BY <1>2, <2>1
<1>6. TypeOK'
  BY <1>1, <1>5 DEF TypeOK, Still
<1>7. Fresh'
  BY <1>1 DEF Fresh
<1>8. Grows' /\ Stored'
  <2>1. \A k \in Kind : Extending(k)' => Extending(k) /\ pass'[k].next = pass[k].next
    BY DEF Extending
  <2> QED BY <1>1, <2>1, GrowsStill, StoredStill
<1> QED BY <1>3, <1>4, <1>6, <1>7, <1>8 DEF CompactionInv

\* A pass that has no summary to save, or one that is made from nothing.
LEMMA MoveKeeps ==
  ASSUME CompactionInv, NEW k \in Kind, NEW r \in PassRecord, pass' = [pass EXCEPT ![k] = r],
         r.turns \in {pass[k].turns, turns, << >>}, r.next \in {pass[k].next, NoSummary},
         r.at \in {"idle", "turns"} => r.first,
         \/ r.at \in {"idle", "turns"}
         \/ r.at = "advance" /\ r.first
         \/ r.first /\ k \in {"rebuild", "clear"},
         Still, UNCHANGED <<summary, sweep, reader, saved, resets>>,
         timer' \in BOOLEAN, inflight' \in BOOLEAN, asked' \in BOOLEAN
  PROVE CompactionInv'
<1>1. TypeOK /\ World /\ Kept /\ Fresh /\ Grows /\ Stored
  BY DEF CompactionInv
<1>2. /\ \A l \in Kind : pass[l].turns \in Known /\ pass[l].next \in Summaries
      /\ turns \in Known /\ reader.turns \in Known /\ summary \in Summaries
  BY <1>1, KnownTypes
<1>3. pass \in [Kind -> PassRecord]
  BY <1>1 DEF TypeOK, PassRecord
<1>4. /\ pass'[k] = r /\ \A l \in Kind : l # k => pass'[l] = pass[l]
      /\ pass' \in [Kind -> PassRecord]
  BY <1>3
<1>5. \A l \in Kind : pass'[l].turns \in Known \cup {<< >>} /\ pass'[l].next \in Summaries \cup {NoSummary}
  BY <1>2, <1>4
<1>6. World'
  BY <1>1, <1>2, <1>5, StillKeeps
<1>7. Fresh'
  BY <1>1, <1>4 DEF Fresh
<1>8. Kept' /\ Grows' /\ Stored'
  <2>1. ~Extending(k)'
    BY <1>4 DEF Extending
  <2>2. \A l \in Kind : Extending(l)' => Extending(l) /\ pass'[l].next = pass[l].next
    BY <1>4, <2>1 DEF Extending
  <2> QED BY <1>1, <2>2, KeptStill, GrowsStill, StoredStill
<1>9. TypeOK'
  BY <1>1, <1>4 DEF TypeOK, Still, PassRecord
<1> QED BY <1>6, <1>7, <1>8, <1>9 DEF CompactionInv

LEMMA PassFields ==
  ASSUME TypeOK, NEW k \in Kind
  PROVE pass[k] \in PassRecord
BY DEF TypeOK, PassRecord

LEMMA ClaimKeeps ==
  ASSUME CompactionInv, NEW k \in Kind, NEW at \in {"turns", "save"}, Claim(k, at), pass[k].at = "idle",
         at = "turns" \/ k = "clear",
         Still, UNCHANGED <<summary, sweep, reader, saved, resets>>, timer' \in BOOLEAN, asked' \in BOOLEAN
  PROVE CompactionInv'
<1> DEFINE r == [pass[k] EXCEPT !.at = at]
<1>1. TypeOK /\ Fresh
  BY DEF CompactionInv
<1>2. pass' = [pass EXCEPT ![k] = r] /\ inflight' \in BOOLEAN
  BY DEF Claim
<1>3. r \in PassRecord /\ r.at = at /\ r.turns = pass[k].turns /\ r.next = pass[k].next /\ r.first = pass[k].first
  <2>1. pass[k] \in PassRecord
    BY <1>1, PassFields
  <2> QED BY <1>1, <2>1 DEF PassRecord
<1>4. pass[k].first
  BY <1>1 DEF Fresh
<1> HIDE DEF r
<1> QED BY <1>2, <1>3, <1>4, MoveKeeps

LEMMA ReleaseKeeps ==
  ASSUME CompactionInv, NEW k \in Kind, Release(k),
         Still, UNCHANGED <<summary, sweep, reader, saved, resets>>, timer' \in BOOLEAN, asked' \in BOOLEAN
  PROVE CompactionInv'
BY NoTypes, MoveKeeps DEF Release

LEMMA ReadTurnsKeeps ==
  ASSUME CompactionInv, NEW k \in Kind, ReadTurns(k) PROVE CompactionInv'
<1>1. TypeOK /\ Fresh /\ timer \in BOOLEAN /\ asked \in BOOLEAN /\ inflight \in BOOLEAN /\ turns \in Seq(Turn)
  BY DEF CompactionInv, TypeOK
<1>2. Still /\ UNCHANGED <<summary, sweep, reader, saved, resets, timer>> /\ asked' \in BOOLEAN
  BY DEF ReadTurns, Still, storeVars
<1>3. CASE turns = << >>
  <2>1. Release(k)
    BY <1>3 DEF ReadTurns
  <2> QED BY <1>1, <1>2, <2>1, ReleaseKeeps
<1>4. CASE turns # << >>
  <2> DEFINE r == [pass[k] EXCEPT !.at = "advance", !.turns = turns]
  <2>1. pass' = [pass EXCEPT ![k] = r] /\ inflight' = inflight /\ pass[k].at = "turns"
    BY <1>4, <1>1 DEF ReadTurns, TypeOK
  <2>2. r \in PassRecord /\ r.at = "advance" /\ r.turns = turns /\ r.next = pass[k].next /\ r.first = pass[k].first
    <3>1. pass[k] \in PassRecord
      BY <1>1, PassFields
    <3> QED BY <1>1, <3>1 DEF PassRecord
  <2>3. pass[k].first
    BY <1>1, <2>1 DEF Fresh
  <2> HIDE DEF r
  <2> QED BY <1>1, <1>2, <2>1, <2>2, <2>3, MoveKeeps
<1> QED BY <1>3, <1>4

LEMMA NothingToDoKeeps ==
  ASSUME CompactionInv, NEW k \in Kind, NothingToDo(k) PROVE CompactionInv'
<1>1. TypeOK /\ timer \in BOOLEAN /\ asked \in BOOLEAN /\ inflight \in BOOLEAN /\ << >> \in Seq(Turn)
  BY DEF CompactionInv, TypeOK
<1>2. Still /\ UNCHANGED <<summary, sweep, reader, saved, resets, timer, asked>>
  BY DEF NothingToDo, Still, storeVars
<1>3. CASE Release(k)
  BY <1>1, <1>2, <1>3, ReleaseKeeps
<1>4. CASE ~Release(k)
  <2> DEFINE r == [pass[k] EXCEPT !.at = "save", !.turns = << >>]
  <2>1. pass' = [pass EXCEPT ![k] = r] /\ inflight' = inflight /\ k = "rebuild" /\ pass[k].first
    BY <1>4, <1>1 DEF NothingToDo, TypeOK
  <2>2. r \in PassRecord /\ r.at = "save" /\ r.turns = << >> /\ r.next = pass[k].next /\ r.first = pass[k].first
    <3>1. pass[k] \in PassRecord
      BY <1>1, PassFields
    <3> QED BY <1>1, <3>1 DEF PassRecord
  <2> HIDE DEF r
  <2> QED BY <1>1, <1>2, <2>1, <2>2, MoveKeeps
<1> QED BY <1>3, <1>4

LEMMA FailsKeeps ==
  ASSUME CompactionInv, NEW k \in Kind, Fails(k) PROVE CompactionInv'
<1>1. timer \in BOOLEAN /\ asked \in BOOLEAN
  BY DEF CompactionInv, TypeOK
<1>2. Still /\ UNCHANGED <<summary, sweep, reader, saved, resets, timer>> /\ asked' \in BOOLEAN /\ Release(k)
  BY <1>1 DEF Fails, Still, storeVars
<1> QED BY <1>1, <1>2, ReleaseKeeps


\* A new summary is made and nothing else.
LEMMA MadeKeeps ==
  ASSUME TypeOK, World, Still, NEW n, Past(n), Shut(n), Full(n), \A p \in Known : UpTo(n, p),
         \A k \in Kind : pass'[k].turns \in Known \cup {<< >>} /\ pass'[k].next \in Summaries \cup {n},
         UNCHANGED <<reader, summary>>
  PROVE World'
<1> DEFINE Q == Known \cup {<< >>}  S == Summaries \cup {n}
<1>1. /\ Calls
      /\ \A q \in Known : Table(q) /\ Since(q)
      /\ \A p, q \in Known : Agree(p, q)
      /\ \A s \in Summaries : Past(s) /\ Shut(s) /\ Full(s) /\ \A q \in Known : UpTo(s, q)
      /\ turns \in Known /\ reader.turns \in Known /\ summary \in Summaries
  BY KnownTypes DEF World
<1>2. Calls'
  BY <1>1 DEF Calls, Still
<1>3. \A q \in Q : Table(q)' /\ Since(q)'
  <2>1. \A q \in Q : Table(q) /\ Since(q)
    BY <1>1 DEF Table, Since
  <2> QED BY <2>1 DEF Table, Since, Still
<1>4. \A p, q \in Q : Agree(p, q)
  BY <1>1 DEF Agree
<1>5. \A s \in S : Past(s)' /\ Shut(s)' /\ Full(s)' /\ \A q \in Q : UpTo(s, q)
  <2>1. \A s \in S : Past(s) /\ Shut(s) /\ Full(s) /\ \A q \in Q : UpTo(s, q)
    BY <1>1 DEF UpTo
  <2> QED BY <2>1 DEF Past, Shut, Full, Still
<1>6. Known' \subseteq Q
  <2>1. Known' = {turns', reader'.turns} \cup {pass'[k].turns : k \in Kind}
    BY DEF Known
  <2> HIDE DEF Known
  <2> QED BY <1>1, <2>1 DEF Still
<1>7. Summaries' \subseteq S
  <2>1. Summaries' = {summary'} \cup {pass'[k].next : k \in Kind}
    BY DEF Summaries
  <2> QED BY <1>1, <2>1
<1> HIDE DEF Q, S
<1> QED BY <1>2, <1>3, <1>4, <1>5, <1>6, <1>7, WorldFrom

LEMMA AdvanceKeeps ==
  ASSUME CompactionInv, NEW k \in Kind, Advance(k) PROVE CompactionInv'
<1> DEFINE q == pass[k].turns
           b == Base(k)
           e == Eligible(q, b)
<1>1. TypeOK /\ World /\ Kept /\ Fresh /\ Grows /\ Stored
  BY DEF CompactionInv
<1>2. /\ \A l \in Kind : pass[l].turns \in Known /\ pass[l].next \in Summaries
      /\ turns \in Known /\ reader.turns \in Known /\ summary \in Summaries
      /\ q \in Known /\ q \in Seq(Turn) /\ \A s \in Summaries : s \in Summary /\ s.frozen \in Nat
  BY <1>1, KnownTypes
<1>3. b \in Summary /\ (b \in Summaries \/ b = NoSummary)
  BY <1>2, NoTypes DEF Base
<1>4. \A i, j \in DOMAIN q : i < j => q[i].sec <= q[j].sec
  <2>1. Table(q)
    BY <1>1, <1>2 DEF World
  <2> QED BY <2>1 DEF Table
<1>5. pass[k].at = "advance" /\ Still /\ UNCHANGED <<summary, sweep, reader, saved, resets, timer, inflight, asked>>
  BY DEF Advance, Still, storeVars
<1> DEFINE More(c) == c \in Part(e) \/ Cardinality(Messages(e)) > PassLimit
           Rest(c) == IF More(c) /\ k # "pass" THEN q ELSE << >>
<1>6. PICK c \in Whole(e) \cup Part(e) : pass' = [pass EXCEPT ![k] =
         [pass[k] EXCEPT !.at = "save", !.next = Summarised(b, e, c), !.more = More(c), !.turns = Rest(c)]]
  BY DEF Advance
<1> DEFINE n == Summarised(b, e, c)
<1>7. Cut(q, b, n) /\ n \in Summary
  <2> HIDE DEF q, b
  <2> QED BY <1>2, <1>3, <1>4, SummarisedIs
<1>8. More(c) \in BOOLEAN /\ Rest(c) \in {q, << >>} /\ Rest(c) \in Seq(Turn)
  <2>1. << >> \in Seq(Turn)
    OBVIOUS
  <2> HIDE DEF e, q
  <2> QED BY <1>2, <2>1
<1>9. pass[k] \in PassRecord /\ pass \in [Kind -> PassRecord]
  BY <1>1, PassFields DEF TypeOK, PassRecord
<1> HIDE DEF n, b, e, More, Rest
<1>10. pass' = [pass EXCEPT ![k] =
         [pass[k] EXCEPT !.at = "save", !.next = n, !.more = More(c), !.turns = Rest(c)]]
  BY <1>6 DEF n
<1>11. /\ pass' \in [Kind -> PassRecord]
       /\ \A l \in Kind : l # k => pass'[l] = pass[l]
       /\ pass'[k].at = "save" /\ pass'[k].next = n /\ pass'[k].turns = Rest(c)
       /\ pass'[k].first = pass[k].first
  BY <1>7, <1>8, <1>9, <1>10 DEF PassRecord
<1>12. /\ Past(n) /\ Shut(n) /\ Full(n) /\ \A p \in Known : UpTo(n, p)
       /\ b.frozen <= n.frozen /\ b.cover \subseteq n.cover
       /\ Complete(b) /\ (\A j \in DOMAIN turns : ~turns[j].raw => turns[j].sec <= b.frozen)
             => Complete(n)
  <2> HIDE DEF q
  <2> QED BY <1>1, <1>2, <1>3, <1>7, CutIsSound
<1>13. World'
  <2>1. \A l \in Kind : pass'[l].turns \in Known \cup {<< >>} /\ pass'[l].next \in Summaries \cup {n}
    BY <1>2, <1>8, <1>11
  <2> QED BY <1>1, <1>5, <1>12, <2>1, MadeKeeps
<1>14. Fresh'
  BY <1>1, <1>11 DEF Fresh
<1>15. TypeOK'
  BY <1>1, <1>5, <1>11 DEF TypeOK, Still, PassRecord
<1>16. Kept'
  <2> SUFFICES ASSUME resets' = 0 PROVE
        /\ Complete(summary)'
        /\ \A j \in DOMAIN turns' : ~turns'[j].raw => turns'[j].sec <= summary'.frozen
        /\ \A l \in Kind : Extending(l)' => Extended(pass[l].next)'
        /\ sweep'.at = "prune" => sweep'.frozen <= summary'.frozen
    BY DEF Kept
  <2>1. /\ Complete(summary)
        /\ \A j \in DOMAIN turns : ~turns[j].raw => turns[j].sec <= summary.frozen
        /\ \A l \in Kind : Extending(l) => Extended(pass[l].next)
        /\ sweep.at = "prune" => sweep.frozen <= summary.frozen
    BY <1>1, <1>5 DEF Kept
  <2>2. Complete(summary)'
    BY <1>5, <2>1 DEF Complete, Still
  <2>3. ASSUME NEW l \in Kind, l # k, Extending(l)' PROVE Extended(pass[l].next)'
    <3>1. Extending(l) /\ pass'[l] = pass[l]
      BY <1>11, <2>3 DEF Extending
    <3> QED BY <1>5, <2>1, <3>1 DEF Extended, Complete, Still
  <2>4. ASSUME Extending(k)' PROVE Extended(pass[k].next)'
    <3>1. /\ b \in Summaries /\ summary.frozen <= b.frozen /\ summary.cover \subseteq b.cover /\ Complete(b)
      <4>1. CASE ~pass[k].first
        <5>1. Extending(k) /\ b = pass[k].next
          BY <1>5, <4>1 DEF Extending, Base, b
        <5> QED BY <1>2, <2>1, <5>1 DEF Extended
      <4>2. CASE pass[k].first
        <5>1. k # "rebuild"
          BY <1>11, <2>4, <4>2 DEF Extending
        <5>2. b = summary
          BY <4>2, <5>1 DEF Base, b
        <5> QED BY <1>2, <2>1, <5>2
      <4> QED BY <4>1, <4>2
    <3>2. \A j \in DOMAIN turns : ~turns[j].raw => turns[j].sec <= b.frozen
      <4> SUFFICES ASSUME NEW j \in DOMAIN turns, ~turns[j].raw PROVE turns[j].sec <= b.frozen
        OBVIOUS
      <4>1. turns[j].sec \in Nat /\ summary.frozen \in Nat /\ b.frozen \in Nat
        BY <1>1, <1>2, <3>1, TurnFields DEF TypeOK
      <4> QED BY <2>1, <3>1, <4>1
    <3>3. summary.frozen \in Nat /\ b.frozen \in Nat /\ n.frozen \in Nat
      BY <1>2, <1>7, <3>1, ContextAssumption DEF Summary
    <3>4. Extended(n)
      BY <1>12, <3>1, <3>2, <3>3 DEF Extended
    <3> QED BY <1>5, <1>11, <3>4 DEF Extended, Complete, Still
  <2> QED BY <1>5, <2>1, <2>2, <2>3, <2>4 DEF Still
<1>17. Stored'
  BY <1>1, <1>5, StoredStill
<1>18. Grows'
  <2> SUFFICES ASSUME NEW l \in Kind, Extending(l)'
               PROVE summary'.frozen <= pass'[l].next.frozen /\ summary'.cover \subseteq pass'[l].next.cover
    BY DEF Grows
  <2>1. CASE l # k
    BY <1>1, <1>5, <1>11, <2>1 DEF Extending, Grows
  <2>2. CASE l = k
    <3>1. b \in Summaries /\ summary.frozen <= b.frozen /\ summary.cover \subseteq b.cover
      <4>1. CASE ~pass[k].first
        <5>1. Extending(k) /\ b = pass[k].next
          BY <1>5, <4>1 DEF Extending, Base, b
        <5> QED BY <1>1, <1>2, <5>1 DEF Grows
      <4>2. CASE pass[k].first
        <5>1. k # "rebuild"
          BY <1>11, <2>2, <4>2 DEF Extending
        <5>2. b = summary
          BY <4>2, <5>1 DEF Base, b
        <5> QED BY <1>2, <5>2
      <4> QED BY <4>1, <4>2
    <3>2. summary.frozen \in Nat /\ b.frozen \in Nat /\ n.frozen \in Nat
      BY <1>2, <1>7, <3>1, ContextAssumption DEF Summary
    <3> QED BY <1>5, <1>11, <1>12, <2>2, <3>1, <3>2
  <2> QED BY <2>1, <2>2
<1> QED BY <1>13, <1>14, <1>15, <1>16, <1>17, <1>18 DEF CompactionInv

LEMMA SaveKeeps ==
  ASSUME CompactionInv, PassInv, NEW k \in Kind, Save(k) PROVE CompactionInv'
<1>1. TypeOK /\ World /\ Kept /\ Fresh /\ Grows /\ Stored
  BY DEF CompactionInv
<1>2. /\ \A l \in Kind : pass[l].turns \in Known /\ pass[l].next \in Summaries
      /\ turns \in Known /\ reader.turns \in Known /\ summary \in Summaries
      /\ \A s \in Summaries : s \in Summary /\ s.frozen \in Nat /\ s.cover \subseteq Id
  BY <1>1, KnownTypes DEF Summary
<1>3. /\ pass[k].at = "save" /\ summary' = pass[k].next /\ saved' = saved \cup summary'.cover
      /\ resets' = (IF k = "clear" \/ (k = "rebuild" /\ pass[k].first) THEN resets + 1 ELSE resets)
      /\ Still /\ UNCHANGED <<sweep, reader>>
  BY DEF Save, Still
<1>4. timer' \in BOOLEAN /\ asked' \in BOOLEAN /\ inflight' \in BOOLEAN
  BY <1>1 DEF Save, Release, TypeOK
<1>5. pass[k] \in PassRecord /\ pass \in [Kind -> PassRecord]
  BY <1>1, PassFields DEF TypeOK, PassRecord
<1>6. /\ pass' \in [Kind -> PassRecord]
      /\ \A l \in Kind : l # k => pass'[l] = pass[l]
      /\ \/ pass'[k] = NoPass
         \/ /\ pass'[k].at = "advance" /\ pass'[k].first = FALSE /\ pass'[k].next = pass[k].next
            /\ pass'[k].turns = pass[k].turns
  <2>1. CASE Release(k)
    BY <1>5, <2>1, NoTypes DEF Release
  <2>2. CASE ~Release(k)
    <3>1. pass' = [pass EXCEPT ![k] = [pass[k] EXCEPT !.at = "advance", !.first = FALSE]]
      BY <1>5, <2>2 DEF Save
    <3> QED BY <1>5, <3>1 DEF PassRecord
  <2> QED BY <2>1, <2>2
<1>7. World'
  <2>1. \A l \in Kind : pass'[l].turns \in Known \cup {<< >>} /\ pass'[l].next \in Summaries \cup {NoSummary}
    BY <1>2, <1>6, NoTypes
  <2> QED BY <1>1, <1>2, <1>3, <2>1, StillKeeps
<1>8. Fresh'
  BY <1>1, <1>6, NoTypes DEF Fresh
<1>9. TypeOK'
  <2>1. summary' \in Summary /\ saved' \subseteq Id /\ resets' \in Nat
    BY <1>1, <1>2, <1>3 DEF TypeOK
  <2>2. pass' \in [Kind -> PassRecord]
    BY <1>6
  <2> QED BY <1>1, <1>3, <1>4, <2>1, <2>2 DEF TypeOK, Still, PassRecord
<1>10. Kept'
  <2> SUFFICES ASSUME resets' = 0 PROVE
        /\ Complete(summary)'
        /\ \A j \in DOMAIN turns' : ~turns'[j].raw => turns'[j].sec <= summary'.frozen
        /\ \A l \in Kind : Extending(l)' => Extended(pass[l].next)'
        /\ sweep'.at = "prune" => sweep'.frozen <= summary'.frozen
    BY DEF Kept
  <2>1. resets = 0 /\ ~(pass[k].first /\ k \in {"rebuild", "clear"})
    <3>1. resets \in Nat
      BY <1>1 DEF TypeOK
    <3>2. ~(k = "clear" \/ (k = "rebuild" /\ pass[k].first))
      BY <1>3, <3>1
    <3> QED BY <1>3, <3>2
  <2>2. /\ \A j \in DOMAIN turns : ~turns[j].raw => turns[j].sec <= summary.frozen
        /\ sweep.at = "prune" => sweep.frozen <= summary.frozen
        /\ Extended(pass[k].next)
    BY <1>1, <1>3, <2>1 DEF Kept, Extending
  <2>3. /\ summary.frozen <= summary'.frozen /\ Complete(pass[k].next)
        /\ summary.frozen \in Nat /\ summary'.frozen \in Nat
    BY <1>2, <1>3, <2>2 DEF Extended
  <2>4. Complete(summary)'
    BY <1>3, <2>3 DEF Complete, Still
  <2>5. ASSUME NEW j \in DOMAIN turns', ~turns'[j].raw PROVE turns'[j].sec <= summary'.frozen
    <3>1. turns[j].sec \in Nat /\ turns[j].sec <= summary.frozen
      BY <1>1, <1>3, <2>2, <2>5, TurnFields DEF TypeOK, Still
    <3> QED BY <1>3, <2>3, <3>1 DEF Still
  <2>6. sweep'.at = "prune" => sweep'.frozen <= summary'.frozen
    <3>1. sweep.frozen \in Nat
      BY <1>1, ContextAssumption DEF TypeOK
    <3> QED BY <1>3, <2>2, <2>3, <3>1
  <2>7. ASSUME NEW l \in Kind, Extending(l)' PROVE Extended(pass[l].next)'
    <3>1. l = k
      <4>1. \A m \in Kind : m # k => pass[m].at = "idle"
        BY <1>3 DEF PassInv, ClaimInv
      <4> QED BY <1>6, <2>7, <4>1 DEF Extending
    <3>2. pass'[k].next = summary'
      BY <1>3, <1>6, <2>7, <3>1, NoTypes DEF Extending
    <3> QED BY <2>3, <2>4, <3>1, <3>2 DEF Extended
  <2> QED BY <2>4, <2>5, <2>6, <2>7
<1>11. Stored'
  <2>1. Past(pass[k].next)
    BY <1>1, <1>2 DEF World
  <2> QED BY <1>1, <1>3, <2>1 DEF Stored, Past, Still
<1>12. Grows'
  <2> SUFFICES ASSUME NEW l \in Kind, Extending(l)'
               PROVE summary'.frozen <= pass'[l].next.frozen /\ summary'.cover \subseteq pass'[l].next.cover
    BY DEF Grows
  <2>1. l = k
    <3>1. \A m \in Kind : m # k => pass[m].at = "idle"
      BY <1>3 DEF PassInv, ClaimInv
    <3> QED BY <1>6, <3>1 DEF Extending
  <2>2. pass'[k].next = summary' /\ summary'.frozen \in Nat
    BY <1>2, <1>3, <1>6, <2>1, NoTypes DEF Extending
  <2> QED BY <2>1, <2>2
<1> QED BY <1>7, <1>8, <1>9, <1>10, <1>11, <1>12 DEF CompactionInv


-----------------------------------------------------------------------------
(* The steps that change the turns                                         *)

LEMMA ShrinkStep ==
  ASSUME CompactionInv, Shrinks, UNCHANGED <<summary, pass, reader, resets, saved, timer, inflight, asked>>,
         second' \in 1..MaxSecond, sweep' \in {sweep, NoSweep},
         resets = 0 => \A j \in DOMAIN turns' : ~turns'[j].raw => turns'[j].sec <= summary.frozen
  PROVE CompactionInv'
<1>1. TypeOK /\ World /\ Kept /\ Fresh /\ Grows /\ Stored
  BY DEF CompactionInv
<1>2. Known' \subseteq Known \cup {turns', << >>} /\ Summaries' \subseteq Summaries \cup {NoSummary}
  BY DEF Known, Summaries
<1>3. World'
  BY <1>1, <1>2, ShrinkKeeps
<1>4. TypeOK'
  <2>1. sweep'.at \in {"idle", "prune", "collapse"} /\ sweep'.frozen \in 0..MaxSecond
    BY <1>1, ContextAssumption DEF TypeOK, NoSweep
  <2> QED BY <1>1, <2>1 DEF TypeOK, Shrinks
<1>5. Fresh'
  BY <1>1 DEF Fresh
<1>6. \A s : Complete(s) => Complete(s)'
  BY DEF Complete, Shrinks, Later
<1>7. Kept'
  <2> SUFFICES ASSUME resets' = 0 PROVE
        /\ Complete(summary)'
        /\ \A j \in DOMAIN turns' : ~turns'[j].raw => turns'[j].sec <= summary'.frozen
        /\ \A k \in Kind : Extending(k)' => Extended(pass[k].next)'
        /\ sweep'.at = "prune" => sweep'.frozen <= summary'.frozen
    BY DEF Kept
  <2>1. /\ Complete(summary)
        /\ \A k \in Kind : Extending(k) => Extended(pass[k].next)
        /\ sweep.at = "prune" => sweep.frozen <= summary.frozen
    BY <1>1 DEF Kept
  <2>2. Complete(summary)'
    BY <1>6, <2>1 DEF Complete
  <2>3. ASSUME NEW k \in Kind, Extending(k)' PROVE Extended(pass[k].next)'
    <3>1. Extended(pass[k].next)
      BY <2>1, <2>3 DEF Extending
    <3>2. Complete(pass[k].next)'
      BY <1>6, <3>1 DEF Extended, Complete
    <3> QED BY <3>1, <3>2 DEF Extended
  <2>4. NoSweep.at # "prune"
    BY DEF NoSweep
  <2> QED BY <2>1, <2>2, <2>3, <2>4
<1>8. Grows'
  <2>1. \A k \in Kind : Extending(k)' => Extending(k)
    BY DEF Extending
  <2> QED BY <1>1, <2>1 DEF Grows
<1>9. Stored'
  <2>1. NoSweep.at # "prune"
    BY DEF NoSweep
  <2>2. sweep'.at = "prune" => sweep' = sweep
    BY <2>1
  <2>3. ASSUME sweep'.at = "prune"
        PROVE /\ sweep.frozen < second'
              /\ \A j \in DOMAIN turns' : turns'[j].raw /\ turns'[j].sec <= sweep.frozen => turns'[j].id \in saved
    <3>1. /\ sweep.frozen < second
          /\ \A j \in DOMAIN turns : turns[j].raw /\ turns[j].sec <= sweep.frozen => turns[j].id \in saved
      BY <1>1, <2>2, <2>3 DEF Stored
    <3>2. sweep.frozen \in Nat /\ second \in Nat
      BY <1>1, ContextAssumption DEF TypeOK
    <3> QED BY <3>1, <3>2 DEF Shrinks, Later
  <2> QED BY <1>1, <2>2, <2>3 DEF Stored, Shrinks
<1> QED BY <1>3, <1>4, <1>5, <1>7, <1>8, <1>9 DEF CompactionInv

LEMMA TickKeeps == ASSUME CompactionInv, Tick PROVE CompactionInv'
<1>1. TypeOK /\ World /\ Kept
  BY DEF CompactionInv
<1>2. /\ second' = second + 1 /\ second < MaxSecond
      /\ UNCHANGED <<turns, added, answered, summary, pass, reader, resets, saved, timer, inflight, asked, sweep>>
  BY DEF Tick
<1>3. second' \in 1..MaxSecond /\ second' \in Nat /\ second <= second'
  BY <1>1, <1>2, ContextAssumption DEF TypeOK
<1>4. Table(turns) /\ \A j \in DOMAIN turns : Later(turns[j], turns[j])
  BY <1>1, KnownTypes DEF World, Later
<1>5. Shrinks
  BY <1>1, <1>2, <1>3, <1>4 DEF Shrinks, Table, TypeOK
<1>6. resets = 0 => \A j \in DOMAIN turns' : ~turns'[j].raw => turns'[j].sec <= summary.frozen
  BY <1>1, <1>2 DEF Kept
<1> QED BY <1>2, <1>3, <1>5, <1>6, ShrinkStep

LEMMA DeleteKeeps == ASSUME CompactionInv, DeleteTurns PROVE CompactionInv'
<1>1. TypeOK /\ World /\ Kept /\ turns \in Seq(Turn) /\ second \in 1..MaxSecond /\ second \in Nat
  BY KnownTypes DEF CompactionInv, TypeOK
<1>2. PICK d \in DOMAIN turns : turns' = At(turns, DOMAIN turns \ {d})
  BY DEF DeleteTurns
<1>3. UNCHANGED <<second, added, answered, summary, pass, reader, resets, saved, timer, inflight, asked, sweep>>
  BY DEF DeleteTurns
<1> DEFINE P == DOMAIN turns \ {d}
<1>4. /\ turns' \in Seq(Turn)
      /\ \A n \in DOMAIN turns' : Nth(P, n) \in P /\ turns'[n] = turns[Nth(P, n)]
      /\ \A m, n \in DOMAIN turns' : m < n <=> Nth(P, m) < Nth(P, n)
  <2>1. P \in SUBSET (DOMAIN turns) /\ turns' = At(turns, P)
    BY <1>2
  <2> HIDE DEF P
  <2> QED BY <1>1, <2>1, AtIs
<1>5. Table(turns)
  BY <1>1, KnownTypes DEF World
<1>6. \A n \in DOMAIN turns' : Nth(P, n) \in DOMAIN turns /\ turns'[n] = turns[Nth(P, n)]
  BY <1>4
<1> HIDE DEF P
<1>7. \A j \in DOMAIN turns' : \E i \in DOMAIN turns : Later(turns[i], turns'[j])
  BY <1>6 DEF Later
<1>8. \A i, j \in DOMAIN turns' : i < j => turns'[i].id < turns'[j].id /\ turns'[i].sec <= turns'[j].sec
  BY <1>4, <1>5, <1>6 DEF Table
<1>9. Shrinks
  BY <1>1, <1>3, <1>4, <1>7, <1>8 DEF Shrinks
<1>10. resets = 0 => \A j \in DOMAIN turns' : ~turns'[j].raw => turns'[j].sec <= summary.frozen
  BY <1>1, <1>6 DEF Kept
<1> QED BY <1>1, <1>3, <1>9, <1>10, ShrinkStep

LEMMA PruneKeeps == ASSUME CompactionInv, Prune PROVE CompactionInv'
<1>1. TypeOK /\ World /\ Kept /\ turns \in Seq(Turn) /\ second \in 1..MaxSecond /\ second \in Nat
  BY KnownTypes DEF CompactionInv, TypeOK
<1>2. PICK cutoff \in 1..second :
        turns' = [i \in DOMAIN turns |->
                    [turns[i] EXCEPT !.raw = @ /\ ~(turns[i].sec <= sweep.frozen /\ turns[i].sec < cutoff)]]
  BY DEF Prune
<1>3. /\ UNCHANGED <<second, added, answered, summary, pass, reader, resets, saved, timer, inflight, asked>>
      /\ sweep.at = "prune" /\ sweep' = NoSweep
  BY DEF Prune
<1>4. ASSUME NEW i \in DOMAIN turns
      PROVE /\ turns'[i] \in Turn
            /\ turns'[i].id = turns[i].id /\ turns'[i].sec = turns[i].sec
            /\ turns'[i].kind = turns[i].kind /\ turns'[i].ref = turns[i].ref
            /\ turns'[i].raw => turns[i].raw
            /\ ~turns'[i].raw => ~turns[i].raw \/ turns[i].sec <= sweep.frozen
  <2>1. turns[i] \in Turn
    BY <1>1
  <2>2. PICK b \in BOOLEAN : b = (turns[i].raw /\ ~(turns[i].sec <= sweep.frozen /\ turns[i].sec < cutoff))
    OBVIOUS
  <2>3. turns'[i] = [turns[i] EXCEPT !.raw = b]
    BY <1>2, <2>2
  <2>4. /\ turns'[i] \in Turn /\ turns'[i].raw = b
        /\ turns'[i].id = turns[i].id /\ turns'[i].sec = turns[i].sec
        /\ turns'[i].kind = turns[i].kind /\ turns'[i].ref = turns[i].ref
    BY <2>1, <2>3 DEF Turn
  <2> QED BY <2>2, <2>4
<1>5. DOMAIN turns' = DOMAIN turns /\ turns' \in Seq(Turn)
  <2>1. DOMAIN turns' = 1..Len(turns) /\ turns' = [i \in 1..Len(turns) |-> turns'[i]] /\ Len(turns) \in Nat
    BY <1>1, <1>2
  <2>2. \A i \in 1..Len(turns) : turns'[i] \in Turn
    BY <1>1, <1>4
  <2> QED BY <1>1, <2>1, <2>2
<1>6. Table(turns)
  BY <1>1, KnownTypes DEF World
<1>7. \A j \in DOMAIN turns' : \E i \in DOMAIN turns : Later(turns[i], turns'[j])
  BY <1>4, <1>5 DEF Later
<1>8. \A i, j \in DOMAIN turns' : i < j => turns'[i].id < turns'[j].id /\ turns'[i].sec <= turns'[j].sec
  BY <1>4, <1>5, <1>6 DEF Table
<1>9. Shrinks
  BY <1>1, <1>3, <1>5, <1>7, <1>8 DEF Shrinks
<1>10. ASSUME resets = 0, NEW j \in DOMAIN turns', ~turns'[j].raw PROVE turns'[j].sec <= summary.frozen
  <2>1. sweep.frozen <= summary.frozen /\ (~turns[j].raw => turns[j].sec <= summary.frozen)
    BY <1>1, <1>3, <1>5, <1>10 DEF Kept
  <2>2. turns[j].sec \in Nat /\ sweep.frozen \in Nat /\ summary.frozen \in Nat
    BY <1>1, <1>5, TurnFields, KnownTypes, ContextAssumption DEF TypeOK
  <2> QED BY <1>4, <1>5, <1>10, <2>1, <2>2
<1> QED BY <1>1, <1>3, <1>9, <1>10, ShrinkStep

LEMMA CollapseKeeps == ASSUME CompactionInv, Collapse PROVE CompactionInv'
<1>1. TypeOK /\ World /\ Kept /\ Fresh /\ Stored /\ second \in 1..MaxSecond /\ second \in Nat
  BY KnownTypes DEF CompactionInv, TypeOK
<1>2. /\ UNCHANGED <<second, added, answered, pass, reader, resets, saved, timer, inflight, asked>>
      /\ turns' = << >> /\ summary' = NoSummary /\ sweep' = NoSweep
  BY DEF Collapse
<1>3. turns' \in Seq(Turn) /\ DOMAIN turns' = {}
  BY <1>2
<1>4. Shrinks
  BY <1>1, <1>2, <1>3 DEF Shrinks
<1>5. Known' \subseteq Known \cup {turns', << >>} /\ Summaries' \subseteq Summaries \cup {NoSummary}
  BY <1>2 DEF Known, Summaries
<1>6. World'
  BY <1>1, <1>4, <1>5, ShrinkKeeps
<1>7. TypeOK'
  <2>1. sweep'.at = "idle" /\ sweep'.frozen \in 0..MaxSecond
    BY <1>2, ContextAssumption DEF NoSweep
  <2>2. summary' \in Summary
    BY <1>2, NoTypes
  <2> QED BY <1>1, <1>2, <1>3, <2>1, <2>2 DEF TypeOK
<1>8. Fresh'
  BY <1>1, <1>2 DEF Fresh
<1>9. Kept'
  <2>1. \A s : Complete(s)'
    BY <1>3 DEF Complete
  <2>2. \A k \in Kind : pass[k].next.frozen \in Nat
    BY <1>1, KnownTypes
  <2>3. ASSUME NEW k \in Kind PROVE Extended(pass[k].next)'
    <3>1. summary'.frozen <= pass'[k].next.frozen /\ summary'.cover \subseteq pass'[k].next.cover
      BY <1>2, <2>2, NoTypes
    <3>2. Complete(pass[k].next)'
      BY <2>1, <1>3 DEF Complete
    <3> QED BY <3>1, <3>2 DEF Extended
  <2>4. Complete(summary)'
    BY <1>3 DEF Complete
  <2>5. sweep'.at # "prune"
    BY <1>2 DEF NoSweep
  <2> QED BY <1>3, <2>3, <2>4, <2>5 DEF Kept
<1>10. Grows' /\ Stored'
  <2>1. \A k \in Kind : pass[k].next.frozen \in Nat
    BY <1>1, KnownTypes
  <2>2. sweep'.at # "prune"
    BY <1>2 DEF NoSweep
  <2> QED BY <1>1, <1>2, <2>1, <2>2, NoTypes DEF Grows, Stored
<1> QED BY <1>6, <1>7, <1>8, <1>9, <1>10 DEF CompactionInv

LEMMA AddStep ==
  ASSUME CompactionInv, NEW kind \in {"text", "call", "result"}, NEW ref, Add(kind, ref),
         ref = 0 \/ \E i \in DOMAIN turns : turns[i].kind = "call" /\ turns[i].id \notin answered /\ ref = turns[i].id
  PROVE CompactionInv'
<1>1. TypeOK /\ World /\ Kept /\ Fresh /\ Grows /\ Stored /\ turns \in Seq(Turn)
  BY DEF CompactionInv, TypeOK
<1>2. World' /\ turns' \in Seq(Turn) /\ added' \in 0..MaxTurns /\ answered' \subseteq Id
  BY <1>1, AddKeeps
<1>3. /\ UNCHANGED <<second, summary, timer, inflight, pass, sweep, reader, saved, resets, asked>>
      /\ turns' = Append(turns, [id |-> added + 1, sec |-> second, kind |-> kind, ref |-> ref, raw |-> TRUE])
  BY DEF Add
<1>4. TypeOK'
  BY <1>1, <1>2, <1>3 DEF TypeOK
<1>5. Fresh'
  BY <1>1, <1>3 DEF Fresh
<1>6. \A j \in DOMAIN turns' : \/ j \in DOMAIN turns /\ turns'[j] = turns[j]
                               \/ turns'[j].sec = second /\ turns'[j].raw
  <2> DEFINE new == [id |-> added + 1, sec |-> second, kind |-> kind, ref |-> ref, raw |-> TRUE]
  <2>1. new.sec = second /\ new.raw
    OBVIOUS
  <2>2. turns' = Append(turns, new)
    BY <1>3
  <2> HIDE DEF new
  <2>3. \A j \in DOMAIN turns' : (j \in DOMAIN turns /\ turns'[j] = turns[j]) \/ turns'[j] = new
    BY <1>1, <2>2
  <2> QED BY <2>1, <2>3
<1>7. ASSUME NEW s \in Summaries, Complete(s) PROVE Complete(s)'
  <2>1. s.frozen < second /\ s.frozen \in Nat /\ second \in Nat
    BY <1>1, KnownTypes DEF World, Past
  <2>2. \A j \in DOMAIN turns' : turns'[j].sec <= s.frozen => turns'[j].id \in s.cover
    BY <1>6, <1>7, <2>1 DEF Complete
  <2> QED BY <2>2 DEF Complete
<1>8. Kept'
  <2> SUFFICES ASSUME resets' = 0 PROVE
        /\ Complete(summary)'
        /\ \A j \in DOMAIN turns' : ~turns'[j].raw => turns'[j].sec <= summary'.frozen
        /\ \A k \in Kind : Extending(k)' => Extended(pass[k].next)'
        /\ sweep'.at = "prune" => sweep'.frozen <= summary'.frozen
    BY DEF Kept
  <2>1. /\ Complete(summary)
        /\ \A j \in DOMAIN turns : ~turns[j].raw => turns[j].sec <= summary.frozen
        /\ \A k \in Kind : Extending(k) => Extended(pass[k].next)
        /\ sweep.at = "prune" => sweep.frozen <= summary.frozen
    BY <1>1, <1>3 DEF Kept
  <2>2. summary \in Summaries /\ \A k \in Kind : pass[k].next \in Summaries
    BY <1>1, KnownTypes
  <2>3. Complete(summary)'
    <3>1. \A s \in Summaries : Complete(s) => Complete(s)'
      BY <1>7
    <3> QED BY <1>3, <2>1, <2>2, <3>1 DEF Complete
  <2>4. ASSUME NEW k \in Kind, Extending(k)' PROVE Extended(pass[k].next)'
    <3>1. Extended(pass[k].next)
      BY <1>3, <2>1, <2>4 DEF Extending
    <3>2. \A s \in Summaries : Complete(s) => Complete(s)'
      BY <1>7
    <3>3. Complete(pass[k].next)'
      BY <1>3, <2>2, <3>1, <3>2 DEF Extended, Complete
    <3> QED BY <1>3, <3>1, <3>3 DEF Extended
  <2> QED BY <1>3, <1>6, <2>1, <2>3, <2>4
<1>9. Grows'
  <2>1. \A k \in Kind : Extending(k)' => Extending(k) /\ pass'[k].next = pass[k].next
    BY <1>3 DEF Extending
  <2> QED BY <1>1, <1>3, <2>1, GrowsStill
<1>10. Stored'
  <2>1. saved' \subseteq 1..added'
    <3>1. added \in Nat /\ added' = added + 1
      BY <1>1, KnownTypes DEF Add
    <3>2. \A x \in 1..added : x \in 1..added + 1
      BY <3>1
    <3> QED BY <1>1, <1>3, <3>1, <3>2 DEF Stored
  <2>2. ASSUME sweep.at = "prune"
        PROVE /\ sweep.frozen < second
              /\ \A j \in DOMAIN turns' : turns'[j].raw /\ turns'[j].sec <= sweep.frozen => turns'[j].id \in saved
    <3>1. /\ sweep.frozen < second
          /\ \A j \in DOMAIN turns : turns[j].raw /\ turns[j].sec <= sweep.frozen => turns[j].id \in saved
      BY <1>1, <2>2 DEF Stored
    <3>2. sweep.frozen \in Nat /\ second \in Nat
      BY <1>1, ContextAssumption DEF TypeOK
    <3> QED BY <1>6, <3>1, <3>2
  <2> QED BY <1>1, <1>3, <2>1, <2>2 DEF Stored
<1> QED BY <1>2, <1>4, <1>5, <1>8, <1>9, <1>10 DEF CompactionInv


LEMMA QuietSteps ==
  ASSUME CompactionInv, Schedule \/ SweepList \/ ReadHistory \/ Assemble \/ (Fire /\ inflight) \/ UNCHANGED vars
  PROVE CompactionInv'
<1>1. TypeOK /\ turns \in Known /\ reader.turns \in Known /\ summary.frozen \in 0..MaxSecond
  BY KnownTypes DEF CompactionInv, TypeOK, Summary
<1>2. Still /\ UNCHANGED <<summary, resets, saved, pass>>
  BY DEF Schedule, SweepList, ReadHistory, Assemble, Fire, vars, storeVars, Still
<1>3. timer' \in BOOLEAN /\ inflight' \in BOOLEAN /\ asked' \in BOOLEAN
  BY <1>1 DEF TypeOK, Schedule, SweepList, ReadHistory, Assemble, Fire, vars
<1>4. \/ sweep' = sweep
      \/ sweep' = [at |-> "collapse", frozen |-> 0]
      \/ sweep' = [at |-> "prune", frozen |-> summary.frozen]
  BY DEF Schedule, SweepList, ReadHistory, Assemble, Fire, vars
<1>5. /\ sweep'.at \in {"idle", "prune", "collapse"} /\ sweep'.frozen \in 0..MaxSecond
      /\ sweep'.at = "prune" => \/ sweep.at = "prune" /\ sweep'.frozen = sweep.frozen
                                \/ sweep'.frozen = summary.frozen
  BY <1>1, <1>4, ContextAssumption DEF TypeOK
<1>6. reader' = reader \/ reader' = [at |-> "summary", turns |-> turns] \/ reader' = NoRead
  BY DEF Schedule, SweepList, ReadHistory, Assemble, Fire, vars
<1>7. reader'.at \in {"idle", "summary"} /\ reader'.turns \in Known \cup {<< >>}
  BY <1>1, <1>6 DEF TypeOK, NoRead
<1> QED BY <1>2, <1>3, <1>5, <1>7, QuietKeeps

LEMMA RestartKeeps == ASSUME CompactionInv, Restart PROVE CompactionInv'
<1>1. TypeOK /\ World /\ Kept /\ Grows /\ Stored /\ summary \in Summaries
  BY KnownTypes DEF CompactionInv
<1>2. /\ pass' = [k \in Kind |-> NoPass] /\ sweep' = NoSweep /\ reader' = NoRead
      /\ timer' = FALSE /\ inflight' = FALSE /\ asked' = FALSE
      /\ Still /\ UNCHANGED <<summary, saved, resets>>
  BY DEF Restart, Still, storeVars
<1>3. /\ \A k \in Kind : pass'[k] = NoPass
      /\ reader'.turns = << >> /\ reader'.at = "idle" /\ sweep'.at = "idle" /\ sweep'.frozen = 0
      /\ << >> \in Seq(Turn)
  BY <1>2 DEF NoRead, NoSweep
<1>4. World'
  BY <1>1, <1>2, <1>3, NoTypes, StillKeeps
<1>5. Kept'
  BY <1>1, <1>2, <1>3, NoTypes, KeptStill DEF Extending
<1>6. Fresh'
  BY <1>3, NoTypes DEF Fresh
<1>7. TypeOK'
  <2>1. pass' \in [Kind -> PassRecord]
    BY <1>2, NoTypes
  <2>2. 0 \in 0..MaxSecond
    BY ContextAssumption
  <2>3. timer' \in BOOLEAN /\ inflight' \in BOOLEAN /\ asked' \in BOOLEAN
    BY <1>2
  <2> QED BY <1>1, <1>2, <1>3, <2>1, <2>2, <2>3 DEF TypeOK, Still, PassRecord
<1>8. Grows' /\ Stored'
  <2>1. \A k \in Kind : ~Extending(k)'
    BY <1>3, NoTypes DEF Extending
  <2> QED BY <1>1, <1>2, <1>3, <2>1, GrowsStill, StoredStill
<1> QED BY <1>4, <1>5, <1>6, <1>7, <1>8 DEF CompactionInv

LEMMA CompactionInvInit == Init => CompactionInv
<1> SUFFICES ASSUME Init PROVE CompactionInv
  OBVIOUS
<1>1. /\ turns = << >> /\ reader.turns = << >> /\ reader.at = "idle" /\ \A k \in Kind : pass[k] = NoPass
      /\ summary = NoSummary /\ second = 1 /\ added = 0 /\ answered = {} /\ resets = 0 /\ saved = {}
      /\ sweep.at = "idle" /\ sweep.frozen = 0 /\ pass = [k \in Kind |-> NoPass]
      /\ << >> \in Seq(Turn) /\ DOMAIN << >> = {}
  BY DEF Init, NoRead, NoSweep
<1>2. \A q \in Known : q = << >>
  BY <1>1, NoTypes DEF Known
<1>3. \A s \in Summaries : s = NoSummary
  BY <1>1, NoTypes DEF Summaries
<1>4. World
  <2>1. Calls
    BY <1>1 DEF Calls
  <2>2. Table(<< >>) /\ Since(<< >>) /\ Agree(<< >>, << >>)
    BY DEF Table, Since, Agree
  <2>3. Past(NoSummary) /\ Shut(NoSummary) /\ Full(NoSummary) /\ UpTo(NoSummary, << >>)
    BY <1>1, NoTypes DEF Past, Shut, Full, UpTo
  <2> QED BY <1>2, <1>3, <2>1, <2>2, <2>3 DEF World
<1>5. Fresh
  BY <1>1, NoTypes DEF Fresh
<1>6. Kept
  BY <1>1, NoTypes DEF Kept, Complete, Extending
<1>7. TypeOK
  <2>1. pass \in [Kind -> PassRecord]
    BY <1>1, NoTypes
  <2>2. timer \in BOOLEAN /\ inflight \in BOOLEAN /\ asked \in BOOLEAN
    BY DEF Init
  <2> QED BY <1>1, <2>1, <2>2, NoTypes, ContextAssumption DEF TypeOK, PassRecord
<1>8. Grows /\ Stored
  BY <1>1, NoTypes DEF Grows, Stored, Extending
<1> QED BY <1>4, <1>5, <1>6, <1>7, <1>8 DEF CompactionInv

LEMMA CompactionInvNext == CompactionInv /\ PassInv /\ [Next]_vars => CompactionInv'
<1> SUFFICES ASSUME CompactionInv, PassInv, [Next]_vars PROVE CompactionInv'
  OBVIOUS
<1>0. TypeOK /\ timer \in BOOLEAN /\ asked \in BOOLEAN
  BY DEF CompactionInv, TypeOK
<1>1. CASE Tick \/ DeleteTurns \/ Prune \/ Collapse \/ Restart
  BY <1>1, TickKeeps, DeleteKeeps, PruneKeeps, CollapseKeeps, RestartKeeps
<1>2. CASE Add("text", 0) \/ Add("call", 0) \/ AddResult
  <2>1. CASE Add("text", 0) \/ Add("call", 0)
    BY <2>1, AddStep
  <2>2. CASE AddResult
    <3>1. PICK i \in DOMAIN turns :
             turns[i].kind = "call" /\ turns[i].id \notin answered /\ Add("result", turns[i].id)
      BY <2>2 DEF AddResult
    <3> QED BY <3>1, AddStep
  <2> QED BY <1>2, <2>1, <2>2
<1>3. CASE Schedule \/ SweepList \/ ReadHistory \/ Assemble \/ (Fire /\ inflight) \/ UNCHANGED vars
  BY <1>3, QuietSteps
<1>4. CASE Fire /\ ~inflight
  <2>1. Claim("pass", "turns") /\ Still /\ UNCHANGED <<summary, sweep, reader, saved, resets, asked>>
        /\ "pass" \in Kind
    BY <1>4 DEF Fire, storeVars, Still, Kind
  <2>2. timer' \in BOOLEAN
    BY <1>0, <1>4 DEF Fire, TypeOK
  <2>3. pass["pass"].at = "idle"
    BY <1>4, <2>1 DEF PassInv, ClaimInv
  <2> QED BY <1>0, <2>1, <2>2, <2>3, ClaimKeeps
<1>5. ASSUME NEW k \in {"compact", "rebuild", "clear"}, Command(k) PROVE CompactionInv'
  <2>1. /\ Still /\ UNCHANGED <<summary, sweep, reader, saved, resets, asked, timer>> /\ k \in Kind
        /\ Claim(k, IF k = "clear" THEN "save" ELSE "turns")
    BY <1>5 DEF Command, Still, Kind
  <2>2. pass[k].at = "idle"
    BY <1>5, <2>1 DEF Command, PassInv, ClaimInv
  <2>3. CASE k = "clear"
    BY <1>0, <2>1, <2>2, <2>3, ClaimKeeps
  <2>4. CASE k # "clear"
    BY <1>0, <2>1, <2>2, <2>4, ClaimKeeps
  <2> QED BY <2>3, <2>4
<1>6. ASSUME NEW k \in Kind, PassStep(k) \/ Fails(k) PROVE CompactionInv'
  BY <1>6, ReadTurnsKeeps, NothingToDoKeeps, AdvanceKeeps, SaveKeeps, FailsKeeps DEF PassStep
<1> QED BY <1>1, <1>2, <1>3, <1>4, <1>5, <1>6 DEF Next

LEMMA CompactionInvariant == Spec => []CompactionInv
  BY CompactionInvInit, CompactionInvNext, PassInvariant, PTL DEF Spec

-----------------------------------------------------------------------------
(* What a history shows                                                    *)

\* A visible turn after the boundary is visible among the live ones, when no
\* call that was summarised has its result among them.
LEMMA LiveIsVisible ==
  ASSUME NEW q \in Seq(Turn), NEW f \in Nat, NEW i \in Messages(q), q[i].sec > f, q[i].raw,
         \A m, n \in DOMAIN q : m < n => q[m].sec <= q[n].sec,
         q[i].kind = "result" => \A m \in DOMAIN q : q[m].id = q[i].ref /\ q[m].raw => q[m].sec > f
  PROVE \E n \in Messages(Live(q, f)) : Live(q, f)[n] = q[i]
<1> DEFINE live == Live(q, f)  P == {j \in DOMAIN q : q[j].sec > f}
<1>1. /\ live \in Seq(Turn) /\ Len(live) \in Nat /\ DOMAIN live = 1..Len(live)
      /\ \A n \in 1..Len(live) : Nth(P, n) \in P /\ live[n] = q[Nth(P, n)]
      /\ \A m, n \in 1..Len(live) : m < n <=> Nth(P, m) < Nth(P, n)
      /\ \A j \in P : \E n \in 1..Len(live) : j = Nth(P, n)
  <2>1. P \in SUBSET (DOMAIN q) /\ live = At(q, P)
    BY DEF Live
  <2> HIDE DEF P, live
  <2>2. live \in Seq(Turn) /\ Len(live) \in Nat /\ DOMAIN live = 1..Len(live)
    BY <2>1, AtIs
  <2>3. \A n \in DOMAIN live : Nth(P, n) \in P /\ live[n] = q[Nth(P, n)]
    BY <2>1, AtIs, Zenon
  <2>4. \A m, n \in DOMAIN live : m < n <=> Nth(P, m) < Nth(P, n)
    BY <2>1, AtIs, Zenon
  <2>5. \A j \in P : \E n \in DOMAIN live : j = Nth(P, n)
    <3>1. \A j \in P : \E n \in DOMAIN At(q, P) : j = Nth(P, n)
      BY <2>1, AtIs
    <3> QED BY <2>1, <3>1
  <2> QED BY <2>2, <2>3, <2>4, <2>5, Zenon
<1>2. i \in DOMAIN q /\ Visible(q, i) /\ DOMAIN q = 1..Len(q) /\ Len(q) \in Nat
  BY DEF Messages
<1>3. i \in P
  BY <1>2
<1>4. \A j \in DOMAIN q : q[j].sec > f => j \in P
  OBVIOUS
<1>5. \A j \in DOMAIN q : q[j].sec \in Nat /\ q[j].raw \in BOOLEAN /\ q[j].kind \in {"text", "call", "result"}
  BY TurnFields
<1> HIDE DEF P, live
<1>6. PICK n \in 1..Len(live) : i = Nth(P, n)
  BY <1>1, <1>3
<1>7. live[n] = q[i]
  BY <1>1, <1>6
<1>8. Visible(live, n)
  <2>1. CASE q[i].kind = "call"
    <3>1. PICK j \in i + 1..Len(q) : q[j].ref = q[i].id /\ q[j].raw
      BY <1>2, <2>1 DEF Visible
    <3>2. j \in DOMAIN q /\ i < j
      BY <1>2, <3>1
    <3>3. q[i].sec <= q[j].sec /\ q[i].sec \in Nat /\ q[j].sec \in Nat
      BY <1>2, <1>5, <3>2
    <3>4. q[j].sec > f
      BY <3>3
    <3>5. PICK m \in 1..Len(live) : j = Nth(P, m)
      BY <1>1, <1>4, <3>2, <3>4
    <3>6. n < m /\ live[m] = q[j]
      BY <1>1, <1>6, <3>2, <3>5
    <3>7. m \in n + 1..Len(live)
      BY <1>1, <3>6
    <3> QED BY <1>7, <2>1, <3>1, <3>6, <3>7 DEF Visible
  <2>2. CASE q[i].kind = "result"
    <3>1. PICK j \in 1..i - 1 : q[j].id = q[i].ref /\ q[j].raw
      BY <1>2, <2>2 DEF Visible
    <3>2. j \in DOMAIN q /\ j < i
      BY <1>2, <3>1
    <3>3. q[j].sec > f
      BY <2>2, <3>1, <3>2
    <3>5. PICK m \in 1..Len(live) : j = Nth(P, m)
      BY <1>1, <1>4, <3>2, <3>3
    <3>6. m < n /\ live[m] = q[j]
      BY <1>1, <1>6, <3>2, <3>5
    <3>7. m \in 1..n - 1
      BY <1>1, <3>6
    <3> QED BY <1>7, <2>2, <3>1, <3>6, <3>7 DEF Visible
  <2>3. CASE q[i].kind = "text"
    BY <1>7, <2>3 DEF Visible
  <2> QED BY <1>2, <1>5, <2>1, <2>2, <2>3
<1>9. n \in Messages(live)
  BY <1>1, <1>8 DEF Messages
<1> QED BY <1>7, <1>9 DEF live

LEMMA ShownOnce ==
  ASSUME CompactionInv PROVE Verbatim(reader.turns, summary) \cap summary.cover = {}
<1> DEFINE q == reader.turns  live == Live(q, summary.frozen)
           P == {j \in DOMAIN q : q[j].sec > summary.frozen}
<1>1. /\ q \in Known /\ q \in Seq(Turn) /\ summary.frozen \in Nat /\ UpTo(summary, q)
  BY KnownTypes DEF CompactionInv, World
<1>2. /\ DOMAIN live = 1..Len(live)
      /\ \A n \in 1..Len(live) : Nth(P, n) \in P /\ live[n] = q[Nth(P, n)]
  <2>1. P \in SUBSET (DOMAIN q) /\ live = At(q, P)
    BY DEF Live
  <2> HIDE DEF P, live, q
  <2> QED BY <1>1, <2>1, AtIs
<1>3. ASSUME NEW n \in Messages(live) PROVE live[n].id \notin summary.cover
  <2>1. n \in 1..Len(live)
    BY <1>2 DEF Messages
  <2>2. Nth(P, n) \in DOMAIN q /\ q[Nth(P, n)].sec > summary.frozen /\ live[n] = q[Nth(P, n)]
    BY <1>2, <2>1
  <2> HIDE DEF P, live, q
  <2>3. q[Nth(P, n)].sec \in Nat
    BY <1>1, <2>2, TurnFields
  <2> QED BY <1>1, <2>2, <2>3 DEF UpTo
<1> QED BY <1>3 DEF Verbatim

LEMMA NoneMissing ==
  ASSUME CompactionInv, NEW x \in Expected(reader.turns), x \notin summary.cover,
         resets = 0 \/ x \in Bodied
  PROVE x \in Verbatim(reader.turns, summary)
<1> DEFINE q == reader.turns
<1>1. /\ q \in Known /\ turns \in Known /\ q \in Seq(Turn) /\ turns \in Seq(Turn) /\ summary.frozen \in Nat
      /\ Table(q) /\ Since(q) /\ Table(turns) /\ Calls /\ Agree(turns, q) /\ Shut(summary)
      /\ Full(summary)
      /\ resets = 0 =>
            /\ Complete(summary)
            /\ \A j \in DOMAIN turns : ~turns[j].raw => turns[j].sec <= summary.frozen
  BY KnownTypes DEF CompactionInv, World, Kept
<1>2. PICK i \in Messages(q) : q[i].id = x
  BY DEF Expected
<1>3. PICK j \in Messages(turns) : turns[j].id = x
  BY DEF Expected
<1> HIDE DEF q
<1>4. /\ i \in DOMAIN q /\ j \in DOMAIN turns /\ Visible(turns, j)
      /\ DOMAIN turns = 1..Len(turns) /\ Len(turns) \in Nat /\ DOMAIN q = 1..Len(q)
  BY <1>1, <1>2, <1>3 DEF Messages
<1>5. /\ q[i].id \in Nat /\ q[i].sec \in Nat /\ turns[j].sec \in Nat /\ turns[j].raw \in BOOLEAN
  BY <1>1, <1>4, TurnFields
<1>6. turns[j].raw /\ turns[j].sec > summary.frozen
  <2>1. CASE resets = 0
    BY <1>1, <1>3, <1>4, <1>5, <2>1 DEF Complete
  <2>2. CASE x \in Bodied
    <3>1. PICK m \in DOMAIN turns : turns[m].id = x /\ turns[m].raw
      BY <2>2 DEF Bodied
    <3>2. turns[m].sec > summary.frozen
      <4>1. turns[m].sec \in Nat
        BY <1>1, <3>1, TurnFields
      <4> QED BY <1>1, <3>1, <4>1 DEF Full
    <3>3. m = j
      <4>1. turns[m].id \in Nat /\ turns[m].id = turns[j].id
        BY <1>1, <1>3, <3>1, TurnFields
      <4>2. ~(m < j) /\ ~(j < m)
        BY <1>1, <1>4, <3>1, <4>1 DEF Table
      <4> QED BY <1>4, <3>1, <4>2
    <3> QED BY <3>1, <3>2, <3>3
  <2> QED BY <2>1, <2>2
<1>7. turns[j].raw
  BY <1>6
<1>8. q[i].sec = turns[j].sec /\ q[i].kind = turns[j].kind /\ q[i].ref = turns[j].ref /\ q[i].raw
  <2>1. PICK m \in DOMAIN q : /\ q[m].id = turns[j].id /\ q[m].sec = turns[j].sec
                              /\ q[m].kind = turns[j].kind /\ q[m].ref = turns[j].ref /\ q[m].raw
    <3>1. ~ \A m \in DOMAIN q : q[m].id < turns[j].id
      BY <1>2, <1>3, <1>4, <1>5
    <3> QED BY <1>1, <1>4, <1>7, <3>1 DEF Since, Later
  <2>2. ~(m < i) /\ ~(i < m)
    <3>1. q[m].id \in Nat /\ q[m].id = q[i].id
      BY <1>2, <1>3, <1>5, <2>1
    <3> QED BY <1>1, <1>4, <3>1 DEF Table
  <2>3. m = i
    BY <1>4, <2>2
  <2> QED BY <2>1, <2>3
<1>9. ASSUME q[i].kind = "result", NEW m \in DOMAIN q, q[m].id = q[i].ref, q[m].raw
      PROVE q[m].sec > summary.frozen
  <2> SUFFICES ASSUME ~(q[m].sec > summary.frozen) PROVE FALSE
    OBVIOUS
  <2>1. PICK n \in 1..j - 1 : turns[n].id = turns[j].ref /\ turns[n].raw
    BY <1>4, <1>7, <1>8, <1>9 DEF Visible
  <2>2. n \in DOMAIN turns
    BY <1>4, <2>1
  <2>3. turns[n].kind = "call"
    BY <1>1, <1>4, <2>1, <2>2 DEF Calls
  <2>4. turns[n].sec = q[m].sec /\ q[m].sec \in Nat
    BY <1>1, <1>8, <1>9, <2>1, <2>2, TurnFields DEF Agree
  <2>5. turns[n].sec <= summary.frozen
    BY <1>1, <2>4
  <2>6. turns[j].sec <= summary.frozen
    BY <1>1, <1>4, <2>1, <2>2, <2>3, <2>5 DEF Shut
  <2> QED BY <1>1, <1>5, <1>6, <2>6
<1>10. \A m, n \in DOMAIN q : m < n => q[m].sec <= q[n].sec
  BY <1>1 DEF Table
<1>11. \E n \in Messages(Live(q, summary.frozen)) : Live(q, summary.frozen)[n] = q[i]
  <2>1. q[i].sec > summary.frozen
    BY <1>6, <1>8
  <2> QED BY <1>1, <1>2, <1>8, <1>9, <1>10, <2>1, LiveIsVisible
<1> QED BY <1>2, <1>8, <1>11 DEF Verbatim, q

(* ViewExact: a history that is assembled from turns and a summary read at   *)
(* two moments shows every stored turn once, whatever passes, sweeps, edits *)
(* and exchanges across the boundary came between: after a reset at least  *)
(* those that have their body.                                             *)
THEOREM HistoryIsExact == Spec => []ViewExact
<1>1. CompactionInv => ViewExact
  BY ShownOnce, NoneMissing DEF ViewExact, CompactionInv
<1> QED BY CompactionInvariant, <1>1, PTL


-----------------------------------------------------------------------------
(* The ledger                                                              *)

\* What the ledger is made of.
Log == [i \in DOMAIN turns |-> turns[i].id]
Gone == {turns[i].id : i \in {j \in DOMAIN turns : ~turns[j].raw}}
Logged == {turns[i].id : i \in DOMAIN turns}

LEMMA LogIs ==
  ASSUME turns \in Seq(Turn)
  PROVE /\ Log \in Seq(Id) /\ DOMAIN Log = DOMAIN turns /\ Len(Log) = Len(turns)
        /\ Ledger!ToSet(Log) = Logged
        /\ Gone \subseteq Logged
<1>1. DOMAIN turns = 1..Len(turns) /\ Len(turns) \in Nat
  OBVIOUS
<1>2. \A i \in 1..Len(turns) : turns[i].id \in Id
  BY <1>1, TurnFields
<1>3. Log \in Seq(Id) /\ DOMAIN Log = DOMAIN turns /\ Len(Log) = Len(turns)
  BY <1>1, <1>2 DEF Log
<1>4. Ledger!ToSet(Log) = Logged
  BY <1>3 DEF Ledger!ToSet, Log, Logged
<1>5. Gone \subseteq Logged
  BY DEF Gone, Logged
<1> QED BY <1>3, <1>4, <1>5

\* Nothing the ledger shows has changed.
LEMMA LedgerStill ==
  ASSUME UNCHANGED <<turns, summary, saved, resets>> PROVE UNCHANGED Ledger!vars
BY DEF Ledger!vars

LEMMA LedgerAdd ==
  ASSUME CompactionInv, NEW kind, NEW ref, Add(kind, ref), turns' \in Seq(Turn) PROVE Ledger!Add
<1> DEFINE new == [id |-> added + 1, sec |-> second, kind |-> kind, ref |-> ref, raw |-> TRUE]
           N == Len(turns)
<1>1. /\ turns \in Seq(Turn) /\ added \in Nat /\ Table(turns) /\ Past(summary)
      /\ summary.cover \subseteq saved /\ saved \subseteq 1..added
  BY KnownTypes DEF CompactionInv, World, Stored
<1>2. turns' = Append(turns, new) /\ UNCHANGED <<summary, saved, resets>>
  BY DEF Add
<1>3. new.id = added + 1 /\ new.raw
  OBVIOUS
<1> HIDE DEF new
<1>4. /\ N \in Nat /\ DOMAIN turns = 1..N /\ DOMAIN turns' = 1..N + 1
      /\ turns'[N + 1] = new /\ \A i \in 1..N : turns'[i] = turns[i]
  BY <1>1, <1>2
<1>5. /\ Log \in Seq(Id) /\ DOMAIN Log = 1..N /\ Len(Log) = N /\ Ledger!ToSet(Log) = Logged
  BY <1>1, <1>4, LogIs
<1>6. /\ Log' \in Seq(Id) /\ DOMAIN Log' = 1..N + 1 /\ Len(Log') = N + 1
  <2>1. \A i \in 1..N + 1 : turns'[i].id \in Id
    BY <1>4, TurnFields
  <2> QED BY <1>4, <2>1 DEF Log
<1>7. Log'[N + 1] = added + 1 /\ \A i \in 1..N : Log'[i] = Log[i]
  BY <1>3, <1>4 DEF Log
<1>8. Ledger!Last(Log') = added + 1 /\ Log' # << >>
  BY <1>4, <1>6, <1>7 DEF Ledger!Last
<1> HIDE DEF N
<1>9. Log' = Append(Log, Ledger!Last(Log'))
  <2>1. Append(Log, added + 1) = [i \in 1..N + 1 |-> IF i = N + 1 THEN added + 1 ELSE Log[i]]
    BY <1>5
  <2>2. Log' = [i \in 1..N + 1 |-> Log'[i]]
    BY <1>6
  <2> QED BY <1>4, <1>5, <1>6, <1>7, <1>8, <2>1, <2>2
<1>10. \A x \in Ledger!ToSet(Log) \cup summary.cover \cup saved : x < added + 1
  <2>1. \A i \in DOMAIN turns : turns[i].id \in Nat /\ turns[i].id <= added
    BY <1>1, TurnFields DEF Table
  <2>2. \A x \in 1..added : x < added + 1
    BY <1>1
  <2>3. \A x \in Logged : x < added + 1
    BY <1>1, <2>1 DEF Logged
  <2> QED BY <1>1, <1>5, <2>2, <2>3 DEF Past
<1>11. Gone' = Gone
  <2>1. \A i \in DOMAIN turns' : ~turns'[i].raw => i \in DOMAIN turns /\ turns'[i] = turns[i]
    BY <1>3, <1>4
  <2>2. \A i \in DOMAIN turns : i \in DOMAIN turns' /\ turns'[i] = turns[i]
    BY <1>4
  <2> QED BY <2>1, <2>2 DEF Gone
<1> QED BY <1>2, <1>8, <1>9, <1>10, <1>11 DEF Ledger!Add, Log, Gone

\* Some of the turns are left.
LEMMA LedgerDelete ==
  ASSUME CompactionInv, turns' \in Seq(Turn), UNCHANGED <<summary, saved, resets>>,
         \A n \in DOMAIN turns' : \E i \in DOMAIN turns : turns'[n] = turns[i],
         \A m, n \in DOMAIN turns' : m < n => turns'[m].id < turns'[n].id
  PROVE Ledger!Delete
<1>1. turns \in Seq(Turn) /\ Table(turns)
  BY KnownTypes DEF CompactionInv, World
<1>2. Log' \in Seq(Id) /\ DOMAIN Log' = DOMAIN turns' /\ Ledger!ToSet(Log') = Logged' /\ Gone' \subseteq Logged'
  <2>1. Ledger!ToSet(Log)' = Ledger!ToSet(Log')
    BY DEF Ledger!ToSet
  <2>2. \A i \in DOMAIN turns' : turns'[i].id \in Id
    BY TurnFields
  <2>3. DOMAIN turns' = 1..Len(turns') /\ Len(turns') \in Nat
    OBVIOUS
  <2>4. Log' \in Seq(Id) /\ DOMAIN Log' = DOMAIN turns'
    BY <2>2, <2>3 DEF Log
  <2> QED BY <2>4 DEF Ledger!ToSet, Log, Logged, Gone
<1>3. Ledger!ToSet(Log) = Logged
  BY <1>1, LogIs
<1>4. Log' \in Seq(Logged)
  <2>1. DOMAIN Log' = 1..Len(Log') /\ Len(Log') \in Nat
    BY <1>2
  <2>2. \A n \in DOMAIN Log' : Log'[n] \in Logged
    BY <1>2 DEF Log, Logged
  <2> QED BY <1>2, <2>1, <2>2
<1>5. \A m, n \in DOMAIN Log' : m < n => Log'[m] < Log'[n]
  BY <1>2 DEF Log
<1>6. Gone' = Gone \cap Logged'
  <2>1. Gone' \subseteq Gone
    BY DEF Gone
  <2>2. ASSUME NEW i \in DOMAIN turns, ~turns[i].raw, NEW n \in DOMAIN turns', turns[i].id = turns'[n].id
        PROVE turns'[n].id \in Gone'
    <3>1. PICK m \in DOMAIN turns : turns'[n] = turns[m]
      OBVIOUS
    <3>2. ~(m < i) /\ ~(i < m)
      <4>1. turns[i].id \in Nat
        BY <1>1, TurnFields
      <4> QED BY <1>1, <2>2, <3>1, <4>1 DEF Table
    <3>3. m = i
      BY <1>1, <3>2
    <3> QED BY <2>2, <3>1, <3>3 DEF Gone
  <2>3. Gone \cap Logged' \subseteq Gone'
    BY <2>2 DEF Gone, Logged
  <2> QED BY <1>2, <2>1, <2>3
<1> QED BY <1>2, <1>3, <1>4, <1>5, <1>6 DEF Ledger!Delete, Log, Gone

LEMMA DeleteIsDelete == ASSUME CompactionInv, DeleteTurns PROVE Ledger!Delete
<1>1. turns \in Seq(Turn) /\ Table(turns)
  BY KnownTypes DEF CompactionInv, World
<1>2. PICK d \in DOMAIN turns : turns' = At(turns, DOMAIN turns \ {d})
  BY DEF DeleteTurns
<1> DEFINE P == DOMAIN turns \ {d}
<1>3. /\ turns' \in Seq(Turn)
      /\ \A n \in DOMAIN turns' : Nth(P, n) \in P /\ turns'[n] = turns[Nth(P, n)]
      /\ \A m, n \in DOMAIN turns' : m < n <=> Nth(P, m) < Nth(P, n)
  <2>1. P \in SUBSET (DOMAIN turns) /\ turns' = At(turns, P)
    BY <1>2
  <2> HIDE DEF P
  <2> QED BY <1>1, <2>1, AtIs
<1>4. \A n \in DOMAIN turns' : Nth(P, n) \in DOMAIN turns /\ turns'[n] = turns[Nth(P, n)]
  BY <1>3
<1> HIDE DEF P
<1>5. \A m, n \in DOMAIN turns' : m < n => turns'[m].id < turns'[n].id
  BY <1>1, <1>3, <1>4 DEF Table
<1>6. UNCHANGED <<summary, saved, resets>>
  BY DEF DeleteTurns
<1> QED BY <1>3, <1>4, <1>5, <1>6, LedgerDelete

LEMMA CollapseIsDelete == ASSUME CompactionInv, Collapse PROVE Ledger!Delete
<1>1. turns' = << >> /\ summary' = NoSummary /\ UNCHANGED <<saved, resets>>
  BY DEF Collapse
<1>2. DOMAIN turns' = {} /\ DOMAIN turns' = 1..0
  BY <1>1
<1>3. Log' = << >> /\ Gone' = {} /\ DOMAIN Log' = {}
  BY <1>2 DEF Log, Gone
<1>4. Ledger!ToSet(Log') = {}
  BY <1>3 DEF Ledger!ToSet
<1>5. Log' \in Seq(Ledger!ToSet(Log))
  BY <1>3
<1> QED BY <1>1, <1>3, <1>4, <1>5, NoTypes DEF Ledger!Delete, Log, Gone

LEMMA PruneIsDiscard == ASSUME CompactionInv, Prune PROVE Ledger!Discard
<1>1. /\ turns \in Seq(Turn) /\ UNCHANGED <<summary, saved, resets>>
      /\ \A j \in DOMAIN turns : turns[j].raw /\ turns[j].sec <= sweep.frozen => turns[j].id \in saved
  BY DEF CompactionInv, TypeOK, Stored, Prune
<1>2. PICK cutoff \in 1..second :
        turns' = [i \in DOMAIN turns |->
                    [turns[i] EXCEPT !.raw = @ /\ ~(turns[i].sec <= sweep.frozen /\ turns[i].sec < cutoff)]]
  BY DEF Prune
<1>3. ASSUME NEW i \in DOMAIN turns
      PROVE /\ turns'[i].id = turns[i].id
            /\ ~turns[i].raw => ~turns'[i].raw
            /\ ~turns'[i].raw => ~turns[i].raw \/ (turns[i].raw /\ turns[i].sec <= sweep.frozen)
  <2>1. turns[i] \in Turn
    BY <1>1
  <2>2. PICK b \in BOOLEAN : b = (turns[i].raw /\ ~(turns[i].sec <= sweep.frozen /\ turns[i].sec < cutoff))
    OBVIOUS
  <2>3. turns'[i] = [turns[i] EXCEPT !.raw = b]
    BY <1>2, <2>2
  <2>4. turns'[i].raw = b /\ turns'[i].id = turns[i].id
    BY <2>1, <2>3 DEF Turn
  <2> QED BY <2>2, <2>4
<1>4. DOMAIN turns' = DOMAIN turns
  BY <1>2
<1>5. Log' = Log
  BY <1>3, <1>4 DEF Log
<1>6. Gone \subseteq Gone' /\ Gone' \subseteq Gone \cup saved
  BY <1>1, <1>3, <1>4 DEF Gone
<1> QED BY <1>1, <1>5, <1>6 DEF Ledger!Discard, Log, Gone

\* What is saved stands for the oldest turns.
LEMMA SavedIsOldest ==
  ASSUME CompactionInv, NEW s \in Summaries, NEW i \in s.cover, NEW j \in Logged \ (s.cover \cup Gone)
  PROVE i < j
<1>1. /\ turns \in Seq(Turn) /\ turns \in Known /\ Full(s) /\ UpTo(s, turns) /\ s.frozen \in Nat
  BY KnownTypes DEF CompactionInv, World
<1>2. PICK m \in DOMAIN turns : turns[m].id = j
  BY DEF Logged
<1>3. turns[m].raw
  BY <1>2 DEF Gone
<1>4. turns[m].sec > s.frozen
  <2>1. turns[m].sec \in Nat /\ ~(turns[m].sec <= s.frozen)
    BY <1>1, <1>2, <1>3, TurnFields DEF Full
  <2> QED BY <1>1, <2>1
<1> QED BY <1>1, <1>2, <1>4 DEF UpTo

LEMMA SaveExtends == ASSUME CompactionInv, NEW k \in Kind, Save(k) PROVE Ledger!Extend \/ Ledger!Reset
<1>1. /\ pass[k].at = "save" /\ summary' = pass[k].next /\ saved' = saved \cup summary'.cover
      /\ resets' = (IF k = "clear" \/ (k = "rebuild" /\ pass[k].first) THEN resets + 1 ELSE resets)
      /\ turns' = turns /\ turns \in Seq(Turn) /\ pass[k].next \in Summaries
  BY KnownTypes DEF Save, CompactionInv
<1>2. Log' = Log /\ Gone' = Gone /\ Ledger!ToSet(Log') = Logged
  BY <1>1, LogIs DEF Log, Gone
<1>3. \A i \in summary'.cover, j \in Ledger!ToSet(Log') \ (summary'.cover \cup Gone') : i < j
  BY <1>1, <1>2, SavedIsOldest
<1>4. Ledger!Oldest(summary'.cover)
  BY <1>3 DEF Ledger!Oldest, Log, Gone
<1>5. CASE k = "clear" \/ (k = "rebuild" /\ pass[k].first)
  BY <1>1, <1>2, <1>4, <1>5 DEF Ledger!Reset, Log, Gone
<1>6. CASE ~(k = "clear" \/ (k = "rebuild" /\ pass[k].first))
  <2>1. summary.cover \subseteq summary'.cover
    BY <1>1, <1>6 DEF CompactionInv, Grows, Extending
  <2> QED BY <1>1, <1>2, <1>4, <1>6, <2>1 DEF Ledger!Extend, Log, Gone
<1> QED BY <1>5, <1>6

LEMMA LedgerInit == Init => Ledger!Init
<1> SUFFICES ASSUME Init PROVE Ledger!Init
  OBVIOUS
<1>1. turns = << >> /\ summary = NoSummary /\ saved = {} /\ resets = 0
  BY DEF Init
<1>2. DOMAIN turns = {} /\ DOMAIN turns = 1..0
  BY <1>1
<1>3. Log = << >> /\ Gone = {}
  BY <1>2 DEF Log, Gone
<1> QED BY <1>1, <1>3, NoTypes DEF Ledger!Init, Log, Gone

LEMMA LedgerNext == CompactionInv /\ CompactionInv' /\ [Next]_vars => [Ledger!Next]_(Ledger!vars)
<1> SUFFICES ASSUME CompactionInv, CompactionInv', [Next]_vars PROVE [Ledger!Next]_(Ledger!vars)
  OBVIOUS
<1>0. turns' \in Seq(Turn)
  BY DEF CompactionInv, TypeOK
<1>1. CASE Add("text", 0) \/ Add("call", 0) \/ AddResult
  <2>1. \E kind, ref : Add(kind, ref)
    BY <1>1 DEF AddResult
  <2> QED BY <1>0, <2>1, LedgerAdd DEF Ledger!Next
<1>2. CASE DeleteTurns
  BY <1>2, DeleteIsDelete DEF Ledger!Next
<1>3. CASE Prune
  BY <1>3, PruneIsDiscard DEF Ledger!Next
<1>4. CASE Collapse
  BY <1>4, CollapseIsDelete DEF Ledger!Next
<1>5. ASSUME NEW k \in Kind, Save(k) PROVE Ledger!Next
  BY <1>5, SaveExtends DEF Ledger!Next
<1>6. CASE UNCHANGED vars
  BY <1>6, LedgerStill DEF vars
<1>7. CASE Tick \/ Schedule \/ Fire \/ SweepList \/ ReadHistory \/ Assemble \/ Restart
  BY <1>7, LedgerStill DEF Tick, Schedule, Fire, SweepList, ReadHistory, Assemble, Restart, storeVars
<1>8. ASSUME NEW k \in {"compact", "rebuild", "clear"}, Command(k) PROVE UNCHANGED Ledger!vars
  BY <1>8, LedgerStill DEF Command
<1>9. ASSUME NEW k \in Kind, ReadTurns(k) \/ NothingToDo(k) \/ Advance(k) \/ Fails(k)
      PROVE UNCHANGED Ledger!vars
  BY <1>9, LedgerStill DEF ReadTurns, NothingToDo, Advance, Fails, storeVars
<1> QED BY <1>1, <1>2, <1>3, <1>4, <1>5, <1>6, <1>7, <1>8, <1>9 DEF Next, PassStep

(* LedgerSpec: the stored turns, the summary and the bodies that retention    *)
(* throws away behave as the ledger of ContextLedger, whatever passes, sweeps *)
(* and edits do to them at the same time.                                     *)
THEOREM KeepsTheLedger == Spec => LedgerSpec
<1>1. Init => Ledger!Init
  BY LedgerInit
<1>2. CompactionInv /\ CompactionInv' /\ [Next]_vars => [Ledger!Next]_(Ledger!vars)
  BY LedgerNext
<1> QED BY CompactionInvariant, <1>1, <1>2, PTL DEF Spec, LedgerSpec, Ledger!Spec
=============================================================================
