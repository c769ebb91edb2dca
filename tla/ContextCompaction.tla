-------------------------- MODULE ContextCompaction --------------------------
(***************************************************************************)
(* One conversation's stored turns and the summary that stands for the     *)
(* oldest of them: conversation/store.go, the background passes of         *)
(* compactiongen/compactiongen.go over compactor/compactor.go, the sweep   *)
(* of retention/retention.go, and the assembly of what a model is sent in  *)
(* hostsvc/persistence/persistence.go.                                     *)
(*                                                                         *)
(* A pass reads the turns and the summary, thinks for minutes, and writes  *)
(* a new summary; turns are added, pruned and deleted meanwhile. The       *)
(* boundary between summarised and verbatim turns is a second of wall      *)
(* time, and several turns fall into one. A model call in an assistant's   *)
(* turn and its result in a later turn make an exchange: a provider gets   *)
(* both or neither.                                                        *)
(***************************************************************************)
EXTENDS Naturals, FiniteSets, Sequences, SequencesExt

CONSTANTS
    VerbatimRecent,     \* turns kept verbatim
    ActivationFloor,    \* messages below which nothing is summarised
    PassLimit,          \* messages a pass summarises (maxSegmentsPerPass)
    MaxTurns,           \* bound: turns added
    MaxSecond,          \* bound: the clock
    MaxDeletes,         \* bound: turns deleted by the user
    MaxCommands,        \* bound: passes the user asks for
    MaxActive           \* bound: passes, sweeps and assemblies under way

ASSUME ContextAssumption ==
    /\ VerbatimRecent \in Nat \ {0} /\ ActivationFloor \in Nat /\ PassLimit \in Nat \ {0}
    /\ MaxTurns \in Nat /\ MaxSecond \in Nat \ {0} /\ MaxDeletes \in Nat /\ MaxCommands \in Nat
    /\ MaxActive \in Nat

VARIABLES
    second,     \* wall clock
    added,      \* turns added so far; a turn's id is its number
    turns,      \* the table, in order of created_at and rowid
    summary,    \* the stored Compaction: FrozenThrough, turns it stands for
    timer,      \* a debounced pass is due
    inflight,   \* the conversation is claimed
    pass,       \* pass[k]: where the pass of kind k is, and what it has read
    sweep,      \* the sweeper: place and FrozenThrough it has read
    reader,     \* a turn that assembles its history: place and turns read
    answered,   \* history: calls whose result was added
    deletes, commands, saved, resets,   \* history, for bounds and properties
    asked       \* history: a pass was asked for since one last read the turns

storeVars == <<second, added, turns, summary, answered, deletes, commands, saved, resets>>
vars == <<second, added, turns, summary, timer, inflight, pass, sweep, reader,
          answered, deletes, commands, saved, resets, asked>>

Id == 1..MaxTurns
Turn == [id : Id, sec : 1..MaxSecond, kind : {"text", "call", "result"}, ref : 0..MaxTurns, raw : BOOLEAN]
Summary == [frozen : 0..MaxSecond, cover : SUBSET Id]
NoSummary == [frozen |-> 0, cover |-> {}]
\* The timer's pass; Regenerate, incremental or from nothing; Clear.
Kind == {"pass", "compact", "rebuild", "clear"}
NoPass == [at |-> "idle", turns |-> << >>, next |-> NoSummary, more |-> FALSE, first |-> TRUE]
NoRead == [at |-> "idle", turns |-> << >>]
NoSweep == [at |-> "idle", frozen |-> 0]

Init ==
    /\ second = 1 /\ added = 0 /\ turns = << >> /\ summary = NoSummary
    /\ timer = FALSE /\ inflight = FALSE
    /\ pass = [k \in Kind |-> NoPass]
    /\ sweep = NoSweep /\ reader = NoRead
    /\ answered = {} /\ deletes = 0 /\ commands = 0 /\ saved = {} /\ resets = 0
    /\ asked = FALSE

-----------------------------------------------------------------------------
(* Histories                                                               *)

\* RepairPairing: a call without a later result and a result without an earlier
\* call are dropped; a pruned turn is plain text.
Visible(q, i) ==
    CASE q[i].kind = "call" /\ q[i].raw -> \E j \in i + 1..Len(q) : q[j].ref = q[i].id /\ q[j].raw
      [] q[i].kind = "result" /\ q[i].raw -> \E j \in 1..i - 1 : q[j].id = q[i].ref /\ q[j].raw
      [] OTHER -> TRUE
Messages(q) == {i \in DOMAIN q : Visible(q, i)}

\* The n-th of a set of positions, and what q has at such a set, in order.
Nth(P, n) == CHOOSE i \in P : Cardinality({j \in P : j <= i}) = n
At(q, P) == [n \in 1..Cardinality(P) |-> q[Nth(P, n)]]

\* liveTurns: after the boundary.
Live(q, frozen) == At(q, {i \in DOMAIN q : q[i].sec > frozen})

\* ToolSafePrefix: no call of the first n turns has its result after them.
Closed(q, n) ==
    \A i \in 1..n : q[i].kind = "call" /\ q[i].raw => \E j \in i + 1..n : q[j].ref = q[i].id /\ q[j].raw
\* No turn after the first n was written in the second of the n-th.
SecondEnds(q, n) == n \in {0, Len(q)} \/ q[n].sec < q[n + 1].sec

Largest(S) == CHOOSE n \in S : \A m \in S : m <= n

\* Mutant of SafeFreezeCount: seconds are not looked at.
ToolSafeCount(q, n) == Largest({m \in 0..n : Closed(q, m)})

\* safeFreezeCount: its loop ends at the largest prefix that is both.
SafeFreezeCount(q, n) == Largest({m \in 0..n : Closed(q, m) /\ SecondEnds(q, m)})

-----------------------------------------------------------------------------
(* Advance: one pass over what was read                                    *)

\* All but the recent turns, cut where it is safe.
Eligible(q, s) ==
    LET live == Live(q, s.frozen) IN
    IF Cardinality(Messages(q)) < ActivationFloor \/ Len(live) <= VerbatimRecent THEN << >>
    ELSE SubSeq(live, 1, SafeFreezeCount(live, Len(live) - VerbatimRecent))

\* The turn of the c-th message of q.
TurnOf(q, c) == Nth(Messages(q), c)
\* Where a pass that summarised c messages draws the boundary.
Boundary(q, c) == SafeFreezeCount(q, TurnOf(q, c))
Frozen(q, c) == Cardinality({i \in Messages(q) : i <= Boundary(q, c)})
\* The messages a pass takes on, and those it can end with: all that the
\* boundary admits, or fewer, when a later segment failed.
Covered(q) == LET n == Cardinality(Messages(q)) IN IF n < PassLimit THEN n ELSE PassLimit
Whole(q) == IF Covered(q) > 0 /\ Frozen(q, Covered(q)) > 0 THEN {Covered(q)} ELSE {}
Part(q) == {c \in 1..Covered(q) - 1 : Frozen(q, c) = c}

Summarised(s, q, c) ==
    LET b == Boundary(q, c) IN
    [frozen |-> q[b].sec, cover |-> s.cover \cup {q[i].id : i \in {j \in 1..b : q[j].raw}}]

-----------------------------------------------------------------------------
(* The store                                                               *)

Tick ==
    /\ second < MaxSecond /\ second' = second + 1
    /\ UNCHANGED <<added, turns, summary, timer, inflight, pass, sweep, reader,
                   answered, deletes, commands, saved, resets, asked>>

\* Append, by a runner through PersistTurn. A call that is interrupted never
\* gets its result.
Add(kind, ref) ==
    /\ added < MaxTurns
    /\ added' = added + 1
    /\ turns' = Append(turns, [id |-> added + 1, sec |-> second, kind |-> kind, ref |-> ref, raw |-> TRUE])
    /\ answered' = answered \cup ({ref} \ {0})
    /\ UNCHANGED <<second, summary, timer, inflight, pass, sweep, reader,
                   deletes, commands, saved, resets, asked>>

AddResult ==
    \E i \in DOMAIN turns :
        turns[i].kind = "call" /\ turns[i].id \notin answered /\ Add("result", turns[i].id)

\* DeleteTurns, for the user.
DeleteTurns ==
    /\ deletes < MaxDeletes /\ deletes' = deletes + 1
    /\ \E d \in DOMAIN turns : turns' = At(turns, DOMAIN turns \ {d})
    /\ UNCHANGED <<second, added, summary, timer, inflight, pass, sweep, reader,
                   answered, commands, saved, resets, asked>>

-----------------------------------------------------------------------------
(* Passes                                                                  *)

\* Schedule: after a turn, and by an assembly that is over its limit.
Schedule ==
    /\ ~timer /\ timer' = TRUE /\ asked' = TRUE
    /\ UNCHANGED <<storeVars, inflight, pass, sweep, reader>>

\* Room for one more actor, as far as it is bounded here.
MayStart ==
    Cardinality({k \in Kind : pass[k].at # "idle"})
      + Cardinality({x \in {"sweep"} : sweep.at # "idle"} \cup {x \in {"reader"} : reader.at # "idle"}) < MaxActive

Claim(k, at) == inflight' = TRUE /\ pass' = [pass EXCEPT ![k].at = at]
Release(k) == inflight' = FALSE /\ pass' = [pass EXCEPT ![k] = NoPass]

\* Mutant of Fire: the pass is skipped while another holds the conversation.
FireOrSkip ==
    /\ timer /\ timer' = FALSE /\ (inflight \/ MayStart)
    /\ IF inflight THEN UNCHANGED <<inflight, pass>> ELSE Claim("pass", "turns")
    /\ UNCHANGED <<storeVars, sweep, reader, asked>>

\* The timer fires: claim, or schedule again.
Fire ==
    /\ timer /\ timer' = inflight /\ (inflight \/ MayStart)
    /\ IF inflight THEN UNCHANGED <<inflight, pass>> ELSE Claim("pass", "turns")
    /\ UNCHANGED <<storeVars, sweep, reader, asked>>

\* Regenerate and Clear refuse a conversation that is claimed. What Clear reads
\* is only reported.
Command(k) ==
    /\ MayStart /\ ~inflight /\ commands < MaxCommands /\ commands' = commands + 1
    /\ Claim(k, IF k = "clear" THEN "save" ELSE "turns")
    /\ UNCHANGED <<second, added, turns, summary, answered, deletes, saved, resets,
                   timer, sweep, reader, asked>>

\* GetTurns.
ReadTurns(k) ==
    /\ pass[k].at = "turns"
    /\ IF turns = << >> THEN Release(k)
       ELSE /\ pass' = [pass EXCEPT ![k].at = "advance", ![k].turns = turns]
            /\ UNCHANGED inflight
    /\ asked' = (asked /\ k # "pass")
    /\ UNCHANGED <<storeVars, timer, sweep, reader>>

\* The state a pass extends: what GetCompaction returns, nothing for a rebuild,
\* then what the pass before made.
Base(k) ==
    IF ~pass[k].first THEN pass[k].next
    ELSE IF k = "rebuild" THEN NoSummary ELSE summary

\* Advance: nothing to do. A rebuild's first pass saves its reset all the same.
NothingToDo(k) ==
    /\ pass[k].at = "advance"
    /\ Whole(Eligible(pass[k].turns, Base(k))) = {}
    /\ IF k = "rebuild" /\ pass[k].first
       THEN /\ pass' = [pass EXCEPT ![k].at = "save", ![k].turns = << >>]
            /\ UNCHANGED inflight
       ELSE Release(k)
    /\ UNCHANGED <<storeVars, timer, sweep, reader, asked>>

\* Advance: the boundary moves. Only a regeneration keeps what it has read.
Advance(k) ==
    /\ pass[k].at = "advance"
    /\ LET q == Eligible(pass[k].turns, Base(k)) IN
       \E c \in Whole(q) \cup Part(q) :
          LET more == c \in Part(q) \/ Cardinality(Messages(q)) > PassLimit IN
          pass' = [pass EXCEPT ![k] =
                     [pass[k] EXCEPT !.at = "save", !.next = Summarised(Base(k), q, c), !.more = more,
                                     !.turns = IF more /\ k # "pass" THEN @ ELSE << >>]]
    /\ UNCHANGED <<storeVars, timer, inflight, sweep, reader, asked>>

\* The summariser or the store fails, or the caller has gone.
Fails(k) ==
    /\ pass[k].at # "idle"
    /\ Release(k)
    /\ asked' = (asked /\ ~(k = "pass" /\ pass[k].at = "turns"))
    /\ UNCHANGED <<storeVars, timer, sweep, reader>>

\* SaveCompaction; with more to do a pass is scheduled, a regeneration goes on.
Save(k) ==
    /\ pass[k].at = "save"
    /\ summary' = pass[k].next
    /\ saved' = saved \cup summary'.cover
    /\ resets' = IF k = "clear" \/ (k = "rebuild" /\ pass[k].first) THEN resets + 1 ELSE resets
    /\ timer' = (timer \/ (k = "pass" /\ pass[k].more))
    /\ asked' = (asked \/ (k = "pass" /\ pass[k].more))
    /\ IF k # "pass" /\ pass[k].more
       THEN /\ pass' = [pass EXCEPT ![k].at = "advance", ![k].first = FALSE]
            /\ UNCHANGED inflight
       ELSE Release(k)
    /\ UNCHANGED <<second, added, turns, answered, deletes, commands, sweep, reader>>

-----------------------------------------------------------------------------
(* Retention                                                               *)

\* The sweep lists the conversation and finds it dead, or reads its summary.
SweepList ==
    /\ MayStart /\ sweep.at = "idle" /\ turns # << >> /\ Last(turns).sec < second
    /\ \/ sweep' = [at |-> "collapse", frozen |-> 0]
       \/ summary.frozen > 0 /\ sweep' = [at |-> "prune", frozen |-> summary.frozen]
    /\ UNCHANGED <<storeVars, timer, inflight, pass, reader, asked>>

\* Mutant of Prune: the age alone decides.
PruneByAge ==
    /\ sweep.at = "prune" /\ sweep' = NoSweep
    /\ \E cutoff \in 1..second :
          turns' = [i \in DOMAIN turns |-> [turns[i] EXCEPT !.raw = @ /\ turns[i].sec >= cutoff]]
    /\ UNCHANGED <<second, added, summary, answered, deletes, commands, saved, resets,
                   timer, inflight, pass, reader, asked>>

\* PruneRawBodies: old turns the summary stood for when it was read.
Prune ==
    /\ sweep.at = "prune" /\ sweep' = NoSweep
    /\ \E cutoff \in 1..second :
          turns' = [i \in DOMAIN turns |->
                      [turns[i] EXCEPT !.raw = @ /\ ~(turns[i].sec <= sweep.frozen /\ turns[i].sec < cutoff)]]
    /\ UNCHANGED <<second, added, summary, answered, deletes, commands, saved, resets,
                   timer, inflight, pass, reader, asked>>

\* CollapseConversation: whatever was written since the list.
Collapse ==
    /\ sweep.at = "collapse" /\ sweep' = NoSweep
    /\ turns' = << >> /\ summary' = NoSummary
    /\ UNCHANGED <<second, added, answered, deletes, commands, saved, resets,
                   timer, inflight, pass, reader, asked>>

-----------------------------------------------------------------------------
(* Assembly of a history                                                   *)

ReadHistory ==
    /\ MayStart /\ reader.at = "idle"
    /\ reader' = [at |-> "summary", turns |-> turns]
    /\ UNCHANGED <<storeVars, timer, inflight, pass, sweep, asked>>

\* GetCompaction, and BuildSendView of both.
Assemble ==
    /\ reader.at = "summary"
    /\ reader' = NoRead
    /\ UNCHANGED <<storeVars, timer, inflight, pass, sweep, asked>>

\* What the history shows as it was written.
Verbatim(q, s) ==
    LET live == Live(q, s.frozen) IN {live[i].id : i \in {j \in Messages(live) : live[j].raw}}

-----------------------------------------------------------------------------
\* The agent restarts: the database stays.
Restart ==
    /\ timer' = FALSE /\ inflight' = FALSE
    /\ pass' = [k \in Kind |-> NoPass] /\ sweep' = NoSweep /\ reader' = NoRead
    /\ asked' = FALSE
    /\ UNCHANGED storeVars

PassStep(k) == ReadTurns(k) \/ NothingToDo(k) \/ Advance(k) \/ Save(k)

Next ==
    \/ Tick \/ Add("text", 0) \/ Add("call", 0) \/ AddResult \/ DeleteTurns
    \/ Schedule \/ Fire
    \/ \E k \in {"compact", "rebuild", "clear"} : Command(k)
    \/ \E k \in Kind : PassStep(k) \/ Fails(k)
    \/ SweepList \/ Prune \/ Collapse
    \/ ReadHistory \/ Assemble
    \/ Restart

Spec == Init /\ [][Next]_vars

-----------------------------------------------------------------------------
(* Properties                                                              *)

TypeOK ==
    /\ second \in 1..MaxSecond /\ added \in 0..MaxTurns
    /\ turns \in Seq(Turn) /\ summary \in Summary
    /\ timer \in BOOLEAN /\ inflight \in BOOLEAN /\ asked \in BOOLEAN
    /\ pass \in [Kind -> [at : {"idle", "turns", "advance", "save"}, turns : Seq(Turn),
                          next : Summary, more : BOOLEAN, first : BOOLEAN]]
    /\ sweep.at \in {"idle", "prune", "collapse"} /\ sweep.frozen \in 0..MaxSecond
    /\ reader.at \in {"idle", "summary"} /\ reader.turns \in Seq(Turn)
    /\ answered \subseteq Id /\ saved \subseteq Id /\ resets \in Nat

\* The turns a history has to show: stored, and visible then and now.
Expected(q) ==
    {q[i].id : i \in Messages(q)} \cap {turns[i].id : i \in Messages(turns)}
Bodied == {turns[i].id : i \in {j \in DOMAIN turns : turns[j].raw}}

\* A history shows every stored turn, as written or in the summary and never in
\* both, whatever was saved, pruned or deleted between its two reads and
\* however seconds and exchanges straddle the boundary. Once the user had the
\* summary dropped or rebuilt, turns whose body retention took may be missing;
\* a turn that has its body is shown then, too.
ViewExact ==
    /\ TypeOK
    /\ reader.at = "summary" =>
          LET verbatim == Verbatim(reader.turns, summary)
              shown == verbatim \cup summary.cover IN
          /\ verbatim \cap summary.cover = {}
          /\ Expected(reader.turns) \cap Bodied \subseteq shown
          /\ resets = 0 => Expected(reader.turns) \subseteq shown

Ledger == INSTANCE ContextLedger WITH
    log <- [i \in DOMAIN turns |-> turns[i].id],
    gone <- {turns[i].id : i \in {j \in DOMAIN turns : ~turns[j].raw}},
    digest <- summary.cover

\* Turns, summary and pruned bodies behave as the ledger of ContextLedger:
\* only what a summary stood for is thrown away, and without the user's word
\* the summary never loses a turn nor skips one.
LedgerSpec == Ledger!Spec

\* A request for a pass outlives the pass that holds the conversation, its
\* failure and its end: until a later pass comes to read the turns, one is due.
\* (A pass that cannot read them gives up, and its request with it.)
RequestsServed == asked => timer \/ pass["pass"].at = "turns"
=============================================================================
