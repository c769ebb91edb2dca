-------------------------- MODULE ClientCalls_proofs --------------------------
(***************************************************************************)
(* Proofs about what clients call between turns: SessionProfile, for any    *)
(* number of callers, runs, calls and restarts, and ModelDownloads, for any *)
(* number of calls, files and retries. They share nothing.                 *)
(*                                                                         *)
(* Every step of either changes one call or one goroutine, so there is a    *)
(* lemma for what a step makes of that one, a lemma for what it leaves to   *)
(* the others, and one for each part of the invariant that names them all. *)
(***************************************************************************)
EXTENDS SessionProfile, ModelDownloads, FiniteSetTheorems, TLAPS

(***************************************************************************)
(* The session profile                                                     *)
(***************************************************************************)

\* Calls, and where they are.
Place == {"idle", "look", "ledger", "write", "set", "name", "tell", "failed", "reply"}
CallRecord == [op : Op \cup {"none"}, row : 0..MaxRuns, name : Profile, cut : BOOLEAN, at : Place]

\* Only c's call changes, to one that agrees with it but for the place.
Apart(c) == \A d \in Caller \ {c} : call'[d] = call[d]
Became(c, op, at, i, name, cut) ==
    /\ call' \in [Caller -> CallRecord]
    /\ Apart(c)
    /\ call'[c].op = op /\ call'[c].at = at /\ call'[c].row = i
    /\ call'[c].name = name /\ call'[c].cut = cut

\* What the type invariant says of calls.
LEMMA CallsType == TypeOK => call \in [Caller -> CallRecord]
  BY DEF TypeOK, CallRecord, Place

\* The call of c after each of the ways to change it.
LEMMA GoneTo ==
  ASSUME TypeOK, NEW c \in Caller, NEW at \in Place, Goto(c, at)
  PROVE Became(c, call[c].op, at, call[c].row, call[c].name, call[c].cut)
<1>1. call[c] \in CallRecord
  BY CallsType
<1>2. [call[c] EXCEPT !.at = at] \in CallRecord
  BY <1>1 DEF CallRecord
<1> QED
  BY <1>1, <1>2, CallsType DEF Goto, Became, Apart, CallRecord

LEMMA Finished ==
  ASSUME TypeOK, NEW c \in Caller, Finish(c)
  PROVE Became(c, "none", "idle", 0, "default", FALSE)
<1>1. Idle \in CallRecord
  BY ProfileAssumption DEF Idle, CallRecord, Op, Profile, Place
<1> QED
  BY <1>1, CallsType DEF Finish, Became, Apart, CallRecord, Idle

LEMMA Began ==
  ASSUME TypeOK, NEW c \in Caller, NEW op \in Op, NEW at \in Place, NEW name \in Profile,
         Begin(c, op, at, name)
  PROVE Became(c, op, at, 0, name, FALSE)
<1>1. [op |-> op, at |-> at, row |-> 0, name |-> name, cut |-> FALSE] \in CallRecord
  BY ProfileAssumption DEF CallRecord, Op
<1> QED
  BY <1>1, CallsType DEF Begin, Became, Apart, CallRecord

LEMMA Renamed ==
  ASSUME TypeOK, NEW c \in Caller, NEW at \in Place, NEW name \in Profile,
         call' = [call EXCEPT ![c] = [@ EXCEPT !.at = at, !.name = name]]
  PROVE Became(c, call[c].op, at, call[c].row, name, call[c].cut)
<1>1. call[c] \in CallRecord
  BY CallsType
<1>2. [[call[c] EXCEPT !.at = at] EXCEPT !.name = name] \in CallRecord
  BY <1>1 DEF CallRecord
<1>3. call' = [call EXCEPT ![c] = [[call[c] EXCEPT !.at = at] EXCEPT !.name = name]]
  BY <1>1, CallsType DEF CallRecord
<1> QED
  BY <1>1, <1>2, <1>3, CallsType DEF Became, Apart, CallRecord

LEMMA Held ==
  ASSUME TypeOK, NEW c \in Caller, NEW at \in Place, NEW i \in Row,
         call' = [call EXCEPT ![c] = [@ EXCEPT !.at = at, !.row = i]]
  PROVE Became(c, call[c].op, at, i, call[c].name, call[c].cut)
<1>1. call[c] \in CallRecord
  BY CallsType
<1>0. i \in 0..MaxRuns
  BY ProfileAssumption DEF Row
<1>2. [[call[c] EXCEPT !.at = at] EXCEPT !.row = i] \in CallRecord
  BY <1>0, <1>1 DEF CallRecord
<1>3. call' = [call EXCEPT ![c] = [[call[c] EXCEPT !.at = at] EXCEPT !.row = i]]
  BY <1>1, CallsType DEF CallRecord
<1> QED
  BY <1>1, <1>2, <1>3, CallsType DEF Became, Apart, CallRecord

LEMMA WasCut ==
  ASSUME TypeOK, NEW c \in Caller, call' = [call EXCEPT ![c].cut = TRUE]
  PROVE Became(c, call[c].op, call[c].at, call[c].row, call[c].name, TRUE)
<1>1. call[c] \in CallRecord
  BY CallsType
<1>2. [call[c] EXCEPT !.cut = TRUE] \in CallRecord
  BY <1>1 DEF CallRecord
<1> QED
  BY <1>1, <1>2, CallsType DEF Became, Apart, CallRecord

\* The note that c wrote is a note for each caller.
LEMMA TouchType ==
  ASSUME TypeOK, NEW c \in Caller, Touch(c) \/ UNCHANGED touched
  PROVE touched' \in [Caller -> BOOLEAN]
  BY DEF TypeOK, Touch

\* The type of the whole state from that of what a step changed.
Typed ==
    /\ active' \in Profile /\ chip' \in Profile
    /\ raced' \in BOOLEAN /\ torn' \in BOOLEAN
    /\ row' \in [Row -> {"none", "running", "abandoned", "completed"}]
    /\ call' \in [Caller -> CallRecord]

\* The type invariant after a step, from the type of what it changed.
LEMMA TypeFrom ==
  ASSUME TypeOK, Typed, wired' = wired, calls' \in 0..MaxCalls, restarts' \in 0..MaxRestarts,
         touched' \in [Caller -> BOOLEAN]
  PROVE TypeOK'
  BY DEF Typed, TypeOK, CallRecord, Place

\* How c's call moves on in each step.
LEMMA BeginStep ==
  ASSUME TypeOK, NEW c \in Caller, NEW op \in Op, NEW at \in Place, NEW name \in Profile,
         Begin(c, op, at, name)
  PROVE TypeOK' /\ Became(c, op, at, 0, name, FALSE)
<1>1. Became(c, op, at, 0, name, FALSE)
  BY Began
<1>2. calls' \in 0..MaxCalls
  BY ProfileAssumption DEF Begin, TypeOK
<1>3. touched' \in [Caller -> BOOLEAN]
  BY DEF Begin, TypeOK
<1>4. Typed /\ wired' = wired /\ restarts' \in 0..MaxRestarts
  BY <1>1 DEF Begin, TypeOK, Typed, Became
<1> QED
  BY <1>1, <1>2, <1>3, <1>4, TypeFrom

LEMMA BeginSteps ==
  ASSUME TypeOK, NEW c \in Caller,
         Select(c) \/ Enter(c) \/ Leave(c) \/ Exit(c) \/ StartTurn(c) \/ Ask(c)
  PROVE \E op \in Op, at \in {"set", "ledger", "look"}, name \in Profile :
           /\ TypeOK' /\ Begin(c, op, at, name)
           /\ Became(c, op, at, 0, name, FALSE)
           /\ op \in {"leave", "exit"} => at = "ledger" /\ name = "default"
           /\ op \in {"start", "ask"} => at = "look" /\ name = "autonomous"
           /\ op = "enter" => at = "ledger"
           /\ at = "look" => op \in {"start", "ask"}
<1>1. CASE Select(c)
  <2>1. PICK name \in Selectable : Begin(c, "select", "set", name)
    BY <1>1 DEF Select
  <2>2. name \in Profile
    BY ProfileAssumption
  <2>3. TypeOK' /\ Became(c, "select", "set", 0, name, FALSE)
    BY <2>1, <2>2, BeginStep DEF Op, Place
  <2> QED
    BY <2>1, <2>2, <2>3 DEF Op
<1>2. CASE Enter(c)
  <2>1. TypeOK' /\ Became(c, "enter", "ledger", 0, "autonomous", FALSE)
    BY <1>2, BeginStep DEF Enter, Op, Place, Profile
  <2> QED
    BY <1>2, <2>1 DEF Enter, Op, Profile
<1>3. CASE Leave(c)
  <2>1. TypeOK' /\ Became(c, "leave", "ledger", 0, "default", FALSE)
    BY <1>3, BeginStep DEF Leave, Op, Place, Profile
  <2> QED
    BY <1>3, <2>1 DEF Leave, Op, Profile
<1>4. CASE Exit(c)
  <2>1. TypeOK' /\ Became(c, "exit", "ledger", 0, "default", FALSE)
    BY <1>4, BeginStep DEF Exit, Op, Place, Profile
  <2> QED
    BY <1>4, <2>1 DEF Exit, Op, Profile
<1>5. CASE StartTurn(c)
  <2>1. TypeOK' /\ Became(c, "start", "look", 0, "autonomous", FALSE)
    BY <1>5, BeginStep DEF StartTurn, Op, Place, Profile
  <2> QED
    BY <1>5, <2>1 DEF StartTurn, Op, Profile
<1>6. CASE Ask(c)
  <2>1. TypeOK' /\ Became(c, "ask", "look", 0, "autonomous", FALSE)
    BY <1>6, BeginStep DEF Ask, Op, Place, Profile
  <2> QED
    BY <1>6, <2>1 DEF Ask, Op, Profile
<1> QED
  BY <1>1, <1>2, <1>3, <1>4, <1>5, <1>6

\* A call without a broker got nowhere, and only there does a tool fail; what is
\* about to be set follows from the kind of call.
WiredInv == active # "default" => wired
Consistent(c) ==
    /\ call[c].at = "failed" => ~wired
    /\ call[c].op = "none" <=> call[c].at = "idle"
    /\ call[c].at = "reply" => call[c].op = "ask"
    /\ call[c].at = "look" => call[c].op \in {"start", "ask"}
    /\ call[c].op \in {"start", "ask"} /\ call[c].at \in {"ledger", "set", "name", "tell"} => wired
    /\ call[c].op \in {"leave", "exit"} /\ call[c].at \in {"ledger", "write", "set"} =>
          call[c].name = "default"
    /\ call[c].op \in {"start", "ask"} /\ call[c].at \in {"look", "ledger", "set"} =>
          call[c].name = "autonomous"

\* Who is about to enter autonomous mode holds an open run, unless torn.
Holds(c) ==
    wired /\ ~torn /\ call[c].op \in {"start", "ask", "enter"} /\ call[c].at = "set" => Running # {}

\* What c is to tell is the broker's profile, unless raced.
Current(c) == ~raced =>
    /\ call[c].at \in {"tell", "reply"} => call[c].name = active
    /\ call[c].op = "ask" /\ call[c].at = "ledger" => active = "default"
    /\ call[c].op = "ask" /\ call[c].at \in {"name", "tell"} => active = "autonomous"

\* A restoring turn that nobody interfered with has what it set.
Fenced(c) ==
    call[c].op = "start" /\ call[c].at \in {"name", "tell"} /\ ~touched[c] => active = "autonomous"

Own(c) == Consistent(c) /\ Holds(c) /\ Current(c) /\ Fenced(c)

OneRun == \A i, j \in Row : row[i] = "running" /\ row[j] = "running" => i = j

\* Autonomous mode without a run is left by the call that closed it.
Leaving(c) == call[c].op \in {"leave", "exit"} /\ call[c].at = "set"
FenceInv ==
    active = "autonomous" /\ ~torn => Running # {} \/ \E c \in Caller : Leaving(c)

\* Where clients are behind, somebody is about to tell them.
Telling(c) ==
    \/ call[c].at \in {"name", "tell", "reply"}
    \/ call[c].op = "ask" /\ call[c].at \in {"ledger", "set"}
ChipInv == ~raced => chip = active \/ \E c \in Caller : Telling(c)

ProfileInv ==
    /\ WiredInv /\ OneRun /\ FenceInv /\ ChipInv
    /\ \A c \in Caller : Own(c)

\* A call is over; it goes on; it goes on with another name.
Done(c) == Became(c, "none", "idle", 0, "default", FALSE)
Gone(c, at) == Became(c, call[c].op, at, call[c].row, call[c].name, call[c].cut)
Named(c, at, name) == Became(c, call[c].op, at, call[c].row, name, call[c].cut)

\* Where each step takes the call of c, and that types are kept.
LEMMA SetActiveStep ==
  ASSUME TypeOK, NEW c \in Caller, SetActive(c)
  PROVE
   /\ TypeOK'
   /\ Gone(c, "name")
<1>1. Gone(c, "name")
  BY GoneTo DEF SetActive, Gone, Place
<1>2. touched' \in [Caller -> BOOLEAN]
  BY TouchType DEF SetActive
<1>3. Typed
  BY <1>1, CallsType DEF SetActive, Typed, TypeOK, Became, Done, Gone, Named, Profile
<1>4. UNCHANGED <<wired, calls, restarts>>
  BY DEF SetActive
<1> QED
  BY <1>1, <1>2, <1>3, <1>4, TypeFrom DEF TypeOK

LEMMA SetRefusedStep ==
  ASSUME TypeOK, NEW c \in Caller, SetRefused(c)
  PROVE
   /\ TypeOK'
   /\ Gone(c, "failed")
<1>1. Gone(c, "failed")
  BY GoneTo DEF SetRefused, Gone, Place
<1>2. touched' \in [Caller -> BOOLEAN]
  BY TouchType DEF SetRefused
<1>3. Typed
  BY <1>1, CallsType DEF SetRefused, Typed, TypeOK, Became, Done, Gone, Named, Profile
<1>4. UNCHANGED <<wired, calls, restarts>>
  BY DEF SetRefused
<1> QED
  BY <1>1, <1>2, <1>3, <1>4, TypeFrom DEF TypeOK

LEMMA ReadNameStep ==
  ASSUME TypeOK, NEW c \in Caller, ReadName(c)
  PROVE
   /\ TypeOK'
   /\ Named(c, "tell", active)
<1>1. Named(c, "tell", active)
  <2>1. active \in Profile
    BY DEF TypeOK
  <2> QED
    BY <2>1, Renamed DEF ReadName, Named, Place
<1>2. touched' \in [Caller -> BOOLEAN]
  BY TouchType DEF ReadName
<1>3. Typed
  BY <1>1, CallsType DEF ReadName, Typed, TypeOK, Became, Done, Gone, Named, Profile
<1>4. UNCHANGED <<wired, calls, restarts>>
  BY DEF ReadName
<1> QED
  BY <1>1, <1>2, <1>3, <1>4, TypeFrom DEF TypeOK

LEMMA CutRefusedStep ==
  ASSUME TypeOK, NEW c \in Caller, CutRefused(c)
  PROVE
   /\ TypeOK'
   /\ Done(c)
<1>1. Done(c)
  BY Finished DEF CutRefused, Done
<1>2. touched' \in [Caller -> BOOLEAN]
  BY TouchType DEF CutRefused
<1>3. Typed
  BY <1>1, CallsType DEF CutRefused, Typed, TypeOK, Became, Done, Gone, Named, Profile
<1>4. UNCHANGED <<wired, calls, restarts>>
  BY DEF CutRefused
<1> QED
  BY <1>1, <1>2, <1>3, <1>4, TypeFrom DEF TypeOK

LEMMA FailedStep ==
  ASSUME TypeOK, NEW c \in Caller, Failed(c)
  PROVE
   /\ TypeOK'
   /\ Done(c)
<1>1. Done(c)
  BY Finished DEF Failed, Done
<1>2. touched' \in [Caller -> BOOLEAN]
  BY TouchType DEF Failed
<1>3. Typed
  BY <1>1, CallsType DEF Failed, Typed, TypeOK, Became, Done, Gone, Named, Profile
<1>4. UNCHANGED <<wired, calls, restarts>>
  BY DEF Failed
<1> QED
  BY <1>1, <1>2, <1>3, <1>4, TypeFrom DEF TypeOK

LEMMA ReplyStep ==
  ASSUME TypeOK, NEW c \in Caller, Reply(c)
  PROVE
   /\ TypeOK'
   /\ Done(c)
<1>1. Done(c)
  BY Finished DEF Reply, Done
<1>2. touched' \in [Caller -> BOOLEAN]
  BY TouchType DEF Reply
<1>3. Typed
  BY <1>1, CallsType DEF Reply, Typed, TypeOK, Became, Done, Gone, Named, Profile
<1>4. UNCHANGED <<wired, calls, restarts>>
  BY DEF Reply
<1> QED
  BY <1>1, <1>2, <1>3, <1>4, TypeFrom DEF TypeOK

LEMMA AnnounceStep ==
  ASSUME TypeOK, NEW c \in Caller, Announce(c)
  PROVE
   /\ TypeOK'
   /\ IF call[c].op = "ask" THEN Named(c, "reply", "autonomous") ELSE Done(c)
<1>1. IF call[c].op = "ask" THEN Named(c, "reply", "autonomous") ELSE Done(c)
  <2>1. CASE call[c].op = "ask"
    BY <2>1, Renamed DEF Announce, Named, Place, Profile
  <2>2. CASE call[c].op # "ask"
    BY <2>2, Finished DEF Announce, Done
  <2> QED
    BY <2>1, <2>2
<1>2. touched' \in [Caller -> BOOLEAN]
  BY TouchType DEF Announce
<1>3. Typed
  BY <1>1, CallsType DEF Announce, Typed, TypeOK, Became, Done, Gone, Named, Profile
<1>4. UNCHANGED <<wired, calls, restarts>>
  BY DEF Announce
<1> QED
  BY <1>1, <1>2, <1>3, <1>4, TypeFrom DEF TypeOK

LEMMA LookStep ==
  ASSUME TypeOK, NEW c \in Caller, Look(c)
  PROVE
   /\ TypeOK'
   /\ IF active = "default" /\ wired THEN Gone(c, "ledger")
      ELSE IF call[c].op = "ask" THEN Named(c, "reply", active) ELSE Done(c)
<1>1. IF active = "default" /\ wired THEN Gone(c, "ledger")
   ELSE IF call[c].op = "ask" THEN Named(c, "reply", active) ELSE Done(c)
  <2>1. CASE active = "default" /\ wired
    BY <2>1, GoneTo DEF Look, Gone, Place
  <2>2. CASE ~(active = "default" /\ wired) /\ call[c].op = "ask"
    <3>1. active \in Profile
      BY DEF TypeOK
    <3> QED
      BY <2>2, <3>1, Renamed DEF Look, Named, Place
  <2>3. CASE ~(active = "default" /\ wired) /\ call[c].op # "ask"
    BY <2>3, Finished DEF Look, Done
  <2> QED
    BY <2>1, <2>2, <2>3
<1>2. touched' \in [Caller -> BOOLEAN]
  BY TouchType DEF Look
<1>3. Typed
  BY <1>1, CallsType DEF Look, Typed, TypeOK, Became, Done, Gone, Named, Profile
<1>4. UNCHANGED <<wired, calls, restarts>>
  BY DEF Look
<1> QED
  BY <1>1, <1>2, <1>3, <1>4, TypeFrom DEF TypeOK

LEMMA RestoreStep ==
  ASSUME TypeOK, NEW c \in Caller, Restore(c)
  PROVE
   /\ TypeOK'
   /\ IF Running # {} THEN Gone(c, "set")
      ELSE IF call[c].op = "ask" THEN Named(c, "reply", "default") ELSE Done(c)
<1>1. IF Running # {} THEN Gone(c, "set")
   ELSE IF call[c].op = "ask" THEN Named(c, "reply", "default") ELSE Done(c)
  <2>1. CASE Running # {}
    BY <2>1, GoneTo DEF Restore, Gone, Place
  <2>2. CASE Running = {} /\ call[c].op = "ask"
    BY <2>2, Renamed DEF Restore, Named, Place, Profile
  <2>3. CASE Running = {} /\ call[c].op # "ask"
    BY <2>3, Finished DEF Restore, Done
  <2> QED
    BY <2>1, <2>2, <2>3
<1>2. touched' \in [Caller -> BOOLEAN]
  BY TouchType DEF Restore
<1>3. Typed
  BY <1>1, CallsType DEF Restore, Typed, TypeOK, Became, Done, Gone, Named, Profile
<1>4. UNCHANGED <<wired, calls, restarts>>
  BY DEF Restore
<1> QED
  BY <1>1, <1>2, <1>3, <1>4, TypeFrom DEF TypeOK

LEMMA ReadLedgerStep ==
  ASSUME TypeOK, NEW c \in Caller, ReadLedger(c)
  PROVE
   /\ TypeOK'
   /\ \/ Done(c)
      \/ \E i \in 0..MaxRuns : Became(c, call[c].op, "write", i, call[c].name, call[c].cut)
<1>1. \/ Done(c)
   \/ \E i \in 0..MaxRuns : Became(c, call[c].op, "write", i, call[c].name, call[c].cut)
  <2>1. CASE call[c].op = "enter" /\ Running = {}
    <3>1. Gone(c, "write")
      BY <2>1, GoneTo DEF ReadLedger, Gone, Place
    <3>2. call[c].row \in 0..MaxRuns
      BY DEF TypeOK
    <3> QED
      BY <3>1, <3>2 DEF Gone
  <2>2. CASE call[c].op # "enter" /\ Running # {}
    <3>1. (CHOOSE i \in Running : TRUE) \in Row
      BY <2>2 DEF Running
    <3>2. Became(c, call[c].op, "write", CHOOSE i \in Running : TRUE, call[c].name, call[c].cut)
      BY <2>2, <3>1, Held DEF ReadLedger, Place
    <3> QED
      BY <3>1, <3>2, ProfileAssumption DEF Row
  <2>3. CASE (call[c].op = "enter") = (Running # {})
    BY <2>3, Finished DEF ReadLedger, Done
  <2> QED
    BY <2>1, <2>2, <2>3
<1>2. touched' \in [Caller -> BOOLEAN]
  BY TouchType DEF ReadLedger
<1>3. Typed
  BY <1>1, CallsType DEF ReadLedger, Typed, TypeOK, Became, Done, Gone, Named, Profile
<1>4. UNCHANGED <<wired, calls, restarts>>
  BY DEF ReadLedger
<1> QED
  BY <1>1, <1>2, <1>3, <1>4, TypeFrom DEF TypeOK

LEMMA CloseRunStep ==
  ASSUME TypeOK, NEW c \in Caller, CloseRun(c)
  PROVE
   /\ TypeOK'
   /\ IF call[c].cut THEN Done(c) ELSE Gone(c, "set")
<1>1. IF call[c].cut THEN Done(c) ELSE Gone(c, "set")
  <2>1. CASE call[c].cut
    BY <2>1, Finished DEF CloseRun, Done
  <2>2. CASE ~call[c].cut
    BY <2>2, GoneTo DEF CloseRun, Gone, Place
  <2> QED
    BY <2>1, <2>2
<1>2. touched' \in [Caller -> BOOLEAN]
  BY TouchType DEF CloseRun
<1>3. Typed
  BY <1>1, CallsType DEF CloseRun, Typed, TypeOK, Became, Done, Gone, Named, Profile
<1>4. UNCHANGED <<wired, calls, restarts>>
  BY DEF CloseRun
<1> QED
  BY <1>1, <1>2, <1>3, <1>4, TypeFrom DEF TypeOK

LEMMA CutStep ==
  ASSUME TypeOK, NEW c \in Caller, Cut(c)
  PROVE
   /\ TypeOK'
   /\ \/ Done(c)
      \/ Became(c, call[c].op, call[c].at, call[c].row, call[c].name, TRUE)
<1>1. \/ Done(c)
   \/ Became(c, call[c].op, call[c].at, call[c].row, call[c].name, TRUE)
  BY Finished, WasCut DEF Cut, Done
<1>2. touched' \in [Caller -> BOOLEAN]
  BY TouchType DEF Cut
<1>3. Typed
  BY <1>1, CallsType DEF Cut, Typed, TypeOK, Became, Done, Gone, Named, Profile
<1>4. UNCHANGED <<wired, calls, restarts>>
  BY DEF Cut
<1> QED
  BY <1>1, <1>2, <1>3, <1>4, TypeFrom DEF TypeOK

\* The run that enterAutonomousMode opens is the only one.
Opens(c, i) ==
    /\ Running = {} /\ row[i] = "none" /\ row' = [row EXCEPT ![i] = "running"]
    /\ \/ Done(c)
       \/ Became(c, call[c].op, "set", i, call[c].name, call[c].cut)

LEMMA CreateRunStep ==
  ASSUME TypeOK, NEW c \in Caller, CreateRun(c)
  PROVE
   /\ TypeOK'
   /\ \/ row' = row /\ Done(c)
      \/ \E i \in Row : Opens(c, i)
<1>1. CASE Running # {}
  <2>1. row' = row /\ Done(c)
    BY <1>1, Finished DEF CreateRun, Done
  <2>2. Typed /\ UNCHANGED <<wired, calls, restarts, touched>>
    BY <1>1, <2>1, CallsType DEF CreateRun, Typed, TypeOK, Became, Done
  <2> QED
    BY <2>1, <2>2, TypeFrom DEF TypeOK
<1>2. CASE Running = {}
  <2>1. PICK i \in {j \in Row : row[j] = "none"} :
          /\ row' = [row EXCEPT ![i] = "running"]
          /\ IF call[c].cut THEN Finish(c)
             ELSE call' = [call EXCEPT ![c] = [@ EXCEPT !.at = "set", !.row = i]]
    BY <1>2 DEF CreateRun
  <2>2. Done(c) \/ Became(c, call[c].op, "set", i, call[c].name, call[c].cut)
    BY <2>1, Finished, Held DEF Done, Place
  <2>3. touched' \in [Caller -> BOOLEAN]
    BY <1>2, TouchType DEF CreateRun
  <2>4. Typed /\ UNCHANGED <<wired, calls, restarts>>
    BY <2>1, <2>2, CallsType DEF CreateRun, Typed, TypeOK, Became, Done
  <2>5. Opens(c, i)
    BY <1>2, <2>1, <2>2 DEF Opens
  <2> QED
    BY <2>3, <2>4, <2>5, TypeFrom DEF TypeOK
<1> QED
  BY <1>1, <1>2
\* What a step of c does to those who hold a run, tell the profile or restored it.
LeavesOthers(c) ==
    /\ \/ torn' = TRUE \/ ~wired \/ ~Stale(c) \/ Running' # {}
       \/ torn' = torn /\ Running' = Running
    /\ raced' = TRUE \/ (raced' = raced /\ active' = active)
    /\ \/ Touch(c)
       \/ active' = active /\ \A d \in Caller \ {c} : touched'[d] = touched[d]

\* The calls of others keep what the invariant says of a call.
LEMMA OthersKept ==
  ASSUME TypeOK, TypeOK', ProfileInv, NEW c \in Caller, Apart(c), wired' = wired, Own(c)',
         Others(c) = {} \/ LeavesOthers(c)
  PROVE \A d \in Caller : Own(d)'
<1> SUFFICES ASSUME NEW d \in Caller, d # c PROVE Own(d)'
  OBVIOUS
<1>1. call'[d] = call[d]
  BY DEF Apart
<1>2. Own(d)
  BY DEF ProfileInv
<1>3. CASE call[d].at = "idle"
  BY <1>1, <1>2, <1>3 DEF Own, Consistent, Holds, Current, Fenced
<1>4. CASE call[d].at # "idle"
  <2>1. d \in Others(c)
    BY <1>4 DEF Others, InFlight
  <2>2. Consistent(d)'
    BY <1>1, <1>2 DEF Own, Consistent
  <2>3. Holds(d)'
    BY <1>1, <1>2, <2>1 DEF LeavesOthers, Own, Holds, Stale
  <2>4. raced' = TRUE \/ (raced' = raced /\ active' = active)
    BY <2>1 DEF LeavesOthers
  <2>5. Current(d)'
    BY <1>1, <1>2, <2>4 DEF Own, Current
  <2>6. touched'[d] = TRUE \/ (active' = active /\ touched'[d] = touched[d])
    BY <2>1 DEF LeavesOthers, Touch, TypeOK
  <2>7. Fenced(d)'
    BY <1>1, <1>2, <2>6 DEF Own, Fenced
  <2> QED
    BY <2>2, <2>3, <2>5, <2>7 DEF Own
<1> QED
  BY <1>3, <1>4

\* What the invariant says of a call holds of one that has moved.
LEMMA OwnKept ==
  ASSUME TypeOK, ProfileInv, NEW c \in Caller, CallStep(c)
  PROVE TypeOK' /\ Apart(c) /\ wired' = wired /\ Own(c)'
<1>0. Own(c)
  BY DEF ProfileInv
<1>1. CASE Select(c) \/ Enter(c) \/ Leave(c) \/ Exit(c) \/ StartTurn(c) \/ Ask(c)
  <2>1. PICK op \in Op, at \in {"set", "ledger", "look"}, name \in Profile :
           /\ TypeOK' /\ Begin(c, op, at, name)
           /\ Became(c, op, at, 0, name, FALSE)
           /\ op \in {"leave", "exit"} => at = "ledger" /\ name = "default"
           /\ op \in {"start", "ask"} => at = "look" /\ name = "autonomous"
           /\ op = "enter" => at = "ledger"
           /\ at = "look" => op \in {"start", "ask"}
    BY <1>1, BeginSteps
  <2> QED
    BY <2>1 DEF Op, Begin, Became, Own, Consistent, Holds, Current, Fenced
<1>2. CASE SetActive(c)
  BY <1>0, <1>2, SetActiveStep
     DEF SetActive, Own, Consistent, Holds, Current, Fenced, Became, Done, Gone, Named
<1>3. CASE SetRefused(c)
  BY <1>0, <1>3, SetRefusedStep
     DEF SetRefused, Own, Consistent, Holds, Current, Fenced, Became, Done, Gone, Named
<1>4. CASE ReadName(c)
  BY <1>0, <1>4, ReadNameStep
     DEF ReadName, Own, Consistent, Holds, Current, Fenced, Became, Done, Gone, Named
<1>5. CASE CutRefused(c)
  BY <1>0, <1>5, CutRefusedStep
     DEF CutRefused, Own, Consistent, Holds, Current, Fenced, Became, Done, Gone, Named
<1>6. CASE Failed(c)
  BY <1>0, <1>6, FailedStep
     DEF Failed, Own, Consistent, Holds, Current, Fenced, Became, Done, Gone, Named
<1>7. CASE Reply(c)
  BY <1>0, <1>7, ReplyStep
     DEF Reply, Own, Consistent, Holds, Current, Fenced, Became, Done, Gone, Named
<1>8. CASE Announce(c)
  BY <1>0, <1>8, AnnounceStep
     DEF Announce, Own, Consistent, Holds, Current, Fenced, Became, Done, Gone, Named
<1>9. CASE Look(c)
  <2>1. Consistent(c)'
    <3>1. CASE active = "default" /\ wired
      BY <1>0, <1>9, <3>1, LookStep DEF Look, Own, Consistent, Became, Gone
    <3>2. CASE ~(active = "default" /\ wired)
      BY <1>0, <1>9, <3>2, LookStep DEF Look, Own, Consistent, Became, Done, Named
    <3> QED
      BY <3>1, <3>2
  <2>2. Holds(c)'
    BY <1>0, <1>9, LookStep DEF Look, Own, Holds, Became, Done, Gone, Named
  <2>3. Current(c)'
    BY <1>0, <1>9, LookStep DEF Look, Own, Current, Became, Done, Gone, Named
  <2>4. Fenced(c)'
    BY <1>0, <1>9, LookStep DEF Look, Own, Fenced, Became, Done, Gone, Named
  <2>5. Apart(c)
    BY <1>9, LookStep DEF Became, Done, Gone, Named
  <2> QED
    BY <1>9, <2>1, <2>2, <2>3, <2>4, <2>5, LookStep DEF Look, Own
<1>10. CASE Restore(c)
  <2>1. Consistent(c)' /\ Current(c)' /\ Fenced(c)' /\ Apart(c)
    BY <1>0, <1>10, RestoreStep
       DEF Restore, Own, Consistent, Current, Fenced, Became, Done, Gone, Named
  <2>2. Running' = Running
    BY <1>10 DEF Restore, Running
  <2>3. Holds(c)'
    BY <1>10, <2>2, RestoreStep DEF Holds, Became, Done, Gone, Named
  <2> QED
    BY <1>10, <2>1, <2>3, RestoreStep DEF Restore, Own
<1>11. CASE ReadLedger(c)
  BY <1>0, <1>11, ReadLedgerStep
     DEF ReadLedger, Own, Consistent, Holds, Current, Fenced, Became, Done, Gone, Named
<1>12. CASE CreateRun(c)
  <2>1. Consistent(c)' /\ Current(c)' /\ Fenced(c)' /\ Apart(c)
    BY <1>0, <1>12, CreateRunStep
       DEF CreateRun, Own, Consistent, Current, Fenced, Became, Done, Opens
  <2>2. Holds(c)'
    <3>1. CASE Done(c)
      BY <3>1 DEF Done, Became, Holds
    <3>2. ASSUME NEW i \in Row, Opens(c, i) PROVE Running' # {}
      BY <3>2 DEF Opens, Running, TypeOK
    <3> QED
      BY <1>12, <3>1, <3>2, CreateRunStep DEF Holds
  <2> QED
    BY <1>12, <2>1, <2>2, CreateRunStep DEF CreateRun, Own
<1>13. CASE CloseRun(c)
  BY <1>0, <1>13, CloseRunStep
     DEF CloseRun, Own, Consistent, Holds, Current, Fenced, Became, Done, Gone, Named
<1>14. CASE Cut(c)
  <2>1. Consistent(c)' /\ Current(c)' /\ Fenced(c)' /\ Apart(c)
    BY <1>0, <1>14, CutStep DEF Cut, Own, Consistent, Current, Fenced, Became, Done
  <2>2. Running' = Running
    BY <1>14 DEF Cut, Running
  <2>3. Holds(c)'
    BY <1>0, <1>14, <2>2, CutStep DEF Cut, Own, Holds, Became, Done
  <2> QED
    BY <1>14, <2>1, <2>3, CutStep DEF Cut, Own
<1> QED
  BY <1>1, <1>2, <1>3, <1>4, <1>5, <1>6, <1>7, <1>8, <1>9, <1>10, <1>11, <1>12, <1>13, <1>14
     DEF CallStep

\* What a step of c leaves to the others.
LEMMA OthersLeft ==
  ASSUME TypeOK, ProfileInv, NEW c \in Caller, CallStep(c)
  PROVE Others(c) = {} \/ LeavesOthers(c)
<1>0. Consistent(c)
  BY DEF ProfileInv, Own
<1> SUFFICES ASSUME Others(c) # {} PROVE LeavesOthers(c)
  OBVIOUS
<1> USE DEF LeavesOthers
<1>1. CASE SetActive(c)
  <2>1. Running' = Running /\ Touch(c) /\ raced' = TRUE
    BY <1>1 DEF SetActive, Running
  <2>2. torn' = torn \/ torn' = TRUE
    BY <1>1 DEF SetActive, TypeOK
  <2> QED
    BY <2>1, <2>2
<1>2. CASE Failed(c)
  BY <1>0, <1>2 DEF Failed, Consistent
<1>3. CASE CloseRun(c)
  <2>1. torn' = TRUE \/ ~Stale(c)
    BY <1>3 DEF CloseRun, TypeOK
  <2> QED
    BY <1>3, <2>1 DEF CloseRun
<1>4. CASE CreateRun(c)
  <2>1. Running' # {} \/ Running' = Running
    <3>1. ASSUME NEW i \in Row, Opens(c, i) PROVE Running' # {}
      BY <3>1 DEF Opens, Running, TypeOK
    <3>2. ASSUME row' = row PROVE Running' = Running
      BY <3>2 DEF Running
    <3> QED
      BY <1>4, <3>1, <3>2, CreateRunStep
  <2> QED
    BY <1>4, <2>1 DEF CreateRun
<1>5. CASE Cut(c)
  <2>1. Running' = Running
    BY <1>5 DEF Cut, Running
  <2>2. torn' = TRUE \/ torn' = torn
    BY <1>5 DEF Cut, TypeOK
  <2> QED
    BY <1>5, <2>1, <2>2 DEF Cut
<1>6. CASE Look(c)
  BY <1>6 DEF Look, Running
<1>7. CASE \/ SetRefused(c) \/ ReadName(c) \/ Announce(c) \/ Restore(c) \/ Reply(c)
           \/ ReadLedger(c) \/ CutRefused(c)
  <2>1. Running' = Running
    BY <1>7 DEF SetRefused, ReadName, Announce, Restore, Reply, ReadLedger, CutRefused, Running
  <2> QED
    BY <1>7, <2>1 DEF SetRefused, ReadName, Announce, Restore, Reply, ReadLedger, CutRefused
<1>8. CASE Select(c) \/ Enter(c) \/ Leave(c) \/ Exit(c) \/ StartTurn(c) \/ Ask(c)
  <2>1. PICK op \in Op, at \in {"set", "ledger", "look"}, name \in Profile : Begin(c, op, at, name)
    BY <1>8, BeginSteps
  <2>2. Running' = Running
    BY <2>1 DEF Begin, Running
  <2>3. \A d \in Caller \ {c} : touched'[d] = touched[d]
    BY <2>1 DEF Begin, TypeOK
  <2> QED
    BY <2>1, <2>2, <2>3 DEF Begin
<1> QED
  BY <1>1, <1>2, <1>3, <1>4, <1>5, <1>6, <1>7, <1>8 DEF CallStep

\* One run: opened when there is none, restored when there is no other.
LEMMA OneRunKept ==
  ASSUME TypeOK, ProfileInv, NEW c \in Caller, CallStep(c)
  PROVE OneRun'
<1>1. OneRun
  BY DEF ProfileInv
<1>2. CASE CreateRun(c)
  <2>1. ASSUME NEW i \in Row, Opens(c, i) PROVE OneRun'
    BY <2>1 DEF Opens, OneRun, Running, TypeOK
  <2> QED
    BY <1>1, <1>2, <2>1, CreateRunStep DEF OneRun
<1>3. CASE CloseRun(c)
  <2>1. \A i \in Row : row'[i] = "running" => row[i] = "running"
    BY <1>3 DEF CloseRun, TypeOK
  <2> QED
    BY <1>1, <2>1 DEF OneRun
<1>4. CASE Failed(c)
  <2>1. CASE call[c].op = "enter"
    <3>1. \A i \in Row : row'[i] = "running" => row[i] = "running"
      BY <1>4, <2>1 DEF Failed, TypeOK
    <3> QED
      BY <1>1, <3>1 DEF OneRun
  <2>2. CASE call[c].op = "exit" /\ Running \subseteq {call[c].row}
    BY <1>4, <2>2 DEF Failed, TypeOK, OneRun, Running
  <2>3. CASE call[c].op # "enter" /\ ~(call[c].op = "exit" /\ Running \subseteq {call[c].row})
    BY <1>1, <1>4, <2>3 DEF Failed, OneRun
  <2> QED
    BY <2>1, <2>2, <2>3
<1>5. ASSUME row' = row PROVE OneRun'
  BY <1>1, <1>5 DEF OneRun
<1> QED
  BY <1>2, <1>3, <1>4, <1>5
     DEF CallStep, Select, Enter, Leave, Exit, StartTurn, Ask, Begin, SetActive, SetRefused,
         ReadName, Announce, Look, Restore, Reply, ReadLedger, Cut, CutRefused
\* Only SetActive leaves the default, and it needs a broker.
LEMMA WiredKept ==
  ASSUME TypeOK, ProfileInv, NEW c \in Caller, CallStep(c)
  PROVE WiredInv'
<1>1. WiredInv
  BY DEF ProfileInv
<1>2. CASE SetActive(c)
  BY <1>2 DEF SetActive, WiredInv
<1>3. ASSUME UNCHANGED <<active, wired>> PROVE WiredInv'
  BY <1>1, <1>3 DEF WiredInv
<1> QED
  BY <1>2, <1>3
     DEF CallStep, Select, Enter, Leave, Exit, StartTurn, Ask, Begin, SetRefused, ReadName,
         Announce, Look, Restore, Reply, ReadLedger, CreateRun, CloseRun, Failed, Cut, CutRefused

\* Whoever is about to leave still is, where neither the profile nor the runs change.
LEMMA FenceFrame ==
  ASSUME TypeOK, ProfileInv, NEW c \in Caller, Apart(c), active' = active, torn' = torn,
         Running' = Running \/ Running' # {}, Leaving(c) => Leaving(c)'
  PROVE FenceInv'
<1>1. FenceInv
  BY DEF ProfileInv
<1>2. ASSUME NEW d \in Caller, Leaving(d) PROVE Leaving(d)'
  BY <1>2 DEF Leaving, Apart
<1> QED
  BY <1>1, <1>2 DEF FenceInv

\* The run closes only behind a call that leaves, or where torn says so.
LEMMA FenceKept ==
  ASSUME TypeOK, ProfileInv, NEW c \in Caller, CallStep(c)
  PROVE FenceInv'
<1>0. Apart(c) /\ wired' = wired /\ TypeOK'
  BY OwnKept
<1>1. Consistent(c) /\ Holds(c) /\ WiredInv /\ FenceInv
  BY DEF ProfileInv, Own
<1>2. CASE SetActive(c)
  <2>1. Running' = Running
    BY <1>2 DEF SetActive, Running
  <2>2. CASE call[c].op \in {"start", "ask", "enter"} /\ ~torn
    BY <1>1, <1>2, <2>1, <2>2 DEF SetActive, Holds, FenceInv
  <2>3. CASE torn \/ call[c].op \notin {"start", "ask", "enter"}
    <3> SUFFICES ASSUME active' = "autonomous", torn' # TRUE PROVE FALSE
      BY <1>0 DEF FenceInv
    <3>1. torn' = (torn \/ call[c].op = "select")
      BY <1>2 DEF SetActive, TypeOK
    <3>2. call[c].op \in {"start", "ask", "enter", "leave", "exit", "none"}
      BY <1>0, <3>1 DEF TypeOK, Op
    <3>3. call[c].at = "set" /\ call[c].name = "autonomous"
      BY <1>2 DEF SetActive
    <3> QED
      BY <1>1, <2>3, <3>1, <3>2, <3>3 DEF Consistent
  <2> QED
    BY <2>2, <2>3
<1>3. CASE Failed(c)
  BY <1>0, <1>1, <1>3 DEF Failed, Consistent, WiredInv, FenceInv
<1>4. CASE CloseRun(c)
  <2>1. CASE call[c].cut
    BY <1>4, <2>1 DEF CloseRun, FenceInv
  <2>2. CASE ~call[c].cut
    BY <1>4, <2>2, CloseRunStep DEF CloseRun, Gone, Became, Leaving, FenceInv
  <2> QED
    BY <2>1, <2>2
<1>5. CASE CreateRun(c)
  <2>1. ASSUME NEW i \in Row, Opens(c, i) PROVE Running' # {}
    BY <2>1 DEF Opens, Running, TypeOK
  <2>2. ASSUME row' = row PROVE Running' = Running
    BY <2>2 DEF Running
  <2>3. ~Leaving(c)
    BY <1>5 DEF CreateRun, Leaving
  <2> QED
    BY <1>0, <1>5, <2>1, <2>2, <2>3, FenceFrame, CreateRunStep DEF CreateRun
<1>6. CASE Cut(c)
  <2>1. Running' = Running
    BY <1>6 DEF Cut, Running
  <2>2. CASE Leaving(c)
    BY <1>6, <2>2 DEF Cut, Leaving, FenceInv
  <2>3. CASE ~Leaving(c)
    <3>1. torn' = torn
      BY <1>6, <2>3 DEF Cut, Leaving, TypeOK
    <3> QED
      BY <1>0, <1>6, <2>1, <2>3, <3>1, FenceFrame DEF Cut
  <2> QED
    BY <2>2, <2>3
<1>7. CASE SetRefused(c)
  BY <1>0, <1>1, <1>7 DEF SetRefused, WiredInv, FenceInv
<1>8. CASE \/ ReadName(c) \/ Announce(c) \/ Look(c) \/ Restore(c) \/ Reply(c)
           \/ ReadLedger(c) \/ CutRefused(c)
  <2>1. Running' = Running /\ active' = active /\ torn' = torn
    BY <1>8 DEF ReadName, Announce, Look, Restore, Reply, ReadLedger, CutRefused, Running
  <2>2. ~Leaving(c)
    BY <1>8 DEF ReadName, Announce, Look, Restore, Reply, ReadLedger, CutRefused, Leaving
  <2> QED
    BY <1>0, <2>1, <2>2, FenceFrame
<1>9. CASE Select(c) \/ Enter(c) \/ Leave(c) \/ Exit(c) \/ StartTurn(c) \/ Ask(c)
  <2>1. PICK op \in Op, at \in {"set", "ledger", "look"}, name \in Profile : Begin(c, op, at, name)
    BY <1>9, BeginSteps
  <2>2. Running' = Running /\ active' = active /\ torn' = torn /\ ~Leaving(c)
    BY <2>1 DEF Begin, Running, Leaving, InFlight
  <2> QED
    BY <1>0, <2>2, FenceFrame
<1> QED
  BY <1>2, <1>3, <1>4, <1>5, <1>6, <1>7, <1>8, <1>9 DEF CallStep

\* Whoever is about to tell still is, where neither profile nor chip changes.
LEMMA ChipFrame ==
  ASSUME TypeOK, ProfileInv, NEW c \in Caller, Apart(c),
         active' = active, chip' = chip, raced' = raced,
         Telling(c) => Telling(c)' \/ raced = TRUE \/ active = chip
  PROVE ChipInv'
<1>1. ChipInv
  BY DEF ProfileInv
<1>2. ASSUME NEW d \in Caller, d # c, Telling(d) PROVE Telling(d)'
  BY <1>2 DEF Telling, Apart
<1> QED
  BY <1>1, <1>2 DEF ChipInv

\* A change of profile is always followed by its announcement.
LEMMA ChipKept ==
  ASSUME TypeOK, ProfileInv, NEW c \in Caller, CallStep(c)
  PROVE ChipInv'
<1>0. Apart(c) /\ wired' = wired /\ TypeOK'
  BY OwnKept
<1>1. Consistent(c) /\ Current(c) /\ ChipInv
  BY DEF ProfileInv, Own
<1>2. CASE SetActive(c)
  BY <1>2, SetActiveStep DEF SetActive, Gone, Became, Telling, ChipInv
<1>3. CASE SetRefused(c)
  <2>1. ~Telling(c)
    BY <1>1, <1>3 DEF SetRefused, Telling, Consistent
  <2> QED
    BY <1>0, <1>3, <2>1, ChipFrame DEF SetRefused
<1>4. CASE ReadName(c)
  BY <1>0, <1>4, ReadNameStep, ChipFrame DEF ReadName, Named, Became, Telling
<1>5. CASE Announce(c)
  BY <1>1, <1>5 DEF Announce, Current, ChipInv
<1>6. CASE Reply(c)
  BY <1>1, <1>6 DEF Reply, Current, ChipInv
<1>7. CASE Look(c)
  <2>1. CASE call[c].op = "ask"
    BY <1>7, <2>1, LookStep DEF Look, Gone, Named, Became, Telling, ChipInv
  <2>2. CASE call[c].op # "ask"
    <3>1. ~Telling(c)
      BY <1>7, <2>2 DEF Look, Telling
    <3> QED
      BY <1>0, <1>7, <2>2, <3>1, ChipFrame DEF Look
  <2> QED
    BY <2>1, <2>2
<1>8. CASE Restore(c)
  <2>1. CASE call[c].op = "ask"
    BY <1>0, <1>8, <2>1, RestoreStep, ChipFrame DEF Restore, Gone, Named, Became, Telling
  <2>2. CASE call[c].op # "ask"
    <3>1. ~Telling(c)
      BY <1>8, <2>2 DEF Restore, Telling
    <3> QED
      BY <1>0, <1>8, <2>2, <3>1, ChipFrame DEF Restore
  <2> QED
    BY <2>1, <2>2
<1>9. CASE ReadLedger(c) \/ CreateRun(c) \/ CloseRun(c) \/ Failed(c) \/ CutRefused(c)
  <2>1. ~Telling(c)
    BY <1>9 DEF ReadLedger, CreateRun, CloseRun, Failed, CutRefused, Telling
  <2> QED
    BY <1>0, <1>9, <2>1, ChipFrame DEF ReadLedger, CreateRun, CloseRun, Failed, CutRefused
<1>10. CASE Cut(c)
  <2>1. ASSUME Telling(c) PROVE Telling(c)'
    <3>1. call' = [call EXCEPT ![c].cut = TRUE]
      BY <1>10, <2>1 DEF Cut, Telling
    <3> QED
      BY <2>1, <3>1, WasCut DEF Became, Telling
  <2> QED
    BY <1>0, <1>10, <2>1, ChipFrame DEF Cut
<1>11. CASE Select(c) \/ Enter(c) \/ Leave(c) \/ Exit(c) \/ StartTurn(c) \/ Ask(c)
  <2>1. PICK op \in Op, at \in {"set", "ledger", "look"}, name \in Profile : Begin(c, op, at, name)
    BY <1>11, BeginSteps
  <2>2. active' = active /\ chip' = chip /\ raced' = raced /\ ~Telling(c)
    BY <2>1 DEF Begin, Telling, InFlight
  <2> QED
    BY <1>0, <2>2, ChipFrame
<1> QED
  BY <1>2, <1>3, <1>4, <1>5, <1>6, <1>7, <1>8, <1>9, <1>10, <1>11 DEF CallStep
\* The server starts with nothing in flight.
LEMMA ProfileInit == Init => TypeOK /\ ProfileInv
<1> SUFFICES ASSUME Init PROVE TypeOK /\ ProfileInv
  OBVIOUS
<1>1. Idle \in CallRecord
  BY ProfileAssumption DEF Idle, CallRecord, Op, Profile, Place
<1>2. /\ call \in [Caller -> CallRecord]
      /\ \A c \in Caller : call[c].at = "idle" /\ call[c].op = "none"
  BY <1>1 DEF Init, Idle
<1>3. row \in [Row -> {"none", "running", "abandoned", "completed"}]
  BY DEF Init
<1>4. TypeOK
  <2>1. calls \in 0..MaxCalls /\ restarts \in 0..MaxRestarts
    BY ProfileAssumption DEF Init
  <2>2. active \in Profile /\ chip \in Profile /\ wired \in BOOLEAN
        /\ raced \in BOOLEAN /\ torn \in BOOLEAN /\ touched \in [Caller -> BOOLEAN]
    BY DEF Init, Profile
  <2> QED
    BY <1>2, <1>3, <2>1, <2>2 DEF TypeOK, CallRecord, Place
<1>5. \A c \in Caller : Own(c)
  BY <1>2 DEF Own, Consistent, Holds, Current, Fenced
<1>6. OneRun
  BY DEF Init, OneRun
<1> QED
  BY <1>4, <1>5, <1>6
     DEF Init, ProfileInv, WiredInv, FenceInv, ChipInv

\* A restart forgets the calls, and the profile with them.
LEMMA RestartKept == TypeOK /\ ProfileInv /\ Restart => TypeOK' /\ ProfileInv'
<1> SUFFICES ASSUME TypeOK, ProfileInv, Restart PROVE TypeOK' /\ ProfileInv'
  OBVIOUS
<1>1. Idle \in CallRecord
  BY ProfileAssumption DEF Idle, CallRecord, Op, Profile, Place
<1>2. /\ call' \in [Caller -> CallRecord]
      /\ \A c \in Caller : call'[c].at = "idle" /\ call'[c].op = "none"
  BY <1>1 DEF Restart, Idle
<1>3. TypeOK'
  <2>1. Typed
    BY <1>2 DEF Restart, TypeOK, Typed, Profile
  <2>2. restarts' \in 0..MaxRestarts /\ calls' \in 0..MaxCalls /\ wired' = wired
    BY ProfileAssumption DEF Restart, TypeOK
  <2>3. touched' \in [Caller -> BOOLEAN]
    BY DEF Restart
  <2> QED
    BY <2>1, <2>2, <2>3, TypeFrom
<1>4. \A c \in Caller : Own(c)'
  BY <1>2 DEF Own, Consistent, Holds, Current, Fenced
<1>5. OneRun'
  BY DEF Restart, ProfileInv, OneRun
<1> QED
  BY <1>3, <1>4, <1>5
     DEF Restart, ProfileInv, WiredInv, FenceInv, ChipInv

\* Every step keeps the invariant.
LEMMA ProfileStep == TypeOK /\ ProfileInv /\ [Next]_vars => TypeOK' /\ ProfileInv'
<1> SUFFICES ASSUME TypeOK, ProfileInv, [Next]_vars PROVE TypeOK' /\ ProfileInv'
  OBVIOUS
<1>1. CASE Restart
  BY <1>1, RestartKept
<1>2. ASSUME NEW c \in Caller, CallStep(c) PROVE TypeOK' /\ ProfileInv'
  <2>1. TypeOK' /\ Apart(c) /\ wired' = wired /\ Own(c)'
    BY <1>2, OwnKept
  <2>2. \A d \in Caller : Own(d)'
    BY <1>2, <2>1, OthersLeft, OthersKept
  <2>3. WiredInv' /\ OneRun' /\ FenceInv' /\ ChipInv'
    BY <1>2, WiredKept, OneRunKept, FenceKept, ChipKept
  <2> QED
    BY <2>1, <2>2, <2>3 DEF ProfileInv
<1>3. CASE UNCHANGED vars
  BY <1>3 DEF vars, TypeOK, ProfileInv, WiredInv, OneRun, FenceInv, ChipInv, Own,
              Consistent, Holds, Current, Fenced, Leaving, Telling, Running
<1> QED
  BY <1>1, <1>2, <1>3 DEF Next

\* The inductive invariant holds: types, and the parts above.
THEOREM ProfileInvariant == Spec => [](TypeOK /\ ProfileInv)
<1> QED
  BY ProfileInit, ProfileStep, PTL DEF Spec

\* Once nothing is in flight, clients show the profile of the broker, unless
\* the last change overlapped with another use (broadcastSessionProfile).
THEOREM ChipConverges == Spec => []ChipFollows
<1>1. TypeOK /\ ProfileInv => ChipFollows
  BY DEF ProfileInv, ChipInv, ChipFollows, Quiet, InFlight, Telling
<1> QED
  BY <1>1, ProfileInvariant, PTL

\* Runs that are all the same are at most one.
LEMMA AtMostOne == TypeOK /\ OneRun => Cardinality(Running) <= 1
<1> SUFFICES ASSUME TypeOK, OneRun PROVE Cardinality(Running) <= 1
  OBVIOUS
<1>1. CASE Running = {}
  BY <1>1, FS_EmptySet
<1>2. ASSUME NEW i \in Running PROVE Cardinality(Running) <= 1
  <2>1. Running = {i}
    BY <1>2 DEF OneRun, Running
  <2>2. Cardinality({i}) = 1
    BY FS_Singleton
  <2> QED
    BY <2>1, <2>2
<1> QED
  BY <1>1, <1>2

\* Autonomous mode has its one run in the ledger, but for the causes that
\* torn records (enterAutonomousMode, CreateAutonomyRun, UpdateAutonomyRun).
THEOREM AutonomyIsFenced == Spec => []FenceHasRun
<1>1. TypeOK /\ ProfileInv => FenceHasRun
  <2> SUFFICES ASSUME TypeOK, ProfileInv PROVE FenceHasRun
    OBVIOUS
  <2>1. Cardinality(Running) <= 1
    BY AtMostOne DEF ProfileInv
  <2>2. Quiet /\ active = "autonomous" /\ ~torn => Running # {}
    BY DEF ProfileInv, FenceInv, Quiet, InFlight, Leaving
  <2> QED
    BY <2>1, <2>2 DEF FenceHasRun
<1> QED
  BY <1>1, ProfileInvariant, PTL

\* TurnFenced for one call.
TurnFencedStep(c) ==
    call[c].op = "start" /\ call'[c].op = "none" /\ restarts' = restarts
    /\ wired /\ ~touched[c]
    /\ (\E i \in Row : row'[i] = "running")
    => active' # "default"

\* A turn that nobody interferes with does not start in the default posture
\* on an unfinished run (the restore at turn start).
THEOREM TurnsStartFenced == Spec => TurnFenced
<1>1. TypeOK /\ ProfileInv /\ [Next]_vars => [\A c \in Caller : TurnFencedStep(c)]_vars
  <2> SUFFICES ASSUME TypeOK, ProfileInv, Next, NEW c \in Caller,
                      call[c].op = "start", call'[c].op = "none", restarts' = restarts,
                      wired, ~touched[c], NEW i \in Row, row'[i] = "running"
               PROVE  active' # "default"
    BY DEF TurnFencedStep
  <2>1. PICK d \in Caller : CallStep(d)
    <3>1. restarts \in Nat
      BY ProfileAssumption DEF TypeOK
    <3>2. ASSUME Restart PROVE FALSE
      <4>1. restarts' = restarts + 1
        BY <3>2 DEF Restart
      <4>2. restarts + 1 = restarts
        BY <4>1
      <4> QED
        BY <3>1, <4>2
    <3> QED
      BY <3>2 DEF Next
  <2>2. d = c
    BY <2>1, OwnKept DEF Apart
  <2>3. Consistent(c) /\ Fenced(c)
    BY DEF ProfileInv, Own
  <2>4. CASE Look(c)
    BY <2>4, LookStep DEF Look, Gone, Became
  <2>5. CASE Restore(c)
    BY <2>5, RestoreStep DEF Restore, Gone, Became, Running
  <2>6. CASE Announce(c)
    BY <2>3, <2>6 DEF Announce, Fenced
  <2>7. CASE Failed(c) \/ CutRefused(c)
    BY <2>3, <2>7 DEF Failed, CutRefused, Consistent
  <2>8. CASE SetActive(c) \/ SetRefused(c) \/ ReadName(c)
    BY <2>8, SetActiveStep, SetRefusedStep, ReadNameStep
       DEF Gone, Named, Became
  <2>9. CASE \/ ReadLedger(c) \/ CreateRun(c) \/ CloseRun(c) \/ Cut(c) \/ Reply(c)
             \/ Select(c) \/ Enter(c) \/ Leave(c) \/ Exit(c) \/ StartTurn(c) \/ Ask(c)
    BY <2>3, <2>9
       DEF ReadLedger, CreateRun, CloseRun, Cut, Reply, Select, Enter, Leave, Exit, StartTurn,
           Ask, Begin, InFlight, Consistent
  <2> QED
    BY <2>1, <2>2, <2>4, <2>5, <2>6, <2>7, <2>8, <2>9 DEF CallStep
<1> QED
  BY <1>1, ProfileInvariant, PTL DEF Spec, TurnFenced, TurnFencedStep

(***************************************************************************)
(* Downloads of a local model                                              *)
(*                                                                         *)
(* Most steps change one field of one call or one goroutine, so the types   *)
(* come from three lemmas about such a change, and what the invariants say  *)
(* about a goroutine from where it was and where it went.                  *)
(***************************************************************************)

LEMMA Files == Shard \subseteq Nat /\ 1 \in Shard
  BY DownloadAssumption DEF Shard

LEMMA SetStateType ==
  ASSUME DownloadTypeOK, NEW to \in States, SetState(to)
  PROVE rec' \in States \cup {"absent"}
  BY DEF DownloadTypeOK, SetState

LEMMA GotoType ==
  ASSUME DownloadTypeOK, NEW c \in Call,
         NEW at \in {"idle", "check", "find", "claim", "stop", "mark", "file", "part",
                     "record", "done"},
         GoOn(c, at)
  PROVE request' \in [Call -> CallState]
<1>1. request[c] \in CallState
  BY DEF DownloadTypeOK
<1>2. [request[c] EXCEPT !.at = at] \in CallState
  BY <1>1 DEF CallState
<1> QED
  BY <1>2 DEF DownloadTypeOK, GoOn

LEMMA EnterType ==
  ASSUME DownloadTypeOK, NEW c \in Call, NEW op \in {"download", "cancel", "delete"},
         NEW at \in {"check", "find", "file"}, NEW s \in Shard,
         EnterAt(c, op, at, s)
  PROVE request' \in [Call -> CallState]
<1>1. [op |-> op, at |-> at, shard |-> s] \in CallState
  BY DEF CallState
<1> QED
  BY <1>1 DEF DownloadTypeOK, EnterAt

LEMMA StepType ==
  ASSUME DownloadTypeOK, NEW g \in Call, NEW from,
         NEW to \in {"off", "begin", "stat", "fetch", "read", "rename", "store",
                     "finish", "fail", "backoff", "mark", "clear"},
         Step(g, from, to)
  PROVE run' \in [Call -> JobState]
<1>1. run[g] \in JobState
  BY DEF DownloadTypeOK
<1>2. [run[g] EXCEPT !.at = to] \in JobState
  BY <1>1 DEF JobState
<1> QED
  BY <1>2 DEF DownloadTypeOK, Step

LEMMA MoveType ==
  ASSUME DownloadTypeOK, NEW g \in Call, NEW to \in {"stat", "fetch", "store", "finish"},
         NEW s \in Shard, NEW n \in 0..MaxRetries,
         Move(g, to, s, n)
  PROVE run' \in [Call -> JobState]
<1>1. run[g].done \in BOOLEAN
  BY DEF DownloadTypeOK, JobState
<1>2. [at |-> to, shard |-> s, attempt |-> n, done |-> run[g].done] \in JobState
  BY <1>1 DEF JobState
<1> QED
  BY <1>2 DEF DownloadTypeOK, Move

LEMMA TypeInit == DownloadInit => DownloadTypeOK
<1> SUFFICES ASSUME DownloadInit PROVE DownloadTypeOK
  OBVIOUS
<1>1. [op |-> "none", at |-> "idle", shard |-> 1] \in CallState
  BY Files DEF CallState
<1>2. Off \in JobState
  BY Files, DownloadAssumption DEF JobState, Off
<1> QED
  BY <1>1, <1>2 DEF DownloadInit, DownloadTypeOK

LEMMA TypeCall ==
  ASSUME DownloadTypeOK, NEW c \in Call, RequestStep(c) PROVE DownloadTypeOK'
<1>1. CASE BeginRequest(c)
  <2>1. request' \in [Call -> CallState]
    BY <1>1, EnterType, Files DEF BeginRequest
  <2> QED
    BY <1>1, <2>1 DEF BeginRequest, DownloadTypeOK
<1>2. CASE BeginEnrolled(c)
  <2>1. request' \in [Call -> CallState]
    BY <1>2, EnterType, Files DEF BeginEnrolled
  <2> QED
    BY <1>2, <2>1 DEF BeginEnrolled, DownloadTypeOK, States
<1>3. CASE DownloadCheck(c)
  <2>1. request' \in [Call -> CallState]
    BY <1>3, GotoType DEF DownloadCheck
  <2> QED
    BY <1>3, <2>1 DEF DownloadCheck, DownloadTypeOK
<1>4. CASE DownloadFind(c)
  <2>1. request' \in [Call -> CallState]
    BY <1>4, GotoType DEF DownloadFind
  <2> QED
    BY <1>4, <2>1 DEF DownloadFind, DownloadTypeOK
<1>5. CASE DownloadClaim(c)
  <2>1. request' \in [Call -> CallState]
    BY <1>5, GotoType DEF DownloadClaim
  <2>2. run[c] \in JobState
    BY DEF DownloadTypeOK
  <2>3. [run[c] EXCEPT !.at = "begin"] \in JobState
    BY <2>2 DEF JobState
  <2>4. run' \in [Call -> JobState]
    BY <1>5, <2>3 DEF DownloadClaim, DownloadTypeOK
  <2> QED
    BY <1>5, <2>1, <2>4 DEF DownloadClaim, DownloadTypeOK, States
<1>6. CASE CancelCheck(c)
  <2>1. request' \in [Call -> CallState]
    BY <1>6, GotoType DEF CancelCheck
  <2> QED
    BY <1>6, <2>1 DEF CancelCheck, DownloadTypeOK
<1>7. CASE CancelStop(c)
  <2>1. request' \in [Call -> CallState]
    BY <1>7, GotoType DEF CancelStop
  <2>2. \A g \in Call : run[g] \in JobState /\ [run[g] EXCEPT !.done = TRUE] \in JobState
    BY DEF DownloadTypeOK, JobState
  <2>3. run' \in [Call -> JobState]
    BY <1>7, <2>2 DEF CancelStop
  <2> QED
    BY <1>7, <2>1, <2>3 DEF CancelStop, DownloadTypeOK
<1>8. CASE CancelMark(c)
  <2>1. request' \in [Call -> CallState]
    BY <1>8, GotoType DEF CancelMark
  <2>2. rec' \in States \cup {"absent"}
    BY <1>8, SetStateType DEF CancelMark, States
  <2> QED
    BY <1>8, <2>1, <2>2 DEF CancelMark, DownloadTypeOK
<1>9. CASE DeleteFind(c)
  <2>1. request' \in [Call -> CallState]
    BY <1>9, GotoType DEF DeleteFind
  <2> QED
    BY <1>9, <2>1 DEF DeleteFind, DownloadTypeOK
<1>10. CASE DeleteFile(c)
  <2>1. request' \in [Call -> CallState]
    BY <1>10, GotoType DEF DeleteFile
  <2>2. disk' \in [Shard -> {"none", "part", "whole", "file"}]
    BY <1>10 DEF DeleteFile, DownloadTypeOK
  <2>3. undone' \in BOOLEAN
    BY <1>10 DEF DeleteFile, DownloadTypeOK
  <2> QED
    BY <1>10, <2>1, <2>2, <2>3 DEF DeleteFile, DownloadTypeOK
<1>11. CASE DeleteFails(c)
  <2>1. request' \in [Call -> CallState]
    BY <1>11, GotoType DEF DeleteFails
  <2>2. undone' \in BOOLEAN
    BY <1>11 DEF DeleteFails, DownloadTypeOK
  <2> QED
    BY <1>11, <2>1, <2>2 DEF DeleteFails, DownloadTypeOK
<1>12. CASE DeletePart(c)
  <2>1. request[c] \in CallState /\ request[c].shard \in Shard
    BY DEF DownloadTypeOK, CallState
  <2>2. CASE request[c].shard < Shards
    <3>1. request[c].shard + 1 \in Shard
      BY <2>1, <2>2, DownloadAssumption DEF Shard
    <3>2. request' \in [Call -> CallState]
      BY <1>12, <2>2, <3>1, EnterType DEF DeletePart
    <3> QED
      BY <1>12, <3>2 DEF DeletePart, DownloadTypeOK
  <2>3. CASE ~(request[c].shard < Shards)
    <3>1. request' \in [Call -> CallState]
      BY <1>12, <2>3, GotoType DEF DeletePart
    <3> QED
      BY <1>12, <3>1 DEF DeletePart, DownloadTypeOK
  <2> QED
    BY <2>2, <2>3
<1>13. CASE DeleteRecord(c)
  <2>1. request' \in [Call -> CallState]
    BY <1>13, GotoType DEF DeleteRecord
  <2>2. rec' \in States \cup {"absent"}
    BY <1>13, SetStateType DEF DeleteRecord, States
  <2> QED
    BY <1>13, <2>1, <2>2 DEF DeleteRecord, DownloadTypeOK
<1> QED
  BY <1>1, <1>2, <1>3, <1>4, <1>5, <1>6, <1>7, <1>8, <1>9, <1>10, <1>11, <1>12, <1>13 DEF RequestStep

LEMMA TypeJob ==
  ASSUME DownloadTypeOK, NEW g \in Call, JobStep(g) PROVE DownloadTypeOK'
<1> DEFINE s == run[g].shard
           n == run[g].attempt
<1>0. /\ run[g] \in JobState
      /\ s \in Shard /\ n \in 0..MaxRetries
  BY DEF DownloadTypeOK, JobState
<1>1. CASE MakeDir(g)
  <2>1. run' \in [Call -> JobState]
    BY <1>1, StepType DEF MakeDir
  <2>2. rec' \in States \cup {"absent"}
    BY <1>1, SetStateType DEF MakeDir, States, DownloadTypeOK
  <2> QED
    BY <1>1, <2>1, <2>2 DEF MakeDir, DownloadTypeOK
<1>2. CASE StatShard(g)
  <2>1. 0 \in 0..MaxRetries
    BY DownloadAssumption
  <2>2. run' \in [Call -> JobState]
    BY <1>0, <1>2, <2>1, MoveType DEF StatShard
  <2> QED
    BY <1>2, <2>2 DEF StatShard, DownloadTypeOK
<1>3. CASE Fetch(g)
  <2>1. run' \in [Call -> JobState]
    BY <1>3, StepType DEF Fetch
  <2> QED
    BY <1>3, <2>1 DEF Fetch, DownloadTypeOK
<1>4. CASE FetchFails(g)
  <2>1. run' \in [Call -> JobState]
    BY <1>4, StepType DEF FetchFails
  <2> QED
    BY <1>4, <2>1 DEF FetchFails, DownloadTypeOK
<1>5. CASE Tick(g)
  BY <1>5 DEF Tick, Store, DownloadTypeOK, States
<1>6. CASE ReadEnd(g)
  <2>1. run' \in [Call -> JobState]
    BY <1>6, StepType DEF ReadEnd
  <2> QED
    BY <1>6, <2>1 DEF ReadEnd, DownloadTypeOK
<1>7. CASE ReadFails(g)
  <2>1. run' \in [Call -> JobState]
    BY <1>7, StepType DEF ReadFails
  <2> QED
    BY <1>7, <2>1 DEF ReadFails, DownloadTypeOK
<1>8. CASE Rename(g)
  <2>1. run' \in [Call -> JobState]
    BY <1>8, StepType DEF Rename
  <2>2. disk' \in [Shard -> {"none", "part", "whole", "file"}]
    BY <1>8 DEF Rename, DownloadTypeOK
  <2> QED
    BY <1>8, <2>1, <2>2 DEF Rename, DownloadTypeOK
<1>9. CASE StoreShard(g)
  <2>1. 0 \in 0..MaxRetries /\ (s < Shards => s + 1 \in Shard)
    BY <1>0, DownloadAssumption DEF Shard
  <2>2. run' \in [Call -> JobState]
    BY <1>0, <1>9, <2>1, MoveType DEF StoreShard
  <2> QED
    BY <1>9, <2>2 DEF StoreShard, Store, DownloadTypeOK, States
<1>10. CASE FinishJob(g)
  <2>1. run' \in [Call -> JobState]
    BY <1>10, StepType DEF FinishJob
  <2>2. rec' \in States \cup {"absent"}
    BY <1>10, SetStateType DEF FinishJob, States
  <2> QED
    BY <1>10, <2>1, <2>2 DEF FinishJob, DownloadTypeOK
<1>11. CASE FailAndRetry(g)
  <2>1. run' \in [Call -> JobState]
    BY <1>11, StepType DEF FailAndRetry
  <2>2. rec' \in States \cup {"absent"}
    BY <1>11, SetStateType DEF FailAndRetry, States
  <2> QED
    BY <1>11, <2>1, <2>2 DEF FailAndRetry, DownloadTypeOK
<1>12. CASE FailAndStop(g)
  <2>1. run' \in [Call -> JobState]
    BY <1>12, StepType DEF FailAndStop
  <2>2. rec' \in States \cup {"absent"}
    BY <1>12, SetStateType DEF FailAndStop, States
  <2> QED
    BY <1>12, <2>1, <2>2 DEF FailAndStop, DownloadTypeOK
<1>13. CASE Retry(g)
  <2>1. n + 1 \in 0..MaxRetries
    BY <1>0, <1>13, DownloadAssumption DEF Retry
  <2>2. run' \in [Call -> JobState]
    BY <1>0, <1>13, <2>1, MoveType DEF Retry
  <2> QED
    BY <1>13, <2>2 DEF Retry, DownloadTypeOK
<1>14. CASE Abort(g)
  <2>1. run' \in [Call -> JobState]
    BY <1>14, StepType DEF Abort
  <2>2. disk' \in [Shard -> {"none", "part", "whole", "file"}]
    BY <1>14 DEF Abort, DownloadTypeOK
  <2> QED
    BY <1>14, <2>1, <2>2 DEF Abort, DownloadTypeOK
<1>15. CASE AbortMark(g)
  <2>1. run' \in [Call -> JobState]
    BY <1>15, StepType DEF AbortMark
  <2>2. rec' \in States \cup {"absent"}
    BY <1>15, SetStateType DEF AbortMark, States
  <2> QED
    BY <1>15, <2>1, <2>2 DEF AbortMark, DownloadTypeOK
<1>16. CASE ClearJob(g)
  <2>1. run' \in [Call -> JobState]
    BY <1>16, StepType DEF ClearJob
  <2> QED
    BY <1>16, <2>1 DEF ClearJob, DownloadTypeOK
<1> QED
  BY <1>1, <1>2, <1>3, <1>4, <1>5, <1>6, <1>7, <1>8, <1>9, <1>10, <1>11, <1>12, <1>13, <1>14,
     <1>15, <1>16 DEF JobStep

(* Every state has the types. *)
THEOREM TypeCorrect == DownloadSpec => []DownloadTypeOK
<1>1. DownloadTypeOK /\ [DownloadNext]_downloadVars => DownloadTypeOK'
  <2> SUFFICES ASSUME DownloadTypeOK, [DownloadNext]_downloadVars PROVE DownloadTypeOK'
    OBVIOUS
  <2>1. CASE DownloadNext
    BY <2>1, TypeCall, TypeJob DEF DownloadNext
  <2>2. CASE UNCHANGED downloadVars
    BY <2>2 DEF downloadVars, DownloadTypeOK
  <2> QED
    BY <2>1, <2>2
<1> QED
  BY TypeInit, <1>1, PTL DEF DownloadSpec

-----------------------------------------------------------------------------
(* One writer *)

(* The goroutines agree with the table of jobs, and the record with both. *)
JobInv ==
    /\ \A g \in Call : run[g].at # "off" => job = g
    /\ rec = "downloading" => job # NoCall /\ run[job].at # "clear"

(* A call starts a goroutine where there is none, and leaves it where it is.*)
LEMMA CallKeepsJob ==
  ASSUME DownloadTypeOK, JobInv, NEW c \in Call, RequestStep(c) PROVE JobInv'
<1>1. CASE DownloadClaim(c) /\ Claimable /\ Legal(rec, "downloading")
  <2>1. /\ job = NoCall /\ job' = c /\ c # NoCall
        /\ run' = [run EXCEPT ![c].at = "begin"]
    BY <1>1, DownloadAssumption DEF DownloadClaim, Claimable
  <2>2. \A g \in Call : run[g].at = "off"
    BY <2>1, DownloadAssumption DEF JobInv
  <2>3. run'[c].at = "begin" /\ \A g \in Call \ {c} : run'[g].at = "off"
    BY <2>1, <2>2 DEF DownloadTypeOK, JobState
  <2> QED
    BY <2>1, <2>3 DEF JobInv
<1>2. CASE CancelStop(c)
  <2>1. \A g \in Call : run'[g].at = run[g].at
    BY <1>2 DEF CancelStop, DownloadTypeOK, JobState
  <2>2. job' = job /\ rec' = rec /\ job \in Call \cup {NoCall}
    BY <1>2 DEF CancelStop, DownloadTypeOK
  <2> QED
    BY <2>1, <2>2 DEF JobInv
<1>3. ASSUME job' = job, run' = run, rec' = "downloading" => rec = "downloading"
      PROVE JobInv'
  BY <1>3 DEF JobInv
<1>4. CASE BeginRequest(c) \/ BeginEnrolled(c) \/ DownloadCheck(c) \/ DownloadFind(c) \/ CancelCheck(c)
           \/ DeleteFind(c) \/ DeleteFile(c) \/ DeleteFails(c) \/ DeletePart(c)
  BY <1>3, <1>4 DEF BeginRequest, BeginEnrolled, DownloadCheck, DownloadFind, CancelCheck, DeleteFind,
                    DeleteFile, DeleteFails, DeletePart
<1>5. CASE CancelMark(c) \/ DeleteRecord(c)
  BY <1>3, <1>5 DEF CancelMark, DeleteRecord, SetState
<1>6. CASE DownloadClaim(c) /\ ~(Claimable /\ Legal(rec, "downloading"))
  BY <1>3, <1>6 DEF DownloadClaim
<1> QED
  BY <1>1, <1>2, <1>4, <1>5, <1>6 DEF RequestStep

LEMMA OthersStay ==
  ASSUME DownloadTypeOK, NEW g \in Call, JobStep(g)
  PROVE  \A h \in Call \ {g} : run'[h] = run[h]
BY DEF DownloadTypeOK, JobStep, Step, Move, MakeDir, StatShard, Fetch, FetchFails, Tick, ReadEnd, ReadFails,
       Rename, StoreShard, FinishJob, FailAndRetry, FailAndStop, Retry, Abort, AbortMark, ClearJob

(* A goroutine that comes to its end has moved the record on from           *)
(* downloading, whatever it was: no transition from there is refused.      *)
LEMMA JobKeepsJob ==
  ASSUME DownloadTypeOK, JobInv, NEW g \in Call, JobStep(g) PROVE JobInv'
<1> USE DEF DownloadTypeOK, JobState, Step, Move
<1>1. job = g /\ g # NoCall
  BY DownloadAssumption DEF JobInv, JobStep, MakeDir, StatShard, Fetch, FetchFails, Tick, ReadEnd,
     ReadFails, Rename, StoreShard, FinishJob, FailAndRetry, FailAndStop, Retry, Abort, AbortMark,
     ClearJob
<1>2. \A h \in Call \ {g} : run'[h].at = "off"
  BY <1>1, OthersStay DEF JobInv
<1>3. CASE ClearJob(g)
  <2>1. job' = NoCall /\ run'[g].at = "off" /\ rec' = rec /\ rec # "downloading"
    BY <1>1, <1>3 DEF ClearJob, JobInv
  <2> QED
    BY <1>2, <2>1 DEF JobInv
<1>4. ASSUME job' = job, run'[g].at # "off", rec' = "downloading" => run'[g].at # "clear"
      PROVE JobInv'
  BY <1>1, <1>2, <1>4 DEF JobInv
<1>5. CASE StatShard(g) \/ Fetch(g) \/ FetchFails(g) \/ ReadEnd(g) \/ ReadFails(g) \/ Rename(g)
           \/ StoreShard(g) \/ Retry(g) \/ Abort(g)
  BY <1>4, <1>5 DEF StatShard, Fetch, FetchFails, ReadEnd, ReadFails, Rename, StoreShard, Retry, Abort
<1>6. CASE Tick(g)
  BY <1>4, <1>6 DEF Tick
<1>7. CASE MakeDir(g) \/ FinishJob(g) \/ FailAndRetry(g) \/ FailAndStop(g) \/ AbortMark(g)
  <2>1. job' = job /\ run'[g].at # "off"
    BY <1>7 DEF MakeDir, FinishJob, FailAndRetry, FailAndStop, AbortMark
  <2>2. rec' = "downloading" => run'[g].at # "clear"
    BY <1>7 DEF MakeDir, FinishJob, FailAndRetry, FailAndStop, AbortMark, SetState, Legal
  <2> QED
    BY <1>4, <2>1, <2>2
<1> QED
  BY <1>3, <1>5, <1>6, <1>7 DEF JobStep

(* One goroutine at most is at the files of a model, and a record at         *)
(* downloading has one that will move it on.                               *)
THEOREM SingleWriter == DownloadSpec => []OneWriter
<1>1. DownloadInit => JobInv
  BY DEF DownloadInit, Off, JobInv
<1>2. DownloadTypeOK /\ JobInv /\ [DownloadNext]_downloadVars => JobInv'
  <2> SUFFICES ASSUME DownloadTypeOK, JobInv, [DownloadNext]_downloadVars PROVE JobInv'
    OBVIOUS
  <2>1. CASE DownloadNext
    BY <2>1, CallKeepsJob, JobKeepsJob DEF DownloadNext
  <2>2. CASE UNCHANGED downloadVars
    BY <2>2 DEF downloadVars, JobInv
  <2> QED
    BY <2>1, <2>2
<1>3. DownloadSpec => []JobInv
  BY <1>1, <1>2, TypeCorrect, PTL DEF DownloadSpec
<1>4. DownloadTypeOK /\ JobInv => OneWriter
  BY DEF JobInv, OneWriter
<1> QED
  BY <1>3, <1>4, TypeCorrect, PTL

-----------------------------------------------------------------------------
(* Downloaded models are on disk *)

Working(g) == run[g].at \notin {"off", "clear"}

(* What a goroutine has behind it. *)
Fetched(g, s) ==
    \/ s < run[g].shard
    \/ run[g].at \in {"store", "finish"} /\ s = run[g].shard

(* DeleteModel has removed a file, or may have. *)
Removing(c) ==
    \/ request[c].at \in {"part", "record"}
    \/ request[c].at = "file" /\ request[c].shard > 1

(* A call that has not claimed has no goroutine yet. *)
FreshInv == \A c \in Call : request[c].at # "done" => run[c] = Off /\ job # c

(* A goroutine keeps the files it has behind it and the record below        *)
(* downloaded until its end; then they are all there, until a call removes *)
(* one and has yet to say so.                                              *)
FilesInv ==
    /\ \A g \in Call : Working(g) => rec # "downloaded"
    /\ \A g \in Call : \A s \in Shard :
          Working(g) /\ ~undone /\ Fetched(g, s) => disk[s] = "file"
    /\ \A g \in Call : run[g].at = "finish" => run[g].shard = Shards
    /\ rec = "downloaded" /\ ~undone => OnDisk \/ \E c \in Call : Removing(c)

(* A call moves itself only. *)
LEMMA OtherCallsStay ==
  ASSUME DownloadTypeOK, NEW c \in Call, RequestStep(c)
  PROVE  \A h \in Call \ {c} : request'[h] = request[h]
BY DEF DownloadTypeOK, RequestStep, GoOn, EnterAt, BeginRequest, BeginEnrolled, DownloadCheck, DownloadFind,
       DownloadClaim, CancelCheck, CancelStop, CancelMark, DeleteFind, DeleteFile, DeleteFails,
       DeletePart, DeleteRecord

LEMMA CallKeepsFresh ==
  ASSUME DownloadTypeOK, FreshInv, NEW c \in Call, RequestStep(c) PROVE FreshInv'
<1>1. \A h \in Call \ {c} : request'[h] = request[h]
  BY OtherCallsStay
<1>2. CASE DownloadClaim(c)
  <2>1. request'[c].at = "done"
    BY <1>2 DEF DownloadClaim, GoOn, DownloadTypeOK, CallState
  <2>2. job' \in {job, c} /\ \A h \in Call \ {c} : run'[h] = run[h]
    BY <1>2 DEF DownloadClaim, DownloadTypeOK
  <2> QED
    BY <1>1, <2>1, <2>2 DEF FreshInv
<1>3. CASE CancelStop(c)
  <2>1. job' = job /\ \A h \in Call : h # job => run'[h] = run[h]
    BY <1>3 DEF CancelStop
  <2>2. request[c].at # "done"
    BY <1>3 DEF CancelStop
  <2> QED
    BY <1>1, <2>1, <2>2 DEF FreshInv
<1>4. ASSUME job' = job, run' = run, request[c].at # "done" PROVE FreshInv'
  BY <1>1, <1>4 DEF FreshInv
<1>5. CASE BeginRequest(c) \/ BeginEnrolled(c) \/ DownloadCheck(c) \/ DownloadFind(c) \/ CancelCheck(c)
           \/ CancelMark(c)
  BY <1>4, <1>5 DEF BeginRequest, BeginEnrolled, DownloadCheck, DownloadFind, CancelCheck, CancelMark
<1>6. CASE DeleteFind(c) \/ DeleteFile(c) \/ DeleteFails(c) \/ DeletePart(c) \/ DeleteRecord(c)
  BY <1>4, <1>6 DEF DeleteFind, DeleteFile, DeleteFails, DeletePart, DeleteRecord
<1> QED
  BY <1>2, <1>3, <1>5, <1>6 DEF RequestStep

LEMMA JobKeepsFresh ==
  ASSUME DownloadTypeOK, FreshInv, NEW g \in Call, JobStep(g) PROVE FreshInv'
<1>1. /\ run[g].at # "off"
      /\ request' = request
      /\ job' \in {job, NoCall}
  BY DEF JobStep, Step, MakeDir, StatShard, Fetch, FetchFails, Tick, ReadEnd, ReadFails,
     Rename, StoreShard, FinishJob, FailAndRetry, FailAndStop, Retry, Abort, AbortMark, ClearJob
<1>2. request[g].at = "done"
  BY <1>1 DEF FreshInv, Off
<1>3. \A h \in Call \ {g} : run'[h] = run[h]
  BY OthersStay
<1> QED
  BY <1>1, <1>2, <1>3, DownloadAssumption DEF FreshInv

(* What a call leaves as it is. *)
LEMMA FilesKept ==
  ASSUME FilesInv,
         \A g \in Call : run'[g].at = run[g].at /\ run'[g].shard = run[g].shard,
         rec' = "downloaded" => rec = "downloaded",
         undone => undone',
         ~undone' => \A s \in Shard : disk[s] = "file" => disk'[s] = "file",
         rec' = "downloaded" /\ ~undone' =>
            \A h \in Call : Removing(h) => \E d \in Call : Removing(d)'
  PROVE FilesInv'
<1>1. \A g \in Call : Working(g)' => rec' # "downloaded"
  BY DEF FilesInv, Working
<1>2. \A g \in Call : \A s \in Shard :
         Working(g)' /\ ~undone' /\ Fetched(g, s)' => disk'[s] = "file"
  BY DEF FilesInv, Working, Fetched
<1>3. \A g \in Call : run'[g].at = "finish" => run'[g].shard = Shards
  BY DEF FilesInv
<1>4. rec' = "downloaded" /\ ~undone' => OnDisk' \/ \E c \in Call : Removing(c)'
  BY DEF FilesInv, OnDisk
<1> QED
  BY <1>1, <1>2, <1>3, <1>4 DEF FilesInv

LEMMA CallKeepsFiles ==
  ASSUME DownloadTypeOK, JobInv, FreshInv, FilesInv, NEW c \in Call, RequestStep(c) PROVE FilesInv'
<1>1. \A h \in Call \ {c} : Removing(h) => Removing(h)'
  BY OtherCallsStay DEF Removing
<1>2. ASSUME run' = run, rec' = "downloaded" => rec = "downloaded", undone => undone',
             ~undone' => \A s \in Shard : disk[s] = "file" => disk'[s] = "file",
             rec' = "downloaded" /\ ~undone' /\ Removing(c) => Removing(c)'
      PROVE FilesInv'
  BY <1>1, <1>2, FilesKept
<1>3. CASE BeginRequest(c) \/ BeginEnrolled(c) \/ DownloadCheck(c) \/ DownloadFind(c) \/ CancelCheck(c)
           \/ CancelMark(c) \/ DeleteFind(c)
  <2>1. ~Removing(c)
    BY <1>3 DEF Removing, BeginRequest, BeginEnrolled, DownloadCheck, DownloadFind, CancelCheck,
                CancelMark, DeleteFind
  <2>2. run' = run /\ disk' = disk /\ undone' = undone
    BY <1>3 DEF BeginRequest, BeginEnrolled, DownloadCheck, DownloadFind, CancelCheck, CancelMark, DeleteFind
  <2>3. rec' = "downloaded" => rec = "downloaded"
    BY <1>3 DEF BeginRequest, BeginEnrolled, DownloadCheck, DownloadFind, CancelCheck, CancelMark,
                DeleteFind, SetState
  <2> QED
    BY <1>2, <2>1, <2>2, <2>3
<1>4. CASE DownloadClaim(c) /\ Claimable /\ Legal(rec, "downloading")
  <2>1. /\ job = NoCall /\ rec' = "downloading"
        /\ run' = [run EXCEPT ![c].at = "begin"]
    BY <1>4 DEF DownloadClaim, Claimable
  <2>2. run[c] = Off
    BY <1>4 DEF DownloadClaim, FreshInv
  <2>3. \A g \in Call : run[g].at = "off"
    BY <2>1, DownloadAssumption DEF JobInv
  <2>4. run'[c].at = "begin" /\ run'[c].shard = 1 /\ \A g \in Call \ {c} : run'[g].at = "off"
    BY <2>1, <2>2, <2>3 DEF DownloadTypeOK, JobState, Off
  <2>5. \A g \in Call : \A s \in Shard : Working(g)' => ~Fetched(g, s)'
    BY <2>4 DEF Working, Fetched, Shard
  <2> QED
    BY <2>1, <2>4, <2>5 DEF FilesInv
<1>5. CASE DownloadClaim(c) /\ ~(Claimable /\ Legal(rec, "downloading"))
  <2>1. ~Removing(c) /\ rec' = rec /\ run' = run /\ disk' = disk /\ undone' = undone
    BY <1>5 DEF DownloadClaim, Removing
  <2> QED
    BY <1>2, <2>1
<1>6. CASE CancelStop(c)
  <2>1. \A g \in Call : run'[g].at = run[g].at /\ run'[g].shard = run[g].shard
    BY <1>6 DEF CancelStop, DownloadTypeOK, JobState
  <2>2. ~Removing(c) /\ rec' = rec /\ disk' = disk /\ undone' = undone
    BY <1>6 DEF CancelStop, Removing
  <2> QED
    BY <1>1, <2>1, <2>2, FilesKept
<1>7. CASE DeleteFile(c)
  <2> DEFINE s == request[c].shard
  <2>1. Removing(c)' /\ run' = run /\ rec' = rec /\ (undone => undone')
    BY <1>7 DEF DeleteFile, GoOn, Removing, DownloadTypeOK, CallState
  <2>2. disk' = [disk EXCEPT ![s] = IF @ = "file" THEN "none" ELSE @]
    BY <1>7 DEF DeleteFile
  <2>3. CASE disk[s] # "file"
    <3>1. \A t \in Shard : disk[t] = "file" => disk'[t] = "file"
      BY <2>2, <2>3 DEF DownloadTypeOK
    <3> QED
      BY <1>2, <2>1, <3>1
  <2>4. CASE disk[s] = "file" /\ job # NoCall
    <3>1. undone'
      BY <1>7, <2>4 DEF DeleteFile
    <3> QED
      BY <1>2, <2>1, <3>1
  <2>5. CASE job = NoCall
    <3>1. \A g \in Call : run'[g].at = "off"
      BY <2>1, <2>5, DownloadAssumption DEF JobInv
    <3> QED
      BY <2>1, <3>1 DEF FilesInv, Working
  <2> QED
    BY <2>3, <2>4, <2>5
<1>8. CASE DeleteFails(c)
  <2>1. run' = run /\ rec' = rec /\ disk' = disk /\ (undone => undone')
    BY <1>8 DEF DeleteFails
  <2>2. ~undone' => ~Removing(c)
    BY <1>8 DEF DeleteFails, Removing
  <2> QED
    BY <1>2, <2>1, <2>2
<1>9. CASE DeletePart(c)
  <2> DEFINE s == request[c].shard
  <2>1. run' = run /\ rec' = rec /\ undone' = undone /\ s \in 1..Shards
    BY <1>9 DEF DeletePart, DownloadTypeOK, CallState, Shard
  <2>2. \A t \in Shard : disk[t] = "file" => disk'[t] = "file"
    BY <1>9 DEF DeletePart, DownloadTypeOK
  <2>3. Removing(c)'
    <3>1. CASE s < Shards
      <4>1. request'[c] = [op |-> "delete", at |-> "file", shard |-> s + 1]
        BY <1>9, <3>1 DEF DeletePart, EnterAt, DownloadTypeOK
      <4>2. s + 1 > 1
        BY <2>1, DownloadAssumption
      <4> QED
        BY <4>1, <4>2 DEF Removing
    <3>2. CASE ~(s < Shards)
      BY <1>9, <3>2 DEF DeletePart, GoOn, Removing, DownloadTypeOK, CallState
    <3> QED
      BY <3>1, <3>2
  <2> QED
    BY <1>2, <2>1, <2>2, <2>3
<1>10. CASE DeleteRecord(c)
  <2>1. run' = run /\ disk' = disk /\ undone' = undone
    BY <1>10 DEF DeleteRecord
  <2>2. rec' # "downloaded"
    BY <1>10 DEF DeleteRecord, SetState, Legal
  <2> QED
    BY <1>2, <2>1, <2>2
<1> QED
  BY <1>3, <1>4, <1>5, <1>6, <1>7, <1>8, <1>9, <1>10 DEF RequestStep

(* A step of the goroutine g with the file s. *)
LEMMA JobKeepsFiles ==
  ASSUME DownloadTypeOK, JobInv, FilesInv, NEW g \in Call, JobStep(g) PROVE FilesInv'
<1> DEFINE s == run[g].shard
<1>1. job = g /\ g # NoCall
  BY DownloadAssumption DEF Step, JobInv, JobStep, MakeDir, StatShard, Fetch, FetchFails, Tick,
     ReadEnd, ReadFails, Rename, StoreShard, FinishJob, FailAndRetry, FailAndStop, Retry, Abort,
     AbortMark, ClearJob
<1>2. \A h \in Call \ {g} : run'[h].at = "off"
  BY <1>1, OthersStay DEF JobInv
<1>3. request' = request /\ undone' = undone
  BY DEF JobStep, MakeDir, StatShard, Fetch, FetchFails, Tick, ReadEnd, ReadFails,
     Rename, StoreShard, FinishJob, FailAndRetry, FailAndStop, Retry, Abort, AbortMark, ClearJob
<1>4. s \in Shard /\ Shard = 1..Shards /\ Shards \in Nat \ {0}
  BY DownloadAssumption DEF DownloadTypeOK, JobState, Shard
<1>5. (\E c \in Call : Removing(c)) => \E c \in Call : Removing(c)'
  BY <1>3 DEF Removing
<1>6. CASE ClearJob(g)
  <2>1. run'[g].at = "off" /\ rec' = rec /\ disk' = disk
    BY <1>6 DEF ClearJob, Step, DownloadTypeOK, JobState
  <2>2. OnDisk' <=> OnDisk
    BY <2>1 DEF OnDisk
  <2> QED
    BY <1>2, <1>3, <1>5, <2>1, <2>2 DEF FilesInv, Working
<1>7. CASE FinishJob(g)
  <2>1. run'[g].at = "clear" /\ disk' = disk /\ run[g].at = "finish"
    BY <1>7 DEF FinishJob, Step, DownloadTypeOK, JobState
  <2>2. ~undone => OnDisk
    BY <1>4, <2>1 DEF FilesInv, Working, Fetched, OnDisk
  <2>3. OnDisk' <=> OnDisk
    BY <2>1 DEF OnDisk
  <2> QED
    BY <1>2, <1>3, <2>1, <2>2, <2>3 DEF FilesInv, Working
(* In the other steps the goroutine works before, and the record does not   *)
(* come to downloaded.                                                     *)
<1>8. ASSUME Working(g), rec' # "downloaded",
             \A t \in Shard : Working(g)' /\ ~undone /\ Fetched(g, t)' => disk'[t] = "file",
             run'[g].at = "finish" => run'[g].shard = Shards
      PROVE FilesInv'
  BY <1>2, <1>3, <1>8 DEF FilesInv, Working
<1>9. Working(g) => rec # "downloaded" /\ \A t \in Shard : ~undone /\ Fetched(g, t) => disk[t] = "file"
  BY DEF FilesInv
<1>10. CASE MakeDir(g) \/ FetchFails(g) \/ ReadFails(g) \/ FailAndRetry(g) \/ FailAndStop(g)
            \/ AbortMark(g) \/ Tick(g)
  <2>1. /\ Working(g) /\ disk' = disk
        /\ run[g].at \notin {"store", "finish"} /\ run'[g].at \notin {"store", "finish"}
        /\ run'[g].shard = s
    BY <1>10 DEF MakeDir, FetchFails, ReadFails, FailAndRetry, FailAndStop, AbortMark, Tick, Step,
                 Working, DownloadTypeOK, JobState
  <2>2. rec' # "downloaded"
    BY <1>9, <1>10, <2>1 DEF MakeDir, FetchFails, ReadFails, FailAndRetry, FailAndStop, AbortMark,
                             Tick, Store, SetState
  <2> QED
    BY <1>8, <1>9, <2>1, <2>2 DEF Fetched
<1>11. CASE Fetch(g) \/ ReadEnd(g) \/ Abort(g)
  <2>1. /\ Working(g) /\ rec' = rec
        /\ run[g].at \notin {"store", "finish"} /\ run'[g].at \notin {"store", "finish"}
        /\ run'[g].shard = s
    BY <1>11 DEF Fetch, ReadEnd, Abort, Step, Working, DownloadTypeOK, JobState
  <2>2. \A t \in Shard : t # s => disk'[t] = disk[t]
    BY <1>11 DEF Fetch, ReadEnd, Abort, DownloadTypeOK
  <2> QED
    BY <1>4, <1>8, <1>9, <2>1, <2>2 DEF Fetched
<1>12. CASE StatShard(g)
  <2>1. /\ Working(g) /\ rec' = rec /\ disk' = disk
        /\ run'[g].at = IF disk[s] = "file" THEN "store" ELSE "fetch"
        /\ run'[g].shard = s
    BY <1>12 DEF StatShard, Move, Working, DownloadTypeOK
  <2> QED
    BY <1>8, <1>9, <2>1 DEF Fetched
<1>13. CASE Rename(g)
  <2>1. /\ Working(g) /\ rec' = rec /\ run'[g].shard = s
        /\ run'[g].at = "fail" \/ (run'[g].at = "store" /\ disk'[s] = "file")
    BY <1>4, <1>13 DEF Rename, Step, Working, DownloadTypeOK, JobState
  <2>2. \A t \in Shard : t # s => disk'[t] = disk[t]
    BY <1>13 DEF Rename, DownloadTypeOK
  <2> QED
    BY <1>4, <1>8, <1>9, <2>1, <2>2 DEF Fetched
<1>14. CASE StoreShard(g)
  <2>1. Working(g) /\ rec' = "downloading" /\ disk' = disk /\ run[g].at = "store"
    BY <1>14 DEF StoreShard, Store, Working
  <2>2. \A t \in Shard : ~undone /\ t <= s => disk[t] = "file"
    BY <1>4, <1>9, <2>1 DEF Fetched
  <2>3. CASE s < Shards
    <3>1. run'[g].at = "stat" /\ run'[g].shard = s + 1
      BY <1>14, <2>3 DEF StoreShard, Move, DownloadTypeOK
    <3> QED
      BY <1>4, <1>8, <2>1, <2>2, <3>1 DEF Fetched
  <2>4. CASE ~(s < Shards)
    <3>1. run'[g].at = "finish" /\ run'[g].shard = s /\ s = Shards
      BY <1>4, <1>14, <2>4 DEF StoreShard, Move, DownloadTypeOK
    <3> QED
      BY <1>4, <1>8, <2>1, <2>2, <3>1 DEF Fetched
  <2> QED
    BY <2>3, <2>4
<1>15. CASE Retry(g)
  <2>1. /\ Working(g) /\ rec' = rec /\ disk' = disk
        /\ run'[g].at = "fetch" /\ run'[g].shard = s
    BY <1>15 DEF Retry, Move, Working, DownloadTypeOK
  <2> QED
    BY <1>8, <1>9, <2>1 DEF Fetched
<1> QED
  BY <1>6, <1>7, <1>10, <1>11, <1>12, <1>13, <1>14, <1>15 DEF JobStep

(* A model that the record calls downloaded has all its files, but for the   *)
(* deletes that DownloadedOnDisk names.                                     *)
THEOREM DownloadedIsOnDisk == DownloadSpec => []DownloadedOnDisk
<1> DEFINE Inv == DownloadTypeOK /\ JobInv /\ FreshInv /\ FilesInv
<1>1. DownloadInit => Inv
  BY TypeInit, DownloadAssumption DEF DownloadInit, Off, JobInv, FreshInv, FilesInv, Working
<1>2. Inv /\ [DownloadNext]_downloadVars => Inv'
  <2> SUFFICES ASSUME Inv, [DownloadNext]_downloadVars PROVE Inv'
    OBVIOUS
  <2>1. CASE DownloadNext
    BY <2>1, TypeCall, TypeJob, CallKeepsJob, JobKeepsJob, CallKeepsFresh, JobKeepsFresh,
       CallKeepsFiles, JobKeepsFiles DEF DownloadNext
  <2>2. CASE UNCHANGED downloadVars
    BY <2>2 DEF downloadVars, DownloadTypeOK, JobInv, FreshInv, FilesInv, Working, Fetched, Removing, OnDisk
  <2> QED
    BY <2>1, <2>2
<1>3. Inv => DownloadedOnDisk
  BY DEF FilesInv, Removing, Deleting, DownloadedOnDisk
<1> QED
  BY <1>1, <1>2, <1>3, PTL DEF DownloadSpec
=============================================================================
