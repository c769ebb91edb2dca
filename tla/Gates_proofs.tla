---------------------------- MODULE Gates_proofs ----------------------------
(***************************************************************************)
(* Proofs about the two gates at which a turn waits for its user, for any   *)
(* sets of calls, ids, answers, callers, sign-ins and decisions, and any   *)
(* number of flights: the permission of a tool call (PermissionBarrier),    *)
(* the credential of a model call (Credentials) and the sign-in it may have *)
(* to wait for (AuthenticationGate).                                       *)
(***************************************************************************)
EXTENDS AuthenticationGate, PermissionBarrier, FiniteSetTheorems, TLAPS

-----------------------------------------------------------------------------
(* The permission of a tool call. *)
LEMMA TypeInit == BarrierInit => BarrierTypeOK
<1> SUFFICES ASSUME BarrierInit PROVE BarrierTypeOK
  OBVIOUS
<1>1. chan \in [Call -> Seq(Answer)] /\ \A c \in Call : Len(chan[c]) <= 1
  BY DEF BarrierInit
<1>2. /\ cpc \in [Call -> {"idle", "prompted", "waiting", "leaving", "done"}]
      /\ apc \in [Answer -> {"unsent", "arrived", "found", "true", "false"}]
      /\ promptDone \in [Call -> BOOLEAN]
  BY DEF BarrierInit
<1>3. /\ got \in [Call -> Answer \cup {NoAnswer}]
      /\ channels \in [Key -> Call \cup {NoCall}]
      /\ sendTo \in [Answer -> Call \cup {NoCall}]
      /\ answersTo \in [Answer -> Call \cup {NoCall}]
      /\ key \in [Call -> Key] /\ \A a \in Answer : apc[a] = "unsent"
  BY DEF BarrierInit
<1> QED
  BY <1>1, <1>2, <1>3 DEF BarrierTypeOK

LEMMA TypeCallStep ==
  ASSUME BarrierTypeOK, NEW c \in Call, Prompt(c) \/ PromptStep(c) \/ Cancel(c) PROVE BarrierTypeOK'
<1>1. CASE Prompt(c)
  BY <1>1 DEF Prompt, BarrierTypeOK, answerVars, promptVars
<1>3. CASE Register(c)
  <2>1. channels' \in [Key -> Call \cup {NoCall}]
    BY <1>3 DEF Register, BarrierTypeOK, answerVars, promptVars
  <2> QED
    BY <1>3, <2>1 DEF Register, BarrierTypeOK, answerVars, promptVars
<1>4. CASE TakeCancel(c)
  BY <1>4 DEF TakeCancel, BarrierTypeOK, answerVars, promptVars
<1>5. CASE Unregister(c)
  <2>1. channels' \in [Key -> Call \cup {NoCall}]
    BY <1>5 DEF Unregister, BarrierTypeOK, answerVars, promptVars
  <2> QED
    BY <1>5, <2>1 DEF Unregister, BarrierTypeOK, answerVars, promptVars
<1>6. CASE Cancel(c)
  BY <1>6 DEF Cancel, BarrierTypeOK, answerVars, promptVars
<1>2. CASE TakeDecision(c)
  <2>1. Head(chan[c]) \in Answer /\ Tail(chan[c]) \in Seq(Answer) /\ Len(Tail(chan[c])) <= 1
    BY <1>2 DEF TakeDecision, BarrierTypeOK, answerVars, promptVars
  <2>2. got' \in [Call -> Answer \cup {NoAnswer}] /\ chan' \in [Call -> Seq(Answer)]
    BY <1>2, <2>1 DEF TakeDecision, BarrierTypeOK, answerVars, promptVars
  <2>3. \A d \in Call : Len(chan'[d]) <= 1
    BY <1>2, <2>1 DEF TakeDecision, BarrierTypeOK, answerVars, promptVars
  <2> QED
    BY <1>2, <2>2, <2>3 DEF TakeDecision, BarrierTypeOK, answerVars, promptVars
<1> QED
  BY <1>1, <1>2, <1>3, <1>4, <1>5, <1>6 DEF PromptStep

LEMMA TypeAnswerStep ==
  ASSUME BarrierTypeOK, NEW a \in Answer, Send(a) \/ AnswerStep(a) PROVE BarrierTypeOK'
<1>1. CASE Send(a)
  <2>1. /\ answersTo' \in [Answer -> Call \cup {NoCall}]
        /\ apc' \in [Answer -> {"unsent", "arrived", "found", "true", "false"}]
        /\ \A b \in Answer : apc'[b] # "unsent" => answersTo'[b] \in Call
    BY <1>1 DEF Send, BarrierTypeOK
  <2> QED
    BY <1>1, <2>1 DEF Send, BarrierTypeOK, promptVars
<1>2. CASE Lookup(a)
  <2>1. channels[key[answersTo[a]]] \in Call \cup {NoCall}
    BY <1>2 DEF Lookup, BarrierTypeOK
  <2> QED
    BY <1>2, <2>1 DEF Lookup, BarrierTypeOK, answerVars, promptVars
<1>3. CASE Deliver(a)
  <2>1. \A s : s = << >> => Append(s, a) \in Seq(Answer) /\ Len(Append(s, a)) <= 1
    OBVIOUS
  <2>2. chan' \in [Call -> Seq(Answer)]
    BY <1>3, <2>1 DEF Deliver, BarrierTypeOK, answerVars, promptVars
  <2>3. \A d \in Call : Len(chan'[d]) <= 1
    BY <1>3, <2>1 DEF Deliver, BarrierTypeOK, answerVars, promptVars
  <2> QED
    BY <1>3, <2>2, <2>3 DEF Deliver, BarrierTypeOK, answerVars, promptVars
<1> QED
  BY <1>1, <1>2, <1>3 DEF AnswerStep

(* Every state has the types. *)
THEOREM TypeCorrect == BarrierSpec => []BarrierTypeOK
<1>1. BarrierTypeOK /\ [BarrierNext]_barrierVars => BarrierTypeOK'
  <2> SUFFICES ASSUME BarrierTypeOK, [BarrierNext]_barrierVars PROVE BarrierTypeOK'
    OBVIOUS
  <2>1. CASE BarrierNext
    BY <2>1, TypeCallStep, TypeAnswerStep DEF BarrierNext
  <2>2. CASE UNCHANGED barrierVars
    BY <2>2 DEF barrierVars, promptVars, answerVars, BarrierTypeOK
  <2> QED
    BY <2>1, <2>2
<1> QED
  BY TypeInit, <1>1, PTL DEF BarrierSpec

-----------------------------------------------------------------------------
(* On its way from the client to the call that it decides an answer is only *)
(* ever where its key leads: looked up, in the channel, or taken.          *)
ItsKey(a, c) == sendTo[a] = c /\ key[answersTo[a]] = key[c]

AnswerInv ==
    /\ \A k \in Key : channels[k] # NoCall => key[channels[k]] = k
    /\ \A a \in Answer : apc[a] = "found" => sendTo[a] \in Call /\ ItsKey(a, sendTo[a])
    /\ \A c \in Call : chan[c] # << >> =>
          apc[Head(chan[c])] = "true" /\ ItsKey(Head(chan[c]), c)
    /\ \A c \in Call : got[c] # NoAnswer => apc[got[c]] = "true" /\ ItsKey(got[c], c)

LEMMA CallKeepsAnswers ==
  ASSUME BarrierTypeOK, AnswerInv, NEW c \in Call, Prompt(c) \/ PromptStep(c) \/ Cancel(c)
  PROVE  AnswerInv'
<1>0. key' = key /\ apc' = apc /\ sendTo' = sendTo /\ answersTo' = answersTo
  BY DEF Prompt, PromptStep, Register, TakeDecision, TakeCancel, Unregister, Cancel, answerVars
<1>1. CASE Prompt(c) \/ TakeCancel(c) \/ Cancel(c)
  BY <1>0, <1>1 DEF Prompt, TakeCancel, Cancel, AnswerInv, ItsKey
<1>2. CASE Register(c) \/ Unregister(c)
  <2>1. \A k \in Key : channels'[k] # NoCall => key[channels'[k]] = k
    BY <1>2 DEF Register, Unregister, BarrierTypeOK, AnswerInv
  <2> QED
    BY <1>0, <1>2, <2>1 DEF Register, Unregister, AnswerInv, ItsKey
<1>3. CASE TakeDecision(c)
  <2>1. Tail(chan[c]) = << >>
    BY <1>3 DEF TakeDecision, BarrierTypeOK
  <2>2. chan'[c] = << >> /\ \A d \in Call \ {c} : chan'[d] = chan[d]
    BY <1>3, <2>1 DEF TakeDecision, BarrierTypeOK
  <2>3. got'[c] = Head(chan[c]) /\ \A d \in Call \ {c} : got'[d] = got[d]
    BY <1>3 DEF TakeDecision, BarrierTypeOK
  <2>4. chan[c] # << >> /\ channels' = channels
    BY <1>3 DEF TakeDecision
  <2> QED
    BY <1>0, <2>2, <2>3, <2>4 DEF AnswerInv, ItsKey
<1> QED
  BY <1>1, <1>2, <1>3 DEF PromptStep

LEMMA AnswerKeepsAnswers ==
  ASSUME BarrierTypeOK, AnswerInv, NEW a \in Answer, Send(a) \/ AnswerStep(a)
  PROVE  AnswerInv'
<1>1. \A b \in Answer \ {a} : /\ apc'[b] = apc[b] /\ sendTo'[b] = sendTo[b]
                             /\ answersTo'[b] = answersTo[b]
  BY DEF Send, AnswerStep, Lookup, Deliver, BarrierTypeOK
<1>2. \A c \in Call : chan[c] # << >> => Head(chan[c]) \in Answer
  BY DEF BarrierTypeOK
<1>3. got' = got /\ channels' = channels /\ key' = key /\ apc[a] # "true"
  BY DEF Send, AnswerStep, Lookup, Deliver, promptVars
<1>4. \A c \in Call : got[c] # NoAnswer => got[c] \in Answer \ {a}
  BY <1>3 DEF BarrierTypeOK, AnswerInv
<1>5. \A c \in Call : chan[c] # << >> => Head(chan[c]) \in Answer \ {a}
  BY <1>2, <1>3 DEF AnswerInv
<1>6. CASE Send(a)
  <2>1. apc'[a] = "arrived" /\ chan' = chan
    BY <1>6 DEF Send, BarrierTypeOK
  <2> QED
    BY <1>1, <1>3, <1>4, <1>5, <2>1 DEF AnswerInv, ItsKey
<1>7. CASE Lookup(a)
  <2>1. answersTo[a] \in Call /\ key[answersTo[a]] \in Key
    BY <1>7 DEF Lookup, BarrierTypeOK
  <2>2. /\ sendTo'[a] = channels[key[answersTo[a]]] /\ chan' = chan /\ answersTo' = answersTo
        /\ apc'[a] = IF channels[key[answersTo[a]]] = NoCall THEN "false" ELSE "found"
    BY <1>7 DEF Lookup, BarrierTypeOK
  <2>3. apc'[a] = "found" => /\ sendTo'[a] \in Call
                             /\ key[sendTo'[a]] = key[answersTo[a]]
    BY <2>1, <2>2 DEF BarrierTypeOK, AnswerInv
  <2> QED
    BY <1>1, <1>3, <1>4, <1>5, <2>2, <2>3 DEF AnswerInv, ItsKey
<1>8. CASE Deliver(a)
  <2>1. /\ apc[a] = "found" /\ apc'[a] = "true" /\ sendTo' = sendTo /\ answersTo' = answersTo
    BY <1>8 DEF Deliver, BarrierTypeOK
  <2>2. PICK c \in Call : c = sendTo[a] /\ ItsKey(a, c)
    BY <2>1 DEF AnswerInv
  <2>3. \A s : s = << >> => Head(Append(s, a)) = a
    OBVIOUS
  <2>4. Head(chan'[c]) = a /\ \A d \in Call \ {c} : chan'[d] = chan[d]
    BY <1>8, <2>2, <2>3 DEF Deliver, BarrierTypeOK
  <2> QED
    BY <1>1, <1>3, <1>4, <1>5, <2>1, <2>2, <2>4 DEF AnswerInv, ItsKey
<1> QED
  BY <1>6, <1>7, <1>8 DEF AnswerStep

(* A gated call is decided by one answer, that no other call is decided by, *)
(* to a prompt of its conversation and its id: whatever ids models give,   *)
(* and however late calls leave and answers come.                          *)
THEOREM AnswerReachesItsCall == BarrierSpec => []OwnAnswerOnly
<1>1. BarrierInit => AnswerInv
  BY DEF BarrierInit, AnswerInv
<1>2. BarrierTypeOK /\ AnswerInv /\ [BarrierNext]_barrierVars => AnswerInv'
  <2> SUFFICES ASSUME BarrierTypeOK, AnswerInv, [BarrierNext]_barrierVars PROVE AnswerInv'
    OBVIOUS
  <2>1. CASE BarrierNext
    BY <2>1, CallKeepsAnswers, AnswerKeepsAnswers DEF BarrierNext
  <2>2. CASE UNCHANGED barrierVars
    BY <2>2 DEF barrierVars, promptVars, answerVars, AnswerInv, ItsKey
  <2> QED
    BY <2>1, <2>2
<1>3. BarrierTypeOK /\ AnswerInv => OwnAnswerOnly
  BY DEF AnswerInv, ItsKey, OwnAnswerOnly
<1> QED
  BY <1>1, <1>2, <1>3, TypeCorrect, PTL DEF BarrierSpec

-----------------------------------------------------------------------------
(* The credential. A flight is looked at apart from its callers: it counts  *)
(* them (Counted), it is the profile's current one and has the profile as   *)
(* it is stored (CurrentOwns), or it has settled or was superseded and its  *)
(* callers have been told (OthersKnow).                                    *)
LEMMA Slots == Flight \subseteq Nat /\ NoFlight \notin Flight
  BY CredentialsAssumption DEF Flight, NoFlight

LEMMA SetTypes ==
  ASSUME NEW w \in Nat
  PROVE SignedIn(w) \in TokenSet /\ Expired(w) \in TokenSet /\ Missing(w) \in TokenSet
  BY DEF SignedIn, Expired, Missing, TokenSet

LEMMA NewFlightType == NewFlight \in FlightState
  BY DEF NewFlight, FlightState, Missing, TokenSet

LEMMA CallAtType ==
  ASSUME NEW pc \in {"idle", "acquire", "waiting", "returned"},
         NEW res \in {"none", "cancelled", "replaced"} \cup Results
  PROVE CallAt(pc, res) \in CallState
  BY CredentialsAssumption DEF CallAt, CallState, NoFlight, Missing, TokenSet

LEMMA WaitingType ==
  ASSUME CredTypeOK, NEW c \in Caller, NEW f \in Flight
  PROVE Waiting(c, f) \in CallState
<1>1. caller[c] \in CallState /\ writes \in Nat
  BY DEF CredTypeOK
<1> QED
  BY <1>1 DEF Waiting, CallState

LEMMA KeptType ==
  ASSUME NEW fl \in FlightState PROVE Kept(fl) \in FlightState
  BY NewFlightType DEF Kept

\* What a step does to the flight f and to no other.
OnlyFlight(f) == 
   /\ flight' \in [Flight -> FlightState]
   /\ \A g \in Flight \ {f} : flight'[g] = flight[g]
OnlyCaller(c) ==
   /\ caller' \in [Caller -> CallState]
   /\ \A d \in Caller \ {c} : caller'[d] = caller[d]

LEMMA CallTypes == 
   CredTypeOK => /\ caller \in [Caller -> CallState] /\ flight \in [Flight -> FlightState] 
                 /\ store \in TokenSet /\ writes \in Nat /\ generation \in Nat
  BY DEF CredTypeOK

LEMMA JoinFlight ==
  ASSUME CredTypeOK, NEW c \in Caller, Join(c)
  PROVE /\ current \in Flight /\ OnlyFlight(current) /\ OnlyCaller(c)
        /\ flight'[current] = [flight[current] EXCEPT !.waiters = @ + 1]
        /\ caller'[c] = Waiting(c, current)
<1>1. current \in Flight
  BY DEF Join, CredTypeOK
<1>2. Waiting(c, current) \in CallState
  BY <1>1, WaitingType
<1>3. [flight[current] EXCEPT !.waiters = @ + 1] \in FlightState
  BY <1>1, CallTypes DEF FlightState
<1> QED
  BY <1>1, <1>2, <1>3, CallTypes DEF Join, OnlyFlight, OnlyCaller

LEMMA StartedFlight ==
  ASSUME CredTypeOK, NEW c \in Caller, StartFlight(c)
  PROVE \E f \in Flight :
          /\ current = NoFlight /\ flight[f].pc = "unused" /\ current' = f
          /\ OnlyFlight(f) /\ OnlyCaller(c)
          /\ flight'[f] = [NewFlight EXCEPT !.pc = Examined(store), !.snap = store,
                                   !.gen = generation, !.waiters = 1]
          /\ caller'[c] = Waiting(c, f)
<1>1. PICK f \in Flight :
          /\ flight[f].pc = "unused" /\ current' = f
          /\ flight' = [flight EXCEPT ![f] =
                 [NewFlight EXCEPT !.pc = Examined(store), !.snap = store,
                                   !.gen = generation, !.waiters = 1]]
          /\ caller' = [caller EXCEPT ![c] = Waiting(c, f)]
  BY DEF StartFlight
<1>2. Waiting(c, f) \in CallState
  BY WaitingType
<1>3. [NewFlight EXCEPT !.pc = Examined(store), !.snap = store,
                        !.gen = generation, !.waiters = 1] \in FlightState
  BY NewFlightType, CallTypes DEF FlightState, Examined, Results
<1> QED
  BY <1>1, <1>2, <1>3, CallTypes DEF StartFlight, OnlyFlight, OnlyCaller

Waiters(f) == {c \in Caller : caller[c].pc = "waiting" /\ caller[c].flight = f}

\* A flight counts its waiters, and a slot that is free has none.
Counted(f) ==
    /\ IsFiniteSet(Waiters(f))
    /\ flight[f].waiters = Cardinality(Waiters(f))
    /\ flight[f].pc = "unused" => flight[f] = NewFlight

\* The current flight has the profile as it is stored, and its grant is good.
CurrentOwns ==
    current # NoFlight =>
       /\ flight[current].pc \notin {"unused", "exited"}
       /\ ~flight[current].done /\ ~flight[current].superseded
       /\ flight[current].gen = generation
       /\ flight[current].snap.root = store.root
       /\ flight[current].snap.grant = store.grant
       /\ flight[current].pc \in {"asking", "answered"} =>
             flight[current].snap = store /\ store.fresh = FALSE
       /\ flight[current].pc = "answered" => granted[store.root] = store.grant + 1

\* Any other flight has settled or was superseded, and its callers know.
OthersKnow(f) ==
    f # current /\ flight[f].pc # "unused" =>
       /\ flight[f].done
       /\ flight[f].pc # "exited" => flight[f].superseded /\ flight[f].snap.root < writes

\* What a flight hands out goes back to a user's write, and is not ahead of the store.
Valued(f) ==
    /\ flight[f].pc = "answered" =>
          /\ flight[f].value.root = flight[f].snap.root
          /\ flight[f].value.grant = flight[f].snap.grant + 1
    /\ flight[f].res = "token" /\ ~flight[f].superseded =>
          /\ flight[f].value.root <= writes
          /\ flight[f].value.root = writes => flight[f].value.grant <= store.grant
    /\ flight[f].res # "none" => flight[f].pc = "exited"

\* Nor is what a call was handed, and it is not behind the call.
Since(c) ==
    /\ caller[c].pc = "waiting" =>
          /\ caller[c].flight \in Flight
          /\ caller[c].since <= writes /\ caller[c].tries < MaxTries
          /\ flight[caller[c].flight].res = "token" /\ ~flight[caller[c].flight].superseded =>
                caller[c].since <= flight[caller[c].flight].value.root
    /\ caller[c].res = "token" =>
          /\ caller[c].pc = "returned"
          /\ caller[c].since <= caller[c].token.root /\ caller[c].token.root <= writes
          /\ caller[c].token.root = writes => caller[c].token.grant <= store.grant

FlightInv == \A f \in Flight : Counted(f) /\ OthersKnow(f) /\ Valued(f)
CallInv == \A c \in Caller : Since(c)
CredInv == CredTypeOK /\ CurrentOwns /\ store.root = writes /\ GrantKept /\ FlightInv /\ CallInv

SameFields(f) ==
    /\ flight'[f].pc = flight[f].pc /\ flight'[f].snap = flight[f].snap
    /\ flight'[f].gen = flight[f].gen /\ flight'[f].done = flight[f].done
    /\ flight'[f].superseded = flight[f].superseded
    /\ flight'[f].value = flight[f].value /\ flight'[f].res = flight[f].res

LEMMA LeftFlight ==
  ASSUME CredTypeOK, NEW f \in Flight, flight[f].waiters \in Nat \ {0},
         flight' = Left(f) \/ (Last(f) /\ flight' = GivenUp(f))
  PROVE /\ OnlyFlight(f)
        /\ \/ flight'[f] = NewFlight /\ flight[f].pc = "exited" /\ flight[f].waiters = 1
           \/ SameFields(f) /\ flight'[f].waiters = flight[f].waiters - 1
<1>0. flight[f] \in FlightState
  BY CallTypes
<1>1. CASE flight' = Left(f)
  <2> DEFINE fl == [flight[f] EXCEPT !.waiters = @ - 1]
  <2>1. fl \in FlightState /\ fl.waiters = flight[f].waiters - 1 /\ fl.pc = flight[f].pc
        /\ fl.snap = flight[f].snap /\ fl.gen = flight[f].gen /\ fl.done = flight[f].done
        /\ fl.superseded = flight[f].superseded /\ fl.value = flight[f].value /\ fl.res = flight[f].res
    BY <1>0 DEF FlightState
  <2>2. flight' = [flight EXCEPT ![f] = Kept(fl)]
    BY <1>1 DEF Left
  <2>3. Kept(fl) \in FlightState
    BY <2>1, KeptType
  <2> HIDE DEF fl
  <2>4. flight'[f] = Kept(fl) /\ OnlyFlight(f)
    BY <2>2, <2>3, CallTypes DEF OnlyFlight
  <2>5. CASE fl.pc = "exited" /\ fl.waiters = 0
    BY <2>1, <2>4, <2>5 DEF Kept
  <2>6. CASE ~(fl.pc = "exited" /\ fl.waiters = 0)
    BY <2>1, <2>4, <2>6 DEF Kept, SameFields
  <2> QED
    BY <2>5, <2>6
<1>2. CASE Last(f) /\ flight' = GivenUp(f)
  <2>1. [flight[f] EXCEPT !.waiters = 0, !.abandoned = TRUE, !.cancelled = TRUE] \in FlightState
    BY <1>0 DEF FlightState
  <2>2. flight'[f] = [flight[f] EXCEPT !.waiters = 0, !.abandoned = TRUE, !.cancelled = TRUE]
        /\ OnlyFlight(f)
    BY <1>2, <2>1, CallTypes DEF GivenUp, OnlyFlight
  <2> QED
    BY <1>0, <1>2, <2>2 DEF Last, SameFields, FlightState
<1> QED
  BY <1>1, <1>2

LEMMA LeavesWait ==
  ASSUME CredInv, NEW c \in Caller, GiveUp(c) \/ Awake(c)
  PROVE LET f == caller[c].flight IN
        /\ caller[c].pc = "waiting" /\ f \in Flight /\ OnlyCaller(c)
        /\ caller'[c].pc \in {"acquire", "returned"}
        /\ flight[f].waiters \in Nat \ {0}
        /\ flight' = Left(f) \/ (Last(f) /\ flight' = GivenUp(f))
<1> DEFINE f == caller[c].flight
<1>1. caller[c].pc = "waiting" /\ f \in Flight /\ Counted(f)
  BY DEF GiveUp, Awake, CredInv, CallInv, FlightInv, Since
<1>2. flight[f].waiters \in Nat \ {0}
  <2>1. flight[f].waiters \in Nat
    BY <1>1, CallTypes DEF CredInv, FlightState
  <2>2. c \in Waiters(f)
    BY <1>1 DEF Waiters
  <2>3. Cardinality(Waiters(f)) # 0
    BY <1>1, <2>2, FS_EmptySet DEF Counted
  <2> QED
    BY <1>1, <2>1, <2>3 DEF Counted
<1>3. flight' = Left(f) \/ (Last(f) /\ flight' = GivenUp(f))
  BY DEF GiveUp, Awake
<1>4. OnlyCaller(c) /\ caller'[c].pc \in {"acquire", "returned"}
  <2>0. caller[c] \in CallState /\ flight[f] \in FlightState /\ ctxDone[c] \in BOOLEAN
    BY <1>1, CallTypes DEF CredInv, CredTypeOK
  <2>1. CASE caller' = [caller EXCEPT ![c] = CallAt("returned", "cancelled")]
    <3>1. CallAt("returned", "cancelled") \in CallState
      BY CallAtType
    <3> QED
      BY <2>1, <3>1, CallTypes DEF CredInv, OnlyCaller, CallAt
  <2>2. CASE Awake(c) /\ ~ctxDone[c] /\ (flight[f].superseded \/ flight[f].abandoned)
    <3>1. caller[c].tries + 1 \in 0..MaxTries
      BY <1>1, <2>0, CredentialsAssumption DEF CredInv, CallInv, Since, CallState
    <3>2. [CallAt("acquire", "none") EXCEPT !.tries = caller[c].tries + 1] \in CallState
      BY <3>1, CallAtType DEF CallState
    <3> QED
      BY <2>2, <3>2, CallTypes DEF CredInv, OnlyCaller, CallAt, Awake
  <2>3. CASE Awake(c) /\ ~ctxDone[c] /\ ~(flight[f].superseded \/ flight[f].abandoned)
    <3>1. [CallAt("returned", flight[f].res) EXCEPT !.token = flight[f].value,
                                                    !.since = caller[c].since] \in CallState
      BY <2>0, CallAtType DEF CallState, FlightState
    <3> QED
      BY <2>3, <3>1, CallTypes DEF CredInv, OnlyCaller, CallAt, Awake
  <2> QED
    BY <2>1, <2>2, <2>3 DEF GiveUp, Awake
<1> QED
  BY <1>1, <1>2, <1>3, <1>4

\* A step of the goroutine of f that ends it, and may free its slot.
Exits(f) ==
    \/ flight'[f] = NewFlight /\ flight[f].waiters = 0
    \/ /\ flight'[f].pc = "exited" /\ flight'[f].waiters = flight[f].waiters
       /\ flight'[f].snap = flight[f].snap /\ flight'[f].superseded = flight[f].superseded

LEMMA NextGrant ==
  ASSUME NEW s \in TokenSet
  PROVE LET v == [s EXCEPT !.grant = @ + 1, !.fresh = TRUE] IN
        v \in TokenSet /\ v.root = s.root /\ v.grant = s.grant + 1
<1>1. \A n \in Nat : LET v == [s EXCEPT !.grant = n, !.fresh = TRUE] IN
                      v \in TokenSet /\ v.root = s.root /\ v.grant = n
  BY DEF TokenSet
<1>2. s.grant + 1 \in Nat
  BY DEF TokenSet
<1> QED
  BY <1>1, <1>2

LEMMA SupersededFields ==
  ASSUME NEW fl \in FlightState
  PROVE LET r == [fl EXCEPT !.superseded = TRUE, !.cancelled = TRUE, !.done = TRUE] IN
        /\ r \in FlightState /\ r.waiters = fl.waiters /\ r.pc = fl.pc /\ r.snap = fl.snap
        /\ r.done = TRUE /\ r.superseded = TRUE /\ r.value = fl.value /\ r.res = fl.res
  BY DEF FlightState

LEMMA RefreshFlight ==
  ASSUME CredTypeOK, NEW f \in Flight, Refresh(f)
  PROVE /\ OnlyFlight(f) /\ flight'[f].waiters = flight[f].waiters
        /\ flight'[f].snap = flight[f].snap /\ flight'[f].gen = flight[f].gen
        /\ flight'[f].done = flight[f].done /\ flight'[f].superseded = flight[f].superseded
        /\ flight'[f].res = flight[f].res
        /\ IF granted[flight[f].snap.root] = flight[f].snap.grant
           THEN /\ flight'[f].pc = "answered"
                /\ flight'[f].value.root = flight[f].snap.root
                /\ flight'[f].value.grant = flight[f].snap.grant + 1
           ELSE flight'[f].pc = "login" /\ flight'[f].value = flight[f].value
<1>1. flight[f] \in FlightState /\ flight[f].snap \in TokenSet
  BY CallTypes DEF FlightState
<1> DEFINE s == flight[f].snap
           value == [s EXCEPT !.grant = @ + 1, !.fresh = TRUE]
<1>2. CASE granted[s.root] = s.grant
  <2>1. value \in TokenSet /\ value.root = s.root /\ value.grant = s.grant + 1
    BY <1>1, NextGrant
  <2>2. flight' = [flight EXCEPT ![f] = [@ EXCEPT !.pc = "answered", !.value = value]]
    BY <1>1, <1>2, CallTypes DEF Refresh, FlightState
  <2> HIDE DEF value
  <2>3. [flight[f] EXCEPT !.pc = "answered", !.value = value] \in FlightState
    BY <1>1, <2>1 DEF FlightState
  <2> QED
    BY <1>1, <1>2, <2>1, <2>2, <2>3, CallTypes DEF OnlyFlight, FlightState
<1>3. CASE granted[s.root] # s.grant
  <2>1. [flight[f] EXCEPT !.pc = "login"] \in FlightState
    BY <1>1 DEF FlightState, Results
  <2> QED
    BY <1>1, <1>3, <2>1, CallTypes DEF Refresh, OnlyFlight, FlightState
<1> QED
  BY <1>2, <1>3

LEMMA LostFlight ==
  ASSUME CredTypeOK, NEW f \in Flight, LoseResponse(f)
  PROVE /\ OnlyFlight(f) /\ flight'[f].waiters = flight[f].waiters /\ flight'[f].pc = "failed"
        /\ flight'[f].snap = flight[f].snap /\ flight'[f].gen = flight[f].gen
        /\ flight'[f].done = flight[f].done /\ flight'[f].superseded = flight[f].superseded
        /\ flight'[f].res = flight[f].res /\ flight'[f].value = flight[f].value
<1>1. flight[f] \in FlightState
  BY CallTypes
<1>2. [flight[f] EXCEPT !.pc = "failed"] \in FlightState
  BY <1>1 DEF FlightState, Results
<1> QED
  BY <1>1, <1>2, CallTypes DEF LoseResponse, OnlyFlight, FlightState

LEMMA StaleFlight ==
  ASSUME CredTypeOK, NEW f \in Flight, SettleStale(f)
  PROVE /\ OnlyFlight(f) /\ Exits(f)
        /\ flight'[f] = NewFlight
           \/ (/\ flight'[f].done = flight[f].done /\ flight'[f].res = flight[f].res
               /\ flight'[f].value = flight[f].value)
<1>1. flight[f] \in FlightState
  BY CallTypes
<1> DEFINE fl == [flight[f] EXCEPT !.pc = "exited"]
<1>2. /\ fl \in FlightState /\ fl.pc = "exited" /\ fl.waiters = flight[f].waiters
      /\ fl.snap = flight[f].snap /\ fl.superseded = flight[f].superseded
      /\ fl.done = flight[f].done /\ fl.res = flight[f].res /\ fl.value = flight[f].value
  BY <1>1 DEF FlightState
<1>3. flight' = [flight EXCEPT ![f] = Kept(fl)]
  BY DEF SettleStale
<1> HIDE DEF fl
<1>4. flight'[f] = Kept(fl) /\ OnlyFlight(f)
  BY <1>2, <1>3, KeptType, CallTypes DEF OnlyFlight
<1> QED
  BY <1>2, <1>4 DEF Kept, Exits

LEMMA SettledFlight ==
  ASSUME CredTypeOK, NEW f \in Flight, NEW res \in Results, NEW value \in TokenSet,
         flight' = Settled(f, res, value)
  PROVE /\ OnlyFlight(f) /\ Exits(f)
        /\ flight'[f] = NewFlight
           \/ (flight'[f].done = TRUE /\ flight'[f].res = res /\ flight'[f].value = value)
<1>1. flight[f] \in FlightState
  BY CallTypes
<1> DEFINE fl == [flight[f] EXCEPT !.pc = "exited", !.done = TRUE, !.res = res, !.value = value]
<1>2. /\ fl \in FlightState /\ fl.pc = "exited" /\ fl.waiters = flight[f].waiters
      /\ fl.snap = flight[f].snap /\ fl.superseded = flight[f].superseded
      /\ fl.done = TRUE /\ fl.res = res /\ fl.value = value
  BY <1>1 DEF FlightState
<1>3. flight' = [flight EXCEPT ![f] = Kept(fl)]
  BY DEF Settled
<1> HIDE DEF fl
<1>4. flight'[f] = Kept(fl) /\ OnlyFlight(f)
  BY <1>2, <1>3, KeptType, CallTypes DEF OnlyFlight
<1> QED
  BY <1>2, <1>4 DEF Kept, Exits

LEMMA Superseded ==
  ASSUME CredTypeOK, Invalidate
  PROVE /\ flight' \in [Flight -> FlightState]
        /\ \A g \in Flight \ {current} : flight'[g] = flight[g]
        /\ current # NoFlight =>
              /\ current \in Flight /\ flight'[current].waiters = flight[current].waiters
              /\ flight'[current].pc = flight[current].pc
              /\ flight'[current].snap = flight[current].snap
              /\ flight'[current].done = TRUE /\ flight'[current].superseded = TRUE
              /\ flight'[current].value = flight[current].value
              /\ flight'[current].res = flight[current].res
<1>1. \A g \in Flight : flight[g] \in FlightState
  BY CallTypes
<1>2. \A g \in Flight : 
        [flight[g] EXCEPT !.superseded = TRUE, !.cancelled = TRUE, !.done = TRUE] \in FlightState
  BY <1>1, SupersededFields
<1>3. flight' \in [Flight -> FlightState] /\ \A g \in Flight \ {current} : flight'[g] = flight[g]
  BY <1>1, <1>2 DEF Invalidate
<1>4. CASE current # NoFlight
  <2>1. current \in Flight /\ flight[current] \in FlightState
    BY <1>4, <1>1 DEF CredTypeOK
  <2>2. flight'[current] = 
              [flight[current] EXCEPT !.superseded = TRUE, !.cancelled = TRUE, !.done = TRUE]
    BY <2>1 DEF Invalidate
  <2> QED
    BY <1>3, <2>1, <2>2, SupersededFields
<1> QED
  BY <1>3, <1>4

LEMMA Enters ==
  ASSUME CredInv, NEW c \in Caller, NEW f \in Flight, OnlyCaller(c),
         caller[c].pc # "waiting", caller'[c].pc = "waiting", caller'[c].flight = f
  PROVE /\ IsFiniteSet(Waiters(f))' /\ Cardinality(Waiters(f))' = Cardinality(Waiters(f)) + 1
        /\ \A g \in Flight \ {f} : Waiters(g)' = Waiters(g)
<1>1. Waiters(f)' = Waiters(f) \cup {c} /\ c \notin Waiters(f)
  BY DEF Waiters, OnlyCaller
<1>2. IsFiniteSet(Waiters(f))
  BY DEF CredInv, FlightInv, Counted
<1>3. \A g \in Flight \ {f} : Waiters(g)' = Waiters(g)
  BY DEF Waiters, OnlyCaller
<1> QED
  BY <1>1, <1>2, <1>3, FS_AddElement

LEMMA Leaves ==
  ASSUME CredInv, NEW c \in Caller, NEW f \in Flight, OnlyCaller(c),
         caller[c].pc = "waiting", caller[c].flight = f, caller'[c].pc # "waiting"
  PROVE /\ IsFiniteSet(Waiters(f))' /\ Cardinality(Waiters(f))' = Cardinality(Waiters(f)) - 1
        /\ \A g \in Flight \ {f} : Waiters(g)' = Waiters(g)
<1>1. Waiters(f)' = Waiters(f) \ {c} /\ c \in Waiters(f)
  BY DEF Waiters, OnlyCaller
<1>2. IsFiniteSet(Waiters(f))
  BY DEF CredInv, FlightInv, Counted
<1>3. \A g \in Flight \ {f} : Waiters(g)' = Waiters(g)
  BY DEF Waiters, OnlyCaller
<1> QED
  BY <1>1, <1>2, <1>3, FS_RemoveElement

LEMMA Stays ==
  ASSUME NEW c \in Caller, OnlyCaller(c), caller[c].pc # "waiting", caller'[c].pc # "waiting"
  PROVE \A g \in Flight : Waiters(g)' = Waiters(g)
  BY DEF Waiters, OnlyCaller

\* Nobody waits for a slot that is free.
LEMMA NoWaiters ==
  ASSUME CredInv, NEW f \in Flight, flight[f].waiters = 0
  PROVE \A c \in Caller : caller[c].pc = "waiting" => caller[c].flight # f
<1>1. IsFiniteSet(Waiters(f)) /\ Cardinality(Waiters(f)) = 0
  BY DEF CredInv, FlightInv, Counted
<1>2. Waiters(f) = {}
  BY <1>1, FS_EmptySet
<1> QED
  BY <1>2 DEF Waiters

\* The rest of the state, which the invariant only types.
Apart == <<login, attempt, logins, configVars, ctxDone, budget>>
ApartTyped ==
    /\ login \in Login \cup {NoLogin}
    /\ attempt \in [Login -> [pc : {"new", "open", "approved", "closed"},
                              done : BOOLEAN, before : Nat]]
    /\ logins \in Nat /\ profile \in Nat /\ locus \in Nat /\ edited \in BOOLEAN
    /\ ctxDone \in [Caller -> BOOLEAN]
    /\ budget \in [{"expiry", "write", "fault", "edit"} -> Nat]

LEMMA ApartStays ==
  ASSUME CredTypeOK, UNCHANGED Apart PROVE ApartTyped'
  BY DEF CredTypeOK, ApartTyped, Apart, configVars

LEMMA Spent ==
  ASSUME CredTypeOK, NEW what \in {"expiry", "write", "fault", "edit"}, Spend(what)
  PROVE budget' \in [{"expiry", "write", "fault", "edit"} -> Nat]
<1>1. budget \in [{"expiry", "write", "fault", "edit"} -> Nat]
  BY DEF CredTypeOK
<1>2. budget[what] - 1 \in Nat
  BY <1>1 DEF Spend
<1> QED
  BY <1>1, <1>2 DEF Spend

LEMMA TypeFrom ==
  ASSUME CredTypeOK, ApartTyped', flight' \in [Flight -> FlightState],
         caller' \in [Caller -> CallState], store' \in TokenSet, generation' \in Nat,
         current' \in Flight \cup {NoFlight}, writes' \in Nat,
         granted' \in [0..writes' -> Nat], lost' \subseteq Nat \X Nat
  PROVE CredTypeOK'
  BY DEF CredTypeOK, ApartTyped

\* A call starts over, or returns without a token.
Resets(c) ==
    /\ caller[c].pc # "waiting"
    /\ \E pc \in {"idle", "acquire", "returned"}, res \in {"none", "cancelled", "replaced"} :
          caller' = [caller EXCEPT ![c] = CallAt(pc, res)]

LEMMA KeepsReset ==
  ASSUME CredInv, NEW c \in Caller, Resets(c), UNCHANGED <<profileVars, granted, historyVars>>,
         ApartTyped'
  PROVE CredInv'
<1>1. PICK pc \in {"idle", "acquire", "returned"}, res \in {"none", "cancelled", "replaced"} :
          caller' = [caller EXCEPT ![c] = CallAt(pc, res)]
  BY DEF Resets
<1>2. CallAt(pc, res) \in CallState
  BY CallAtType
<1>3. OnlyCaller(c) /\ caller'[c] = CallAt(pc, res)
  BY <1>1, <1>2, CallTypes DEF CredInv, OnlyCaller
<1>4. caller'[c].pc # "waiting" /\ caller'[c].res # "token"
  BY <1>3 DEF CallAt
<1>5. \A g \in Flight : Waiters(g)' = Waiters(g)
  BY <1>3, <1>4, Stays DEF Resets
<1>6. CredTypeOK'
  BY <1>3, TypeFrom DEF OnlyCaller, CredInv, CredTypeOK, profileVars, historyVars
<1>7. \A g \in Flight : Counted(g)' /\ OthersKnow(g)' /\ Valued(g)'
  BY <1>5 DEF CredInv, FlightInv, Counted, OthersKnow, Valued, profileVars, historyVars
<1>8. \A d \in Caller : Since(d)'
  BY <1>3, <1>4 DEF CredInv, CallInv, Since, OnlyCaller, profileVars, historyVars
<1>9. CurrentOwns' /\ store'.root = writes' /\ GrantKept'
  BY DEF CredInv, CurrentOwns, GrantKept, Grant, profileVars, historyVars
<1> QED
  BY <1>6, <1>7, <1>8, <1>9 DEF CredInv, FlightInv, CallInv

\* Nothing the invariant is about changes.
LEMMA KeepsRest ==
  ASSUME CredInv, UNCHANGED <<profileVars, caller, granted, historyVars>>, ApartTyped'
  PROVE CredInv'
<1>1. \A g \in Flight : Waiters(g)' = Waiters(g)
  BY DEF Waiters
<1>2. CredTypeOK'
  BY TypeFrom DEF CredInv, CredTypeOK, profileVars, historyVars
<1>3. \A g \in Flight : Counted(g)' /\ OthersKnow(g)' /\ Valued(g)'
  BY <1>1 DEF CredInv, FlightInv, Counted, OthersKnow, Valued, profileVars, historyVars
<1>4. \A d \in Caller : Since(d)'
  BY DEF CredInv, CallInv, Since, profileVars, historyVars
<1>5. CurrentOwns' /\ store'.root = writes' /\ GrantKept'
  BY DEF CredInv, CurrentOwns, GrantKept, Grant, profileVars, historyVars
<1> QED
  BY <1>2, <1>3, <1>4, <1>5 DEF CredInv, FlightInv, CallInv

LEMMA KeepsJoin ==
  ASSUME CredInv, NEW c \in Caller, Join(c) PROVE CredInv'
<1>0. CredTypeOK /\ CurrentOwns /\ FlightInv /\ CallInv
  BY DEF CredInv
<1>1. PICK f \in Flight : 
      /\ f = current /\ OnlyFlight(f) /\ OnlyCaller(c)
      /\ flight'[f] = [flight[f] EXCEPT !.waiters = @ + 1]
      /\ caller'[c] = Waiting(c, f)
  BY <1>0, JoinFlight
<1>2. flight[f] \in FlightState /\ caller[c] \in CallState /\ writes \in Nat
  BY <1>0, <1>1, CallTypes
<1>3. SameFields(f) /\ flight'[f].waiters = flight[f].waiters + 1
  BY <1>1, <1>2 DEF SameFields, FlightState
<1>4. /\ caller'[c].pc = "waiting" /\ caller'[c].flight = f /\ caller'[c].since = writes
      /\ caller'[c].tries = caller[c].tries /\ caller'[c].res = caller[c].res
      /\ caller'[c].token = caller[c].token
  BY <1>1, <1>2 DEF Waiting, CallState
<1>5. caller[c].pc = "acquire" /\ caller[c].tries < MaxTries
  BY DEF Join, Acquiring
<1>6. UNCHANGED <<store, generation, current, granted, writes, lost>> /\ UNCHANGED Apart
  BY DEF Join, Apart, historyVars, loginVars
<1>7. CredTypeOK'
  BY <1>0, <1>1, <1>6, ApartStays, TypeFrom DEF OnlyCaller, OnlyFlight, CredTypeOK
<1>8. /\ flight[f].pc \notin {"unused", "exited"} /\ flight[f].res # "token"
      /\ flight[f].snap.root = writes
  BY <1>0, <1>1, Slots DEF CredInv, CurrentOwns, FlightInv, Valued
<1>9. ASSUME NEW g \in Flight PROVE Counted(g)' /\ OthersKnow(g)' /\ Valued(g)'
  <2>1. Counted(g) /\ OthersKnow(g) /\ Valued(g)
    BY <1>0 DEF FlightInv
  <2>2. CASE g = f
    <3>1. IsFiniteSet(Waiters(f))' /\ Cardinality(Waiters(f))' = Cardinality(Waiters(f)) + 1
      BY <1>1, <1>4, <1>5, Enters
    <3>2. Counted(g)'
      BY <1>3, <1>8, <2>1, <2>2, <3>1 DEF Counted, SameFields
    <3>3. OthersKnow(g)' /\ Valued(g)'
      BY <1>1, <1>3, <1>6, <1>8, <2>1, <2>2 DEF OthersKnow, Valued, SameFields
    <3> QED
      BY <3>2, <3>3
  <2>3. CASE g # f
    <3>1. Waiters(g)' = Waiters(g)
      BY <1>1, <1>4, <1>5, <2>3, Enters
    <3>2. flight'[g] = flight[g]
      BY <1>1, <2>3 DEF OnlyFlight
    <3> QED
      BY <1>1, <1>6, <2>1, <3>1, <3>2 DEF Counted, OthersKnow, Valued
  <2> QED
    BY <2>2, <2>3
<1>10. ASSUME NEW d \in Caller PROVE Since(d)'
  <2>1. \A g \in Flight : flight'[g].res = flight[g].res /\ flight'[g].value = flight[g].value
          /\ flight'[g].superseded = flight[g].superseded
    BY <1>1, <1>3 DEF OnlyFlight, SameFields
  <2>2. CASE d = c
    BY <1>0, <1>2, <1>4, <1>5, <1>6, <1>8, <2>1, <2>2 DEF CallInv, Since
  <2>3. CASE d # c
    BY <1>0, <1>1, <1>6, <2>1, <2>3 DEF CallInv, Since, OnlyCaller
  <2> QED
    BY <2>2, <2>3
<1>11. CurrentOwns'
  BY <1>0, <1>1, <1>3, <1>6 DEF CurrentOwns, SameFields
<1>12. GrantKept' /\ store'.root = writes'
  BY <1>1, <1>3, <1>6 DEF CredInv, GrantKept, Grant, SameFields
<1> QED
  BY <1>7, <1>9, <1>10, <1>11, <1>12 DEF CredInv, FlightInv, CallInv

LEMMA KeepsStart ==
  ASSUME CredInv, NEW c \in Caller, StartFlight(c) PROVE CredInv'
<1>0. CredTypeOK /\ CurrentOwns /\ FlightInv /\ CallInv
  BY DEF CredInv
<1>1. PICK f \in Flight :
          /\ current = NoFlight /\ flight[f].pc = "unused" /\ current' = f
          /\ OnlyFlight(f) /\ OnlyCaller(c)
          /\ flight'[f] = [NewFlight EXCEPT !.pc = Examined(store), !.snap = store,
                                   !.gen = generation, !.waiters = 1]
          /\ caller'[c] = Waiting(c, f)
  BY <1>0, StartedFlight
<1>2. store \in TokenSet /\ caller[c] \in CallState /\ writes \in Nat /\ generation \in Nat
  BY <1>0, <1>1, CallTypes
<1>3. /\ flight'[f].waiters = 1 /\ flight'[f].pc = Examined(store) /\ flight'[f].snap = store
      /\ flight'[f].gen = generation /\ flight'[f].done = FALSE /\ flight'[f].superseded = FALSE
      /\ flight'[f].res = "none"
  BY <1>1, <1>2, NewFlightType DEF NewFlight
<1>4. /\ caller'[c].pc = "waiting" /\ caller'[c].flight = f /\ caller'[c].since = writes
      /\ caller'[c].tries = caller[c].tries /\ caller'[c].res = caller[c].res
      /\ caller'[c].token = caller[c].token
  BY <1>1, <1>2 DEF Waiting, CallState
<1>5. caller[c].pc = "acquire" /\ caller[c].tries < MaxTries
  BY DEF StartFlight, Acquiring
<1>6. UNCHANGED <<store, generation, granted, writes, lost>> /\ UNCHANGED Apart
  BY DEF StartFlight, Apart, historyVars, loginVars
<1>7. CredTypeOK'
  BY <1>0, <1>1, <1>6, ApartStays, TypeFrom DEF OnlyCaller, OnlyFlight, CredTypeOK
<1>8. flight[f] = NewFlight /\ flight[f].waiters = 0
  <2>1. flight[f] = NewFlight
    BY <1>0, <1>1 DEF FlightInv, Counted
  <2> QED
    BY <2>1 DEF NewFlight
<1>9. ASSUME NEW g \in Flight PROVE Counted(g)' /\ OthersKnow(g)' /\ Valued(g)'
  <2>1. Counted(g) /\ OthersKnow(g) /\ Valued(g)
    BY <1>0 DEF FlightInv
  <2>2. CASE g = f
    <3>1. IsFiniteSet(Waiters(f))' /\ Cardinality(Waiters(f))' = Cardinality(Waiters(f)) + 1
      BY <1>1, <1>4, <1>5, Enters
    <3>2. Counted(g)'
      BY <1>3, <1>8, <2>1, <2>2, <3>1 DEF Counted, Examined
    <3>3. OthersKnow(g)' /\ Valued(g)'
      BY <1>1, <1>3, <1>6, <2>1, <2>2 DEF OthersKnow, Valued, Examined
    <3> QED
      BY <3>2, <3>3
  <2>3. CASE g # f
    <3>1. Waiters(g)' = Waiters(g)
      BY <1>1, <1>4, <1>5, <2>3, Enters
    <3>2. flight'[g] = flight[g]
      BY <1>1, <2>3 DEF OnlyFlight
    <3> QED
      BY <1>1, <1>6, <2>1, <3>1, <3>2, Slots DEF Counted, OthersKnow, Valued
  <2> QED
    BY <2>2, <2>3
<1>10. ASSUME NEW d \in Caller PROVE Since(d)'
  <2>1. CASE d = c
    BY <1>0, <1>2, <1>3, <1>4, <1>5, <1>6, <2>1 DEF CallInv, Since
  <2>2. CASE d # c
    <3>1. caller[d].pc = "waiting" => caller[d].flight # f
      BY <1>8, NoWaiters
    <3> QED
      BY <1>0, <1>1, <1>6, <2>2, <3>1 DEF CallInv, Since, OnlyCaller, OnlyFlight
  <2> QED
    BY <2>1, <2>2
<1>11. CurrentOwns'
  BY <1>1, <1>2, <1>3, <1>6 DEF CurrentOwns, Examined, TokenSet
<1>12. GrantKept' /\ store'.root = writes'
  BY <1>1, <1>6 DEF CredInv, GrantKept, Grant
<1> QED
  BY <1>7, <1>9, <1>10, <1>11, <1>12 DEF CredInv, FlightInv, CallInv

LEMMA KeepsLeave ==
  ASSUME CredInv, NEW c \in Caller, GiveUp(c) \/ Awake(c) PROVE CredInv'
<1>0. CredTypeOK /\ CurrentOwns /\ FlightInv /\ CallInv
  BY DEF CredInv
<1>1. PICK f \in Flight :
        /\ caller[c].flight = f
        /\ caller[c].pc = "waiting" /\ OnlyCaller(c)
        /\ caller'[c].pc \in {"acquire", "returned"}
        /\ flight[f].waiters \in Nat \ {0}
        /\ flight' = Left(f) \/ (Last(f) /\ flight' = GivenUp(f))
  BY LeavesWait
<1>2. /\ OnlyFlight(f)
      /\ \/ flight'[f] = NewFlight /\ flight[f].pc = "exited" /\ flight[f].waiters = 1
         \/ SameFields(f) /\ flight'[f].waiters = flight[f].waiters - 1
  BY <1>0, <1>1, LeftFlight
<1>3. UNCHANGED <<store, generation, current, granted, writes, lost>> /\ UNCHANGED Apart
  BY DEF GiveUp, Awake, Apart, historyVars, loginVars
<1>4. CredTypeOK'
  BY <1>0, <1>1, <1>2, <1>3, ApartStays, TypeFrom DEF OnlyCaller, OnlyFlight, CredTypeOK
<1>5. /\ IsFiniteSet(Waiters(f))' /\ Cardinality(Waiters(f))' = Cardinality(Waiters(f)) - 1
      /\ \A g \in Flight \ {f} : Waiters(g)' = Waiters(g)
  BY <1>1, Leaves
<1>6. ASSUME NEW g \in Flight PROVE Counted(g)' /\ OthersKnow(g)' /\ Valued(g)'
  <2>1. Counted(g) /\ OthersKnow(g) /\ Valued(g)
    BY <1>0 DEF FlightInv
  <2>2. CASE g = f /\ flight'[f] = NewFlight
    <3>1. /\ flight'[f].pc = "unused" /\ flight'[f].waiters = 0 /\ flight'[f].res = "none"
      BY <2>2 DEF NewFlight
    <3>2. flight[f].waiters = 1
      BY <1>2, <2>1, <2>2, <3>1 DEF SameFields, Counted
    <3> QED
      BY <1>5, <2>1, <2>2, <3>1, <3>2 DEF Counted, OthersKnow, Valued
  <2>3. CASE g = f /\ flight'[f] # NewFlight
    <3>1. SameFields(f) /\ flight'[f].waiters = flight[f].waiters - 1
      BY <1>2, <2>3
    <3>2. flight[f].pc # "unused"
      BY <1>1, <2>1, <2>3 DEF Counted, NewFlight
    <3> QED
      BY <1>3, <1>5, <2>1, <2>3, <3>1, <3>2 DEF Counted, OthersKnow, Valued, SameFields
  <2>4. CASE g # f
    <3>1. flight'[g] = flight[g]
      BY <1>2, <2>4 DEF OnlyFlight
    <3> QED
      BY <1>3, <1>5, <2>1, <2>4, <3>1 DEF Counted, OthersKnow, Valued
  <2> QED
    BY <2>2, <2>3, <2>4
<1>7. ASSUME NEW d \in Caller PROVE Since(d)'
  <2>1. CASE d # c
    <3>1. ASSUME caller[d].pc = "waiting" PROVE
             flight'[caller[d].flight].res = "token" /\ ~flight'[caller[d].flight].superseded
               => caller[d].since <= flight'[caller[d].flight].value.root
      BY <1>0, <1>2, <3>1 DEF CallInv, Since, OnlyFlight, SameFields, NewFlight
    <3> QED
      BY <1>0, <1>1, <1>3, <2>1, <3>1 DEF CallInv, Since, OnlyCaller
  <2>2. CASE d = c
    <3>1. CASE caller' = [caller EXCEPT ![c] = CallAt("returned", "cancelled")]
      BY <1>0, <2>2, <3>1, CallTypes DEF Since, CallAt
    <3>2. CASE Awake(c) /\ ~ctxDone[c] /\ (flight[f].superseded \/ flight[f].abandoned)
      BY <1>0, <1>1, <2>2, <3>2, CallTypes DEF Since, CallAt, Awake
    <3>3. CASE Awake(c) /\ ~ctxDone[c] /\ ~(flight[f].superseded \/ flight[f].abandoned)
      <4>1. caller' = [caller EXCEPT ![c] = [CallAt("returned", flight[f].res) EXCEPT
                            !.token = flight[f].value, !.since = caller[c].since]]
        BY <1>1, <3>3 DEF Awake
      <4>2. /\ caller'[c].pc = "returned" /\ caller'[c].res = flight[f].res
            /\ caller'[c].token = flight[f].value /\ caller'[c].since = caller[c].since
        BY <1>0, <4>1, CallTypes DEF CallAt
      <4>3. Valued(f) /\ Since(c) /\ ~flight[f].superseded
        BY <1>0, <3>3 DEF FlightInv, CallInv
      <4> QED
        BY <1>1, <1>3, <2>2, <4>2, <4>3 DEF Since, Valued
    <3> QED
      BY <1>1, <3>1, <3>2, <3>3 DEF GiveUp, Awake
  <2> QED
    BY <2>1, <2>2
<1>8. current = f => SameFields(f)
  BY <1>0, <1>1, <1>2, Slots DEF CurrentOwns
<1>9. CurrentOwns'
  BY <1>0, <1>2, <1>3, <1>8 DEF CurrentOwns, SameFields, OnlyFlight, CredTypeOK
<1>10. GrantKept' /\ store'.root = writes'
  <2>1. current # NoFlight => flight'[current].pc = flight[current].pc
                              /\ flight'[current].snap = flight[current].snap
    BY <1>0, <1>2, <1>8 DEF SameFields, OnlyFlight, CredTypeOK
  <2> QED
    BY <1>3, <2>1 DEF CredInv, GrantKept, Grant
<1> QED
  BY <1>4, <1>6, <1>7, <1>9, <1>10 DEF CredInv, FlightInv, CallInv

LEMMA KeepsRefresh ==
  ASSUME CredInv, NEW f \in Flight, Refresh(f) PROVE CredInv'
<1>0. CredTypeOK /\ CurrentOwns /\ FlightInv /\ CallInv /\ store.root = writes
  BY DEF CredInv
<1>1. /\ OnlyFlight(f) /\ flight'[f].waiters = flight[f].waiters
      /\ flight'[f].snap = flight[f].snap /\ flight'[f].gen = flight[f].gen
      /\ flight'[f].done = flight[f].done /\ flight'[f].superseded = flight[f].superseded
      /\ flight'[f].res = flight[f].res
      /\ IF granted[flight[f].snap.root] = flight[f].snap.grant
         THEN /\ flight'[f].pc = "answered"
              /\ flight'[f].value.root = flight[f].snap.root
              /\ flight'[f].value.grant = flight[f].snap.grant + 1
         ELSE flight'[f].pc = "login" /\ flight'[f].value = flight[f].value
  BY <1>0, RefreshFlight
<1>2. flight[f].pc = "asking" /\ flight[f].res = "none"
  BY <1>0 DEF Refresh, FlightInv, Valued
<1>3. UNCHANGED <<store, generation, current, caller, writes, lost>> /\ UNCHANGED Apart
  BY DEF Refresh, Apart, historyVars, loginVars, callVars
<1>4. /\ granted \in [0..writes -> Nat]
      /\ IF granted[flight[f].snap.root] = flight[f].snap.grant
         THEN granted' = [granted EXCEPT ![flight[f].snap.root] = @ + 1]
         ELSE granted' = granted
  BY <1>0 DEF Refresh, CredTypeOK
<1>5. granted' \in [0..writes -> Nat]
  BY <1>4
<1>6. CredTypeOK'
  BY <1>0, <1>1, <1>3, <1>5, ApartStays, TypeFrom DEF OnlyFlight, CredTypeOK
<1>7. ASSUME NEW g \in Flight PROVE Counted(g)' /\ OthersKnow(g)' /\ Valued(g)'
  <2>1. Counted(g) /\ OthersKnow(g) /\ Valued(g) /\ Waiters(g)' = Waiters(g)
    BY <1>0, <1>3 DEF FlightInv, Waiters
  <2>2. CASE g = f
    BY <1>1, <1>2, <1>3, <2>1, <2>2 DEF Counted, OthersKnow, Valued
  <2>3. CASE g # f
    BY <1>1, <1>3, <2>1, <2>3 DEF Counted, OthersKnow, Valued, OnlyFlight
  <2> QED
    BY <2>2, <2>3
<1>8. ASSUME NEW d \in Caller PROVE Since(d)'
  BY <1>0, <1>1, <1>2, <1>3 DEF CallInv, Since, OnlyFlight
<1>9. CASE current = f
  <2>1. flight[f].snap = store /\ store.fresh = FALSE
    BY <1>0, <1>2, <1>9, Slots DEF CurrentOwns
  <2>2. store.root \in 0..writes
    BY <1>0, CallTypes
  <2>3. ASSUME granted[store.root] = store.grant PROVE CurrentOwns' /\ GrantKept'
    <3>1. granted'[store.root] = store.grant + 1
      BY <1>4, <2>1, <2>2, <2>3
    <3>2. flight'[f].pc = "answered"
      BY <1>1, <2>1, <2>3
    <3> QED
      BY <1>0, <1>1, <1>3, <1>9, <2>1, <3>1, <3>2, Slots DEF CurrentOwns, GrantKept
  <2>4. ASSUME granted[store.root] # store.grant PROVE CurrentOwns' /\ GrantKept'
    <3>1. granted' = granted /\ flight'[f].pc = "login"
      BY <1>1, <1>4, <2>1, <2>4
    <3> QED
      BY <1>0, <1>1, <1>2, <1>3, <1>9, <2>1, <2>4, <3>1 DEF CredInv, CurrentOwns, GrantKept, Grant
  <2>5. CurrentOwns' /\ GrantKept'
    BY <2>3, <2>4
  <2> QED
    BY <1>0, <1>3, <1>6, <1>7, <1>8, <2>5 DEF CredInv, FlightInv, CallInv
<1>10. CASE current # f
  <2>1. flight[f].snap.root < writes
    BY <1>0, <1>2, <1>10 DEF FlightInv, OthersKnow
  <2>2. granted'[store.root] = granted[store.root]
    BY <1>0, <1>4, <2>1, CallTypes
  <2>3. current # NoFlight => flight'[current] = flight[current]
    BY <1>0, <1>1, <1>10 DEF OnlyFlight, CredTypeOK
  <2>4. CurrentOwns' /\ GrantKept'
    BY <1>0, <1>3, <2>2, <2>3 DEF CredInv, CurrentOwns, GrantKept, Grant
  <2> QED
    BY <1>0, <1>3, <1>6, <1>7, <1>8, <2>4 DEF CredInv, FlightInv, CallInv
<1> QED
  BY <1>9, <1>10

LEMMA KeepsLose ==
  ASSUME CredInv, NEW f \in Flight, LoseResponse(f) PROVE CredInv'
<1>0. CredTypeOK /\ CurrentOwns /\ FlightInv /\ CallInv /\ store.root = writes
  BY DEF CredInv
<1>1. /\ OnlyFlight(f) /\ flight'[f].waiters = flight[f].waiters /\ flight'[f].pc = "failed"
      /\ flight'[f].snap = flight[f].snap /\ flight'[f].gen = flight[f].gen
      /\ flight'[f].done = flight[f].done /\ flight'[f].superseded = flight[f].superseded
      /\ flight'[f].res = flight[f].res /\ flight'[f].value = flight[f].value
  BY <1>0, LostFlight
<1>2. flight[f].pc \in {"asking", "answered"}
      /\ lost' = IF flight[f].pc = "answered" THEN lost \cup {Grant(flight[f].snap)} ELSE lost
  BY DEF LoseResponse
<1>3. UNCHANGED <<store, generation, current, caller, writes, granted>>
  BY DEF LoseResponse, callVars
<1>4. ApartTyped'
  <2>1. UNCHANGED <<login, attempt, logins, configVars, ctxDone>>
    BY DEF LoseResponse, loginVars, callVars
  <2>2. budget' \in [{"expiry", "write", "fault", "edit"} -> Nat]
    BY <1>0, Spent DEF LoseResponse, CredTypeOK
  <2> QED
    BY <1>0, <2>1, <2>2 DEF ApartTyped, CredTypeOK, configVars
<1>5. lost' \subseteq Nat \X Nat
  <2>1. flight[f].snap.root \in Nat /\ flight[f].snap.grant \in Nat
    BY <1>0, CallTypes DEF FlightState, TokenSet
  <2> QED
    BY <1>0, <1>2, <2>1 DEF CredTypeOK, Grant
<1>6. CredTypeOK'
  BY <1>0, <1>1, <1>3, <1>4, <1>5, TypeFrom DEF OnlyFlight, CredTypeOK
<1>7. ASSUME NEW g \in Flight PROVE Counted(g)' /\ OthersKnow(g)' /\ Valued(g)'
  <2>1. Counted(g) /\ OthersKnow(g) /\ Valued(g) /\ Waiters(g)' = Waiters(g)
    BY <1>0, <1>3 DEF FlightInv, Waiters
  <2>2. CASE g = f
    BY <1>1, <1>2, <1>3, <2>1, <2>2 DEF Counted, OthersKnow, Valued
  <2>3. CASE g # f
    BY <1>1, <1>3, <2>1, <2>3 DEF Counted, OthersKnow, Valued, OnlyFlight
  <2> QED
    BY <2>2, <2>3
<1>8. ASSUME NEW d \in Caller PROVE Since(d)'
  BY <1>0, <1>1, <1>2, <1>3 DEF CallInv, Since, OnlyFlight
<1>9. CurrentOwns' /\ GrantKept'
  <2>1. CASE current = f
    BY <1>0, <1>1, <1>2, <1>3, <2>1, Slots DEF CredInv, CurrentOwns, GrantKept, Grant
  <2>2. CASE current # f
    <3>1. current # NoFlight => flight'[current] = flight[current]
      BY <1>0, <1>1, <2>2 DEF OnlyFlight, CredTypeOK
    <3> QED
      BY <1>0, <1>2, <1>3, <3>1 DEF CredInv, CurrentOwns, GrantKept, Grant
  <2> QED
    BY <2>1, <2>2
<1> QED
  BY <1>0, <1>3, <1>6, <1>7, <1>8, <1>9 DEF CredInv, FlightInv, CallInv

\* What a flight that exits leaves to the others, whatever it does to the store.
LEMMA AfterExit ==
  ASSUME CredInv, NEW f \in Flight, OnlyFlight(f), Exits(f), UNCHANGED <<caller, writes>>,
         flight[f].pc # "unused",
         current' = current \/ current' = NoFlight, current # f => current' = current,
         store'.root = writes, store'.grant >= store.grant, store' \in TokenSet,
         current' # f,
         \/ flight'[f] = NewFlight
         \/ /\ flight'[f].done = TRUE
            /\ flight'[f].res = "token" /\ ~flight'[f].superseded =>
                  /\ flight'[f].value.root = writes /\ flight'[f].value.grant <= store'.grant
  PROVE /\ \A g \in Flight : Counted(g)' /\ OthersKnow(g)' /\ Valued(g)'
        /\ \A d \in Caller : Since(d)'
<1>0. CredTypeOK /\ FlightInv /\ CallInv /\ store.root = writes
  BY DEF CredInv
<1>1. /\ store.grant \in Nat /\ store'.grant \in Nat /\ writes \in Nat
      /\ \A g \in Flight : flight[g].value.grant \in Nat
      /\ \A d \in Caller : caller[d].token.grant \in Nat /\ caller[d].since \in Nat
  BY <1>0, CallTypes DEF TokenSet, FlightState, CallState
<1>2. ASSUME NEW g \in Flight PROVE Counted(g)' /\ OthersKnow(g)' /\ Valued(g)'
  <2>1. Counted(g) /\ OthersKnow(g) /\ Valued(g) /\ Waiters(g)' = Waiters(g)
    BY <1>0 DEF FlightInv, Waiters
  <2>2. CASE g = f /\ flight'[f] = NewFlight
    <3>1. flight'[f].pc = "unused" /\ flight'[f].waiters = 0 /\ flight'[f].res = "none"
      BY <2>2 DEF NewFlight
    <3>2. flight[f].waiters = 0
      BY <2>2, <3>1 DEF Exits
    <3> QED
      BY <2>1, <2>2, <3>1, <3>2 DEF Counted, OthersKnow, Valued
  <2>3. CASE g = f /\ flight'[f] # NewFlight
    <3>1. /\ flight'[f].pc = "exited" /\ flight'[f].waiters = flight[f].waiters
          /\ flight'[f].done = TRUE
          /\ flight'[f].res = "token" /\ ~flight'[f].superseded =>
                flight'[f].value.root = writes /\ flight'[f].value.grant <= store'.grant
      BY <2>3 DEF Exits
    <3> QED
      BY <1>1, <2>1, <2>3, <3>1 DEF Counted, OthersKnow, Valued
  <2>4. CASE g # f
    <3>1. flight'[g] = flight[g] /\ (g # current' <=> g # current)
      BY <2>4, Slots DEF OnlyFlight
    <3> QED
      BY <1>1, <2>1, <3>1 DEF Counted, OthersKnow, Valued
  <2> QED
    BY <2>2, <2>3, <2>4
<1>3. ASSUME NEW d \in Caller PROVE Since(d)'
  <2>1. Since(d)
    BY <1>0 DEF CallInv
  <2>2. ASSUME caller[d].pc = "waiting", caller[d].flight = f
        PROVE flight'[f].res = "token" /\ ~flight'[f].superseded => caller[d].since <= flight'[f].value.root
    <3>1. flight[f].waiters # 0
      BY <2>2, NoWaiters
    <3>2. flight'[f] # NewFlight
      BY <3>1 DEF Exits, NewFlight
    <3> QED
      BY <2>1, <2>2, <3>2 DEF Since
  <2>3. ASSUME caller[d].pc = "waiting", caller[d].flight # f
        PROVE flight'[caller[d].flight] = flight[caller[d].flight]
    BY <2>1, <2>3 DEF Since, OnlyFlight
  <2> QED
    BY <1>1, <2>1, <2>2, <2>3 DEF Since
<1> QED
  BY <1>2, <1>3

\* A flight that no longer owns the profile was superseded, and no token of it is passed on.
LEMMA KeepsStale ==
  ASSUME CredInv, NEW f \in Flight, SettleStale(f) PROVE CredInv'
<1>0. CredTypeOK /\ CurrentOwns /\ FlightInv /\ CallInv /\ store.root = writes
  BY DEF CredInv
<1>1. /\ OnlyFlight(f) /\ Exits(f)
      /\ flight'[f] = NewFlight
         \/ (/\ flight'[f].done = flight[f].done /\ flight'[f].res = flight[f].res
             /\ flight'[f].value = flight[f].value)
  BY <1>0, StaleFlight
<1>2. flight[f].pc \notin {"unused", "exited"} /\ current # f
  BY <1>0, Slots DEF SettleStale, Resolved, Results, CurrentOwns
<1>3. /\ flight[f].done = TRUE /\ flight[f].superseded = TRUE /\ flight[f].res = "none"
  <2>1. OthersKnow(f) /\ Valued(f) /\ flight[f] \in FlightState
    BY <1>0, CallTypes DEF FlightInv
  <2> QED
    BY <1>2, <2>1 DEF OthersKnow, Valued, FlightState
<1>4. UNCHANGED <<store, generation, current, caller, writes, granted, lost>> /\ UNCHANGED Apart
  BY DEF SettleStale, Apart, historyVars, loginVars, callVars
<1>5. CredTypeOK'
  BY <1>0, <1>1, <1>4, ApartStays, TypeFrom DEF OnlyFlight, CredTypeOK
<1>6. /\ \A g \in Flight : Counted(g)' /\ OthersKnow(g)' /\ Valued(g)'
      /\ \A d \in Caller : Since(d)'
  <2>1. store.grant \in Nat /\ store \in TokenSet
    BY <1>0, CallTypes DEF TokenSet
  <2>2. \/ flight'[f] = NewFlight
        \/ /\ flight'[f].done = TRUE
           /\ flight'[f].res = "token" /\ ~flight'[f].superseded =>
                 /\ flight'[f].value.root = writes /\ flight'[f].value.grant <= store'.grant
    BY <1>1, <1>3
  <2>9. store' \in TokenSet /\ store'.root = writes /\ store'.grant >= store.grant
        /\ UNCHANGED <<caller, writes>>
    BY <1>0, <1>4, <2>1
  <2>3. current' = current /\ current' # f
    BY <1>2, <1>4
  <2> QED
    BY <1>0, <1>1, <1>2, <2>2, <2>3, <2>9, AfterExit
<1>7. current # NoFlight => flight'[current] = flight[current]
  BY <1>0, <1>1, <1>2 DEF OnlyFlight, CredTypeOK
<1>8. CurrentOwns' /\ GrantKept'
  BY <1>0, <1>4, <1>7 DEF CredInv, CurrentOwns, GrantKept, Grant
<1> QED
  BY <1>0, <1>4, <1>5, <1>6, <1>8 DEF CredInv, FlightInv, CallInv

LEMMA KeepsSettle ==
  ASSUME CredInv, NEW f \in Flight, Settle(f) PROVE CredInv'
<1>0. CredTypeOK /\ CurrentOwns /\ FlightInv /\ CallInv /\ store.root = writes
  BY DEF CredInv
<1> DEFINE value == IF flight[f].pc = "token" THEN flight[f].snap ELSE Missing(0)
<1>1. flight[f] \in FlightState /\ flight[f].pc \in Results /\ value \in TokenSet
      /\ flight' = Settled(f, flight[f].pc, value)
  BY CallTypes, SetTypes, <1>0 DEF Settle, FlightState
<1>2. /\ OnlyFlight(f) /\ Exits(f)
      /\ flight'[f] = NewFlight
         \/ (flight'[f].done = TRUE /\ flight'[f].res = flight[f].pc /\ flight'[f].value = value)
  <2> HIDE DEF value
  <2> QED
    BY <1>0, <1>1, SettledFlight
<1>3. flight[f].pc \notin {"unused", "answered"} /\ current = f /\ current' = NoFlight
  BY DEF Settle, Results
<1>4. UNCHANGED <<store, generation, caller, writes, granted, lost>> /\ UNCHANGED Apart
  BY DEF Settle, Apart, historyVars, loginVars, callVars
<1>5. CredTypeOK'
  BY <1>0, <1>2, <1>3, <1>4, ApartStays, TypeFrom DEF OnlyFlight, CredTypeOK
<1>6. flight[f].snap.root = writes /\ flight[f].snap.grant = store.grant
  BY <1>0, <1>3, Slots DEF CurrentOwns
<1>7. /\ \A g \in Flight : Counted(g)' /\ OthersKnow(g)' /\ Valued(g)'
      /\ \A d \in Caller : Since(d)'
  <2>1. store.grant \in Nat /\ store \in TokenSet
    BY <1>0, CallTypes DEF TokenSet
  <2>2. flight[f].pc = "token" => value.root = writes /\ value.grant <= store'.grant
    BY <1>4, <1>6, <2>1
  <2>3. current' # f
    BY <1>3, Slots
  <2> HIDE DEF value
  <2>4. \/ flight'[f] = NewFlight
        \/ /\ flight'[f].done = TRUE
           /\ flight'[f].res = "token" /\ ~flight'[f].superseded =>
                 /\ flight'[f].value.root = writes /\ flight'[f].value.grant <= store'.grant
    BY <1>2, <2>2
  <2>9. store' \in TokenSet /\ store'.root = writes /\ store'.grant >= store.grant
        /\ UNCHANGED <<caller, writes>>
    BY <1>0, <1>4, <2>1
  <2> QED
    BY <1>2, <1>3, <2>3, <2>4, <2>9, AfterExit
<1>8. CurrentOwns' /\ GrantKept'
  BY <1>0, <1>3, <1>4 DEF CredInv, CurrentOwns, GrantKept, Grant
<1> QED
  BY <1>0, <1>4, <1>5, <1>7, <1>8 DEF CredInv, FlightInv, CallInv

LEMMA KeepsWrite ==
  ASSUME CredInv, NEW f \in Flight, SettleWrite(f) PROVE CredInv'
<1>0. CredTypeOK /\ CurrentOwns /\ FlightInv /\ CallInv /\ store.root = writes
  BY DEF CredInv
<1> DEFINE value == flight[f].value
<1>1. flight[f] \in FlightState /\ value \in TokenSet /\ flight' = Settled(f, "token", value)
      /\ store' = value /\ generation' \in Nat
  BY CallTypes, <1>0 DEF SettleWrite, FlightState
<1>2. /\ OnlyFlight(f) /\ Exits(f)
      /\ flight'[f] = NewFlight
         \/ (flight'[f].done = TRUE /\ flight'[f].res = "token" /\ flight'[f].value = value)
  <2>1. "token" \in Results
    BY DEF Results
  <2> HIDE DEF value
  <2> QED
    BY <1>0, <1>1, <2>1, SettledFlight
<1>3. flight[f].pc = "answered" /\ current = f /\ current' = NoFlight
  BY DEF SettleWrite
<1>4. UNCHANGED <<caller, writes, granted, lost>> /\ UNCHANGED Apart
  BY DEF SettleWrite, Apart, historyVars, loginVars, callVars
<1>5. CredTypeOK'
  BY <1>0, <1>1, <1>2, <1>3, <1>4, ApartStays, TypeFrom DEF OnlyFlight, CredTypeOK
<1>6. /\ value.root = writes /\ value.grant = store.grant + 1
      /\ granted[store.root] = store.grant + 1
  BY <1>0, <1>3, Slots DEF CurrentOwns, FlightInv, Valued
<1>7. /\ \A g \in Flight : Counted(g)' /\ OthersKnow(g)' /\ Valued(g)'
      /\ \A d \in Caller : Since(d)'
  <2>1. store.grant \in Nat /\ store' \in TokenSet
    BY <1>0, <1>1, CallTypes DEF TokenSet
  <2>2. value.root = writes /\ value.grant <= store'.grant /\ store'.root = writes
        /\ store'.grant >= store.grant
    BY <1>1, <1>6, <2>1
  <2>3. current' # f
    BY <1>3, Slots
  <2> HIDE DEF value
  <2>4. \/ flight'[f] = NewFlight
        \/ /\ flight'[f].done = TRUE
           /\ flight'[f].res = "token" /\ ~flight'[f].superseded =>
                 /\ flight'[f].value.root = writes /\ flight'[f].value.grant <= store'.grant
    BY <1>2, <2>2
  <2> QED
    BY <1>0, <1>2, <1>3, <1>4, <2>1, <2>2, <2>3, <2>4, AfterExit
<1>8. CurrentOwns' /\ GrantKept' /\ store'.root = writes'
  BY <1>0, <1>1, <1>3, <1>4, <1>6 DEF CurrentOwns, GrantKept, Grant
<1> QED
  BY <1>5, <1>7, <1>8 DEF CredInv, FlightInv, CallInv

LEMMA KeepsFail ==
  ASSUME CredInv, NEW f \in Flight, SettleFails(f) PROVE CredInv'
<1>0. CredTypeOK /\ CurrentOwns /\ FlightInv /\ CallInv /\ store.root = writes
  BY DEF CredInv
<1>1. flight' = Settled(f, "failed", Missing(0)) /\ Missing(0) \in TokenSet
      /\ "failed" \in Results
  BY SetTypes DEF SettleFails, Results
<1>2. /\ OnlyFlight(f) /\ Exits(f)
      /\ flight'[f] = NewFlight \/ (flight'[f].done = TRUE /\ flight'[f].res = "failed")
  BY <1>0, <1>1, SettledFlight
<1>3. flight[f].pc = "answered" /\ current = f /\ current' = NoFlight
      /\ lost' = lost \cup {Grant(flight[f].snap)}
  BY DEF SettleFails
<1>4. UNCHANGED <<store, generation, caller, writes, granted>>
  BY DEF SettleFails, callVars
<1>5. ApartTyped'
  <2>1. UNCHANGED <<login, attempt, logins, configVars, ctxDone>>
    BY DEF SettleFails, loginVars, callVars
  <2>2. budget' \in [{"expiry", "write", "fault", "edit"} -> Nat]
    BY <1>0, Spent DEF SettleFails
  <2> QED
    BY <1>0, <2>1, <2>2 DEF ApartTyped, CredTypeOK, configVars
<1>6. /\ flight[f].snap.root = store.root /\ flight[f].snap.grant = store.grant
      /\ store.root \in Nat /\ store.grant \in Nat /\ store \in TokenSet
  BY <1>0, <1>3, Slots, CallTypes DEF CurrentOwns, TokenSet
<1>7. CredTypeOK'
  <2>1. lost' \subseteq Nat \X Nat
    BY <1>0, <1>3, <1>6 DEF CredTypeOK, Grant
  <2> QED
    BY <1>0, <1>2, <1>3, <1>4, <1>5, <2>1, TypeFrom DEF OnlyFlight, CredTypeOK
<1>8. /\ \A g \in Flight : Counted(g)' /\ OthersKnow(g)' /\ Valued(g)'
      /\ \A d \in Caller : Since(d)'
  <2>1. current' # f
    BY <1>3, Slots
  <2>2. \/ flight'[f] = NewFlight
        \/ /\ flight'[f].done = TRUE
           /\ flight'[f].res = "token" /\ ~flight'[f].superseded =>
                 /\ flight'[f].value.root = writes /\ flight'[f].value.grant <= store'.grant
    BY <1>2
  <2>9. store' \in TokenSet /\ store'.root = writes /\ store'.grant >= store.grant
        /\ UNCHANGED <<caller, writes>>
    BY <1>0, <1>4, <1>6
  <2> QED
    BY <1>2, <1>3, <2>1, <2>2, <2>9, AfterExit
<1>9. CurrentOwns' /\ GrantKept'
  BY <1>3, <1>4, <1>6 DEF CurrentOwns, GrantKept, Grant
<1> QED
  BY <1>0, <1>4, <1>7, <1>8, <1>9 DEF CredInv, FlightInv, CallInv

\* A user's write supersedes the flight under way, and starts a credential of its own.
Replaces ==
    /\ Invalidate
    /\ writes' = writes + 1 /\ granted' = Granting(writes + 1)
    /\ store' \in {Missing(writes + 1), SignedIn(writes + 1)}
    /\ UNCHANGED <<caller, lost>>

LEMMA KeepsReplace ==
  ASSUME CredInv, Replaces, ApartTyped' PROVE CredInv'
<1>0. CredTypeOK /\ CurrentOwns /\ FlightInv /\ CallInv /\ store.root = writes
  BY DEF CredInv
<1>1. /\ flight' \in [Flight -> FlightState]
      /\ \A g \in Flight \ {current} : flight'[g] = flight[g]
      /\ current # NoFlight =>
            /\ current \in Flight /\ flight'[current].waiters = flight[current].waiters
            /\ flight'[current].pc = flight[current].pc
            /\ flight'[current].snap = flight[current].snap
            /\ flight'[current].done = TRUE /\ flight'[current].superseded = TRUE
            /\ flight'[current].value = flight[current].value
            /\ flight'[current].res = flight[current].res
  BY <1>0, Superseded DEF Replaces
<1>2. /\ writes \in Nat /\ writes' = writes + 1 /\ writes' \in Nat
      /\ current' = NoFlight /\ generation' \in Nat
  <2>1. writes \in Nat /\ generation \in Nat
    BY <1>0, CallTypes
  <2>2. current' = NoFlight /\ generation' = generation + 1 /\ writes' = writes + 1
    BY DEF Replaces, Invalidate
  <2> QED
    BY <2>1, <2>2
<1>3. store' \in TokenSet /\ store'.root = writes' /\ store'.grant \in {0, 1}
  <2>1. \A w \in Nat : /\ Missing(w) \in TokenSet /\ SignedIn(w) \in TokenSet
                       /\ Missing(w).root = w /\ Missing(w).grant = 0
                       /\ SignedIn(w).root = w /\ SignedIn(w).grant = 1
    BY DEF Missing, SignedIn, TokenSet
  <2> QED
    BY <1>2, <2>1 DEF Replaces
<1>4. granted' \in [0..writes' -> Nat] /\ granted'[writes'] = 1
  <2>1. granted \in [0..writes -> Nat]
    BY <1>0 DEF CredTypeOK
  <2> QED
    BY <1>2, <2>1 DEF Replaces, Granting
<1>5. CredTypeOK'
  BY <1>0, <1>1, <1>2, <1>3, <1>4, TypeFrom DEF Replaces, CredTypeOK
<1>6. ASSUME NEW g \in Flight PROVE Counted(g)' /\ OthersKnow(g)' /\ Valued(g)'
  <2>1. Counted(g) /\ OthersKnow(g) /\ Valued(g) /\ Waiters(g)' = Waiters(g)
    BY <1>0 DEF FlightInv, Waiters, Replaces
  <2>2. flight[g].snap.root \in Nat /\ flight[g].value.root \in Nat
    BY <1>0, CallTypes DEF FlightState, TokenSet
  <2>3. CASE g = current
    <3>1. /\ flight'[g].waiters = flight[g].waiters /\ flight'[g].pc = flight[g].pc
          /\ flight'[g].snap = flight[g].snap /\ flight'[g].value = flight[g].value
          /\ flight'[g].done = TRUE /\ flight'[g].superseded = TRUE
          /\ flight'[g].res = flight[g].res
      BY <1>1, <2>3, Slots
    <3>2. flight[g].pc # "unused" /\ flight[g].snap.root = writes
      BY <1>0, <2>3, Slots DEF CurrentOwns
    <3> QED
      BY <1>2, <2>1, <2>2, <3>1, <3>2 DEF Counted, OthersKnow, Valued
  <2>4. CASE g # current
    <3>1. flight'[g] = flight[g]
      BY <1>1, <2>4
    <3> QED
      BY <1>2, <2>1, <2>2, <2>4, <3>1 DEF Counted, OthersKnow, Valued
  <2> QED
    BY <2>3, <2>4
<1>7. ASSUME NEW d \in Caller PROVE Since(d)'
  <2>1. Since(d) /\ caller'[d] = caller[d] /\ caller[d].since \in Nat
        /\ caller[d].token.root \in Nat
    BY <1>0, CallTypes DEF CallInv, Replaces, CallState, TokenSet
  <2>2. ASSUME NEW g \in Flight, flight'[g].res = "token", ~flight'[g].superseded
        PROVE flight'[g] = flight[g]
    BY <1>1, <2>2, Slots
  <2> QED
    BY <1>2, <2>1, <2>2 DEF Since
<1>8. CurrentOwns' /\ GrantKept'
  BY <1>2, <1>3, <1>4 DEF CurrentOwns, GrantKept
<1> QED
  BY <1>3, <1>5, <1>6, <1>7, <1>8 DEF CredInv, FlightInv, CallInv

\* A stored set that expires is none that a flight is refreshing.
LEMMA KeepsExpire ==
  ASSUME CredInv, Expire PROVE CredInv'
<1>0. CredTypeOK /\ CurrentOwns /\ FlightInv /\ CallInv /\ store.root = writes
  BY DEF CredInv
<1>1. UNCHANGED <<generation, current, flight, login, attempt, logins, configVars, caller,
                  ctxDone, granted, writes, lost>>
  BY DEF Expire, loginVars, callVars, historyVars
<1>2. /\ store' \in TokenSet /\ store'.root = store.root /\ store'.grant = store.grant
      /\ store.fresh = TRUE
  <2>1. store \in TokenSet
    BY <1>0, CallTypes
  <2> QED
    BY <2>1 DEF Expire, TokenSet
<1>3. ApartTyped'
  <2>1. budget' \in [{"expiry", "write", "fault", "edit"} -> Nat]
    BY <1>0, Spent DEF Expire
  <2> QED
    BY <1>0, <1>1, <2>1 DEF ApartTyped, CredTypeOK, configVars
<1>4. CredTypeOK'
  BY <1>0, <1>1, <1>2, <1>3, TypeFrom DEF CredTypeOK
<1>5. \A g \in Flight : Counted(g)' /\ OthersKnow(g)' /\ Valued(g)'
  <2>1. \A g \in Flight : Waiters(g)' = Waiters(g)
    BY <1>1 DEF Waiters
  <2> QED
    BY <1>0, <1>1, <1>2, <2>1 DEF FlightInv, Counted, OthersKnow, Valued
<1>6. \A d \in Caller : Since(d)'
  BY <1>0, <1>1, <1>2 DEF CallInv, Since
<1>7. current # NoFlight => flight[current].pc \notin {"asking", "answered"}
  BY <1>0, <1>2 DEF CurrentOwns
<1>8. CurrentOwns' /\ GrantKept'
  BY <1>0, <1>1, <1>2, <1>7 DEF CredInv, CurrentOwns, GrantKept, Grant
<1> QED
  BY <1>0, <1>1, <1>2, <1>4, <1>5, <1>6, <1>8 DEF CredInv, FlightInv, CallInv

Attempts == [Login -> [pc : {"new", "open", "approved", "closed"}, done : BOOLEAN, before : Nat]]

LEMMA WithoutLoginType == CredTypeOK => WithoutLogin \in Attempts
  BY DEF CredTypeOK, WithoutLogin, Attempts

LEMMA KeepsCred ==
  ASSUME CredInv, CredNext PROVE CredInv'
<1>0. CredTypeOK /\ attempt \in Attempts /\ WithoutLogin \in Attempts
  BY WithoutLoginType DEF CredInv, CredTypeOK, Attempts
<1>1. ASSUME NEW f \in Flight, FlightStep(f) PROVE CredInv'
  BY <1>1, KeepsRefresh, KeepsLose, KeepsStale, KeepsSettle, KeepsWrite, KeepsFail DEF FlightStep
<1>2. ASSUME NEW l \in Login, BeginLogin(l) PROVE CredInv'
  <2>1. attempt' \in Attempts
    <3>1. profile \in Nat
      BY <1>0 DEF CredTypeOK
    <3>2. attempt' = [WithoutLogin EXCEPT ![l] = [@ EXCEPT !.pc = "open", !.before = profile]]
      BY <1>0, <1>2 DEF BeginLogin, Attempts
    <3>3. [WithoutLogin[l] EXCEPT !.pc = "open", !.before = profile] \in
               [pc : {"new", "open", "approved", "closed"}, done : BOOLEAN, before : Nat]
      BY <1>0, <3>1 DEF Attempts
    <3> QED
      BY <1>0, <3>2, <3>3 DEF Attempts
  <2>2. UNCHANGED <<profileVars, caller, granted, historyVars>> /\ login' = l
        /\ UNCHANGED <<logins, configVars, ctxDone, budget>>
    BY <1>2 DEF BeginLogin, callVars
  <2>3. ApartTyped'
    BY <1>0, <2>1, <2>2 DEF ApartTyped, CredTypeOK, configVars, Attempts
  <2> QED
    BY <2>2, <2>3, KeepsRest
<1>3. ASSUME NEW l \in Login, Approve(l) PROVE CredInv'
  <2>1. attempt' \in Attempts
    BY <1>0, <1>3 DEF Approve, Attempts
  <2>2. UNCHANGED <<profileVars, caller, granted, historyVars>>
        /\ UNCHANGED <<login, logins, configVars, ctxDone, budget>>
    BY <1>3 DEF Approve, callVars
  <2>3. ApartTyped'
    BY <1>0, <2>1, <2>2 DEF ApartTyped, CredTypeOK, configVars, Attempts
  <2> QED
    BY <2>2, <2>3, KeepsRest
<1>4. ASSUME NEW l \in Login, CloseLogin(l) PROVE CredInv'
  <2>1. attempt' \in Attempts
    BY <1>0, <1>4 DEF CloseLogin, Attempts
  <2>2. UNCHANGED <<profileVars, caller, granted, historyVars>> /\ login' \in {NoLogin, login}
        /\ UNCHANGED <<logins, configVars, ctxDone, budget>>
    BY <1>4 DEF CloseLogin, callVars
  <2>3. ApartTyped'
    BY <1>0, <2>1, <2>2 DEF ApartTyped, CredTypeOK, configVars, Attempts
  <2> QED
    BY <2>2, <2>3, KeepsRest
<1>5. ASSUME NEW l \in Login, CommitLogin(l) PROVE CredInv'
  <2>1. attempt' \in Attempts
    <3>1. attempt' = [WithoutLogin EXCEPT ![l] = [@ EXCEPT !.pc = "closed", !.before = 0]]
      BY <1>0, <1>5 DEF CommitLogin, Attempts
    <3>2. [WithoutLogin[l] EXCEPT !.pc = "closed", !.before = 0] \in
               [pc : {"new", "open", "approved", "closed"}, done : BOOLEAN, before : Nat]
      BY <1>0 DEF Attempts
    <3> QED
      BY <1>0, <3>1, <3>2 DEF Attempts
  <2>2. Replaces
    BY <1>5 DEF CommitLogin, Replaces, callVars
  <2>3. /\ login' = NoLogin /\ logins' = logins + 1 /\ profile' \in {profile, profile + 1}
        /\ locus' \in {locus, locus + 1} /\ edited' \in BOOLEAN
        /\ UNCHANGED <<ctxDone, budget>>
    BY <1>5 DEF CommitLogin, Invalidate, callVars
  <2>4. ApartTyped'
    <3>1. login' \in Login \cup {NoLogin} /\ logins' \in Nat /\ ctxDone' \in [Caller -> BOOLEAN]
      BY <1>0, <2>3 DEF CredTypeOK
    <3>2. profile' \in Nat /\ locus' \in Nat
      BY <1>0, <2>3 DEF CredTypeOK
    <3>3. budget' \in [{"expiry", "write", "fault", "edit"} -> Nat]
      BY <1>0, <2>3 DEF CredTypeOK
    <3> QED
      BY <2>1, <2>3, <3>1, <3>2, <3>3 DEF ApartTyped, Attempts
  <2> QED
    BY <2>2, <2>4, KeepsReplace
<1>6. CASE Overwrite
  <2>1. Replaces /\ attempt' \in Attempts /\ login' = NoLogin
        /\ UNCHANGED <<logins, configVars, ctxDone>>
    BY <1>0, <1>6 DEF Overwrite, Replaces, Invalidate, callVars
  <2>2. budget' \in [{"expiry", "write", "fault", "edit"} -> Nat]
    BY <1>0, <1>6, Spent DEF Overwrite
  <2>3. ApartTyped'
    BY <1>0, <2>1, <2>2 DEF ApartTyped, CredTypeOK, configVars, Attempts
  <2> QED
    BY <2>1, <2>3, KeepsReplace
<1>7. CASE EditConfig
  <2>1. /\ attempt' \in Attempts /\ login' \in {NoLogin, login} /\ edited' = TRUE
        /\ profile' \in {profile, profile + 1} /\ locus' \in {locus, locus + 1}
        /\ UNCHANGED <<profileVars, caller, granted, historyVars>>
        /\ UNCHANGED <<logins, ctxDone>>
    BY <1>0, <1>7 DEF EditConfig, callVars
  <2>2. budget' \in [{"expiry", "write", "fault", "edit"} -> Nat]
    BY <1>0, <1>7, Spent DEF EditConfig
  <2>3. ApartTyped'
    <3>1. login' \in Login \cup {NoLogin} /\ logins' \in Nat /\ ctxDone' \in [Caller -> BOOLEAN]
      BY <1>0, <2>1 DEF CredTypeOK
    <3>2. profile' \in Nat /\ locus' \in Nat
      BY <1>0, <2>1 DEF CredTypeOK
    <3> QED
      BY <2>1, <2>2, <3>1, <3>2 DEF ApartTyped, Attempts
  <2> QED
    BY <2>1, <2>3, KeepsRest
<1>8. CASE Expire
  BY <1>8, KeepsExpire
<1> QED
  BY <1>1, <1>2, <1>3, <1>4, <1>5, <1>6, <1>7, <1>8 DEF CredNext, LoginStep

GateState ==
    [pc : {"off", "calling", "paused", "claimed", "finishing", "leaving", "done"},
     routing : Nat \X Nat, watched : Nat, shown : BOOLEAN,
     choice : {"none"} \cup Choices,
     outcome : {"none", "served", "failed", "cancelled", "stale"} \cup Choices]
DecisionState ==
    [pc : {"unsent", "checked", "stale", "claiming", "ok", "refused"},
     call : Caller \cup {NoCaller}, choice : {"none", "fallback", "cancel"}]

GateTyped ==
    /\ gate \in [Caller -> GateState] /\ registered \subseteq Caller
    /\ reply \in [Caller -> {"none", "fallback", "cancel"}]
    /\ decision \in [Decision -> DecisionState]

LEMMA TypeSplits == TypeOK <=> CredTypeOK /\ GateTyped
  BY DEF TypeOK, GateTyped, GateState, DecisionState

\* Where a model call stands: what its channel, its choice and its claim say of each other.
Turned(c) ==
    /\ caller[c].pc # "idle" => gate[c].pc = "calling"
    /\ gate[c].routing[1] <= profile /\ gate[c].routing[2] <= locus
    /\ ~gate[c].shown =>
          /\ c \notin registered /\ reply[c] = "none" /\ gate[c].choice = "none"
          /\ gate[c].pc \in {"off", "calling", "done"}
    /\ gate[c].shown /\ gate[c].pc \in {"off", "calling"} => gate[c].choice = "login"
    /\ c \in registered \/ reply[c] # "none" => gate[c].choice = "none"
    /\ c \in registered => reply[c] = "none"
    /\ gate[c].pc \in {"paused", "claimed", "leaving"} => gate[c].choice = "none"
    /\ gate[c].pc = "leaving" => ctxDone[c] = TRUE
    /\ gate[c].pc = "finishing" => gate[c].choice # "none"
    /\ gate[c].pc = "done" /\ gate[c].shown /\ gate[c].choice # "login" =>
          \/ ctxDone[c] = TRUE
          \/ gate[c].choice # "none" /\ gate[c].outcome = gate[c].choice
          \/ gate[c].outcome = "stale" /\ gate[c].routing # Routing

\* Where a decision stands: it was sent to a call that showed its challenge, and one that
\* has claimed the waiter is the only one that has.
Sent(d) ==
    LET c == decision[d].call IN
    /\ decision[d].pc \in {"checked", "stale", "claiming", "ok"} =>
          c \in Caller /\ decision[d].choice # "none" /\ gate[c].shown = TRUE
    /\ decision[d].pc \in {"claiming", "ok"} =>
          /\ c \notin registered /\ gate[c].choice # "login"
          /\ \A e \in Decision \ {d} :
                decision[e].pc \in {"claiming", "ok"} => decision[e].call # c
    /\ decision[d].pc = "claiming" => reply[c] = "none" /\ gate[c].choice = "none"
    /\ decision[d].pc = "ok" =>
          \/ reply[c] = decision[d].choice /\ gate[c].choice = "none"
          \/ reply[c] = "none" /\ gate[c].choice = decision[d].choice

GateInv == (\A c \in Caller : Turned(c)) /\ (\A d \in Decision : Sent(d))

\* A step that touches the gate of c and of no other call.
OnlyGate(c) ==
    /\ gate' \in [Caller -> GateState]
    /\ \A b \in Caller \ {c} : gate'[b] = gate[b]

LEMMA GateTypes ==
  ASSUME GateTyped, NEW c \in Caller
  PROVE gate[c] \in GateState /\ reply[c] \in {"none", "fallback", "cancel"}
  BY DEF GateTyped

LEMMA StartGate ==
  ASSUME CredTypeOK, GateTyped, NEW c \in Caller, Start(c)
  PROVE /\ OnlyGate(c) /\ gate[c].pc = "off" /\ gate'[c].pc = "calling"
        /\ gate'[c].routing = Routing /\ gate'[c].shown = gate[c].shown
        /\ gate'[c].choice = gate[c].choice
<1>1. gate[c] \in GateState /\ Routing \in Nat \X Nat
  BY GateTypes DEF CredTypeOK, Routing
<1>2. gate' = [gate EXCEPT ![c] = [@ EXCEPT !.pc = "calling", !.routing = Routing]]
  BY <1>1 DEF Start, GateState, GateTyped
<1>3. [gate[c] EXCEPT !.pc = "calling", !.routing = Routing] \in GateState
  BY <1>1 DEF GateState
<1> QED
  BY <1>1, <1>2, <1>3 DEF Start, OnlyGate, GateTyped, GateState

LEMMA PauseGate ==
  ASSUME CredTypeOK, GateTyped, NEW c \in Caller, Pause(c)
  PROVE /\ OnlyGate(c) /\ gate[c].pc = "calling" /\ gate'[c].pc = "paused"
        /\ gate'[c].routing = gate[c].routing /\ gate'[c].shown = TRUE
        /\ gate'[c].choice = gate[c].choice /\ gate[c].shown = FALSE
<1>1. gate[c] \in GateState /\ logins \in Nat
  BY GateTypes DEF CredTypeOK
<1>2. gate' = [gate EXCEPT ![c] = [@ EXCEPT !.pc = "paused", !.watched = logins, !.shown = TRUE]]
  BY <1>1 DEF Pause, GateState, GateTyped
<1>3. [gate[c] EXCEPT !.pc = "paused", !.watched = logins, !.shown = TRUE] \in GateState
  BY <1>1 DEF GateState
<1> QED
  BY <1>1, <1>2, <1>3 DEF Pause, OnlyGate, GateTyped, GateState

LEMMA ChoiceGate ==
  ASSUME GateTyped, NEW c \in Caller, NEW x \in Choices,
         gate' = [gate EXCEPT ![c] = [@ EXCEPT !.pc = "finishing", !.choice = x]]
  PROVE /\ OnlyGate(c) /\ gate'[c].pc = "finishing" /\ gate'[c].choice = x
        /\ gate'[c].routing = gate[c].routing /\ gate'[c].shown = gate[c].shown
<1>1. gate[c] \in GateState
  BY GateTypes
<1>2. [gate[c] EXCEPT !.pc = "finishing", !.choice = x] \in GateState
  BY <1>1 DEF GateState
<1> QED
  BY <1>1, <1>2 DEF OnlyGate, GateTyped, GateState

LEMMA MovedGate ==
  ASSUME GateTyped, NEW c \in Caller, NEW pc \in {"calling", "claimed", "leaving"},
         gate' = [gate EXCEPT ![c].pc = pc] \/ gate' = [gate EXCEPT ![c] = [@ EXCEPT !.pc = pc]]
  PROVE /\ OnlyGate(c) /\ gate'[c].pc = pc /\ gate'[c].choice = gate[c].choice
        /\ gate'[c].routing = gate[c].routing /\ gate'[c].shown = gate[c].shown
<1>1. gate[c] \in GateState
  BY GateTypes
<1>2. [gate[c] EXCEPT !.pc = pc] \in GateState
  BY <1>1 DEF GateState
<1>3. gate' = [gate EXCEPT ![c] = [@ EXCEPT !.pc = pc]]
  BY DEF GateTyped
<1> QED
  BY <1>1, <1>2, <1>3 DEF OnlyGate, GateTyped, GateState

LEMMA OverGate ==
  ASSUME GateTyped, NEW c \in Caller,
         NEW x \in {"none", "served", "failed", "cancelled", "stale"} \cup Choices,
         gate' = [gate EXCEPT ![c] = Over(c, x)]
  PROVE /\ OnlyGate(c) /\ gate'[c].pc = "done" /\ gate'[c].choice = gate[c].choice
        /\ gate'[c].routing = gate[c].routing /\ gate'[c].shown = gate[c].shown
        /\ gate'[c].outcome = x
<1>1. gate[c] \in GateState
  BY GateTypes
<1>2. Over(c, x) \in GateState
  BY <1>1 DEF GateState, Over
<1> QED
  BY <1>1, <1>2 DEF OnlyGate, GateTyped, GateState, Over

\* What the invariant says of a call whose gate does not change goes on to hold.
Same(b) == gate'[b] = gate[b] /\ reply'[b] = reply[b] /\ (b \in registered' <=> b \in registered)
Later == /\ profile <= profile' /\ locus <= locus' /\ profile' \in Nat /\ locus' \in Nat
         /\ \A b \in Caller : ctxDone[b] = TRUE => ctxDone'[b] = TRUE

LEMMA RoutingStays ==
  ASSUME CredTypeOK, Later, NEW r \in Nat \X Nat, r[1] <= profile, r[2] <= locus
  PROVE /\ r[1] <= profile' /\ r[2] <= locus'
        /\ r # Routing => r # Routing'
<1>1. profile \in Nat /\ locus \in Nat /\ r[1] \in Nat /\ r[2] \in Nat /\ r = <<r[1], r[2]>>
  BY DEF CredTypeOK
<1> QED
  BY <1>1 DEF Later, Routing

LEMMA TurnedStays ==
  ASSUME CredTypeOK, GateTyped, NEW b \in Caller, Turned(b), Same(b), Later,
         caller'[b].pc # "idle" => caller[b].pc # "idle"
  PROVE Turned(b)'
<1>1. gate[b].routing \in Nat \X Nat
  BY GateTypes DEF GateState
<1>2. /\ gate[b].routing[1] <= profile' /\ gate[b].routing[2] <= locus'
      /\ gate[b].routing # Routing => gate[b].routing # Routing'
  BY <1>1, RoutingStays DEF Turned
<1> QED
  BY <1>2 DEF Turned, Same, Later

LEMMA SentStays ==
  ASSUME GateTyped, NEW d \in Decision, Sent(d), UNCHANGED decision,
         decision[d].call \in Caller => Same(decision[d].call)
  PROVE Sent(d)'
  BY DEF Sent, Same

AllInv == CredInv /\ GateTyped /\ GateInv

LEMMA LaterStays ==
  ASSUME CredTypeOK, UNCHANGED <<profile, locus, ctxDone>> PROVE Later
  BY DEF Later, CredTypeOK

\* It is enough to look at the call that moved, and at what was decided about it.
LEMMA KeepsTurn ==
  ASSUME CredTypeOK, GateTyped, GateInv, NEW c \in Caller, OnlyGate(c), Later,
         \A b \in Caller \ {c} :
            /\ reply'[b] = reply[b] /\ (b \in registered' <=> b \in registered)
            /\ caller'[b].pc # "idle" => caller[b].pc # "idle",
         UNCHANGED decision, Turned(c)',
         \A d \in Decision : decision[d].call = c => Sent(d)'
  PROVE GateInv'
<1>1. \A b \in Caller \ {c} : Same(b)
  BY DEF Same, OnlyGate
<1>2. \A b \in Caller \ {c} : Turned(b)'
  BY <1>1, TurnedStays DEF GateInv
<1>3. \A d \in Decision : decision[d].call # c => Sent(d)'
  BY <1>1, SentStays DEF GateInv
<1> QED
  BY <1>2, <1>3 DEF GateInv

\* A call whose claim, channel and choice do not change: only its place does.
LEMMA KeepsPlace ==
  ASSUME CredTypeOK, GateTyped, GateInv, NEW c \in Caller, OnlyGate(c),
         UNCHANGED <<profile, locus, ctxDone, registered, reply, decision>>,
         \A b \in Caller \ {c} : caller'[b].pc # "idle" => caller[b].pc # "idle",
         gate'[c].shown = gate[c].shown, gate'[c].choice = gate[c].choice,
         Turned(c)'
  PROVE GateInv'
<1>1. ASSUME NEW d \in Decision, decision[d].call = c PROVE Sent(d)'
  BY <1>1 DEF GateInv, Sent
<1> QED
  BY <1>1, LaterStays, KeepsTurn

\* Token starts, and starts over, where nobody is paused.
LEMMA KeepsAsk ==
  ASSUME AllInv, NEW c \in Caller, Start(c) \/ Retry(c) PROVE AllInv'
<1>0. CredTypeOK /\ GateTyped /\ GateInv /\ Turned(c) /\ caller \in [Caller -> CallState]
  BY CallTypes DEF AllInv, CredInv, GateInv
<1>1. /\ caller' = [caller EXCEPT ![c] = CallAt("acquire", "none")]
      /\ UNCHANGED <<profileVars, loginVars, configVars, ctxDone, granted, historyVars, budget,
                     registered, reply, decision>>
  BY DEF Start, Retry, Ask
<1>2. /\ OnlyGate(c) /\ gate[c].pc \in {"off", "finishing"} /\ gate'[c].pc = "calling"
      /\ gate'[c].shown = gate[c].shown /\ gate'[c].choice = gate[c].choice
      /\ gate'[c].routing[1] <= profile /\ gate'[c].routing[2] <= locus
      /\ gate[c].pc = "finishing" => gate[c].choice = "login"
  <2>1. CASE Start(c)
    <3>1. /\ OnlyGate(c) /\ gate[c].pc = "off" /\ gate'[c].pc = "calling"
          /\ gate'[c].routing = Routing /\ gate'[c].shown = gate[c].shown
          /\ gate'[c].choice = gate[c].choice
      BY <1>0, <2>1, StartGate
    <3>2. profile \in Nat /\ locus \in Nat
      BY <1>0 DEF CredTypeOK
    <3> QED
      BY <3>1, <3>2 DEF Routing
  <2>2. CASE Retry(c)
    <3>1. gate[c].pc = "finishing" /\ gate[c].choice = "login"
          /\ gate' = [gate EXCEPT ![c].pc = "calling"]
      BY <2>2 DEF Retry
    <3> QED
      BY <1>0, <3>1, MovedGate DEF Turned
  <2> QED
    BY <2>1, <2>2
<1>3. CredInv'
  <2>1. Resets(c)
    BY <1>0, <1>1, <1>2 DEF Resets, Turned
  <2>2. UNCHANGED Apart
    BY <1>1 DEF Apart, loginVars
  <2> QED
    BY <1>0, <1>1, <2>1, <2>2, ApartStays, KeepsReset DEF AllInv
<1>4. GateTyped'
  BY <1>0, <1>1, <1>2 DEF GateTyped, OnlyGate
<1>5. Turned(c)'
  BY <1>0, <1>1, <1>2 DEF Turned, configVars
<1>6. GateInv'
  BY <1>0, <1>1, <1>2, <1>5, KeepsPlace DEF configVars
<1> QED
  BY <1>3, <1>4, <1>6 DEF AllInv

LEMMA KeepsConclude ==
  ASSUME AllInv, NEW c \in Caller, Conclude(c) PROVE AllInv'
<1>0. CredTypeOK /\ GateTyped /\ GateInv /\ Turned(c) /\ caller \in [Caller -> CallState]
  BY CallTypes DEF AllInv, CredInv, GateInv
<1>1. /\ caller' = [caller EXCEPT ![c] = CallAt("idle", "none")]
      /\ caller[c].pc = "returned" /\ gate[c].pc = "calling"
      /\ UNCHANGED <<profileVars, loginVars, configVars, ctxDone, granted, historyVars, budget,
                     registered, reply, decision>>
  BY DEF Conclude
<1>2. PICK x \in {"served", "cancelled", "failed"} : gate' = [gate EXCEPT ![c] = Over(c, x)]
  BY DEF Conclude
<1>3. /\ OnlyGate(c) /\ gate'[c].pc = "done" /\ gate'[c].choice = gate[c].choice
      /\ gate'[c].routing = gate[c].routing /\ gate'[c].shown = gate[c].shown
  BY <1>0, <1>2, OverGate
<1>4. CredInv'
  <2>1. Resets(c)
    BY <1>1 DEF Resets
  <2>2. UNCHANGED Apart
    BY <1>1 DEF Apart, loginVars
  <2> QED
    BY <1>0, <1>1, <2>1, <2>2, ApartStays, KeepsReset DEF AllInv
<1>5. GateTyped'
  BY <1>0, <1>1, <1>3 DEF GateTyped, OnlyGate
<1>6. Turned(c)'
  <2>1. caller'[c].pc = "idle"
    BY <1>0, <1>1 DEF CallAt
  <2> QED
    BY <1>0, <1>1, <1>3, <2>1 DEF Turned, configVars
<1>7. GateInv'
  BY <1>0, <1>1, <1>3, <1>6, KeepsPlace DEF configVars
<1> QED
  BY <1>4, <1>5, <1>7 DEF AllInv

LEMMA KeepsPause ==
  ASSUME AllInv, NEW c \in Caller, Pause(c) PROVE AllInv'
<1>0. CredTypeOK /\ GateTyped /\ GateInv /\ Turned(c) /\ caller \in [Caller -> CallState]
  BY CallTypes DEF AllInv, CredInv, GateInv
<1>1. /\ caller' = [caller EXCEPT ![c] = CallAt("idle", "none")]
      /\ caller[c].pc = "returned" /\ registered' = registered \cup {c}
      /\ UNCHANGED <<profileVars, loginVars, configVars, ctxDone, granted, historyVars, budget,
                     reply, decision>>
  BY DEF Pause
<1>2. /\ OnlyGate(c) /\ gate[c].pc = "calling" /\ gate'[c].pc = "paused"
      /\ gate'[c].routing = gate[c].routing /\ gate'[c].shown = TRUE
      /\ gate'[c].choice = gate[c].choice /\ gate[c].shown = FALSE
  BY <1>0, PauseGate
<1>3. CredInv'
  <2>1. Resets(c)
    BY <1>1 DEF Resets
  <2>2. UNCHANGED Apart
    BY <1>1 DEF Apart, loginVars
  <2> QED
    BY <1>0, <1>1, <2>1, <2>2, ApartStays, KeepsReset DEF AllInv
<1>4. GateTyped'
  BY <1>0, <1>1, <1>2 DEF GateTyped, OnlyGate
<1>5. Turned(c)'
  <2>1. caller'[c].pc = "idle"
    BY <1>0, <1>1 DEF CallAt
  <2> QED
    BY <1>0, <1>1, <1>2, <2>1 DEF Turned, configVars
<1>6. ASSUME NEW d \in Decision, decision[d].call = c PROVE Sent(d)'
  <2>1. decision[d].pc \notin {"checked", "stale", "claiming", "ok"}
    BY <1>0, <1>2, <1>6 DEF GateInv, Sent
  <2> QED
    BY <1>1, <2>1 DEF Sent
<1>7. GateInv'
  BY <1>0, <1>1, <1>2, <1>5, <1>6, LaterStays, KeepsTurn DEF configVars
<1> QED
  BY <1>3, <1>4, <1>7 DEF AllInv

LEMMA KeepsQuiet ==
  ASSUME CredInv, UNCHANGED credVars PROVE CredInv'
<1>1. UNCHANGED <<profileVars, caller, granted, historyVars>> /\ UNCHANGED Apart
  BY DEF credVars, Apart, callVars, loginVars
<1> QED
  BY <1>1, ApartStays, KeepsRest DEF CredInv

LEMMA KeepsTake ==
  ASSUME AllInv, NEW c \in Caller, TakeReply(c) PROVE AllInv'
<1>0. CredTypeOK /\ GateTyped /\ GateInv /\ Turned(c)
  BY DEF AllInv, CredInv, GateInv
<1>1. /\ gate[c].pc \in {"paused", "claimed"} /\ reply[c] \in {"fallback", "cancel"}
      /\ reply' = [reply EXCEPT ![c] = "none"]
      /\ UNCHANGED credVars /\ UNCHANGED <<registered, decision>>
  BY <1>0, GateTypes DEF TakeReply
<1>2. /\ OnlyGate(c) /\ gate'[c].pc = "finishing" /\ gate'[c].choice = reply[c]
      /\ gate'[c].routing = gate[c].routing /\ gate'[c].shown = gate[c].shown
  <2>1. gate' = [gate EXCEPT ![c] = [@ EXCEPT !.pc = "finishing", !.choice = reply[c]]]
    BY <1>0, GateTypes DEF TakeReply, GateTyped, GateState
  <2> QED
    BY <1>0, <1>1, <2>1, ChoiceGate DEF Choices
<1>3. GateTyped'
  BY <1>0, <1>1, <1>2 DEF GateTyped, OnlyGate
<1>4. UNCHANGED <<profile, locus, ctxDone, caller>>
  BY <1>1 DEF credVars, configVars, callVars
<1>5. reply'[c] = "none" /\ \A b \in Caller \ {c} : reply'[b] = reply[b]
  BY <1>0, <1>1 DEF GateTyped
<1>6. Turned(c)'
  BY <1>0, <1>1, <1>2, <1>4, <1>5 DEF Turned
<1>7. ASSUME NEW d \in Decision, decision[d].call = c PROVE Sent(d)'
  BY <1>0, <1>1, <1>2, <1>5, <1>7 DEF GateInv, Sent
<1>8. GateInv'
  BY <1>0, <1>1, <1>2, <1>4, <1>5, <1>6, <1>7, LaterStays, KeepsTurn
<1> QED
  BY <1>1, <1>3, <1>8, KeepsQuiet DEF AllInv

LEMMA KeepsSee ==
  ASSUME AllInv, NEW c \in Caller, SeeLogin(c) PROVE AllInv'
<1>0. CredTypeOK /\ GateTyped /\ GateInv /\ Turned(c)
  BY DEF AllInv, CredInv, GateInv
<1>1. /\ gate[c].pc = "paused" /\ registered' = registered \ {c}
      /\ UNCHANGED credVars /\ UNCHANGED <<reply, decision>>
  BY DEF SeeLogin
<1>2. /\ OnlyGate(c)
      /\ gate'[c].routing = gate[c].routing /\ gate'[c].shown = gate[c].shown
      /\ \/ c \in registered /\ gate'[c].pc = "finishing" /\ gate'[c].choice = "login"
         \/ c \notin registered /\ gate'[c].pc = "claimed" /\ gate'[c].choice = gate[c].choice
  <2>1. CASE c \in registered
    <3>1. gate' = [gate EXCEPT ![c] = [@ EXCEPT !.pc = "finishing", !.choice = "login"]]
      BY <2>1 DEF SeeLogin
    <3> QED
      BY <1>0, <2>1, <3>1, ChoiceGate DEF Choices
  <2>2. CASE c \notin registered
    <3>1. gate' = [gate EXCEPT ![c] = [@ EXCEPT !.pc = "claimed"]]
      BY <2>2 DEF SeeLogin
    <3> QED
      BY <1>0, <2>2, <3>1, MovedGate
  <2> QED
    BY <2>1, <2>2
<1>3. GateTyped'
  BY <1>0, <1>1, <1>2 DEF GateTyped, OnlyGate
<1>4. UNCHANGED <<profile, locus, ctxDone, caller>>
  BY <1>1 DEF credVars, configVars, callVars
<1>5. Turned(c)'
  BY <1>0, <1>1, <1>2, <1>4 DEF Turned
<1>6. ASSUME NEW d \in Decision, decision[d].call = c PROVE Sent(d)'
  BY <1>0, <1>1, <1>2, <1>6 DEF GateInv, Sent
<1>7. GateInv'
  BY <1>0, <1>1, <1>2, <1>4, <1>5, <1>6, LaterStays, KeepsTurn
<1> QED
  BY <1>1, <1>3, <1>7, KeepsQuiet DEF AllInv

LEMMA KeepsSeeCancel ==
  ASSUME AllInv, NEW c \in Caller, SeeCancel(c) PROVE AllInv'
<1>0. CredTypeOK /\ GateTyped /\ GateInv /\ Turned(c)
  BY DEF AllInv, CredInv, GateInv
<1>1. /\ gate[c].pc \in {"paused", "claimed"} /\ ctxDone[c] = TRUE
      /\ UNCHANGED credVars /\ UNCHANGED <<registered, reply, decision>>
  BY <1>0 DEF SeeCancel, CredTypeOK
<1>2. /\ OnlyGate(c) /\ gate'[c].pc = "leaving" /\ gate'[c].choice = gate[c].choice
      /\ gate'[c].routing = gate[c].routing /\ gate'[c].shown = gate[c].shown
  BY <1>0, MovedGate DEF SeeCancel
<1>3. GateTyped'
  BY <1>0, <1>1, <1>2 DEF GateTyped, OnlyGate
<1>4. UNCHANGED <<profile, locus, ctxDone, caller>>
  BY <1>1 DEF credVars, configVars, callVars
<1>5. Turned(c)'
  BY <1>0, <1>1, <1>2, <1>4 DEF Turned
<1>6. GateInv'
  BY <1>0, <1>1, <1>2, <1>4, <1>5, KeepsPlace
<1> QED
  BY <1>1, <1>3, <1>6, KeepsQuiet DEF AllInv

LEMMA KeepsDepart ==
  ASSUME AllInv, NEW c \in Caller, Leave(c) PROVE AllInv'
<1>0. CredTypeOK /\ GateTyped /\ GateInv /\ Turned(c)
  BY DEF AllInv, CredInv, GateInv
<1>1. /\ gate[c].pc = "leaving" /\ registered' = registered \ {c}
      /\ UNCHANGED credVars /\ UNCHANGED <<reply, decision>>
  BY DEF Leave
<1>2. /\ OnlyGate(c) /\ gate'[c].pc = "done" /\ gate'[c].choice = gate[c].choice
      /\ gate'[c].routing = gate[c].routing /\ gate'[c].shown = gate[c].shown
  BY <1>0, OverGate DEF Leave
<1>3. GateTyped'
  BY <1>0, <1>1, <1>2 DEF GateTyped, OnlyGate
<1>4. UNCHANGED <<profile, locus, ctxDone, caller>>
  BY <1>1 DEF credVars, configVars, callVars
<1>5. Turned(c)'
  BY <1>0, <1>1, <1>2, <1>4 DEF Turned
<1>6. ASSUME NEW d \in Decision, decision[d].call = c PROVE Sent(d)'
  BY <1>0, <1>1, <1>2, <1>6 DEF GateInv, Sent
<1>7. GateInv'
  BY <1>0, <1>1, <1>2, <1>4, <1>5, <1>6, LaterStays, KeepsTurn
<1> QED
  BY <1>1, <1>3, <1>7, KeepsQuiet DEF AllInv

LEMMA KeepsFinish ==
  ASSUME AllInv, NEW c \in Caller, Finish(c) PROVE AllInv'
<1>0. CredTypeOK /\ GateTyped /\ GateInv /\ Turned(c)
  BY DEF AllInv, CredInv, GateInv
<1>1. /\ gate[c].pc = "finishing" /\ gate[c].choice \in Choices
      /\ UNCHANGED credVars /\ UNCHANGED <<registered, reply, decision>>
  BY <1>0, GateTypes DEF Finish, Turned, GateState
<1>2. \E x \in {"cancelled", "stale"} \cup Choices :
        /\ gate' = [gate EXCEPT ![c] = Over(c, x)]
        /\ \/ ctxDone[c] = TRUE
           \/ x = gate[c].choice
           \/ x = "stale" /\ gate[c].routing # Routing
  BY <1>0, <1>1 DEF Finish, CredTypeOK
<1>3. /\ OnlyGate(c) /\ gate'[c].pc = "done" /\ gate'[c].choice = gate[c].choice
      /\ gate'[c].routing = gate[c].routing /\ gate'[c].shown = gate[c].shown
      /\ \/ ctxDone[c] = TRUE
         \/ gate'[c].outcome = gate[c].choice
         \/ gate'[c].outcome = "stale" /\ gate[c].routing # Routing
  BY <1>0, <1>2, OverGate
<1>4. GateTyped'
  BY <1>0, <1>1, <1>3 DEF GateTyped, OnlyGate
<1>5. UNCHANGED <<profile, locus, ctxDone, caller>>
  BY <1>1 DEF credVars, configVars, callVars
<1>6. Turned(c)'
  BY <1>0, <1>1, <1>3, <1>5 DEF Turned, Choices, Routing
<1>7. GateInv'
  BY <1>0, <1>1, <1>3, <1>5, <1>6, KeepsPlace
<1> QED
  BY <1>1, <1>4, <1>7, KeepsQuiet DEF AllInv

OnlyDecision(d) ==
    /\ decision' \in [Decision -> DecisionState]
    /\ \A e \in Decision \ {d} : decision'[e] = decision[e]

LEMMA MovedDecision ==
  ASSUME GateTyped, NEW d \in Decision, NEW pc \in {"claiming", "ok", "refused"},
         decision' = [decision EXCEPT ![d].pc = pc]
  PROVE /\ OnlyDecision(d) /\ decision'[d].pc = pc
        /\ decision'[d].call = decision[d].call /\ decision'[d].choice = decision[d].choice
        /\ decision[d].choice \in {"none", "fallback", "cancel"}
<1>1. decision[d] \in DecisionState
  BY DEF GateTyped
<1>2. [decision[d] EXCEPT !.pc = pc] \in DecisionState
  BY <1>1 DEF DecisionState
<1> QED
  BY <1>1, <1>2 DEF OnlyDecision, GateTyped, DecisionState

LEMMA KeepsDecide ==
  ASSUME AllInv, NEW d \in Decision, Decide(d) PROVE AllInv'
<1>0. CredTypeOK /\ GateTyped /\ GateInv
  BY DEF AllInv, CredInv
<1>1. UNCHANGED credVars /\ UNCHANGED <<gate, registered, reply>>
  BY DEF Decide
<1>2. UNCHANGED <<profile, locus, ctxDone, caller>>
  BY <1>1 DEF credVars, configVars, callVars
<1>3. PICK c \in Caller, choice \in {"fallback", "cancel"}, pc \in {"refused", "checked", "stale"} :
        /\ gate[c].shown
        /\ decision' = [decision EXCEPT ![d] = [pc |-> pc, call |-> c, choice |-> choice]]
  BY DEF Decide
<1>4. [pc |-> pc, call |-> c, choice |-> choice] \in DecisionState
  BY DEF DecisionState
<1>5. OnlyDecision(d) /\ decision'[d] = [pc |-> pc, call |-> c, choice |-> choice]
  BY <1>0, <1>3, <1>4 DEF OnlyDecision, GateTyped
<1>6. \A b \in Caller : Turned(b)'
  BY <1>0, <1>1, <1>2, LaterStays, TurnedStays DEF GateInv, Same
<1>7. Sent(d)'
  <2>1. gate[c].shown = TRUE
    BY <1>0, <1>3, GateTypes DEF GateState
  <2> QED
    BY <1>1, <1>5, <2>1 DEF Sent
<1>8. \A e \in Decision \ {d} : Sent(e)'
  BY <1>0, <1>1, <1>5 DEF GateInv, Sent, OnlyDecision
<1>9. GateTyped' /\ GateInv'
  BY <1>0, <1>1, <1>5, <1>6, <1>7, <1>8 DEF GateTyped, GateInv, OnlyDecision
<1> QED
  BY <1>1, <1>9, KeepsQuiet DEF AllInv

LEMMA KeepsClaim ==
  ASSUME AllInv, NEW d \in Decision, Claim(d) PROVE AllInv'
<1>0. CredTypeOK /\ GateTyped /\ GateInv
  BY DEF AllInv, CredInv
<1>1. UNCHANGED credVars /\ UNCHANGED <<gate, reply>>
  BY DEF Claim
<1>2. UNCHANGED <<profile, locus, ctxDone, caller>>
  BY <1>1 DEF credVars, configVars, callVars
<1>3. PICK c \in Caller :
        c = decision[d].call /\ decision[d].pc = "checked" /\ decision[d].choice # "none"
        /\ gate[c].shown = TRUE /\ registered' = registered \ {c} /\ Turned(c)
  BY <1>0 DEF Claim, GateInv, Sent
<1>4. \E pc \in {"claiming", "refused"} :
        /\ decision' = [decision EXCEPT ![d].pc = pc]
        /\ pc = "claiming" <=> c \in registered
  BY <1>3 DEF Claim
<1>5. /\ OnlyDecision(d) /\ decision'[d].pc \in {"claiming", "refused"}
      /\ decision'[d].call = c /\ decision'[d].choice = decision[d].choice
      /\ decision'[d].pc = "claiming" <=> c \in registered
  BY <1>0, <1>3, <1>4, MovedDecision
<1>6. ASSUME NEW b \in Caller PROVE Turned(b)'
  BY <1>0, <1>1, <1>2, <1>3 DEF GateInv, Turned, Routing
<1>7. Sent(d)'
  BY <1>0, <1>1, <1>3, <1>5 DEF GateInv, Sent, OnlyDecision, Turned
<1>8. ASSUME NEW e \in Decision \ {d} PROVE Sent(e)'
  BY <1>0, <1>1, <1>3, <1>5 DEF GateInv, Sent, OnlyDecision
<1>9. GateTyped' /\ GateInv'
  BY <1>0, <1>1, <1>3, <1>5, <1>6, <1>7, <1>8 DEF GateTyped, GateInv, OnlyDecision
<1> QED
  BY <1>1, <1>9, KeepsQuiet DEF AllInv

LEMMA KeepsReply ==
  ASSUME AllInv, NEW d \in Decision, Reply(d) PROVE AllInv'
<1>0. CredTypeOK /\ GateTyped /\ GateInv
  BY DEF AllInv, CredInv
<1>1. UNCHANGED credVars /\ UNCHANGED <<gate, registered>>
  BY DEF Reply
<1>2. UNCHANGED <<profile, locus, ctxDone, caller>>
  BY <1>1 DEF credVars, configVars, callVars
<1>3. PICK c \in Caller :
        /\ c = decision[d].call /\ decision[d].pc = "claiming" /\ decision[d].choice # "none"
        /\ gate[c].shown = TRUE /\ c \notin registered
        /\ reply[c] = "none" /\ gate[c].choice = "none"
        /\ reply' = [reply EXCEPT ![c] = decision[d].choice]
  BY <1>0 DEF Reply, GateInv, Sent
<1>4. /\ OnlyDecision(d) /\ decision'[d].pc = "ok" /\ decision'[d].call = c
      /\ decision'[d].choice = decision[d].choice
      /\ decision[d].choice \in {"none", "fallback", "cancel"}
  BY <1>0, <1>3, MovedDecision DEF Reply
<1>5. /\ reply' \in [Caller -> {"none", "fallback", "cancel"}]
      /\ reply'[c] = decision[d].choice /\ \A b \in Caller \ {c} : reply'[b] = reply[b]
  BY <1>0, <1>3, <1>4 DEF GateTyped
<1>6. ASSUME NEW b \in Caller PROVE Turned(b)'
  BY <1>0, <1>1, <1>2, <1>3, <1>5 DEF GateInv, Turned, Routing
<1>7. Sent(d)'
  BY <1>0, <1>1, <1>3, <1>4, <1>5 DEF GateInv, Sent, OnlyDecision
<1>8. ASSUME NEW e \in Decision \ {d} PROVE Sent(e)'
  <2>1. decision[e].pc \in {"claiming", "ok"} => decision[e].call # c
    BY <1>0, <1>3 DEF GateInv, Sent
  <2> QED
    BY <1>0, <1>1, <1>3, <1>4, <1>5, <2>1 DEF GateInv, Sent, OnlyDecision
<1>9. GateTyped' /\ GateInv'
  BY <1>0, <1>1, <1>4, <1>5, <1>6, <1>7, <1>8 DEF GateTyped, GateInv, OnlyDecision
<1> QED
  BY <1>1, <1>9, KeepsQuiet DEF AllInv

LEMMA KeepsCancelStale ==
  ASSUME AllInv, NEW d \in Decision, CancelStale(d) PROVE AllInv'
<1>0. CredTypeOK /\ GateTyped /\ GateInv
  BY DEF AllInv, CredInv
<1>1. UNCHANGED credVars /\ UNCHANGED gate
  BY DEF CancelStale
<1>2. UNCHANGED <<profile, locus, ctxDone, caller>>
  BY <1>1 DEF credVars, configVars, callVars
<1>3. PICK c \in Caller :
        /\ c = decision[d].call /\ decision[d].pc = "stale" /\ gate[c].shown = TRUE
        /\ registered' = registered \ {c}
        /\ reply' = IF c \in registered THEN [reply EXCEPT ![c] = "cancel"] ELSE reply
  BY <1>0 DEF CancelStale, GateInv, Sent
<1>4. /\ OnlyDecision(d) /\ decision'[d].pc = "refused"
  BY <1>0, MovedDecision DEF CancelStale
<1>5. /\ reply' \in [Caller -> {"none", "fallback", "cancel"}]
      /\ c \in registered => reply'[c] = "cancel"
      /\ c \notin registered => reply'[c] = reply[c]
      /\ \A b \in Caller \ {c} : reply'[b] = reply[b]
  BY <1>0, <1>3 DEF GateTyped
<1>6. ASSUME NEW b \in Caller PROVE Turned(b)'
  BY <1>0, <1>1, <1>2, <1>3, <1>5 DEF GateInv, Turned, Routing
<1>7. Sent(d)'
  BY <1>4 DEF Sent
<1>8. ASSUME NEW e \in Decision \ {d} PROVE Sent(e)'
  BY <1>0, <1>1, <1>3, <1>4, <1>5 DEF GateInv, Sent, OnlyDecision
<1>9. GateTyped' /\ GateInv'
  BY <1>0, <1>1, <1>3, <1>4, <1>5, <1>6, <1>7, <1>8 DEF GateTyped, GateInv, OnlyDecision
<1> QED
  BY <1>1, <1>9, KeepsQuiet DEF AllInv

\* The gates do not move: a call in Token, a refresh, a user, the end of a turn.
LEMMA KeepsGates ==
  ASSUME CredTypeOK, GateTyped, GateInv, UNCHANGED gateVars, Later,
         \A b \in Caller : caller'[b].pc # "idle" => caller[b].pc # "idle"
  PROVE GateTyped' /\ GateInv'
<1>1. \A b \in Caller : Turned(b)'
  BY TurnedStays DEF GateInv, Same, gateVars
<1>2. \A d \in Decision : Sent(d)'
  BY SentStays DEF GateInv, Same, gateVars
<1> QED
  BY <1>1, <1>2 DEF GateTyped, GateInv, gateVars

LEMMA KeepsCall ==
  ASSUME AllInv, NEW c \in Caller, CallStep(c), UNCHANGED gateVars PROVE AllInv'
<1>0. CredInv /\ CredTypeOK /\ GateTyped /\ GateInv /\ caller \in [Caller -> CallState]
  BY CallTypes DEF AllInv, CredInv
<1>1. ASSUME Return(c) PROVE CredInv'
  <2>1. /\ Resets(c) /\ UNCHANGED <<profileVars, granted, historyVars>>
        /\ UNCHANGED <<loginVars, configVars, ctxDone, budget>>
    BY <1>1 DEF Return, Resets
  <2>2. UNCHANGED Apart
    BY <2>1 DEF Apart, loginVars
  <2> QED
    BY <1>0, <2>1, <2>2, ApartStays, KeepsReset
<1>2. CredInv'
  BY <1>0, <1>1, KeepsJoin, KeepsStart, KeepsLeave DEF CallStep
<1>3. \E x : caller' = [caller EXCEPT ![c] = x]
  BY DEF CallStep, Return, Join, StartFlight, GiveUp, Awake
<1>4. caller[c].pc # "idle"
  BY DEF CallStep, Return, Join, StartFlight, GiveUp, Awake, Acquiring
<1>5. UNCHANGED <<profile, locus, ctxDone>>
  BY DEF CallStep, Return, Join, StartFlight, GiveUp, Awake, configVars
<1>6. \A b \in Caller : caller'[b].pc # "idle" => caller[b].pc # "idle"
  BY <1>0, <1>3, <1>4
<1> QED
  BY <1>0, <1>2, <1>5, <1>6, LaterStays, KeepsGates DEF AllInv

LEMMA KeepsUser ==
  ASSUME AllInv, CredNext, UNCHANGED gateVars PROVE AllInv'
<1>0. CredInv /\ CredTypeOK /\ GateTyped /\ GateInv
  BY DEF AllInv, CredInv
<1>1. UNCHANGED <<caller, ctxDone>>
  BY DEF CredNext, FlightStep, LoginStep, Refresh, LoseResponse, SettleStale, Settle, SettleWrite,
         SettleFails, BeginLogin, Approve, CommitLogin, CloseLogin, Overwrite, EditConfig, Expire,
         callVars
<1>2. profile' \in {profile, profile + 1} /\ locus' \in {locus, locus + 1}
  BY DEF CredNext, FlightStep, LoginStep, Refresh, LoseResponse, SettleStale, Settle, SettleWrite,
         SettleFails, BeginLogin, Approve, CommitLogin, CloseLogin, Overwrite, EditConfig, Expire,
         configVars
<1>3. Later
  <2>1. profile \in Nat /\ locus \in Nat
    BY <1>0 DEF CredTypeOK
  <2> QED
    BY <1>1, <1>2, <2>1 DEF Later
<1> QED
  BY <1>0, <1>1, <1>3, KeepsCred, KeepsGates DEF AllInv

LEMMA KeepsCancelTurn ==
  ASSUME AllInv, NEW c \in Caller, CancelTurn(c) PROVE AllInv'
<1>0. CredInv /\ CredTypeOK /\ GateTyped /\ GateInv
  BY DEF AllInv, CredInv
<1>1. /\ ctxDone' = [ctxDone EXCEPT ![c] = TRUE] /\ UNCHANGED gateVars
      /\ UNCHANGED <<profileVars, caller, granted, historyVars>>
      /\ UNCHANGED <<loginVars, configVars, budget>>
  BY DEF CancelTurn
<1>2. ctxDone \in [Caller -> BOOLEAN] /\ profile \in Nat /\ locus \in Nat
  BY <1>0 DEF CredTypeOK
<1>3. ApartTyped'
  BY <1>0, <1>1, <1>2 DEF ApartTyped, CredTypeOK, loginVars, configVars
<1>4. Later
  BY <1>1, <1>2 DEF Later, configVars
<1> QED
  BY <1>0, <1>1, <1>3, <1>4, KeepsRest, KeepsGates DEF AllInv

LEMMA KeepsNothing ==
  ASSUME AllInv, UNCHANGED vars PROVE AllInv'
<1>1. UNCHANGED credVars /\ UNCHANGED gateVars /\ UNCHANGED <<profile, locus, ctxDone, caller>>
  BY DEF vars, credVars, configVars, callVars
<1> QED
  BY <1>1, LaterStays, KeepsQuiet, KeepsGates DEF AllInv, CredInv

LEMMA AllInvNext == AllInv /\ [Next]_vars => AllInv'
<1> SUFFICES ASSUME AllInv, [Next]_vars PROVE AllInv'
  OBVIOUS
<1>1. CASE CredNext /\ UNCHANGED gateVars
  BY <1>1, KeepsUser
<1>2. ASSUME NEW c \in Caller, Start(c) \/ GateStep(c) \/ CancelTurn(c) PROVE AllInv'
  BY <1>2, KeepsAsk, KeepsCall, KeepsConclude, KeepsPause, KeepsTake, KeepsSee, KeepsSeeCancel,
     KeepsDepart, KeepsFinish, KeepsCancelTurn DEF GateStep
<1>3. ASSUME NEW d \in Decision, Decide(d) \/ DecisionStep(d) PROVE AllInv'
  BY <1>3, KeepsDecide, KeepsClaim, KeepsReply, KeepsCancelStale DEF DecisionStep
<1> QED
  BY <1>1, <1>2, <1>3, KeepsNothing DEF Next

LEMMA AllInvInit == Init => AllInv
<1> SUFFICES ASSUME Init PROVE AllInv
  OBVIOUS
<1>1. PICK s \in Scenes :
        /\ CredInit(s.stores, s.logins, s.bounds)
        /\ gate = [c \in Caller |->
               [pc |-> IF c \in s.calls THEN "off" ELSE "done", routing |-> <<0, 0>>,
                watched |-> 0, shown |-> FALSE, choice |-> "none", outcome |-> "none"]]
        /\ registered = {}
        /\ reply = [c \in Caller |-> "none"]
        /\ decision = [d \in Decision |->
               [pc |-> IF d \in s.decisions THEN "unsent" ELSE "refused",
                call |-> NoCaller, choice |-> "none"]]
  BY DEF Init
<1>2. /\ store \in {SignedIn(0), Expired(0), Missing(0)} /\ generation = 0 /\ current = NoFlight
      /\ flight = [f \in Flight |-> NewFlight] /\ login = NoLogin /\ logins = 0
      /\ profile = 0 /\ locus = 0 /\ edited = FALSE /\ granted = [w \in {0} |-> 1]
      /\ caller = [c \in Caller |-> CallAt("idle", "none")]
      /\ ctxDone = [c \in Caller |-> FALSE] /\ writes = 0 /\ lost = {}
      /\ budget \in [{"expiry", "write", "fault", "edit"} -> Nat]
      /\ attempt = [l \in Login |-> [pc |-> IF l \in s.logins THEN "new" ELSE "closed",
                                     done |-> l \notin s.logins, before |-> 0]]
  BY <1>1, GateAssumption DEF CredInit
<1>3. store \in TokenSet /\ store.root = 0 /\ store.grant \in {0, 1}
  <2>1. SignedIn(0).root = 0 /\ Expired(0).root = 0 /\ Missing(0).root = 0
    BY DEF SignedIn, Expired, Missing
  <2>2. SignedIn(0).grant = 1 /\ Expired(0).grant = 1 /\ Missing(0).grant = 0
    BY DEF SignedIn, Expired, Missing
  <2>3. SignedIn(0) \in TokenSet /\ Expired(0) \in TokenSet /\ Missing(0) \in TokenSet
    BY SetTypes
  <2> QED
    BY <1>2, <2>1, <2>2, <2>3
<1>4. CredTypeOK
  <2>1. flight \in [Flight -> FlightState]
    BY <1>2, NewFlightType
  <2>2. caller \in [Caller -> CallState]
    BY <1>2, CallAtType
  <2>3. granted \in [0..writes -> Nat]
    BY <1>2
  <2>4. attempt \in Attempts
    BY <1>2 DEF Attempts
  <2>5. ctxDone \in [Caller -> BOOLEAN]
    BY <1>2
  <2>6. logins \in Nat /\ profile \in Nat /\ locus \in Nat /\ writes \in Nat
    BY <1>2
  <2>7. edited \in BOOLEAN
    BY <1>2
  <2>8. lost \subseteq Nat \X Nat
    BY <1>2
  <2> QED
    BY <1>2, <1>3, <2>1, <2>2, <2>3, <2>4, <2>5, <2>6, <2>7, <2>8 DEF CredTypeOK, Attempts
<1>5. ASSUME NEW f \in Flight PROVE Counted(f) /\ OthersKnow(f) /\ Valued(f)
  <2>1. Waiters(f) = {}
    BY <1>2 DEF Waiters, CallAt
  <2>2. flight[f] = NewFlight /\ NewFlight.pc = "unused" /\ NewFlight.res = "none"
        /\ NewFlight.waiters = 0
    BY <1>2 DEF NewFlight
  <2> QED
    BY <2>1, <2>2, FS_EmptySet DEF Counted, OthersKnow, Valued
<1>6. ASSUME NEW c \in Caller PROVE Since(c) /\ caller[c].pc = "idle"
  BY <1>2 DEF Since, CallAt
<1>7. CurrentOwns /\ GrantKept /\ store.root = writes
  BY <1>2, <1>3 DEF CurrentOwns, GrantKept
<1>8. GateTyped
  BY <1>1 DEF GateTyped, GateState, DecisionState
<1>9. ASSUME NEW c \in Caller PROVE Turned(c)
  <2>1. /\ gate[c].pc \in {"off", "done"} /\ gate[c].routing = <<0, 0>>
        /\ gate[c].shown = FALSE /\ gate[c].choice = "none"
    BY <1>1
  <2>2. reply[c] = "none" /\ c \notin registered
    BY <1>1
  <2> QED
    BY <1>2, <1>6, <2>1, <2>2 DEF Turned
<1>10. \A d \in Decision : Sent(d)
  BY <1>1 DEF Sent
<1> QED
  BY <1>4, <1>5, <1>6, <1>7, <1>8, <1>9, <1>10 DEF AllInv, CredInv, FlightInv, CallInv, GateInv

LEMMA AlwaysAllInv == Spec => []AllInv
  BY AllInvInit, AllInvNext, PTL DEF Spec

LEMMA AllInvLatest == AllInv => LatestCredential
  BY DEF AllInv, CredInv, CallInv, Since, LatestCredential

LEMMA AllInvStands == AllInv => DecisionStands
<1> SUFFICES ASSUME AllInv PROVE DecisionStands
  OBVIOUS
<1>1. TypeOK
  BY TypeSplits DEF AllInv, CredInv
<1>2. ASSUME NEW d \in Decision, decision[d].pc = "ok" PROVE
        LET c == decision[d].call IN
          /\ gate[c].choice \in {"none", decision[d].choice}
          /\ gate[c].pc = "done" =>
                \/ gate[c].outcome = decision[d].choice
                \/ ctxDone[c]
                \/ gate[c].outcome = "stale" /\ gate[c].routing # Routing
          /\ \A e \in Decision \ {d} :
                decision[e].pc = "ok" => decision[e].call # c
  <2>1. PICK c \in Caller : c = decision[d].call /\ Turned(c)
    BY <1>2 DEF AllInv, GateInv, Sent
  <2> QED
    BY <1>2, <2>1 DEF AllInv, GateInv, Sent, Turned
<1> QED
  BY <1>1, <1>2 DEF DecisionStands

(* What is stored goes back to the last thing a user did, and a call is     *)
(* handed nothing older than its last look at the profile: whatever the     *)
(* number of callers, flights and sign-ins, and however often the           *)
(* credential expires or is replaced while a refresh is under way.          *)
THEOREM CredentialIsLatest == Spec => []LatestCredential
  BY AlwaysAllInv, AllInvLatest, PTL

(* No two refreshes use one grant: the stored set can be refreshed, unless  *)
(* an answer was lost on its way or could not be stored.                    *)
THEOREM GrantIsKept == Spec => []GrantKept
<1>1. AllInv => GrantKept
  BY DEF AllInv, CredInv
<1> QED
  BY <1>1, AlwaysAllInv, PTL

(* The waiter of a paused call is claimed once, by a sign-in or by one      *)
(* decision, and the call gets the decision a client was told is taken.     *)
THEOREM DecisionIsFinal == Spec => []DecisionStands
  BY AlwaysAllInv, AllInvStands, PTL
=============================================================================
