---------------------------- MODULE Credentials ----------------------------
(***************************************************************************)
(* The credential owner of one subscription profile:                       *)
(* source/server/internal/hostsvc/credentials, with the part of the config *)
(* service that couples a login to the profile it is for                   *)
(* (hostsvc/config/cloud_login.go) and, as its environment, the            *)
(* authorization server, whose refresh grants can be used once.            *)
(*                                                                         *)
(* Callers share one refresh (a flight). The locks are held only to join,  *)
(* leave and settle a flight and to begin, commit and close a login, so    *)
(* each of these is an action; the refresh and the login itself run        *)
(* between them.                                                           *)
(***************************************************************************)
EXTENDS Naturals

CONSTANTS
    Caller,         \* calls of Source.Token
    Login,          \* interactive sign-ins
    NoLogin,        \* no registered sign-in
    MaxTries,       \* rounds of acquire, 3 in the code
    MaxFlights      \* bound: refreshes whose goroutines exist at once

Flight == 1..MaxFlights
NoFlight == 0

ASSUME CredentialsAssumption ==
    /\ NoLogin \notin Login
    /\ MaxTries \in Nat \ {0} /\ MaxFlights \in Nat

VARIABLES
    store,      \* the stored token set
    generation, \* profileState.generation
    current,    \* profileState.flight
    flight,     \* flight[f]: a refresh and its goroutine
    login,      \* profileState.login
    attempt,    \* attempt[l]: a LoginAttempt
    logins,     \* how often loginCompleted was closed
    profile,    \* the version of the profile's configuration
    locus,      \* the version of the rest of the routing configuration
    caller,     \* caller[c]: a call of acquire
    ctxDone,    \* ctxDone[c]: the context of c's turn is done
    granted,    \* granted[w]: the number of the grant the authorization server
                \* takes from the sign-in of write w
    edited,     \* history: a user changed the configuration
    writes,     \* history: sign-ins committed, credentials deleted or replaced
    lost,       \* history: grants used for a refresh that nobody could keep
    budget      \* bound: what the environment may still do, by kind

profileVars == <<store, generation, current, flight>>
loginVars == <<login, attempt, logins>>
configVars == <<profile, locus, edited>>
callVars == <<caller, ctxDone>>
historyVars == <<writes, lost>>
credVars == <<profileVars, loginVars, configVars, callVars, granted, historyVars, budget>>

(* A token set: the user's write it goes back to, its refresh grant, which  *)
(* is the n-th of that sign-in (0: nothing is stored), and its expiry.     *)
TokenSet == [root : Nat, grant : Nat, fresh : BOOLEAN]
SignedIn(w) == [root |-> w, grant |-> 1, fresh |-> TRUE]
Expired(w) == [root |-> w, grant |-> 1, fresh |-> FALSE]
Missing(w) == [root |-> w, grant |-> 0, fresh |-> FALSE]
Results == {"token", "login", "failed"}

FlightState ==
    [pc : {"unused", "asking", "answered", "exited"} \cup Results,
     snap : TokenSet, gen : Nat, waiters : Nat, done : BOOLEAN,
     superseded : BOOLEAN, abandoned : BOOLEAN, cancelled : BOOLEAN,
     value : TokenSet, res : {"none"} \cup Results]

CallState ==
    [pc : {"idle", "acquire", "waiting", "returned"},
     flight : Flight \cup {NoFlight}, tries : 0..MaxTries,
     since : Nat, token : TokenSet,
     res : {"none", "cancelled", "replaced"} \cup Results]

CredTypeOK ==
    /\ store \in TokenSet /\ generation \in Nat
    /\ current \in Flight \cup {NoFlight}
    /\ flight \in [Flight -> FlightState]
    /\ login \in Login \cup {NoLogin}
    /\ attempt \in [Login -> [pc : {"new", "open", "approved", "closed"},
                              done : BOOLEAN, before : Nat]]
    /\ {logins, profile, locus, writes} \subseteq Nat /\ edited \in BOOLEAN
    /\ caller \in [Caller -> CallState] /\ ctxDone \in [Caller -> BOOLEAN]
    /\ granted \in [0..writes -> Nat] /\ lost \subseteq Nat \X Nat
    /\ budget \in [{"expiry", "write", "fault", "edit"} -> Nat]

NewFlight ==
    [pc |-> "unused", snap |-> Missing(0), gen |-> 0, waiters |-> 0, done |-> FALSE,
     superseded |-> FALSE, abandoned |-> FALSE, cancelled |-> FALSE,
     value |-> Missing(0), res |-> "none"]

CallAt(pc, res) ==
    [pc |-> pc, flight |-> NoFlight, tries |-> 0, since |-> 0, token |-> Missing(0),
     res |-> res]

(* The environment: a bound for each kind of what may happen, the stored    *)
(* sets to start from, and the sign-ins that are still to come.            *)
CredInit(stores, todo, bounds) ==
    /\ store \in stores
    /\ generation = 0 /\ current = NoFlight
    /\ flight = [f \in Flight |-> NewFlight]
    /\ login = NoLogin /\ logins = 0
    /\ attempt = [l \in Login |-> [pc |-> IF l \in todo THEN "new" ELSE "closed",
                                   done |-> l \notin todo, before |-> 0]]
    /\ profile = 0 /\ locus = 0 /\ edited = FALSE
    /\ caller = [c \in Caller |-> CallAt("idle", "none")]
    /\ ctxDone = [c \in Caller |-> FALSE]
    /\ granted = [w \in {0} |-> 1]
    /\ writes = 0 /\ lost = {}
    /\ budget = bounds

Spend(what) ==
    /\ budget[what] > 0
    /\ budget' = [budget EXCEPT ![what] = @ - 1]

-----------------------------------------------------------------------------
(* acquire *)

(* Token begins. *)
Ask(c) == caller' = [caller EXCEPT ![c] = CallAt("acquire", "none")]

(* ctx.Err() at the top of a round; after the last, replaced_repeatedly.   *)
Return(c) ==
    /\ caller[c].pc = "acquire" /\ (ctxDone[c] \/ caller[c].tries = MaxTries)
    /\ caller' = [caller EXCEPT ![c] =
           CallAt("returned", IF caller[c].tries = MaxTries THEN "replaced" ELSE "cancelled")]
    /\ UNCHANGED <<profileVars, loginVars, configVars, ctxDone, granted, historyVars, budget>>

Acquiring(c) == caller[c].pc = "acquire" /\ ~ctxDone[c] /\ caller[c].tries < MaxTries

Waiting(c, f) ==
    [caller[c] EXCEPT !.pc = "waiting", !.flight = f, !.since = writes]

(* Join the flight that is under way ... *)
Join(c) ==
    /\ Acquiring(c) /\ current # NoFlight
    /\ flight' = [flight EXCEPT ![current].waiters = @ + 1]
    /\ caller' = [caller EXCEPT ![c] = Waiting(c, current)]
    /\ UNCHANGED <<store, generation, current, loginVars, configVars, ctxDone, granted,
                   historyVars, budget>>

(* What the provider's Source makes of the snapshot it loads. *)
Examined(s) ==
    IF s.grant = 0 THEN "login" ELSE IF s.fresh THEN "token" ELSE "asking"

(* ... or start one on a snapshot of the store. *)
StartFlight(c) ==
    /\ Acquiring(c) /\ current = NoFlight
    /\ \E f \in Flight :
          /\ flight[f].pc = "unused"
          /\ \A g \in Flight : g < f => flight[g].pc # "unused"
          /\ current' = f
          /\ flight' = [flight EXCEPT ![f] =
                 [NewFlight EXCEPT !.pc = Examined(store), !.snap = store,
                                   !.gen = generation, !.waiters = 1]]
          /\ caller' = [caller EXCEPT ![c] = Waiting(c, f)]
    /\ UNCHANGED <<store, generation, loginVars, configVars, ctxDone, granted, historyVars,
                   budget>>

(* A flight is forgotten when its goroutine has ended and nobody waits.    *)
Kept(fl) == IF fl.pc = "exited" /\ fl.waiters = 0 THEN NewFlight ELSE fl

Left(f) == [flight EXCEPT ![f] = Kept([flight[f] EXCEPT !.waiters = @ - 1])]

Last(f) == current = f /\ flight[f].waiters = 1

GivenUp(f) ==
    [flight EXCEPT ![f] = [@ EXCEPT !.waiters = 0, !.abandoned = TRUE, !.cancelled = TRUE]]

(* Mutant: the flight is given up with its last waiter. *)
GiveUpForgets(c) ==
    LET f == caller[c].flight IN
    /\ caller[c].pc = "waiting" /\ ctxDone[c]
    /\ flight' = IF Last(f) THEN GivenUp(f) ELSE Left(f)
    /\ current' = IF Last(f) THEN NoFlight ELSE current
    /\ caller' = [caller EXCEPT ![c] = CallAt("returned", "cancelled")]
    /\ UNCHANGED <<store, generation, loginVars, configVars, ctxDone, granted, historyVars,
                   budget>>

(* case <-ctx.Done(): the last waiter cancels the flight, which stays the    *)
(* current one until it has settled.                                       *)
GiveUp(c) ==
    LET f == caller[c].flight IN
    /\ caller[c].pc = "waiting" /\ ctxDone[c]
    /\ flight' = IF Last(f) THEN GivenUp(f) ELSE Left(f)
    /\ caller' = [caller EXCEPT ![c] = CallAt("returned", "cancelled")]
    /\ UNCHANGED <<store, generation, current, loginVars, configVars, ctxDone, granted,
                   historyVars, budget>>

(* case <-f.done: another round if the flight was superseded or given up.  *)
Awake(c) ==
    LET f == caller[c].flight IN
    /\ caller[c].pc = "waiting" /\ flight[f].done
    /\ flight' = Left(f)
    /\ caller' = [caller EXCEPT ![c] =
           IF ctxDone[c] THEN CallAt("returned", "cancelled")
           ELSE IF flight[f].superseded \/ flight[f].abandoned
           THEN [CallAt("acquire", "none") EXCEPT !.tries = caller[c].tries + 1]
           ELSE [CallAt("returned", flight[f].res) EXCEPT !.token = flight[f].value,
                                                        !.since = caller[c].since]]
    /\ UNCHANGED <<store, generation, current, loginVars, configVars, ctxDone, granted,
                   historyVars, budget>>

-----------------------------------------------------------------------------
(* run: the goroutine of a flight *)

Grant(s) == <<s.root, s.grant>>

(* The refresh request reaches the authorization server, cancelled or not:  *)
(* it takes the grant and gives a new one, or answers invalid_grant.       *)
Refresh(f) ==
    /\ flight[f].pc = "asking"
    /\ LET s == flight[f].snap IN
       IF granted[s.root] = s.grant
       THEN /\ granted' = [granted EXCEPT ![s.root] = @ + 1]
            /\ flight' = [flight EXCEPT ![f].pc = "answered",
                            ![f].value = [s EXCEPT !.grant = @ + 1, !.fresh = TRUE]]
       ELSE /\ flight' = [flight EXCEPT ![f].pc = "login"]
            /\ UNCHANGED granted
    /\ UNCHANGED <<store, generation, current, loginVars, configVars, callVars, historyVars,
                   budget>>

(* The response does not arrive: the context was cancelled, or the network  *)
(* failed or took longer than refreshTimeout.                              *)
LoseResponse(f) ==
    /\ flight[f].pc \in {"asking", "answered"}
    /\ IF flight[f].cancelled THEN UNCHANGED budget ELSE Spend("fault")
    /\ flight' = [flight EXCEPT ![f].pc = "failed"]
    /\ lost' = IF flight[f].pc = "answered" THEN lost \cup {Grant(flight[f].snap)} ELSE lost
    /\ UNCHANGED <<store, generation, current, loginVars, configVars, callVars, granted,
                   writes>>

Resolved(f) == flight[f].pc \in Results \cup {"answered"}

Settled(f, res, value) ==
    [flight EXCEPT ![f] = Kept([@ EXCEPT !.pc = "exited", !.done = TRUE, !.res = res,
                                         !.value = value])]

(* The flight no longer owns the profile: its result goes nowhere. *)
SettleStale(f) ==
    /\ Resolved(f)
    /\ current # f \/ generation # flight[f].gen
    /\ flight' = [flight EXCEPT ![f] = Kept([@ EXCEPT !.pc = "exited"])]
    /\ UNCHANGED <<store, generation, current, loginVars, configVars, callVars, granted,
                   historyVars, budget>>

(* It owns the profile and has nothing to write. *)
Settle(f) ==
    /\ flight[f].pc \in Results
    /\ current = f /\ generation = flight[f].gen
    /\ flight' = Settled(f, flight[f].pc,
                         IF flight[f].pc = "token" THEN flight[f].snap ELSE Missing(0))
    /\ current' = NoFlight
    /\ UNCHANGED <<store, generation, loginVars, configVars, callVars, granted, historyVars,
                   budget>>

(* Mutant: the refreshed set is written whatever happened meanwhile. *)
SettleWriteAnyway(f) ==
    /\ flight[f].pc = "answered"
    /\ store' = flight[f].value
    /\ generation' = generation + 1
    /\ flight' = Settled(f, "token", flight[f].value)
    /\ current' = IF current = f THEN NoFlight ELSE current
    /\ UNCHANGED <<loginVars, configVars, callVars, granted, historyVars, budget>>

(* It owns the profile and writes the refreshed set ... *)
SettleWrite(f) ==
    /\ flight[f].pc = "answered"
    /\ current = f /\ generation = flight[f].gen
    /\ store' = flight[f].value
    /\ generation' = generation + 1
    /\ flight' = Settled(f, "token", flight[f].value)
    /\ current' = NoFlight
    /\ UNCHANGED <<loginVars, configVars, callVars, granted, historyVars, budget>>

(* ... or cannot: no token is handed out that was not stored. *)
SettleFails(f) ==
    /\ flight[f].pc = "answered"
    /\ current = f /\ generation = flight[f].gen
    /\ Spend("fault")
    /\ lost' = lost \cup {Grant(flight[f].snap)}
    /\ flight' = Settled(f, "failed", Missing(0))
    /\ current' = NoFlight
    /\ UNCHANGED <<store, generation, loginVars, configVars, callVars, granted, writes>>

-----------------------------------------------------------------------------
(* Replacement of the credential *)

(* cancelLogin *)
WithoutLogin ==
    [l \in Login |-> IF l = login THEN [attempt[l] EXCEPT !.done = TRUE] ELSE attempt[l]]

(* Mutant: the waiters of the superseded flight are not woken. *)
InvalidateQuietly ==
    /\ generation' = generation + 1
    /\ current' = NoFlight
    /\ flight' = [f \in Flight |->
           IF f = current
           THEN [flight[f] EXCEPT !.superseded = TRUE, !.cancelled = TRUE]
           ELSE flight[f]]
    /\ login' = NoLogin

(* invalidate: cancel the sign-in, supersede the flight, wake its waiters. *)
Invalidate ==
    /\ generation' = generation + 1
    /\ current' = NoFlight
    /\ flight' = [f \in Flight |->
           IF f = current
           THEN [flight[f] EXCEPT !.superseded = TRUE, !.cancelled = TRUE, !.done = TRUE]
           ELSE flight[f]]
    /\ login' = NoLogin

(* The authorization server knows the new sign-in's first grant. *)
Granting(w) == [v \in 0..w |-> IF v = w THEN 1 ELSE granted[v]]

(* Service.Delete, and Service.Set with a set from elsewhere. *)
Overwrite ==
    /\ Spend("write")
    /\ Invalidate
    /\ attempt' = WithoutLogin
    /\ writes' = writes + 1
    /\ store' \in {Missing(writes + 1), SignedIn(writes + 1)}
    /\ granted' = Granting(writes + 1)
    /\ UNCHANGED <<logins, configVars, callVars, lost>>

-----------------------------------------------------------------------------
(* Sign-ins *)

(* BeginCloudLogin: it replaces a sign-in that is under way. *)
BeginLogin(l) ==
    /\ attempt[l].pc = "new"
    /\ attempt' = [WithoutLogin EXCEPT ![l].pc = "open", ![l].before = profile]
    /\ login' = l
    /\ UNCHANGED <<profileVars, logins, configVars, callVars, granted, historyVars, budget>>

(* The user signs in at the provider, which grants a token set. *)
Approve(l) ==
    /\ attempt[l].pc = "open"
    /\ attempt' = [attempt EXCEPT ![l].pc = "approved"]
    /\ UNCHANGED <<profileVars, login, logins, configVars, callVars, granted, historyVars, budget>>

(* CloudLogin.Commit: under both locks write, invalidate, broadcast, and if  *)
(* the provider named another account than before, update the profile; a   *)
(* sign-in that asked to also makes it the active profile.                 *)
CommitLogin(l) ==
    /\ attempt[l].pc = "approved" /\ ~attempt[l].done
    /\ attempt[l].before = profile /\ login = l
    /\ store' = SignedIn(writes + 1)
    /\ granted' = Granting(writes + 1)
    /\ writes' = writes + 1
    /\ Invalidate
    /\ attempt' = [WithoutLogin EXCEPT ![l].pc = "closed", ![l].before = 0]
    /\ logins' = logins + 1
    /\ profile' \in {profile, profile + 1} /\ locus' \in {locus, locus + 1}
    /\ edited' = (edited \/ locus' # locus)
    /\ UNCHANGED <<callVars, lost, budget>>

(* The sign-in is refused (cancelled, superseded, or its profile changed),  *)
(* cannot be stored, or is given up; LoginAttempt.Close.                   *)
CloseLogin(l) ==
    /\ attempt[l].pc \in {"open", "approved"}
    /\ attempt' = [attempt EXCEPT ![l] = [pc |-> "closed", done |-> TRUE, before |-> 0]]
    /\ login' = IF login = l THEN NoLogin ELSE login
    /\ UNCHANGED <<profileVars, logins, configVars, callVars, granted, historyVars, budget>>

(* Config edits: of the profile, which cancels its sign-in (UpsertProfile,  *)
(* Mutate, Set), or of other routing.                                      *)
EditConfig ==
    /\ Spend("edit") /\ edited' = TRUE
    /\ \/ /\ profile' = profile + 1 /\ UNCHANGED locus
          /\ attempt' = WithoutLogin /\ login' = NoLogin
       \/ /\ locus' = locus + 1 /\ UNCHANGED profile
          /\ UNCHANGED <<attempt, login>>
    /\ UNCHANGED <<profileVars, logins, callVars, granted, historyVars>>

(* The access token in the store comes to its expiry. *)
Expire ==
    /\ store.fresh /\ Spend("expiry")
    /\ store' = [store EXCEPT !.fresh = FALSE]
    /\ UNCHANGED <<generation, current, flight, loginVars, configVars, callVars, granted,
                   historyVars>>

-----------------------------------------------------------------------------
CallStep(c) == Return(c) \/ Join(c) \/ StartFlight(c) \/ GiveUp(c) \/ Awake(c)

FlightStep(f) ==
    Refresh(f) \/ LoseResponse(f) \/ SettleStale(f) \/ Settle(f) \/ SettleWrite(f) \/ SettleFails(f)

LoginStep(l) == BeginLogin(l) \/ Approve(l) \/ CommitLogin(l) \/ CloseLogin(l)

(* What happens apart from the calls. *)
CredNext ==
    \/ \E f \in Flight : FlightStep(f)
    \/ \E l \in Login : LoginStep(l)
    \/ Overwrite \/ EditConfig \/ Expire

-----------------------------------------------------------------------------
(* What is stored goes back to the last thing a user did, sign in, delete   *)
(* or replace: no refresh that was under way brings an older credential    *)
(* back (service.go:4). A call is not handed a token older than its last   *)
(* look at the profile, nor one that was not stored.                       *)
LatestCredential ==
    /\ CredTypeOK
    /\ store.root = writes
    /\ \A c \in Caller : caller[c].res = "token" =>
          /\ caller[c].token.root >= caller[c].since
          /\ caller[c].token.root = store.root => caller[c].token.grant <= store.grant

(* A refresh grant is used up by one request, so a set that is stored can   *)
(* be refreshed unless the response of that request was lost or could not  *)
(* be stored: two refreshes never use one grant, and a refresh whose       *)
(* callers have all gone still hands its new grant to the store.           *)
GrantKept ==
    \/ store.grant \in {0, granted[store.root]}
    \/ Grant(store) \in lost
    \/ /\ current # NoFlight
       /\ flight[current].pc = "answered" /\ flight[current].snap = store
=============================================================================
