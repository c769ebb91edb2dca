-------------------------- MODULE PermissionBarrier --------------------------
(***************************************************************************)
(* The permission barrier of source/server/internal/agent/pending.go with  *)
(* the two sides that meet at it: the requester closure of the turn handler*)
(* (server/server.go), which prompts and waits, and the AllowToolCall and  *)
(* DenyToolCall handlers, which resolve.                                   *)
(*                                                                         *)
(* A call is one run of the requester for one gated tool call. Calls of    *)
(* one conversation follow each other; they overlap only when a turn was   *)
(* superseded and its last call has not yet noticed that its context is    *)
(* done. Calls wait under their conversation and the tool-use id that the  *)
(* model gave them. Ids may collide, within a conversation too: those of   *)
(* cloud providers are unique, local models may count from 1 again, and    *)
(* Ollama's stream gives none, so that all calls of a conversation have    *)
(* the empty one (llm/ollama/stream.go:89).                                *)
(***************************************************************************)
EXTENDS Naturals, Sequences

CONSTANTS
    Call,       \* runs of the requester, each with a channel of its own
    Conversation,
    ToolUseID,  \* ids that models give to tool calls
    Answer,     \* AllowToolCall / DenyToolCall requests of clients
    NoCall, NoAnswer

ASSUME BarrierAssumption ==
    /\ NoCall \notin Call
    /\ NoAnswer \notin Answer

VARIABLES
    key,        \* key[c]: the conversation and the id of call c; it never changes
    cpc,        \* cpc[c]: "idle", "prompted", "waiting", "leaving" or "done"
    promptDone, \* promptDone[c]: the context of the call's turn is done
    got,        \* got[c]: the answer Wait returned, NoAnswer for ctx.Err()
    channels,   \* channels[k]: the call whose channel is registered
    chan,       \* chan[c]: what is in the call's one-slot channel
    answersTo,  \* answersTo[a]: the call whose prompt answer a is for
    apc,        \* apc[a]: "unsent", "arrived", "found", "true" or "false"
    sendTo      \* sendTo[a]: the call whose channel Resolve looked up

promptVars == <<key, cpc, promptDone, got>>
answerVars == <<answersTo, apc, sendTo>>
barrierVars == <<promptVars, channels, chan, answerVars>>

(* decisionKey: what a call waits under, and what its answers carry. *)
Key == Conversation \X ToolUseID

BarrierTypeOK ==
    /\ key \in [Call -> Key]
    /\ cpc \in [Call -> {"idle", "prompted", "waiting", "leaving", "done"}]
    /\ promptDone \in [Call -> BOOLEAN]
    /\ got \in [Call -> Answer \cup {NoAnswer}]
    /\ channels \in [Key -> Call \cup {NoCall}]
    /\ chan \in [Call -> Seq(Answer)]
    /\ \A c \in Call : Len(chan[c]) <= 1
    /\ apc \in [Answer -> {"unsent", "arrived", "found", "true", "false"}]
    /\ sendTo \in [Answer -> Call \cup {NoCall}]
    /\ answersTo \in [Answer -> Call \cup {NoCall}]
    /\ \A a \in Answer : apc[a] # "unsent" => answersTo[a] \in Call

BarrierInit ==
    /\ key \in [Call -> Key]
    /\ cpc = [c \in Call |-> "idle"]
    /\ promptDone = [c \in Call |-> FALSE]
    /\ got = [c \in Call |-> NoAnswer]
    /\ channels = [k \in Key |-> NoCall]
    /\ chan = [c \in Call |-> << >>]
    /\ apc = [a \in Answer |-> "unsent"]
    /\ sendTo = [a \in Answer |-> NoCall]
    /\ answersTo = [a \in Answer |-> NoCall]

-----------------------------------------------------------------------------
(* A new call starts when no other of its conversation is live: the tool    *)
(* loop gates its calls one by one, and a turn starts after cancelling the *)
(* one before it.                                                          *)
NoLiveCall(c) ==
    \A d \in Call : key[d][1] = key[c][1] =>
        cpc[d] \in {"idle", "done"} \/ promptDone[d]

(* stream.Send(PermissionRequired): from here on the client can answer. *)
Prompt(c) ==
    /\ cpc[c] = "idle" /\ NoLiveCall(c)
    /\ cpc' = [cpc EXCEPT ![c] = "prompted"]
    /\ UNCHANGED <<key, promptDone, got, channels, chan, answerVars>>

(* Wait, first half: register the channel under the key. *)
Register(c) ==
    /\ cpc[c] = "prompted"
    /\ cpc' = [cpc EXCEPT ![c] = "waiting"]
    /\ channels' = [channels EXCEPT ![key[c]] = c]
    /\ UNCHANGED <<key, promptDone, got, chan, answerVars>>

(* case d := <-ch *)
TakeDecision(c) ==
    /\ cpc[c] = "waiting" /\ chan[c] # << >>
    /\ got' = [got EXCEPT ![c] = Head(chan[c])]
    /\ chan' = [chan EXCEPT ![c] = Tail(@)]
    /\ cpc' = [cpc EXCEPT ![c] = "leaving"]
    /\ UNCHANGED <<key, promptDone, channels, answerVars>>

(* Mutant: look at the context before waiting only. *)
TakeCancelEarly(c) ==
    /\ cpc[c] = "prompted" /\ promptDone[c]
    /\ cpc' = [cpc EXCEPT ![c] = "leaving"]
    /\ UNCHANGED <<key, promptDone, got, channels, chan, answerVars>>

(* case <-ctx.Done() *)
TakeCancel(c) ==
    /\ cpc[c] = "waiting" /\ promptDone[c]
    /\ cpc' = [cpc EXCEPT ![c] = "leaving"]
    /\ UNCHANGED <<key, promptDone, got, channels, chan, answerVars>>

(* The deferred delete(p.channels, key). *)
Unregister(c) ==
    /\ cpc[c] = "leaving"
    /\ cpc' = [cpc EXCEPT ![c] = "done"]
    /\ channels' = [channels EXCEPT ![key[c]] = NoCall]
    /\ UNCHANGED <<key, promptDone, got, chan, answerVars>>

(* The turn of the call is superseded, cancelled, or loses its client. *)
Cancel(c) ==
    /\ cpc[c] \in {"prompted", "waiting"} /\ ~promptDone[c]
    /\ promptDone' = [promptDone EXCEPT ![c] = TRUE]
    /\ UNCHANGED <<key, cpc, got, channels, chan, answerVars>>

-----------------------------------------------------------------------------
(* A client answers a prompt it was shown, early or late. *)
Send(a) ==
    /\ apc[a] = "unsent"
    /\ \E c \in Call : cpc[c] # "idle" /\ answersTo' = [answersTo EXCEPT ![a] = c]
    /\ apc' = [apc EXCEPT ![a] = "arrived"]
    /\ UNCHANGED <<promptVars, channels, chan, sendTo>>

(* Mutant: ids are looked up without their conversation. *)
LookupById(a) ==
    /\ apc[a] = "arrived"
    /\ \E k \in Key :
          /\ k[2] = key[answersTo[a]][2]
          /\ sendTo' = [sendTo EXCEPT ![a] = channels[k]]
          /\ apc' = [apc EXCEPT ![a] = IF channels[k] = NoCall THEN "false" ELSE "found"]
    /\ UNCHANGED <<promptVars, channels, chan, answersTo>>

(* Resolve: look the channel up under the lock. *)
Lookup(a) ==
    LET c == channels[key[answersTo[a]]] IN
    /\ apc[a] = "arrived"
    /\ sendTo' = [sendTo EXCEPT ![a] = c]
    /\ apc' = [apc EXCEPT ![a] = IF c = NoCall THEN "false" ELSE "found"]
    /\ UNCHANGED <<promptVars, channels, chan, answersTo>>

(* ch <- d outside the lock: blocks while the slot is taken. *)
Deliver(a) ==
    LET c == sendTo[a] IN
    /\ apc[a] = "found" /\ chan[c] = << >>
    /\ chan' = [chan EXCEPT ![c] = Append(@, a)]
    /\ apc' = [apc EXCEPT ![a] = "true"]
    /\ UNCHANGED <<promptVars, channels, answersTo, sendTo>>

-----------------------------------------------------------------------------
PromptStep(c) == Register(c) \/ TakeDecision(c) \/ TakeCancel(c) \/ Unregister(c)

AnswerStep(a) == Lookup(a) \/ Deliver(a)

BarrierNext ==
    \/ \E c \in Call : Prompt(c) \/ PromptStep(c) \/ Cancel(c)
    \/ \E a \in Answer : Send(a) \/ AnswerStep(a)

BarrierSpec == BarrierInit /\ [][BarrierNext]_barrierVars

(* Goroutines that can run do run; nobody has to prompt, answer or cancel. *)
FairBarrierSpec ==
    /\ BarrierSpec
    /\ \A c \in Call : WF_barrierVars(PromptStep(c))
    /\ \A a \in Answer : WF_barrierVars(AnswerStep(a))

-----------------------------------------------------------------------------
(* A gated tool call is decided only by an answer to a prompt of its own    *)
(* conversation with its own tool-use id, whatever ids the conversations   *)
(* share: that client was told that its answer was taken, it was handed to *)
(* this call, and no second call was decided by it. So a call whose id is  *)
(* unique in its conversation is decided by the answers to its own prompt. *)
(* Calls that share conversation and id are not told apart: there a late   *)
(* answer to one may decide the next.                                      *)
OwnAnswerOnly ==
    /\ BarrierTypeOK
    /\ \A c \in Call : got[c] # NoAnswer =>
          /\ key[answersTo[got[c]]] = key[c]
          /\ apc[got[c]] = "true" /\ sendTo[got[c]] = c
          /\ \A d \in Call : d # c => got[d] # got[c]

(* A call whose answer was taken, or whose turn is over, ends. *)
TakenAnswerEndsCall ==
    \A c \in Call :
        (\/ promptDone[c]
         \/ \E a \in Answer : apc[a] = "true" /\ sendTo[a] = c) ~> cpc[c] = "done"
=============================================================================
