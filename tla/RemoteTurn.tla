----------------------------- MODULE RemoteTurn -----------------------------
(***************************************************************************)
(* What a turn that runs in a worker process promises to the host: an      *)
(* operation the worker was told about has happened, what the worker said  *)
(* is heard in order and each thing once, and a turn that has a result left*)
(* nothing behind: all of it was heard, and no operation of it is still to *)
(* come, except one its caller did not wait for.                           *)
(***************************************************************************)
EXTENDS Naturals, Sequences

CONSTANTS
    Call,       \* operations the worker asks the host for
    Impatient   \* those whose caller may stop waiting on its own

VARIABLES
    op,         \* op[c]: what the caller of c knows
    applied,    \* the operations the host carried out
    said,       \* how many things the worker told the host
    heard,      \* those the host took note of, by number
    verdict     \* how the turn ended for the host

vars == <<op, applied, said, heard, verdict>>

Init ==
    /\ op = [c \in Call |-> "idle"] /\ applied = {}
    /\ said = 0 /\ heard = << >> /\ verdict = "none"

Say ==
    /\ verdict # "result" /\ said' = said + 1
    /\ UNCHANGED <<op, applied, heard, verdict>>

Hear ==
    /\ verdict = "none" /\ Len(heard) < said
    /\ heard' = Append(heard, Len(heard) + 1)
    /\ UNCHANGED <<op, applied, said, verdict>>

Ask(c) ==
    /\ verdict # "result" /\ op[c] = "idle"
    /\ op' = [op EXCEPT ![c] = "asked"]
    /\ UNCHANGED <<applied, said, heard, verdict>>

\* The host carries c out, at most once, and for a failed turn even late.
Apply(c) ==
    /\ op[c] # "idle" /\ c \notin applied
    /\ verdict = "result" => c \in Impatient
    /\ applied' = applied \cup {c}
    /\ UNCHANGED <<op, said, heard, verdict>>

Return(c) ==
    /\ op[c] = "asked" /\ c \in applied
    /\ op' = [op EXCEPT ![c] = "ok"]
    /\ UNCHANGED <<applied, said, heard, verdict>>

Fail(c) ==
    /\ op[c] \in {"idle", "asked"}
    /\ op' = [op EXCEPT ![c] = "failed"]
    /\ UNCHANGED <<applied, said, heard, verdict>>

Finish ==
    /\ verdict = "none" /\ Len(heard) = said
    /\ \A c \in Call : op[c] # "asked"
    /\ verdict' = "result"
    /\ UNCHANGED <<op, applied, said, heard>>

Abort ==
    /\ verdict = "none" /\ verdict' = "failed"
    /\ UNCHANGED <<op, applied, said, heard>>

Next ==
    \/ Say \/ Hear \/ Finish \/ Abort
    \/ \E c \in Call : Ask(c) \/ Apply(c) \/ Return(c) \/ Fail(c)

Spec == Init /\ [][Next]_vars
=============================================================================
