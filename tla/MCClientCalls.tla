---------------------------- MODULE MCClientCalls ----------------------------
(* An instance of what clients call between turns: the session profile and  *)
(* the downloads of a local model. The two share no state, so a behaviour   *)
(* has calls at one of them.                                               *)
EXTENDS SessionProfile, ModelDownloads, TLC

CONSTANTS c1, c2, c3

ThreeCallers == {c1, c2, c3}
CallerSymmetry == Permutations(ThreeCallers)
AnyProfile == {"default", "plan", "autonomous"}

NoProfileCall == row[1] = "none" /\ ~wired
NoDownload ==
    /\ DownloadInit
    /\ \A s \in Shard : disk[s] = "none"

CallsInit ==
    /\ Init /\ DownloadInit
    /\ NoProfileCall \/ NoDownload

CallsNext ==
    \/ NoDownload /\ Next /\ UNCHANGED downloadVars
    \/ NoProfileCall /\ calls = 0 /\ restarts = 0 /\ DownloadNext /\ UNCHANGED vars

CallsSpec == CallsInit /\ [][CallsNext]_<<vars, downloadVars>>
=============================================================================
