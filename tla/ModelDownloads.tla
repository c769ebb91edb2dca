--------------------------- MODULE ModelDownloads ---------------------------
(***************************************************************************)
(* The downloads of one local model: source/server/internal/localruntime/  *)
(* manager.go, download_shard.go and the transition table of state.go.     *)
(*                                                                         *)
(* The manager keeps a record and a job per model in memory; the goroutine *)
(* of a job fetches the files of the model one after the other, each into  *)
(* a .part that is renamed when it is whole. Clients download again, cancel*)
(* and delete meanwhile. The lock of the manager covers single reads and   *)
(* writes of the record, so a call that looks and then acts is two steps.  *)
(* The server of the files is external: it answers a request for the rest  *)
(* of a file with the rest or with all of it, refuses one for the rest of  *)
(* a whole .part, and breaks off at any time.                              *)
(***************************************************************************)
EXTENDS Naturals

CONSTANTS
    Call, NoCall,   \* calls of clients, the dashboard and the runtime switch; a
                    \* DownloadModel that claims the model is its job's identity
    Shards,         \* files of the model
    MaxRetries      \* maxShardRetries, 6 in the code

ASSUME DownloadAssumption ==
    /\ NoCall \notin Call
    /\ Shards \in Nat \ {0}
    /\ MaxRetries \in Nat

VARIABLES
    rec,        \* downloads[id].DownloadState, "absent" without an entry
    job,        \* downloadJobs[id]
    disk,       \* disk[s]: "none", "part", "whole" (all of it, still .part) or "file"
    request,    \* request[c]: what c does, where it is, at which file
    run,        \* run[c]: the goroutine of the job c started
    undone      \* history: files were deleted and the record does not say so

downloadVars == <<rec, job, disk, request, run, undone>>

Shard == 1..Shards
States == {"not_downloaded", "downloading", "downloaded", "failed", "cancelled"}
Off == [at |-> "off", shard |-> 1, attempt |-> 0, done |-> FALSE]

CallState ==
    [op : {"none", "download", "cancel", "delete"}, shard : Shard,
     at : {"idle", "check", "find", "claim", "stop", "mark", "file", "part", "record", "done"}]

JobState ==
    [shard : Shard, attempt : 0..MaxRetries, done : BOOLEAN,
     at : {"off", "begin", "stat", "fetch", "read", "rename", "store",
           "finish", "fail", "backoff", "mark", "clear"}]

DownloadTypeOK ==
    /\ rec \in States \cup {"absent"}
    /\ job \in Call \cup {NoCall}
    /\ disk \in [Shard -> {"none", "part", "whole", "file"}]
    /\ request \in [Call -> CallState]
    /\ run \in [Call -> JobState]
    /\ undone \in BOOLEAN

(* A manager starts without records; the disk is as an earlier one left it. *)
DownloadInit ==
    /\ rec = "absent" /\ job = NoCall
    /\ disk \in [Shard -> {"none", "part", "whole", "file"}]
    /\ request = [c \in Call |-> [op |-> "none", at |-> "idle", shard |-> 1]]
    /\ run = [c \in Call |-> Off]
    /\ undone = FALSE

-----------------------------------------------------------------------------
(* The record *)

OnDisk == \A s \in Shard : disk[s] = "file"

(* The record, or what the inventory makes of the disk. *)
Found == IF rec # "absent" THEN rec ELSE IF OnDisk THEN "downloaded" ELSE "not_downloaded"

(* downloadTransitions; a record that is absent counts as not downloaded. *)
Legal(from, to) ==
    \/ from = to
    \/ from \in {"absent", "not_downloaded"} /\ to \in {"downloading", "not_downloaded"}
    \/ from = "downloading" /\ to \in {"downloaded", "failed", "cancelled"}
    \/ from = "downloaded" /\ to = "not_downloaded"
    \/ from \in {"failed", "cancelled"} /\ to \in {"downloading", "not_downloaded"}

(* setDownloadState: refused and logged when the move is not in the table. *)
SetState(to) == rec' = IF Legal(rec, to) THEN to ELSE rec

(* storeDownload with the goroutine's copy, whose state is downloading. *)
Store == rec' = "downloading"

-----------------------------------------------------------------------------
(* The calls *)

GoOn(c, at) == request' = [request EXCEPT ![c].at = at]

EnterAt(c, op, at, s) == request' = [request EXCEPT ![c] = [op |-> op, at |-> at, shard |-> s]]

BeginRequest(c) ==
    /\ request[c].at = "idle"
    /\ EnterAt(c, "download", "check", 1) \/ EnterAt(c, "cancel", "check", 1) \/ EnterAt(c, "delete", "find", 1)
    /\ UNCHANGED <<rec, job, disk, run, undone>>

(* DownloadRuntimeModel with a model of an online catalog: EnrollDownload   *)
(* before DownloadModel. *)
BeginEnrolled(c) ==
    /\ request[c].at = "idle"
    /\ rec' = "not_downloaded"
    /\ EnterAt(c, "download", "check", 1)
    /\ UNCHANGED <<job, disk, run, undone>>

(* DownloadModel returns at once when the record says downloading ... *)
DownloadCheck(c) ==
    /\ request[c].op = "download" /\ request[c].at = "check"
    /\ GoOn(c, IF rec = "downloading" THEN "done" ELSE "find")
    /\ UNCHANGED <<rec, job, disk, run, undone>>

(* ... or when the model is there. *)
DownloadFind(c) ==
    /\ request[c].op = "download" /\ request[c].at = "find"
    /\ GoOn(c, IF Found = "downloaded" THEN "done" ELSE "claim")
    /\ UNCHANGED <<rec, job, disk, run, undone>>

(* Mutant: only the record is looked at. *)
ClaimableByState == rec # "downloading"

Claimable == rec # "downloading" /\ job = NoCall

(* Claim the job and publish downloading in one critical section. *)
DownloadClaim(c) ==
    /\ request[c].op = "download" /\ request[c].at = "claim"
    /\ GoOn(c, "done")
    /\ IF Claimable /\ Legal(rec, "downloading")
       THEN /\ rec' = "downloading"
            /\ job' = c
            /\ run' = [run EXCEPT ![c].at = "begin"]
            /\ undone' = FALSE
       ELSE UNCHANGED <<rec, job, run, undone>>
    /\ UNCHANGED disk

(* CancelDownload: only while the record says downloading ... *)
CancelCheck(c) ==
    /\ request[c].op = "cancel" /\ request[c].at = "check"
    /\ GoOn(c, IF rec = "downloading" THEN "stop" ELSE "done")
    /\ UNCHANGED <<rec, job, disk, run, undone>>

(* ... cancel the context of the job there is by now ... *)
CancelStop(c) ==
    /\ request[c].at = "stop"
    /\ run' = [g \in Call |-> IF g = job THEN [run[g] EXCEPT !.done = TRUE] ELSE run[g]]
    /\ GoOn(c, "mark")
    /\ UNCHANGED <<rec, job, disk, undone>>

(* ... and mark the record without waiting for the goroutine. *)
CancelMark(c) ==
    /\ request[c].op = "cancel" /\ request[c].at = "mark"
    /\ SetState("cancelled")
    /\ GoOn(c, "done")
    /\ UNCHANGED <<job, disk, run, undone>>

(* DeleteModel: refused while the record says downloading. *)
DeleteFind(c) ==
    /\ request[c].op = "delete" /\ request[c].at = "find"
    /\ GoOn(c, IF Found = "downloading" THEN "done" ELSE "file")
    /\ UNCHANGED <<rec, job, disk, run, undone>>

(* os.Remove of a file. The record is not in step with the disk when a      *)
(* download is under way, or when a later file cannot be removed.          *)
DeleteFile(c) ==
    LET s == request[c].shard IN
    /\ request[c].at = "file"
    /\ disk' = [disk EXCEPT ![s] = IF @ = "file" THEN "none" ELSE @]
    /\ undone' = (undone \/ (disk[s] = "file" /\ job # NoCall))
    /\ GoOn(c, "part")
    /\ UNCHANGED <<rec, job, run>>

DeleteFails(c) ==
    /\ request[c].at = "file"
    /\ undone' = (undone \/ request[c].shard > 1)
    /\ GoOn(c, "done")
    /\ UNCHANGED <<rec, job, disk, run>>

(* os.Remove of its .part, under a goroutine that may be writing to it. *)
DeletePart(c) ==
    LET s == request[c].shard IN
    /\ request[c].at = "part"
    /\ disk' = [disk EXCEPT ![s] = IF @ = "file" THEN @ ELSE "none"]
    /\ IF s < Shards THEN EnterAt(c, "delete", "file", s + 1) ELSE GoOn(c, "record")
    /\ UNCHANGED <<rec, job, run, undone>>

DeleteRecord(c) ==
    /\ request[c].at = "record"
    /\ SetState("not_downloaded")
    /\ GoOn(c, "done")
    /\ UNCHANGED <<job, disk, run, undone>>

-----------------------------------------------------------------------------
(* The goroutine of a job *)

Step(g, from, to) == run[g].at = from /\ run' = [run EXCEPT ![g].at = to]

Move(g, to, s, n) ==
    run' = [run EXCEPT ![g] = [at |-> to, shard |-> s, attempt |-> n, done |-> run[g].done]]

(* MkdirAll; without the directory the download fails and is not retried.  *)
MakeDir(g) ==
    /\ \/ Step(g, "begin", "stat") /\ UNCHANGED rec
       \/ Step(g, "begin", "clear") /\ SetState("failed")
    /\ UNCHANGED <<job, disk, request, undone>>

(* A file that is there is counted and skipped. *)
StatShard(g) ==
    LET s == run[g].shard IN
    /\ run[g].at = "stat"
    /\ Move(g, IF disk[s] = "file" THEN "store" ELSE "fetch", s, 0)
    /\ UNCHANGED <<rec, job, disk, request, undone>>

(* downloadShard: ask for what the .part has not yet, and open it. *)
Fetch(g) ==
    LET s == run[g].shard IN
    /\ Step(g, "fetch", "read")
    /\ disk' = [disk EXCEPT ![s] = "part"]
    /\ UNCHANGED <<rec, job, request, undone>>

(* No answer, or one that is not the file, or no .part. *)
FetchFails(g) ==
    /\ Step(g, "fetch", "fail")
    /\ UNCHANGED <<rec, job, disk, request, undone>>

(* A progress tick. *)
Tick(g) ==
    /\ run[g].at = "read"
    /\ Store
    /\ UNCHANGED <<job, disk, request, run, undone>>

(* The end of the body. A .part that was removed meanwhile is not written. *)
ReadEnd(g) ==
    LET s == run[g].shard IN
    /\ Step(g, "read", "rename")
    /\ disk' = [disk EXCEPT ![s] = IF @ = "part" THEN "whole" ELSE @]
    /\ UNCHANGED <<rec, job, request, undone>>

(* A broken body or a full disk; the .part is kept. *)
ReadFails(g) ==
    /\ Step(g, "read", "fail")
    /\ UNCHANGED <<rec, job, disk, request, undone>>

(* Close and rename, or fail and remove the .part. *)
Rename(g) ==
    LET s == run[g].shard IN
    /\ run[g].at = "rename"
    /\ \/ /\ disk[s] = "whole"
          /\ disk' = [disk EXCEPT ![s] = "file"]
          /\ Step(g, "rename", "store")
       \/ /\ disk' = [disk EXCEPT ![s] = IF @ = "file" THEN @ ELSE "none"]
          /\ Step(g, "rename", "fail")
    /\ UNCHANGED <<rec, job, request, undone>>

(* The shard counts; on to the next one or to the end. *)
StoreShard(g) ==
    LET s == run[g].shard IN
    /\ run[g].at = "store"
    /\ Store
    /\ IF s < Shards THEN Move(g, "stat", s + 1, 0) ELSE Move(g, "finish", s, 0)
    /\ UNCHANGED <<job, disk, request, undone>>

FinishJob(g) ==
    /\ Step(g, "finish", "clear")
    /\ SetState("downloaded")
    /\ UNCHANGED <<job, disk, request, undone>>

(* failDownload, and another attempt after a pause ... *)
FailAndRetry(g) ==
    /\ run[g].attempt < MaxRetries
    /\ Step(g, "fail", "backoff")
    /\ SetState("failed")
    /\ UNCHANGED <<job, disk, request, undone>>

(* Mutant: the loop goes on to the next shard. *)
FailAndGoOn(g) ==
    /\ run[g].attempt = MaxRetries
    /\ Step(g, "fail", "store")
    /\ SetState("failed")
    /\ UNCHANGED <<job, disk, request, undone>>

(* ... or the end, when it was the last. *)
FailAndStop(g) ==
    /\ run[g].attempt = MaxRetries
    /\ Step(g, "fail", "clear")
    /\ SetState("failed")
    /\ UNCHANGED <<job, disk, request, undone>>

Retry(g) ==
    /\ run[g].at = "backoff"
    /\ run[g].attempt < MaxRetries
    /\ Move(g, "fetch", run[g].shard, run[g].attempt + 1)
    /\ UNCHANGED <<rec, job, disk, request, undone>>

(* The context is done: while reading the .part is removed ... *)
Abort(g) ==
    LET s == run[g].shard IN
    /\ run[g].done
    /\ \/ Step(g, "fetch", "mark") /\ UNCHANGED disk
       \/ Step(g, "backoff", "mark") /\ UNCHANGED disk
       \/ /\ Step(g, "read", "mark")
          /\ disk' = [disk EXCEPT ![s] = IF @ = "file" THEN @ ELSE "none"]
    /\ UNCHANGED <<rec, job, request, undone>>

(* ... and the goroutine marks the record as well: a tick of its own may    *)
(* have come after the mark of CancelDownload.                             *)
AbortMark(g) ==
    /\ Step(g, "mark", "clear")
    /\ SetState("cancelled")
    /\ UNCHANGED <<job, disk, request, undone>>

(* clearDownloadJob: only if the job is still its own. *)
ClearJob(g) ==
    /\ Step(g, "clear", "off")
    /\ job' = IF job = g THEN NoCall ELSE job
    /\ UNCHANGED <<rec, disk, request, undone>>

-----------------------------------------------------------------------------
RequestStep(c) ==
    \/ BeginRequest(c) \/ BeginEnrolled(c)
    \/ DownloadCheck(c) \/ DownloadFind(c) \/ DownloadClaim(c)
    \/ CancelCheck(c) \/ CancelStop(c) \/ CancelMark(c)
    \/ DeleteFind(c) \/ DeleteFile(c) \/ DeleteFails(c) \/ DeletePart(c) \/ DeleteRecord(c)

JobStep(g) ==
    \/ MakeDir(g) \/ StatShard(g) \/ Fetch(g) \/ FetchFails(g)
    \/ Tick(g) \/ ReadEnd(g) \/ ReadFails(g) \/ Rename(g) \/ StoreShard(g) \/ FinishJob(g)
    \/ FailAndRetry(g) \/ FailAndStop(g) \/ Retry(g)
    \/ Abort(g) \/ AbortMark(g) \/ ClearJob(g)

DownloadNext == \E c \in Call : RequestStep(c) \/ JobStep(c)

DownloadSpec == DownloadInit /\ [][DownloadNext]_downloadVars

-----------------------------------------------------------------------------
(* One goroutine at most works on a model's .part files, however calls to   *)
(* download, cancel and enroll overlap with one that has not yet noticed    *)
(* that it is cancelled (the claim in DownloadModel). And a record that     *)
(* says downloading has a goroutine that will move it on, or no call could *)
(* ever retry or delete the model: neither a late progress tick nor a       *)
(* refused transition leaves it behind.                                    *)
OneWriter ==
    /\ DownloadTypeOK
    /\ \A g \in Call : run[g].at # "off" => job = g
    /\ rec = "downloading" => job # NoCall /\ run[job].at # "clear"

Deleting(c) == request[c].at \in {"file", "part", "record"}

(* "Downloaded: every shard is present; the model is ready to serve"        *)
(* (state.go:26), whatever failed, was cancelled, retried or skipped. Not   *)
(* while DeleteModel is at the files, and not after a delete that could not *)
(* be recorded (undone): it met a download that still ran, or stopped at a  *)
(* file it could not remove.                                               *)
DownloadedOnDisk ==
    rec = "downloaded" => OnDisk \/ undone \/ \E c \in Call : Deleting(c)
=============================================================================
