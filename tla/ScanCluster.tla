----------------------------- MODULE ScanCluster -----------------------------
(***************************************************************************)
(* Everything around the scan operator that one Scan lives in: the Scan     *)
(* object and its Jobs in the Kubernetes API server, the pods of those Jobs *)
(* (scanner with lurker, parser, hooks), the object store (S3), the         *)
(* informer caches and the work queue of the operator, the users and the    *)
(* garbage collectors.                                                      *)
(*                                                                          *)
(* Simplifications:                                                         *)
(*  - One Scan.  Scans share nothing: Jobs are found by owner, files by UID.*)
(*  - resourceVersion is a counter that grows with every change of the Scan *)
(*    and is only compared.                                                 *)
(*  - An informer delivers the newest version when it delivers; every       *)
(*    version can still be read, by a delivery before the next change.      *)
(*  - The pods of one Job (backoffLimit) work one after the other, each     *)
(*    from the beginning; only the last of them makes the Job fail.         *)
(***************************************************************************)
EXTENDS HookGroups

CONSTANTS
    HookNames,         \* names of the ScanCompletionHooks
    HookLists,         \* the lists of hooks that a List of the hooks may return
    InitialFinalizers, \* the finalizers a new Scan may carry
    MaxJobs,           \* bound: Jobs of one kind over the life of the Scan
    MaxEdits,          \* bound: edits by users
    HasTTL,            \* spec.ttlSecondsAfterFinished is set
    JobTTL,            \* the Jobs have a ttlSecondsAfterFinished
    Deadline,          \* the scanner Job has an activeDeadlineSeconds
    Resyncs,           \* the caches are resynced from time to time
    JobsVisible        \* assumption: a List of the Jobs is never stale

Hook == [name: HookNames, type: HookTypes, prio: Int]

JobKinds == {"scanner", "parser"} \cup HookNames
Slots == JobKinds \X (1..MaxJobs)

ASSUME ClusterAssumption ==
    /\ HookNames \cap {"none", "scanner", "parser"} = {}
    /\ HookLists \subseteq Seq(Hook)
    /\ \A list \in HookLists : \A i, k \in DOMAIN list : list[i].name = list[k].name => i = k
    /\ InitialFinalizers \subseteq SUBSET {"s3", "legacy"}
    /\ MaxJobs \in Nat \ {0}
    /\ MaxEdits \in Nat
    /\ {HasTTL, JobTTL, Deadline, Resyncs, JobsVisible} \subseteq BOOLEAN

(***************************************************************************)
(* Types.  A writer is the kind of Job that last wrote the findings file or  *)
(* the summary of the findings; what is in the raw result file matters to    *)
(* nobody here.                                                             *)
(***************************************************************************)
ScanStates == {"Init", "Scanning", "ScanCompleted", "Parsing", "ParseCompleted",
               "HookProcessing", "Done", "Errored"}
Terminal == {"Done", "Errored"}
Finalizers == {"s3", "legacy"}
Writers == {"none"} \cup JobKinds
Groupings == {<<>>} \cup {FromUnorderedList(l) : l \in HookLists}

Scan == [exists: BOOLEAN, rv: Nat, deleting: BOOLEAN, suspend: BOOLEAN,
         finalizers: SUBSET Finalizers,
         state: ScanStates,
         finished: BOOLEAN,                \* status.finishedAt is set
         raw: BOOLEAN,                     \* status.rawResultFile is set
         findings: Writers,                \* who wrote status.findings
         groups: Groupings,                \* status.orderedHookStatuses: the order
         hook: [HookNames -> HookStates]]  \* ... and the states

(* The life of a Job and its pod.  Uploaded and Patched say how far a       *)
(* running pod got; Expired is a Job that failed with DeadlineExceeded and  *)
(* not with BackoffLimitExceeded; Gone is a deleted Job.                    *)
JobPhases == {"None", "Active", "Uploaded", "Patched", "Succeeded", "Failed", "Expired", "Gone"}
Running == {"Active", "Uploaded", "Patched"}
JobViews == {"None", "Active", "Succeeded", "Failed", "Expired", "Gone"}

VARIABLES
    scan,      \* the Scan in the API server
    jobs,      \* jobs[<<kind, n>>]: the n-th Job of that kind
    s3,        \* s3.raw: there is a raw result file; s3.findings: the writer of
               \* findings.json, "none" if there is none
    cache,     \* the Scan in the operator's informer cache
    jobCache,  \* the Jobs in the operator's informer cache
    queued,    \* the Scan's key is in the work queue
    timer,     \* the key will be added again after the TTL (RequeueAfter)
    expired,   \* ttlSecondsAfterFinished have passed since finishedAt
    edits      \* edits made so far
clusterVars == <<scan, jobs, s3, cache, jobCache, queued, timer, expired, edits>>

ClusterTypeOK ==
    /\ scan \in Scan
    /\ cache \in Scan
    /\ jobs \in [Slots -> JobPhases]
    /\ jobCache \in [Slots -> JobViews]
    /\ s3 \in [raw: BOOLEAN, findings: Writers]
    /\ {queued, timer, expired} \subseteq BOOLEAN
    /\ edits \in Nat

ClusterInit ==
    /\ \E f \in InitialFinalizers :
          scan = [exists |-> TRUE, rv |-> 1, deleting |-> FALSE, suspend |-> FALSE,
                  finalizers |-> f, state |-> "Init", finished |-> FALSE, raw |-> FALSE,
                  findings |-> "none", groups |-> <<>>,
                  hook |-> [h \in HookNames |-> "Pending"]]
    /\ jobs = [j \in Slots |-> "None"]
    /\ s3 = [raw |-> FALSE, findings |-> "none"]
    /\ cache = scan
    /\ jobCache = [j \in Slots |-> "None"]
    /\ queued = TRUE
    /\ timer = FALSE /\ expired = FALSE
    /\ edits = 0

(***************************************************************************)
(* The API server.                                                          *)
(***************************************************************************)
Removed(o) == [o EXCEPT !.exists = FALSE, !.rv = @ + 1]

(* Delete: the object stays, marked, while it has a finalizer. *)
Deleted(o) ==
    IF ~o.exists \/ o.deleting THEN o
    ELSE IF o.finalizers = {} THEN Removed(o)
    ELSE [o EXCEPT !.deleting = TRUE, !.rv = @ + 1]

(* Mutation: the API server does not compare resource versions.             *)
AcceptsStaleUpdate(o) == scan.exists

(* An Update is accepted from the newest version only, and makes no new     *)
(* version if it changes nothing; a deleted object takes no new finalizer.  *)
AcceptsUpdate(o) == scan.exists /\ o.rv = scan.rv
AcceptsFinalizers(o, f) == AcceptsUpdate(o) /\ (scan.deleting => f \subseteq scan.finalizers)

WithFinalizers(f) ==
    IF scan.deleting /\ f = {} THEN Removed([scan EXCEPT !.finalizers = {}])
    ELSE IF f = scan.finalizers THEN scan
    ELSE [scan EXCEPT !.finalizers = f, !.rv = @ + 1]

(* The status subresource of o replaces that of the scan.                   *)
WithStatusOf(o) ==
    LET new == [scan EXCEPT !.state = o.state, !.finished = o.finished, !.raw = o.raw,
                            !.findings = o.findings, !.groups = o.groups, !.hook = o.hook]
    IN  IF new = scan THEN scan ELSE [new EXCEPT !.rv = @ + 1]

(* The merge patch of scans/status that a parser or a hook sends: it names  *)
(* no resourceVersion.                                                      *)
PatchFindings(kind) ==
    /\ scan.exists
    /\ scan' = IF scan.findings = kind THEN scan
               ELSE [scan EXCEPT !.findings = kind, !.rv = @ + 1]

(***************************************************************************)
(* Jobs as the operator sees them.                                          *)
(***************************************************************************)
View(phase) == IF phase \in Running THEN "Active" ELSE phase

JobsOf(kind) == {j \in Slots : j[1] = kind}

(* Mutation: Jobs that have ended are not listed.                           *)
getActiveJobsForScan(kind) == {View(jobs[j]) : j \in JobsOf(kind)} \cap {"Active"}

(* getJobsForScan: the states of the Jobs of that kind in the List. *)
getJobsForScan(kind) ==
    {IF JobsVisible THEN View(jobs[j]) ELSE jobCache[j] : j \in JobsOf(kind)} \ {"None", "Gone"}

FreeSlots(kind) == {j \in JobsOf(kind) : jobs[j] = "None"}
NextSlot(kind) == CHOOSE j \in FreeSlots(kind) : \A i \in FreeSlots(kind) : j[2] <= i[2]
CreateJob(kind) ==
    /\ FreeSlots(kind) # {}
    /\ jobs' = [jobs EXCEPT ![NextSlot(kind)] = "Active"]

(***************************************************************************)
(* Informers and the work queue.                                            *)
(***************************************************************************)
SyncScan ==
    /\ cache # scan
    /\ cache' = scan
    /\ queued' = TRUE
    /\ UNCHANGED <<scan, jobs, s3, jobCache, timer, expired, edits>>

SyncJobs ==
    /\ jobCache # [j \in Slots |-> View(jobs[j])]
    /\ jobCache' = [j \in Slots |-> View(jobs[j])]
    /\ queued' = TRUE
    /\ UNCHANGED <<scan, jobs, s3, cache, timer, expired, edits>>

TimerFires ==
    /\ timer
    /\ timer' = FALSE /\ queued' = TRUE
    /\ UNCHANGED <<scan, jobs, s3, cache, jobCache, expired, edits>>

(* The periodic resync of the cache enqueues every key. *)
Resync ==
    /\ Resyncs /\ cache.exists /\ ~queued
    /\ queued' = TRUE
    /\ UNCHANGED <<scan, jobs, s3, cache, jobCache, timer, expired, edits>>

TTLElapses ==
    /\ HasTTL /\ scan.finished /\ ~expired
    /\ expired' = TRUE
    /\ UNCHANGED <<scan, jobs, s3, cache, jobCache, queued, timer, edits>>
=============================================================================
