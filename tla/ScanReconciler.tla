--------------------------- MODULE ScanReconciler ---------------------------
(***************************************************************************)
(* The scan controller of the operator (operator/controllers/execution/     *)
(* scans): one worker takes the Scan's key from the queue and runs          *)
(* Reconcile, whose calls to the API server and to S3 are the steps of this *)
(* module.  Between two of them anything in ScanJobs may happen, and the    *)
(* operator may crash.  `obj` is the Go variable `scan`: the copy of the    *)
(* cached Scan that Reconcile works on and finally writes.                  *)
(*                                                                          *)
(* Every call may fail (bounded by MaxFaults); a call that writes may then  *)
(* have taken effect all the same.  Reading a ScanType, ParseDefinition or  *)
(* hook that is not installed fails too, without that bound.                *)
(***************************************************************************)
EXTENDS ScanJobs

CONSTANTS
    MaxCrashes,   \* bound: crashes of the operator
    MaxFaults,    \* bound: failed calls, and failed pods that are retried
    WindowQuiet   \* assumption: nothing disturbs the operator between reading a
                  \* Scan for which it creates a scanner or parser Job and
                  \* recording that in the status

ASSUME ReconcilerAssumption ==
    MaxCrashes \in Nat /\ MaxFaults \in Nat /\ WindowQuiet \in BOOLEAN

VARIABLES
    pc,       \* the next step of Reconcile
    obj,      \* its copy of the Scan
    cursor,   \* <<g, k>>: executeHooks is at the k-th hook of group g
    failing,  \* the error Reconcile will return after writing the status
    crashes,
    faults
workVars == <<pc, obj, cursor, failing>>
vars == <<clusterVars, workVars, crashes, faults>>

Steps == {"idle", "cleanup", "release", "switch", "addFinalizer", "createScanner",
          "createParser", "hooks", "record", "write"}

WorkTypeOK ==
    /\ pc \in Steps
    /\ obj \in Scan
    /\ failing \in BOOLEAN
    /\ crashes \in Nat
    /\ faults \in Nat

TypeOK == ClusterTypeOK /\ WorkTypeOK /\ cursor \in Nat \X Nat

(* The copy while no Reconcile runs. *)
NoScan == [exists |-> FALSE, rv |-> 0, deleting |-> FALSE, suspend |-> FALSE,
           finalizers |-> {}, state |-> "Init", finished |-> FALSE, raw |-> FALSE,
           findings |-> "none", groups |-> <<>>,
           hook |-> [h \in HookNames |-> "Pending"]]

Init ==
    /\ ClusterInit
    /\ pc = "idle" /\ obj = NoScan /\ cursor = <<0, 0>> /\ failing = FALSE
    /\ crashes = 0
    /\ faults = 0

-----------------------------------------------------------------------------
(***************************************************************************)
(* How Reconcile ends and goes on.                                          *)
(***************************************************************************)
Goto(step) == pc' = step /\ UNCHANGED <<cursor, failing>>

(* Mutation: an error is logged and the key is not put back.                *)
ReturnWithoutRetry(error, state) ==
    /\ pc' = "idle" /\ obj' = NoScan /\ cursor' = <<0, 0>> /\ failing' = FALSE
    /\ timer' = (timer \/ (HasTTL /\ state \in Terminal))
    /\ UNCHANGED <<queued, cache, jobCache, expired, edits, crashes>>

(* An error puts the key back into the queue; a finished Scan with a TTL is *)
(* looked at again after the TTL; anything else waits for the next event.   *)
(* The result depends on the state of the copy, written or not.             *)
Return(error, state) ==
    /\ pc' = "idle" /\ obj' = NoScan /\ cursor' = <<0, 0>> /\ failing' = FALSE
    /\ queued' = (queued \/ error)
    /\ timer' = (timer \/ (~error /\ HasTTL /\ state \in Terminal))
    /\ UNCHANGED <<cache, jobCache, expired, edits, crashes>>

ReturnNil == Return(FALSE, obj.state) /\ UNCHANGED faults
ReturnError == Return(TRUE, obj.state) /\ UNCHANGED faults

(* The assumption WindowQuiet: no crash, failed call or patch while a        *)
(* created Job is unrecorded, and no edit but a deletion in the states whose *)
(* handler creates one.                                                      *)
Undisturbed == WindowQuiet => pc # "record"
Unedited == WindowQuiet => scan.state \notin {"Init", "ScanCompleted"}

MayFail == faults < MaxFaults /\ Undisturbed
Fails == MayFail /\ faults' = faults + 1 /\ Return(TRUE, obj.state)

(* Frame of a step that goes on. *)
Continue == UNCHANGED <<cache, jobCache, queued, timer, expired, edits, crashes, faults>>

(***************************************************************************)
(* Reconcile, up to the switch over the state.                              *)
(***************************************************************************)
(* Mutation: a suspended Scan is left alone even when it has finished.      *)
SkippedWhileSuspended(o) == ~o.exists \/ o.suspend

Skipped(o) == ~o.exists \/ (o.suspend /\ o.state \notin Terminal)

AfterGet(o) == IF o.deleting /\ o.finalizers # {} THEN "cleanup" ELSE "switch"

Reconcile ==
    /\ pc = "idle" /\ queued
    /\ queued' = FALSE
    /\ IF Skipped(cache)
       THEN UNCHANGED workVars
       ELSE obj' = cache /\ Goto(AfterGet(cache))
    /\ UNCHANGED <<scan, jobs, s3, cache, jobCache, timer, expired, edits, crashes, faults>>

(* Mutation: findings.json is forgotten.                                    *)
CleanedRawOnly == [s3 EXCEPT !.raw = @ /\ ~obj.raw]

(* cleanupS3Files: the raw result file by the name in the status, then      *)
(* findings.json.  A failure may come after the first of them.              *)
Cleaned == [raw |-> s3.raw /\ ~obj.raw, findings |-> "none"]

cleanupS3Files ==
    /\ pc = "cleanup"
    /\ \/ s3' = Cleaned /\ Goto("release") /\ UNCHANGED obj /\ Continue
       \/ s3' \in {s3, [Cleaned EXCEPT !.findings = s3.findings]} /\ Fails
    /\ UNCHANGED <<scan, jobs>>

(* Mutation: only the legacy finalizer is ever removed.                     *)
RemainingWithoutLegacy == obj.finalizers \ {"legacy"}

(* migrateFinalizer and handleFinalizer remove one finalizer after the      *)
(* other, the legacy one first, each after a cleanup of its own.            *)
Remaining == obj.finalizers \ {IF "legacy" \in obj.finalizers THEN "legacy" ELSE "s3"}

ReleaseFinalizer ==
    /\ pc = "release"
    /\ \/ /\ AcceptsFinalizers(obj, Remaining)
          /\ scan' = WithFinalizers(Remaining)
          /\ \/ /\ obj' = [obj EXCEPT !.finalizers = Remaining, !.rv = scan'.rv]
                /\ Goto(IF Remaining = {} THEN "switch" ELSE "cleanup")
                /\ Continue
             \/ Fails
       \/ ~AcceptsFinalizers(obj, Remaining) /\ ReturnError /\ UNCHANGED scan
       \/ Fails /\ UNCHANGED scan
    /\ UNCHANGED <<jobs, s3>>

-----------------------------------------------------------------------------
(***************************************************************************)
(* updateScanStatus: a conflict is logged and forgotten.                    *)
(***************************************************************************)
Stamped(o) == [o EXCEPT !.finished = @ \/ o.state \in Terminal]

(* startScan alone ignores what updateScanStatus returns. *)
IgnoresError == pc = "record" /\ obj.state = "Scanning"

updateScanStatus ==
    /\ pc \in {"write", "record"}
    /\ \/ /\ AcceptsUpdate(obj)
          /\ scan' = WithStatusOf(Stamped(obj))
          /\ Return(failing, obj.state) /\ UNCHANGED faults
       \/ /\ scan.exists /\ ~AcceptsUpdate(obj)
          /\ UNCHANGED scan
          /\ Return(failing, obj.state) /\ UNCHANGED faults
       \/ /\ ~scan.exists
          /\ UNCHANGED scan
          /\ Return(~IgnoresError, obj.state) /\ UNCHANGED faults
       \/ /\ MayFail /\ faults' = faults + 1
          /\ UNCHANGED scan \/ (AcceptsUpdate(obj) /\ scan' = WithStatusOf(Stamped(obj)))
          /\ Return(~IgnoresError, obj.state)
    /\ UNCHANGED <<jobs, s3>>

(* The rest of a handler that only changes the copy and goes on to the write. *)
Write(o, error) ==
    /\ obj' = o /\ pc' = "write" /\ failing' = error
    /\ UNCHANGED cursor /\ Continue

-----------------------------------------------------------------------------
(***************************************************************************)
(* Init: startScan.                                                         *)
(***************************************************************************)
At(step, state) == pc = step /\ obj.state = state

(* Mutation: a Scan with the legacy finalizer is taken to be protected.     *)
FinalizersUnlessLegacy == IF obj.finalizers = {} THEN {"s3"} ELSE obj.finalizers

(* The legacy finalizer is replaced and the current one added.              *)
WantedFinalizers == IF "s3" \in obj.finalizers THEN obj.finalizers
                    ELSE (obj.finalizers \ {"legacy"}) \cup {"s3"}

startScan ==
    /\ At("switch", "Init")
    /\ IF getJobsForScan("scanner") # {} THEN ReturnNil
       ELSE /\ Goto(IF WantedFinalizers = obj.finalizers THEN "createScanner" ELSE "addFinalizer")
            /\ UNCHANGED obj /\ Continue
    /\ UNCHANGED <<scan, jobs, s3>>

AddFinalizer ==
    /\ pc = "addFinalizer"
    /\ \/ /\ AcceptsFinalizers(obj, WantedFinalizers)
          /\ scan' = WithFinalizers(WantedFinalizers)
          /\ \/ /\ obj' = [obj EXCEPT !.finalizers = WantedFinalizers, !.rv = scan'.rv]
                /\ Goto("createScanner") /\ Continue
             \/ Fails
       \/ ~AcceptsFinalizers(obj, WantedFinalizers) /\ ReturnError /\ UNCHANGED scan
       \/ Fails /\ UNCHANGED scan
    /\ UNCHANGED <<jobs, s3>>

(* The Job is created; what follows is lost if the answer is. *)
CreateAndRecord(kind, o) ==
    \/ CreateJob(kind) /\ obj' = o /\ Goto("record") /\ Continue
    \/ CreateJob(kind) /\ ~WindowQuiet /\ Fails
    \/ Fails /\ UNCHANGED jobs

Errored(o) == [o EXCEPT !.state = "Errored"]

CreateScanner ==
    /\ pc = "createScanner"
    /\ \/ Write(Errored(obj), TRUE) /\ UNCHANGED jobs          \* no such ScanType
       \/ CreateAndRecord("scanner", [obj EXCEPT !.state = "Scanning", !.raw = TRUE])
    /\ UNCHANGED <<scan, s3>>

(* A presigned URL for the status is not to be had: nothing is recorded. *)
PresignFails ==
    /\ At("record", "Scanning")
    /\ Fails
    /\ UNCHANGED <<scan, jobs, s3>>

(***************************************************************************)
(* Scanning and Parsing: is the Job completed?                              *)
(***************************************************************************)
(* Mutation: a Job whose retries are used up counts as not completed yet.   *)
checkIfAllJobsSucceeded(views) ==
    IF views \subseteq {"Succeeded"} THEN "completed" ELSE "incomplete"

(* Mutation: a Job that has ended in any way is completed.                  *)
checkIfAllJobsEnded(views) ==
    IF "Active" \in views THEN "incomplete" ELSE "completed"

(* A Job is failed by the reason BackoffLimitExceeded only; no Job at all   *)
(* is completed.                                                            *)
checkIfAllJobsCompleted(views) ==
    IF "Failed" \in views THEN "failed"
    ELSE IF views \subseteq {"Succeeded"} THEN "completed" ELSE "incomplete"

CheckJob(kind, next) ==
    LET status == checkIfAllJobsCompleted(getJobsForScan(kind))
    IN  /\ CASE status = "completed"  -> Write([obj EXCEPT !.state = next], FALSE)
              [] status = "failed"     -> Write(Errored(obj), FALSE)
              [] status = "incomplete" -> ReturnNil
        /\ UNCHANGED <<scan, jobs, s3>>

checkIfScanIsCompleted == At("switch", "Scanning") /\ CheckJob("scanner", "ScanCompleted")
checkIfParsingIsCompleted == At("switch", "Parsing") /\ CheckJob("parser", "ParseCompleted")

(***************************************************************************)
(* ScanCompleted: startParser.                                              *)
(***************************************************************************)
startParser ==
    /\ At("switch", "ScanCompleted")
    /\ IF getJobsForScan("parser") # {} THEN ReturnNil
       ELSE Goto("createParser") /\ UNCHANGED obj /\ Continue
    /\ UNCHANGED <<scan, jobs, s3>>

CreateParser ==
    /\ pc = "createParser"
    /\ \/ Write(Errored(obj), TRUE) /\ UNCHANGED jobs          \* no such ParseDefinition
       \/ CreateAndRecord("parser", [obj EXCEPT !.state = "Parsing"])
    /\ UNCHANGED <<scan, s3>>

(***************************************************************************)
(* ParseCompleted: setHookStatus.                                           *)
(***************************************************************************)
setHookStatus ==
    /\ At("switch", "ParseCompleted")
    /\ \/ \E list \in HookLists :
             Write([obj EXCEPT !.groups = FromUnorderedList(list),
                               !.hook = [h \in HookNames |-> "Pending"],
                               !.state = "HookProcessing"], FALSE)
       \/ Fails
    /\ UNCHANGED <<scan, jobs, s3>>

(***************************************************************************)
(* HookProcessing: executeHooks works through the current group, hook by    *)
(* hook, and writes the status once.                                        *)
(***************************************************************************)
executeHooks ==
    /\ At("switch", "HookProcessing")
    /\ LET current == CurrentHookGroup(obj.groups, obj.hook)
       IN  CASE current.result = "error" -> Write(Errored(obj), TRUE)
             [] current.result = "none"  -> Write([obj EXCEPT !.state = "Done"], FALSE)
             [] current.result = "group" ->
                    /\ pc' = "hooks" /\ cursor' = <<current.group, 1>> /\ failing' = FALSE
                    /\ UNCHANGED obj /\ Continue
    /\ UNCHANGED <<scan, jobs, s3>>

CurrentGroup == obj.groups[cursor[1]]
CurrentHook == CurrentGroup[cursor[2]].name

(* processHook returned; only the error of the last hook of the group is    *)
(* returned, but any error leaves the copy Errored.                         *)
HookDone(o, error) ==
    /\ obj' = IF error THEN Errored(o) ELSE o
    /\ failing' = error
    /\ IF cursor[2] = Len(CurrentGroup)
       THEN pc' = "write" /\ cursor' = <<0, 0>>
       ELSE pc' = "hooks" /\ cursor' = <<cursor[1], cursor[2] + 1>>
    /\ UNCHANGED <<cache, jobCache, queued, timer, expired, edits, crashes>>

HookBecomes(state) == HookDone([obj EXCEPT !.hook[CurrentHook] = state], FALSE)
HookError == HookDone(obj, TRUE)

(* A Job may have been created although the call failed. *)
createJobForHook(h) ==
    \/ CreateJob(h) /\ HookBecomes("InProgress") /\ UNCHANGED faults
    \/ /\ MayFail /\ faults' = faults + 1
       /\ CreateJob(h) \/ UNCHANGED jobs
       /\ HookError

(* A hook that has a Job is taken to be InProgress, whatever the status says. *)
processPendingHook ==
    /\ pc = "hooks" /\ obj.hook[CurrentHook] = "Pending"
    /\ \/ HookError /\ UNCHANGED <<jobs, faults>>              \* no such hook
       \/ /\ getJobsForScan(CurrentHook) # {}
          /\ HookBecomes("InProgress") /\ UNCHANGED <<jobs, faults>>
       \/ getJobsForScan(CurrentHook) = {} /\ createJobForHook(CurrentHook)
    /\ UNCHANGED <<scan, s3>>

(* Mutation: a failed hook is passed over.                                  *)
AfterJobIgnoringFailure ==
    [completed |-> "Completed", failed |-> "Completed", incomplete |-> "InProgress"]

(* Mutation: a failed hook is tried again.                                  *)
AfterJobRetrying ==
    [completed |-> "Completed", failed |-> "Pending", incomplete |-> "InProgress"]

(* Mutation: a state that the CRD does not know.                            *)
AfterJobRunning ==
    [completed |-> "Completed", failed |-> "Failed", incomplete |-> "Running"]

AfterJob == [completed |-> "Completed", failed |-> "Failed", incomplete |-> "InProgress"]

processInProgressHook ==
    /\ pc = "hooks" /\ obj.hook[CurrentHook] = "InProgress"
    /\ HookBecomes(AfterJob[checkIfAllJobsCompleted(getJobsForScan(CurrentHook))])
    /\ UNCHANGED <<scan, jobs, s3, faults>>

(* A hook of the group that is settled already. *)
processSettledHook ==
    /\ pc = "hooks" /\ obj.hook[CurrentHook] \notin {"Pending", "InProgress"}
    /\ HookDone(obj, FALSE)
    /\ UNCHANGED <<scan, jobs, s3, faults>>

(***************************************************************************)
(* Done and Errored: the TTL.                                               *)
(***************************************************************************)
TTLIsCompleted == HasTTL /\ obj.finished /\ expired

deleteScan ==
    /\ pc = "switch" /\ obj.state \in Terminal
    /\ \/ ~TTLIsCompleted /\ ReturnNil /\ UNCHANGED scan
       \/ TTLIsCompleted /\ ReturnNil /\ scan' = Deleted(scan)
       \/ TTLIsCompleted /\ Fails /\ scan' \in {scan, Deleted(scan)}
    /\ UNCHANGED <<jobs, s3>>

-----------------------------------------------------------------------------
(***************************************************************************)
(* The operator dies at any step and starts again: its memory is lost, its  *)
(* caches are filled from the API server and every Scan is enqueued.        *)
(***************************************************************************)
Crash ==
    /\ crashes < MaxCrashes /\ Undisturbed
    /\ crashes' = crashes + 1
    /\ pc' = "idle" /\ obj' = NoScan /\ cursor' = <<0, 0>> /\ failing' = FALSE
    /\ cache' = scan
    /\ jobCache' = [j \in Slots |-> View(jobs[j])]
    /\ queued' = scan.exists
    /\ timer' = FALSE
    /\ UNCHANGED <<scan, jobs, s3, expired, edits, faults>>

Operator ==
    \/ Reconcile
    \/ cleanupS3Files
    \/ ReleaseFinalizer
    \/ updateScanStatus
    \/ startScan
    \/ AddFinalizer
    \/ CreateScanner
    \/ PresignFails
    \/ checkIfScanIsCompleted
    \/ startParser
    \/ CreateParser
    \/ checkIfParsingIsCompleted
    \/ setHookStatus
    \/ executeHooks
    \/ processPendingHook
    \/ processInProgressHook
    \/ processSettledHook
    \/ deleteScan

Outside == UNCHANGED <<workVars, crashes, faults>>
DeliverScan == SyncScan /\ Outside
DeliverJobs == SyncJobs /\ Outside
TimerExpires == TimerFires /\ Outside
Enqueue == Resync /\ Outside
Clock == TTLElapses /\ Outside
Pod(j) == Undisturbed /\ PodStep(j) /\ Outside
JobController(j) == JobControllerStep(j) /\ Outside
Retry(j) ==
    /\ MayFail /\ faults' = faults + 1
    /\ PodRestarts(j)
    /\ UNCHANGED <<workVars, crashes>>
User ==
    /\ \/ Unedited /\ (UserLabels \/ UserSuspends)
       \/ UserDeletes
    /\ Outside

Next ==
    \/ Operator
    \/ Crash
    \/ DeliverScan
    \/ DeliverJobs
    \/ TimerExpires
    \/ Enqueue
    \/ Clock
    \/ \E j \in Slots : Pod(j) \/ JobController(j) \/ Retry(j)
    \/ User

Spec == Init /\ [][Next]_vars

(***************************************************************************)
(* The worker goes on, events are delivered, timers fire, pods end and      *)
(* garbage is collected (a pod and a Job take finitely many steps, so that  *)
(* fairness of all of them together is fairness of each).  Nobody is        *)
(* obliged to edit, to crash or to fail, and no periodic resync is relied   *)
(* upon.                                                                    *)
(***************************************************************************)
FairSpec ==
    /\ Spec
    /\ WF_vars(Operator)
    /\ WF_vars(DeliverScan)
    /\ WF_vars(DeliverJobs)
    /\ WF_vars(TimerExpires)
    /\ WF_vars(Clock)
    /\ WF_vars(\E j \in Slots : Pod(j))
    /\ WF_vars(\E j \in Slots : JobController(j))
=============================================================================
