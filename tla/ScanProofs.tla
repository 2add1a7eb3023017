----------------------------- MODULE ScanProofs -----------------------------
(***************************************************************************)
(* Proofs about the scan operator, for every set of hooks, every bound and  *)
(* every choice of the assumptions JobsVisible and WindowQuiet: the caches  *)
(* may be stale, calls may fail and the operator may crash at any step.     *)
(***************************************************************************)
EXTENDS ScanProperties, TLAPS

(* The type invariant, the cursor of executeHooks apart, in two parts: what  *)
(* the operator keeps to itself and what it shares.                         *)
Inner ==
    /\ WorkTypeOK
    /\ cache \in Scan /\ jobCache \in [Slots -> JobViews]
    /\ queued \in BOOLEAN /\ timer \in BOOLEAN /\ expired \in BOOLEAN
    /\ edits \in Nat

Outer ==
    /\ scan \in Scan
    /\ jobs \in [Slots -> JobPhases]
    /\ s3 \in [raw: BOOLEAN, findings: Writers]

Typed == Inner /\ Outer

-----------------------------------------------------------------------------
(***************************************************************************)
(* What the API server makes of a Scan is a Scan.                           *)
(***************************************************************************)
LEMMA ScanFields ==
    ASSUME NEW o \in Scan
    PROVE  /\ o.rv \in Nat
           /\ o.finalizers \in SUBSET Finalizers
           /\ o.findings \in Writers
           /\ {o.exists, o.deleting, o.suspend, o.finished, o.raw} \subseteq BOOLEAN
           /\ o.state \in ScanStates
           /\ o.groups \in Groupings
           /\ o.hook \in [HookNames -> HookStates]
BY DEF Scan

LEMMA NextVersion == ASSUME NEW o \in Scan PROVE o.rv + 1 \in Nat
BY DEF Scan

LEMMA RemovedTyped == ASSUME NEW o \in Scan PROVE Removed(o) \in Scan
BY NextVersion DEF Removed, Scan

LEMMA DeletedTyped == ASSUME NEW o \in Scan PROVE Deleted(o) \in Scan
<1>1. [o EXCEPT !.deleting = TRUE, !.rv = @ + 1] \in Scan
  BY NextVersion DEF Scan
<1> QED
  BY <1>1, RemovedTyped DEF Deleted

LEMMA WithFinalizersTyped ==
    ASSUME scan \in Scan, NEW f \in SUBSET Finalizers
    PROVE  WithFinalizers(f) \in Scan
<1>1. [scan EXCEPT !.finalizers = {}] \in Scan
  BY DEF Scan
<1>2. [scan EXCEPT !.finalizers = f, !.rv = @ + 1] \in Scan
  BY NextVersion DEF Scan
<1> QED
  BY <1>1, <1>2, RemovedTyped DEF WithFinalizers

LEMMA WithStatusOfTyped ==
    ASSUME scan \in Scan, NEW o \in Scan
    PROVE  WithStatusOf(o) \in Scan
<1> DEFINE new == [scan EXCEPT !.state = o.state, !.finished = o.finished, !.raw = o.raw,
                               !.findings = o.findings, !.groups = o.groups, !.hook = o.hook]
<1>1. new \in Scan
  BY DEF Scan
<1>2. [new EXCEPT !.rv = @ + 1] \in Scan
  <2> HIDE DEF new
  <2> QED
    BY <1>1, NextVersion DEF Scan
<1> QED
  BY <1>1, <1>2 DEF WithStatusOf

LEMMA StampedTyped == ASSUME NEW o \in Scan PROVE Stamped(o) \in Scan
BY DEF Stamped, Scan

LEMMA ErroredTyped == ASSUME NEW o \in Scan PROVE Errored(o) \in Scan
BY DEF Errored, Scan, ScanStates

LEMMA NoScanTyped == NoScan \in Scan
BY DEF NoScan, Scan, ScanStates, Writers, Groupings, HookStates, Finalizers

-----------------------------------------------------------------------------
(***************************************************************************)
(* The pieces the actions of the operator are made of.                      *)
(***************************************************************************)
LEMMA ReturnTyped ==
    ASSUME Inner, NEW error \in BOOLEAN, NEW state, Return(error, state), faults' \in Nat
    PROVE  Inner'
<1>1. HasTTL \in BOOLEAN
  BY ClusterAssumption
<1> QED
  BY <1>1, NoScanTyped DEF Inner, WorkTypeOK, Return, Steps

LEMMA ReturnsTyped ==
    ASSUME Inner, ReturnNil \/ ReturnError \/ Fails
    PROVE  Inner'
<1>0. faults \in Nat /\ faults + 1 \in Nat
  BY DEF Inner, WorkTypeOK
<1>1. faults' \in Nat
  BY <1>0 DEF ReturnNil, ReturnError, Fails
<1> QED
  BY <1>1, ReturnTyped DEF ReturnNil, ReturnError, Fails

LEMMA ContinueTyped ==
    ASSUME Inner, Continue, pc' \in Steps, obj' \in Scan, failing' \in BOOLEAN
    PROVE  Inner'
BY DEF Inner, WorkTypeOK, Continue

LEMMA GotoTyped ==
    ASSUME Inner, Continue, NEW step \in Steps, Goto(step), obj' \in Scan
    PROVE  Inner'
<1>1. pc' \in Steps /\ failing' \in BOOLEAN
  BY DEF Goto, Inner, WorkTypeOK
<1> QED
  BY <1>1, ContinueTyped

LEMMA WriteTyped ==
    ASSUME Inner, NEW o \in Scan, NEW error \in BOOLEAN, Write(o, error)
    PROVE  Inner'
<1>1. Continue /\ pc' \in Steps /\ obj' \in Scan /\ failing' \in BOOLEAN
  BY DEF Write, Steps
<1> QED
  BY <1>1, ContinueTyped

LEMMA PhaseTyped ==
    ASSUME Outer, NEW j, NEW phase \in JobPhases
    PROVE  [jobs EXCEPT ![j] = phase] \in [Slots -> JobPhases]
BY DEF Outer

LEMMA CreateJobTyped ==
    ASSUME Outer, NEW kind, CreateJob(kind)
    PROVE  jobs' \in [Slots -> JobPhases]
BY PhaseTyped DEF CreateJob, JobPhases

LEMMA ViewsTyped ==
    ASSUME Outer
    PROVE  [j \in Slots |-> View(jobs[j])] \in [Slots -> JobViews]
BY DEF Outer, View, Running, JobPhases, JobViews

LEMMA StatusTyped ==
    ASSUME NEW views
    PROVE  checkIfAllJobsCompleted(views) \in {"completed", "failed", "incomplete"}
BY DEF checkIfAllJobsCompleted

LEMMA WriterTyped == "none" \in Writers /\ JobKinds \subseteq Writers
BY DEF Writers

-----------------------------------------------------------------------------
(***************************************************************************)
(* Each action of the operator keeps the types.                             *)
(***************************************************************************)
LEMMA ReconcileTyped == ASSUME Typed, Reconcile PROVE Typed'
<1>1. Outer'
  BY DEF Typed, Outer, Reconcile
<1>2. pc' \in Steps /\ obj' \in Scan /\ failing' \in BOOLEAN
  BY DEF Typed, Inner, WorkTypeOK, Reconcile, workVars, Goto, AfterGet, Steps
<1>3. Inner'
  BY <1>2 DEF Typed, Inner, WorkTypeOK, Reconcile
<1> QED
  BY <1>1, <1>3 DEF Typed

LEMMA CleanupTyped == ASSUME Typed, cleanupS3Files PROVE Typed'
<1>1. Inner'
  <2>1. CASE Fails
    BY <2>1, ReturnsTyped DEF Typed
  <2>2. CASE Goto("release") /\ UNCHANGED obj /\ Continue
    <3>1. obj' \in Scan
      BY <2>2 DEF Typed, Inner, WorkTypeOK
    <3> QED
      BY <2>2, <3>1, GotoTyped DEF Typed, Steps
  <2> QED
    BY <2>1, <2>2 DEF cleanupS3Files
<1>2. Cleaned \in [raw: BOOLEAN, findings: Writers]
  BY WriterTyped DEF Typed, Outer, Cleaned
<1>3. [Cleaned EXCEPT !.findings = s3.findings] \in [raw: BOOLEAN, findings: Writers]
  BY <1>2 DEF Typed, Outer
<1>4. s3' \in [raw: BOOLEAN, findings: Writers]
  BY <1>2, <1>3 DEF Typed, Outer, cleanupS3Files
<1>5. Outer'
  BY <1>4 DEF Typed, Outer, cleanupS3Files
<1> QED
  BY <1>1, <1>5 DEF Typed

LEMMA FinalizersSetTyped ==
    ASSUME Inner, Outer, NEW f \in SUBSET Finalizers,
           scan' = WithFinalizers(f), obj' = [obj EXCEPT !.finalizers = f, !.rv = scan'.rv]
    PROVE  obj' \in Scan
<1>1. scan'.rv \in Nat
  BY WithFinalizersTyped DEF Outer, Scan
<1> QED
  BY <1>1 DEF Inner, WorkTypeOK, Scan

LEMMA ReleaseTyped == ASSUME Typed, ReleaseFinalizer PROVE Typed'
<1>1. Remaining \in SUBSET Finalizers
  BY DEF Remaining, Typed, Inner, WorkTypeOK, Scan
<1>2. scan' \in Scan
  BY <1>1, WithFinalizersTyped DEF ReleaseFinalizer, Typed, Outer
<1>3. Outer'
  BY <1>2 DEF ReleaseFinalizer, Typed, Outer
<1>4. Inner'
  <2>1. CASE ReturnError \/ Fails
    BY <2>1, ReturnsTyped DEF Typed
  <2>2. CASE /\ scan' = WithFinalizers(Remaining)
             /\ obj' = [obj EXCEPT !.finalizers = Remaining, !.rv = scan'.rv]
             /\ Goto(IF Remaining = {} THEN "switch" ELSE "cleanup")
             /\ Continue
    <3>1. obj' \in Scan
      BY <2>2, <1>1, FinalizersSetTyped DEF Typed
    <3>2. (IF Remaining = {} THEN "switch" ELSE "cleanup") \in Steps
      BY DEF Steps
    <3> QED
      BY <2>2, <3>1, <3>2, GotoTyped DEF Typed
  <2> QED
    BY <2>1, <2>2 DEF ReleaseFinalizer
<1> QED
  BY <1>3, <1>4 DEF Typed

LEMMA StatusWriteTyped == ASSUME Typed, updateScanStatus PROVE Typed'
<1>1. Stamped(obj) \in Scan
  BY StampedTyped DEF Typed, Inner, WorkTypeOK
<1>2. WithStatusOf(Stamped(obj)) \in Scan
  BY <1>1, WithStatusOfTyped DEF Typed, Outer
<1>3. Outer'
  BY <1>2 DEF updateScanStatus, Typed, Outer
<1>4. Inner'
  <2>1. failing \in BOOLEAN /\ (~IgnoresError) \in BOOLEAN
    BY DEF Typed, Inner, WorkTypeOK, IgnoresError
  <2>2. faults' \in Nat
    BY DEF updateScanStatus, Typed, Inner, WorkTypeOK
  <2>3. \E error \in BOOLEAN : Return(error, obj.state)
    BY <2>1 DEF updateScanStatus
  <2> QED
    BY <2>2, <2>3, ReturnTyped DEF Typed
<1> QED
  BY <1>3, <1>4 DEF Typed

LEMMA StartTyped == ASSUME Typed, startScan \/ startParser PROVE Typed'
<1>1. Outer'
  BY DEF Typed, Outer, startScan, startParser
<1>2. Inner'
  <2>1. CASE ReturnNil
    BY <2>1, ReturnsTyped DEF Typed
  <2>2. CASE /\ Continue /\ UNCHANGED obj
             /\ \E step \in {"createScanner", "addFinalizer", "createParser"} : Goto(step)
    <3>1. obj' \in Scan
      BY <2>2 DEF Typed, Inner, WorkTypeOK
    <3> QED
      BY <2>2, <3>1, GotoTyped DEF Typed, Steps
  <2> QED
    BY <2>1, <2>2 DEF startScan, startParser
<1> QED
  BY <1>1, <1>2 DEF Typed

LEMMA AddFinalizerTyped == ASSUME Typed, AddFinalizer PROVE Typed'
<1>1. WantedFinalizers \in SUBSET Finalizers
  BY DEF WantedFinalizers, Typed, Inner, WorkTypeOK, Scan, Finalizers
<1>2. scan' \in Scan
  BY <1>1, WithFinalizersTyped DEF AddFinalizer, Typed, Outer
<1>3. Outer'
  BY <1>2 DEF AddFinalizer, Typed, Outer
<1>4. Inner'
  <2>1. CASE ReturnError \/ Fails
    BY <2>1, ReturnsTyped DEF Typed
  <2>2. CASE /\ scan' = WithFinalizers(WantedFinalizers)
             /\ obj' = [obj EXCEPT !.finalizers = WantedFinalizers, !.rv = scan'.rv]
             /\ Goto("createScanner") /\ Continue
    <3>1. obj' \in Scan
      BY <2>2, <1>1, FinalizersSetTyped DEF Typed
    <3> QED
      BY <2>2, <3>1, GotoTyped DEF Typed, Steps
  <2> QED
    BY <2>1, <2>2 DEF AddFinalizer
<1> QED
  BY <1>3, <1>4 DEF Typed

LEMMA CreateAndRecordTyped ==
    ASSUME Typed, NEW kind, NEW o \in Scan, CreateAndRecord(kind, o)
    PROVE  Inner' /\ jobs' \in [Slots -> JobPhases]
<1>1. CASE CreateJob(kind) /\ obj' = o /\ Goto("record") /\ Continue
  BY <1>1, CreateJobTyped, GotoTyped DEF Typed, Steps
<1>2. CASE CreateJob(kind) /\ ~WindowQuiet /\ Fails
  BY <1>2, CreateJobTyped, ReturnsTyped DEF Typed
<1>3. CASE Fails /\ UNCHANGED jobs
  BY <1>3, ReturnsTyped DEF Typed, Outer
<1> QED
  BY <1>1, <1>2, <1>3 DEF CreateAndRecord

LEMMA CreateScannerTyped == ASSUME Typed, CreateScanner PROVE Typed'
<1>1. [obj EXCEPT !.state = "Scanning", !.raw = TRUE] \in Scan
  BY DEF Typed, Inner, WorkTypeOK, Scan, ScanStates
<1>2. Errored(obj) \in Scan
  BY ErroredTyped DEF Typed, Inner, WorkTypeOK
<1>3. Inner' /\ jobs' \in [Slots -> JobPhases]
  BY <1>1, <1>2, CreateAndRecordTyped, WriteTyped DEF CreateScanner, Typed, Outer
<1> QED
  BY <1>3 DEF CreateScanner, Typed, Outer

LEMMA CreateParserTyped == ASSUME Typed, CreateParser PROVE Typed'
<1>1. [obj EXCEPT !.state = "Parsing"] \in Scan
  BY DEF Typed, Inner, WorkTypeOK, Scan, ScanStates
<1>2. Errored(obj) \in Scan
  BY ErroredTyped DEF Typed, Inner, WorkTypeOK
<1>3. Inner' /\ jobs' \in [Slots -> JobPhases]
  BY <1>1, <1>2, CreateAndRecordTyped, WriteTyped DEF CreateParser, Typed, Outer
<1> QED
  BY <1>3 DEF CreateParser, Typed, Outer

LEMMA PresignTyped == ASSUME Typed, PresignFails PROVE Typed'
BY ReturnsTyped DEF Typed, Outer, PresignFails

LEMMA CheckJobTyped ==
    ASSUME Typed, NEW kind, NEW next \in ScanStates, CheckJob(kind, next)
    PROVE  Typed'
<1>1. [obj EXCEPT !.state = next] \in Scan
  BY DEF Typed, Inner, WorkTypeOK, Scan
<1>2. Errored(obj) \in Scan
  BY ErroredTyped DEF Typed, Inner, WorkTypeOK
<1>3. \/ Write([obj EXCEPT !.state = next], FALSE)
      \/ Write(Errored(obj), FALSE)
      \/ ReturnNil
  BY StatusTyped DEF CheckJob
<1>4. Inner'
  BY <1>1, <1>2, <1>3, WriteTyped, ReturnsTyped DEF Typed
<1> QED
  BY <1>4 DEF Typed, Outer, CheckJob

LEMMA CheckTyped ==
    ASSUME Typed, checkIfScanIsCompleted \/ checkIfParsingIsCompleted
    PROVE  Typed'
BY CheckJobTyped DEF checkIfScanIsCompleted, checkIfParsingIsCompleted, ScanStates

LEMMA SetHookStatusTyped == ASSUME Typed, setHookStatus PROVE Typed'
<1>1. CASE Fails
  BY <1>1, ReturnsTyped DEF Typed, Outer, setHookStatus
<1>2. ASSUME NEW list \in HookLists,
             Write([obj EXCEPT !.groups = FromUnorderedList(list),
                               !.hook = [h \in HookNames |-> "Pending"],
                               !.state = "HookProcessing"], FALSE)
      PROVE  Typed'
  <2>1. FromUnorderedList(list) \in Groupings
    BY DEF Groupings
  <2>2. [h \in HookNames |-> "Pending"] \in [HookNames -> HookStates]
    BY DEF HookStates
  <2>3. [obj EXCEPT !.groups = FromUnorderedList(list),
                    !.hook = [h \in HookNames |-> "Pending"],
                    !.state = "HookProcessing"] \in Scan
    BY <2>1, <2>2 DEF Typed, Inner, WorkTypeOK, Scan, ScanStates
  <2> QED
    BY <1>2, <2>3, WriteTyped DEF Typed, Outer, setHookStatus
<1> QED
  BY <1>1, <1>2 DEF setHookStatus

LEMMA ExecuteHooksTyped == ASSUME Typed, executeHooks PROVE Typed'
<1>1. Errored(obj) \in Scan /\ [obj EXCEPT !.state = "Done"] \in Scan
  BY ErroredTyped DEF Typed, Inner, WorkTypeOK, Scan, ScanStates
<1>2. CurrentHookGroup(obj.groups, obj.hook).result \in {"error", "none", "group"}
  BY DEF CurrentHookGroup
<1>3. \/ Write(Errored(obj), TRUE)
      \/ Write([obj EXCEPT !.state = "Done"], FALSE)
      \/ pc' = "hooks" /\ failing' = FALSE /\ UNCHANGED obj /\ Continue
  BY <1>2 DEF executeHooks
<1>4. CASE pc' = "hooks" /\ failing' = FALSE /\ UNCHANGED obj /\ Continue
  BY <1>4, ContinueTyped DEF executeHooks, Typed, Inner, Outer, WorkTypeOK, Steps
<1>5. CASE Write(Errored(obj), TRUE) \/ Write([obj EXCEPT !.state = "Done"], FALSE)
  BY <1>1, <1>5, WriteTyped DEF executeHooks, Typed, Outer
<1> QED
  BY <1>3, <1>4, <1>5

LEMMA HookDoneTyped ==
    ASSUME Inner, NEW o \in Scan, NEW error \in BOOLEAN, HookDone(o, error), faults' \in Nat
    PROVE  Inner'
<1>1. obj' \in Scan
  BY ErroredTyped DEF HookDone
<1> QED
  BY <1>1 DEF HookDone, Inner, WorkTypeOK, Steps

LEMMA HookBecomesTyped ==
    ASSUME Inner, NEW state \in HookStates, HookBecomes(state), faults' \in Nat
    PROVE  Inner'
<1>1. [obj EXCEPT !.hook[CurrentHook] = state] \in Scan
  BY DEF Inner, WorkTypeOK, Scan
<1> QED
  BY <1>1, HookDoneTyped DEF HookBecomes

LEMMA PendingHookTyped == ASSUME Typed, processPendingHook PROVE Typed'
<1>0. faults \in Nat /\ faults + 1 \in Nat
  BY DEF Typed, Inner, WorkTypeOK
<1>1. faults' \in Nat
  BY <1>0 DEF processPendingHook, createJobForHook
<1>2. Inner'
  <2>1. CASE HookError
    BY <1>1, <2>1, HookDoneTyped DEF HookError, Typed, Inner, WorkTypeOK
  <2>2. CASE HookBecomes("InProgress")
    BY <1>1, <2>2, HookBecomesTyped DEF HookStates, Typed
  <2> QED
    BY <2>1, <2>2 DEF processPendingHook, createJobForHook
<1>3. jobs' \in [Slots -> JobPhases]
  BY CreateJobTyped DEF processPendingHook, createJobForHook, Typed, Outer
<1> QED
  BY <1>2, <1>3 DEF processPendingHook, createJobForHook, Typed, Outer

LEMMA InProgressHookTyped == ASSUME Typed, processInProgressHook PROVE Typed'
<1>1. PICK status \in {"completed", "failed", "incomplete"} : HookBecomes(AfterJob[status])
  BY StatusTyped DEF processInProgressHook
<1>2. AfterJob[status] \in HookStates
  BY DEF AfterJob, HookStates
<1>3. faults' \in Nat
  BY DEF processInProgressHook, Typed, Inner, WorkTypeOK
<1>4. Inner'
  BY <1>1, <1>2, <1>3, HookBecomesTyped DEF Typed
<1> QED
  BY <1>4 DEF processInProgressHook, Typed, Outer

LEMMA SettledHookTyped == ASSUME Typed, processSettledHook PROVE Typed'
<1>1. Inner'
  BY HookDoneTyped DEF processSettledHook, Typed, Inner, WorkTypeOK
<1> QED
  BY <1>1 DEF processSettledHook, Typed, Outer

LEMMA DeleteTyped == ASSUME Typed, deleteScan PROVE Typed'
<1>1. Deleted(scan) \in Scan
  BY DeletedTyped DEF Typed, Outer
<1>2. Outer'
  BY <1>1 DEF deleteScan, Typed, Outer
<1>3. Inner'
  BY ReturnsTyped DEF deleteScan, Typed
<1> QED
  BY <1>2, <1>3 DEF Typed

LEMMA CrashTyped == ASSUME Typed, Crash PROVE Typed'
<1>1. crashes' \in Nat
  BY DEF Crash, Typed, Inner, WorkTypeOK
<1>2. cache' \in Scan /\ jobCache' \in [Slots -> JobViews] /\ queued' \in BOOLEAN
  BY ViewsTyped, ScanFields DEF Crash, Typed, Outer
<1>3. Inner'
  BY <1>1, <1>2, NoScanTyped DEF Crash, Typed, Inner, WorkTypeOK, Steps
<1> QED
  BY <1>3 DEF Crash, Typed, Outer

LEMMA OperatorTyped == ASSUME Typed, Operator PROVE Typed'
BY ReconcileTyped, CleanupTyped, ReleaseTyped, StatusWriteTyped, StartTyped,
   AddFinalizerTyped, CreateScannerTyped, CreateParserTyped, PresignTyped, CheckTyped,
   SetHookStatusTyped, ExecuteHooksTyped, PendingHookTyped, InProgressHookTyped,
   SettledHookTyped, DeleteTyped
   DEF Operator

-----------------------------------------------------------------------------
(***************************************************************************)
(* So do pods, the API server, informers, timers and users.                 *)
(***************************************************************************)
LEMMA SlotKind == ASSUME NEW j \in Slots PROVE j[1] \in JobKinds
BY DEF Slots

LEMMA PatchTyped ==
    ASSUME Outer, NEW kind \in JobKinds, PatchFindings(kind)
    PROVE  scan' \in Scan
<1>1. kind \in Writers
  BY WriterTyped
<1>2. scan.rv + 1 \in Nat
  BY NextVersion DEF Outer
<1>3. [scan EXCEPT !.findings = kind, !.rv = @ + 1] \in Scan
  BY <1>1, <1>2 DEF Outer, Scan
<1> QED
  BY <1>3 DEF PatchFindings, Outer

LEMMA PodTyped == ASSUME Typed, NEW j \in Slots, Pod(j) PROVE Typed'
<1>1. Inner'
  BY DEF Pod, PodStep, Outside, workVars, Typed, Inner, WorkTypeOK
<1>2. j[1] \in JobKinds /\ j[1] \in Writers /\ {"scanner", "parser"} \subseteq JobKinds
  BY SlotKind, WriterTyped DEF JobKinds
<1>3. jobs' \in [Slots -> JobPhases]
  BY PhaseTyped DEF Pod, PodStep, LurkerUploads, ParserPatchesStatus, ParserUploads,
     HookUploadsRaw, HookUploads, HookPatchesStatus, JobSucceeds, JobFails, Becomes,
     JobPhases, Typed
<1>4. s3' \in [raw: BOOLEAN, findings: Writers]
  BY <1>2, WriterTyped DEF Pod, PodStep, LurkerUploads, ParserPatchesStatus, ParserUploads,
     HookUploadsRaw, HookUploads, HookPatchesStatus, JobSucceeds, JobFails, Typed, Outer
<1>5. scan' \in Scan
  BY <1>2, PatchTyped DEF Pod, PodStep, LurkerUploads, ParserPatchesStatus, ParserUploads,
     HookUploadsRaw, HookUploads, HookPatchesStatus, JobSucceeds, JobFails, Typed, Outer
<1> QED
  BY <1>1, <1>3, <1>4, <1>5 DEF Typed, Outer

LEMMA JobControllerTyped == ASSUME Typed, NEW j \in Slots, JobController(j) PROVE Typed'
<1>1. Inner'
  BY DEF JobController, JobControllerStep, Outside, workVars, Typed, Inner, WorkTypeOK
<1>2. jobs' \in [Slots -> JobPhases]
  BY PhaseTyped DEF JobController, JobControllerStep, JobExpires, JobDeleted, Becomes,
     JobPhases, Typed
<1>3. UNCHANGED <<scan, s3>>
  BY DEF JobController, JobControllerStep, JobExpires, JobDeleted
<1> QED
  BY <1>1, <1>2, <1>3 DEF Typed, Outer

LEMMA RetryTyped == ASSUME Typed, NEW j \in Slots, Retry(j) PROVE Typed'
<1>1. Inner'
  BY DEF Retry, PodRestarts, workVars, Typed, Inner, WorkTypeOK
<1>2. jobs' \in [Slots -> JobPhases]
  BY PhaseTyped DEF Retry, PodRestarts, Becomes, JobPhases, Typed
<1>3. UNCHANGED <<scan, s3>>
  BY DEF Retry, PodRestarts
<1> QED
  BY <1>1, <1>2, <1>3 DEF Typed, Outer

LEMMA UserTyped == ASSUME Typed, User PROVE Typed'
<1>1. scan.rv + 1 \in Nat /\ edits + 1 \in Nat
  BY NextVersion DEF Typed, Inner, Outer
<1>2. /\ [scan EXCEPT !.rv = @ + 1] \in Scan
      /\ [scan EXCEPT !.suspend = ~@, !.rv = @ + 1] \in Scan
      /\ Deleted(scan) \in Scan
  BY <1>1, DeletedTyped DEF Typed, Outer, Scan
<1>3. Outer'
  BY <1>2 DEF User, UserLabels, UserSuspends, UserDeletes, Edit, Typed, Outer
<1>4. Inner'
  BY <1>1 DEF User, UserLabels, UserSuspends, UserDeletes, Edit, Outside, workVars,
     Typed, Inner, WorkTypeOK
<1> QED
  BY <1>3, <1>4 DEF Typed

Delivery == DeliverScan \/ DeliverJobs \/ TimerExpires \/ Enqueue \/ Clock

LEMMA DeliveryTyped == ASSUME Typed, Delivery PROVE Typed'
<1>1. Outer'
  BY DEF Delivery, DeliverScan, DeliverJobs, TimerExpires, Enqueue, Clock, SyncScan,
     SyncJobs, TimerFires, Resync, TTLElapses, Typed, Outer
<1>2. WorkTypeOK'
  BY DEF Delivery, DeliverScan, DeliverJobs, TimerExpires, Enqueue, Clock, Outside,
     workVars, Typed, Inner, WorkTypeOK
<1>3. Inner'
  BY <1>2, ViewsTyped DEF Delivery, DeliverScan, DeliverJobs, TimerExpires, Enqueue, Clock,
     SyncScan, SyncJobs, TimerFires, Resync, TTLElapses, Typed, Inner, Outer
<1> QED
  BY <1>1, <1>3 DEF Typed

LEMMA InitTyped == ASSUME Init PROVE Typed
<1>1. PICK f \in InitialFinalizers :
        scan = [exists |-> TRUE, rv |-> 1, deleting |-> FALSE, suspend |-> FALSE,
                finalizers |-> f, state |-> "Init", finished |-> FALSE, raw |-> FALSE,
                findings |-> "none", groups |-> <<>>,
                hook |-> [h \in HookNames |-> "Pending"]]
  BY DEF Init, ClusterInit
<1>2. scan \in Scan
  BY <1>1, ClusterAssumption DEF Scan, ScanStates, Writers, Groupings, HookStates, Finalizers
<1> QED
  BY <1>2, NoScanTyped DEF Init, ClusterInit, Typed, Inner, Outer, WorkTypeOK, Steps,
     JobPhases, JobViews, Writers

LEMMA NextTyped == ASSUME Typed, [Next]_vars PROVE Typed'
<1>1. CASE UNCHANGED vars
  BY <1>1 DEF vars, clusterVars, workVars, Typed, Inner, Outer, WorkTypeOK
<1>2. CASE Next
  BY <1>2, OperatorTyped, CrashTyped, DeliveryTyped, PodTyped, JobControllerTyped,
     RetryTyped, UserTyped
     DEF Next, Delivery
<1> QED
  BY <1>1, <1>2

(* Every variable of the operator and of the cluster has its type in every  *)
(* reachable state.                                                         *)
THEOREM TypeCorrect == Spec => [](ClusterTypeOK /\ WorkTypeOK)
<1>1. Spec => []Typed
  BY InitTyped, NextTyped, PTL DEF Spec
<1>2. Typed => ClusterTypeOK /\ WorkTypeOK
  BY DEF Typed, Inner, Outer, ClusterTypeOK
<1> QED
  BY <1>1, <1>2, PTL

-----------------------------------------------------------------------------
(***************************************************************************)
(* The inductive invariant.  A copy of the Scan, in the cache or in the     *)
(* hands of Reconcile, is never ahead of the API server; one of the newest  *)
(* version has the newest findings; and what it shows of finalizer,         *)
(* deletion and progress has really happened, and lasts.                    *)
(***************************************************************************)
Protected == "s3" \in scan.finalizers \/ scan.deleting \/ ~scan.exists

Follows(o) ==
    /\ o.rv <= scan.rv
    /\ o.rv = scan.rv => o.findings = scan.findings
    /\ o.deleting => scan.deleting
    /\ "s3" \in o.finalizers => Protected
    /\ o.state # "Init" => Protected

StepMatchesCopy ==
    /\ pc \in {"cleanup", "release"} => obj.deleting
    /\ pc = "createScanner" => "s3" \in obj.finalizers
    /\ pc \in {"createParser", "hooks"} => obj.state # "Init"

ScannerCreated == \E j \in JobsOf("scanner") : jobs[j] # "None"

IInv ==
    /\ Follows(cache)
    /\ pc # "idle" => Follows(obj) /\ StepMatchesCopy
    /\ scan.state # "Init" => Protected
    /\ ScannerCreated => Protected

-----------------------------------------------------------------------------
(***************************************************************************)
(* How the Scan changes in the API server.                                  *)
(***************************************************************************)
ScanStep ==
    /\ scan' = scan \/ scan'.rv = scan.rv + 1
    /\ scan.deleting => scan'.deleting
    /\ Protected => Protected'

LEMMA NoStep == ASSUME UNCHANGED scan PROVE ScanStep
BY DEF ScanStep, Protected

LEMMA FinalizersStep ==
    ASSUME Outer, NEW f \in SUBSET Finalizers, "s3" \in f \/ scan.deleting, scan.exists,
           scan' = WithFinalizers(f)
    PROVE  /\ ScanStep
           /\ scan'.findings = scan.findings
           /\ scan'.deleting = scan.deleting
           /\ scan'.state = scan.state
           /\ "s3" \in f => Protected'
<1>1. CASE scan.deleting /\ f = {}
  BY <1>1 DEF WithFinalizers, Removed, ScanStep, Protected, Outer, Scan
<1>2. CASE ~(scan.deleting /\ f = {}) /\ f = scan.finalizers
  BY <1>2 DEF WithFinalizers, ScanStep, Protected, Outer, Scan
<1>3. CASE ~(scan.deleting /\ f = {}) /\ f # scan.finalizers
  BY <1>3 DEF WithFinalizers, ScanStep, Protected, Outer, Scan
<1> QED
  BY <1>1, <1>2, <1>3

LEMMA StatusStep ==
    ASSUME Outer, NEW o \in Scan, scan' = WithStatusOf(o)
    PROVE  /\ ScanStep
           /\ scan'.findings = o.findings
           /\ scan'.state = o.state
           /\ Protected' <=> Protected
<1> DEFINE new == [scan EXCEPT !.state = o.state, !.finished = o.finished, !.raw = o.raw,
                               !.findings = o.findings, !.groups = o.groups, !.hook = o.hook]
<1>1. /\ new.rv = scan.rv /\ new.deleting = scan.deleting /\ new.exists = scan.exists
      /\ new.finalizers = scan.finalizers
      /\ new.findings = o.findings /\ new.state = o.state
  BY DEF Outer, Scan
<1>2. new \in Scan
  BY DEF Outer, Scan
<1>3. scan' = IF new = scan THEN scan ELSE [new EXCEPT !.rv = @ + 1]
  BY DEF WithStatusOf
<1> HIDE DEF new
<1> QED
  BY <1>1, <1>2, <1>3 DEF ScanStep, Protected, Scan

LEMMA DeletedStep ==
    ASSUME Outer, scan' = Deleted(scan)
    PROVE  ScanStep /\ scan'.findings = scan.findings /\ scan'.state = scan.state
<1>1. CASE ~scan.exists \/ scan.deleting
  BY <1>1, NoStep DEF Deleted
<1>2. CASE ~(~scan.exists \/ scan.deleting) /\ scan.finalizers = {}
  BY <1>2 DEF Deleted, Removed, ScanStep, Protected, Outer, Scan
<1>3. CASE ~(~scan.exists \/ scan.deleting) /\ scan.finalizers # {}
  <2>1. scan' = [scan EXCEPT !.deleting = TRUE, !.rv = @ + 1]
    BY <1>3 DEF Deleted
  <2>2. /\ scan'.rv = scan.rv + 1 /\ scan'.deleting
        /\ scan'.findings = scan.findings /\ scan'.state = scan.state
    BY <2>1 DEF Outer, Scan
  <2> QED
    BY <2>2 DEF ScanStep, Protected
<1> QED
  BY <1>1, <1>2, <1>3

LEMMA PatchStep ==
    ASSUME Outer, NEW kind, PatchFindings(kind)
    PROVE  /\ ScanStep
           /\ scan'.state = scan.state
           /\ scan'.findings # scan.findings => scan'.findings = kind
BY DEF PatchFindings, ScanStep, Protected, Outer, Scan

(* A copy that follows the Scan still follows it after a step of the Scan.  *)
LEMMA StillFollows ==
    ASSUME Outer, ScanStep, NEW o \in Scan, Follows(o)
    PROVE  /\ o.rv <= scan'.rv
           /\ o.rv = scan'.rv => o.findings = scan'.findings
           /\ o.deleting => scan'.deleting
           /\ "s3" \in o.finalizers => Protected'
           /\ o.state # "Init" => Protected'
<1>1. o.rv \in Nat /\ scan.rv \in Nat
  BY ScanFields DEF Outer
<1> QED
  BY <1>1 DEF ScanStep, Follows

LEMMA CacheStillFollows ==
    ASSUME Typed, ScanStep, Follows(cache), UNCHANGED cache
    PROVE  Follows(cache)'
BY StillFollows DEF Typed, Inner, Follows

(* What Reconcile may do to its copy without talking to the API server.     *)
CopyKept ==
    /\ obj'.rv = obj.rv
    /\ obj'.findings = obj.findings
    /\ obj'.finalizers = obj.finalizers
    /\ obj'.deleting = obj.deleting
    /\ obj'.state # "Init" => obj.state # "Init" \/ Protected

LEMMA CopyStillFollows ==
    ASSUME Typed, ScanStep, Follows(obj), CopyKept
    PROVE  Follows(obj)'
<1>1. obj.state # "Init" => Protected
  BY DEF Follows
<1>2. Protected => Protected'
  BY DEF ScanStep
<1> QED
  BY <1>1, <1>2, StillFollows DEF Typed, Inner, WorkTypeOK, CopyKept, Follows

(* The scheme of most steps.                                                *)
LEMMA Carried ==
    ASSUME Typed, IInv, ScanStep,
           UNCHANGED cache,
           pc' # "idle" => pc # "idle" /\ CopyKept /\ StepMatchesCopy',
           scan'.state # scan.state => Protected,
           ScannerCreated' => ScannerCreated \/ Protected
    PROVE  IInv'
<1>1. Follows(cache)'
  BY CacheStillFollows DEF IInv
<1>2. pc' # "idle" => Follows(obj)' /\ StepMatchesCopy'
  BY CopyStillFollows DEF IInv
<1>3. Protected => Protected'
  BY DEF ScanStep
<1> QED
  BY <1>1, <1>2, <1>3 DEF IInv

-----------------------------------------------------------------------------
(***************************************************************************)
(* Each action of the operator keeps the invariant, and the summary of the  *)
(* findings.                                                                *)
(***************************************************************************)
Findings == IInv' /\ scan'.findings = scan.findings

(* An action after which Reconcile has returned or continues with its copy, *)
(* and that only creates scanner Jobs for a protected Scan.                 *)
LEMMA QuietStep ==
    ASSUME Typed, IInv, UNCHANGED <<scan, cache>>,
           pc' # "idle" => pc # "idle" /\ CopyKept /\ StepMatchesCopy',
           UNCHANGED jobs \/ Protected
    PROVE  Findings
<1>1. ScannerCreated' => ScannerCreated \/ Protected
  BY DEF ScannerCreated
<1> QED
  BY <1>1, Carried, NoStep DEF Findings

LEMMA ReturnedIdle ==
    ASSUME NEW error, NEW state, Return(error, state)
    PROVE  pc' = "idle" /\ UNCHANGED cache
BY DEF Return

LEMMA ReturnsIdle ==
    ASSUME ReturnNil \/ ReturnError \/ Fails
    PROVE  pc' = "idle" /\ UNCHANGED cache
BY ReturnedIdle DEF ReturnNil, ReturnError, Fails

LEMMA ReconcileKeeps == ASSUME Typed, IInv, Reconcile PROVE Findings
<1>1. CASE Skipped(cache)
  <2>1. pc' = "idle" /\ UNCHANGED <<scan, jobs, cache>>
    BY <1>1 DEF Reconcile, workVars
  <2> QED
    BY <2>1, QuietStep
<1>2. CASE ~Skipped(cache)
  <2>1. /\ UNCHANGED <<scan, jobs, cache>>
        /\ obj' = cache
        /\ pc' = IF cache.deleting /\ cache.finalizers # {} THEN "cleanup" ELSE "switch"
    BY <1>2 DEF Reconcile, Goto, AfterGet
  <2>2. Follows(cache)' /\ Follows(obj)'
    BY <2>1 DEF IInv, Follows, Protected
  <2>3. StepMatchesCopy'
    BY <2>1 DEF StepMatchesCopy
  <2>4. (scan.state # "Init" => Protected)' /\ (ScannerCreated => Protected)'
    BY <2>1 DEF IInv, Protected, ScannerCreated
  <2> QED
    BY <2>1, <2>2, <2>3, <2>4 DEF Findings, IInv
<1> QED
  BY <1>1, <1>2

LEMMA CleanupKeeps == ASSUME Typed, IInv, cleanupS3Files PROVE Findings
<1>1. UNCHANGED <<scan, jobs>>
  BY DEF cleanupS3Files
<1>2. CASE Fails
  BY <1>1, <1>2, ReturnsIdle, QuietStep
<1>3. CASE Goto("release") /\ UNCHANGED obj /\ Continue
  <2>1. pc = "cleanup" /\ pc' = "release" /\ UNCHANGED cache
    BY <1>3 DEF cleanupS3Files, Goto, Continue
  <2>2. CopyKept /\ StepMatchesCopy'
    BY <1>3, <2>1 DEF CopyKept, StepMatchesCopy, IInv
  <2> QED
    BY <1>1, <2>1, <2>2, QuietStep
<1> QED
  BY <1>2, <1>3 DEF cleanupS3Files

(* An Update of the finalizers after which Reconcile has returned or goes   *)
(* on with the new version.                                                 *)
LEMMA FinalizersKeep ==
    ASSUME Typed, IInv, NEW f \in SUBSET Finalizers, "s3" \in f \/ scan.deleting,
           AcceptsFinalizers(obj, f), scan' = WithFinalizers(f), pc # "idle",
           UNCHANGED <<jobs, cache>>,
           pc' # "idle" => /\ obj' = [obj EXCEPT !.finalizers = f, !.rv = scan'.rv]
                           /\ StepMatchesCopy'
    PROVE  Findings
<1>1. scan.exists /\ obj.rv = scan.rv
  BY DEF AcceptsFinalizers, AcceptsUpdate
<1>2. /\ ScanStep
      /\ scan'.findings = scan.findings
      /\ scan'.deleting = scan.deleting
      /\ scan'.state = scan.state
      /\ "s3" \in f => Protected'
  BY <1>1, FinalizersStep DEF Typed
<1>3. Follows(cache)'
  BY <1>2, CacheStillFollows DEF IInv
<1>4. Protected => Protected'
  BY <1>2 DEF ScanStep
<1>5. ASSUME pc' # "idle" PROVE Follows(obj)'
  <2>1. /\ obj'.rv = scan'.rv /\ obj'.finalizers = f /\ obj'.findings = obj.findings
        /\ obj'.deleting = obj.deleting /\ obj'.state = obj.state
    BY <1>5 DEF Typed, Inner, WorkTypeOK, Scan
  <2>2. scan'.rv \in Nat
    BY WithFinalizersTyped DEF Typed, Outer, Scan
  <2>3. Follows(obj)
    BY DEF IInv
  <2> QED
    BY <1>1, <1>2, <1>4, <2>1, <2>2, <2>3 DEF Follows
<1>6. ScannerCreated' <=> ScannerCreated
  BY DEF ScannerCreated
<1> QED
  BY <1>2, <1>3, <1>4, <1>5, <1>6 DEF Findings, IInv

LEMMA ReleaseKeeps == ASSUME Typed, IInv, ReleaseFinalizer PROVE Findings
<1>1. Remaining \in SUBSET Finalizers
  BY DEF Remaining, Typed, Inner, WorkTypeOK, Scan
<1>2. obj.deleting /\ scan.deleting
  BY DEF ReleaseFinalizer, IInv, StepMatchesCopy, Follows
<1>3. CASE (ReturnError \/ Fails) /\ UNCHANGED scan
  BY <1>3, ReturnsIdle, QuietStep DEF ReleaseFinalizer
<1>4. CASE /\ AcceptsFinalizers(obj, Remaining) /\ scan' = WithFinalizers(Remaining)
           /\ \/ /\ obj' = [obj EXCEPT !.finalizers = Remaining, !.rv = scan'.rv]
                 /\ Goto(IF Remaining = {} THEN "switch" ELSE "cleanup")
                 /\ Continue
              \/ Fails
  <2>1. pc # "idle" /\ UNCHANGED <<jobs, cache>>
    BY <1>4, ReturnsIdle DEF ReleaseFinalizer, Continue
  <2>2. ASSUME pc' # "idle"
        PROVE  /\ obj' = [obj EXCEPT !.finalizers = Remaining, !.rv = scan'.rv]
               /\ StepMatchesCopy'
    <3>1. /\ obj' = [obj EXCEPT !.finalizers = Remaining, !.rv = scan'.rv]
          /\ pc' \in {"switch", "cleanup"}
      BY <1>4, <2>2, ReturnsIdle DEF Goto
    <3>2. obj'.deleting
      BY <1>2, <3>1 DEF Typed, Inner, WorkTypeOK, Scan
    <3> QED
      BY <3>1, <3>2 DEF StepMatchesCopy
  <2> QED
    BY <1>1, <1>2, <1>4, <2>1, <2>2, FinalizersKeep
<1> QED
  BY <1>3, <1>4 DEF ReleaseFinalizer

LEMMA StatusWriteKeeps == ASSUME Typed, IInv, updateScanStatus PROVE Findings
<1>1. pc # "idle" /\ pc' = "idle" /\ UNCHANGED <<jobs, cache>>
  BY ReturnedIdle DEF updateScanStatus
<1>2. CASE UNCHANGED scan
  BY <1>1, <1>2, QuietStep
<1>3. CASE AcceptsUpdate(obj) /\ scan' = WithStatusOf(Stamped(obj))
  <2>1. Stamped(obj) \in Scan
    BY StampedTyped DEF Typed, Inner, WorkTypeOK
  <2>2. /\ Stamped(obj).findings = obj.findings
        /\ Stamped(obj).state = obj.state
    BY DEF Stamped, Typed, Inner, WorkTypeOK, Scan
  <2>3. ScanStep /\ scan'.findings = obj.findings /\ scan'.state = obj.state
    BY <1>3, <2>1, <2>2, StatusStep DEF Typed
  <2>4. obj.findings = scan.findings /\ (obj.state # "Init" => Protected)
    BY <1>1, <1>3 DEF AcceptsUpdate, IInv, Follows
  <2>5. scan'.state # scan.state => Protected
    BY <2>3, <2>4 DEF IInv
  <2>6. ScannerCreated' => ScannerCreated
    BY <1>1 DEF ScannerCreated
  <2> QED
    BY <1>1, <2>3, <2>4, <2>5, <2>6, Carried DEF Findings
<1> QED
  BY <1>2, <1>3 DEF updateScanStatus

LEMMA StartKeeps == ASSUME Typed, IInv, startScan \/ startParser PROVE Findings
<1>1. pc # "idle" /\ UNCHANGED <<scan, jobs>>
  BY DEF startScan, startParser, At
<1>2. CASE ReturnNil
  BY <1>1, <1>2, ReturnsIdle, QuietStep
<1>3. CASE ~ReturnNil
  <2>1. UNCHANGED <<obj, cache>> /\ CopyKept
    BY <1>3 DEF startScan, startParser, Continue, CopyKept
  <2>2. StepMatchesCopy'
    <3>1. CASE startScan
      <4>1. pc' = IF WantedFinalizers = obj.finalizers THEN "createScanner" ELSE "addFinalizer"
        BY <1>3, <3>1 DEF startScan, Goto
      <4>2. "s3" \in WantedFinalizers
        BY DEF WantedFinalizers
      <4> QED
        BY <2>1, <4>1, <4>2 DEF StepMatchesCopy
    <3>2. CASE startParser
      BY <1>3, <2>1, <3>2 DEF startParser, Goto, At, StepMatchesCopy
    <3> QED
      BY <3>1, <3>2
  <2> QED
    BY <1>1, <2>1, <2>2, QuietStep
<1> QED
  BY <1>2, <1>3

LEMMA AddFinalizerKeeps == ASSUME Typed, IInv, AddFinalizer PROVE Findings
<1>1. WantedFinalizers \in SUBSET Finalizers /\ "s3" \in WantedFinalizers
  BY DEF WantedFinalizers, Typed, Inner, WorkTypeOK, Scan, Finalizers
<1>2. CASE (ReturnError \/ Fails) /\ UNCHANGED scan
  BY <1>2, ReturnsIdle, QuietStep DEF AddFinalizer
<1>3. CASE /\ AcceptsFinalizers(obj, WantedFinalizers)
           /\ scan' = WithFinalizers(WantedFinalizers)
           /\ \/ /\ obj' = [obj EXCEPT !.finalizers = WantedFinalizers, !.rv = scan'.rv]
                 /\ Goto("createScanner") /\ Continue
              \/ Fails
  <2>1. pc # "idle" /\ UNCHANGED <<jobs, cache>>
    BY <1>3, ReturnsIdle DEF AddFinalizer, Continue
  <2>2. ASSUME pc' # "idle"
        PROVE  /\ obj' = [obj EXCEPT !.finalizers = WantedFinalizers, !.rv = scan'.rv]
               /\ StepMatchesCopy'
    <3>1. /\ obj' = [obj EXCEPT !.finalizers = WantedFinalizers, !.rv = scan'.rv]
          /\ pc' = "createScanner"
      BY <1>3, <2>2, ReturnsIdle DEF Goto
    <3>2. "s3" \in obj'.finalizers
      BY <1>1, <3>1 DEF Typed, Inner, WorkTypeOK, Scan
    <3> QED
      BY <3>1, <3>2 DEF StepMatchesCopy
  <2> QED
    BY <1>1, <1>3, <2>1, <2>2, FinalizersKeep
<1> QED
  BY <1>2, <1>3 DEF AddFinalizer

(* A write to the copy that only changes the status, findings apart.        *)
LEMMA WriteKeepsCopy ==
    ASSUME Typed, NEW o, NEW error, Write(o, error), pc # "idle",
           o.rv = obj.rv, o.findings = obj.findings, o.finalizers = obj.finalizers,
           o.deleting = obj.deleting,
           o.state # "Init" => obj.state # "Init" \/ Protected
    PROVE  UNCHANGED cache /\ pc # "idle" /\ CopyKept /\ StepMatchesCopy'
BY DEF Write, Continue, CopyKept, StepMatchesCopy

LEMMA StatusOfCopy ==
    ASSUME obj \in Scan, NEW s
    PROVE  \A o \in {[obj EXCEPT !.state = s]} :
              /\ o.rv = obj.rv /\ o.findings = obj.findings
              /\ o.finalizers = obj.finalizers /\ o.deleting = obj.deleting
              /\ o.state = s
BY DEF Scan

LEMMA CreateAndRecordKeeps ==
    ASSUME Typed, IInv, Protected, UNCHANGED scan, pc # "idle",
           NEW kind, NEW o, CreateAndRecord(kind, o),
           o.rv = obj.rv, o.findings = obj.findings, o.finalizers = obj.finalizers,
           o.deleting = obj.deleting
    PROVE  Findings
<1>1. CASE Fails
  BY <1>1, ReturnsIdle, QuietStep
<1>2. CASE obj' = o /\ Goto("record") /\ Continue
  <2>1. UNCHANGED cache /\ CopyKept /\ StepMatchesCopy'
    BY <1>2 DEF Continue, Goto, CopyKept, StepMatchesCopy
  <2> QED
    BY <2>1, QuietStep
<1> QED
  BY <1>1, <1>2 DEF CreateAndRecord

LEMMA CreateKeeps == ASSUME Typed, IInv, CreateScanner \/ CreateParser PROVE Findings
<1>1. pc # "idle" /\ UNCHANGED scan /\ obj \in Scan
  BY DEF CreateScanner, CreateParser, Typed, Inner, WorkTypeOK
<1>2. Protected
  BY DEF CreateScanner, CreateParser, IInv, StepMatchesCopy, Follows
<1>3. CASE Write(Errored(obj), TRUE)
  <2>1. UNCHANGED cache /\ pc # "idle" /\ CopyKept /\ StepMatchesCopy'
    BY <1>1, <1>2, <1>3, StatusOfCopy, WriteKeepsCopy DEF Errored
  <2> QED
    BY <1>1, <1>2, <2>1, QuietStep
<1>4. CASE CreateAndRecord("scanner", [obj EXCEPT !.state = "Scanning", !.raw = TRUE])
  <2> DEFINE o == [obj EXCEPT !.state = "Scanning", !.raw = TRUE]
  <2>1. /\ o.rv = obj.rv /\ o.findings = obj.findings
        /\ o.finalizers = obj.finalizers /\ o.deleting = obj.deleting
    BY <1>1 DEF Scan
  <2>2. CreateAndRecord("scanner", o)
    BY <1>4
  <2> HIDE DEF o
  <2> QED
    BY <1>1, <1>2, <2>1, <2>2, CreateAndRecordKeeps
<1>5. CASE CreateAndRecord("parser", [obj EXCEPT !.state = "Parsing"])
  BY <1>1, <1>2, <1>5, StatusOfCopy, CreateAndRecordKeeps
<1> QED
  BY <1>3, <1>4, <1>5 DEF CreateScanner, CreateParser

LEMMA PresignKeeps == ASSUME Typed, IInv, PresignFails PROVE Findings
BY ReturnsIdle, QuietStep DEF PresignFails

LEMMA CheckKeeps ==
    ASSUME Typed, IInv, checkIfScanIsCompleted \/ checkIfParsingIsCompleted
    PROVE  Findings
<1>1. PICK kind, next : CheckJob(kind, next)
  BY DEF checkIfScanIsCompleted, checkIfParsingIsCompleted
<1>2. pc # "idle" /\ obj.state # "Init" /\ obj \in Scan
  BY DEF checkIfScanIsCompleted, checkIfParsingIsCompleted, At, Typed, Inner, WorkTypeOK
<1>3. UNCHANGED <<scan, jobs>>
  BY <1>1 DEF CheckJob
<1>4. CASE ReturnNil
  BY <1>3, <1>4, ReturnsIdle, QuietStep
<1>5. ASSUME NEW s, Write([obj EXCEPT !.state = s], FALSE)
      PROVE  Findings
  <2>1. UNCHANGED cache /\ pc # "idle" /\ CopyKept /\ StepMatchesCopy'
    BY <1>2, <1>5, StatusOfCopy, WriteKeepsCopy
  <2> QED
    BY <1>3, <2>1, QuietStep
<1>6. \/ Write([obj EXCEPT !.state = next], FALSE)
      \/ Write([obj EXCEPT !.state = "Errored"], FALSE)
      \/ ReturnNil
  BY <1>1, StatusTyped DEF CheckJob, Errored
<1> QED
  BY <1>4, <1>5, <1>6

LEMMA SetHookStatusKeeps == ASSUME Typed, IInv, setHookStatus PROVE Findings
<1>1. pc # "idle" /\ obj.state # "Init" /\ UNCHANGED <<scan, jobs>>
  BY DEF setHookStatus, At
<1>2. CASE Fails
  BY <1>1, <1>2, ReturnsIdle, QuietStep
<1>3. ASSUME NEW list \in HookLists,
             Write([obj EXCEPT !.groups = FromUnorderedList(list),
                               !.hook = [h \in HookNames |-> "Pending"],
                               !.state = "HookProcessing"], FALSE)
      PROVE  Findings
  <2> DEFINE o == [obj EXCEPT !.groups = FromUnorderedList(list),
                              !.hook = [h \in HookNames |-> "Pending"],
                              !.state = "HookProcessing"]
  <2>1. /\ o.rv = obj.rv /\ o.findings = obj.findings
        /\ o.finalizers = obj.finalizers /\ o.deleting = obj.deleting
    BY DEF Typed, Inner, WorkTypeOK, Scan
  <2>2. Write(o, FALSE)
    BY <1>3
  <2> HIDE DEF o
  <2>3. UNCHANGED cache /\ pc # "idle" /\ CopyKept /\ StepMatchesCopy'
    BY <1>1, <2>1, <2>2, WriteKeepsCopy
  <2> QED
    BY <1>1, <2>3, QuietStep
<1> QED
  BY <1>2, <1>3 DEF setHookStatus

(* Between two steps of executeHooks only the state of the copy and of its  *)
(* hooks changes.                                                           *)
LEMMA HookDoneKeeps ==
    ASSUME Typed, IInv, UNCHANGED scan, pc = "hooks", obj.state # "Init",
           NEW o, NEW error, HookDone(o, error),
           o \in {obj} \cup {[obj EXCEPT !.hook[CurrentHook] = st] : st \in HookStates}
    PROVE  Findings
<1>1. o \in Scan /\ o.rv = obj.rv /\ o.findings = obj.findings
      /\ o.finalizers = obj.finalizers /\ o.deleting = obj.deleting /\ o.state = obj.state
  BY DEF Typed, Inner, WorkTypeOK, Scan
<1>2. obj' = o \/ obj' = [o EXCEPT !.state = "Errored"]
  BY DEF HookDone, Errored
<1>3. /\ obj'.rv = obj.rv /\ obj'.findings = obj.findings
      /\ obj'.finalizers = obj.finalizers /\ obj'.deleting = obj.deleting
      /\ obj'.state # "Init"
  BY <1>1, <1>2 DEF Scan
<1>4. UNCHANGED cache /\ pc' \in {"write", "hooks"}
  BY DEF HookDone
<1>5. CopyKept /\ StepMatchesCopy'
  BY <1>3, <1>4 DEF CopyKept, StepMatchesCopy
<1>6. Protected
  BY DEF IInv, Follows
<1> QED
  BY <1>4, <1>5, <1>6, QuietStep

LEMMA HooksKeep ==
    ASSUME Typed, IInv, processPendingHook \/ processInProgressHook \/ processSettledHook
    PROVE  Findings
<1>1. pc = "hooks" /\ UNCHANGED scan
  BY DEF processPendingHook, createJobForHook, processInProgressHook, processSettledHook
<1>2. obj.state # "Init"
  BY <1>1 DEF IInv, StepMatchesCopy
<1>3. CASE HookError \/ HookDone(obj, FALSE)
  BY <1>1, <1>2, <1>3, HookDoneKeeps DEF HookError
<1>4. ASSUME NEW state \in HookStates, HookBecomes(state)
      PROVE  Findings
  BY <1>1, <1>2, <1>4, HookDoneKeeps DEF HookBecomes
<1>5. CASE processPendingHook
  BY <1>3, <1>4, <1>5 DEF processPendingHook, createJobForHook, HookStates
<1>6. CASE processInProgressHook
  <2>1. PICK status \in {"completed", "failed", "incomplete"} : HookBecomes(AfterJob[status])
    BY <1>6, StatusTyped DEF processInProgressHook
  <2>2. AfterJob[status] \in HookStates
    BY DEF AfterJob, HookStates
  <2> QED
    BY <1>4, <2>1, <2>2
<1>7. CASE processSettledHook
  BY <1>3, <1>7 DEF processSettledHook
<1> QED
  BY <1>5, <1>6, <1>7

LEMMA ExecuteHooksKeeps == ASSUME Typed, IInv, executeHooks PROVE Findings
<1>1. pc # "idle" /\ obj.state # "Init" /\ UNCHANGED <<scan, jobs>> /\ obj \in Scan
  BY DEF executeHooks, At, Typed, Inner, WorkTypeOK
<1>2. CurrentHookGroup(obj.groups, obj.hook).result \in {"error", "none", "group"}
  BY DEF CurrentHookGroup
<1>3. \/ \E s \in ScanStates, e \in BOOLEAN : Write([obj EXCEPT !.state = s], e)
      \/ pc' = "hooks" /\ UNCHANGED obj /\ Continue
  BY <1>2 DEF executeHooks, Errored, ScanStates
<1>4. CASE pc' = "hooks" /\ UNCHANGED obj /\ Continue
  <2>1. UNCHANGED cache /\ CopyKept /\ StepMatchesCopy'
    BY <1>1, <1>4 DEF Continue, CopyKept, StepMatchesCopy
  <2> QED
    BY <1>1, <2>1, QuietStep
<1>5. ASSUME NEW s, NEW e, Write([obj EXCEPT !.state = s], e)
      PROVE  Findings
  <2>1. UNCHANGED cache /\ pc # "idle" /\ CopyKept /\ StepMatchesCopy'
    BY <1>1, <1>5, StatusOfCopy, WriteKeepsCopy
  <2> QED
    BY <1>1, <2>1, QuietStep
<1> QED
  BY <1>3, <1>4, <1>5

LEMMA DeleteKeeps == ASSUME Typed, IInv, deleteScan PROVE Findings
<1>1. pc' = "idle" /\ UNCHANGED <<jobs, cache>>
  BY ReturnsIdle DEF deleteScan
<1>2. ScanStep /\ scan'.findings = scan.findings /\ scan'.state = scan.state
  BY DeletedStep, NoStep DEF deleteScan, Typed
<1>3. ScannerCreated' => ScannerCreated
  BY <1>1 DEF ScannerCreated
<1> QED
  BY <1>1, <1>2, <1>3, Carried DEF Findings

LEMMA OperatorKeeps == ASSUME Typed, IInv, Operator PROVE Findings
BY ReconcileKeeps, CleanupKeeps, ReleaseKeeps, StatusWriteKeeps, StartKeeps,
   AddFinalizerKeeps, CreateKeeps, PresignKeeps, CheckKeeps, SetHookStatusKeeps,
   ExecuteHooksKeeps, HooksKeep, DeleteKeeps
   DEF Operator

-----------------------------------------------------------------------------
(***************************************************************************)
(* So do crashes, deliveries, pods and users; only a pod changes findings.  *)
(***************************************************************************)
(* A copy that is the Scan itself.                                          *)
LEMMA FreshFollows ==
    ASSUME Typed, IInv
    PROVE  Follows(scan)
BY ScanFields DEF Follows, IInv, Typed, Outer, Protected

LEMMA CrashKeeps == ASSUME Typed, IInv, Crash PROVE Findings
<1>1. pc' = "idle" /\ cache' = scan /\ UNCHANGED <<scan, jobs>>
  BY DEF Crash
<1>2. Follows(cache)'
  BY <1>1, FreshFollows DEF Follows, Protected
<1> QED
  BY <1>1, <1>2 DEF Findings, IInv, Protected, ScannerCreated

LEMMA DeliveryKeeps == ASSUME Typed, IInv, Delivery PROVE Findings
<1>1. cache' \in {cache, scan} /\ UNCHANGED <<scan, jobs, pc, obj>>
  BY DEF Delivery, DeliverScan, DeliverJobs, TimerExpires, Enqueue, Clock, SyncScan,
     SyncJobs, TimerFires, Resync, TTLElapses, Outside, workVars
<1>2. Follows(cache)'
  BY <1>1, FreshFollows DEF Follows, Protected, IInv
<1>3. (pc # "idle" => Follows(obj) /\ StepMatchesCopy)'
  BY <1>1 DEF IInv, Follows, Protected, StepMatchesCopy
<1> QED
  BY <1>1, <1>2, <1>3 DEF Findings, IInv, Protected, ScannerCreated

(* The operator is not involved.                                            *)
LEMMA OutsideKeeps ==
    ASSUME Typed, IInv, ScanStep, UNCHANGED <<cache, pc, obj>>, scan'.state = scan.state,
           ScannerCreated' => ScannerCreated
    PROVE  IInv'
BY Carried DEF CopyKept, StepMatchesCopy, IInv

LEMMA PodKeeps == ASSUME Typed, IInv, NEW j \in Slots, Pod(j) PROVE
    /\ IInv'
    /\ scan'.findings # scan.findings =>
          jobs[j] # "Patched" /\ jobs'[j] = "Patched" /\ scan'.findings = j[1]
<1>1. UNCHANGED <<cache, pc, obj>>
  BY DEF Pod, PodStep, Outside, workVars
<1>2. jobs[j] # "None" /\ \E phase : jobs' \in {jobs, [jobs EXCEPT ![j] = phase]}
  BY DEF Pod, PodStep, LurkerUploads, ParserPatchesStatus, ParserUploads,
         HookUploadsRaw, HookUploads,
     HookPatchesStatus, JobSucceeds, JobFails, Becomes, Running
<1>3. ScannerCreated' => ScannerCreated
  BY <1>2 DEF ScannerCreated, JobsOf, Typed, Outer
<1>4. CASE UNCHANGED scan
  BY <1>1, <1>3, <1>4, NoStep, OutsideKeeps
<1>5. CASE ParserPatchesStatus(j) \/ HookPatchesStatus(j)
  <2>1. PatchFindings(j[1])
    BY <1>5 DEF ParserPatchesStatus, HookPatchesStatus
  <2>2. jobs[j] # "Patched" /\ jobs'[j] = "Patched"
    BY <1>5 DEF ParserPatchesStatus, HookPatchesStatus, Becomes, Typed, Outer
  <2> QED
    BY <1>1, <1>3, <2>1, <2>2, PatchStep, OutsideKeeps DEF Typed
<1> QED
  BY <1>4, <1>5 DEF Pod, PodStep, LurkerUploads, ParserUploads,
         HookUploadsRaw, HookUploads, JobSucceeds,
     JobFails

LEMMA JobControllerKeeps ==
    ASSUME Typed, IInv, NEW j \in Slots, JobController(j)
    PROVE  Findings
<1>1. UNCHANGED <<scan, cache, pc, obj>>
  BY DEF JobController, JobControllerStep, JobExpires, JobDeleted, Outside, workVars
<1>2. jobs[j] # "None" /\ \E phase : jobs' = [jobs EXCEPT ![j] = phase]
  BY DEF JobController, JobControllerStep, JobExpires, JobDeleted, Becomes, Running
<1>3. ScannerCreated' => ScannerCreated
  BY <1>2 DEF ScannerCreated, JobsOf, Typed, Outer
<1> QED
  BY <1>1, <1>3, NoStep, OutsideKeeps DEF Findings

LEMMA RetryKeeps == ASSUME Typed, IInv, NEW j \in Slots, Retry(j) PROVE Findings
<1>1. UNCHANGED <<scan, cache, pc, obj>>
  BY DEF Retry, PodRestarts, workVars
<1>2. jobs[j] # "None" /\ \E phase : jobs' = [jobs EXCEPT ![j] = phase]
  BY DEF Retry, PodRestarts, Becomes
<1>3. ScannerCreated' => ScannerCreated
  BY <1>2 DEF ScannerCreated, JobsOf, Typed, Outer
<1> QED
  BY <1>1, <1>3, NoStep, OutsideKeeps DEF Findings

LEMMA UserKeeps == ASSUME Typed, IInv, User PROVE Findings
<1>1. UNCHANGED <<jobs, cache, pc, obj>>
  BY DEF User, UserLabels, UserSuspends, UserDeletes, Edit, Outside, workVars
<1>2. \/ scan' = [scan EXCEPT !.rv = @ + 1]
      \/ scan' = [scan EXCEPT !.suspend = ~@, !.rv = @ + 1]
      \/ scan' = Deleted(scan)
  BY DEF User, UserLabels, UserSuspends, UserDeletes, Edit
<1>3. ScanStep /\ scan'.findings = scan.findings /\ scan'.state = scan.state
  <2>1. CASE scan' = [scan EXCEPT !.rv = @ + 1]
    BY <2>1 DEF ScanStep, Protected, Typed, Outer, Scan
  <2>2. CASE scan' = [scan EXCEPT !.suspend = ~@, !.rv = @ + 1]
    <3>1. /\ scan'.rv = scan.rv + 1 /\ scan'.deleting = scan.deleting
          /\ scan'.findings = scan.findings /\ scan'.state = scan.state
          /\ scan'.finalizers = scan.finalizers /\ scan'.exists = scan.exists
      BY <2>2 DEF Typed, Outer, Scan
    <3> QED
      BY <3>1 DEF ScanStep, Protected
  <2>3. CASE scan' = Deleted(scan)
    BY <2>3, DeletedStep DEF Typed
  <2> QED
    BY <1>2, <2>1, <2>2, <2>3
<1>4. ScannerCreated' => ScannerCreated
  BY <1>1 DEF ScannerCreated
<1> QED
  BY <1>1, <1>3, <1>4, OutsideKeeps DEF Findings

LEMMA InitKeeps == ASSUME Init PROVE IInv
<1>1. /\ scan.state = "Init" /\ cache = scan /\ scan.rv = 1 /\ ~scan.deleting
      /\ pc = "idle" /\ jobs = [j \in Slots |-> "None"]
  BY DEF Init, ClusterInit
<1>2. ~ScannerCreated
  BY <1>1 DEF ScannerCreated, JobsOf
<1> QED
  BY <1>1, <1>2 DEF IInv, Follows, Protected

LEMMA NextKeeps ==
    ASSUME Typed, IInv, [Next]_vars
    PROVE  /\ IInv'
           /\ scan'.findings # scan.findings =>
                 \E j \in Slots : /\ jobs[j] # "Patched" /\ jobs'[j] = "Patched"
                                  /\ scan'.findings = j[1]
<1>1. CASE UNCHANGED vars
  BY <1>1, NoStep, OutsideKeeps DEF vars, clusterVars, workVars, ScannerCreated
<1>2. CASE Operator \/ Crash \/ Delivery \/ User
  BY <1>2, OperatorKeeps, CrashKeeps, DeliveryKeeps, UserKeeps DEF Findings
<1>3. ASSUME NEW j \in Slots, Pod(j) \/ JobController(j) \/ Retry(j)
      PROVE  /\ IInv'
             /\ scan'.findings # scan.findings =>
                   jobs[j] # "Patched" /\ jobs'[j] = "Patched" /\ scan'.findings = j[1]
  BY <1>3, PodKeeps, JobControllerKeeps, RetryKeeps DEF Findings
<1> QED
  BY <1>1, <1>2, <1>3 DEF Next, Delivery

-----------------------------------------------------------------------------
LEMMA Inductive == Spec => [](Typed /\ IInv)
<1>1. Init => Typed /\ IInv
  BY InitTyped, InitKeeps
<1>2. Typed /\ IInv /\ [Next]_vars => (Typed /\ IInv)'
  BY NextTyped, NextKeeps
<1> QED
  BY <1>1, <1>2, PTL DEF Spec

(* No write of the operator ever puts an older summary of the findings      *)
(* back, although updateScanStatus writes the whole status of a copy that   *)
(* parser and hooks know nothing of.                                        *)
THEOREM FindingsSafe == Spec => FindingsOnlyFromJobs
<1>1. Typed /\ IInv /\ [Next]_vars =>
        [scan'.findings # scan.findings =>
            \E j \in Slots : /\ jobs[j] # "Patched" /\ jobs'[j] = "Patched"
                             /\ scan'.findings = j[1]]_vars
  BY NextKeeps
<1> QED
  BY <1>1, Inductive, PTL DEF Spec, FindingsOnlyFromJobs

(* No scanner Job is created for a Scan whose deletion would not clean up   *)
(* after it: startScan adds its finalizer, or replaces the legacy one, in   *)
(* an accepted Update before it creates the Job, and only the deletion      *)
(* takes it away.                                                           *)
THEOREM FinalizerSafe == Spec => []ScannerNeedsFinalizer
<1>1. IInv => ScannerNeedsFinalizer
  BY DEF IInv, ScannerCreated, Protected, ScannerNeedsFinalizer
<1> QED
  BY <1>1, Inductive, PTL
=============================================================================
