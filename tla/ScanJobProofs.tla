--------------------------- MODULE ScanJobProofs ---------------------------
(***************************************************************************)
(* The Jobs of a Scan and the files they leave, when the operator sees the  *)
(* Jobs as they are and nobody deletes finished ones (JobsVisible, ~JobTTL):*)
(* proofs for every set of hooks, every bound and every crash or failure.   *)
(***************************************************************************)
EXTENDS LifecycleProofs

(* The kinds of which a Job was created, and of which one has succeeded.    *)
CreatedJobs == {kind \in JobKinds : \E j \in JobsOf(kind) : jobs[j] # "None"}
SucceededJobs == {kind \in JobKinds : \E j \in JobsOf(kind) : jobs[j] = "Succeeded"}
NoJob(kind) == \A j \in JobsOf(kind) : jobs[j] \in {"None", "Gone"}

(***************************************************************************)
(* Only a scanner or parser Job that was looked for and not found is        *)
(* created, and a Job goes only with its Scan.                              *)
(***************************************************************************)
JobsOnce ==
    /\ \A j \in Slots : jobs[j] = "Gone" => ~scan.exists
    /\ OneJobOfEachKind
    /\ pc \in {"addFinalizer", "createScanner"} => NoJob("scanner")
    /\ pc = "createParser" => NoJob("parser")

(***************************************************************************)
(* What a copy o of the Scan shows has really happened: the Jobs it speaks  *)
(* of are among the kinds C that were created and S that have succeeded.    *)
(***************************************************************************)
Named(groups, h) == \E g \in DOMAIN groups : h \in NamesAt(groups, g)

StateEarned(o, C, S) ==
    /\ o.state \notin {"Init", "Errored"} => "scanner" \in C /\ o.raw
    /\ o.state \notin {"Init", "Errored", "Scanning"} => "scanner" \in S
    /\ o.state \in {"Parsing", "ParseCompleted", "HookProcessing", "Done"} => "parser" \in C
    /\ o.state \in {"ParseCompleted", "HookProcessing", "Done"} => "parser" \in S

HooksEarned(hook, C, S) ==
    \A h \in HookNames : /\ hook[h] \in {"InProgress", "Completed", "Failed"} => h \in C
                         /\ hook[h] = "Completed" => h \in S

DoneEarned(o) ==
    o.state = "Done" => \A h \in HookNames : Named(o.groups, h) => o.hook[h] = "Completed"

Earned(o, C, S) == StateEarned(o, C, S) /\ HooksEarned(o.hook, C, S) /\ DoneEarned(o)

(* A hook has a Job only when those of all earlier groups have succeeded.   *)
Ordered(groups, C, S) ==
    \A h \in HookNames \cap C :
        /\ Named(groups, h)
        /\ \A f, g \in DOMAIN groups :
              h \in NamesAt(groups, g) /\ f < g => NamesAt(groups, f) \subseteq S

(* The hooks are selected once and for all.                                 *)
Selected == scan.state \in {"HookProcessing", "Done", "Errored"}

SameHooks(o) == o.state \in {"HookProcessing", "Done"} => Selected /\ o.groups = scan.groups

(* At a hook of a group all hooks of the groups before it have succeeded.   *)
AtHook ==
    /\ Selected /\ obj.groups = scan.groups /\ obj.state \in {"HookProcessing", "Errored"}
    /\ "parser" \in SucceededJobs
    /\ cursor[1] \in DOMAIN obj.groups /\ cursor[2] \in DOMAIN obj.groups[cursor[1]]
    /\ \A f \in DOMAIN obj.groups : f < cursor[1] => NamesAt(obj.groups, f) \subseteq SucceededJobs

HooksEarnTheirJobs ==
    /\ HookNames \cap CreatedJobs # {} => Selected /\ "parser" \in SucceededJobs
    /\ Ordered(scan.groups, CreatedJobs, SucceededJobs)

CacheEarned == Earned(cache, CreatedJobs, SucceededJobs) /\ SameHooks(cache)

CopyEarned ==
    /\ Earned(obj, CreatedJobs, SucceededJobs)
    /\ pc = "createParser" => obj.state = "ScanCompleted"
    /\ pc \notin {"write", "record"} => SameHooks(obj)
    /\ pc = "hooks" => AtHook

JobsEarned ==
    scan.exists =>
        /\ Earned(scan, CreatedJobs, SucceededJobs)
        /\ HooksEarnTheirJobs
        /\ CacheEarned
        /\ pc # "idle" => CopyEarned

(***************************************************************************)
(* The files, as long as no deletion removes them.                          *)
(***************************************************************************)
Empty == [raw |-> FALSE, findings |-> "none"]

FilesThere ==
    /\ \A j \in JobsOf("scanner") : jobs[j] \in {"Uploaded", "Succeeded"} => s3.raw
    /\ \A j \in JobsOf("parser") : jobs[j] \in {"Uploaded", "Succeeded"} => s3.findings # "none"
    /\ \A j \in JobsOf("parser") : jobs[j] \in {"Patched", "Uploaded"} => scan.findings = "parser"
    /\ \A j \in JobsOf("parser") : jobs[j] = "Uploaded" => s3.findings = "parser"
    /\ \A j \in Slots : j[1] \in HookNames /\ jobs[j] = "Uploaded" => s3.findings = j[1]

(* After the parser only ReadAndWrite hooks write, the file always first:   *)
(* the writer f of the file is that of the summary, w, or a later hook.     *)
Writer(w) == w = "parser" \/ w \in ReadAndWriteHooks \cap CreatedJobs

LaterHook(w, f) ==
    /\ f \in ReadAndWriteHooks
    /\ \A i \in GroupIndex(w), k \in GroupIndex(f) : i < k

SummaryFollows ==
    "parser" \in SucceededJobs =>
        /\ Writer(scan.findings) /\ Writer(s3.findings)
        /\ scan.findings # s3.findings => LaterHook(scan.findings, s3.findings)

(* Only ReadAndWrite hooks upload.                                          *)
WritersOnly ==
    \A j \in Slots : j[1] \in HookNames /\ jobs[j] \in {"Uploaded", "Patched"}
                        => j[1] \in ReadAndWriteHooks

(* Between the cleanup and the release nobody writes for a Scan that is Done. *)
CleanBeforeRelease == pc = "release" /\ obj.state = "Done" => s3 = Empty

FilesKept ==
    scan.exists =>
        /\ ~scan.deleting => FilesThere /\ SummaryFollows
        /\ WritersOnly /\ CleanBeforeRelease
-----------------------------------------------------------------------------
(***************************************************************************)
(* Creating a Job.                                                          *)
(***************************************************************************)
LEMMA NextSlotIsFree ==
    ASSUME NEW kind, FreeSlots(kind) # {}
    PROVE  NextSlot(kind) \in FreeSlots(kind)
<1> DEFINE S == {j[2] : j \in FreeSlots(kind)}
<1>1. MaxJobs \in Nat
  BY ClusterAssumption
<1>2. \A j \in Slots : j[2] \in 1..MaxJobs
  BY DEF Slots
<1>3. S \in SUBSET Nat /\ S # {}
  BY <1>1, <1>2 DEF FreeSlots, JobsOf
<1>4. PICK m \in S : \A n \in S : m <= n
  BY <1>3, Smallest
<1>5. PICK j \in FreeSlots(kind) : j[2] = m
  OBVIOUS
<1>6. \A i \in FreeSlots(kind) : j[2] <= i[2]
  BY <1>4, <1>5
<1> QED
  BY <1>5, <1>6 DEF NextSlot

LEMMA JobCreated ==
    ASSUME Typed, NEW kind, CreateJob(kind)
    PROVE  \E j \in JobsOf(kind) : jobs[j] = "None" /\ jobs' = [jobs EXCEPT ![j] = "Active"]
BY NextSlotIsFree DEF CreateJob, FreeSlots

LEMMA NothingListed ==
    ASSUME Typed, JobsVisible, NEW kind, getJobsForScan(kind) = {}
    PROVE  NoJob(kind)
<1> SUFFICES ASSUME NEW j \in JobsOf(kind) PROVE jobs[j] \in {"None", "Gone"}
  BY DEF NoJob
<1>1. View(jobs[j]) \in {"None", "Gone"}
  BY DEF getJobsForScan
<1> QED
  BY <1>1 DEF View, Running

-----------------------------------------------------------------------------
(***************************************************************************)
(* How the Jobs change in a step.                                           *)
(***************************************************************************)
Creates(kind, j) ==
    /\ NoJob(kind) /\ j[1] = kind /\ jobs[j] = "None"
    /\ jobs' = [jobs EXCEPT ![j] = "Active"]

Works(j) ==
    /\ jobs[j] \in Running
    /\ \E phase \in JobPhases \ {"None", "Gone"} : jobs' = [jobs EXCEPT ![j] = phase]

Goes(j) == ~scan.exists /\ jobs[j] # "None" /\ jobs' = [jobs EXCEPT ![j] = "Gone"]

Creation == \E kind \in JobKinds : \E j \in Slots : Creates(kind, j)

JobsStep ==
    \/ UNCHANGED jobs
    \/ Creation
    \/ \E j \in Slots : Works(j) \/ Goes(j)

LEMMA CreationStep ==
    ASSUME Typed, NEW kind \in JobKinds, NoJob(kind), CreateJob(kind)
    PROVE  Creation
BY JobCreated DEF Creation, Creates, JobsOf

LEMMA OperatorJobs ==
    ASSUME Typed, JobsVisible, JobsOnce, Operator
    PROVE  UNCHANGED jobs \/ Creation
<1>1. {"scanner", "parser"} \subseteq JobKinds /\ HookNames \subseteq JobKinds
  BY DEF JobKinds
<1>2. CASE CreateScanner
  <2>1. pc = "createScanner" /\ (CreateJob("scanner") \/ UNCHANGED jobs)
    BY <1>2 DEF CreateScanner, CreateAndRecord
  <2> QED
    BY <1>1, <2>1, CreationStep DEF JobsOnce
<1>3. CASE CreateParser
  <2>1. pc = "createParser" /\ (CreateJob("parser") \/ UNCHANGED jobs)
    BY <1>3 DEF CreateParser, CreateAndRecord
  <2> QED
    BY <1>1, <2>1, CreationStep DEF JobsOnce
<1>4. CASE processPendingHook
  <2>1. UNCHANGED jobs \/ (getJobsForScan(CurrentHook) = {} /\ CreateJob(CurrentHook))
    BY <1>4 DEF processPendingHook, createJobForHook
  <2>2. CASE getJobsForScan(CurrentHook) = {} /\ CreateJob(CurrentHook)
    <3>1. PICK j \in JobsOf(CurrentHook) :
             jobs[j] = "None" /\ jobs' = [jobs EXCEPT ![j] = "Active"]
      BY <2>2, JobCreated
    <3>2. j \in Slots /\ j[1] = CurrentHook /\ j[1] \in JobKinds
      BY SlotKind DEF JobsOf
    <3> QED
      BY <2>2, <3>1, <3>2, NothingListed DEF Creation, Creates
  <2> QED
    BY <2>1, <2>2
<1>5. CASE ~(CreateScanner \/ CreateParser \/ processPendingHook)
  <2>1. UNCHANGED jobs
    BY <1>5 DEF Operator, Reconcile, cleanupS3Files, ReleaseFinalizer, updateScanStatus,
       startScan, AddFinalizer, PresignFails, checkIfScanIsCompleted, startParser,
       checkIfParsingIsCompleted, CheckJob, setHookStatus, executeHooks,
       processInProgressHook, processSettledHook, deleteScan
  <2> QED
    BY <2>1
<1> QED
  BY <1>2, <1>3, <1>4, <1>5

LEMMA PodJobs == ASSUME Typed, NEW j \in Slots, Pod(j) PROVE UNCHANGED jobs \/ Works(j)
BY DEF Pod, PodStep, LurkerUploads, ParserPatchesStatus, ParserUploads, HookUploadsRaw,
   HookUploads, HookPatchesStatus, JobSucceeds, JobFails, Becomes, Works, Running, JobPhases

LEMMA JobControllerJobs ==
    ASSUME Typed, ~JobTTL, NEW j \in Slots, JobController(j)
    PROVE  Works(j) \/ Goes(j)
BY DEF JobController, JobControllerStep, JobExpires, JobDeleted, Becomes, Works, Goes, JobPhases

LEMMA RetryJobs == ASSUME Typed, NEW j \in Slots, Retry(j) PROVE Works(j)
BY DEF Retry, PodRestarts, Becomes, Works, Running, JobPhases

(* A step of nobody but the operator creates a Job.                         *)
JobsGoOn == UNCHANGED jobs \/ \E j \in Slots : Works(j) \/ Goes(j)

LEMMA OutsideJobs ==
    ASSUME Typed, ~JobTTL, [Next]_vars, ~Operator
    PROVE  JobsGoOn
<1>1. CASE Crash \/ Delivery \/ User \/ UNCHANGED vars
  BY <1>1 DEF JobsGoOn, Crash, Delivery, DeliverScan, DeliverJobs, TimerExpires, Enqueue, Clock,
     SyncScan, SyncJobs, TimerFires, Resync, TTLElapses, User, UserLabels, UserSuspends,
     UserDeletes, Edit, vars, clusterVars
<1>2. ASSUME NEW j \in Slots, Pod(j) \/ JobController(j) \/ Retry(j) PROVE JobsGoOn
  BY <1>2, PodJobs, JobControllerJobs, RetryJobs DEF JobsGoOn
<1> QED
  BY <1>1, <1>2 DEF Next, Delivery

LEMMA JobsChange ==
    ASSUME Typed, JobsVisible, ~JobTTL, JobsOnce, [Next]_vars
    PROVE  JobsStep
BY OperatorJobs, OutsideJobs DEF JobsStep, JobsGoOn

LEMMA NoJobKept == ASSUME Typed, NEW kind, NoJob(kind), JobsGoOn PROVE NoJob(kind)'
BY DEF JobsGoOn, NoJob, JobsOf, Works, Goes, Running, Typed, Outer

(***************************************************************************)
(* A removed Scan does not come back.                                       *)
(***************************************************************************)
LEMMA GoneForGood ==
    ASSUME Typed, Typed', [Lifecycle!Next]_(Lifecycle!vars)
    PROVE  scan'.exists => scan.exists
<1>1. /\ scan.state # "Gone" /\ scan'.state # "Gone"
      /\ scan.exists \in BOOLEAN /\ scan'.exists \in BOOLEAN
  BY DEF Typed, Outer, Scan, ScanStates
<1> DEFINE phase == IF scan.exists THEN scan.state ELSE "Gone"
<1>2. CASE UNCHANGED Lifecycle!vars
  <2>1. phase' = phase
    BY <1>2 DEF Lifecycle!vars
  <2> QED
    BY <1>1, <2>1
<1>3. CASE Lifecycle!Next
  <2>1. phase # "Gone"
    BY <1>3, SuccessorStates DEF Lifecycle!Next, Lifecycle!Advance, Lifecycle!Fail,
       Lifecycle!SelectHooks, Lifecycle!RunHooks, Lifecycle!FinishHooks, Lifecycle!Vanish
  <2> QED
    BY <1>1, <2>1
<1> QED
  BY <1>2, <1>3

-----------------------------------------------------------------------------
(***************************************************************************)
(* One Job of each kind.                                                    *)
(***************************************************************************)
LEMMA OneJobKept ==
    ASSUME Typed, JobsOnce, JobsStep, scan'.exists => scan.exists
    PROVE  (\A j \in Slots : jobs[j] = "Gone" => ~scan.exists)' /\ OneJobOfEachKind'
<1>0. jobs \in [Slots -> JobPhases]
  BY DEF Typed, Outer
<1>1. CASE UNCHANGED jobs
  BY <1>1 DEF JobsOnce, OneJobOfEachKind
<1>2. ASSUME NEW kind, NEW j \in Slots, Creates(kind, j)
      PROVE  (\A i \in Slots : jobs[i] = "Gone" => ~scan.exists)' /\ OneJobOfEachKind'
  <2>1. jobs' = [jobs EXCEPT ![j] = "Active"]
    BY <1>2 DEF Creates
  <2>2. \A i \in Slots : i # j => jobs'[i] = jobs[i]
    BY <1>0, <2>1
  <2>3. jobs'[j] = "Active"
    BY <1>0, <2>1
  <2>4. \A i \in Slots : i[1] = j[1] /\ jobs[i] # "None" => jobs[i] = "Gone" /\ ~scan'.exists
    BY <1>2 DEF Creates, NoJob, JobsOf, JobsOnce
  <2>5. ASSUME NEW i \in Slots, NEW k \in Slots,
               i[1] = k[1], i # k, jobs'[i] # "None", jobs'[k] # "None"
        PROVE  ~scan'.exists /\ "Gone" \in {jobs'[i], jobs'[k]}
    <3>1. CASE i # j /\ k # j
      BY <2>2, <2>5, <3>1 DEF JobsOnce, OneJobOfEachKind
    <3>2. CASE i = j
      BY <2>2, <2>4, <2>5, <3>2
    <3>3. CASE k = j
      BY <2>2, <2>4, <2>5, <3>3
    <3> QED
      BY <3>1, <3>2, <3>3
  <2> QED
    BY <2>2, <2>3, <2>5 DEF OneJobOfEachKind, JobsOnce
<1>3. ASSUME NEW j \in Slots, Works(j)
      PROVE  (\A i \in Slots : jobs[i] = "Gone" => ~scan.exists)' /\ OneJobOfEachKind'
  <2>1. jobs[j] \notin {"None", "Gone"}
    BY <1>3 DEF Works, Running
  <2>2. jobs'[j] \notin {"None", "Gone"} /\ \A i \in Slots : i # j => jobs'[i] = jobs[i]
    BY <1>0, <1>3 DEF Works
  <2> QED
    BY <2>1, <2>2 DEF JobsOnce, OneJobOfEachKind
<1>4. ASSUME NEW j \in Slots, Goes(j)
      PROVE  (\A i \in Slots : jobs[i] = "Gone" => ~scan.exists)' /\ OneJobOfEachKind'
  <2>1. ~scan'.exists /\ jobs[j] # "None"
    BY <1>4 DEF Goes
  <2>2. jobs'[j] = "Gone" /\ \A i \in Slots : i # j => jobs'[i] = jobs[i]
    BY <1>0, <1>4 DEF Goes
  <2> QED
    BY <2>1, <2>2 DEF JobsOnce, OneJobOfEachKind
<1> QED
  BY <1>1, <1>2, <1>3, <1>4 DEF JobsStep, Creation

LEMMA LookedForKept ==
    ASSUME Typed, JobsVisible, ~JobTTL, JobsOnce, [Next]_vars
    PROVE  /\ (pc \in {"addFinalizer", "createScanner"} => NoJob("scanner"))'
           /\ (pc = "createParser" => NoJob("parser"))'
<1>1. CASE Operator
  <2>1. CASE startScan
    <3>1. UNCHANGED jobs /\ (pc' # "idle" => NoJob("scanner") /\ pc' \in {"createScanner", "addFinalizer"})
      BY <2>1, NothingListed, ReturnsIdle DEF startScan, Goto
    <3> QED
      BY <3>1 DEF NoJob
  <2>2. CASE startParser
    <3>1. UNCHANGED jobs /\ (pc' # "idle" => NoJob("parser") /\ pc' = "createParser")
      BY <2>2, NothingListed, ReturnsIdle DEF startParser, Goto
    <3> QED
      BY <3>1 DEF NoJob
  <2>3. CASE AddFinalizer
    <3>1. UNCHANGED jobs /\ pc = "addFinalizer" /\ pc' \in {"idle", "createScanner"}
      BY <2>3, ReturnsIdle DEF AddFinalizer, Goto
    <3> QED
      BY <3>1 DEF NoJob, JobsOnce
  <2>4. CASE ~(startScan \/ startParser \/ AddFinalizer)
    <3>1. pc' \notin {"addFinalizer", "createScanner", "createParser"}
      <4>1. CASE Reconcile
        BY <4>1 DEF Reconcile, workVars, Goto, AfterGet
      <4>2. CASE cleanupS3Files \/ ReleaseFinalizer \/ PresignFails \/ deleteScan
        BY <4>2, ReturnsIdle DEF cleanupS3Files, ReleaseFinalizer, PresignFails, deleteScan, Goto
      <4>3. CASE updateScanStatus
        BY <4>3, ReturnedIdle DEF updateScanStatus
      <4>4. CASE CreateScanner \/ CreateParser
        BY <4>4, ReturnsIdle DEF CreateScanner, CreateParser, CreateAndRecord, Write, Goto
      <4>5. CASE checkIfScanIsCompleted \/ checkIfParsingIsCompleted
        BY <4>5, ReturnsIdle, StatusTyped
        DEF checkIfScanIsCompleted, checkIfParsingIsCompleted, CheckJob, Write
      <4>6. CASE setHookStatus
        BY <4>6, ReturnsIdle DEF setHookStatus, Write
      <4>7. CASE executeHooks
        <5>1. CurrentHookGroup(obj.groups, obj.hook).result \in {"error", "none", "group"}
          BY DEF CurrentHookGroup
        <5> QED
          BY <4>7, <5>1 DEF executeHooks, Write
      <4>8. CASE processPendingHook \/ processInProgressHook \/ processSettledHook
        BY <4>8 DEF processPendingHook, createJobForHook,
             processInProgressHook, processSettledHook, HookError,
           HookBecomes, HookDone
      <4> QED
        BY <1>1, <2>4, <4>1, <4>2, <4>3, <4>4, <4>5, <4>6, <4>7, <4>8 DEF Operator
    <3> QED
      BY <3>1
  <2> QED
    BY <2>1, <2>2, <2>3, <2>4
<1>2. CASE ~Operator
  <2>1. JobsGoOn
    BY <1>2, OutsideJobs
  <2>2. pc' \in {"idle", pc}
    BY <1>2 DEF Next, Crash, DeliverScan, DeliverJobs, TimerExpires, Enqueue, Clock,
       Pod, JobController, Retry, User, Outside, workVars, vars
  <2> QED
    BY <2>1, <2>2, NoJobKept DEF JobsOnce
<1> QED
  BY <1>1, <1>2

LEMMA JobsOnceKept ==
    ASSUME Typed, IInv, LInv, JobsVisible, ~JobTTL, JobsOnce, [Next]_vars
    PROVE  JobsOnce'
<1>1. scan'.exists => scan.exists
  BY NextTyped, NextStays, GoneForGood DEF Stays
<1> QED
  BY <1>1, JobsChange, OneJobKept, LookedForKept DEF JobsOnce

LEMMA JobsOnceInit == ASSUME Init PROVE JobsOnce
BY DEF Init, ClusterInit, JobsOnce, OneJobOfEachKind

(* With an up-to-date List of the Jobs, no failure and no restart makes the *)
(* operator create a Job of a kind of which there is one: startScan,        *)
(* startParser and processPendingHook look before they create.              *)
THEOREM OneJobAtATime ==
    ASSUME JobsVisible, ~JobTTL
    PROVE  Spec => []OneJobOfEachKind
<1>1. Init => LInv /\ JobsOnce
  BY InitStays, JobsOnceInit
<1>2. Typed /\ IInv /\ LInv /\ JobsOnce /\ [Next]_vars => (LInv /\ JobsOnce)'
  BY NextStays, JobsOnceKept DEF Stays
<1>3. JobsOnce => OneJobOfEachKind
  BY DEF JobsOnce
<1> QED
  BY <1>1, <1>2, <1>3, Inductive, PTL DEF Spec

-----------------------------------------------------------------------------
(***************************************************************************)
(* Jobs that were created and have succeeded stay so while the Scan exists. *)
(***************************************************************************)
LEMMA CreatedIs ==
    \A kind : kind \in CreatedJobs <=> \E j \in Slots : j[1] = kind /\ jobs[j] # "None"
BY SlotKind DEF CreatedJobs, JobsOf

LEMMA SucceededIs ==
    \A kind : kind \in SucceededJobs <=> \E j \in Slots : j[1] = kind /\ jobs[j] = "Succeeded"
BY SlotKind DEF SucceededJobs, JobsOf

LEMMA JobsLast ==
    ASSUME Typed, JobsStep, scan.exists
    PROVE  CreatedJobs \subseteq CreatedJobs' /\ SucceededJobs \subseteq SucceededJobs'
<1>1. \A j \in Slots : /\ jobs[j] # "None" => jobs'[j] # "None"
                       /\ jobs[j] = "Succeeded" => jobs'[j] = "Succeeded"
  BY DEF JobsStep, Creation, Creates, Works, Goes, Running, Typed, Outer
<1>2. CreatedJobs \subseteq CreatedJobs'
  BY <1>1 DEF CreatedJobs, JobsOf
<1>3. SucceededJobs \subseteq SucceededJobs'
  BY <1>1 DEF SucceededJobs, JobsOf
<1> QED
  BY <1>2, <1>3

LEMMA NothingCreated == ASSUME Typed, JobsGoOn PROVE CreatedJobs' \subseteq CreatedJobs
<1>1. \A j \in Slots : jobs'[j] # "None" => jobs[j] # "None"
  BY DEF JobsGoOn, Works, Goes, Running, Typed, Outer
<1> QED
  BY <1>1 DEF CreatedJobs, JobsOf

LEMMA OneCreated ==
    ASSUME Typed, NEW kind \in JobKinds, CreateJob(kind)
    PROVE  CreatedJobs' = CreatedJobs \cup {kind}
<1>1. PICK j \in JobsOf(kind) : jobs[j] = "None" /\ jobs' = [jobs EXCEPT ![j] = "Active"]
  BY JobCreated
<1>2. j \in Slots /\ j[1] = kind
  BY DEF JobsOf
<1>3. jobs'[j] = "Active" /\ \A i \in Slots : i # j => jobs'[i] = jobs[i]
  BY <1>1, <1>2 DEF Typed, Outer
<1>4. \A k \in JobKinds : k \in CreatedJobs' <=> k \in CreatedJobs \/ k = kind
  BY <1>1, <1>2, <1>3 DEF CreatedJobs, JobsOf
<1> QED
  BY <1>4 DEF CreatedJobs

(* What the List of the Jobs tells.                                         *)
LEMMA ListedIsCreated ==
    ASSUME Typed, JobsVisible, NEW kind \in JobKinds, getJobsForScan(kind) # {}
    PROVE  kind \in CreatedJobs
BY DEF getJobsForScan, CreatedJobs, View, Running

LEMMA CompletedHasSucceeded ==
    ASSUME Typed, JobsVisible, JobsOnce, scan.exists, NEW kind \in CreatedJobs,
           checkIfAllJobsCompleted(getJobsForScan(kind)) = "completed"
    PROVE  kind \in SucceededJobs
<1>1. PICK j \in JobsOf(kind) : jobs[j] # "None"
  BY DEF CreatedJobs
<1>2. j \in Slots /\ jobs[j] # "Gone" /\ jobs[j] \in JobPhases
  BY <1>1 DEF JobsOf, JobsOnce, Typed, Outer
<1>3. getJobsForScan(kind) \subseteq {"Succeeded"}
  BY DEF checkIfAllJobsCompleted
<1>4. View(jobs[j]) \in getJobsForScan(kind)
  BY <1>1, <1>2 DEF getJobsForScan, View
<1>5. jobs[j] = "Succeeded"
  BY <1>3, <1>4 DEF View
<1> QED
  BY <1>5 DEF SucceededJobs, CreatedJobs

-----------------------------------------------------------------------------
(***************************************************************************)
(* Copies.                                                                  *)
(***************************************************************************)
LEMMA EarnedGrows ==
    ASSUME NEW o, NEW p, NEW C, NEW S, NEW D, NEW T, SameStatus(p, o),
           Earned(o, C, S), C \subseteq D, S \subseteq T
    PROVE  Earned(p, D, T)
<1>1. StateEarned(p, D, T)
  BY DEF SameStatus, Earned, StateEarned
<1>2. HooksEarned(p.hook, D, T)
  BY DEF SameStatus, Earned, HooksEarned
<1>3. DoneEarned(p)
  BY DEF SameStatus, Earned, DoneEarned
<1> QED
  BY <1>1, <1>2, <1>3 DEF Earned

LEMMA OrderedGrows ==
    ASSUME NEW groups, NEW C, NEW S, NEW D, NEW T, Ordered(groups, C, S),
           HookNames \cap D \subseteq C, S \subseteq T
    PROVE  Ordered(groups, D, T)
BY DEF Ordered

LEMMA SelectedForGood ==
    ASSUME Typed', [Lifecycle!Next]_(Lifecycle!vars), scan'.exists, scan.exists, Selected
    PROVE  Selected' /\ scan'.groups = scan.groups
<1>1. CASE UNCHANGED Lifecycle!vars
  BY <1>1 DEF Lifecycle!vars, Selected
<1>2. CASE Lifecycle!RunHooks
  BY <1>2 DEF Lifecycle!RunHooks, Selected
<1>3. CASE Lifecycle!FinishHooks
  BY <1>3 DEF Lifecycle!FinishHooks, Selected
<1>4. CASE Lifecycle!Advance \/ Lifecycle!Fail \/ Lifecycle!SelectHooks
  BY <1>4, SuccessorStates
  DEF Lifecycle!Advance, Lifecycle!Fail, Lifecycle!SelectHooks, Selected
<1>5. CASE Lifecycle!Vanish
  <2>1. scan'.state # "Gone"
    BY DEF Typed, Outer, Scan, ScanStates
  <2> QED
    BY <1>5, <2>1 DEF Lifecycle!Vanish
<1> QED
  BY <1>1, <1>2, <1>3, <1>4, <1>5 DEF Lifecycle!Next

(* Only updateScanStatus changes what the operator put into the status.     *)
LEMMA OnlyStatusWrites ==
    ASSUME Typed, [Next]_vars, ~updateScanStatus
    PROVE  StatusKept
<1>1. CASE Operator
  <2>1. CASE ReleaseFinalizer
    <3>1. Remaining \in SUBSET Finalizers
      BY DEF Remaining, Typed, Inner, WorkTypeOK, Scan
    <3> QED
      BY <2>1, <3>1, NothingKept, FinalizersKeepStatus
      DEF ReleaseFinalizer, AcceptsFinalizers, AcceptsUpdate, Typed
  <2>2. CASE AddFinalizer
    <3>1. WantedFinalizers \in SUBSET Finalizers
      BY DEF WantedFinalizers, Typed, Inner, WorkTypeOK, Scan, Finalizers
    <3> QED
      BY <2>2, <3>1, NothingKept, FinalizersKeepStatus
      DEF AddFinalizer, AcceptsFinalizers, AcceptsUpdate, Typed
  <2>3. CASE deleteScan
    BY <2>3, NothingKept, DeletedKeepsStatus DEF deleteScan, Typed
  <2>4. CASE ~(ReleaseFinalizer \/ AddFinalizer \/ deleteScan)
    <3>1. UNCHANGED scan
      BY <1>1, <2>4 DEF Operator, Reconcile, cleanupS3Files, startScan, CreateScanner,
         PresignFails, checkIfScanIsCompleted, startParser, CreateParser,
         checkIfParsingIsCompleted, CheckJob, setHookStatus, executeHooks,
         processPendingHook, createJobForHook, processInProgressHook, processSettledHook
    <3> QED
      BY <3>1, NothingKept
  <2> QED
    BY <2>1, <2>2, <2>3, <2>4
<1>2. CASE Crash \/ Delivery \/ UNCHANGED vars
  <2>1. UNCHANGED scan
    BY <1>2 DEF Crash, Delivery, DeliverScan, DeliverJobs, TimerExpires, Enqueue, Clock,
       SyncScan, SyncJobs, TimerFires, Resync, TTLElapses, vars, clusterVars
  <2> QED
    BY <2>1, NothingKept
<1>3. CASE User
  <2>1. \/ scan' = [scan EXCEPT !.rv = @ + 1]
        \/ scan' = [scan EXCEPT !.suspend = ~@, !.rv = @ + 1]
        \/ scan' = Deleted(scan)
    BY <1>3 DEF User, UserLabels, UserSuspends, UserDeletes, Edit
  <2>2. CASE scan' = [scan EXCEPT !.rv = @ + 1]
    BY <2>2 DEF StatusKept, SameStatus, Typed, Outer, Scan
  <2>3. CASE scan' = [scan EXCEPT !.suspend = ~@, !.rv = @ + 1]
    <3>1. SameStatus(scan', scan) /\ scan'.exists = scan.exists /\ scan'.rv = scan.rv + 1
      BY <2>3 DEF SameStatus, Typed, Outer, Scan
    <3> QED
      BY <3>1 DEF StatusKept
  <2>4. CASE scan' = Deleted(scan)
    BY <2>4, DeletedKeepsStatus DEF Typed
  <2> QED
    BY <2>1, <2>2, <2>3, <2>4
<1>4. ASSUME NEW j \in Slots, Pod(j) \/ JobController(j) \/ Retry(j) PROVE StatusKept
  <2>1. UNCHANGED scan \/ PatchFindings(j[1])
    BY <1>4 DEF Pod, PodStep, LurkerUploads, ParserPatchesStatus, ParserUploads, HookUploadsRaw,
       HookUploads, HookPatchesStatus, JobSucceeds, JobFails, JobController,
       JobControllerStep, JobExpires, JobDeleted, Retry, PodRestarts
  <2> QED
    BY <2>1, NothingKept, PatchKeepsStatus DEF Typed
<1> QED
  BY <1>1, <1>2, <1>3, <1>4 DEF Next, Delivery

-----------------------------------------------------------------------------
(***************************************************************************)
(* What every step of an existing Scan leaves true.                         *)
(***************************************************************************)
Grows ==
    /\ scan.exists /\ scan'.exists
    /\ CreatedJobs \subseteq CreatedJobs' /\ SucceededJobs \subseteq SucceededJobs'
    /\ Selected => Selected' /\ scan'.groups = scan.groups

LEMMA ScanEarnedKept ==
    ASSUME JobsEarned, Grows, StatusKept
    PROVE  Earned(scan, CreatedJobs, SucceededJobs)'
BY EarnedGrows DEF JobsEarned, Grows, StatusKept

LEMMA HookJobsKept ==
    ASSUME JobsEarned, Grows, HookNames \cap CreatedJobs' \subseteq CreatedJobs
    PROVE  HooksEarnTheirJobs'
<1>1. HooksEarnTheirJobs
  BY DEF JobsEarned, Grows
<1>2. CASE Selected
  BY <1>1, <1>2, OrderedGrows DEF HooksEarnTheirJobs, Grows
<1>3. CASE ~Selected
  <2>1. HookNames \cap CreatedJobs' = {}
    BY <1>1, <1>3 DEF HooksEarnTheirJobs
  <2> QED
    BY <2>1 DEF HooksEarnTheirJobs, Ordered
<1> QED
  BY <1>2, <1>3

LEMMA CacheEarnedKept ==
    ASSUME JobsEarned, Grows, \/ UNCHANGED cache
                              \/ cache' = scan /\ UNCHANGED scan
    PROVE  CacheEarned'
<1>1. CASE UNCHANGED cache
  <2>1. Earned(cache, CreatedJobs, SucceededJobs) /\ SameHooks(cache) /\ SameStatus(cache', cache)
    BY <1>1 DEF JobsEarned, Grows, CacheEarned, SameStatus
  <2> QED
    BY <1>1, <2>1, EarnedGrows DEF CacheEarned, SameHooks, Grows
<1>2. CASE cache' = scan /\ UNCHANGED scan
  <2>1. Earned(scan, CreatedJobs, SucceededJobs) /\ SameStatus(cache', scan)
    BY <1>2 DEF JobsEarned, Grows, SameStatus
  <2> QED
    BY <1>2, <2>1, EarnedGrows DEF CacheEarned, SameHooks, Selected, Grows
<1> QED
  BY <1>1, <1>2

(* Reconcile goes on with a copy of the same status.                        *)
LEMMA CopyMoves ==
    ASSUME JobsEarned, Grows, pc \notin {"idle", "write", "record"}, SameStatus(obj', obj),
           pc' # "hooks", pc' = "createParser" => obj'.state = "ScanCompleted"
    PROVE  CopyEarned'
<1>1. Earned(obj, CreatedJobs, SucceededJobs) /\ SameHooks(obj)
  BY DEF JobsEarned, CopyEarned, Grows
<1>2. Earned(obj, CreatedJobs, SucceededJobs)'
  BY <1>1, EarnedGrows DEF Grows
<1> QED
  BY <1>1, <1>2 DEF CopyEarned, SameHooks, Grows, SameStatus

LEMMA CopyUntouched ==
    ASSUME JobsEarned, Grows, UNCHANGED <<pc, obj, cursor>>, pc # "idle"
    PROVE  CopyEarned'
<1>1. CopyEarned /\ SameStatus(obj', obj)
  BY DEF JobsEarned, Grows, SameStatus
<1>2. Earned(obj, CreatedJobs, SucceededJobs)'
  BY <1>1, EarnedGrows DEF CopyEarned, Grows
<1>3. pc = "hooks" => AtHook'
  BY <1>1 DEF CopyEarned, AtHook, Grows
<1> QED
  BY <1>1, <1>2, <1>3 DEF CopyEarned, SameHooks, Grows

(* Reconcile is about to write a copy.                                      *)
LEMMA CopyWritten ==
    ASSUME pc' \in {"write", "record"}, Earned(obj, CreatedJobs, SucceededJobs)'
    PROVE  CopyEarned'
BY DEF CopyEarned

LEMMA ErroredEarned ==
    ASSUME NEW o \in Scan, NEW C, NEW S, Earned(o, C, S)
    PROVE  Earned(Errored(o), C, S)
<1>1. Errored(o).state = "Errored" /\ Errored(o).hook = o.hook
  BY DEF Errored, Scan
<1> QED
  BY <1>1 DEF Earned, StateEarned, HooksEarned, DoneEarned

LEMMA WithStateEarned ==
    ASSUME NEW o \in Scan, NEW C, NEW S, Earned(o, C, S), NEW st \in ScanStates \ {"Init", "Done"},
           LET p == [o EXCEPT !.state = st] IN StateEarned(p, C, S)
    PROVE  Earned([o EXCEPT !.state = st], C, S)
<1> DEFINE p == [o EXCEPT !.state = st]
<1>1. p.state = st /\ p.hook = o.hook
  BY DEF Scan
<1>2. StateEarned(p, C, S)
  OBVIOUS
<1> HIDE DEF p
<1>3. Earned(p, C, S)
  BY <1>1, <1>2 DEF Earned, HooksEarned, DoneEarned
<1> QED
  BY <1>3 DEF p

(* The copy as it was, in the light of the Jobs there are after the step.   *)
LEMMA StillEarned ==
    ASSUME JobsEarned, Grows, pc # "idle"
    PROVE  Earned(obj, CreatedJobs', SucceededJobs')
<1>1. Earned(obj, CreatedJobs, SucceededJobs) /\ SameStatus(obj, obj)
  BY DEF JobsEarned, CopyEarned, Grows, SameStatus
<1> QED
  BY <1>1, EarnedGrows DEF Grows

LEMMA ErroredWritten ==
    ASSUME Typed, JobsEarned, Grows, pc # "idle", NEW error, Write(Errored(obj), error)
    PROVE  CopyEarned'
<1>1. obj \in Scan /\ obj' = Errored(obj) /\ pc' = "write"
  BY DEF Typed, Inner, WorkTypeOK, Write
<1>2. Earned(obj', CreatedJobs', SucceededJobs')
  BY <1>1, StillEarned, ErroredEarned
<1> QED
  BY <1>1, <1>2, CopyWritten

-----------------------------------------------------------------------------
(***************************************************************************)
(* Reconcile, handler by handler.                                           *)
(***************************************************************************)
LEMMA ReconcileEarns ==
    ASSUME JobsEarned, Grows, Reconcile, pc' # "idle"
    PROVE  CopyEarned'
<1>1. obj' = cache /\ UNCHANGED cache /\ pc' \in {"cleanup", "switch"} /\ UNCHANGED scan
  BY DEF Reconcile, workVars, Goto, AfterGet
<1>2. CacheEarned'
  BY <1>1, CacheEarnedKept
<1> QED
  BY <1>1, <1>2 DEF CacheEarned, CopyEarned, SameHooks, Selected

LEMMA MovesEarn ==
    ASSUME Typed, JobsEarned, Grows, pc' # "idle",
           \/ cleanupS3Files \/ ReleaseFinalizer \/ startScan \/ AddFinalizer \/ startParser
           \/ deleteScan \/ PresignFails \/ updateScanStatus
    PROVE  CopyEarned'
<1>0. obj \in Scan
  BY DEF Typed, Inner, WorkTypeOK
<1>1. CASE cleanupS3Files
  <2>1. pc = "cleanup" /\ pc' = "release" /\ obj' = obj
    BY <1>1, ReturnsIdle DEF cleanupS3Files, Goto
  <2> QED
    BY <2>1, CopyMoves DEF SameStatus
<1>2. CASE ReleaseFinalizer
  <2>1. /\ pc = "release" /\ pc' \in {"switch", "cleanup"}
        /\ obj' = [obj EXCEPT !.finalizers = Remaining, !.rv = scan'.rv]
    BY <1>2, ReturnsIdle DEF ReleaseFinalizer, Goto
  <2>2. SameStatus(obj', obj)
    BY <1>0, <2>1 DEF SameStatus, Scan
  <2> QED
    BY <2>1, <2>2, CopyMoves
<1>3. CASE AddFinalizer
  <2>1. /\ pc = "addFinalizer" /\ pc' = "createScanner"
        /\ obj' = [obj EXCEPT !.finalizers = WantedFinalizers, !.rv = scan'.rv]
    BY <1>3, ReturnsIdle DEF AddFinalizer, Goto
  <2>2. SameStatus(obj', obj)
    BY <1>0, <2>1 DEF SameStatus, Scan
  <2> QED
    BY <2>1, <2>2, CopyMoves
<1>4. CASE startScan \/ startParser
  <2>1. /\ pc = "switch" /\ obj' = obj /\ pc' \in {"createScanner", "addFinalizer", "createParser"}
        /\ pc' = "createParser" => obj.state = "ScanCompleted"
    BY <1>4, ReturnsIdle DEF startScan, startParser, Goto, At
  <2> QED
    BY <2>1, CopyMoves DEF SameStatus
<1>5. CASE deleteScan \/ PresignFails \/ updateScanStatus
  BY <1>5, ReturnsIdle, ReturnedIdle DEF deleteScan, PresignFails, updateScanStatus
<1> QED
  BY <1>1, <1>2, <1>3, <1>4, <1>5

LEMMA CreateScannerEarns ==
    ASSUME Typed, JobsEarned, Grows, CreateScanner, pc' # "idle"
    PROVE  CopyEarned'
<1>1. pc = "createScanner" /\ obj \in Scan /\ "scanner" \in JobKinds
  BY DEF CreateScanner, Typed, Inner, WorkTypeOK, JobKinds
<1>2. CASE Write(Errored(obj), TRUE)
  BY <1>1, <1>2, ErroredWritten
<1>3. CASE CreateAndRecord("scanner", [obj EXCEPT !.state = "Scanning", !.raw = TRUE])
  <2>1. /\ obj' = [obj EXCEPT !.state = "Scanning", !.raw = TRUE] /\ pc' = "record"
        /\ CreateJob("scanner")
    BY <1>3, ReturnsIdle DEF CreateAndRecord, Goto
  <2>2. "scanner" \in CreatedJobs'
    BY <1>1, <2>1, OneCreated
  <2>3. obj'.state = "Scanning" /\ obj'.raw = TRUE /\ obj'.hook = obj.hook
    BY <1>1, <2>1 DEF Scan
  <2>4. Earned(obj, CreatedJobs', SucceededJobs')
    BY <1>1, StillEarned
  <2>5. Earned(obj', CreatedJobs', SucceededJobs')
    BY <2>2, <2>3, <2>4 DEF Earned, StateEarned, HooksEarned, DoneEarned
  <2> QED
    BY <2>1, <2>5, CopyWritten
<1> QED
  BY <1>2, <1>3 DEF CreateScanner

LEMMA CreateParserEarns ==
    ASSUME Typed, JobsEarned, Grows, CreateParser, pc' # "idle"
    PROVE  CopyEarned'
<1>1. pc = "createParser" /\ obj \in Scan /\ "parser" \in JobKinds
  BY DEF CreateParser, Typed, Inner, WorkTypeOK, JobKinds
<1>2. CASE Write(Errored(obj), TRUE)
  BY <1>1, <1>2, ErroredWritten
<1>3. CASE CreateAndRecord("parser", [obj EXCEPT !.state = "Parsing"])
  <2>1. obj' = [obj EXCEPT !.state = "Parsing"] /\ pc' = "record" /\ CreateJob("parser")
    BY <1>3, ReturnsIdle DEF CreateAndRecord, Goto
  <2>2. "parser" \in CreatedJobs'
    BY <1>1, <2>1, OneCreated
  <2>3. obj'.state = "Parsing" /\ obj'.raw = obj.raw /\ obj'.hook = obj.hook
    BY <1>1, <2>1 DEF Scan
  <2>4. Earned(obj, CreatedJobs', SucceededJobs') /\ obj.state = "ScanCompleted"
    BY <1>1, StillEarned DEF JobsEarned, CopyEarned, Grows
  <2>5. Earned(obj', CreatedJobs', SucceededJobs')
    BY <2>2, <2>3, <2>4 DEF Earned, StateEarned, HooksEarned, DoneEarned
  <2> QED
    BY <2>1, <2>5, CopyWritten
<1> QED
  BY <1>2, <1>3 DEF CreateParser

LEMMA CheckEarns ==
    ASSUME Typed, JobsVisible, JobsOnce, JobsEarned, Grows, pc' # "idle",
           checkIfScanIsCompleted \/ checkIfParsingIsCompleted
    PROVE  CopyEarned'
<1>1. PICK kind, next :
         /\ CheckJob(kind, next) /\ pc = "switch"
         /\ \/ obj.state = "Scanning" /\ kind = "scanner" /\ next = "ScanCompleted"
            \/ obj.state = "Parsing" /\ kind = "parser" /\ next = "ParseCompleted"
  BY DEF checkIfScanIsCompleted, checkIfParsingIsCompleted, At
<1>2. obj \in Scan /\ Earned(obj, CreatedJobs, SucceededJobs)
  BY <1>1 DEF Typed, Inner, WorkTypeOK, JobsEarned, CopyEarned, Grows
<1>3. kind \in CreatedJobs
  BY <1>1, <1>2 DEF Earned, StateEarned
<1> DEFINE status == checkIfAllJobsCompleted(getJobsForScan(kind))
<1>4. status \in {"completed", "failed", "incomplete"}
  BY DEF checkIfAllJobsCompleted
<1>5. CASE status = "completed"
  <2>1. Write([obj EXCEPT !.state = next], FALSE)
    BY <1>1, <1>5 DEF CheckJob
  <2>2. obj' = [obj EXCEPT !.state = next] /\ pc' = "write"
    BY <2>1 DEF Write
  <2>3. kind \in SucceededJobs'
    BY <1>3, <1>5, CompletedHasSucceeded DEF Grows
  <2>4. obj'.state = next /\ obj'.raw = obj.raw /\ obj'.hook = obj.hook
    BY <1>2, <2>2 DEF Scan
  <2>5. Earned(obj, CreatedJobs', SucceededJobs')
    BY <1>1, StillEarned
  <2>6. Earned(obj', CreatedJobs', SucceededJobs')
    BY <1>1, <2>3, <2>4, <2>5 DEF Earned, StateEarned, HooksEarned, DoneEarned
  <2> QED
    BY <2>2, <2>6, CopyWritten
<1>6. CASE status = "failed"
  <2>1. Write(Errored(obj), FALSE)
    BY <1>1, <1>6 DEF CheckJob
  <2> QED
    BY <1>1, <2>1, ErroredWritten
<1>7. CASE status = "incomplete"
  <2>1. ReturnNil
    BY <1>1, <1>7 DEF CheckJob
  <2> QED
    BY <2>1, ReturnsIdle
<1> QED
  BY <1>4, <1>5, <1>6, <1>7

LEMMA SetHookStatusEarns ==
    ASSUME Typed, JobsEarned, Grows, setHookStatus, pc' # "idle"
    PROVE  CopyEarned'
<1>1. pc = "switch" /\ obj.state = "ParseCompleted" /\ obj \in Scan
  BY DEF setHookStatus, At, Typed, Inner, WorkTypeOK
<1>2. PICK list \in HookLists :
         Write([obj EXCEPT !.groups = FromUnorderedList(list),
                           !.hook = [h \in HookNames |-> "Pending"],
                           !.state = "HookProcessing"], FALSE)
  BY ReturnsIdle DEF setHookStatus
<1>3. /\ obj' = [obj EXCEPT !.groups = FromUnorderedList(list),
                            !.hook = [h \in HookNames |-> "Pending"],
                            !.state = "HookProcessing"]
      /\ pc' = "write"
  BY <1>2 DEF Write
<1>4. /\ obj'.state = "HookProcessing" /\ obj'.raw = obj.raw
      /\ obj'.hook = [h \in HookNames |-> "Pending"]
  BY <1>1, <1>3 DEF Scan
<1>5. Earned(obj, CreatedJobs', SucceededJobs')
  BY <1>1, StillEarned
<1>6. Earned(obj', CreatedJobs', SucceededJobs')
  BY <1>1, <1>4, <1>5 DEF Earned, StateEarned, HooksEarned, DoneEarned
<1> QED
  BY <1>3, <1>6, CopyWritten

(***************************************************************************)
(* executeHooks and the hooks of a group.                                   *)
(***************************************************************************)
LEMMA ExecuteHooksEarns ==
    ASSUME Typed, JobsEarned, Grows, executeHooks, pc' # "idle"
    PROVE  CopyEarned'
<1>1. pc = "switch" /\ obj.state = "HookProcessing" /\ obj \in Scan /\ UNCHANGED scan
  BY DEF executeHooks, At, Typed, Inner, WorkTypeOK
<1>2. /\ Earned(obj, CreatedJobs', SucceededJobs')
      /\ Selected /\ obj.groups = scan.groups
  BY <1>1, StillEarned DEF JobsEarned, CopyEarned, SameHooks, Grows
<1>3. /\ IsGrouping(obj.groups)
      /\ \A g \in DOMAIN obj.groups : FullGroup(obj.groups[g])
      /\ obj.hook \in [HookNames -> HookStates]
  BY <1>1, GroupingsShape DEF Scan
<1> DEFINE c == CurrentHookGroup(obj.groups, obj.hook)
           StateOf(g, k) == StateAt(obj.groups, obj.hook, g, k)
<1>4. /\ c.result \in {"none", "group", "error"}
      /\ c.result = "none" => \A g \in DOMAIN obj.groups : \A k \in DOMAIN obj.groups[g] :
                                StateOf(g, k) = "Completed"
      /\ c.result = "group" =>
            /\ c.group \in DOMAIN obj.groups
            /\ \A g \in DOMAIN obj.groups : \A k \in DOMAIN obj.groups[g] :
                  g < c.group => StateOf(g, k) = "Completed"
  BY <1>3, CurrentGroupIs
<1>5. CASE c.result = "error"
  <2>1. Write(Errored(obj), TRUE)
    BY <1>5 DEF executeHooks
  <2> QED
    BY <1>1, <2>1, ErroredWritten
<1>6. CASE c.result = "none"
  <2>1. obj' = [obj EXCEPT !.state = "Done"] /\ pc' = "write"
    BY <1>6 DEF executeHooks, Write
  <2>2. /\ obj'.state = "Done" /\ obj'.raw = obj.raw /\ obj'.hook = obj.hook
        /\ obj'.groups = obj.groups
    BY <1>1, <2>1 DEF Scan
  <2>3. \A h \in HookNames : Named(obj.groups, h) => obj.hook[h] = "Completed"
    BY <1>4, <1>6 DEF Named, NamesAt, StateAt
  <2>4. Earned(obj', CreatedJobs', SucceededJobs')
    BY <1>1, <1>2, <2>2, <2>3 DEF Earned, StateEarned, HooksEarned, DoneEarned
  <2> QED
    BY <2>1, <2>4, CopyWritten
<1>7. CASE c.result = "group"
  <2>1. pc' = "hooks" /\ cursor' = <<c.group, 1>> /\ UNCHANGED obj
    BY <1>7 DEF executeHooks
  <2>2. c.group \in DOMAIN obj.groups /\ 1 \in DOMAIN obj.groups[c.group]
    BY <1>3, <1>4, <1>7 DEF FullGroup
  <2>3. \A f \in DOMAIN obj.groups : f < c.group => NamesAt(obj.groups, f) \subseteq SucceededJobs'
    <3>1. ASSUME NEW f \in DOMAIN obj.groups, f < c.group, NEW k \in DOMAIN obj.groups[f]
          PROVE  obj.groups[f][k].name \in SucceededJobs'
      <4>1. obj.groups[f][k].name \in HookNames
        BY <1>3 DEF FullGroup, Hook
      <4>2. obj.hook[obj.groups[f][k].name] = "Completed"
        BY <1>4, <1>7, <3>1 DEF StateAt
      <4> QED
        BY <1>2, <4>1, <4>2 DEF Earned, HooksEarned
    <3> QED
      BY <3>1 DEF NamesAt
  <2>4. "parser" \in SucceededJobs'
    BY <1>1, <1>2 DEF Earned, StateEarned
  <2>5. Selected' /\ scan'.groups = scan.groups
    BY <1>1, <1>2 DEF Selected
  <2> HIDE DEF c
  <2>6. AtHook'
    BY <1>1, <1>2, <2>1, <2>2, <2>3, <2>4, <2>5 DEF AtHook
  <2> QED
    BY <1>2, <2>1, <2>5, <2>6 DEF CopyEarned, SameHooks
<1> QED
  BY <1>4, <1>5, <1>6, <1>7

LEMMA HookAtCursor ==
    ASSUME Typed, AtHook
    PROVE  /\ CurrentHook \in HookNames /\ obj.hook[CurrentHook] \in HookStates
           /\ CurrentHook \in NamesAt(obj.groups, cursor[1])
           /\ FullGroup(CurrentGroup) /\ NamesApart(obj.groups)
<1>1. obj \in Scan /\ obj.groups \in Groupings /\ obj.hook \in [HookNames -> HookStates]
  BY DEF Typed, Inner, WorkTypeOK, Scan
<1>2. /\ cursor[1] \in DOMAIN obj.groups /\ cursor[2] \in DOMAIN CurrentGroup
      /\ FullGroup(CurrentGroup) /\ NamesApart(obj.groups)
  BY <1>1, GroupingsShape DEF AtHook, CurrentGroup
<1>3. CurrentHook \in HookNames
  BY <1>2 DEF CurrentHook, FullGroup, Hook
<1> QED
  BY <1>1, <1>2, <1>3 DEF CurrentHook, CurrentGroup, NamesAt

LEMMA HookDoneEarns ==
    ASSUME Typed, JobsEarned, Grows, pc = "hooks", NEW H, NEW o, NEW error,
           o = [obj EXCEPT !.hook = H], HookDone(o, error),
           HooksEarned(H, CreatedJobs', SucceededJobs')
    PROVE  CopyEarned'
<1>1. obj \in Scan /\ AtHook /\ Earned(obj, CreatedJobs', SucceededJobs')
  BY StillEarned DEF JobsEarned, CopyEarned, Grows, Typed, Inner, WorkTypeOK
<1>2. /\ o.state = obj.state /\ o.raw = obj.raw /\ o.groups = obj.groups /\ o.hook = H
      /\ LET e == Errored(o)
         IN  e.state = "Errored" /\ e.groups = obj.groups /\ e.hook = H
  BY <1>1 DEF Errored, Scan
<1>3. /\ obj'.groups = obj.groups /\ obj'.hook = H
      /\ obj'.state = "Errored" \/ (obj'.state = obj.state /\ obj'.raw = obj.raw)
  BY <1>2 DEF HookDone
<1>4. obj'.state \in {"HookProcessing", "Errored"}
  BY <1>1, <1>3 DEF AtHook
<1>5. Earned(obj', CreatedJobs', SucceededJobs')
  BY <1>1, <1>3, <1>4 DEF Earned, StateEarned, HooksEarned, DoneEarned
<1>6. CASE pc' = "write"
  BY <1>5, <1>6, CopyWritten
<1>7. CASE /\ pc' = "hooks" /\ cursor[2] # Len(CurrentGroup)
           /\ cursor' = <<cursor[1], cursor[2] + 1>>
  <2>1. FullGroup(CurrentGroup) /\ cursor[2] \in DOMAIN CurrentGroup
    BY <1>1, HookAtCursor DEF AtHook, CurrentGroup
  <2>2. cursor[2] + 1 \in DOMAIN CurrentGroup
    BY <1>7, <2>1 DEF FullGroup
  <2>3. cursor'[1] = cursor[1] /\ cursor'[2] \in DOMAIN obj.groups[cursor[1]]
    BY <1>7, <2>2 DEF CurrentGroup
  <2>4. /\ Selected' /\ obj'.groups = scan'.groups /\ "parser" \in SucceededJobs'
        /\ \A f \in DOMAIN obj.groups : f < cursor[1] => NamesAt(obj.groups, f) \subseteq SucceededJobs'
    BY <1>1, <1>3 DEF AtHook, Grows
  <2>5. AtHook'
    BY <1>1, <1>3, <1>4, <2>3, <2>4 DEF AtHook
  <2> QED
    BY <1>5, <1>7, <2>4, <2>5 DEF CopyEarned, SameHooks
<1> QED
  BY <1>6, <1>7 DEF HookDone

LEMMA HookBecomesEarns ==
    ASSUME Typed, JobsEarned, Grows, pc = "hooks", NEW st, HookBecomes(st),
           st \in {"InProgress", "Completed", "Failed"}, CurrentHook \in CreatedJobs',
           st = "Completed" => CurrentHook \in SucceededJobs'
    PROVE  CopyEarned'
<1> DEFINE H == [obj.hook EXCEPT ![CurrentHook] = st]
<1>1. obj \in Scan /\ AtHook /\ Earned(obj, CreatedJobs', SucceededJobs')
  BY StillEarned DEF JobsEarned, CopyEarned, Grows, Typed, Inner, WorkTypeOK
<1>2. obj.hook \in [HookNames -> HookStates] /\ CurrentHook \in HookNames
  BY <1>1, HookAtCursor DEF Scan
<1>3. HooksEarned(H, CreatedJobs', SucceededJobs')
  <2>1. \A h \in HookNames : H[h] = IF h = CurrentHook THEN st ELSE obj.hook[h]
    BY <1>2
  <2> HIDE DEF H
  <2> QED
    BY <1>1, <2>1 DEF Earned, HooksEarned
<1>4. [obj EXCEPT !.hook[CurrentHook] = st] = [obj EXCEPT !.hook = H]
  OBVIOUS
<1> HIDE DEF H
<1> QED
  BY <1>3, <1>4, HookDoneEarns DEF HookBecomes

LEMMA SameHookEarns ==
    ASSUME Typed, JobsEarned, Grows, pc = "hooks", NEW error, HookDone(obj, error)
    PROVE  CopyEarned'
<1>1. HooksEarned(obj.hook, CreatedJobs', SucceededJobs')
  BY StillEarned DEF Earned
<1>2. obj \in Scan
  BY DEF Typed, Inner, WorkTypeOK
<1>3. obj = [obj EXCEPT !.hook = obj.hook]
  BY <1>2 DEF Scan
<1> QED
  BY <1>1, <1>3, HookDoneEarns

LEMMA HooksEarn ==
    ASSUME Typed, JobsVisible, JobsOnce, JobsEarned, Grows,
           processPendingHook \/ processInProgressHook \/ processSettledHook
    PROVE  CopyEarned'
<1>1. pc = "hooks" /\ AtHook /\ Earned(obj, CreatedJobs, SucceededJobs)
  BY DEF processPendingHook, createJobForHook,
       processInProgressHook, processSettledHook, JobsEarned, CopyEarned, Grows
<1>2. CurrentHook \in HookNames /\ CurrentHook \in JobKinds
  BY <1>1, HookAtCursor DEF JobKinds
<1>3. CASE HookError \/ HookDone(obj, FALSE)
  BY <1>1, <1>3, SameHookEarns DEF HookError
<1>4. CASE HookBecomes("InProgress") /\ getJobsForScan(CurrentHook) # {}
  BY <1>1, <1>2, <1>4, ListedIsCreated, HookBecomesEarns DEF Grows
<1>5. CASE HookBecomes("InProgress") /\ CreateJob(CurrentHook)
  BY <1>1, <1>2, <1>5, OneCreated, HookBecomesEarns
<1>6. CASE processPendingHook
  BY <1>3, <1>4, <1>5, <1>6 DEF processPendingHook, createJobForHook
<1>7. CASE processInProgressHook
  <2> DEFINE status == checkIfAllJobsCompleted(getJobsForScan(CurrentHook))
  <2>1. HookBecomes(AfterJob[status]) /\ obj.hook[CurrentHook] = "InProgress"
    BY <1>7 DEF processInProgressHook
  <2>2. CurrentHook \in CreatedJobs
    BY <1>1, <1>2, <2>1 DEF Earned, HooksEarned
  <2>3. status \in {"completed", "failed", "incomplete"}
    BY DEF checkIfAllJobsCompleted
  <2>4. status = "completed" => CurrentHook \in SucceededJobs
    BY <2>2, CompletedHasSucceeded DEF Grows
  <2> HIDE DEF status
  <2>5. /\ AfterJob[status] \in {"InProgress", "Completed", "Failed"}
        /\ AfterJob[status] = "Completed" => status = "completed"
    BY <2>3 DEF AfterJob
  <2> QED
    BY <1>1, <2>1, <2>2, <2>4, <2>5, HookBecomesEarns DEF Grows
<1>8. CASE processSettledHook
  BY <1>3, <1>8 DEF processSettledHook
<1> QED
  BY <1>6, <1>7, <1>8

LEMMA CopyEarns ==
    ASSUME Typed, JobsVisible, JobsOnce, JobsEarned, Grows, Operator, pc' # "idle"
    PROVE  CopyEarned'
BY ReconcileEarns, MovesEarn, CreateScannerEarns, CreateParserEarns, CheckEarns,
   SetHookStatusEarns, ExecuteHooksEarns, HooksEarn DEF Operator

-----------------------------------------------------------------------------
(***************************************************************************)
(* A hook gets its Job when its group has come.                             *)
(***************************************************************************)
LEMMA NewHookInOrder ==
    ASSUME Typed, JobsEarned, Grows, processPendingHook, CreateJob(CurrentHook)
    PROVE  HooksEarnTheirJobs'
<1>1. AtHook /\ HooksEarnTheirJobs
  BY DEF processPendingHook, createJobForHook, JobsEarned, CopyEarned, Grows
<1>2. /\ CurrentHook \in HookNames /\ CurrentHook \in JobKinds
      /\ CurrentHook \in NamesAt(scan.groups, cursor[1]) /\ NamesApart(scan.groups)
      /\ cursor[1] \in DOMAIN scan.groups
  BY <1>1, HookAtCursor DEF AtHook, JobKinds
<1>3. CreatedJobs' = CreatedJobs \cup {CurrentHook}
  BY <1>2, OneCreated
<1>4. Selected' /\ scan'.groups = scan.groups /\ "parser" \in SucceededJobs'
  BY <1>1 DEF AtHook, Grows
<1>5. Ordered(scan.groups, CreatedJobs', SucceededJobs')
  <2>1. ASSUME NEW h \in HookNames \cap CreatedJobs'
        PROVE  /\ Named(scan.groups, h)
               /\ \A f, g \in DOMAIN scan.groups :
                     h \in NamesAt(scan.groups, g) /\ f < g
                        => NamesAt(scan.groups, f) \subseteq SucceededJobs'
    <3>1. CASE h \in CreatedJobs
      BY <1>1, <2>1, <3>1 DEF HooksEarnTheirJobs, Ordered, Grows
    <3>2. CASE h = CurrentHook
      <4>1. \A g \in DOMAIN scan.groups : h \in NamesAt(scan.groups, g) => g = cursor[1]
        BY <1>2, <3>2 DEF NamesApart, NamesAt
      <4> QED
        BY <1>1, <1>2, <3>2, <4>1 DEF Named, AtHook, Grows
    <3> QED
      BY <1>3, <2>1, <3>1, <3>2
  <2> QED
    BY <2>1 DEF Ordered
<1> QED
  BY <1>4, <1>5 DEF HooksEarnTheirJobs

LEMMA NoNewHook ==
    ASSUME Typed, ~JobTTL, [Next]_vars, ~(processPendingHook /\ CreateJob(CurrentHook))
    PROVE  HookNames \cap CreatedJobs' \subseteq CreatedJobs
<1>1. CASE Operator
  <2>0. "scanner" \notin HookNames /\ "parser" \notin HookNames
        /\ "scanner" \in JobKinds /\ "parser" \in JobKinds
    BY ClusterAssumption DEF JobKinds
  <2>1. UNCHANGED jobs \/ CreateJob("scanner") \/ CreateJob("parser")
    BY <1>1 DEF Operator, Reconcile, cleanupS3Files, ReleaseFinalizer, updateScanStatus,
       startScan, AddFinalizer, CreateScanner, CreateParser, CreateAndRecord, PresignFails,
       checkIfScanIsCompleted, startParser, checkIfParsingIsCompleted, CheckJob, setHookStatus,
       executeHooks, processPendingHook, createJobForHook,
       processInProgressHook, processSettledHook, deleteScan
  <2>2. CASE UNCHANGED jobs
    BY <2>2 DEF CreatedJobs
  <2> QED
    BY <2>0, <2>1, <2>2, OneCreated
<1>2. CASE ~Operator
  BY <1>2, OutsideJobs, NothingCreated
<1> QED
  BY <1>1, <1>2

(***************************************************************************)
(* The status write.                                                        *)
(***************************************************************************)
LEMMA WrittenIs ==
    ASSUME Typed, scan' = WithStatusOf(Stamped(obj))
    PROVE  /\ scan'.state = obj.state /\ scan'.raw = obj.raw
           /\ scan'.groups = obj.groups /\ scan'.hook = obj.hook
<1>1. /\ Stamped(obj) \in Scan
      /\ Stamped(obj).state = obj.state /\ Stamped(obj).groups = obj.groups
      /\ Stamped(obj).hook = obj.hook /\ Stamped(obj).raw = obj.raw
  BY StampedTyped DEF Stamped, Typed, Inner, WorkTypeOK, Scan
<1> DEFINE o == Stamped(obj)
           new == [scan EXCEPT !.state = o.state, !.finished = o.finished, !.raw = o.raw,
                               !.findings = o.findings, !.groups = o.groups, !.hook = o.hook]
<1>2. /\ new.state = o.state /\ new.raw = o.raw /\ new.groups = o.groups /\ new.hook = o.hook
      /\ new \in Scan
  BY <1>1 DEF Typed, Outer, Scan
<1>3. scan' = IF new = scan THEN scan ELSE [new EXCEPT !.rv = @ + 1]
  BY DEF WithStatusOf
<1> HIDE DEF new, o
<1>4. /\ scan'.state = new.state /\ scan'.raw = new.raw /\ scan'.groups = new.groups
      /\ scan'.hook = new.hook
  BY <1>2, <1>3 DEF Scan
<1> QED
  BY <1>1, <1>2, <1>4 DEF o

LEMMA WrittenEarned ==
    ASSUME Typed, JobsEarned, Grows, updateScanStatus
    PROVE  Earned(scan, CreatedJobs, SucceededJobs)'
<1>1. CASE UNCHANGED scan
  BY <1>1, NothingKept, ScanEarnedKept
<1>2. CASE scan' = WithStatusOf(Stamped(obj))
  <2>1. Earned(obj, CreatedJobs', SucceededJobs')
    BY StillEarned DEF updateScanStatus
  <2>2. Earned(scan', CreatedJobs', SucceededJobs')
    BY <1>2, <2>1, WrittenIs DEF Earned, StateEarned, HooksEarned, DoneEarned
  <2> QED
    BY <2>2
<1> QED
  BY <1>1, <1>2 DEF updateScanStatus

-----------------------------------------------------------------------------
LEMMA StepGrows ==
    ASSUME Typed, IInv, LInv, JobsVisible, ~JobTTL, JobsOnce, [Next]_vars, scan'.exists
    PROVE  Grows
<1>1. Typed' /\ [Lifecycle!Next]_(Lifecycle!vars)
  BY NextTyped, NextStays DEF Stays
<1>2. scan.exists
  BY <1>1, GoneForGood
<1>3. CreatedJobs \subseteq CreatedJobs' /\ SucceededJobs \subseteq SucceededJobs'
  BY <1>2, JobsChange, JobsLast
<1> QED
  BY <1>1, <1>2, <1>3, SelectedForGood DEF Grows

LEMMA CacheFilled ==
    ASSUME [Next]_vars
    PROVE  UNCHANGED cache \/ (cache' = scan /\ UNCHANGED scan)
<1>1. CASE Operator
  <2>1. CASE Fails \/ ReturnNil \/ ReturnError \/ Continue
    BY <2>1, ReturnsIdle DEF Continue
  <2>2. CASE CreateScanner \/ CreateParser
    BY <2>2, ReturnsIdle DEF CreateScanner, CreateParser, CreateAndRecord, Write, Continue
  <2>3. CASE updateScanStatus
    BY <2>3, ReturnedIdle DEF updateScanStatus
  <2>4. CASE processPendingHook \/ processInProgressHook \/ processSettledHook
    BY <2>4 DEF processPendingHook, createJobForHook,
         processInProgressHook, processSettledHook, HookError,
       HookBecomes, HookDone
  <2>5. CASE checkIfScanIsCompleted \/ checkIfParsingIsCompleted
    BY <2>5, ReturnsIdle, StatusTyped
    DEF checkIfScanIsCompleted, checkIfParsingIsCompleted, CheckJob, Write, Continue
  <2>6. CASE executeHooks
    <3>1. CurrentHookGroup(obj.groups, obj.hook).result \in {"error", "none", "group"}
      BY DEF CurrentHookGroup
    <3> QED
      BY <2>6, <3>1 DEF executeHooks, Write, Continue
  <2>7. CASE setHookStatus
    BY <2>7, ReturnsIdle DEF setHookStatus, Write, Continue
  <2>8. CASE Reconcile
    BY <2>8 DEF Reconcile
  <2>9. CASE cleanupS3Files \/ ReleaseFinalizer \/ startScan \/ AddFinalizer \/ PresignFails
             \/ startParser \/ deleteScan
    BY <2>1, <2>9 DEF cleanupS3Files, ReleaseFinalizer, startScan, AddFinalizer, PresignFails,
       startParser, deleteScan
  <2> QED
    BY <1>1, <2>2, <2>3, <2>4, <2>5, <2>6, <2>7, <2>8, <2>9 DEF Operator
<1>2. CASE Crash
  BY <1>2 DEF Crash
<1>3. CASE Delivery \/ User \/ UNCHANGED vars
  BY <1>3 DEF Delivery, DeliverScan, DeliverJobs, TimerExpires, Enqueue, Clock,
     SyncScan, SyncJobs, TimerFires, Resync, TTLElapses, User, UserLabels, UserSuspends,
     UserDeletes, Edit, vars, clusterVars
<1>4. ASSUME NEW j \in Slots, Pod(j) \/ JobController(j) \/ Retry(j) PROVE UNCHANGED cache
  BY <1>4 DEF Pod, PodStep, JobController, JobControllerStep, Retry, PodRestarts
<1> QED
  BY <1>1, <1>2, <1>3, <1>4 DEF Next, Delivery

LEMMA JobsEarnedKept ==
    ASSUME Typed, IInv, LInv, JobsVisible, ~JobTTL, JobsOnce, JobsEarned, [Next]_vars
    PROVE  JobsEarned'
<1> SUFFICES ASSUME scan'.exists PROVE JobsEarned'
  BY DEF JobsEarned
<1>1. Grows
  BY StepGrows
<1>2. Earned(scan, CreatedJobs, SucceededJobs)'
  BY <1>1, WrittenEarned, OnlyStatusWrites, ScanEarnedKept
<1>3. HooksEarnTheirJobs'
  BY <1>1, NewHookInOrder, NoNewHook, HookJobsKept
<1>4. CacheEarned'
  BY <1>1, CacheFilled, CacheEarnedKept
<1>5. pc' # "idle" => CopyEarned'
  <2>1. CASE Operator
    BY <1>1, <2>1, CopyEarns
  <2>2. CASE Crash
    BY <2>2 DEF Crash
  <2>3. CASE ~(Operator \/ Crash)
    <3>1. UNCHANGED <<pc, obj, cursor>>
      BY <2>3 DEF Next, DeliverScan, DeliverJobs, TimerExpires, Enqueue, Clock,
         Pod, JobController, Retry, User, Outside, workVars, vars
    <3> QED
      BY <1>1, <3>1, CopyUntouched
  <2> QED
    BY <2>1, <2>2, <2>3
<1> QED
  BY <1>2, <1>3, <1>4, <1>5 DEF JobsEarned

LEMMA JobsEarnedInit == ASSUME Init PROVE JobsEarned
<1>1. /\ scan.state = "Init" /\ scan.groups = <<>> /\ scan.hook = [h \in HookNames |-> "Pending"]
      /\ pc = "idle" /\ cache = scan
  BY DEF Init, ClusterInit
<1>2. CreatedJobs = {}
  BY DEF Init, ClusterInit, CreatedJobs, JobsOf
<1>3. Earned(scan, CreatedJobs, SucceededJobs)
  BY <1>1 DEF Earned, StateEarned, HooksEarned, DoneEarned
<1>4. HooksEarnTheirJobs
  BY <1>2 DEF HooksEarnTheirJobs, Ordered
<1> QED
  BY <1>1, <1>3, <1>4 DEF JobsEarned, CacheEarned, SameHooks

LEMMA OrderedIsInOrder ==
    ASSUME Typed, JobsEarned
    PROVE  HookJobsInOrder
<1>1. ASSUME scan.exists, NEW j \in Slots, j[1] \in HookNames, jobs[j] # "None"
      PROVE  /\ GroupIndex(j[1]) # {}
             /\ \A h \in HookNames :
                   (\E f \in GroupIndex(h), g \in GroupIndex(j[1]) : f < g)
                       => \E i \in JobsOf(h) : jobs[i] = "Succeeded"
  <2>1. j[1] \in CreatedJobs
    BY <1>1, CreatedIs
  <2>2. /\ Named(scan.groups, j[1])
        /\ \A f, g \in DOMAIN scan.groups :
              j[1] \in NamesAt(scan.groups, g) /\ f < g
                => NamesAt(scan.groups, f) \subseteq SucceededJobs
    BY <1>1, <2>1 DEF JobsEarned, HooksEarnTheirJobs, Ordered
  <2>3. \A h : GroupIndex(h) = {g \in DOMAIN scan.groups : h \in NamesAt(scan.groups, g)}
    BY DEF GroupIndex, NamesAt
  <2>4. GroupIndex(j[1]) # {}
    BY <2>2, <2>3 DEF Named
  <2>5. ASSUME NEW h \in HookNames, NEW f \in GroupIndex(h), NEW g \in GroupIndex(j[1]), f < g
        PROVE  \E i \in JobsOf(h) : jobs[i] = "Succeeded"
    <3>1. h \in SucceededJobs
      BY <2>2, <2>3, <2>5
    <3> QED
      BY <3>1 DEF SucceededJobs
  <2> QED
    BY <2>4, <2>5
<1> QED
  BY <1>1 DEF HookJobsInOrder

LEMMA InductiveJobs ==
    ASSUME JobsVisible, ~JobTTL
    PROVE  Spec => [](Typed /\ IInv /\ LInv /\ JobsOnce /\ JobsEarned)
<1>1. Init => LInv /\ JobsOnce /\ JobsEarned
  BY InitStays, JobsOnceInit, JobsEarnedInit
<1>2. Typed /\ IInv /\ LInv /\ JobsOnce /\ JobsEarned /\ [Next]_vars
        => (LInv /\ JobsOnce /\ JobsEarned)'
  BY NextStays, JobsOnceKept, JobsEarnedKept DEF Stays
<1> QED
  BY <1>1, <1>2, Inductive, PTL DEF Spec

(* With an up-to-date List of the Jobs, a hook has a Job only after the     *)
(* Jobs of all hooks of earlier groups have succeeded, through restarts of  *)
(* the operator and lost answers: executeHooks counts a hook as Completed   *)
(* only by its Job, and works on one group at a time.                       *)
THEOREM HookJobsWaitTheirTurn ==
    ASSUME JobsVisible, ~JobTTL
    PROVE  Spec => []HookJobsInOrder
<1>1. Typed /\ JobsEarned => HookJobsInOrder
  BY OrderedIsInOrder
<1> QED
  BY <1>1, InductiveJobs, PTL

-----------------------------------------------------------------------------
(***************************************************************************)
(* Who is still at work beside a Job.                                       *)
(***************************************************************************)
LEMMA SucceededJob ==
    ASSUME JobsOnce, scan.exists, NEW j \in Slots, j[1] \in SucceededJobs, jobs[j] # "None"
    PROVE  jobs[j] = "Succeeded"
<1>1. PICK i \in Slots : i[1] = j[1] /\ jobs[i] = "Succeeded"
  BY SucceededIs
<1>2. i = j
  BY <1>1 DEF JobsOnce, OneJobOfEachKind
<1> QED
  BY <1>1, <1>2

(* No parser works beside a hook.                                           *)
LEMMA ParserBeforeHooks ==
    ASSUME JobsOnce, JobsEarned, scan.exists,
           NEW j \in Slots, j[1] \in HookNames, jobs[j] # "None",
           NEW i \in Slots, i[1] = "parser"
    PROVE  jobs[i] \in {"None", "Succeeded"}
<1>1. j[1] \in CreatedJobs
  BY CreatedIs
<1>2. "parser" \in SucceededJobs
  BY <1>1 DEF JobsEarned, HooksEarnTheirJobs
<1> QED
  BY <1>2, SucceededJob

(* A ReadAndWrite hook has a group of its own.                              *)
LEMMA ReadAndWriteAlone ==
    ASSUME NEW groups \in Groupings, NEW g \in DOMAIN groups,
           NEW k \in DOMAIN groups[g], NEW n \in DOMAIN groups[g],
           groups[g][k].type = "ReadAndWrite"
    PROVE  k = n
<1>1. groups # <<>>
  OBVIOUS
<1>2. PICK list \in HookLists : groups = GroupsAt(list, DOMAIN list)
  BY <1>1 DEF Groupings, FromUnorderedList
<1> DEFINE S == DOMAIN list
           at(f, m) == PlaceOf(list, S, f, m)
<1>3. HooksAt(list, S) /\ \A i \in S : list[i] \in Hook
  BY ListsAreHooks
<1>4. /\ at(g, k) \in S /\ groups[g][k] = list[at(g, k)]
      /\ at(g, n) \in S /\ groups[g][n] = list[at(g, n)]
      /\ at(g, k) = at(g, n) => k = n
      /\ g < g <=> Earlier(list, at(g, k), at(g, n))
      /\ g < g <=> Earlier(list, at(g, n), at(g, k))
      /\ g \in Int
  BY <1>2, <1>3, GroupPlaces
<1> HIDE DEF at
<1>5. ~Earlier(list, at(g, k), at(g, n)) /\ ~Earlier(list, at(g, n), at(g, k))
  BY <1>4
<1>6. /\ list[at(g, k)].type = "ReadAndWrite" /\ list[at(g, n)].type \in HookTypes
      /\ list[at(g, k)].prio \in Int /\ list[at(g, n)].prio \in Int
      /\ at(g, k) \in Int /\ at(g, n) \in Int
  BY <1>3, <1>4 DEF Hook, HooksAt
<1>7. at(g, k) = at(g, n)
  BY <1>5, <1>6 DEF Earlier, HookTypes
<1> QED
  BY <1>4, <1>7

(* Of two ReadAndWrite hooks with a Job one is through.                     *)
LEMMA OneWriter ==
    ASSUME Typed, JobsOnce, JobsEarned, scan.exists,
           NEW i \in Slots, i[1] \in ReadAndWriteHooks, jobs[i] # "None",
           NEW j \in Slots, j[1] \in ReadAndWriteHooks, jobs[j] # "None", i # j
    PROVE  "Succeeded" \in {jobs[i], jobs[j]}
<1>1. scan.groups \in Groupings
  BY DEF Typed, Outer, Scan
<1>2. i[1] \in HookNames \cap CreatedJobs /\ j[1] \in HookNames \cap CreatedJobs
  BY CreatedIs DEF ReadAndWriteHooks
<1>3. Ordered(scan.groups, CreatedJobs, SucceededJobs)
  BY DEF JobsEarned, HooksEarnTheirJobs
<1>4. PICK f \in DOMAIN scan.groups : \E k \in DOMAIN scan.groups[f] :
              scan.groups[f][k].name = i[1] /\ scan.groups[f][k].type = "ReadAndWrite"
  BY DEF ReadAndWriteHooks
<1>5. PICK g \in DOMAIN scan.groups : \E k \in DOMAIN scan.groups[g] :
              scan.groups[g][k].name = j[1] /\ scan.groups[g][k].type = "ReadAndWrite"
  BY DEF ReadAndWriteHooks
<1>6. PICK k \in DOMAIN scan.groups[f] :
              scan.groups[f][k].name = i[1] /\ scan.groups[f][k].type = "ReadAndWrite"
  BY <1>4
<1>7. PICK n \in DOMAIN scan.groups[g] :
              scan.groups[g][n].name = j[1] /\ scan.groups[g][n].type = "ReadAndWrite"
  BY <1>5
<1>8. i[1] # j[1]
  BY DEF JobsOnce, OneJobOfEachKind
<1>9. f # g
  BY <1>1, <1>6, <1>7, <1>8, ReadAndWriteAlone
<1>10. f \in Int /\ g \in Int
  BY <1>1, GroupingsShape DEF IsGrouping
<1>11. i[1] \in NamesAt(scan.groups, f) /\ j[1] \in NamesAt(scan.groups, g)
  BY <1>6, <1>7 DEF NamesAt
<1>12. CASE f < g
  BY <1>2, <1>3, <1>11, <1>12, SucceededJob DEF Ordered
<1>13. CASE g < f
  BY <1>2, <1>3, <1>11, <1>13, SucceededJob DEF Ordered
<1> QED
  BY <1>9, <1>10, <1>12, <1>13

(***************************************************************************)
(* The files after each step.                                               *)
(***************************************************************************)
PhaseSet(j, phase) ==
    /\ jobs'[j] = phase
    /\ \A i \in Slots : i # j => jobs'[i] = jobs[i]

LEMMA BecomesPhase ==
    ASSUME Typed, NEW j \in Slots, NEW phase, Becomes(j, phase)
    PROVE  PhaseSet(j, phase)
BY DEF Becomes, PhaseSet, Typed, Outer

(* A step that leaves files and findings alone and lets a Job begin or end. *)
LEMMA FilesUnaffected ==
    ASSUME FilesThere, UNCHANGED s3, scan'.findings = scan.findings,
           NEW j \in Slots, NEW phase, PhaseSet(j, phase), phase \notin {"Uploaded", "Patched"},
           phase = "Succeeded" =>
                \/ j[1] \in {"scanner", "parser"} /\ jobs[j] = "Uploaded"
                \/ j[1] \in HookNames
    PROVE  FilesThere'
<1>0. HookNames \cap {"scanner", "parser"} = {}
  BY ClusterAssumption
<1>1. \A i \in JobsOf("scanner") : jobs'[i] \in {"Uploaded", "Succeeded"} => s3.raw
  BY <1>0 DEF FilesThere, PhaseSet, JobsOf
<1>2. \A i \in JobsOf("parser") : jobs'[i] \in {"Uploaded", "Succeeded"} => s3.findings # "none"
  BY <1>0 DEF FilesThere, PhaseSet, JobsOf
<1>3. \A i \in JobsOf("parser") : jobs'[i] \in {"Patched", "Uploaded"} => scan.findings = "parser"
  BY DEF FilesThere, PhaseSet, JobsOf
<1>4. \A i \in JobsOf("parser") : jobs'[i] = "Uploaded" => s3.findings = "parser"
  BY DEF FilesThere, PhaseSet, JobsOf
<1>5. \A i \in Slots : i[1] \in HookNames /\ jobs'[i] = "Uploaded" => s3.findings = i[1]
  BY DEF FilesThere, PhaseSet
<1> QED
  BY <1>1, <1>2, <1>3, <1>4, <1>5 DEF FilesThere, JobsOf

LEMMA FilesSame ==
    ASSUME FilesThere, UNCHANGED <<s3, jobs>>, scan'.findings = scan.findings
    PROVE  FilesThere'
BY DEF FilesThere, JobsOf

(* What a pod does to the files.                                            *)
LEMMA RawUploaded ==
    ASSUME Typed, FilesThere, UNCHANGED scan, s3' = [s3 EXCEPT !.raw = TRUE], NEW j \in Slots,
           \/ UNCHANGED jobs
           \/ j[1] = "scanner" /\ PhaseSet(j, "Uploaded")
    PROVE  FilesThere'
<1>1. s3'.raw = TRUE /\ s3'.findings = s3.findings
  BY DEF Typed, Outer
<1>2. "scanner" \notin HookNames
  BY ClusterAssumption
<1>3. \A i \in Slots : i[1] # "scanner" => jobs'[i] = jobs[i]
  BY DEF PhaseSet
<1> QED
  BY <1>1, <1>2, <1>3 DEF FilesThere, JobsOf

LEMMA ParserPatched ==
    ASSUME Typed, FilesThere, UNCHANGED s3, NEW j \in Slots, j[1] = "parser",
           PhaseSet(j, "Patched"), scan'.findings = "parser"
    PROVE  FilesThere'
<1>1. "parser" \notin HookNames
  BY ClusterAssumption
<1>2. \A i \in Slots : i[1] # "parser" => jobs'[i] = jobs[i]
  BY DEF PhaseSet
<1>3. \A i \in JobsOf("parser") : jobs'[i] \in {"Uploaded", "Succeeded"} => s3.findings # "none"
  BY DEF FilesThere, PhaseSet, JobsOf
<1>4. \A i \in JobsOf("parser") : jobs'[i] = "Uploaded" => s3.findings = "parser"
  BY DEF FilesThere, PhaseSet, JobsOf
<1> QED
  BY <1>1, <1>2, <1>3, <1>4 DEF FilesThere, JobsOf

LEMMA ParserUploaded ==
    ASSUME Typed, JobsOnce, JobsEarned, scan.exists, FilesThere, UNCHANGED scan,
           s3' = [s3 EXCEPT !.findings = "parser"],
           NEW j \in Slots, j[1] = "parser", jobs[j] = "Patched", PhaseSet(j, "Uploaded")
    PROVE  FilesThere'
<1>1. s3'.findings = "parser" /\ s3'.raw = s3.raw
  BY WriterTyped DEF Typed, Outer, JobKinds
<1>2. scan.findings = "parser"
  BY DEF FilesThere, JobsOf
<1>3. \A i \in JobsOf("scanner") : jobs'[i] = jobs[i]
  BY DEF PhaseSet, JobsOf
<1>4. ASSUME NEW i \in Slots, i[1] \in HookNames PROVE jobs'[i] # "Uploaded"
  <2>1. "parser" \notin HookNames /\ i # j
    BY <1>4, ClusterAssumption
  <2>2. jobs[i] = "None"
    BY <1>4, ParserBeforeHooks
  <2> QED
    BY <2>1, <2>2 DEF PhaseSet
<1> QED
  BY <1>1, <1>2, <1>3, <1>4 DEF FilesThere, JobsOf

LEMMA HookUploaded ==
    ASSUME Typed, JobsOnce, JobsEarned, WritersOnly, scan.exists, FilesThere, UNCHANGED scan,
           NEW j \in Slots, j[1] \in ReadAndWriteHooks, jobs[j] = "Active",
           PhaseSet(j, "Uploaded"), s3' = [s3 EXCEPT !.findings = j[1]]
    PROVE  FilesThere'
<1>1. s3'.findings = j[1] /\ s3'.raw = s3.raw
  BY DEF Typed, Outer
<1>2. j[1] \in HookNames /\ j[1] \notin {"none", "scanner", "parser"}
  BY ClusterAssumption DEF ReadAndWriteHooks
<1>3. \A i \in Slots : i[1] \in {"scanner", "parser"} => jobs'[i] = jobs[i]
  BY <1>2 DEF PhaseSet
<1>4. \A i \in Slots : i[1] = "parser" => jobs'[i] \in {"None", "Succeeded"}
  BY <1>2, <1>3, ParserBeforeHooks
<1>5. ASSUME NEW i \in Slots, i[1] \in HookNames, jobs'[i] = "Uploaded" PROVE i = j
  <2> SUFFICES ASSUME i # j PROVE FALSE
    OBVIOUS
  <2>1. jobs[i] = "Uploaded" /\ i[1] \in ReadAndWriteHooks
    BY <1>5 DEF PhaseSet, WritersOnly
  <2> QED
    BY <2>1, OneWriter
<1> QED
  BY <1>1, <1>2, <1>3, <1>4, <1>5 DEF FilesThere, JobsOf

LEMMA HookPatched ==
    ASSUME Typed, JobsOnce, JobsEarned, scan.exists, FilesThere, UNCHANGED s3,
           NEW j \in Slots, j[1] \in HookNames, jobs[j] = "Uploaded", PhaseSet(j, "Patched"),
           scan'.findings = j[1]
    PROVE  FilesThere'
<1>1. s3.findings = j[1]
  BY DEF FilesThere
<1>2. j[1] \notin {"none", "scanner", "parser"}
  BY ClusterAssumption
<1>3. \A i \in Slots : i[1] \in {"scanner", "parser"} => jobs'[i] = jobs[i]
  BY <1>2 DEF PhaseSet
<1>4. \A i \in Slots : i[1] = "parser" => jobs'[i] \in {"None", "Succeeded"}
  BY <1>3, ParserBeforeHooks
<1>5. \A i \in Slots : i[1] \in HookNames /\ jobs'[i] = "Uploaded" => jobs[i] = "Uploaded"
  BY DEF PhaseSet
<1> QED
  BY <1>1, <1>3, <1>4, <1>5 DEF FilesThere, JobsOf

LEMMA FindingsPatched ==
    ASSUME Outer, NEW kind \in JobKinds, PatchFindings(kind)
    PROVE  scan'.findings = kind
BY DEF PatchFindings, Outer, Scan

LEMMA PodFiles ==
    ASSUME Typed, JobsOnce, JobsEarned, WritersOnly, scan.exists, FilesThere,
           NEW j \in Slots, Pod(j)
    PROVE  FilesThere'
<1>1. CASE LurkerUploads(j)
  BY <1>1, BecomesPhase, RawUploaded DEF LurkerUploads
<1>2. CASE HookUploadsRaw(j)
  BY <1>2, RawUploaded DEF HookUploadsRaw
<1>3. CASE ParserPatchesStatus(j)
  <2>1. /\ j[1] = "parser" /\ "parser" \in JobKinds /\ PatchFindings("parser") /\ UNCHANGED s3
        /\ PhaseSet(j, "Patched")
    BY <1>3, BecomesPhase DEF ParserPatchesStatus, JobKinds
  <2> QED
    BY <2>1, FindingsPatched, ParserPatched DEF Typed
<1>4. CASE ParserUploads(j)
  BY <1>4, BecomesPhase, ParserUploaded DEF ParserUploads
<1>5. CASE HookUploads(j)
  BY <1>5, BecomesPhase, HookUploaded DEF HookUploads
<1>6. CASE HookPatchesStatus(j)
  <2>1. /\ j[1] \in HookNames /\ j[1] \in JobKinds /\ jobs[j] = "Uploaded"
        /\ PatchFindings(j[1]) /\ UNCHANGED s3 /\ PhaseSet(j, "Patched")
    BY <1>6, BecomesPhase DEF HookPatchesStatus, JobKinds
  <2> QED
    BY <2>1, FindingsPatched, HookPatched DEF Typed
<1>7. CASE JobSucceeds(j)
  <2>1. /\ UNCHANGED <<scan, s3>> /\ PhaseSet(j, "Succeeded")
        /\ \/ j[1] \in {"scanner", "parser"} /\ jobs[j] = "Uploaded"
           \/ j[1] \in HookNames /\ jobs[j] \in {"Active", "Patched"}
    BY <1>7, BecomesPhase DEF JobSucceeds
  <2> QED
    BY <2>1, FilesUnaffected
<1>8. CASE JobFails(j)
  <2>1. UNCHANGED <<scan, s3>> /\ PhaseSet(j, "Failed")
    BY <1>8, BecomesPhase DEF JobFails
  <2> QED
    BY <2>1, FilesUnaffected
<1> QED
  BY <1>1, <1>2, <1>3, <1>4, <1>5, <1>6, <1>7, <1>8 DEF Pod, PodStep

LEMMA JobControllerFiles ==
    ASSUME Typed, ~JobTTL, scan.exists, FilesThere, NEW j \in Slots, JobController(j)
    PROVE  FilesThere'
<1>1. JobExpires(j)
  BY DEF JobController, JobControllerStep, JobDeleted
<1>2. UNCHANGED <<scan, s3>> /\ PhaseSet(j, "Expired")
  BY <1>1, BecomesPhase DEF JobExpires
<1> QED
  BY <1>2, FilesUnaffected

LEMMA RetryFiles == ASSUME Typed, FilesThere, NEW j \in Slots, Retry(j) PROVE FilesThere'
<1>1. UNCHANGED <<scan, s3>> /\ PhaseSet(j, "Active")
  BY BecomesPhase DEF Retry, PodRestarts
<1> QED
  BY <1>1, FilesUnaffected

LEMMA OperatorFiles ==
    ASSUME Typed, IInv, JobsVisible, JobsOnce, scan.exists, FilesThere, Operator, UNCHANGED s3
    PROVE  FilesThere'
<1>1. scan'.findings = scan.findings
  BY OperatorKeeps DEF Findings
<1>2. CASE UNCHANGED jobs
  BY <1>1, <1>2, FilesSame
<1>3. ASSUME NEW kind, NEW j \in Slots, Creates(kind, j) PROVE FilesThere'
  <2>1. PhaseSet(j, "Active") /\ jobs[j] = "None"
    BY <1>3 DEF Creates, PhaseSet, Typed, Outer
  <2> QED
    BY <1>1, <2>1, FilesUnaffected
<1> QED
  BY <1>2, <1>3, OperatorJobs DEF Creation

-----------------------------------------------------------------------------
(***************************************************************************)
(* The invariant about the files.                                           *)
(***************************************************************************)
LEMMA DeletingForGood ==
    ASSUME Typed, [Next]_vars, scan.deleting
    PROVE  scan'.deleting
<1>0. scan \in Scan
  BY DEF Typed, Outer
<1>1. ASSUME NEW f, scan' = WithFinalizers(f) PROVE scan'.deleting
  BY <1>0, <1>1 DEF WithFinalizers, Removed, Scan
<1>2. ASSUME NEW o, scan' = WithStatusOf(o) PROVE scan'.deleting
  <2> DEFINE new == [scan EXCEPT !.state = o.state, !.finished = o.finished, !.raw = o.raw,
                                 !.findings = o.findings, !.groups = o.groups, !.hook = o.hook]
  <2>1. new.deleting = scan.deleting /\ "rv" \in DOMAIN new /\ [new EXCEPT !.rv = @ + 1].deleting = new.deleting
    BY <1>0 DEF Scan
  <2>2. scan' = IF new = scan THEN scan ELSE [new EXCEPT !.rv = @ + 1]
    BY <1>2 DEF WithStatusOf
  <2> HIDE DEF new
  <2> QED
    BY <2>1, <2>2
<1>3. CASE scan' = Deleted(scan)
  BY <1>0, <1>3 DEF Deleted, Removed, Scan
<1>4. ASSUME NEW kind, PatchFindings(kind) PROVE scan'.deleting
  BY <1>0, <1>4 DEF PatchFindings, Scan
<1>5. CASE User
  <2>1. \/ scan' = [scan EXCEPT !.rv = @ + 1]
        \/ scan' = [scan EXCEPT !.suspend = ~@, !.rv = @ + 1]
        \/ scan' = Deleted(scan)
    BY <1>5 DEF User, UserLabels, UserSuspends, UserDeletes, Edit
  <2> QED
    BY <1>0, <1>3, <2>1 DEF Scan
<1>6. CASE Crash \/ Delivery \/ UNCHANGED vars
  BY <1>6 DEF Crash, Delivery, DeliverScan, DeliverJobs, TimerExpires, Enqueue, Clock,
     SyncScan, SyncJobs, TimerFires, Resync, TTLElapses, vars, clusterVars
<1>7. ASSUME NEW j \in Slots, Pod(j) \/ JobController(j) \/ Retry(j) PROVE scan'.deleting
  <2>1. UNCHANGED scan \/ PatchFindings(j[1])
    BY <1>7 DEF Pod, PodStep, LurkerUploads, ParserPatchesStatus, ParserUploads, HookUploadsRaw,
       HookUploads, HookPatchesStatus, JobSucceeds, JobFails, JobController,
       JobControllerStep, JobExpires, JobDeleted, Retry, PodRestarts
  <2>2. j[1] = j[1]
    OBVIOUS
  <2> QED
    BY <1>4, <2>1
<1>8. CASE Operator
  <2>1. \/ UNCHANGED scan \/ scan' = Deleted(scan) \/ scan' = WithStatusOf(Stamped(obj))
        \/ scan' = WithFinalizers(Remaining) \/ scan' = WithFinalizers(WantedFinalizers)
    BY <1>8 DEF Operator, Reconcile, cleanupS3Files, ReleaseFinalizer, updateScanStatus,
       startScan, AddFinalizer, CreateScanner, CreateParser, PresignFails,
       checkIfScanIsCompleted, startParser, checkIfParsingIsCompleted, CheckJob, setHookStatus,
       executeHooks, processPendingHook, createJobForHook,
       processInProgressHook, processSettledHook, deleteScan
  <2> QED
    BY <1>1, <1>2, <1>3, <2>1
<1> QED
  BY <1>5, <1>6, <1>7, <1>8 DEF Next, Delivery

LEMMA FilesThereKept ==
    ASSUME Typed, IInv, JobsVisible, ~JobTTL, JobsOnce, JobsEarned, WritersOnly, scan.exists,
           ~scan.deleting, FilesThere, [Next]_vars
    PROVE  FilesThere'
<1>1. CASE Operator
  <2>1. ~cleanupS3Files
    BY DEF cleanupS3Files, IInv, StepMatchesCopy, Follows
  <2>2. UNCHANGED s3
    BY <1>1, <2>1 DEF Operator, Reconcile, ReleaseFinalizer, updateScanStatus,
       startScan, AddFinalizer, CreateScanner, CreateParser, PresignFails,
       checkIfScanIsCompleted, startParser, checkIfParsingIsCompleted, CheckJob, setHookStatus,
       executeHooks, processPendingHook, createJobForHook,
       processInProgressHook, processSettledHook, deleteScan
  <2> QED
    BY <1>1, <2>2, OperatorFiles
<1>2. CASE Crash \/ Delivery \/ User \/ UNCHANGED vars
  <2>1. scan'.findings = scan.findings
    BY <1>2, CrashKeeps, DeliveryKeeps, UserKeeps DEF Findings, vars, clusterVars
  <2>2. UNCHANGED <<s3, jobs>>
    BY <1>2 DEF Crash, Delivery, DeliverScan, DeliverJobs, TimerExpires, Enqueue, Clock,
       SyncScan, SyncJobs, TimerFires, Resync, TTLElapses, User, UserLabels, UserSuspends,
       UserDeletes, Edit, vars, clusterVars
  <2> QED
    BY <2>1, <2>2, FilesSame
<1>3. ASSUME NEW j \in Slots, Pod(j) \/ JobController(j) \/ Retry(j) PROVE FilesThere'
  BY <1>3, PodFiles, JobControllerFiles, RetryFiles
<1> QED
  BY <1>1, <1>2, <1>3 DEF Next, Delivery

LEMMA WriterComesFrom ==
    ASSUME Typed, JobsVisible, ~JobTTL, JobsOnce, [Next]_vars,
           NEW j \in Slots, j[1] \in HookNames, jobs'[j] \in {"Uploaded", "Patched"}
    PROVE  jobs[j] \in {"Uploaded", "Patched"} \/ (j[1] \in ReadAndWriteHooks /\ jobs[j] # "None")
<1>0. j[1] \notin {"scanner", "parser"}
  BY ClusterAssumption
<1>1. CASE Operator
  BY <1>1, OperatorJobs DEF Creation, Creates, Typed, Outer
<1>2. CASE Crash \/ Delivery \/ User \/ UNCHANGED vars
  <2>1. UNCHANGED jobs
    BY <1>2 DEF Crash, Delivery, DeliverScan, DeliverJobs, TimerExpires, Enqueue, Clock,
       SyncScan, SyncJobs, TimerFires, Resync, TTLElapses, User, UserLabels, UserSuspends,
       UserDeletes, Edit, vars, clusterVars
  <2> QED
    BY <2>1
<1>3. ASSUME NEW i \in Slots, Pod(i) \/ JobController(i) \/ Retry(i)
      PROVE  jobs[j] \in {"Uploaded", "Patched"} \/ (j[1] \in ReadAndWriteHooks /\ jobs[j] # "None")
  <2>1. CASE i # j
    <3>1. UNCHANGED jobs \/ \E phase : Becomes(i, phase)
      BY <1>3 DEF Pod, PodStep, LurkerUploads, ParserPatchesStatus, ParserUploads,
         HookUploadsRaw, HookUploads, HookPatchesStatus, JobSucceeds, JobFails, JobController,
         JobControllerStep, JobExpires, JobDeleted, Retry, PodRestarts
    <3> QED
      BY <2>1, <3>1, BecomesPhase DEF PhaseSet
  <2>2. CASE i = j
    <3>1. CASE HookUploads(j) \/ HookPatchesStatus(j)
      BY <3>1 DEF HookUploads, HookPatchesStatus
    <3>2. CASE LurkerUploads(j) \/ ParserPatchesStatus(j) \/ ParserUploads(j)
      BY <1>0, <3>2 DEF LurkerUploads, ParserPatchesStatus, ParserUploads
    <3>3. CASE HookUploadsRaw(j)
      BY <3>3 DEF HookUploadsRaw
    <3>4. CASE JobSucceeds(j) \/ JobFails(j) \/ JobController(j) \/ Retry(j)
      <4>1. \E phase \in {"Active", "Succeeded", "Failed", "Expired", "Gone"} : Becomes(j, phase)
        BY <3>4 DEF JobSucceeds, JobFails, JobController, JobControllerStep, JobExpires, JobDeleted,
           Retry, PodRestarts
      <4> QED
        BY <4>1, BecomesPhase DEF PhaseSet
    <3> QED
      BY <1>3, <2>2, <3>1, <3>2, <3>3, <3>4 DEF Pod, PodStep
  <2> QED
    BY <2>1, <2>2
<1> QED
  BY <1>1, <1>2, <1>3 DEF Next, Delivery

LEMMA WritersKept ==
    ASSUME Typed, JobsVisible, ~JobTTL, JobsOnce, JobsEarned, Grows, WritersOnly, [Next]_vars
    PROVE  WritersOnly'
<1> SUFFICES ASSUME NEW j \in Slots, j[1] \in HookNames, jobs'[j] \in {"Uploaded", "Patched"}
             PROVE  j[1] \in ReadAndWriteHooks'
  BY DEF WritersOnly
<1>1. j[1] \in ReadAndWriteHooks /\ jobs[j] # "None"
  BY WriterComesFrom DEF WritersOnly
<1>2. Selected
  BY <1>1, CreatedIs DEF JobsEarned, HooksEarnTheirJobs, Grows
<1> QED
  BY <1>1, <1>2 DEF Grows, ReadAndWriteHooks

(* All Jobs of a Scan whose copy is Done are through.                       *)
LEMMA AllThrough ==
    ASSUME Typed, JobsOnce, JobsEarned, scan.exists, NEW o,
           Earned(o, CreatedJobs, SucceededJobs), o.state = "Done", o.groups = scan.groups,
           NEW j \in Slots, jobs[j] # "None"
    PROVE  jobs[j] = "Succeeded"
<1>1. j[1] \in {"scanner", "parser"} \cup HookNames /\ j[1] \in CreatedJobs
  BY CreatedIs, SlotKind DEF JobKinds
<1>2. CASE j[1] \in {"scanner", "parser"}
  BY <1>2, SucceededJob DEF Earned, StateEarned
<1>3. CASE j[1] \in HookNames
  <2>1. Named(o.groups, j[1])
    BY <1>1, <1>3 DEF JobsEarned, HooksEarnTheirJobs, Ordered
  <2>2. j[1] \in SucceededJobs
    BY <1>3, <2>1 DEF Earned, DoneEarned, HooksEarned
  <2> QED
    BY <2>2, SucceededJob
<1> QED
  BY <1>1, <1>2, <1>3

LEMMA CleanKept ==
    ASSUME Typed, JobsOnce, JobsEarned, CleanBeforeRelease, scan.exists, [Next]_vars
    PROVE  CleanBeforeRelease'
<1> SUFFICES ASSUME pc' = "release", obj'.state = "Done" PROVE s3' = Empty
  BY DEF CleanBeforeRelease
<1>1. CASE cleanupS3Files
  <2>1. obj' = obj /\ s3' = Cleaned /\ pc = "cleanup"
    BY <1>1, ReturnsIdle DEF cleanupS3Files
  <2>2. obj.raw
    BY <2>1 DEF JobsEarned, CopyEarned, Earned, StateEarned
  <2> QED
    BY <2>1, <2>2 DEF Cleaned, Empty
<1>2. CASE Operator /\ ~cleanupS3Files
  <2>1. CASE Reconcile
    BY <2>1 DEF Reconcile, workVars, Goto, AfterGet
  <2>2. CASE ReleaseFinalizer \/ PresignFails \/ deleteScan \/ startScan \/ startParser \/ AddFinalizer
    BY <2>2, ReturnsIdle
    DEF ReleaseFinalizer, PresignFails, deleteScan, startScan, startParser, AddFinalizer, Goto
  <2>3. CASE updateScanStatus
    BY <2>3, ReturnedIdle DEF updateScanStatus
  <2>4. CASE CreateScanner \/ CreateParser
    BY <2>4, ReturnsIdle DEF CreateScanner, CreateParser, CreateAndRecord, Write, Goto
  <2>5. CASE checkIfScanIsCompleted \/ checkIfParsingIsCompleted
    BY <2>5, ReturnsIdle, StatusTyped
    DEF checkIfScanIsCompleted, checkIfParsingIsCompleted, CheckJob, Write
  <2>6. CASE setHookStatus
    BY <2>6, ReturnsIdle DEF setHookStatus, Write
  <2>7. CASE executeHooks
    <3>1. CurrentHookGroup(obj.groups, obj.hook).result \in {"error", "none", "group"}
      BY DEF CurrentHookGroup
    <3> QED
      BY <2>7, <3>1 DEF executeHooks, Write
  <2>8. CASE processPendingHook \/ processInProgressHook \/ processSettledHook
    BY <2>8 DEF processPendingHook, createJobForHook,
         processInProgressHook, processSettledHook, HookError,
       HookBecomes, HookDone
  <2> QED
    BY <1>2, <2>1, <2>2, <2>3, <2>4, <2>5, <2>6, <2>7, <2>8 DEF Operator
<1>3. CASE Crash
  BY <1>3 DEF Crash
<1>4. CASE Delivery \/ User \/ UNCHANGED vars
  <2>1. UNCHANGED <<s3, pc, obj>>
    BY <1>4 DEF Delivery, DeliverScan, DeliverJobs, TimerExpires, Enqueue, Clock,
       SyncScan, SyncJobs, TimerFires, Resync, TTLElapses, User, UserLabels, UserSuspends,
       UserDeletes, Edit, Outside, workVars, vars, clusterVars
  <2> QED
    BY <2>1 DEF CleanBeforeRelease
<1>5. ASSUME NEW j \in Slots, Pod(j) \/ JobController(j) \/ Retry(j) PROVE s3' = Empty
  <2>1. UNCHANGED <<pc, obj>>
    BY <1>5 DEF Pod, JobController, Retry, Outside, workVars
  <2>2. s3 = Empty
    BY <2>1 DEF CleanBeforeRelease
  <2>3. Earned(obj, CreatedJobs, SucceededJobs) /\ obj.groups = scan.groups
    BY <2>1 DEF JobsEarned, CopyEarned, SameHooks
  <2>4. jobs[j] \in {"None", "Succeeded"}
    BY <2>1, <2>3, AllThrough
  <2>5. UNCHANGED s3
    BY <1>5, <2>4 DEF Pod, PodStep, LurkerUploads, ParserPatchesStatus, ParserUploads,
       HookUploadsRaw, HookUploads, HookPatchesStatus, JobSucceeds, JobFails, JobController,
       JobControllerStep, JobExpires, JobDeleted, Retry, PodRestarts
  <2> QED
    BY <2>2, <2>5
<1> QED
  BY <1>1, <1>2, <1>3, <1>4, <1>5 DEF Next, Delivery

(***************************************************************************)
(* The summary and the file after each step.                                *)
(***************************************************************************)
(* The parser succeeds with both written.                                   *)
LEMMA ParserSucceeds ==
    ASSUME Typed, JobsVisible, JobsOnce, scan.exists, FilesThere, [Next]_vars,
           "parser" \in SucceededJobs', "parser" \notin SucceededJobs
    PROVE  scan.findings = "parser" /\ s3.findings = "parser"
<1>1. PICK i \in Slots : i[1] = "parser" /\ jobs'[i] = "Succeeded"
  BY SlotKind DEF SucceededJobs, JobsOf
<1>2. jobs[i] # "Succeeded"
  BY <1>1, SucceededIs
<1>3. ~Operator
  BY <1>1, <1>2, OperatorJobs DEF Creation, Creates, Typed, Outer
<1>4. CASE Crash \/ Delivery \/ User \/ UNCHANGED vars
  <2>1. UNCHANGED jobs
    BY <1>4 DEF Crash, Delivery, DeliverScan, DeliverJobs, TimerExpires, Enqueue, Clock,
       SyncScan, SyncJobs, TimerFires, Resync, TTLElapses, User, UserLabels, UserSuspends,
       UserDeletes, Edit, vars, clusterVars
  <2> QED
    BY <1>1, <1>2, <2>1
<1>5. ASSUME NEW j \in Slots, Pod(j) \/ JobController(j) \/ Retry(j)
      PROVE  scan.findings = "parser" /\ s3.findings = "parser"
  <2>1. CASE JobSucceeds(j)
    <3>1. PhaseSet(j, "Succeeded")
      BY <2>1, BecomesPhase DEF JobSucceeds
    <3>2. i = j
      BY <1>1, <1>2, <3>1 DEF PhaseSet
    <3>3. jobs[i] = "Uploaded"
      BY <1>1, <2>1, <3>2, ClusterAssumption DEF JobSucceeds
    <3> QED
      BY <1>1, <3>3 DEF FilesThere, JobsOf
  <2>2. CASE ~JobSucceeds(j)
    <3>1. UNCHANGED jobs \/ \E phase \in JobPhases \ {"Succeeded"} : Becomes(j, phase)
      BY <1>5, <2>2 DEF Pod, PodStep, LurkerUploads, ParserPatchesStatus, ParserUploads,
         HookUploadsRaw, HookUploads, HookPatchesStatus, JobFails, JobController,
         JobControllerStep, JobExpires, JobDeleted, Retry, PodRestarts, JobPhases
    <3> QED
      BY <1>1, <1>2, <3>1, BecomesPhase DEF PhaseSet
  <2> QED
    BY <2>1, <2>2
<1> QED
  BY <1>3, <1>4, <1>5 DEF Next, Delivery

(* Neither the file nor the summary is written.                             *)
LEMMA SummaryUnaffected ==
    ASSUME Typed, JobsVisible, JobsOnce, JobsEarned, FilesThere, SummaryFollows, Grows, [Next]_vars,
           scan'.findings = scan.findings, s3'.findings = s3.findings
    PROVE  SummaryFollows'
<1> SUFFICES ASSUME "parser" \in SucceededJobs'
             PROVE  /\ Writer(scan.findings)' /\ Writer(s3.findings)'
                    /\ scan'.findings # s3'.findings => LaterHook(scan.findings, s3.findings)'
  BY DEF SummaryFollows
<1>1. CASE "parser" \notin SucceededJobs
  BY <1>1, ParserSucceeds DEF Writer, Grows
<1>2. CASE "parser" \in SucceededJobs /\ Selected
  <2>1. ReadAndWriteHooks' = ReadAndWriteHooks
    BY <1>2 DEF ReadAndWriteHooks, Grows
  <2>2. \A h : GroupIndex(h)' = GroupIndex(h)
    BY <1>2 DEF GroupIndex, Grows
  <2>3. /\ Writer(scan.findings) /\ Writer(s3.findings)
        /\ scan.findings # s3.findings => LaterHook(scan.findings, s3.findings)
    BY <1>2 DEF SummaryFollows
  <2>4. Writer(scan.findings)' /\ Writer(s3.findings)'
    BY <2>1, <2>3 DEF Writer, Grows
  <2>5. LaterHook(scan.findings, s3.findings) => LaterHook(scan.findings, s3.findings)'
    BY <2>1, <2>2 DEF LaterHook
  <2> QED
    BY <2>3, <2>4, <2>5
<1>3. CASE "parser" \in SucceededJobs /\ ~Selected
  <2>1. HookNames \cap CreatedJobs = {}
    BY <1>3 DEF JobsEarned, HooksEarnTheirJobs, Grows
  <2>2. scan.findings = "parser" /\ s3.findings = "parser"
    BY <1>3, <2>1 DEF SummaryFollows, Writer, ReadAndWriteHooks
  <2> QED
    BY <2>2 DEF Writer
<1> QED
  BY <1>1, <1>2, <1>3

(* While the parser works it has not succeeded yet.                         *)
LEMMA ParserAtWork ==
    ASSUME Typed, JobsOnce, scan.exists, NEW j \in Slots, j[1] = "parser", jobs[j] \in Running,
           NEW phase, PhaseSet(j, phase), phase # "Succeeded"
    PROVE  "parser" \notin SucceededJobs'
<1>1. "parser" \notin SucceededJobs
  BY SucceededJob DEF Running
<1>2. \A i \in Slots : i[1] = "parser" => jobs'[i] # "Succeeded"
  BY <1>1, SucceededIs DEF PhaseSet
<1> QED
  BY <1>2 DEF SucceededJobs, JobsOf

(* The hook at work comes after every other that has a Job.                 *)
LEMMA AtWorkIsLater ==
    ASSUME Typed, JobsOnce, JobsEarned, scan.exists,
           NEW j \in Slots, j[1] \in ReadAndWriteHooks, jobs[j] \notin {"None", "Succeeded"},
           NEW w, Writer(w), w # j[1]
    PROVE  LaterHook(w, j[1])
<1>1. scan.groups \in Groupings
  BY DEF Typed, Outer, Scan
<1>2. IsGrouping(scan.groups) /\ NamesApart(scan.groups)
  BY <1>1, GroupingsShape
<1>3. j[1] \in CreatedJobs /\ j[1] \notin SucceededJobs
  BY CreatedIs, SucceededJob
<1> SUFFICES ASSUME NEW i \in GroupIndex(w), NEW k \in GroupIndex(j[1]) PROVE i < k
  BY DEF LaterHook
<1>4. i \in DOMAIN scan.groups /\ k \in DOMAIN scan.groups /\ i \in Int /\ k \in Int
  BY <1>2 DEF GroupIndex, IsGrouping
<1>5. PICK m \in DOMAIN scan.groups[i] : scan.groups[i][m].name = w
  BY DEF GroupIndex
<1>6. PICK n \in DOMAIN scan.groups[k] : scan.groups[k][n].name = j[1]
  BY DEF GroupIndex
<1>7. w \in NamesAt(scan.groups, i) /\ j[1] \in NamesAt(scan.groups, k)
  BY <1>5, <1>6 DEF NamesAt
<1>8. w \in HookNames
  <2>1. FullGroup(scan.groups[i])
    BY <1>1, <1>4, GroupingsShape
  <2> QED
    BY <1>5, <2>1 DEF FullGroup, Hook
<1>9. w \in ReadAndWriteHooks \cap CreatedJobs
  BY <1>8, ClusterAssumption DEF Writer
<1>10. ~(k < i)
  <2>1. Ordered(scan.groups, CreatedJobs, SucceededJobs)
    BY DEF JobsEarned, HooksEarnTheirJobs
  <2> QED
    BY <1>3, <1>4, <1>7, <1>8, <1>9, <2>1 DEF Ordered
<1>11. i # k
  <2> SUFFICES ASSUME i = k PROVE FALSE
    OBVIOUS
  <2>1. PICK f \in DOMAIN scan.groups : \E l \in DOMAIN scan.groups[f] :
               scan.groups[f][l].name = w /\ scan.groups[f][l].type = "ReadAndWrite"
    BY <1>9 DEF ReadAndWriteHooks
  <2>2. PICK l \in DOMAIN scan.groups[f] :
               scan.groups[f][l].name = w /\ scan.groups[f][l].type = "ReadAndWrite"
    BY <2>1
  <2>3. f = i /\ l = m
    BY <1>2, <1>4, <1>5, <2>2 DEF NamesApart
  <2>4. m = n
    BY <1>1, <1>4, <1>6, <2>2, <2>3, ReadAndWriteAlone
  <2> QED
    BY <1>5, <1>6, <2>4
<1> QED
  BY <1>4, <1>10, <1>11

LEMMA SummaryFollowsKept ==
    ASSUME Typed, IInv, JobsVisible, ~JobTTL, JobsOnce, JobsEarned, WritersOnly, scan.exists,
           ~scan.deleting, FilesThere, SummaryFollows, Grows, [Next]_vars
    PROVE  SummaryFollows'
<1>1. CASE Operator
  <2>1. ~cleanupS3Files
    BY DEF cleanupS3Files, IInv, StepMatchesCopy, Follows
  <2>2. UNCHANGED s3
    BY <1>1, <2>1 DEF Operator, Reconcile, ReleaseFinalizer, updateScanStatus,
       startScan, AddFinalizer, CreateScanner, CreateParser, PresignFails,
       checkIfScanIsCompleted, startParser, checkIfParsingIsCompleted, CheckJob, setHookStatus,
       executeHooks, processPendingHook, createJobForHook,
       processInProgressHook, processSettledHook, deleteScan
  <2>3. scan'.findings = scan.findings
    BY <1>1, OperatorKeeps DEF Findings
  <2> QED
    BY <2>2, <2>3, SummaryUnaffected
<1>2. CASE Crash \/ Delivery \/ User \/ UNCHANGED vars
  <2>1. scan'.findings = scan.findings
    BY <1>2, CrashKeeps, DeliveryKeeps, UserKeeps DEF Findings, vars, clusterVars
  <2>2. UNCHANGED s3
    BY <1>2 DEF Crash, Delivery, DeliverScan, DeliverJobs, TimerExpires, Enqueue, Clock,
       SyncScan, SyncJobs, TimerFires, Resync, TTLElapses, User, UserLabels, UserSuspends,
       UserDeletes, Edit, vars, clusterVars
  <2> QED
    BY <2>1, <2>2, SummaryUnaffected
<1>3. ASSUME NEW j \in Slots, JobController(j) \/ Retry(j) PROVE SummaryFollows'
  <2>1. UNCHANGED <<scan, s3>>
    BY <1>3 DEF JobController, JobControllerStep, JobExpires, JobDeleted, Retry, PodRestarts
  <2> QED
    BY <2>1, SummaryUnaffected
<1>4. ASSUME NEW j \in Slots, Pod(j) PROVE SummaryFollows'
  <2>1. CASE LurkerUploads(j) \/ HookUploadsRaw(j) \/ JobSucceeds(j) \/ JobFails(j)
    <3>1. UNCHANGED scan /\ s3'.findings = s3.findings
      BY <2>1 DEF LurkerUploads, HookUploadsRaw, JobSucceeds, JobFails, Typed, Outer
    <3> QED
      BY <3>1, SummaryUnaffected
  <2>2. CASE ParserPatchesStatus(j) \/ ParserUploads(j)
    <3>1. j[1] = "parser" /\ jobs[j] \in Running /\ \E phase \in {"Patched", "Uploaded"} : PhaseSet(j, phase)
      BY <2>2, BecomesPhase DEF ParserPatchesStatus, ParserUploads, Running
    <3>2. "parser" \notin SucceededJobs'
      BY <3>1, ParserAtWork
    <3> QED
      BY <3>2 DEF SummaryFollows
  <2>3. CASE HookUploads(j)
    <3>1. /\ j[1] \in ReadAndWriteHooks /\ jobs[j] = "Active" /\ UNCHANGED scan
          /\ s3'.findings = j[1]
      BY <2>3 DEF HookUploads, Typed, Outer
    <3>2. j[1] \in HookNames /\ j[1] \in CreatedJobs
      BY <3>1, CreatedIs DEF ReadAndWriteHooks
    <3>3. "parser" \in SucceededJobs
      BY <3>2 DEF JobsEarned, HooksEarnTheirJobs
    <3>4. Writer(scan.findings) /\ Writer(j[1])
      BY <3>1, <3>2, <3>3 DEF SummaryFollows, Writer
    <3>5. scan.findings # j[1] => LaterHook(scan.findings, j[1])
      BY <3>1, <3>4, AtWorkIsLater
    <3>6. ReadAndWriteHooks' = ReadAndWriteHooks /\ \A h : GroupIndex(h)' = GroupIndex(h)
      BY <3>1 DEF ReadAndWriteHooks, GroupIndex
    <3>7. Writer(scan.findings)' /\ Writer(s3.findings)'
      BY <3>1, <3>4, <3>6 DEF Writer, Grows
    <3>8. scan'.findings # s3'.findings => LaterHook(scan.findings, s3.findings)'
      BY <3>1, <3>5, <3>6 DEF LaterHook
    <3> QED
      BY <3>7, <3>8 DEF SummaryFollows
  <2>4. CASE HookPatchesStatus(j)
    <3>1. /\ j[1] \in HookNames /\ j[1] \in JobKinds /\ jobs[j] = "Uploaded"
          /\ PatchFindings(j[1]) /\ UNCHANGED s3
      BY <2>4 DEF HookPatchesStatus, JobKinds
    <3>2. scan'.findings = j[1] /\ s3'.findings = j[1]
      BY <3>1, FindingsPatched DEF FilesThere, Typed
    <3>3. j[1] \in ReadAndWriteHooks /\ j[1] \in CreatedJobs
      BY <3>1, CreatedIs DEF WritersOnly
    <3>4. j[1] \in ReadAndWriteHooks'
      <4>1. Selected
        BY <3>1, <3>3 DEF JobsEarned, HooksEarnTheirJobs
      <4> QED
        BY <3>3, <4>1 DEF ReadAndWriteHooks, Grows
    <3> QED
      BY <3>2, <3>3, <3>4 DEF SummaryFollows, Writer, Grows
  <2> QED
    BY <1>4, <2>1, <2>2, <2>3, <2>4 DEF Pod, PodStep
<1> QED
  BY <1>1, <1>2, <1>3, <1>4 DEF Next, Delivery

LEMMA FilesKeptStep ==
    ASSUME Typed, IInv, LInv, JobsVisible, ~JobTTL, JobsOnce, JobsEarned, FilesKept, [Next]_vars
    PROVE  FilesKept'
<1> SUFFICES ASSUME scan'.exists PROVE FilesKept'
  BY DEF FilesKept
<1>1. Grows /\ scan.exists
  BY StepGrows DEF Grows
<1>2. WritersOnly' /\ CleanBeforeRelease'
  BY <1>1, WritersKept, CleanKept DEF FilesKept
<1>3. ~scan'.deleting => FilesThere' /\ SummaryFollows'
  BY <1>1, DeletingForGood, FilesThereKept, SummaryFollowsKept DEF FilesKept
<1> QED
  BY <1>2, <1>3 DEF FilesKept

LEMMA FilesKeptInit == ASSUME Init PROVE FilesKept
BY DEF Init, ClusterInit, FilesKept, FilesThere, WritersOnly, CleanBeforeRelease,
   SummaryFollows, SucceededJobs, JobsOf

LEMMA InductiveFiles ==
    ASSUME JobsVisible, ~JobTTL
    PROVE  Spec => [](Typed /\ IInv /\ LInv /\ JobsOnce /\ JobsEarned /\ FilesKept)
<1>1. Init => FilesKept
  BY FilesKeptInit
<1>2. Typed /\ IInv /\ LInv /\ JobsOnce /\ JobsEarned /\ FilesKept /\ [Next]_vars => FilesKept'
  BY FilesKeptStep
<1> QED
  BY <1>1, <1>2, InductiveJobs, PTL DEF Spec

-----------------------------------------------------------------------------
(***************************************************************************)
(* What follows from it.                                                    *)
(***************************************************************************)
LEMMA FilesMatch ==
    ASSUME JobsEarned, FilesKept
    PROVE  StateMatchesFiles
<1> SUFFICES ASSUME scan.exists, ~scan.deleting
             PROVE  /\ scan.state \in {"ScanCompleted", "Parsing", "ParseCompleted",
                                       "HookProcessing", "Done"} => s3.raw
                    /\ scan.state \in {"ParseCompleted", "HookProcessing", "Done"}
                          => s3.findings # "none"
  BY DEF StateMatchesFiles
<1>1. StateEarned(scan, CreatedJobs, SucceededJobs) /\ FilesThere
  BY DEF JobsEarned, Earned, FilesKept
<1>2. "scanner" \in SucceededJobs => s3.raw
  BY <1>1 DEF SucceededJobs, FilesThere
<1>3. "parser" \in SucceededJobs => s3.findings # "none"
  BY <1>1 DEF SucceededJobs, FilesThere
<1> QED
  BY <1>1, <1>2, <1>3 DEF StateEarned

LEMMA NeverAhead ==
    ASSUME JobsEarned, FilesKept
    PROVE  SummaryNeverAhead
<1> SUFFICES ASSUME scan.exists, ~scan.deleting,
                    scan.state \in {"ParseCompleted", "HookProcessing", "Done"}
             PROVE  /\ scan.findings # "none"
                    /\ scan.findings # s3.findings => LaterHook(scan.findings, s3.findings)
  BY DEF SummaryNeverAhead, LaterHook
<1>1. "parser" \in SucceededJobs
  BY DEF JobsEarned, Earned, StateEarned
<1> QED
  BY <1>1, ClusterAssumption DEF FilesKept, SummaryFollows, Writer, ReadAndWriteHooks

(* Only ReleaseFinalizer removes a Scan that is Done.                       *)
LEMMA RemovedByRelease ==
    ASSUME Typed, IInv, [Next]_vars, scan.exists, scan.state = "Done", ~scan'.exists
    PROVE  ReleaseFinalizer /\ AcceptsUpdate(obj)
<1>0. scan \in Scan /\ scan.exists = TRUE
  BY DEF Typed, Outer, Scan
<1>1. "s3" \in scan.finalizers \/ scan.deleting
  BY DEF IInv, Protected
<1>2. ASSUME scan' = Deleted(scan) PROVE FALSE
  BY <1>0, <1>1, <1>2 DEF Deleted, Scan
<1>3. ASSUME NEW kind, PatchFindings(kind) PROVE FALSE
  BY <1>0, <1>3 DEF PatchFindings, Scan
<1>4. ASSUME NEW o, scan' = WithStatusOf(o) PROVE FALSE
  <2> DEFINE new == [scan EXCEPT !.state = o.state, !.finished = o.finished, !.raw = o.raw,
                                 !.findings = o.findings, !.groups = o.groups, !.hook = o.hook]
  <2>1. new.exists = scan.exists /\ [new EXCEPT !.rv = @ + 1].exists = new.exists
    BY <1>0 DEF Scan
  <2>2. scan' = IF new = scan THEN scan ELSE [new EXCEPT !.rv = @ + 1]
    BY <1>4 DEF WithStatusOf
  <2> HIDE DEF new
  <2> QED
    BY <1>0, <2>1, <2>2
<1>5. ASSUME scan' = WithFinalizers(WantedFinalizers) PROVE FALSE
  <2>1. WantedFinalizers # {}
    BY DEF WantedFinalizers
  <2> QED
    BY <1>0, <1>5, <2>1 DEF WithFinalizers, Scan
<1>6. CASE User
  <2>1. \/ scan' = [scan EXCEPT !.rv = @ + 1]
        \/ scan' = [scan EXCEPT !.suspend = ~@, !.rv = @ + 1]
        \/ scan' = Deleted(scan)
    BY <1>6 DEF User, UserLabels, UserSuspends, UserDeletes, Edit
  <2> QED
    BY <1>0, <1>2, <2>1 DEF Scan
<1>7. CASE Crash \/ Delivery \/ UNCHANGED vars
  BY <1>7 DEF Crash, Delivery, DeliverScan, DeliverJobs, TimerExpires, Enqueue, Clock,
     SyncScan, SyncJobs, TimerFires, Resync, TTLElapses, vars, clusterVars
<1>8. ASSUME NEW j \in Slots, Pod(j) \/ JobController(j) \/ Retry(j) PROVE FALSE
  <2>1. UNCHANGED scan \/ PatchFindings(j[1])
    BY <1>8 DEF Pod, PodStep, LurkerUploads, ParserPatchesStatus, ParserUploads, HookUploadsRaw,
       HookUploads, HookPatchesStatus, JobSucceeds, JobFails, JobController,
       JobControllerStep, JobExpires, JobDeleted, Retry, PodRestarts
  <2> QED
    BY <1>3, <2>1
<1>9. CASE Operator
  <2>1. \/ UNCHANGED scan \/ scan' = Deleted(scan) \/ scan' = WithStatusOf(Stamped(obj))
        \/ scan' = WithFinalizers(WantedFinalizers)
        \/ ReleaseFinalizer /\ AcceptsUpdate(obj)
    BY <1>9 DEF Operator, Reconcile, cleanupS3Files, ReleaseFinalizer, updateScanStatus,
       startScan, AddFinalizer, CreateScanner, CreateParser, PresignFails,
       checkIfScanIsCompleted, startParser, checkIfParsingIsCompleted, CheckJob, setHookStatus,
       executeHooks, processPendingHook, createJobForHook,
       processInProgressHook, processSettledHook, deleteScan,
       AcceptsFinalizers
  <2> QED
    BY <1>2, <1>4, <1>5, <2>1
<1> QED
  BY <1>6, <1>7, <1>8, <1>9 DEF Next, Delivery

LEMMA DoneRemovedClean ==
    ASSUME Typed, IInv, LInv, FilesKept, [Next]_vars,
           scan.exists, scan.state = "Done", ~scan'.exists
    PROVE  s3' = Empty
<1>1. ReleaseFinalizer /\ AcceptsUpdate(obj)
  BY RemovedByRelease
<1>2. pc = "release" /\ UNCHANGED s3 /\ obj.rv = scan.rv
  BY <1>1 DEF ReleaseFinalizer, AcceptsUpdate
<1>3. obj.state = "Done"
  BY <1>2 DEF LInv, CopyAgrees, SameStatus
<1> QED
  BY <1>2, <1>3 DEF FilesKept, CleanBeforeRelease

(* The state of a Scan tells the truth about its files: startParser and     *)
(* setHookStatus are reached only by the success of the one Job whose pod   *)
(* ends after its upload.                                                   *)
THEOREM StateIsTrue ==
    ASSUME JobsVisible, ~JobTTL
    PROVE  Spec => []StateMatchesFiles
<1>1. JobsEarned /\ FilesKept => StateMatchesFiles
  BY FilesMatch
<1> QED
  BY <1>1, InductiveFiles, PTL

(* The summary in the status never runs ahead of findings.json, however     *)
(* often pods fail between their two writes and start over: a ReadAndWrite  *)
(* hook is alone in its group and uploads before it patches, and groups     *)
(* wait for each other and for the parser.                                  *)
THEOREM SummaryIsNotAhead ==
    ASSUME JobsVisible, ~JobTTL
    PROVE  Spec => []SummaryNeverAhead
<1>1. JobsEarned /\ FilesKept => SummaryNeverAhead
  BY NeverAhead
<1> QED
  BY <1>1, InductiveFiles, PTL

(* A Scan that is Done is removed only by the release of its finalizer,     *)
(* and nothing is left in S3 then: the finalizer is released by a copy of   *)
(* the newest version after a cleanup, and no Job is at work any more.      *)
THEOREM DoneLeavesNothing ==
    ASSUME JobsVisible, ~JobTTL
    PROVE  Spec => DoneScanIsCleanedUp
<1>1. Typed /\ IInv /\ LInv /\ FilesKept /\ [Next]_vars
        => [ scan.exists /\ scan.state = "Done" /\ ~scan'.exists
                => s3' = [raw |-> FALSE, findings |-> "none"] ]_vars
  BY DoneRemovedClean DEF Empty
<1> QED
  BY <1>1, InductiveFiles, PTL DEF Spec, DoneScanIsCleanedUp

=============================================================================
