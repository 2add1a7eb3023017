# secureCodeBox in TLA+

A specification of the behaviour of secureCodeBox that is hard to test: what its
operator, its cascading scans hook and its auto-discoveries do while caches lag, calls
fail, pods and users change things behind their backs and they themselves restart. The modules are checked with TLC on
small instances and, where marked, proved with TLAPS for all of them.

Source paths are relative to the root of the repository.

## 1. The system

A *Scan* names a ScanType. The operator creates a Job with the scanner and a *lurker*
that uploads the scanner's result to S3; then a Job with a *parser* that turns the result
into findings; then Jobs for the *hooks* (ScanCompletionHooks) of the namespace. What
has been done is only known from the status of the Scan and from the Jobs that exist. A
*ScheduledScan* creates Scans; auto-discovery creates ScheduledScans.

| Part | Source | State it keeps | Operations | Correct if |
| --- | --- | --- | --- | --- |
| Scan controller | `operator/controllers/execution/scans` | none of its own: the status and finalizers of the Scan, the Jobs; a cached copy of both | `Reconcile` and one handler per state | one Job of each kind; states in order; status agrees with the files; every Scan finishes; a removed Scan leaves nothing |
| Hook ordering | `operator/utils/orderedhookgroups.go`, `scans/hook_reconciler.go` | the `orderedHookStatuses` of the Scan | group, migrate the status of earlier releases, find the current group | documented order, no hook lost, no hook early or twice |
| Lurker | `lurker` | a file in S3 | wait for the scanner, upload | the raw result is stored before the Job succeeds |
| Parser SDK | `parser-sdk/nodejs` | the findings in S3, their summary in the status | fetch, parse, patch status, upload | summary and file agree once the Scan goes on |
| Hook SDK | `hook-sdk/nodejs` | the same | fetch, upload, patch status | the same; one writer at a time |
| ScheduledScan controller | `operator/controllers/execution/scheduledscan_controller.go` | last schedule time, findings, ScanType hash; its Scans | create when due, keep the history limits | one Scan per time; the concurrency policy holds; goes on for ever |
| ScanType controller | `.../scantype_controller.go` | the hash in the ScheduledScan | retrigger when a ScanType changed | every change is scanned |
| Cascading scans | `hooks/cascading-scans` | the chain in the annotations of a Scan | start the scans that match the findings | terminates; follows every match in scope; a rule's entries stay with its scan |
| Service auto-discovery | `auto-discovery/kubernetes/controllers/service_scan_controller.go` | its ScheduledScans and the digests in their labels | follow the pods of services | every target scanned in the version that runs, once |
| Container auto-discovery | `.../container_scan_controller.go` | its ScheduledScans | follow the images of pods | a ScheduledScan for each image that runs, and no other |
| AWS auto-discovery | `auto-discovery/cloud-aws` | the set of running containers, in memory | follow a queue of ECS events | the same |
| scbctl, other hooks, scanners, telemetry | `scbctl`, `hooks`, `scanners`, `operator/internal` | none | single calls, pure translations | not modelled: nothing to interleave |

How they interact:

* Everything goes through the API server. The operator reads from informer caches and
  writes with the `resourceVersion` it read (a conflict if it is not the newest);
  parsers and hooks patch `scans/status` with no version.
* A ScheduledScan is written by three: its controller (status), the ScanType controller
  (status, from another cached copy) and the auto-discovery (labels, spec and, to restart
  it, status). Each relies on conflicts, or on none happening.
* The cascading hook runs in a pod of the Scan it follows and talks to the API server
  itself; its only memory are the annotations of the Scans it creates.
* The operator is called again when a Scan or one of its Jobs changes, after an error,
  and by the timer of a finished Scan with a TTL. Nothing else wakes it up.
* Pods reach S3 through presigned URLs, so neither the operator nor the API server sees
  their uploads.

What is hard: the operator creates a Job and records it by two calls, in an order that
makes the Job the only memory in between; it writes a whole status from a copy that may
be old; a conflict on a status write is dropped; it deletes files while pods that write
them run. A ScheduledScan creates its Scan before it records the time, decides what to
start and delete on Lists that lag, and is only woken by timers it computes itself. A
cascade has no place where all of it is known, and its pods are restarted half way. The
auto-discoveries log errors and go on, so that each failure has to be repaired by a later
event. `PROJECT.json` lists every hazard at its line.

## 2. Modules

| Module | What it is |
| --- | --- |
| `Orders` | the elements of a set in the order of a sort, or of two nested loops |
| `HookGroups` | the pure functions of `orderedhookgroups.go` |
| `HookGroupsProofs` | what they return, for lists of any length |
| `HookQueue` | the hooks of one Scan, for every short list of them, new or migrated |
| `HookQueueProofs` | its theorems and proofs |
| `ScanCluster` | the API server, S3, informers and work queue around one Scan |
| `ScanJobs` | its Jobs at work (lurker, parser, hooks), garbage collection, users |
| `ScanReconciler` | the scan controller, one action per call it makes |
| `ScanLifecycle` | the abstract specification: what the status promises to those who watch it |
| `ScanProperties` | the properties, and the refinement mapping to `ScanLifecycle` |
| `MCScan` | the hooks of the small instances |
| `ScanProofs` | theorems and proofs: types, findings, finalizers |
| `LifecycleProofs` | the refinement of `ScanLifecycle`, the cursor of `executeHooks` |
| `ScanJobProofs` | the Jobs of a Scan and the files they leave |
| `ScheduledScans` | the ScheduledScan and the ScanType controller, call by call |
| `ScheduledProperties`, `MCScheduled`, `ScheduledProofs` | their properties, small instances, proofs |
| `Workload` | containers that come and go, the ScheduledScans of images |
| `ContainerDiscovery`, `ServiceDiscovery`, `AwsDiscovery` | the three auto-discoveries |
| `AutoDiscovery` | each of them, or the two of Kubernetes together, beside the workload; properties |
| `MCDiscovery`, `DiscoveryProofs` | small instances, proofs |
| `ScopeLimiter` | the pure functions of `scope-limiter.ts` |
| `CascadingScans` | the cascading scans hook of all Scans of a cascade; properties |
| `MCCascades` | small instances |
| `CascadeProofs` | theorems about cascades of any depth |

`ScanCluster` ← `ScanJobs` ← `ScanReconciler` ← `ScanProperties` ← `MCScan`,
`ScanProofs`: each extends the one before. `Orders` ← `HookGroups` ← `ScanCluster`, `HookQueue`,
`HookGroupsProofs`. `HookQueue`, `HookGroupsProofs` ← `HookQueueProofs`. `ScanProofs`,
`HookGroupsProofs` ← `LifecycleProofs` ← `ScanJobProofs`.
`ScheduledScans` ← `ScheduledProperties` ← `MCScheduled`, `ScheduledProofs`. `Workload` ←
`ContainerDiscovery`, `ServiceDiscovery`, `AwsDiscovery` ← `AutoDiscovery` ←
`MCDiscovery`, `DiscoveryProofs`. `ScopeLimiter`, `Orders` ← `CascadingScans` ←
`MCCascades`, `CascadeProofs`; the latter also extends `HookGroupsProofs`, for what it says
of orders.

The last three families take a set `Configs` of records as a constant: the variable
`config` is one of them, so that one run checks many small instances. Definitions keep the names of the functions
they translate, and `map` in `PROJECT.json` gives their lines.

### The Scan: state

| Variable | In the program |
| --- | --- |
| `scan` | the Scan in the API server. `finished` is `finishedAt # nil`, `raw` is a set `rawResultFile`, `findings` the Job whose summary is in the status. `groups` and `hook` are `orderedHookStatuses`: its unchanging part and its states |
| `jobs` | the n-th Job of each kind, with how far its pod got |
| `s3` | whether there is a raw result file; which Job wrote `findings.json` |
| `cache`, `jobCache` | what the operator's client returns |
| `queued`, `timer` | the key in the work queue; a pending `RequeueAfter` |
| `expired` | the TTL has passed since `finishedAt` |
| `pc`, `obj`, `cursor`, `failing` | the running `Reconcile`: its next call, its variable `scan`, its place in the loop over the hooks, its error |
| `edits`, `crashes`, `faults` | counters of the bounds |

The state `""` of a new Scan and `Init` are one state, as `Reconcile` treats them.

### The Scan: steps

A `Reconcile` is a sequence of actions, cut where it calls the API server or S3. It
reads the cached Scan (`Reconcile`), cleans up and releases finalizers if the Scan is
being deleted (`cleanupS3Files`, `ReleaseFinalizer`, once for each finalizer), runs the
handler of the state and ends in `updateScanStatus` or `Return`:

| State | Actions |
| --- | --- |
| Init | `startScan`, `AddFinalizer`, `CreateScanner`, `PresignFails`, `updateScanStatus` |
| Scanning, Parsing | `checkIfScanIsCompleted`, `checkIfParsingIsCompleted`, `updateScanStatus` |
| ScanCompleted | `startParser`, `CreateParser`, `updateScanStatus` |
| ParseCompleted | `setHookStatus`, `updateScanStatus` |
| HookProcessing | `executeHooks`, then `processPendingHook`, `processInProgressHook` or `processSettledHook` for each hook of the group, `updateScanStatus` |
| Done, Errored | `deleteScan` |

The List of the Jobs that a handler starts with is read together with the decision made
from it: the cache answers locally, and a Job that appears later is one the same,
only worker would have had to create.

Each call may fail, before or after it took effect. A step of the model that has
`Fails` as a disjunct stands for both. Calls that only read the cache do not fail, but
what they look for may be missing: a ScanType, a ParseDefinition, a hook.

### Hooks across releases

`HookQueue` has the states of one Scan from ParseCompleted on, and those of a release
that knew `readAndWriteHookStatus` only (`LegacyInit`). `setHookStatus` and
`migrateHookStatus` make the groups, `executeHooks` works on the current one; Jobs end
and are collected, a user installs or removes a hook, a write is lost after the Jobs were
created.

### ScheduledScans

Time is a number of ticks and a Scan is named after the time it was scheduled for, as in
the code. `sched` is the ScheduledScan (`last`, `hash`, `findings` are its status),
`scans` its Scans, `typ` the version of the ScanType; `cached`, `scanCache`, `typeCache`
are the informers. A Reconcile reads copies (`obj`, `list`) and is cut at every call:

`Reconcile` → `UpdateFindings` → `deleteOldScans` → `CheckSchedule` → (`ReplaceScans`) →
(`PatchHash`) → `CreateScan` → `RecordTime`, or `Sleep`. `ReturnAt` is `RequeueAfter`:
nothing else than it, a watch, an error or a resync brings the key back.
`RetriggerScheduledScan` is the ScanType controller: it makes the ScheduledScan due by
setting LastScheduleTime a day and a period back.

### Auto-discoveries

`phase` is what the cluster (or ECS) does with each container, `seen` what the informer
delivered of it. `imageScans` is the set of images that have a ScheduledScan.
`ReconcilePod` decides on caches, `CreateOrDelete` is the call. `ReconcileService` finds
the digest and `CheckTarget` goes through ports and scanConfigs (`targets`), with
`CreateServiceScan`, `UpdateServiceScan` and `restartScheduledScan`; the operator runs
what is due (`RunServiceScan`). The AWS discovery takes the first event
(`ReceiveMessage`), makes its call (`CallKubernetes`) and deletes the event
(`deleteMessageFromQueue`); an event that is not deleted is received again.

### Cascades

A Scan is identified by the rules and findings from the first Scan on, so that the tree of
a cascade is a function `scans`. Per Scan: what it inherited (`lists`, `maps`,
`affinity`, `scope`), its `chain`, and the state of its hook: `getCascadingRulesForScan`,
`getCascadedRuleForScan`, then `startSubsequentSecureCodeBoxScan` once for each match.
`read` are the rules it listed, `todo` the matches still to come, as places in the lists of
rules and of findings, `lost` those whose creation failed.
`mergeCascadingRuleWithScan` and `purgeCascadedRuleFromScan` are translated with the entries as
named values; a template is a value that renders to the finding. In `ScopeLimiter` a
scope annotation is the set of values that its operators accept, and an evaluation has
three outcomes. A requirement that is not `wellFormed` (a key without the prefix of the
scope annotations, a list template that is given keys of too few levels) throws before
anything else of it is looked at.

## 3. Abstractions

* One Scan. Scans share no Jobs and no files.
* `resourceVersion` is a counter.
* An informer delivers the newest version when it delivers. A version between two
  deliveries is seen if the delivery comes before the next change, so every version can
  be read; the watches of Scans and of Jobs are independent of each other.
* A pod that fails with retries left is followed by one that starts from the beginning, on
  the files and the status that its predecessor left (`PodRestarts`). A hook of it may find
  its changes made already and succeed without a call. A Job fails at whatever point when
  its last pod did.
* Each pod of a hook uploads its findings at most once, the raw results any number of
  times. It has fetched what it uploads long before: a cleanup does not hold it up.
* The contents of files are the Job that wrote them; of the raw result file only whether
  it is there.
* Time is one event: the TTL has passed, or not. The timer may fire early or late.

* The Scans of a ScheduledScan are Running, Done or Errored; only its controller deletes
  them. No two of them have the same creationTimestamp.
* Pods have one container, the discoveries one scanConfig per image. Image IDs, names,
  labels and the templates of scans are values.
* Reads of the informer caches by the discoveries do not fail. In the code the container
  discovery takes a failed List (`container_scan_controller.go:461`) for "not in use" and
  deletes the ScheduledScan; the service discovery ignores the error of its List
  (`service_scan_controller.go:138`). Neither is modelled. The status update in
  `restartScheduledScan` fails by conflict only.
* The rules of a cascade are deleted but not edited while it runs. Which findings a rule
  matches is a table.

In `PROJECT.json` a definition that creates a Job stands for "a Job of this kind", or for a
call that fails: its lines go as far as the error returns of the function that builds the
Job, whose pod template is left out.

Left out: service accounts, pod templates, metrics, the expiry of presigned URLs, and a
Scan that is deleted and created again under its name.

### Assumptions that are constants

* `JobsVisible`: the List of Jobs is never older than the last one the operator created.
  It is assumed by every run but `ScanLag`. Without it `OneJobOfEachKind` is false: an
  operator whose Job cache lags behind its Scan cache can create a second scanner in
  Init. In a running cluster the conflict window is short (the same Scan has to be
  enqueued twice before the Job's watch event arrives), but nothing in the code closes it.
* `WindowQuiet`: between the creation of a scanner or parser Job and its record in the
  status the operator does not crash and its calls do not fail, and nobody edits the Scan
  from the moment such a handler reads it on (in the model: while it is in Init or
  ScanCompleted). Only `ScanLiveness`, `ScanTTL` and `ScanDeadline` assume it, and `ScanStuck`
  shows why they must. A deletion is allowed at any time.
* `Deadline`, `JobTTL`: whether scanner Jobs have an `activeDeadlineSeconds` and Jobs
  a `ttlSecondsAfterFinished`. Both are off by default in the charts. `ScanDeadline`
  shows what the first does to liveness; it is on in `ScanHooks`. With the second,
  `StateMatchesFiles` is false: a failed Job that is deleted before the operator looked
  counts as completed (`job.go`: a loop over no Jobs leaves `hasCompleted` true). It is off
  in every run; `TypeCorrect`, `FindingsSafe`, `FinalizerSafe` and `LifecycleFollowed` are
  proved with it as well.

* `Quiet` (`ScheduledScans`): from the read of the ScheduledScan until the Scan created
  for it is recorded nobody edits it, the operator does not crash and the recording does
  not fail. Without it `ScheduleCatchesUp` is false: the next Reconcile computes the
  name of a Scan that exists, and fails until that Scan is removed. With an interval it
  does so only once a time was recorded: on the first run the name changes every second.
* `fresh`, `prompt`, `resyncs` (fields of a schedule's configuration): the copy of the
  ScheduledScan or the List of Scans is not stale; a Reconcile takes less than a tick;
  caches are resynced. Each property that needs one names it:
  `ForbidNeverOverlaps` a fresh List (a List that misses the Scan just created lets a
  second one start), `ReplacedByAnother` a fresh copy (section 5).
  The clock runs on at every step, also between the test whether a Scan is due and the
  computation of the delay: a slot that passes there leaves no delay and sets no timer. The
  history variable `overslept` says that the last Reconcile ended so.
* `fresh`, `graceful`, `resyncs` (fields of a workload's configuration): ScheduledScans
  are not read from stale caches; a pod is gone only after its end was reconciled (the
  grace period); pods are resynced. What a stale cache or a failed call left out is only
  repaired by the resync, ten hours by default; what it left over stays (section 5).
* `steady`: the informer delivers no ScheduledScan between the List and the Get that the
  service discovery makes of each target. The two are steps of their own (`CheckTarget`,
  `GetPreviousScan`); only `VersionIsScannedOnce` needs that they read the same, and
  `DiscoveryRescan` shows why.
* Nothing hits the service discovery between the update of a ScheduledScan and its
  restart (section 5).

## 4. Properties and runs

| Run | Distinct states | Question |
| --- | --- | --- |
| `HookQueue` | 92 000 | are hooks grouped and run in the documented order, once, to the end, also those of an earlier release? |
| `ScanFaults` | 1 800 000 | are Jobs unique, does the state agree with the files, does a removed Scan leave none, with an edit, a crash and a failed call or pod? |
| `ScanHooks` | 210 000 | do three hooks run in order, does the summary follow the findings and the status the life cycle, with a crash and a failed call or pod? |
| `ScanLag` | 1 700 000 | does a stale copy ever undo what a pod wrote to the status, or let a scanner run unprotected, for a Scan with the legacy finalizer, with a failed call? |
| `ScanLiveness` | 210 000 | does a Scan finish, and a deletion complete, with two edits? |
| `ScanTTL` | 300 000 | does a Scan with a TTL finish, and is a finished one removed, suspended or not, with an edit, a crash and a failed call or pod? |
| `Schedules` | 140 000 | are policies, histories, schedules and ScanType changes kept, through lag, an edit, a crash and a failed call? |
| `Discovery` | 140 000 | do ScheduledScans follow what runs, through lag, redelivered events, failed calls and restarts? |
| `Cascades` | 38 000 | do cascades end, stay in scope and follow every match, with pods killed, calls failed, a rule deleted? |
| `ScanStuck`, `ScanDeadline`, `ScanOrphanFiles` | | the first three findings of section 5 |

Four more configurations are not among the runs: TLC finds their properties violated too,
and their counterexamples say why properties of the runs are as they are: `ScanSummary`
(with `MCScan`), `ScheduleMissed` (`MCScheduled`), `DiscoveryOrphan` and `DiscoveryRescan`
(`MCDiscovery`). Section 5 tells what they show.

* `EveryHookOnce`, `GroupsFollowPriority`, `NoHookOvertakes`: against `Before`, the order
  that the comment on `priority` in `scancompletionhook_types.go` describes.
* `NoHookRunsAgain`, `DoneMeansSucceeded`, `HooksFinish`: `migrateHookStatus` guesses the
  states of ReadOnly hooks from that of the Scan. A wrong guess would run a hook twice or
  not at all. It does miss one: a hook installed after the earlier release started the
  ReadOnly hooks counts as completed, since a List of no Jobs does.
* `OneJobOfEachKind`: one scanner, one parser, one Job per hook. The Jobs are the only
  record between two writes of the status, so this rests on the "Job already exists"
  tests. The exception it states is real: a Reconcile that releases the last finalizer
  goes on to the handler of the state and may create a Job for a Scan that is gone.
* `StateMatchesFiles`, `SummaryNeverAhead`: the pods write status and S3 by separate
  calls, the parser in one order and the hooks in the other, and either may fail between
  the two. The operator moves on only when the Job succeeded; then the summary may be older
  than the findings, by a hook whose patch failed, but never newer. That the two are the
  same when the Scan is Done is false (`ScanSummary`, section 5).
* `DoneScanIsCleanedUp`, `ScannerNeedsFinalizer`: files outlive their Scan only in the
  case of `ScanOrphanFiles`.
* `HookJobsInOrder`: the order of the *Jobs*, in any interleaving of crash, lost answer
  and status write.
* `FollowsLifecycle`: every behaviour of the status is one of `ScanLifecycle`, checked where
  Lists of Jobs are not stale and proved for all. States are
  passed in order, a finished Scan stays finished, hooks are chosen once and advance
  group by group.
* `FindingsOnlyFromJobs`: the operator writes the whole status and yet never the
  findings. The reason is the `resourceVersion` of its copy.
* `EveryScanFinishes`, `DeletionCompletes`: liveness, for Scans not left suspended.
* `FinishedScanIsRemoved`: liveness, for Scans with a TTL, suspended or not. The only thing
  that brings a finished Scan back is a timer, which a crash loses; the restart lists the
  Scans and sets it again.

* `NoWakeUpIsLost`: Reconcile returns in a dozen ways. After each of them, and after any
  lag, failure or crash, a ScheduledScan that is at rest has a timer, in time for its next
  slot. Two exceptions are named: a Reconcile without the ScanType, and one that overslept.
* `ForbidNeverOverlaps`: from the List to the creation there are up to four calls, and
  the ScheduledScan may be as stale as can be.
* `HistoryKept`, `HistoryTrimmed`: deletions decided on a stale List never go beyond the
  limit, and go on until it is reached.
* `SummaryNeverGoesBack`: Scans finish out of order and Lists are stale.
* `ScheduleCatchesUp`, `ScanTypeChangeIsScanned`, `ReplacedByAnother`: liveness. What is
  due is started, the newest ScanType is scanned in the end, and Replace replaces.
  A slot that was overslept is only caught up with by an earlier timer or by a resync,
  and excepted where there is neither (`ScheduleMissed`, section 5).
* `EveryRunningImageIsScanned`, `OrphanedScansAreRemoved`: for the container and the AWS
  discovery alike: `imageScans` and what runs come to agree. The second excepts the
  container discovery with a stale cache or a failed call, after which an orphan stays
  (`DiscoveryOrphan`, section 5), and the AWS discovery after a restart.
* `ScansMatchAtRest`: the same as a state property: whenever nothing is left to do, they
  agree. It is claimed of the container discovery if its List of ScheduledScans is not
  stale and no call failed, since errors are logged and never retried; of the AWS
  discovery, which receives a message again after an error, with any failed calls, but
  not after a restart, which forgets what runs. That no ScheduledScan is left over also
  needs that a pod is not gone before its end was reconciled, and that pods of the
  secureCodeBox have images of their own: they keep a ScheduledScan and never remove it.
* `NewVersionIsScanned`, `VersionIsScannedOnce`: the operator scans each version that all
  pods of a service run, and none is started again, however stale the cache is: the second
  where the List and the Get of a target read the same, or a cache that is not stale.
* `ChainsAreLoopFree`, `CascadeEnds`: rules match each other's findings; only the chain
  ends the cascade.
* `ScopeIsKept`: the code evaluates requirements one after the other and stops early; the
  property says with sets what a permitted finding is.
* `RuleEntriesStayWithTheirScan`: the code purges and merges at every level; the property
  says what a Scan has in terms of the first Scan and its own rule.
* `EveryMatchIsFollowed`, `NoMatchIsFollowedTwice`: a hook pod that is killed half way
  starts from the beginning: nothing is missed, and a match is followed at most once for
  each pod.

`TypeOK` is the type invariant of each family; that of `AutoDiscovery` is proved
(section 6) and not among the properties of the run. Every property of a passing run is violated by a
mutant of the code that `PROJECT.json` lists; the mutants are defined beside the
definition they change.

### Bounds

* `HookQueue`: lists of up to three hooks of two priorities. Three hooks are the least in
  which two classes meet and one of them has two members; a comparison of two hooks
  never looks at a third.
* One hook of type ReadAndWrite in the other runs, since a second one adds no new pair of
  writers; `ScanHooks` has three, in two lists: ReadAndWrite hooks around a ReadOnly one,
  and two ReadOnly hooks before a ReadAndWrite hook of lower priority.
* `MaxJobs`: two Jobs of a kind in `ScanFaults`, so that a second one can be created;
  one where uniqueness is not the question (a second cannot be created there).
* One edit, crash and failed call or pod each: the hazards above need one of them at the
  right moment, or one of each. A deletion is an edit. `ScanLag` has one failed call only:
  there each cache may lag by itself, which multiplies the states. `ScanLiveness` has two
  edits, because a suspension needs a second one to end.
* `MaxFaults` bounds failed calls and failed pods that are retried; missing objects and
  failing Jobs are not bounded.

* `Schedules`: the clock stops at 2, so that there are three slots and a Scan may be due
  while the one before runs; `Day` is 4, longer than that, so that a retriggered
  ScheduledScan is due at once. Limits 0 and 1: whether one newer Scan counts is all the
  code asks. Nine configurations, each with the lag, failures and edits that matter to
  it; all of them at once are out of reach. In two of them, and in the one for Forbid,
  slots pass at any step of Reconcile, once without resyncs and once with.
* `Discovery`: two containers, of one image (one ends while the other starts) or of two
  (a new version). A container is not restarted; a new one has a new name. Two failed
  calls for AWS: of the creation and of the deletion of the event. One for containers, with
  pods that end gracefully and with pods that vanish.
* `Cascades`: two rules that match each other's findings, a third with a scope
  annotation, three findings: a cascade of four Scans in a row where the chain is not
  checked goes on for ever. Two attempts of a pod.

### Fairness

`FairSpec` assumes weak fairness of the worker (a goroutine that runs while the queue is
not empty), of the two watches, of the timer and the clock, of the pods together and of
the Job and garbage controllers together. Each pod and Job takes finitely many steps, so
fairness of all together gives it to each, except that a hook may upload raw results
again; that changes nothing once they are there. Users, crashes, failures and the
periodic resync (ten hours by default) are not fair: nothing relies on them. The runs
disable the deadlock check because a Scan may reach an end in which nothing happens any
more: removed, or finished without TTL.

`ScheduledScans`: fair are the worker, the ScanType controller (which runs every few
seconds), the watches, timers, the clock up to its bound, the Scans and their removal,
and resyncs where a configuration has them. `HookQueue`: the operator and the Jobs.
`AutoDiscovery`: the discoveries, each watch, the operator that runs what is due, and
resyncs where configured; not the workload. The watch of ScheduledScans is strongly fair,
since where an instance is `steady` each target holds it up for a moment. The events of a
queue are handled by one loop, and those of a pod by its own key. `CascadingScans`: Scans
end and pods run.

## 5. Findings

* `ScanStuck` (code): the Scan is changed after `startScan` or `startParser` read it and
  before they write the status. The Job exists, the write conflicts, `updateScanStatus`
  swallows the conflict, and every later Reconcile finds the Job and returns. Any
  change will do, a label as well as a suspension; a crash of the operator between the
  two calls has the same effect.
* `ScanDeadline` (documentation): a scanner Job that runs into the
  `activeDeadlineSeconds` that the charts offer fails with the reason
  `DeadlineExceeded`. `isBackoffLimitExceeded` knows one reason, and the Scan waits in
  Scanning for ever.
* `ScanOrphanFiles` (documentation): the finalizer "to delete related files in s3" runs
  before the Jobs of the Scan are collected. A lurker that is about to upload does so
  afterwards.

Four more, each shown by the configuration of that name, restrict properties of the runs:

* `ScanSummary`: `updateFindings` of the hook SDK uploads, then patches the status.
  If the patch fails, the pod is restarted and reads the findings that are changed already;
  a hook that has nothing left to change, as `hasChanged` of finding-post-processing
  decides, does not call `updateFindings` again. The Job succeeds and the Scan is Done with
  the summary of the parser and the findings of the hook.
* `ScheduleMissed`: `scheduledscan_controller.go` compares the next slot with the
  clock at line 134 and takes the delay from a later reading at line 214. A slot that
  passes in between gives a delay that is not positive, which controller-runtime takes for
  no requeue. A timer set by an earlier Reconcile usually covers it; after a restart of the
  operator there is none, and the slot waits for an event or the resync.
* `DiscoveryOrphan`: `deleteScans` only logs the error of its Delete. The pod that
  ended brings no further event, and the ScheduledScan goes on scanning an image that
  nobody runs.
* `DiscoveryRescan`: the service discovery decides whether a version was scanned on
  a List and gets the ScheduledScan again afterwards. If the informer delivers in between,
  the List missed the label of the version and the Get returns the newest copy: the update
  changes nothing, the restart meets no conflict, and the version is scanned twice.

The others were met while modelling, and restrict the properties of section 4 as well:

* ScheduledScans. After a ScanType change the ScanType controller sets LastScheduleTime
  back by a day (and the interval). Under cron the next slot is then one of the last day;
  if the Scan of that slot still exists, its name is refused on every retry, while the
  new hash is recorded already: the change is not scanned until that Scan is deleted
  (`scheduled-scan.md:62`: "will automatically trigger a new scan"). `Day` is longer than
  the clock in `Schedules`, so that no such Scan exists.
* Replace with a stale copy of the ScheduledScan deletes the Scan just started and then
  fails to create it anew (`scheduledscan_types.go:42`: "replaces it with a new one").
* `failedJobsHistoryLimit` defaults to 3 by its comment and to 1 in the code.
* A ScanType that is missing ends Reconcile with nil; when it is installed, only a resync
  or an event of the Scans continues the schedule.
* Service discovery. If the restart of a ScheduledScan fails after its label was
  updated, the new version is not scanned at once: the label says it was. A missing
  ScanType of one scanConfig stops those after it. Pods without container statuses count
  as ready. Digests are only found in image IDs that start with `docker-pullable://`;
  with other runtimes a new version is never noticed. `SetupWithManager` checks the
  names of the container discovery's scanConfigs for uniqueness, not its own.
* Container discovery. A failed List counts as "not in use" and deletes the scan (not
  modelled, section 3). The end
  of a pod of the secureCodeBox is ignored although it counted as a user of its image.
  Pods with pull secrets that are not mapped are never scanned.
* AWS discovery. A restart forgets what runs: scans are kept for ever, or deleted with
  the first of two containers. An event of an unknown status is never deleted, and blocks
  the FIFO queue.
* Cascading scans. `purgeCascadedRuleFromScan` compares rendered entries of the Scan with
  unrendered ones of the rule: an entry with a template is passed on to all subsequent
  scans (`scan-helpers.ts:234`: "only applied to the matched scan"). So are
  initContainers, labels and annotations (`scan.md:154`: "apply only to the current
  scan"); tolerations are merged where the same page says replaced. matchLabels are
  purged by key, which also removes those of the first Scan. A rule that was deleted makes
  the hook of every Scan it started fail. A scope annotation in one rule, or one finding
  for which the scope cannot be evaluated, keeps all others from being followed.
* Pull secrets (not modelled). The temporary secret that the extractor creates is named
  after the image and the scanConfig and owned by the pod that created it. While the pod of
  an earlier Scan exists its creation fails (`secret_extraction.go`), and with it the next
  Scan.

## 6. Proofs

The modules are in the order in which they build on each other. Each theorem holds for
all values of the constants that satisfy the assumptions named with it; TLC evaluates
these in every run. Each inductive invariant was checked by TLC on the instances before
it was proved.

### The life of a Scan

`ScanProofs` proves, for any hooks, any bounds and any value of the constants of section
3, from `ClusterAssumption` and `ReconcilerAssumption`:

* `TypeCorrect`: `Spec => [](ClusterTypeOK /\ WorkTypeOK)`. This is `TypeOK` without
  `cursor`.
* `FindingsSafe`: `Spec => FindingsOnlyFromJobs`.
* `FinalizerSafe`: `Spec => []ScannerNeedsFinalizer`.

The two safety theorems share an inductive invariant, `IInv`. The argument: neither
property mentions the operator's copies, but both depend on them.

* *Copies are honest.* The cached Scan, and `obj` while a Reconcile runs, *follow* the
  Scan: their version is at most its version, and if it is equal, so are the findings
  and finalizers. This is what an accepted status write needs to leave the findings as
  they are. It is kept because every change of the Scan makes a new version.
* *A step matches its copy.* A Reconcile that is about to create or record a scanner
  has a copy that carries the finalizer, and is in the state its handler is for.
* *Once protected.* If a scanner Job exists, or the state is not Init any more, then the
  Scan has the finalizer, or is being deleted, or is gone.

`Inductive` is the theorem that the invariant holds; its proof has one lemma per action
and property.

`HookGroupsProofs` has no behaviours. It shows what `FromUnorderedList` returns:
`GroupPlaces` says that a hook is in the group, and at the place in it, that the number
of groups and hooks before it determine, so that every hook is in one place; and that of
two hooks the one the documentation puts first is in the earlier group.
`CurrentGroupIs` says that `CurrentHookGroup` is the first group with an open hook, an
error if one of it failed, and nothing when all are completed.

`LifecycleProofs` proves, from the same assumptions:

* `LifecycleFollowed`: `Spec => FollowsLifecycle`, the refinement. A status write is
  accepted only from a copy of the newest version, and `LInv` says what such a copy
  shows: the status of the Scan until the handler has decided (`CopyAgrees`), a proper
  next status once it waits to be written, and in the loop over the hooks
  (`HooksAdvance`) the current group advanced up to the cursor. A copy that is older may
  hold anything, since its write is refused. That is why only `rv` has to be compared.
* `TypesKept`: `Spec => [](TypeOK /\ CursorInGroup)`, the whole of `TypeOK`: while
  `executeHooks` is at work its cursor is at a hook of the group it works on.

`ScanJobProofs` proves, under `JobsVisible` and `~JobTTL`, without which each of them is
false (section 3):

* `OneJobAtATime`: `Spec => []OneJobOfEachKind`. The invariant `JobsOnce`: whoever is
  about to create a scanner or a parser has seen that there is none. Nobody else creates
  one meanwhile, so a crash or a lost answer only leads to another look.
* `HookJobsWaitTheirTurn`: `Spec => []HookJobsInOrder`. The invariant `JobsEarned`: what
  a status claims has happened. The Scan, the cached copy and the copy of a Reconcile,
  *however old they are*, speak of Jobs that were created and of successes that occurred
  (`Earned`), since neither is ever undone; and the hooks of earlier groups have succeeded
  when one of a later group has a Job (`Ordered`).
* `StateIsTrue`: `Spec => []StateMatchesFiles`; `SummaryIsNotAhead`:
  `Spec => []SummaryNeverAhead`; `DoneLeavesNothing`: `Spec => DoneScanIsCleanedUp`. The
  invariant `FilesKept`: each Job stores its file before it succeeds (`FilesThere`), only
  ReadAndWrite hooks write findings (`WritersOnly`), and once the parser has succeeded the
  file is that of the summary or of a hook of a later group (`SummaryFollows`). A
  ReadAndWrite hook is alone in its group, so by `Ordered` no hook of an earlier group
  writes any more; whatever pods fail between their two calls and are restarted, the file
  is always the first that a hook writes.
  For the last theorem `CleanBeforeRelease`: a finalizer of a Scan that is Done is
  released when S3 is clean.

### Hooks across releases

`HookQueueProofs` proves, for lists of any length, any priorities, any number of edits and
of lost writes:

* `EveryHookGrouped`: `Spec => []EveryHookOnce`.
* `GroupingCorrect`: `Spec => []GroupsFollowPriority`.
* `HooksRunInOrder`: `Spec => []NoHookOvertakes`.
* `HooksRunOnce`: `Spec => []NoHookRunsAgain`.
* `DoneIsEarned`: `Spec => []DoneMeansSucceeded`.

The invariant tells apart the hooks that are in groups (`Grouped`: a hook that waits
without a Job never had one, a completed one has succeeded) and the status of an earlier
release (`Left`: what a state of that release says of hooks that it did not record, which
is what `migrateHookStatus` relies on).

### Schedules and discoveries

`ScheduledProofs` proves, for all sets of configurations, all bounds and `Quiet` or not,
from `ScheduleAssumption`:

* `ScheduleTypeCorrect`: `Spec => []TypeOK`. Names of Scans are times, and times are
  computed from LastScheduleTime, which is set back by the ScanType controller, so that
  the types need bounds: the invariant `Typed` adds `Timely`, which bounds each time by
  the clock and says which times a step of Reconcile may hold.
* `ForbidSafe`: `Spec => ForbidNeverOverlaps`. The invariant `Alone`, for Forbid and a
  fresh List: until the policy is tested the List shows every Scan that runs, and after
  the test none does. Scans only end meanwhile, since nobody but this Reconcile creates
  any.
* `NeverForgotten`: `Spec => []NoWakeUpIsLost`. It rests on `Versioned` (a copy with the
  version of the ScheduledScan is equal to it, so a write it did not see makes `cached`
  differ) and on `Waking`, which says for each step of Reconcile what the copy it works on
  is, and that what has been decided leaves an event, a key in the queue or a timer. The
  clock may pass the next slot at any step; where that leaves no timer, `overslept` is set.
* `HistorySafe`: `Spec /\ ListedNamesUsedOnce => HistoryKept`, for any limit. What
  Reconcile deletes by are *views*, its List and the cache: `Shown` says that they show the
  Scans there are as they were before. A List that shows enough newer Scans proves little,
  because these may be deleted by now. The invariant `History` says that each deleted or
  removed Scan of a view has enough newer ones that are *kept*. A deletion keeps it: the
  newest of the Scans deleted had enough newer ones, of which none is deleted
  (`EnoughRemains`).
* `SummarySafe`: `Spec /\ NamesUsedOnce => SummaryNeverGoesBack`. The invariant `Summary`:
  the summary is that of a Scan which is kept, so that it is always known whether it goes
  back; each completed Scan that is deleted or gone is older; each view has one at least as
  new, and one at least as new as any in Reconcile's List; and Reconcile deletes only when
  the summary has caught up with its List.
* `NamesGrow`: under `Quiet`, with a copy that is not stale and no retriggers,
  `Spec => NamesUsedOnce`, so that nothing is left to assume there.

The two assumptions say that no name is used again while a stale List (or, for
`SummarySafe`, a stale copy of the ScheduledScan) still has the Scan that had it; with
fresh ones they hold trivially. They are needed: a name is a time, under cron a time can
recur after the ScanType controller set LastScheduleTime back, and an old List then takes
the new Scan for the old one. In the instances `Day` is longer than the clock (section 5).

`DiscoveryProofs` proves, for any workload, any number of targets and any bounds, from
`WorkloadAssumption` and, for the last theorem, `UntaggedAssumption` (the reference of a
container without a digest is that of no image):

* `DiscoveryTypeCorrect`: `Spec => []TypeOK`, for all three discoveries. For AWS it needs
  `EventsNameImages`: an event in the queue that says RUNNING or STOPPED names an image, and
  the discovery only works on an event it received.
* `VersionSafe`: `Spec => VersionIsScannedOnce`. The invariant `VersionInv`: the cache and
  the copy of Reconcile *follow* the ScheduledScan (if their version is the same, so is
  all the rest), and each ScheduledScan is due or was scanned for the digest on its
  label, except between its update and its restart. With `fresh` or `steady`: while a target
  is between its List and its Get the cache stays as it was, so the copy that is got has
  not the digest that runs.
* `ScansConverge`: `Spec => []ScansMatchAtRest`. For containers, `NoneMissing`: a pod that
  runs is queued, or its image has a ScheduledScan that no call is about to delete, or a
  call is about to create it. `NoneLeftOver`: behind each ScheduledScan there is a pod that
  runs, or one whose end is queued or being handled. Neither is obvious, since Reconcile
  decides with what it saw and calls later: a pod that starts in between is queued by its
  event. For AWS, `EventsFollowPhases` (what the queue says is true of the containers, and
  an older RUNNING is followed by its STOPPED), `RunningFollowsEvents` (the in-memory sets
  are out of date only in what the queue still says) and `WorkFollowsEvent`: of all images
  only that of the first event may disagree with the sets, and only until the event is
  acknowledged; handling it again, after a call that failed or that only seemed to, ends in
  the same state.

### Cascades

`CascadeProofs` proves, for any rules, findings and configurations, cascades of any depth
and width, and any number of kills, failed calls and deletions, from `ConfigAssumption`:
what the CRDs and the API server guarantee of their fields, of the names of rules and of the
ids of findings.

* `CascadeTypeCorrect`: `Spec => []TypeOK`.
* `CascadesDoNotLoop`: `Spec => []ChainsAreLoopFree`. The invariant `Cascade` of all that
  follows: the Scans form a tree (`Tree`), what a hook is about to start are matches of
  rules that are not in its chain (`Due`), and the copies of a match are numbered from one
  on (`Numbered`), so that a new Scan never takes the place of another.
* `ScopeIsNeverLeft`: `Spec => []ScopeIsKept`. It rests on the lemma `InScopeIs`: an
  evaluation of `isInScope` that ends without an error agrees with `Permitted`, for lists
  of requirements of any length, in spite of the negations and the early stops.
* `MatchesAreFollowed`: `Spec => []EveryMatchIsFollowed`. The invariant `Followed`: from the
  moment a hook has computed its matches, each of them is still to come, has a Scan, or is
  lost.
* `MatchesAreNotRepeated`: `Spec => []NoMatchIsFollowedTwice`. The invariant `Counted`: a
  match has at most as many Scans as the hook had pods, and one fewer while this pod may
  still start one.
* `EntriesAreNotPassedOn`: `Spec => []RuleEntriesStayWithTheirScan`, assuming
  `EntriesAreOwn`: the entries of a rule are none of the first Scan's, and its env is not
  rendered. Without that the property is false (section 5); `MCCascades` assumes it too, so
  that TLC evaluates it. The invariant `Own`: a Scan's lists are those of the first Scan, if
  inherited, followed by its rule's. Purging such a list gives the first part back
  (`WithoutTheEnd`), whatever the depth.

Two functions of the code are recursive over lists: a filter and a loop that stops early.
The model has them as the elements left in their order (`Ascending`, in `Orders`) and as
the first outcome that stops (`Stopping`), which needs no induction over data.

### Only model-checked

* Liveness (`EveryScanFinishes`, `DeletionCompletes`, `FinishedScanIsRemoved`,
  `HooksFinish`, `ScheduleCatchesUp`, `ScanTypeChangeIsScanned`, `ReplacedByAnother`,
  `HistoryTrimmed`, `EveryRunningImageIsScanned`, `OrphanedScansAreRemoved`,
  `NewVersionIsScanned`, `CascadeEnds`) is out of reach of the prover. `ScansConverge` is
  the part of `EveryRunningImageIsScanned` and `OrphanedScansAreRemoved` that is not: where
  the discovery comes to rest, the ScheduledScans are right.
* That `HistoryKept` and `SummaryNeverGoesBack` hold without the assumption on names: of the
  instance only.

## 7. Plan

Done: the hooks and their migration, the life of one Scan and its refinement, schedules
and ScanType changes, the auto-discoveries, cascades, and the proofs of section 6.

Left, in this order:

1. A Scan that is deleted and created again under its name while the Jobs of its
   predecessor exist (`job.go`, the index by name).
2. Several scanConfigs per image, and several containers per pod.

### Not modelled

* scbctl: single calls to the API server, without state; their effects are those of users
  in `ScanJobs`.
* Persistence and notification hooks, scanners and parsers: translations between data
  formats. Towards secureCodeBox they are the hooks, scanners and parsers of `ScanJobs`.
* The pull secret extractor, and the telemetry of the operator: they run once, or on
  their own, and share no state with the rest.
* Resource inclusion, names, labels and templates of the auto-discovery: pure functions
  of strings.
