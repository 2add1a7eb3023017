--------------------------- MODULE ScheduledScans ---------------------------
(***************************************************************************)
(* The ScheduledScan controller and the ScanType controller of the operator *)
(* (operator/controllers/execution): one ScheduledScan, the Scans it starts *)
(* and the ScanType they use.                                               *)
(*                                                                          *)
(* Time is a number of ticks.  A Scan is named after the time it was        *)
(* scheduled for (`<name>-<unix time>`), so that a name is a time here.     *)
(* Reconcile makes its calls to the API server one by one; informers lag,   *)
(* users edit, the clock ticks and the operator crashes in between.         *)
(*                                                                          *)
(* Simplifications:                                                         *)
(*  - The life of a Scan is Running, then Done or Errored (ScanReconciler   *)
(*    has the details); a deleted Scan is removed some time later.          *)
(*  - Each Scan has findings of its own: a summary is the name of a Scan.   *)
(*  - The hash of a ScanType is its version, one of two.                    *)
(*  - A delay of 10 seconds or a minute is one tick.                        *)
(*  - No two Scans are created in one second: the order of their creation   *)
(*    is that of their creationTimestamps.                                  *)
(*  - Only the controller deletes Scans.                                    *)
(***************************************************************************)
EXTENDS Integers, FiniteSets

CONSTANTS
    Configs,        \* the configurations to start from (below)
    Day,            \* 24 hours
    MaxTime,        \* bound: the clock
    Quiet           \* assumption: from the read of the ScheduledScan on until a
                    \* Scan created for it is recorded, nobody edits it, no crash
                    \* follows the creation and the recording does not fail

Config == [kind: {"interval", "cron", "none"},   \* spec.interval or spec.schedule
           period: 1..MaxTime + 1,  \* the interval; cron fires at its multiples
           policy: {"Allow", "Forbid", "Replace"},
           limit: Nat,           \* both history limits
           retrigger: BOOLEAN,   \* spec.retriggerOnScanTypeChange
           installed: BOOLEAN,   \* the ScanType exists from the start
           resyncs: BOOLEAN,     \* the caches are resynced from time to time
           fresh: SUBSET {"copy", "list"},  \* assumption: what Reconcile reads is
                                 \* not stale: the ScheduledScan, the List of Scans
           prompt: BOOLEAN,      \* assumption: a Reconcile and the watches take less
                                 \* than a tick
           failures: BOOLEAN,    \* bound: Scans may end Errored
           edits: Nat,           \* bound: edits of the ScheduledScan by users
           typeChanges: Nat,     \* bound: edits of the ScanType
           crashes: Nat,         \* bound: crashes of the operator
           faults: Nat]          \* bound: failed calls

ASSUME ScheduleAssumption ==
    /\ Configs \subseteq Config
    /\ {Day, MaxTime} \subseteq Nat
    /\ Quiet \in BOOLEAN

Never == -(MaxTime + Day) - 2   \* no time, no Scan
Times == (-Day - 1)..(2 * MaxTime + 1)
Types == 0..2                  \* 0: no ScanType, an empty hash

Schedule == [rv: Nat, suspend: BOOLEAN,
             last: Int,        \* status.lastScheduleTime
             hash: Types,      \* status.scanTypeHash
             findings: Int]    \* status.findings
ScanObject == [state: {"Running", "Done", "Errored"}, created: Nat, deleting: BOOLEAN]
IsScans(f) == DOMAIN f \subseteq Times /\ \A n \in DOMAIN f : f[n] \in ScanObject

VARIABLES
    config,    \* the configuration
    now,       \* the clock
    sched,     \* the ScheduledScan in the API server
    scans,     \* its Scans: a function on the names of those that exist
    typ,       \* the version of the ScanType
    cached,    \* sched in the informer cache
    scanCache, \* scans in the informer cache
    typeCache, \* typ in the informer cache
    queued,    \* the ScheduledScan's key is in the work queue
    wake,      \* when it will be added again (RequeueAfter)
    pc,        \* the next step of Reconcile
    obj,       \* its copy of the ScheduledScan
    list,      \* its List of the Scans
    next,      \* nextSchedule
    started,   \* the number of Scans created so far
    scanned,   \* history: the version of the ScanType when the last of them was
    overslept, \* history: the last Reconcile found the next slot to come, and passed
               \* when it computed the delay: it set no timer
    edits, typeChanges, crashes, faults
world == <<config, now, sched, scans, typ>>
caches == <<cached, scanCache, typeCache>>
work == <<pc, obj, list, next, overslept>>
bounds == <<edits, typeChanges, crashes, faults>>
creation == <<started, scanned>>
vars == <<world, caches, queued, wake, work, creation, bounds>>

Steps == {"idle", "findings", "history", "schedule", "replace", "hash", "create",
          "record", "sleep"}

TypeOK ==
    /\ config \in Configs
    /\ {now, started, edits, typeChanges, crashes, faults} \subseteq Nat
    /\ {sched, cached, obj} \subseteq Schedule
    /\ IsScans(scans) /\ IsScans(scanCache) /\ IsScans(list)
    /\ {typ, typeCache, scanned} \subseteq Types
    /\ {queued, overslept} \subseteq BOOLEAN
    /\ {wake, next} \subseteq Int
    /\ pc \in Steps

NoScans == <<>>
NoCopy == [rv |-> 0, suspend |-> FALSE, last |-> Never, hash |-> 0, findings |-> Never]

Init ==
    /\ config \in Configs
    /\ now = 0
    /\ sched = [NoCopy EXCEPT !.rv = 1]
    /\ scans = NoScans
    /\ typ = IF config.installed THEN 1 ELSE 0
    /\ cached = sched /\ scanCache = scans /\ typeCache = typ
    /\ queued = TRUE /\ wake = Never
    /\ pc = "idle" /\ obj = NoCopy /\ list = NoScans /\ next = Never /\ overslept = FALSE
    /\ started = 0 /\ scanned = 0
    /\ edits = 0 /\ typeChanges = 0 /\ crashes = 0 /\ faults = 0

-----------------------------------------------------------------------------
(***************************************************************************)
(* The API server.                                                          *)
(***************************************************************************)
Existing == DOMAIN scans
AcceptsUpdate(o) == o.rv = sched.rv

(* The status subresource of o replaces that of the ScheduledScan. *)
WithStatusOf(o) ==
    LET new == [sched EXCEPT !.last = o.last, !.hash = o.hash, !.findings = o.findings]
    IN  IF new = sched THEN sched ELSE [new EXCEPT !.rv = @ + 1]

Marked(names) == [n \in Existing |-> IF n \in names THEN [scans[n] EXCEPT !.deleting = TRUE]
                                  ELSE scans[n]]

(***************************************************************************)
(* How Reconcile goes on and ends: an error puts the key back into the      *)
(* queue, RequeueAfter sets a timer if it is positive, nil does neither.    *)
(* The copies of an ended Reconcile are forgotten.                          *)
(***************************************************************************)
Rest ==
    /\ pc' = "idle" /\ obj' = NoCopy /\ list' = NoScans /\ next' = Never
    /\ overslept' = (pc = "sleep" /\ next <= now)

ReturnNil == Rest /\ UNCHANGED <<queued, wake, faults>>
ReturnError == Rest /\ queued' = TRUE /\ UNCHANGED <<wake, faults>>
ReturnAt(t) ==
    /\ Rest
    /\ wake' = IF t > now /\ (wake = Never \/ t < wake) THEN t ELSE wake
    /\ UNCHANGED <<queued, faults>>
Goto(step) == pc' = step /\ UNCHANGED <<list, overslept, queued, wake, faults>>

Fails ==
    /\ faults < config.faults /\ (Quiet => pc # "record")
    /\ faults' = faults + 1
    /\ Rest /\ queued' = TRUE /\ UNCHANGED wake

(* What no step of Reconcile changes. *)
Outside == UNCHANGED <<config, now, typ, caches, edits, typeChanges, crashes>>

-----------------------------------------------------------------------------
(***************************************************************************)
(* Reconcile.  A step that would make no call is skipped.                   *)
(***************************************************************************)
InState(all, state) == {n \in DOMAIN all : all[n].state = state}

(* Mutation: sorted the other way round. *)
Oldest(all, state, n) ==
    {a \in InState(all, state) :
        Cardinality({b \in InState(all, state) : all[b].created < all[a].created}) < n}

(* The Scans in one state that have fewer than n newer ones in that state.  *)
Newest(all, state, n) ==
    {a \in InState(all, state) :
        Cardinality({b \in InState(all, state) : all[b].created > all[a].created}) < n}

(* Mutation: the failed Scans are forgotten. *)
OutdatedCompleted(all) == InState(all, "Done") \ Newest(all, "Done", config.limit)

(* What deleteOldScans deletes of the completed and of the failed Scans.    *)
Outdated(all) ==
    UNION {InState(all, s) \ Newest(all, s, config.limit) : s \in {"Done", "Errored"}}

AfterFindings(all) == IF Outdated(all) = {} THEN "schedule" ELSE "history"
AfterList(o, all) ==
    IF Newest(all, "Done", 1) \subseteq {o.findings} THEN AfterFindings(all) ELSE "findings"

Reconcile ==
    LET copy == IF "copy" \in config.fresh THEN sched ELSE cached
        all == IF "list" \in config.fresh THEN scans ELSE scanCache
    IN  /\ pc = "idle" /\ queued
        /\ queued' = FALSE
        /\ obj' = copy /\ list' = all /\ pc' = AfterList(copy, all)
        /\ UNCHANGED <<sched, scans, wake, next, overslept, creation, faults>> /\ Outside

(* The summary of the newest completed Scan goes into the status.           *)
UpdateFindings ==
    /\ pc = "findings"
    /\ \/ /\ AcceptsUpdate(obj)
          /\ \E n \in Newest(list, "Done", 1) :
                sched' = WithStatusOf([obj EXCEPT !.findings = n])
          /\ \/ obj' = sched' /\ Goto(AfterFindings(list)) /\ UNCHANGED next
             \/ Fails
       \/ ~AcceptsUpdate(obj) /\ ReturnAt(now + 1) /\ UNCHANGED sched
       \/ Fails /\ UNCHANGED sched
    /\ UNCHANGED <<scans, creation>> /\ Outside

(* One Delete after the other, in the order of the lists; the first error   *)
(* ends it, and a Scan that is already gone is one.                         *)
Precedes(m, n) ==
    \/ list[m].state = "Done" /\ list[n].state = "Errored"
    \/ list[m].state = list[n].state /\ list[m].created < list[n].created

DeleteAll(names, step) ==
    \/ names \subseteq Existing /\ scans' = Marked(names) /\ Goto(step) /\ UNCHANGED <<obj, next>>
    \/ \E n \in names :
          LET before == {m \in names : Precedes(m, n)}
          IN  /\ before \subseteq Existing
              /\ \/ n \notin Existing /\ ReturnError /\ scans' = Marked(before)
                 \/ Fails /\ scans' \in {Marked(before), Marked(before \cup ({n} \cap Existing))}

deleteOldScans ==
    /\ pc = "history"
    /\ DeleteAll(Outdated(list), "schedule")
    /\ UNCHANGED <<sched, creation>> /\ Outside

(* cron fires at the multiples of its period. *)
NextSlot(t) == ((t \div config.period) + 1) * config.period

(* Mutation: the interval is not added. *)
LastSchedule(o) ==
    IF config.kind = "cron" THEN NextSlot(o.last) ELSE IF o.last = Never THEN now - 1 ELSE o.last

getNextSchedule(o) ==
    IF config.kind = "cron"
    THEN NextSlot(IF o.last = Never THEN 0 ELSE IF o.last > now THEN now ELSE o.last)
    ELSE IF o.last = Never THEN now - 1 ELSE o.last + config.period

(* Mutation: a single Scan does not count. *)
inProgressBeyondOne ==
    IF Cardinality(InState(list, "Running")) > 1 THEN InState(list, "Running") ELSE {}

inProgress == InState(list, "Running")

AfterReplace == IF config.retrigger THEN "hash" ELSE "create"

(* From the next schedule to the decision whether a Scan is created now.    *)
CheckSchedule ==
    LET due == getNextSchedule(obj)
        blocked == config.policy = "Forbid" /\ inProgress # {}
        replaced == config.policy = "Replace" /\ inProgress # {}
    IN  /\ pc = "schedule"
        /\ \/ config.kind = "none" /\ ReturnError
           \/ /\ config.kind # "none"
              /\ obj.suspend \/ (now >= due /\ blocked)
              /\ ReturnAt(now + 1)
           \/ /\ config.kind # "none" /\ ~obj.suspend /\ (now < due \/ ~blocked)
              /\ Goto(CASE now < due -> "sleep"
                        [] now >= due /\ replaced -> "replace"
                        [] OTHER -> AfterReplace)
              /\ next' = due /\ UNCHANGED obj
        /\ UNCHANGED <<sched, scans, creation>> /\ Outside

(* Mutation: no delay is returned. *)
SleepWithoutTimer ==
    /\ pc = "sleep" /\ ReturnNil
    /\ UNCHANGED <<sched, scans, creation>> /\ Outside

(* The delay until the next schedule is computed from a later reading of    *)
(* the clock: a slot that passed since the check leaves no delay and sets   *)
(* no timer.                                                                *)
Sleep ==
    /\ pc = "sleep" /\ ReturnAt(next)
    /\ UNCHANGED <<sched, scans, creation>> /\ Outside

(* Mutation: the Scans are deleted, and none is created. *)
ReplaceByNone ==
    /\ pc = "replace"
    /\ DeleteAll(inProgress, "record")
    /\ UNCHANGED <<sched, creation>> /\ Outside

ReplaceScans ==
    /\ pc = "replace"
    /\ DeleteAll(inProgress, AfterReplace)
    /\ UNCHANGED <<sched, creation>> /\ Outside

(* The patch names the hash alone, and only if it differs from the copy's;  *)
(* its answer replaces the copy.  Without a ScanType nothing more happens.  *)
PatchHash ==
    LET new == IF obj.hash = typeCache \/ sched.hash = typeCache THEN sched
               ELSE [sched EXCEPT !.hash = typeCache, !.rv = @ + 1]
    IN  /\ pc = "hash"
        /\ \/ typeCache = 0 /\ ReturnNil /\ UNCHANGED sched
           \/ typeCache # 0 /\ sched' = new /\ obj' = new /\ Goto("create") /\ UNCHANGED next
           \/ Fails /\ sched' \in {sched, new}
        /\ UNCHANGED <<scans, creation>> /\ Outside

CreateScan ==
    /\ pc = "create"
    /\ \/ next \in Existing /\ ReturnError /\ UNCHANGED <<scans, creation>>
       \/ Fails /\ UNCHANGED <<scans, creation>>
       \/ /\ next \notin Existing
          /\ scans' = [n \in Existing \cup {next} |->
                 IF n = next THEN [state |-> "Running", created |-> started, deleting |-> FALSE]
                 ELSE scans[n]]
          /\ started' = started + 1 /\ scanned' = typ
          /\ \/ Goto("record") /\ UNCHANGED <<obj, next>>
             \/ ~Quiet /\ Fails
    /\ UNCHANGED sched /\ Outside

RecordTime ==
    LET new == [obj EXCEPT !.last = now]
    IN  /\ pc = "record"
        /\ \/ /\ AcceptsUpdate(obj) /\ sched' = WithStatusOf(new)
              /\ \/ obj' = sched' /\ next' = getNextSchedule(new) /\ Goto("sleep")
                 \/ Fails
           \/ ~AcceptsUpdate(obj) /\ ReturnAt(now + 1) /\ UNCHANGED sched
           \/ Fails /\ UNCHANGED sched
        /\ UNCHANGED <<scans, creation>> /\ Outside

ReconcileStep ==
    \/ Reconcile
    \/ UpdateFindings
    \/ deleteOldScans
    \/ CheckSchedule \/ Sleep
    \/ ReplaceScans \/ PatchHash \/ CreateScan \/ RecordTime

-----------------------------------------------------------------------------
(***************************************************************************)
(* The ScanType controller, run every few seconds: a ScheduledScan whose    *)
(* hash is another ScanType's is made due by a time in the past.  Its write *)
(* is that of its cached copy; a conflict changes nothing.                  *)
(***************************************************************************)
(* Mutation: LastScheduleTime becomes now, which is not due. *)
RetriggerFromNow ==
    /\ config.retrigger
    /\ typeCache # 0 /\ cached.hash # 0 /\ cached.hash # typeCache
    /\ AcceptsUpdate(cached)
    /\ sched' = WithStatusOf([cached EXCEPT !.last = now])
    /\ UNCHANGED <<config, now, scans, typ, caches, queued, wake, work, creation, bounds>>

RetriggerScheduledScan ==
    /\ config.retrigger
    /\ typeCache # 0 /\ cached.hash # 0 /\ cached.hash # typeCache
    /\ AcceptsUpdate(cached)
    /\ sched' = WithStatusOf([cached EXCEPT
                    !.last = now - (IF config.kind = "interval" THEN config.period ELSE 0) - Day])
    /\ UNCHANGED <<config, now, scans, typ, caches, queued, wake, work, creation, bounds>>

(***************************************************************************)
(* Informers, timer, clock.                                                 *)
(***************************************************************************)
SyncSched ==
    /\ cached # sched
    /\ cached' = sched /\ queued' = TRUE
    /\ UNCHANGED <<world, scanCache, typeCache, wake, work, creation, bounds>>

SyncScans ==
    /\ scanCache # scans
    /\ scanCache' = scans /\ queued' = TRUE
    /\ UNCHANGED <<world, cached, typeCache, wake, work, creation, bounds>>

SyncType ==
    /\ typeCache # typ
    /\ typeCache' = typ
    /\ UNCHANGED <<world, cached, scanCache, queued, wake, work, creation, bounds>>

TimerFires ==
    /\ wake # Never /\ wake <= now
    /\ wake' = Never /\ queued' = TRUE
    /\ UNCHANGED <<world, caches, work, creation, bounds>>

Resync ==
    /\ config.resyncs /\ ~queued
    /\ queued' = TRUE
    /\ UNCHANGED <<world, caches, wake, work, creation, bounds>>

(* The clock runs on at any time, but for the instances that are prompt.    *)
Tick ==
    /\ now < MaxTime
    /\ config.prompt => pc = "idle" /\ ~queued /\ <<cached, scanCache, typeCache>> = <<sched, scans, typ>>
    /\ now' = now + 1
    /\ UNCHANGED <<config, sched, scans, typ, caches, queued, wake, work, creation, bounds>>

(***************************************************************************)
(* The Scans, the users, crashes.                                           *)
(***************************************************************************)
ScanEnds ==
    /\ \E n \in InState(scans, "Running"), s \in {"Done"} \cup (IF config.failures THEN {"Errored"} ELSE {}) :
          scans' = [scans EXCEPT ![n].state = s]
    /\ UNCHANGED <<config, now, sched, typ, caches, queued, wake, work, creation, bounds>>

ScanRemoved ==
    /\ \E n \in {m \in Existing : scans[m].deleting} :
          scans' = [m \in Existing \ {n} |-> scans[m]]
    /\ UNCHANGED <<config, now, sched, typ, caches, queued, wake, work, creation, bounds>>

(* A label, or spec.suspend.  Under Quiet the informer delivers it before   *)
(* the next Reconcile.                                                      *)
UserEdits ==
    /\ edits < config.edits /\ edits' = edits + 1
    /\ \E s \in BOOLEAN : sched' = [sched EXCEPT !.suspend = s, !.rv = @ + 1]
    /\ IF Quiet THEN pc = "idle" /\ cached' = sched' /\ queued' = TRUE
       ELSE UNCHANGED <<cached, queued>>
    /\ UNCHANGED <<config, now, scans, typ, scanCache, typeCache, wake, work, creation,
                   typeChanges, crashes, faults>>

UserChangesScanType ==
    /\ typeChanges < config.typeChanges /\ typeChanges' = typeChanges + 1
    /\ typ' = IF typ = 1 THEN 2 ELSE 1
    /\ UNCHANGED <<config, now, sched, scans, caches, queued, wake, work, creation,
                   edits, crashes, faults>>

(* The operator restarts: caches filled anew, every key queued, no timers.  *)
Crash ==
    /\ crashes < config.crashes /\ crashes' = crashes + 1
    /\ Quiet => pc # "record"
    /\ Rest /\ queued' = TRUE /\ wake' = Never
    /\ cached' = sched /\ scanCache' = scans /\ typeCache' = typ
    /\ UNCHANGED <<world, creation, edits, typeChanges, faults>>

Next ==
    \/ ReconcileStep \/ RetriggerScheduledScan
    \/ SyncSched \/ SyncScans \/ SyncType \/ TimerFires \/ Resync \/ Tick
    \/ ScanEnds \/ ScanRemoved \/ UserEdits \/ UserChangesScanType \/ Crash

Spec == Init /\ [][Next]_vars

(***************************************************************************)
(* The operator runs, watches deliver, time passes, Scans end and deleted   *)
(* ones are removed.  Nobody has to edit anything and no call has to fail.  *)
(***************************************************************************)
FairSpec ==
    /\ Spec
    /\ WF_vars(ReconcileStep) /\ WF_vars(RetriggerScheduledScan)
    /\ WF_vars(SyncSched) /\ WF_vars(SyncScans) /\ WF_vars(SyncType)
    /\ WF_vars(TimerFires) /\ WF_vars(Resync) /\ WF_vars(Tick)
    /\ WF_vars(ScanEnds) /\ WF_vars(ScanRemoved)
=============================================================================
