--------------------------- MODULE ScheduledProofs ---------------------------
(***************************************************************************)
(* Proofs about the ScheduledScan controller, for all configurations,       *)
(* bounds and assumptions: the types of its state, that Forbid holds        *)
(* wherever the List of the Scans is not stale, that no wake-up is lost,    *)
(* and that the history and the summary of the findings keep the newest     *)
(* Scans.                                                                   *)
(***************************************************************************)
EXTENDS ScheduledProperties, FiniteSetTheorems, TLAPS

(***************************************************************************)
(* A name of a Scan is a time, and Scans are only created at times of a     *)
(* bounded range.  This rests on where LastScheduleTime can come from: the  *)
(* clock, or the ScanType controller's time in the past.                    *)
(***************************************************************************)
Earliest == -Day - (IF config.kind = "interval" THEN config.period ELSE 0)
Past(t) == t = Never \/ (Earliest <= t /\ t <= now)

Timely ==
    /\ now <= MaxTime
    /\ Past(sched.last) /\ Past(cached.last) /\ Past(obj.last)
    /\ pc \in {"replace", "hash", "create"} => next \in Times

Typed == TypeOK /\ Timely

(* Forbid: the List Reconcile decides on shows every Scan that still runs,  *)
(* and once it has decided none does.                                       *)
Alone ==
    config.policy = "Forbid" /\ "list" \in config.fresh =>
        /\ pc \in {"findings", "history", "schedule"} =>
              InState(scans, "Running") \subseteq InState(list, "Running")
        /\ pc \in {"hash", "create"} => InState(scans, "Running") = {}
        /\ pc # "replace"

-----------------------------------------------------------------------------
(***************************************************************************)
(* Arithmetic.                                                              *)
(***************************************************************************)
LEMMA ConfigFields ==
    ASSUME TypeOK
    PROVE  /\ config.kind \in {"interval", "cron", "none"}
           /\ config.period \in Nat /\ 1 <= config.period /\ config.period <= MaxTime + 1
           /\ config.limit \in Nat
           /\ Day \in Nat /\ MaxTime \in Nat /\ now \in Nat
<1>1. config \in Config
  BY ScheduleAssumption DEF TypeOK
<1> QED
  BY <1>1, ScheduleAssumption DEF Config, TypeOK

LEMMA Floor ==
    ASSUME NEW p \in Nat, p > 0, NEW t \in Int
    PROVE  /\ (t \div p + 1) * p \in Int
           /\ t < (t \div p + 1) * p /\ (t \div p + 1) * p <= t + p
<1>1. t \div p \in Int /\ t % p \in Int /\ t = p * (t \div p) + (t % p)
     /\ 0 <= t % p /\ t % p < p
  OBVIOUS
<1>2. \A q \in Int : (q + 1) * p = p * q + p /\ p * q \in Int
  OBVIOUS
<1>3. (t \div p + 1) * p = p * (t \div p) + p /\ p * (t \div p) \in Int
  BY <1>1, <1>2
<1> DEFINE s == (t \div p + 1) * p
           m == p * (t \div p)
           r == t % p
<1>4. s = m + p /\ m \in Int /\ r \in Int /\ t = m + r /\ 0 <= r /\ r < p
  BY <1>1, <1>3
<1>5. s \in Int /\ t < s /\ s <= t + p
  <2> HIDE DEF s, m, r
  <2> QED
    BY <1>4
<1> QED
  BY <1>5

LEMMA NextSlotIsSoon ==
    ASSUME TypeOK, NEW t \in Int
    PROVE  /\ NextSlot(t) \in Int
           /\ t < NextSlot(t) /\ NextSlot(t) <= t + config.period
<1>1. config.period \in Nat /\ config.period > 0
  BY ConfigFields
<1> QED
  BY <1>1, Floor DEF NextSlot

LEMMA NeverIsInt == ASSUME TypeOK PROVE Never \in Int /\ Never < 0
BY ConfigFields DEF Never

LEMMA ScheduleIsInt ==
    ASSUME TypeOK, NEW o \in Schedule
    PROVE  getNextSchedule(o) \in Int
<1>1. o.last \in Int /\ now \in Int /\ config.period \in Int
  BY ConfigFields DEF Schedule
<1>2. \A t \in Int : NextSlot(t) \in Int
  BY NextSlotIsSoon
<1> QED
  BY <1>1, <1>2 DEF getNextSchedule

LEMMA ScheduleIsATime ==
    ASSUME Typed, NEW o \in Schedule, Past(o.last), config.kind # "none"
    PROVE  getNextSchedule(o) \in Times
<1> USE DEF Typed
<1>1. o.last \in Int
  BY DEF Schedule
<1>2. CASE config.kind = "interval"
  BY <1>1, <1>2, ConfigFields DEF getNextSchedule, Times, Past, Earliest, Timely
<1>3. CASE config.kind = "cron"
  <2> DEFINE t == IF o.last = Never THEN 0 ELSE IF o.last > now THEN now ELSE o.last
  <2>1. t \in Int /\ -Day <= t /\ t <= MaxTime
    BY <1>1, <1>3, ConfigFields DEF Past, Earliest, Timely
  <2>2. getNextSchedule(o) = NextSlot(t)
    BY <1>3 DEF getNextSchedule
  <2>3. NextSlot(t) \in Int /\ t < NextSlot(t) /\ NextSlot(t) <= t + config.period
    BY <2>1, NextSlotIsSoon
  <2> QED
    <3> HIDE DEF t
    <3> QED
      BY <2>1, <2>2, <2>3, ConfigFields DEF Times
<1> QED
  BY <1>2, <1>3, ConfigFields

-----------------------------------------------------------------------------
(***************************************************************************)
(* The types of the pieces that the actions are made of.                    *)
(***************************************************************************)
WorkTyped ==
    /\ obj \in Schedule /\ IsScans(list) /\ next \in Int /\ pc \in Steps
    /\ queued \in BOOLEAN /\ overslept \in BOOLEAN /\ wake \in Int /\ faults \in Nat

LEMMA NoCopyTyped ==
    ASSUME TypeOK
    PROVE  NoCopy \in Schedule /\ NoCopy.last = Never /\ IsScans(NoScans)
<1>1. IsScans(NoScans)
  BY DEF IsScans, NoScans
<1> QED
  BY <1>1, NeverIsInt DEF NoCopy, Schedule, Types

LEMMA RestTyped ==
    ASSUME TypeOK, Rest
    PROVE  /\ pc' = "idle" /\ pc' \in Steps /\ obj' \in Schedule /\ obj'.last = Never
           /\ IsScans(list') /\ next' \in Int /\ overslept' \in BOOLEAN
<1>1. overslept' \in BOOLEAN
  BY Zenon DEF Rest
<1> QED
  BY <1>1, NoCopyTyped, NeverIsInt DEF Rest, Steps

LEMMA ReturnTyped ==
    ASSUME TypeOK, ReturnNil \/ ReturnError \/ Fails \/ \E t \in Int : ReturnAt(t)
    PROVE  WorkTyped' /\ pc' = "idle" /\ Past(obj'.last)
<1>1. Rest
  BY DEF ReturnNil, ReturnError, Fails, ReturnAt
<1>2. queued \in BOOLEAN /\ wake \in Int /\ faults \in Nat /\ faults + 1 \in Nat
  BY DEF TypeOK
<1>3. queued' \in BOOLEAN
  <2>1. queued' = queued \/ queued' = TRUE
    BY DEF ReturnNil, ReturnError, Fails, ReturnAt
  <2> QED
    BY <1>2, <2>1
<1>4. wake' \in Int /\ faults' \in Nat
  BY <1>2 DEF ReturnNil, ReturnError, Fails, ReturnAt
<1> QED
  BY <1>1, <1>3, <1>4, RestTyped DEF WorkTyped, Past, IsScans

LEMMA GotoTyped ==
    ASSUME TypeOK, NEW step \in Steps, Goto(step), obj' \in Schedule, next' \in Int
    PROVE  WorkTyped' /\ pc' = step /\ list' = list
BY DEF TypeOK, WorkTyped, Goto, IsScans

LEMMA WithStatusOfTyped ==
    ASSUME TypeOK, NEW o \in Schedule
    PROVE  WithStatusOf(o) \in Schedule /\ WithStatusOf(o).last = o.last
<1> DEFINE new == [sched EXCEPT !.last = o.last, !.hash = o.hash, !.findings = o.findings]
<1>1. new \in Schedule /\ new.last = o.last /\ new.rv \in Nat
  BY DEF TypeOK, Schedule
<1>2. [new EXCEPT !.rv = @ + 1] \in Schedule /\ [new EXCEPT !.rv = @ + 1].last = new.last
  <2> HIDE DEF new
  <2> QED
    BY <1>1 DEF Schedule
<1> QED
  BY <1>1, <1>2 DEF WithStatusOf

LEMMA MarkedTyped ==
    ASSUME TypeOK, NEW names
    PROVE  /\ IsScans(Marked(names)) /\ DOMAIN Marked(names) = Existing
           /\ InState(Marked(names), "Running") = InState(scans, "Running")
<1>1. \A n \in Existing : scans[n] \in ScanObject
  BY DEF TypeOK, IsScans, Existing
<1>2. \A n \in Existing :
        Marked(names)[n] \in ScanObject /\ Marked(names)[n].state = scans[n].state
  BY <1>1 DEF Marked, ScanObject
<1>3. DOMAIN Marked(names) = Existing
  BY DEF Marked
<1> QED
  BY <1>2, <1>3 DEF TypeOK, IsScans, InState, Existing

(* What a step of Reconcile must show of itself.                            *)
LEMMA StepTyped ==
    ASSUME Typed, Outside, WorkTyped',
           sched' \in Schedule, Past(sched'.last), Past(obj'.last),
           IsScans(scans'), started' \in Nat, scanned' \in Types,
           pc' \in {"replace", "hash", "create"} => next' \in Times
    PROVE  Typed'
<1>1. TypeOK'
  BY DEF Typed, TypeOK, Outside, WorkTyped, caches, IsScans
<1>2. Timely'
  BY DEF Typed, Timely, Outside, caches, Past, Earliest, Times
<1> QED
  BY <1>1, <1>2 DEF Typed

(* A step of Reconcile that ends it.                                        *)
LEMMA ReturnStepTyped ==
    ASSUME Typed, Outside,
           ReturnNil \/ ReturnError \/ Fails \/ \E t \in Int : ReturnAt(t),
           sched' \in Schedule, Past(sched'.last),
           IsScans(scans'), started' \in Nat, scanned' \in Types
    PROVE  Typed' /\ pc' = "idle"
<1>1. WorkTyped' /\ pc' = "idle" /\ Past(obj'.last)
  BY ReturnTyped DEF Typed
<1> QED
  BY <1>1, StepTyped

LEMMA DeleteAllTyped ==
    ASSUME Typed, Outside, NEW names, NEW step \in Steps, DeleteAll(names, step),
           UNCHANGED <<sched, creation>>,
           step \in {"replace", "hash", "create"} => next \in Times
    PROVE  /\ Typed'
           /\ Existing' = Existing /\ InState(scans', "Running") = InState(scans, "Running")
           /\ pc' = "idle" \/ (pc' = step /\ list' = list)
<1>0. TypeOK /\ Timely
  BY DEF Typed
<1>1. \E dead : scans' = Marked(dead)
  BY DEF DeleteAll
<1>2. /\ IsScans(scans') /\ Existing' = Existing
      /\ InState(scans', "Running") = InState(scans, "Running")
  BY <1>0, <1>1, MarkedTyped DEF Existing
<1>3. sched' \in Schedule /\ Past(sched'.last) /\ started' \in Nat /\ scanned' \in Types
  BY <1>0 DEF TypeOK, Timely, creation
<1>4. CASE Goto(step) /\ UNCHANGED <<obj, next>>
  <2>1. WorkTyped' /\ pc' = step /\ list' = list
    BY <1>0, <1>4, GotoTyped DEF TypeOK
  <2>2. Past(obj'.last)
    BY <1>0, <1>4 DEF Timely
  <2> QED
    BY <1>2, <1>3, <1>4, <2>1, <2>2, StepTyped
<1>5. CASE ReturnError \/ Fails
  BY <1>2, <1>3, <1>5, ReturnStepTyped
<1> QED
  BY <1>2, <1>4, <1>5 DEF DeleteAll

-----------------------------------------------------------------------------
(***************************************************************************)
(* Every step keeps the types, and Forbid.  One lemma for each action that  *)
(* does more than deliver or wait; a quiet step starts no Scan.             *)
(***************************************************************************)
Quieter ==
    Existing' \subseteq Existing /\ InState(scans', "Running") \subseteq InState(scans, "Running")

LEMMA ScansKept == ASSUME UNCHANGED scans PROVE Quieter
BY DEF Quieter, Existing

LEMMA Fields ==
    ASSUME Typed
    PROVE  /\ TypeOK /\ Timely
           /\ {sched, cached, obj} \subseteq Schedule
           /\ Past(sched.last) /\ Past(cached.last) /\ Past(obj.last)
           /\ IsScans(scans) /\ IsScans(scanCache) /\ IsScans(list)
           /\ started \in Nat /\ scanned \in Types /\ next \in Int
BY DEF Typed, TypeOK, Timely

LEMMA ReconcileTyped == ASSUME Typed, Reconcile PROVE Typed' /\ Quieter
<1> USE Fields
<1>1. /\ obj' \in {sched, cached} /\ list' \in {scans, scanCache}
      /\ pc' \in {"findings", "history", "schedule"}
  BY DEF Reconcile, AfterList, AfterFindings
<1>2. WorkTyped'
  <2>1. IsScans(list')
    BY <1>1
  <2>2. /\ queued' \in BOOLEAN /\ wake' \in Int /\ faults' \in Nat /\ next' \in Int
        /\ overslept' \in BOOLEAN
    BY DEF Reconcile, TypeOK
  <2> QED
    BY <1>1, <2>1, <2>2 DEF WorkTyped, Steps, IsScans
<1>3. Past(obj'.last)
  BY <1>1
<1>4. Outside /\ UNCHANGED <<sched, scans, started, scanned>>
  BY DEF Reconcile, creation
<1> QED
  BY <1>1, <1>2, <1>3, <1>4, StepTyped, ScansKept

LEMMA UpdateFindingsTyped == ASSUME Typed, UpdateFindings PROVE Typed' /\ Quieter
<1> USE Fields
<1>1. Outside /\ UNCHANGED <<scans, started, scanned>>
  BY DEF UpdateFindings, creation
<1>2. CASE UNCHANGED sched /\ (Fails \/ ReturnAt(now + 1))
  <2>1. now + 1 \in Int
    BY ConfigFields
  <2> QED
    BY <1>1, <1>2, <2>1, ReturnStepTyped, ScansKept
<1>3. ASSUME NEW n \in Newest(list, "Done", 1),
             sched' = WithStatusOf([obj EXCEPT !.findings = n]),
             Fails \/ (obj' = sched' /\ Goto(AfterFindings(list)) /\ UNCHANGED next)
      PROVE  Typed'
  <2>1. n \in Int
    BY ConfigFields DEF Newest, InState, IsScans, Times
  <2>2. [obj EXCEPT !.findings = n] \in Schedule /\ [obj EXCEPT !.findings = n].last = obj.last
    BY <2>1 DEF Schedule
  <2>3. sched' \in Schedule /\ Past(sched'.last)
    BY <1>3, <2>2, WithStatusOfTyped
  <2>4. CASE Fails
    BY <1>1, <2>3, <2>4, ReturnStepTyped
  <2>5. CASE obj' = sched' /\ Goto(AfterFindings(list)) /\ UNCHANGED next
    <3>1. AfterFindings(list) \in {"schedule", "history"}
      BY DEF AfterFindings
    <3>2. WorkTyped' /\ pc' \in {"schedule", "history"}
      BY <2>3, <2>5, <3>1, GotoTyped DEF Steps
    <3> QED
      BY <1>1, <2>3, <2>5, <3>2, StepTyped
  <2> QED
    BY <1>3, <2>4, <2>5
<1> QED
  BY <1>1, <1>2, <1>3, ScansKept DEF UpdateFindings

LEMMA deleteOldScansTyped == ASSUME Typed, deleteOldScans PROVE Typed' /\ Quieter
BY DeleteAllTyped DEF deleteOldScans, Steps, Quieter

LEMMA CheckScheduleTyped == ASSUME Typed, CheckSchedule PROVE Typed' /\ Quieter
<1> USE Fields
<1>1. Outside /\ UNCHANGED <<sched, scans, started, scanned>>
  BY DEF CheckSchedule, creation
<1>2. CASE ReturnError \/ ReturnAt(now + 1)
  <2>1. now + 1 \in Int
    BY ConfigFields
  <2> QED
    BY <1>1, <1>2, <2>1, ReturnStepTyped, ScansKept
<1>3. ASSUME NEW step \in {"sleep", "replace", "hash", "create"}, Goto(step),
             config.kind # "none", next' = getNextSchedule(obj), UNCHANGED obj
      PROVE  Typed'
  <2>1. next' \in Int /\ next' \in Times
    BY <1>3, ScheduleIsInt, ScheduleIsATime
  <2>2. WorkTyped'
    BY <1>3, <2>1, GotoTyped DEF Steps
  <2> QED
    BY <1>1, <1>3, <2>1, <2>2, StepTyped
<1> QED
  BY <1>1, <1>2, <1>3, ScansKept DEF CheckSchedule, AfterReplace

LEMMA SleepTyped == ASSUME Typed, Sleep PROVE Typed' /\ Quieter
<1>1. Outside /\ UNCHANGED <<sched, scans, started, scanned>>
  BY DEF Sleep, creation
<1>2. \E t \in Int : ReturnAt(t)
  BY Fields DEF Sleep
<1> QED
  BY <1>1, <1>2, Fields, ReturnStepTyped, ScansKept

LEMMA ReplaceScansTyped == ASSUME Typed, ReplaceScans PROVE Typed' /\ Quieter
<1>1. AfterReplace \in Steps
  BY DEF AfterReplace, Steps
<1>2. next \in Times
  BY DEF ReplaceScans, Typed, Timely
<1> QED
  BY <1>1, <1>2, DeleteAllTyped DEF ReplaceScans, Quieter

LEMMA PatchHashTyped == ASSUME Typed, PatchHash PROVE Typed' /\ Quieter
<1> USE Fields
<1> DEFINE new == IF obj.hash = typeCache \/ sched.hash = typeCache THEN sched
                  ELSE [sched EXCEPT !.hash = typeCache, !.rv = @ + 1]
<1>1. Outside /\ UNCHANGED <<scans, started, scanned>> /\ pc = "hash"
  BY DEF PatchHash, creation
<1>2. new \in Schedule /\ Past(new.last)
  <2>0. sched.rv + 1 \in Nat /\ typeCache \in Types
    BY DEF TypeOK, Schedule
  <2>1. [sched EXCEPT !.hash = typeCache, !.rv = @ + 1] \in Schedule
    BY <2>0 DEF TypeOK, Schedule
  <2>2. [sched EXCEPT !.hash = typeCache, !.rv = @ + 1].last = sched.last
    BY DEF TypeOK, Schedule
  <2> QED
    BY <2>1, <2>2
<1> HIDE DEF new
<1>3. \/ ReturnNil /\ sched' = sched
      \/ sched' = new /\ obj' = new /\ Goto("create") /\ UNCHANGED next
      \/ Fails /\ sched' \in {sched, new}
  BY DEF PatchHash, new
<1>4. CASE (ReturnNil \/ Fails) /\ sched' \in {sched, new}
  <2>1. sched' \in Schedule /\ Past(sched'.last)
    BY <1>2, <1>4
  <2> QED
    BY <1>1, <1>4, <2>1, ReturnStepTyped, ScansKept
<1>5. CASE sched' = new /\ obj' = new /\ Goto("create") /\ UNCHANGED next
  <2>1. WorkTyped'
    BY <1>2, <1>5, GotoTyped DEF Steps
  <2>2. next' \in Times
    BY <1>1, <1>5 DEF Timely
  <2> QED
    BY <1>1, <1>2, <1>5, <2>1, <2>2, StepTyped, ScansKept
<1> QED
  BY <1>3, <1>4, <1>5

LEMMA CreateScanTyped == ASSUME Typed, CreateScan PROVE Typed' /\ pc' \in {"idle", "record"}
<1> USE Fields
<1> DEFINE new == [state |-> "Running", created |-> started, deleting |-> FALSE]
<1>1. Outside /\ UNCHANGED sched /\ pc = "create"
  BY DEF CreateScan
<1>2. next \in Times /\ started \in Nat /\ started + 1 \in Nat /\ typ \in Types
  BY <1>1 DEF Timely, TypeOK
<1>3. CASE UNCHANGED <<scans, creation>> /\ (ReturnError \/ Fails)
  BY <1>1, <1>3, ReturnStepTyped DEF creation
<1>4. CASE /\ scans' = [n \in Existing \cup {next} |-> IF n = next THEN new ELSE scans[n]]
           /\ started' = started + 1 /\ scanned' = typ
           /\ Fails \/ (Goto("record") /\ UNCHANGED <<obj, next>>)
  <2>1. IsScans(scans')
    <3>1. new \in ScanObject
      BY <1>2 DEF ScanObject
    <3>2. DOMAIN scans' = Existing \cup {next}
      BY <1>4 DEF Existing
    <3>3. \A n \in DOMAIN scans' : scans'[n] = IF n = next THEN new ELSE scans[n]
      BY <1>4, <3>2 DEF Existing
    <3> QED
      BY <1>2, <3>1, <3>2, <3>3 DEF IsScans, Existing
  <2>2. CASE Fails
    BY <1>1, <1>2, <1>4, <2>1, <2>2, ReturnStepTyped
  <2>3. CASE Goto("record") /\ UNCHANGED <<obj, next>>
    <3>1. WorkTyped' /\ pc' = "record"
      BY <2>3, GotoTyped DEF Steps
    <3> QED
      BY <1>1, <1>2, <1>4, <2>1, <2>3, <3>1, StepTyped
  <2> QED
    BY <1>4, <2>2, <2>3
<1> QED
  BY <1>3, <1>4 DEF CreateScan

LEMMA RecordTimeTyped == ASSUME Typed, RecordTime PROVE Typed' /\ Quieter
<1> USE Fields
<1> DEFINE new == [obj EXCEPT !.last = now]
<1>1. Outside /\ UNCHANGED <<scans, started, scanned>>
  BY DEF RecordTime, creation
<1>2. new \in Schedule /\ new.last = now
  BY ConfigFields DEF Schedule
<1>3. Past(new.last)
  BY <1>2, ConfigFields DEF Past, Earliest
<1> HIDE DEF new
<1>4. getNextSchedule(new) \in Int /\ now + 1 \in Int
  BY <1>2, ScheduleIsInt, ConfigFields
<1>5. /\ \/ Fails \/ ReturnAt(now + 1)
         \/ obj' = sched' /\ next' = getNextSchedule(new) /\ Goto("sleep")
      /\ sched' \in {sched, WithStatusOf(new)}
  BY DEF RecordTime, new
<1>6. sched' \in Schedule /\ Past(sched'.last)
  BY <1>2, <1>3, <1>5, WithStatusOfTyped
<1>7. CASE Fails \/ ReturnAt(now + 1)
  BY <1>1, <1>4, <1>6, <1>7, ReturnStepTyped, ScansKept
<1>8. CASE obj' = sched' /\ next' = getNextSchedule(new) /\ Goto("sleep")
  <2>1. WorkTyped' /\ pc' = "sleep"
    BY <1>4, <1>6, <1>8, GotoTyped DEF Steps
  <2> QED
    BY <1>1, <1>6, <1>8, <2>1, StepTyped, ScansKept
<1> QED
  BY <1>5, <1>7, <1>8

LEMMA RetriggerTyped == ASSUME Typed, RetriggerScheduledScan PROVE Typed' /\ Quieter
<1> USE Fields
<1> DEFINE t == now - (IF config.kind = "interval" THEN config.period ELSE 0) - Day
           new == [cached EXCEPT !.last = t]
<1>1. t \in Int /\ Past(t)
  BY ConfigFields DEF Past, Earliest
<1> HIDE DEF t
<1>2. new \in Schedule /\ new.last = t
  BY <1>1 DEF Schedule
<1>3. sched' = WithStatusOf(new)
  BY DEF RetriggerScheduledScan, t
<1>4. sched' \in Schedule /\ Past(sched'.last)
  BY <1>1, <1>2, <1>3, WithStatusOfTyped
<1>5. UNCHANGED <<config, now, scans, typ, caches, queued, wake, work, creation, bounds>>
  BY DEF RetriggerScheduledScan
<1>6. TypeOK'
  BY <1>4, <1>5 DEF TypeOK, caches, work, creation, bounds, IsScans
<1>7. Timely'
  BY <1>4, <1>5 DEF Timely, caches, work, Past, Earliest, Times
<1> QED
  BY <1>5, <1>6, <1>7, ScansKept DEF Typed

(***************************************************************************)
(* The steps beside Reconcile.                                              *)
(***************************************************************************)
Delivers == SyncSched \/ SyncScans \/ SyncType \/ TimerFires \/ Resync

LEMMA DeliversTyped == ASSUME Typed, Delivers PROVE Typed' /\ Quieter /\ UNCHANGED <<config, pc, list>>
<1> USE Fields
<1>1. UNCHANGED <<world, work, creation, bounds>>
  BY DEF Delivers, SyncSched, SyncScans, SyncType, TimerFires, Resync
<1>2. /\ cached' \in {sched, cached} /\ scanCache' \in {scans, scanCache}
      /\ typeCache' \in {typ, typeCache}
  BY DEF Delivers, SyncSched, SyncScans, SyncType, TimerFires, Resync, caches
<1>3. queued' \in BOOLEAN
  BY DEF Delivers, SyncSched, SyncScans, SyncType, TimerFires, Resync, TypeOK
<1>4. wake' \in {wake, Never}
  BY DEF Delivers, SyncSched, SyncScans, SyncType, TimerFires, Resync
<1>5. IsScans(scanCache') /\ wake' \in Int
  BY <1>2, <1>4, NeverIsInt DEF TypeOK
<1>6. TypeOK'
  BY <1>1, <1>2, <1>3, <1>5 DEF TypeOK, world, work, creation, bounds, IsScans
<1>7. Timely'
  BY <1>1, <1>2 DEF Timely, world, work, Past, Earliest, Times
<1> QED
  BY <1>1, <1>6, <1>7, ScansKept DEF Typed, world, work

LEMMA TickTyped == ASSUME Typed, Tick PROVE Typed' /\ Quieter /\ UNCHANGED <<config, pc, list>>
<1> USE Fields
<1>1. /\ now < MaxTime /\ now' = now + 1 /\ now' \in Nat /\ now' <= MaxTime
      /\ UNCHANGED <<config, sched, scans, typ, caches, queued, wake, work, creation, bounds>>
  BY ConfigFields DEF Tick
<1>2. TypeOK'
  BY <1>1 DEF TypeOK, caches, work, creation, bounds, IsScans
<1>3. \A o \in Schedule : Past(o.last) => Past(o.last)'
  BY <1>1, ConfigFields DEF Past, Earliest, Schedule
<1>4. Past(sched.last)' /\ Past(cached.last)' /\ Past(obj.last)'
  BY <1>1, <1>3 DEF caches, work, Past, Earliest
<1>5. Timely'
  BY <1>1, <1>4 DEF Timely, work, Times
<1> QED
  BY <1>1, <1>2, <1>5, ScansKept DEF Typed, work

(* A Scan ends, is removed.                                                 *)
LEMMA ScansTyped ==
    ASSUME Typed, ScanEnds \/ ScanRemoved
    PROVE  Typed' /\ Quieter /\ UNCHANGED <<config, pc, list>>
<1> USE Fields
<1>1. UNCHANGED <<config, now, sched, typ, caches, queued, wake, work, creation, bounds>>
  BY DEF ScanEnds, ScanRemoved
<1>2. IsScans(scans') /\ Quieter
  <2>1. CASE ScanEnds
    <3>1. PICK n \in InState(scans, "Running"), s \in {"Done", "Errored"} :
            scans' = [scans EXCEPT ![n].state = s]
      BY <2>1 DEF ScanEnds
    <3>2. /\ DOMAIN scans' = DOMAIN scans
          /\ \A m \in DOMAIN scans : m # n => scans'[m] = scans[m]
          /\ scans'[n] = [scans[n] EXCEPT !.state = s]
      BY <3>1 DEF InState
    <3>3. scans'[n] \in ScanObject /\ scans'[n].state = s /\ s # "Running"
      BY <3>1, <3>2 DEF InState, IsScans, ScanObject
    <3> QED
      BY <3>2, <3>3 DEF IsScans, InState, Quieter, Existing
  <2>2. CASE ScanRemoved
    BY <2>2 DEF ScanRemoved, IsScans, InState, Quieter, Existing
  <2> QED
    BY <2>1, <2>2
<1>3. TypeOK'
  BY <1>1, <1>2 DEF TypeOK, caches, work, creation, bounds, IsScans
<1>4. Timely'
  BY <1>1 DEF Timely, caches, work, Past, Earliest, Times
<1> QED
  BY <1>1, <1>2, <1>3, <1>4 DEF Typed, work

LEMMA UsersTyped ==
    ASSUME Typed, UserEdits \/ UserChangesScanType
    PROVE  Typed' /\ Quieter /\ UNCHANGED <<config, pc, list>>
<1> USE Fields
<1>1. CASE UserEdits
  <2>1. sched.rv + 1 \in Nat /\ edits + 1 \in Nat
    BY DEF TypeOK, Schedule
  <2>2. sched' \in Schedule /\ sched'.last = sched.last
    BY <1>1, <2>1 DEF UserEdits, Schedule
  <2>3. /\ UNCHANGED <<config, now, scans, typ, scanCache, typeCache, wake, work, creation>>
        /\ UNCHANGED <<typeChanges, crashes, faults>> /\ edits' = edits + 1
        /\ cached' \in {cached, sched'}
    BY <1>1 DEF UserEdits
  <2>4. queued' \in BOOLEAN
    BY <1>1 DEF UserEdits, TypeOK
  <2>5. TypeOK'
    BY <2>1, <2>2, <2>3, <2>4 DEF TypeOK, work, creation, IsScans
  <2>6. Timely'
    BY <2>2, <2>3 DEF Timely, work, Past, Earliest, Times
  <2> QED
    BY <2>3, <2>5, <2>6, ScansKept DEF Typed, work
<1>2. CASE UserChangesScanType
  <2>1. /\ UNCHANGED <<config, now, sched, scans, caches, queued, wake, work, creation>>
        /\ UNCHANGED <<edits, crashes, faults>>
        /\ typ' \in Types /\ typeChanges' \in Nat
    BY <1>2 DEF UserChangesScanType, TypeOK, Types
  <2>2. TypeOK'
    BY <2>1 DEF TypeOK, caches, work, creation, IsScans
  <2>3. Timely'
    BY <2>1 DEF Timely, caches, work, Past, Earliest, Times
  <2> QED
    BY <2>1, <2>2, <2>3, ScansKept DEF Typed, work
<1> QED
  BY <1>1, <1>2

LEMMA CrashTyped == ASSUME Typed, Crash PROVE Typed' /\ Quieter /\ pc' = "idle"
<1> USE Fields
<1>1. /\ Rest /\ queued' = TRUE /\ wake' = Never /\ crashes' = crashes + 1
      /\ cached' = sched /\ scanCache' = scans /\ typeCache' = typ
      /\ UNCHANGED <<world, creation, edits, typeChanges, faults>>
  BY DEF Crash
<1>2. /\ pc' = "idle" /\ pc' \in Steps /\ obj' \in Schedule /\ obj'.last = Never
      /\ IsScans(list') /\ next' \in Int /\ overslept' \in BOOLEAN
  BY <1>1, RestTyped
<1>3. crashes' \in Nat /\ wake' \in Int
  BY <1>1, NeverIsInt DEF TypeOK
<1>4. TypeOK'
  BY <1>1, <1>2, <1>3 DEF TypeOK, world, creation, IsScans
<1>5. Timely'
  BY <1>1, <1>2 DEF Timely, world, Past, Earliest, Times
<1> QED
  BY <1>1, <1>2, <1>4, <1>5, ScansKept DEF Typed, world

LEMMA InitTyped == ASSUME Init PROVE Typed
<1>1. TypeOK
  <2>1. config \in Config /\ Never \in Int
    BY ScheduleAssumption DEF Init, Never
  <2>2. NoCopy \in Schedule
    BY <2>1 DEF NoCopy, Schedule, Types
  <2>3. sched \in Schedule
    BY <2>2 DEF Init, Schedule
  <2>4. IsScans(NoScans)
    BY DEF IsScans, NoScans
  <2>5. {queued, overslept} \subseteq BOOLEAN
    BY DEF Init
  <2> QED
    BY <2>1, <2>2, <2>3, <2>4, <2>5 DEF Init, TypeOK, Types, Steps, IsScans
<1>2. Timely
  BY ScheduleAssumption DEF Init, Timely, Past, NoCopy
<1> QED
  BY <1>1, <1>2 DEF Typed

LEMMA NextTyped == ASSUME Typed, [Next]_vars PROVE Typed'
<1>1. CASE UNCHANGED vars
  BY <1>1 DEF vars, world, caches, work, bounds, creation, Typed, TypeOK, Timely, IsScans,
     Past, Earliest, Times
<1>2. CASE ReconcileStep
  BY <1>2, ReconcileTyped, UpdateFindingsTyped, deleteOldScansTyped, CheckScheduleTyped,
     SleepTyped, ReplaceScansTyped, PatchHashTyped, CreateScanTyped, RecordTimeTyped
     DEF ReconcileStep
<1> QED
  BY <1>1, <1>2, RetriggerTyped, DeliversTyped, TickTyped, ScansTyped, UsersTyped, CrashTyped
     DEF Next, Delivers

LEMMA AlwaysTyped == Spec => []Typed
<1>1. Init => Typed
  BY InitTyped
<1>2. Typed /\ [Next]_vars => Typed'
  BY NextTyped
<1> QED
  BY <1>1, <1>2, PTL DEF Spec

(* The state of both controllers keeps its types.  In particular the names  *)
(* of Scans stay in a bounded range of times, although LastScheduleTime is  *)
(* set back by the ScanType controller and the next schedule is computed    *)
(* from it.                                                                 *)
THEOREM ScheduleTypeCorrect == Spec => []TypeOK
<1>1. Typed => TypeOK
  BY DEF Typed
<1> QED
  BY <1>1, AlwaysTyped, PTL

-----------------------------------------------------------------------------
(***************************************************************************)
(* Forbid.                                                                  *)
(***************************************************************************)
LEMMA QuietKeeps ==
    ASSUME Alone, Quieter,
           UNCHANGED config, pc' \in {"idle", "sleep", "record"} \/ UNCHANGED <<pc, list>>
    PROVE  Alone'
BY DEF Alone, Quieter, InState

LEMMA QuietStarts == ASSUME Quieter PROVE Created = {}
BY DEF Quieter, Created

(* A step of Reconcile under Forbid, with Lists that are not stale.         *)
LEMMA ReconcileStepKeeps ==
    ASSUME Typed, Alone, ReconcileStep
    PROVE  /\ Alone'
           /\ config.policy = "Forbid" /\ "list" \in config.fresh /\ Created # {} =>
                 InState(scans, "Running") = {}
<1>0. UNCHANGED config
  BY DEF ReconcileStep, Reconcile, UpdateFindings, deleteOldScans, CheckSchedule, Sleep,
     ReplaceScans, PatchHash, CreateScan, RecordTime, Outside
<1>1. CASE ~(config.policy = "Forbid" /\ "list" \in config.fresh)
  BY <1>0, <1>1 DEF Alone
<1>2. CASE config.policy = "Forbid" /\ "list" \in config.fresh
  <2>1. CASE Reconcile
    <3>1. list' = scans /\ pc' \in {"findings", "history", "schedule"} /\ UNCHANGED scans
      BY <1>2, <2>1 DEF Reconcile, AfterList, AfterFindings
    <3> QED
      BY <1>0, <1>2, <3>1, ScansKept, QuietStarts DEF Alone
  <2>2. CASE UpdateFindings
    <3>1. UNCHANGED scans /\ pc = "findings"
      BY <2>2 DEF UpdateFindings
    <3>2. pc' = "idle" \/ (pc' \in {"history", "schedule"} /\ UNCHANGED list)
      BY <2>2 DEF UpdateFindings, Goto, AfterFindings, ReturnAt, Fails, Rest
    <3> QED
      BY <1>0, <1>2, <3>1, <3>2, ScansKept, QuietStarts DEF Alone
  <2>3. CASE deleteOldScans
    <3>1. /\ pc = "history" /\ Existing' = Existing
          /\ InState(scans', "Running") = InState(scans, "Running")
          /\ pc' = "idle" \/ (pc' = "schedule" /\ UNCHANGED list)
      BY <2>3, DeleteAllTyped DEF deleteOldScans, Steps
    <3> QED
      BY <1>0, <1>2, <3>1 DEF Alone, Created
  <2>4. CASE CheckSchedule
    <3>1. UNCHANGED scans /\ pc = "schedule"
      BY <2>4 DEF CheckSchedule
    <3>2. \/ pc' \in {"idle", "sleep"}
          \/ pc' \in {"hash", "create"} /\ InState(list, "Running") = {}
      BY <1>2, <2>4 DEF CheckSchedule, inProgress, AfterReplace, Goto, ReturnAt, ReturnError, Rest
    <3> QED
      BY <1>0, <1>2, <3>1, <3>2, ScansKept, QuietStarts DEF Alone
  <2>5. CASE Sleep
    BY <1>0, <2>5, ScansKept, QuietStarts, QuietKeeps DEF Sleep, ReturnAt, Rest
  <2>6. CASE ReplaceScans
    BY <1>2, <2>6 DEF ReplaceScans, Alone
  <2>7. CASE PatchHash
    <3>1. UNCHANGED scans /\ pc = "hash" /\ pc' \in {"idle", "create"}
      BY <2>7 DEF PatchHash, Goto, ReturnNil, Fails, Rest
    <3> QED
      BY <1>0, <1>2, <3>1, ScansKept, QuietStarts DEF Alone
  <2>8. CASE CreateScan
    <3>1. pc = "create" /\ pc' \in {"idle", "record"}
      BY <2>8, CreateScanTyped DEF CreateScan
    <3> QED
      BY <1>0, <1>2, <3>1 DEF Alone
  <2>9. CASE RecordTime
    BY <1>0, <2>9, ScansKept, QuietStarts, QuietKeeps DEF RecordTime, Goto, ReturnAt, Fails, Rest
  <2> QED
    BY <2>1, <2>2, <2>3, <2>4, <2>5, <2>6, <2>7, <2>8, <2>9 DEF ReconcileStep
<1> QED
  BY <1>1, <1>2

LEMMA NextKeeps ==
    ASSUME Typed, Alone, [Next]_vars
    PROVE  /\ Alone'
           /\ config.policy = "Forbid" /\ "list" \in config.fresh /\ Created # {} =>
                 InState(scans, "Running") = {}
<1>1. CASE UNCHANGED vars
  BY <1>1, ScansKept, QuietStarts, QuietKeeps DEF vars, world, work
<1>2. CASE ReconcileStep
  BY <1>2, ReconcileStepKeeps
<1>3. CASE RetriggerScheduledScan
  BY <1>3, RetriggerTyped, QuietStarts, QuietKeeps DEF RetriggerScheduledScan, work
<1>4. CASE Crash
  BY <1>4, CrashTyped, QuietStarts, QuietKeeps DEF Crash, world
<1>5. CASE Delivers \/ Tick \/ ScanEnds \/ ScanRemoved \/ UserEdits \/ UserChangesScanType
  BY <1>5, DeliversTyped, TickTyped, ScansTyped, UsersTyped, QuietStarts, QuietKeeps
<1> QED
  BY <1>1, <1>2, <1>3, <1>4, <1>5 DEF Next, Delivers

(* Forbid: no Scan is started beside one that still runs, in whatever state *)
(* the cached ScheduledScan, the ScanType and the operator are.  Between    *)
(* the List and the creation the controller makes up to four calls; nothing *)
(* but itself starts Scans meanwhile.                                       *)
THEOREM ForbidSafe == Spec => ForbidNeverOverlaps
<1>1. Init => Alone
  BY DEF Init, Alone
<1>2. Typed /\ Alone /\ [Next]_vars => Alone'
  BY NextKeeps
<1>3. Typed /\ Alone /\ [Next]_vars =>
        [config.policy = "Forbid" /\ "list" \in config.fresh /\ Created # {} =>
            InState(scans, "Running") = {}]_vars
  BY NextKeeps
<1> QED
  BY <1>1, <1>2, <1>3, AlwaysTyped, PTL DEF Spec, ForbidNeverOverlaps
-----------------------------------------------------------------------------
(***************************************************************************)
(* Copies of the ScheduledScan: one with its resourceVersion is equal to it.*)
(***************************************************************************)
Follows(o, s) == o.rv <= s.rv /\ (o.rv = s.rv => o = s)

Versioned == 1 <= sched.rv /\ Follows(cached, sched) /\ Follows(obj, sched)

(* What a step may do to the ScheduledScan and its copies.                  *)
Advances == sched' = sched \/ sched'.rv = sched.rv + 1
Copies ==
    Advances /\ cached' \in {cached, sched'} /\ obj' \in {obj, NoCopy, cached, sched'}

LEMMA WithStatusOfAdvances ==
    ASSUME TypeOK, NEW o, sched' = WithStatusOf(o)
    PROVE  Advances
BY DEF WithStatusOf, Advances, TypeOK, Schedule

LEMMA ReturnsForget ==
    ASSUME ReturnNil \/ ReturnError \/ Fails \/ \E t \in Int : ReturnAt(t)
    PROVE  /\ pc' = "idle" /\ obj' = NoCopy /\ list' = NoScans /\ next' = Never
           /\ queued' = queued \/ queued' = TRUE
BY DEF ReturnNil, ReturnError, Fails, ReturnAt, Rest

LEMMA DeleteAllCopies ==
    ASSUME NEW names, NEW step, DeleteAll(names, step), Outside, UNCHANGED sched
    PROVE  Copies
<1>1. obj' \in {obj, NoCopy}
  BY DEF DeleteAll, ReturnError, Fails, Rest
<1> QED
  BY <1>1 DEF Copies, Advances, Outside, caches

LEMMA ReconcileStepCopies == ASSUME Typed, ReconcileStep PROVE Copies
<1>0. TypeOK /\ now + 1 \in Int
  BY ConfigFields DEF Typed
<1>1. CASE Reconcile
  BY <1>1 DEF Reconcile, Copies, Advances, Outside, caches
<1>2. CASE UpdateFindings
  <2>1. \/ UNCHANGED sched
        \/ \E n \in Newest(list, "Done", 1) : sched' = WithStatusOf([obj EXCEPT !.findings = n])
    BY <1>2 DEF UpdateFindings
  <2>2. Advances
    BY <1>0, <2>1, WithStatusOfAdvances DEF Advances
  <2>3. obj' \in {NoCopy, sched'} /\ cached' = cached
    BY <1>2 DEF UpdateFindings, Outside, caches, ReturnAt, Fails, Rest
  <2> QED
    BY <2>2, <2>3 DEF Copies
<1>3. CASE deleteOldScans \/ ReplaceScans
  BY <1>3, DeleteAllCopies DEF deleteOldScans, ReplaceScans
<1>4. CASE CheckSchedule \/ Sleep \/ CreateScan
  <2>1. UNCHANGED <<sched, cached>> /\ obj' \in {obj, NoCopy}
    BY <1>4 DEF CheckSchedule, Sleep, CreateScan, Outside, caches, ReturnError, ReturnAt, Fails, Rest
  <2> QED
    BY <2>1 DEF Copies, Advances
<1>5. CASE PatchHash
  <2> DEFINE new == IF obj.hash = typeCache \/ sched.hash = typeCache THEN sched
                    ELSE [sched EXCEPT !.hash = typeCache, !.rv = @ + 1]
  <2>1. new = sched \/ new.rv = sched.rv + 1
    BY <1>0 DEF TypeOK, Schedule
  <2>2. sched' \in {sched, new} /\ (obj' = NoCopy \/ (obj' = sched' /\ sched' = new)) /\ cached' = cached
    BY <1>5 DEF PatchHash, Outside, caches, ReturnNil, Fails, Rest
  <2> QED
    BY <2>1, <2>2 DEF Copies, Advances
<1>6. CASE RecordTime
  <2>1. UNCHANGED sched \/ sched' = WithStatusOf([obj EXCEPT !.last = now])
    BY <1>6 DEF RecordTime
  <2>2. Advances
    BY <1>0, <2>1, WithStatusOfAdvances DEF Advances
  <2>3. obj' \in {NoCopy, sched'} /\ cached' = cached
    BY <1>6 DEF RecordTime, Outside, caches, ReturnAt, Fails, Rest
  <2> QED
    BY <2>2, <2>3 DEF Copies
<1> QED
  BY <1>1, <1>2, <1>3, <1>4, <1>5, <1>6 DEF ReconcileStep

LEMMA NextCopies == ASSUME Typed, [Next]_vars PROVE Copies
<1>0. TypeOK
  BY DEF Typed
<1>1. CASE ReconcileStep
  BY <1>1, ReconcileStepCopies
<1>2. CASE RetriggerScheduledScan
  <2>1. \E o : sched' = WithStatusOf(o)
    BY <1>2 DEF RetriggerScheduledScan
  <2> QED
    BY <1>0, <1>2, <2>1, WithStatusOfAdvances DEF RetriggerScheduledScan, Copies, caches, work
<1>3. CASE UserEdits
  <2>1. sched'.rv = sched.rv + 1
    BY <1>0, <1>3 DEF UserEdits, TypeOK, Schedule
  <2> QED
    BY <1>3, <2>1 DEF UserEdits, Copies, Advances, work
<1>4. CASE \/ SyncSched \/ SyncScans \/ SyncType \/ TimerFires \/ Resync \/ Tick
           \/ ScanEnds \/ ScanRemoved \/ UserChangesScanType \/ Crash \/ UNCHANGED vars
  <2>1. UNCHANGED sched /\ cached' \in {cached, sched} /\ obj' \in {obj, NoCopy}
    BY <1>4 DEF SyncSched, SyncScans, SyncType, TimerFires, Resync, Tick, ScanEnds, ScanRemoved,
       UserChangesScanType, Crash, Rest, vars, world, caches, work
  <2> QED
    BY <2>1 DEF Copies, Advances
<1> QED
  BY <1>1, <1>2, <1>3, <1>4 DEF Next

LEMMA NextVersioned == ASSUME Typed, Versioned, [Next]_vars PROVE Versioned'
<1>1. Copies
  BY NextCopies
<1>2. {sched, cached, obj, sched'} \subseteq Schedule
  BY NextTyped DEF Typed, TypeOK
<1>3. NoCopy.rv = 0
  BY DEF NoCopy
<1>4. \A o \in {cached, obj} : Follows(o, sched')
  BY <1>1, <1>2 DEF Versioned, Copies, Advances, Follows, Schedule
<1>5. 1 <= sched'.rv
  BY <1>1, <1>2 DEF Versioned, Copies, Advances, Schedule
<1>6. Follows(NoCopy, sched') /\ Follows(sched', sched')
  BY <1>2, <1>3, <1>5 DEF Follows, Schedule
<1>7. Follows(cached', sched') /\ Follows(obj', sched')
  BY <1>1, <1>4, <1>6 DEF Copies
<1> QED
  BY <1>5, <1>7 DEF Versioned, Follows

LEMMA AlwaysVersioned == Spec => []Versioned
<1>1. Init => Versioned
  <2> SUFFICES ASSUME Init PROVE Versioned
    OBVIOUS
  <2>1. sched.rv = 1 /\ cached = sched /\ obj.rv = 0
    BY DEF Init, NoCopy
  <2> QED
    BY <2>1 DEF Versioned, Follows
<1>2. Typed /\ Versioned /\ [Next]_vars => Versioned'
  BY NextVersioned
<1> QED
  BY <1>1, <1>2, AlwaysTyped, PTL DEF Spec

-----------------------------------------------------------------------------
(***************************************************************************)
(* No wake-up is lost.                                                      *)
(***************************************************************************)
Relied == config.kind # "none" /\ (config.retrigger => config.installed)

(* Nothing but the timer will make Reconcile run.                           *)
TimerOnly == ~queued /\ cached = sched

Waking ==
    Relied =>
        /\ config.retrigger => typ # 0 /\ typeCache # 0
        /\ pc = "hash" => config.retrigger
        /\ pc = "sleep" => next <= getNextSchedule(obj)
        /\ pc # "idle" /\ TimerOnly => obj = sched
        /\ pc = "idle" /\ TimerOnly /\ ~overslept =>
              wake # Never /\ (wake <= getNextSchedule(sched) \/ wake <= now + 1)

(* A timer set in time: ReturnAt keeps the earlier of two.                  *)
LEMMA ReturnAtWakes ==
    ASSUME TypeOK, NEW t \in Int, now < t, ReturnAt(t)
    PROVE  wake' # Never /\ wake' <= t
BY ConfigFields, NeverIsInt DEF ReturnAt, TypeOK

(* A step that ends a Reconcile.                                            *)
LEMMA ReturnKeepsWaking ==
    ASSUME Typed, Typed', Waking, Outside, pc' = "idle",
           \/ queued' = TRUE
           \/ overslept' = TRUE
           \/ \E t \in Int : /\ now < t /\ ReturnAt(t)
                             /\ t <= now + 1 \/ (Relied /\ TimerOnly' => t <= getNextSchedule(sched)')
    PROVE  Waking'
<1>1. /\ Relied' = Relied /\ now' = now /\ config' = config
      /\ config.retrigger /\ Relied => typ' # 0 /\ typeCache' # 0
  BY DEF Outside, caches, Relied, Waking
<1>2. CASE queued' = TRUE \/ overslept' = TRUE
  BY <1>1, <1>2 DEF Waking, TimerOnly
<1>3. ASSUME NEW t \in Int, now < t, ReturnAt(t),
             t <= now + 1 \/ (Relied /\ TimerOnly' => t <= getNextSchedule(sched)')
      PROVE  Waking'
  <2>1. wake' # Never /\ wake' <= t /\ wake' \in Int /\ now \in Int
    BY <1>3, ReturnAtWakes, ConfigFields DEF Typed, TypeOK
  <2>2. getNextSchedule(sched)' \in Int
    <3>1. sched' \in Schedule /\ config' = config /\ now' = now
      BY DEF Typed, TypeOK, Outside
    <3>2. config.period \in Int /\ sched'.last \in Int /\ now \in Int
      BY <3>1, ConfigFields DEF Schedule, Typed
    <3>3. \A u \in Int : NextSlot(u) \in Int
      BY NextSlotIsSoon DEF Typed
    <3>4. \A u \in Int : NextSlot(u)' \in Int
      BY <3>1, <3>3 DEF NextSlot
    <3> QED
      BY <3>1, <3>2, <3>4 DEF getNextSchedule
  <2>3. Relied' /\ TimerOnly' => wake' <= getNextSchedule(sched)' \/ wake' <= now' + 1
    BY <1>1, <1>3, <2>1, <2>2
  <2> QED
    BY <1>1, <2>1, <2>3 DEF Waking
<1> QED
  BY <1>2, <1>3

(* A step that goes on.  If it changes the ScheduledScan, its copy does too,*)
(* or the informer will bring the change.                                   *)
LEMMA GoOnKeepsWaking ==
    ASSUME Typed, Versioned, Waking, Outside, Copies, UNCHANGED queued,
           pc # "idle", pc' \notin {"idle", "sleep"},
           obj' = sched' \/ obj' = obj,
           pc' = "hash" => config.retrigger
    PROVE  Waking'
<1>1. Relied' = Relied /\ cached' = cached /\ (config.retrigger /\ Relied => typ' # 0 /\ typeCache' # 0)
  BY DEF Outside, caches, Relied, Waking
<1>2. sched' # sched => cached' # sched'
  BY <1>1 DEF Copies, Advances, Versioned, Follows, Typed, TypeOK, Schedule
<1>3. Relied /\ TimerOnly' => obj' = sched'
  BY <1>1, <1>2 DEF Waking, TimerOnly
<1> QED
  BY <1>1, <1>3 DEF Waking, Outside

LEMMA DeleteAllKeepsWaking ==
    ASSUME Typed, Typed', Versioned, Waking, Copies, Outside,
           NEW names, NEW step, DeleteAll(names, step), UNCHANGED sched,
           pc # "idle", step \notin {"idle", "sleep"}, step = "hash" => config.retrigger
    PROVE  Waking'
<1>1. CASE ReturnError \/ Fails
  BY <1>1, ReturnKeepsWaking DEF ReturnError, Fails, Rest
<1>2. CASE Goto(step) /\ UNCHANGED <<obj, next>>
  BY <1>2, GoOnKeepsWaking DEF Goto
<1> QED
  BY <1>1, <1>2 DEF DeleteAll

LEMMA ReconcileStepWakes ==
    ASSUME Typed, Typed', Versioned, Waking, Copies, ReconcileStep
    PROVE  Waking'
<1> USE Fields
<1>0. Outside /\ now \in Nat /\ now + 1 \in Int /\ now < now + 1
  BY ConfigFields DEF ReconcileStep, Reconcile, UpdateFindings, deleteOldScans, CheckSchedule, Sleep,
     ReplaceScans, PatchHash, CreateScan, RecordTime
<1>1. CASE ReturnError \/ Fails
  BY <1>0, <1>1, ReturnKeepsWaking DEF ReturnError, Fails, Rest
<1>2. CASE ReturnAt(now + 1)
  <2>1. pc' = "idle"
    BY <1>2 DEF ReturnAt, Rest
  <2>2. \E t \in Int : now < t /\ ReturnAt(t) /\ t <= now + 1
    BY <1>0, <1>2
  <2> QED
    BY <1>0, <2>1, <2>2, ReturnKeepsWaking
<1>3. CASE Reconcile
  <2>1. /\ pc' \in {"findings", "history", "schedule"} /\ UNCHANGED sched
        /\ obj' \in {sched, cached} /\ cached' = cached
    BY <1>0, <1>3 DEF Reconcile, AfterList, AfterFindings, Outside, caches
  <2> QED
    BY <1>0, <2>1 DEF Waking, TimerOnly, Outside, caches, Relied
<1>4. CASE UpdateFindings
  <2>1. \/ Fails \/ ReturnAt(now + 1)
        \/ obj' = sched' /\ Goto(AfterFindings(list))
    BY <1>4 DEF UpdateFindings
  <2>2. CASE obj' = sched' /\ Goto(AfterFindings(list))
    BY <1>0, <1>4, <2>2, GoOnKeepsWaking DEF UpdateFindings, Goto, AfterFindings
  <2> QED
    BY <1>1, <1>2, <2>1, <2>2
<1>5. CASE deleteOldScans
  BY <1>0, <1>5, DeleteAllKeepsWaking DEF deleteOldScans
<1>6. CASE CheckSchedule
  <2>1. ASSUME NEW step \in {"replace", "hash", "create"}, Goto(step),
               step = "hash" => config.retrigger, UNCHANGED obj
        PROVE  Waking'
    BY <1>0, <1>6, <2>1, GoOnKeepsWaking DEF CheckSchedule, Goto
  <2>2. ASSUME Goto("sleep"), UNCHANGED obj, next' = getNextSchedule(obj)
        PROVE  Waking'
    <3>1. /\ pc' = "sleep" /\ UNCHANGED <<sched, cached, queued, config, now, typ, typeCache>>
          /\ pc = "schedule"
      BY <1>0, <1>6, <2>2 DEF CheckSchedule, Goto, Outside, caches
    <3>2. getNextSchedule(obj)' = getNextSchedule(obj)
      BY <2>2, <3>1 DEF getNextSchedule, NextSlot
    <3>3. next' <= getNextSchedule(obj)'
      BY <2>2, <3>2, ScheduleIsInt
    <3> QED
      BY <2>2, <3>1, <3>3 DEF Waking, TimerOnly, Relied
  <2>3. \/ ReturnError \/ ReturnAt(now + 1)
        \/ /\ UNCHANGED obj /\ next' = getNextSchedule(obj)
           /\ \/ Goto("sleep")
              \/ Goto("replace") \/ Goto(AfterReplace)
    BY <1>6 DEF CheckSchedule
  <2> QED
    BY <1>1, <1>2, <2>1, <2>2, <2>3 DEF AfterReplace
<1>7. CASE Sleep
  <2>1. pc = "sleep" /\ ReturnAt(next) /\ UNCHANGED sched /\ pc' = "idle"
    BY <1>7 DEF Sleep, ReturnAt, Rest
  <2>2. CASE ~Relied
    BY <1>0, <2>2 DEF Waking, Relied, Outside
  <2>3. CASE Relied
    <3>1. next <= getNextSchedule(obj)
      BY <2>1, <2>3 DEF Waking
    <3>2. TimerOnly' => obj = sched
      BY <1>0, <2>1, <2>3 DEF Waking, TimerOnly, Outside, caches, ReturnAt
    <3>3. getNextSchedule(sched)' = getNextSchedule(sched)
      BY <1>0, <2>1 DEF getNextSchedule, NextSlot, Outside
    <3>4. TimerOnly' => next <= getNextSchedule(sched)'
      BY <3>1, <3>2, <3>3
    <3>5. CASE next <= now
      <4>1. overslept' = TRUE
        BY <2>1, <3>5 DEF ReturnAt, Rest
      <4> QED
        BY <1>0, <2>1, <4>1, ReturnKeepsWaking
    <3>6. CASE now < next
      BY <1>0, <2>1, <3>4, <3>6, ReturnKeepsWaking
    <3> QED
      BY <1>0, <3>5, <3>6
  <2> QED
    BY <2>2, <2>3
<1>8. CASE ReplaceScans
  BY <1>0, <1>8, DeleteAllKeepsWaking DEF ReplaceScans, AfterReplace
<1>9. CASE PatchHash
  <2>1. CASE typeCache = 0 /\ ReturnNil
    <3>1. pc = "hash" /\ pc' = "idle"
      BY <1>9, <2>1 DEF PatchHash, ReturnNil, Rest
    <3>2. ~Relied
      BY <2>1, <3>1 DEF Waking
    <3> QED
      BY <1>0, <3>2 DEF Waking, Relied, Outside
  <2>2. CASE obj' = sched' /\ Goto("create")
    BY <1>0, <1>9, <2>2, GoOnKeepsWaking DEF PatchHash, Goto
  <2>3. (typeCache = 0 /\ ReturnNil) \/ (obj' = sched' /\ Goto("create")) \/ Fails
    BY <1>9 DEF PatchHash
  <2> QED
    BY <1>1, <2>1, <2>2, <2>3
<1>10. CASE CreateScan
  <2>1. CASE Goto("record") /\ UNCHANGED <<obj, next>>
    BY <1>0, <1>10, <2>1, GoOnKeepsWaking DEF CreateScan, Goto
  <2>2. ReturnError \/ Fails \/ (Goto("record") /\ UNCHANGED <<obj, next>>)
    BY <1>10 DEF CreateScan
  <2> QED
    BY <1>1, <2>1, <2>2
<1>11. CASE RecordTime
  <2> DEFINE new == [obj EXCEPT !.last = now]
  <2>1. new \in Schedule /\ new.last = now
    BY <1>0, ConfigFields DEF Schedule
  <2>2. /\ pc = "record"
        /\ \/ Fails \/ ReturnAt(now + 1)
           \/ obj' = sched' /\ next' = getNextSchedule(new) /\ Goto("sleep") /\ sched' = WithStatusOf(new)
    BY <1>11 DEF RecordTime
  <2> HIDE DEF new
  <2>3. CASE /\ obj' = sched' /\ next' = getNextSchedule(new) /\ Goto("sleep")
             /\ sched' = WithStatusOf(new)
    <3>1. pc' = "sleep" /\ UNCHANGED queued
      BY <2>3 DEF Goto
    <3>2. obj'.last = now
      BY <2>1, <2>3, WithStatusOfTyped
    <3>3. getNextSchedule(new) \in Int
      BY <2>1, ScheduleIsInt
    <3>4. getNextSchedule(obj)' = getNextSchedule(new)
      BY <1>0, <2>1, <3>2 DEF getNextSchedule, NextSlot, Outside
    <3>5. next' <= getNextSchedule(obj)'
      BY <2>3, <3>3, <3>4
    <3>6. Relied' = Relied /\ (config.retrigger /\ Relied => typ' # 0 /\ typeCache' # 0)
      BY <1>0 DEF Outside, caches, Relied, Waking
    <3> QED
      BY <1>0, <2>3, <3>1, <3>5, <3>6 DEF Waking, Outside
  <2> QED
    BY <1>1, <1>2, <2>2, <2>3
<1> QED
  BY <1>3, <1>4, <1>5, <1>6, <1>7, <1>8, <1>9, <1>10, <1>11 DEF ReconcileStep

(* Steps beside Reconcile that leave an event.                              *)
LEMMA EventKeepsWaking ==
    ASSUME Waking, UNCHANGED <<config, now>>, queued' = TRUE,
           pc' = "idle" \/ UNCHANGED <<pc, obj, next>>,
           typ' \in {typ, 1, 2}, typeCache' \in {typ, typeCache}
    PROVE  Waking'
<1>1. Relied' = Relied /\ \A o \in {obj} : getNextSchedule(o)' = getNextSchedule(o)
  BY DEF Relied, getNextSchedule, NextSlot
<1>2. CASE pc' = "idle"
  BY <1>1, <1>2 DEF Waking, TimerOnly
<1>3. CASE UNCHANGED <<pc, obj, next>>
  <2>1. getNextSchedule(obj)' = getNextSchedule(obj)
    BY <1>3 DEF getNextSchedule, NextSlot
  <2> QED
    BY <1>1, <1>3, <2>1 DEF Waking, TimerOnly
<1> QED
  BY <1>2, <1>3

(* Steps that leave none.                                                   *)
LEMMA OtherKeepsWaking ==
    ASSUME Typed, Versioned, Waking, Copies,
           UNCHANGED <<config, now, pc, obj, next, overslept, cached, queued, wake>>,
           typ' \in {typ, 1, 2}, typeCache' \in {typ, typeCache}
    PROVE  Waking'
<1>1. Relied' = Relied
  BY DEF Relied
<1>2. sched' # sched => cached' # sched'
  BY DEF Copies, Advances, Versioned, Follows, Typed, TypeOK, Schedule
<1>3. getNextSchedule(obj)' = getNextSchedule(obj)
  BY DEF getNextSchedule, NextSlot
<1>4. sched' = sched => getNextSchedule(sched)' = getNextSchedule(sched)
  BY DEF getNextSchedule, NextSlot
<1> QED
  BY <1>1, <1>2, <1>3, <1>4 DEF Waking, TimerOnly

(* The clock does not bring the next slot of a ScheduledScan nearer.        *)
LEMMA SlotStays ==
    ASSUME Typed, Tick, NEW o \in Schedule, Past(o.last), config.kind # "none"
    PROVE  /\ getNextSchedule(o) \in Int /\ getNextSchedule(o)' \in Int
           /\ getNextSchedule(o) <= getNextSchedule(o)'
<1> USE Fields
<1>1. /\ now' = now + 1 /\ now \in Nat /\ config' = config
      /\ o.last \in Int /\ config.period \in Int
  BY ConfigFields DEF Tick, Schedule
<1>2. getNextSchedule(o) \in Int
  BY ScheduleIsInt
<1>3. getNextSchedule(o)' \in Int
  <2>1. \A t \in Int : NextSlot(t)' \in Int
    BY <1>1, NextSlotIsSoon DEF NextSlot
  <2> QED
    BY <1>1, <2>1 DEF getNextSchedule
<1>4. CASE config.kind = "cron"
  <2>1. o.last = Never \/ (~(o.last > now) /\ ~(o.last > now + 1))
    BY <1>1, ConfigFields DEF Past
  <2>2. getNextSchedule(o)' = getNextSchedule(o)
    BY <1>1, <1>4, <2>1 DEF getNextSchedule, NextSlot
  <2> QED
    BY <1>2, <2>2
<1>5. CASE config.kind = "interval"
  BY <1>1, <1>5, ConfigFields DEF getNextSchedule
<1> QED
  BY <1>2, <1>3, <1>4, <1>5, ConfigFields

LEMMA TickKeepsWaking == ASSUME Typed, Typed', Waking, Tick PROVE Waking'
<1> USE Fields
<1>1. /\ now' = now + 1 /\ now \in Nat
      /\ UNCHANGED <<config, sched, typ, cached, typeCache, queued, wake, pc, obj, next, overslept>>
  BY ConfigFields DEF Tick, caches, work
<1>2. CASE ~Relied
  BY <1>1, <1>2 DEF Waking, Relied
<1>3. CASE Relied
  <2>1. Relied' /\ config.kind # "none"
    BY <1>1, <1>3 DEF Relied
  <2>2. PICK s \in Schedule : s = sched /\ Past(s.last)
    OBVIOUS
  <2>3. PICK o \in Schedule : o = obj /\ Past(o.last)
    OBVIOUS
  <2>4. getNextSchedule(sched)' = getNextSchedule(s)' /\ getNextSchedule(obj)' = getNextSchedule(o)'
    BY <1>1, <2>2, <2>3 DEF getNextSchedule
  <2>5. /\ getNextSchedule(s) \in Int /\ getNextSchedule(s)' \in Int
        /\ getNextSchedule(s) <= getNextSchedule(s)'
        /\ getNextSchedule(o) \in Int /\ getNextSchedule(o)' \in Int
        /\ getNextSchedule(o) <= getNextSchedule(o)'
    BY <2>1, <2>2, <2>3, SlotStays
  <2>6. wake \in Int /\ next \in Int
    BY DEF TypeOK
  <2>7. pc = "sleep" => next <= getNextSchedule(o)'
    BY <1>3, <2>3, <2>5, <2>6 DEF Waking
  <2>8. pc = "idle" /\ TimerOnly /\ ~overslept =>
           wake # Never /\ (wake <= getNextSchedule(s)' \/ wake <= now' + 1)
    BY <1>1, <1>3, <2>2, <2>5, <2>6 DEF Waking
  <2> QED
    BY <1>1, <1>3, <2>1, <2>4, <2>7, <2>8 DEF Waking, TimerOnly
<1> QED
  BY <1>2, <1>3

LEMMA NextWakes == ASSUME Typed, Versioned, Waking, [Next]_vars PROVE Waking'
<1>1. Typed' /\ Copies
  BY NextTyped, NextCopies
<1>2. CASE ReconcileStep
  BY <1>1, <1>2, ReconcileStepWakes
<1>3. CASE Tick
  BY <1>1, <1>3, TickKeepsWaking
<1>4. CASE SyncSched \/ SyncScans \/ TimerFires \/ Resync \/ Crash
  <2>1. UNCHANGED <<config, now>> /\ queued' = TRUE /\ typ' = typ /\ typeCache' \in {typ, typeCache}
    BY <1>4 DEF SyncSched, SyncScans, TimerFires, Resync, Crash, world, caches
  <2>2. pc' = "idle" \/ UNCHANGED <<pc, obj, next>>
    BY <1>4 DEF SyncSched, SyncScans, TimerFires, Resync, Crash, work, Rest
  <2> QED
    BY <2>1, <2>2, EventKeepsWaking
<1>5. CASE RetriggerScheduledScan \/ SyncType \/ ScanEnds \/ ScanRemoved \/ UserChangesScanType
           \/ UNCHANGED vars
  <2>1. UNCHANGED <<config, now, pc, obj, next, overslept, cached, queued, wake>>
    BY <1>5 DEF RetriggerScheduledScan, SyncType, ScanEnds, ScanRemoved, UserChangesScanType, vars,
       world, caches, work
  <2>2. typ' \in {typ, 1, 2} /\ typeCache' \in {typ, typeCache}
    BY <1>5 DEF RetriggerScheduledScan, SyncType, ScanEnds, ScanRemoved, UserChangesScanType, vars,
       world, caches
  <2> QED
    BY <1>1, <2>1, <2>2, OtherKeepsWaking
<1>6. CASE UserEdits
  <2>1. UNCHANGED <<config, now, pc, obj, next, overslept, wake, typ, typeCache>>
    BY <1>6 DEF UserEdits, work
  <2>2. queued' = TRUE \/ UNCHANGED <<cached, queued>>
    BY <1>6 DEF UserEdits
  <2> QED
    BY <1>1, <2>1, <2>2, OtherKeepsWaking, EventKeepsWaking
<1> QED
  BY <1>2, <1>3, <1>4, <1>5, <1>6 DEF Next

(* A ScheduledScan is never forgotten, whatever is edited, lost or crashes. *)
(* The invariant Waking follows the promise through a Reconcile: if no      *)
(* event came meanwhile, the copy it decides on is the ScheduledScan, and   *)
(* the time it will sleep until is not after the next slot of that one; the *)
(* clock may pass it at any time.                                           *)
THEOREM NeverForgotten == Spec => []NoWakeUpIsLost
<1>1. Init => Waking
  <2> SUFFICES ASSUME Init PROVE Waking
    OBVIOUS
  <2>1. pc = "idle" /\ queued
    BY DEF Init
  <2>2. Relied /\ config.retrigger => typ # 0 /\ typeCache # 0
    BY DEF Init, Relied
  <2> QED
    BY <2>1, <2>2 DEF Waking, TimerOnly
<1>2. Typed /\ Versioned /\ Waking /\ [Next]_vars => Waking'
  BY NextWakes
<1>3. Waking => NoWakeUpIsLost
  BY DEF Waking, NoWakeUpIsLost, Relied, TimerOnly
<1> QED
  BY <1>1, <1>2, <1>3, AlwaysTyped, AlwaysVersioned, PTL DEF Spec

-----------------------------------------------------------------------------
(***************************************************************************)
(* Newest Scans.                                                            *)
(***************************************************************************)
LEMMA NamesAreFinite ==
    ASSUME NEW S, IsScans(S), NEW A \in SUBSET DOMAIN S
    PROVE  IsFiniteSet(A) /\ Cardinality(A) \in Nat
<1>1. {-Day - 1, 2 * MaxTime + 1} \subseteq Int
  BY ScheduleAssumption
<1>2. IsFiniteSet(Times)
  BY <1>1, FS_Interval DEF Times
<1>3. IsFiniteSet(A)
  BY <1>2, FS_Subset DEF IsScans
<1> QED
  BY <1>3, FS_CardinalityType

LEMMA SubsetIsSmaller ==
    ASSUME NEW S, IsScans(S), NEW B \in SUBSET DOMAIN S, NEW A \in SUBSET B
    PROVE  Cardinality(A) <= Cardinality(B)
BY NamesAreFinite, FS_Subset

LEMMA LeastNatural ==
    ASSUME NEW S \in SUBSET Nat, S # {}
    PROVE  \E m \in S : \A n \in S : m <= n
<1> DEFINE R == {p \in Nat \X Nat : p[1] < p[2]}
<1>1. R = OpToRel(<, Nat)
  BY DEF OpToRel
<1>2. \A m, n \in Nat : <<n, m>> \in R <=> n < m
  OBVIOUS
<1> HIDE DEF R
<1>3. IsWellFoundedOn(R, Nat)
  BY <1>1, NatLessThanWellFounded, Zenon
<1>4. PICK m \in S : \A n \in S : ~ (<<n, m>> \in R)
  BY <1>3, WFMin, Zenon
<1>5. \A n \in S : ~ (n < m)
  BY <1>2, <1>4
<1> QED
  BY <1>5

(* Among some Scans there is one than which none is newer.                  *)
LEMMA NewestExists ==
    ASSUME NEW S, IsScans(S), NEW A \in SUBSET DOMAIN S, A # {}
    PROVE  \E g \in A : \A m \in A : S[m].created <= S[g].created
<1> DEFINE newer(a) == {b \in A : S[b].created > S[a].created}
           counts == {Cardinality(newer(a)) : a \in A}
<1>1. \A a \in A : S[a].created \in Nat
  BY DEF IsScans, ScanObject
<1>2. \A a \in A : IsFiniteSet(newer(a)) /\ Cardinality(newer(a)) \in Nat
  <2> TAKE a \in A
  <2>1. newer(a) \in SUBSET DOMAIN S
    OBVIOUS
  <2> QED
    BY <2>1, NamesAreFinite
<1>3. PICK g \in A : \A a \in A : Cardinality(newer(g)) <= Cardinality(newer(a))
  <2> HIDE DEF newer
  <2>1. counts \in SUBSET Nat /\ counts # {}
    BY <1>2
  <2>2. PICK k \in counts : \A n \in counts : k <= n
    BY <2>1, LeastNatural
  <2> QED
    BY <2>2
<1>4. ASSUME NEW m \in A, S[m].created > S[g].created PROVE FALSE
  <2>1. newer(m) \in SUBSET newer(g)
    BY <1>1, <1>4
  <2>2. m \in newer(g) /\ m \notin newer(m)
    BY <1>1, <1>4
  <2>3. newer(m) # newer(g) /\ IsFiniteSet(newer(g))
    BY <1>2, <2>2
  <2> HIDE DEF newer
  <2>4. Cardinality(newer(m)) < Cardinality(newer(g))
    BY <1>2, <2>1, <2>3, FS_Subset
  <2> QED
    BY <1>2, <1>3, <2>4
<1> QED
  BY <1>1, <1>4

(* What Newest(all, "Done", 1) returns.                                     *)
LEMMA NewestIsNewest ==
    ASSUME NEW S, IsScans(S)
    PROVE  /\ \A g \in Newest(S, "Done", 1) :
                 /\ g \in InState(S, "Done") /\ g \in DOMAIN S
                 /\ \A m \in InState(S, "Done") : S[m].created <= S[g].created
           /\ InState(S, "Done") # {} => Newest(S, "Done", 1) # {}
<1> DEFINE A == InState(S, "Done")
           newer(a) == {b \in A : S[b].created > S[a].created}
<1>1. A \in SUBSET DOMAIN S /\ \A a \in A : S[a].created \in Nat
  BY DEF InState, IsScans, ScanObject
<1>2. Newest(S, "Done", 1) = {a \in A : Cardinality(newer(a)) < 1}
  BY DEF Newest
<1>3. \A a \in A : IsFiniteSet(newer(a)) /\ Cardinality(newer(a)) \in Nat
  <2> TAKE a \in A
  <2>1. newer(a) \in SUBSET DOMAIN S
    BY <1>1
  <2> QED
    BY <2>1, NamesAreFinite
<1>4. \A a \in A : Cardinality(newer(a)) < 1 <=> newer(a) = {}
  <2> TAKE a \in A
  <2>1. Cardinality(newer(a)) < 1 <=> Cardinality(newer(a)) = 0
    BY <1>3
  <2> QED
    BY <1>3, <2>1, FS_EmptySet
<1>5. \A a \in A : newer(a) = {} <=> \A m \in A : S[m].created <= S[a].created
  BY <1>1
<1>6. A # {} => \E g \in A : newer(g) = {}
  BY <1>1, <1>5, NewestExists
<1> HIDE DEF A, newer
<1>7. \A g \in Newest(S, "Done", 1) : g \in A /\ g \in DOMAIN S /\ \A m \in A : S[m].created <= S[g].created
  BY <1>1, <1>2, <1>4, <1>5
<1>8. A # {} => Newest(S, "Done", 1) # {}
  BY <1>2, <1>4, <1>6
<1> QED
  BY <1>7, <1>8 DEF A

-----------------------------------------------------------------------------
(***************************************************************************)
(* What a step does to the Scans.                                           *)
(***************************************************************************)
Deletes(names) == \E dead \in SUBSET names : scans' = Marked(dead)
Ends ==
    \E n \in InState(scans, "Running"), s \in {"Done", "Errored"} :
        scans' = [scans EXCEPT ![n].state = s]
Removes ==
    \E n \in Existing : scans[n].deleting /\ scans' = [m \in Existing \ {n} |-> scans[m]]
Creates ==
    /\ pc = "create" /\ pc' \in {"idle", "record"} /\ next \notin Existing
    /\ scans' = [n \in Existing \cup {next} |->
           IF n = next THEN [state |-> "Running", created |-> started, deleting |-> FALSE]
           ELSE scans[n]]

LEMMA ScansChange ==
    ASSUME Typed, [Next]_vars
    PROVE  \/ UNCHANGED scans \/ Ends \/ Removes \/ Creates
           \/ pc = "history" /\ Deletes(Outdated(list)) /\ deleteOldScans
           \/ pc = "replace" /\ Deletes(inProgress)
<1>1. ASSUME NEW names, NEW step, DeleteAll(names, step) PROVE Deletes(names)
  BY <1>1 DEF DeleteAll, Deletes
<1>2. CASE deleteOldScans
  BY <1>1, <1>2 DEF deleteOldScans
<1>3. CASE ReplaceScans
  BY <1>1, <1>3 DEF ReplaceScans
<1>4. CASE CreateScan
  <2>1. CASE UNCHANGED scans
    BY <2>1
  <2>2. CASE /\ next \notin Existing
             /\ scans' = [n \in Existing \cup {next} |->
                    IF n = next THEN [state |-> "Running", created |-> started, deleting |-> FALSE]
                    ELSE scans[n]]
    BY <1>4, <2>2, CreateScanTyped DEF CreateScan, Creates
  <2> QED
    BY <1>4, <2>1, <2>2 DEF CreateScan
<1>5. CASE Reconcile \/ UpdateFindings \/ CheckSchedule \/ Sleep \/ PatchHash \/ RecordTime
  BY <1>5 DEF Reconcile, UpdateFindings, CheckSchedule, Sleep, PatchHash, RecordTime
<1>6. CASE ScanEnds
  BY <1>6 DEF ScanEnds, Ends
<1>7. CASE ScanRemoved
  BY <1>7 DEF ScanRemoved, Removes
<1>8. CASE RetriggerScheduledScan \/ Delivers \/ Tick \/ UserEdits \/ UserChangesScanType \/ Crash
  BY <1>8 DEF RetriggerScheduledScan, Delivers, SyncSched, SyncScans, SyncType, TimerFires, Resync,
     Tick, UserEdits, UserChangesScanType, Crash, world
<1>9. CASE UNCHANGED vars
  BY <1>9 DEF vars, world
<1> QED
  BY <1>2, <1>3, <1>4, <1>5, <1>6, <1>7, <1>8, <1>9 DEF Next, ReconcileStep, Delivers

(* Seen from one Scan: it keeps its date, its outcome and its deletion;     *)
(* only a deleted one is removed.                                           *)
Lasts ==
    \A n \in Existing \cap Existing' :
        /\ scans'[n].created = scans[n].created
        /\ scans[n].state # "Running" => scans'[n].state = scans[n].state

LEMMA MarkedIs ==
    ASSUME Typed, NEW dead, scans' = Marked(dead)
    PROVE  /\ Existing' = Existing /\ Lasts
           /\ \A n \in Existing :
                 /\ scans'[n].state = scans[n].state
                 /\ scans'[n].deleting <=> (n \in dead \/ scans[n].deleting)
<1>1. \A n \in Existing : scans[n] \in ScanObject
  BY Fields DEF IsScans, Existing
<1>2. Existing' = Existing
  BY DEF Marked, Existing
<1>3. \A n \in Existing : scans'[n] = IF n \in dead THEN [scans[n] EXCEPT !.deleting = TRUE] ELSE scans[n]
  BY DEF Marked
<1>4. \A n \in Existing :
        /\ scans'[n].state = scans[n].state /\ scans'[n].created = scans[n].created
        /\ scans'[n].deleting = IF n \in dead THEN TRUE ELSE scans[n].deleting
  BY <1>1, <1>3 DEF ScanObject
<1> QED
  BY <1>1, <1>2, <1>4 DEF Lasts, ScanObject

(* A step that deletes nothing.                                             *)
Spares ==
    /\ Lasts
    /\ \A n \in Existing \cap Existing' :
          /\ scans'[n].deleting = scans[n].deleting
          /\ scans'[n].state \in {scans[n].state, "Done", "Errored"}
    /\ \A n \in Existing \ Existing' : scans[n].deleting
    /\ \A n \in Created : /\ n = next /\ pc' \in {"idle", "record"}
                          /\ scans'[n].state = "Running" /\ ~scans'[n].deleting

LEMMA SparesOrDeletes ==
    ASSUME Typed, [Next]_vars
    PROVE  \/ Spares
           \/ /\ Existing' = Existing /\ Lasts
              /\ \/ pc = "history" /\ Deletes(Outdated(list)) /\ deleteOldScans
                 \/ pc = "replace"
<1>0. \A n \in Existing : scans[n] \in ScanObject
  BY Fields DEF IsScans, Existing
<1>1. CASE UNCHANGED scans
  BY <1>1 DEF Spares, Lasts, Existing, Created
<1>2. CASE Ends
  <2>1. PICK n \in InState(scans, "Running"), s \in {"Done", "Errored"} :
          scans' = [scans EXCEPT ![n].state = s]
    BY <1>2 DEF Ends
  <2>2. /\ Existing' = Existing /\ n \in Existing /\ scans[n].state = "Running"
        /\ \A m \in Existing : m # n => scans'[m] = scans[m]
        /\ scans'[n] = [scans[n] EXCEPT !.state = s]
    BY <2>1 DEF InState, Existing
  <2>3. scans'[n].state = s /\ scans'[n].created = scans[n].created /\ scans'[n].deleting = scans[n].deleting
    BY <1>0, <2>2 DEF ScanObject
  <2> QED
    BY <2>2, <2>3 DEF Spares, Lasts, Created
<1>3. CASE Removes
  BY <1>3 DEF Removes, Spares, Lasts, Existing, Created
<1>4. CASE Creates
  <2> DEFINE new == [state |-> "Running", created |-> started, deleting |-> FALSE]
  <2>1. Existing' = Existing \cup {next}
    BY <1>4 DEF Creates, Existing
  <2>2. scans'[next] = new /\ \A m \in Existing : scans'[m] = scans[m]
    BY <1>4 DEF Creates
  <2>3. Created = {next} /\ scans'[next].state = "Running" /\ ~scans'[next].deleting
    BY <1>4, <2>1, <2>2 DEF Created, Creates
  <2> QED
    BY <1>4, <2>1, <2>2, <2>3 DEF Spares, Lasts, Creates
<1>5. ASSUME NEW names, Deletes(names) PROVE Existing' = Existing /\ Lasts
  BY <1>5, MarkedIs DEF Deletes
<1> QED
  BY <1>1, <1>2, <1>3, <1>4, <1>5, ScansChange

-----------------------------------------------------------------------------
(***************************************************************************)
(* The Lists and caches that decide on deletions show the Scans of before,  *)
(* not others of the same name.                                             *)
(***************************************************************************)
NoneReused == Created \cap Listed = {}

Looking == pc \in {"findings", "history"}
Views == (IF Looking THEN {list} ELSE {})
    \cup (IF "list" \in config.fresh THEN {} ELSE {scanCache})

Shows(V) ==
    \A n \in DOMAIN V \cap Existing :
        /\ V[n].created = scans[n].created
        /\ V[n].state # "Running" => scans[n].state = V[n].state

Shown == \A V \in Views : Shows(V)

LEMMA ViewsAreScans == ASSUME Typed PROVE \A V \in Views : IsScans(V)
BY Fields DEF Views

LEMMA ConfigStays == ASSUME [Next]_vars PROVE config' = config
BY DEF Next, ReconcileStep, Reconcile, UpdateFindings, deleteOldScans, CheckSchedule, Sleep,
   ReplaceScans, PatchHash, CreateScan, RecordTime, Outside, RetriggerScheduledScan, SyncSched,
   SyncScans, SyncType, TimerFires, Resync, Tick, ScanEnds, ScanRemoved, UserEdits,
   UserChangesScanType, Crash, vars, world

LEMMA CachesStep ==
    ASSUME [Next]_vars
    PROVE  scanCache' = scanCache \/ (scanCache' = scans /\ UNCHANGED scans)
BY DEF Next, ReconcileStep, Reconcile, UpdateFindings, deleteOldScans, CheckSchedule, Sleep,
   ReplaceScans, PatchHash, CreateScan, RecordTime, Outside, RetriggerScheduledScan, SyncSched,
   SyncScans, SyncType, TimerFires, Resync, Tick, ScanEnds, ScanRemoved, UserEdits,
   UserChangesScanType, Crash, vars, world, caches

(* A view is one of before, or taken now.                                   *)
LEMMA ViewsStep ==
    ASSUME Typed, [Next]_vars
    PROVE  \A V \in Views' : (V = scans /\ UNCHANGED scans) \/ V \in Views
<1>1. config' = config
  BY ConfigStays
<1>2. scanCache' = scanCache \/ (scanCache' = scans /\ UNCHANGED scans)
  BY CachesStep
<1>3. Looking' => \/ Looking /\ list' = list
                  \/ UNCHANGED scans /\ list' = IF "list" \in config.fresh THEN scans ELSE scanCache
  <2>1. CASE Reconcile
    BY <2>1 DEF Reconcile
  <2>2. CASE UpdateFindings \/ deleteOldScans
    BY <2>2 DEF UpdateFindings, deleteOldScans, DeleteAll, Goto, ReturnAt, ReturnError, Fails, Rest, Looking
  <2>3. CASE CheckSchedule \/ Sleep \/ ReplaceScans \/ PatchHash \/ CreateScan \/ RecordTime
    <3>1. ~Looking'
      BY <2>3, CreateScanTyped DEF CheckSchedule, Sleep, ReplaceScans, PatchHash, RecordTime, DeleteAll, AfterReplace,
         Goto, ReturnNil, ReturnAt, ReturnError, Fails, Rest, Looking
    <3> QED
      BY <3>1
  <2>4. CASE ~ReconcileStep
    <3>1. pc' = "idle" \/ UNCHANGED <<pc, list>>
      BY <2>4 DEF Next, RetriggerScheduledScan, SyncSched, SyncScans, SyncType, TimerFires, Resync,
         Tick, ScanEnds, ScanRemoved, UserEdits, UserChangesScanType, Crash, Rest, vars, work
    <3> QED
      BY <3>1 DEF Looking
  <2> QED
    BY <2>1, <2>2, <2>3, <2>4 DEF ReconcileStep
<1> QED
  BY <1>1, <1>2, <1>3 DEF Views

LEMMA NextShown == ASSUME Typed, Shown, NoneReused, [Next]_vars PROVE Shown'
<1>1. config' = config
  BY ConfigStays
<1>2. Lasts /\ (Created # {} => Created = {next} /\ ~Looking')
  BY SparesOrDeletes DEF Spares, Created, Looking
<1>3. SUFFICES ASSUME NEW V \in Views',
                      NEW n \in DOMAIN V \cap Existing'
               PROVE  /\ V[n].created = scans'[n].created
                      /\ V[n].state # "Running" => scans'[n].state = V[n].state
  BY DEF Shown, Shows
<1>4. CASE V = scans /\ UNCHANGED scans
  BY <1>4
<1>5. CASE V \in Views
  <2>1. CASE n \in Existing
    BY <1>2, <1>5, <2>1 DEF Shown, Shows, Lasts
  <2>2. CASE n \in Created
    <3>1. V = scanCache' /\ "list" \notin config.fresh
      BY <1>1, <1>2, <2>2 DEF Views
    <3>2. V = scanCache \/ V = scans
      BY <3>1, CachesStep
    <3> QED
      BY <2>2, <3>1, <3>2 DEF NoneReused, Listed, Created, Existing
  <2> QED
    BY <2>1, <2>2 DEF Created
<1> QED
  BY <1>4, <1>5, ViewsStep

-----------------------------------------------------------------------------
(***************************************************************************)
(* The history.                                                             *)
(***************************************************************************)
Kept(S) == {n \in InState(S, "Done") : ~S[n].deleting}
Above(S, c) == {n \in Kept(S) : S[n].created > c}

(* As many newer Scans are kept as the limit says.                          *)
Enough(S, c) == Cardinality(Above(S, c)) >= config.limit

(* Whatever was deleted or is gone had enough newer ones, and still has.    *)
History ==
    config.policy # "Replace" =>
        /\ pc # "replace"
        /\ \A n \in Existing : scans[n].deleting =>
              /\ scans[n].state # "Running"
              /\ scans[n].state = "Done" => Enough(scans, scans[n].created)
        /\ \A V \in Views : \A n \in InState(V, "Done") \ Existing : Enough(scans, V[n].created)

LEMMA AboveIsFinite ==
    ASSUME NEW S, IsScans(S), NEW c
    PROVE  Above(S, c) \in SUBSET DOMAIN S /\ Cardinality(Above(S, c)) \in Nat
<1>1. Above(S, c) \in SUBSET DOMAIN S
  BY DEF Above, Kept, InState
<1> QED
  BY <1>1, NamesAreFinite

(* Enough above a newer one is enough above an older one.                   *)
LEMMA EnoughBelow ==
    ASSUME TypeOK, NEW S, IsScans(S), NEW c \in Int, NEW d \in Int, d <= c, Enough(S, c)
    PROVE  Enough(S, d)
<1>1. \A n \in Kept(S) : S[n].created \in Int
  BY DEF Kept, InState, IsScans, ScanObject
<1>2. Above(S, c) \in SUBSET Above(S, d)
  BY <1>1 DEF Above
<1>3. Cardinality(Above(S, c)) <= Cardinality(Above(S, d))
  BY <1>2, AboveIsFinite, SubsetIsSmaller
<1> QED
  BY <1>3, AboveIsFinite, ConfigFields DEF Enough

(* What is deleted are Scans that have enough newer ones: in the List, and  *)
(* so in the API server, since those of the List that are kept no more had  *)
(* enough newer ones themselves.                                            *)
LEMMA OutdatedHasNewer ==
    ASSUME Typed, Shown, History, config.policy # "Replace", pc = "history",
           NEW n \in Outdated(list) \cap Existing
    PROVE  /\ scans[n].state # "Running"
           /\ scans[n].state = "Done" => Enough(scans, scans[n].created)
<1> USE Fields
<1>1. list \in Views
  BY DEF Views, Looking
<1>2. PICK s \in {"Done", "Errored"} : n \in InState(list, s) \ Newest(list, s, config.limit)
  BY DEF Outdated
<1>3. n \in DOMAIN list /\ list[n].state = s
  BY <1>2 DEF InState
<1>4. scans[n].created = list[n].created /\ scans[n].state = s
  BY <1>1, <1>3 DEF Shown, Shows
<1>5. ASSUME s = "Done" PROVE Enough(scans, scans[n].created)
  <2> DEFINE W == {b \in InState(list, "Done") : list[b].created > list[n].created}
  <2>1. W \in SUBSET DOMAIN list /\ Cardinality(W) \in Nat
    <3>1. W \in SUBSET DOMAIN list
      BY DEF InState
    <3> QED
      BY <3>1, NamesAreFinite
  <2>2. ~(Cardinality(W) < config.limit)
    BY <1>2, <1>5 DEF Newest
  <2>3. Cardinality(W) >= config.limit
    BY <2>1, <2>2, ConfigFields
  <2>4. \A m \in DOMAIN list : list[m].created \in Int
    BY DEF IsScans, ScanObject
  <2>5. CASE W \subseteq Kept(scans)
    <3>1. W \in SUBSET Above(scans, scans[n].created)
      BY <1>1, <1>4, <2>1, <2>5 DEF Above, Shown, Shows, Kept, InState, Existing
    <3>2. Cardinality(W) <= Cardinality(Above(scans, scans[n].created))
      BY <3>1, AboveIsFinite, SubsetIsSmaller
    <3> QED
      BY <2>1, <2>3, <3>2, AboveIsFinite, ConfigFields DEF Enough
  <2>6. ASSUME NEW w \in W, w \notin Kept(scans) PROVE Enough(scans, scans[n].created)
    <3>1. w \in DOMAIN list /\ w \in InState(list, "Done") /\ list[w].state = "Done"
          /\ list[n].created <= list[w].created
      BY <1>3, <2>4 DEF InState
    <3>2. Enough(scans, list[w].created)
      <4>1. CASE w \notin Existing
        BY <1>1, <3>1, <4>1 DEF History
      <4>2. CASE w \in Existing
        <5>1. scans[w].state = "Done" /\ scans[w].created = list[w].created
          BY <1>1, <3>1, <4>2 DEF Shown, Shows
        <5>2. scans[w].deleting
          BY <2>6, <4>2, <5>1 DEF Kept, InState, Existing
        <5> QED
          BY <4>2, <5>1, <5>2 DEF History
      <4> QED
        BY <4>1, <4>2
    <3> QED
      BY <1>3, <1>4, <2>4, <3>1, <3>2, EnoughBelow
  <2> QED
    BY <2>5, <2>6
<1> QED
  BY <1>4, <1>5

(* Deleting such Scans leaves enough: the newest deleted one has enough     *)
(* newer ones, of which none is deleted.                                    *)
LEMMA EnoughRemains ==
    ASSUME Typed, IsScans(scans'), Existing' = Existing, Lasts, UNCHANGED config,
           \A n \in Existing : scans'[n].state = scans[n].state,
           \A n \in Kept(scans) \ Kept(scans') : Enough(scans, scans[n].created),
           NEW c \in Int, Enough(scans, c)
    PROVE  Enough(scans, c)'
<1> USE Fields
<1> DEFINE D == Above(scans, c) \ Kept(scans')
<1>1. /\ Kept(scans) \subseteq Existing
      /\ \A n \in Existing : scans[n].created \in Int /\ scans'[n].created = scans[n].created
  BY DEF Kept, InState, Existing, IsScans, ScanObject, Lasts
<1>2. \E d \in Int : /\ Enough(scans, d) /\ c <= d
                     /\ Above(scans, d) \subseteq Kept(scans')
  <2>1. CASE D = {}
    BY <2>1
  <2>2. CASE D # {}
    <3>1. D \in SUBSET DOMAIN scans
      BY <1>1 DEF Above, Existing
    <3>2. PICK g \in D : \A m \in D : scans[m].created <= scans[g].created
      BY <2>2, <3>1, NewestExists
    <3>3. g \in Kept(scans) \ Kept(scans') /\ scans[g].created > c /\ scans[g].created \in Int
      BY <1>1 DEF Above
    <3>4. Above(scans, scans[g].created) \subseteq Kept(scans')
      <4> SUFFICES ASSUME NEW m \in Above(scans, scans[g].created), m \notin Kept(scans')
                   PROVE  FALSE
        OBVIOUS
      <4>1. m \in Kept(scans) /\ scans[m].created > scans[g].created /\ scans[m].created \in Int
        BY <1>1 DEF Above
      <4>2. m \in D
        BY <3>3, <4>1 DEF Above
      <4> QED
        BY <3>2, <3>3, <4>1, <4>2
    <3> QED
      BY <3>3, <3>4
  <2> QED
    BY <2>1, <2>2
<1>3. PICK d \in Int : Enough(scans, d) /\ c <= d /\ Above(scans, d) \subseteq Kept(scans')
  BY <1>2
<1>4. Above(scans, d) \in SUBSET Above(scans', c)
  BY <1>1, <1>3 DEF Above
<1>5. Cardinality(Above(scans, d)) <= Cardinality(Above(scans', c))
  BY <1>4, AboveIsFinite, SubsetIsSmaller
<1> QED
  BY <1>3, <1>5, AboveIsFinite, ConfigFields DEF Enough

LEMMA EnoughStays ==
    ASSUME Typed, IsScans(scans'), Spares, UNCHANGED config, History, config.policy # "Replace",
           NEW c \in Int, Enough(scans, c)
    PROVE  Enough(scans, c)'
<1> USE Fields
<1>1. Above(scans, c) \in SUBSET Above(scans', c)
  BY DEF Spares, Lasts, Above, Kept, InState, Existing
<1>2. Cardinality(Above(scans, c)) <= Cardinality(Above(scans', c))
  BY <1>1, AboveIsFinite, SubsetIsSmaller
<1> QED
  BY <1>2, AboveIsFinite, ConfigFields DEF Enough

(* What deleteOldScans marks had enough newer ones.                         *)
LEMMA DeletedHasNewer ==
    ASSUME Typed, Shown, History, config.policy # "Replace",
           pc = "history", Deletes(Outdated(list)),
           NEW n \in Existing, scans'[n].deleting
    PROVE  /\ scans[n].state # "Running" /\ scans'[n].state = scans[n].state
           /\ scans[n].state = "Done" => Enough(scans, scans[n].created)
<1>1. PICK dead \in SUBSET Outdated(list) : scans' = Marked(dead)
  BY DEF Deletes
<1>2. n \in dead \/ scans[n].deleting
  BY <1>1, MarkedIs
<1>3. scans'[n].state = scans[n].state
  BY <1>1, MarkedIs
<1>4. CASE n \in dead
  BY <1>1, <1>3, <1>4, OutdatedHasNewer
<1>5. CASE scans[n].deleting
  BY <1>3, <1>5 DEF History
<1> QED
  BY <1>2, <1>4, <1>5

LEMMA EnoughNext ==
    ASSUME Typed, Typed', Shown, History, config.policy # "Replace", [Next]_vars,
           NEW c \in Int, Enough(scans, c)
    PROVE  Enough(scans, c)'
<1>1. IsScans(scans') /\ config' = config
  BY ConfigStays DEF Typed, TypeOK, IsScans
<1>2. CASE Spares
  BY <1>1, <1>2, EnoughStays
<1>3. CASE pc = "history" /\ Deletes(Outdated(list))
  <2>1. /\ Existing' = Existing /\ Lasts
        /\ \A n \in Existing : scans'[n].state = scans[n].state
    BY <1>3, MarkedIs DEF Deletes
  <2>2. ASSUME NEW n \in Kept(scans) \ Kept(scans') PROVE Enough(scans, scans[n].created)
    <3>1. n \in Existing /\ scans[n].state = "Done"
      BY DEF Kept, InState, Existing
    <3>2. scans'[n].deleting
      BY <2>1, <3>1 DEF Kept, InState, Existing
    <3> QED
      BY <1>3, <3>1, <3>2, DeletedHasNewer
  <2> QED
    BY <1>1, <2>1, <2>2, EnoughRemains
<1> QED
  BY <1>2, <1>3, SparesOrDeletes DEF History

LEMMA NoReplacing ==
    ASSUME Typed, [Next]_vars, config.policy # "Replace", pc # "replace"
    PROVE  pc' # "replace"
BY CreateScanTyped DEF Next, ReconcileStep, Reconcile, AfterList, AfterFindings, UpdateFindings,
   deleteOldScans, DeleteAll, CheckSchedule, AfterReplace, Sleep, ReplaceScans, PatchHash, RecordTime,
   Goto, ReturnNil, ReturnError, ReturnAt, Fails, Rest, RetriggerScheduledScan, SyncSched, SyncScans,
   SyncType, TimerFires, Resync, Tick, ScanEnds, ScanRemoved, UserEdits, UserChangesScanType, Crash,
   vars, work

LEMMA NextHistory ==
    ASSUME Typed, Shown, History, NoneReused, [Next]_vars
    PROVE  History'
<1>1. Typed' /\ Shown' /\ config' = config
  BY NextTyped, NextShown, ConfigStays
<1>2. SUFFICES ASSUME config.policy # "Replace" PROVE History'
  BY <1>1 DEF History
<1>3. pc # "replace" /\ pc' # "replace"
  BY <1>2, NoReplacing DEF History
<1>4. Lasts /\ (Spares \/ (pc = "history" /\ Deletes(Outdated(list)) /\ Existing' = Existing))
  BY <1>3, SparesOrDeletes DEF Spares
<1>5. \A n \in Existing : scans[n].created \in Int
  BY Fields DEF Existing, IsScans, ScanObject
<1>6. \A c \in Int : Enough(scans, c) => Cardinality(Above(scans', c)) >= config'.limit
  <2>1. \A c \in Int : Enough(scans, c) => Enough(scans, c)'
    BY <1>1, <1>2, EnoughNext
  <2> QED
    BY <2>1 DEF Enough
<1>7. ASSUME NEW n \in Existing', scans'[n].deleting
      PROVE  /\ scans'[n].state # "Running"
             /\ scans'[n].state = "Done"
                   => Cardinality(Above(scans', scans'[n].created)) >= config'.limit
  <2>1. n \in Existing /\ scans'[n].created = scans[n].created
    BY <1>4, <1>7 DEF Spares, Created, Lasts
  <2>2. /\ scans[n].state # "Running" /\ scans'[n].state = scans[n].state
        /\ scans[n].state = "Done" => Enough(scans, scans[n].created)
    <3>1. CASE Spares
      BY <1>2, <1>7, <2>1, <3>1 DEF Spares, Lasts, History
    <3>2. CASE pc = "history" /\ Deletes(Outdated(list))
      BY <1>2, <1>7, <2>1, <3>2, DeletedHasNewer
    <3> QED
      BY <1>4, <3>1, <3>2
  <2> QED
    BY <1>5, <1>6, <2>1, <2>2
<1>8. ASSUME NEW V \in Views', NEW n \in InState(V, "Done") \ Existing'
      PROVE  Cardinality(Above(scans', V[n].created)) >= config'.limit
  <2>1. n \in DOMAIN V /\ V[n].state = "Done"
    BY <1>8 DEF InState
  <2>2. V \in Views
    BY <1>8, <2>1, ViewsStep DEF Existing
  <2>3. V[n].created \in Int
    BY <2>1, <2>2, ViewsAreScans DEF IsScans, ScanObject
  <2>4. Enough(scans, V[n].created)
    <3>1. CASE n \notin Existing
      BY <1>2, <1>8, <2>2, <3>1 DEF History
    <3>2. CASE n \in Existing
      <4>1. scans[n].deleting
        BY <1>4, <1>8, <3>2 DEF Spares
      <4>2. V[n].created = scans[n].created /\ scans[n].state = "Done"
        BY <2>1, <2>2, <3>2 DEF Shown, Shows
      <4> QED
        BY <1>2, <3>2, <4>1, <4>2 DEF History
    <3> QED
      BY <3>1, <3>2
  <2> QED
    BY <1>6, <2>3, <2>4
<1> QED
  BY <1>3, <1>7, <1>8 DEF History, Enough

(* A Scan that is deleted from the history.                                 *)
LEMMA HistoryStep ==
    ASSUME Typed, Shown, History, [Next]_vars, config.policy # "Replace",
           NEW n \in InState(scans, "Done") \cap Existing', ~scans[n].deleting, scans'[n].deleting
    PROVE  Cardinality({m \in InState(scans, "Done") \ {n} :
                           scans[m].created >= scans[n].created}) >= config.limit
<1> DEFINE newer == {m \in InState(scans, "Done") \ {n} : scans[m].created >= scans[n].created}
<1>1. n \in Existing /\ scans[n].state = "Done"
  BY DEF InState, Existing
<1>2. pc = "history" /\ Deletes(Outdated(list))
  BY <1>1, SparesOrDeletes DEF Spares, History
<1>3. Enough(scans, scans[n].created)
  BY <1>1, <1>2, DeletedHasNewer
<1>4. \A m \in Existing : scans[m].created \in Int
  BY Fields DEF Existing, IsScans, ScanObject
<1>5. Above(scans, scans[n].created) \in SUBSET newer
  BY <1>1, <1>4 DEF Above, Kept, InState, Existing
<1>6. newer \in SUBSET DOMAIN scans
  BY DEF InState
<1>7. Cardinality(Above(scans, scans[n].created)) <= Cardinality(newer) /\ Cardinality(newer) \in Nat
  BY <1>5, <1>6, Fields, SubsetIsSmaller, NamesAreFinite
<1> HIDE DEF newer
<1>8. Cardinality(newer) >= config.limit
  BY <1>3, <1>7, Fields, AboveIsFinite, ConfigFields DEF Enough
<1> QED
  BY <1>8 DEF newer

LEMMA InitHistory == ASSUME Init PROVE Shown /\ History
<1>1. DOMAIN scans = {} /\ scanCache = scans /\ pc = "idle"
  BY DEF Init, NoScans
<1> QED
  BY <1>1 DEF Shown, Shows, History, Views, Looking, Existing, InState

LEMMA AlwaysHistory == Spec /\ ListedNamesUsedOnce => [](Shown /\ History)
<1>1. Typed /\ Shown /\ History /\ [Next]_vars /\ [NoneReused]_vars => Shown' /\ History'
  <2>1. ASSUME Typed, Shown, History, [Next]_vars, NoneReused PROVE Shown' /\ History'
    BY <2>1, NextShown, NextHistory
  <2>2. ASSUME Shown, History, UNCHANGED vars PROVE Shown' /\ History'
    BY <2>2 DEF vars, world, caches, work, Shown, Shows, History, Views, Looking, Enough, Existing
  <2> QED
    BY <2>1, <2>2
<1> QED
  BY <1>1, InitHistory, AlwaysTyped, PTL DEF Spec, ListedNamesUsedOnce, NoneReused

(* The history keeps the newest completed Scans, for any limit, however old *)
(* the List is that a Reconcile deletes by, and whichever of its deletions  *)
(* fail.  The Scans that made one superfluous may be deleted in turn, in    *)
(* the same or an earlier Reconcile; the newest of the deleted then had     *)
(* enough newer ones that are kept.                                         *)
THEOREM HistorySafe == Spec /\ ListedNamesUsedOnce => HistoryKept
<1>1. Typed /\ Shown /\ History /\ [Next]_vars =>
        [\A n \in InState(scans, "Done") \cap Existing' :
            config.policy # "Replace" /\ ~scans[n].deleting /\ scans'[n].deleting =>
                Cardinality({m \in InState(scans, "Done") \ {n} :
                                 scans[m].created >= scans[n].created}) >= config.limit]_vars
  BY HistoryStep
<1> QED
  BY <1>1, AlwaysHistory, AlwaysTyped, PTL DEF Spec, HistoryKept

-----------------------------------------------------------------------------
(***************************************************************************)
(* The summary.                                                             *)
(***************************************************************************)
Surpassed(c) == sched.findings \in Existing /\ c < scans[sched.findings].created
Reached(c) == sched.findings \in Existing /\ c <= scans[sched.findings].created

(* The summary is that of a Scan which is kept.  What is deleted or gone is *)
(* older.  What Reconcile reads is not older than what made the summary; it *)
(* deletes only after the summary has caught up with it.                    *)
Summary ==
    config.policy # "Replace" /\ config.limit > 0 =>
        /\ sched.findings # Never => sched.findings \in Kept(scans)
        /\ \A n \in Existing :
              scans[n].state = "Done" /\ scans[n].deleting => Surpassed(scans[n].created)
        /\ \A V \in Views : \A n \in InState(V, "Done") \ Existing : Surpassed(V[n].created)
        /\ sched.findings # Never =>
              \A V \in Views : \E m \in InState(V, "Done") :
                  V[m].created >= scans[sched.findings].created
        /\ pc = "history" => \A m \in InState(list, "Done") : Reached(list[m].created)
        /\ Looking => \A V \in Views : \A m \in InState(list, "Done") :
              \E k \in InState(V, "Done") : V[k].created >= list[m].created
        /\ "copy" \notin config.fresh /\ cached.findings \in Existing =>
              Reached(scans[cached.findings].created)

(* The promise of SummaryNeverGoesBack for one step.                        *)
Forward ==
    sched'.findings # sched.findings /\ sched.findings \in Existing =>
        scans[sched'.findings].created >= scans[sched.findings].created

LEMMA NeverIsNoName ==
    ASSUME Typed
    PROVE  Never \notin Existing
<1>1. Never \notin Times
  BY ScheduleAssumption DEF Never, Times
<1> QED
  BY <1>1, Fields DEF IsScans, Existing

LEMMA WithStatusOfFindings ==
    ASSUME TypeOK, NEW o \in Schedule
    PROVE  WithStatusOf(o).findings = o.findings
<1> DEFINE new == [sched EXCEPT !.last = o.last, !.hash = o.hash, !.findings = o.findings]
<1>1. new \in Schedule /\ new.findings = o.findings
  BY DEF TypeOK, Schedule
<1>2. [new EXCEPT !.rv = @ + 1].findings = new.findings
  <2> HIDE DEF new
  <2> QED
    BY <1>1 DEF Schedule
<1> QED
  BY <1>1, <1>2 DEF WithStatusOf

(* Only UpdateFindings changes the summary: the others write back that of a *)
(* copy which the API server accepts.                                       *)
Updates ==
    /\ pc = "findings" /\ UpdateFindings /\ UNCHANGED <<scans, scanCache, cached>>
    /\ sched'.findings \in Newest(list, "Done", 1)
    /\ pc' \in {"history", "schedule"} => UNCHANGED list
    /\ pc' \in {"idle", "history", "schedule"}

LEMMA FindingsChange ==
    ASSUME Typed, Versioned, [Next]_vars
    PROVE  Updates \/ (sched'.findings = sched.findings /\ ~(pc = "findings" /\ Looking' /\ pc' # pc))
<1> USE Fields
<1>1. CASE UpdateFindings
  <2>1. ASSUME NEW n \in Newest(list, "Done", 1), sched' = WithStatusOf([obj EXCEPT !.findings = n])
        PROVE  sched'.findings = n
    <3>1. n \in Int
      BY ConfigFields DEF Newest, InState, IsScans, Times
    <3>2. [obj EXCEPT !.findings = n] \in Schedule /\ [obj EXCEPT !.findings = n].findings = n
      BY <3>1 DEF Schedule
    <3> QED
      BY <2>1, <3>2, WithStatusOfFindings
  <2>2. UNCHANGED <<scans, scanCache, cached>> /\ pc = "findings"
    BY <1>1 DEF UpdateFindings, Outside, caches
  <2>3. pc' = "idle" \/ (pc' \in {"history", "schedule"} /\ UNCHANGED list)
    BY <1>1 DEF UpdateFindings, Goto, AfterFindings, ReturnAt, Fails, Rest
  <2>4. UNCHANGED sched => pc' = "idle" \/ \E n \in Newest(list, "Done", 1) :
                                              sched' = WithStatusOf([obj EXCEPT !.findings = n])
    BY <1>1 DEF UpdateFindings, ReturnAt, Fails, Rest
  <2>5. UNCHANGED sched \/ \E n \in Newest(list, "Done", 1) :
                              sched' = WithStatusOf([obj EXCEPT !.findings = n])
    BY <1>1 DEF UpdateFindings
  <2> QED
    BY <1>1, <2>1, <2>2, <2>3, <2>4, <2>5 DEF Updates, Looking
<1>2. CASE RecordTime
  <2>1. CASE UNCHANGED sched
    BY <1>2, <2>1 DEF RecordTime
  <2>2. CASE AcceptsUpdate(obj) /\ sched' = WithStatusOf([obj EXCEPT !.last = now])
    <3>1. obj = sched
      BY <2>2 DEF AcceptsUpdate, Versioned, Follows
    <3>2. [obj EXCEPT !.last = now] \in Schedule /\ [obj EXCEPT !.last = now].findings = obj.findings
      BY ConfigFields DEF Schedule
    <3> QED
      BY <1>2, <2>2, <3>1, <3>2, WithStatusOfFindings DEF RecordTime
  <2> QED
    BY <1>2, <2>1, <2>2 DEF RecordTime
<1>3. CASE RetriggerScheduledScan
  <2> DEFINE t == now - (IF config.kind = "interval" THEN config.period ELSE 0) - Day
  <2>1. cached = sched /\ sched' = WithStatusOf([cached EXCEPT !.last = t]) /\ UNCHANGED work
    BY <1>3 DEF RetriggerScheduledScan, AcceptsUpdate, Versioned, Follows
  <2>2. t \in Int
    BY ConfigFields
  <2> HIDE DEF t
  <2>3. [cached EXCEPT !.last = t] \in Schedule /\ [cached EXCEPT !.last = t].findings = cached.findings
    BY <2>2 DEF Schedule
  <2>4. sched'.findings = sched.findings
    BY <2>1, <2>3, WithStatusOfFindings
  <2> QED
    BY <2>1, <2>4 DEF work
<1>4. CASE PatchHash
  <2>1. sched'.findings = sched.findings
    BY <1>4 DEF PatchHash, Schedule
  <2> QED
    BY <1>4, <2>1 DEF PatchHash
<1>5. CASE UserEdits
  <2>1. sched'.findings = sched.findings
    BY <1>5 DEF UserEdits, Schedule
  <2> QED
    BY <1>5, <2>1 DEF UserEdits, work
<1>6. CASE Reconcile \/ deleteOldScans \/ CheckSchedule \/ Sleep \/ ReplaceScans \/ CreateScan
  BY <1>6 DEF Reconcile, deleteOldScans, CheckSchedule, Sleep, ReplaceScans, CreateScan
<1>7. CASE Delivers \/ Tick \/ ScanEnds \/ ScanRemoved \/ UserChangesScanType \/ Crash \/ UNCHANGED vars
  BY <1>7 DEF Delivers, SyncSched, SyncScans, SyncType, TimerFires, Resync, Tick, ScanEnds, ScanRemoved,
     UserChangesScanType, Crash, Rest, Looking, world, work, vars
<1> QED
  BY <1>1, <1>2, <1>3, <1>4, <1>5, <1>6, <1>7 DEF Next, ReconcileStep, Delivers

(* What is deleted is older than the Scan of the summary, which is kept.    *)
LEMMA OutdatedIsSurpassed ==
    ASSUME Typed, Shown, Summary, config.policy # "Replace", config.limit > 0, pc = "history",
           NEW n \in Outdated(list) \cap Existing, scans[n].state = "Done"
    PROVE  Surpassed(scans[n].created)
<1> USE Fields
<1>1. list \in Views
  BY DEF Views, Looking
<1>2. PICK s \in {"Done", "Errored"} : n \in InState(list, s) \ Newest(list, s, config.limit)
  BY DEF Outdated
<1>3. /\ n \in DOMAIN list /\ list[n].state = s
      /\ scans[n].created = list[n].created /\ s = "Done"
  BY <1>1, <1>2 DEF InState, Shown, Shows
<1> DEFINE W == {b \in InState(list, "Done") : list[b].created > list[n].created}
<1>4. W # {}
  <2> SUFFICES ASSUME W = {} PROVE FALSE
    OBVIOUS
  <2>1. Cardinality(W) = 0
    BY FS_EmptySet
  <2>2. ~(Cardinality(W) < config.limit)
    BY <1>2, <1>3 DEF Newest
  <2> QED
    BY <2>1, <2>2, ConfigFields
<1>5. PICK w \in InState(list, "Done") : list[w].created > list[n].created
  BY <1>4
<1>6. Reached(list[w].created)
  BY <1>5 DEF Summary
<1>7. list[w].created \in Int /\ list[n].created \in Int
  BY <1>3, <1>5 DEF InState, IsScans, ScanObject
<1>8. sched.findings \in Existing => scans[sched.findings].created \in Int
  BY DEF IsScans, ScanObject, Existing
<1> QED
  BY <1>3, <1>5, <1>6, <1>7, <1>8 DEF Reached, Surpassed

(* Whatever a step does to the Scans: the deleted ones are surpassed, and   *)
(* the Scan of the summary is kept.                                         *)
LEMMA SummaryIsKept ==
    ASSUME Typed, Shown, History, Summary, config.policy # "Replace", config.limit > 0, [Next]_vars
    PROVE  /\ Lasts /\ Kept(scans) \cap {sched.findings} \subseteq Kept(scans')
           /\ \A n \in Existing' : scans'[n].state = "Done" /\ scans'[n].deleting =>
                 n \in Existing /\ Surpassed(scans[n].created)
           /\ \A n \in Existing \ Existing' :
                 scans[n].deleting /\ (scans[n].state = "Done" => Surpassed(scans[n].created))
<1>1. CASE Spares
  <2>1. ASSUME NEW n \in Existing', scans'[n].state = "Done", scans'[n].deleting
        PROVE  n \in Existing /\ Surpassed(scans[n].created)
    <3>1. n \in Existing /\ scans[n].deleting /\ Lasts
      BY <1>1, <2>1 DEF Spares, Created
    <3>2. scans[n].state = "Done"
      BY <2>1, <3>1 DEF History, Lasts
    <3> QED
      BY <3>1, <3>2 DEF Summary
  <2>2. \A n \in Existing \ Existing' :
           scans[n].deleting /\ (scans[n].state = "Done" => Surpassed(scans[n].created))
    BY <1>1 DEF Spares, Summary
  <2>3. Kept(scans) \subseteq Kept(scans')
    BY <1>1 DEF Spares, Lasts, Kept, InState, Existing
  <2> QED
    BY <1>1, <2>1, <2>2, <2>3 DEF Spares
<1>2. CASE pc = "history" /\ Deletes(Outdated(list))
  <2>1. PICK dead \in SUBSET Outdated(list) : scans' = Marked(dead)
    BY <1>2 DEF Deletes
  <2>2. /\ Existing' = Existing /\ Lasts
        /\ \A n \in Existing : /\ scans'[n].state = scans[n].state
                               /\ scans'[n].deleting <=> (n \in dead \/ scans[n].deleting)
    BY <2>1, MarkedIs
  <2>3. ASSUME NEW n \in Existing, scans'[n].state = "Done", scans'[n].deleting
        PROVE  Surpassed(scans[n].created)
    <3>1. CASE n \in dead
      BY <1>2, <2>1, <2>2, <2>3, <3>1, OutdatedIsSurpassed
    <3>2. CASE scans[n].deleting
      BY <2>2, <2>3, <3>2 DEF Summary
    <3> QED
      BY <2>2, <2>3, <3>1, <3>2
  <2>4. ASSUME sched.findings \in Kept(scans) PROVE sched.findings \in Kept(scans')
    <3>1. sched.findings \in Existing /\ scans[sched.findings].state = "Done"
      BY <2>4 DEF Kept, InState, Existing
    <3>2. scans[sched.findings].created \in Int
      BY <3>1, Fields DEF IsScans, ScanObject, Existing
    <3>3. ~scans'[sched.findings].deleting
      BY <2>2, <2>3, <3>1, <3>2 DEF Surpassed
    <3> QED
      BY <2>2, <3>1, <3>3 DEF Kept, InState, Existing
  <2> QED
    BY <2>2, <2>3, <2>4
<1> QED
  BY <1>1, <1>2, SparesOrDeletes DEF History

(* Where the List of this Reconcile comes from.                             *)
LEMMA LookingStep ==
    ASSUME Typed, [Next]_vars, Looking'
    PROVE  \/ Looking /\ list' = list /\ (pc' = pc \/ (pc = "findings" /\ pc' = "history"))
           \/ Reconcile
<1>1. CASE UpdateFindings \/ deleteOldScans
  BY <1>1 DEF UpdateFindings, deleteOldScans, DeleteAll, Goto, AfterFindings, ReturnAt, ReturnError, Fails,
     Rest, Looking
<1>2. CASE CheckSchedule \/ Sleep \/ ReplaceScans \/ PatchHash \/ CreateScan \/ RecordTime
  BY <1>2, CreateScanTyped DEF CheckSchedule, Sleep, ReplaceScans, PatchHash, RecordTime, DeleteAll,
     AfterReplace, Goto, ReturnNil, ReturnAt, ReturnError, Fails, Rest, Looking
<1>3. CASE ~ReconcileStep
  <2>1. pc' = "idle" \/ UNCHANGED <<pc, list>>
    BY <1>3 DEF Next, RetriggerScheduledScan, SyncSched, SyncScans, SyncType, TimerFires, Resync,
       Tick, ScanEnds, ScanRemoved, UserEdits, UserChangesScanType, Crash, Rest, vars, work
  <2> QED
    BY <2>1 DEF Looking
<1> QED
  BY <1>1, <1>2, <1>3 DEF ReconcileStep

(* Reconcile skips the update of the summary only if it has caught up with  *)
(* the List.                                                                *)
LEMMA SkippedIsReached ==
    ASSUME Typed, Shown, Summary, config.policy # "Replace", config.limit > 0,
           Reconcile, pc' = "history", NEW m \in InState(list', "Done")
    PROVE  Reached(list'[m].created)
<1> USE Fields
<1> DEFINE copy == IF "copy" \in config.fresh THEN sched ELSE cached
           all == IF "list" \in config.fresh THEN scans ELSE scanCache
<1>1. list' = all /\ pc' = AfterList(copy, all) /\ IsScans(all)
  BY DEF Reconcile
<1>2. all = scans \/ all \in Views
  BY DEF Views
<1> HIDE DEF all
<1>3. Newest(all, "Done", 1) \subseteq {copy.findings}
  BY <1>1 DEF AfterList
<1>4. PICK g \in Newest(all, "Done", 1) :
         /\ g \in InState(all, "Done") /\ g \in DOMAIN all
         /\ all[m].created <= all[g].created
  BY <1>1, NewestIsNewest
<1>5. g = copy.findings /\ all[g].state = "Done"
  BY <1>3, <1>4 DEF InState
<1>6. Reached(all[g].created)
  <2>1. CASE g \notin Existing
    <3>1. all \in Views
      BY <1>2, <1>4, <2>1 DEF Existing
    <3>2. Surpassed(all[g].created)
      BY <1>4, <2>1, <3>1 DEF Summary
    <3>3. all[g].created \in Int /\ (sched.findings \in Existing => scans[sched.findings].created \in Int)
      BY <1>1, <1>4 DEF IsScans, ScanObject, Existing
    <3> QED
      BY <3>2, <3>3 DEF Reached, Surpassed
  <2>2. CASE g \in Existing
    <3>1. scans[g].created = all[g].created /\ scans[g].created \in Int
      BY <1>2, <1>4, <2>2 DEF Shown, Shows, IsScans, ScanObject, Existing
    <3>2. CASE copy = sched
      BY <1>5, <2>2, <3>1, <3>2 DEF Reached
    <3>3. CASE copy = cached /\ "copy" \notin config.fresh
      BY <1>5, <2>2, <3>1, <3>3 DEF Summary
    <3> QED
      BY <3>2, <3>3
  <2> QED
    BY <2>1, <2>2
<1>7. /\ all[m].created \in Int /\ all[g].created \in Int
      /\ sched.findings \in Existing => scans[sched.findings].created \in Int
  BY <1>1, <1>4 DEF InState, IsScans, ScanObject, Existing
<1> QED
  BY <1>1, <1>4, <1>6, <1>7 DEF Reached

(* A step that leaves the summary alone leaves its Scan, and its date.      *)
LEMMA SummaryLasts ==
    ASSUME Typed, Shown, History, Summary, config.policy # "Replace", config.limit > 0, [Next]_vars,
           sched'.findings = sched.findings
    PROVE  /\ sched.findings # Never => sched.findings \in Kept(scans) \cap Kept(scans') \cap Existing
           /\ sched.findings \in Existing =>
                 /\ sched.findings # Never /\ sched.findings \in Existing'
                 /\ scans'[sched.findings].created = scans[sched.findings].created
<1>1. sched.findings # Never => sched.findings \in Kept(scans)
  BY DEF Summary
<1>2. Lasts /\ Kept(scans) \cap {sched.findings} \subseteq Kept(scans')
  BY SummaryIsKept
<1>3. Kept(scans) \subseteq Existing /\ Kept(scans') \subseteq Existing'
  BY DEF Kept, InState, Existing
<1> QED
  BY <1>1, <1>2, <1>3, NeverIsNoName DEF Lasts

(* The Scans of a view: they are there and completed, or older than the     *)
(* summary, which is there.                                                 *)
LEMMA ViewedIsThere ==
    ASSUME Typed, Shown, Summary, config.policy # "Replace", config.limit > 0,
           NEW V \in Views, NEW m \in InState(V, "Done")
    PROVE  \E k \in InState(scans, "Done") : scans[k].created >= V[m].created
<1> USE Fields
<1>1. m \in DOMAIN V /\ V[m].state = "Done" /\ V[m].created \in Int
  BY ViewsAreScans DEF InState, IsScans, ScanObject
<1>2. CASE m \in Existing
  <2>1. scans[m].state = "Done" /\ scans[m].created = V[m].created
    BY <1>1, <1>2 DEF Shown, Shows
  <2> QED
    BY <1>1, <1>2, <2>1 DEF InState, Existing
<1>3. CASE m \notin Existing
  <2>1. sched.findings \in Existing /\ V[m].created < scans[sched.findings].created
    BY <1>3 DEF Summary, Surpassed
  <2>2. sched.findings \in InState(scans, "Done")
    BY <2>1, NeverIsNoName DEF Summary, Kept
  <2>3. scans[sched.findings].created \in Int
    BY <2>1 DEF IsScans, ScanObject, Existing
  <2> QED
    BY <1>1, <2>1, <2>2, <2>3
<1> QED
  BY <1>2, <1>3

(* The parts of Summary after such a step.                                  *)
LEMMA OlderStayOlder ==
    ASSUME Typed, Shown, History, Summary, config.policy # "Replace", config.limit > 0, [Next]_vars,
           sched'.findings = sched.findings
    PROVE  /\ \A n \in Existing' : scans'[n].state = "Done" /\ scans'[n].deleting =>
                 sched.findings \in Existing' /\ scans'[n].created < scans'[sched.findings].created
           /\ \A V \in Views' : \A n \in InState(V, "Done") \ Existing' :
                 sched.findings \in Existing' /\ V[n].created < scans'[sched.findings].created
<1>1. ASSUME NEW n \in Existing', scans'[n].state = "Done", scans'[n].deleting
      PROVE  sched.findings \in Existing' /\ scans'[n].created < scans'[sched.findings].created
  <2>1. n \in Existing /\ Surpassed(scans[n].created) /\ scans'[n].created = scans[n].created
    BY <1>1, SummaryIsKept DEF Lasts
  <2> QED
    BY <2>1, SummaryLasts DEF Surpassed
<1>2. ASSUME NEW V \in Views', NEW n \in InState(V, "Done") \ Existing'
      PROVE  sched.findings \in Existing' /\ V[n].created < scans'[sched.findings].created
  <2>1. n \in DOMAIN V /\ V[n].state = "Done"
    BY DEF InState
  <2>2. V \in Views
    BY <2>1, ViewsStep DEF Existing
  <2>3. Surpassed(V[n].created)
    <3>1. CASE n \notin Existing
      BY <2>2, <3>1 DEF Summary
    <3>2. CASE n \in Existing
      <4>1. scans[n].state = "Done" /\ scans[n].created = V[n].created
        BY <2>1, <2>2, <3>2 DEF Shown, Shows
      <4> QED
        BY <3>2, <4>1, SummaryIsKept
    <3> QED
      BY <3>1, <3>2
  <2> QED
    BY <2>3, SummaryLasts DEF Surpassed
<1> QED
  BY <1>1, <1>2

LEMMA ViewsStayAhead ==
    ASSUME Typed, Shown, History, Summary, config.policy # "Replace", config.limit > 0, [Next]_vars,
           sched'.findings = sched.findings, sched.findings # Never, NEW V \in Views'
    PROVE  \E m \in InState(V, "Done") : V[m].created >= scans'[sched.findings].created
<1>1. /\ sched.findings \in InState(scans, "Done")
      /\ scans'[sched.findings].created = scans[sched.findings].created
      /\ scans[sched.findings].created \in Int
  BY SummaryLasts, Fields DEF Kept, IsScans, ScanObject, Existing
<1>2. CASE V = scans
  BY <1>1, <1>2
<1>3. CASE V \in Views
  BY <1>1, <1>3 DEF Summary
<1> QED
  BY <1>2, <1>3, ViewsStep

LEMMA HistoryStaysReached ==
    ASSUME Typed, Shown, History, Summary, config.policy # "Replace", config.limit > 0, [Next]_vars,
           sched'.findings = sched.findings, ~(pc = "findings" /\ Looking' /\ pc' # pc),
           pc' = "history", NEW m \in InState(list', "Done")
    PROVE  sched.findings \in Existing' /\ list'[m].created <= scans'[sched.findings].created
<1>1. Reached(list'[m].created)
  <2>1. CASE Reconcile
    BY <2>1, SkippedIsReached
  <2>2. CASE Looking /\ list' = list /\ pc' = pc
    BY <2>2 DEF Summary
  <2> QED
    BY <2>1, <2>2, LookingStep DEF Looking
<1> QED
  BY <1>1, SummaryLasts DEF Reached

LEMMA ListStaysBehind ==
    ASSUME Typed, Shown, Summary, config.policy # "Replace", config.limit > 0, [Next]_vars,
           Looking', NEW V \in Views', NEW m \in InState(list', "Done")
    PROVE  \E k \in InState(V, "Done") : V[k].created >= list'[m].created
<1>1. CASE Looking /\ list' = list
  <2>1. CASE V \in Views
    BY <1>1, <2>1 DEF Summary
  <2>2. CASE V = scans
    <3>1. list \in Views
      BY <1>1 DEF Views
    <3> QED
      BY <1>1, <2>2, <3>1, ViewedIsThere
  <2> QED
    BY <2>1, <2>2, ViewsStep
<1>2. CASE Reconcile
  <2>1. V = list'
    BY <1>2 DEF Reconcile, Outside, caches, Views
  <2>2. list'[m].created \in Int
    BY <1>2, Fields DEF Reconcile, IsScans, ScanObject, InState
  <2> QED
    BY <2>1, <2>2
<1> QED
  BY <1>1, <1>2, LookingStep

LEMMA CopyStaysReached ==
    ASSUME Typed, Shown, History, Summary, config.policy # "Replace", config.limit > 0, [Next]_vars,
           sched'.findings = sched.findings, Created \cap Copied = {},
           "copy" \notin config.fresh, cached'.findings \in Existing'
    PROVE  /\ sched.findings \in Existing'
           /\ scans'[cached'.findings].created <= scans'[sched.findings].created
<1>1. cached' = cached \/ cached' = sched'
  BY NextCopies DEF Copies
<1>2. CASE cached'.findings = sched.findings
  <2>1. IsScans(scans')
    BY NextTyped DEF Typed, TypeOK, IsScans
  <2>2. scans'[sched.findings].created \in Int
    BY <1>2, <2>1 DEF IsScans, ScanObject, Existing
  <2> QED
    BY <1>2, <2>2
<1>3. CASE cached' = cached
  <2>1. cached.findings \in Existing
    BY <1>3 DEF Copied, Created
  <2>2. Reached(scans[cached.findings].created)
    BY <2>1 DEF Summary
  <2>3. scans'[cached.findings].created = scans[cached.findings].created
    BY <1>3, <2>1, SummaryIsKept DEF Lasts
  <2> QED
    BY <1>3, <2>2, <2>3, SummaryLasts DEF Reached
<1> QED
  BY <1>1, <1>2, <1>3

(* UpdateFindings writes down a Scan that is kept, and not an older one.    *)
LEMMA UpdatesIsNewest ==
    ASSUME Typed, Shown, Summary, config.policy # "Replace", config.limit > 0, Updates
    PROVE  LET g == sched'.findings
           IN  /\ g \in Kept(scans) /\ g \in Existing
               /\ g \in InState(list, "Done") /\ list[g].created = scans[g].created
               /\ \A m \in InState(list, "Done") : list[m].created <= scans[g].created
               /\ sched.findings \in Existing => scans[sched.findings].created <= scans[g].created
<1> USE Fields
<1> DEFINE g == sched'.findings
<1>1. g \in Newest(list, "Done", 1) /\ list \in Views
  BY DEF Updates, Views, Looking
<1> HIDE DEF g
<1>2. /\ g \in InState(list, "Done") /\ g \in DOMAIN list /\ list[g].state = "Done"
      /\ \A m \in InState(list, "Done") : list[m].created <= list[g].created
  BY <1>1, NewestIsNewest DEF InState
<1>3. /\ \A m \in InState(list, "Done") : list[m].created \in Int
      /\ \A n \in Existing : scans[n].created \in Int
  BY DEF InState, Existing, IsScans, ScanObject
<1>4. sched.findings \in Existing => scans[sched.findings].created <= list[g].created
  <2> SUFFICES ASSUME sched.findings \in Existing
               PROVE  scans[sched.findings].created <= list[g].created
    OBVIOUS
  <2>1. PICK m \in InState(list, "Done") : list[m].created >= scans[sched.findings].created
    BY <1>1, NeverIsNoName DEF Summary
  <2> QED
    BY <1>2, <1>3, <2>1
<1>5. ~Surpassed(list[g].created)
  BY <1>2, <1>3, <1>4 DEF Surpassed
<1>6. g \in Existing
  BY <1>1, <1>2, <1>5 DEF Summary
<1>7. scans[g].created = list[g].created /\ scans[g].state = "Done"
  BY <1>1, <1>2, <1>6 DEF Shown, Shows
<1>8. ~scans[g].deleting
  BY <1>5, <1>6, <1>7 DEF Summary
<1>9. g \in Kept(scans)
  BY <1>6, <1>7, <1>8 DEF Kept, InState, Existing
<1> QED
  BY <1>2, <1>4, <1>6, <1>7, <1>9 DEF g

LEMMA SummaryUpdated ==
    ASSUME Typed, Shown, Summary, config.policy # "Replace", config.limit > 0, [Next]_vars, Updates
    PROVE  Summary'
<1> USE Fields
<1> DEFINE g == sched'.findings
<1>1. /\ g \in Kept(scans) /\ g \in Existing
      /\ g \in InState(list, "Done") /\ list[g].created = scans[g].created
      /\ \A m \in InState(list, "Done") : list[m].created <= scans[g].created
      /\ sched.findings \in Existing => scans[sched.findings].created <= scans[g].created
  BY UpdatesIsNewest
<1>2. /\ config' = config /\ pc = "findings" /\ UNCHANGED <<scans, scanCache, cached>>
      /\ Looking' => pc' = "history" /\ list' = list
      /\ Looking
  BY ConfigStays DEF Updates, Looking
<1>3. Views' \subseteq Views /\ Existing' = Existing
  BY <1>2 DEF Views, Existing
<1>4. \A n \in Existing : scans[n].created \in Int
  BY DEF Existing, IsScans, ScanObject
<1>5. \A V \in Views : \A n \in InState(V, "Done") : V[n].created \in Int
  BY ViewsAreScans DEF InState, IsScans, ScanObject
<1>6. \A c \in Int : Surpassed(c) => c < scans[g].created
  BY <1>1, <1>4 DEF Surpassed
<1>7. \A n \in Existing : scans[n].state = "Done" /\ scans[n].deleting => scans[n].created < scans[g].created
  BY <1>4, <1>6 DEF Summary
<1>8. \A V \in Views : \A n \in InState(V, "Done") \ Existing : V[n].created < scans[g].created
  BY <1>5, <1>6 DEF Summary
<1>9. \A V \in Views : \A m \in InState(list, "Done") :
         \E k \in InState(V, "Done") : V[k].created >= list[m].created
  BY <1>2 DEF Summary
<1>10. "copy" \notin config.fresh /\ cached.findings \in Existing =>
          scans[cached.findings].created <= scans[g].created
  BY <1>1, <1>4 DEF Summary, Reached
<1> HIDE DEF g
<1>11. \A V \in Views : \E k \in InState(V, "Done") : V[k].created >= scans[g].created
  BY <1>1, <1>9
<1>12. g \in Kept(scans') /\ g \in Existing' /\ scans' = scans
  BY <1>1, <1>2, <1>3
<1>13. /\ \A n \in Existing' : scans'[n].state = "Done" /\ scans'[n].deleting =>
             scans'[n].created < scans'[g].created
       /\ \A V \in Views' : \A n \in InState(V, "Done") \ Existing' : V[n].created < scans'[g].created
  BY <1>2, <1>3, <1>7, <1>8
<1>14. \A V \in Views' : \E k \in InState(V, "Done") : V[k].created >= scans'[g].created
  BY <1>3, <1>11, <1>12
<1>15. /\ pc' = "history" => \A m \in InState(list', "Done") : list'[m].created <= scans'[g].created
       /\ Looking' => \A V \in Views' : \A m \in InState(list', "Done") :
             \E k \in InState(V, "Done") : V[k].created >= list'[m].created
  <2>1. pc' = "history" => Looking'
    BY DEF Looking
  <2> QED
    BY <1>1, <1>2, <1>3, <1>9, <1>12, <2>1
<1>16. "copy" \notin config'.fresh /\ cached'.findings \in Existing' =>
          scans'[cached'.findings].created <= scans'[g].created
  BY <1>2, <1>3, <1>10
<1> QED
  BY <1>12, <1>13, <1>14, <1>15, <1>16 DEF g, Summary, Surpassed, Reached

NoneUsed == Created \cap (Listed \cup Copied) = {}

LEMMA NextSummary ==
    ASSUME Typed, Versioned, Shown, History, Summary, NoneUsed, [Next]_vars
    PROVE  Summary'
<1>1. config' = config
  BY ConfigStays
<1>2. SUFFICES ASSUME config.policy # "Replace", config.limit > 0 PROVE Summary'
  BY <1>1 DEF Summary
<1>3. CASE Updates
  BY <1>2, <1>3, SummaryUpdated
<1>4. CASE sched'.findings = sched.findings /\ ~(pc = "findings" /\ Looking' /\ pc' # pc)
  <2>1. sched.findings # Never => sched.findings \in Kept(scans')
    BY <1>2, <1>4, SummaryLasts
  <2>2. /\ \A n \in Existing' : scans'[n].state = "Done" /\ scans'[n].deleting =>
              sched.findings \in Existing' /\ scans'[n].created < scans'[sched.findings].created
        /\ \A V \in Views' : \A n \in InState(V, "Done") \ Existing' :
              sched.findings \in Existing' /\ V[n].created < scans'[sched.findings].created
    BY <1>2, <1>4, OlderStayOlder
  <2>3. sched.findings # Never => \A V \in Views' :
           \E m \in InState(V, "Done") : V[m].created >= scans'[sched.findings].created
    BY <1>2, <1>4, ViewsStayAhead
  <2>4. pc' = "history" => \A m \in InState(list', "Done") :
           sched.findings \in Existing' /\ list'[m].created <= scans'[sched.findings].created
    BY <1>2, <1>4, HistoryStaysReached
  <2>5. Looking' => \A V \in Views' : \A m \in InState(list', "Done") :
           \E k \in InState(V, "Done") : V[k].created >= list'[m].created
    BY <1>2, ListStaysBehind
  <2>6. "copy" \notin config.fresh /\ cached'.findings \in Existing' =>
           /\ sched.findings \in Existing'
           /\ scans'[cached'.findings].created <= scans'[sched.findings].created
    BY <1>2, <1>4, CopyStaysReached DEF NoneUsed
  <2> QED
    BY <1>1, <1>4, <2>1, <2>2, <2>3, <2>4, <2>5, <2>6 DEF Summary, Surpassed, Reached
<1> QED
  BY <1>3, <1>4, FindingsChange

LEMMA InitSummary == ASSUME Init PROVE Summary
<1>1. /\ DOMAIN scans = {} /\ scanCache = scans /\ pc = "idle"
      /\ sched.findings = Never /\ cached = sched
  BY DEF Init, NoScans, NoCopy
<1> QED
  BY <1>1 DEF Summary, Surpassed, Views, Looking, Existing, InState

LEMMA AlwaysSummary == Spec /\ NamesUsedOnce => [](Shown /\ History /\ Summary)
<1>1. Typed /\ Versioned /\ Shown /\ History /\ Summary /\ [Next]_vars /\ [NoneUsed]_vars
        => Shown' /\ History' /\ Summary'
  <2>1. ASSUME UNCHANGED vars PROVE Created = {}
    BY <2>1 DEF vars, world, Created, Existing
  <2>2. ASSUME Typed, Versioned, Shown, History, Summary, [Next]_vars, [NoneUsed]_vars
        PROVE  Shown' /\ History' /\ Summary'
    <3>1. NoneUsed /\ NoneReused
      BY <2>1, <2>2 DEF NoneUsed, NoneReused
    <3> QED
      BY <2>2, <3>1, NextShown, NextHistory, NextSummary
  <2> QED
    BY <2>2
<1>2. Init => Shown /\ History /\ Summary
  BY InitHistory, InitSummary
<1> QED
  BY <1>1, <1>2, AlwaysTyped, AlwaysVersioned, PTL DEF Spec, NamesUsedOnce, NoneUsed

LEMMA ForwardStep ==
    ASSUME Typed, Versioned, Shown, Summary, [Next]_vars, config.policy # "Replace", config.limit > 0
    PROVE  Forward
<1>1. CASE Updates
  <2>1. /\ sched'.findings \in Existing
        /\ sched.findings \in Existing =>
              scans[sched.findings].created <= scans[sched'.findings].created
    BY <1>1, UpdatesIsNewest
  <2>2. \A n \in Existing : scans[n].created \in Int
    BY Fields DEF Existing, IsScans, ScanObject
  <2> QED
    BY <2>1, <2>2 DEF Forward
<1> QED
  BY <1>1, FindingsChange DEF Forward

(* The summary never goes back to that of an older Scan, for any limit but  *)
(* 0, in whatever order the Scans complete, from however old a List and     *)
(* copy a Reconcile writes, and whatever it deletes before and after: a     *)
(* List is not older than the one the summary was written from, and the     *)
(* write is refused if the copy is.                                         *)
THEOREM SummarySafe == Spec /\ NamesUsedOnce => SummaryNeverGoesBack
<1>1. Typed /\ Versioned /\ Shown /\ Summary /\ [Next]_vars =>
        [config.policy # "Replace" /\ config.limit > 0
            /\ sched'.findings # sched.findings /\ sched.findings \in Existing =>
            scans[sched'.findings].created >= scans[sched.findings].created]_vars
  BY ForwardStep DEF Forward
<1> QED
  BY <1>1, AlwaysSummary, AlwaysTyped, AlwaysVersioned, PTL DEF Spec, SummaryNeverGoesBack

-----------------------------------------------------------------------------
(***************************************************************************)
(* Where the names are used once.                                           *)
(***************************************************************************)
Latest == IF pc = "record" THEN next ELSE sched.last

(* Reconcile works on the ScheduledScan as it is, and creates Scans later   *)
(* than all there are.                                                      *)
Growing ==
    /\ pc # "hash"
    /\ pc # "idle" => obj = sched
    /\ pc \in {"replace", "create", "record"} => sched.last < next /\ next <= now
    /\ \A n \in Existing \cup DOMAIN scanCache : n <= Latest

Grows ==
    /\ pc' # "hash"
    /\ pc' # "idle" => obj' = sched'
    /\ pc' \in {"replace", "create", "record"} => sched'.last < next' /\ next' <= now'
    /\ Latest <= Latest'
    /\ Created # {} => pc = "create" /\ Created = {next} /\ next = Latest'

LEMMA NextIsLater ==
    ASSUME Typed, config.kind # "none"
    PROVE  sched.last < getNextSchedule(sched)
<1> USE Fields
<1>1. /\ sched.last \in Int /\ now \in Nat /\ config.period \in Nat /\ config.period >= 1
      /\ Never \in Int /\ Never < -1
  BY ConfigFields DEF Schedule, Never
<1>2. sched.last = Never \/ sched.last <= now
  BY DEF Past
<1>3. CASE config.kind = "interval"
  BY <1>1, <1>3 DEF getNextSchedule
<1>4. CASE config.kind = "cron"
  <2> DEFINE t == IF sched.last = Never THEN 0 ELSE IF sched.last > now THEN now ELSE sched.last
  <2>1. t \in Int /\ sched.last <= t /\ getNextSchedule(sched) = NextSlot(t)
    BY <1>1, <1>2, <1>4 DEF getNextSchedule
  <2> HIDE DEF t
  <2>2. t < NextSlot(t) /\ NextSlot(t) \in Int
    BY <2>1, NextSlotIsSoon
  <2> QED
    BY <1>1, <2>1, <2>2
<1> QED
  BY <1>3, <1>4, ConfigFields

LEMMA WithStatusOfLast ==
    ASSUME TypeOK, NEW o \in Schedule
    PROVE  WithStatusOf(o).last = o.last
<1> DEFINE new == [sched EXCEPT !.last = o.last, !.hash = o.hash, !.findings = o.findings]
<1>1. new \in Schedule /\ new.last = o.last
  BY DEF TypeOK, Schedule
<1>2. [new EXCEPT !.rv = @ + 1].last = new.last
  <2> HIDE DEF new
  <2> QED
    BY <1>1 DEF Schedule
<1> QED
  BY <1>1, <1>2 DEF WithStatusOf

LEMMA ReconcileStepGrows ==
    ASSUME Typed, Growing, Quiet, "copy" \in config.fresh, ~config.retrigger, ReconcileStep
    PROVE  Grows
<1> USE Fields
<1>0. /\ sched.last \in Int /\ next \in Int /\ now \in Int /\ now' = now
      /\ Latest \in Int
  BY ConfigFields DEF ReconcileStep, Reconcile, UpdateFindings, deleteOldScans, CheckSchedule, Sleep,
     ReplaceScans, PatchHash, CreateScan, RecordTime, Outside, Schedule, Latest
<1>1. CASE Reconcile
  BY <1>0, <1>1 DEF Reconcile, AfterList, AfterFindings, Grows, Latest, Created, Existing
<1>2. CASE UpdateFindings
  <2>1. sched'.last = sched.last
    <3>1. CASE UNCHANGED sched
      BY <3>1
    <3>2. ASSUME NEW n \in Newest(list, "Done", 1), sched' = WithStatusOf([obj EXCEPT !.findings = n])
          PROVE  sched'.last = sched.last
      <4>1. n \in Int /\ obj = sched
        BY <1>2, ConfigFields DEF Newest, InState, IsScans, Times, Growing, UpdateFindings
      <4>2. [obj EXCEPT !.findings = n] \in Schedule /\ [obj EXCEPT !.findings = n].last = sched.last
        BY <4>1 DEF Schedule
      <4> QED
        BY <3>2, <4>2, WithStatusOfLast
    <3> QED
      BY <1>2, <3>1, <3>2 DEF UpdateFindings
  <2>2. pc' = "idle" \/ (pc' \in {"history", "schedule"} /\ obj' = sched')
    BY <1>2 DEF UpdateFindings, Goto, AfterFindings, ReturnAt, Fails, Rest
  <2> QED
    BY <1>0, <1>2, <2>1, <2>2 DEF UpdateFindings, Grows, Latest, Created, Existing
<1>3. CASE deleteOldScans \/ ReplaceScans
  <2>1. pc' = "idle" \/ (UNCHANGED <<obj, next>> /\ pc' = IF deleteOldScans THEN "schedule" ELSE AfterReplace)
    BY <1>3 DEF deleteOldScans, ReplaceScans, DeleteAll, Goto, ReturnError, Fails, Rest
  <2>2. \E names : scans' = Marked(names)
    BY <1>3 DEF deleteOldScans, ReplaceScans, DeleteAll
  <2>3. Created = {}
    BY <2>2 DEF Marked, Created, Existing
  <2>4. UNCHANGED sched /\ (pc = "history" \/ pc = "replace") /\ (deleteOldScans \/ pc = "replace")
    BY <1>3 DEF deleteOldScans, ReplaceScans
  <2> QED
    BY <1>0, <2>1, <2>3, <2>4 DEF Growing, Grows, Latest, AfterReplace
<1>4. CASE CheckSchedule
  <2>1. UNCHANGED <<sched, scans>> /\ pc = "schedule" /\ obj = sched
    BY <1>4 DEF CheckSchedule, Growing
  <2>2. CASE pc' = "idle"
    BY <1>0, <2>1, <2>2 DEF Grows, Latest, Created, Existing
  <2>3. CASE pc' # "idle"
    <3>1. /\ config.kind # "none" /\ next' = getNextSchedule(sched) /\ UNCHANGED obj
          /\ pc' = CASE now < next' -> "sleep"
                     [] now >= next' /\ config.policy = "Replace" /\ inProgress # {} -> "replace"
                     [] OTHER -> "create"
      BY <1>4, <2>1, <2>3 DEF CheckSchedule, ReturnError, ReturnAt, Rest, Goto, AfterReplace
    <3>2. sched.last < next' /\ next' \in Int
      BY <3>1, NextIsLater, ScheduleIsInt
    <3>3. pc' = "sleep" \/ (pc' \in {"replace", "create"} /\ next' <= now)
      BY <1>0, <3>1, <3>2
    <3> QED
      BY <1>0, <2>1, <3>1, <3>2, <3>3 DEF Grows, Latest, Created, Existing
  <2> QED
    BY <2>2, <2>3
<1>5. CASE Sleep
  BY <1>0, <1>5 DEF Sleep, ReturnAt, Rest, Grows, Latest, Created, Existing
<1>6. CASE CreateScan
  <2>1. pc = "create" /\ UNCHANGED sched /\ sched.last < next /\ next <= now /\ obj = sched
    BY <1>6 DEF CreateScan, Growing
  <2>2. CASE pc' = "idle" /\ UNCHANGED scans
    BY <1>0, <2>1, <2>2 DEF Grows, Latest, Created, Existing
  <2>3. CASE /\ pc' = "record" /\ UNCHANGED <<obj, next>>
             /\ scans' = [n \in Existing \cup {next} |->
                    IF n = next THEN [state |-> "Running", created |-> started, deleting |-> FALSE]
                    ELSE scans[n]]
    <3>1. Created \subseteq {next}
      BY <2>3 DEF Created, Existing
    <3>2. Latest = sched.last /\ Latest' = next
      BY <2>1, <2>3 DEF Latest
    <3>3. sched'.last < next' /\ next' <= now' /\ Latest <= Latest'
      BY <1>0, <2>1, <2>3, <3>2
    <3>4. Created # {} => Created = {next}
      BY <3>1
    <3> QED
      BY <2>1, <2>3, <3>2, <3>3, <3>4 DEF Grows
  <2> QED
    BY <1>6, <2>2, <2>3 DEF CreateScan, Goto, ReturnError, Fails, Rest
<1>7. CASE RecordTime
  <2>1. /\ pc = "record" /\ UNCHANGED scans /\ pc' \in {"idle", "sleep"} /\ obj = sched
        /\ next <= now /\ sched' = WithStatusOf([obj EXCEPT !.last = now])
        /\ pc' # "idle" => obj' = sched'
    BY <1>7 DEF RecordTime, Growing, AcceptsUpdate, Fails, Goto, Rest
  <2>2. [obj EXCEPT !.last = now] \in Schedule /\ [obj EXCEPT !.last = now].last = now
    BY <1>0 DEF Schedule
  <2>3. sched'.last = now
    BY <2>1, <2>2, WithStatusOfLast
  <2> QED
    BY <1>0, <2>1, <2>3 DEF Grows, Latest, Created, Existing
<1>8. CASE PatchHash
  BY <1>8 DEF PatchHash, Growing
<1> QED
  BY <1>1, <1>2, <1>3, <1>4, <1>5, <1>6, <1>7, <1>8 DEF ReconcileStep

LEMMA NextGrows ==
    ASSUME Typed, Growing, Quiet, "copy" \in config.fresh, ~config.retrigger, [Next]_vars
    PROVE  Grows
<1> USE Fields
<1>0. sched.last \in Int /\ next \in Int /\ now \in Int /\ Latest \in Int
  BY ConfigFields DEF Schedule, Latest
<1>1. CASE ReconcileStep
  BY <1>1, ReconcileStepGrows
<1>2. CASE UserEdits
  <2>1. pc = "idle" /\ UNCHANGED <<scans, work>> /\ sched'.last = sched.last
    BY <1>2 DEF UserEdits, Schedule
  <2> QED
    BY <1>0, <2>1 DEF Grows, Latest, Created, Existing, work
<1>3. CASE Crash
  <2>1. pc # "record" /\ pc' = "idle" /\ UNCHANGED <<scans, sched>>
    BY <1>3 DEF Crash, Rest, world
  <2> QED
    BY <1>0, <2>1 DEF Grows, Latest, Created, Existing
<1>4. CASE \/ Delivers \/ Tick \/ ScanEnds \/ ScanRemoved \/ UserChangesScanType \/ UNCHANGED vars
  <2>1. UNCHANGED <<sched, work>> /\ now <= now' /\ now' \in Int
    BY <1>0, <1>4 DEF Delivers, SyncSched, SyncScans, SyncType, TimerFires, Resync, Tick, ScanEnds,
       ScanRemoved, UserChangesScanType, vars, world
  <2>2. Existing' \subseteq Existing
    BY <1>4 DEF Delivers, SyncSched, SyncScans, SyncType, TimerFires, Resync, Tick, ScanEnds,
       ScanRemoved, UserChangesScanType, vars, world, Existing, InState
  <2> QED
    BY <1>0, <2>1, <2>2 DEF Growing, Grows, Latest, Created, work
<1> QED
  BY <1>1, <1>2, <1>3, <1>4 DEF Next, RetriggerScheduledScan, Delivers

LEMMA NextGrowing ==
    ASSUME Typed, Growing, Quiet, "copy" \in config.fresh, ~config.retrigger, [Next]_vars
    PROVE  Growing' /\ NoneUsed
<1> USE Fields
<1>1. Grows
  BY NextGrows
<1>2. Existing' \subseteq Existing \cup Created /\ DOMAIN scanCache' \subseteq DOMAIN scanCache \cup Existing
  BY CachesStep DEF Created, Existing
<1>3. /\ \A n \in Existing \cup DOMAIN scanCache : n \in Int
      /\ Latest \in Int /\ next \in Int /\ sched.last \in Int
  BY ConfigFields DEF IsScans, Times, Existing, Latest, Schedule
<1>4. Latest' \in Int
  BY NextTyped, Fields DEF Latest, Typed, TypeOK, Schedule
<1>5. \A n \in Existing' \cup DOMAIN scanCache' : n <= Latest'
  BY <1>1, <1>2, <1>3, <1>4 DEF Growing, Grows
<1>6. Created \cap Listed = {}
  <2>1. Created # {} => Created = {next} /\ pc = "create"
    BY <1>1 DEF Grows
  <2>2. \A n \in DOMAIN scanCache : pc = "create" => n < next
    BY <1>3 DEF Growing, Latest
  <2> QED
    BY <1>3, <2>1, <2>2 DEF Listed
<1> QED
  BY <1>1, <1>5, <1>6 DEF Growing, Grows, NoneUsed, Copied

(* Under Quiet, where Reconcile reads the ScheduledScan as it is and no     *)
(* change of a ScanType sets LastScheduleTime back, each Scan is named      *)
(* after a later time than all before: nothing is left to assume.           *)
THEOREM NamesGrow ==
    ASSUME Quiet, \A c \in Configs : "copy" \in c.fresh /\ ~c.retrigger
    PROVE  Spec => NamesUsedOnce
<1>1. Init => Growing
  <2> SUFFICES ASSUME Init PROVE Growing
    OBVIOUS
  <2>1. DOMAIN scans = {} /\ scanCache = scans /\ pc = "idle"
    BY DEF Init, NoScans
  <2> QED
    BY <2>1 DEF Growing, Existing
<1>2. Typed => "copy" \in config.fresh /\ ~config.retrigger
  BY DEF Typed, TypeOK
<1>3. Typed /\ Growing /\ [Next]_vars => Growing' /\ [Created \cap (Listed \cup Copied) = {}]_vars
  BY <1>2, NextGrowing DEF NoneUsed
<1> QED
  BY <1>1, <1>3, AlwaysTyped, PTL DEF Spec, NamesUsedOnce
=============================================================================
