------------------------ MODULE ScheduledProperties ------------------------
(***************************************************************************)
(* What the ScheduledScan and the ScanType controller must guarantee.       *)
(***************************************************************************)
EXTENDS ScheduledScans

Created == Existing' \ Existing

(* Under Forbid no Scan is started beside one that still runs, although     *)
(* Reconcile decides on a List it took some calls ago and on a stale copy   *)
(* of the ScheduledScan.  Only for Lists that are not stale.                *)
ForbidNeverOverlaps ==
    [][ config.policy = "Forbid" /\ "list" \in config.fresh /\ Created # {} =>
            InState(scans, "Running") = {} ]_vars

(* The history keeps the newest completed Scans: one that is deleted leaves *)
(* as many newer ones as the limit says.                                    *)
HistoryKept ==
    [][ \A n \in InState(scans, "Done") \cap Existing' :
            config.policy # "Replace" /\ ~scans[n].deleting /\ scans'[n].deleting =>
                Cardinality({m \in InState(scans, "Done") \ {n} :
                                 scans[m].created >= scans[n].created}) >= config.limit ]_vars

(* ... and only those, in the end. *)
HistoryTrimmed ==
    \A s \in {"Done", "Errored"} :
        Cardinality(InState(scans, s)) > config.limit
            ~> Cardinality(InState(scans, s)) <= config.limit

(* status.findings never goes back to the summary of an older Scan, in      *)
(* whatever order the Scans finish.  With a limit of 0, and with Scans that *)
(* finish while they are being replaced, it can.                            *)
SummaryNeverGoesBack ==
    [][ config.policy # "Replace" /\ config.limit > 0
            /\ sched'.findings # sched.findings /\ sched.findings \in Existing =>
            scans[sched'.findings].created >= scans[sched.findings].created ]_vars

(* The assumptions of the proofs of the two: no name, a time, is used again *)
(* while a stale List, or copy, that Reconcile may still read has the Scan  *)
(* that had it.  Only a LastScheduleTime that is set back, or not recorded, *)
(* makes a time recur.                                                      *)
Listed == IF "list" \in config.fresh THEN {} ELSE DOMAIN scanCache
Copied == IF "copy" \in config.fresh THEN {} ELSE {cached.findings}
ListedNamesUsedOnce == [][ Created \cap Listed = {} ]_vars
NamesUsedOnce == [][ Created \cap (Listed \cup Copied) = {} ]_vars

(* A ScheduledScan is never forgotten: while the operator is at rest, has   *)
(* nothing queued and has seen the last change, a timer is set, for the     *)
(* next slot or earlier, or for the next tick.  Reconcile ends in a dozen   *)
(* ways, each of which must leave an event, an error or a delay behind.     *)
(* All do but two: Reconcile without the ScanType returns nothing, and one  *)
(* that overslept a delay that is not positive.                             *)
NoWakeUpIsLost ==
    /\ config.kind # "none" /\ (config.retrigger => config.installed)
    /\ pc = "idle" /\ ~queued /\ cached = sched /\ ~overslept
    => /\ wake # Never
       /\ wake <= getNextSchedule(sched) \/ wake <= now + 1

(* A ScheduledScan that is due becomes not due: a Scan was started for it,  *)
(* and LastScheduleTime says so.  Without resyncs of the caches it can be   *)
(* overslept, if no earlier timer is left: after a restart, for one.        *)
Due == /\ config.kind # "none" /\ ~sched.suspend
       /\ config.retrigger => typ # 0
       /\ getNextSchedule(sched) <= now
ScheduleCatchesUp == Due ~> ~Due \/ (overslept /\ wake = Never /\ ~config.resyncs)

(* "a Scan that gets repeated at specific time intervals"                   *)
(* (scheduled-scan.md:10): a slot that is overslept, too, leads to a Scan.  *)
(* Without an event, and before the informers resync (every ten hours).     *)
RepeatedAtIntervals == Due ~> ~Due

(* After a change of the ScanType a Scan is started with the new one.       *)
ScanTypeChangeIsScanned ==
    \A v \in {1, 2} :
        config.retrigger /\ typ = v ~> typ # v \/ sched.suspend \/ scanned = v

(* A running Scan that is replaced is followed by another one.  Only if the *)
(* ScheduledScan is not read from a stale cache: from one that misses the   *)
(* recorded time the Scan just started is replaced, by none.                *)
ReplacedByAnother ==
    ("copy" \in config.fresh /\ \E n \in Existing : scans[n].deleting /\ scans[n].state = "Running")
        ~> (\E n \in Existing : ~scans[n].deleting)
=============================================================================
