--------------------------- MODULE ScanProperties ---------------------------
(***************************************************************************)
(* What the scan operator must guarantee.                                   *)
(***************************************************************************)
EXTENDS ScanReconciler

Lifecycle == INSTANCE ScanLifecycle WITH
                 phase <- IF scan.exists THEN scan.state ELSE "Gone",
                 groups <- scan.groups, hook <- scan.hook, finished <- scan.finished

(***************************************************************************)
(* Under every interleaving, stale cache, crash and lost answer.            *)
(***************************************************************************)

(* The status of the Scan follows the life cycle, although it is written    *)
(* from copies of a stale cache while parser, hooks and users write too:    *)
(* states are never skipped or revisited, a finished Scan never reopens,    *)
(* hooks are chosen once and only those of the current group advance.       *)
FollowsLifecycle == Lifecycle!Spec

(* status.findings changes only when a parser or hook reports it: no status *)
(* write of the operator puts an older summary back (updateScanStatus       *)
(* writes the whole status of its copy).                                    *)
FindingsOnlyFromJobs ==
    [][ scan'.findings # scan.findings =>
            \E j \in Slots : /\ jobs[j] # "Patched" /\ jobs'[j] = "Patched"
                             /\ scan'.findings = j[1] ]_vars

(* A scanner runs only for a Scan whose deletion will clean up after it:    *)
(* from the creation of the first scanner Job on, the S3 finalizer is on    *)
(* the Scan until it is being deleted.                                      *)
ScannerNeedsFinalizer ==
    (\E j \in JobsOf("scanner") : jobs[j] # "None")
        => "s3" \in scan.finalizers \/ scan.deleting \/ ~scan.exists

(***************************************************************************)
(* With an up-to-date List of the Jobs.                                     *)
(***************************************************************************)

(* No two Jobs of one kind are ever alive together, and while the Scan      *)
(* exists no second one is created, whatever fails and whenever the         *)
(* operator restarts: "Job already exists. Doesn't need to be created."     *)
(* (startScan, startParser; processPendingHook likewise).  Only a Reconcile *)
(* that releases the last finalizer of a Scan and then falls through to its *)
(* state may replace a Job the garbage collector has just taken.            *)
OneJobOfEachKind ==
    \A i, j \in Slots :
        i[1] = j[1] /\ i # j /\ jobs[i] # "None" /\ jobs[j] # "None"
            => ~scan.exists /\ "Gone" \in {jobs[i], jobs[j]}

(* A Scan is past Scanning only with its raw result file stored, and past   *)
(* Parsing only with findings stored: the state tells the truth about the   *)
(* files until the deletion removes them.                                   *)
StateMatchesFiles ==
    scan.exists /\ ~scan.deleting =>
        /\ scan.state \in {"ScanCompleted", "Parsing", "ParseCompleted", "HookProcessing", "Done"}
              => s3.raw
        /\ scan.state \in {"ParseCompleted", "HookProcessing", "Done"} => s3.findings # "none"

(* The summary in the status never runs ahead of findings.json, although    *)
(* each Job writes the two separately, parser and hooks in opposite order,  *)
(* and a failed pod leaves one of them behind: once the Scan is parsed, the *)
(* file comes from the Job of the summary or from a hook of a later group.  *)
GroupIndex(h) == {g \in DOMAIN scan.groups : \E k \in DOMAIN scan.groups[g] :
                                                 scan.groups[g][k].name = h}
SummaryNeverAhead ==
    scan.exists /\ ~scan.deleting /\ scan.state \in {"ParseCompleted", "HookProcessing", "Done"}
        => /\ scan.findings # "none"
           /\ scan.findings # s3.findings =>
                 /\ s3.findings \in ReadAndWriteHooks
                 /\ \A f \in GroupIndex(scan.findings), g \in GroupIndex(s3.findings) : f < g

(* In a Scan that is Done the summary is that of findings.json: "Update the *)
(* scans findingStats (severities, categories, or the count) of the scan    *)
(* results".  Not so: a hook whose patch failed has uploaded; its next pod  *)
(* may find everything changed already and succeeds without a patch.        *)
DoneIsConsistent ==
    scan.exists /\ ~scan.deleting /\ scan.state = "Done" => scan.findings = s3.findings

(* No hook Job exists before the Jobs of all hooks of earlier groups have   *)
(* succeeded: priorities hold, and a ReadAndWrite hook works on findings    *)
(* that nobody else is changing.                                            *)
HookJobsInOrder ==
    scan.exists =>
        \A j \in Slots : j[1] \in HookNames /\ jobs[j] # "None" =>
            /\ GroupIndex(j[1]) # {}
            /\ \A h \in HookNames :
                  (\E f \in GroupIndex(h), g \in GroupIndex(j[1]) : f < g)
                      => \E i \in JobsOf(h) : jobs[i] = "Succeeded"

(* A Scan that was Done leaves no file behind when it is removed: its       *)
(* finalizer is only released after a cleanup of everything its Jobs wrote. *)
DoneScanIsCleanedUp ==
    [][ scan.exists /\ scan.state = "Done" /\ ~scan'.exists
            => s3' = [raw |-> FALSE, findings |-> "none"] ]_vars

(* Once a Scan and the pods of its Jobs are gone, so are its files:         *)
(* "Finalizer to delete related files in s3 when the scan gets deleted".    *)
(* Not so: pods of a Scan that is deleted early upload after the cleanup.   *)
FilesGoneWithScan ==
    ~scan.exists /\ (\A j \in Slots : jobs[j] \notin Running)
        => s3 = [raw |-> FALSE, findings |-> "none"]

(***************************************************************************)
(* Liveness, of FairSpec.                                                   *)
(***************************************************************************)
ResumedAgain == []<>(~scan.suspend)

(* A Scan that is not left suspended finishes or is removed, although a     *)
(* conflicting status write is dropped without a retry: the change that     *)
(* conflicted is itself an event.                                           *)
EveryScanFinishes == ResumedAgain => <>(scan.state \in Terminal \/ ~scan.exists)

(* A deleted Scan that is not left suspended goes away. *)
DeletionCompletes == ResumedAgain => (scan.deleting ~> ~scan.exists)

(* With a TTL, a finished Scan is removed, suspended or not and although    *)
(* the timer is lost with the process: "For Done/Errored scans, continue to *)
(* allow TTL cleanup" (Reconcile).                                          *)
FinishedScanIsRemoved == HasTTL => (scan.finished ~> ~scan.exists)
=============================================================================
