-------------------------- MODULE ServiceDiscovery --------------------------
(***************************************************************************)
(* The service auto-discovery (auto-discovery/kubernetes/controllers/       *)
(* service_scan_controller.go) for one Service that selects all pods: one   *)
(* ScheduledScan for each HTTP port and scanConfig (a target, named after   *)
(* its ScanType here), labelled with the digest of the pods' image and run  *)
(* again when this changes.                                                 *)
(*                                                                          *)
(* Reconcile is always run again after a while.  A container that ends      *)
(* stays ready until it is gone.                                            *)
(***************************************************************************)
EXTENDS Workload

VARIABLES
    step,           \* of Reconcile
    at,             \* the target it is at
    version,        \* the digest it has found
    previousScan,   \* its copy of the target's ScheduledScan
    serviceScans,   \* the ScheduledScans: a function on the targets that have one
    serviceScanCache,
    ran             \* history: the version each target was last scanned for
serviceVars == <<step, at, version, previousScan, serviceScans, serviceScanCache, ran>>

NoDigest == "no digest"
Versions == Images \cup {NoDigest}
ServiceScan == [rv: Nat, digest: Versions, due: BOOLEAN]
IsScanMap(f) == DOMAIN f \subseteq ScanTypes /\ \A t \in DOMAIN f : f[t] \in ServiceScan
NoScans == [t \in {} |-> {}]
NoScan == [rv |-> 0, digest |-> NoDigest, due |-> FALSE]

ServiceTypeOK ==
    /\ step \in {"idle", "check", "get", "create", "update", "restart"}
    /\ at \in 1..Len(config.targets) + 1
    /\ version \in Versions
    /\ previousScan \in ServiceScan
    /\ IsScanMap(serviceScans) /\ IsScanMap(serviceScanCache)
    /\ ran \in [ScanTypes -> Versions]

ServiceInit ==
    /\ step = "idle" /\ at = 1 /\ version = NoDigest /\ previousScan = NoScan
    /\ serviceScans = NoScans /\ serviceScanCache = NoScans
    /\ ran = [t \in ScanTypes |-> NoDigest]

target == config.targets[at]
Scans == IF config.fresh THEN serviceScans ELSE serviceScanCache

(* Only image IDs of Docker are understood. *)
gatherPodDigests ==
    {config.image[c] : c \in {d \in Containers : config.docker /\ seen[d] \in {"running", "ending"}}}
containerDigestsAllMatch == Cardinality(gatherPodDigests) <= 1

(* A pod without container statuses counts as ready. *)
serviceHasReadyPods == \E c \in Containers : seen[c] \in {"pending", "running", "ending"}

-----------------------------------------------------------------------------
Return == step' = "idle" /\ at' = 1 /\ version' = NoDigest /\ previousScan' = NoScan
NextTarget == step' = "check" /\ at' = at + 1 /\ previousScan' = NoScan /\ UNCHANGED version
Goto(s) == step' = s /\ UNCHANGED <<at, version>>
Stored(scan) == serviceScans' = [t \in DOMAIN serviceScans \cup {target} |->
                                     IF t = target THEN scan ELSE serviceScans[t]]
Outside == UNCHANGED <<workload, imageScans, serviceScanCache, ran, crashes, edits>>

ReconcileService ==
    /\ step = "idle" /\ config.targets # <<>>
    /\ containerDigestsAllMatch /\ serviceHasReadyPods
    /\ step' = "check"
    /\ version' \in IF gatherPodDigests = {} THEN {NoDigest} ELSE gatherPodDigests
    /\ UNCHANGED <<at, previousScan, serviceScans, faults>> /\ Outside

(* A ScheduledScan with the labels of this version exists: nothing to do.   *)
(* Without a digest the labels select the scan of any version.              *)
alreadyScanned ==
    target \in DOMAIN Scans /\ version \in {NoDigest, Scans[target].digest}

CheckTarget ==
    /\ step = "check"
    /\ \/ at > Len(config.targets) /\ Return
       \/ at <= Len(config.targets) /\ alreadyScanned /\ NextTarget
       \/ at <= Len(config.targets) /\ ~alreadyScanned /\ Goto("get") /\ UNCHANGED previousScan
    /\ UNCHANGED <<serviceScans, faults>> /\ Outside

(* The target's ScheduledScan is read once more, by its name.               *)
GetPreviousScan ==
    /\ step = "get"
    /\ \/ /\ target \notin DOMAIN Scans
          /\ IF target \in installed THEN Goto("create") /\ UNCHANGED previousScan ELSE Return
       \/ target \in DOMAIN Scans /\ Goto("update") /\ previousScan' = Scans[target]
    /\ UNCHANGED <<serviceScans, faults>> /\ Outside

(* An error is only logged. *)
CreateServiceScan ==
    /\ step = "create" /\ NextTarget
    /\ \/ target \notin DOMAIN serviceScans
          /\ Stored([rv |-> 1, digest |-> version, due |-> TRUE]) /\ UNCHANGED faults
       \/ target \in DOMAIN serviceScans /\ UNCHANGED <<serviceScans, faults>>
       \/ CallFails /\ UNCHANGED serviceScans
    /\ Outside

(* Mutation: an update overwrites what others wrote. *)
NeverConflict == FALSE

Conflict == previousScan.rv # serviceScans[target].rv

(* An update that changes nothing leaves the resourceVersion as it is.      *)
Relabelled(scan) ==
    IF scan.digest = version THEN scan ELSE [scan EXCEPT !.digest = version, !.rv = @ + 1]

(* Mutation: the new version is not scanned at once. *)
UpdateWithoutRestart ==
    LET new == Relabelled(serviceScans[target])
    IN  /\ step = "update"
        /\ \/ ~Conflict /\ Stored(new) /\ NextTarget /\ UNCHANGED faults
           \/ Conflict /\ Return /\ UNCHANGED <<serviceScans, faults>>
           \/ CallFails /\ Return /\ UNCHANGED serviceScans
        /\ Outside

UpdateServiceScan ==
    LET new == Relabelled(serviceScans[target])
    IN  /\ step = "update"
        /\ \/ ~Conflict /\ Stored(new) /\ previousScan' = new /\ Goto("restart") /\ UNCHANGED faults
           \/ Conflict /\ Return /\ UNCHANGED <<serviceScans, faults>>
           \/ CallFails /\ Return /\ UNCHANGED serviceScans
        /\ Outside

restartScheduledScan ==
    /\ step = "restart"
    /\ \/ /\ ~Conflict
          /\ Stored([serviceScans[target] EXCEPT !.due = TRUE, !.rv = @ + 1])
          /\ NextTarget
       \/ Conflict /\ Return /\ UNCHANGED serviceScans
    /\ UNCHANGED faults /\ Outside

SyncServiceScans ==
    /\ config.steady => step # "get"
    /\ serviceScanCache # serviceScans /\ serviceScanCache' = serviceScans
    /\ UNCHANGED <<workload, imageScans, step, at, version, previousScan, serviceScans, ran, bounds>>

-----------------------------------------------------------------------------
(***************************************************************************)
(* The operator runs a ScheduledScan that is due, and writes its status;    *)
(* so do it and users at other times, but not (an assumption) between the   *)
(* update and the restart of a ScheduledScan, where no call fails either.   *)
(***************************************************************************)
RunServiceScan(t) ==
    /\ t \in DOMAIN serviceScans /\ serviceScans[t].due
    /\ serviceScans' = [serviceScans EXCEPT ![t].due = FALSE, ![t].rv = @ + 1]
    /\ ran' = [ran EXCEPT ![t] = serviceScans[t].digest]
    /\ UNCHANGED <<workload, imageScans, step, at, version, previousScan, serviceScanCache, bounds>>

TouchServiceScan(t) ==
    /\ t \in DOMAIN serviceScans
    /\ step # "restart"
    /\ edits < config.edits /\ edits' = edits + 1
    /\ serviceScans' = [serviceScans EXCEPT ![t].rv = @ + 1]
    /\ UNCHANGED <<workload, imageScans, step, at, version, previousScan, serviceScanCache, ran,
                   crashes, faults>>

ServiceReconcileStep ==
    \/ ReconcileService \/ CheckTarget \/ GetPreviousScan
    \/ CreateServiceScan \/ UpdateServiceScan \/ restartScheduledScan
ServiceNext ==
    \/ ServiceReconcileStep \/ SyncServiceScans
    \/ \E t \in ScanTypes : RunServiceScan(t) \/ TouchServiceScan(t)
=============================================================================
