---------------------------- MODULE AutoDiscovery ----------------------------
(***************************************************************************)
(* The auto-discoveries beside the workload they watch.  Those of services  *)
(* and containers are one process that shares the informer cache of pods    *)
(* (auto-discovery/kubernetes/main.go); that of AWS is a program of its own *)
(* and watches another workload, so that it is never combined with them.    *)
(***************************************************************************)
EXTENDS ContainerDiscovery, ServiceDiscovery, AwsDiscovery

vars == <<workload, imageScans, containerVars, serviceVars, awsVars, bounds>>

TypeOK == WorkloadTypeOK /\ ContainerTypeOK /\ ServiceTypeOK /\ AwsTypeOK
Init == WorkloadInit /\ ContainerInit /\ ServiceInit /\ AwsInit

-----------------------------------------------------------------------------
(***************************************************************************)
(* The workload.                                                            *)
(***************************************************************************)
ContainerChanges(c) ==
    /\ \E p \in Follows(phase[c]) :
          /\ phase' = [phase EXCEPT ![c] = p]
          /\ config.graceful /\ Enabled("container") /\ phase[c] = "ending" => EndReconciled(c)
          /\ Send(c, p)
    /\ UNCHANGED <<config, seen, installed, imageScans, containerVars, serviceVars,
                   RunningContainers, work, bounds>>

(* The informer sees the newest state of a pod, and queues its key. *)
Deliver(c) ==
    /\ ~Enabled("aws") /\ seen[c] # phase[c]
    /\ seen' = [seen EXCEPT ![c] = phase[c]]
    /\ QueuePods({c})
    /\ UNCHANGED <<config, phase, installed, imageScans, call, imageScanCache, serviceVars,
                   awsVars, bounds>>

InstallScanType(t) ==
    /\ t \notin installed /\ installed' = installed \cup {t}
    /\ UNCHANGED <<config, phase, seen, imageScans, containerVars, serviceVars, awsVars, bounds>>

(***************************************************************************)
(* The process starts again: caches and work queues are filled anew, what   *)
(* was in memory is lost.  Not between an update and a restart of a         *)
(* ScheduledScan (an assumption).                                           *)
(***************************************************************************)
Crash ==
    /\ crashes < config.crashes /\ crashes' = crashes + 1
    /\ step # "restart"
    /\ seen' = IF Enabled("aws") THEN seen ELSE phase
    /\ podQueue' = IF Enabled("container") THEN {c \in Containers : phase[c] \notin {"none", "gone"}}
                   ELSE {}
    /\ call' = NoCall /\ imageScanCache' = imageScans
    /\ Return /\ serviceScanCache' = serviceScans
    /\ RunningContainers' = NoContainers /\ work' = "none"
    /\ UNCHANGED <<config, phase, installed, imageScans, serviceScans, ran, messages, faults, edits>>

Environment ==
    \/ \E c \in Containers : ContainerChanges(c) \/ Deliver(c)
    \/ \E t \in ScanTypes : InstallScanType(t)
    \/ Crash

Next ==
    \/ Environment
    \/ Enabled("container") /\ ContainerNext /\ UNCHANGED <<serviceVars, awsVars>>
    \/ Enabled("service") /\ ServiceNext /\ UNCHANGED <<containerVars, awsVars>>
    \/ Enabled("aws") /\ AwsNext /\ UNCHANGED <<containerVars, serviceVars>>

Spec == Init /\ [][Next]_vars

(***************************************************************************)
(* The discoveries run, watches deliver, the operator runs what is due.     *)
(* Nothing has to happen to the workload, and nobody has to install         *)
(* anything.  The watch of ScheduledScans is strongly fair, because the     *)
(* instances that are steady hold it up again and again.                    *)
(***************************************************************************)
Container(A) == Enabled("container") /\ A /\ UNCHANGED <<serviceVars, awsVars>>
Service(A) == Enabled("service") /\ A /\ UNCHANGED <<containerVars, awsVars>>
FairSpec ==
    /\ Spec
    /\ \A c \in Containers : WF_vars(Deliver(c)) /\ WF_vars(Container(ReconcilePod(c)))
    /\ WF_vars(Container(CreateOrDelete)) /\ WF_vars(Container(SyncImageScans))
    /\ WF_vars(Container(ResyncPods))
    /\ WF_vars(Service(ServiceReconcileStep)) /\ SF_vars(Service(SyncServiceScans))
    /\ \A t \in ScanTypes : WF_vars(Service(RunServiceScan(t)))
    /\ WF_vars(Enabled("aws") /\ AwsNext /\ UNCHANGED <<containerVars, serviceVars>>)

-----------------------------------------------------------------------------
(***************************************************************************)
(* Properties.                                                              *)
(***************************************************************************)
Uses(c, i) == config.image[c] = i /\ phase[c] = "running"
              /\ c \notin config.managed /\ (Enabled("container") => createScheduledScans(c))

(* An image that runs is scanned or stops to run, although Reconcile reads  *)
(* caches that lag, other pods of the image end at the same time and take   *)
(* its ScheduledScan with them, and calls fail.                             *)
EveryRunningImageIsScanned ==
    \A i \in Images :
        (config.enabled \cap {"container", "aws"} # {} /\ (\E c \in Containers : Uses(c, i))
             /\ (Enabled("container") => ImageScanType \in installed))
            ~> (i \in imageScans \/ ~\E c \in Containers : Uses(c, i))

(* The ScheduledScan of an image no container has any more is removed.  Not *)
(* after a pod ended that nobody has reconciled, nor where the container    *)
(* discovery read a stale cache or a call of it failed, which it only logs; *)
(* nor after a restart of the AWS discovery, which forgets what was running.*)
Present(i) == \E c \in Containers : config.image[c] = i /\ phase[c] \notin {"none", "gone"}
OrphanedScansAreRemoved ==
    \A i \in Images :
        (config.graceful /\ (Enabled("container") => config.fresh) /\ i \in imageScans /\ ~Present(i))
            ~> (i \notin imageScans \/ Present(i) \/ (Enabled("container") /\ faults > 0))

(* "When both `nginx v1.5` pods get deleted the corresponding scheduled     *)
(* scans will also be automatically deleted"                                *)
(* (container-auto-discovery.md:17), although a call fails.                 *)
ScansAreDeletedWithTheirPods ==
    \A i \in Images :
        (config.graceful /\ i \in imageScans /\ ~Present(i)) ~> (i \notin imageScans \/ Present(i))

(* When nothing is left to do, the ScheduledScans are those of the images   *)
(* that run: none is missing, although each Reconcile decides on a single   *)
(* pod and others change in between, and none is left over.  As long as no  *)
(* call of the container discovery failed and the AWS discovery was not     *)
(* restarted; and where pods of the secureCodeBox, which keep a             *)
(* ScheduledScan but never remove it, have images of their own.             *)
RunningImages(set) == {config.image[c] : c \in {d \in set : phase[d] = "running"}}
Unmanaged == Containers \ config.managed
ManagedApart == \A c \in config.managed, d \in Unmanaged : config.image[c] # config.image[d]
ContainersAtRest ==
    /\ config.enabled \cap {"container", "aws"} = {"container"}
    /\ seen = phase /\ podQueue = {} /\ call = NoCall
AwsAtRest == config.enabled = {"aws"} /\ messages = <<>> /\ work = "none"
ScansMatchAtRest ==
    /\ ContainersAtRest /\ config.fresh /\ faults = 0 =>
          /\ RunningImages({c \in Unmanaged : createScheduledScans(c)}) \subseteq imageScans
          /\ config.graceful /\ ManagedApart => imageScans \subseteq RunningImages(Unmanaged)
    /\ AwsAtRest /\ crashes = 0 /\ config.started = {} => imageScans = RunningImages(Containers)

(* When all pods of the service have come to run one image, its targets are *)
(* scanned for that version, unless the pods change again.                  *)
AllRun(i) == /\ \A c \in Containers : phase[c] \in {"none", "running", "gone"}
             /\ {config.image[c] : c \in {d \in Containers : phase[d] = "running"}} = {i}
Reached(t) == \E n \in DOMAIN config.targets :
                  config.targets[n] = t /\ \A m \in 1..n : config.targets[m] \in installed
NewVersionIsScanned ==
    \A i \in Images, t \in ScanTypes \ {ImageScanType} :
        (Enabled("service") /\ config.docker /\ AllRun(i) /\ Reached(t))
            ~> (~AllRun(i) \/ ran[t] = i)

(* The discovery does not start a scan of a version again that was scanned, *)
(* however stale its cache is, as long as the List and the Get of a target  *)
(* read the same.                                                           *)
Restarts(t) == serviceScans'[t].due /\ ~serviceScans[t].due
VersionIsScannedOnce ==
    [][ \A t \in DOMAIN serviceScans :
            (config.steady \/ config.fresh) /\ Restarts(t) => serviceScans[t].digest # ran[t] ]_vars

(* "Service Version was already scanned. Skipping."                         *)
(* (service_scan_controller.go:142), whatever the two read.                 *)
ScannedVersionIsSkipped ==
    [][ \A t \in DOMAIN serviceScans : Restarts(t) => serviceScans[t].digest # ran[t] ]_vars
=============================================================================
