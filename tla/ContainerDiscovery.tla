------------------------- MODULE ContainerDiscovery -------------------------
(***************************************************************************)
(* The container auto-discovery (auto-discovery/kubernetes/controllers/     *)
(* container_scan_controller.go): one ScheduledScan for each image that     *)
(* runs in the namespace, deleted with the last pod of the image.           *)
(*                                                                          *)
(* Each pod has one container and there is one scanConfig: the loops over   *)
(* both handle each pair on its own and log the errors.                     *)
(***************************************************************************)
EXTENDS Workload

VARIABLES
    podQueue,       \* pods in the work queue
    call,           \* the call that Reconcile is about to make
    imageScanCache  \* imageScans in the informer cache
containerVars == <<podQueue, call, imageScanCache>>

Call == [verb: {"none", "create", "delete"}, images: SUBSET Images]
NoCall == [verb |-> "none", images |-> {}]

ContainerTypeOK ==
    /\ podQueue \subseteq Containers
    /\ call \in Call
    /\ imageScanCache \subseteq Images

ContainerInit ==
    /\ podQueue = IF Enabled("container") THEN config.started ELSE {}
    /\ call = NoCall /\ imageScanCache = imageScans

KnownScans == IF config.fresh THEN imageScans ELSE imageScanCache

podNotReady(c) == seen[c] \notin {"running", "ending"}

(* Mutation: no pod counts. *)
containerIDNeverInUse(i) == FALSE

(* Mutation: pods that end count. *)
containerIDNotGone(i) ==
    \E c \in Containers : seen[c] \in {"running", "ending"} /\ config.image[c] = i

(* Pods that end do not count, those of the secureCodeBox do.               *)
containerIDInUse(i) == \E c \in Containers : seen[c] = "running" /\ config.image[c] = i

(* Pods with imagePullSecrets are only scanned if these can be mapped.      *)
createScheduledScans(c) == c \in config.secrets => config.mapSecrets

Ignored(c) == c \in config.managed \/ podNotReady(c)

getNonScannedImageIDs(c) == {config.image[c]} \ KnownScans
getOrphanedScanImageIDs(c) == {i \in {config.image[c]} \cap KnownScans : ~containerIDInUse(i)}

checkForScanTypes == ImageScanType \in installed

(* As long as the ScanType is missing the pod is requeued.                  *)
ReconcilePod(c) ==
    /\ c \in podQueue /\ call = NoCall
    /\ Ignored(c) \/ checkForScanTypes
    /\ podQueue' = podQueue \ {c}
    /\ call' = CASE Ignored(c) -> NoCall
                 [] ~Ignored(c) /\ seen[c] = "running" ->
                        IF getNonScannedImageIDs(c) # {} /\ createScheduledScans(c)
                        THEN [verb |-> "create", images |-> getNonScannedImageIDs(c)]
                        ELSE NoCall
                 [] OTHER ->
                        IF getOrphanedScanImageIDs(c) # {}
                        THEN [verb |-> "delete", images |-> getOrphanedScanImageIDs(c)]
                        ELSE NoCall
    /\ UNCHANGED <<workload, imageScans, imageScanCache, bounds>>

(* The scan is read once more before it is deleted. *)
deleteScans(images) == imageScans \ (images \cap KnownScans)

(* That a scan exists already, or does not exist any more, is an error that *)
(* is logged like all others.                                               *)
CreateOrDelete ==
    /\ call # NoCall /\ call' = NoCall
    /\ \/ /\ imageScans' = IF call.verb = "create" THEN imageScans \cup call.images
                           ELSE deleteScans(call.images)
          /\ UNCHANGED faults
       \/ CallFails /\ UNCHANGED imageScans
    /\ UNCHANGED <<workload, podQueue, imageScanCache, crashes, edits>>

SyncImageScans ==
    /\ imageScanCache # imageScans /\ imageScanCache' = imageScans
    /\ UNCHANGED <<workload, imageScans, podQueue, call, bounds>>

(* An event of a pod, or the resync of its cache.                           *)
QueuePods(set) == podQueue' = IF Enabled("container") THEN podQueue \cup set ELSE podQueue

ResyncPods ==
    /\ config.resyncs
    /\ podQueue' = podQueue \cup {c \in Containers : seen[c] \notin {"none", "gone"}}
    /\ UNCHANGED <<workload, imageScans, call, imageScanCache, bounds>>

ContainerNext ==
    \/ \E c \in Containers : ReconcilePod(c)
    \/ CreateOrDelete \/ SyncImageScans \/ ResyncPods

(* Nothing of a pod that ends is left to do. *)
EndReconciled(c) == seen[c] = "ending" /\ c \notin podQueue /\ call = NoCall
=============================================================================
