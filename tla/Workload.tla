------------------------------ MODULE Workload ------------------------------
(***************************************************************************)
(* What the auto-discoveries watch: containers, each with an image, in the  *)
(* pods of a Kubernetes namespace (one per pod) or in tasks of AWS ECS; and *)
(* the ScheduledScans they keep for images.                                 *)
(*                                                                          *)
(* A container is started once: a new one has a new name.                   *)
(***************************************************************************)
EXTENDS Integers, FiniteSets, Sequences

CONSTANTS
    Containers, Images,
    ScanTypes,      \* the ScanTypes of the discoveries' scanConfigs ...
    ImageScanType,  \* ... and that of the container discovery
    Configs         \* the configurations to start from

Discoveries == {"service", "container", "aws"}

Config == [enabled: SUBSET Discoveries,
           image: [Containers -> Images],
           started: SUBSET Containers,   \* run before the discovery starts
           managed: SUBSET Containers,   \* pods of the secureCodeBox itself
           secrets: SUBSET Containers,   \* pods with imagePullSecrets
           mapSecrets: BOOLEAN,          \* mapImagePullSecretsToEnvironmentVariables
           docker: BOOLEAN,              \* image IDs start with docker-pullable://
           targets: Seq(ScanTypes),      \* the HTTP ports and scanConfigs of the service
           installed: SUBSET ScanTypes,  \* ScanTypes installed from the start
           resyncs: BOOLEAN,             \* the caches are resynced from time to time
           fresh: BOOLEAN,      \* assumption: ScheduledScans are not read from stale caches
           steady: BOOLEAN,     \* assumption: none is delivered between the List and the Get
                                \* of a target
           graceful: BOOLEAN,   \* assumption: a pod ends after its end was reconciled
           crashes: Nat,        \* bound: crashes of the discovery
           faults: Nat,         \* bound: failed calls
           edits: Nat]          \* bound: other writes of a ScheduledScan

ASSUME WorkloadAssumption == Configs \subseteq Config /\ ImageScanType \in ScanTypes

Phases == {"none", "pending", "waiting", "running", "ending", "gone"}

VARIABLES
    config,
    phase,          \* of each container
    seen,           \* the same in the informer cache (Kubernetes)
    installed,      \* the ScanTypes that exist
    imageScans,     \* the images that have a ScheduledScan
    crashes, faults, edits
workload == <<config, phase, seen, installed>>
bounds == <<crashes, faults, edits>>

WorkloadTypeOK ==
    /\ config \in Configs
    /\ {phase, seen} \subseteq [Containers -> Phases]
    /\ installed \subseteq ScanTypes
    /\ imageScans \subseteq Images
    /\ {crashes, faults, edits} \subseteq Nat

WorkloadInit ==
    /\ config \in Configs
    /\ phase = [c \in Containers |-> IF c \in config.started THEN "running" ELSE "none"]
    /\ seen = phase
    /\ installed = config.installed
    /\ imageScans = {}
    /\ crashes = 0 /\ faults = 0 /\ edits = 0

Enabled(discovery) == discovery \in config.enabled

(* A call of a discovery fails. *)
CallFails == faults < config.faults /\ faults' = faults + 1

(***************************************************************************)
(* The kubelet reports a pod first without statuses of its containers       *)
(* (pending), then with a container that waits for its image (waiting), and *)
(* with the image's ID once it runs.  A deleted pod ends gracefully.  An    *)
(* ECS container is pending, running, stopped.                              *)
(***************************************************************************)
Follows(p) ==
    IF Enabled("aws")
    THEN CASE p = "none" -> {"pending"}
           [] p = "pending" -> {"running", "gone"}
           [] p = "running" -> {"gone"}
           [] OTHER -> {}
    ELSE CASE p = "none" -> {"pending"}
           [] p = "pending" -> {"waiting", "gone"}
           [] p = "waiting" -> {"running", "gone"}
           [] p = "running" -> {"ending"}
           [] p = "ending" -> {"gone"}
           [] OTHER -> {}
=============================================================================
