---------------------------- MODULE AwsDiscovery ----------------------------
(***************************************************************************)
(* The AWS auto-discovery (auto-discovery/cloud-aws): reads the events of   *)
(* ECS containers from a FIFO queue (AWS SQS), keeps in memory which        *)
(* containers run an image, and one ScheduledScan for each image that runs. *)
(*                                                                          *)
(* An event is about one container and there is one scanConfig.  The queue  *)
(* delivers in order, and delivers the first event again until it is        *)
(* deleted.                                                                 *)
(***************************************************************************)
EXTENDS Workload

VARIABLES
    messages,           \* the queue
    RunningContainers,  \* a function on the images that have an entry
    work                \* what is left to do for the first message
awsVars == <<messages, RunningContainers, work>>

(* The image of a container that is pending has no digest yet, and so       *)
(* another reference.                                                       *)
Untagged == "image without digest"
ASSUME UntaggedAssumption == Untagged \notin Images

Message == [container: Containers, state: {"PENDING", "RUNNING", "STOPPED"},
            reference: Images \cup {Untagged}]

AwsTypeOK ==
    /\ messages \in Seq(Message)
    /\ DOMAIN RunningContainers \subseteq Images
    /\ \A i \in DOMAIN RunningContainers : RunningContainers[i] \subseteq Containers
    /\ work \in {"none", "create", "delete", "acknowledge"}

NoContainers == [i \in {} |-> {}]
AwsInit == messages = <<>> /\ RunningContainers = NoContainers /\ work = "none"

handleEcsEvent(c, p) ==
    [container |-> c,
     state |-> CASE p = "pending" -> "PENDING" [] p = "running" -> "RUNNING" [] OTHER -> "STOPPED",
     reference |-> IF p = "pending" THEN Untagged ELSE config.image[c]]

Send(c, p) == messages' = IF Enabled("aws") THEN Append(messages, handleEcsEvent(c, p)) ELSE messages

request == Head(messages)
RunningWith(i) == IF i \in DOMAIN RunningContainers THEN RunningContainers[i] ELSE {}
WithRunning(i, set) ==
    [j \in DOMAIN RunningContainers \cup {i} |-> IF j = i THEN set ELSE RunningContainers[j]]

handleCreateRequest ==
    /\ request.state = "RUNNING"
    /\ RunningContainers' = WithRunning(request.reference,
                                RunningWith(request.reference) \cup {request.container})
    /\ work' = "create"

(* Mutation: an image is forgotten with its last container, before its      *)
(* ScheduledScan is deleted.                                                *)
handleDeleteRequestForgetful ==
    /\ request.state \in {"PENDING", "STOPPED"}
    /\ work' = IF RunningWith(request.reference) = {request.container} THEN "delete" ELSE "acknowledge"
    /\ LET others(i) == RunningContainers[i] \ {request.container}
       IN  RunningContainers' = [i \in {j \in DOMAIN RunningContainers : others(j) # {}} |-> others(i)]

handleDeleteRequest ==
    LET others == RunningWith(request.reference) \ {request.container}
    IN  /\ request.state \in {"PENDING", "STOPPED"}
        /\ \/ /\ request.reference \notin DOMAIN RunningContainers
              /\ work' = "acknowledge" /\ UNCHANGED RunningContainers
           \/ /\ request.reference \in DOMAIN RunningContainers
              /\ RunningContainers' = WithRunning(request.reference, others)
              /\ work' = IF others = {} THEN "delete" ELSE "acknowledge"

ReceiveMessage ==
    /\ work = "none" /\ messages # <<>>
    /\ handleCreateRequest \/ handleDeleteRequest
    /\ UNCHANGED <<workload, imageScans, messages, bounds>>

(* Already existing and already deleted are fine.  After another error, of  *)
(* a call that may have had its effect, the message is received again.      *)
CallKubernetes ==
    LET new == IF work = "create" THEN imageScans \cup {request.reference}
               ELSE imageScans \ {request.reference}
    IN  /\ work \in {"create", "delete"}
        /\ \/ imageScans' = new /\ work' = "acknowledge" /\ UNCHANGED faults
           \/ CallFails /\ imageScans' \in {imageScans, new} /\ work' = "none"
        /\ UNCHANGED <<workload, messages, RunningContainers, crashes, edits>>

(* The error of a failed deletion is ignored. *)
deleteMessageFromQueue ==
    /\ work = "acknowledge" /\ work' = "none"
    /\ \/ messages' = Tail(messages) /\ UNCHANGED faults
       \/ CallFails /\ messages' \in {messages, Tail(messages)}
    /\ UNCHANGED <<workload, imageScans, RunningContainers, crashes, edits>>

AwsNext == ReceiveMessage \/ CallKubernetes \/ deleteMessageFromQueue
=============================================================================
