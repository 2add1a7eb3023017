---------------------------- MODULE ScanLifecycle ----------------------------
(***************************************************************************)
(* What the status of a Scan promises to whoever watches it (the CLI, a     *)
(* ScheduledScan, a dashboard), with no operator, cache or queue in sight:  *)
(* the states are passed in order, a finished Scan stays as it is, hooks    *)
(* are chosen once and advance group by group.                              *)
(***************************************************************************)
EXTENDS HookGroups

CONSTANTS HookNames, HookLists

VARIABLES phase,    \* status.state, or "Gone" once the object is removed
          groups,   \* status.orderedHookStatuses: the order
          hook,     \* ... and the states
          finished  \* status.finishedAt is set
vars == <<phase, groups, hook, finished>>

Init ==
    /\ phase = "Init" /\ groups = <<>> /\ finished = FALSE
    /\ hook = [h \in HookNames |-> "Pending"]

(* The Jobs of scanner and parser are started and end. *)
Successor == [Init |-> "Scanning", Scanning |-> "ScanCompleted",
              ScanCompleted |-> "Parsing", Parsing |-> "ParseCompleted"]

Advance ==
    /\ phase \in DOMAIN Successor
    /\ phase' = Successor[phase]
    /\ UNCHANGED <<groups, hook, finished>>

Fail ==
    /\ phase \in DOMAIN Successor
    /\ phase' = "Errored" /\ finished' = TRUE
    /\ UNCHANGED <<groups, hook>>

SelectHooks ==
    /\ phase = "ParseCompleted"
    /\ phase' = "HookProcessing"
    /\ \E list \in HookLists : groups' = FromUnorderedList(list)
    /\ hook' = [h \in HookNames |-> "Pending"]
    /\ UNCHANGED finished

(* Hooks of the current group start and end, and no others.  One that       *)
(* cannot be started ends the Scan.                                         *)
HookStep == [Pending    |-> {"Pending", "InProgress"},
             InProgress |-> {"InProgress", "Completed", "Failed"},
             Completed  |-> {"Completed"},
             Cancelled  |-> {"Cancelled"},
             Failed     |-> {"Failed"}]

RunHooks ==
    LET current == CurrentHookGroup(groups, hook)
        now == {groups[current.group][k].name : k \in DOMAIN groups[current.group]}
    IN  /\ phase = "HookProcessing" /\ current.result = "group"
        /\ hook' \in [HookNames -> HookStates]
        /\ \A h \in HookNames :
              hook'[h] \in (IF h \in now THEN HookStep[hook[h]] ELSE {hook[h]})
        /\ phase' \in {"HookProcessing", "Errored"}
        /\ finished' = (phase' = "Errored")
        /\ UNCHANGED groups

FinishHooks ==
    /\ phase = "HookProcessing" /\ finished' = TRUE
    /\ CASE CurrentHookGroup(groups, hook).result = "none"  -> phase' = "Done"
         [] CurrentHookGroup(groups, hook).result = "error" -> phase' = "Errored"
         [] OTHER -> FALSE
    /\ UNCHANGED <<groups, hook>>

Vanish ==
    /\ phase # "Gone" /\ phase' = "Gone"
    /\ UNCHANGED <<groups, hook, finished>>

Next == Advance \/ Fail \/ SelectHooks \/ RunHooks \/ FinishHooks \/ Vanish
Spec == Init /\ [][Next]_vars
=============================================================================
