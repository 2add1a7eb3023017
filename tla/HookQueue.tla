------------------------------ MODULE HookQueue ------------------------------
(***************************************************************************)
(* The hooks of one Scan (operator/utils/orderedhookgroups.go and           *)
(* operator/controllers/execution/scans/hook_reconciler.go), for every      *)
(* short list of hooks: grouped by setHookStatus, or by migrateHookStatus   *)
(* from what an earlier release of the operator left, they then run the way *)
(* executeHooks runs them.                                                  *)
(*                                                                          *)
(* An earlier release kept the states of the ReadAndWrite hooks in the      *)
(* status; of the ReadOnly hooks only their Jobs tell which were started.   *)
(*                                                                          *)
(* A Reconcile is one step here, which may create Jobs without recording    *)
(* them; ScanReconciler has its calls one by one, and those that fail.      *)
(***************************************************************************)
EXTENDS HookGroups

CONSTANTS
    MaxHooks,     \* bound: the longest list of hooks
    Priorities,   \* bound: the priorities tried
    MaxEdits,     \* bound: hooks that users install or remove
    MaxLost       \* bound: status writes that conflict or fail

ASSUME HookQueueAssumption ==
    {MaxHooks, MaxEdits, MaxLost} \subseteq Nat /\ Priorities \subseteq Int /\ 0 \in Priorities

LegacyStates == {"ReadAndWriteHookProcessing", "ReadAndWriteHookCompleted",
                 "ReadOnlyHookProcessing"}
JobStates == {"none", "running", "succeeded", "failed"}

VARIABLES
    hooks,      \* the hooks of the namespace in the order of a List, by name 1, 2, ...
    installed,  \* the names of those that exist
    scan,       \* [state, grouped, listed, groups, hook, deleting]: the groups were made
                \* of the listed hooks, if they were; hook are the states of the hooks (of
                \* the ReadAndWrite hooks, in the status of an earlier release)
    jobs,       \* the Job of each hook
    late,       \* history: hooks installed after the ReadOnly hooks were started
    runs,       \* history: how many Jobs each hook had
    succeeded,  \* history: the hooks of which one succeeded
    edits, lost
vars == <<hooks, installed, scan, jobs, late, runs, succeeded, edits, lost>>

(* Every list of n hooks, the i-th of them called i. *)
Lists(n) ==
    {[i \in 1..n |-> [name |-> i, type |-> s[i][1], prio |-> s[i][2]]] :
        s \in [1..n -> HookTypes \X Priorities]}

OfType(type) == {n \in DOMAIN hooks : hooks[n].type = type}
NamesIn(group) == {group[k].name : k \in DOMAIN group}

(***************************************************************************)
(* What the earlier release may leave: ReadAndWrite hooks ran one by one,   *)
(* then the ReadOnly hooks together; the last Job may be missing in the     *)
(* status, and finished Jobs may have been collected.                       *)
(***************************************************************************)
JobsOf == [Pending |-> {"none", "running"}, InProgress |-> {"running", "succeeded", "failed"},
           Completed |-> {"succeeded", "none"}]
LegacyHooks(state) ==
    {f \in [OfType("ReadAndWrite") -> DOMAIN JobsOf] :
        \A m \in DOMAIN f : f[m] # "Completed" =>
            /\ state = "ReadAndWriteHookProcessing"
            /\ \A n \in DOMAIN f : m < n => f[n] = "Pending"}
LegacyJobs(state, f) ==
    {j \in [DOMAIN hooks -> JobStates] :
        /\ \A m \in DOMAIN f : j[m] \in JobsOf[f[m]]
        /\ \A m, n \in DOMAIN f : m < n /\ f[m] # "Completed" => j[n] = "none"
        /\ \A n \in OfType("ReadOnly") :
              j[n] \in IF n \notin installed THEN {"none"} ELSE
                  CASE state = "ReadAndWriteHookProcessing" -> {"none"}
                    [] state = "ReadAndWriteHookCompleted" -> {"none", "running"}
                    [] state = "ReadOnlyHookProcessing" -> {"running", "succeeded", "failed"}
                    [] state = "Done" -> {"succeeded", "none"}}

Scan(state, f) == [state |-> state, grouped |-> FALSE, listed |-> {}, groups |-> <<>>, hook |-> f,
                   deleting |-> FALSE]

FreshInit ==
    /\ installed = DOMAIN hooks
    /\ scan = Scan("ParseCompleted", <<>>)
    /\ jobs = [n \in DOMAIN hooks |-> "none"]
    /\ succeeded = {}

(* The migration ignores priorities. *)
LegacyInit ==
    /\ \A n \in DOMAIN hooks : hooks[n].prio = 0
    /\ installed \in SUBSET DOMAIN hooks
    /\ OfType("ReadAndWrite") \subseteq installed /\ Cardinality(DOMAIN hooks \ installed) <= MaxEdits
    /\ \E state \in LegacyStates \cup {"Done"} : \E f \in LegacyHooks(state) :
          /\ scan = Scan(state, f)
          /\ jobs \in LegacyJobs(state, f)
          /\ succeeded = {n \in DOMAIN f : f[n] = "Completed"}
                            \cup {n \in DOMAIN hooks : jobs[n] = "succeeded"}
                            \cup (IF state = "Done" THEN installed ELSE {})

Init ==
    /\ hooks \in UNION {Lists(n) : n \in 0..MaxHooks}
    /\ FreshInit \/ LegacyInit
    /\ late = {}
    /\ runs = [n \in DOMAIN hooks |-> IF jobs[n] # "none" \/ n \in succeeded THEN 1 ELSE 0]
    /\ edits = 0 /\ lost = 0

-----------------------------------------------------------------------------
(***************************************************************************)
(* The operator.                                                            *)
(***************************************************************************)
setHookStatus ==
    /\ scan.state = "ParseCompleted"
    /\ scan' = [scan EXCEPT !.grouped = TRUE, !.listed = installed,
                            !.groups = GroupsAt(hooks, installed),
                            !.hook = [n \in installed |-> "Pending"], !.state = "HookProcessing"]
    /\ UNCHANGED <<hooks, installed, jobs, late, runs, succeeded, edits, lost>>

(* Mutation: the Jobs are always asked whether a ReadOnly hook is running.  *)
ReadOnlyInProgress(state) == IF state = "Done" THEN "Completed" ELSE "InProgress"

(* The state of a ReadOnly hook, guessed from that of the Scan.             *)
ReadOnlyState(state) ==
    CASE state \in {"ReadAndWriteHookProcessing", "ReadAndWriteHookCompleted"} -> "Pending"
      [] state = "ReadOnlyHookProcessing" -> "InProgress"
      [] state = "Done" -> "Completed"

(* Mutation: every ReadAndWrite hook is pending again. *)
ReadAndWriteReset(old) == [n \in DOMAIN old |-> "Pending"]

ReadAndWriteStates(old) == old

(* Mutation: the Scan keeps its state. *)
NeverAdvanced(state) == state

StateAfterMigration(state) == IF state # "Done" THEN "HookProcessing" ELSE state

(* All ReadOnly hooks of the namespace are taken, and the ReadAndWrite      *)
(* hooks of the old status, in one class: without priorities, which are all *)
(* 0 here.  A finished Scan is migrated when it is deleted.                 *)
migrateHookStatus ==
    LET started == OfType("ReadOnly") \cap installed
        listed == started \cup OfType("ReadAndWrite")
    IN  /\ ~scan.grouped
        /\ scan.state \in LegacyStates \/ (scan.state = "Done" /\ scan.deleting)
        /\ scan' = [scan EXCEPT
               !.grouped = TRUE, !.listed = listed, !.groups = GroupsAt(hooks, listed),
               !.hook = [n \in DOMAIN scan.hook \cup started |->
                            IF n \in started THEN ReadOnlyState(scan.state)
                            ELSE ReadAndWriteStates(scan.hook)[n]],
               !.state = StateAfterMigration(scan.state)]
        /\ UNCHANGED <<hooks, installed, jobs, late, runs, succeeded, edits, lost>>

(* A List without a Job counts as completed. *)
AfterInProgress(n) ==
    CASE jobs[n] \in {"none", "succeeded"} -> "Completed"
      [] jobs[n] = "failed" -> "Failed"
      [] OTHER -> "InProgress"
processHook(n) ==
    CASE scan.hook[n] = "Pending" -> "InProgress"
      [] scan.hook[n] = "InProgress" -> AfterInProgress(n)
      [] OTHER -> scan.hook[n]

(* A pending hook that is not installed any more makes the Scan Errored,    *)
(* also if it has a Job; the others of its group are processed all the same.*)
processGroup(group, result) ==
    LET pending == {n \in group : scan.hook[n] = "Pending"}
        missing == pending \ installed
        new == {n \in pending \cap installed : jobs[n] = "none"}
        after == [scan EXCEPT !.hook = [n \in DOMAIN scan.hook |->
                                           IF n \in group \ missing THEN processHook(n) ELSE scan.hook[n]],
                              !.state = CASE result = "none" -> "Done"
                                          [] result = "error" \/ missing # {} -> "Errored"
                                          [] OTHER -> scan.state]
    IN  /\ jobs' = [n \in DOMAIN hooks |-> IF n \in new THEN "running" ELSE jobs[n]]
        /\ runs' = [n \in DOMAIN hooks |-> IF n \in new THEN runs[n] + 1 ELSE runs[n]]
        /\ \/ scan' = after /\ UNCHANGED lost
           \/ lost < MaxLost /\ lost' = lost + 1 /\ UNCHANGED scan

executeHooks ==
    /\ scan.state = "HookProcessing"
    /\ \E current \in {CurrentHookGroup(scan.groups, scan.hook)} :
       \E group \in {IF current.result = "group" THEN NamesIn(scan.groups[current.group]) ELSE {}} :
          processGroup(group, current.result)
    /\ UNCHANGED <<hooks, installed, late, succeeded, edits>>

-----------------------------------------------------------------------------
(***************************************************************************)
(* Jobs and users.  A finished Job may be collected once its success is in  *)
(* the status, or could not be put there by the earlier release.            *)
(***************************************************************************)
JobEnds(n) ==
    /\ jobs[n] = "running"
    /\ \E s \in {"succeeded", "failed"} :
          /\ jobs' = [jobs EXCEPT ![n] = s]
          /\ succeeded' = IF s = "succeeded" THEN succeeded \cup {n} ELSE succeeded
    /\ UNCHANGED <<hooks, installed, scan, late, runs, edits, lost>>

JobCollected(n) ==
    /\ jobs[n] = "succeeded"
    /\ IF n \in DOMAIN scan.hook THEN scan.hook[n] = "Completed"
       ELSE scan.state = "ReadOnlyHookProcessing"
    /\ jobs' = [jobs EXCEPT ![n] = "none"]
    /\ UNCHANGED <<hooks, installed, scan, late, runs, succeeded, edits, lost>>

UserChangesHook(n) ==
    /\ edits < MaxEdits /\ edits' = edits + 1
    /\ installed' = IF n \in installed THEN installed \ {n} ELSE installed \cup {n}
    /\ late' = IF scan.state \in {"ReadOnlyHookProcessing", "Done"} THEN late \cup (installed' \ installed)
               ELSE late
    /\ UNCHANGED <<hooks, scan, jobs, runs, succeeded, lost>>

(* Of a finished Scan; ScanReconciler has those of others. *)
UserDeletesScan ==
    /\ scan.state = "Done" /\ ~scan.deleting
    /\ scan' = [scan EXCEPT !.deleting = TRUE]
    /\ UNCHANGED <<hooks, installed, jobs, late, runs, succeeded, edits, lost>>

Reconcile == setHookStatus \/ migrateHookStatus \/ executeHooks
Next ==
    \/ Reconcile \/ UserDeletesScan
    \/ \E n \in DOMAIN hooks : JobEnds(n) \/ JobCollected(n) \/ UserChangesHook(n)

Spec == Init /\ [][Next]_vars

(* The operator and the Jobs run. *)
FairSpec == Spec /\ WF_vars(Reconcile) /\ WF_vars(\E n \in DOMAIN hooks : JobEnds(n))

-----------------------------------------------------------------------------
(***************************************************************************)
(* Properties.  Before is the reference order: the i-th hook must have       *)
(* completed when the j-th starts.                                          *)
(***************************************************************************)
Places == UNION {{g} \X DOMAIN scan.groups[g] : g \in DOMAIN scan.groups}
PlacesOf(n) == {p \in Places : scan.groups[p[1]][p[2]].name = n}

Before(i, j) ==
    \/ hooks[i].prio > hooks[j].prio
    \/ /\ hooks[i].prio = hooks[j].prio
       /\ hooks[i].type = "ReadAndWrite"
       /\ hooks[j].type = "ReadOnly" \/ i < j

(* Grouping loses no hook and runs no hook twice: every listed hook is in   *)
(* exactly one place of the groups, and no group is empty (an empty group   *)
(* would end the processing early).                                         *)
EveryHookOnce ==
    /\ \A n \in scan.listed : \E p \in Places : PlacesOf(n) = {p}
    /\ \A g \in DOMAIN scan.groups : scan.groups[g] # <<>>

(* The order of the groups is the documented one: a hook of a higher        *)
(* priority, and of equal priority a ReadAndWrite hook, is in an earlier    *)
(* group; only ReadOnly hooks of one priority share a group.                *)
GroupsFollowPriority ==
    \A i, j \in scan.listed : i # j =>
        \A p \in PlacesOf(i), q \in PlacesOf(j) : Before(i, j) <=> p[1] < q[1]

(* When a hook has a Job, everything it must wait for has succeeded, in     *)
(* every reachable combination of states, also if an earlier release        *)
(* started some of them; a failure stops the queue.                         *)
NoHookOvertakes ==
    \A i, j \in scan.listed : Before(i, j) /\ runs[j] > 0 => i \in succeeded

(* No hook runs twice: what was started is found again, in the status or by *)
(* its Job, although writes are lost and finished Jobs disappear.           *)
NoHookRunsAgain == \A n \in DOMAIN hooks : runs[n] <= 1

(* Once the Scan is Done each of its hooks has succeeded.  The exception is *)
(* real: a hook that was installed after an earlier release started the     *)
(* ReadOnly hooks is taken for one of them, and has no Job that could fail. *)
DoneMeansSucceeded ==
    scan.state = "Done" => scan.listed \subseteq succeeded \cup late

(* The hooks come to an end, from wherever an earlier release left them.    *)
HooksFinish == <>(scan.state \in {"Done", "Errored"})
=============================================================================
