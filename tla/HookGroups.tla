----------------------------- MODULE HookGroups -----------------------------
(***************************************************************************)
(* The order in which the ScanCompletionHooks of one scan run:             *)
(* operator/utils/orderedhookgroups.go.  A hook is a record                *)
(*     [name, type, prio]                                                  *)
(* (the fields of a HookStatus that never change); its state lives in a    *)
(* function from hook names to states, so that `groups`, the value of      *)
(* scan.status.orderedHookStatuses, is a sequence of sequences of hooks.   *)
(* The pointers of the Go code are the names here: a HookStatus updated    *)
(* through a group is updated in the scan.                                 *)
(***************************************************************************)
EXTENDS Orders, Sequences

HookTypes == {"ReadOnly", "ReadAndWrite"}

HookStates == {"Pending", "InProgress", "Completed", "Cancelled", "Failed"}

(* Mutation: the ReadOnly hooks of a class are put in front of its          *)
(* ReadAndWrite hooks.                                                      *)
ReadOnlyHooksFirst(hooks, i, j) ==
    \/ hooks[i].type = "ReadOnly" /\ hooks[j].type = "ReadAndWrite"
    \/ hooks[i].type = hooks[j].type /\ i < j

(* Inside a class the ReadAndWrite hooks come in the order of the list, and *)
(* then the ReadOnly hooks.                                                 *)
OrderHookStatusesInsideAPrioClass(hooks, i, j) ==
    \/ hooks[i].type = "ReadAndWrite" /\ hooks[j].type = "ReadOnly"
    \/ hooks[i].type = hooks[j].type /\ i < j

(* The classes are sorted by priority, highest first.                       *)
Precedes(hooks, i, j) ==
    \/ hooks[i].prio > hooks[j].prio
    \/ hooks[i].prio = hooks[j].prio /\ OrderHookStatusesInsideAPrioClass(hooks, i, j)

(* The places, among those in S, of the hooks that share the group of the   *)
(* i-th: a ReadAndWrite hook is alone, the ReadOnly hooks of a class are    *)
(* together.                                                                *)
GroupMembers(hooks, S, i) ==
    {j \in S : \/ j = i
               \/ /\ hooks[i].type = "ReadOnly" /\ hooks[j].type = "ReadOnly"
                  /\ hooks[i].prio = hooks[j].prio}

(* Mutation: the ReadOnly group is only appended to ReadAndWrite groups.    *)
LeadersBesideReadAndWrite(hooks, S) ==
    {i \in S : /\ \A j \in GroupMembers(hooks, S, i) : i <= j
               /\ \E j \in S : hooks[j].prio = hooks[i].prio /\ hooks[j].type = "ReadAndWrite"}

(* The first hook of each group.                                            *)
Leaders(hooks, S) == {i \in S : \A j \in GroupMembers(hooks, S, i) : i <= j}

(* The groups of the hooks at the places S of a list: one per ReadAndWrite  *)
(* hook and one for the ReadOnly hooks of a class, in the order of their    *)
(* first hooks; a group keeps the order of the list.                        *)
Order(hooks, S) == {p \in S \X S : Precedes(hooks, p[1], p[2])}
Leader(hooks, S, g) == Nth(Leaders(hooks, S), Order(hooks, S), g)
Member(hooks, S, i, k) == Nth(GroupMembers(hooks, S, i), Order(hooks, S), k)
GroupsAt(hooks, S) ==
    [g \in 1..Cardinality(Leaders(hooks, S)) |->
        LET leader == Leader(hooks, S, g)
        IN  [k \in 1..Cardinality(GroupMembers(hooks, S, leader)) |->
                hooks[Member(hooks, S, leader, k)]]]

FromUnorderedList(hooks) == GroupsAt(hooks, DOMAIN hooks)

(* Mutation: a hook that is InProgress is passed like a completed one.      *)
UnsettledHooks(groups, state) ==
    {gk \in UNION {{g} \X DOMAIN groups[g] : g \in DOMAIN groups} :
        state[groups[gk[1]][gk[2]].name] \notin {"Completed", "InProgress"}}

(* <<g, k>> for every hook that the loop of CurrentHookGroup does not pass. *)
OpenHooks(groups, state) ==
    {gk \in UNION {{g} \X DOMAIN groups[g] : g \in DOMAIN groups} :
        state[groups[gk[1]][gk[2]].name] # "Completed"}

(* The first of them in the order of the two nested loops. *)
FirstOpenHook(groups, state) == FirstPlace(OpenHooks(groups, state))

(* What CurrentHookGroup returns: (nil, nil), (group, nil) or (nil, error).  *)
(* A group is named by its index; index 0 stands for nil.                    *)
CurrentHookGroup(groups, state) ==
    IF OpenHooks(groups, state) = {}
    THEN [result |-> "none", group |-> 0]
    ELSE LET gk == FirstOpenHook(groups, state)
         IN  IF state[groups[gk[1]][gk[2]].name] \in {"Pending", "InProgress"}
             THEN [result |-> "group", group |-> gk[1]]
             ELSE [result |-> "error", group |-> 0]
=============================================================================
