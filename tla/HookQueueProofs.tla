-------------------------- MODULE HookQueueProofs --------------------------
(***************************************************************************)
(* The properties of HookQueue for lists of any length, any priorities and  *)
(* any number of edits and lost writes.                                     *)
(***************************************************************************)
EXTENDS HookQueue, HookGroupsProofs

HookProgress == {"Pending", "InProgress", "Completed", "Failed"}

(* The hooks of an earlier release have no priorities. *)
NoPriorities == \A n \in DOMAIN hooks : hooks[n].prio = 0

(* What may be marked Completed.                                            *)
Passed(n) == n \in succeeded \/ (n \in late /\ hooks[n].type = "ReadOnly" /\ NoPriorities)

Typed ==
    /\ \E n \in Nat : DOMAIN hooks = 1..n
    /\ \A i \in DOMAIN hooks : hooks[i].name = i /\ IsHook(hooks[i])
    /\ installed \in SUBSET DOMAIN hooks
    /\ scan = [state |-> scan.state, grouped |-> scan.grouped, listed |-> scan.listed,
               groups |-> scan.groups, hook |-> scan.hook, deleting |-> scan.deleting]
    /\ scan.listed \in SUBSET DOMAIN hooks
    /\ scan.hook \in [DOMAIN scan.hook -> HookProgress]
    /\ jobs \in [DOMAIN hooks -> JobStates]
    /\ runs \in [DOMAIN hooks -> Nat]
    /\ scan.grouped \in BOOLEAN

(* Before the operator has grouped the hooks of a new Scan. *)
Parsed ==
    /\ scan.state = "ParseCompleted"
    /\ \A n \in DOMAIN hooks : jobs[n] = "none" /\ runs[n] = 0

(* What an earlier release left of a ReadAndWrite hook, and of a ReadOnly one. *)
LeftReadAndWrite(n) ==
    /\ scan.hook[n] \in {"Pending", "InProgress", "Completed"}
    /\ scan.hook[n] = "Pending" /\ jobs[n] = "none" => runs[n] = 0
    /\ scan.hook[n] = "InProgress" => jobs[n] # "none"
    /\ scan.hook[n] = "Completed" => n \in succeeded
    /\ scan.hook[n] # "Completed" =>
          /\ scan.state = "ReadAndWriteHookProcessing"
          /\ \A m \in OfType("ReadAndWrite") : n < m => runs[m] = 0

LeftReadOnly(n) ==
    /\ scan.state = "ReadAndWriteHookProcessing" => runs[n] = 0
    /\ scan.state = "ReadAndWriteHookCompleted" /\ jobs[n] = "none" => runs[n] = 0
    /\ /\ n \in installed
       /\ \/ scan.state = "ReadOnlyHookProcessing" /\ jobs[n] = "none"
          \/ scan.state = "Done"
       => n \in succeeded \cup late

Left ==
    /\ scan.state \in LegacyStates \cup {"Done"}
    /\ NoPriorities
    /\ DOMAIN scan.hook = OfType("ReadAndWrite")
    /\ \A n \in OfType("ReadAndWrite") : LeftReadAndWrite(n)
    /\ \A n \in OfType("ReadOnly") : LeftReadOnly(n)

NotGrouped ==
    /\ scan.listed = {} /\ scan.groups = <<>>
    /\ Parsed \/ Left

(* A listed hook: a pending one without a Job never had one, and one is not *)
(* taken for completed unless it has succeeded or may not have had a Job.   *)
Listed(n) ==
    /\ scan.hook[n] = "Pending" /\ jobs[n] = "none" => runs[n] = 0
    /\ scan.hook[n] = "InProgress" /\ jobs[n] = "none" => Passed(n)
    /\ scan.hook[n] = "Completed" => Passed(n)
    /\ scan.state = "Done" => scan.hook[n] = "Completed"

Grouped ==
    /\ scan.state \in {"HookProcessing", "Done", "Errored"}
    /\ DOMAIN scan.hook = scan.listed
    /\ scan.groups = GroupsAt(hooks, scan.listed)
    /\ \A n \in scan.listed : Listed(n)
    /\ NoHookOvertakes

IInv ==
    /\ IF scan.grouped THEN Grouped ELSE NotGrouped
    /\ \A n \in DOMAIN hooks : jobs[n] = "succeeded" => n \in succeeded
    /\ NoHookRunsAgain
-----------------------------------------------------------------------------
(***************************************************************************)
(* The grouping.                                                            *)
(***************************************************************************)
LEMMA HooksAreListed ==
    ASSUME Typed, NEW S \in SUBSET DOMAIN hooks
    PROVE  HooksAt(hooks, S)
<1>1. PICK n \in Nat : DOMAIN hooks = 1..n
  BY DEF Typed
<1>2. IsFiniteSet(1..n)
  BY FS_Interval
<1>3. IsFiniteSet(S)
  BY <1>1, <1>2, FS_Subset
<1> QED
  BY <1>1, <1>3 DEF HooksAt, Typed

(* GroupPlaces in terms of the names of the hooks. *)
LEMMA NamesOfGroups ==
    ASSUME Typed, NEW S \in SUBSET DOMAIN hooks
    PROVE  LET groups == GroupsAt(hooks, S)
           IN  /\ IsGrouping(groups)
               /\ \A i \in S : \E g \in DOMAIN groups : \E k \in DOMAIN groups[g] :
                      groups[g][k].name = i
               /\ \A g \in DOMAIN groups : \A k \in DOMAIN groups[g] : groups[g][k].name \in S
               /\ \A f, g \in DOMAIN groups : \A k \in DOMAIN groups[f], n \in DOMAIN groups[g] :
                      /\ groups[f][k].name = groups[g][n].name => f = g /\ k = n
                      /\ f < g <=> Earlier(hooks, groups[f][k].name, groups[g][n].name)
               /\ \A g \in DOMAIN groups : groups[g] # <<>>
<1> DEFINE groups == GroupsAt(hooks, S)
           at(g, k) == PlaceOf(hooks, S, g, k)
<1>1. HooksAt(hooks, S)
  BY HooksAreListed
<1>2. /\ \A i \in S : \E g \in DOMAIN groups : \E k \in DOMAIN groups[g] : at(g, k) = i
      /\ \A g \in DOMAIN groups : \A k \in DOMAIN groups[g] :
            at(g, k) \in S /\ groups[g][k] = hooks[at(g, k)]
      /\ \A f, g \in DOMAIN groups : \A k \in DOMAIN groups[f], n \in DOMAIN groups[g] :
            /\ at(f, k) = at(g, n) => f = g /\ k = n
            /\ f < g <=> Earlier(hooks, at(f, k), at(g, n))
      /\ \E N \in Nat : DOMAIN groups = 1..N
      /\ \A g \in DOMAIN groups : \E M \in Nat \ {0} : DOMAIN groups[g] = 1..M
  <2> HIDE DEF groups, at
  <2> QED
    BY <1>1, GroupPlaces DEF groups, at
<1> HIDE DEF groups, at
<1>3. \A i \in S : hooks[i].name = i
  BY DEF Typed
<1>4. \A g \in DOMAIN groups : \A k \in DOMAIN groups[g] : groups[g][k].name = at(g, k)
  BY <1>2, <1>3
<1>5. IsGrouping(groups)
  BY <1>2 DEF IsGrouping
<1>6. ASSUME NEW g \in DOMAIN groups PROVE groups[g] # <<>>
  <2>1. PICK M \in Nat \ {0} : DOMAIN groups[g] = 1..M
    BY <1>2
  <2>2. 1 \in DOMAIN groups[g]
    BY <2>1
  <2> QED
    BY <2>2
<1>7. \A f, g \in DOMAIN groups : \A k \in DOMAIN groups[f], n \in DOMAIN groups[g] :
         /\ groups[f][k].name = groups[g][n].name => f = g /\ k = n
         /\ f < g <=> Earlier(hooks, groups[f][k].name, groups[g][n].name)
  BY <1>2, <1>4
<1>8. \A i \in S : \E g \in DOMAIN groups : \E k \in DOMAIN groups[g] : groups[g][k].name = i
  BY <1>2, <1>4
<1>9. \A g \in DOMAIN groups : \A k \in DOMAIN groups[g] : groups[g][k].name \in S
  BY <1>2, <1>4
<1> QED
  BY <1>5, <1>6, <1>7, <1>8, <1>9 DEF groups

LEMMA GroupedOrNone ==
    ASSUME IInv
    PROVE  (scan.listed = {} /\ scan.groups = <<>>) \/ scan.groups = GroupsAt(hooks, scan.listed)
BY DEF IInv, Grouped, NotGrouped

LEMMA GroupingIsRight ==
    ASSUME Typed, IInv
    PROVE  EveryHookOnce /\ GroupsFollowPriority
<1> DEFINE groups == scan.groups
           S == scan.listed
<1>1. CASE S = {} /\ groups = <<>>
  BY <1>1 DEF EveryHookOnce, GroupsFollowPriority
<1>2. CASE groups = GroupsAt(hooks, S)
  <2>1. S \in SUBSET DOMAIN hooks
    BY DEF Typed
  <2>2. /\ \A i \in S : \E g \in DOMAIN groups : \E k \in DOMAIN groups[g] : groups[g][k].name = i
        /\ \A f, g \in DOMAIN groups : \A k \in DOMAIN groups[f], n \in DOMAIN groups[g] :
              /\ groups[f][k].name = groups[g][n].name => f = g /\ k = n
              /\ f < g <=> Earlier(hooks, groups[f][k].name, groups[g][n].name)
        /\ \A g \in DOMAIN groups : groups[g] # <<>>
    <3> HIDE DEF groups, S
    <3> QED
      BY <1>2, <2>1, NamesOfGroups
  <2> HIDE DEF groups, S
  <2>3. \A p : p \in Places <=> \E g \in DOMAIN groups : \E k \in DOMAIN groups[g] : p = <<g, k>>
    BY DEF Places, groups
  <2>4. ASSUME NEW i \in S PROVE \E p \in Places : PlacesOf(i) = {p}
    <3>1. PICK g \in DOMAIN groups : \E k \in DOMAIN groups[g] : groups[g][k].name = i
      BY <2>2
    <3>2. PICK k \in DOMAIN groups[g] : groups[g][k].name = i
      BY <3>1
    <3>3. <<g, k>> \in PlacesOf(i) /\ <<g, k>> \in Places
      BY <2>3, <3>2 DEF PlacesOf, groups
    <3>4. ASSUME NEW p \in PlacesOf(i) PROVE p = <<g, k>>
      <4>1. p \in Places /\ groups[p[1]][p[2]].name = i
        BY DEF PlacesOf, groups
      <4>2. PICK f \in DOMAIN groups : \E n \in DOMAIN groups[f] : p = <<f, n>>
        BY <4>1, <2>3
      <4>3. PICK n \in DOMAIN groups[f] : p = <<f, n>>
        BY <4>2
      <4> QED
        BY <4>1, <4>3, <3>2, <2>2
    <3>5. PlacesOf(i) = {<<g, k>>}
      BY <3>3, <3>4
    <3> QED
      BY <3>3, <3>5
  <2>5. ASSUME NEW i \in S, NEW j \in S, NEW p \in PlacesOf(i), NEW q \in PlacesOf(j)
        PROVE  Before(i, j) <=> p[1] < q[1]
    <3>1. p \in Places /\ q \in Places /\ groups[p[1]][p[2]].name = i /\ groups[q[1]][q[2]].name = j
      BY DEF PlacesOf, groups
    <3>2. p[1] \in DOMAIN groups /\ p[2] \in DOMAIN groups[p[1]]
      BY <3>1, <2>3
    <3>3. q[1] \in DOMAIN groups /\ q[2] \in DOMAIN groups[q[1]]
      BY <3>1, <2>3
    <3>4. p[1] < q[1] <=> Earlier(hooks, i, j)
      BY <3>1, <3>2, <3>3, <2>2
    <3> QED
      BY <3>4 DEF Earlier, Before
  <2> QED
    BY <2>2, <2>4, <2>5 DEF EveryHookOnce, GroupsFollowPriority, groups, S
<1> QED
  BY <1>1, <1>2, GroupedOrNone

(* All that the hooks of the current group wait for is marked Completed.    *)
LEMMA CurrentHooks ==
    ASSUME Typed, Grouped
    PROVE  LET current == CurrentHookGroup(scan.groups, scan.hook)
           IN  /\ current.result = "none" => \A i \in scan.listed : scan.hook[i] = "Completed"
               /\ current.result = "group" =>
                     \A n \in NamesIn(scan.groups[current.group]) :
                        /\ n \in scan.listed
                        /\ \A i \in scan.listed : Before(i, n) => scan.hook[i] = "Completed"
<1> DEFINE groups == scan.groups
           S == scan.listed
           c == CurrentHookGroup(groups, scan.hook)
<1>1. S \in SUBSET DOMAIN hooks /\ groups = GroupsAt(hooks, S)
  BY DEF Typed, Grouped
<1> HIDE DEF groups, S
<1>2. /\ IsGrouping(groups)
      /\ \A i \in S : \E g \in DOMAIN groups : \E k \in DOMAIN groups[g] : groups[g][k].name = i
      /\ \A g \in DOMAIN groups : \A k \in DOMAIN groups[g] : groups[g][k].name \in S
      /\ \A f, g \in DOMAIN groups : \A k \in DOMAIN groups[f], n \in DOMAIN groups[g] :
            f < g <=> Earlier(hooks, groups[f][k].name, groups[g][n].name)
  BY <1>1, NamesOfGroups
<1>3. /\ c.result = "none" => \A g \in DOMAIN groups : \A k \in DOMAIN groups[g] :
                               StateAt(groups, scan.hook, g, k) = "Completed"
      /\ c.result = "group" =>
            /\ c.group \in DOMAIN groups
            /\ \A g \in DOMAIN groups : \A k \in DOMAIN groups[g] :
                  g < c.group => StateAt(groups, scan.hook, g, k) = "Completed"
  BY <1>2, CurrentGroupIs
<1> HIDE DEF c
<1>4. ASSUME c.result = "none", NEW i \in S PROVE scan.hook[i] = "Completed"
  <2>1. PICK g \in DOMAIN groups : \E k \in DOMAIN groups[g] : groups[g][k].name = i
    BY <1>2
  <2> QED
    BY <2>1, <1>3, <1>4 DEF StateAt
<1>5. ASSUME c.result = "group", NEW n \in NamesIn(groups[c.group])
      PROVE  n \in S /\ \A i \in S : Before(i, n) => scan.hook[i] = "Completed"
  <2>1. PICK m \in DOMAIN groups[c.group] : groups[c.group][m].name = n
    BY DEF NamesIn
  <2>2. n \in S
    BY <2>1, <1>2, <1>3, <1>5
  <2>3. ASSUME NEW i \in S, Before(i, n) PROVE scan.hook[i] = "Completed"
    <3>1. PICK g \in DOMAIN groups : \E k \in DOMAIN groups[g] : groups[g][k].name = i
      BY <1>2
    <3>2. PICK k \in DOMAIN groups[g] : groups[g][k].name = i
      BY <3>1
    <3>3. Earlier(hooks, i, n)
      BY <2>3 DEF Before, Earlier
    <3>4. g < c.group
      BY <3>2, <3>3, <2>1, <1>2, <1>3, <1>5
    <3> QED
      BY <3>2, <3>4, <1>3, <1>5 DEF StateAt
  <2> QED
    BY <2>2, <2>3
<1> QED
  BY <1>4, <1>5 DEF c, groups, S
-----------------------------------------------------------------------------
(***************************************************************************)
(* The initial states.                                                      *)
(***************************************************************************)
LEMMA InitTyped ==
    ASSUME HookQueueAssumption, Init
    PROVE  Typed
<1>1. PICK n \in 0..MaxHooks : hooks \in Lists(n)
  BY DEF Init
<1>2. PICK s \in [1..n -> HookTypes \X Priorities] :
         hooks = [i \in 1..n |-> [name |-> i, type |-> s[i][1], prio |-> s[i][2]]]
  BY <1>1 DEF Lists
<1>3. n \in Nat /\ DOMAIN hooks = 1..n
  BY <1>2 DEF HookQueueAssumption
<1>4. \A i \in DOMAIN hooks : hooks[i].name = i /\ IsHook(hooks[i])
  <2> TAKE i \in DOMAIN hooks
  <2>1. hooks[i] = [name |-> i, type |-> s[i][1], prio |-> s[i][2]] /\ s[i] \in HookTypes \X Priorities
    BY <1>2
  <2>2. s[i][1] \in HookTypes /\ s[i][2] \in Int
    BY <2>1 DEF HookQueueAssumption
  <2> QED
    BY <2>1, <2>2 DEF IsHook
<1>5. installed \in SUBSET DOMAIN hooks
  BY DEF Init, FreshInit, LegacyInit
<1>6. jobs \in [DOMAIN hooks -> JobStates]
  BY DEF Init, FreshInit, LegacyInit, LegacyJobs, JobStates
<1>7. runs \in [DOMAIN hooks -> Nat]
  BY DEF Init
<1>8. \E state, f : scan = Scan(state, f) /\ f \in [DOMAIN f -> HookProgress]
  <2>1. CASE FreshInit
    <3>1. <<>> \in [DOMAIN <<>> -> HookProgress]
      OBVIOUS
    <3> QED
      BY <2>1, <3>1 DEF FreshInit
  <2>2. CASE LegacyInit
    <3>1. PICK state \in LegacyStates \cup {"Done"} : \E f \in LegacyHooks(state) : scan = Scan(state, f)
      BY <2>2 DEF LegacyInit
    <3>2. PICK f \in LegacyHooks(state) : scan = Scan(state, f)
      BY <3>1
    <3>3. f \in [OfType("ReadAndWrite") -> {"Pending", "InProgress", "Completed"}]
      BY DEF LegacyHooks, JobsOf
    <3>4. f \in [DOMAIN f -> HookProgress]
      BY <3>3 DEF HookProgress
    <3> QED
      BY <3>2, <3>4
  <2> QED
    BY <2>1, <2>2 DEF Init
<1>9. /\ scan = [state |-> scan.state, grouped |-> scan.grouped, listed |-> scan.listed,
                 groups |-> scan.groups, hook |-> scan.hook, deleting |-> scan.deleting]
      /\ scan.listed = {} /\ scan.grouped = FALSE
      /\ scan.hook \in [DOMAIN scan.hook -> HookProgress]
  BY <1>8 DEF Scan
<1> QED
  BY <1>3, <1>4, <1>5, <1>6, <1>7, <1>9 DEF Typed

LEMMA InitIInv ==
    ASSUME HookQueueAssumption, Init
    PROVE  IInv
<1>1. Typed
  BY InitTyped
<1>2. runs = [n \in DOMAIN hooks |-> IF jobs[n] # "none" \/ n \in succeeded THEN 1 ELSE 0]
  BY DEF Init
<1>3. NoHookRunsAgain
  BY <1>2 DEF NoHookRunsAgain
<1>4. CASE FreshInit
  <2>1. scan.grouped = FALSE /\ scan.listed = {} /\ scan.groups = <<>> /\ scan.state = "ParseCompleted"
    BY <1>4 DEF FreshInit, Scan
  <2>2. \A n \in DOMAIN hooks : jobs[n] = "none" /\ runs[n] = 0
    BY <1>4, <1>2 DEF FreshInit
  <2> QED
    BY <2>1, <2>2, <1>3 DEF IInv, NotGrouped, Parsed
<1>5. CASE LegacyInit
  <2>1. PICK state \in LegacyStates \cup {"Done"} : \E f \in LegacyHooks(state) :
          /\ scan = Scan(state, f)
          /\ jobs \in LegacyJobs(state, f)
          /\ succeeded = {n \in DOMAIN f : f[n] = "Completed"}
                            \cup {n \in DOMAIN hooks : jobs[n] = "succeeded"}
                            \cup (IF state = "Done" THEN installed ELSE {})
    BY <1>5 DEF LegacyInit
  <2>2. PICK f \in LegacyHooks(state) :
          /\ scan = Scan(state, f)
          /\ jobs \in LegacyJobs(state, f)
          /\ succeeded = {n \in DOMAIN f : f[n] = "Completed"}
                            \cup {n \in DOMAIN hooks : jobs[n] = "succeeded"}
                            \cup (IF state = "Done" THEN installed ELSE {})
    BY <2>1
  <2>3. /\ scan.grouped = FALSE /\ scan.listed = {} /\ scan.groups = <<>>
        /\ scan.state = state /\ scan.hook = f
    BY <2>2 DEF Scan
  <2>4. NoPriorities
    BY <1>5 DEF LegacyInit, NoPriorities
  <2>5. /\ f \in [OfType("ReadAndWrite") -> {"Pending", "InProgress", "Completed"}]
        /\ DOMAIN f = OfType("ReadAndWrite")
        /\ \A m \in DOMAIN f : f[m] # "Completed" =>
              /\ state = "ReadAndWriteHookProcessing"
              /\ \A n \in DOMAIN f : m < n => f[n] = "Pending"
    BY DEF LegacyHooks, JobsOf
  <2>6. /\ \A m \in DOMAIN f : f[m] = "InProgress" => jobs[m] # "none"
        /\ \A m, n \in DOMAIN f : m < n /\ f[m] # "Completed" => jobs[n] = "none"
        /\ \A n \in OfType("ReadOnly") :
              /\ n \notin installed => jobs[n] = "none"
              /\ state = "ReadAndWriteHookProcessing" => jobs[n] = "none"
              /\ state = "ReadAndWriteHookCompleted" => jobs[n] \in {"none", "running"}
              /\ state = "ReadOnlyHookProcessing" /\ n \in installed => jobs[n] # "none"
    BY <2>2, <2>5 DEF LegacyJobs, JobsOf
  <2>7. OfType("ReadAndWrite") \cap OfType("ReadOnly") = {} /\ OfType("ReadAndWrite") \subseteq DOMAIN hooks
    BY DEF OfType
  <2>8. ASSUME NEW n \in OfType("ReadAndWrite") PROVE LeftReadAndWrite(n)
    <3>1. f[n] \in {"Pending", "InProgress", "Completed"}
      BY <2>5
    <3>2. f[n] = "Completed" => n \in succeeded
      BY <2>2, <2>5
    <3>3. f[n] = "InProgress" => jobs[n] # "none"
      BY <2>5, <2>6
    <3>4. f[n] = "Pending" /\ jobs[n] = "none" => runs[n] = 0
      <4> SUFFICES ASSUME f[n] = "Pending", jobs[n] = "none" PROVE runs[n] = 0
        OBVIOUS
      <4>1. state # "Done"
        BY <2>5
      <4>2. n \notin succeeded
        BY <2>2, <4>1
      <4> QED
        BY <4>2, <1>2, <2>7
    <3>5. ASSUME f[n] # "Completed", NEW m \in OfType("ReadAndWrite"), n < m
          PROVE  runs[m] = 0
      <4>1. state # "Done" /\ f[m] = "Pending" /\ jobs[m] = "none"
        BY <3>5, <2>5, <2>6
      <4>2. m \notin succeeded
        BY <2>2, <4>1
      <4> QED
        BY <4>1, <4>2, <1>2, <2>7
    <3>6. f[n] # "Completed" => state = "ReadAndWriteHookProcessing"
      BY <2>5
    <3> QED
      BY <2>3, <3>1, <3>2, <3>3, <3>4, <3>5, <3>6 DEF LeftReadAndWrite
  <2>9. ASSUME NEW n \in OfType("ReadOnly") PROVE LeftReadOnly(n)
    <3>1. n \in DOMAIN hooks /\ n \notin DOMAIN f
      BY <2>5, <2>7 DEF OfType
    <3>2. n \in succeeded <=> jobs[n] = "succeeded" \/ (state = "Done" /\ n \in installed)
      BY <2>2, <3>1
    <3>3. runs[n] = 0 <=> jobs[n] = "none" /\ n \notin succeeded
      BY <1>2, <3>1
    <3> QED
      BY <2>3, <2>6, <3>2, <3>3 DEF LeftReadOnly
  <2>10. \A n \in DOMAIN hooks : jobs[n] = "succeeded" => n \in succeeded
    BY <2>2
  <2>11. Left
    BY <2>3, <2>4, <2>5, <2>8, <2>9 DEF Left
  <2> QED
    BY <2>3, <2>10, <2>11, <1>3 DEF IInv, NotGrouped
<1> QED
  BY <1>4, <1>5 DEF Init

-----------------------------------------------------------------------------
(***************************************************************************)
(* The operator.                                                            *)
(***************************************************************************)
NothingElse == UNCHANGED <<hooks, installed, jobs, late, runs, succeeded>>

(* A step that only changes the Scan. *)
LEMMA ScanStepTyped ==
    ASSUME Typed, NothingElse,
           scan' = [state |-> scan'.state, grouped |-> scan'.grouped, listed |-> scan'.listed,
                    groups |-> scan'.groups, hook |-> scan'.hook, deleting |-> scan'.deleting],
           scan'.listed \in SUBSET DOMAIN hooks, scan'.grouped \in BOOLEAN,
           scan'.hook \in [DOMAIN scan'.hook -> HookProgress]
    PROVE  Typed'
BY DEF Typed, NothingElse

(* The hooks at S may enter the status in these states. *)
MayEnter(S, hook, state) ==
    /\ S \in SUBSET DOMAIN hooks /\ hook \in [S -> HookProgress]
    /\ state \in {"HookProcessing", "Done"}
    /\ \A n \in S : /\ hook[n] = "Pending" /\ jobs[n] = "none" => runs[n] = 0
                    /\ hook[n] = "InProgress" /\ jobs[n] = "none" => Passed(n)
                    /\ hook[n] = "Completed" => Passed(n)
                    /\ state = "Done" => hook[n] = "Completed"
    /\ \A i, j \in S : Before(i, j) /\ runs[j] > 0 => i \in succeeded

Enters(S, hook, state) ==
    /\ NothingElse
    /\ scan' = [scan EXCEPT !.grouped = TRUE, !.listed = S, !.groups = GroupsAt(hooks, S),
                            !.hook = hook, !.state = state]

LEMMA GroupingStep ==
    ASSUME Typed, IInv, NEW S, NEW hook, NEW state, MayEnter(S, hook, state), Enters(S, hook, state)
    PROVE  Typed' /\ IInv'
<1> USE DEF MayEnter, Enters
<1>1. scan' = [state |-> state, grouped |-> TRUE, listed |-> S, groups |-> GroupsAt(hooks, S),
               hook |-> hook, deleting |-> scan.deleting]
  BY DEF Typed
<1>2. /\ scan'.state = state /\ scan'.grouped = TRUE /\ scan'.listed = S
      /\ scan'.groups = GroupsAt(hooks, S) /\ scan'.hook = hook
  BY <1>1
<1>3. Typed'
  BY <1>1, <1>2, ScanStepTyped
<1>4. ASSUME NEW n \in S PROVE Listed(n)'
  BY <1>2 DEF Listed, NothingElse, Passed, NoPriorities
<1>5. NoHookOvertakes'
  BY <1>2 DEF NoHookOvertakes, NothingElse, Before
<1>6. Grouped'
  BY <1>2, <1>4, <1>5 DEF Grouped, NothingElse
<1> QED
  BY <1>2, <1>3, <1>6 DEF IInv, NothingElse, NoHookRunsAgain

LEMMA setHookStatusKeeps ==
    ASSUME Typed, IInv, setHookStatus
    PROVE  Typed' /\ IInv'
<1> DEFINE hook == [n \in installed |-> "Pending"]
<1>1. NothingElse /\ installed \in SUBSET DOMAIN hooks
  BY DEF setHookStatus, NothingElse, Typed
<1>2. scan' = [scan EXCEPT !.grouped = TRUE, !.listed = installed,
                           !.groups = GroupsAt(hooks, installed),
                           !.hook = hook, !.state = "HookProcessing"]
  BY DEF setHookStatus
<1>3. \A n \in DOMAIN hooks : jobs[n] = "none" /\ runs[n] = 0
  BY DEF setHookStatus, IInv, Grouped, NotGrouped, Parsed, Left, LegacyStates
<1>4. hook \in [installed -> HookProgress]
  BY DEF HookProgress
<1>5. \A n \in installed : hook[n] = "Pending" /\ runs[n] = 0
  BY <1>1, <1>3
<1>6. \A i, j \in installed : ~ (runs[j] > 0)
  BY <1>1, <1>3
<1> HIDE DEF hook
<1>7. MayEnter(installed, hook, "HookProcessing")
  BY <1>1, <1>4, <1>5, <1>6 DEF MayEnter
<1>8. Enters(installed, hook, "HookProcessing")
  BY <1>1, <1>2 DEF Enters
<1> QED
  BY <1>7, <1>8, GroupingStep

LEMMA migrateHookStatusKeeps ==
    ASSUME Typed, IInv, migrateHookStatus
    PROVE  Typed' /\ IInv'
<1> DEFINE started == OfType("ReadOnly") \cap installed
           S == started \cup OfType("ReadAndWrite")
           hook == [n \in S |-> IF n \in started THEN ReadOnlyState(scan.state)
                                ELSE scan.hook[n]]
           state == StateAfterMigration(scan.state)
<1>1. NothingElse
  BY DEF migrateHookStatus, NothingElse
<1>2. Left
  BY DEF migrateHookStatus, IInv, NotGrouped, Parsed, LegacyStates
<1>3. DOMAIN scan.hook \cup started = S /\ S \in SUBSET DOMAIN hooks
  BY <1>2 DEF Left, OfType
<1>4. scan' = [scan EXCEPT !.grouped = TRUE, !.listed = S, !.groups = GroupsAt(hooks, S),
                           !.hook = hook, !.state = state]
  BY <1>3 DEF migrateHookStatus, ReadAndWriteStates
<1>5. OfType("ReadAndWrite") \cap OfType("ReadOnly") = {}
  BY DEF OfType
<1>6. scan.state \in LegacyStates \cup {"Done"} /\ state \in {"HookProcessing", "Done"}
      /\ (state = "Done" => scan.state = "Done")
  BY <1>2 DEF Left, StateAfterMigration
<1>7. ASSUME NEW n \in S
      PROVE  /\ hook[n] \in HookProgress
             /\ hook[n] = "Pending" /\ jobs[n] = "none" => runs[n] = 0
             /\ hook[n] = "InProgress" /\ jobs[n] = "none" => Passed(n)
             /\ hook[n] = "Completed" => Passed(n)
             /\ state = "Done" => hook[n] = "Completed"
  <2>1. CASE n \in started
    <3>1. LeftReadOnly(n) /\ n \in installed /\ hooks[n].type = "ReadOnly" /\ NoPriorities
      BY <2>1, <1>2 DEF Left, OfType
    <3>2. hook[n] = ReadOnlyState(scan.state)
      BY <2>1
    <3>3. CASE scan.state \in {"ReadAndWriteHookProcessing", "ReadAndWriteHookCompleted"}
      BY <3>1, <3>2, <3>3, <1>6 DEF LeftReadOnly, ReadOnlyState, HookProgress
    <3>4. CASE scan.state = "ReadOnlyHookProcessing"
      BY <3>1, <3>2, <3>4, <1>6 DEF LeftReadOnly, ReadOnlyState, HookProgress, Passed
    <3>5. CASE scan.state = "Done"
      BY <3>1, <3>2, <3>5, <1>6 DEF LeftReadOnly, ReadOnlyState, HookProgress, Passed
    <3> QED
      BY <1>6, <3>3, <3>4, <3>5 DEF LegacyStates
  <2>2. CASE n \in OfType("ReadAndWrite")
    <3>1. LeftReadAndWrite(n) /\ hook[n] = scan.hook[n]
      BY <2>2, <1>2, <1>5 DEF Left
    <3> HIDE DEF hook
    <3> QED
      BY <3>1, <1>6 DEF LeftReadAndWrite, HookProgress, Passed
  <2> QED
    BY <2>1, <2>2
<1>8. ASSUME NEW i \in S, NEW j \in S, Before(i, j), runs[j] > 0
      PROVE  i \in succeeded
  <2>1. i \in DOMAIN hooks /\ j \in DOMAIN hooks
    BY <1>3
  <2>2. hooks[i].prio = 0 /\ hooks[j].prio = 0
    BY <1>2, <2>1 DEF Left, NoPriorities
  <2>3. i \in OfType("ReadAndWrite") /\ (hooks[j].type = "ReadOnly" \/ i < j)
    BY <1>8, <2>1, <2>2 DEF Before, OfType
  <2>4. LeftReadAndWrite(i)
    BY <1>2, <2>3 DEF Left
  <2>5. CASE j \in OfType("ReadOnly")
    <3>1. LeftReadOnly(j)
      BY <1>2, <2>5 DEF Left
    <3> QED
      BY <1>8, <2>4, <3>1 DEF LeftReadAndWrite, LeftReadOnly
  <2>6. CASE j \in OfType("ReadAndWrite")
    <3>1. i < j
      BY <2>3, <2>6 DEF OfType
    <3> QED
      BY <1>8, <2>4, <2>6, <3>1 DEF LeftReadAndWrite
  <2> QED
    BY <2>5, <2>6
<1> HIDE DEF hook, state, S, started
<1>9. hook \in [S -> HookProgress]
  BY <1>7 DEF hook
<1>10. MayEnter(S, hook, state)
  BY <1>3, <1>6, <1>7, <1>8, <1>9 DEF MayEnter
<1>11. Enters(S, hook, state)
  BY <1>1, <1>4 DEF Enters
<1> QED
  BY <1>10, <1>11, GroupingStep

LEMMA executeHooksKeeps ==
    ASSUME Typed, IInv, executeHooks
    PROVE  Typed' /\ IInv'
<1> DEFINE current == CurrentHookGroup(scan.groups, scan.hook)
           group == IF current.result = "group" THEN NamesIn(scan.groups[current.group])
                    ELSE {}
           pending == {n \in group : scan.hook[n] = "Pending"}
           missing == pending \ installed
           new == {n \in pending \cap installed : jobs[n] = "none"}
           hook == [n \in DOMAIN scan.hook |->
                       IF n \in group \ missing THEN processHook(n) ELSE scan.hook[n]]
           state == CASE current.result = "none" -> "Done"
                      [] current.result = "error" \/ missing # {} -> "Errored"
                      [] OTHER -> scan.state
<1>1. /\ scan.state = "HookProcessing"
      /\ jobs' = [n \in DOMAIN hooks |-> IF n \in new THEN "running" ELSE jobs[n]]
      /\ runs' = [n \in DOMAIN hooks |-> IF n \in new THEN runs[n] + 1 ELSE runs[n]]
      /\ scan' = [scan EXCEPT !.hook = hook, !.state = state] \/ UNCHANGED scan
      /\ UNCHANGED <<hooks, installed, late, succeeded>>
  <2> HIDE DEF current, group
  <2>1. processGroup(group, current.result)
    <3>1. PICK c \in {current} : \E g \in {IF c.result = "group" THEN NamesIn(scan.groups[c.group])
                                           ELSE {}} : processGroup(g, c.result)
      BY DEF executeHooks, current
    <3> QED
      BY <3>1 DEF group
  <2> QED
    BY <2>1 DEF executeHooks, processGroup
<1>2. Grouped /\ scan.grouped = TRUE
  BY <1>1 DEF IInv, NotGrouped, Parsed, Left, LegacyStates, Typed
<1>3. /\ scan.listed \in SUBSET DOMAIN hooks
      /\ scan.hook \in [scan.listed -> HookProgress]
      /\ jobs \in [DOMAIN hooks -> JobStates] /\ runs \in [DOMAIN hooks -> Nat]
  BY <1>2 DEF Typed, Grouped
<1>4. /\ current.result = "none" => group = {} /\ \A i \in scan.listed : scan.hook[i] = "Completed"
      /\ \A n \in group :
            /\ n \in scan.listed
            /\ \A i \in scan.listed : Before(i, n) => scan.hook[i] = "Completed"
  BY <1>2, CurrentHooks
<1> HIDE DEF current, group
<1>5. state \in {"HookProcessing", "Done", "Errored"} /\ (state = "Done" => current.result = "none")
  BY <1>1
<1> HIDE DEF state
<1>6. /\ \A n \in new : /\ n \in scan.listed /\ scan.hook[n] = "Pending" /\ jobs[n] = "none"
                        /\ n \in group /\ n \in installed
      /\ \A n \in group : scan.hook[n] = "Pending" /\ n \notin missing /\ jobs[n] = "none" => n \in new
  BY <1>4
<1>7. \A n \in new : runs[n] = 0
  BY <1>2, <1>6 DEF Grouped, Listed
<1>8. /\ DOMAIN hook = scan.listed
      /\ \A n \in scan.listed : hook[n] = IF n \in group \ missing THEN processHook(n) ELSE scan.hook[n]
  BY <1>3
<1>9. \A n \in missing : scan.hook[n] = "Pending"
  OBVIOUS
<1> HIDE DEF new, missing, pending, hook
<1>10. \A n \in scan.listed : hook[n] \in HookProgress
  BY <1>3, <1>8 DEF processHook, AfterInProgress, HookProgress
<1>11. /\ jobs' \in [DOMAIN hooks -> JobStates] /\ runs' \in [DOMAIN hooks -> Nat]
       /\ \A n \in DOMAIN hooks : /\ n \in new => jobs'[n] = "running" /\ runs'[n] = 1
                                  /\ n \notin new => jobs'[n] = jobs[n] /\ runs'[n] = runs[n]
  BY <1>1, <1>3, <1>7 DEF JobStates
<1>12. /\ scan' = [state |-> scan'.state, grouped |-> scan.grouped, listed |-> scan.listed,
                   groups |-> scan.groups, hook |-> scan'.hook, deleting |-> scan.deleting]
       /\ \/ scan'.state = state /\ scan'.hook = hook
          \/ scan'.state = scan.state /\ scan'.hook = scan.hook
  BY <1>1 DEF Typed
<1>13. scan'.grouped = scan.grouped /\ scan'.listed = scan.listed /\ scan'.groups = scan.groups
  BY <1>12
<1>14. scan'.hook \in [scan.listed -> HookProgress]
  <2>1. hook \in [scan.listed -> HookProgress]
    BY <1>8, <1>10 DEF hook
  <2> QED
    BY <2>1, <1>3, <1>12
<1>15. Typed'
  <2>1. scan' = [state |-> scan'.state, grouped |-> scan'.grouped, listed |-> scan'.listed,
                 groups |-> scan'.groups, hook |-> scan'.hook, deleting |-> scan'.deleting]
    BY <1>12
  <2>2. scan'.hook \in [DOMAIN scan'.hook -> HookProgress]
    BY <1>14
  <2> QED
    BY <1>1, <1>3, <1>11, <1>13, <2>1, <2>2 DEF Typed
<1>16. \A n \in scan.listed : Passed(n)' <=> Passed(n)
  BY <1>1 DEF Passed, NoPriorities
<1>17. ASSUME NEW n \in scan.listed PROVE Listed(n)'
  <2>1. n \in DOMAIN hooks /\ Listed(n)
    BY <1>2, <1>3 DEF Grouped
  <2>2. CASE scan'.hook = scan.hook /\ scan'.state = scan.state
    BY <2>1, <2>2, <1>1, <1>6, <1>11, <1>16 DEF Listed
  <2>3. CASE scan'.hook = hook /\ scan'.state = state
    <3>1. state = "Done" => hook[n] = "Completed"
      BY <1>4, <1>5, <1>8
    <3>2. CASE n \in group \ missing
      <4>1. hook[n] = processHook(n)
        BY <1>8, <3>2
      <4>2. CASE scan.hook[n] = "Pending"
        <5>1. hook[n] = "InProgress"
          BY <4>1, <4>2 DEF processHook
        <5>2. jobs'[n] # "none"
          BY <4>2, <3>2, <2>1, <1>6, <1>11
        <5> QED
          BY <5>1, <5>2, <2>3, <3>1 DEF Listed
      <4>3. CASE scan.hook[n] = "InProgress"
        <5>1. n \notin new /\ jobs'[n] = jobs[n]
          BY <4>3, <1>6, <1>11, <2>1
        <5>2. hook[n] = AfterInProgress(n)
          BY <4>1, <4>3 DEF processHook
        <5>3. jobs[n] = "succeeded" => Passed(n)
          BY <2>1 DEF IInv, Passed
        <5>4. hook[n] # "Pending"
          BY <5>2 DEF AfterInProgress
        <5>5. hook[n] = "InProgress" => jobs[n] # "none"
          BY <5>2 DEF AfterInProgress
        <5>6. hook[n] = "Completed" => Passed(n)
          BY <5>2, <5>3, <2>1, <4>3 DEF AfterInProgress, Listed
        <5> QED
          BY <5>1, <5>4, <5>5, <5>6, <2>3, <3>1, <1>16 DEF Listed
      <4>4. CASE scan.hook[n] \notin {"Pending", "InProgress"}
        <5>1. hook[n] = scan.hook[n]
          BY <4>1, <4>4 DEF processHook
        <5> QED
          BY <5>1, <4>4, <2>1, <2>3, <3>1, <1>16 DEF Listed
      <4> QED
        BY <4>2, <4>3, <4>4
    <3>3. CASE n \notin group \ missing
      <4>1. hook[n] = scan.hook[n] /\ n \notin new
        BY <1>6, <1>8, <3>3 DEF new, missing
      <4> QED
        BY <4>1, <2>1, <2>3, <3>1, <1>11, <1>16 DEF Listed
    <3> QED
      BY <3>2, <3>3
  <2> QED
    BY <2>2, <2>3, <1>12
<1>18. NoHookOvertakes'
  <2> SUFFICES ASSUME NEW i \in scan.listed, NEW j \in scan.listed, Before(i, j), runs'[j] > 0
               PROVE  i \in succeeded
    BY <1>1, <1>13 DEF NoHookOvertakes, Before
  <2>1. CASE j \in new
    <3>1. scan.hook[i] = "Completed"
      BY <1>4, <1>6, <2>1
    <3>2. Passed(i)
      BY <3>1, <1>2 DEF Grouped, Listed
    <3>3. NoPriorities => hooks[i].type = "ReadAndWrite"
      BY <1>3 DEF Before, NoPriorities
    <3> QED
      BY <3>2, <3>3 DEF Passed
  <2>2. CASE j \notin new
    <3>1. runs[j] > 0
      BY <2>2, <1>3, <1>11
    <3> QED
      BY <3>1, <1>2 DEF Grouped, NoHookOvertakes
  <2> QED
    BY <2>1, <2>2
<1>19. Grouped'
  <2>1. scan'.state \in {"HookProcessing", "Done", "Errored"}
    BY <1>5, <1>12, <1>1
  <2>2. DOMAIN scan'.hook = scan'.listed
    BY <1>13, <1>14
  <2>3. scan'.groups = GroupsAt(hooks', scan'.listed)
    BY <1>1, <1>2, <1>13 DEF Grouped
  <2> QED
    BY <2>1, <2>2, <2>3, <1>13, <1>17, <1>18 DEF Grouped
<1>20. \A n \in DOMAIN hooks : jobs'[n] = "succeeded" => n \in succeeded
  BY <1>11 DEF IInv
<1>21. \A n \in DOMAIN hooks : runs'[n] <= 1
  BY <1>11 DEF IInv, NoHookRunsAgain
<1> QED
  BY <1>1, <1>2, <1>13, <1>15, <1>19, <1>20, <1>21 DEF IInv, NoHookRunsAgain
-----------------------------------------------------------------------------
(***************************************************************************)
(* Jobs and users: they leave the Scan alone, and what is claimed of the    *)
(* hooks in it stays true.                                                  *)
(***************************************************************************)
LEMMA JobEndsKeeps ==
    ASSUME Typed, IInv, NEW n \in DOMAIN hooks, JobEnds(n)
    PROVE  Typed' /\ IInv'
<1>1. /\ UNCHANGED <<hooks, installed, scan, late, runs>>
      /\ jobs[n] = "running"
      /\ jobs' \in [DOMAIN hooks -> JobStates]
      /\ jobs'[n] \in {"succeeded", "failed"}
      /\ \A m \in DOMAIN hooks : m # n => jobs'[m] = jobs[m]
      /\ succeeded \subseteq succeeded'
      /\ jobs'[n] = "succeeded" => n \in succeeded'
  BY DEF JobEnds, Typed, JobStates
<1>2. Typed'
  BY <1>1 DEF Typed
<1>3. \A m \in DOMAIN hooks : (jobs'[m] = "none" <=> jobs[m] = "none") /\ (Passed(m) => Passed(m)')
  BY <1>1 DEF Passed, NoPriorities
<1>4. (OfType("ReadAndWrite") \subseteq DOMAIN hooks) /\ (OfType("ReadOnly") \subseteq DOMAIN hooks)
  BY DEF OfType
<1>5. /\ \A m \in OfType("ReadAndWrite") : LeftReadAndWrite(m) => LeftReadAndWrite(m)'
      /\ \A m \in OfType("ReadOnly") : LeftReadOnly(m) => LeftReadOnly(m)'
  BY <1>1, <1>3, <1>4 DEF LeftReadAndWrite, LeftReadOnly, OfType
<1>6. \A m \in DOMAIN hooks : Listed(m) => Listed(m)'
  BY <1>1, <1>3 DEF Listed
<1>7. Parsed => FALSE
  BY <1>1 DEF Parsed
<1>8. scan.listed \subseteq DOMAIN hooks
  BY DEF Typed
<1>9. ~ scan.grouped => NotGrouped'
  BY <1>1, <1>5, <1>7 DEF IInv, NotGrouped, Left, OfType, NoPriorities
<1>10. scan.grouped => Grouped'
  BY <1>1, <1>6, <1>8 DEF IInv, Grouped, NoHookOvertakes, Before
<1>11. \A m \in DOMAIN hooks : jobs'[m] = "succeeded" => m \in succeeded'
  BY <1>1 DEF IInv
<1> QED
  BY <1>1, <1>2, <1>9, <1>10, <1>11 DEF IInv, NoHookRunsAgain

LEMMA JobCollectedKeeps ==
    ASSUME Typed, IInv, NEW n \in DOMAIN hooks, JobCollected(n)
    PROVE  Typed' /\ IInv'
<1>1. /\ UNCHANGED <<hooks, installed, scan, late, runs, succeeded>>
      /\ jobs[n] = "succeeded"
      /\ IF n \in DOMAIN scan.hook THEN scan.hook[n] = "Completed"
         ELSE scan.state = "ReadOnlyHookProcessing"
      /\ jobs' \in [DOMAIN hooks -> JobStates]
      /\ jobs'[n] = "none"
      /\ \A m \in DOMAIN hooks : m # n => jobs'[m] = jobs[m]
  BY DEF JobCollected, Typed, JobStates
<1>2. Typed'
  BY <1>1 DEF Typed
<1>3. n \in succeeded
  BY <1>1 DEF IInv
<1>4. /\ OfType("ReadAndWrite") \subseteq DOMAIN hooks /\ OfType("ReadOnly") \subseteq DOMAIN hooks
      /\ OfType("ReadAndWrite") \cap OfType("ReadOnly") = {}
  BY DEF OfType
<1>5. \A m \in DOMAIN hooks : Passed(m)' <=> Passed(m)
  BY <1>1 DEF Passed, NoPriorities
<1>6. ASSUME Left, ~ scan.grouped PROVE Left'
  <2>1. \A m \in OfType("ReadAndWrite") : LeftReadAndWrite(m)'
    BY <1>1, <1>3, <1>4, <1>6 DEF Left, LeftReadAndWrite, OfType
  <2>2. \A m \in OfType("ReadOnly") : LeftReadOnly(m)'
    BY <1>1, <1>3, <1>4, <1>6 DEF Left, LeftReadOnly
  <2> QED
    BY <1>1, <1>6, <2>1, <2>2 DEF Left, OfType, NoPriorities
<1>7. Parsed => FALSE
  BY <1>1 DEF Parsed
<1>8. \A m \in scan.listed : Listed(m) /\ scan.grouped => Listed(m)'
  <2> SUFFICES ASSUME NEW m \in scan.listed, Listed(m), scan.grouped PROVE Listed(m)'
    OBVIOUS
  <2>1. m \in DOMAIN hooks /\ DOMAIN scan.hook = scan.listed
    BY DEF Typed, IInv, Grouped
  <2>2. m = n => scan.hook[m] = "Completed"
    BY <2>1, <1>1
  <2> QED
    BY <1>1, <1>5, <2>1, <2>2 DEF Listed
<1>9. ~ scan.grouped => NotGrouped'
  BY <1>1, <1>6, <1>7 DEF IInv, NotGrouped
<1>10. scan.grouped => Grouped'
  BY <1>1, <1>8 DEF IInv, Grouped, NoHookOvertakes, Before
<1>11. \A m \in DOMAIN hooks : jobs'[m] = "succeeded" => m \in succeeded'
  BY <1>1 DEF IInv
<1> QED
  BY <1>1, <1>2, <1>9, <1>10, <1>11 DEF IInv, NoHookRunsAgain

LEMMA UserChangesHookKeeps ==
    ASSUME Typed, IInv, NEW n \in DOMAIN hooks, UserChangesHook(n)
    PROVE  Typed' /\ IInv'
<1>1. /\ UNCHANGED <<hooks, scan, jobs, runs, succeeded>>
      /\ installed' \in SUBSET DOMAIN hooks
      /\ late \subseteq late'
      /\ scan.state \in {"ReadOnlyHookProcessing", "Done"} => installed' \subseteq installed \cup late'
  BY DEF UserChangesHook, Typed
<1>2. Typed'
  BY <1>1 DEF Typed
<1>3. \A m \in DOMAIN hooks : Passed(m) => Passed(m)'
  BY <1>1 DEF Passed, NoPriorities
<1>4. /\ \A m \in OfType("ReadAndWrite") : LeftReadAndWrite(m) => LeftReadAndWrite(m)'
      /\ \A m \in OfType("ReadOnly") : LeftReadOnly(m) => LeftReadOnly(m)'
  BY <1>1 DEF LeftReadAndWrite, LeftReadOnly, OfType
<1>5. \A m \in DOMAIN hooks : Listed(m) => Listed(m)'
  BY <1>1, <1>3 DEF Listed
<1>6. scan.listed \subseteq DOMAIN hooks
  BY DEF Typed
<1>7. ~ scan.grouped => NotGrouped'
  BY <1>1, <1>4 DEF IInv, NotGrouped, Parsed, Left, OfType, NoPriorities
<1>8. scan.grouped => Grouped'
  BY <1>1, <1>5, <1>6 DEF IInv, Grouped, NoHookOvertakes, Before
<1> QED
  BY <1>1, <1>2, <1>7, <1>8 DEF IInv, NoHookRunsAgain

LEMMA UserDeletesScanKeeps ==
    ASSUME Typed, IInv, UserDeletesScan
    PROVE  Typed' /\ IInv'
<1>1. /\ UNCHANGED <<hooks, installed, jobs, late, runs, succeeded>>
      /\ scan' = [state |-> scan.state, grouped |-> scan.grouped, listed |-> scan.listed,
                  groups |-> scan.groups, hook |-> scan.hook, deleting |-> TRUE]
  BY DEF UserDeletesScan, Typed
<1>2. /\ scan'.state = scan.state /\ scan'.grouped = scan.grouped /\ scan'.listed = scan.listed
      /\ scan'.groups = scan.groups /\ scan'.hook = scan.hook
  BY <1>1
<1>3. Typed'
  BY <1>1, <1>2, ScanStepTyped DEF NothingElse, Typed
<1>4. /\ \A m : LeftReadAndWrite(m)' <=> LeftReadAndWrite(m)
      /\ \A m : LeftReadOnly(m)' <=> LeftReadOnly(m)
      /\ \A m : Listed(m)' <=> Listed(m)
  BY <1>1, <1>2 DEF LeftReadAndWrite, LeftReadOnly, OfType, Listed, Passed, NoPriorities
<1>5. (NotGrouped' <=> NotGrouped) /\ (Grouped' <=> Grouped)
  BY <1>1, <1>2, <1>4
  DEF NotGrouped, Parsed, Left, OfType, NoPriorities, Grouped, NoHookOvertakes, Before
<1> QED
  BY <1>1, <1>2, <1>3, <1>5 DEF IInv, NoHookRunsAgain

-----------------------------------------------------------------------------
LEMMA NextKeeps ==
    ASSUME Typed, IInv, [Next]_vars
    PROVE  Typed' /\ IInv'
<1>1. CASE setHookStatus
  BY <1>1, setHookStatusKeeps
<1>2. CASE migrateHookStatus
  BY <1>2, migrateHookStatusKeeps
<1>3. CASE executeHooks
  BY <1>3, executeHooksKeeps
<1>4. CASE UserDeletesScan
  BY <1>4, UserDeletesScanKeeps
<1>5. ASSUME NEW n \in DOMAIN hooks, JobEnds(n) \/ JobCollected(n) \/ UserChangesHook(n)
      PROVE  Typed' /\ IInv'
  BY <1>5, JobEndsKeeps, JobCollectedKeeps, UserChangesHookKeeps
<1>6. CASE UNCHANGED vars
  BY <1>6
  DEF vars, Typed, IInv, Grouped, NotGrouped, Parsed, Left, LeftReadAndWrite, LeftReadOnly, OfType,
      Listed, Passed, NoPriorities, NoHookOvertakes, NoHookRunsAgain, Before
<1> QED
  BY <1>1, <1>2, <1>3, <1>4, <1>5, <1>6 DEF Next, Reconcile

LEMMA Inductive == Spec => [](Typed /\ IInv)
<1>1. Init => Typed /\ IInv
  BY InitTyped, InitIInv, HookQueueAssumption
<1>2. Typed /\ IInv /\ [Next]_vars => Typed' /\ IInv'
  BY NextKeeps
<1> QED
  BY <1>1, <1>2, PTL DEF Spec

(* Grouping loses no hook, repeats none and makes no empty group, for lists  *)
(* of any length, whichever hooks are installed or removed meanwhile         *)
(* (FromUnorderedList, setHookStatus, migrateHookStatus).                    *)
THEOREM EveryHookGrouped == Spec => []EveryHookOnce
<1>1. Typed /\ IInv => EveryHookOnce
  BY GroupingIsRight
<1> QED
  BY <1>1, Inductive, PTL

(* The groups follow priority and type, those of a Scan taken over from an   *)
(* earlier release as well (FromUnorderedList, migrateHookStatus).           *)
THEOREM GroupingCorrect == Spec => []GroupsFollowPriority
<1>1. Typed /\ IInv => GroupsFollowPriority
  BY GroupingIsRight
<1> QED
  BY <1>1, Inductive, PTL

(* A hook is started only after everything it must wait for has succeeded,   *)
(* whatever an earlier release left (executeHooks, CurrentHookGroup).        *)
THEOREM HooksRunInOrder == Spec => []NoHookOvertakes
<1>1. Typed /\ IInv => NoHookOvertakes
  BY DEF Typed, IInv, Grouped, NotGrouped, NoHookOvertakes
<1> QED
  BY <1>1, Inductive, PTL

(* A hook is never started twice, however often a status write is lost       *)
(* (processPendingHook).                                                     *)
THEOREM HooksRunOnce == Spec => []NoHookRunsAgain
<1>1. Typed /\ IInv => NoHookRunsAgain
  BY DEF Typed, IInv, Grouped, NotGrouped
<1> QED
  BY <1>1, Inductive, PTL

(* A Scan is Done only when each of its hooks has succeeded, but for those   *)
(* that are taken for finished without a Job (CurrentHookGroup,              *)
(* processInProgressHook).                                                   *)
THEOREM DoneIsEarned == Spec => []DoneMeansSucceeded
<1>1. Typed /\ IInv => DoneMeansSucceeded
  BY DEF Typed, IInv, Grouped, NotGrouped, DoneMeansSucceeded, Listed, Passed
<1> QED
  BY <1>1, Inductive, PTL
=============================================================================
