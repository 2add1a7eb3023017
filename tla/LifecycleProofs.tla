-------------------------- MODULE LifecycleProofs --------------------------
(***************************************************************************)
(* The scan operator implements ScanLifecycle, for every set of hooks and   *)
(* hook lists and every bound: under stale caches, failed calls and crashes *)
(* each status it writes is the next one of the life cycle.                 *)
(*                                                                          *)
(* The argument: a status write is accepted only from a copy of the newest  *)
(* version (optimistic concurrency), and a copy of the newest version shows *)
(* the newest status, so what the handler of that status makes of it is a   *)
(* step of the life cycle from the status in the API server.                *)
(***************************************************************************)
EXTENDS ScanProofs, HookGroupsProofs

SameStatus(o, p) ==
    /\ o.state = p.state /\ o.groups = p.groups /\ o.hook = p.hook
    /\ o.finished = p.finished /\ o.raw = p.raw

NamesAt(groups, g) == {groups[g][k].name : k \in DOMAIN groups[g]}

(***************************************************************************)
(* The steps of the life cycle from the status of o to that of p, which has *)
(* not been stamped yet.                                                    *)
(***************************************************************************)
Advances(o, p) ==
    /\ o.state \in DOMAIN Lifecycle!Successor /\ p.state = Lifecycle!Successor[o.state]
    /\ p.groups = o.groups /\ p.hook = o.hook /\ p.finished = o.finished

Breaks(o, p) ==
    /\ o.state \in DOMAIN Lifecycle!Successor /\ p.state = "Errored"
    /\ p.groups = o.groups /\ p.hook = o.hook

SelectsHooks(o, p) ==
    /\ o.state = "ParseCompleted" /\ p.state = "HookProcessing"
    /\ \E list \in HookLists : p.groups = FromUnorderedList(list)
    /\ p.hook = [h \in HookNames |-> "Pending"]
    /\ p.finished = o.finished

RunsHooks(o, p) ==
    /\ o.state = "HookProcessing" /\ CurrentHookGroup(o.groups, o.hook).result = "group"
    /\ \A h \in HookNames :
          p.hook[h] \in IF h \in NamesAt(o.groups, CurrentHookGroup(o.groups, o.hook).group)
                        THEN Lifecycle!HookStep[o.hook[h]] ELSE {o.hook[h]}
    /\ p.state \in {"HookProcessing", "Errored"}
    /\ p.groups = o.groups /\ p.finished = o.finished

FinishesHooks(o, p) ==
    /\ o.state = "HookProcessing"
    /\ \/ CurrentHookGroup(o.groups, o.hook).result = "none" /\ p.state = "Done"
       \/ CurrentHookGroup(o.groups, o.hook).result = "error" /\ p.state = "Errored"
    /\ p.groups = o.groups /\ p.hook = o.hook

Proceeds(o, p) ==
    Advances(o, p) \/ Breaks(o, p) \/ SelectsHooks(o, p) \/ RunsHooks(o, p) \/ FinishesHooks(o, p)

(***************************************************************************)
(* The invariant: what Reconcile holds in its hands when its copy is of the *)
(* newest version.                                                          *)
(***************************************************************************)
HooksAdvance ==
    /\ RunsHooks(scan, obj)
    /\ cursor[1] = CurrentHookGroup(scan.groups, scan.hook).group
    /\ cursor[2] \in DOMAIN scan.groups[cursor[1]]
    /\ \A k \in DOMAIN scan.groups[cursor[1]] :
          k >= cursor[2] => LET h == scan.groups[cursor[1]][k].name IN obj.hook[h] = scan.hook[h]

CopyAgrees ==
    /\ pc \in {"cleanup", "release", "switch", "addFinalizer", "createScanner", "createParser"}
          => SameStatus(obj, scan)
    /\ pc \in {"addFinalizer", "createScanner"} => obj.state = "Init"
    /\ pc = "createParser" => obj.state = "ScanCompleted"
    /\ pc = "hooks" => HooksAdvance
    /\ pc \in {"write", "record"} => Proceeds(scan, obj)

LInv ==
    /\ cache.rv = scan.rv => SameStatus(cache, scan)
    /\ pc # "idle" /\ obj.rv = scan.rv => CopyAgrees
    /\ scan.finished => scan.state \in Terminal
-----------------------------------------------------------------------------
(***************************************************************************)
(* The abstract specification groups hooks as the operator does.            *)
(***************************************************************************)
LEMMA SameGrouping ==
    ASSUME NEW list
    PROVE  Lifecycle!FromUnorderedList(list) = FromUnorderedList(list)
BY DEF FromUnorderedList, GroupsAt, Leader, Member, Leaders, GroupMembers, Order, Nth,
       Precedes, OrderHookStatusesInsideAPrioClass, Cardinality,
       Lifecycle!FromUnorderedList, Lifecycle!GroupsAt, Lifecycle!Leader, Lifecycle!Member,
       Lifecycle!Leaders, Lifecycle!GroupMembers, Lifecycle!Order, Lifecycle!Nth,
       Lifecycle!Precedes, Lifecycle!OrderHookStatusesInsideAPrioClass,
       Lifecycle!Cardinality

LEMMA SameCurrentGroup ==
    ASSUME NEW groups, NEW state
    PROVE  Lifecycle!CurrentHookGroup(groups, state) = CurrentHookGroup(groups, state)
BY DEF CurrentHookGroup, OpenHooks, FirstOpenHook, FirstPlace,
       Lifecycle!CurrentHookGroup, Lifecycle!OpenHooks, Lifecycle!FirstOpenHook,
       Lifecycle!FirstPlace

-----------------------------------------------------------------------------
(***************************************************************************)
(* What Proceeds allows is a step of the life cycle, once stamped.          *)
(***************************************************************************)
StatusBecomes(o) ==
    /\ scan.exists /\ scan'.exists
    /\ scan'.state = o.state /\ scan'.groups = o.groups /\ scan'.hook = o.hook
    /\ scan'.finished = (o.finished \/ o.state \in Terminal)

LEMMA SuccessorStates ==
    /\ DOMAIN Lifecycle!Successor = {"Init", "Scanning", "ScanCompleted", "Parsing"}
    /\ Lifecycle!Successor["Init"] = "Scanning"
    /\ Lifecycle!Successor["Scanning"] = "ScanCompleted"
    /\ Lifecycle!Successor["ScanCompleted"] = "Parsing"
    /\ Lifecycle!Successor["Parsing"] = "ParseCompleted"
BY DEF Lifecycle!Successor

LEMMA ProceedsIsNext ==
    ASSUME Typed, NEW o \in Scan, Proceeds(scan, o), StatusBecomes(o),
           scan.finished => scan.state \in Terminal
    PROVE  Lifecycle!Next /\ (scan'.finished => scan'.state \in Terminal)
<1>1. scan \in Scan /\ scan.finished \in BOOLEAN /\ o.finished \in BOOLEAN
  BY DEF Typed, Outer, Scan
<1>2. CASE Advances(scan, o)
  <2>1. ~ scan.finished /\ ~ o.finished /\ o.state \notin Terminal
    BY <1>1, <1>2, SuccessorStates DEF Advances, Terminal
  <2>2. Lifecycle!Advance
    BY <1>1, <1>2, <2>1 DEF Advances, StatusBecomes, Lifecycle!Advance
  <2> QED
    BY <2>1, <2>2 DEF Lifecycle!Next, StatusBecomes
<1>3. CASE Breaks(scan, o)
  <2>1. Lifecycle!Fail
    BY <1>1, <1>3 DEF Breaks, StatusBecomes, Terminal, Lifecycle!Fail
  <2> QED
    BY <1>3, <2>1 DEF Lifecycle!Next, StatusBecomes, Breaks, Terminal
<1>4. CASE SelectsHooks(scan, o)
  <2>1. ~ scan.finished /\ ~ o.finished /\ o.state \notin Terminal
    BY <1>1, <1>4 DEF SelectsHooks, Terminal
  <2>2. PICK list \in HookLists : o.groups = FromUnorderedList(list)
    BY <1>4 DEF SelectsHooks
  <2>3. scan'.groups = Lifecycle!FromUnorderedList(list)
    BY <2>2, SameGrouping DEF StatusBecomes
  <2>4. Lifecycle!SelectHooks
    BY <1>1, <1>4, <2>1, <2>3 DEF SelectsHooks, StatusBecomes, Lifecycle!SelectHooks
  <2> QED
    BY <2>1, <2>4 DEF Lifecycle!Next, StatusBecomes
<1>5. CASE RunsHooks(scan, o)
  <2>1. ~ scan.finished /\ ~ o.finished
    BY <1>1, <1>5 DEF RunsHooks, Terminal
  <2>2. scan'.finished = (o.state = "Errored")
    BY <1>5, <2>1 DEF RunsHooks, StatusBecomes, Terminal
  <2>3. o.hook \in [HookNames -> HookStates] /\ Lifecycle!HookStates = HookStates
    BY DEF Scan, Lifecycle!HookStates, HookStates
  <2>4. Lifecycle!RunHooks
    <3> DEFINE c == Lifecycle!CurrentHookGroup(scan.groups, scan.hook)
               now == {scan.groups[c.group][k].name : k \in DOMAIN scan.groups[c.group]}
    <3>1. c = CurrentHookGroup(scan.groups, scan.hook) /\ c.result = "group"
      BY <1>5, SameCurrentGroup DEF RunsHooks
    <3>2. scan'.hook \in [HookNames -> Lifecycle!HookStates]
      BY <2>3 DEF StatusBecomes
    <3>3. \A h \in HookNames :
             scan'.hook[h] \in IF h \in now THEN Lifecycle!HookStep[scan.hook[h]] ELSE {scan.hook[h]}
      <4> HIDE DEF c
      <4>1. \A h \in HookNames :
               scan'.hook[h] \in IF h \in NamesAt(scan.groups, c.group)
                                THEN Lifecycle!HookStep[scan.hook[h]] ELSE {scan.hook[h]}
        BY <1>5, <3>1 DEF RunsHooks, StatusBecomes
      <4> QED
        BY <4>1 DEF NamesAt
    <3>4. /\ scan.exists /\ scan.state = "HookProcessing"
          /\ scan'.exists /\ scan'.state \in {"HookProcessing", "Errored"}
          /\ scan'.finished = (scan'.state = "Errored")
          /\ scan'.groups = scan.groups
      BY <1>5, <2>2 DEF RunsHooks, StatusBecomes
    <3>5. /\ (IF scan.exists THEN scan.state ELSE "Gone") = "HookProcessing"
          /\ (IF scan.exists THEN scan.state ELSE "Gone")' \in {"HookProcessing", "Errored"}
          /\ scan.finished' = ((IF scan.exists THEN scan.state ELSE "Gone")' = "Errored")
      BY <3>4
    <3> QED
      BY <3>1, <3>2, <3>3, <3>4, <3>5, Zenon DEF Lifecycle!RunHooks
  <2> QED
    BY <2>2, <2>4 DEF Lifecycle!Next, StatusBecomes, Terminal
<1>6. CASE FinishesHooks(scan, o)
  <2>1. o.state \in Terminal /\ scan'.finished = TRUE
    BY <1>6 DEF FinishesHooks, StatusBecomes, Terminal
  <2>2. Lifecycle!FinishHooks
    BY <1>6, <2>1, SameCurrentGroup DEF FinishesHooks, StatusBecomes, Lifecycle!FinishHooks
  <2> QED
    BY <2>1, <2>2 DEF Lifecycle!Next, StatusBecomes
<1> QED
  BY <1>2, <1>3, <1>4, <1>5, <1>6 DEF Proceeds

-----------------------------------------------------------------------------
(***************************************************************************)
(* The groups in the status of a Scan are those of a list of hooks with     *)
(* names of their own.                                                      *)
(***************************************************************************)
NamesApart(groups) ==
    \A f, g \in DOMAIN groups : \A k \in DOMAIN groups[f], n \in DOMAIN groups[g] :
        groups[f][k].name = groups[g][n].name => f = g /\ k = n

FullGroup(group) ==
    /\ Len(group) \in Nat \ {0}
    /\ DOMAIN group = 1..Len(group)
    /\ \A k \in DOMAIN group : group[k] \in Hook

LEMMA ListsAreHooks ==
    ASSUME NEW list \in HookLists
    PROVE  HooksAt(list, DOMAIN list) /\ \A i \in DOMAIN list : list[i] \in Hook
<1>1. list \in Seq(Hook)
  BY ClusterAssumption
<1>2. Len(list) \in Nat /\ DOMAIN list = 1..Len(list) /\ \A i \in DOMAIN list : list[i] \in Hook
  BY <1>1
<1>3. IsFiniteSet(DOMAIN list) /\ DOMAIN list \subseteq Nat
  BY <1>2, FS_Interval
<1> QED
  BY <1>2, <1>3 DEF HooksAt, IsHook, Hook

LEMMA GroupingsShape ==
    ASSUME NEW groups \in Groupings
    PROVE  /\ IsGrouping(groups)
           /\ NamesApart(groups)
           /\ \A g \in DOMAIN groups : FullGroup(groups[g])
<1>1. CASE groups = <<>>
  <2>1. DOMAIN groups = {}
    BY <1>1
  <2> QED
    BY <2>1 DEF IsGrouping, NamesApart
<1>2. CASE groups # <<>>
  <2>1. PICK list \in HookLists : groups = GroupsAt(list, DOMAIN list)
    BY <1>2 DEF Groupings, FromUnorderedList
  <2> DEFINE S == DOMAIN list
             at(g, k) == PlaceOf(list, S, g, k)
  <2>2. HooksAt(list, S) /\ \A i \in S : list[i] \in Hook
    BY ListsAreHooks
  <2>3. \A i, k \in S : list[i].name = list[k].name => i = k
    BY ClusterAssumption
  <2>4. /\ \A g \in DOMAIN groups : \A k \in DOMAIN groups[g] :
              at(g, k) \in S /\ groups[g][k] = list[at(g, k)]
        /\ \A f, g \in DOMAIN groups : \A k \in DOMAIN groups[f], n \in DOMAIN groups[g] :
              at(f, k) = at(g, n) => f = g /\ k = n
        /\ \E N \in Nat : DOMAIN groups = 1..N
        /\ \A g \in DOMAIN groups : \E M \in Nat \ {0} : DOMAIN groups[g] = 1..M
    BY <2>1, <2>2, GroupPlaces
  <2>5. \A g \in DOMAIN groups : groups[g] = [k \in DOMAIN groups[g] |-> groups[g][k]]
    BY <2>1 DEF GroupsAt
  <2> HIDE DEF at, S
  <2>6. IsGrouping(groups)
    BY <2>4 DEF IsGrouping
  <2>7. NamesApart(groups)
    <3>1. ASSUME NEW f \in DOMAIN groups, NEW g \in DOMAIN groups,
                 NEW k \in DOMAIN groups[f], NEW n \in DOMAIN groups[g],
                 groups[f][k].name = groups[g][n].name
          PROVE  f = g /\ k = n
      <4>1. /\ at(f, k) \in S /\ groups[f][k] = list[at(f, k)]
            /\ at(g, n) \in S /\ groups[g][n] = list[at(g, n)]
        BY <2>4
      <4>2. at(f, k) = at(g, n)
        BY <3>1, <4>1, <2>3
      <4> QED
        BY <4>2, <2>4
    <3> QED
      BY <3>1 DEF NamesApart
  <2>8. \A g \in DOMAIN groups : FullGroup(groups[g])
    <3> TAKE g \in DOMAIN groups
    <3>1. PICK M \in Nat \ {0} : DOMAIN groups[g] = 1..M
      BY <2>4
    <3>2. \A k \in 1..M : groups[g][k] \in Hook
      BY <2>2, <2>4, <3>1
    <3>3. groups[g] = [k \in 1..M |-> groups[g][k]]
      BY <2>5, <3>1
    <3>4. groups[g] \in Seq(Hook) /\ Len(groups[g]) = M
      BY <3>2, <3>3
    <3> QED
      BY <3>1, <3>2, <3>4 DEF FullGroup
  <2> QED
    BY <2>6, <2>7, <2>8
<1> QED
  BY <1>1, <1>2

-----------------------------------------------------------------------------
(***************************************************************************)
(* Steps of the Scan that leave its status alone.                           *)
(***************************************************************************)
StatusKept ==
    /\ SameStatus(scan', scan)
    /\ scan'.exists => scan.exists
    /\ scan' = scan \/ scan'.rv = scan.rv + 1

Stays == LInv' /\ [Lifecycle!Next]_(Lifecycle!vars)

LEMMA NothingKept == ASSUME UNCHANGED scan PROVE StatusKept
BY DEF StatusKept, SameStatus

LEMMA FinalizersKeepStatus ==
    ASSUME Outer, NEW f \in SUBSET Finalizers, scan.exists, scan' = WithFinalizers(f)
    PROVE  StatusKept
<1>1. CASE scan.deleting /\ f = {}
  BY <1>1 DEF WithFinalizers, Removed, StatusKept, SameStatus, Outer, Scan
<1>2. CASE ~(scan.deleting /\ f = {}) /\ f = scan.finalizers
  BY <1>2 DEF WithFinalizers, StatusKept, SameStatus
<1>3. CASE ~(scan.deleting /\ f = {}) /\ f # scan.finalizers
  BY <1>3 DEF WithFinalizers, StatusKept, SameStatus, Outer, Scan
<1> QED
  BY <1>1, <1>2, <1>3

LEMMA DeletedKeepsStatus == ASSUME Outer, scan' = Deleted(scan) PROVE StatusKept
<1>1. CASE ~scan.exists \/ scan.deleting
  BY <1>1, NothingKept DEF Deleted
<1>2. CASE ~(~scan.exists \/ scan.deleting) /\ scan.finalizers = {}
  BY <1>2 DEF Deleted, Removed, StatusKept, SameStatus, Outer, Scan
<1>3. CASE ~(~scan.exists \/ scan.deleting) /\ scan.finalizers # {}
  BY <1>3 DEF Deleted, StatusKept, SameStatus, Outer, Scan
<1> QED
  BY <1>1, <1>2, <1>3

LEMMA PatchKeepsStatus == ASSUME Outer, NEW kind, PatchFindings(kind) PROVE StatusKept
BY DEF PatchFindings, StatusKept, SameStatus, Outer, Scan

LEMMA KeptIsLifecycle ==
    ASSUME Typed, StatusKept
    PROVE  [Lifecycle!Next]_(Lifecycle!vars)
<1>1. scan.state # "Gone" /\ scan.exists \in BOOLEAN
  BY DEF Typed, Outer, Scan, ScanStates
<1>2. CASE scan.exists /\ ~scan'.exists
  BY <1>1, <1>2 DEF StatusKept, SameStatus, Lifecycle!Vanish, Lifecycle!Next
<1>3. CASE ~scan.exists /\ ~scan'.exists
  BY <1>3 DEF StatusKept, SameStatus, Lifecycle!vars
<1>4. CASE scan.exists /\ scan'.exists
  BY <1>4 DEF StatusKept, SameStatus, Lifecycle!vars
<1> QED
  BY <1>2, <1>3, <1>4 DEF StatusKept

LEMMA CacheAgrees ==
    ASSUME Typed, IInv, LInv, UNCHANGED cache, scan' = scan \/ scan'.rv = scan.rv + 1
    PROVE  (cache.rv = scan.rv => SameStatus(cache, scan))'
<1>1. cache.rv <= scan.rv /\ cache.rv \in Nat /\ scan.rv \in Nat
  BY DEF IInv, Follows, Typed, Inner, Outer, Scan
<1>2. CASE scan' = scan
  BY <1>2 DEF LInv, SameStatus
<1>3. CASE scan'.rv = scan.rv + 1
  BY <1>1, <1>3
<1> QED
  BY <1>2, <1>3

(* The scheme of most steps.                                                *)
LEMMA KeptStays ==
    ASSUME Typed, IInv, LInv, StatusKept, UNCHANGED cache,
           pc' # "idle" /\ obj'.rv = scan'.rv => CopyAgrees'
    PROVE  Stays
<1>1. (cache.rv = scan.rv => SameStatus(cache, scan))'
  BY CacheAgrees DEF StatusKept
<1>2. (scan.finished => scan.state \in Terminal)'
  BY DEF LInv, StatusKept, SameStatus
<1> QED
  BY <1>1, <1>2, KeptIsLifecycle DEF Stays, LInv

LEMMA QuietStays ==
    ASSUME Typed, IInv, LInv, UNCHANGED <<scan, cache>>,
           pc' # "idle" => /\ pc # "idle" /\ obj'.rv = obj.rv
                           /\ obj.rv = scan.rv /\ CopyAgrees => CopyAgrees'
    PROVE  Stays
BY KeptStays, NothingKept DEF LInv

LEMMA IdleStays ==
    ASSUME Typed, IInv, LInv, StatusKept, UNCHANGED cache, pc' = "idle"
    PROVE  Stays
BY KeptStays

(* The operator is not involved.                                            *)
LEMMA OutsideStays ==
    ASSUME Typed, IInv, LInv, StatusKept, UNCHANGED <<cache, pc, obj, cursor>>
    PROVE  Stays
<1>1. ASSUME pc # "idle", obj.rv = scan'.rv PROVE CopyAgrees'
  <2>1. obj.rv <= scan.rv /\ obj.rv \in Nat /\ scan.rv \in Nat
    BY <1>1 DEF IInv, Follows, Typed, Inner, Outer, WorkTypeOK, Scan
  <2>2. UNCHANGED scan
    BY <1>1, <2>1 DEF StatusKept
  <2> QED
    BY <1>1, <2>2 DEF LInv, CopyAgrees, HooksAdvance, RunsHooks, SameStatus, Proceeds,
       Advances, Breaks, SelectsHooks, FinishesHooks
<1> QED
  BY <1>1, KeptStays

-----------------------------------------------------------------------------
(***************************************************************************)
(* Each action of the operator is a step of the life cycle or none.         *)
(***************************************************************************)
LEMMA ReconcileStays == ASSUME Typed, IInv, LInv, Reconcile PROVE Stays
<1>1. UNCHANGED <<scan, cache>>
  BY DEF Reconcile
<1>2. CASE Skipped(cache)
  BY <1>1, <1>2, IdleStays, NothingKept DEF Reconcile, workVars
<1>3. CASE ~Skipped(cache)
  <2>1. obj' = cache /\ pc' \in {"cleanup", "switch"}
    BY <1>3 DEF Reconcile, Goto, AfterGet
  <2>2. obj'.rv = scan'.rv => CopyAgrees'
    BY <1>1, <2>1 DEF LInv, CopyAgrees, SameStatus
  <2> QED
    BY <1>1, <2>2, KeptStays, NothingKept
<1> QED
  BY <1>2, <1>3

LEMMA CleanupStays == ASSUME Typed, IInv, LInv, cleanupS3Files PROVE Stays
<1>1. pc = "cleanup" /\ UNCHANGED scan
  BY DEF cleanupS3Files
<1>2. CASE Fails
  BY <1>1, <1>2, ReturnsIdle, IdleStays, NothingKept
<1>3. CASE Goto("release") /\ UNCHANGED obj /\ Continue
  <2>1. pc' = "release" /\ UNCHANGED <<scan, cache, obj>>
    BY <1>1, <1>3 DEF Goto, Continue
  <2>2. CopyAgrees => CopyAgrees'
    BY <1>1, <2>1 DEF CopyAgrees, SameStatus
  <2> QED
    BY <1>1, <2>1, <2>2, QuietStays
<1> QED
  BY <1>2, <1>3 DEF cleanupS3Files

(* An Update of the finalizers after which Reconcile has returned or goes   *)
(* on with the new version.                                                 *)
LEMMA FinalizersStay ==
    ASSUME Typed, IInv, LInv, NEW f \in SUBSET Finalizers,
           AcceptsFinalizers(obj, f), scan' = WithFinalizers(f), UNCHANGED cache,
           pc \in {"release", "addFinalizer"},
           pc' # "idle" => /\ obj' = [obj EXCEPT !.finalizers = f, !.rv = scan'.rv]
                           /\ \/ pc' \in {"switch", "cleanup"}
                              \/ pc = "addFinalizer" /\ pc' = "createScanner"
    PROVE  Stays
<1>1. scan.exists /\ obj.rv = scan.rv
  BY DEF AcceptsFinalizers, AcceptsUpdate
<1>2. StatusKept
  BY <1>1, FinalizersKeepStatus DEF Typed
<1>3. CopyAgrees
  BY <1>1 DEF LInv
<1>4. ASSUME pc' # "idle" PROVE CopyAgrees'
  <2>1. SameStatus(obj, scan) /\ (pc = "addFinalizer" => obj.state = "Init")
    BY <1>3 DEF CopyAgrees
  <2>2. SameStatus(obj', obj)
    BY <1>4 DEF SameStatus, Typed, Inner, WorkTypeOK, Scan
  <2>3. SameStatus(obj, scan)'
    BY <1>2, <2>1, <2>2 DEF StatusKept, SameStatus
  <2>4. pc' = "createScanner" => obj'.state = "Init"
    BY <1>4, <2>1, <2>2 DEF SameStatus
  <2> QED
    BY <1>4, <2>3, <2>4 DEF CopyAgrees
<1> QED
  BY <1>2, <1>4, KeptStays

LEMMA ReleaseStays == ASSUME Typed, IInv, LInv, ReleaseFinalizer PROVE Stays
<1>1. Remaining \in SUBSET Finalizers /\ pc = "release"
  BY DEF ReleaseFinalizer, Remaining, Typed, Inner, WorkTypeOK, Scan
<1>2. CASE (ReturnError \/ Fails) /\ UNCHANGED scan
  BY <1>2, ReturnsIdle, IdleStays, NothingKept
<1>3. CASE /\ AcceptsFinalizers(obj, Remaining) /\ scan' = WithFinalizers(Remaining)
           /\ \/ /\ obj' = [obj EXCEPT !.finalizers = Remaining, !.rv = scan'.rv]
                 /\ Goto(IF Remaining = {} THEN "switch" ELSE "cleanup")
                 /\ Continue
              \/ Fails
  <2>1. UNCHANGED cache
    BY <1>3, ReturnsIdle DEF Continue
  <2>2. pc' # "idle" => /\ obj' = [obj EXCEPT !.finalizers = Remaining, !.rv = scan'.rv]
                        /\ pc' \in {"switch", "cleanup"}
    BY <1>3, ReturnsIdle DEF Goto
  <2> QED
    BY <1>1, <1>3, <2>1, <2>2, FinalizersStay
<1> QED
  BY <1>2, <1>3 DEF ReleaseFinalizer

LEMMA AddFinalizerStays == ASSUME Typed, IInv, LInv, AddFinalizer PROVE Stays
<1>1. WantedFinalizers \in SUBSET Finalizers /\ pc = "addFinalizer"
  BY DEF AddFinalizer, WantedFinalizers, Typed, Inner, WorkTypeOK, Scan, Finalizers
<1>2. CASE (ReturnError \/ Fails) /\ UNCHANGED scan
  BY <1>2, ReturnsIdle, IdleStays, NothingKept
<1>3. CASE /\ AcceptsFinalizers(obj, WantedFinalizers)
           /\ scan' = WithFinalizers(WantedFinalizers)
           /\ \/ /\ obj' = [obj EXCEPT !.finalizers = WantedFinalizers, !.rv = scan'.rv]
                 /\ Goto("createScanner") /\ Continue
              \/ Fails
  <2>1. UNCHANGED cache
    BY <1>3, ReturnsIdle DEF Continue
  <2>2. pc' # "idle" => /\ obj' = [obj EXCEPT !.finalizers = WantedFinalizers, !.rv = scan'.rv]
                        /\ pc' = "createScanner"
    BY <1>3, ReturnsIdle DEF Goto
  <2> QED
    BY <1>1, <1>3, <2>1, <2>2, FinalizersStay
<1> QED
  BY <1>2, <1>3 DEF AddFinalizer

(* The status write: accepted from the newest version only.                 *)
LEMMA WrittenStatus ==
    ASSUME Typed, scan.exists, scan' = WithStatusOf(Stamped(obj))
    PROVE  StatusBecomes(obj) /\ (scan' = scan \/ scan'.rv = scan.rv + 1)
<1>1. /\ Stamped(obj) \in Scan
      /\ Stamped(obj).state = obj.state /\ Stamped(obj).groups = obj.groups
      /\ Stamped(obj).hook = obj.hook
      /\ Stamped(obj).finished = (obj.finished \/ obj.state \in Terminal)
  BY StampedTyped DEF Stamped, Typed, Inner, WorkTypeOK, Scan
<1> DEFINE o == Stamped(obj)
           new == [scan EXCEPT !.state = o.state, !.finished = o.finished, !.raw = o.raw,
                               !.findings = o.findings, !.groups = o.groups, !.hook = o.hook]
<1>2. /\ new.rv = scan.rv /\ new.exists = scan.exists /\ new.state = o.state
      /\ new.groups = o.groups /\ new.hook = o.hook /\ new.finished = o.finished
      /\ new \in Scan
  BY <1>1 DEF Typed, Outer, Scan
<1>3. scan' = IF new = scan THEN scan ELSE [new EXCEPT !.rv = @ + 1]
  BY DEF WithStatusOf
<1> HIDE DEF new, o
<1>4. /\ scan'.exists = new.exists /\ scan'.state = new.state /\ scan'.groups = new.groups
      /\ scan'.hook = new.hook /\ scan'.finished = new.finished
      /\ scan' = scan \/ scan'.rv = scan.rv + 1
  BY <1>2, <1>3 DEF Scan
<1> QED
  BY <1>1, <1>2, <1>4 DEF StatusBecomes, o

LEMMA StatusWriteStays == ASSUME Typed, IInv, LInv, updateScanStatus PROVE Stays
<1>1. pc \in {"write", "record"} /\ pc' = "idle" /\ UNCHANGED cache
  BY ReturnedIdle DEF updateScanStatus
<1>2. CASE UNCHANGED scan
  BY <1>1, <1>2, IdleStays, NothingKept
<1>3. CASE AcceptsUpdate(obj) /\ scan' = WithStatusOf(Stamped(obj))
  <2>1. scan.exists /\ obj.rv = scan.rv
    BY <1>3 DEF AcceptsUpdate
  <2>2. Proceeds(scan, obj)
    BY <1>1, <2>1 DEF LInv, CopyAgrees
  <2>3. StatusBecomes(obj) /\ (scan' = scan \/ scan'.rv = scan.rv + 1)
    BY <1>3, <2>1, WrittenStatus
  <2>4. Lifecycle!Next /\ (scan'.finished => scan'.state \in Terminal)
    BY <2>2, <2>3, ProceedsIsNext DEF LInv, Typed, Inner, WorkTypeOK
  <2>5. (cache.rv = scan.rv => SameStatus(cache, scan))'
    BY <1>1, <2>3, CacheAgrees
  <2> QED
    BY <1>1, <2>4, <2>5 DEF Stays, LInv
<1> QED
  BY <1>2, <1>3 DEF updateScanStatus

LEMMA StartStays == ASSUME Typed, IInv, LInv, startScan \/ startParser PROVE Stays
<1>1. pc = "switch" /\ UNCHANGED scan
  BY DEF startScan, startParser, At
<1>2. CASE ReturnNil
  BY <1>1, <1>2, ReturnsIdle, IdleStays, NothingKept
<1>3. CASE ~ReturnNil
  <2>1. UNCHANGED <<scan, obj, cache>>
    BY <1>1, <1>3 DEF startScan, startParser, Continue
  <2>2. \/ obj.state = "Init" /\ pc' \in {"createScanner", "addFinalizer"}
        \/ obj.state = "ScanCompleted" /\ pc' = "createParser"
    BY <1>3 DEF startScan, startParser, At, Goto
  <2>3. CopyAgrees => CopyAgrees'
    BY <1>1, <2>1, <2>2 DEF CopyAgrees, SameStatus
  <2> QED
    BY <1>1, <2>1, <2>3, QuietStays
<1> QED
  BY <1>2, <1>3

(* A handler that leaves Reconcile with a copy to be written.               *)
LEMMA ToWriteStays ==
    ASSUME Typed, IInv, LInv, UNCHANGED <<scan, cache>>, pc # "idle",
           pc' \in {"write", "record"}, obj'.rv = obj.rv,
           CopyAgrees => Proceeds(scan, obj')
    PROVE  Stays
<1>1. CopyAgrees => CopyAgrees'
  BY DEF CopyAgrees, Proceeds, Advances, Breaks, SelectsHooks, RunsHooks, FinishesHooks
<1> QED
  BY <1>1, QuietStays

LEMMA CopyWithState ==
    ASSUME obj \in Scan, NEW s
    PROVE  LET o == [obj EXCEPT !.state = s]
           IN  /\ o.rv = obj.rv /\ o.state = s
               /\ o.groups = obj.groups /\ o.hook = obj.hook /\ o.finished = obj.finished
BY DEF Scan

LEMMA WriteErroredStays ==
    ASSUME Typed, IInv, LInv, UNCHANGED scan, pc # "idle", NEW error, Write(Errored(obj), error),
           CopyAgrees => SameStatus(obj, scan) /\ obj.state \in DOMAIN Lifecycle!Successor
    PROVE  Stays
<1>1. /\ obj' = [obj EXCEPT !.state = "Errored"] /\ pc' = "write" /\ UNCHANGED cache
      /\ obj \in Scan
  BY DEF Write, Continue, Errored, Typed, Inner, WorkTypeOK
<1>2. CopyAgrees => Breaks(scan, obj')
  BY <1>1, CopyWithState DEF SameStatus, Breaks
<1> QED
  BY <1>1, <1>2, CopyWithState, ToWriteStays DEF Proceeds

LEMMA CreateAndRecordStays ==
    ASSUME Typed, IInv, LInv, UNCHANGED scan, pc # "idle",
           NEW kind, NEW o, CreateAndRecord(kind, o), o.rv = obj.rv,
           CopyAgrees => Proceeds(scan, o)
    PROVE  Stays
<1>1. CASE Fails
  BY <1>1, ReturnsIdle, IdleStays, NothingKept
<1>2. CASE obj' = o /\ Goto("record") /\ Continue
  <2>1. obj' = o /\ pc' = "record" /\ UNCHANGED cache
    BY <1>2 DEF Goto, Continue
  <2> QED
    BY <2>1, ToWriteStays DEF Proceeds, Advances, Breaks, SelectsHooks, RunsHooks, FinishesHooks
<1> QED
  BY <1>1, <1>2 DEF CreateAndRecord

LEMMA CreateScannerStays == ASSUME Typed, IInv, LInv, CreateScanner PROVE Stays
<1>1. pc = "createScanner" /\ UNCHANGED scan /\ obj \in Scan
  BY DEF CreateScanner, Typed, Inner, WorkTypeOK
<1>2. CopyAgrees => SameStatus(obj, scan) /\ obj.state = "Init"
  BY <1>1 DEF CopyAgrees
<1>3. CASE Write(Errored(obj), TRUE)
  BY <1>1, <1>2, <1>3, SuccessorStates, WriteErroredStays
<1>4. CASE CreateAndRecord("scanner", [obj EXCEPT !.state = "Scanning", !.raw = TRUE])
  <2> DEFINE o == [obj EXCEPT !.state = "Scanning", !.raw = TRUE]
  <2>1. /\ o.rv = obj.rv /\ o.state = "Scanning"
        /\ o.groups = obj.groups /\ o.hook = obj.hook /\ o.finished = obj.finished
    BY <1>1 DEF Scan
  <2>2. CreateAndRecord("scanner", o)
    BY <1>4
  <2> HIDE DEF o
  <2>3. CopyAgrees => Proceeds(scan, o)
    BY <1>2, <2>1, SuccessorStates DEF SameStatus, Proceeds, Advances
  <2> QED
    BY <1>1, <2>1, <2>2, <2>3, CreateAndRecordStays
<1> QED
  BY <1>3, <1>4 DEF CreateScanner

LEMMA CreateParserStays == ASSUME Typed, IInv, LInv, CreateParser PROVE Stays
<1>1. pc = "createParser" /\ UNCHANGED scan /\ obj \in Scan
  BY DEF CreateParser, Typed, Inner, WorkTypeOK
<1>2. CopyAgrees => SameStatus(obj, scan) /\ obj.state = "ScanCompleted"
  BY <1>1 DEF CopyAgrees
<1>3. CASE Write(Errored(obj), TRUE)
  BY <1>1, <1>2, <1>3, SuccessorStates, WriteErroredStays
<1>4. CASE CreateAndRecord("parser", [obj EXCEPT !.state = "Parsing"])
  <2> DEFINE o == [obj EXCEPT !.state = "Parsing"]
  <2>1. /\ o.rv = obj.rv /\ o.state = "Parsing"
        /\ o.groups = obj.groups /\ o.hook = obj.hook /\ o.finished = obj.finished
    BY <1>1, CopyWithState
  <2>2. CreateAndRecord("parser", o)
    BY <1>4
  <2> HIDE DEF o
  <2>3. CopyAgrees => Proceeds(scan, o)
    BY <1>2, <2>1, SuccessorStates DEF SameStatus, Proceeds, Advances
  <2> QED
    BY <1>1, <2>1, <2>2, <2>3, CreateAndRecordStays
<1> QED
  BY <1>3, <1>4 DEF CreateParser

LEMMA CheckStays ==
    ASSUME Typed, IInv, LInv, checkIfScanIsCompleted \/ checkIfParsingIsCompleted
    PROVE  Stays
<1>1. PICK kind, next :
         /\ CheckJob(kind, next) /\ pc = "switch"
         /\ obj.state \in DOMAIN Lifecycle!Successor /\ next = Lifecycle!Successor[obj.state]
  BY SuccessorStates DEF checkIfScanIsCompleted, checkIfParsingIsCompleted, At
<1>2. UNCHANGED scan /\ obj \in Scan
  BY <1>1 DEF CheckJob, Typed, Inner, WorkTypeOK
<1>3. CopyAgrees => SameStatus(obj, scan)
  BY <1>1 DEF CopyAgrees
<1>4. CASE ReturnNil
  BY <1>2, <1>4, ReturnsIdle, IdleStays, NothingKept
<1>5. CASE Write(Errored(obj), FALSE)
  BY <1>1, <1>2, <1>3, <1>5, WriteErroredStays
<1>6. CASE Write([obj EXCEPT !.state = next], FALSE)
  <2>1. obj' = [obj EXCEPT !.state = next] /\ pc' = "write" /\ UNCHANGED cache
    BY <1>6 DEF Write, Continue
  <2>2. CopyAgrees => Proceeds(scan, obj')
    BY <1>1, <1>2, <1>3, <2>1, CopyWithState DEF SameStatus, Proceeds, Advances
  <2> QED
    BY <1>1, <1>2, <2>1, <2>2, CopyWithState, ToWriteStays
<1> QED
  BY <1>1, <1>4, <1>5, <1>6, StatusTyped DEF CheckJob

LEMMA SetHookStatusStays == ASSUME Typed, IInv, LInv, setHookStatus PROVE Stays
<1>1. pc = "switch" /\ obj.state = "ParseCompleted" /\ UNCHANGED scan /\ obj \in Scan
  BY DEF setHookStatus, At, Typed, Inner, WorkTypeOK
<1>2. CopyAgrees => SameStatus(obj, scan)
  BY <1>1 DEF CopyAgrees
<1>3. CASE Fails
  BY <1>1, <1>3, ReturnsIdle, IdleStays, NothingKept
<1>4. ASSUME NEW list \in HookLists,
             Write([obj EXCEPT !.groups = FromUnorderedList(list),
                               !.hook = [h \in HookNames |-> "Pending"],
                               !.state = "HookProcessing"], FALSE)
      PROVE  Stays
  <2>1. /\ obj' = [obj EXCEPT !.groups = FromUnorderedList(list),
                              !.hook = [h \in HookNames |-> "Pending"],
                              !.state = "HookProcessing"]
        /\ pc' = "write" /\ UNCHANGED cache
    BY <1>4 DEF Write, Continue
  <2>2. /\ obj'.rv = obj.rv /\ obj'.state = "HookProcessing"
        /\ obj'.groups = FromUnorderedList(list) /\ obj'.hook = [h \in HookNames |-> "Pending"]
        /\ obj'.finished = obj.finished
    BY <1>1, <2>1 DEF Scan
  <2>3. CopyAgrees => SelectsHooks(scan, obj')
    BY <1>1, <1>2, <2>2 DEF SameStatus, SelectsHooks
  <2> QED
    BY <1>1, <2>1, <2>2, <2>3, ToWriteStays DEF Proceeds
<1> QED
  BY <1>3, <1>4 DEF setHookStatus

(***************************************************************************)
(* executeHooks begins with the first hook of the current group, and at     *)
(* each hook those from the cursor on are still as the Scan shows them.     *)
(***************************************************************************)
LEMMA HookSteps ==
    /\ \A st \in HookStates : st \in Lifecycle!HookStep[st]
    /\ "InProgress" \in Lifecycle!HookStep["Pending"]
    /\ {"InProgress", "Completed", "Failed"} \subseteq Lifecycle!HookStep["InProgress"]
BY DEF HookStates, Lifecycle!HookStep

LEMMA FirstHookOfGroup ==
    ASSUME Typed, CurrentHookGroup(scan.groups, scan.hook).result = "group"
    PROVE  LET g == CurrentHookGroup(scan.groups, scan.hook).group
           IN  g \in DOMAIN scan.groups /\ 1 \in DOMAIN scan.groups[g]
<1>1. scan.groups \in Groupings
  BY DEF Typed, Outer, Scan
<1>2. IsGrouping(scan.groups) /\ \A g \in DOMAIN scan.groups : FullGroup(scan.groups[g])
  BY <1>1, GroupingsShape
<1>3. CurrentHookGroup(scan.groups, scan.hook).group \in DOMAIN scan.groups
  BY <1>2, CurrentGroupIs
<1> QED
  BY <1>2, <1>3 DEF FullGroup

LEMMA ExecuteHooksStays == ASSUME Typed, IInv, LInv, executeHooks PROVE Stays
<1>1. /\ pc = "switch" /\ obj.state = "HookProcessing" /\ UNCHANGED scan
      /\ obj \in Scan /\ scan \in Scan
  BY DEF executeHooks, At, Typed, Inner, Outer, WorkTypeOK
<1>2. CopyAgrees => SameStatus(obj, scan)
  BY <1>1 DEF CopyAgrees
<1> DEFINE c == CurrentHookGroup(obj.groups, obj.hook)
<1>3. c.result \in {"error", "none", "group"}
  BY DEF CurrentHookGroup
<1>4. ASSUME NEW s, NEW error, Write([obj EXCEPT !.state = s], error),
             s = (IF c.result = "none" THEN "Done" ELSE "Errored"), c.result \in {"none", "error"}
      PROVE  Stays
  <2>1. obj' = [obj EXCEPT !.state = s] /\ pc' = "write" /\ UNCHANGED cache
    BY <1>4 DEF Write, Continue
  <2>2. CopyAgrees => FinishesHooks(scan, obj')
    BY <1>1, <1>2, <1>4, <2>1, CopyWithState DEF SameStatus, FinishesHooks
  <2> QED
    BY <1>1, <2>1, <2>2, CopyWithState, ToWriteStays DEF Proceeds
<1>5. ASSUME c.result = "group", pc' = "hooks", cursor' = <<c.group, 1>>, UNCHANGED obj, Continue
      PROVE  Stays
  <2>1. UNCHANGED <<scan, obj, cache>>
    BY <1>1, <1>5 DEF Continue
  <2>2. ASSUME CopyAgrees PROVE CopyAgrees'
    <3>1. SameStatus(obj, scan) /\ c = CurrentHookGroup(scan.groups, scan.hook)
      BY <1>2, <2>2 DEF SameStatus
    <3>2. c.group \in DOMAIN scan.groups /\ 1 \in DOMAIN scan.groups[c.group]
      BY <1>5, <3>1, FirstHookOfGroup
    <3>3. \A h \in HookNames : scan.hook[h] \in Lifecycle!HookStep[scan.hook[h]]
      BY <1>1, HookSteps DEF Scan
    <3>4. RunsHooks(scan, obj)
      <4> HIDE DEF c
      <4>1. scan.state = "HookProcessing" /\ obj.state = "HookProcessing" /\ obj.hook = scan.hook
            /\ obj.groups = scan.groups /\ obj.finished = scan.finished
        BY <1>1, <3>1 DEF SameStatus
      <4> QED
        BY <1>5, <3>1, <3>3, <4>1 DEF RunsHooks
    <3>5. HooksAdvance'
      BY <1>5, <2>1, <3>1, <3>2, <3>4 DEF HooksAdvance, SameStatus, RunsHooks
    <3> QED
      BY <1>5, <3>5 DEF CopyAgrees
  <2> QED
    BY <1>1, <1>5, <2>1, <2>2, QuietStays
<1>6. CASE c.result = "error"
  <2>1. Write([obj EXCEPT !.state = "Errored"], TRUE)
    BY <1>6 DEF executeHooks, Errored
  <2> HIDE DEF c
  <2> QED
    BY <1>4, <1>6, <2>1, Zenon
<1>7. CASE c.result = "none"
  <2>1. Write([obj EXCEPT !.state = "Done"], FALSE)
    BY <1>7 DEF executeHooks
  <2> HIDE DEF c
  <2> QED
    BY <1>4, <1>7, <2>1, Zenon
<1>8. CASE c.result = "group"
  <2>1. pc' = "hooks" /\ cursor' = <<c.group, 1>> /\ UNCHANGED obj /\ Continue
    BY <1>8 DEF executeHooks
  <2> QED
    BY <1>5, <1>8, <2>1
<1> QED
  BY <1>3, <1>6, <1>7, <1>8

LEMMA HooksAdvanceFurther ==
    ASSUME Typed, UNCHANGED scan, pc = "hooks", HooksAdvance,
           obj'.groups = obj.groups, obj'.finished = obj.finished,
           obj'.state \in {"HookProcessing", "Errored"},
           NEW st, st \in Lifecycle!HookStep[obj.hook[CurrentHook]],
           obj'.hook = [obj.hook EXCEPT ![CurrentHook] = st],
           \/ cursor[2] = Len(CurrentGroup) /\ pc' = "write"
           \/ /\ cursor[2] # Len(CurrentGroup) /\ pc' = "hooks"
              /\ cursor' = <<cursor[1], cursor[2] + 1>>
    PROVE  CopyAgrees'
<1> DEFINE g == CurrentHookGroup(scan.groups, scan.hook).group
           k == cursor[2]
           group == scan.groups[g]
<1>1. /\ RunsHooks(scan, obj) /\ cursor[1] = g /\ k \in DOMAIN group
      /\ \A n \in DOMAIN group : n >= k => obj.hook[group[n].name] = scan.hook[group[n].name]
  BY DEF HooksAdvance
<1>2. scan.groups \in Groupings /\ obj.hook \in [HookNames -> HookStates]
  BY DEF Typed, Inner, Outer, WorkTypeOK, Scan
<1>3. g \in DOMAIN scan.groups
  BY <1>1, FirstHookOfGroup DEF RunsHooks
<1>4. FullGroup(group) /\ NamesApart(scan.groups)
  BY <1>2, <1>3, GroupingsShape
<1>5. CurrentHook = group[k].name /\ CurrentGroup = group
  BY <1>1 DEF CurrentHook, CurrentGroup, RunsHooks
<1>6. CurrentHook \in HookNames /\ CurrentHook \in NamesAt(scan.groups, g)
  BY <1>1, <1>4, <1>5 DEF FullGroup, Hook, NamesAt
<1>7. obj'.hook[CurrentHook] = st /\ \A h \in HookNames \ {CurrentHook} : obj'.hook[h] = obj.hook[h]
  BY <1>2, <1>6
<1>8. k \in Nat /\ obj.hook[CurrentHook] = scan.hook[CurrentHook]
  <2> HIDE DEF k, group, g
  <2>1. k \in Nat
    BY <1>1, <1>4 DEF FullGroup
  <2>2. k >= k
    BY <2>1
  <2>3. obj.hook[group[k].name] = scan.hook[group[k].name]
    BY <2>2, <1>1
  <2> QED
    BY <2>1, <2>3, <1>5
<1>9. RunsHooks(scan, obj')
  <2>1. \A h \in HookNames :
          obj'.hook[h] \in IF h \in NamesAt(scan.groups, g)
                           THEN Lifecycle!HookStep[scan.hook[h]] ELSE {scan.hook[h]}
    <3> TAKE h \in HookNames
    <3>1. CASE h = CurrentHook
      BY <3>1, <1>6, <1>7, <1>8
    <3>2. CASE h # CurrentHook
      <4>1. obj.hook[h] \in IF h \in NamesAt(scan.groups, g)
                           THEN Lifecycle!HookStep[scan.hook[h]] ELSE {scan.hook[h]}
        BY <1>1 DEF RunsHooks
      <4> QED
        BY <3>2, <4>1, <1>7
    <3> QED
      BY <3>1, <3>2
  <2> QED
    BY <1>1, <2>1 DEF RunsHooks
<1>10. CASE pc' = "write"
  BY <1>9, <1>10 DEF CopyAgrees, Proceeds, RunsHooks
<1>11. CASE k # Len(group) /\ pc' = "hooks" /\ cursor' = <<cursor[1], k + 1>>
  <2>1. k + 1 \in DOMAIN group
    <3> HIDE DEF k, group, g
    <3> QED
      BY <1>1, <1>4, <1>11 DEF FullGroup
  <2>2. \A n \in DOMAIN group : n >= k + 1
           => obj'.hook[group[n].name] = scan.hook[group[n].name]
    <3> SUFFICES ASSUME NEW n \in DOMAIN group, n >= k + 1
                 PROVE  obj'.hook[group[n].name] = scan.hook[group[n].name]
      OBVIOUS
    <3>1. n >= k /\ n # k
      BY <1>4, <1>8 DEF FullGroup
    <3>2. group[n].name \in HookNames
      BY <1>4 DEF FullGroup, Hook
    <3>3. group[n].name # group[k].name
      <4>1. group = scan.groups[g]
        OBVIOUS
      <4>2. k \in DOMAIN group
        BY <1>1
      <4> HIDE DEF k, group, g
      <4>3. \A m, p \in DOMAIN scan.groups[g] :
              scan.groups[g][m].name = scan.groups[g][p].name => m = p
        BY <1>3, <1>4 DEF NamesApart
      <4> QED
        BY <3>1, <4>1, <4>2, <4>3
    <3> HIDE DEF k, group, g
    <3>4. obj.hook[group[n].name] = scan.hook[group[n].name]
      BY <1>1, <3>1
    <3> QED
      BY <1>5, <1>7, <3>2, <3>3, <3>4
  <2>3. HooksAdvance'
    <3>1. cursor'[1] = g /\ cursor'[2] = k + 1 /\ UNCHANGED <<scan.groups, scan.hook>>
      BY <1>1, <1>11
    <3>2. RunsHooks(scan, obj)'
      BY <1>9 DEF RunsHooks
    <3>3. /\ cursor'[1] = CurrentHookGroup(scan'.groups, scan'.hook).group
          /\ cursor'[2] \in DOMAIN scan'.groups[cursor'[1]]
      BY <2>1, <3>1
    <3>4. \A n \in DOMAIN scan'.groups[cursor'[1]] : n >= cursor'[2] =>
             obj'.hook[scan'.groups[cursor'[1]][n].name]
               = scan'.hook[scan'.groups[cursor'[1]][n].name]
      <4>1. scan'.groups[cursor'[1]] = group /\ scan'.hook = scan.hook
        BY <3>1
      <4> HIDE DEF k, group, g
      <4> QED
        BY <2>2, <3>1, <4>1
    <3> HIDE DEF k, group, g
    <3> QED
      BY <3>2, <3>3, <3>4 DEF HooksAdvance
  <2> HIDE DEF k, group, g
  <2> QED
    BY <1>11, <2>3 DEF CopyAgrees
<1> QED
  BY <1>5, <1>10, <1>11

LEMMA CurrentHookState ==
    ASSUME Typed, HooksAdvance
    PROVE  CurrentHook \in HookNames /\ obj.hook[CurrentHook] \in HookStates
<1> DEFINE g == CurrentHookGroup(scan.groups, scan.hook).group
<1>1. RunsHooks(scan, obj) /\ cursor[1] = g /\ cursor[2] \in DOMAIN scan.groups[g]
  BY DEF HooksAdvance
<1>2. scan.groups \in Groupings /\ obj.hook \in [HookNames -> HookStates]
  BY DEF Typed, Inner, Outer, WorkTypeOK, Scan
<1>3. g \in DOMAIN scan.groups
  BY <1>1, FirstHookOfGroup DEF RunsHooks
<1>4. FullGroup(scan.groups[g])
  BY <1>2, <1>3, GroupingsShape
<1>5. CurrentHook = scan.groups[g][cursor[2]].name
  BY <1>1 DEF CurrentHook, CurrentGroup, RunsHooks
<1> QED
  BY <1>1, <1>2, <1>4, <1>5 DEF FullGroup, Hook

LEMMA HookDoneStays ==
    ASSUME Typed, IInv, LInv, UNCHANGED scan, pc = "hooks",
           NEW o, NEW error, HookDone(o, error),
           \/ o = obj
           \/ \E st \in Lifecycle!HookStep[obj.hook[CurrentHook]] :
                 o = [obj EXCEPT !.hook[CurrentHook] = st]
    PROVE  Stays
<1>1. obj \in Scan /\ obj.hook \in [HookNames -> HookStates]
  BY DEF Typed, Inner, WorkTypeOK, Scan
<1>2. UNCHANGED <<scan, cache>>
  BY DEF HookDone
<1>3. \/ cursor[2] = Len(CurrentGroup) /\ pc' = "write"
      \/ /\ cursor[2] # Len(CurrentGroup) /\ pc' = "hooks"
         /\ cursor' = <<cursor[1], cursor[2] + 1>>
  BY DEF HookDone
<1>4. PICK H : /\ o = [obj EXCEPT !.hook = H]
               /\ \/ H = obj.hook
                  \/ \E st \in Lifecycle!HookStep[obj.hook[CurrentHook]] :
                        H = [obj.hook EXCEPT ![CurrentHook] = st]
  <2>1. obj = [obj EXCEPT !.hook = obj.hook]
    BY <1>1 DEF Scan
  <2> QED
    BY <2>1
<1>5. /\ o.rv = obj.rv /\ o.state = obj.state /\ o.groups = obj.groups
      /\ o.finished = obj.finished /\ o.hook = H
      /\ LET e == Errored(o)
         IN  /\ e.rv = obj.rv /\ e.state = "Errored" /\ e.groups = obj.groups
             /\ e.finished = obj.finished /\ e.hook = H
  BY <1>1, <1>4 DEF Errored, Scan
<1>6. /\ obj'.rv = obj.rv /\ obj'.groups = obj.groups /\ obj'.finished = obj.finished
      /\ obj'.hook = H /\ obj'.state \in {obj.state, "Errored"}
  BY <1>5 DEF HookDone
<1>7. ASSUME CopyAgrees PROVE CopyAgrees'
  <2>1. HooksAdvance /\ obj.state \in {"HookProcessing", "Errored"}
    BY <1>7 DEF CopyAgrees, HooksAdvance, RunsHooks
  <2>2. CurrentHook \in HookNames /\ obj.hook[CurrentHook] \in HookStates
    BY <2>1, CurrentHookState
  <2>3. PICK st \in Lifecycle!HookStep[obj.hook[CurrentHook]] :
           H = [obj.hook EXCEPT ![CurrentHook] = st]
    <3>1. obj.hook = [obj.hook EXCEPT ![CurrentHook] = obj.hook[CurrentHook]]
      BY <1>1, <2>2
    <3> QED
      BY <1>4, <2>2, <3>1, HookSteps
  <2> QED
    BY <1>2, <1>3, <1>6, <2>1, <2>3, HooksAdvanceFurther
<1> QED
  BY <1>2, <1>3, <1>6, <1>7, QuietStays

LEMMA HooksStay ==
    ASSUME Typed, IInv, LInv, processPendingHook \/ processInProgressHook \/ processSettledHook
    PROVE  Stays
<1>1. pc = "hooks" /\ UNCHANGED scan
  BY DEF processPendingHook, createJobForHook, processInProgressHook, processSettledHook
<1>2. CASE HookError \/ HookDone(obj, FALSE)
  BY <1>1, <1>2, HookDoneStays DEF HookError
<1>3. ASSUME NEW st \in Lifecycle!HookStep[obj.hook[CurrentHook]], HookBecomes(st)
      PROVE  Stays
  BY <1>1, <1>3, HookDoneStays DEF HookBecomes
<1>4. CASE processPendingHook
  BY <1>2, <1>3, <1>4, HookSteps DEF processPendingHook, createJobForHook
<1>5. CASE processInProgressHook
  <2>1. PICK status \in {"completed", "failed", "incomplete"} : HookBecomes(AfterJob[status])
    BY <1>5, StatusTyped DEF processInProgressHook
  <2>2. AfterJob[status] \in {"InProgress", "Completed", "Failed"}
    BY DEF AfterJob
  <2>3. AfterJob[status] \in Lifecycle!HookStep[obj.hook[CurrentHook]]
    BY <1>5, <2>2, HookSteps DEF processInProgressHook
  <2> QED
    BY <1>3, <2>1, <2>3
<1>6. CASE processSettledHook
  BY <1>2, <1>6 DEF processSettledHook
<1> QED
  BY <1>4, <1>5, <1>6

LEMMA DeleteStays == ASSUME Typed, IInv, LInv, deleteScan PROVE Stays
<1>1. pc' = "idle" /\ UNCHANGED cache
  BY ReturnsIdle DEF deleteScan
<1>2. StatusKept
  BY DeletedKeepsStatus, NothingKept DEF deleteScan, Typed
<1> QED
  BY <1>1, <1>2, IdleStays

LEMMA PresignStays == ASSUME Typed, IInv, LInv, PresignFails PROVE Stays
BY ReturnsIdle, IdleStays, NothingKept DEF PresignFails

LEMMA OperatorStays == ASSUME Typed, IInv, LInv, Operator PROVE Stays
BY ReconcileStays, CleanupStays, ReleaseStays, StatusWriteStays, StartStays,
   AddFinalizerStays, CreateScannerStays, PresignStays, CheckStays, CreateParserStays,
   SetHookStatusStays, ExecuteHooksStays, HooksStay, DeleteStays
   DEF Operator

-----------------------------------------------------------------------------
(***************************************************************************)
(* Everybody else leaves the status alone, or fills the cache anew.         *)
(***************************************************************************)
LEMMA DeliveryStays == ASSUME Typed, IInv, LInv, Delivery PROVE Stays
<1>1. cache' \in {cache, scan} /\ UNCHANGED <<scan, pc, obj, cursor>>
  BY DEF Delivery, DeliverScan, DeliverJobs, TimerExpires, Enqueue, Clock, SyncScan,
     SyncJobs, TimerFires, Resync, TTLElapses, Outside, workVars
<1>2. CASE cache' = cache
  BY <1>1, <1>2, NothingKept, OutsideStays
<1>3. CASE cache' = scan
  <2>1. LInv'
    BY <1>1, <1>3 DEF LInv, SameStatus, CopyAgrees, HooksAdvance, RunsHooks, Proceeds,
       Advances, Breaks, SelectsHooks, FinishesHooks
  <2> QED
    BY <1>1, <2>1, NothingKept, KeptIsLifecycle DEF Stays
<1> QED
  BY <1>1, <1>2, <1>3

LEMMA CrashStays == ASSUME Typed, IInv, LInv, Crash PROVE Stays
<1>1. pc' = "idle" /\ cache' = scan /\ UNCHANGED scan
  BY DEF Crash
<1>2. LInv'
  BY <1>1 DEF LInv, SameStatus
<1> QED
  BY <1>1, <1>2, NothingKept, KeptIsLifecycle DEF Stays

LEMMA PodStays == ASSUME Typed, IInv, LInv, NEW j \in Slots, Pod(j) PROVE Stays
<1>1. UNCHANGED <<cache, pc, obj, cursor>>
  BY DEF Pod, PodStep, Outside, workVars
<1>2. UNCHANGED scan \/ PatchFindings(j[1])
  BY DEF Pod, PodStep, LurkerUploads, ParserPatchesStatus, ParserUploads, HookUploadsRaw,
     HookUploads, HookPatchesStatus, JobSucceeds, JobFails
<1>3. StatusKept
  BY <1>2, NothingKept, PatchKeepsStatus DEF Typed
<1> QED
  BY <1>1, <1>3, OutsideStays

LEMMA JobControllerStays ==
    ASSUME Typed, IInv, LInv, NEW j \in Slots, JobController(j)
    PROVE  Stays
<1>1. UNCHANGED <<scan, cache, pc, obj, cursor>>
  BY DEF JobController, JobControllerStep, JobExpires, JobDeleted, Outside, workVars
<1> QED
  BY <1>1, NothingKept, OutsideStays

LEMMA RetryStays == ASSUME Typed, IInv, LInv, NEW j \in Slots, Retry(j) PROVE Stays
<1>1. UNCHANGED <<scan, cache, pc, obj, cursor>>
  BY DEF Retry, PodRestarts, workVars
<1> QED
  BY <1>1, NothingKept, OutsideStays

LEMMA UserStays == ASSUME Typed, IInv, LInv, User PROVE Stays
<1>1. UNCHANGED <<cache, pc, obj, cursor>>
  BY DEF User, UserLabels, UserSuspends, UserDeletes, Edit, Outside, workVars
<1>2. \/ scan' = [scan EXCEPT !.rv = @ + 1]
      \/ scan' = [scan EXCEPT !.suspend = ~@, !.rv = @ + 1]
      \/ scan' = Deleted(scan)
  BY DEF User, UserLabels, UserSuspends, UserDeletes, Edit
<1>3. CASE scan' = [scan EXCEPT !.rv = @ + 1]
  BY <1>1, <1>3, OutsideStays DEF StatusKept, SameStatus, Typed, Outer, Scan
<1>4. CASE scan' = [scan EXCEPT !.suspend = ~@, !.rv = @ + 1]
  <2>1. /\ SameStatus(scan', scan) /\ scan'.exists = scan.exists /\ scan'.rv = scan.rv + 1
    BY <1>4 DEF SameStatus, Typed, Outer, Scan
  <2> QED
    BY <1>1, <2>1, OutsideStays DEF StatusKept
<1>5. CASE scan' = Deleted(scan)
  BY <1>1, <1>5, DeletedKeepsStatus, OutsideStays DEF Typed
<1> QED
  BY <1>2, <1>3, <1>4, <1>5

LEMMA NextStays == ASSUME Typed, IInv, LInv, [Next]_vars PROVE Stays
<1>1. CASE UNCHANGED vars
  BY <1>1, NothingKept, OutsideStays DEF vars, clusterVars, workVars
<1>2. CASE Next
  BY <1>2, OperatorStays, CrashStays, DeliveryStays, PodStays, JobControllerStays,
     RetryStays, UserStays DEF Next, Delivery
<1> QED
  BY <1>1, <1>2

LEMMA InitStays == ASSUME Init PROVE LInv /\ Lifecycle!Init
<1>1. /\ scan.state = "Init" /\ scan.exists /\ scan.groups = <<>> /\ ~scan.finished
      /\ scan.hook = [h \in HookNames |-> "Pending"] /\ scan.finished = FALSE
      /\ cache = scan /\ pc = "idle"
  BY DEF Init, ClusterInit
<1> QED
  BY <1>1 DEF LInv, SameStatus, Lifecycle!Init

-----------------------------------------------------------------------------
(* The operator implements the life cycle: whatever is stale, fails or      *)
(* restarts, the states of a Scan are passed in order, a finished Scan is   *)
(* never written to again, hooks are selected once and only those of the    *)
(* current group advance.                                                   *)
THEOREM LifecycleFollowed == Spec => FollowsLifecycle
<1>1. Init => LInv /\ Lifecycle!Init
  BY InitStays
<1>2. Typed /\ IInv /\ LInv /\ [Next]_vars => LInv' /\ [Lifecycle!Next]_(Lifecycle!vars)
  BY NextStays DEF Stays
<1> QED
  BY <1>1, <1>2, Inductive, PTL DEF Spec, FollowsLifecycle, Lifecycle!Spec
-----------------------------------------------------------------------------
(***************************************************************************)
(* The cursor of executeHooks.                                              *)
(***************************************************************************)

(* While the hooks of a group are worked on, the cursor is at one of them.  *)
CursorInGroup ==
    /\ cursor \in Nat \X Nat
    /\ pc = "hooks" => cursor[1] \in DOMAIN obj.groups /\ cursor[2] \in DOMAIN CurrentGroup

CursorRests == pc' # "hooks" /\ cursor' \in {cursor, <<0, 0>>}

LEMMA RestingCursor == ASSUME CursorInGroup, CursorRests PROVE CursorInGroup'
BY DEF CursorInGroup, CursorRests

LEMMA SetHookStatusRests == ASSUME setHookStatus PROVE CursorRests
<1>1. ASSUME NEW list \in HookLists,
             Write([obj EXCEPT !.groups = FromUnorderedList(list),
                               !.hook = [h \in HookNames |-> "Pending"],
                               !.state = "HookProcessing"], FALSE)
      PROVE  CursorRests
  BY <1>1 DEF Write, CursorRests
<1>2. CASE Fails
  BY <1>2 DEF Fails, Return, CursorRests
<1> QED
  BY <1>1, <1>2, Zenon DEF setHookStatus

LEMMA HandlersRestTheCursor ==
    ASSUME CursorInGroup,
           \/ cleanupS3Files \/ ReleaseFinalizer \/ updateScanStatus
           \/ startScan \/ AddFinalizer \/ CreateScanner \/ PresignFails
           \/ checkIfScanIsCompleted \/ startParser \/ CreateParser \/ checkIfParsingIsCompleted
           \/ setHookStatus \/ deleteScan \/ Crash
    PROVE  CursorRests
<1>1. CASE cleanupS3Files
  BY <1>1 DEF cleanupS3Files, CursorRests, Fails, Return, Goto
<1>2. CASE ReleaseFinalizer
  BY <1>2 DEF ReleaseFinalizer, CursorRests, ReturnError, Fails, Return, Goto
<1>3. CASE updateScanStatus
  BY <1>3 DEF updateScanStatus, CursorRests, Return
<1>4. CASE startScan \/ startParser
  BY <1>4 DEF startScan, startParser, CursorRests, ReturnNil, Return, Goto
<1>5. CASE AddFinalizer
  BY <1>5 DEF AddFinalizer, CursorRests, ReturnError, Fails, Return, Goto
<1>6. CASE CreateScanner \/ CreateParser
  BY <1>6 DEF CreateScanner, CreateParser, CreateAndRecord, Write, CursorRests, Fails, Return, Goto
<1>7. CASE PresignFails
  BY <1>7 DEF PresignFails, CursorRests, Fails, Return
<1>8. ASSUME NEW kind, NEW next, CheckJob(kind, next) PROVE CursorRests
  BY <1>8, StatusTyped DEF CheckJob, Write, CursorRests, ReturnNil, Return
<1>9. CASE setHookStatus
  BY <1>9, SetHookStatusRests
<1>10. CASE deleteScan
  BY <1>10 DEF deleteScan, CursorRests, ReturnNil, Fails, Return
<1>11. CASE Crash
  BY <1>11 DEF Crash, CursorRests
<1> QED
  BY <1>1, <1>2, <1>3, <1>4, <1>5, <1>6, <1>7, <1>8, <1>9, <1>10, <1>11
     DEF checkIfScanIsCompleted, checkIfParsingIsCompleted

LEMMA CursorEntersGroup ==
    ASSUME Typed, CursorInGroup, executeHooks
    PROVE  CursorInGroup'
<1> DEFINE current == CurrentHookGroup(obj.groups, obj.hook)
<1>1. /\ IsGrouping(obj.groups)
      /\ \A g \in DOMAIN obj.groups : FullGroup(obj.groups[g])
  BY GroupingsShape DEF Typed, Inner, WorkTypeOK, Scan
<1>2. /\ current.result \in {"none", "group", "error"}
      /\ current.result = "group" => current.group \in DOMAIN obj.groups
  BY <1>1, CurrentGroupIs
<1> HIDE DEF current
<1>3. CASE current.result # "group"
  <2>1. CursorRests
    BY <1>2, <1>3 DEF executeHooks, Write, CursorRests, current
  <2> QED
    BY <2>1, RestingCursor
<1>4. CASE current.result = "group"
  <2>1. cursor' = <<current.group, 1>> /\ obj' = obj
    BY <1>4 DEF executeHooks, current
  <2>2. current.group \in Nat /\ 1 \in DOMAIN obj.groups[current.group]
    BY <1>1, <1>2, <1>4 DEF IsGrouping, FullGroup
  <2> QED
    BY <1>2, <1>4, <2>1, <2>2 DEF CursorInGroup, CurrentGroup
<1> QED
  BY <1>3, <1>4

LEMMA CursorStepsOn ==
    ASSUME Typed, CursorInGroup, pc = "hooks", NEW o, NEW error, HookDone(o, error),
           o.groups = obj.groups, Errored(o).groups = obj.groups
    PROVE  CursorInGroup'
<1>1. CASE cursor[2] = Len(CurrentGroup)
  <2>1. pc' = "write" /\ cursor' = <<0, 0>>
    BY <1>1 DEF HookDone
  <2> QED
    BY <2>1, RestingCursor DEF CursorRests
<1>2. CASE cursor[2] # Len(CurrentGroup)
  <2>1. /\ FullGroup(CurrentGroup) /\ cursor[1] \in DOMAIN obj.groups
        /\ cursor[2] \in DOMAIN CurrentGroup
    BY GroupingsShape DEF CursorInGroup, CurrentGroup, Typed, Inner, WorkTypeOK, Scan
  <2>2. cursor[1] \in Nat /\ cursor[2] \in Nat /\ cursor[2] + 1 \in DOMAIN CurrentGroup
    BY <1>2, <2>1 DEF FullGroup, CursorInGroup
  <2>3. cursor' = <<cursor[1], cursor[2] + 1>> /\ obj'.groups = obj.groups
    BY <1>2 DEF HookDone
  <2> QED
    BY <2>1, <2>2, <2>3 DEF CursorInGroup, CurrentGroup
<1> QED
  BY <1>1, <1>2

LEMMA HooksStepOn ==
    ASSUME Typed, CursorInGroup,
           processPendingHook \/ processInProgressHook \/ processSettledHook
    PROVE  CursorInGroup'
<1>1. pc = "hooks" /\ obj \in Scan
  BY DEF processPendingHook, createJobForHook,
       processInProgressHook, processSettledHook, Typed, Inner, WorkTypeOK
<1>2. \A h, s : [obj EXCEPT !.hook[h] = s].groups = obj.groups
      /\ Errored([obj EXCEPT !.hook[h] = s]).groups = obj.groups
  BY <1>1 DEF Scan, Errored
<1>3. Errored(obj).groups = obj.groups
  BY <1>1 DEF Scan, Errored
<1>4. \/ \E s : HookBecomes(s)
      \/ HookError \/ HookDone(obj, FALSE)
  BY DEF processPendingHook, createJobForHook, processInProgressHook, processSettledHook
<1> QED
  BY <1>1, <1>2, <1>3, <1>4, CursorStepsOn DEF HookBecomes, HookError

LEMMA CursorKept ==
    ASSUME Typed, CursorInGroup, [Next]_vars
    PROVE  CursorInGroup'
<1>1. CASE UNCHANGED <<pc, obj, cursor>>
  BY <1>1 DEF CursorInGroup, CurrentGroup
<1>2. CASE Reconcile
  <2>1. CASE UNCHANGED workVars
    BY <1>1, <2>1 DEF workVars
  <2>2. CASE Goto(AfterGet(cache))
    BY <2>2, RestingCursor DEF Goto, AfterGet, CursorRests
  <2> QED
    BY <1>2, <2>1, <2>2 DEF Reconcile
<1>3. CASE Operator \/ Crash
  BY <1>2, <1>3, HandlersRestTheCursor, RestingCursor, CursorEntersGroup, HooksStepOn DEF Operator
<1>4. CASE UNCHANGED vars
  BY <1>1, <1>4 DEF vars, workVars
<1>5. CASE Next /\ ~ Operator /\ ~ Crash
  <2>1. UNCHANGED workVars
    BY <1>5 DEF Next, DeliverScan, DeliverJobs, TimerExpires, Enqueue, Clock, Pod, JobController,
       Retry, User, Outside
  <2> QED
    BY <1>1, <2>1 DEF workVars
<1> QED
  BY <1>3, <1>4, <1>5

(* The type invariant with the cursor, which is at a hook of the group      *)
(* while executeHooks is at work: no hook outside a group is ever read.     *)
THEOREM TypesKept == Spec => [](TypeOK /\ CursorInGroup)
<1>1. Init => CursorInGroup
  BY DEF Init, CursorInGroup
<1>2. Typed /\ CursorInGroup /\ [Next]_vars => CursorInGroup'
  BY CursorKept
<1>3. Typed /\ CursorInGroup => TypeOK /\ CursorInGroup
  BY DEF Typed, Inner, Outer, TypeOK, ClusterTypeOK, CursorInGroup
<1>4. Spec => []Typed
  BY InitTyped, NextTyped, PTL DEF Spec
<1> QED
  BY <1>1, <1>2, <1>3, <1>4, PTL DEF Spec
=============================================================================
