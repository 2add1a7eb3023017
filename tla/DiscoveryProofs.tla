--------------------------- MODULE DiscoveryProofs ---------------------------
(***************************************************************************)
(* Proofs that the service discovery starts no scan of a version twice,     *)
(* that all discoveries keep their types, and that the ScheduledScans of    *)
(* the others agree with what runs whenever nothing is left to do; for any  *)
(* workload, targets and bounds.                                            *)
(***************************************************************************)
EXTENDS AutoDiscovery, TLAPS

ServiceTyped ==
    /\ config \in Configs
    /\ step \in {"idle", "check", "get", "create", "update", "restart"}
    /\ at \in 1..Len(config.targets) + 1
    /\ step \in {"get", "create", "update", "restart"} => at <= Len(config.targets)
    /\ previousScan \in ServiceScan /\ version \in Versions
    /\ IsScanMap(serviceScans) /\ IsScanMap(serviceScanCache)
    /\ ran \in [ScanTypes -> Versions]

(***************************************************************************)
(* A copy of a target's ScheduledScan, in the cache or in a running         *)
(* Reconcile, is the ScheduledScan if its version is not older.             *)
(***************************************************************************)
CopyOf(copy, t) ==
    /\ copy.rv <= serviceScans[t].rv
    /\ copy.rv = serviceScans[t].rv => copy = serviceScans[t]

(* The List and the Get of a target read the same. *)
Steady == config.steady \/ config.fresh

Settled(t) == ~serviceScans[t].due => ran[t] = serviceScans[t].digest

(* Reconcile restarts a ScheduledScan because its version has changed; its  *)
(* copy is current, unless the operator has run the scan in between.        *)
Restarting ==
    IF previousScan.rv = serviceScans[target].rv
    THEN Steady /\ ~serviceScans[target].due => ran[target] # serviceScans[target].digest
    ELSE previousScan.rv < serviceScans[target].rv /\ Settled(target)

(* A ScheduledScan is due, or was scanned for the version on its label,     *)
(* except while Reconcile is about to restart it.                           *)
VersionInv ==
    /\ \A t \in DOMAIN serviceScanCache :
           t \in DOMAIN serviceScans /\ CopyOf(serviceScanCache[t], t)
    /\ \A t \in DOMAIN serviceScans : Settled(t) \/ (step = "restart" /\ t = target)
    /\ step = "get" /\ Steady => ~alreadyScanned
    /\ step = "update" => /\ target \in DOMAIN serviceScans
                          /\ CopyOf(previousScan, target)
                          /\ Steady => previousScan.digest # version
    /\ step = "restart" => target \in DOMAIN serviceScans /\ Restarting

ServiceInv == ServiceTyped /\ VersionInv

(* A step starts no scan of a version that was scanned.                     *)
NoneAgain ==
    \A t \in DOMAIN serviceScans : Steady /\ Restarts(t) => serviceScans[t].digest # ran[t]

-----------------------------------------------------------------------------
LEMMA TargetIsAType ==
    ASSUME ServiceTyped, at <= Len(config.targets)
    PROVE  target \in ScanTypes
<1>1. config.targets \in Seq(ScanTypes)
  BY WorkloadAssumption DEF ServiceTyped, Config
<1> QED
  BY <1>1 DEF ServiceTyped, target

LEMMA NoScanTyped == NoScan \in ServiceScan /\ NoScans = [t \in {} |-> {}] /\ NoDigest \in Versions
BY DEF NoScan, ServiceScan, NoScans, Versions

LEMMA ScanTyped ==
    ASSUME NEW f, IsScanMap(f), NEW t \in DOMAIN f
    PROVE  /\ t \in ScanTypes /\ f[t] \in ServiceScan
           /\ f[t].rv \in Nat /\ f[t].digest \in Versions /\ f[t].due \in BOOLEAN
BY DEF IsScanMap, ServiceScan

LEMMA NewVersion ==
    ASSUME NEW o \in ServiceScan, NEW v \in Versions
    PROVE  LET new == [o EXCEPT !.digest = v, !.rv = @ + 1]
           IN  /\ new \in ServiceScan /\ new.digest = v /\ new.due = o.due
               /\ new.rv = o.rv + 1 /\ o.rv \in Nat /\ new.rv \in Nat
<1>1. o.rv \in Nat /\ o.rv + 1 \in Nat
  BY DEF ServiceScan
<1> QED
  BY <1>1 DEF ServiceScan

LEMMA MadeDue ==
    ASSUME NEW o \in ServiceScan, NEW due \in BOOLEAN
    PROVE  LET new == [o EXCEPT !.due = due, !.rv = @ + 1]
           IN  /\ new \in ServiceScan /\ new.digest = o.digest /\ new.due = due
               /\ new.rv = o.rv + 1 /\ o.rv \in Nat /\ new.rv \in Nat
<1>1. o.rv \in Nat /\ o.rv + 1 \in Nat
  BY DEF ServiceScan
<1> QED
  BY <1>1 DEF ServiceScan

(* Storing a ScheduledScan changes that of the target alone.                *)
LEMMA StoredScan ==
    ASSUME ServiceTyped, NEW scan \in ServiceScan, Stored(scan), at <= Len(config.targets)
    PROVE  /\ DOMAIN serviceScans' = DOMAIN serviceScans \cup {target}
           /\ serviceScans'[target] = scan
           /\ \A t \in DOMAIN serviceScans : t # target => serviceScans'[t] = serviceScans[t]
           /\ IsScanMap(serviceScans')
BY TargetIsAType DEF Stored, ServiceTyped, IsScanMap

(* Steps that leave the service discovery alone.                            *)
LEMMA Elsewhere ==
    ASSUME ServiceInv, UNCHANGED <<config, serviceVars>>
    PROVE  ServiceInv' /\ NoneAgain
BY DEF ServiceInv, ServiceTyped, VersionInv, serviceVars, CopyOf, Settled, Restarting, target,
   IsScanMap, NoneAgain, Restarts, Steady, alreadyScanned, Scans

(* Steps of Reconcile that write nothing.                                   *)
LEMMA Undone ==
    ASSUME ServiceInv, Outside, UNCHANGED serviceScans, step # "restart",
           /\ step' \in {"idle", "check", "get", "create", "update"} /\ version' \in Versions
           /\ at' \in 1..Len(config.targets) + 1
           /\ step' \in {"get", "create", "update"} => at' <= Len(config.targets)
           /\ previousScan' \in ServiceScan,
           step' = "get" => step = "check" /\ ~alreadyScanned /\ UNCHANGED <<at, version>>,
           step' = "update" => /\ target' \in DOMAIN serviceScans
                               /\ CopyOf(previousScan', target')
                               /\ Steady => previousScan'.digest # version'
    PROVE  ServiceInv' /\ NoneAgain
<1>1. UNCHANGED <<config, serviceScans, serviceScanCache, ran>>
  BY DEF Outside, workload
<1>2. ServiceTyped'
  BY <1>1 DEF ServiceInv, ServiceTyped, IsScanMap
<1>3. step' = "get" => ~alreadyScanned'
  BY <1>1 DEF alreadyScanned, Scans, target
<1>4. VersionInv'
  BY <1>1, <1>3 DEF ServiceInv, VersionInv, CopyOf, Settled, Steady
<1> QED
  BY <1>1, <1>2, <1>4 DEF ServiceInv, NoneAgain, Restarts

LEMMA ReturnUndone ==
    ASSUME ServiceInv, Outside, UNCHANGED serviceScans, step # "restart",
           Return \/ (NextTarget /\ at <= Len(config.targets))
    PROVE  ServiceInv' /\ NoneAgain
<1>1. Len(config.targets) \in Nat
  BY WorkloadAssumption DEF ServiceInv, ServiceTyped, Config
<1>2. step' \in {"idle", "check"} /\ previousScan' = NoScan /\ version' \in {NoDigest, version}
  BY DEF Return, NextTarget
<1>3. version' \in Versions
  BY <1>2, NoScanTyped DEF ServiceInv, ServiceTyped
<1>4. at' \in 1..Len(config.targets) + 1
  BY <1>1 DEF Return, NextTarget, ServiceInv, ServiceTyped
<1> QED
  BY <1>2, <1>3, <1>4, NoScanTyped, Undone

-----------------------------------------------------------------------------
(***************************************************************************)
(* The steps of Reconcile.                                                  *)
(***************************************************************************)
LEMMA ReconcileServiceKeeps ==
    ASSUME ServiceInv, ReconcileService PROVE ServiceInv' /\ NoneAgain
<1>1. \A c \in Containers : config.image[c] \in Images
  BY WorkloadAssumption DEF ServiceInv, ServiceTyped, Config
<1>2. gatherPodDigests \subseteq Versions
  BY <1>1 DEF gatherPodDigests, Versions
<1>3. version' \in Versions
  BY <1>2, NoScanTyped DEF ReconcileService
<1>4. /\ Outside /\ UNCHANGED <<serviceScans, at, previousScan>>
      /\ step = "idle" /\ step' = "check"
  BY DEF ReconcileService
<1> QED
  BY <1>3, <1>4, Undone DEF ServiceInv, ServiceTyped

LEMMA CheckTargetKeeps ==
    ASSUME ServiceInv, CheckTarget PROVE ServiceInv' /\ NoneAgain
<1>1. Outside /\ UNCHANGED serviceScans /\ step = "check"
  BY DEF CheckTarget
<1>2. CASE Return \/ (at <= Len(config.targets) /\ NextTarget)
  BY <1>1, <1>2, ReturnUndone
<1>3. CASE /\ at <= Len(config.targets) /\ ~alreadyScanned
           /\ Goto("get") /\ UNCHANGED previousScan
  BY <1>1, <1>3, Undone DEF Goto, ServiceInv, ServiceTyped
<1> QED
  BY <1>2, <1>3 DEF CheckTarget

LEMMA GetPreviousScanKeeps ==
    ASSUME ServiceInv, GetPreviousScan PROVE ServiceInv' /\ NoneAgain
<1>1. Outside /\ UNCHANGED serviceScans /\ step = "get" /\ at <= Len(config.targets)
  BY DEF GetPreviousScan, ServiceInv, ServiceTyped
<1>2. CASE Return
  BY <1>1, <1>2, ReturnUndone
<1>3. CASE Goto("create") /\ UNCHANGED previousScan
  BY <1>1, <1>3, Undone DEF Goto, ServiceInv, ServiceTyped
<1>4. CASE target \in DOMAIN Scans /\ Goto("update") /\ previousScan' = Scans[target]
  <2>1. IsScanMap(Scans)
    BY DEF Scans, ServiceInv, ServiceTyped
  <2>2. previousScan' \in ServiceScan /\ previousScan'.rv \in Nat
    BY <1>4, <2>1, ScanTyped
  <2>3. target \in DOMAIN serviceScans /\ CopyOf(previousScan', target)
    <3>1. CASE Scans = serviceScans
      BY <1>4, <2>2, <3>1 DEF CopyOf
    <3>2. CASE Scans = serviceScanCache
      BY <1>4, <3>2 DEF ServiceInv, VersionInv
    <3> QED
      BY <3>1, <3>2 DEF Scans
  <2>4. Steady => previousScan'.digest # version
    BY <1>1, <1>4 DEF alreadyScanned, ServiceInv, VersionInv
  <2>5. target' = target /\ version' = version /\ at' = at /\ step' = "update"
    BY <1>1, <1>4 DEF Goto, target, Outside, workload
  <2> QED
    BY <1>1, <1>4, <2>2, <2>3, <2>4, <2>5, Undone DEF ServiceInv, ServiceTyped
<1> QED
  BY <1>2, <1>3, <1>4 DEF GetPreviousScan

LEMMA CreateServiceScanKeeps ==
    ASSUME ServiceInv, CreateServiceScan PROVE ServiceInv' /\ NoneAgain
<1>1. Outside /\ NextTarget /\ step = "create" /\ at <= Len(config.targets)
  BY DEF CreateServiceScan, ServiceInv, ServiceTyped
<1>2. CASE UNCHANGED serviceScans
  BY <1>1, <1>2, ReturnUndone
<1>3. CASE target \notin DOMAIN serviceScans
           /\ Stored([rv |-> 1, digest |-> version, due |-> TRUE])
  <2> DEFINE new == [rv |-> 1, digest |-> version, due |-> TRUE]
  <2>1. new \in ServiceScan /\ new.due
    BY DEF ServiceScan, ServiceInv, ServiceTyped
  <2>2. /\ DOMAIN serviceScans' = DOMAIN serviceScans \cup {target}
        /\ serviceScans'[target].due
        /\ \A t \in DOMAIN serviceScans : serviceScans'[t] = serviceScans[t]
        /\ IsScanMap(serviceScans')
    <3> HIDE DEF new
    <3>1. Stored(new)
      BY <1>3 DEF new
    <3> QED
      BY <1>1, <1>3, <2>1, <3>1, StoredScan DEF ServiceInv
  <2>3. UNCHANGED <<config, serviceScanCache, ran>>
    BY <1>1 DEF Outside, workload
  <2>4. step' = "check" /\ previousScan' = NoScan /\ version' = version /\ at' = at + 1
    BY <1>1 DEF NextTarget
  <2>5. at' \in 1..Len(config.targets) + 1
    BY <1>1, <2>4, WorkloadAssumption DEF ServiceInv, ServiceTyped, Config
  <2>6. ServiceTyped'
    BY <2>2, <2>3, <2>4, <2>5, NoScanTyped DEF ServiceInv, ServiceTyped, IsScanMap
  <2>7. VersionInv'
    BY <1>1, <2>2, <2>3, <2>4 DEF ServiceInv, VersionInv, CopyOf, Settled
  <2>8. NoneAgain
    BY <2>2 DEF NoneAgain, Restarts
  <2> QED
    BY <2>6, <2>7, <2>8 DEF ServiceInv
<1> QED
  BY <1>2, <1>3 DEF CreateServiceScan

LEMMA UpdateServiceScanKeeps ==
    ASSUME ServiceInv, UpdateServiceScan PROVE ServiceInv' /\ NoneAgain
<1>1. Outside /\ step = "update" /\ at <= Len(config.targets)
  BY DEF UpdateServiceScan, ServiceInv, ServiceTyped
<1>2. CASE Return /\ UNCHANGED serviceScans
  BY <1>1, <1>2, ReturnUndone
<1> DEFINE old == serviceScans[target]
           new == Relabelled(old)
<1>3. CASE ~Conflict /\ Stored(new) /\ previousScan' = new /\ Goto("restart")
  <2>1. /\ target \in DOMAIN serviceScans /\ previousScan.rv = old.rv
        /\ old = previousScan /\ (Steady => old.digest # version)
    BY <1>1, <1>3 DEF Conflict, ServiceInv, VersionInv, CopyOf
  <2>2. old \in ServiceScan /\ old.rv \in Nat
    BY <2>1, ScanTyped DEF ServiceInv, ServiceTyped
  <2>3. /\ new \in ServiceScan /\ new.digest = version /\ new.due = old.due
        /\ new = old \/ new.rv = old.rv + 1
    <3> HIDE DEF old
    <3> QED
      BY <2>2, NewVersion DEF ServiceInv, ServiceTyped, Relabelled
  <2>4. Settled(target)
    BY <1>1, <2>1 DEF ServiceInv, VersionInv
  <2>5. /\ DOMAIN serviceScans' = DOMAIN serviceScans
        /\ serviceScans'[target] = new
        /\ \A t \in DOMAIN serviceScans : t # target => serviceScans'[t] = serviceScans[t]
        /\ IsScanMap(serviceScans')
    <3> HIDE DEF new
    <3> QED
      BY <1>1, <1>3, <2>1, <2>3, StoredScan DEF ServiceInv
  <2>6. UNCHANGED <<config, serviceScanCache, ran, at, version>> /\ step' = "restart" /\ target' = target
    BY <1>1, <1>3 DEF Outside, workload, Goto, target
  <2>7. previousScan' = new
    BY <1>3
  <2> HIDE DEF new
  <2>8. ServiceTyped'
    BY <1>1, <2>3, <2>5, <2>6, <2>7 DEF ServiceInv, ServiceTyped, IsScanMap
  <2>9. VersionInv'
    <3>1. \A t \in DOMAIN serviceScanCache : t \in DOMAIN serviceScans' /\ CopyOf(serviceScanCache[t], t)'
      <4> SUFFICES ASSUME NEW t \in DOMAIN serviceScanCache
                   PROVE  t \in DOMAIN serviceScans' /\ CopyOf(serviceScanCache[t], t)'
        OBVIOUS
      <4>1. t \in DOMAIN serviceScans /\ CopyOf(serviceScanCache[t], t)
            /\ serviceScanCache[t].rv \in Nat
        BY ScanTyped DEF ServiceInv, VersionInv, ServiceTyped
      <4>2. CASE t = target
        BY <4>1, <4>2, <2>2, <2>3, <2>5, <2>6 DEF CopyOf
      <4>3. CASE t # target
        BY <4>1, <4>3, <2>5, <2>6 DEF CopyOf
      <4> QED
        BY <4>2, <4>3
    <3>2. Restarting'
      BY <2>1, <2>3, <2>4, <2>5, <2>6, <2>7 DEF Restarting, Settled, Steady
    <3>3. \A t \in DOMAIN serviceScans' : Settled(t)' \/ (step' = "restart" /\ t = target')
      BY <1>1, <2>5, <2>6 DEF ServiceInv, VersionInv, Settled
    <3> QED
      BY <2>1, <2>5, <2>6, <3>1, <3>2, <3>3 DEF VersionInv
  <2>10. NoneAgain
    BY <2>3, <2>5 DEF NoneAgain, Restarts
  <2> QED
    BY <2>8, <2>9, <2>10 DEF ServiceInv
<1> QED
  BY <1>2, <1>3 DEF UpdateServiceScan

LEMMA RestartKeeps ==
    ASSUME ServiceInv, restartScheduledScan PROVE ServiceInv' /\ NoneAgain
<1>1. Outside /\ step = "restart" /\ at <= Len(config.targets) /\ target \in DOMAIN serviceScans
      /\ UNCHANGED <<config, serviceScanCache, ran>> /\ Restarting
  BY DEF restartScheduledScan, ServiceInv, ServiceTyped, VersionInv, Outside, workload
<1>2. \A t \in DOMAIN serviceScans : t # target => Settled(t)
  BY <1>1 DEF ServiceInv, VersionInv
<1>3. step' \in {"idle", "check"} /\ previousScan' = NoScan /\ version' \in {NoDigest, version}
  BY DEF restartScheduledScan, Return, NextTarget
<1>4. at' \in 1..Len(config.targets) + 1 /\ version' \in Versions
  BY <1>1, <1>3, NoScanTyped, WorkloadAssumption
     DEF restartScheduledScan, Return, NextTarget, ServiceInv, ServiceTyped, Config
<1>5. CASE Conflict /\ UNCHANGED serviceScans
  <2>1. Settled(target)
    BY <1>1, <1>5 DEF Restarting, Conflict
  <2>2. ServiceTyped'
    BY <1>1, <1>3, <1>4, <1>5, NoScanTyped DEF ServiceInv, ServiceTyped, IsScanMap
  <2>3. VersionInv'
    BY <1>1, <1>2, <1>3, <1>5, <2>1 DEF ServiceInv, VersionInv, CopyOf, Settled
  <2> QED
    BY <1>5, <2>2, <2>3 DEF ServiceInv, NoneAgain, Restarts
<1> DEFINE new == [serviceScans[target] EXCEPT !.due = TRUE, !.rv = @ + 1]
<1>6. CASE ~Conflict /\ Stored(new)
  <2>1. serviceScans[target] \in ServiceScan
    BY <1>1, ScanTyped DEF ServiceInv, ServiceTyped
  <2>2. new \in ServiceScan /\ new.due /\ new.rv = serviceScans[target].rv + 1
        /\ serviceScans[target].rv \in Nat
    BY <2>1, MadeDue
  <2> HIDE DEF new
  <2>3. /\ DOMAIN serviceScans' = DOMAIN serviceScans
        /\ serviceScans'[target] = new
        /\ \A t \in DOMAIN serviceScans : t # target => serviceScans'[t] = serviceScans[t]
        /\ IsScanMap(serviceScans')
    BY <1>1, <1>6, <2>2, StoredScan DEF ServiceInv
  <2>4. ServiceTyped'
    BY <1>1, <1>3, <1>4, <2>3, NoScanTyped DEF ServiceInv, ServiceTyped, IsScanMap
  <2>5. \A t \in DOMAIN serviceScanCache : t \in DOMAIN serviceScans' /\ CopyOf(serviceScanCache[t], t)'
    <3> SUFFICES ASSUME NEW t \in DOMAIN serviceScanCache
                 PROVE  t \in DOMAIN serviceScans' /\ CopyOf(serviceScanCache[t], t)'
      OBVIOUS
    <3>1. t \in DOMAIN serviceScans /\ CopyOf(serviceScanCache[t], t)
          /\ serviceScanCache[t].rv \in Nat
      BY ScanTyped DEF ServiceInv, VersionInv, ServiceTyped
    <3>2. CASE t = target
      BY <1>1, <3>1, <3>2, <2>2, <2>3 DEF CopyOf
    <3>3. CASE t # target
      BY <1>1, <3>1, <3>3, <2>3 DEF CopyOf
    <3> QED
      BY <3>2, <3>3
  <2>6. \A t \in DOMAIN serviceScans' : Settled(t)'
    BY <1>1, <1>2, <2>2, <2>3 DEF Settled
  <2>7. VersionInv'
    BY <1>1, <1>3, <2>5, <2>6 DEF VersionInv
  <2>8. NoneAgain
    BY <1>1, <1>6, <2>3 DEF NoneAgain, Restarts, Restarting, Conflict
  <2> QED
    BY <2>4, <2>7, <2>8 DEF ServiceInv
<1> QED
  BY <1>5, <1>6 DEF restartScheduledScan

-----------------------------------------------------------------------------
(***************************************************************************)
(* The steps beside it.                                                     *)
(***************************************************************************)
LEMMA SyncServiceScansKeeps ==
    ASSUME ServiceInv, SyncServiceScans PROVE ServiceInv' /\ NoneAgain
<1>1. /\ serviceScanCache' = serviceScans /\ (config.steady => step # "get")
      /\ UNCHANGED <<config, step, at, version, previousScan, serviceScans, ran>>
  BY DEF SyncServiceScans, workload
<1>2. ServiceTyped'
  BY <1>1 DEF ServiceInv, ServiceTyped, IsScanMap
<1>3. \A t \in DOMAIN serviceScans : serviceScans[t].rv <= serviceScans[t].rv
  BY ScanTyped DEF ServiceInv, ServiceTyped
<1>4. VersionInv'
  BY <1>1, <1>3 DEF ServiceInv, VersionInv, CopyOf, Settled, Restarting, target, Steady,
     alreadyScanned, Scans
<1> QED
  BY <1>1, <1>2, <1>4 DEF ServiceInv, NoneAgain, Restarts

(* The operator or a user writes one ScheduledScan.                         *)
LEMMA WriteKeeps ==
    ASSUME ServiceInv, NEW t \in DOMAIN serviceScans, NEW due \in BOOLEAN,
           due => serviceScans[t].due,
           UNCHANGED <<config, step, at, version, previousScan, serviceScanCache>>,
           DOMAIN serviceScans' = DOMAIN serviceScans,
           serviceScans'[t] = [serviceScans[t] EXCEPT !.due = due, !.rv = @ + 1],
           \A u \in DOMAIN serviceScans : u # t => serviceScans'[u] = serviceScans[u],
           ran' \in [ScanTypes -> Versions],
           \A u \in ScanTypes : u # t => ran'[u] = ran[u],
           \/ due = serviceScans[t].due /\ UNCHANGED ran /\ step # "restart"
           \/ ran'[t] = serviceScans[t].digest
    PROVE  ServiceInv' /\ NoneAgain
<1> DEFINE new == [serviceScans[t] EXCEPT !.due = due, !.rv = @ + 1]
<1>1. t \in ScanTypes /\ serviceScans[t] \in ServiceScan
  BY ScanTyped DEF ServiceInv, ServiceTyped
<1>2. /\ new \in ServiceScan /\ new.due = due /\ new.digest = serviceScans[t].digest
      /\ new.rv = serviceScans[t].rv + 1 /\ serviceScans[t].rv \in Nat
  <2>1. serviceScans[t].rv \in Nat /\ serviceScans[t].rv + 1 \in Nat
    BY <1>1 DEF ServiceScan
  <2> QED
    BY <1>1, <2>1 DEF ServiceScan
<1>3. /\ DOMAIN serviceScans' = DOMAIN serviceScans
      /\ serviceScans'[t] = new
      /\ \A u \in DOMAIN serviceScans : u # t => serviceScans'[u] = serviceScans[u]
  OBVIOUS
<1> HIDE DEF new
<1>4. IsScanMap(serviceScans')
  BY <1>2, <1>3 DEF IsScanMap, ServiceInv, ServiceTyped
<1>5. ServiceTyped'
  BY <1>4 DEF ServiceInv, ServiceTyped, IsScanMap
<1>6. \A copy \in ServiceScan, u \in DOMAIN serviceScans : CopyOf(copy, u) => CopyOf(copy, u)'
  <2> SUFFICES ASSUME NEW copy \in ServiceScan, NEW u \in DOMAIN serviceScans, CopyOf(copy, u)
               PROVE  /\ copy.rv <= serviceScans'[u].rv
                      /\ copy.rv = serviceScans'[u].rv => copy = serviceScans'[u]
    BY DEF CopyOf
  <2>1. CASE u = t
    <3>1. copy.rv \in Nat /\ copy.rv <= serviceScans[t].rv
      BY <2>1 DEF CopyOf, ServiceScan
    <3>2. serviceScans'[u].rv = serviceScans[t].rv + 1
      BY <1>2, <1>3, <2>1
    <3> QED
      BY <1>2, <3>1, <3>2
  <2>2. CASE u # t
    BY <1>3, <2>2 DEF CopyOf
  <2> QED
    BY <2>1, <2>2
<1>7. \A u \in DOMAIN serviceScans : Settled(u) => Settled(u)'
  BY <1>1, <1>2, <1>3, ScanTyped DEF Settled, ServiceInv, ServiceTyped
<1>8. target' = target
  BY DEF target
<1>9. step = "restart" => Restarting'
  <2> SUFFICES ASSUME step = "restart" PROVE Restarting'
    OBVIOUS
  <2>1. target \in DOMAIN serviceScans /\ Restarting
        /\ previousScan.rv \in Nat /\ target \in ScanTypes
    BY ScanTyped DEF ServiceInv, VersionInv, ServiceTyped, ServiceScan
  <2>2. CASE t = target
    <3>1. ran'[t] = serviceScans[t].digest /\ Settled(t)'
      BY <1>2, <1>3 DEF Settled
    <3>2. previousScan.rv <= serviceScans[t].rv
      BY <1>2, <2>1, <2>2 DEF Restarting
    <3>3. previousScan.rv < serviceScans'[t].rv /\ previousScan.rv # serviceScans'[t].rv
      BY <1>2, <1>3, <2>1, <3>2
    <3>4. target' = t /\ previousScan' = previousScan
      BY <1>8, <2>2
    <3> QED
      BY <3>1, <3>3, <3>4 DEF Restarting, Settled
  <2>3. CASE t # target
    BY <1>3, <1>7, <1>8, <2>1, <2>3 DEF Restarting, Settled, Steady
  <2> QED
    BY <2>2, <2>3
<1>10. VersionInv'
  <2>1. \A u \in DOMAIN serviceScanCache : serviceScanCache[u] \in ServiceScan
    BY ScanTyped DEF ServiceInv, ServiceTyped
  <2>2. \A u \in DOMAIN serviceScanCache :
          u \in DOMAIN serviceScans' /\ CopyOf(serviceScanCache[u], u)'
    <3>1. \A u \in DOMAIN serviceScanCache : u \in DOMAIN serviceScans /\ CopyOf(serviceScanCache[u], u)
      BY DEF ServiceInv, VersionInv
    <3> QED
      BY <1>3, <1>6, <2>1, <3>1 DEF CopyOf
  <2>3. \A u \in DOMAIN serviceScans' : Settled(u)' \/ (step' = "restart" /\ u = target')
    BY <1>3, <1>7, <1>8 DEF ServiceInv, VersionInv
  <2>4. step' = "update" => /\ target' \in DOMAIN serviceScans'
                            /\ CopyOf(previousScan, target)'
                            /\ Steady' => previousScan'.digest # version'
    BY <1>3, <1>6, <1>8 DEF ServiceInv, VersionInv, ServiceTyped, CopyOf, Steady
  <2>5. step' = "restart" => target' \in DOMAIN serviceScans' /\ Restarting'
    BY <1>3, <1>8, <1>9 DEF ServiceInv, VersionInv
  <2>6. step' = "get" /\ Steady' => ~alreadyScanned'
    <3> SUFFICES ASSUME step = "get", Steady PROVE ~alreadyScanned'
      BY DEF Steady
    <3>1. ~alreadyScanned
      BY DEF ServiceInv, VersionInv
    <3>2. DOMAIN Scans' = DOMAIN Scans
      BY DEF Scans
    <3>3. \A u \in DOMAIN Scans : Scans'[u].digest = Scans[u].digest
      BY <1>2, <1>3 DEF Scans
    <3> QED
      BY <1>8, <3>1, <3>2, <3>3 DEF alreadyScanned
  <2> QED
    BY <2>2, <2>3, <2>4, <2>5, <2>6 DEF VersionInv
<1>11. NoneAgain
  BY <1>2, <1>3 DEF NoneAgain, Restarts
<1> QED
  BY <1>5, <1>10, <1>11 DEF ServiceInv

LEMMA RunKeeps ==
    ASSUME ServiceInv, NEW t \in ScanTypes, RunServiceScan(t) PROVE ServiceInv' /\ NoneAgain
<1>1. /\ t \in DOMAIN serviceScans /\ serviceScans[t].due
      /\ UNCHANGED <<config, step, at, version, previousScan, serviceScanCache>>
  BY DEF RunServiceScan, workload
<1>2. serviceScans[t].digest \in Versions /\ serviceScans[t] \in ServiceScan
  BY <1>1, ScanTyped DEF ServiceInv, ServiceTyped
<1>3. /\ DOMAIN serviceScans' = DOMAIN serviceScans
      /\ serviceScans'[t] = [serviceScans[t] EXCEPT !.due = FALSE, !.rv = @ + 1]
      /\ \A u \in DOMAIN serviceScans : u # t => serviceScans'[u] = serviceScans[u]
  BY <1>1, <1>2 DEF RunServiceScan, ServiceScan
<1>4. /\ ran' \in [ScanTypes -> Versions] /\ ran'[t] = serviceScans[t].digest
      /\ \A u \in ScanTypes : u # t => ran'[u] = ran[u]
  BY <1>2 DEF RunServiceScan, ServiceInv, ServiceTyped
<1> QED
  BY <1>1, <1>3, <1>4, WriteKeeps

LEMMA TouchKeeps ==
    ASSUME ServiceInv, NEW t \in ScanTypes, TouchServiceScan(t) PROVE ServiceInv' /\ NoneAgain
<1>1. /\ t \in DOMAIN serviceScans /\ step # "restart"
      /\ UNCHANGED <<config, step, at, version, previousScan, serviceScanCache, ran>>
  BY DEF TouchServiceScan, workload
<1> DEFINE due == serviceScans[t].due
<1>2. due \in BOOLEAN /\ serviceScans[t] \in ServiceScan
  BY <1>1, ScanTyped DEF ServiceInv, ServiceTyped
<1>3. /\ DOMAIN serviceScans' = DOMAIN serviceScans
      /\ serviceScans'[t] = [serviceScans[t] EXCEPT !.due = due, !.rv = @ + 1]
      /\ \A u \in DOMAIN serviceScans : u # t => serviceScans'[u] = serviceScans[u]
  BY <1>1, <1>2 DEF TouchServiceScan, ServiceScan
<1>4. ran' \in [ScanTypes -> Versions]
  BY <1>1 DEF ServiceInv, ServiceTyped
<1> QED
  BY <1>1, <1>2, <1>3, <1>4, WriteKeeps

LEMMA CrashKeeps == ASSUME ServiceInv, Crash PROVE ServiceInv' /\ NoneAgain
<1>1. /\ step # "restart" /\ step' = "idle" /\ at' = 1 /\ version' = NoDigest
      /\ previousScan' = NoScan /\ serviceScanCache' = serviceScans
      /\ UNCHANGED <<config, serviceScans, ran>>
  BY DEF Crash, Return
<1>2. Len(config.targets) \in Nat
  BY WorkloadAssumption DEF ServiceInv, ServiceTyped, Config
<1>3. ServiceTyped'
  BY <1>1, <1>2, NoScanTyped DEF ServiceInv, ServiceTyped, IsScanMap
<1>4. \A t \in DOMAIN serviceScans : serviceScans[t].rv <= serviceScans[t].rv
  BY ScanTyped DEF ServiceInv, ServiceTyped
<1>5. VersionInv'
  BY <1>1, <1>4 DEF ServiceInv, VersionInv, CopyOf, Settled
<1> QED
  BY <1>1, <1>3, <1>5 DEF ServiceInv, NoneAgain, Restarts

LEMMA InitKeeps == ASSUME Init PROVE ServiceInv
<1>1. /\ config \in Configs /\ step = "idle" /\ at = 1 /\ version = NoDigest
      /\ previousScan = NoScan /\ serviceScans = NoScans /\ serviceScanCache = NoScans
      /\ ran = [t \in ScanTypes |-> NoDigest]
  BY DEF Init, WorkloadInit, ServiceInit
<1>2. Len(config.targets) \in Nat
  BY <1>1, WorkloadAssumption DEF Config
<1>3. ServiceTyped
  BY <1>1, <1>2, NoScanTyped DEF ServiceTyped, IsScanMap
<1>4. VersionInv
  BY <1>1, NoScanTyped DEF VersionInv
<1> QED
  BY <1>3, <1>4 DEF ServiceInv

LEMMA NextKeeps == ASSUME ServiceInv, [Next]_vars PROVE ServiceInv' /\ NoneAgain
<1>1. CASE UNCHANGED vars
  BY <1>1, Elsewhere DEF vars, workload
<1>2. CASE Environment
  <2>1. CASE Crash
    BY <2>1, CrashKeeps
  <2>2. ASSUME NEW c \in Containers, ContainerChanges(c) \/ Deliver(c) PROVE ServiceInv' /\ NoneAgain
    BY <2>2, Elsewhere DEF ContainerChanges, Deliver
  <2>3. ASSUME NEW t \in ScanTypes, InstallScanType(t) PROVE ServiceInv' /\ NoneAgain
    BY <2>3, Elsewhere DEF InstallScanType
  <2> QED
    BY <1>2, <2>1, <2>2, <2>3 DEF Environment
<1>3. CASE ContainerNext /\ UNCHANGED <<serviceVars, awsVars>>
  <2>1. UNCHANGED config
    BY <1>3 DEF ContainerNext, ReconcilePod, CreateOrDelete, SyncImageScans, ResyncPods, workload
  <2> QED
    BY <1>3, <2>1, Elsewhere
<1>4. CASE ServiceNext
  BY <1>4, ReconcileServiceKeeps, CheckTargetKeeps, GetPreviousScanKeeps, CreateServiceScanKeeps,
     UpdateServiceScanKeeps, RestartKeeps, SyncServiceScansKeeps, RunKeeps, TouchKeeps DEF ServiceNext, ServiceReconcileStep
<1>5. CASE AwsNext /\ UNCHANGED <<containerVars, serviceVars>>
  <2>1. UNCHANGED config
    BY <1>5 DEF AwsNext, ReceiveMessage, CallKubernetes, deleteMessageFromQueue, workload
  <2> QED
    BY <1>5, <2>1, Elsewhere
<1> QED
  BY <1>1, <1>2, <1>3, <1>4, <1>5 DEF Next

(* The discovery starts no scan of a version that was scanned, although it  *)
(* decides on copies that are as stale as can be, and the operator, users   *)
(* and the discovery write the same ScheduledScans; as long as no newer     *)
(* copy arrives between the List and the Get of a target.  Then the List    *)
(* tells that the copy that is updated has another version.                 *)
THEOREM VersionSafe == Spec => VersionIsScannedOnce
<1>1. Init => ServiceInv
  BY InitKeeps
<1>2. ServiceInv /\ [Next]_vars => ServiceInv'
  BY NextKeeps
<1>3. ServiceInv /\ [Next]_vars =>
        [\A t \in DOMAIN serviceScans :
            (config.steady \/ config.fresh) /\ Restarts(t) => serviceScans[t].digest # ran[t]]_vars
  BY NextKeeps DEF NoneAgain, Steady
<1> QED
  BY <1>1, <1>2, <1>3, PTL DEF Spec, VersionIsScannedOnce
-----------------------------------------------------------------------------
(***************************************************************************)
(* The type invariant of all three discoveries.                             *)
(***************************************************************************)

(* The container discovery and what it watches. *)
ContainerTyped ==
    /\ config \in Configs
    /\ phase \in [Containers -> Phases] /\ seen \in [Containers -> Phases]
    /\ installed \subseteq ScanTypes /\ imageScans \subseteq Images
    /\ crashes \in Nat /\ faults \in Nat /\ edits \in Nat
    /\ ContainerTypeOK

(* Only an event of a container that runs names its image, so that the AWS  *)
(* discovery never works on the reference of a container that is pending;   *)
(* what it works on is the first event of the queue, which is still there.  *)
EventsNameImages ==
    /\ \A n \in 1..Len(messages) :
           messages[n].state \in {"RUNNING", "STOPPED"} => messages[n].reference \in Images
    /\ work # "none" => messages # <<>>
    /\ work \in {"create", "delete"} => request.reference \in Images

AwsInv == AwsTypeOK /\ EventsNameImages

DiscoveryInv == ContainerTyped /\ ServiceInv /\ AwsInv

LEMMA ConfigTyped ==
    ASSUME config \in Configs
    PROVE  /\ config.image \in [Containers -> Images] /\ config.started \in SUBSET Containers
           /\ config.installed \in SUBSET ScanTypes
           /\ config.crashes \in Nat /\ config.faults \in Nat /\ config.edits \in Nat
           /\ config.targets \in Seq(ScanTypes)
BY WorkloadAssumption DEF Config

LEMMA NoCallTyped == NoCall \in Call
BY DEF NoCall, Call

(* What happens to a container, seen from each discovery. *)
LEMMA PhasesFollow == \A p \in Phases : Follows(p) \subseteq Phases
BY DEF Follows, Phases

LEMMA EventTyped ==
    ASSUME config \in Configs, NEW c \in Containers, NEW p \in Phases
    PROVE  /\ handleEcsEvent(c, p) \in Message
           /\ handleEcsEvent(c, p).state = "RUNNING" => handleEcsEvent(c, p).reference \in Images
           /\ handleEcsEvent(c, p).state = "STOPPED" => handleEcsEvent(c, p).reference \in Images
<1>1. config.image[c] \in Images
  BY ConfigTyped
<1> QED
  BY <1>1 DEF handleEcsEvent, Message

LEMMA SendKeeps ==
    ASSUME config \in Configs, AwsInv, NEW c \in Containers, NEW p \in Phases, Send(c, p),
           UNCHANGED <<RunningContainers, work>>
    PROVE  AwsInv'
<1>1. CASE UNCHANGED messages
  BY <1>1 DEF AwsInv, AwsTypeOK, EventsNameImages, request
<1>2. CASE messages' = Append(messages, handleEcsEvent(c, p))
  <2> DEFINE e == handleEcsEvent(c, p)
  <2>1. /\ e \in Message
        /\ e.state = "RUNNING" => e.reference \in Images
        /\ e.state = "STOPPED" => e.reference \in Images
    BY EventTyped
  <2> HIDE DEF e
  <2>2. /\ messages \in Seq(Message) /\ messages' = Append(messages, e)
        /\ Len(messages) \in Nat
    BY <1>2 DEF e, AwsInv, AwsTypeOK
  <2>3. /\ messages' \in Seq(Message) /\ Len(messages') = Len(messages) + 1
        /\ \A n \in 1..Len(messages) : messages'[n] = messages[n]
        /\ messages'[Len(messages) + 1] = e
    BY <2>1, <2>2
  <2>4. messages' # <<>>
    BY <2>2, <2>3
  <2>5. messages # <<>> => Head(messages') = Head(messages)
    BY <2>2, <2>3
  <2>6. \A n \in 1..Len(messages') : messages'[n].state \in {"RUNNING", "STOPPED"}
                                        => messages'[n].reference \in Images
    <3> SUFFICES ASSUME NEW n \in 1..Len(messages'), messages'[n].state \in {"RUNNING", "STOPPED"}
                 PROVE  messages'[n].reference \in Images
      OBVIOUS
    <3>1. n \in 1..Len(messages) \/ n = Len(messages) + 1
      BY <2>2, <2>3
    <3> QED
      BY <3>1, <2>1, <2>3 DEF AwsInv, EventsNameImages
  <2> QED
    BY <2>3, <2>4, <2>5, <2>6 DEF AwsInv, AwsTypeOK, EventsNameImages, request
<1> QED
  BY <1>1, <1>2 DEF Send

LEMMA QueueTyped ==
    ASSUME ContainerTyped, NEW set \in SUBSET Containers, QueuePods(set)
    PROVE  podQueue' \subseteq Containers
BY DEF QueuePods, ContainerTyped, ContainerTypeOK

(* Steps of one discovery leave the others alone. *)
LEMMA AwsUntouched == ASSUME AwsInv, UNCHANGED awsVars PROVE AwsInv'
BY DEF AwsInv, AwsTypeOK, EventsNameImages, awsVars, request

LEMMA ContainerUntouched ==
    ASSUME ContainerTyped, UNCHANGED <<workload, imageScans, containerVars>>,
           crashes' \in Nat, faults' \in Nat, edits' \in Nat
    PROVE  ContainerTyped'
BY DEF ContainerTyped, workload, containerVars, ContainerTypeOK

LEMMA EnvironmentTyped == ASSUME DiscoveryInv, Environment PROVE DiscoveryInv'
<1>1. ContainerTyped /\ AwsInv /\ config \in Configs /\ config' = config
  BY DEF DiscoveryInv, ContainerTyped, Environment, ContainerChanges, Deliver, InstallScanType, Crash
<1>2. ServiceInv'
  BY NextKeeps DEF DiscoveryInv, Next
<1>3. ASSUME NEW c \in Containers, ContainerChanges(c) PROVE ContainerTyped' /\ AwsInv'
  <2>1. PICK p \in Phases : phase' = [phase EXCEPT ![c] = p] /\ Send(c, p)
    BY <1>1, <1>3, PhasesFollow DEF ContainerChanges, ContainerTyped
  <2>2. /\ UNCHANGED <<config, seen, installed, imageScans, containerVars, bounds>>
        /\ UNCHANGED <<RunningContainers, work>>
    BY <1>3 DEF ContainerChanges
  <2>3. phase' \in [Containers -> Phases]
    BY <1>1, <2>1 DEF ContainerTyped
  <2>4. ContainerTyped'
    BY <1>1, <2>2, <2>3 DEF ContainerTyped, ContainerTypeOK, containerVars, bounds
  <2> QED
    BY <1>1, <2>1, <2>2, <2>4, SendKeeps
<1>4. ASSUME NEW c \in Containers, Deliver(c) PROVE ContainerTyped' /\ AwsInv'
  <2>1. /\ seen' = [seen EXCEPT ![c] = phase[c]] /\ QueuePods({c})
        /\ UNCHANGED <<config, phase, installed, imageScans, call, imageScanCache, awsVars, bounds>>
    BY <1>4 DEF Deliver
  <2>2. seen' \in [Containers -> Phases] /\ podQueue' \subseteq Containers
    BY <1>1, <2>1, QueueTyped DEF ContainerTyped
  <2>3. ContainerTyped'
    BY <1>1, <2>1, <2>2 DEF ContainerTyped, ContainerTypeOK, bounds
  <2> QED
    BY <1>1, <2>1, <2>3, AwsUntouched
<1>5. ASSUME NEW t \in ScanTypes, InstallScanType(t) PROVE ContainerTyped' /\ AwsInv'
  <2>1. ContainerTyped'
    BY <1>1, <1>5 DEF InstallScanType, ContainerTyped, ContainerTypeOK, containerVars, bounds
  <2> QED
    BY <1>1, <1>5, <2>1, AwsUntouched DEF InstallScanType
<1>6. CASE Crash
  <2>1. ContainerTyped'
    BY <1>1, <1>6, NoCallTyped DEF Crash, ContainerTyped, ContainerTypeOK
  <2>2. DOMAIN RunningContainers' = {} /\ work' = "none" /\ UNCHANGED messages
    BY <1>6 DEF Crash, NoContainers
  <2>3. AwsInv'
    BY <1>1, <2>2 DEF AwsInv, AwsTypeOK, EventsNameImages, request
  <2> QED
    BY <1>2, <2>1, <2>3 DEF DiscoveryInv
<1> QED
  BY <1>2, <1>3, <1>4, <1>5, <1>6 DEF DiscoveryInv, Environment

-----------------------------------------------------------------------------
LEMMA ContainerNextTyped ==
    ASSUME ContainerTyped, ContainerNext PROVE ContainerTyped'
<1>1. ASSUME NEW c \in Containers, ReconcilePod(c) PROVE ContainerTyped'
  <2>1. config.image[c] \in Images
    BY ConfigTyped DEF ContainerTyped
  <2>2. getNonScannedImageIDs(c) \subseteq Images /\ getOrphanedScanImageIDs(c) \subseteq Images
    BY <2>1 DEF getNonScannedImageIDs, getOrphanedScanImageIDs
  <2>3. call' \in {NoCall, [verb |-> "create", images |-> getNonScannedImageIDs(c)],
                   [verb |-> "delete", images |-> getOrphanedScanImageIDs(c)]}
    BY <1>1 DEF ReconcilePod
  <2>4. call' \in Call
    BY <2>2, <2>3, NoCallTyped DEF Call
  <2>5. podQueue' \subseteq Containers /\ UNCHANGED <<workload, imageScans, imageScanCache, bounds>>
    BY <1>1 DEF ReconcilePod, ContainerTyped, ContainerTypeOK
  <2> QED
    BY <2>4, <2>5 DEF ContainerTyped, ContainerTypeOK, workload, bounds
<1>2. CASE CreateOrDelete
  <2>1. imageScans' \subseteq Images /\ faults' \in Nat
    BY <1>2 DEF CreateOrDelete, deleteScans, CallFails, ContainerTyped, ContainerTypeOK, Call
  <2>2. call' = NoCall /\ UNCHANGED <<workload, podQueue, imageScanCache, crashes, edits>>
    BY <1>2 DEF CreateOrDelete
  <2> QED
    BY <2>1, <2>2, NoCallTyped DEF ContainerTyped, ContainerTypeOK, workload
<1>3. CASE SyncImageScans
  BY <1>3 DEF SyncImageScans, ContainerTyped, ContainerTypeOK, workload, bounds
<1>4. CASE ResyncPods
  BY <1>4 DEF ResyncPods, ContainerTyped, ContainerTypeOK, workload, bounds
<1> QED
  BY <1>1, <1>2, <1>3, <1>4 DEF ContainerNext

-----------------------------------------------------------------------------
LEMMA RunningTyped ==
    ASSUME AwsTypeOK
    PROVE  \A i \in Images : RunningWith(i) \subseteq Containers
BY DEF AwsTypeOK, RunningWith

LEMMA WithRunningTyped ==
    ASSUME AwsTypeOK, NEW i \in Images, NEW set \in SUBSET Containers,
           RunningContainers' = WithRunning(i, set)
    PROVE  /\ DOMAIN RunningContainers' \subseteq Images
           /\ \A j \in DOMAIN RunningContainers' : RunningContainers'[j] \subseteq Containers
BY DEF AwsTypeOK, WithRunning

LEMMA RequestTyped ==
    ASSUME AwsInv, messages # <<>>
    PROVE  /\ request \in Message
           /\ request.state \in {"RUNNING", "STOPPED"} => request.reference \in Images
           /\ request = messages[1] /\ Len(messages) \in Nat /\ Len(messages) >= 1
<1>1. messages \in Seq(Message) /\ Len(messages) \in Nat /\ Len(messages) >= 1
  BY DEF AwsInv, AwsTypeOK
<1>2. request = messages[1] /\ request \in Message
  BY <1>1 DEF request
<1>3. 1 \in 1..Len(messages)
  BY <1>1
<1> QED
  BY <1>1, <1>2, <1>3 DEF AwsInv, EventsNameImages

LEMMA ReceiveTyped == ASSUME AwsInv, ReceiveMessage PROVE AwsInv'
<1>1. messages # <<>> /\ UNCHANGED messages
  BY DEF ReceiveMessage
<1>2. request \in Message /\ request.container \in Containers
      /\ (request.state \in {"RUNNING", "STOPPED"} => request.reference \in Images)
  BY <1>1, RequestTyped DEF Message
<1>3. /\ DOMAIN RunningContainers' \subseteq Images
      /\ \A j \in DOMAIN RunningContainers' : RunningContainers'[j] \subseteq Containers
      /\ work' \in {"create", "delete", "acknowledge"}
      /\ work' \in {"create", "delete"} => request.reference \in Images
  <2>1. CASE handleCreateRequest
    <3>1. request.reference \in Images
      BY <1>2, <2>1 DEF handleCreateRequest
    <3>2. RunningWith(request.reference) \cup {request.container} \in SUBSET Containers
      BY <1>2, <3>1, RunningTyped DEF AwsInv
    <3>3. /\ RunningContainers' = WithRunning(request.reference,
                                    RunningWith(request.reference) \cup {request.container})
          /\ work' = "create"
      BY <2>1 DEF handleCreateRequest
    <3> QED
      BY <3>1, <3>2, <3>3, WithRunningTyped DEF AwsInv
  <2>2. CASE handleDeleteRequest /\ request.reference \in DOMAIN RunningContainers
    <3> DEFINE others == RunningWith(request.reference) \ {request.container}
    <3>1. request.reference \in Images
      BY <2>2 DEF AwsInv, AwsTypeOK
    <3>2. others \in SUBSET Containers
      BY <3>1, RunningTyped DEF AwsInv
    <3>3. RunningContainers' = WithRunning(request.reference, others)
          /\ work' \in {"delete", "acknowledge"}
      BY <2>2 DEF handleDeleteRequest
    <3> QED
      BY <3>1, <3>2, <3>3, WithRunningTyped DEF AwsInv
  <2>3. CASE handleDeleteRequest /\ request.reference \notin DOMAIN RunningContainers
    <3>1. work' = "acknowledge" /\ UNCHANGED RunningContainers
      BY <2>3 DEF handleDeleteRequest
    <3> QED
      BY <3>1 DEF AwsInv, AwsTypeOK
  <2> QED
    BY <2>1, <2>2, <2>3 DEF ReceiveMessage
<1> QED
  BY <1>1, <1>3 DEF AwsInv, AwsTypeOK, EventsNameImages, request

LEMMA CallTyped ==
    ASSUME ContainerTyped, AwsInv, CallKubernetes
    PROVE  AwsInv' /\ imageScans' \subseteq Images /\ faults' \in Nat
<1>1. work \in {"create", "delete"} /\ request.reference \in Images /\ messages # <<>>
  BY DEF CallKubernetes, AwsInv, EventsNameImages
<1>2. imageScans' \subseteq Images /\ faults' \in Nat
  BY <1>1 DEF CallKubernetes, CallFails, ContainerTyped
<1>3. UNCHANGED <<messages, RunningContainers>> /\ work' \in {"acknowledge", "none"}
  BY DEF CallKubernetes
<1> QED
  BY <1>1, <1>2, <1>3 DEF AwsInv, AwsTypeOK, EventsNameImages, request

LEMMA DeleteMessageTyped ==
    ASSUME AwsInv, deleteMessageFromQueue
    PROVE  AwsInv'
<1>1. messages # <<>> /\ work' = "none" /\ UNCHANGED RunningContainers
  BY DEF deleteMessageFromQueue, AwsInv, EventsNameImages
<1>2. messages' \in {messages, Tail(messages)}
  BY DEF deleteMessageFromQueue
<1>3. messages \in Seq(Message) /\ Len(messages) \in Nat /\ Len(messages) >= 1
  BY <1>1 DEF AwsInv, AwsTypeOK
<1>4. /\ Tail(messages) \in Seq(Message) /\ Len(Tail(messages)) = Len(messages) - 1
      /\ \A n \in 1..Len(Tail(messages)) : Tail(messages)[n] = messages[n + 1]
  BY <1>1, <1>3
<1>5. \A n \in 1..Len(Tail(messages)) :
          Tail(messages)[n].state \in {"RUNNING", "STOPPED"} => Tail(messages)[n].reference \in Images
  <2> SUFFICES ASSUME NEW n \in 1..Len(Tail(messages)),
                      Tail(messages)[n].state \in {"RUNNING", "STOPPED"}
               PROVE  Tail(messages)[n].reference \in Images
    OBVIOUS
  <2>1. n + 1 \in 1..Len(messages) /\ Tail(messages)[n] = messages[n + 1]
    BY <1>3, <1>4
  <2> QED
    BY <2>1 DEF AwsInv, EventsNameImages
<1> QED
  BY <1>1, <1>2, <1>4, <1>5 DEF AwsInv, AwsTypeOK, EventsNameImages

LEMMA AwsNextTyped ==
    ASSUME ContainerTyped, AwsInv, AwsNext, UNCHANGED containerVars
    PROVE  ContainerTyped' /\ AwsInv'
<1>1. AwsInv' /\ imageScans' \subseteq Images /\ faults' \in Nat
  BY ReceiveTyped, CallTyped, DeleteMessageTyped
     DEF AwsNext, ReceiveMessage, deleteMessageFromQueue, CallFails, ContainerTyped, bounds
<1>2. UNCHANGED <<workload, crashes, edits>>
  BY DEF AwsNext, ReceiveMessage, CallKubernetes, deleteMessageFromQueue, bounds
<1> QED
  BY <1>1, <1>2 DEF ContainerTyped, ContainerTypeOK, workload, containerVars

-----------------------------------------------------------------------------
LEMMA ServiceStepFrame ==
    ASSUME ContainerTyped, ServiceNext
    PROVE  UNCHANGED <<workload, imageScans>> /\ crashes' \in Nat /\ faults' \in Nat /\ edits' \in Nat
<1>1. crashes \in Nat /\ faults \in Nat /\ edits \in Nat
  BY DEF ContainerTyped
<1>2. CASE ServiceReconcileStep
  <2>1. Outside /\ (UNCHANGED faults \/ CallFails)
    BY <1>2 DEF ServiceReconcileStep, ReconcileService, CheckTarget, GetPreviousScan, CreateServiceScan,
                UpdateServiceScan, restartScheduledScan
  <2> QED
    BY <1>1, <2>1 DEF Outside, CallFails
<1>3. CASE SyncServiceScans
  BY <1>1, <1>3 DEF SyncServiceScans, bounds
<1>4. ASSUME NEW t \in ScanTypes, RunServiceScan(t)
      PROVE  UNCHANGED <<workload, imageScans, bounds>>
  BY <1>4 DEF RunServiceScan
<1>5. ASSUME NEW t \in ScanTypes, TouchServiceScan(t)
      PROVE  UNCHANGED <<workload, imageScans, crashes, faults>> /\ edits' = edits + 1
  BY <1>5 DEF TouchServiceScan
<1> QED
  BY <1>1, <1>2, <1>3, <1>4, <1>5 DEF ServiceNext, bounds

LEMMA DiscoveryKept == ASSUME DiscoveryInv, [Next]_vars PROVE DiscoveryInv'
<1>1. ServiceInv'
  BY NextKeeps DEF DiscoveryInv
<1>2. ContainerTyped /\ AwsInv
  BY DEF DiscoveryInv
<1>3. CASE UNCHANGED vars
  BY <1>1, <1>2, <1>3, AwsUntouched, ContainerUntouched
     DEF DiscoveryInv, vars, bounds, ContainerTyped
<1>4. CASE Environment
  BY <1>4, EnvironmentTyped
<1>5. CASE ContainerNext /\ UNCHANGED <<serviceVars, awsVars>>
  BY <1>1, <1>2, <1>5, ContainerNextTyped, AwsUntouched DEF DiscoveryInv
<1>6. CASE ServiceNext /\ UNCHANGED <<containerVars, awsVars>>
  BY <1>1, <1>2, <1>6, ServiceStepFrame, ContainerUntouched, AwsUntouched DEF DiscoveryInv
<1>7. CASE AwsNext /\ UNCHANGED <<containerVars, serviceVars>>
  BY <1>1, <1>2, <1>7, AwsNextTyped DEF DiscoveryInv
<1> QED
  BY <1>3, <1>4, <1>5, <1>6, <1>7 DEF Next

LEMMA DiscoveryStarts == ASSUME Init PROVE DiscoveryInv
<1>1. config \in Configs
  BY DEF Init, WorkloadInit
<1>2. phase \in [Containers -> Phases] /\ seen \in [Containers -> Phases]
  BY DEF Init, WorkloadInit, Phases
<1>3. ContainerTyped
  BY <1>1, <1>2, ConfigTyped, NoCallTyped
     DEF Init, WorkloadInit, ContainerInit, ContainerTyped, ContainerTypeOK
<1>4. AwsInv
  BY DEF Init, AwsInit, AwsInv, AwsTypeOK, EventsNameImages, NoContainers
<1> QED
  BY <1>3, <1>4, InitKeeps DEF DiscoveryInv

(* The state of the three discoveries keeps its types; in particular the    *)
(* AWS discovery never creates or deletes a ScheduledScan for a container   *)
(* whose image has no digest yet, and never works without an event.         *)
THEOREM DiscoveryTypeCorrect == Spec => []TypeOK
<1>1. DiscoveryInv => TypeOK
  BY DEF DiscoveryInv, ContainerTyped, ServiceInv, ServiceTyped, AwsInv,
         TypeOK, WorkloadTypeOK, ServiceTypeOK
<1> QED
  BY <1>1, DiscoveryStarts, DiscoveryKept, PTL DEF Spec
-----------------------------------------------------------------------------
(***************************************************************************)
(* At rest the ScheduledScans are those of the images that run: the         *)
(* container discovery.                                                     *)
(***************************************************************************)
Creates(i) == call.verb = "create" /\ i \in call.images
Deletes(i) == call.verb # "create" /\ i \in call.images

(* Nobody forgets a pod that runs: it is queued, or its image has a         *)
(* ScheduledScan that stays, or one is about to be created.                 *)
Scanned(c) ==
    \/ c \in podQueue
    \/ config.image[c] \in imageScans /\ ~Deletes(config.image[c])
    \/ Creates(config.image[c])
NoneMissing == \A c \in Unmanaged : seen[c] = "running" /\ createScheduledScans(c) => Scanned(c)

(* Nor does anybody forget that a ScheduledScan is to be deleted: it has a  *)
(* pod that runs, or whose end is still to be reconciled.                   *)
Behind(c, i) ==
    /\ config.image[c] = i /\ phase[c] \in {"running", "ending"}
    /\ seen[c] = "running" \/ (seen[c] = "ending" /\ (c \in podQueue \/ Deletes(i)))
NoneLeftOver ==
    /\ \A c \in Containers : seen[c] = "running" => phase[c] \in {"running", "ending"}
    /\ \A i \in Images : i \in imageScans \/ Creates(i) => \E c \in Unmanaged : Behind(c, i)

OnlyContainers == config.enabled \cap {"container", "aws"} = {"container"}
ContainersConverge ==
    OnlyContainers /\ config.fresh /\ faults = 0 =>
        /\ NoneMissing
        /\ config.graceful /\ ManagedApart => NoneLeftOver

(***************************************************************************)
(* The same for AWS.  What is known of a container is what its events said  *)
(* that were received; the first one may have been received already.        *)
(***************************************************************************)
Runs(c) == c \in RunningWith(config.image[c])
Announced(c, state, from) ==
    \E n \in from..Len(messages) : messages[n].container = c /\ messages[n].state = state

EventsFollowPhases ==
    \A n \in 1..Len(messages) :
        LET e == messages[n] IN
        /\ e.state = "PENDING" => e.reference = Untagged
        /\ e.state # "PENDING" => e.reference = config.image[e.container]
        /\ e.state = "RUNNING" => phase[e.container] \in {"running", "gone"}
        /\ e.state = "STOPPED" => phase[e.container] = "gone"
        /\ e.state = "RUNNING" /\ phase[e.container] = "gone" => Announced(e.container, "STOPPED", n + 1)

(* What is remembered is out of date only in what the queue still says.     *)
RunningFollowsEvents ==
    /\ \A i \in DOMAIN RunningContainers, c \in Containers :
           c \in RunningContainers[i] => config.image[c] = i
    /\ \A c \in Containers : phase[c] = "running" => Runs(c) \/ Announced(c, "RUNNING", 1)
    /\ \A c \in Containers : Runs(c) => phase[c] = "running" \/ Announced(c, "STOPPED", 1)

(* The image of the event that is worked on has its ScheduledScan, or has   *)
(* it not, once the event is acknowledged; all other images have what they  *)
(* should have.                                                             *)
Received ==
    \/ request.state = "RUNNING" /\ Runs(request.container)
    \/ request.state = "STOPPED" /\ RunningWith(request.reference) = {}
InStep(i) == i \in imageScans <=> RunningWith(i) # {}
WorkFollowsEvent ==
    /\ imageScans \subseteq DOMAIN RunningContainers
    /\ work = "create" => request.state = "RUNNING" /\ Runs(request.container)
    /\ work = "delete" => request.state = "STOPPED" /\ RunningWith(request.reference) = {}
    /\ work = "acknowledge" /\ request.state = "RUNNING" => Runs(request.container)
    /\ work = "acknowledge" /\ request.state = "STOPPED" => ~Runs(request.container)
    /\ \A i \in Images :
           \/ InStep(i)
           \/ messages # <<>> /\ work # "acknowledge" /\ i = request.reference /\ Received

AwsConverges ==
    config.enabled = {"aws"} /\ crashes = 0 /\ config.started = {} =>
        /\ \A c \in Containers : phase[c] \notin {"waiting", "ending"}
        /\ EventsFollowPhases /\ RunningFollowsEvents /\ WorkFollowsEvent

LEMMA CallsApart ==
    ASSUME NEW i, call = NoCall PROVE ~Creates(i) /\ ~Deletes(i)
BY DEF NoCall, Creates, Deletes

(* Faults are only counted upwards. *)
LEMMA FaultsGrow ==
    ASSUME DiscoveryInv, [Next]_vars, faults' = 0
    PROVE  faults = 0 /\ config' = config
<1>1. faults \in Nat /\ (CallFails => faults' = faults + 1)
  BY DEF DiscoveryInv, ContainerTyped, CallFails
<1>2. CASE UNCHANGED vars
  BY <1>2 DEF vars, workload, bounds
<1>3. CASE Environment
  BY <1>3 DEF Environment, ContainerChanges, Deliver, InstallScanType, Crash, bounds
<1>4. CASE ContainerNext
  BY <1>1, <1>4 DEF ContainerNext, ReconcilePod, CreateOrDelete, SyncImageScans, ResyncPods,
                    workload, bounds
<1>5. CASE ServiceNext
  <2>1. CASE ServiceReconcileStep
    <3>1. Outside /\ (UNCHANGED faults \/ CallFails)
      BY <2>1 DEF ServiceReconcileStep, ReconcileService, CheckTarget, GetPreviousScan, CreateServiceScan,
                  UpdateServiceScan, restartScheduledScan
    <3> QED
      BY <1>1, <3>1 DEF Outside, workload
  <2>2. CASE SyncServiceScans \/ \E t \in ScanTypes : RunServiceScan(t) \/ TouchServiceScan(t)
    BY <2>2 DEF SyncServiceScans, RunServiceScan, TouchServiceScan, workload, bounds
  <2> QED
    BY <1>5, <2>1, <2>2 DEF ServiceNext
<1>6. CASE AwsNext
  BY <1>1, <1>6 DEF AwsNext, ReceiveMessage, CallKubernetes, deleteMessageFromQueue, workload, bounds
<1> QED
  BY <1>2, <1>3, <1>4, <1>5, <1>6 DEF Next

(* Whom the steps of others leave alone. *)
LEMMA ContainersElsewhere ==
    ASSUME UNCHANGED <<config, phase, seen, imageScans, podQueue, call>>
    PROVE  (NoneMissing => NoneMissing') /\ (NoneLeftOver => NoneLeftOver')
BY DEF NoneMissing, NoneLeftOver, Unmanaged, createScheduledScans, Scanned, Behind, Creates, Deletes

(***************************************************************************)
(* No pod is forgotten.                                                     *)
(***************************************************************************)
LEMMA ChangesMissNone ==
    ASSUME DiscoveryInv, OnlyContainers, NoneMissing, NEW c \in Containers,
           ContainerChanges(c) \/ Deliver(c)
    PROVE  NoneMissing'
<1>1. CASE ContainerChanges(c)
  BY <1>1 DEF ContainerChanges, containerVars, NoneMissing, Unmanaged, createScheduledScans, Scanned,
              Creates, Deletes
<1>2. CASE Deliver(c)
  <2>1. podQueue' = podQueue \cup {c} /\ UNCHANGED <<config, imageScans, call>>
    BY <1>2 DEF Deliver, QueuePods, OnlyContainers, Enabled
  <2>2. \A d \in Containers : d # c => seen'[d] = seen[d]
    BY <1>2 DEF Deliver, DiscoveryInv, ContainerTyped
  <2> QED
    BY <2>1, <2>2 DEF NoneMissing, Unmanaged, createScheduledScans, Scanned, Creates, Deletes
<1> QED
  BY <1>1, <1>2

LEMMA CrashMissesNone ==
    ASSUME DiscoveryInv, OnlyContainers, Crash PROVE NoneMissing'
<1>1. seen' = phase /\ podQueue' = {c \in Containers : phase[c] \notin {"none", "gone"}}
      /\ config' = config
  BY DEF Crash, OnlyContainers, Enabled
<1> QED
  BY <1>1 DEF NoneMissing, Unmanaged, Scanned

LEMMA ReconcileMissesNone ==
    ASSUME DiscoveryInv, config.fresh, NoneMissing, NEW d \in Containers, ReconcilePod(d)
    PROVE  NoneMissing'
<1> SUFFICES ASSUME NEW c \in Unmanaged, seen[c] = "running", createScheduledScans(c)
             PROVE  Scanned(c)'
  BY DEF ReconcilePod, workload, NoneMissing, Unmanaged, createScheduledScans
<1>1. call = NoCall /\ podQueue' = podQueue \ {d} /\ UNCHANGED <<config, imageScans, seen>>
  BY DEF ReconcilePod, workload
<1>2. c \in Containers /\ c \notin config.managed
  BY DEF Unmanaged
<1> DEFINE i == config.image[c]
<1>3. KnownScans = imageScans
  BY DEF KnownScans
<1>4. CASE i \in imageScans
  <2>1. containerIDInUse(i)
    BY <1>2 DEF containerIDInUse
  <2>2. i \notin getOrphanedScanImageIDs(d)
    BY <2>1 DEF getOrphanedScanImageIDs
  <2>3. call' \in {NoCall, [verb |-> "create", images |-> getNonScannedImageIDs(d)],
                   [verb |-> "delete", images |-> getOrphanedScanImageIDs(d)]}
    BY DEF ReconcilePod
  <2>4. ~Deletes(i)'
    BY <1>1, <2>2, <2>3 DEF Deletes, NoCall
  <2> QED
    BY <1>1, <1>4, <2>4 DEF Scanned
<1>5. CASE i \notin imageScans /\ c # d
  BY <1>1, <1>5, CallsApart DEF NoneMissing, Scanned
<1>6. CASE i \notin imageScans /\ c = d
  <2>1. ~Ignored(d)
    BY <1>2, <1>6 DEF Ignored, podNotReady
  <2>2. i \in getNonScannedImageIDs(d) /\ getNonScannedImageIDs(d) # {}
    BY <1>3, <1>6 DEF getNonScannedImageIDs
  <2>3. call' = [verb |-> "create", images |-> getNonScannedImageIDs(d)]
    BY <1>6, <2>1, <2>2 DEF ReconcilePod
  <2> QED
    BY <1>1, <2>2, <2>3 DEF Scanned, Creates
<1> QED
  BY <1>4, <1>5, <1>6

LEMMA CallMissesNone ==
    ASSUME DiscoveryInv, config.fresh, NoneMissing, CreateOrDelete, UNCHANGED faults
    PROVE  NoneMissing'
<1>1. /\ call # NoCall /\ call' = NoCall /\ UNCHANGED <<config, seen, podQueue>>
      /\ imageScans' = IF call.verb = "create" THEN imageScans \cup call.images
                       ELSE imageScans \ (call.images \cap imageScans)
  BY DEF CreateOrDelete, CallFails, DiscoveryInv, ContainerTyped, workload, deleteScans, KnownScans
<1> SUFFICES ASSUME NEW c \in Unmanaged, seen[c] = "running", createScheduledScans(c)
             PROVE  Scanned(c)'
  BY <1>1 DEF NoneMissing, Unmanaged, createScheduledScans
<1>2. Scanned(c) /\ ~Deletes(config.image[c])'
  BY <1>1 DEF NoneMissing, Deletes, NoCall
<1> QED
  BY <1>1, <1>2 DEF Scanned, Creates, Deletes

(***************************************************************************)
(* No ScheduledScan is forgotten.                                           *)
(***************************************************************************)
LEMMA ChangesLeaveNone ==
    ASSUME DiscoveryInv, OnlyContainers, config.graceful, NoneLeftOver,
           NEW d \in Containers, ContainerChanges(d)
    PROVE  NoneLeftOver'
<1>1. PICK p \in Follows(phase[d]) : phase' = [phase EXCEPT ![d] = p]
  BY DEF ContainerChanges
<1>2. /\ UNCHANGED <<config, seen, imageScans, podQueue, call>>
      /\ phase[d] = "ending" => EndReconciled(d)
      /\ ~Enabled("aws") /\ phase \in [Containers -> Phases]
  BY DEF ContainerChanges, containerVars, OnlyContainers, Enabled, DiscoveryInv, ContainerTyped
<1>3. phase[d] = "running" => p = "ending"
  BY <1>2 DEF Follows
<1>4. \A c \in Containers : phase'[c] = IF c = d THEN p ELSE phase[c]
  BY <1>1, <1>2
<1>5. ASSUME NEW c \in Containers, phase[c] \in {"running", "ending"},
             ~(c = d /\ phase[d] = "ending")
      PROVE  phase'[c] \in {"running", "ending"}
  BY <1>3, <1>4, <1>5
<1>6. \A c \in Containers : seen[c] = "running" => phase'[c] \in {"running", "ending"}
  BY <1>2, <1>5 DEF NoneLeftOver, EndReconciled
<1>7. ASSUME NEW c \in Containers, NEW i, Behind(c, i)
      PROVE  Behind(c, i)'
  <2>1. ~(c = d /\ phase[d] = "ending")
    BY <1>2, <1>7, CallsApart DEF Behind, EndReconciled
  <2> QED
    BY <1>2, <1>5, <1>7, <2>1 DEF Behind, Deletes
<1>8. \A c \in Unmanaged : c \in Containers
  BY DEF Unmanaged
<1> QED
  BY <1>2, <1>6, <1>7, <1>8 DEF NoneLeftOver, Creates, Unmanaged

LEMMA DeliverLeavesNone ==
    ASSUME DiscoveryInv, OnlyContainers, NoneLeftOver, NEW d \in Containers, Deliver(d)
    PROVE  NoneLeftOver'
<1>1. /\ podQueue' = podQueue \cup {d} /\ UNCHANGED <<config, phase, imageScans, call>>
      /\ \A c \in Containers : seen'[c] = IF c = d THEN phase[d] ELSE seen[c]
  BY DEF Deliver, QueuePods, OnlyContainers, Enabled, DiscoveryInv, ContainerTyped
<1>2. ASSUME NEW c \in Containers, NEW i, Behind(c, i)
      PROVE  Behind(c, i)'
  BY <1>1, <1>2 DEF Behind, Deletes
<1>3. \A c \in Unmanaged : c \in Containers
  BY DEF Unmanaged
<1> QED
  BY <1>1, <1>2, <1>3 DEF NoneLeftOver, Creates, Unmanaged

(* What the new process forgets it finds in its cache. *)
LEMMA CrashLeavesNone ==
    ASSUME DiscoveryInv, OnlyContainers, NoneLeftOver, Crash
    PROVE  NoneLeftOver'
<1>1. /\ seen' = phase /\ podQueue' = {c \in Containers : phase[c] \notin {"none", "gone"}}
      /\ call' = NoCall /\ UNCHANGED <<config, phase, imageScans>>
  BY DEF Crash, OnlyContainers, Enabled
<1>2. ASSUME NEW c \in Containers, NEW i, Behind(c, i)
      PROVE  Behind(c, i)'
  BY <1>1, <1>2 DEF Behind
<1>3. \A c \in Unmanaged : c \in Containers
  BY DEF Unmanaged
<1>4. \A i : ~Creates(i)'
  BY <1>1 DEF Creates, NoCall
<1> QED
  BY <1>1, <1>2, <1>3, <1>4 DEF NoneLeftOver, Unmanaged

(* An image that is in use has a pod that counts. *)
LEMMA InUse ==
    ASSUME ManagedApart, NoneLeftOver, NEW d \in Unmanaged, containerIDInUse(config.image[d])
    PROVE  \E c \in Unmanaged : c \in Containers /\ config.image[c] = config.image[d]
                                /\ seen[c] = "running" /\ phase[c] \in {"running", "ending"}
<1>1. PICK c \in Containers : seen[c] = "running" /\ config.image[c] = config.image[d]
  BY DEF containerIDInUse
<1>2. c \in Unmanaged
  BY <1>1 DEF Unmanaged, ManagedApart
<1> QED
  BY <1>1, <1>2 DEF NoneLeftOver

LEMMA ReconcileLeavesNone ==
    ASSUME DiscoveryInv, config.fresh, ManagedApart, NoneLeftOver,
           NEW d \in Containers, ReconcilePod(d)
    PROVE  NoneLeftOver'
<1>1. /\ call = NoCall /\ podQueue' = podQueue \ {d}
      /\ UNCHANGED <<config, phase, seen, imageScans>>
  BY DEF ReconcilePod, workload
<1>2. /\ \A c \in Unmanaged : c \in Containers /\ c \notin config.managed
      /\ Unmanaged' = Unmanaged
  BY <1>1 DEF Unmanaged
<1>3. ASSUME NEW i \in Images, i \in imageScans
      PROVE  \E c \in Unmanaged : Behind(c, i)'
  <2>1. PICK c \in Unmanaged : Behind(c, i)
    BY <1>3 DEF NoneLeftOver
  <2>2. CASE c # d \/ seen[c] = "running"
    BY <1>1, <2>1, <2>2, CallsApart DEF Behind
  <2>3. CASE c = d /\ seen[c] # "running"
    <3>1. seen[d] = "ending" /\ config.image[d] = i /\ ~Ignored(d)
          /\ phase[d] \in {"running", "ending"}
      BY <1>2, <2>1, <2>3 DEF Behind, Ignored, podNotReady
    <3>2. CASE containerIDInUse(i)
      <4>1. PICK e \in Unmanaged : config.image[e] = i /\ seen[e] = "running"
                                   /\ phase[e] \in {"running", "ending"}
        BY <2>3, <3>1, <3>2, InUse
      <4> QED
        BY <1>1, <4>1 DEF Behind
    <3>3. CASE ~containerIDInUse(i)
      <4>1. i \in getOrphanedScanImageIDs(d) /\ getOrphanedScanImageIDs(d) # {}
        BY <1>3, <3>1, <3>3 DEF getOrphanedScanImageIDs, KnownScans
      <4>2. call' = [verb |-> "delete", images |-> getOrphanedScanImageIDs(d)]
        BY <3>1, <4>1 DEF ReconcilePod
      <4>3. Deletes(i)'
        BY <4>1, <4>2 DEF Deletes
      <4> QED
        BY <1>1, <2>3, <3>1, <4>3 DEF Behind
    <3> QED
      BY <3>2, <3>3
  <2> QED
    BY <2>2, <2>3
<1>4. ASSUME NEW i \in Images, Creates(i)'
      PROVE  \E c \in Unmanaged : Behind(c, i)'
  <2>1. call' = [verb |-> "create", images |-> getNonScannedImageIDs(d)]
        /\ ~Ignored(d) /\ seen[d] = "running"
    BY <1>4 DEF ReconcilePod, Creates, NoCall
  <2>2. i = config.image[d]
    BY <1>4, <2>1 DEF Creates, getNonScannedImageIDs
  <2>3. d \in Unmanaged /\ phase[d] \in {"running", "ending"}
    BY <2>1 DEF Ignored, Unmanaged, NoneLeftOver
  <2> QED
    BY <1>1, <2>1, <2>2, <2>3 DEF Behind
<1> QED
  BY <1>1, <1>2, <1>3, <1>4 DEF NoneLeftOver

LEMMA CallLeavesNone ==
    ASSUME DiscoveryInv, config.fresh, NoneLeftOver, CreateOrDelete, UNCHANGED faults
    PROVE  NoneLeftOver'
<1>1. /\ call' = NoCall /\ UNCHANGED <<config, phase, seen, podQueue>>
      /\ imageScans' = IF call.verb = "create" THEN imageScans \cup call.images
                       ELSE imageScans \ (call.images \cap imageScans)
  BY DEF CreateOrDelete, CallFails, DiscoveryInv, ContainerTyped, workload, deleteScans, KnownScans
<1>2. \A i : ~Creates(i)'
  BY <1>1 DEF Creates, NoCall
<1>3. \A i : i \in imageScans' => (i \in imageScans \/ Creates(i)) /\ ~Deletes(i)
  BY <1>1 DEF Creates, Deletes
<1>4. ASSUME NEW c, NEW i, Behind(c, i), ~Deletes(i)
      PROVE  Behind(c, i)'
  BY <1>1, <1>4 DEF Behind
<1> QED
  BY <1>1, <1>2, <1>3, <1>4 DEF NoneLeftOver, Unmanaged

-----------------------------------------------------------------------------
LEMMA ContainersKept ==
    ASSUME DiscoveryInv, ContainersConverge, [Next]_vars PROVE ContainersConverge'
<1> SUFFICES ASSUME OnlyContainers', config'.fresh, faults' = 0
             PROVE  NoneMissing' /\ (config'.graceful /\ ManagedApart' => NoneLeftOver')
  BY DEF ContainersConverge
<1>1. config' = config /\ faults = 0 /\ UNCHANGED faults
  BY FaultsGrow
<1>2. OnlyContainers /\ config.fresh /\ NoneMissing
      /\ (config'.graceful /\ ManagedApart' => config.graceful /\ ManagedApart /\ NoneLeftOver)
  BY <1>1 DEF OnlyContainers, ContainersConverge, ManagedApart, Unmanaged
<1>3. CASE UNCHANGED <<config, phase, seen, imageScans, podQueue, call>>
  BY <1>2, <1>3, ContainersElsewhere
<1>4. CASE UNCHANGED vars
  BY <1>3, <1>4 DEF vars, workload, containerVars
<1>5. ASSUME NEW c \in Containers, ContainerChanges(c)
      PROVE  NoneMissing' /\ (config'.graceful /\ ManagedApart' => NoneLeftOver')
  BY <1>2, <1>5, ChangesMissNone, ChangesLeaveNone
<1>6. ASSUME NEW c \in Containers, Deliver(c)
      PROVE  NoneMissing' /\ (config'.graceful /\ ManagedApart' => NoneLeftOver')
  BY <1>2, <1>6, ChangesMissNone, DeliverLeavesNone
<1>7. ASSUME NEW t \in ScanTypes, InstallScanType(t)
      PROVE  UNCHANGED <<config, phase, seen, imageScans, podQueue, call>>
  BY <1>7 DEF InstallScanType, containerVars
<1>8. CASE Crash
  BY <1>2, <1>8, CrashMissesNone, CrashLeavesNone
<1>9. CASE ContainerNext
  <2>1. ASSUME NEW c \in Containers, ReconcilePod(c)
        PROVE  NoneMissing' /\ (config'.graceful /\ ManagedApart' => NoneLeftOver')
    BY <1>2, <2>1, ReconcileMissesNone, ReconcileLeavesNone
  <2>2. CASE CreateOrDelete
    BY <1>1, <1>2, <2>2, CallMissesNone, CallLeavesNone
  <2>3. CASE SyncImageScans
    BY <1>3, <2>3 DEF SyncImageScans, workload
  <2>4. CASE ResyncPods
    <3>1. podQueue \subseteq podQueue' /\ UNCHANGED <<config, phase, seen, imageScans, call>>
      BY <2>4 DEF ResyncPods, workload
    <3> QED
      BY <1>2, <3>1 DEF NoneMissing, NoneLeftOver, Unmanaged, createScheduledScans, Scanned, Behind,
                        Creates, Deletes
  <2> QED
    BY <1>9, <2>1, <2>2, <2>3, <2>4 DEF ContainerNext
<1>10. CASE ServiceNext /\ UNCHANGED <<containerVars, awsVars>>
  BY <1>3, <1>10, ServiceStepFrame DEF DiscoveryInv, workload, containerVars
<1>11. ~Enabled("aws")
  BY <1>2 DEF OnlyContainers, Enabled
<1> QED
  BY <1>3, <1>4, <1>5, <1>6, <1>7, <1>8, <1>9, <1>10, <1>11 DEF Next, Environment

-----------------------------------------------------------------------------
(***************************************************************************)
(* The events of AWS.                                                       *)
(***************************************************************************)
AwsAlone == config.enabled = {"aws"} /\ crashes = 0 /\ config.started = {}
NoPodPhases == \A c \in Containers : phase[c] \notin {"waiting", "ending"}
AwsFollows == EventsFollowPhases /\ RunningFollowsEvents /\ WorkFollowsEvent

LEMMA AnEvent ==
    ASSUME AwsInv, NEW n \in 1..Len(messages)
    PROVE  /\ messages[n] \in Message /\ messages[n].container \in Containers
           /\ messages[n].state \in {"PENDING", "RUNNING", "STOPPED"}
<1>1. messages \in Seq(Message)
  BY DEF AwsInv, AwsTypeOK
<1>2. messages[n] \in Message
  BY <1>1
<1> QED
  BY <1>2 DEF Message

(* An event is sent with each step of a container. *)
LEMMA EventSays ==
    ASSUME NEW c \in Containers, NEW p
    PROVE  LET e == handleEcsEvent(c, p) IN
           /\ e.container = c
           /\ p = "pending" => e.state = "PENDING" /\ e.reference = Untagged
           /\ p = "running" => e.state = "RUNNING" /\ e.reference = config.image[c]
           /\ p = "gone" => e.state = "STOPPED" /\ e.reference = config.image[c]
BY DEF handleEcsEvent

LEMMA SentEvent ==
    ASSUME AwsInv, NEW e, messages' = Append(messages, e)
    PROVE  /\ Len(messages) \in Nat /\ Len(messages') = Len(messages) + 1
           /\ \A n \in 1..Len(messages) : messages'[n] = messages[n]
           /\ messages'[Len(messages) + 1] = e
           /\ messages' # <<>>
           /\ messages # <<>> => request' = request
<1>1. messages \in Seq(Message) /\ Len(messages) \in Nat
  BY DEF AwsInv, AwsTypeOK
<1> QED
  BY <1>1 DEF request

LEMMA StillAnnounced ==
    ASSUME AwsInv, NEW e, messages' = Append(messages, e),
           NEW c, NEW state, NEW from \in Nat \ {0}, Announced(c, state, from)
    PROVE  Announced(c, state, from)'
<1>1. PICK n \in from..Len(messages) : messages[n].container = c /\ messages[n].state = state
  BY DEF Announced
<1>2. n \in 1..Len(messages) /\ n \in from..Len(messages')
  BY <1>1, SentEvent
<1> QED
  BY <1>1, <1>2, SentEvent DEF Announced

(* What a container does in ECS. *)
LEMMA AwsSteps ==
    ASSUME AwsAlone, NoPodPhases, NEW c \in Containers, NEW p \in Follows(phase[c])
    PROVE  /\ p \in {"pending", "running", "gone"} /\ p # phase[c]
           /\ phase[c] # "gone" /\ (phase[c] = "running" => p = "gone")
           /\ p # "pending" => phase[c] \in {"pending", "running"}
BY DEF AwsAlone, NoPodPhases, Follows, Enabled

LEMMA EventIsSent ==
    ASSUME DiscoveryInv, AwsAlone, NoPodPhases, EventsFollowPhases,
           NEW d \in Containers, ContainerChanges(d)
    PROVE  NoPodPhases' /\ EventsFollowPhases'
<1>1. PICK p \in Follows(phase[d]) : phase' = [phase EXCEPT ![d] = p] /\ Send(d, p)
  BY DEF ContainerChanges
<1>0. PICK e : e = handleEcsEvent(d, p)
  OBVIOUS
<1>2. messages' = Append(messages, e) /\ config' = config
  BY <1>0, <1>1 DEF Send, AwsAlone, Enabled, ContainerChanges
<1>3. \A c \in Containers : phase'[c] = IF c = d THEN p ELSE phase[c]
  BY <1>1 DEF DiscoveryInv, ContainerTyped
<1>4. /\ p \in {"pending", "running", "gone"} /\ phase[d] # "gone"
      /\ phase[d] = "running" => p = "gone"
  BY <1>1, AwsSteps
<1>5. AwsInv
  BY DEF DiscoveryInv
<1>6. /\ e.container = d
      /\ p = "pending" => e.state = "PENDING" /\ e.reference = Untagged
      /\ p = "running" => e.state = "RUNNING" /\ e.reference = config.image[d]
      /\ p = "gone" => e.state = "STOPPED" /\ e.reference = config.image[d]
  BY <1>0, EventSays
<1>7. /\ Len(messages) \in Nat /\ Len(messages') = Len(messages) + 1
      /\ \A n \in 1..Len(messages) : messages'[n] = messages[n]
      /\ messages'[Len(messages) + 1] = e
  BY <1>2, <1>5, SentEvent
<1>8. NoPodPhases'
  BY <1>3, <1>4 DEF NoPodPhases
<1> DEFINE Sound(m, n) ==
             /\ m.state = "PENDING" => m.reference = Untagged
             /\ m.state # "PENDING" => m.reference = config.image[m.container]
             /\ m.state = "RUNNING" => phase'[m.container] \in {"running", "gone"}
             /\ m.state = "STOPPED" => phase'[m.container] = "gone"
             /\ m.state = "RUNNING" /\ phase'[m.container] = "gone"
                    => \E k \in n + 1..Len(messages') :
                           messages'[k].container = m.container /\ messages'[k].state = "STOPPED"
<1>9. ASSUME NEW n \in 1..Len(messages')
      PROVE  Sound(messages'[n], n)
  <2>1. CASE n = Len(messages) + 1
    BY <1>3, <1>4, <1>6, <1>7, <2>1
  <2>2. CASE n \in 1..Len(messages)
    <3>0. PICK m : m = messages[n]
      OBVIOUS
    <3>1. messages'[n] = m /\ m.container \in Containers
      BY <1>5, <1>7, <2>2, <3>0, AnEvent
    <3>2. /\ m.state = "PENDING" => m.reference = Untagged
          /\ m.state # "PENDING" => m.reference = config.image[m.container]
          /\ m.state = "RUNNING" => phase[m.container] \in {"running", "gone"}
          /\ m.state = "STOPPED" => phase[m.container] = "gone"
          /\ m.state = "RUNNING" /\ phase[m.container] = "gone"
                 => Announced(m.container, "STOPPED", n + 1)
      BY <2>2, <3>0 DEF EventsFollowPhases
    <3>3. CASE m.container # d
      <4>1. phase'[m.container] = phase[m.container]
        BY <1>3, <3>1, <3>3
      <4>2. n + 1 \in Nat \ {0}
        BY <1>7, <2>2
      <4>3. Announced(m.container, "STOPPED", n + 1) => Announced(m.container, "STOPPED", n + 1)'
        BY <1>2, <1>5, <4>2, StillAnnounced
      <4> QED
        BY <3>1, <3>2, <4>1, <4>3 DEF Announced
    <3>4. CASE m.container = d
      <4>1. m.state # "STOPPED" /\ (m.state = "RUNNING" => p = "gone")
        BY <1>4, <3>2, <3>4
      <4>2. phase'[d] = p
        BY <1>3
      <4>3. p = "gone" => Announced(d, "STOPPED", n + 1)'
        <5>1. Len(messages) + 1 \in (n + 1)..Len(messages')
          BY <1>7, <2>2
        <5> QED
          BY <1>6, <1>7, <5>1 DEF Announced
      <4> QED
        BY <3>1, <3>2, <3>4, <4>1, <4>2, <4>3 DEF Announced
    <3> QED
      BY <3>3, <3>4
  <2> QED
    BY <1>7, <1>9, <2>1, <2>2
<1>10. EventsFollowPhases'
  BY <1>2, <1>9 DEF EventsFollowPhases, Announced
<1> QED
  BY <1>8, <1>10

LEMMA ChangesAreAnnounced ==
    ASSUME DiscoveryInv, AwsAlone, NoPodPhases, AwsFollows,
           NEW d \in Containers, ContainerChanges(d)
    PROVE  RunningFollowsEvents' /\ WorkFollowsEvent'
<1>1. PICK p \in Follows(phase[d]) : phase' = [phase EXCEPT ![d] = p] /\ Send(d, p)
  BY DEF ContainerChanges
<1>0. PICK e : e = handleEcsEvent(d, p)
  OBVIOUS
<1>2. messages' = Append(messages, e)
      /\ UNCHANGED <<config, RunningContainers, work, imageScans>>
  BY <1>0, <1>1 DEF Send, AwsAlone, Enabled, ContainerChanges
<1>3. \A c \in Containers : phase'[c] = IF c = d THEN p ELSE phase[c]
  BY <1>1 DEF DiscoveryInv, ContainerTyped
<1>4. p \in {"pending", "running", "gone"} /\ (phase[d] = "running" => p = "gone")
  BY <1>1, AwsSteps
<1>5. AwsInv
  BY DEF DiscoveryInv
<1>6. e.container = d /\ (p = "running" => e.state = "RUNNING") /\ (p = "gone" => e.state = "STOPPED")
  BY <1>0, EventSays
<1>7. /\ Len(messages) \in Nat /\ Len(messages') = Len(messages) + 1
      /\ messages'[Len(messages) + 1] = e
      /\ messages' # <<>> /\ (messages # <<>> => request' = request)
  BY <1>2, <1>5, SentEvent
<1>8. \A c, s : Announced(c, s, 1) => Announced(c, s, 1)'
  BY <1>2, <1>5, StillAnnounced
<1>9. /\ p = "running" => Announced(d, "RUNNING", 1)'
      /\ p = "gone" => Announced(d, "STOPPED", 1)'
  <2>1. Len(messages) + 1 \in 1..Len(messages')
    BY <1>7
  <2> QED
    BY <1>6, <1>7, <2>1 DEF Announced
<1>10. \A c \in Containers : Runs(c)' <=> Runs(c)
  BY <1>2 DEF Runs, RunningWith
<1>11. RunningFollowsEvents'
  BY <1>2, <1>3, <1>4, <1>8, <1>9, <1>10 DEF AwsFollows, RunningFollowsEvents
<1>12. CASE messages # <<>>
  BY <1>2, <1>7, <1>11, <1>12 DEF AwsFollows, WorkFollowsEvent, Runs, RunningWith, InStep, Received
<1>13. CASE messages = <<>>
  <2>1. work = "none"
    BY <1>5, <1>13 DEF AwsInv, EventsNameImages, AwsTypeOK
  <2> QED
    BY <1>2, <1>11, <1>13, <2>1 DEF AwsFollows, WorkFollowsEvent, RunningWith, InStep
<1> QED
  BY <1>11, <1>12, <1>13

-----------------------------------------------------------------------------
(* The first event of the queue. *)
LEMMA FirstEvent ==
    ASSUME AwsInv, EventsFollowPhases, messages # <<>>
    PROVE  /\ 1 \in 1..Len(messages) /\ request = messages[1]
           /\ request.container \in Containers
           /\ request.state \in {"PENDING", "RUNNING", "STOPPED"}
           /\ request.state = "PENDING" => request.reference = Untagged
           /\ request.state # "PENDING" => request.reference = config.image[request.container]
                                           /\ request.reference \in Images
           /\ request.state = "RUNNING" => phase[request.container] \in {"running", "gone"}
           /\ request.state = "STOPPED" => phase[request.container] = "gone"
           /\ request.state = "RUNNING" /\ phase[request.container] = "gone"
                  => Announced(request.container, "STOPPED", 2)
<1>1. /\ request = messages[1] /\ 1 \in 1..Len(messages)
      /\ request.state \in {"RUNNING", "STOPPED"} => request.reference \in Images
  BY RequestTyped
<1>2. 1 + 1 = 2
  OBVIOUS
<1> QED
  BY <1>1, <1>2, AnEvent DEF EventsFollowPhases

LEMMA RunningIs ==
    ASSUME NEW i, NEW set, RunningContainers' = WithRunning(i, set)
    PROVE  /\ DOMAIN RunningContainers' = DOMAIN RunningContainers \cup {i}
           /\ RunningWith(i)' = set
           /\ \A j : j # i => RunningWith(j)' = RunningWith(j)
           /\ \A j \in DOMAIN RunningContainers' : RunningContainers'[j] = RunningWith(j)'
BY DEF WithRunning, RunningWith

LEMMA ReceiveRunning ==
    ASSUME DiscoveryInv, AwsFollows, ReceiveMessage, request.state = "RUNNING"
    PROVE  AwsFollows'
<1>1. messages # <<>> /\ UNCHANGED <<workload, imageScans, messages>> /\ handleCreateRequest
      /\ work = "none"
  BY DEF ReceiveMessage, handleDeleteRequest
<1>0. PICK i, c : i = request.reference /\ c = request.container
  OBVIOUS
<1>2. /\ c \in Containers /\ i = config.image[c] /\ i \in Images
      /\ phase[c] = "running" \/ Announced(c, "STOPPED", 2)
  BY <1>0, <1>1, FirstEvent DEF DiscoveryInv, AwsFollows
<1>3. /\ RunningContainers' = WithRunning(i, RunningWith(i) \cup {c}) /\ work' = "create"
      /\ request' = request /\ UNCHANGED <<config, phase>>
  BY <1>0, <1>1 DEF handleCreateRequest, request, workload
<1>4. /\ DOMAIN RunningContainers' = DOMAIN RunningContainers \cup {i}
      /\ RunningWith(i)' = RunningWith(i) \cup {c}
      /\ \A j : j # i => RunningWith(j)' = RunningWith(j)
      /\ \A j \in DOMAIN RunningContainers' : RunningContainers'[j] = RunningWith(j)'
  BY <1>3, RunningIs
<1>5. \A d \in Containers : Runs(d)' <=> (Runs(d) \/ d = c)
  BY <1>2, <1>3, <1>4 DEF Runs
<1>6. \A d, s, n : Announced(d, s, n)' <=> Announced(d, s, n)
  BY <1>1 DEF Announced
<1>7. Announced(c, "STOPPED", 2) => Announced(c, "STOPPED", 1)
  BY DEF Announced
<1>8. EventsFollowPhases'
  BY <1>1, <1>3, <1>6 DEF AwsFollows, EventsFollowPhases
<1>9. RunningFollowsEvents'
  <2>1. \A j \in DOMAIN RunningContainers', d \in Containers :
            d \in RunningContainers'[j] => config.image[d] = j
    BY <1>2, <1>4 DEF AwsFollows, RunningFollowsEvents, RunningWith
  <2> QED
    BY <1>2, <1>3, <1>5, <1>6, <1>7, <2>1 DEF AwsFollows, RunningFollowsEvents
<1>10. WorkFollowsEvent'
  <2>1. imageScans' \subseteq DOMAIN RunningContainers'
    BY <1>1, <1>4 DEF AwsFollows, WorkFollowsEvent
  <2>2. request'.state = "RUNNING" /\ Runs(request.container)' /\ request'.reference = i
    <3>1. Runs(c)'
      BY <1>2, <1>5
    <3> QED
      BY <1>0, <1>3, <3>1 DEF Runs, RunningWith
  <2>3. \A j \in Images : j # i => InStep(j)'
    BY <1>0, <1>1, <1>3, <1>4 DEF AwsFollows, WorkFollowsEvent, InStep
  <2> QED
    BY <1>1, <1>3, <2>1, <2>2, <2>3 DEF WorkFollowsEvent, Received
<1> QED
  BY <1>8, <1>9, <1>10 DEF AwsFollows

(* The end of a container, or a container without an image yet. *)
LEMMA ReceiveOthers ==
    ASSUME DiscoveryInv, AwsFollows, ReceiveMessage, request.state # "RUNNING"
    PROVE  AwsFollows'
<1>1. messages # <<>> /\ UNCHANGED <<workload, imageScans, messages>> /\ handleDeleteRequest
      /\ work = "none"
  BY DEF ReceiveMessage, handleCreateRequest
<1>2. AwsInv /\ AwsTypeOK
  BY DEF DiscoveryInv, AwsInv
<1>3. PICK i, c : i = request.reference /\ c = request.container
  OBVIOUS
<1>4. /\ c \in Containers /\ request.state \in {"PENDING", "STOPPED"}
      /\ request.state = "PENDING" => i = Untagged
      /\ request.state = "STOPPED" => i = config.image[c] /\ i \in Images /\ phase[c] = "gone"
  BY <1>1, <1>2, <1>3, FirstEvent DEF AwsFollows
<1>5. request' = request /\ UNCHANGED <<config, phase, imageScans>>
  BY <1>1 DEF request, workload
<1>6. \A d, s, n : Announced(d, s, n)' <=> Announced(d, s, n)
  BY <1>1 DEF Announced
<1>7. EventsFollowPhases'
  BY <1>1, <1>5, <1>6 DEF AwsFollows, EventsFollowPhases
<1>8. /\ imageScans \subseteq DOMAIN RunningContainers /\ DOMAIN RunningContainers \subseteq Images
      /\ \A j \in Images : InStep(j)
                           \/ (j = i /\ request.state = "STOPPED" /\ RunningWith(i) = {})
  BY <1>2, <1>3, <1>4 DEF AwsFollows, WorkFollowsEvent, Received, AwsTypeOK
<1>9. CASE i \notin DOMAIN RunningContainers
  <2>1. work' = "acknowledge" /\ UNCHANGED RunningContainers
    BY <1>1, <1>3, <1>9 DEF handleDeleteRequest
  <2>2. RunningFollowsEvents'
    BY <1>5, <1>6, <2>1 DEF AwsFollows, RunningFollowsEvents, Runs, RunningWith
  <2>3. RunningWith(i) = {} /\ i \notin imageScans
    BY <1>8, <1>9 DEF RunningWith
  <2>4. \A j \in Images : InStep(j)
    BY <1>8, <2>3 DEF InStep
  <2>5. \A j \in Images : InStep(j)'
    BY <1>5, <2>1, <2>4 DEF InStep, RunningWith
  <2>6. request.state = "STOPPED" => ~Runs(c)
    BY <1>4, <2>3 DEF Runs
  <2>7. request'.state = "STOPPED" => ~Runs(request.container)'
    BY <1>3, <1>5, <2>1, <2>6 DEF Runs, RunningWith
  <2>8. WorkFollowsEvent'
    BY <1>4, <1>5, <1>8, <2>1, <2>5, <2>7 DEF WorkFollowsEvent
  <2> QED
    BY <1>7, <2>2, <2>8 DEF AwsFollows
<1>10. CASE i \in DOMAIN RunningContainers
  <2>1. request.state = "STOPPED"
    BY <1>4, <1>8, <1>10, UntaggedAssumption
  <2>2. i = config.image[c] /\ i \in Images /\ phase[c] = "gone"
    BY <1>4, <2>1
  <2>3. PICK others : others = RunningWith(i) \ {c}
    OBVIOUS
  <2>4. /\ RunningContainers' = WithRunning(i, others)
        /\ work' = IF others = {} THEN "delete" ELSE "acknowledge"
    BY <1>1, <1>3, <1>10, <2>3 DEF handleDeleteRequest
  <2>5. /\ DOMAIN RunningContainers' = DOMAIN RunningContainers \cup {i}
        /\ RunningWith(i)' = others
        /\ \A j : j # i => RunningWith(j)' = RunningWith(j)
        /\ \A j \in DOMAIN RunningContainers' : RunningContainers'[j] = RunningWith(j)'
    BY <2>4, RunningIs
  <2>6. \A d \in Containers : Runs(d)' <=> (Runs(d) /\ d # c)
    BY <1>5, <2>2, <2>3, <2>5 DEF Runs
  <2>7. RunningFollowsEvents'
    <3>1. \A j \in DOMAIN RunningContainers', d \in Containers :
              d \in RunningContainers'[j] => config.image[d] = j
      BY <2>2, <2>3, <2>5 DEF AwsFollows, RunningFollowsEvents, RunningWith
    <3> QED
      BY <1>5, <1>6, <2>2, <2>6, <3>1 DEF AwsFollows, RunningFollowsEvents
  <2>8. \A j \in Images : j # i => InStep(j)'
    BY <1>5, <1>8, <2>5 DEF InStep
  <2>9. others # {} => InStep(i)'
    BY <1>5, <1>8, <2>2, <2>3, <2>5 DEF InStep
  <2>10. ~Runs(request.container)'
    <3>1. ~Runs(c)'
      BY <1>4, <2>6
    <3> QED
      BY <1>3, <1>5, <3>1 DEF Runs, RunningWith
  <2>11. others = {} => RunningWith(request.reference)' = {}
    BY <1>3, <1>5, <2>5 DEF RunningWith
  <2>12. request'.state = "STOPPED" /\ request'.reference = i
    BY <1>3, <1>5, <2>1
  <2>13. imageScans' \subseteq DOMAIN RunningContainers'
    BY <1>5, <1>8, <2>5
  <2>14. ASSUME others = {} PROVE WorkFollowsEvent'
    BY <1>1, <2>4, <2>8, <2>10, <2>11, <2>12, <2>13, <2>14 DEF WorkFollowsEvent, Received
  <2>15. ASSUME others # {} PROVE WorkFollowsEvent'
    BY <2>4, <2>8, <2>9, <2>10, <2>12, <2>13, <2>15 DEF WorkFollowsEvent
  <2>16. WorkFollowsEvent'
    BY <2>14, <2>15
  <2> QED
    BY <1>7, <2>7, <2>16 DEF AwsFollows
<1> QED
  BY <1>9, <1>10

LEMMA CallFollows ==
    ASSUME DiscoveryInv, AwsFollows, CallKubernetes
    PROVE  AwsFollows'
<1>1. /\ work \in {"create", "delete"} /\ work' \in {"acknowledge", "none"}
      /\ UNCHANGED <<config, phase, messages, RunningContainers>> /\ request' = request
  BY DEF CallKubernetes, workload, request
<1>2. messages # <<>> /\ request.reference \in Images
  BY <1>1 DEF DiscoveryInv, AwsInv, EventsNameImages
<1>3. PICK i, c : i = request.reference /\ c = request.container
  OBVIOUS
<1>4. /\ c \in Containers /\ (request.state # "PENDING" => i = config.image[c])
  BY <1>2, <1>3, FirstEvent DEF DiscoveryInv, AwsFollows
<1>5. /\ work = "create" => request.state = "RUNNING" /\ c \in RunningWith(i)
      /\ work = "delete" => request.state = "STOPPED" /\ RunningWith(i) = {}
  BY <1>3, <1>4 DEF AwsFollows, WorkFollowsEvent, Runs
<1>6. Runs(c) <=> work = "create"
  BY <1>1, <1>4, <1>5 DEF Runs
<1>7. /\ imageScans' \in {imageScans, IF work = "create" THEN imageScans \cup {i} ELSE imageScans \ {i}}
      /\ work' = "acknowledge" => (i \in imageScans' <=> work = "create")
  BY <1>1, <1>3 DEF CallKubernetes
<1>8. EventsFollowPhases' /\ RunningFollowsEvents'
  BY <1>1 DEF AwsFollows, EventsFollowPhases, RunningFollowsEvents, Announced, Runs, RunningWith
<1>9. imageScans' \subseteq DOMAIN RunningContainers'
  BY <1>1, <1>5, <1>7 DEF AwsFollows, WorkFollowsEvent, RunningWith
<1>10. Runs(request.container)' <=> work = "create"
  BY <1>1, <1>3, <1>6 DEF Runs, RunningWith
<1>11. work = "delete" => RunningWith(request.reference)' = {}
  BY <1>1, <1>3, <1>5 DEF RunningWith
<1>12. \A j \in Images : j # i => InStep(j)
  BY <1>3 DEF AwsFollows, WorkFollowsEvent
<1>13. \A j \in Images : j # i => InStep(j)'
  BY <1>1, <1>7, <1>12 DEF InStep, RunningWith
<1>14. work' = "acknowledge" => InStep(i)'
  BY <1>1, <1>5, <1>7 DEF InStep, RunningWith
<1>15. work' # "acknowledge" => Received'
  BY <1>1, <1>5, <1>10, <1>11 DEF Received
<1>16. WorkFollowsEvent'
  BY <1>1, <1>2, <1>3, <1>5, <1>9, <1>10, <1>13, <1>14, <1>15 DEF WorkFollowsEvent
<1> QED
  BY <1>8, <1>16 DEF AwsFollows

LEMMA Acknowledged ==
    ASSUME DiscoveryInv, AwsFollows, deleteMessageFromQueue
    PROVE  AwsFollows'
<1>1. /\ work = "acknowledge" /\ work' = "none" /\ messages' \in {messages, Tail(messages)}
      /\ UNCHANGED <<config, phase, imageScans, RunningContainers>>
  BY DEF deleteMessageFromQueue, workload
<1>2. AwsInv /\ messages # <<>> /\ messages \in Seq(Message) /\ Len(messages) \in Nat
  BY <1>1 DEF DiscoveryInv, AwsInv, AwsTypeOK, EventsNameImages
<1>3. \A c : Runs(c)' <=> Runs(c)
  BY <1>1 DEF Runs, RunningWith
<1>4. WorkFollowsEvent'
  <2>1. \A j \in Images : InStep(j)
    BY <1>1 DEF AwsFollows, WorkFollowsEvent
  <2>2. \A j \in Images : InStep(j)'
    BY <1>1, <2>1 DEF InStep, RunningWith
  <2> QED
    BY <1>1, <2>2 DEF AwsFollows, WorkFollowsEvent
<1>5. CASE messages' = messages
  <2>1. EventsFollowPhases' /\ RunningFollowsEvents'
    BY <1>1, <1>5 DEF AwsFollows, EventsFollowPhases, RunningFollowsEvents, Announced, Runs, RunningWith
  <2> QED
    BY <1>4, <2>1 DEF AwsFollows
<1>6. CASE messages' = Tail(messages)
  <2>1. /\ Len(messages') = Len(messages) - 1 /\ Len(messages) >= 1
        /\ \A n \in 1..Len(messages') : messages'[n] = messages[n + 1]
    BY <1>2, <1>6
  <2>2. ASSUME NEW c, NEW s, NEW n \in Nat \ {0}, Announced(c, s, n + 1)
        PROVE  Announced(c, s, n)'
    <3>1. PICK m \in n + 1..Len(messages) : messages[m].container = c /\ messages[m].state = s
      BY <2>2 DEF Announced
    <3>2. m - 1 \in n..Len(messages') /\ m - 1 \in 1..Len(messages') /\ (m - 1) + 1 = m
      BY <1>2, <2>1, <3>1
    <3> QED
      BY <2>1, <3>1, <3>2 DEF Announced
  <2>3. EventsFollowPhases'
    <3> SUFFICES ASSUME NEW n \in 1..Len(messages')
                 PROVE  LET e == messages[n + 1] IN
                        /\ e.state = "PENDING" => e.reference = Untagged
                        /\ e.state # "PENDING" => e.reference = config.image[e.container]
                        /\ e.state = "RUNNING" => phase[e.container] \in {"running", "gone"}
                        /\ e.state = "STOPPED" => phase[e.container] = "gone"
                        /\ e.state = "RUNNING" /\ phase[e.container] = "gone"
                             => \E k \in n + 1..Len(messages') :
                                   messages'[k].container = e.container /\ messages'[k].state = "STOPPED"
      BY <1>1, <2>1 DEF EventsFollowPhases, Announced
    <3>1. n + 1 \in 1..Len(messages) /\ n + 1 \in Nat \ {0}
      BY <1>2, <2>1
    <3>2. PICK e : e = messages[n + 1]
      OBVIOUS
    <3>3. /\ e.state = "PENDING" => e.reference = Untagged
          /\ e.state # "PENDING" => e.reference = config.image[e.container]
          /\ e.state = "RUNNING" => phase[e.container] \in {"running", "gone"}
          /\ e.state = "STOPPED" => phase[e.container] = "gone"
          /\ e.state = "RUNNING" /\ phase[e.container] = "gone"
                 => Announced(e.container, "STOPPED", (n + 1) + 1)
      BY <3>1, <3>2 DEF AwsFollows, EventsFollowPhases
    <3>4. Announced(e.container, "STOPPED", (n + 1) + 1) => Announced(e.container, "STOPPED", n + 1)'
      BY <2>2, <3>1
    <3> QED
      BY <3>2, <3>3, <3>4 DEF Announced
  <2>4. ASSUME NEW c, NEW s, Announced(c, s, 1)
        PROVE  Announced(c, s, 1)' \/ (request.container = c /\ request.state = s)
    <3>1. PICK m \in 1..Len(messages) : messages[m].container = c /\ messages[m].state = s
      BY <2>4 DEF Announced
    <3>2. CASE m = 1
      BY <1>2, <3>1, <3>2 DEF request
    <3>3. CASE m # 1
      <4>1. m \in 1 + 1..Len(messages)
        BY <1>2, <3>1, <3>3
      <4>2. Announced(c, s, 1 + 1)
        BY <3>1, <4>1 DEF Announced
      <4> QED
        BY <2>2, <4>2
    <3> QED
      BY <3>2, <3>3
  <2>5. /\ request.state = "RUNNING" => Runs(request.container)
        /\ request.state = "STOPPED" => ~Runs(request.container)
    BY <1>1 DEF AwsFollows, WorkFollowsEvent
  <2>6. /\ \A c \in Containers : phase[c] = "running" => Runs(c) \/ Announced(c, "RUNNING", 1)'
        /\ \A c \in Containers : Runs(c) => phase[c] = "running" \/ Announced(c, "STOPPED", 1)'
    BY <2>4, <2>5 DEF AwsFollows, RunningFollowsEvents
  <2>7. RunningFollowsEvents'
    BY <1>1, <1>3, <2>6 DEF AwsFollows, RunningFollowsEvents
  <2> QED
    BY <1>4, <2>3, <2>7 DEF AwsFollows
<1> QED
  BY <1>1, <1>5, <1>6

LEMMA AwsKept ==
    ASSUME DiscoveryInv, AwsConverges, [Next]_vars PROVE AwsConverges'
<1> SUFFICES ASSUME AwsAlone' PROVE NoPodPhases' /\ AwsFollows'
  BY DEF AwsConverges, AwsAlone, NoPodPhases, AwsFollows
<1>1. CASE UNCHANGED vars
  <2>1. UNCHANGED <<config, phase, imageScans, crashes, messages, RunningContainers, work>>
    BY <1>1 DEF vars, workload, awsVars, bounds
  <2> QED
    BY <2>1 DEF AwsConverges, AwsAlone, NoPodPhases, AwsFollows, EventsFollowPhases,
                RunningFollowsEvents, WorkFollowsEvent, Announced, Runs, RunningWith, InStep,
                Received, request
<1>2. CASE Crash
  BY <1>2 DEF Crash, AwsAlone, DiscoveryInv, ContainerTyped
<1>3. ASSUME NEW c \in Containers, ContainerChanges(c)
      PROVE  NoPodPhases' /\ AwsFollows'
  <2>1. AwsAlone
    BY <1>3 DEF AwsAlone, ContainerChanges, bounds
  <2>2. NoPodPhases /\ AwsFollows
    BY <2>1 DEF AwsConverges, AwsAlone, NoPodPhases, AwsFollows
  <2> QED
    BY <1>3, <2>1, <2>2, EventIsSent, ChangesAreAnnounced DEF AwsFollows
<1>4. ASSUME NEW c \in Containers, Deliver(c) PROVE FALSE
  BY <1>4 DEF Deliver, AwsAlone, Enabled
<1>5. CASE \E t \in ScanTypes : InstallScanType(t)
  <2>1. UNCHANGED <<config, phase, imageScans, crashes, messages, RunningContainers, work>>
    BY <1>5 DEF InstallScanType, awsVars, bounds
  <2> QED
    BY <2>1 DEF AwsConverges, AwsAlone, NoPodPhases, AwsFollows, EventsFollowPhases,
                RunningFollowsEvents, WorkFollowsEvent, Announced, Runs, RunningWith, InStep,
                Received, request
<1>6. CASE Enabled("aws") /\ AwsNext /\ UNCHANGED <<containerVars, serviceVars>>
  <2>1. UNCHANGED <<config, phase, crashes>>
    BY <1>6 DEF AwsNext, ReceiveMessage, CallKubernetes, deleteMessageFromQueue, workload, bounds
  <2>2. AwsAlone /\ NoPodPhases /\ AwsFollows
    BY <2>1 DEF AwsConverges, AwsAlone, NoPodPhases, AwsFollows
  <2>3. NoPodPhases'
    BY <2>1, <2>2 DEF NoPodPhases
  <2> QED
    BY <1>6, <2>2, <2>3, ReceiveRunning, ReceiveOthers, CallFollows, Acknowledged DEF AwsNext
<1>7. CASE Enabled("container") /\ ContainerNext
  <2>1. config' = config
    BY <1>7 DEF ContainerNext, ReconcilePod, CreateOrDelete, SyncImageScans, ResyncPods, workload
  <2> QED
    BY <1>7, <2>1 DEF AwsAlone, Enabled
<1>8. CASE Enabled("service") /\ ServiceNext
  <2>1. config' = config
    BY <1>8, ServiceStepFrame DEF DiscoveryInv, workload
  <2> QED
    BY <1>8, <2>1 DEF AwsAlone, Enabled
<1> QED
  BY <1>1, <1>2, <1>3, <1>4, <1>5, <1>6, <1>7, <1>8 DEF Next, Environment

-----------------------------------------------------------------------------
LEMMA ConvergenceStarts ==
    ASSUME Init PROVE ContainersConverge /\ AwsConverges
<1>1. /\ config \in Configs /\ imageScans = {} /\ call = NoCall /\ seen = phase
      /\ \A c \in Containers : phase[c] = IF c \in config.started THEN "running" ELSE "none"
      /\ OnlyContainers => podQueue = config.started
      /\ messages = <<>> /\ RunningContainers = NoContainers /\ work = "none"
  BY DEF Init, WorkloadInit, ContainerInit, AwsInit, OnlyContainers, Enabled
<1>2. ContainersConverge
  <2>1. OnlyContainers => NoneMissing
    BY <1>1 DEF NoneMissing, Unmanaged, Scanned
  <2>2. NoneLeftOver
    BY <1>1, CallsApart DEF NoneLeftOver
  <2> QED
    BY <2>1, <2>2 DEF ContainersConverge
<1>3. \A j : RunningWith(j) = {}
  BY <1>1 DEF RunningWith, NoContainers
<1>4. Len(messages) = 0 /\ DOMAIN RunningContainers = {}
  BY <1>1 DEF NoContainers
<1>5. config.started = {} => NoPodPhases /\ AwsFollows
  <2>1. NoPodPhases
    BY <1>1 DEF NoPodPhases
  <2>2. EventsFollowPhases
    BY <1>4 DEF EventsFollowPhases
  <2>3. config.started = {} => RunningFollowsEvents
    BY <1>1, <1>3, <1>4 DEF RunningFollowsEvents, Runs
  <2>4. WorkFollowsEvent
    BY <1>1, <1>3, <1>4 DEF WorkFollowsEvent, InStep
  <2> QED
    BY <2>1, <2>2, <2>3, <2>4 DEF AwsFollows
<1> QED
  BY <1>2, <1>5 DEF AwsConverges, NoPodPhases, AwsFollows

LEMMA MatchAtRest ==
    ASSUME DiscoveryInv, ContainersConverge, AwsConverges PROVE ScansMatchAtRest
<1>1. /\ imageScans \subseteq Images /\ config.image \in [Containers -> Images]
      /\ Unmanaged \subseteq Containers
  BY ConfigTyped DEF DiscoveryInv, ContainerTyped, Unmanaged
<1>2. ASSUME ContainersAtRest, config.fresh, faults = 0
      PROVE  /\ RunningImages({c \in Unmanaged : createScheduledScans(c)}) \subseteq imageScans
             /\ config.graceful /\ ManagedApart => imageScans \subseteq RunningImages(Unmanaged)
  <2>1. /\ NoneMissing /\ (config.graceful /\ ManagedApart => NoneLeftOver)
        /\ seen = phase /\ podQueue = {} /\ call = NoCall
    BY <1>2 DEF ContainersConverge, ContainersAtRest, OnlyContainers
  <2>2. RunningImages({c \in Unmanaged : createScheduledScans(c)}) \subseteq imageScans
    BY <2>1, CallsApart DEF NoneMissing, Scanned, RunningImages
  <2>3. ASSUME NoneLeftOver, NEW i \in imageScans
        PROVE  i \in RunningImages(Unmanaged)
    <3>1. PICK c \in Unmanaged : Behind(c, i)
      BY <1>1, <2>3 DEF NoneLeftOver
    <3>2. phase[c] = "running" /\ config.image[c] = i
      BY <2>1, <3>1, CallsApart DEF Behind
    <3> QED
      BY <3>2 DEF RunningImages
  <2> QED
    BY <2>1, <2>2, <2>3
<1>3. ASSUME AwsAtRest, crashes = 0, config.started = {}
      PROVE  imageScans = RunningImages(Containers)
  <2>1. RunningFollowsEvents /\ WorkFollowsEvent /\ messages = <<>>
    BY <1>3 DEF AwsConverges, AwsAtRest
  <2>2. \A c, s : ~Announced(c, s, 1)
    BY <2>1 DEF Announced
  <2>3. \A c \in Containers : Runs(c) <=> phase[c] = "running"
    BY <2>1, <2>2 DEF RunningFollowsEvents
  <2>4. \A i \in Images : i \in imageScans <=> RunningWith(i) # {}
    BY <2>1 DEF WorkFollowsEvent, InStep
  <2>5. \A i \in Images : RunningWith(i) \subseteq Containers
    BY RunningTyped DEF DiscoveryInv, AwsInv
  <2>6. \A i \in Images, c \in Containers :
            c \in RunningWith(i) <=> config.image[c] = i /\ phase[c] = "running"
    BY <2>1, <2>3 DEF RunningFollowsEvents, Runs, RunningWith
  <2> QED
    BY <1>1, <2>4, <2>5, <2>6 DEF RunningImages
<1> QED
  BY <1>2, <1>3 DEF ScansMatchAtRest

(* Whenever a discovery has nothing left to do, the ScheduledScans are      *)
(* those of the images that run, for any number of containers and images    *)
(* and any interleaving: of Reconciles with pods that start and end and     *)
(* with restarts; and of ECS events with failed calls, half done or         *)
(* delivered again.                                                         *)
THEOREM ScansConverge == Spec => []ScansMatchAtRest
<1> DEFINE Converge == DiscoveryInv /\ ContainersConverge /\ AwsConverges
<1>1. Init => Converge
  BY DiscoveryStarts, ConvergenceStarts
<1>2. Converge /\ [Next]_vars => Converge'
  BY DiscoveryKept, ContainersKept, AwsKept
<1>3. Converge => ScansMatchAtRest
  BY MatchAtRest
<1> QED
  BY <1>1, <1>2, <1>3, PTL DEF Spec
=============================================================================
