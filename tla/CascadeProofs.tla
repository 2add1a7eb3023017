---------------------------- MODULE CascadeProofs ----------------------------
(***************************************************************************)
(* Theorems about CascadingScans, for cascades of any depth and width: they *)
(* do not loop, stay in scope, follow every match once and keep a rule's    *)
(* entries to the Scan it starts.                                           *)
(***************************************************************************)
EXTENDS CascadingScans, HookGroupsProofs

-----------------------------------------------------------------------------
(***************************************************************************)
(* The steps.                                                               *)
(***************************************************************************)
IsScan(s) == DOMAIN s = {"chain", "lists", "maps", "affinity", "scope",
                         "state", "attempt", "read", "todo", "lost"}

(* A Scan before and after a step of its hook.                              *)
SameSpec(s, t) ==
    /\ IsScan(t) /\ t.chain = s.chain /\ t.lists = s.lists /\ t.maps = s.maps
    /\ t.affinity = s.affinity /\ t.scope = s.scope

Starts(s, t) ==
    /\ s.state = "scanning" /\ t.state = "list rules" /\ t.attempt = s.attempt + 1
    /\ t.read = s.read /\ t.todo = s.todo /\ t.lost = s.lost
ListsRules(s, t) ==
    /\ s.state = "list rules" /\ t.state = "get rule" /\ t.read = ToSet(config.selected) \cap rules
    /\ t.attempt = s.attempt /\ t.todo = s.todo /\ t.lost = s.lost
FindsMatches(s, t) ==
    /\ s.state = "get rule" /\ ~Throws(s) /\ t.state = "create" /\ t.todo = getCascadingScans(s)
    /\ t.attempt = s.attempt /\ t.read = s.read /\ t.lost = s.lost
PassesOver(s, t) ==
    /\ s.state = "create" /\ s.todo # {} /\ t.state = s.state
    /\ t.todo = s.todo \ {FirstPlace(s.todo)} /\ t.lost = s.lost \cup {NextMatch(s)}
    /\ t.attempt = s.attempt /\ t.read = s.read
Finishes(s, t) ==
    /\ s.state = "create" /\ s.todo = {} /\ t.state = "done"
    /\ t.attempt = s.attempt /\ t.read = s.read /\ t.todo = s.todo /\ t.lost = s.lost
Exits(s, t) ==
    /\ s.state \in {"list rules", "get rule", "create"}
    /\ t.read = {} /\ t.todo = {} /\ t.lost = s.lost
    /\ \/ s.attempt < config.attempts /\ t.state = "list rules" /\ t.attempt = s.attempt + 1
       \/ t.state = "failed" /\ t.attempt = s.attempt

Moves(s, t) ==
    /\ SameSpec(s, t)
    /\ \/ Starts(s, t) \/ ListsRules(s, t) \/ FindsMatches(s, t)
       \/ PassesOver(s, t) \/ Finishes(s, t) \/ Exits(s, t)

Moved(id) ==
    /\ DOMAIN scans' = DOMAIN scans
    /\ \A n \in DOMAIN scans : n # id => scans'[n] = scans[n]
    /\ Moves(scans[id], scans'[id])

NextChild(id) == Child(id, NextMatch(scans[id]))
Created(id) ==
    LET s == scans[id]
        t == scans'[id]
        match == NextMatch(s)
    IN  /\ s.state = "create" /\ s.todo # {}
        /\ DOMAIN scans' = DOMAIN scans \cup {NextChild(id)}
        /\ scans'[NextChild(id)] = getCascadingScan(s, match[1], match[2])
        /\ \A n \in DOMAIN scans : n # NextChild(id) /\ n # id => scans'[n] = scans[n]
        /\ NextChild(id) # id =>
              /\ SameSpec(s, t) /\ t.state = s.state /\ t.attempt = s.attempt /\ t.read = s.read
              /\ t.todo = s.todo \ {FirstPlace(s.todo)} /\ t.lost = s.lost

LEMMA UpdateMoves ==
    ASSUME NEW id \in DOMAIN scans, NEW t, Update(id, t), Moves(scans[id], t)
    PROVE  Moved(id)
BY DEF Update, Moved

LEMMA ExitMoves ==
    ASSUME NEW id \in DOMAIN scans, IsScan(scans[id]), Update(id, Exited(id)),
           scans[id].state \in {"list rules", "get rule", "create"}
    PROVE  Moved(id)
<1>1. SameSpec(scans[id], Exited(id))
  BY DEF SameSpec, IsScan, Exited, Started
<1>2. Exits(scans[id], Exited(id))
  BY DEF IsScan, Exited, Started, Exits
<1> QED
  BY <1>1, <1>2, UpdateMoves DEF Moves

LEMMA StepsAre ==
    ASSUME \A id \in DOMAIN scans : IsScan(scans[id]), Next
    PROVE  /\ config' = config /\ rules' \subseteq rules
           /\ kills' \in {kills, kills + 1} /\ faults' \in {faults, faults + 1}
           /\ \/ scans' = scans
              \/ \E id \in DOMAIN scans : Moved(id) \/ Created(id)
<1> DEFINE Rest1 == /\ config' = config /\ rules' \subseteq rules
                    /\ kills' \in {kills, kills + 1} /\ faults' \in {faults, faults + 1}
<1>1. ASSUME NEW id \in DOMAIN scans, HookStep(id) \/ PodKilled(id)
      PROVE  Rest1 /\ (Moved(id) \/ Created(id))
  <2> DEFINE s == scans[id]
  <2>0. IsScan(s)
    OBVIOUS
  <2>1. CASE ScanFinishes(id)
    <3> DEFINE t == Started(id, s)
    <3>1. SameSpec(s, t) /\ Starts(s, t)
      BY <2>0, <2>1 DEF ScanFinishes, Started, SameSpec, Starts, IsScan
    <3> QED
      BY <3>1, <2>1, UpdateMoves DEF ScanFinishes, Moves
  <2>2. CASE getCascadingRulesForScan(id)
    <3> DEFINE t == [s EXCEPT !.state = "get rule", !.read = ToSet(config.selected) \cap rules]
    <3>1. CASE Update(id, t) /\ UNCHANGED faults
      <4>1. SameSpec(s, t) /\ ListsRules(s, t)
        BY <2>0, <2>2 DEF getCascadingRulesForScan, SameSpec, ListsRules, IsScan
      <4> QED
        BY <4>1, <2>2, <3>1, UpdateMoves DEF getCascadingRulesForScan, Moves
    <3>2. CASE CallFails /\ Update(id, Exited(id))
      BY <2>0, <2>2, <3>2, ExitMoves DEF getCascadingRulesForScan, CallFails
    <3> QED
      BY <2>2, <3>1, <3>2 DEF getCascadingRulesForScan
  <2>3. CASE getCascadedRuleForScan(id)
    <3> DEFINE t == [s EXCEPT !.state = "create", !.todo = getCascadingScans(s)]
    <3>1. CASE ~Throws(s) /\ Update(id, t) /\ UNCHANGED faults
      <4>1. SameSpec(s, t) /\ FindsMatches(s, t)
        BY <2>0, <2>3, <3>1 DEF getCascadedRuleForScan, SameSpec, FindsMatches, IsScan
      <4> QED
        BY <4>1, <2>3, <3>1, UpdateMoves DEF getCascadedRuleForScan, Moves
    <3>2. CASE Update(id, Exited(id)) /\ (CallFails \/ UNCHANGED faults)
      BY <2>0, <2>3, <3>2, ExitMoves DEF getCascadedRuleForScan, CallFails
    <3> QED
      BY <2>3, <3>1, <3>2 DEF getCascadedRuleForScan
  <2>4. CASE startSubsequentSecureCodeBoxScan(id)
    <3>0. s.state = "create" /\ s.todo # {}
      BY <2>4 DEF startSubsequentSecureCodeBoxScan
    <3>1. CASE Creates(id, Rest(s)) /\ UNCHANGED faults
      <4>1. /\ SameSpec(s, Rest(s)) /\ Rest(s).state = s.state /\ Rest(s).attempt = s.attempt
            /\ Rest(s).read = s.read /\ Rest(s).lost = s.lost
            /\ Rest(s).todo = s.todo \ {FirstPlace(s.todo)}
        BY <2>0 DEF SameSpec, Rest, IsScan
      <4> HIDE DEF s
      <4>2. scans' = [n \in DOMAIN scans \cup {NextChild(id)} |->
                        IF n = NextChild(id)
                        THEN getCascadingScan(s, NextMatch(s)[1], NextMatch(s)[2])
                        ELSE IF n = id THEN Rest(s) ELSE scans[n]]
        BY <3>1 DEF Creates, NextChild, s
      <4>3. Created(id)
        BY <3>0, <4>1, <4>2 DEF Created, s
      <4> QED
        BY <2>4, <3>1, <4>3 DEF startSubsequentSecureCodeBoxScan
    <3>2. CASE CallFails /\ Update(id, [Rest(s) EXCEPT !.lost = @ \cup {NextMatch(s)}])
      <4> DEFINE t == [Rest(s) EXCEPT !.lost = @ \cup {NextMatch(s)}]
      <4>1. SameSpec(s, t) /\ PassesOver(s, t)
        BY <2>0, <3>0 DEF SameSpec, PassesOver, Rest, IsScan
      <4> QED
        BY <4>1, <2>4, <3>2, UpdateMoves DEF startSubsequentSecureCodeBoxScan, Moves, CallFails
    <3> QED
      BY <2>4, <3>1, <3>2 DEF startSubsequentSecureCodeBoxScan
  <2>5. CASE HookSucceeds(id)
    <3> DEFINE t == [s EXCEPT !.state = "done"]
    <3>1. SameSpec(s, t) /\ Finishes(s, t)
      BY <2>0, <2>5 DEF HookSucceeds, SameSpec, Finishes, IsScan
    <3> QED
      BY <3>1, <2>5, UpdateMoves DEF HookSucceeds, Moves
  <2>6. CASE PodKilled(id)
    BY <2>0, <2>6, ExitMoves DEF PodKilled
  <2> QED
    BY <1>1, <2>1, <2>2, <2>3, <2>4, <2>5, <2>6 DEF HookStep
<1>2. ASSUME NEW r \in Rules, RuleDeleted(r) PROVE Rest1 /\ scans' = scans
  BY <1>2 DEF RuleDeleted
<1> QED
  BY <1>1, <1>2 DEF Next
-----------------------------------------------------------------------------
(***************************************************************************)
(* Types.                                                                   *)
(***************************************************************************)
Typed ==
    /\ TypeOK
    /\ \A id \in DOMAIN scans :
          IsScan(scans[id]) /\ (scans[id].state = "scanning" => scans[id].attempt = 0)

LEMMA Configured ==
    ASSUME TypeOK
    PROVE  IsConfig(config)
BY ConfigAssumption DEF TypeOK

LEMMA FoundAreFindings ==
    ASSUME TypeOK, NEW id \in DOMAIN scans
    PROVE  FoundBy(scans[id]) \in Seq(Findings) /\ IsInjective(FoundBy(scans[id]))
<1> DEFINE chain == scans[id].chain
<1>1. chain \in Seq(Rules)
  BY DEF TypeOK
<1>2. chain # <<>> => Last(chain) \in Rules
  BY <1>1 DEF Last
<1> QED
  BY <1>2, Configured DEF FoundBy, IsConfig

(* The match that the loop of a hook comes to next.                         *)
LEMMA NextIsDue ==
    ASSUME TypeOK, NEW id \in DOMAIN scans, scans[id].todo # {}
    PROVE  /\ FirstPlace(scans[id].todo) \in scans[id].todo
           /\ NextMatch(scans[id]) = MatchAt(scans[id], FirstPlace(scans[id].todo))
<1>1. scans[id].todo \in SUBSET ((DOMAIN config.selected) \X (DOMAIN FoundBy(scans[id])))
  BY DEF TypeOK
<1>2. config.selected \in Seq(Rules)
  BY Configured DEF IsConfig
<1>3. scans[id].todo \in SUBSET (Nat \X Nat)
  BY <1>1, <1>2, FoundAreFindings
<1> QED
  BY <1>3, FirstPlaceIsFirst DEF NextMatch

LEMMA MatchesTyped ==
    ASSUME TypeOK, NEW id \in DOMAIN scans,
           NEW p \in (DOMAIN config.selected) \X (DOMAIN FoundBy(scans[id]))
    PROVE  MatchAt(scans[id], p) \in Rules \X Findings
<1>1. config.selected \in Seq(Rules)
  BY Configured DEF IsConfig
<1>2. config.selected[p[1]] \in Rules /\ FoundBy(scans[id])[p[2]] \in Findings
  BY <1>1, FoundAreFindings
<1> QED
  BY <1>2 DEF MatchAt

LEMMA NextMatchTyped ==
    ASSUME TypeOK, NEW id \in DOMAIN scans, scans[id].todo # {}
    PROVE  NextMatch(scans[id]) \in Rules \X Findings
<1>1. FirstPlace(scans[id].todo) \in (DOMAIN config.selected) \X (DOMAIN FoundBy(scans[id]))
  BY NextIsDue DEF TypeOK
<1> QED
  BY <1>1, NextIsDue, MatchesTyped

LEMMA WithoutTyped ==
    ASSUME NEW T, NEW list \in Seq(T), NEW entries
    PROVE  Without(list, entries) \in Seq(T)
<1> DEFINE S == {i \in DOMAIN list : list[i] \notin ToSet(entries)}
           kept == Ascending(S)
<1>1. IsFiniteSet(S) /\ S \in SUBSET Nat /\ S \in SUBSET DOMAIN list
  <2>1. DOMAIN list = 1..Len(list) /\ Len(list) \in Nat
    OBVIOUS
  <2>2. IsFiniteSet(1..Len(list))
    BY <2>1, FS_Interval
  <2>3. S \in SUBSET (1..Len(list))
    BY <2>1
  <2> QED
    BY <2>1, <2>2, <2>3, FS_Subset
<1> HIDE DEF S
<1>2. Cardinality(S) \in Nat /\ kept \in [1..Cardinality(S) -> S]
  BY <1>1, AscendingSorts
<1>3. Without(list, entries) = [n \in DOMAIN kept |-> list[kept[n]]]
  BY DEF Without, S
<1> HIDE DEF kept
<1>4. \A n \in 1..Cardinality(S) : list[kept[n]] \in T
  <2>1. \A i \in DOMAIN list : list[i] \in T
    OBVIOUS
  <2>2. \A n \in 1..Cardinality(S) : kept[n] \in DOMAIN list
    BY <1>1, <1>2
  <2> QED
    BY <2>1, <2>2
<1>5. Without(list, entries) = [n \in 1..Cardinality(S) |-> list[kept[n]]]
  BY <1>2, <1>3
<1>6. Without(list, entries) \in [1..Cardinality(S) -> T]
  BY <1>4, <1>5
<1> QED
  BY <1>2, <1>6

LEMMA TemplateTyped ==
    ASSUME NEW list \in Seq(Entry), NEW finding \in Findings
    PROVE  templateList(list, finding) \in Seq(Entry)
<1>1. \A i \in DOMAIN list : list[i] \in Entry
  OBVIOUS
<1>2. \A i \in DOMAIN list : [list[i] EXCEPT !.value = Render(@, finding)] \in Entry
  BY <1>1 DEF Entry, Render
<1> QED
  BY <1>2 DEF templateList

LEMMA PurgedTyped ==
    ASSUME NEW s, IsScan(s), Inheritable(s), DOMAIN s.maps = Maps
    PROVE  LET p == purgeCascadedRuleFromScan(s)
           IN  /\ Inheritable(p) /\ p.affinity = s.affinity /\ p.chain = s.chain
               /\ s.chain # <<>> => \A l \in Purged :
                     p.lists[l] = Without(s.lists[l], config.rules[Last(s.chain)].lists[l])
               /\ \A l \in Lists \ Purged : p.lists[l] = s.lists[l]
               /\ s.chain = <<>> => p = s
               /\ s.chain # <<>> => p.maps["matchLabels"] =
                     Restrict(s.maps["matchLabels"],
                              DOMAIN s.maps["matchLabels"]
                                \ DOMAIN config.rules[Last(s.chain)].maps["matchLabels"])
<1>1. CASE s.chain = <<>>
  BY <1>1 DEF purgeCascadedRuleFromScan
<1>2. CASE s.chain # <<>>
  <2> DEFINE used == config.rules[Last(s.chain)]
             lists == [l \in Lists |-> IF l \in Purged THEN Without(s.lists[l], used.lists[l])
                                       ELSE s.lists[l]]
             labels == Restrict(s.maps["matchLabels"],
                                DOMAIN s.maps["matchLabels"] \ DOMAIN used.maps["matchLabels"])
             p == [s EXCEPT !.lists = lists, !.maps["matchLabels"] = labels]
  <2>1. purgeCascadedRuleFromScan(s) = p
    BY <1>2 DEF purgeCascadedRuleFromScan
  <2>2. lists \in [Lists -> Seq(Entry)]
    BY WithoutTyped DEF Inheritable
  <2>3. \A l \in Lists : lists[l] = IF l \in Purged THEN Without(s.lists[l], used.lists[l])
                                    ELSE s.lists[l]
    OBVIOUS
  <2> HIDE DEF lists, labels
  <2>4. /\ p.lists = lists /\ p.affinity = s.affinity /\ p.chain = s.chain
        /\ p.maps = [s.maps EXCEPT !["matchLabels"] = labels]
    BY DEF IsScan
  <2>5. DOMAIN p.maps = Maps /\ p.maps["matchLabels"] = labels
    BY <2>4 DEF Maps
  <2> HIDE DEF p
  <2> QED
    BY <1>2, <2>1, <2>2, <2>3, <2>4, <2>5 DEF Inheritable, labels, Lists
<1> QED
  BY <1>1, <1>2

(* What getCascadingScan returns.                                           *)
LEMMA ChildIs ==
    ASSUME TypeOK, NEW s, IsScan(s), Inheritable(s), s.chain \in Seq(Rules),
           NEW rule \in Rules, NEW finding \in Findings
    PROVE  LET c == getCascadingScan(s, rule, finding)
           IN  /\ IsScan(c) /\ Inheritable(c) /\ c.scope = s.scope
               /\ c.chain = Append(s.chain, rule)
               /\ c.state = "scanning" /\ c.attempt = 0
               /\ c.read = {} /\ c.todo = {} /\ c.lost = {}
<1> DEFINE p == purgeCascadedRuleFromScan(s)
           r == config.rules[rule]
           merged == mergeCascadingRuleWithScan(p, r, finding)
           c == getCascadingScan(s, rule, finding)
<1>1. Inheritable(p)
  BY PurgedTyped DEF Inheritable
<1>2. Inheritable(r)
  BY Configured DEF IsConfig
<1>3. merged.lists \in [Lists -> Seq(Entry)]
  <2> SUFFICES ASSUME NEW l \in Lists
               PROVE  mergeInheritedArray(p.lists[l],
                          IF l \in {"env", "initContainers"} THEN templateList(r.lists[l], finding)
                          ELSE r.lists[l], Inherits(l)) \in Seq(Entry)
    BY DEF mergeCascadingRuleWithScan
  <2>1. p.lists[l] \in Seq(Entry) /\ r.lists[l] \in Seq(Entry)
    BY <1>1, <1>2 DEF Inheritable
  <2>2. templateList(r.lists[l], finding) \in Seq(Entry)
    BY <2>1, TemplateTyped
  <2> HIDE DEF p, r
  <2> QED
    BY <2>1, <2>2 DEF mergeInheritedArray
<1>4. DOMAIN merged.maps = Maps
  BY DEF mergeCascadingRuleWithScan
<1>5. merged.affinity \in Seq(STRING) /\ Len(merged.affinity) <= 1
  <2>1. merged.affinity \in {r.affinity, p.affinity, <<>>}
    BY DEF mergeCascadingRuleWithScan
  <2> HIDE DEF p, r, merged
  <2>2. /\ r.affinity \in Seq(STRING) /\ Len(r.affinity) <= 1
        /\ p.affinity \in Seq(STRING) /\ Len(p.affinity) <= 1
    BY <1>1, <1>2 DEF Inheritable
  <2>3. <<>> \in Seq(STRING) /\ Len(<<>>) <= 1
    OBVIOUS
  <2> QED
    BY <2>1, <2>2, <2>3
<1>6. c = New(Append(s.chain, rule), merged.lists, merged.maps, merged.affinity, s.scope)
  BY DEF getCascadingScan
<1> HIDE DEF merged, c
<1> QED
  BY <1>3, <1>4, <1>5, <1>6 DEF New, Inheritable, IsScan, c

(* What Typed says of one Scan.                                             *)
ScanTyped(s) ==
    /\ IsScan(s) /\ Inheritable(s)
    /\ s.chain \in Seq(Rules)
    /\ s.state \in {"scanning", "list rules", "get rule", "create", "done", "failed"}
    /\ s.read \subseteq Rules /\ s.lost \subseteq Rules \X Findings
    /\ s.todo \subseteq (DOMAIN config.selected) \X (DOMAIN FoundBy(s))
    /\ s.attempt \in 0..config.attempts
    /\ s.state = "scanning" => s.attempt = 0

LEMMA TypedIs ==
    Typed <=> /\ config \in Configs /\ rules \subseteq Rules
              /\ kills \in Nat /\ faults \in Nat
              /\ \A id \in DOMAIN scans : ScanTyped(scans[id])
BY DEF Typed, TypeOK, ScanTyped

LEMMA MoveTyped ==
    ASSUME Typed, NEW id \in DOMAIN scans, NEW t, Moves(scans[id], t)
    PROVE  ScanTyped(t)
<1> DEFINE s == scans[id]
<1>1. TypeOK /\ ScanTyped(s) /\ IsConfig(config)
  BY TypedIs, Configured DEF Typed
<1>2. FoundBy(t) = FoundBy(s) /\ Inheritable(t)
  BY <1>1 DEF FoundBy, Moves, SameSpec, ScanTyped, Inheritable
<1>3. config.attempts \in Nat \ {0} /\ ToSet(config.selected) \subseteq Rules
  <2>1. config.selected \in Seq(Rules)
    BY <1>1 DEF IsConfig
  <2> QED
    BY <1>1, <2>1 DEF IsConfig, ToSet
<1>4. s.state = "create" /\ s.todo # {} => NextMatch(s) \in Rules \X Findings
  BY <1>1, NextMatchTyped
<1>5. getCascadingScans(s) \subseteq (DOMAIN config.selected) \X (DOMAIN FoundBy(s))
  BY DEF getCascadingScans
<1>6. Moves(s, t)
  OBVIOUS
<1> HIDE DEF s
<1>7. /\ t.state \in {"scanning", "list rules", "get rule", "create", "done", "failed"}
      /\ t.state = "scanning" => t.attempt = 0
  BY <1>1, <1>6
  DEF Moves, Starts, ListsRules, FindsMatches, PassesOver, Finishes, Exits, ScanTyped
<1>8. t.attempt \in 0..config.attempts
  <2>1. s.attempt \in 0..config.attempts /\ (s.state = "scanning" => s.attempt = 0)
    BY <1>1 DEF ScanTyped
  <2>2. \/ t.attempt = s.attempt
        \/ t.attempt = s.attempt + 1 /\ (s.attempt < config.attempts \/ s.state = "scanning")
    BY <1>6 DEF Moves, Starts, ListsRules, FindsMatches, PassesOver, Finishes, Exits
  <2> QED
    BY <2>1, <2>2, <1>3
<1>9. /\ t.read \subseteq Rules /\ t.lost \subseteq Rules \X Findings
      /\ t.todo \subseteq (DOMAIN config.selected) \X (DOMAIN FoundBy(t))
  BY <1>1, <1>2, <1>3, <1>4, <1>5, <1>6
  DEF Moves, Starts, ListsRules, FindsMatches, PassesOver, Finishes, Exits, ScanTyped
<1> QED
  BY <1>1, <1>2, <1>6, <1>7, <1>8, <1>9 DEF ScanTyped, Moves, SameSpec

LEMMA NewTyped ==
    ASSUME Typed, NEW id \in DOMAIN scans, scans[id].todo # {}
    PROVE  ScanTyped(getCascadingScan(scans[id], NextMatch(scans[id])[1], NextMatch(scans[id])[2]))
<1> DEFINE s == scans[id]
           rule == NextMatch(s)[1]
           finding == NextMatch(s)[2]
           c == getCascadingScan(s, rule, finding)
<1>1. TypeOK /\ ScanTyped(s) /\ IsConfig(config)
  BY TypedIs, Configured DEF Typed
<1>2. rule \in Rules /\ finding \in Findings
  BY <1>1, NextMatchTyped
<1>3. IsScan(s) /\ Inheritable(s) /\ s.chain \in Seq(Rules)
  BY <1>1 DEF ScanTyped
<1> HIDE DEF s, rule, finding
<1>4. /\ IsScan(c) /\ Inheritable(c)
      /\ c.chain = Append(s.chain, rule)
      /\ c.state = "scanning" /\ c.attempt = 0
      /\ c.read = {} /\ c.todo = {} /\ c.lost = {}
  BY <1>1, <1>2, <1>3, ChildIs
<1> HIDE DEF c
<1>5. c.chain \in Seq(Rules) /\ config.attempts \in Nat
  BY <1>1, <1>2, <1>3, <1>4 DEF IsConfig
<1>6. ScanTyped(c)
  BY <1>4, <1>5 DEF ScanTyped
<1> QED
  BY <1>6 DEF c, s, rule, finding

LEMMA TypedKept ==
    ASSUME Typed, [Next]_vars
    PROVE  Typed'
<1>1. CASE UNCHANGED vars
  BY <1>1 DEF vars, Typed, TypeOK, FoundBy
<1>2. CASE Next
  <2>1. /\ config' = config /\ rules' \subseteq rules
        /\ kills' \in {kills, kills + 1} /\ faults' \in {faults, faults + 1}
        /\ \/ scans' = scans
           \/ \E id \in DOMAIN scans : Moved(id) \/ Created(id)
    BY <1>2, StepsAre DEF Typed
  <2>2. \A n \in DOMAIN scans' : ScanTyped(scans'[n])
    <3>1. CASE scans' = scans
      BY <3>1, TypedIs
    <3>2. ASSUME NEW id \in DOMAIN scans, Moved(id)
          PROVE  \A n \in DOMAIN scans' : ScanTyped(scans'[n])
      BY <3>2, TypedIs, MoveTyped DEF Moved
    <3>3. ASSUME NEW id \in DOMAIN scans, Created(id)
          PROVE  \A n \in DOMAIN scans' : ScanTyped(scans'[n])
      <4> DEFINE s == scans[id]
                 child == NextChild(id)
      <4>1. ScanTyped(scans'[child])
        BY <3>3, NewTyped DEF Created
      <4>2. ASSUME child # id PROVE ScanTyped(scans'[id])
        <5>1. ScanTyped(s)
          BY TypedIs
        <5>2. /\ SameSpec(s, scans'[id]) /\ s.state = "create"
              /\ scans'[id].state = s.state /\ scans'[id].attempt = s.attempt
              /\ scans'[id].read = s.read /\ scans'[id].lost = s.lost
              /\ scans'[id].todo \subseteq s.todo
          BY <3>3, <4>2 DEF Created
        <5> HIDE DEF s
        <5> QED
          BY <5>1, <5>2 DEF ScanTyped, SameSpec, Inheritable, FoundBy
      <4>3. \A n \in DOMAIN scans : n # child /\ n # id => ScanTyped(scans'[n])
        BY <3>3, TypedIs DEF Created
      <4>4. DOMAIN scans' = DOMAIN scans \cup {child}
        BY <3>3 DEF Created
      <4> QED
        BY <4>1, <4>2, <4>3, <4>4
    <3> QED
      BY <2>1, <3>1, <3>2, <3>3
  <2>3. \A n \in DOMAIN scans' : ScanTyped(scans[n])'
    BY <2>1, <2>2 DEF ScanTyped, FoundBy
  <2>4. config' \in Configs /\ rules' \subseteq Rules /\ kills' \in Nat /\ faults' \in Nat
    BY <2>1, TypedIs
  <2> QED
    BY <2>3, <2>4 DEF Typed, TypeOK, ScanTyped
<1> QED
  BY <1>1, <1>2

LEMMA TypedInit ==
    ASSUME Init
    PROVE  Typed
<1>1. config \in Configs /\ IsConfig(config)
  BY ConfigAssumption DEF Init
<1>2. DOMAIN scans = {RootId}
  BY DEF Init
<1>3. /\ IsScan(scans[RootId]) /\ Inheritable(scans[RootId]) /\ scans[RootId].chain = <<>>
      /\ scans[RootId].state = "scanning" /\ scans[RootId].attempt = 0
      /\ scans[RootId].read = {} /\ scans[RootId].todo = {} /\ scans[RootId].lost = {}
  BY <1>1 DEF Init, New, IsScan, Inheritable, IsConfig
<1>4. ScanTyped(scans[RootId])
  BY <1>1, <1>3 DEF ScanTyped, IsConfig
<1> QED
  BY <1>1, <1>2, <1>4, TypedIs DEF Init

(* Every Scan of a cascade is a record of its type: lists, maps, the state  *)
(* of its hook and the number of attempts.                                  *)
THEOREM CascadeTypeCorrect == Spec => []TypeOK
<1>1. Init => Typed
  BY TypedInit
<1>2. Typed /\ [Next]_vars => Typed'
  BY TypedKept
<1>3. Typed => TypeOK
  BY DEF Typed
<1> QED
  BY <1>1, <1>2, <1>3, PTL DEF Spec

-----------------------------------------------------------------------------
(***************************************************************************)
(* The scope limiter: an evaluation that ends says what the annotations     *)
(* permit.                                                                  *)
(***************************************************************************)
Verdicts == {"true", "false", "error"}

LEMMA StoppingIs ==
    ASSUME NEW outcomes, DOMAIN outcomes \in SUBSET Nat, NEW on
    PROVE  /\ Stopping(outcomes, on) = on <=> \A i \in DOMAIN outcomes : outcomes[i] = on
           /\ Stopping(outcomes, on) # on =>
                 \E i \in DOMAIN outcomes : outcomes[i] = Stopping(outcomes, on)
<1> DEFINE stops == {i \in DOMAIN outcomes : outcomes[i] # on}
<1>1. CASE stops = {}
  BY <1>1 DEF Stopping
<1>2. CASE stops # {}
  <2>1. stops \in SUBSET Nat
    OBVIOUS
  <2>2. \E m \in stops : \A n \in stops : m <= n
    <3> HIDE DEF stops
    <3> QED
      BY <1>2, <2>1, Smallest
  <2>3. Min(stops) \in stops
    <3> HIDE DEF stops
    <3> QED
      BY <2>2 DEF Min
  <2>4. Stopping(outcomes, on) = outcomes[Min(stops)]
    BY <1>2 DEF Stopping
  <2> QED
    BY <2>3, <2>4
<1> QED
  BY <1>1, <1>2

(* Operators other than In: every value is accepted, or one is not.         *)
LEMMA EveryValue ==
    ASSUME NEW req, req.operator # "In", NEW annotation,
           NEW rendered, DOMAIN rendered \in SUBSET Nat,
           \A i \in DOMAIN rendered : DOMAIN rendered[i] \in SUBSET Nat
    PROVE  LET v == operatorFunction(req, annotation, rendered)
               values == UNION {ToSet(rendered[i]) : i \in DOMAIN rendered}
           IN  v \in Verdicts /\ (v # "error" => (v = "true" <=> values \subseteq annotation.accepts))
<1> DEFINE accepted(x) == IF x \in annotation.invalid THEN "error" ELSE Outcome(x \in annotation.accepts)
           row(i) == [k \in DOMAIN rendered[i] |-> accepted(rendered[i][k])]
           all == [i \in DOMAIN rendered |-> Every(row(i))]
           v == operatorFunction(req, annotation, rendered)
           values == UNION {ToSet(rendered[i]) : i \in DOMAIN rendered}
<1>1. v = Every(all)
  BY DEF operatorFunction
<1>2. \A x : /\ accepted(x) \in Verdicts
             /\ accepted(x) = "true" => x \in annotation.accepts
             /\ accepted(x) = "false" => x \notin annotation.accepts
  BY DEF Outcome, Verdicts
<1> HIDE DEF accepted
<1>3. \A i \in DOMAIN rendered : DOMAIN row(i) = DOMAIN rendered[i]
                                 /\ \A k \in DOMAIN rendered[i] : row(i)[k] = accepted(rendered[i][k])
  OBVIOUS
<1> HIDE DEF row
<1>4. ASSUME NEW i \in DOMAIN rendered
      PROVE  /\ Every(row(i)) = "true" <=> \A k \in DOMAIN rendered[i] : accepted(rendered[i][k]) = "true"
             /\ Every(row(i)) # "true" =>
                   \E k \in DOMAIN rendered[i] : accepted(rendered[i][k]) = Every(row(i))
  <2>1. DOMAIN row(i) \in SUBSET Nat
    BY <1>3
  <2> QED
    BY <1>3, <2>1, StoppingIs DEF Every
<1>5. /\ DOMAIN all = DOMAIN rendered
      /\ \A i \in DOMAIN rendered : all[i] = Every(row(i))
  OBVIOUS
<1> HIDE DEF all
<1>6. /\ v = "true" <=> \A i \in DOMAIN rendered : Every(row(i)) = "true"
      /\ v # "true" => \E i \in DOMAIN rendered : Every(row(i)) = v
  <2>1. DOMAIN all \in SUBSET Nat
    BY <1>5
  <2> QED
    BY <1>1, <1>5, <2>1, StoppingIs DEF Every
<1>7. \A x : x \in values <=> \E i \in DOMAIN rendered : \E k \in DOMAIN rendered[i] : x = rendered[i][k]
  BY DEF ToSet
<1> HIDE DEF v, values
<1>8. CASE v = "true"
  <2>1. values \subseteq annotation.accepts
    BY <1>2, <1>4, <1>6, <1>7, <1>8
  <2> QED
    BY <1>8, <2>1 DEF Verdicts, v, values
<1>9. CASE v # "true"
  <2>1. PICK i \in DOMAIN rendered : Every(row(i)) = v
    BY <1>6, <1>9
  <2>2. PICK k \in DOMAIN rendered[i] : accepted(rendered[i][k]) = v
    BY <1>4, <1>9, <2>1
  <2>3. v \in Verdicts
    BY <1>2, <2>2
  <2>4. v # "error" => ~ (values \subseteq annotation.accepts)
    BY <1>2, <1>7, <1>9, <2>2, <2>3 DEF Verdicts
  <2> QED
    BY <1>9, <2>3, <2>4 DEF v, values
<1> QED
  BY <1>8, <1>9

(* One requirement.                                                         *)
LEMMA RequirementIs ==
    ASSUME NEW req \in Requirement, config.limiter \in Limiter, NEW attributes,
           \A t \in ToSet(req.values) : attributes[t] \in Seq(STRING)
    PROVE  LET v == validateRequirement(req, config.limiter, config.root.scope, attributes)
           IN  v \in Verdicts /\ (v # "error" => (v = "true" <=> Satisfied(req, attributes)))
<1> DEFINE rendered == [i \in DOMAIN req.values |-> attributes[req.values[i]]]
           annotation == config.root.scope[req.key]
           result == operatorFunction(req, annotation, rendered)
           v == validateRequirement(req, config.limiter, config.root.scope, attributes)
           values == UNION {ToSet(attributes[t]) : t \in ToSet(req.values)}
           holds == IF req.operator = "In" THEN values \cap annotation.accepts # {}
                    ELSE values \subseteq annotation.accepts
           missing == \E t \in ToSet(req.values) : attributes[t] = <<>>
<1>1. req.values \in Seq(STRING) /\ req.negated \in BOOLEAN /\ config.limiter.validOnMissingRender \in BOOLEAN
  BY DEF Requirement, Limiter
<1>2. DOMAIN rendered = DOMAIN req.values /\ DOMAIN rendered \in SUBSET Nat
  BY <1>1
<1>3. \A i \in DOMAIN rendered : rendered[i] = attributes[req.values[i]] /\ req.values[i] \in ToSet(req.values)
  BY DEF ToSet
<1>4. \A t \in ToSet(req.values) : \E i \in DOMAIN rendered : t = req.values[i]
  BY DEF ToSet
<1>5. <<>> \in ToSet(rendered) <=> missing
  BY <1>3, <1>4 DEF ToSet
<1>6. \A i \in DOMAIN rendered : DOMAIN rendered[i] \in SUBSET Nat
  <2> TAKE i \in DOMAIN rendered
  <2>1. rendered[i] \in Seq(STRING)
    BY <1>3
  <2> HIDE DEF rendered
  <2> QED
    BY <2>1
<1>7. \A x : x \in values <=> \E i \in DOMAIN rendered : x \in ToSet(rendered[i])
  <2> TAKE x
  <2>1. x \in values <=> \E t \in ToSet(req.values) : x \in ToSet(attributes[t])
    OBVIOUS
  <2> HIDE DEF values, rendered
  <2> QED
    BY <2>1, <1>3, <1>4
<1>8. result \in Verdicts /\ (result # "error" => (result = "true" <=> holds))
  <2>1. CASE req.operator = "In"
    <3>1. result = Outcome(\E w \in ToSet(rendered) : ToSet(w) \cap annotation.accepts # {})
      BY <2>1 DEF operatorFunction
    <3>2. (\E w \in ToSet(rendered) : ToSet(w) \cap annotation.accepts # {})
             <=> values \cap annotation.accepts # {}
      <4>1. \A w : w \in ToSet(rendered) <=> \E i \in DOMAIN rendered : w = rendered[i]
        BY DEF ToSet
      <4> HIDE DEF rendered, values
      <4> QED
        BY <4>1, <1>7
    <3> HIDE DEF result, rendered, values
    <3> QED
      BY <2>1, <3>1, <3>2 DEF Outcome, Verdicts
  <2>2. CASE req.operator # "In"
    <3> HIDE DEF rendered
    <3>1. result \in Verdicts /\ (result # "error" => (result = "true" <=>
              UNION {ToSet(rendered[i]) : i \in DOMAIN rendered} \subseteq annotation.accepts))
      BY <1>2, <1>6, <2>2, EveryValue
    <3> DEFINE all == UNION {ToSet(rendered[i]) : i \in DOMAIN rendered}
    <3>2. \A x : x \in all <=> \E i \in DOMAIN rendered : x \in ToSet(rendered[i])
      OBVIOUS
    <3> HIDE DEF result, values, all
    <3>3. all = values
      BY <1>7, <3>2
    <3> QED
      BY <2>2, <3>1, <3>3 DEF all
  <2> QED
    BY <2>1, <2>2
<1>9. Satisfied(req, attributes) <=> IF missing THEN config.limiter.validOnMissingRender
                                    ELSE holds # req.negated
  BY <1>1 DEF Satisfied
<1>10. v = IF ~(req.wellFormed /\ req.operator \in Operators) THEN "error"
           ELSE IF <<>> \in ToSet(rendered) THEN Outcome(config.limiter.validOnMissingRender)
           ELSE IF req.key \notin DOMAIN config.root.scope THEN "error"
           ELSE IF req.negated THEN Negation(result) ELSE result
  BY DEF validateRequirement
<1> HIDE DEF rendered, result, v, values, holds, missing
<1>11. CASE v = "error"
  BY <1>11 DEF Verdicts, v
<1>12. CASE v # "error" /\ missing
  <2>1. v = Outcome(config.limiter.validOnMissingRender)
    BY <1>5, <1>10, <1>12
  <2> QED
    BY <1>1, <1>9, <1>12, <2>1 DEF Outcome, Verdicts, v
<1>13. CASE v # "error" /\ ~missing
  <2>1. v = IF req.negated THEN Negation(result) ELSE result
    BY <1>5, <1>10, <1>13
  <2>2. v \in Verdicts /\ (v = "true" <=> (holds # req.negated))
    <3>1. result \in {"true", "false"}
      BY <1>8, <1>13, <2>1 DEF Verdicts, Negation
    <3>2. (result = "true") <=> holds
      BY <1>8, <3>1
    <3> QED
      BY <1>1, <2>1, <3>1, <3>2 DEF Verdicts, Negation
  <2> QED
    BY <1>9, <1>13, <2>2 DEF v
<1> QED
  BY <1>11, <1>12, <1>13

(* A list of requirements.                                                  *)
LEMMA RequirementsAre ==
    ASSUME config.limiter \in Limiter, NEW list \in Seq(Requirement), NEW attributes,
           \A req \in ToSet(list) : \A t \in ToSet(req.values) : attributes[t] \in Seq(STRING)
    PROVE  LET verdict(req) == validateRequirement(req, config.limiter, config.root.scope, attributes)
               validated == [i \in DOMAIN list |-> verdict(list[i])]
           IN  /\ Every(validated) \in Verdicts /\ Some(validated) \in Verdicts
               /\ Every(validated) # "error" =>
                     (Every(validated) = "true" <=> \A req \in ToSet(list) : Satisfied(req, attributes))
               /\ Some(validated) # "error" =>
                     (Some(validated) = "true" <=> \E req \in ToSet(list) : Satisfied(req, attributes))
<1> DEFINE verdict(req) == validateRequirement(req, config.limiter, config.root.scope, attributes)
           validated == [i \in DOMAIN list |-> verdict(list[i])]
           all == Every(validated)
           some == Some(validated)
           sat(i) == Satisfied(list[i], attributes)
<1>1. DOMAIN list \in SUBSET Nat /\ \A i \in DOMAIN list : list[i] \in Requirement /\ list[i] \in ToSet(list)
  BY DEF ToSet
<1>2. \A i \in DOMAIN list : /\ verdict(list[i]) \in Verdicts
                             /\ verdict(list[i]) # "error" => (verdict(list[i]) = "true" <=> sat(i))
  BY <1>1, RequirementIs
<1>3. DOMAIN validated = DOMAIN list /\ \A i \in DOMAIN list : validated[i] = verdict(list[i])
  OBVIOUS
<1>4. /\ (\A req \in ToSet(list) : Satisfied(req, attributes)) <=> \A i \in DOMAIN list : sat(i)
      /\ (\E req \in ToSet(list) : Satisfied(req, attributes)) <=> \E i \in DOMAIN list : sat(i)
  BY DEF ToSet
<1> HIDE DEF verdict, validated, sat
<1>5. DOMAIN validated \in SUBSET Nat
  BY <1>1, <1>3
<1>6. /\ all = "true" <=> \A i \in DOMAIN list : validated[i] = "true"
      /\ all # "true" => \E i \in DOMAIN list : validated[i] = all
      /\ some = "false" <=> \A i \in DOMAIN list : validated[i] = "false"
      /\ some # "false" => \E i \in DOMAIN list : validated[i] = some
  BY <1>3, <1>5, StoppingIs DEF Every, Some
<1> HIDE DEF all, some
<1>7. all \in Verdicts /\ some \in Verdicts
  BY <1>2, <1>3, <1>6 DEF Verdicts
<1>8. all # "error" => (all = "true" <=> \A i \in DOMAIN list : sat(i))
  BY <1>2, <1>3, <1>6, <1>7 DEF Verdicts
<1>9. some # "error" => (some = "true" <=> \E i \in DOMAIN list : sat(i))
  BY <1>2, <1>3, <1>6, <1>7 DEF Verdicts
<1> QED
  BY <1>4, <1>7, <1>8, <1>9 DEF all, some, validated, verdict

(* The scope limiter, in the scope of the first Scan.                       *)
LEMMA InScopeIs ==
    ASSUME TypeOK, NEW f \in Findings
    PROVE  LET v == isInScope(config.limiter, config.root.scope, config.attributes[f])
           IN  v \in Verdicts /\ (v # "error" => (v = "true" <=> Permitted(f)))
<1> DEFINE limiter == config.limiter
           attributes == config.attributes[f]
           verdict(req) == validateRequirement(req, limiter, config.root.scope, attributes)
           validated(list) == [i \in DOMAIN list |-> verdict(list[i])]
           v == isInScope(limiter, config.root.scope, attributes)
           all == Every(validated(limiter.allOf))
           any == IF limiter.anyOf = <<>> THEN "true" ELSE Some(validated(limiter.anyOf))
           none == Negation(Some(validated(limiter.noneOf)))
           sat(req) == Satisfied(req, attributes)
<1>1. IsConfig(config)
  BY Configured
<1>2. /\ limiter \in Limiter
      /\ \A req \in Requirements(limiter) : \A t \in ToSet(req.values) : attributes[t] \in Seq(STRING)
  BY <1>1 DEF IsConfig
<1>3. ASSUME NEW list \in {limiter.allOf, limiter.anyOf, limiter.noneOf}
      PROVE  /\ Every(validated(list)) \in Verdicts /\ Some(validated(list)) \in Verdicts
             /\ Every(validated(list)) # "error" =>
                   (Every(validated(list)) = "true" <=> \A req \in ToSet(list) : sat(req))
             /\ Some(validated(list)) # "error" =>
                   (Some(validated(list)) = "true" <=> \E req \in ToSet(list) : sat(req))
  <2>1. list \in Seq(Requirement)
    BY <1>2 DEF Limiter
  <2>2. ToSet(list) \subseteq Requirements(limiter)
    BY DEF Requirements
  <2>3. \A req \in ToSet(list) : \A t \in ToSet(req.values) : attributes[t] \in Seq(STRING)
    BY <1>2, <2>2
  <2> HIDE DEF attributes
  <2> QED
    BY <1>2, <2>1, <2>3, RequirementsAre
<1>4. v = IF "error" \in {all, any, none} THEN "error" ELSE Outcome({all, any, none} = {"true"})
  BY DEF isInScope
<1>5. Permitted(f) <=> /\ \A req \in ToSet(limiter.allOf) : sat(req)
                       /\ limiter.anyOf = <<>> \/ \E req \in ToSet(limiter.anyOf) : sat(req)
                       /\ ~ \E req \in ToSet(limiter.noneOf) : sat(req)
  BY DEF Permitted
<1> HIDE DEF validated, sat, v
<1>6. all \in Verdicts /\ (all # "error" => (all = "true" <=> \A req \in ToSet(limiter.allOf) : sat(req)))
  BY <1>3
<1>7. any \in Verdicts /\ (any # "error" => (any = "true" <=>
          limiter.anyOf = <<>> \/ \E req \in ToSet(limiter.anyOf) : sat(req)))
  BY <1>3 DEF Verdicts
<1>8. none \in Verdicts /\ (none # "error" => (none = "true" <=>
          ~ \E req \in ToSet(limiter.noneOf) : sat(req)))
  BY <1>3 DEF Verdicts, Negation
<1> HIDE DEF all, any, none
<1>9. v \in Verdicts /\ (v # "error" => (v = "true" <=> Permitted(f)))
  <2>1. CASE "error" \in {all, any, none}
    BY <1>4, <2>1 DEF Verdicts
  <2>2. CASE "error" \notin {all, any, none}
    <3>1. v = Outcome(all = "true" /\ any = "true" /\ none = "true")
      <4>1. {all, any, none} = {"true"} <=> (all = "true" /\ any = "true" /\ none = "true")
        OBVIOUS
      <4> QED
        BY <1>4, <2>2, <4>1 DEF Outcome
    <3>2. all # "error" /\ any # "error" /\ none # "error"
      BY <2>2
    <3> QED
      BY <3>1, <3>2, <1>5, <1>6, <1>7, <1>8 DEF Outcome, Verdicts
  <2> QED
    BY <2>1, <2>2
<1> QED
  BY <1>9 DEF v

-----------------------------------------------------------------------------
(***************************************************************************)
(* The tree of Scans.                                                       *)
(***************************************************************************)
Origin == Rules \X Findings \X (Nat \ {0})

Tree ==
    /\ IsFiniteSet(DOMAIN scans) /\ RootId \in DOMAIN scans
    /\ \A id \in DOMAIN scans : id \in Seq(Origin)
    /\ \A id \in Cascaded : Front(id) \in DOMAIN scans

(* The copies of a match are numbered, and come from a match.               *)
Numbered ==
    \A id \in Cascaded : LET m == Last(id) IN
        /\ m[3] <= Cardinality(Copies(Front(id), <<m[1], m[2]>>))
        /\ m[2] \in config.rules[m[1]].matches \cap ToSet(FoundBy(Parent(id)))

(* What a hook is about to start matches.                                   *)
ScanDue(s) ==
    /\ s.read \subseteq ToSet(config.selected)
    /\ s.todo \subseteq getCascadingScans(s)
    /\ s.todo # {} => s.state = "create"
    /\ s.state \in {"create", "done"} => ~Throws(s)
Due == \A id \in DOMAIN scans : ScanDue(scans[id])

LEMMA ChildIdIs ==
    ASSUME NEW id \in Seq(Origin), NEW match \in Rules \X Findings, NEW k \in Nat \ {0}
    PROVE  LET c == Append(id, <<match[1], match[2], k>>)
           IN  /\ c \in Seq(Origin) /\ Len(c) = Len(id) + 1 /\ c # id /\ c # RootId
               /\ Front(c) = id /\ Last(c) = <<match[1], match[2], k>>
<1> DEFINE o == <<match[1], match[2], k>>
           c == Append(id, o)
<1>1. o \in Origin
  BY DEF Origin
<1> HIDE DEF o
<1>2. c \in Seq(Origin) /\ Len(c) = Len(id) + 1 /\ c[Len(c)] = o /\ Len(id) \in Nat
  BY <1>1
<1>3. Front(c) = id
  BY <1>1 DEF Front
<1>4. c # id /\ c # RootId
  BY <1>2 DEF RootId
<1> QED
  BY <1>2, <1>3, <1>4 DEF Last, o

LEMMA CopiesFinite ==
    ASSUME Tree, NEW id, NEW match
    PROVE  IsFiniteSet(Copies(id, match)) /\ Cardinality(Copies(id, match)) \in Nat
<1>1. Copies(id, match) \in SUBSET DOMAIN scans
  BY DEF Copies
<1> QED
  BY <1>1, FS_Subset, FS_CardinalityType DEF Tree

(* A step that starts a Scan.                                               *)
Adds(id) ==
    LET s == scans[id]
        t == scans'[id]
        match == NextMatch(s)
        child == NextChild(id)
        c == scans'[child]
    IN  /\ s.state = "create" /\ s.todo # {}
        /\ child \notin DOMAIN scans /\ child \in Seq(Origin) /\ child # RootId
        /\ Len(child) = Len(id) + 1 /\ Front(child) = id
        /\ Last(child) = <<match[1], match[2], Cardinality(Copies(id, match)) + 1>>
        /\ DOMAIN scans' = DOMAIN scans \cup {child}
        /\ c = getCascadingScan(s, match[1], match[2])
        /\ c.scope = s.scope /\ c.chain = Append(s.chain, match[1])
        /\ c.state = "scanning" /\ c.attempt = 0 /\ c.read = {} /\ c.todo = {} /\ c.lost = {}
        /\ \A n \in DOMAIN scans : n # id => scans'[n] = scans[n]
        /\ SameSpec(s, t) /\ t.state = s.state /\ t.attempt = s.attempt /\ t.read = s.read
        /\ t.todo = s.todo \ {FirstPlace(s.todo)} /\ t.lost = s.lost

LEMMA CreatedAdds ==
    ASSUME Typed, Tree, Numbered, NEW id \in DOMAIN scans, Created(id)
    PROVE  Adds(id)
<1> DEFINE s == scans[id]
           match == NextMatch(s)
           child == NextChild(id)
           k == Cardinality(Copies(id, match)) + 1
<1>0. TypeOK /\ ScanTyped(s)
  BY TypedIs DEF Typed
<1>1. s.state = "create" /\ s.todo # {}
  BY DEF Created
<1>2. match \in Rules \X Findings
  BY <1>0, <1>1, NextMatchTyped
<1>3. id \in Seq(Origin) /\ k \in Nat \ {0}
  BY CopiesFinite DEF Tree
<1>4. child = Append(id, <<match[1], match[2], k>>)
  BY DEF NextChild, Child
<1> HIDE DEF k, child, match
<1>5. /\ child \in Seq(Origin) /\ Len(child) = Len(id) + 1 /\ child # id /\ child # RootId
      /\ Front(child) = id /\ Last(child) = <<match[1], match[2], k>>
  <2>1. LET c == Append(id, <<match[1], match[2], k>>)
        IN  /\ c \in Seq(Origin) /\ Len(c) = Len(id) + 1 /\ c # id /\ c # RootId
            /\ Front(c) = id /\ Last(c) = <<match[1], match[2], k>>
    BY <1>2, <1>3, ChildIdIs
  <2> QED
    BY <1>4, <2>1, Zenon
<1>6. child \notin DOMAIN scans
  <2> SUFFICES ASSUME child \in DOMAIN scans PROVE FALSE
    OBVIOUS
  <2>1. child \in Cascaded
    BY <1>5 DEF Cascaded
  <2>2. Last(child)[3] <= Cardinality(Copies(Front(child), <<Last(child)[1], Last(child)[2]>>))
    BY <2>1 DEF Numbered
  <2>3. Last(child)[3] = k /\ <<Last(child)[1], Last(child)[2]>> = match
    BY <1>2, <1>5
  <2>4. k <= Cardinality(Copies(id, match))
    BY <1>5, <2>2, <2>3
  <2> QED
    BY <2>4, CopiesFinite DEF k
<1>7. LET c == getCascadingScan(s, match[1], match[2])
      IN  /\ c.scope = s.scope /\ c.chain = Append(s.chain, match[1])
          /\ c.state = "scanning" /\ c.attempt = 0 /\ c.read = {} /\ c.todo = {} /\ c.lost = {}
  <2>1. IsScan(s) /\ Inheritable(s) /\ s.chain \in Seq(Rules) /\ match[1] \in Rules /\ match[2] \in Findings
    BY <1>0, <1>2 DEF ScanTyped
  <2> HIDE DEF s
  <2> QED
    BY <1>0, <2>1, ChildIs
<1>8. /\ DOMAIN scans' = DOMAIN scans \cup {child}
      /\ scans'[child] = getCascadingScan(s, match[1], match[2])
      /\ \A n \in DOMAIN scans : n # child /\ n # id => scans'[n] = scans[n]
      /\ child # id => /\ SameSpec(s, scans'[id]) /\ scans'[id].state = s.state
                       /\ scans'[id].attempt = s.attempt /\ scans'[id].read = s.read
                       /\ scans'[id].todo = s.todo \ {FirstPlace(s.todo)}
                       /\ scans'[id].lost = s.lost
  BY DEF Created, child, match
<1>9. /\ \A n \in DOMAIN scans : n # id => scans'[n] = scans[n]
      /\ SameSpec(s, scans'[id]) /\ scans'[id].state = s.state
      /\ scans'[id].attempt = s.attempt /\ scans'[id].read = s.read
      /\ scans'[id].todo = s.todo \ {FirstPlace(s.todo)}
      /\ scans'[id].lost = s.lost
  BY <1>5, <1>6, <1>8
<1> QED
  BY <1>1, <1>5, <1>6, <1>7, <1>8, <1>9 DEF Adds, child, match, k

(* The steps, as the invariants below take them.                            *)
LEMMA TreeSteps ==
    ASSUME Typed, Tree, Numbered, [Next]_vars
    PROVE  /\ config' = config
           /\ \/ scans' = scans
              \/ \E id \in DOMAIN scans : Moved(id) \/ Adds(id)
<1>1. CASE UNCHANGED vars
  BY <1>1 DEF vars
<1>2. CASE Next
  BY <1>2, StepsAre, CreatedAdds DEF Typed
<1> QED
  BY <1>1, <1>2

LEMMA ChainTyped ==
    ASSUME Typed, NEW id \in DOMAIN scans
    PROVE  scans[id].chain \in Seq(Rules)
BY DEF Typed, TypeOK

(* What depends on the fields that a step leaves alone.                     *)
LEMMA SameMatches ==
    ASSUME NEW s, NEW t, SameSpec(s, t)
    PROVE  /\ FoundBy(t) = FoundBy(s)
           /\ \A p : MatchAt(t, p) = MatchAt(s, p)
           /\ t.read = s.read => getCascadingScans(t) = getCascadingScans(s) /\ (Throws(t) <=> Throws(s))
<1>1. FoundBy(t) = FoundBy(s) /\ t.chain = s.chain /\ t.scope = s.scope
  BY DEF SameSpec, FoundBy
<1>2. \A r : getScansMatchingRule(t, r) = getScansMatchingRule(s, r)
  BY <1>1 DEF getScansMatchingRule
<1>3. t.read = s.read => Applicable(t) = Applicable(s)
  BY <1>1 DEF Applicable
<1> QED
  BY <1>1, <1>2, <1>3 DEF MatchAt, getCascadingScans, Throws

(* The copies of a match after a step.                                      *)
LEMMA CopiesMoved ==
    ASSUME DOMAIN scans' = DOMAIN scans, NEW id, NEW match
    PROVE  Copies(id, match)' = Copies(id, match)
BY DEF Copies

LEMMA CopiesAdded ==
    ASSUME Typed, Tree, NEW id \in DOMAIN scans, Adds(id),
           NEW match, match = NextMatch(scans[id])
    PROVE  /\ \A n, m : Copies(n, m) \subseteq Copies(n, m)'
           /\ \A n, m : n # id \/ m # match => Copies(n, m)' = Copies(n, m)
           /\ NextChild(id) \in Copies(id, match)'
           /\ Cardinality(Copies(id, match)') = Cardinality(Copies(id, match)) + 1
<1>0. PICK child : child = NextChild(id)
  OBVIOUS
<1>1. /\ child \notin DOMAIN scans /\ Len(child) = Len(id) + 1 /\ Front(child) = id
      /\ DOMAIN scans' = DOMAIN scans \cup {child}
  BY <1>0 DEF Adds
<1>2. <<Last(child)[1], Last(child)[2]>> = match
  <2>1. match \in Rules \X Findings
    BY NextMatchTyped DEF Typed, Adds
  <2>2. Last(child)[1] = match[1] /\ Last(child)[2] = match[2]
    BY <1>0 DEF Adds
  <2> QED
    BY <2>1, <2>2
<1>3. \A n, m : Copies(n, m) \subseteq Copies(n, m)'
  BY <1>1 DEF Copies
<1>4. \A n, m : n # id \/ m # match => Copies(n, m)' = Copies(n, m)
  BY <1>1, <1>2 DEF Copies
<1>5. Copies(id, match)' = Copies(id, match) \cup {child} /\ child \notin Copies(id, match)
  BY <1>1, <1>2 DEF Copies
<1>6. Cardinality(Copies(id, match)') = Cardinality(Copies(id, match)) + 1
  <2>1. PICK S : S = Copies(id, match)
    OBVIOUS
  <2>2. IsFiniteSet(S)
    BY <2>1, CopiesFinite
  <2>3. Cardinality(S \cup {child}) = Cardinality(S) + 1
    BY <1>5, <2>1, <2>2, FS_AddElement
  <2> QED
    BY <1>5, <2>1, <2>3
<1> QED
  BY <1>0, <1>3, <1>4, <1>5, <1>6

LEMMA TreeKept ==
    ASSUME Typed, Tree, Numbered, [Next]_vars
    PROVE  Tree'
<1>1. CASE scans' = scans
  BY <1>1 DEF Tree, Cascaded
<1>2. ASSUME NEW id \in DOMAIN scans, Moved(id) PROVE Tree'
  BY <1>2 DEF Tree, Cascaded, Moved
<1>3. ASSUME NEW id \in DOMAIN scans, Adds(id) PROVE Tree'
  <2>1. /\ NextChild(id) \in Seq(Origin) /\ NextChild(id) # RootId /\ Front(NextChild(id)) = id
        /\ DOMAIN scans' = DOMAIN scans \cup {NextChild(id)}
    BY <1>3 DEF Adds
  <2>2. IsFiniteSet(DOMAIN scans')
    BY <2>1, FS_AddElement DEF Tree
  <2> QED
    BY <2>1, <2>2 DEF Tree, Cascaded
<1> QED
  BY <1>1, <1>2, <1>3, TreeSteps

LEMMA DueMoves ==
    ASSUME NEW s, NEW t, Moves(s, t), ScanDue(s)
    PROVE  ScanDue(t)
<1>1. SameSpec(s, t)
  BY DEF Moves
<1>2. /\ t.read = s.read => getCascadingScans(t) = getCascadingScans(s) /\ (Throws(t) <=> Throws(s))
  BY <1>1, SameMatches
<1>3. CASE Starts(s, t) \/ Exits(s, t) \/ ListsRules(s, t)
  BY <1>3 DEF Starts, Exits, ListsRules, ScanDue
<1>4. CASE FindsMatches(s, t) \/ PassesOver(s, t) \/ Finishes(s, t)
  BY <1>2, <1>4 DEF FindsMatches, PassesOver, Finishes, ScanDue
<1> QED
  BY <1>3, <1>4 DEF Moves

(* The configuration does not change.                                       *)
LEMMA SameConfig ==
    ASSUME config' = config, NEW id
    PROVE  /\ FoundBy(scans[id])' = FoundBy(scans'[id])
           /\ getCascadingScans(scans[id])' = getCascadingScans(scans'[id])
           /\ Throws(scans[id])' <=> Throws(scans'[id])
           /\ ToSet(config.selected)' = ToSet(config.selected)
           /\ \A p : MatchAt(scans[id], p)' = MatchAt(scans'[id], p)
<1>1. FoundBy(scans[id])' = FoundBy(scans'[id])
  BY DEF FoundBy
<1>2. Applicable(scans[id])' = Applicable(scans'[id])
  BY DEF Applicable
<1>3. \A r : getScansMatchingRule(scans[id], r)' = getScansMatchingRule(scans'[id], r)
  BY <1>1 DEF getScansMatchingRule
<1>4. getCascadingScans(scans[id])' = getCascadingScans(scans'[id])
  BY <1>1, <1>2, <1>3 DEF getCascadingScans
<1>5. Throws(scans[id])' <=> Throws(scans'[id])
  BY <1>1, <1>2 DEF Throws
<1>6. \A p : MatchAt(scans[id], p)' = MatchAt(scans'[id], p)
  BY <1>1 DEF MatchAt
<1> QED
  BY <1>1, <1>4, <1>5, <1>6

LEMMA DueKept ==
    ASSUME Typed, Tree, Numbered, Due, [Next]_vars
    PROVE  Due'
<1>1. config' = config
  BY TreeSteps
<1>2. \A n \in DOMAIN scans' : ScanDue(scans'[n])
  <2>1. CASE scans' = scans
    BY <2>1 DEF Due
  <2>2. ASSUME NEW id \in DOMAIN scans, Moved(id) PROVE \A n \in DOMAIN scans' : ScanDue(scans'[n])
    BY <2>2, DueMoves DEF Due, Moved
  <2>3. ASSUME NEW id \in DOMAIN scans, Adds(id) PROVE \A n \in DOMAIN scans' : ScanDue(scans'[n])
    <3> DEFINE s == scans[id]
               t == scans'[id]
               c == scans'[NextChild(id)]
    <3>1. ScanDue(s)
      BY DEF Due
    <3>2. SameSpec(s, t) /\ t.state = s.state /\ s.state = "create" /\ t.read = s.read /\ t.todo \subseteq s.todo
      BY <2>3 DEF Adds
    <3>3. getCascadingScans(t) = getCascadingScans(s) /\ (Throws(t) <=> Throws(s))
      BY <3>2, SameMatches
    <3>4. c.state = "scanning" /\ c.read = {} /\ c.todo = {}
      BY <2>3 DEF Adds
    <3>5. /\ DOMAIN scans' = DOMAIN scans \cup {NextChild(id)}
          /\ \A n \in DOMAIN scans : n # id => scans'[n] = scans[n]
      BY <2>3 DEF Adds
    <3> HIDE DEF s, t, c
    <3>6. ScanDue(t)
      BY <3>1, <3>2, <3>3 DEF ScanDue
    <3>7. ScanDue(c)
      BY <3>4 DEF ScanDue
    <3> QED
      BY <3>5, <3>6, <3>7 DEF Due, t, c
  <2> QED
    BY <2>1, <2>2, <2>3, TreeSteps
<1>3. \A n \in DOMAIN scans' : ScanDue(scans[n])'
  BY <1>1, <1>2, SameConfig DEF ScanDue
<1> QED
  BY <1>3 DEF Due

(* A cascaded Scan and the match it comes from.                             *)
LEMMA CascadedIs ==
    ASSUME Tree, NEW n \in Cascaded
    PROVE  /\ n \in DOMAIN scans /\ n \in Seq(Origin) /\ Len(n) >= 1
           /\ Last(n)[1] \in Rules /\ Last(n)[2] \in Findings /\ Last(n)[3] \in Nat \ {0}
           /\ Front(n) \in DOMAIN scans
<1>1. n \in DOMAIN scans /\ n # <<>> /\ n \in Seq(Origin) /\ Front(n) \in DOMAIN scans
  BY DEF Tree, Cascaded, RootId
<1>2. Len(n) >= 1 /\ Len(n) \in Nat
  BY <1>1
<1>3. Last(n) \in Origin
  BY <1>1, <1>2 DEF Last
<1> QED
  BY <1>1, <1>2, <1>3 DEF Origin

(* A place of the loop stands for a match.                                  *)
LEMMA PlaceIsMatch ==
    ASSUME Typed, NEW id \in DOMAIN scans, NEW p \in getCascadingScans(scans[id]),
           NEW m, m = MatchAt(scans[id], p)
    PROVE  /\ m \in Rules \X Findings
           /\ m[1] \in scans[id].read \ ToSet(scans[id].chain)
           /\ m[2] \in config.rules[m[1]].matches \cap ToSet(FoundBy(scans[id]))
           /\ isInScope(config.limiter, scans[id].scope, config.attributes[m[2]]) = "true"
<1> DEFINE s == scans[id]
<1>1. p \in (DOMAIN config.selected) \X (DOMAIN FoundBy(s))
  BY DEF getCascadingScans
<1>2. m = <<config.selected[p[1]], FoundBy(s)[p[2]]>> /\ m \in Rules \X Findings
  BY <1>1, MatchesTyped DEF MatchAt, Typed
<1>3. m[1] = config.selected[p[1]] /\ m[2] = FoundBy(s)[p[2]]
  BY <1>2
<1>4. m[2] \in ToSet(FoundBy(s))
  BY <1>1, <1>3 DEF ToSet
<1> QED
  BY <1>1, <1>2, <1>3, <1>4 DEF getCascadingScans, Applicable, getScansMatchingRule

LEMMA NextIsMatch ==
    ASSUME Typed, Due, NEW id \in DOMAIN scans, scans[id].todo # {},
           NEW m, m = NextMatch(scans[id])
    PROVE  /\ m \in Rules \X Findings
           /\ m[1] \in scans[id].read \ ToSet(scans[id].chain)
           /\ m[2] \in config.rules[m[1]].matches \cap ToSet(FoundBy(scans[id]))
           /\ isInScope(config.limiter, scans[id].scope, config.attributes[m[2]]) = "true"
<1>1. /\ FirstPlace(scans[id].todo) \in getCascadingScans(scans[id])
      /\ m = MatchAt(scans[id], FirstPlace(scans[id].todo))
  BY NextIsDue DEF Typed, Due, ScanDue
<1> QED
  BY <1>1, PlaceIsMatch

(* No two places of the loop stand for the same match.                      *)
LEMMA PlacesDiffer ==
    ASSUME Typed, NEW id \in DOMAIN scans,
           NEW p \in scans[id].todo, NEW q \in scans[id].todo,
           MatchAt(scans[id], p) = MatchAt(scans[id], q)
    PROVE  p = q
<1> DEFINE found == FoundBy(scans[id])
<1>1. p \in (DOMAIN config.selected) \X (DOMAIN found) /\ q \in (DOMAIN config.selected) \X (DOMAIN found)
  BY DEF Typed, TypeOK
<1>2. config.selected[p[1]] = config.selected[q[1]] /\ found[p[2]] = found[q[2]]
  BY DEF MatchAt
<1>3. IsInjective(config.selected) /\ IsInjective(found)
  BY Configured, FoundAreFindings DEF Typed, IsConfig
<1>4. p[1] = q[1] /\ p[2] = q[2]
  BY <1>1, <1>2, <1>3 DEF IsInjective
<1> QED
  BY <1>1, <1>4

LEMMA NumberedKept ==
    ASSUME Typed, Tree, Numbered, Due, [Next]_vars
    PROVE  Numbered'
<1> DEFINE Matches(n, s) == Last(n)[2] \in config.rules[Last(n)[1]].matches \cap ToSet(FoundBy(s))
<1>0. config' = config
  BY TreeSteps
<1>1. ASSUME NEW id \in DOMAIN scans, Moved(id)
      PROVE  \A n \in Cascaded' :
                /\ Last(n)[3] <= Cardinality(Copies(Front(n), <<Last(n)[1], Last(n)[2]>>)')
                /\ Matches(n, scans'[Front(n)])
  <2> TAKE n \in Cascaded'
  <2>1. n \in Cascaded /\ Front(n) \in DOMAIN scans
    BY <1>1, CascadedIs DEF Moved, Cascaded
  <2>2. FoundBy(scans'[Front(n)]) = FoundBy(scans[Front(n)])
    BY <1>1, <2>1, SameMatches DEF Moved, Moves
  <2>3. Copies(Front(n), <<Last(n)[1], Last(n)[2]>>)' = Copies(Front(n), <<Last(n)[1], Last(n)[2]>>)
    BY <1>1, CopiesMoved DEF Moved
  <2> QED
    BY <2>1, <2>2, <2>3 DEF Numbered, Parent
<1>2. ASSUME NEW id \in DOMAIN scans, Adds(id)
      PROVE  \A n \in Cascaded' :
                /\ Last(n)[3] <= Cardinality(Copies(Front(n), <<Last(n)[1], Last(n)[2]>>)')
                /\ Matches(n, scans'[Front(n)])
  <2> TAKE n \in Cascaded'
  <2>1. PICK match : match = NextMatch(scans[id])
    OBVIOUS
  <2>2. /\ match \in Rules \X Findings
        /\ match[2] \in config.rules[match[1]].matches \cap ToSet(FoundBy(scans[id]))
    BY <1>2, <2>1, NextIsMatch DEF Adds
  <2>3. /\ \A k, m : k # id \/ m # match => Copies(k, m)' = Copies(k, m)
        /\ Cardinality(Copies(id, match)') = Cardinality(Copies(id, match)) + 1
    BY <1>2, <2>1, CopiesAdded
  <2>4. /\ Front(NextChild(id)) = id
        /\ Last(NextChild(id)) = <<match[1], match[2], Cardinality(Copies(id, match)) + 1>>
        /\ SameSpec(scans[id], scans'[id])
        /\ \A k \in DOMAIN scans : k # id => scans'[k] = scans[k]
        /\ DOMAIN scans' = DOMAIN scans \cup {NextChild(id)}
    BY <1>2, <2>1 DEF Adds
  <2>5. CASE n = NextChild(id)
    <3>1. FoundBy(scans'[id]) = FoundBy(scans[id])
      BY <2>4, SameMatches
    <3>2. Last(n)[1] = match[1] /\ Last(n)[2] = match[2] /\ Front(n) = id
          /\ Last(n)[3] = Cardinality(Copies(id, match)) + 1
      BY <2>4, <2>5
    <3>3. Matches(n, scans'[Front(n)])
      BY <2>2, <3>1, <3>2
    <3>4. <<Last(n)[1], Last(n)[2]>> = match
      BY <2>2, <3>2
    <3>5. Cardinality(Copies(id, match)) \in Nat
      BY CopiesFinite
    <3>6. Last(n)[3] <= Cardinality(Copies(id, match)')
      BY <2>3, <3>2, <3>5
    <3> QED
      BY <3>2, <3>3, <3>4, <3>6
  <2>6. CASE n # NextChild(id)
    <3>1. n \in Cascaded
      BY <2>4, <2>6 DEF Cascaded
    <3>2. Front(n) \in DOMAIN scans /\ Last(n)[3] \in Nat
      BY <3>1, CascadedIs
    <3>3. FoundBy(scans'[Front(n)]) = FoundBy(scans[Front(n)])
      BY <2>4, <3>2, SameMatches
    <3>4. Matches(n, scans'[Front(n)])
      BY <3>1, <3>3 DEF Numbered, Parent
    <3>5. PICK m : m = <<Last(n)[1], Last(n)[2]>>
      OBVIOUS
    <3>6. Last(n)[3] <= Cardinality(Copies(Front(n), m))
      BY <3>1, <3>5 DEF Numbered
    <3>7. Last(n)[3] <= Cardinality(Copies(Front(n), m)')
      <4>1. Cardinality(Copies(id, match)) \in Nat
        BY CopiesFinite
      <4>2. CASE Front(n) = id /\ m = match
        BY <2>3, <3>2, <3>6, <4>1, <4>2
      <4>3. CASE Front(n) # id \/ m # match
        BY <2>3, <3>6, <4>3
      <4> QED
        BY <4>2, <4>3
    <3> QED
      BY <3>4, <3>5, <3>7
  <2> QED
    BY <2>5, <2>6
<1>3. CASE scans' = scans
  BY <1>0, <1>3 DEF Numbered, Cascaded, Copies, Parent, FoundBy
<1>4. ASSUME NEW id \in DOMAIN scans, Moved(id) \/ Adds(id) PROVE Numbered'
  <2>1. \A n \in Cascaded' :
           /\ Last(n)[3] <= Cardinality(Copies(Front(n), <<Last(n)[1], Last(n)[2]>>)')
           /\ Matches(n, scans'[Front(n)])
    BY <1>1, <1>2, <1>4
  <2> QED
    BY <1>0, <2>1 DEF Numbered, Parent, FoundBy
<1> QED
  BY <1>3, <1>4, TreeSteps

(* The tree of a cascade, as far as the theorems about it need it.          *)
Cascade == Typed /\ Tree /\ Numbered /\ Due

LEMMA CascadeInit ==
    ASSUME Init
    PROVE  Cascade
<1>1. Typed /\ DOMAIN scans = {RootId}
  BY TypedInit DEF Init
<1>2. Tree /\ Numbered
  <2>1. RootId \in Seq(Origin) /\ Cascaded = {}
    BY <1>1 DEF RootId, Cascaded
  <2>2. IsFiniteSet(DOMAIN scans)
    BY <1>1, FS_Singleton
  <2> QED
    BY <1>1, <2>1, <2>2 DEF Tree, Numbered
<1>3. scans[RootId].state = "scanning" /\ scans[RootId].read = {} /\ scans[RootId].todo = {}
  BY DEF Init, New
<1>4. Due
  BY <1>1, <1>3 DEF Due, ScanDue
<1> QED
  BY <1>1, <1>2, <1>4 DEF Cascade

LEMMA CascadeKept ==
    ASSUME Cascade, [Next]_vars
    PROVE  Cascade'
BY TypedKept, TreeKept, NumberedKept, DueKept DEF Cascade

-----------------------------------------------------------------------------
(***************************************************************************)
(* Rules.                                                                   *)
(***************************************************************************)
LEMMA ChainsKept ==
    ASSUME Cascade, ChainsAreLoopFree, [Next]_vars
    PROVE  ChainsAreLoopFree'
<1>1. CASE scans' = scans
  BY <1>1 DEF ChainsAreLoopFree
<1>2. ASSUME NEW id \in DOMAIN scans, Moved(id) PROVE ChainsAreLoopFree'
  <2>1. DOMAIN scans' = DOMAIN scans /\ \A n \in DOMAIN scans : scans'[n].chain = scans[n].chain
    BY <1>2 DEF Moved, Moves, SameSpec
  <2> QED
    BY <2>1 DEF ChainsAreLoopFree
<1>3. ASSUME NEW id \in DOMAIN scans, Adds(id) PROVE ChainsAreLoopFree'
  <2>1. PICK child, match : child = NextChild(id) /\ match = NextMatch(scans[id])
    OBVIOUS
  <2>2. /\ child \in Seq(Origin) /\ Len(child) = Len(id) + 1 /\ Front(child) = id
        /\ Last(child)[1] = match[1]
        /\ scans'[child].chain = Append(scans[id].chain, match[1])
        /\ DOMAIN scans' = DOMAIN scans \cup {child}
        /\ \A n \in DOMAIN scans : scans'[n].chain = scans[n].chain
    <3>1. /\ child \in Seq(Origin) /\ Len(child) = Len(id) + 1 /\ Front(child) = id
          /\ DOMAIN scans' = DOMAIN scans \cup {child}
      BY <1>3, <2>1 DEF Adds
    <3>2. /\ Last(child)[1] = match[1]
          /\ scans'[child].chain = Append(scans[id].chain, match[1])
      BY <1>3, <2>1 DEF Adds
    <3>3. \A n \in DOMAIN scans : scans'[n].chain = scans[n].chain
      BY <1>3 DEF Adds, SameSpec
    <3> QED
      BY <3>1, <3>2, <3>3
  <2>3. match[1] \in Rules \ ToSet(scans[id].chain)
    BY <1>3, <2>1, NextIsMatch DEF Cascade, Adds
  <2>4. PICK chain \in Seq(Rules) : chain = scans[id].chain
    BY ChainTyped DEF Cascade
  <2>5. chain = [i \in DOMAIN id |-> id[i][1]] /\ IsInjective(chain)
    BY <2>4 DEF ChainsAreLoopFree
  <2>6. id \in Seq(Origin)
    BY DEF Cascade, Tree
  <2>7. /\ Len(chain) = Len(id) /\ DOMAIN chain = 1..Len(id) /\ Len(id) \in Nat
        /\ \A i \in 1..Len(id) : chain[i] = id[i][1]
    BY <2>5, <2>6
  <2>8. PICK t : t = scans'[child].chain
    OBVIOUS
  <2>9. /\ DOMAIN t = 1..(Len(id) + 1) /\ t[Len(id) + 1] = match[1]
        /\ \A i \in 1..Len(id) : t[i] = chain[i]
        /\ t \in Seq(Rules)
    BY <2>2, <2>3, <2>4, <2>7, <2>8
  <2>10. t = [i \in DOMAIN child |-> child[i][1]]
    <3>1. DOMAIN child = 1..(Len(id) + 1)
      BY <2>2
    <3>2. \A i \in 1..Len(id) : child[i] = id[i]
      BY <2>2, <2>7, <3>1 DEF Front
    <3>3. child[Len(id) + 1][1] = match[1]
      BY <2>2 DEF Last
    <3>4. \A i \in 1..(Len(id) + 1) : i \in 1..Len(id) \/ i = Len(id) + 1
      BY <2>7
    <3>5. \A i \in 1..(Len(id) + 1) : t[i] = child[i][1]
      BY <2>7, <2>9, <3>2, <3>3, <3>4
    <3>6. t = [i \in DOMAIN t |-> t[i]]
      BY <2>9
    <3> QED
      BY <2>9, <3>1, <3>5, <3>6
  <2>11. IsInjective(t)
    <3>1. \A i \in 1..Len(id) : chain[i] # match[1]
      BY <2>3, <2>4, <2>7 DEF ToSet
    <3> SUFFICES ASSUME NEW i \in 1..(Len(id) + 1), NEW j \in 1..(Len(id) + 1), t[i] = t[j]
                 PROVE  i = j
      BY <2>9 DEF IsInjective
    <3>2. (i \in 1..Len(id) \/ i = Len(id) + 1) /\ (j \in 1..Len(id) \/ j = Len(id) + 1)
      BY <2>7
    <3>3. CASE i \in 1..Len(id) /\ j \in 1..Len(id)
      BY <2>5, <2>7, <2>9, <3>3 DEF IsInjective
    <3>4. CASE i \in 1..Len(id) /\ j = Len(id) + 1
      BY <2>9, <3>1, <3>4
    <3>5. CASE i = Len(id) + 1 /\ j \in 1..Len(id)
      BY <2>9, <3>1, <3>5
    <3> QED
      BY <3>2, <3>3, <3>4, <3>5
  <2>12. ASSUME NEW n \in DOMAIN scans
         PROVE  /\ scans'[n].chain = [i \in DOMAIN n |-> n[i][1]]
                /\ IsInjective(scans'[n].chain)
    BY <2>2 DEF ChainsAreLoopFree
  <2>13. /\ scans'[child].chain = [i \in DOMAIN child |-> child[i][1]]
         /\ IsInjective(scans'[child].chain)
    BY <2>8, <2>10, <2>11
  <2>14. DOMAIN scans' = DOMAIN scans \cup {child}
    BY <2>2
  <2> QED
    BY <2>12, <2>13, <2>14 DEF ChainsAreLoopFree
<1> QED
  BY <1>1, <1>2, <1>3, TreeSteps DEF Cascade

(* No rule occurs twice in the chain of a Scan, and the chain is the rules  *)
(* by which the Scan came about: a cascade of rules that match each other's *)
(* findings ends.                                                           *)
THEOREM CascadesDoNotLoop == Spec => []ChainsAreLoopFree
<1>1. Init => Cascade /\ ChainsAreLoopFree
  <2>1. Init => DOMAIN scans = {RootId} /\ scans[RootId].chain = <<>>
    BY DEF Init, New
  <2> QED
    BY <2>1, CascadeInit DEF ChainsAreLoopFree, RootId, IsInjective
<1>2. Cascade /\ ChainsAreLoopFree /\ [Next]_vars => (Cascade /\ ChainsAreLoopFree)'
  BY CascadeKept, ChainsKept
<1> QED
  BY <1>1, <1>2, PTL DEF Spec

-----------------------------------------------------------------------------
(***************************************************************************)
(* Scope.                                                                   *)
(***************************************************************************)
Scoped ==
    /\ \A id \in DOMAIN scans : scans[id].scope = config.root.scope
    /\ \A id \in Cascaded : Permitted(Last(id)[2])

LEMMA ScopeKept ==
    ASSUME Cascade, Scoped, [Next]_vars
    PROVE  Scoped'
<1>1. config' = config
  BY TreeSteps DEF Cascade
<1>2. \A f : Permitted(f)' <=> Permitted(f)
  BY <1>1 DEF Permitted, Satisfied
<1>3. CASE scans' = scans
  BY <1>1, <1>2, <1>3 DEF Scoped, Cascaded
<1>4. ASSUME NEW id \in DOMAIN scans, Moved(id) PROVE Scoped'
  <2>1. DOMAIN scans' = DOMAIN scans /\ \A n \in DOMAIN scans : scans'[n].scope = scans[n].scope
    BY <1>4 DEF Moved, Moves, SameSpec
  <2> QED
    BY <1>1, <1>2, <2>1 DEF Scoped, Cascaded
<1>5. ASSUME NEW id \in DOMAIN scans, Adds(id) PROVE Scoped'
  <2>1. PICK child, match : child = NextChild(id) /\ match = NextMatch(scans[id])
    OBVIOUS
  <2>2. /\ Last(child)[2] = match[2]
        /\ DOMAIN scans' = DOMAIN scans \cup {child}
        /\ scans'[child].scope = scans[id].scope
        /\ \A n \in DOMAIN scans : scans'[n].scope = scans[n].scope
    BY <1>5, <2>1 DEF Adds, SameSpec
  <2>3. /\ match[2] \in Findings
        /\ isInScope(config.limiter, config.root.scope, config.attributes[match[2]]) = "true"
    <3>1. /\ match \in Rules \X Findings
          /\ isInScope(config.limiter, scans[id].scope, config.attributes[match[2]]) = "true"
      BY <1>5, <2>1, NextIsMatch DEF Cascade, Adds
    <3>2. scans[id].scope = config.root.scope
      BY DEF Scoped
    <3> QED
      BY <3>1, <3>2
  <2>4. Permitted(match[2])
    BY <2>3, InScopeIs DEF Cascade, Typed
  <2> QED
    BY <1>1, <1>2, <2>2, <2>4 DEF Scoped, Cascaded
<1> QED
  BY <1>3, <1>4, <1>5, TreeSteps DEF Cascade

LEMMA ScopeInit ==
    ASSUME Init
    PROVE  Scoped
<1>1. DOMAIN scans = {RootId} /\ scans[RootId].scope = config.root.scope
  BY DEF Init, New
<1> QED
  BY <1>1 DEF Scoped, Cascaded

(* However deep the cascade and whatever it inherits, each Scan has the     *)
(* scope annotations of the first one and comes from a finding that the     *)
(* scope limiter permits under them.                                        *)
THEOREM ScopeIsNeverLeft == Spec => []ScopeIsKept
<1>1. Init => Cascade /\ Scoped
  BY CascadeInit, ScopeInit
<1>2. Cascade /\ Scoped /\ [Next]_vars => (Cascade /\ Scoped)'
  BY CascadeKept, ScopeKept
<1>3. Cascade /\ Scoped => ScopeIsKept
  BY DEF Scoped, ScopeIsKept, Cascade, Tree, Cascaded, Root
<1> QED
  BY <1>1, <1>2, <1>3, PTL DEF Spec

-----------------------------------------------------------------------------
(***************************************************************************)
(* Matches.                                                                 *)
(***************************************************************************)
(* A place is still to come, has a Scan, or its creation failed.            *)
Followed ==
    \A id \in DOMAIN scans : LET s == scans[id] IN
        s.state \in {"create", "done"} =>
            \A p \in getCascadingScans(s) :
                p \in s.todo \/ Copies(id, MatchAt(s, p)) # {} \/ MatchAt(s, p) \in s.lost

(* What a step leaves of it for one Scan.                                   *)
FollowedNow(n) ==
    LET t == scans'[n]
    IN  t.state \in {"create", "done"} =>
            \A p \in getCascadingScans(t) : \A m : m = MatchAt(t, p) =>
                p \in t.todo \/ Copies(n, m)' # {} \/ m \in t.lost

LEMMA FollowedMoves ==
    ASSUME Cascade, Followed, NEW id \in DOMAIN scans, Moved(id)
    PROVE  FollowedNow(id)
<1>1. PICK s, t : s = scans[id] /\ t = scans'[id]
  OBVIOUS
<1>2. Moves(s, t) /\ (s.todo # {} => NextMatch(s) = MatchAt(s, FirstPlace(s.todo)))
  BY <1>1, NextIsDue DEF Moved, Cascade, Typed
<1>3. /\ \A p : MatchAt(t, p) = MatchAt(s, p)
      /\ t.read = s.read => getCascadingScans(t) = getCascadingScans(s)
  BY <1>2, SameMatches DEF Moves
<1>4. \A m : Copies(id, m)' = Copies(id, m)
  BY CopiesMoved DEF Moved
<1>5. s.state \in {"create", "done"} =>
         \A p \in getCascadingScans(s) :
            p \in s.todo \/ Copies(id, MatchAt(s, p)) # {} \/ MatchAt(s, p) \in s.lost
  BY <1>1 DEF Followed
<1>6. t.state \in {"create", "done"} =>
         \A p \in getCascadingScans(t) : \A m : m = MatchAt(t, p) =>
            p \in t.todo \/ Copies(id, m)' # {} \/ m \in t.lost
  <2>1. CASE Starts(s, t) \/ ListsRules(s, t) \/ Exits(s, t)
    BY <2>1 DEF Starts, ListsRules, Exits
  <2>2. CASE FindsMatches(s, t)
    BY <1>3, <2>2 DEF FindsMatches
  <2>3. CASE PassesOver(s, t)
    BY <1>2, <1>3, <1>4, <1>5, <2>3 DEF PassesOver
  <2>4. CASE Finishes(s, t)
    BY <1>3, <1>4, <1>5, <2>4 DEF Finishes
  <2> QED
    BY <1>2, <2>1, <2>2, <2>3, <2>4 DEF Moves
<1> QED
  BY <1>1, <1>6 DEF FollowedNow

LEMMA FollowedAdds ==
    ASSUME Cascade, Followed, NEW id \in DOMAIN scans, Adds(id)
    PROVE  FollowedNow(id)
<1>1. PICK s, t, match : s = scans[id] /\ t = scans'[id] /\ match = NextMatch(s)
  OBVIOUS
<1>2. /\ SameSpec(s, t) /\ t.read = s.read /\ t.lost = s.lost /\ s.state = "create"
      /\ s.todo # {} /\ t.todo = s.todo \ {FirstPlace(s.todo)}
  BY <1>1 DEF Adds
<1>3. /\ \A p : MatchAt(t, p) = MatchAt(s, p)
      /\ getCascadingScans(t) = getCascadingScans(s)
  BY <1>2, SameMatches
<1>4. match = MatchAt(s, FirstPlace(s.todo))
  BY <1>1, <1>2, NextIsDue DEF Cascade, Typed
<1>5. (\A m : Copies(id, m) \subseteq Copies(id, m)') /\ Copies(id, match)' # {}
  BY <1>1, CopiesAdded DEF Cascade
<1>6. \A p \in getCascadingScans(s) :
         p \in s.todo \/ Copies(id, MatchAt(s, p)) # {} \/ MatchAt(s, p) \in s.lost
  BY <1>1, <1>2 DEF Followed
<1>7. \A p \in getCascadingScans(t) : \A m : m = MatchAt(t, p) =>
         p \in t.todo \/ Copies(id, m)' # {} \/ m \in t.lost
  BY <1>2, <1>3, <1>4, <1>5, <1>6
<1> QED
  BY <1>1, <1>7 DEF FollowedNow

LEMMA FollowedKept ==
    ASSUME Cascade, Followed, [Next]_vars
    PROVE  Followed'
<1>1. config' = config
  BY TreeSteps DEF Cascade
<1>2. \A n \in DOMAIN scans' : FollowedNow(n)
  <2>1. CASE scans' = scans
    BY <2>1 DEF Followed, FollowedNow, Copies
  <2>2. ASSUME NEW id \in DOMAIN scans, Moved(id) PROVE \A n \in DOMAIN scans' : FollowedNow(n)
    <3> TAKE n \in DOMAIN scans'
    <3>1. n \in DOMAIN scans /\ (n # id => scans'[n] = scans[n])
      BY <2>2 DEF Moved
    <3>2. \A m : Copies(n, m)' = Copies(n, m)
      BY <2>2, CopiesMoved DEF Moved
    <3>3. n # id => FollowedNow(n)
      BY <3>1, <3>2 DEF Followed, FollowedNow
    <3> QED
      BY <2>2, <3>3, FollowedMoves
  <2>3. ASSUME NEW id \in DOMAIN scans, Adds(id) PROVE \A n \in DOMAIN scans' : FollowedNow(n)
    <3> TAKE n \in DOMAIN scans'
    <3>1. CASE n = id
      BY <2>3, <3>1, FollowedAdds
    <3>2. CASE n = NextChild(id)
      BY <2>3, <3>2 DEF Adds, FollowedNow
    <3>3. CASE n # id /\ n # NextChild(id)
      <4>1. n \in DOMAIN scans /\ scans'[n] = scans[n]
        BY <2>3, <3>3 DEF Adds
      <4>2. \A m : Copies(n, m)' = Copies(n, m)
        BY <2>3, <3>3, CopiesAdded DEF Cascade
      <4> QED
        BY <4>1, <4>2 DEF Followed, FollowedNow
    <3> QED
      BY <3>1, <3>2, <3>3
  <2> QED
    BY <2>1, <2>2, <2>3, TreeSteps DEF Cascade
<1> SUFFICES ASSUME NEW n \in DOMAIN scans', scans'[n].state \in {"create", "done"},
                    NEW p \in getCascadingScans(scans[n])'
             PROVE  \/ p \in scans'[n].todo
                    \/ Copies(n, MatchAt(scans[n], p))' # {} \/ MatchAt(scans[n], p)' \in scans'[n].lost
  BY DEF Followed
<1>3. p \in getCascadingScans(scans'[n])
  BY <1>1, SameConfig
<1>4. PICK m : m = MatchAt(scans[n], p)'
  OBVIOUS
<1>5. m = MatchAt(scans'[n], p)
  BY <1>1, <1>4, SameConfig
<1>6. p \in scans'[n].todo \/ Copies(n, m)' # {} \/ m \in scans'[n].lost
  BY <1>2, <1>3, <1>5 DEF FollowedNow
<1> QED
  BY <1>4, <1>6 DEF Copies

LEMMA FollowedIs ==
    ASSUME Cascade, Scoped, Followed
    PROVE  EveryMatchIsFollowed
<1> SUFFICES ASSUME NEW id \in DOMAIN scans, scans[id].state = "done",
                    NEW r \in scans[id].read, NEW f \in ToSet(FoundBy(scans[id])),
                    r \notin ToSet(scans[id].chain), f \in config.rules[r].matches, Permitted(f)
             PROVE  Copies(id, <<r, f>>) # {} \/ <<r, f>> \in scans[id].lost
  BY DEF EveryMatchIsFollowed
<1> DEFINE s == scans[id]
<1>1. s.todo = {} /\ ~Throws(s) /\ s.read \subseteq ToSet(config.selected)
  BY DEF Cascade, Due, ScanDue
<1>2. PICK i \in DOMAIN config.selected : config.selected[i] = r
  BY <1>1 DEF ToSet
<1>3. PICK k \in DOMAIN FoundBy(s) : FoundBy(s)[k] = f
  BY DEF ToSet
<1>4. r \in Applicable(s)
  BY DEF Applicable
<1>5. isInScope(config.limiter, s.scope, config.attributes[f]) = "true"
  <2>1. isInScope(config.limiter, s.scope, config.attributes[f]) # "error"
    BY <1>1, <1>4 DEF Throws
  <2>2. s.scope = config.root.scope
    BY DEF Scoped
  <2>3. f \in Findings
    <3>1. FoundBy(s) \in Seq(Findings)
      BY FoundAreFindings DEF Cascade, Typed
    <3> QED
      BY <1>3, <3>1
  <2> QED
    BY <2>1, <2>2, <2>3, InScopeIs DEF Cascade, Typed
<1>6. <<i, k>> \in getCascadingScans(s) /\ MatchAt(s, <<i, k>>) = <<r, f>>
  BY <1>2, <1>3, <1>4, <1>5 DEF getCascadingScans, getScansMatchingRule, MatchAt
<1> QED
  BY <1>1, <1>6 DEF Followed

LEMMA FollowedInit ==
    ASSUME Init
    PROVE  Followed
<1>1. DOMAIN scans = {RootId} /\ scans[RootId].state = "scanning"
  BY DEF Init, New
<1> QED
  BY <1>1 DEF Followed

(* A hook that succeeded has started a Scan for every finding in scope that *)
(* matches a rule it read, except where the creation failed, however often  *)
(* its pod was killed before.                                               *)
THEOREM MatchesAreFollowed == Spec => []EveryMatchIsFollowed
<1>1. Init => Cascade /\ Scoped /\ Followed
  BY CascadeInit, ScopeInit, FollowedInit
<1>2. Cascade /\ Scoped /\ Followed /\ [Next]_vars => (Cascade /\ Scoped /\ Followed)'
  BY CascadeKept, ScopeKept, FollowedKept
<1>3. Cascade /\ Scoped /\ Followed => EveryMatchIsFollowed
  BY FollowedIs
<1> QED
  BY <1>1, <1>2, <1>3, PTL DEF Spec

(* As many Scans for a match as its hook had attempts, one fewer as long as *)
(* the attempt under way has it to come.                                    *)
ScanCounted(id, s) ==
    \A m \in Rules \X Findings :
        /\ Cardinality(Copies(id, m)) <= s.attempt
        /\ \/ s.state \in {"list rules", "get rule"}
           \/ \E p \in s.todo : MatchAt(s, p) = m
           => Cardinality(Copies(id, m)) < s.attempt
Counted == \A id \in DOMAIN scans : ScanCounted(id, scans[id])

LEMMA AttemptTyped ==
    ASSUME Typed, NEW id \in DOMAIN scans
    PROVE  scans[id].attempt \in Nat /\ (scans[id].state = "scanning" => scans[id].attempt = 0)
<1>1. scans[id].attempt \in 0..config.attempts
  BY DEF Typed, TypeOK
<1>2. config.attempts \in Nat
  BY Configured DEF Typed, IsConfig
<1>3. scans[id].state = "scanning" => scans[id].attempt = 0
  BY DEF Typed
<1> QED
  BY <1>1, <1>2, <1>3

LEMMA CountedMoves ==
    ASSUME Cascade, Counted, NEW id \in DOMAIN scans, Moved(id)
    PROVE  ScanCounted(id, scans'[id])
<1>1. PICK s, t : s = scans[id] /\ t = scans'[id]
  OBVIOUS
<1>2. Moves(s, t)
  BY <1>1 DEF Moved
<1>3. \A p : MatchAt(t, p) = MatchAt(s, p)
  BY <1>2, SameMatches DEF Moves
<1>4. PICK a \in Nat : a = s.attempt /\ (s.state = "scanning" => a = 0)
  BY <1>1, AttemptTyped DEF Cascade
<1>5. s.todo # {} => s.state = "create"
  BY <1>1 DEF Cascade, Due, ScanDue
<1> SUFFICES ASSUME NEW m \in Rules \X Findings
             PROVE  /\ Cardinality(Copies(id, m)) <= t.attempt
                    /\ \/ t.state \in {"list rules", "get rule"}
                       \/ \E p \in t.todo : MatchAt(t, p) = m
                       => Cardinality(Copies(id, m)) < t.attempt
  BY <1>1 DEF ScanCounted
<1>6. PICK n \in Nat : n = Cardinality(Copies(id, m))
  BY CopiesFinite DEF Cascade
<1>7. /\ n <= a
      /\ \/ s.state \in {"list rules", "get rule"}
         \/ \E p \in s.todo : MatchAt(s, p) = m
         => n < a
  BY <1>1, <1>4, <1>6 DEF Counted, ScanCounted
<1>8. CASE Starts(s, t)
  <2>1. t.attempt = a + 1 /\ n <= a
    BY <1>4, <1>7, <1>8 DEF Starts
  <2>2. n <= a + 1 /\ n < a + 1
    BY <2>1
  <2> QED
    BY <1>6, <2>1, <2>2
<1>9. CASE ListsRules(s, t)
  BY <1>4, <1>5, <1>6, <1>7, <1>9 DEF ListsRules
<1>10. CASE FindsMatches(s, t)
  BY <1>4, <1>6, <1>7, <1>10 DEF FindsMatches
<1>11. CASE PassesOver(s, t) \/ Finishes(s, t)
  BY <1>3, <1>4, <1>6, <1>7, <1>11 DEF PassesOver, Finishes
<1>12. CASE Exits(s, t)
  <2>1. t.todo = {} /\ (t.attempt = a + 1 \/ (t.state = "failed" /\ t.attempt = a))
    BY <1>4, <1>12 DEF Exits
  <2>2. CASE t.attempt = a + 1
    <3>1. n <= a
      BY <1>7
    <3>2. n <= a + 1 /\ n < a + 1
      BY <3>1
    <3> QED
      BY <1>6, <2>2, <3>2
  <2>3. CASE t.state = "failed" /\ t.attempt = a
    BY <1>6, <1>7, <2>1, <2>3
  <2> QED
    BY <2>1, <2>2, <2>3
<1> QED
  BY <1>2, <1>8, <1>9, <1>10, <1>11, <1>12 DEF Moves

(* What a step leaves of the count for one Scan.                            *)
CountedNow(n) ==
    LET t == scans'[n]
    IN  \A m \in Rules \X Findings :
            /\ Cardinality(Copies(n, m)') <= t.attempt
            /\ \/ t.state \in {"list rules", "get rule"}
               \/ \E p \in t.todo : MatchAt(t, p) = m
               => Cardinality(Copies(n, m)') < t.attempt

LEMMA CountedAdds ==
    ASSUME Cascade, Counted, NEW id \in DOMAIN scans, Adds(id)
    PROVE  CountedNow(id)
<1>1. PICK s, t, match : s = scans[id] /\ t = scans'[id] /\ match = NextMatch(s)
  OBVIOUS
<1>2. /\ SameSpec(s, t) /\ t.attempt = s.attempt /\ s.state = "create" /\ t.state = "create"
      /\ s.todo # {} /\ t.todo = s.todo \ {FirstPlace(s.todo)}
  BY <1>1 DEF Adds
<1>3. \A p : MatchAt(t, p) = MatchAt(s, p)
  BY <1>2, SameMatches
<1>4. match = MatchAt(s, FirstPlace(s.todo)) /\ FirstPlace(s.todo) \in s.todo
  BY <1>1, <1>2, NextIsDue DEF Cascade, Typed
<1>5. s.attempt \in Nat
  BY <1>1, AttemptTyped DEF Cascade
<1> SUFFICES ASSUME NEW m \in Rules \X Findings
             PROVE  /\ Cardinality(Copies(id, m)') <= t.attempt
                    /\ (\E p \in t.todo : MatchAt(t, p) = m) => Cardinality(Copies(id, m)') < t.attempt
  BY <1>1, <1>2 DEF CountedNow
<1>6. PICK n \in Nat : n = Cardinality(Copies(id, m))
  BY CopiesFinite DEF Cascade
<1>7. /\ n <= s.attempt
      /\ (\E p \in s.todo : MatchAt(s, p) = m) => n < s.attempt
  BY <1>1, <1>6 DEF Counted, ScanCounted
<1>8. CASE m = match
  <2>1. Cardinality(Copies(id, m)') = n + 1
    BY <1>1, <1>6, <1>8, CopiesAdded DEF Cascade
  <2>2. n < s.attempt
    BY <1>4, <1>7, <1>8
  <2>3. ~ \E p \in t.todo : MatchAt(t, p) = m
    <3>1. \A p \in s.todo : MatchAt(s, p) = m => p = FirstPlace(s.todo)
      BY <1>1, <1>4, <1>8, PlacesDiffer DEF Cascade
    <3> QED
      BY <1>2, <1>3, <3>1
  <2> QED
    BY <1>2, <1>5, <2>1, <2>2, <2>3
<1>9. CASE m # match
  <2>1. Cardinality(Copies(id, m)') = n
    BY <1>1, <1>6, <1>9, CopiesAdded DEF Cascade
  <2>2. (\E p \in t.todo : MatchAt(t, p) = m) => \E p \in s.todo : MatchAt(s, p) = m
    BY <1>2, <1>3
  <2> QED
    BY <1>2, <1>7, <2>1, <2>2
<1> QED
  BY <1>8, <1>9

(* A new Scan has started none.                                             *)
LEMMA NewHasNoCopies ==
    ASSUME Cascade, NEW id \in DOMAIN scans, Adds(id), NEW child, child = NextChild(id), NEW m
    PROVE  Copies(child, m)' = {}
<1>1. /\ child \notin DOMAIN scans /\ child \in Seq(Origin)
      /\ DOMAIN scans' = DOMAIN scans \cup {child}
  BY DEF Adds
<1>2. Len(child) \in Nat
  BY <1>1
<1>3. ASSUME NEW n \in DOMAIN scans', Len(n) = Len(child) + 1, Front(n) = child PROVE FALSE
  <2>1. n # child /\ n # RootId
    BY <1>2, <1>3 DEF RootId
  <2>2. n \in Cascaded
    BY <1>1, <2>1 DEF Cascaded
  <2> QED
    BY <1>1, <1>3, <2>2, CascadedIs DEF Cascade
<1> QED
  BY <1>3 DEF Copies

LEMMA CountedKept ==
    ASSUME Cascade, Counted, [Next]_vars
    PROVE  Counted'
<1>1. config' = config
  BY TreeSteps DEF Cascade
<1>2. \A n \in DOMAIN scans' : CountedNow(n)
  <2>1. CASE scans' = scans
    BY <2>1 DEF Counted, ScanCounted, CountedNow, Copies
  <2>2. ASSUME NEW id \in DOMAIN scans, Moved(id) PROVE \A n \in DOMAIN scans' : CountedNow(n)
    <3> TAKE n \in DOMAIN scans'
    <3>1. n \in DOMAIN scans /\ (n # id => scans'[n] = scans[n])
      BY <2>2 DEF Moved
    <3>2. \A m : Copies(n, m)' = Copies(n, m)
      BY <2>2, CopiesMoved DEF Moved
    <3>3. ScanCounted(n, scans'[n])
      BY <2>2, <3>1, CountedMoves DEF Counted
    <3> QED
      BY <3>2, <3>3 DEF ScanCounted, CountedNow
  <2>3. ASSUME NEW id \in DOMAIN scans, Adds(id) PROVE \A n \in DOMAIN scans' : CountedNow(n)
    <3> TAKE n \in DOMAIN scans'
    <3>1. CASE n = id
      BY <2>3, <3>1, CountedAdds
    <3>2. CASE n = NextChild(id)
      <4>1. \A m : Copies(n, m)' = {}
        BY <2>3, <3>2, NewHasNoCopies
      <4>2. scans'[n].state = "scanning" /\ scans'[n].attempt = 0 /\ scans'[n].todo = {}
        BY <2>3, <3>2 DEF Adds
      <4> QED
        BY <4>1, <4>2, FS_EmptySet DEF CountedNow
    <3>3. CASE n # id /\ n # NextChild(id)
      <4>1. n \in DOMAIN scans /\ scans'[n] = scans[n]
        BY <2>3, <3>3 DEF Adds
      <4>2. \A m : Copies(n, m)' = Copies(n, m)
        BY <2>3, <3>3, CopiesAdded DEF Cascade
      <4> QED
        BY <4>1, <4>2 DEF Counted, ScanCounted, CountedNow
    <3> QED
      BY <3>1, <3>2, <3>3
  <2> QED
    BY <2>1, <2>2, <2>3, TreeSteps DEF Cascade
<1> QED
  BY <1>1, <1>2 DEF Counted, ScanCounted, CountedNow, MatchAt, FoundBy

LEMMA CountedInit ==
    ASSUME Init
    PROVE  Counted
<1>1. /\ DOMAIN scans = {RootId} /\ scans[RootId].state = "scanning"
      /\ scans[RootId].attempt = 0 /\ scans[RootId].todo = {}
  BY DEF Init, New
<1>2. \A m : Copies(RootId, m) = {}
  BY <1>1 DEF Copies, RootId
<1>3. \A m : Cardinality(Copies(RootId, m)) = 0
  BY <1>2, FS_EmptySet
<1> SUFFICES ASSUME NEW m \in Rules \X Findings
             PROVE  /\ Cardinality(Copies(RootId, m)) <= 0
                    /\ ~ (scans[RootId].state \in {"list rules", "get rule"})
  BY <1>1 DEF Counted, ScanCounted
<1> QED
  BY <1>1, <1>3

LEMMA CountedIs ==
    ASSUME Cascade, Counted
    PROVE  NoMatchIsFollowedTwice
<1> SUFFICES ASSUME NEW id \in Cascaded
             PROVE  /\ Last(id)[2] \in config.rules[Last(id)[1]].matches \cap ToSet(FoundBy(Parent(id)))
                    /\ Last(id)[3] <= Parent(id).attempt
  BY DEF NoMatchIsFollowedTwice
<1>1. PICK m : m = <<Last(id)[1], Last(id)[2]>>
  OBVIOUS
<1>2. Front(id) \in DOMAIN scans /\ m \in Rules \X Findings /\ Last(id)[3] \in Nat
  BY <1>1, CascadedIs DEF Cascade
<1>3. /\ Last(id)[3] <= Cardinality(Copies(Front(id), m))
      /\ Last(id)[2] \in config.rules[Last(id)[1]].matches \cap ToSet(FoundBy(Parent(id)))
  BY <1>1 DEF Cascade, Numbered
<1>4. Cardinality(Copies(Front(id), m)) <= Parent(id).attempt
  BY <1>2 DEF Counted, ScanCounted, Parent
<1>5. Cardinality(Copies(Front(id), m)) \in Nat /\ Parent(id).attempt \in Nat
  BY <1>2, CopiesFinite, AttemptTyped DEF Cascade, Parent
<1> QED
  BY <1>2, <1>3, <1>4, <1>5

(* A Scan is started only for a match, and for the same match more than     *)
(* once only if the hook was run more than once: at most as often.          *)
THEOREM MatchesAreNotRepeated == Spec => []NoMatchIsFollowedTwice
<1>1. Init => Cascade /\ Counted
  BY CascadeInit, CountedInit
<1>2. Cascade /\ Counted /\ [Next]_vars => (Cascade /\ Counted)'
  BY CascadeKept, CountedKept
<1>3. Cascade /\ Counted => NoMatchIsFollowedTwice
  BY CountedIs
<1> QED
  BY <1>1, <1>2, <1>3, PTL DEF Spec

-----------------------------------------------------------------------------
(***************************************************************************)
(* The entries of the rules.                                                *)
(***************************************************************************)
LEMMA AscendingInterval ==
    ASSUME NEW n \in Nat
    PROVE  Ascending(1..n) = [k \in 1..n |-> k]
<1> DEFINE S == 1..n
           R == {p \in S \X S : p[1] < p[2]}
<1>1. Cardinality(S) = n
  BY FS_Interval
<1>2. ASSUME NEW a \in S PROVE Cardinality({b \in S : <<b, a>> \in R}) = a - 1
  <2>1. {b \in S : <<b, a>> \in R} = 1..(a - 1)
    OBVIOUS
  <2>2. Cardinality(1..(a - 1)) = a - 1
    BY FS_Interval
  <2> QED
    BY <2>1, <2>2
<1>3. Ascending(S) = [k \in 1..Cardinality(S) |->
                        CHOOSE a \in S : Cardinality({b \in S : <<b, a>> \in R}) = k - 1]
  BY DEF Ascending, InOrder, Nth
<1> HIDE DEF R
<1>4. ASSUME NEW k \in S
      PROVE  (CHOOSE a \in S : Cardinality({b \in S : <<b, a>> \in R}) = k - 1) = k
  <2>1. \A a \in S : Cardinality({b \in S : <<b, a>> \in R}) = k - 1 <=> a = k
    BY <1>2
  <2> HIDE DEF S
  <2> QED
    BY <2>1
<1> QED
  BY <1>1, <1>3, <1>4

(* What is left of a list without the entries put behind it.                *)
LEMMA WithoutTheEnd ==
    ASSUME NEW T, NEW a \in Seq(T), NEW b \in Seq(T), ToSet(b) \cap ToSet(a) = {}
    PROVE  Without(a \o b, b) = a
<1>1. /\ a \o b \in Seq(T) /\ DOMAIN (a \o b) = 1..(Len(a) + Len(b))
      /\ Len(a) \in Nat /\ Len(b) \in Nat
      /\ \A i \in 1..Len(a) : (a \o b)[i] = a[i]
      /\ \A i \in (Len(a) + 1)..(Len(a) + Len(b)) : (a \o b)[i] = b[i - Len(a)]
  OBVIOUS
<1>2. {i \in DOMAIN (a \o b) : (a \o b)[i] \notin ToSet(b)} = 1..Len(a)
  <2>1. \A i \in 1..Len(a) : a[i] \notin ToSet(b)
    BY DEF ToSet
  <2>2. \A i \in 1..Len(b) : b[i] \in ToSet(b)
    BY DEF ToSet
  <2>3. \A i \in 1..(Len(a) + Len(b)) : (a \o b)[i] \notin ToSet(b) <=> i \in 1..Len(a)
    <3> TAKE i \in 1..(Len(a) + Len(b))
    <3>1. CASE i \in 1..Len(a)
      BY <1>1, <2>1, <3>1
    <3>2. CASE i \notin 1..Len(a)
      <4>1. i \in (Len(a) + 1)..(Len(a) + Len(b)) /\ i - Len(a) \in 1..Len(b)
        BY <1>1, <3>2
      <4> QED
        BY <1>1, <2>2, <3>2, <4>1
    <3> QED
      BY <3>1, <3>2
  <2>4. 1..Len(a) \subseteq 1..(Len(a) + Len(b))
    BY <1>1
  <2> QED
    BY <1>1, <2>3, <2>4
<1>3. Without(a \o b, b) = [k \in 1..Len(a) |-> (a \o b)[k]]
  <2>1. Ascending(1..Len(a)) = [k \in 1..Len(a) |-> k]
    BY <1>1, AscendingInterval
  <2> QED
    BY <1>2, <2>1 DEF Without
<1>4. a = [k \in 1..Len(a) |-> a[k]]
  OBVIOUS
<1> QED
  BY <1>1, <1>3, <1>4

LEMMA TemplateIsIdle ==
    ASSUME NEW list \in Seq(Entry), NEW finding, \A e \in ToSet(list) : e.value # Template
    PROVE  templateList(list, finding) = list
<1>1. \A i \in DOMAIN list : list[i] \in Entry /\ list[i].value # Template
  BY DEF ToSet
<1>2. \A i \in DOMAIN list : [list[i] EXCEPT !.value = Render(@, finding)] = list[i]
  BY <1>1 DEF Entry, Render
<1>3. list = [i \in DOMAIN list |-> list[i]]
  OBVIOUS
<1> QED
  BY <1>2, <1>3 DEF templateList

(* The last place with a name.                                              *)
IsLast(list, i, name) ==
    /\ i \in DOMAIN list /\ list[i].name = name
    /\ \A j \in DOMAIN list : list[j].name = name => j <= i

LEMMA LastExists ==
    ASSUME NEW list \in Seq(Entry), NEW i \in DOMAIN list
    PROVE  \E l \in DOMAIN list : IsLast(list, l, list[i].name)
<1> DEFINE N == Len(list)
           places == {j \in 1..N : list[j].name = list[i].name}
           behind == {k \in Nat : \E j \in places : k = N - j}
<1>1. N \in Nat /\ DOMAIN list = 1..N /\ places \subseteq 1..N /\ i \in places
  OBVIOUS
<1> HIDE DEF places
<1>2. N - i \in behind
  BY <1>1
<1>3. PICK m \in behind : \A n \in behind : m <= n
  <2>1. behind \in SUBSET Nat /\ behind # {}
    BY <1>2
  <2> HIDE DEF behind
  <2> QED
    BY <2>1, Smallest
<1>4. PICK l \in places : m = N - l
  OBVIOUS
<1>5. \A j \in places : j <= l
  <2> TAKE j \in places
  <2>1. N - j \in behind
    BY <1>1
  <2>2. m <= N - j
    BY <1>3, <2>1
  <2> QED
    BY <1>1, <1>4, <2>2
<1> QED
  BY <1>1, <1>4, <1>5 DEF IsLast, places

LEMMA EffectiveIs ==
    ASSUME NEW list \in Seq(Entry)
    PROVE  /\ DOMAIN Effective(list) = {list[i].name : i \in DOMAIN list}
           /\ \A i, name : IsLast(list, i, name) => Effective(list)[name] = list[i].value
<1>1. DOMAIN Effective(list) = {list[i].name : i \in DOMAIN list}
  BY DEF Effective, ToSet
<1>2. ASSUME NEW i, NEW name, IsLast(list, i, name) PROVE Effective(list)[name] = list[i].value
  <2> DEFINE places == {j \in 1..Len(list) : list[j].name = name}
  <2>1. DOMAIN list = 1..Len(list) /\ Len(list) \in Nat
    OBVIOUS
  <2>2. i \in places /\ places \subseteq Nat /\ \A j \in places : j <= i
    BY <1>2, <2>1 DEF IsLast
  <2>3. Max(places) = i
    <3> HIDE DEF places
    <3>1. \A x \in places : (\A y \in places : x >= y) <=> x = i
      BY <2>2
    <3> QED
      BY <2>2, <3>1 DEF Max
  <2>4. SelectLastInSeq(list, LAMBDA e : e.name = name) = i
    BY <2>2, <2>3 DEF SelectLastInSeq
  <2>5. name \in DOMAIN Effective(list)
    BY <1>1, <1>2 DEF IsLast
  <2> QED
    BY <2>4, <2>5 DEF Effective
<1> QED
  BY <1>1, <1>2

(* Entries behind others override them.                                     *)
LEMMA EffectiveJoins ==
    ASSUME NEW a \in Seq(Entry), NEW b \in Seq(Entry)
    PROVE  Effective(a \o b) = Over(Effective(b), Effective(a))
<1>1. /\ a \o b \in Seq(Entry) /\ DOMAIN (a \o b) = 1..(Len(a) + Len(b))
      /\ Len(a) \in Nat /\ Len(b) \in Nat /\ DOMAIN a = 1..Len(a) /\ DOMAIN b = 1..Len(b)
      /\ \A i \in 1..Len(a) : (a \o b)[i] = a[i]
      /\ \A i \in 1..Len(b) : (a \o b)[Len(a) + i] = b[i]
  OBVIOUS
<1> DEFINE ab == a \o b
<1> HIDE DEF ab
<1>2. \A i \in 1..(Len(a) + Len(b)) :
         \/ i \in 1..Len(a) /\ ab[i] = a[i]
         \/ \E j \in 1..Len(b) : i = Len(a) + j /\ ab[i] = b[j]
  <2> TAKE i \in 1..(Len(a) + Len(b))
  <2>1. CASE i \in 1..Len(a)
    BY <1>1, <2>1 DEF ab
  <2>2. CASE i \notin 1..Len(a)
    <3>1. i - Len(a) \in 1..Len(b) /\ i = Len(a) + (i - Len(a))
      BY <1>1, <2>2
    <3> QED
      BY <1>1, <3>1 DEF ab
  <2> QED
    BY <2>1, <2>2
<1>3. /\ \A i \in 1..Len(a) : i \in 1..(Len(a) + Len(b))
      /\ \A i \in 1..Len(b) : Len(a) + i \in 1..(Len(a) + Len(b))
  BY <1>1
<1>4. DOMAIN ab = 1..(Len(a) + Len(b)) /\ ab \in Seq(Entry)
      /\ (\A i \in 1..Len(a) : ab[i] = a[i]) /\ \A i \in 1..Len(b) : ab[Len(a) + i] = b[i]
  BY <1>1 DEF ab
<1>5. {ab[i].name : i \in DOMAIN ab} =
         {b[i].name : i \in DOMAIN b} \cup {a[i].name : i \in DOMAIN a}
  <2>1. \A i \in DOMAIN ab : ab[i].name \in
           {b[j].name : j \in DOMAIN b} \cup {a[j].name : j \in DOMAIN a}
    <3> TAKE i \in DOMAIN ab
    <3>1. CASE i \in 1..Len(a) /\ ab[i] = a[i]
      BY <1>1, <3>1
    <3>2. CASE \E j \in 1..Len(b) : i = Len(a) + j /\ ab[i] = b[j]
      BY <1>1, <3>2
    <3> QED
      BY <1>2, <1>4, <3>1, <3>2
  <2>2. \A i \in DOMAIN a : a[i].name \in {ab[j].name : j \in DOMAIN ab}
    BY <1>1, <1>3, <1>4
  <2>3. \A i \in DOMAIN b : b[i].name \in {ab[j].name : j \in DOMAIN ab}
    BY <1>1, <1>3, <1>4
  <2> QED
    BY <2>1, <2>2, <2>3
<1>6. /\ DOMAIN Effective(a) = {a[i].name : i \in DOMAIN a}
      /\ \A i, name : IsLast(a, i, name) => Effective(a)[name] = a[i].value
  BY EffectiveIs
<1>7. /\ DOMAIN Effective(b) = {b[i].name : i \in DOMAIN b}
      /\ \A i, name : IsLast(b, i, name) => Effective(b)[name] = b[i].value
  BY EffectiveIs
<1>8. /\ DOMAIN Effective(ab) = {ab[i].name : i \in DOMAIN ab}
      /\ \A i, name : IsLast(ab, i, name) => Effective(ab)[name] = ab[i].value
  BY <1>4, EffectiveIs
<1>9. DOMAIN Effective(ab) = DOMAIN Effective(b) \cup DOMAIN Effective(a)
  BY <1>5, <1>6, <1>7, <1>8
<1>10. ASSUME NEW name \in DOMAIN Effective(b)
      PROVE  Effective(ab)[name] = Effective(b)[name]
  <2>1. PICK i \in DOMAIN b : b[i].name = name
    BY <1>7
  <2>2. PICK l \in DOMAIN b : IsLast(b, l, name)
    BY <2>1, LastExists
  <2>3. IsLast(ab, Len(a) + l, name)
    <3>1. Len(a) + l \in DOMAIN ab /\ ab[Len(a) + l].name = name
      BY <1>1, <1>3, <1>4, <2>2 DEF IsLast
    <3>2. ASSUME NEW j \in DOMAIN ab, ab[j].name = name PROVE j <= Len(a) + l
      <4>1. CASE j \in 1..Len(a)
        BY <1>1, <2>2, <4>1
      <4>2. CASE \E k \in 1..Len(b) : j = Len(a) + k /\ ab[j] = b[k]
        <5>1. PICK k \in 1..Len(b) : j = Len(a) + k /\ ab[j] = b[k]
          BY <4>2
        <5>2. k <= l
          BY <1>1, <2>2, <3>2, <5>1 DEF IsLast
        <5> QED
          BY <1>1, <5>1, <5>2
      <4> QED
        BY <1>2, <1>4, <4>1, <4>2
    <3> QED
      BY <3>1, <3>2 DEF IsLast
  <2>4. ab[Len(a) + l] = b[l]
    BY <1>1, <1>4
  <2> QED
    BY <1>7, <1>8, <2>2, <2>3, <2>4
<1>11. ASSUME NEW name \in DOMAIN Effective(a), name \notin DOMAIN Effective(b)
      PROVE  Effective(ab)[name] = Effective(a)[name]
  <2>1. PICK i \in DOMAIN a : a[i].name = name
    BY <1>6
  <2>2. PICK l \in DOMAIN a : IsLast(a, l, name)
    BY <2>1, LastExists
  <2>3. IsLast(ab, l, name)
    <3>1. l \in DOMAIN ab /\ ab[l].name = name
      BY <1>1, <1>3, <1>4, <2>2 DEF IsLast
    <3>2. ASSUME NEW j \in DOMAIN ab, ab[j].name = name PROVE j <= l
      <4>1. CASE j \in 1..Len(a)
        BY <1>1, <1>4, <2>2, <3>2, <4>1 DEF IsLast
      <4>2. CASE \E k \in 1..Len(b) : j = Len(a) + k /\ ab[j] = b[k]
        <5>1. PICK k \in DOMAIN b : b[k].name = name
          BY <1>1, <3>2, <4>2
        <5> QED
          BY <1>11, <1>7, <5>1
      <4> QED
        BY <1>2, <1>4, <4>1, <4>2
    <3> QED
      BY <3>1, <3>2 DEF IsLast
  <2>4. ab[l] = a[l]
    BY <1>1, <1>4
  <2> QED
    BY <1>6, <1>8, <2>2, <2>3, <2>4
<1>12. Effective(ab) = [k \in DOMAIN Effective(ab) |-> Effective(ab)[k]]
  BY DEF Effective
<1>13. Effective(ab) = Over(Effective(b), Effective(a))
  BY <1>9, <1>10, <1>11, <1>12 DEF Over
<1> QED
  BY <1>13 DEF ab

(* What is inherited from the first Scan.                                   *)
Base(l) == IF Inherits(l) THEN config.root.lists[l] ELSE <<>>
BaseLabels == IF Inherits("matchLabels") THEN config.root.maps["matchLabels"] ELSE <<>>

HasOwn(s, rule) ==
    /\ \A l \in Purged : s.lists[l] = Base(l) \o rule.lists[l]
    /\ s.maps["matchLabels"] = Over(rule.maps["matchLabels"], BaseLabels)
Own ==
    /\ scans[RootId].lists = config.root.lists /\ scans[RootId].maps = config.root.maps
    /\ \A id \in Cascaded : HasOwn(scans[id], config.rules[Last(scans[id].chain)])

LEMMA ChainOfCascaded ==
    ASSUME Cascade, ChainsAreLoopFree, NEW id \in DOMAIN scans
    PROVE  /\ id = RootId => scans[id].chain = <<>>
           /\ id # RootId => id \in Cascaded /\ scans[id].chain # <<>>
                              /\ Last(scans[id].chain) \in Rules
<1>1. id \in Seq(Origin) /\ scans[id].chain = [i \in DOMAIN id |-> id[i][1]]
  BY DEF Cascade, Tree, ChainsAreLoopFree
<1>2. PICK chain \in Seq(Rules) : chain = scans[id].chain
  BY ChainTyped DEF Cascade
<1>3. DOMAIN chain = DOMAIN id
  BY <1>1, <1>2
<1>4. CASE id = RootId
  <2>1. DOMAIN chain = {}
    BY <1>3, <1>4 DEF RootId
  <2>2. chain = <<>>
    BY <2>1
  <2> QED
    BY <1>2, <1>4, <2>2
<1>5. CASE id # RootId
  <2>1. Len(id) >= 1 /\ Len(id) \in Nat /\ DOMAIN id = 1..Len(id)
    BY <1>1, <1>5 DEF RootId
  <2>2. 1 \in DOMAIN chain
    BY <1>3, <2>1
  <2>3. chain # <<>>
    BY <2>2
  <2>4. Last(chain) \in Rules
    BY <2>3 DEF Last
  <2> QED
    BY <1>2, <1>5, <2>3, <2>4 DEF Cascaded
<1> QED
  BY <1>4, <1>5

(* What a Scan passes on of its lists is what the first Scan had.           *)
LEMMA PurgedIsBase ==
    ASSUME Cascade, ChainsAreLoopFree, Own, EntriesAreOwn, NEW id \in DOMAIN scans, NEW l \in Purged, Inherits(l)
    PROVE  purgeCascadedRuleFromScan(scans[id]).lists[l] = config.root.lists[l]
<1>1. IsScan(scans[id]) /\ Inheritable(scans[id]) /\ config \in Configs /\ IsConfig(config)
  BY TypedIs, Configured DEF Cascade, ScanTyped, Typed
<1>2. CASE id = RootId
  <2>1. purgeCascadedRuleFromScan(scans[id]) = scans[id]
    BY <1>2, ChainOfCascaded DEF purgeCascadedRuleFromScan
  <2> QED
    BY <1>2, <2>1 DEF Own
<1>3. CASE id # RootId
  <2> DEFINE rule == Last(scans[id].chain)
             used == config.rules[rule].lists[l]
             root == config.root.lists[l]
  <2>1. id \in Cascaded /\ scans[id].chain # <<>> /\ rule \in Rules
    BY <1>3, ChainOfCascaded
  <2>2. purgeCascadedRuleFromScan(scans[id]).lists[l] = Without(scans[id].lists[l], used)
    BY <1>1, <2>1, PurgedTyped DEF Inheritable
  <2>3. scans[id].lists[l] = root \o used
    BY <2>1 DEF Own, HasOwn, Base
  <2>4. root \in Seq(Entry) /\ used \in Seq(Entry)
    BY <1>1, <2>1 DEF IsConfig, Inheritable, Lists
  <2>5. ToSet(used) \cap ToSet(root) = {}
    BY <1>1, <2>1 DEF EntriesAreOwn
  <2> HIDE DEF used, root
  <2>6. Without(root \o used, used) = root
    BY <2>4, <2>5, WithoutTheEnd
  <2> QED
    BY <2>2, <2>3, <2>6 DEF root
<1> QED
  BY <1>2, <1>3

LEMMA PurgedLabels ==
    ASSUME Cascade, ChainsAreLoopFree, Own, EntriesAreOwn, NEW id \in DOMAIN scans, Inherits("matchLabels")
    PROVE  LET passed == purgeCascadedRuleFromScan(scans[id]).maps["matchLabels"]
               root == config.root.maps["matchLabels"]
           IN  DOMAIN passed = DOMAIN root /\ \A k \in DOMAIN root : passed[k] = root[k]
<1>1. IsScan(scans[id]) /\ Inheritable(scans[id]) /\ config \in Configs
  BY TypedIs DEF Cascade, ScanTyped
<1>2. CASE id = RootId
  <2>1. purgeCascadedRuleFromScan(scans[id]) = scans[id]
    BY <1>2, ChainOfCascaded DEF purgeCascadedRuleFromScan
  <2> QED
    BY <1>2, <2>1 DEF Own
<1>3. CASE id # RootId
  <2> DEFINE rule == Last(scans[id].chain)
             used == config.rules[rule].maps["matchLabels"]
             root == config.root.maps["matchLabels"]
             labels == scans[id].maps["matchLabels"]
  <2>1. id \in Cascaded /\ scans[id].chain # <<>> /\ rule \in Rules
    BY <1>3, ChainOfCascaded
  <2>2. purgeCascadedRuleFromScan(scans[id]).maps["matchLabels"] =
           Restrict(labels, DOMAIN labels \ DOMAIN used)
    BY <1>1, <2>1, PurgedTyped DEF Inheritable
  <2>3. labels = Over(used, root)
    BY <2>1 DEF Own, HasOwn, BaseLabels
  <2>4. DOMAIN used \cap DOMAIN root = {}
    BY <1>1, <2>1 DEF EntriesAreOwn
  <2> HIDE DEF used, root, labels
  <2>5. /\ DOMAIN labels = DOMAIN used \cup DOMAIN root
        /\ \A k \in DOMAIN root : labels[k] = root[k]
    BY <2>3, <2>4 DEF Over
  <2>6. DOMAIN labels \ DOMAIN used = DOMAIN root
    BY <2>4, <2>5
  <2>7. /\ DOMAIN Restrict(labels, DOMAIN root) = DOMAIN root
        /\ \A k \in DOMAIN root : Restrict(labels, DOMAIN root)[k] = labels[k]
    BY DEF Restrict
  <2> QED
    BY <2>2, <2>5, <2>6, <2>7 DEF root
<1> QED
  BY <1>2, <1>3

LEMMA ChildHasOwn ==
    ASSUME Cascade, ChainsAreLoopFree, Own, EntriesAreOwn, NEW id \in DOMAIN scans,
           NEW rule \in Rules, NEW finding \in Findings
    PROVE  HasOwn(getCascadingScan(scans[id], rule, finding), config.rules[rule])
<1> DEFINE s == scans[id]
           p == purgeCascadedRuleFromScan(s)
           r == config.rules[rule]
           c == getCascadingScan(s, rule, finding)
           merged == mergeCascadingRuleWithScan(p, r, finding)
<1>1. config \in Configs /\ Inheritable(r)
  BY Configured DEF Cascade, Typed, TypeOK, IsConfig
<1>2. c.lists = merged.lists /\ c.maps = merged.maps
  BY DEF getCascadingScan, New
<1>3. ASSUME NEW l \in Purged PROVE c.lists[l] = Base(l) \o r.lists[l]
  <2>1. c.lists[l] = mergeInheritedArray(p.lists[l],
                         IF l \in {"env", "initContainers"} THEN templateList(r.lists[l], finding)
                         ELSE r.lists[l], Inherits(l))
    BY <1>2 DEF mergeCascadingRuleWithScan, Lists
  <2>2. l \in {"env", "initContainers"} => templateList(r.lists[l], finding) = r.lists[l]
    <3>1. l # "initContainers"
      BY DEF Purged
    <3>2. l = "env" => \A e \in ToSet(r.lists[l]) : e.value # Template
      BY <1>1 DEF EntriesAreOwn
    <3>3. r.lists[l] \in Seq(Entry)
      BY <1>1 DEF Inheritable, Lists
    <3> HIDE DEF r
    <3> QED
      BY <3>1, <3>2, <3>3, TemplateIsIdle
  <2>3. Inherits(l) => p.lists[l] = config.root.lists[l]
    BY PurgedIsBase
  <2> HIDE DEF c, p, r
  <2> QED
    BY <2>1, <2>2, <2>3 DEF mergeInheritedArray, Base
<1>4. c.maps["matchLabels"] = Over(r.maps["matchLabels"], BaseLabels)
  <2>1. c.maps["matchLabels"] = mergeInheritedMap(p.maps["matchLabels"], r.maps["matchLabels"],
                                                  Inherits("matchLabels"))
    BY <1>2 DEF mergeCascadingRuleWithScan, Maps
  <2>2. CASE Inherits("matchLabels")
    <3> DEFINE passed == p.maps["matchLabels"]
               root == config.root.maps["matchLabels"]
    <3>1. DOMAIN passed = DOMAIN root /\ \A k \in DOMAIN root : passed[k] = root[k]
      BY <2>2, PurgedLabels
    <3>2. c.maps["matchLabels"] = Over(r.maps["matchLabels"], passed) /\ BaseLabels = root
      BY <2>1, <2>2 DEF mergeInheritedMap, BaseLabels
    <3> HIDE DEF passed, root, c, r
    <3> QED
      BY <3>1, <3>2 DEF Over
  <2>3. CASE ~Inherits("matchLabels")
    BY <2>1, <2>3 DEF mergeInheritedMap, BaseLabels
  <2> QED
    BY <2>2, <2>3
<1> QED
  BY <1>3, <1>4 DEF HasOwn

LEMMA OwnKept ==
    ASSUME Cascade, ChainsAreLoopFree, Own, EntriesAreOwn, [Next]_vars
    PROVE  Own'
<1>1. config' = config
  BY TreeSteps DEF Cascade
<1>2. ASSUME scans'[RootId].lists = config.root.lists, scans'[RootId].maps = config.root.maps,
             \A n \in Cascaded' : HasOwn(scans'[n], config.rules[Last(scans'[n].chain)])
      PROVE  Own'
  BY <1>1, <1>2 DEF Own, HasOwn, Base, BaseLabels, Inherits
<1>3. CASE scans' = scans
  BY <1>1, <1>3 DEF Own, Cascaded, HasOwn, Base, BaseLabels, Inherits
<1>4. ASSUME NEW id \in DOMAIN scans, Moved(id) PROVE Own'
  <2>1. DOMAIN scans' = DOMAIN scans
        /\ \A n \in DOMAIN scans : /\ scans'[n].chain = scans[n].chain
                                   /\ scans'[n].lists = scans[n].lists
                                   /\ scans'[n].maps = scans[n].maps
    BY <1>4 DEF Moved, Moves, SameSpec
  <2>2. RootId \in DOMAIN scans
    BY DEF Cascade, Tree
  <2>3. ASSUME NEW n \in Cascaded'
        PROVE  HasOwn(scans'[n], config.rules[Last(scans'[n].chain)])
    <3>1. n \in Cascaded /\ n \in DOMAIN scans
      BY <2>1 DEF Cascaded
    <3>2. HasOwn(scans[n], config.rules[Last(scans[n].chain)])
      BY <3>1 DEF Own
    <3> QED
      BY <2>1, <3>1, <3>2 DEF HasOwn
  <2> QED
    BY <1>2, <2>1, <2>2, <2>3 DEF Own
<1>5. ASSUME NEW id \in DOMAIN scans, Adds(id) PROVE Own'
  <2>1. PICK child, match : child = NextChild(id) /\ match = NextMatch(scans[id])
    OBVIOUS
  <2>2. /\ child # RootId /\ DOMAIN scans' = DOMAIN scans \cup {child}
        /\ scans'[child] = getCascadingScan(scans[id], match[1], match[2])
        /\ scans'[child].chain = Append(scans[id].chain, match[1])
    BY <1>5, <2>1 DEF Adds
  <2>3. \A n \in DOMAIN scans : /\ scans'[n].chain = scans[n].chain
                                /\ scans'[n].lists = scans[n].lists
                                /\ scans'[n].maps = scans[n].maps
    BY <1>5 DEF Adds, SameSpec
  <2>4. match \in Rules \X Findings
    BY <1>5, <2>1, NextMatchTyped DEF Adds, Cascade, Typed
  <2>5. Last(scans'[child].chain) = match[1]
    <3>1. scans[id].chain \in Seq(Rules) /\ match[1] \in Rules
      BY <2>4, ChainTyped DEF Cascade
    <3> QED
      BY <2>2, <3>1 DEF Last
  <2>6. HasOwn(scans'[child], config.rules[match[1]])
    BY <2>2, <2>4, ChildHasOwn
  <2>7. RootId \in DOMAIN scans
    BY DEF Cascade, Tree
  <2>8. ASSUME NEW n \in Cascaded'
        PROVE  HasOwn(scans'[n], config.rules[Last(scans'[n].chain)])
    <3>1. CASE n = child
      BY <2>5, <2>6, <3>1
    <3>2. CASE n # child
      <4>1. n \in Cascaded /\ n \in DOMAIN scans
        BY <2>2, <3>2 DEF Cascaded
      <4>2. HasOwn(scans[n], config.rules[Last(scans[n].chain)])
        BY <4>1 DEF Own
      <4> QED
        BY <2>3, <4>1, <4>2 DEF HasOwn
    <3> QED
      BY <3>1, <3>2
  <2> QED
    BY <1>2, <2>2, <2>3, <2>7, <2>8 DEF Own
<1> QED
  BY <1>3, <1>4, <1>5, TreeSteps DEF Cascade

LEMMA OwnInit ==
    ASSUME Init
    PROVE  Own
<1>1. /\ DOMAIN scans = {RootId}
      /\ scans[RootId].lists = config.root.lists /\ scans[RootId].maps = config.root.maps
  BY DEF Init, New
<1> QED
  BY <1>1 DEF Own, Cascaded

LEMMA OwnIs ==
    ASSUME Cascade, ChainsAreLoopFree, Own
    PROVE  RuleEntriesStayWithTheirScan
<1> SUFFICES ASSUME NEW id \in Cascaded, NEW rule, rule = config.rules[Last(scans[id].chain)]
             PROVE  /\ \A l \in Purged :
                           Effective(scans[id].lists[l]) =
                              Over(Effective(rule.lists[l]),
                                   IF Inherits(l) THEN Effective(Root.lists[l]) ELSE <<>>)
                    /\ scans[id].maps["matchLabels"] =
                           Over(rule.maps["matchLabels"],
                                IF Inherits("matchLabels") THEN Root.maps["matchLabels"] ELSE <<>>)
  BY DEF RuleEntriesStayWithTheirScan
<1>1. id \in DOMAIN scans /\ HasOwn(scans[id], rule)
      /\ Root.lists = config.root.lists /\ Root.maps = config.root.maps
  BY DEF Own, Cascaded, Root
<1>2. Inheritable(rule) /\ IsConfig(config)
  BY ChainOfCascaded, Configured DEF Cascade, Cascaded, Typed, IsConfig
<1>3. ASSUME NEW l \in Purged
      PROVE  Effective(scans[id].lists[l]) =
                Over(Effective(rule.lists[l]),
                     IF Inherits(l) THEN Effective(Root.lists[l]) ELSE <<>>)
  <2>1. rule.lists[l] \in Seq(Entry) /\ config.root.lists[l] \in Seq(Entry)
    BY <1>2 DEF IsConfig, Inheritable, Lists
  <2>2. scans[id].lists[l] = Base(l) \o rule.lists[l]
    BY <1>1 DEF HasOwn
  <2>3. CASE Inherits(l)
    <3>1. Base(l) = config.root.lists[l]
      BY <2>3 DEF Base
    <3>2. Effective(config.root.lists[l] \o rule.lists[l]) =
             Over(Effective(rule.lists[l]), Effective(config.root.lists[l]))
      BY <2>1, EffectiveJoins
    <3>3. Effective(scans[id].lists[l]) = Effective(config.root.lists[l] \o rule.lists[l])
      BY <2>2, <3>1
    <3>4. (IF Inherits(l) THEN Effective(Root.lists[l]) ELSE <<>>) = Effective(config.root.lists[l])
      BY <1>1, <2>3
    <3> QED
      BY <3>2, <3>3, <3>4, Zenon
  <2>4. CASE ~Inherits(l)
    <3>1. scans[id].lists[l] = rule.lists[l]
      <4>1. Base(l) = <<>>
        BY <2>4 DEF Base
      <4>2. ASSUME NEW s \in Seq(Entry) PROVE <<>> \o s = s
        BY <4>2
      <4> QED
        BY <2>1, <2>2, <4>1, <4>2, Zenon
    <3>2. Over(Effective(rule.lists[l]), <<>>) = Effective(rule.lists[l])
      <4>1. PICK f : f = Effective(rule.lists[l])
        OBVIOUS
      <4>2. f = [k \in DOMAIN f |-> f[k]]
        BY <4>1 DEF Effective
      <4>3. DOMAIN <<>> = {}
        OBVIOUS
      <4> QED
        BY <4>1, <4>2, <4>3 DEF Over
    <3> QED
      BY <2>4, <3>1, <3>2
  <2> QED
    BY <2>3, <2>4
<1>4. scans[id].maps["matchLabels"] =
         Over(rule.maps["matchLabels"],
              IF Inherits("matchLabels") THEN Root.maps["matchLabels"] ELSE <<>>)
  BY <1>1 DEF HasOwn, BaseLabels
<1> QED
  BY <1>3, <1>4

(* What a rule adds to the environment, volumes and hook selector of a Scan *)
(* stays with that Scan, however deep the cascade: for rules whose entries  *)
(* there are their own and have no templates, each cascaded Scan has what   *)
(* it inherits of the first Scan's, overridden by its own rule's.           *)
THEOREM EntriesAreNotPassedOn ==
    ASSUME EntriesAreOwn
    PROVE  Spec => []RuleEntriesStayWithTheirScan
<1> DEFINE Inv == Cascade /\ ChainsAreLoopFree /\ Own
<1>1. Init => Inv
  <2>1. Init => DOMAIN scans = {RootId} /\ scans[RootId].chain = <<>>
    BY DEF Init, New
  <2> QED
    BY <2>1, CascadeInit, OwnInit DEF ChainsAreLoopFree, RootId, IsInjective
<1>2. Inv /\ [Next]_vars => Inv'
  BY CascadeKept, ChainsKept, OwnKept
<1>3. Inv => RuleEntriesStayWithTheirScan
  BY OwnIs
<1> QED
  BY <1>1, <1>2, <1>3, PTL DEF Spec
=============================================================================
