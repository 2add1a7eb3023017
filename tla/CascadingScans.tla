--------------------------- MODULE CascadingScans ---------------------------
(***************************************************************************)
(* The cascading scans hook (hooks/cascading-scans/hook): a Scan, the Scans *)
(* that its findings start by CascadingRules, those that theirs start, and  *)
(* so on.  The hook of each finished Scan runs in a pod of its own.         *)
(*                                                                          *)
(* A Scan is identified by how it came about: the rules and findings from   *)
(* the first Scan on, and a number that tells repeated ones apart (the API  *)
(* server generates the names).                                             *)
(***************************************************************************)
EXTENDS ScopeLimiter, Orders

CONSTANTS
    Rules,      \* names of CascadingRules
    Findings,
    Configs     \* the configurations to start from

(* Lists of named entries of a Scan that it inherits from its parent and    *)
(* takes from its rule; those of which the rule's are not passed on.        *)
Purged == {"env", "volumes", "volumeMounts", "matchExpressions"}
Lists == Purged \cup {"initContainers", "tolerations"}
Maps == {"labels", "annotations", "matchLabels"}
Template == "{{}}"         \* a value that renders to the finding

(*  root       [lists, maps, affinity, scope]: the first Scan.  affinity is  *)
(*             a sequence of at most one; scope the scope annotations       *)
(*  rules      [Rules -> [lists, maps, affinity, matches: SUBSET Findings,  *)
(*             scoped: BOOLEAN (it has a scope annotation)]]                *)
(*  selected   the rules that spec.cascades selects, in the order of the    *)
(*             API server's List; none without spec.cascades                *)
(*  inherits   SUBSET (Lists \cup Maps \cup {"affinity"})                   *)
(*  limiter    [validOnMissingRender, allOf, anyOf, noneOf]                 *)
(*  found      the findings of a Scan by the rule that started it           *)
(*  attributes of each finding, by the templates of the requirements        *)
(*  attempts   how often the hook's Job runs its pod (backoffLimit)         *)
(*  kills, faults, deletions: bounds on pods that are killed, calls that    *)
(*             fail, rules that are deleted                                 *)
Entry == [name: STRING, value: STRING \cup Findings]
Inheritable(part) ==
    /\ part.lists \in [Lists -> Seq(Entry)] /\ DOMAIN part.maps = Maps
    /\ part.affinity \in Seq(STRING) /\ Len(part.affinity) <= 1

(* What the CRDs say of the fields.  Rules and findings have unique names   *)
(* and ids.                                                                 *)
IsConfig(c) ==
    /\ Inheritable(c.root)
    /\ \A r \in Rules : Inheritable(c.rules[r]) /\ c.rules[r].matches \subseteq Findings
    /\ c.selected \in Seq(Rules) /\ IsInjective(c.selected)
    /\ \A r \in Rules \cup {"root"} : c.found[r] \in Seq(Findings) /\ IsInjective(c.found[r])
    /\ c.limiter \in Limiter
    /\ \A f \in Findings, req \in Requirements(c.limiter) : \A t \in ToSet(req.values) :
          c.attributes[f][t] \in Seq(STRING)
    /\ c.attempts \in Nat \ {0} /\ {c.kills, c.faults, c.deletions} \subseteq Nat
ASSUME ConfigAssumption == \A c \in Configs : IsConfig(c)

VARIABLES
    config,
    rules,      \* the CascadingRules that exist
    scans,      \* a function on the Scans started so far
    kills, faults
vars == <<config, rules, scans, kills, faults>>

(* The findings of a Scan are listed, and each CascadingRule, once. *)
FoundBy(s) == config.found[IF s.chain = <<>> THEN "root" ELSE Last(s.chain)]

TypeOK ==
    /\ config \in Configs
    /\ rules \subseteq Rules
    /\ \A id \in DOMAIN scans : LET s == scans[id] IN
          /\ s.chain \in Seq(Rules)
          /\ Inheritable(s)
          /\ s.state \in {"scanning", "list rules", "get rule", "create", "done", "failed"}
          /\ s.read \subseteq Rules /\ s.lost \subseteq Rules \X Findings
          /\ s.todo \subseteq (DOMAIN config.selected) \X (DOMAIN FoundBy(s))
          /\ s.attempt \in 0..config.attempts
    /\ {kills, faults} \subseteq Nat

RootId == <<>>
New(chain, lists, maps, affinity, scope) ==
    [chain |-> chain, lists |-> lists, maps |-> maps, affinity |-> affinity, scope |-> scope,
     state |-> "scanning", attempt |-> 0, read |-> {}, todo |-> {}, lost |-> {}]

Init ==
    /\ config \in Configs
    /\ rules = Rules
    /\ scans = [id \in {RootId} |-> New(<<>>, config.root.lists, config.root.maps,
                                       config.root.affinity, config.root.scope)]
    /\ kills = 0 /\ faults = 0

-----------------------------------------------------------------------------
(***************************************************************************)
(* What a Scan takes from its parent and its rule.                          *)
(***************************************************************************)
Inherits(field) == field \in config.inherits

Render(v, finding) == IF v = Template THEN finding ELSE v
templateList(list, finding) == [i \in DOMAIN list |-> [list[i] EXCEPT !.value = Render(@, finding)]]
templateMap(map, finding) == [k \in DOMAIN map |-> Render(map[k], finding)]

Without(list, entries) ==
    LET kept == Ascending({i \in DOMAIN list : list[i] \notin ToSet(entries)})
    IN  [n \in DOMAIN kept |-> list[kept[n]]]
Over(rule, parent) ==
    [k \in DOMAIN rule \cup DOMAIN parent |-> IF k \in DOMAIN rule THEN rule[k] ELSE parent[k]]

(* Mutation: the first Scan's entries are thought to be the only ones. *)
keepCascadedRule(s) == s

(* The parent's lists without the entries of the rule that started it, as   *)
(* that rule has them: not rendered.  The rule's matchLabels go by key.     *)
purgeCascadedRuleFromScan(s) ==
    IF s.chain = <<>> THEN s
    ELSE LET used == config.rules[Last(s.chain)]
             labels == s.maps["matchLabels"]
         IN  [s EXCEPT !.lists = [l \in Lists |-> IF l \in Purged
                                                THEN Without(s.lists[l], used.lists[l])
                                                ELSE s.lists[l]],
                       !.maps["matchLabels"] =
                            Restrict(labels, DOMAIN labels \ DOMAIN used.maps["matchLabels"])]

mergeInheritedArray(parent, rule, inherit) == (IF inherit THEN parent ELSE <<>>) \o rule
mergeInheritedMap(parent, rule, inherit) == Over(rule, IF inherit THEN parent ELSE <<>>)

(* Volumes, affinity, tolerations and the hook selector are not templated.  *)
mergeCascadingRuleWithScan(s, rule, finding) ==
    [lists |-> [l \in Lists |->
         mergeInheritedArray(s.lists[l], IF l \in {"env", "initContainers"}
                                         THEN templateList(rule.lists[l], finding)
                                         ELSE rule.lists[l],
                             Inherits(l))],
     maps |-> [m \in Maps |->
         mergeInheritedMap(s.maps[m], IF m \in {"labels", "annotations"}
                                      THEN templateMap(rule.maps[m], finding)
                                      ELSE rule.maps[m],
                           Inherits(m))],
     affinity |-> IF rule.affinity # <<>> THEN rule.affinity
                  ELSE IF Inherits("affinity") THEN s.affinity ELSE <<>>]

(* Mutation: scope annotations are inherited like others. *)
getScanWithInheritedScope(s, rule, finding) ==
    LET merged == mergeCascadingRuleWithScan(purgeCascadedRuleFromScan(s), config.rules[rule], finding)
    IN  New(Append(s.chain, rule), merged.lists, merged.maps, merged.affinity,
            IF Inherits("annotations") THEN s.scope ELSE <<>>)

(* Scope annotations are always passed on. *)
getCascadingScan(s, rule, finding) ==
    LET merged == mergeCascadingRuleWithScan(purgeCascadedRuleFromScan(s), config.rules[rule], finding)
    IN  New(Append(s.chain, rule), merged.lists, merged.maps, merged.affinity, s.scope)

-----------------------------------------------------------------------------
(***************************************************************************)
(* Which Scans the hook starts.                                             *)
(***************************************************************************)
(* Mutation: only the last rule of the chain is not applied again. *)
NotJustApplied(s) == {r \in s.read : s.chain = <<>> \/ r # Last(s.chain)}

Applicable(s) == s.read \ ToSet(s.chain)

(* Of the findings, by their places. *)
getScansMatchingRule(s, rule) ==
    {k \in DOMAIN FoundBy(s) :
        /\ isInScope(config.limiter, s.scope, config.attributes[FoundBy(s)[k]]) = "true"
        /\ FoundBy(s)[k] \in config.rules[rule].matches}

(* Nothing is started if a rule that applies sets a scope annotation, or if *)
(* the scope cannot be evaluated for a finding.                             *)
Throws(s) ==
    \E r \in Applicable(s) :
        \/ config.rules[r].scoped
        \/ \E f \in ToSet(FoundBy(s)) : isInScope(config.limiter, s.scope, config.attributes[f]) = "error"

(* <<i, k>> for the i-th rule and the k-th finding. *)
getCascadingScans(s) ==
    {p \in (DOMAIN config.selected) \X (DOMAIN FoundBy(s)) :
        /\ config.selected[p[1]] \in Applicable(s)
        /\ p[2] \in getScansMatchingRule(s, config.selected[p[1]])}

-----------------------------------------------------------------------------
(***************************************************************************)
(* The hook of one Scan, call by call.                                      *)
(***************************************************************************)
Update(id, s) == scans' = [scans EXCEPT ![id] = s]
CallFails == faults < config.faults /\ faults' = faults + 1
Started(id, s) == [s EXCEPT !.state = "list rules", !.attempt = @ + 1]

(* Mutation: the Job's limit is off by one. *)
ExitedOnceMore(id) ==
    LET s == [scans[id] EXCEPT !.read = {}, !.todo = {}]
    IN  IF s.attempt <= config.attempts THEN Started(id, s) ELSE [s EXCEPT !.state = "failed"]

(* Mutation: pods are started again and again. *)
ExitedUnlimited(id) ==
    [scans[id] EXCEPT !.read = {}, !.todo = {}, !.state = "list rules"]

(* The pod exits with an error: the Job starts another one, or has failed.  *)
Exited(id) ==
    LET s == [scans[id] EXCEPT !.read = {}, !.todo = {}]
    IN  IF s.attempt < config.attempts THEN Started(id, s) ELSE [s EXCEPT !.state = "failed"]

ScanFinishes(id) ==
    /\ scans[id].state = "scanning"
    /\ Update(id, Started(id, scans[id]))
    /\ UNCHANGED <<config, rules, kills, faults>>

getCascadingRulesForScan(id) ==
    /\ scans[id].state = "list rules"
    /\ \/ /\ Update(id, [scans[id] EXCEPT !.state = "get rule",
                             !.read = ToSet(config.selected) \cap rules])
          /\ UNCHANGED faults
       \/ CallFails /\ Update(id, Exited(id))
    /\ UNCHANGED <<config, rules, kills>>

(* The rule that started the Scan must still exist.  Then the ParseDefini-  *)
(* tion is read and the Scans to start are computed.                        *)
getCascadedRuleForScan(id) ==
    LET s == scans[id]
    IN  /\ s.state = "get rule"
        /\ \/ /\ (s.chain # <<>> => Last(s.chain) \in rules) /\ ~Throws(s)
              /\ Update(id, [s EXCEPT !.state = "create", !.todo = getCascadingScans(s)])
              /\ UNCHANGED faults
           \/ /\ (s.chain # <<>> /\ Last(s.chain) \notin rules) \/ Throws(s)
              /\ Update(id, Exited(id)) /\ UNCHANGED faults
           \/ CallFails /\ Update(id, Exited(id))
        /\ UNCHANGED <<config, rules, kills>>

Copies(id, match) == {n \in DOMAIN scans : Len(n) = Len(id) + 1 /\ Front(n) = id
                                           /\ <<Last(n)[1], Last(n)[2]>> = match}
Child(id, match) == Append(id, <<match[1], match[2], Cardinality(Copies(id, match)) + 1>>)

MatchAt(s, p) == <<config.selected[p[1]], FoundBy(s)[p[2]]>>
NextMatch(s) == MatchAt(s, FirstPlace(s.todo))
Rest(s) == [s EXCEPT !.todo = @ \ {FirstPlace(@)}]

(* The Scan for the next match, and the loop of its parent at s.            *)
Creates(id, s) ==
    LET match == NextMatch(scans[id])
        child == Child(id, match)
    IN  scans' = [n \in DOMAIN scans \cup {child} |->
                    IF n = child THEN getCascadingScan(scans[id], match[1], match[2])
                    ELSE IF n = id THEN s ELSE scans[n]]

(* Mutation: the first failure ends the loop. *)
startUntilFailure(id) ==
    LET s == scans[id]
    IN  /\ s.state = "create" /\ s.todo # {}
        /\ \/ Creates(id, Rest(s)) /\ UNCHANGED faults
           \/ CallFails /\ Update(id, [s EXCEPT !.todo = {}, !.lost = @ \cup {NextMatch(s)}])
        /\ UNCHANGED <<config, rules, kills>>

(* Mutation: a creation whose answer is lost is repeated. *)
startWithRetry(id) ==
    LET s == scans[id]
    IN  /\ s.state = "create" /\ s.todo # {}
        /\ \/ Creates(id, Rest(s)) /\ UNCHANGED faults
           \/ CallFails /\ Creates(id, s)
        /\ UNCHANGED <<config, rules, kills>>

(* A failed creation is logged and passed over.  (One that had its effect   *)
(* all the same is like one that did not fail.)                             *)
startSubsequentSecureCodeBoxScan(id) ==
    LET s == scans[id]
    IN  /\ s.state = "create" /\ s.todo # {}
        /\ \/ Creates(id, Rest(s)) /\ UNCHANGED faults
           \/ CallFails /\ Update(id, [Rest(s) EXCEPT !.lost = @ \cup {NextMatch(s)}])
        /\ UNCHANGED <<config, rules, kills>>

HookSucceeds(id) ==
    /\ scans[id].state = "create" /\ scans[id].todo = {}
    /\ Update(id, [scans[id] EXCEPT !.state = "done"])
    /\ UNCHANGED <<config, rules, kills, faults>>

PodKilled(id) ==
    /\ kills < config.kills /\ kills' = kills + 1
    /\ scans[id].state \in {"list rules", "get rule", "create"}
    /\ Update(id, Exited(id))
    /\ UNCHANGED <<config, rules, faults>>

RuleDeleted(r) ==
    /\ r \in rules /\ Cardinality(Rules \ rules) < config.deletions
    /\ rules' = rules \ {r}
    /\ UNCHANGED <<config, scans, kills, faults>>

HookStep(id) ==
    \/ ScanFinishes(id)
    \/ getCascadingRulesForScan(id) \/ getCascadedRuleForScan(id)
    \/ startSubsequentSecureCodeBoxScan(id) \/ HookSucceeds(id)

Next ==
    \/ \E id \in DOMAIN scans : HookStep(id) \/ PodKilled(id)
    \/ \E r \in Rules : RuleDeleted(r)

Spec == Init /\ [][Next]_vars

(* Scans end, and the pods of their hooks run. *)
FairSpec == Spec /\ WF_vars(\E id \in DOMAIN scans : HookStep(id))

-----------------------------------------------------------------------------
(***************************************************************************)
(* Properties.                                                              *)
(***************************************************************************)
Cascaded == DOMAIN scans \ {RootId}
Parent(id) == scans[Front(id)]
Root == scans[RootId]

(* No rule is applied twice on the way to a Scan, whichever rules' findings *)
(* match whichever rules, and its chain says how it came about.             *)
ChainsAreLoopFree ==
    \A id \in DOMAIN scans :
        /\ scans[id].chain = [i \in DOMAIN id |-> id[i][1]]
        /\ IsInjective(scans[id].chain)

(* However deep the cascade and whatever is inherited, each of its Scans    *)
(* has the scope annotations of the first one and comes from a finding that *)
(* the scope limiter permits.                                               *)
Satisfied(req, attributes) ==
    LET values == UNION {ToSet(attributes[t]) : t \in ToSet(req.values)}
        accepts == config.root.scope[req.key].accepts
        holds == IF req.operator = "In" THEN values \cap accepts # {} ELSE values \subseteq accepts
    IN  IF \E t \in ToSet(req.values) : attributes[t] = <<>> THEN config.limiter.validOnMissingRender
        ELSE holds # req.negated
Permitted(finding) ==
    LET fulfilled(list) == {r \in ToSet(list) : Satisfied(r, config.attributes[finding])}
        limiter == config.limiter
    IN  /\ fulfilled(limiter.allOf) = ToSet(limiter.allOf)
        /\ limiter.anyOf = <<>> \/ fulfilled(limiter.anyOf) # {}
        /\ fulfilled(limiter.noneOf) = {}
ScopeIsKept ==
    \A id \in Cascaded : scans[id].scope = Root.scope /\ Permitted(Last(id)[2])

(* What a rule adds to the environment, volumes and hook selector is for    *)
(* the Scan it starts alone: that Scan has the first Scan's entries, if     *)
(* they are inherited, overridden by its own rule's.  For rules whose       *)
(* entries there are their own and have no templates.                       *)
EntriesAreOwn ==
    \A c \in Configs, r \in Rules :
        LET rule == c.rules[r]
        IN  /\ \A l \in Purged : ToSet(rule.lists[l]) \cap ToSet(c.root.lists[l]) = {}
            /\ \A e \in ToSet(rule.lists["env"]) : e.value # Template
            /\ DOMAIN rule.maps["matchLabels"] \cap DOMAIN c.root.maps["matchLabels"] = {}
Effective(list) ==
    [n \in {e.name : e \in ToSet(list)} |->
        list[SelectLastInSeq(list, LAMBDA e : e.name = n)].value]
RuleEntriesStayWithTheirScan ==
    \A id \in Cascaded :
        LET rule == config.rules[Last(scans[id].chain)]
        IN  /\ \A l \in Purged :
                  Effective(scans[id].lists[l]) =
                      Over(Effective(rule.lists[l]),
                           IF Inherits(l) THEN Effective(Root.lists[l]) ELSE <<>>)
            /\ scans[id].maps["matchLabels"] =
                      Over(rule.maps["matchLabels"],
                           IF Inherits("matchLabels") THEN Root.maps["matchLabels"] ELSE <<>>)

(* A hook that succeeded has started a Scan for every finding that matches  *)
(* a rule it read, except where the creation failed, although its pod may   *)
(* have been killed half way before.                                        *)
EveryMatchIsFollowed ==
    \A id \in DOMAIN scans : scans[id].state = "done" =>
        \A r \in scans[id].read, f \in ToSet(FoundBy(scans[id])) :
            r \notin ToSet(scans[id].chain) /\ f \in config.rules[r].matches /\ Permitted(f) =>
                Copies(id, <<r, f>>) # {} \/ <<r, f>> \in scans[id].lost

(* Only for a match, and more than once only if the hook ran more than once *)
NoMatchIsFollowedTwice ==
    \A id \in Cascaded :
        /\ Last(id)[2] \in config.rules[Last(id)[1]].matches \cap ToSet(FoundBy(Parent(id)))
        /\ Last(id)[3] <= Parent(id).attempt

(* The cascade ends, also if a rule is deleted whose Scans still run. *)
CascadeEnds == <>[](\A id \in DOMAIN scans : scans[id].state \in {"done", "failed"})
=============================================================================
