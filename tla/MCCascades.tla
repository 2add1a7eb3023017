---------------------------- MODULE MCCascades ----------------------------
(* Small instances of CascadingScans.  The findings of one rule match the   *)
(* other, so that the cascade would not end without the check of the chain. *)
EXTENDS CascadingScans

E(name, value) == [name |-> name, value |-> value]

(* Entries called x.  Its rendered entries are where they are not purged.   *)
ListsOf(x) == [l \in Lists |->
    <<E(x, IF l = "initContainers" THEN Template ELSE x)>>]
MapsOf(x) == [m \in Maps |-> x :> IF m = "labels" THEN Template ELSE x]
NoLists == [l \in Lists |-> <<>>]
NoMaps == [m \in Maps |-> <<>>]

Root0 == [lists |-> ListsOf("root"), maps |-> MapsOf("root"), affinity |-> <<"root">>,
          scope |-> [list   |-> [accepts |-> {"a.test", "b.test"}, invalid |-> {}],
                     domain |-> [accepts |-> {"a.test", "b.test"}, invalid |-> {"10.0.0.1"}],
                     host   |-> [accepts |-> {"b.test"}, invalid |-> {}]]]
A == [lists |-> [ListsOf("a") EXCEPT !["env"] = <<E("a", "a"), E("root", "a")>>],
      maps |-> MapsOf("a"), affinity |-> <<"a">>, matches |-> {"web"}, scoped |-> FALSE]
B == [lists |-> [NoLists EXCEPT !["env"] = <<E("b", "b"), E("root", "b")>>],
      maps |-> NoMaps, affinity |-> <<>>, matches |-> {"ssh", "mail"}, scoped |-> FALSE]

Attributes ==
    [web  |-> [host |-> <<"a.test">>,           ip |-> <<>>],
     ssh  |-> [host |-> <<"a.test", "b.test">>, ip |-> <<>>],
     mail |-> [host |-> <<"c.test">>,           ip |-> <<"10.0.0.1">>]]

Req(operator, negated, key, template) ==
    [operator |-> operator, negated |-> negated, wellFormed |-> TRUE,
     key |-> key, values |-> <<template>>]
IllFormed(req) == [req EXCEPT !.wellFormed = FALSE]
Unlimited == [validOnMissingRender |-> FALSE, allOf |-> <<>>, anyOf |-> <<>>, noneOf |-> <<>>]
Inside == Req("Contains", FALSE, "list", "host")
Only(list) == [Unlimited EXCEPT !.allOf = list]
Lax(limiter) == [limiter EXCEPT !.validOnMissingRender = TRUE]

(* web starts a, which finds ssh and mail, which start b, which finds web.  *)
Line ==
    [root |-> Root0, rules |-> [a |-> A, b |-> B, s |-> [B EXCEPT !.scoped = TRUE]],
     selected |-> <<"a", "b">>, inherits |-> Lists \cup Maps \cup {"affinity"},
     limiter |-> Only(<<Inside>>),
     found |-> [root |-> <<"web">>, a |-> <<"ssh", "mail">>, b |-> <<"web">>, s |-> <<>>],
     attributes |-> Attributes, attempts |-> 2, kills |-> 0, faults |-> 0, deletions |-> 0]
(* Two findings start a, and one of them b. *)
Wide == [Line EXCEPT !.found["root"] = <<"ssh", "web">>, !.rules["a"].matches = {"ssh", "web"}]

Limited(limiters) == {[Wide EXCEPT !.limiter = l, !.found["root"] = <<"web", "mail">>] : l \in limiters}

Cascades ==
    {[Line EXCEPT !.kills = 1, !.faults = 1, !.deletions = 1],
     [Wide EXCEPT !.selected = <<"a">>, !.kills = 1, !.faults = 1],
     [Wide EXCEPT !.found["a"] = <<"ssh">>],
     [Line EXCEPT !.inherits = {}], [Line EXCEPT !.selected = <<>>],
     [Line EXCEPT !.selected = <<"a", "s">>]}
    \cup Limited({Unlimited,
                  Only(<<Inside, Req("In", TRUE, "host", "host")>>),
                  Only(<<Req("SubdomainOf", FALSE, "domain", "ip")>>),
                  Lax(Only(<<Req("Contains", TRUE, "list", "ip")>>)),
                  Lax(Only(<<Inside, Req("SubdomainOf", FALSE, "domain", "ip")>>)),
                  Lax(Only(<<IllFormed(Req("Contains", FALSE, "list", "ip"))>>)),
                  Only(<<Req("Contains", FALSE, "unset", "host")>>),
                  Only(<<Req("Matches", FALSE, "list", "host")>>),
                  [Unlimited EXCEPT !.anyOf = <<Req("Contains", FALSE, "list", "ip"), Inside>>],
                  [Unlimited EXCEPT !.noneOf = <<Req("In", FALSE, "host", "host"),
                                                 Req("Contains", FALSE, "list", "ip")>>]})

(* RuleEntriesStayWithTheirScan is about rules like these.                  *)
ASSUME EntriesAssumption == EntriesAreOwn
=============================================================================
