---------------------------- MODULE ScopeLimiter ----------------------------
(***************************************************************************)
(* Whether a finding may be cascaded (hooks/cascading-scans/hook/           *)
(* scope-limiter.ts).                                                       *)
(*                                                                          *)
(* A scope annotation stands for the values its operators accept: the value *)
(* itself (In), the members of a list (Contains), the addresses of a subnet *)
(* and those of the other IP version (InCIDR), a domain and its subdomains  *)
(* (SubdomainOf).  An attribute of a finding is the list of the values its  *)
(* template renders to, and empty if it does not render.                    *)
(***************************************************************************)
EXTENDS Sequences, SequencesExt

Operators == {"In", "Contains", "InCIDR", "SubdomainOf"}   \* each can be negated
(* wellFormed: the key starts with the prefix of the scope annotations, and  *)
(* the list functions of the templates are given keys of enough levels.     *)
Requirement == [operator: STRING, negated: BOOLEAN, wellFormed: BOOLEAN,
                key: STRING, values: Seq(STRING)]
Limiter == [validOnMissingRender: BOOLEAN,
            allOf: Seq(Requirement), anyOf: Seq(Requirement), noneOf: Seq(Requirement)]
Requirements(limiter) == ToSet(limiter.allOf) \cup ToSet(limiter.anyOf) \cup ToSet(limiter.noneOf)

(* What an evaluation comes to: an error is thrown and ends everything.     *)
Outcome(b) == IF b THEN "true" ELSE "false"
Negation(r) == CASE r = "true" -> "false" [] r = "false" -> "true" [] OTHER -> r

(* Both stop at the first outcome that decides, or that is an error.        *)
Stopping(outcomes, on) ==
    LET stops == {i \in DOMAIN outcomes : outcomes[i] # on}
    IN  IF stops = {} THEN on ELSE outcomes[Min(stops)]
Every(outcomes) == Stopping(outcomes, "true")
Some(outcomes) == Stopping(outcomes, "false")

(* In wants one value to be the annotation, the others want every value to  *)
(* be accepted by it, and are not defined for values of another form.       *)
operatorFunction(req, annotation, rendered) ==
    IF req.operator = "In"
    THEN Outcome(\E values \in ToSet(rendered) : ToSet(values) \cap annotation.accepts # {})
    ELSE LET accepted(v) == IF v \in annotation.invalid THEN "error"
                            ELSE Outcome(v \in annotation.accepts)
         IN  Every([i \in DOMAIN rendered |->
                 Every([k \in DOMAIN rendered[i] |-> accepted(rendered[i][k])])])

(* A template that does not render is looked at before the annotation, but  *)
(* not before the form of the requirement.                                  *)
validateRequirement(req, limiter, scope, attributes) ==
    LET rendered == [i \in DOMAIN req.values |-> attributes[req.values[i]]]
        result == operatorFunction(req, scope[req.key], rendered)
        valid == req.wellFormed /\ req.operator \in Operators
    IN  CASE ~valid -> "error"
          [] valid /\ <<>> \in ToSet(rendered) -> Outcome(limiter.validOnMissingRender)
          [] valid /\ <<>> \notin ToSet(rendered) ->
                IF req.key \notin DOMAIN scope THEN "error"
                ELSE IF req.negated THEN Negation(result) ELSE result

isInScope(limiter, scope, attributes) ==
    LET validated(list) ==
            [i \in DOMAIN list |-> validateRequirement(list[i], limiter, scope, attributes)]
        fields == {Every(validated(limiter.allOf)),
                   IF limiter.anyOf = <<>> THEN "true" ELSE Some(validated(limiter.anyOf)),
                   Negation(Some(validated(limiter.noneOf)))}
    IN  IF "error" \in fields THEN "error" ELSE Outcome(fields = {"true"})
=============================================================================
