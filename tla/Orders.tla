------------------------------- MODULE Orders -------------------------------
(***************************************************************************)
(* The elements of a finite set in the order in which a sort or two nested  *)
(* loops would meet them.                                                   *)
(***************************************************************************)
EXTENDS Integers, FiniteSets

(* The n-th in the order of a relation, a set of pairs, and all of them. *)
Nth(S, R, n) == CHOOSE a \in S : Cardinality({b \in S : <<b, a>> \in R}) = n - 1
InOrder(S, R) == [n \in 1..Cardinality(S) |-> Nth(S, R, n)]

(* Numbers in their own order. *)
Ascending(S) == InOrder(S, {p \in S \X S : p[1] < p[2]})

(* The first place <<i, k>> of a loop over k inside one over i. *)
FirstPlace(places) ==
    CHOOSE p \in places : \A q \in places : p[1] < q[1] \/ (p[1] = q[1] /\ p[2] <= q[2])
=============================================================================
