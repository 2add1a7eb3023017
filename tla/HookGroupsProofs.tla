-------------------------- MODULE HookGroupsProofs --------------------------
(***************************************************************************)
(* What FromUnorderedList and CurrentHookGroup return, for lists of hooks   *)
(* of any length: the groups hold every listed hook once, in the documented *)
(* order, and the current group is the first with an open hook.             *)
(***************************************************************************)
EXTENDS HookGroups, FiniteSetTheorems, TLAPS

-----------------------------------------------------------------------------
(***************************************************************************)
(* Orders.                                                                  *)
(***************************************************************************)
LEMMA Smallest ==
    ASSUME NEW S \in SUBSET Nat, S # {}
    PROVE  \E m \in S : \A n \in S : m <= n
<1> DEFINE R == {p \in Nat \X Nat : p[1] < p[2]}
<1>1. R = OpToRel(<, Nat)
  BY DEF OpToRel
<1>2. \A m, n \in Nat : <<n, m>> \in R <=> n < m
  OBVIOUS
<1> HIDE DEF R
<1>3. IsWellFoundedOn(R, Nat)
  BY <1>1, NatLessThanWellFounded, Zenon
<1>4. PICK m \in S : \A n \in S : ~ (<<n, m>> \in R)
  BY <1>3, WFMin, Zenon
<1>5. ASSUME NEW n \in S PROVE m <= n
  <2>1. m \in Nat /\ n \in Nat
    OBVIOUS
  <2>2. ~ (n < m)
    BY <1>2, <1>4, <2>1
  <2> QED
    BY <2>1, <2>2
<1> QED
  BY <1>5

StrictOrder(S, R) ==
    /\ \A a \in S : <<a, a>> \notin R
    /\ \A a, b \in S : a # b => <<a, b>> \in R \/ <<b, a>> \in R
    /\ \A a, b, c \in S : <<a, b>> \in R /\ <<b, c>> \in R => <<a, c>> \in R

Below(S, R, a) == {b \in S : <<b, a>> \in R}

LEMMA BelowGrows ==
    ASSUME NEW S, IsFiniteSet(S), NEW R, StrictOrder(S, R)
    PROVE  /\ \A a \in S : Cardinality(Below(S, R, a)) \in 0..(Cardinality(S) - 1)
           /\ \A a, b \in S : <<a, b>> \in R
                => Cardinality(Below(S, R, a)) < Cardinality(Below(S, R, b))
<1>1. \A a \in S : Below(S, R, a) \subseteq S /\ a \notin Below(S, R, a)
  BY DEF Below, StrictOrder
<1>2. \A a \in S : IsFiniteSet(Below(S, R, a))
  BY <1>1, FS_Subset
<1>3. \A a \in S : Cardinality(Below(S, R, a)) \in Nat
  BY <1>2, FS_CardinalityType
<1>4. Cardinality(S) \in Nat
  BY FS_CardinalityType
<1>5. ASSUME NEW a \in S PROVE Cardinality(Below(S, R, a)) < Cardinality(S)
  <2>1. Below(S, R, a) # S /\ Below(S, R, a) \in SUBSET S
    BY <1>1
  <2> QED
    BY <2>1, <1>3, <1>4, FS_Subset
<1>6. ASSUME NEW a \in S, NEW b \in S, <<a, b>> \in R
      PROVE  Cardinality(Below(S, R, a)) < Cardinality(Below(S, R, b))
  <2>1. Below(S, R, a) \in SUBSET Below(S, R, b)
    BY <1>6 DEF Below, StrictOrder
  <2>2. a \in Below(S, R, b) /\ a \notin Below(S, R, a)
    BY <1>1, <1>6 DEF Below
  <2> QED
    BY <2>1, <2>2, <1>2, <1>3, FS_Subset
<1> QED
  BY <1>3, <1>4, <1>5, <1>6

(* InOrder enumerates a finite set that is totally ordered: every element   *)
(* has one place, and the places follow the order.                          *)
LEMMA InOrderSorts ==
    ASSUME NEW S, IsFiniteSet(S), NEW R, StrictOrder(S, R)
    PROVE  /\ Cardinality(S) \in Nat
           /\ InOrder(S, R) \in [1..Cardinality(S) -> S]
           /\ \A a \in S : \E n \in 1..Cardinality(S) : InOrder(S, R)[n] = a
           /\ \A m, n \in 1..Cardinality(S) :
                 m < n <=> <<InOrder(S, R)[m], InOrder(S, R)[n]>> \in R
           /\ \A m, n \in 1..Cardinality(S) : InOrder(S, R)[m] = InOrder(S, R)[n] => m = n
<1> DEFINE N == Cardinality(S)
           rank == [a \in S |-> Cardinality(Below(S, R, a)) + 1]
           s == InOrder(S, R)
<1>1. N \in Nat
  BY FS_CardinalityType
<1>2. rank \in [S -> 1..N]
  BY <1>1, BelowGrows
<1>3. \A a, b \in S : <<a, b>> \in R => rank[a] < rank[b]
  BY BelowGrows
<1>4. \A a, b \in S : rank[a] = rank[b] => a = b
  <2> SUFFICES ASSUME NEW a \in S, NEW b \in S, rank[a] = rank[b], a # b PROVE FALSE
    OBVIOUS
  <2>1. rank[a] < rank[b] \/ rank[b] < rank[a]
    BY <1>3 DEF StrictOrder
  <2> QED
    BY <2>1, <1>2
<1>5. rank \in Injection(S, 1..N)
  BY <1>2, <1>4 DEF Injection, IsInjective
<1>6. IsFiniteSet(1..N) /\ Cardinality(1..N) = N
  BY <1>1, FS_Interval
<1>7. rank \in Surjection(S, 1..N)
  BY <1>5, <1>6, FS_Injection
<1>8. \A n \in 1..N : \E a \in S : rank[a] = n
  BY <1>7 DEF Surjection
<1>9. \A n \in 1..N : s[n] = CHOOSE a \in S : Cardinality(Below(S, R, a)) = n - 1
  BY DEF InOrder, Nth, Below
<1>10. \A n \in 1..N : \E a \in S : Cardinality(Below(S, R, a)) = n - 1
  <2> TAKE n \in 1..N
  <2>1. PICK a \in S : rank[a] = n
    BY <1>8
  <2>2. Cardinality(Below(S, R, a)) + 1 = n /\ Cardinality(Below(S, R, a)) \in Nat
    BY <2>1, BelowGrows, <1>1
  <2> QED
    BY <2>2
<1>11. \A n \in 1..N : s[n] \in S /\ Cardinality(Below(S, R, s[n])) = n - 1
  BY <1>9, <1>10
<1>12. \A n \in 1..N : rank[s[n]] = n
  BY <1>11, <1>1
<1>13. s \in [1..N -> S]
  BY <1>11 DEF InOrder
<1>14. ASSUME NEW a \in S PROVE \E n \in 1..N : s[n] = a
  <2>1. rank[a] \in 1..N
    BY <1>2
  <2>2. s[rank[a]] \in S /\ rank[s[rank[a]]] = rank[a]
    BY <2>1, <1>11, <1>12
  <2> QED
    BY <2>1, <2>2, <1>4
<1> HIDE DEF rank, s, N
<1>15. ASSUME NEW m \in 1..N, NEW n \in 1..N
       PROVE  m < n <=> <<s[m], s[n]>> \in R
  <2>1. s[m] \in S /\ s[n] \in S /\ rank[s[m]] = m /\ rank[s[n]] = n /\ m \in Int /\ n \in Int
    BY <1>11, <1>12, <1>1
  <2>2. <<s[m], s[n]>> \in R => m < n
    BY <2>1, <1>3
  <2>3. <<s[n], s[m]>> \in R => n < m
    BY <2>1, <1>3
  <2>4. m # n => <<s[m], s[n]>> \in R \/ <<s[n], s[m]>> \in R
    BY <2>1, <1>4 DEF StrictOrder
  <2>5. m < n => m # n /\ ~ (n < m)
    BY <2>1
  <2> QED
    BY <2>2, <2>3, <2>4, <2>5
<1>16. ASSUME NEW m \in 1..N, NEW n \in 1..N, s[m] = s[n] PROVE m = n
  BY <1>12, <1>16
<1> QED
  BY <1>1, <1>13, <1>14, <1>15, <1>16 DEF s, N
LEMMA LessIsAnOrder ==
    ASSUME NEW S \in SUBSET Nat
    PROVE  StrictOrder(S, {p \in S \X S : p[1] < p[2]})
BY DEF StrictOrder

LEMMA AscendingSorts ==
    ASSUME NEW S \in SUBSET Nat, IsFiniteSet(S)
    PROVE  /\ Cardinality(S) \in Nat
           /\ Ascending(S) \in [1..Cardinality(S) -> S]
           /\ \A a \in S : \E n \in 1..Cardinality(S) : Ascending(S)[n] = a
           /\ \A m, n \in 1..Cardinality(S) : m < n <=> Ascending(S)[m] < Ascending(S)[n]
           /\ \A m, n \in 1..Cardinality(S) : Ascending(S)[m] = Ascending(S)[n] => m = n
<1> DEFINE R == {p \in S \X S : p[1] < p[2]}
           s == Ascending(S)
<1>1. StrictOrder(S, R)
  BY LessIsAnOrder
<1>2. s = InOrder(S, R)
  BY DEF Ascending
<1>3. \A a, b \in S : <<a, b>> \in R <=> a < b
  OBVIOUS
<1> HIDE DEF R, s
<1>4. /\ Cardinality(S) \in Nat /\ s \in [1..Cardinality(S) -> S]
      /\ \A a \in S : \E n \in 1..Cardinality(S) : s[n] = a
      /\ \A m, n \in 1..Cardinality(S) : m < n <=> <<s[m], s[n]>> \in R
      /\ \A m, n \in 1..Cardinality(S) : s[m] = s[n] => m = n
  BY <1>1, <1>2, InOrderSorts
<1>5. \A m, n \in 1..Cardinality(S) : m < n <=> s[m] < s[n]
  BY <1>3, <1>4
<1> QED
  BY <1>4, <1>5 DEF s

(* The first place of a loop exists and comes before all others.            *)
LEMMA FirstPlaceIsFirst ==
    ASSUME NEW places \in SUBSET (Nat \X Nat), places # {}
    PROVE  /\ FirstPlace(places) \in places
           /\ \A q \in places :
                 \/ FirstPlace(places)[1] < q[1]
                 \/ FirstPlace(places)[1] = q[1] /\ FirstPlace(places)[2] <= q[2]
<1> DEFINE rows == {q[1] : q \in places}
<1>1. rows # {} /\ rows \in SUBSET Nat
  OBVIOUS
<1>2. PICK i \in rows : \A j \in rows : i <= j
  <2> HIDE DEF rows
  <2> QED
    BY <1>1, Smallest
<1> DEFINE row == {k \in Nat : <<i, k>> \in places}
<1>3. row # {} /\ row \in SUBSET Nat
  <2>1. PICK q \in places : i = q[1]
    OBVIOUS
  <2>2. q = <<i, q[2]>> /\ q[2] \in Nat
    BY <2>1
  <2> QED
    BY <2>2
<1>4. PICK k \in row : \A n \in row : k <= n
  <2> HIDE DEF row
  <2> QED
    BY <1>3, Smallest
<1>5. <<i, k>> \in places
  OBVIOUS
<1>6. ASSUME NEW q \in places PROVE i < q[1] \/ (i = q[1] /\ k <= q[2])
  <2>1. q = <<q[1], q[2]>> /\ q[1] \in Nat /\ q[2] \in Nat /\ i \in Nat
    BY <1>1
  <2>2. i <= q[1]
    BY <1>2
  <2>3. i = q[1] => q[2] \in row
    BY <2>1
  <2> QED
    BY <2>1, <2>2, <2>3, <1>4
<1>7. \E p \in places : \A q \in places : p[1] < q[1] \/ (p[1] = q[1] /\ p[2] <= q[2])
  <2> WITNESS <<i, k>> \in places
  <2> QED
    BY <1>6
<1> QED
  BY <1>7 DEF FirstPlace

-----------------------------------------------------------------------------
(***************************************************************************)
(* The groups.                                                              *)
(***************************************************************************)
IsHook(h) == h.type \in HookTypes /\ h.prio \in Int

(* A list of hooks, of which those at the places S are grouped.             *)
HooksAt(hooks, S) == IsFiniteSet(S) /\ S \subseteq Nat /\ \A i \in S : IsHook(hooks[i])

SameGroup(hooks, i, j) ==
    \/ i = j
    \/ hooks[i].type = "ReadOnly" /\ hooks[j].type = "ReadOnly" /\ hooks[i].prio = hooks[j].prio

LEMMA OrderIsAnOrder ==
    ASSUME NEW hooks, NEW S, HooksAt(hooks, S)
    PROVE  StrictOrder(S, Order(hooks, S))
<1> DEFINE R == Order(hooks, S)
<1>1. \A i, j \in S : <<i, j>> \in R <=> Precedes(hooks, i, j)
  BY DEF Order
<1>2. \A i \in S : i \in Int /\ hooks[i].prio \in Int /\ hooks[i].type \in HookTypes
  BY DEF HooksAt, IsHook
<1>3. \A i \in S : ~Precedes(hooks, i, i)
  BY <1>2 DEF Precedes, OrderHookStatusesInsideAPrioClass, HookTypes
<1>4. \A i, j \in S : i # j => Precedes(hooks, i, j) \/ Precedes(hooks, j, i)
  BY <1>2 DEF Precedes, OrderHookStatusesInsideAPrioClass, HookTypes
<1>5. \A i, j, k \in S :
          Precedes(hooks, i, j) /\ Precedes(hooks, j, k) => Precedes(hooks, i, k)
  BY <1>2 DEF Precedes, OrderHookStatusesInsideAPrioClass, HookTypes
<1> HIDE DEF R
<1> QED
  BY <1>1, <1>3, <1>4, <1>5 DEF StrictOrder, R

LEMMA OrderOfPart ==
    ASSUME NEW S, NEW R, StrictOrder(S, R), NEW T \in SUBSET S
    PROVE  StrictOrder(T, R)
BY DEF StrictOrder

(* The first hooks of the groups in their order, and the hooks of one.      *)
LeadersInOrder(hooks, S) == InOrder(Leaders(hooks, S), Order(hooks, S))
MembersInOrder(hooks, S, i) == InOrder(GroupMembers(hooks, S, i), Order(hooks, S))

LEMMA LeaderOfEach ==
    ASSUME NEW hooks, NEW S, HooksAt(hooks, S), NEW i \in S
    PROVE  \E l \in Leaders(hooks, S) : i \in GroupMembers(hooks, S, l)
<1>1. GroupMembers(hooks, S, i) \in SUBSET Nat /\ i \in GroupMembers(hooks, S, i)
  BY DEF GroupMembers, HooksAt
<1>2. PICK l \in GroupMembers(hooks, S, i) : \A j \in GroupMembers(hooks, S, i) : l <= j
  BY <1>1, Smallest
<1>3. GroupMembers(hooks, S, l) = GroupMembers(hooks, S, i)
  BY DEF GroupMembers
<1> QED
  BY <1>1, <1>2, <1>3 DEF Leaders, GroupMembers

LEMMA OneLeader ==
    ASSUME NEW hooks, NEW S, HooksAt(hooks, S),
           NEW l \in Leaders(hooks, S), NEW m \in Leaders(hooks, S),
           NEW i \in GroupMembers(hooks, S, l), i \in GroupMembers(hooks, S, m)
    PROVE  l = m
<1>1. l \in GroupMembers(hooks, S, m) /\ m \in GroupMembers(hooks, S, l)
  BY DEF GroupMembers, Leaders
<1>2. l \in Int /\ m \in Int /\ l <= m /\ m <= l
  BY <1>1 DEF Leaders, HooksAt
<1> QED
  BY <1>2

(* The groups are enumerated by their first hooks, and each by its members. *)
LEMMA GroupsEnumerate ==
    ASSUME NEW hooks, NEW S, HooksAt(hooks, S)
    PROVE  LET N == Cardinality(Leaders(hooks, S))
               l == LeadersInOrder(hooks, S)
           IN  /\ N \in Nat
               /\ l \in [1..N -> Leaders(hooks, S)]
               /\ \A i \in Leaders(hooks, S) : \E g \in 1..N : l[g] = i
               /\ \A f, g \in 1..N : f < g <=> Precedes(hooks, l[f], l[g])
               /\ \A f, g \in 1..N : l[f] = l[g] => f = g
<1> DEFINE L == Leaders(hooks, S)
           N == Cardinality(L)
           l == LeadersInOrder(hooks, S)
           R == Order(hooks, S)
<1>1. L \in SUBSET S /\ IsFiniteSet(L)
  BY FS_Subset DEF Leaders, HooksAt
<1>3. StrictOrder(L, R)
  <2> HIDE DEF L
  <2> QED
    BY <1>1, OrderIsAnOrder, OrderOfPart
<1>4. l = InOrder(L, R)
  BY DEF LeadersInOrder
<1>5. /\ N \in Nat /\ l \in [1..N -> L]
      /\ \A i \in L : \E g \in 1..N : l[g] = i
      /\ \A f, g \in 1..N : f < g <=> <<l[f], l[g]>> \in R
      /\ \A f, g \in 1..N : l[f] = l[g] => f = g
  <2> HIDE DEF L, R, l
  <2> QED
    BY <1>1, <1>3, <1>4, InOrderSorts DEF N
<1>6. \A f, g \in 1..N : <<l[f], l[g]>> \in R <=> Precedes(hooks, l[f], l[g])
  <2> HIDE DEF L, l, N
  <2> QED
    BY <1>1, <1>5 DEF Order
<1> HIDE DEF N, L, l, R
<1>7. \A f, g \in 1..N : f < g <=> Precedes(hooks, l[f], l[g])
  BY <1>5, <1>6
<1> QED
  BY <1>5, <1>7 DEF N, L, l

LEMMA MembersEnumerate ==
    ASSUME NEW hooks, NEW S, HooksAt(hooks, S), NEW i \in S
    PROVE  LET M == Cardinality(GroupMembers(hooks, S, i))
               m == MembersInOrder(hooks, S, i)
           IN  /\ M \in Nat
               /\ m \in [1..M -> GroupMembers(hooks, S, i)]
               /\ \A j \in GroupMembers(hooks, S, i) : \E k \in 1..M : m[k] = j
               /\ \A k, n \in 1..M : m[k] = m[n] => k = n
<1> DEFINE G == GroupMembers(hooks, S, i)
<1>1. IsFiniteSet(G) /\ G \in SUBSET S
  BY FS_Subset DEF GroupMembers, HooksAt
<1>2. StrictOrder(G, Order(hooks, S))
  <2> HIDE DEF G
  <2> QED
    BY <1>1, OrderIsAnOrder, OrderOfPart
<1> QED
  BY <1>1, <1>2, InOrderSorts DEF MembersInOrder

(* Which hook of the list is at place k of group g.                         *)
PlaceOf(hooks, S, g, k) == MembersInOrder(hooks, S, LeadersInOrder(hooks, S)[g])[k]

(* Whether the i-th hook runs in an earlier group than the j-th.            *)
Earlier(hooks, i, j) ==
    \/ hooks[i].prio > hooks[j].prio
    \/ /\ hooks[i].prio = hooks[j].prio
       /\ hooks[i].type = "ReadAndWrite"
       /\ hooks[j].type = "ReadOnly" \/ i < j

LEMMA EarlierLeaders ==
    ASSUME NEW hooks, NEW S, HooksAt(hooks, S),
           NEW l \in Leaders(hooks, S), NEW m \in Leaders(hooks, S), l # m,
           NEW i \in GroupMembers(hooks, S, l), NEW j \in GroupMembers(hooks, S, m)
    PROVE  Earlier(hooks, i, j) <=> Precedes(hooks, l, m)
<1>1. l \in S /\ m \in S /\ i \in S /\ j \in S
  BY DEF Leaders, GroupMembers
<1>2. \A n \in {i, j, l, m} : n \in Int /\ hooks[n].prio \in Int /\ hooks[n].type \in HookTypes
  BY <1>1 DEF HooksAt, IsHook
<1>3. ~ SameGroup(hooks, l, m)
  <2>1. SameGroup(hooks, l, m) => l \in GroupMembers(hooks, S, m) /\ l \in GroupMembers(hooks, S, l)
    BY <1>1 DEF SameGroup, GroupMembers
  <2> QED
    BY <2>1, OneLeader
<1>4. SameGroup(hooks, l, i) /\ SameGroup(hooks, m, j)
  BY DEF SameGroup, GroupMembers
<1> HIDE DEF HookTypes
<1> QED
  BY <1>2, <1>3, <1>4
  DEF SameGroup, Earlier, Precedes, OrderHookStatusesInsideAPrioClass, HookTypes

LEMMA TogetherIsNotEarlier ==
    ASSUME NEW hooks, NEW S, HooksAt(hooks, S),
           NEW i \in S, NEW j \in S, SameGroup(hooks, i, j)
    PROVE  ~ Earlier(hooks, i, j)
<1>1. i \in Nat /\ IsHook(hooks[i])
  BY DEF HooksAt
<1> QED
  BY <1>1 DEF Earlier, SameGroup, IsHook

(* FromUnorderedList puts every hook in exactly one place, leaves no group  *)
(* empty and orders the groups by priority and type.                        *)
LEMMA GroupPlaces ==
    ASSUME NEW hooks, NEW S, HooksAt(hooks, S)
    PROVE  LET groups == GroupsAt(hooks, S)
           IN  /\ \A i \in S : \E g \in DOMAIN groups : \E k \in DOMAIN groups[g] :
                      PlaceOf(hooks, S, g, k) = i
               /\ \A g \in DOMAIN groups : \A k \in DOMAIN groups[g] :
                      /\ PlaceOf(hooks, S, g, k) \in S
                      /\ groups[g][k] = hooks[PlaceOf(hooks, S, g, k)]
               /\ \A f, g \in DOMAIN groups : \A k \in DOMAIN groups[f], n \in DOMAIN groups[g] :
                      /\ PlaceOf(hooks, S, f, k) = PlaceOf(hooks, S, g, n) => f = g /\ k = n
                      /\ f < g <=> Earlier(hooks, PlaceOf(hooks, S, f, k), PlaceOf(hooks, S, g, n))
               /\ \E N \in Nat : DOMAIN groups = 1..N
               /\ \A g \in DOMAIN groups : \E M \in Nat \ {0} : DOMAIN groups[g] = 1..M
<1> DEFINE L == Leaders(hooks, S)
           l == LeadersInOrder(hooks, S)
           N == Cardinality(L)
           groups == GroupsAt(hooks, S)
           members(g) == GroupMembers(hooks, S, l[g])
           at(g, k) == PlaceOf(hooks, S, g, k)
<1>1. /\ N \in Nat
      /\ l \in [1..N -> L]
      /\ \A i \in L : \E g \in 1..N : l[g] = i
      /\ \A f, g \in 1..N : f < g <=> Precedes(hooks, l[f], l[g])
      /\ \A f, g \in 1..N : l[f] = l[g] => f = g
  BY GroupsEnumerate
<1>2. L \subseteq S
  BY DEF Leaders
<1>3. /\ DOMAIN groups = 1..N
      /\ \A g \in 1..N : DOMAIN groups[g] = 1..Cardinality(members(g))
      /\ \A g \in 1..N : \A k \in 1..Cardinality(members(g)) : groups[g][k] = hooks[at(g, k)]
  <2>1. \A g \in 1..N : Leader(hooks, S, g) = l[g]
    BY DEF Leader, LeadersInOrder, InOrder
  <2>2. \A i : \A k \in 1..Cardinality(GroupMembers(hooks, S, i)) :
            Member(hooks, S, i, k) = MembersInOrder(hooks, S, i)[k]
    BY DEF Member, MembersInOrder, InOrder
  <2> QED
    BY <2>1, <2>2 DEF GroupsAt, PlaceOf
<1> HIDE DEF groups, L, N, l
<1>4. \A g \in 1..N : l[g] \in L /\ l[g] \in S
  BY <1>1, <1>2
<1>5. \A g \in 1..N :
         /\ Cardinality(members(g)) \in Nat
         /\ \A k \in 1..Cardinality(members(g)) : at(g, k) \in members(g)
         /\ \A j \in members(g) : \E k \in 1..Cardinality(members(g)) : at(g, k) = j
         /\ \A k, n \in 1..Cardinality(members(g)) : at(g, k) = at(g, n) => k = n
  <2> TAKE g \in 1..N
  <2>1. l[g] \in S
    BY <1>4
  <2>2. LET M == Cardinality(GroupMembers(hooks, S, l[g]))
            m == MembersInOrder(hooks, S, l[g])
        IN  /\ M \in Nat
            /\ m \in [1..M -> GroupMembers(hooks, S, l[g])]
            /\ \A j \in GroupMembers(hooks, S, l[g]) : \E k \in 1..M : m[k] = j
            /\ \A k, n \in 1..M : m[k] = m[n] => k = n
    BY <2>1, MembersEnumerate
  <2> QED
    BY <2>2 DEF PlaceOf, l
<1>6. \A g \in 1..N : l[g] \in members(g) /\ members(g) \subseteq S
  BY <1>4 DEF GroupMembers
<1> HIDE DEF members, at
<1>7. \A i \in S : \E g \in DOMAIN groups : \E k \in DOMAIN groups[g] : at(g, k) = i
  <2> TAKE i \in S
  <2>1. PICK a \in L : i \in GroupMembers(hooks, S, a)
    BY LeaderOfEach DEF L
  <2>2. PICK g \in 1..N : l[g] = a
    BY <1>1
  <2>3. i \in members(g)
    BY <2>1, <2>2 DEF members
  <2>4. PICK k \in 1..Cardinality(members(g)) : at(g, k) = i
    BY <2>3, <1>5
  <2> QED
    BY <1>3, <2>4
<1>8. \A g \in DOMAIN groups : \A k \in DOMAIN groups[g] :
          at(g, k) \in S /\ groups[g][k] = hooks[at(g, k)]
  BY <1>3, <1>5, <1>6
<1>9. ASSUME NEW f \in DOMAIN groups, NEW g \in DOMAIN groups,
             NEW k \in DOMAIN groups[f], NEW n \in DOMAIN groups[g]
      PROVE  /\ at(f, k) = at(g, n) => f = g /\ k = n
             /\ f < g <=> Earlier(hooks, at(f, k), at(g, n))
  <2>1. /\ l[f] \in L /\ l[g] \in L /\ f \in 1..N /\ g \in 1..N
        /\ at(f, k) \in members(f) /\ at(g, n) \in members(g)
        /\ k \in 1..Cardinality(members(f)) /\ n \in 1..Cardinality(members(g))
    BY <1>3, <1>4, <1>5
  <2>2. CASE f = g
    <3>1. at(f, k) = at(g, n) => k = n
      BY <2>1, <2>2, <1>5
    <3>2. SameGroup(hooks, at(f, k), at(f, n)) /\ at(f, n) \in members(f)
      BY <2>1, <2>2 DEF members, GroupMembers, SameGroup
    <3>3. at(f, k) \in S /\ at(f, n) \in S
      BY <1>6, <2>1, <3>2
    <3>4. ~ Earlier(hooks, at(f, k), at(f, n))
      BY <3>2, <3>3, TogetherIsNotEarlier
    <3>5. ~ (f < f)
      BY <2>1, <1>1
    <3> QED
      BY <2>2, <3>1, <3>2, <3>3, <3>4, <3>5
  <2>3. CASE f # g
    <3>1. l[f] # l[g]
      BY <2>1, <2>3, <1>1
    <3>2. at(f, k) # at(g, n)
      BY <2>1, <3>1, OneLeader DEF members, L
    <3>3. Earlier(hooks, at(f, k), at(g, n)) <=> Precedes(hooks, l[f], l[g])
      BY <2>1, <3>1, EarlierLeaders DEF members, L
    <3> QED
      BY <2>1, <2>3, <3>2, <3>3, <1>1
  <2> QED
    BY <2>2, <2>3
<1>10. \A g \in DOMAIN groups : \E M \in Nat \ {0} : DOMAIN groups[g] = 1..M
  <2> TAKE g \in DOMAIN groups
  <2>1. PICK k \in 1..Cardinality(members(g)) : at(g, k) = l[g]
    BY <1>3, <1>5, <1>6
  <2>2. Cardinality(members(g)) \in Nat \ {0}
    BY <1>3, <1>5, <2>1
  <2> QED
    BY <2>2, <1>3
<1> QED
  BY <1>1, <1>3, <1>7, <1>8, <1>9, <1>10 DEF at, groups
-----------------------------------------------------------------------------
(***************************************************************************)
(* CurrentHookGroup.                                                        *)
(***************************************************************************)
IsGrouping(groups) ==
    /\ DOMAIN groups \subseteq Nat
    /\ \A g \in DOMAIN groups : DOMAIN groups[g] \subseteq Nat

StateAt(groups, state, g, k) == state[groups[g][k].name]

LEMMA OpenHooksAre ==
    ASSUME NEW groups, NEW state
    PROVE  \A gk : gk \in OpenHooks(groups, state) <=>
              \E g \in DOMAIN groups : \E k \in DOMAIN groups[g] :
                 gk = <<g, k>> /\ StateAt(groups, state, g, k) # "Completed"
BY DEF OpenHooks, StateAt

LEMMA FirstOpenHookIsFirst ==
    ASSUME NEW groups, NEW state, IsGrouping(groups), OpenHooks(groups, state) # {}
    PROVE  \E g \in DOMAIN groups : \E k \in DOMAIN groups[g] :
              /\ FirstOpenHook(groups, state) = <<g, k>>
              /\ StateAt(groups, state, g, k) # "Completed"
              /\ \A f \in DOMAIN groups : \A n \in DOMAIN groups[f] :
                    f < g \/ (f = g /\ n < k) => StateAt(groups, state, f, n) = "Completed"
<1> DEFINE open(g, k) == StateAt(groups, state, g, k) # "Completed"
           Open == OpenHooks(groups, state)
           first == FirstPlace(Open)
<1>1. \A gk : gk \in Open <=>
         \E g \in DOMAIN groups : \E k \in DOMAIN groups[g] : gk = <<g, k>> /\ open(g, k)
  BY OpenHooksAre
<1>2. FirstOpenHook(groups, state) = first /\ Open # {}
  BY DEF FirstOpenHook
<1> HIDE DEF open, Open
<1>3. Open \in SUBSET (Nat \X Nat)
  BY <1>1 DEF IsGrouping
<1>4. first \in Open /\ \A q \in Open : first[1] < q[1] \/ (first[1] = q[1] /\ first[2] <= q[2])
  BY <1>2, <1>3, FirstPlaceIsFirst
<1>5. PICK g \in DOMAIN groups : \E k \in DOMAIN groups[g] : first = <<g, k>> /\ open(g, k)
  BY <1>1, <1>4
<1>6. PICK k \in DOMAIN groups[g] : first = <<g, k>> /\ open(g, k)
  BY <1>5
<1> HIDE DEF first
<1>7. ASSUME NEW f \in DOMAIN groups, NEW n \in DOMAIN groups[f], f < g \/ (f = g /\ n < k)
      PROVE  ~ open(f, n)
  <2>1. f \in Nat /\ n \in Nat /\ g \in Nat /\ k \in Nat
    BY DEF IsGrouping
  <2>2. open(f, n) => <<f, n>> \in Open
    BY <1>1
  <2>3. open(f, n) => g < f \/ (g = f /\ k <= n)
    BY <2>2, <1>4, <1>6
  <2> QED
    BY <1>7, <2>1, <2>3
<1> QED
  BY <1>2, <1>6, <1>7 DEF open

(* What each answer of CurrentHookGroup means.                              *)
LEMMA CurrentGroupIs ==
    ASSUME NEW groups, NEW state, IsGrouping(groups)
    PROVE  LET c == CurrentHookGroup(groups, state)
           IN  /\ c.result \in {"none", "group", "error"}
               /\ c.result = "none" => \A g \in DOMAIN groups : \A k \in DOMAIN groups[g] :
                                         StateAt(groups, state, g, k) = "Completed"
               /\ c.result = "group" =>
                     /\ c.group \in DOMAIN groups
                     /\ \E k \in DOMAIN groups[c.group] :
                           StateAt(groups, state, c.group, k) \in {"Pending", "InProgress"}
                     /\ \A g \in DOMAIN groups : \A k \in DOMAIN groups[g] :
                           g < c.group => StateAt(groups, state, g, k) = "Completed"
<1> DEFINE c == CurrentHookGroup(groups, state)
<1>1. CASE OpenHooks(groups, state) = {}
  <2>1. c = [result |-> "none", group |-> 0]
    BY <1>1 DEF CurrentHookGroup
  <2>2. \A g \in DOMAIN groups : \A k \in DOMAIN groups[g] : StateAt(groups, state, g, k) = "Completed"
    BY <1>1, OpenHooksAre
  <2> QED
    BY <2>1, <2>2
<1>2. CASE OpenHooks(groups, state) # {}
  <2>0. PICK g \in DOMAIN groups : \E k \in DOMAIN groups[g] :
              /\ FirstOpenHook(groups, state) = <<g, k>>
              /\ StateAt(groups, state, g, k) # "Completed"
              /\ \A f \in DOMAIN groups : \A n \in DOMAIN groups[f] :
                    f < g \/ (f = g /\ n < k) => StateAt(groups, state, f, n) = "Completed"
    BY <1>2, FirstOpenHookIsFirst
  <2>1. PICK k \in DOMAIN groups[g] :
              /\ FirstOpenHook(groups, state) = <<g, k>>
              /\ StateAt(groups, state, g, k) # "Completed"
              /\ \A f \in DOMAIN groups : \A n \in DOMAIN groups[f] :
                    f < g \/ (f = g /\ n < k) => StateAt(groups, state, f, n) = "Completed"
    BY <2>0
  <2>2. c = IF StateAt(groups, state, g, k) \in {"Pending", "InProgress"}
            THEN [result |-> "group", group |-> g]
            ELSE [result |-> "error", group |-> 0]
    BY <1>2, <2>1 DEF CurrentHookGroup, StateAt
  <2> QED
    BY <2>1, <2>2
<1> QED
  BY <1>1, <1>2
=============================================================================
