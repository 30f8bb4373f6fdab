-------------------------- MODULE OrderPoolProofs --------------------------
(***************************************************************************)
(* Proofs about the order pool, for any cargo orders, groups and listings, *)
(* that a Solver builds its pools as OrderPool says, that its plans        *)
(* account for what it has read, and that the dates by which calendars cut *)
(* the windows of its orders are those of consecutive days.                *)
(***************************************************************************)
EXTENDS SolverRun, SequenceTheorems, FiniteSetTheorems, WellFoundedInduction, TLAPS

Members == Seq(DOMAIN cargo) \ {<<>>}

\* The group of a key holds what its key says: nothing labelled, or the values of
\* the group of values, all of them by one member if no rule gave the group.
Good(s, vals, key) ==
  LET g == s.groups[s.at[key]]
  IN  IF key = Unlabelled
      THEN \A j \in DOMAIN g : LabelValues(g[j]) = {}
      ELSE /\ \A j \in DOMAIN g : LabelValues(g[j]) \subseteq Range(vals[key])
           /\ key > Len(param.groups) =>
                \E i \in DOMAIN g : LabelValues(g[i]) = Range(vals[key])

\* ind_map names every group once.
Shape(s, vals) ==
  /\ s = [at |-> s.at, groups |-> s.groups]
  /\ s.groups \in Seq(Members)
  /\ s.at \in [DOMAIN s.at -> DOMAIN s.groups]
  /\ DOMAIN s.at \subseteq 0 .. Len(vals)
  /\ \A k, l \in DOMAIN s.at : s.at[k] = s.at[l] => k = l
  /\ \A p \in DOMAIN s.groups : \E k \in DOMAIN s.at : s.at[k] = p

Sorting(s, vals) == Shape(s, vals) /\ \A k \in DOMAIN s.at : Good(s, vals, k)

ReadType ==
  /\ DOMAIN cargo = 1 .. Len(cargo) /\ Len(cargo) \in Nat
  /\ \A c \in DOMAIN cargo : cargo[c].listed \in Seq(Int)
  /\ param.grouped \in BOOLEAN
  /\ param.groups \in Seq(Seq(Int))
  /\ stage = "unread" => cargo = <<>> /\ locs = <<>>

\* The cargo order to group by label is one of locs.
LocsType ==
  /\ next \in Nat \ {0}
  /\ locs \in Seq(Members)
  /\ stage = "label" =>
       /\ cur \in (Nat \ {0}) \X (Nat \ {0})
       /\ cur[1] \in DOMAIN locs => cur[2] <= Len(locs[cur[1]])

\* The groups of the rule stay in front, and every later group has a key.
ValuesType ==
  stage \in {"label", "merge", "done"} =>
    /\ values \in Seq(Seq(Int)) /\ Len(param.groups) <= Len(values)
    /\ \A u \in DOMAIN param.groups : values[u] = param.groups[u]
    /\ param.grouped => \A u \in DOMAIN values : u > Len(param.groups) => u \in DOMAIN sorted.at

SortedInv == stage \in {"label", "merge", "done"} /\ param.grouped => Sorting(sorted, values)

OrdersInv ==
  IF stage = "done"
  THEN DOMAIN orders = DOMAIN sorted.groups /\ \A k \in DOMAIN orders : orders[k].cargo = sorted.groups[k]
  ELSE orders = <<>>

PoolInv == ReadType /\ LocsType /\ ValuesType /\ SortedInv /\ OrdersInv

----------------------------------------------------------------------------
(* Lemmas on the operators *)

\* What std::includes accepts is a subset, whatever the order of the listings.
LEMMA IncludesSubset ==
  ASSUME NEW group, NEW listed, Includes(group, listed)
  PROVE  Range(listed) \subseteq Range(group)
BY DEF Includes, Range

\* A cargo order put under a key of its values keeps ind_map and groups in order.
LEMMA PlacedShape ==
  ASSUME NEW s, NEW vals, NEW c \in DOMAIN cargo, NEW key \in 0 .. Len(vals),
         Len(vals) \in Nat, Shape(s, vals)
  PROVE  Shape(Placed(c, key, s), vals)
<1>1. CASE key \in DOMAIN s.at
  <2> DEFINE p == s.at[key]
             g == [s.groups EXCEPT ![p] = Append(@, c)]
  <2>1. p \in DOMAIN s.groups /\ s.groups \in Seq(Members) BY <1>1 DEF Shape
  <2>2. s.groups[p] \in Seq(DOMAIN cargo) BY <2>1 DEF Members
  <2>3. Append(s.groups[p], c) \in Members
    <3>1. Append(s.groups[p], c) \in Seq(DOMAIN cargo) BY <2>2
    <3>2. Len(Append(s.groups[p], c)) # 0 BY <2>2
    <3> QED BY <3>1, <3>2 DEF Members
  <2>4. g \in Seq(Members) /\ DOMAIN g = DOMAIN s.groups BY <2>1, <2>3
  <2>5. Placed(c, key, s) = [at |-> s.at, groups |-> g] BY <1>1 DEF Placed
  <2> QED BY <2>4, <2>5 DEF Shape
<1>2. CASE key \notin DOMAIN s.at
  <2> DEFINE q == Len(s.groups) + 1
             a == [k \in DOMAIN s.at \cup {key} |-> IF k = key THEN q ELSE s.at[k]]
             g == Append(s.groups, <<c>>)
  <2>1. s.groups \in Seq(Members) BY DEF Shape
  <2>2. <<c>> \in Members BY DEF Members
  <2>3. g \in Seq(Members) /\ DOMAIN g = DOMAIN s.groups \cup {q} /\ q \notin DOMAIN s.groups
    BY <2>1, <2>2
  <2>4. Placed(c, key, s) = [at |-> a, groups |-> g] BY <1>2 DEF Placed
  <2>5. DOMAIN a = DOMAIN s.at \cup {key} OBVIOUS
  <2>6. a \in [DOMAIN a -> DOMAIN g] BY <2>3, <2>5 DEF Shape
  <2>7. \A k, l \in DOMAIN a : a[k] = a[l] => k = l BY <1>2, <2>3, <2>5 DEF Shape
  <2>8. \A p \in DOMAIN g : \E k \in DOMAIN a : a[k] = p
    <3> SUFFICES ASSUME NEW p \in DOMAIN g PROVE \E k \in DOMAIN a : a[k] = p OBVIOUS
    <3>1. CASE p = q BY <3>1, <2>5
    <3>2. CASE p \in DOMAIN s.groups
      <4>1. PICK k \in DOMAIN s.at : s.at[k] = p BY <3>2 DEF Shape
      <4> QED BY <4>1, <1>2, <2>5
    <3> QED BY <3>1, <3>2, <2>3
  <2>9. DOMAIN a \subseteq 0 .. Len(vals) BY <2>5 DEF Shape
  <2> HIDE DEF q, a, g
  <2> QED BY <2>3, <2>4, <2>6, <2>7, <2>8, <2>9 DEF Shape
<1> QED BY <1>1, <1>2
\* What c must have to be put under a key.
Fitting(c, vals, key, s) ==
  IF key = Unlabelled
  THEN LabelValues(c) = {}
  ELSE /\ LabelValues(c) \subseteq Range(vals[key])
       /\ key > Len(param.groups) /\ key \notin DOMAIN s.at => LabelValues(c) = Range(vals[key])

\* A group that takes one cargo order more keeps the others where they are.
LEMMA AppendElements ==
  ASSUME NEW S, NEW g \in Seq(S), NEW c \in S
  PROVE  /\ DOMAIN Append(g, c) = DOMAIN g \cup {Len(g) + 1}
         /\ Append(g, c)[Len(g) + 1] = c
         /\ \A j \in DOMAIN g : Append(g, c)[j] = g[j] /\ j # Len(g) + 1
OBVIOUS

\* A fitting key keeps every group to what its key says.
LEMMA PlacedSorting ==
  ASSUME NEW s, NEW vals, NEW c \in DOMAIN cargo, NEW key \in 0 .. Len(vals),
         Len(vals) \in Nat, Sorting(s, vals), Fitting(c, vals, key, s)
  PROVE  Sorting(Placed(c, key, s), vals)
<1> DEFINE t == Placed(c, key, s)
<1>1. Shape(s, vals) /\ Shape(t, vals) BY PlacedShape DEF Sorting
<1>2. ASSUME NEW k \in DOMAIN t.at PROVE Good(t, vals, k)
  <2>1. CASE key \in DOMAIN s.at
    <3> DEFINE p == s.at[key]
    <3>1. t = [at |-> s.at, groups |-> [s.groups EXCEPT ![p] = Append(@, c)]]
      BY <2>1 DEF Placed
    <3>2. p \in DOMAIN s.groups /\ s.groups[p] \in Seq(DOMAIN cargo) BY <1>1, <2>1 DEF Shape, Members
    <3>3. CASE k # key
      <4>1. t.at[k] = s.at[k] /\ s.at[k] # p /\ k \in DOMAIN s.at
        BY <1>1, <2>1, <3>1, <3>3 DEF Shape
      <4>2. t.groups[t.at[k]] = s.groups[s.at[k]] BY <1>1, <3>1, <4>1 DEF Shape
      <4>3. Good(s, vals, k) BY <4>1 DEF Sorting
      <4> QED BY <4>2, <4>3 DEF Good
    <3>4. CASE k = key
      <4> DEFINE g == s.groups[p]
                 h == t.groups[t.at[k]]
      <4>1. h = Append(g, c) BY <3>1, <3>2, <3>4
      <4>2. DOMAIN h = DOMAIN g \cup {Len(g) + 1} /\ h[Len(g) + 1] = c
            /\ \A j \in DOMAIN g : h[j] = g[j] /\ j # Len(g) + 1
        BY <3>2, <4>1, AppendElements
      <4>3. Good(s, vals, key) BY <2>1 DEF Sorting
      <4>4. CASE key = Unlabelled
        <5>1. \A j \in DOMAIN g : LabelValues(g[j]) = {} BY <4>3, <4>4 DEF Good
        <5>2. LabelValues(c) = {} BY <4>4 DEF Fitting
        <5> HIDE DEF g, h
        <5>3. \A j \in DOMAIN h : LabelValues(h[j]) = {} BY <4>2, <5>1, <5>2
        <5> QED BY <3>4, <4>4, <5>3 DEF Good, h
      <4>5. CASE key # Unlabelled
        <5>1. \A j \in DOMAIN g : LabelValues(g[j]) \subseteq Range(vals[key])
          BY <4>3, <4>5 DEF Good
        <5>2. key > Len(param.groups) => \E i \in DOMAIN g : LabelValues(g[i]) = Range(vals[key])
          BY <4>3, <4>5 DEF Good
        <5>3. LabelValues(c) \subseteq Range(vals[key]) BY <4>5 DEF Fitting
        <5> HIDE DEF g, h
        <5>4. \A j \in DOMAIN h : LabelValues(h[j]) \subseteq Range(vals[key])
          BY <4>2, <5>1, <5>3
        <5>5. key > Len(param.groups) => \E i \in DOMAIN h : LabelValues(h[i]) = Range(vals[key])
          BY <4>2, <5>2
        <5> QED BY <3>4, <4>5, <5>4, <5>5 DEF Good, h
      <4> QED BY <4>4, <4>5
    <3> QED BY <3>3, <3>4
  <2>2. CASE key \notin DOMAIN s.at
    <3> DEFINE q == Len(s.groups) + 1
    <3>1. t = [at |-> [l \in DOMAIN s.at \cup {key} |-> IF l = key THEN q ELSE s.at[l]],
               groups |-> Append(s.groups, <<c>>)]
      BY <2>2 DEF Placed
    <3>2. s.groups \in Seq(Members) BY <1>1 DEF Shape
    <3>3. CASE k # key
      <4>1. k \in DOMAIN s.at /\ t.at[k] = s.at[k] BY <3>1, <3>3
      <4>2. s.at[k] \in DOMAIN s.groups BY <1>1, <4>1 DEF Shape
      <4>3. t.groups[t.at[k]] = s.groups[s.at[k]] BY <3>1, <3>2, <4>1, <4>2
      <4>4. Good(s, vals, k) BY <4>1 DEF Sorting
      <4> QED BY <4>3, <4>4 DEF Good
    <3>4. CASE k = key
      <4>1. t.at[k] = q BY <3>1, <3>4
      <4>2. t.groups[q] = <<c>> BY <3>1, <3>2
      <4>3. t.groups[t.at[k]] = <<c>> BY <4>1, <4>2
      <4> QED BY <2>2, <3>4, <4>3 DEF Good, Fitting
    <3> QED BY <3>3, <3>4
  <2> QED BY <2>1, <2>2
<1> QED BY <1>1, <1>2 DEF Sorting

\* A further group of values leaves what the keys say.
LEMMA AppendSorting ==
  ASSUME NEW s, NEW vals \in Seq(Seq(Int)), NEW x \in Seq(Int), Sorting(s, vals)
  PROVE  Sorting(s, Append(vals, x))
<1>1. Len(vals) \in Nat /\ Len(Append(vals, x)) = Len(vals) + 1 OBVIOUS
<1>2. Shape(s, vals) BY DEF Sorting
<1>3. Shape(s, Append(vals, x)) BY <1>1, <1>2 DEF Shape
<1>4. ASSUME NEW k \in DOMAIN s.at PROVE Good(s, Append(vals, x), k)
  <2>1. Good(s, vals, k) BY DEF Sorting
  <2>2. k \in 0 .. Len(vals) BY <1>2 DEF Shape
  <2>3. CASE k = Unlabelled BY <2>1, <2>3 DEF Good
  <2>4. CASE k # Unlabelled
    <3>1. Append(vals, x)[k] = vals[k] BY <1>1, <2>2, <2>4 DEF Unlabelled
    <3> QED BY <2>1, <2>4, <3>1 DEF Good
  <2> QED BY <2>3, <2>4
<1> QED BY <1>3, <1>4 DEF Sorting

\* The cargo orders and the rule do not change while they are sorted.
LEMMA SortingPrimed ==
  ASSUME cargo' = cargo, param' = param, Sorting(sorted', values')
  PROVE  Sorting(sorted, values)'
BY DEF Sorting, Shape, Good, Members, LabelValues

\* The unlabelled group takes what has no value.
LEMMA WithUnlabelledSorting ==
  ASSUME NEW c \in DOMAIN cargo, Len(values) \in Nat, Sorting(sorted, values), ReadType
  PROVE  /\ Sorting(WithUnlabelled(c), values)
         /\ DOMAIN WithUnlabelled(c).at \subseteq DOMAIN sorted.at \cup {Unlabelled}
         /\ DOMAIN sorted.at \subseteq DOMAIN WithUnlabelled(c).at
<1>1. CASE Labelled(c) BY <1>1 DEF WithUnlabelled
<1>2. CASE ~ Labelled(c)
  <2>1. LabelValues(c) = {} BY <1>2 DEF Labelled, LabelValues, Range
  <2>2. Sorting(Placed(c, Unlabelled, sorted), values)
    BY <2>1, PlacedSorting DEF Fitting, Unlabelled
  <2>3. /\ DOMAIN Placed(c, Unlabelled, sorted).at \subseteq DOMAIN sorted.at \cup {Unlabelled}
        /\ DOMAIN sorted.at \subseteq DOMAIN Placed(c, Unlabelled, sorted).at
    BY DEF Placed
  <2> QED BY <1>2, <2>2, <2>3 DEF WithUnlabelled
<1> QED BY <1>1, <1>2

\* The cargo order to place is one, and the next position is in order.
LEMMA NextPlaced ==
  ASSUME LocsType, stage = "label", cur[1] \in DOMAIN locs
  PROVE  /\ locs[cur[1]][cur[2]] \in DOMAIN cargo
         /\ Advanced \in (Nat \ {0}) \X (Nat \ {0})
         /\ Advanced[1] \in DOMAIN locs => Advanced[2] <= Len(locs[Advanced[1]])
<1> DEFINE g == locs[cur[1]]
<1>1. /\ cur = <<cur[1], cur[2]>> /\ cur[1] \in Nat \ {0} /\ cur[2] \in Nat \ {0}
      /\ cur[2] <= Len(g)
  BY DEF LocsType
<1>2. \A k \in DOMAIN locs : locs[k] \in Seq(DOMAIN cargo) /\ locs[k] # <<>> BY DEF LocsType, Members
<1>3. \A k \in DOMAIN locs : Len(locs[k]) \in Nat /\ 1 <= Len(locs[k])
  <2> SUFFICES ASSUME NEW k \in DOMAIN locs PROVE Len(locs[k]) \in Nat /\ 1 <= Len(locs[k]) OBVIOUS
  <2>1. locs[k] \in Seq(DOMAIN cargo) /\ locs[k] # <<>> BY <1>2
  <2> QED BY <2>1, EmptySeq
<1>4. g \in Seq(DOMAIN cargo) BY <1>2
<1>5. g[cur[2]] \in DOMAIN cargo
  <2> HIDE DEF g
  <2> QED BY <1>1, <1>4
<1>6. CASE cur[2] < Len(g)
  <2>1. Advanced = <<cur[1], cur[2] + 1>> BY <1>6 DEF Advanced
  <2>2. cur[2] + 1 <= Len(g) /\ cur[2] + 1 \in Nat \ {0}
    <3> HIDE DEF g
    <3> QED BY <1>1, <1>4, <1>6
  <2> QED BY <1>1, <1>5, <2>1, <2>2
<1>7. CASE ~ cur[2] < Len(g)
  <2>1. Advanced = <<cur[1] + 1, 1>> BY <1>7 DEF Advanced
  <2> QED BY <1>1, <1>3, <1>5, <2>1
<1> QED BY <1>6, <1>7
----------------------------------------------------------------------------
(* The invariant *)

\* The invariant holds before the first pool is built.
THEOREM PoolInitInv == PoolInit => PoolInv
BY DEF PoolInit, PoolInv, ReadType, LocsType, ValuesType, SortedInv, OrdersInv, Members

\* Reading the cargo orders and the rule empties what is sorted.
LEMMA ReadStep == ASSUME PoolInv, NEW r \in Readings, Read(r) PROVE PoolInv'
<1> USE DEF PoolInv, Read
<1>1. ReadType' BY ReadingsAssumption DEF ReadType
<1>2. LocsType'
  <2>1. locs = <<>> /\ next \in Nat \ {0} BY DEF ReadType, LocsType
  <2> QED BY <2>1 DEF LocsType
<1>3. ValuesType' /\ SortedInv' /\ OrdersInv' BY DEF ValuesType, SortedInv, OrdersInv
<1> QED BY <1>1, <1>2, <1>3

\* A pool is deleted, or its sorting started, with nothing sorted.
LEMMA RestartStep == ASSUME PoolInv, DropPool \/ StartPool PROVE PoolInv'
<1> USE DEF PoolInv, DropPool, StartPool
<1>1. ReadType' BY DEF ReadType
<1>2. LocsType'
  <2>1. Members' = Members /\ stage' # "label" BY DEF Members
  <2>2. (locs' = locs \/ locs' = <<>>) /\ (next' = next \/ next' = 1) OBVIOUS
  <2>3. <<>> \in Seq(Members) OBVIOUS
  <2>4. next \in Nat \ {0} /\ locs \in Seq(Members) BY DEF LocsType
  <2>5. locs' \in Seq(Members)
    <3> HIDE DEF PoolInv, DropPool, StartPool
    <3> QED BY <2>2, <2>3, <2>4
  <2>6. next' \in Nat \ {0} BY <2>2, <2>4
  <2> QED BY <2>1, <2>5, <2>6 DEF LocsType
<1>3. ValuesType' /\ SortedInv' /\ OrdersInv' BY DEF ValuesType, SortedInv, OrdersInv
<1> QED BY <1>1, <1>2, <1>3

\* Sorting by the ends keeps the positions in order.
LEMMA LocStep == ASSUME PoolInv, JoinGroup \/ NewGroup PROVE PoolInv'
<1> USE DEF PoolInv
<1>1. ReadType' BY DEF ReadType, JoinGroup, NewGroup
<1>2. next \in DOMAIN cargo /\ next' = next + 1 /\ next' \in Nat \ {0} /\ Members' = Members
  BY DEF ReadType, LocsType, JoinGroup, NewGroup, Members
<1>3. locs' \in Seq(Members)
  <2>1. CASE JoinGroup
    <3>1. PICK g \in DOMAIN locs : locs' = [locs EXCEPT ![g] = Append(@, next)]
      BY <2>1 DEF JoinGroup
    <3>2. locs[g] \in Seq(DOMAIN cargo) BY <3>1 DEF LocsType, Members
    <3>3. Append(locs[g], next) \in Members
      <4>1. Append(locs[g], next) \in Seq(DOMAIN cargo) BY <1>2, <3>2
      <4>2. Len(Append(locs[g], next)) # 0 BY <3>2
      <4> QED BY <4>1, <4>2 DEF Members
    <3> QED BY <3>1, <3>3 DEF LocsType
  <2>2. CASE NewGroup
    <3>1. <<next>> \in Members BY <1>2 DEF Members
    <3> QED BY <2>2, <3>1 DEF LocsType, NewGroup
  <2> QED BY <2>1, <2>2
<1>4. stage' = "loc" BY DEF JoinGroup, NewGroup
<1>5. LocsType' BY <1>2, <1>3, <1>4 DEF LocsType
<1>6. ValuesType' /\ SortedInv' /\ OrdersInv'
  BY <1>4 DEF ValuesType, SortedInv, OrdersInv, JoinGroup, NewGroup
<1> QED BY <1>1, <1>5, <1>6

\* A group of ends is sorted by labels, or taken as it is.
LEMMA EndLocStep == ASSUME PoolInv, EndLoc PROVE PoolInv'
<1> USE DEF PoolInv
<1>1. ReadType' BY DEF ReadType, EndLoc
<1>2. Members' = Members /\ locs' = locs /\ next' = next BY DEF EndLoc, Members
<1>3. LocsType'
  <2>1. \A k \in DOMAIN locs : 1 <= Len(locs[k])
    <3> SUFFICES ASSUME NEW k \in DOMAIN locs PROVE 1 <= Len(locs[k]) OBVIOUS
    <3>1. locs[k] \in Seq(DOMAIN cargo) /\ locs[k] # <<>> BY DEF LocsType, Members
    <3> QED BY <3>1, EmptySeq
  <2>2. cur' = <<1, 1>> BY DEF EndLoc
  <2> QED BY <1>2, <2>1, <2>2 DEF LocsType
<1>4. ValuesType' BY DEF ValuesType, ReadType, EndLoc
<1>5. SortedInv'
  <2> SUFFICES ASSUME param'.grouped PROVE Sorting(sorted, values)' BY DEF SortedInv
  <2>1. sorted' = NothingSorted /\ values' = param.groups /\ param' = param /\ cargo' = cargo
    BY DEF EndLoc
  <2>2. Len(param.groups) \in Nat BY DEF ReadType
  <2>3. Shape(NothingSorted, param.groups) BY <2>2 DEF Shape, NothingSorted
  <2>4. Sorting(NothingSorted, param.groups) BY <2>3 DEF Sorting, NothingSorted
  <2> QED BY <2>1, <2>4, SortingPrimed
<1>6. OrdersInv' BY DEF OrdersInv, EndLoc
<1> QED BY <1>1, <1>3, <1>4, <1>5, <1>6

\* A cargo order joins a group that its listing fits.
LEMMA PlaceInGroupStep == ASSUME PoolInv, PlaceInGroup PROVE PoolInv'
<1> USE DEF PoolInv
<1> DEFINE c == locs[cur[1]][cur[2]]
           s == WithUnlabelled(c)
<1>1. /\ stage = "label" /\ stage' = "label" /\ cur[1] \in DOMAIN locs /\ cur' = Advanced
      /\ UNCHANGED <<cargo, param, next, locs, values, orders>>
  BY DEF PlaceInGroup
<1>2. PICK u \in Fits(c) : sorted' = Placed(c, u, s) BY DEF PlaceInGroup
<1>3. c \in DOMAIN cargo /\ LocsType' BY <1>1, NextPlaced DEF LocsType, Members
<1>4. values \in Seq(Seq(Int)) /\ u \in 1 .. Len(values) /\ Len(values) \in Nat
  BY <1>1, <1>2 DEF ValuesType, Fits
<1>5. LabelValues(c) \subseteq Range(values[u]) BY <1>2, IncludesSubset DEF Fits, LabelValues
<1> HIDE DEF c, s
<1>6. ASSUME param.grouped
      PROVE  Sorting(sorted', values) /\ DOMAIN sorted.at \subseteq DOMAIN sorted'.at
  <2>1. Sorting(sorted, values) BY <1>1, <1>6 DEF SortedInv
  <2>2. Sorting(s, values) /\ DOMAIN sorted.at \subseteq DOMAIN s.at
    BY <1>3, <1>4, <2>1, WithUnlabelledSorting DEF s
  <2>3. u > Len(param.groups) => u \in DOMAIN s.at
    BY <1>1, <1>4, <1>6, <2>2 DEF ValuesType
  <2>4. Fitting(c, values, u, s) BY <1>4, <1>5, <2>3 DEF Fitting, Unlabelled
  <2>5. Sorting(Placed(c, u, s), values) BY <1>3, <1>4, <2>2, <2>4, PlacedSorting
  <2>6. DOMAIN s.at \subseteq DOMAIN Placed(c, u, s).at BY DEF Placed
  <2> QED BY <1>2, <2>2, <2>5, <2>6
<1>7. SortedInv' BY <1>1, <1>6, SortingPrimed DEF SortedInv
<1>8. ValuesType' BY <1>1, <1>6 DEF ValuesType
<1>9. ReadType' /\ OrdersInv' BY <1>1 DEF ReadType, OrdersInv
<1> QED BY <1>3, <1>7, <1>8, <1>9

\* A cargo order that fits no group opens one with its own listing.
LEMMA PlaceApartStep == ASSUME PoolInv, PlaceApart PROVE PoolInv'
<1> USE DEF PoolInv
<1> DEFINE c == locs[cur[1]][cur[2]]
           s == WithUnlabelled(c)
           u == Len(values) + 1
           x == cargo[c].listed
           vals == Append(values, x)
<1>1. /\ stage = "label" /\ stage' = "label" /\ cur[1] \in DOMAIN locs /\ cur' = Advanced
      /\ UNCHANGED <<cargo, param, next, locs, orders>>
      /\ values' = vals /\ sorted' = Placed(c, u, s)
  BY DEF PlaceApart
<1>2. c \in DOMAIN cargo /\ LocsType' BY <1>1, NextPlaced DEF LocsType, Members
<1>3. values \in Seq(Seq(Int)) /\ x \in Seq(Int) BY <1>1, <1>2 DEF ValuesType, ReadType
<1>4. /\ Len(values) \in Nat /\ vals \in Seq(Seq(Int)) /\ Len(vals) = Len(values) + 1
      /\ vals[u] = x /\ \A k \in DOMAIN values : vals[k] = values[k]
      /\ DOMAIN values = 1 .. Len(values) /\ DOMAIN vals = DOMAIN values \cup {u}
  BY <1>3
<1>5. LabelValues(c) = Range(vals[u]) BY <1>4 DEF LabelValues
<1> HIDE DEF c, s, vals, x
<1>6. ASSUME param.grouped
      PROVE  /\ Sorting(sorted', vals)
             /\ DOMAIN sorted.at \cup {u} \subseteq DOMAIN sorted'.at
  <2>1. Sorting(sorted, values) BY <1>1, <1>6 DEF SortedInv
  <2>2. Sorting(s, values) /\ DOMAIN sorted.at \subseteq DOMAIN s.at
    BY <1>2, <1>4, <2>1, WithUnlabelledSorting DEF s
  <2>3. Sorting(s, vals) BY <1>3, <2>2, AppendSorting DEF vals
  <2>4. Fitting(c, vals, u, s) BY <1>4, <1>5 DEF Fitting, Unlabelled
  <2>5. u \in 0 .. Len(vals) /\ Len(vals) \in Nat BY <1>4
  <2> HIDE DEF u
  <2>6. Sorting(Placed(c, u, s), vals) BY <1>2, <2>3, <2>4, <2>5, PlacedSorting
  <2>7. DOMAIN s.at \cup {u} \subseteq DOMAIN Placed(c, u, s).at BY DEF Placed
  <2> QED BY <1>1, <2>2, <2>6, <2>7
<1>7. SortedInv' BY <1>1, <1>6, SortingPrimed DEF SortedInv
<1>8. ValuesType'
  <2>1. Len(param.groups) <= Len(values) /\ \A k \in DOMAIN param.groups : values[k] = param.groups[k]
    BY <1>1 DEF ValuesType
  <2>2. param.groups \in Seq(Seq(Int)) BY DEF ReadType
  <2>3. DOMAIN param.groups \subseteq DOMAIN values BY <1>4, <2>1, <2>2
  <2>4. \A k \in DOMAIN param.groups : vals[k] = param.groups[k] BY <1>4, <2>1, <2>3
  <2>5. Len(param.groups) <= Len(vals) BY <1>4, <2>1, <2>2
  <2>6. ASSUME param.grouped, NEW k \in DOMAIN vals, k > Len(param.groups)
        PROVE  k \in DOMAIN sorted'.at
    BY <1>1, <1>4, <1>6, <2>6 DEF ValuesType
  <2> QED BY <1>1, <1>4, <2>4, <2>5, <2>6 DEF ValuesType
<1>9. ReadType' /\ OrdersInv' BY <1>1 DEF ReadType, OrdersInv
<1> QED BY <1>2, <1>7, <1>8, <1>9

\* The groups of one pair of ends become orders, and the orders the pool.
LEMMA LastSteps == ASSUME PoolInv, EndLabel \/ MergeOrders PROVE PoolInv'
<1> USE DEF PoolInv
<1>1. /\ UNCHANGED <<cargo, param, next, locs, cur, values, sorted>>
      /\ stage \in {"label", "merge"} /\ stage' \in {"merge", "done"}
  BY DEF EndLabel, MergeOrders
<1>2. ReadType' BY <1>1 DEF ReadType
<1>3. LocsType' BY <1>1 DEF LocsType, Members
<1>4. ValuesType' BY <1>1 DEF ValuesType
<1>5. SortedInv' BY <1>1, SortingPrimed DEF SortedInv
<1>6. OrdersInv'
  <2>1. CASE EndLabel BY <2>1 DEF OrdersInv, EndLabel
  <2>2. CASE MergeOrders
    <3>1. /\ orders' = [k \in DOMAIN sorted.groups |-> Order(k - 1, sorted.groups[k])]
          /\ stage' = "done" /\ sorted' = sorted
      BY <2>2 DEF MergeOrders
    <3>2. \A k \in DOMAIN sorted.groups : orders'[k].cargo = sorted.groups[k]
      BY <3>1 DEF Order
    <3> QED BY <3>1, <3>2 DEF OrdersInv
  <2> QED BY <2>1, <2>2
<1> QED BY <1>2, <1>3, <1>4, <1>5, <1>6

\* Every step of pdm_order_pool.cpp keeps what the sorting says.
THEOREM PoolStepInv == PoolInv /\ [PoolNext]_poolVars => PoolInv'
<1> SUFFICES ASSUME PoolInv, [PoolNext]_poolVars PROVE PoolInv' OBVIOUS
<1>1. ASSUME NEW r \in Readings, Read(r) PROVE PoolInv' BY <1>1, ReadStep
<1>2. CASE DropPool \/ StartPool BY <1>2, RestartStep
<1>3. CASE JoinGroup \/ NewGroup BY <1>3, LocStep
<1>4. CASE EndLoc BY <1>4, EndLocStep
<1>5. CASE PlaceInGroup BY <1>5, PlaceInGroupStep
<1>6. CASE PlaceApart BY <1>6, PlaceApartStep
<1>7. CASE EndLabel \/ MergeOrders BY <1>7, LastSteps
<1>8. CASE UNCHANGED poolVars
  <2>1. UNCHANGED <<cargo, param, stage, next, locs, cur, values, sorted, orders>>
    BY <1>8 DEF poolVars
  <2>2. ReadType' /\ ValuesType' /\ OrdersInv' BY <2>1 DEF PoolInv, ReadType, ValuesType, OrdersInv
  <2>3. LocsType' BY <2>1 DEF PoolInv, LocsType, Members
  <2>4. SortedInv' BY <2>1, SortingPrimed DEF PoolInv, SortedInv
  <2> QED BY <2>2, <2>3, <2>4 DEF PoolInv
<1> QED BY <1>1, <1>2, <1>3, <1>4, <1>5, <1>6, <1>7, <1>8 DEF PoolNext, BuildPool

\* The invariant tells what each order holds.
LEMMA PoolInvKeepsApart == PoolInv => OneGroupEach
<1> SUFFICES ASSUME PoolInv, stage = "done", param.grouped, NEW k \in DOMAIN orders
             PROVE  \/ \E u \in DOMAIN param.groups : \A j \in DOMAIN orders[k].cargo :
                         LabelValues(orders[k].cargo[j]) \subseteq Range(param.groups[u])
                    \/ \E i \in DOMAIN orders[k].cargo : \A j \in DOMAIN orders[k].cargo :
                         LabelValues(orders[k].cargo[j]) \subseteq LabelValues(orders[k].cargo[i])
  BY DEF OneGroupEach
<1> DEFINE g == sorted.groups[k]
<1>1. orders[k].cargo = g /\ k \in DOMAIN sorted.groups BY DEF PoolInv, OrdersInv
<1>2. Sorting(sorted, values) BY DEF PoolInv, SortedInv
<1>3. PICK key \in DOMAIN sorted.at : sorted.at[key] = k BY <1>1, <1>2 DEF Sorting, Shape
<1>4. Good(sorted, values, key) /\ key \in 0 .. Len(values) BY <1>2, <1>3 DEF Sorting, Shape
<1>5. g \in Members BY <1>1, <1>2 DEF Sorting, Shape
<1>6. 1 \in DOMAIN g
  <2>1. g \in Seq(DOMAIN cargo) /\ g # <<>> BY <1>5 DEF Members
  <2> HIDE DEF g
  <2> QED BY <2>1, EmptySeq
<1>7. CASE key = Unlabelled
  <2>1. \A j \in DOMAIN g : LabelValues(g[j]) = {} BY <1>3, <1>4, <1>7 DEF Good
  <2> HIDE DEF g
  <2> QED BY <1>1, <1>6, <2>1
<1>8. CASE key # Unlabelled
  <2>1. \A j \in DOMAIN g : LabelValues(g[j]) \subseteq Range(values[key])
    BY <1>3, <1>4, <1>8 DEF Good
  <2>2. CASE key > Len(param.groups)
    <3>1. PICK i \in DOMAIN g : LabelValues(g[i]) = Range(values[key])
      BY <1>3, <1>4, <1>8, <2>2 DEF Good
    <3> HIDE DEF g
    <3> QED BY <1>1, <2>1, <3>1
  <2>3. CASE ~ key > Len(param.groups)
    <3>1. param.groups \in Seq(Seq(Int)) /\ values \in Seq(Seq(Int)) BY DEF PoolInv, ReadType, ValuesType
    <3>2. key \in DOMAIN param.groups BY <1>4, <1>8, <2>3, <3>1 DEF Unlabelled
    <3>3. values[key] = param.groups[key] BY <3>2 DEF PoolInv, ValuesType
    <3> HIDE DEF g
    <3> QED BY <1>1, <2>1, <3>2, <3>3
  <2> QED BY <2>2, <2>3
<1> QED BY <1>7, <1>8

\* Whatever the listings of the value sets, an order mixes no groups of the rule
\* (pdm_order_pool.cpp, cargo_orders_group_by_label).
THEOREM PoolKeepsApart == PoolSpec => []OneGroupEach
<1>1. PoolSpec => []PoolInv BY PoolInitInv, PoolStepInv, PTL DEF PoolSpec
<1> QED BY <1>1, PoolInvKeepsApart, PTL

----------------------------------------------------------------------------
(* What the pool covers *)

\* Every cargo order met so far is in one group of ends, at one place.
LocsCover ==
  stage \in {"loc", "label", "merge", "done"} =>
    /\ next <= Len(cargo) + 1
    /\ stage # "loc" => next = Len(cargo) + 1
    /\ \A c \in 1 .. next - 1 : \E g \in DOMAIN locs : \E i \in DOMAIN locs[g] : locs[g][i] = c
    /\ \A g \in DOMAIN locs : \A i \in DOMAIN locs[g] :
         locs[g][i] < next /\ Ends(locs[g][i]) = Ends(locs[g][1])
    /\ \A g, h \in DOMAIN locs : Ends(locs[g][1]) = Ends(locs[h][1]) => g = h
    /\ \A g \in DOMAIN locs : \A i, j \in DOMAIN locs[g] : locs[g][i] = locs[g][j] => i = j

\* The places before the next one to be sorted by label.
Before(g, i) == g < cur[1] \/ (g = cur[1] /\ i < cur[2])

\* A cargo order is in two groups only if it has no value.
Apart(s) ==
  \A p, q \in DOMAIN s.groups : \A i \in DOMAIN s.groups[p], j \in DOMAIN s.groups[q] :
    s.groups[p][i] = s.groups[q][j] =>
      IF p = q THEN i = j ELSE ~ Labelled(s.groups[p][i])

\* c is in one of the groups.
Sorted(s, c) == \E p \in DOMAIN s.groups : \E i \in DOMAIN s.groups[p] : s.groups[p][i] = c

\* The cargo orders sorted are those of the places before.
SortedCover ==
  /\ stage = "label" => param.grouped
  /\ stage \in {"label", "merge", "done"} =>
       IF param.grouped
       THEN /\ Apart(sorted)
            /\ \A g \in DOMAIN locs : \A i \in DOMAIN locs[g] :
                 stage = "label" => (Before(g, i) <=> Sorted(sorted, locs[g][i]))
            /\ stage # "label" => \A c \in DOMAIN cargo : Sorted(sorted, c)
       ELSE sorted.groups = locs

CoverInv == LocsCover /\ SortedCover

\* Placing a cargo order adds one place, at the end of its key's group.
LEMMA PlacedPlaces ==
  ASSUME NEW s, NEW vals, NEW c \in DOMAIN cargo, NEW key, Shape(s, vals)
  PROVE  LET t == Placed(c, key, s)
         IN  /\ DOMAIN s.groups \subseteq DOMAIN t.groups
             /\ \A p \in DOMAIN s.groups : \A i \in DOMAIN s.groups[p] :
                  i \in DOMAIN t.groups[p] /\ t.groups[p][i] = s.groups[p][i]
             /\ \E n \in DOMAIN t.groups : \E m \in DOMAIN t.groups[n] :
                  /\ n = t.at[key] /\ t.groups[n][m] = c
                  /\ n \in DOMAIN s.groups => m \notin DOMAIN s.groups[n] /\ key \in DOMAIN s.at
                  /\ \A p \in DOMAIN t.groups : \A i \in DOMAIN t.groups[p] :
                       \/ p = n /\ i = m
                       \/ p \in DOMAIN s.groups /\ i \in DOMAIN s.groups[p]
             /\ \A k \in DOMAIN s.at : t.at[k] = s.at[k]
<1> DEFINE t == Placed(c, key, s)
<1>1. /\ s.groups \in Seq(Members) /\ s.at \in [DOMAIN s.at -> DOMAIN s.groups]
      /\ \A p \in DOMAIN s.groups : s.groups[p] \in Seq(DOMAIN cargo)
  <2>1. s.groups \in Seq(Members) /\ s.at \in [DOMAIN s.at -> DOMAIN s.groups] BY DEF Shape
  <2> QED BY <2>1 DEF Members
<1>2. CASE key \in DOMAIN s.at
  <2> DEFINE n == s.at[key]
             g == s.groups[n]
             m == Len(g) + 1
  <2>1. n \in DOMAIN s.groups /\ g \in Seq(DOMAIN cargo) BY <1>1, <1>2
  <2>2. t = [at |-> s.at, groups |-> [s.groups EXCEPT ![n] = Append(g, c)]]
    BY <1>2 DEF Placed
  <2>3. /\ DOMAIN t.groups = DOMAIN s.groups /\ t.at = s.at /\ t.groups[n] = Append(g, c)
        /\ \A p \in DOMAIN s.groups : p # n => t.groups[p] = s.groups[p]
    BY <2>1, <2>2
  <2>4. /\ DOMAIN t.groups[n] = DOMAIN g \cup {m} /\ t.groups[n][m] = c
        /\ m \notin DOMAIN g /\ \A j \in DOMAIN g : t.groups[n][j] = g[j]
    BY <2>1, <2>3, AppendElements
  <2> HIDE DEF t, n, m
  <2>5. \A p \in DOMAIN s.groups : \A i \in DOMAIN s.groups[p] :
          i \in DOMAIN t.groups[p] /\ t.groups[p][i] = s.groups[p][i]
    BY <2>3, <2>4
  <2>6. \A p \in DOMAIN t.groups : \A i \in DOMAIN t.groups[p] :
          (p = n /\ i = m) \/ (p \in DOMAIN s.groups /\ i \in DOMAIN s.groups[p])
    BY <2>3, <2>4
  <2>7. n = t.at[key] BY <2>3 DEF n
  <2> QED BY <1>2, <2>1, <2>3, <2>4, <2>5, <2>6, <2>7 DEF t
<1>3. CASE key \notin DOMAIN s.at
  <2> DEFINE n == Len(s.groups) + 1
  <2>1. t = [at |-> [k \in DOMAIN s.at \cup {key} |-> IF k = key THEN n ELSE s.at[k]],
             groups |-> Append(s.groups, <<c>>)]
    BY <1>3 DEF Placed
  <2>2. <<c>> \in Members BY DEF Members
  <2>3. /\ DOMAIN t.groups = DOMAIN s.groups \cup {n} /\ t.groups[n] = <<c>>
        /\ n \notin DOMAIN s.groups /\ \A p \in DOMAIN s.groups : t.groups[p] = s.groups[p]
    BY <1>1, <2>1, <2>2, AppendElements
  <2>4. t.at[key] = n /\ \A k \in DOMAIN s.at : t.at[k] = s.at[k] BY <1>3, <2>1
  <2> HIDE DEF t, n
  <2>5. DOMAIN t.groups[n] = {1} /\ t.groups[n][1] = c BY <2>3
  <2> QED BY <2>3, <2>4, <2>5 DEF t
<1> QED BY <1>2, <1>3

\* A cargo order is placed a second time only if it has no value, in another group.
LEMMA PlacedApart ==
  ASSUME NEW s, NEW vals, NEW c \in DOMAIN cargo, NEW key, Shape(s, vals), Apart(s),
         \A p \in DOMAIN s.groups : \A i \in DOMAIN s.groups[p] :
           s.groups[p][i] = c => ~ Labelled(c) /\ (key \in DOMAIN s.at => p # s.at[key])
  PROVE  /\ Apart(Placed(c, key, s))
         /\ \A d : Sorted(Placed(c, key, s), d) <=> Sorted(s, d) \/ d = c
<1> DEFINE t == Placed(c, key, s)
<1>1. /\ DOMAIN s.groups \subseteq DOMAIN t.groups
      /\ \A p \in DOMAIN s.groups : \A i \in DOMAIN s.groups[p] :
           i \in DOMAIN t.groups[p] /\ t.groups[p][i] = s.groups[p][i]
      /\ \A k \in DOMAIN s.at : t.at[k] = s.at[k]
  BY PlacedPlaces
<1>2. PICK n \in DOMAIN t.groups : \E m \in DOMAIN t.groups[n] :
        /\ n = t.at[key] /\ t.groups[n][m] = c
        /\ n \in DOMAIN s.groups => m \notin DOMAIN s.groups[n] /\ key \in DOMAIN s.at
        /\ \A p \in DOMAIN t.groups : \A i \in DOMAIN t.groups[p] :
             \/ p = n /\ i = m
             \/ p \in DOMAIN s.groups /\ i \in DOMAIN s.groups[p]
  BY PlacedPlaces
<1>3. PICK m \in DOMAIN t.groups[n] :
        /\ n = t.at[key] /\ t.groups[n][m] = c
        /\ n \in DOMAIN s.groups => m \notin DOMAIN s.groups[n] /\ key \in DOMAIN s.at
        /\ \A p \in DOMAIN t.groups : \A i \in DOMAIN t.groups[p] :
             \/ p = n /\ i = m
             \/ p \in DOMAIN s.groups /\ i \in DOMAIN s.groups[p]
  BY <1>2
<1> HIDE DEF t
<1>4. ASSUME NEW p \in DOMAIN s.groups, NEW i \in DOMAIN s.groups[p], s.groups[p][i] = c
      PROVE  p # n /\ ~ Labelled(c)
  BY <1>1, <1>3, <1>4
<1>5. Apart(t)
  <2> SUFFICES ASSUME NEW p \in DOMAIN t.groups, NEW q \in DOMAIN t.groups,
                      NEW i \in DOMAIN t.groups[p], NEW j \in DOMAIN t.groups[q],
                      t.groups[p][i] = t.groups[q][j]
               PROVE  IF p = q THEN i = j ELSE ~ Labelled(t.groups[p][i])
    BY DEF Apart
  <2>1. CASE p = n /\ i = m /\ q = n /\ j = m BY <2>1
  <2>2. CASE p = n /\ i = m /\ q \in DOMAIN s.groups /\ j \in DOMAIN s.groups[q]
    <3>1. s.groups[q][j] = c BY <1>1, <1>3, <2>2
    <3> QED BY <1>3, <1>4, <2>2, <3>1
  <2>3. CASE q = n /\ j = m /\ p \in DOMAIN s.groups /\ i \in DOMAIN s.groups[p]
    <3>1. s.groups[p][i] = c /\ t.groups[p][i] = c BY <1>1, <1>3, <2>3
    <3> QED BY <1>4, <2>3, <3>1
  <2>4. CASE /\ p \in DOMAIN s.groups /\ i \in DOMAIN s.groups[p]
             /\ q \in DOMAIN s.groups /\ j \in DOMAIN s.groups[q]
    BY <1>1, <2>4 DEF Apart
  <2> QED BY <1>3, <2>1, <2>2, <2>3, <2>4
<1>6. ASSUME NEW d PROVE Sorted(t, d) <=> Sorted(s, d) \/ d = c
  <2>1. ASSUME Sorted(s, d) PROVE Sorted(t, d) BY <1>1, <2>1 DEF Sorted
  <2>2. Sorted(t, c) BY <1>3 DEF Sorted
  <2>3. ASSUME Sorted(t, d) PROVE Sorted(s, d) \/ d = c BY <1>1, <1>3, <2>3 DEF Sorted
  <2> QED BY <2>1, <2>2, <2>3
<1> QED BY <1>5, <1>6 DEF t

\* One turn of cargo_orders_group_by_label, the fall through included: the cargo
\* order joins the unlabelled group and another one, or only another one.
LEMMA PlacedBoth ==
  ASSUME ReadType, NEW vals, Len(vals) \in Nat, NEW c \in DOMAIN cargo, NEW key \in 1 .. Len(vals),
         Shape(sorted, vals), Apart(sorted), ~ Sorted(sorted, c)
  PROVE  /\ Apart(Placed(c, key, WithUnlabelled(c)))
         /\ \A d : Sorted(Placed(c, key, WithUnlabelled(c)), d) <=> Sorted(sorted, d) \/ d = c
<1>1. CASE Labelled(c)
  <2>1. \A p \in DOMAIN sorted.groups : \A i \in DOMAIN sorted.groups[p] : sorted.groups[p][i] # c
    BY DEF Sorted
  <2> QED BY <1>1, <2>1, PlacedApart DEF WithUnlabelled
<1>2. CASE ~ Labelled(c)
  <2> DEFINE s == Placed(c, Unlabelled, sorted)
  <2>1. \A p \in DOMAIN sorted.groups : \A i \in DOMAIN sorted.groups[p] : sorted.groups[p][i] # c
    BY DEF Sorted
  <2>2. Apart(s) /\ \A d : Sorted(s, d) <=> Sorted(sorted, d) \/ d = c
    BY <2>1, PlacedApart
  <2>3. Unlabelled \in 0 .. Len(vals) BY DEF Unlabelled
  <2>4. Shape(s, vals) BY <2>3, PlacedShape
  <2>5. /\ \A p \in DOMAIN sorted.groups : \A i \in DOMAIN sorted.groups[p] :
             i \in DOMAIN s.groups[p] /\ s.groups[p][i] = sorted.groups[p][i]
        /\ \E n \in DOMAIN s.groups : \E m \in DOMAIN s.groups[n] :
             /\ n = s.at[Unlabelled]
             /\ \A p \in DOMAIN s.groups : \A i \in DOMAIN s.groups[p] :
                  \/ p = n /\ i = m
                  \/ p \in DOMAIN sorted.groups /\ i \in DOMAIN sorted.groups[p]
    BY PlacedPlaces
  <2>6. Unlabelled \in DOMAIN s.at BY DEF Placed
  <2> HIDE DEF s
  <2>7. ASSUME NEW p \in DOMAIN s.groups, NEW i \in DOMAIN s.groups[p], s.groups[p][i] = c
        PROVE  p = s.at[Unlabelled]
    BY <2>1, <2>5, <2>7
  <2>8. key \in DOMAIN s.at => s.at[key] # s.at[Unlabelled]
    BY <2>4, <2>6 DEF Shape, Unlabelled
  <2>9. \A p \in DOMAIN s.groups : \A i \in DOMAIN s.groups[p] :
          s.groups[p][i] = c => ~ Labelled(c) /\ (key \in DOMAIN s.at => p # s.at[key])
    BY <1>2, <2>7, <2>8
  <2>10. /\ Apart(Placed(c, key, s))
         /\ \A d : Sorted(Placed(c, key, s), d) <=> Sorted(s, d) \/ d = c
    BY <2>2, <2>4, <2>9, PlacedApart
  <2>11. WithUnlabelled(c) = s BY <1>2 DEF WithUnlabelled, s
  <2> QED BY <2>2, <2>10, <2>11
<1> QED BY <1>1, <1>2

\* A place of locs is that of one cargo order.
LEMMA LocsOnce ==
  ASSUME LocsCover, stage \in {"loc", "label", "merge", "done"},
         NEW g \in DOMAIN locs, NEW h \in DOMAIN locs,
         NEW i \in DOMAIN locs[g], NEW j \in DOMAIN locs[h], locs[g][i] = locs[h][j]
  PROVE  g = h /\ i = j
<1>1. Ends(locs[g][1]) = Ends(locs[h][1]) BY DEF LocsCover
<1>2. g = h BY <1>1 DEF LocsCover
<1> QED BY <1>2 DEF LocsCover

\* Sorting by the ends.
LEMMA LocCoverStep == ASSUME PoolInv, CoverInv, JoinGroup \/ NewGroup PROVE CoverInv'
<1>1. /\ stage = "loc" /\ stage' = "loc" /\ cargo' = cargo /\ next' = next + 1
      /\ next \in DOMAIN cargo /\ next <= Len(cargo) /\ next \in Nat \ {0} /\ Len(cargo) \in Nat
  BY DEF JoinGroup, NewGroup, PoolInv, ReadType, LocsType
<1>2. SortedCover' BY <1>1 DEF SortedCover
<1>3. \A g \in DOMAIN locs : locs[g] \in Seq(DOMAIN cargo) /\ locs[g] # <<>> /\ 1 \in DOMAIN locs[g]
  <2> SUFFICES ASSUME NEW g \in DOMAIN locs
               PROVE  locs[g] \in Seq(DOMAIN cargo) /\ locs[g] # <<>> /\ 1 \in DOMAIN locs[g]
    OBVIOUS
  <2>1. locs[g] \in Seq(DOMAIN cargo) /\ locs[g] # <<>> BY DEF PoolInv, LocsType, Members
  <2> QED BY <2>1, EmptySeq
<1>4. locs \in Seq(Members) BY DEF PoolInv, LocsType
<1>5. /\ \A c \in 1 .. next - 1 : \E g \in DOMAIN locs : \E i \in DOMAIN locs[g] : locs[g][i] = c
      /\ \A g \in DOMAIN locs : \A i \in DOMAIN locs[g] :
           locs[g][i] < next /\ Ends(locs[g][i]) = Ends(locs[g][1])
      /\ \A g, h \in DOMAIN locs : Ends(locs[g][1]) = Ends(locs[h][1]) => g = h
      /\ \A g \in DOMAIN locs : \A i, j \in DOMAIN locs[g] : locs[g][i] = locs[g][j] => i = j
  BY <1>1 DEF CoverInv, LocsCover
<1>6. \A c : Ends(c)' = Ends(c) BY <1>1 DEF Ends
<1>7. CASE JoinGroup
  <2>1. PICK g \in DOMAIN locs : SharesEnds(next, g) /\ locs' = [locs EXCEPT ![g] = Append(@, next)]
    BY <1>7 DEF JoinGroup
  <2> DEFINE m == Len(locs[g]) + 1
  <2>2. /\ DOMAIN locs' = DOMAIN locs /\ \A h \in DOMAIN locs : h # g => locs'[h] = locs[h]
        /\ locs'[g] = Append(locs[g], next)
    BY <1>4, <2>1
  <2>3. /\ DOMAIN locs'[g] = DOMAIN locs[g] \cup {m} /\ locs'[g][m] = next
        /\ \A j \in DOMAIN locs[g] : locs'[g][j] = locs[g][j] /\ j # m
    BY <1>1, <1>3, <2>1, <2>2, AppendElements
  <2> HIDE DEF m
  <2>4. \A h \in DOMAIN locs : \A j \in DOMAIN locs[h] : j \in DOMAIN locs'[h] /\ locs'[h][j] = locs[h][j]
    BY <2>2, <2>3
  <2>5. \A h \in DOMAIN locs' : \A j \in DOMAIN locs'[h] :
          (h = g /\ j = m /\ locs'[h][j] = next) \/ (j \in DOMAIN locs[h] /\ locs'[h][j] = locs[h][j])
    BY <2>2, <2>3
  <2>6. \A h \in DOMAIN locs : locs'[h][1] = locs[h][1] BY <1>3, <2>4
  <2>7. Ends(next) = Ends(locs[g][1]) BY <2>1 DEF SharesEnds
  <2>8. \A h \in DOMAIN locs' : \A j \in DOMAIN locs'[h] :
          locs'[h][j] < next + 1 /\ Ends(locs'[h][j]) = Ends(locs'[h][1])
    <3> SUFFICES ASSUME NEW h \in DOMAIN locs', NEW j \in DOMAIN locs'[h]
                 PROVE  locs'[h][j] < next + 1 /\ Ends(locs'[h][j]) = Ends(locs'[h][1])
      OBVIOUS
    <3>1. CASE h = g /\ j = m /\ locs'[h][j] = next BY <1>1, <2>1, <2>6, <2>7, <3>1
    <3>2. CASE j \in DOMAIN locs[h] /\ locs'[h][j] = locs[h][j]
      <4>1. locs[h][j] \in DOMAIN cargo BY <1>3, <2>2, <3>2
      <4>2. locs[h][j] \in Nat BY <4>1 DEF PoolInv, ReadType
      <4>3. locs[h][j] < next BY <1>5, <2>2, <3>2
      <4> QED BY <1>1, <1>5, <2>2, <2>6, <3>2, <4>2, <4>3
    <3> QED BY <2>5, <3>1, <3>2
  <2>9. \A c \in 1 .. next : \E h \in DOMAIN locs' : \E j \in DOMAIN locs'[h] : locs'[h][j] = c
    <3> SUFFICES ASSUME NEW c \in 1 .. next
                 PROVE  \E h \in DOMAIN locs' : \E j \in DOMAIN locs'[h] : locs'[h][j] = c
      OBVIOUS
    <3>1. CASE c = next BY <2>1, <2>2, <2>3, <3>1
    <3>2. CASE c \in 1 .. next - 1 BY <1>5, <2>2, <2>4, <3>2
    <3> QED BY <1>1, <3>1, <3>2
  <2>10. \A h, l \in DOMAIN locs' : Ends(locs'[h][1]) = Ends(locs'[l][1]) => h = l
    BY <1>5, <2>2, <2>6
  <2>11. \A h \in DOMAIN locs' : \A i, j \in DOMAIN locs'[h] : locs'[h][i] = locs'[h][j] => i = j
    <3>1. \A h \in DOMAIN locs : \A i \in DOMAIN locs[h] : locs[h][i] # next
      <4> SUFFICES ASSUME NEW h \in DOMAIN locs, NEW i \in DOMAIN locs[h] PROVE locs[h][i] # next OBVIOUS
      <4>1. locs[h][i] < next BY <1>5
      <4> QED BY <1>1, <4>1
    <3> QED BY <1>5, <2>2, <2>5, <3>1
  <2>12. (next + 1) - 1 = next /\ next + 1 <= Len(cargo) + 1 BY <1>1
  <2> QED BY <1>1, <1>2, <1>6, <2>8, <2>9, <2>10, <2>11, <2>12 DEF CoverInv, LocsCover
<1>8. CASE NewGroup
  <2> DEFINE n == Len(locs) + 1
  <2>1. locs' = Append(locs, <<next>>) /\ \A g \in DOMAIN locs : ~ SharesEnds(next, g)
    BY <1>8 DEF NewGroup
  <2>2. <<next>> \in Members BY <1>1 DEF Members
  <2>3. /\ DOMAIN locs' = DOMAIN locs \cup {n} /\ locs'[n] = <<next>>
        /\ \A h \in DOMAIN locs : locs'[h] = locs[h] /\ h # n
    BY <1>4, <2>1, <2>2, AppendElements
  <2> HIDE DEF n
  <2>4. DOMAIN locs'[n] = {1} /\ locs'[n][1] = next BY <2>3
  <2>5. \A h \in DOMAIN locs' : \A j \in DOMAIN locs'[h] :
          locs'[h][j] < next + 1 /\ Ends(locs'[h][j]) = Ends(locs'[h][1])
    <3> SUFFICES ASSUME NEW h \in DOMAIN locs', NEW j \in DOMAIN locs'[h]
                 PROVE  locs'[h][j] < next + 1 /\ Ends(locs'[h][j]) = Ends(locs'[h][1])
      OBVIOUS
    <3>1. CASE h = n BY <1>1, <2>4, <3>1
    <3>2. CASE h \in DOMAIN locs
      <4>1. locs[h][j] \in DOMAIN cargo BY <1>3, <2>3, <3>2
      <4>2. locs[h][j] \in Nat BY <4>1 DEF PoolInv, ReadType
      <4>3. locs[h][j] < next /\ Ends(locs[h][j]) = Ends(locs[h][1]) BY <1>5, <2>3, <3>2
      <4> QED BY <1>1, <2>3, <3>2, <4>2, <4>3
    <3> QED BY <2>3, <3>1, <3>2
  <2>6. \A c \in 1 .. next : \E h \in DOMAIN locs' : \E j \in DOMAIN locs'[h] : locs'[h][j] = c
    <3> SUFFICES ASSUME NEW c \in 1 .. next
                 PROVE  \E h \in DOMAIN locs' : \E j \in DOMAIN locs'[h] : locs'[h][j] = c
      OBVIOUS
    <3>1. CASE c = next BY <2>3, <2>4, <3>1
    <3>2. CASE c \in 1 .. next - 1
      <4>1. PICK h \in DOMAIN locs : \E j \in DOMAIN locs[h] : locs[h][j] = c BY <1>5, <3>2
      <4> QED BY <2>3, <4>1
    <3> QED BY <1>1, <3>1, <3>2
  <2>7. \A h \in DOMAIN locs : Ends(locs[h][1]) # Ends(next) BY <2>1 DEF SharesEnds
  <2>8. \A h, l \in DOMAIN locs' : Ends(locs'[h][1]) = Ends(locs'[l][1]) => h = l
    BY <1>5, <2>3, <2>4, <2>7
  <2>9. \A h \in DOMAIN locs' : \A i, j \in DOMAIN locs'[h] : locs'[h][i] = locs'[h][j] => i = j
    BY <1>5, <2>3, <2>4
  <2>10. (next + 1) - 1 = next /\ next + 1 <= Len(cargo) + 1 BY <1>1
  <2> QED BY <1>1, <1>2, <1>6, <2>5, <2>6, <2>8, <2>9, <2>10 DEF CoverInv, LocsCover
<1> QED BY <1>7, <1>8

\* Whether a cargo order has a value does not change.
LEMMA ApartPrimed == ASSUME cargo' = cargo PROVE Apart(sorted)' <=> Apart(sorted')
BY DEF Apart, Labelled

\* The groups of ends are handed to the sorting by labels.
LEMMA EndLocCoverStep == ASSUME PoolInv, CoverInv, EndLoc PROVE CoverInv'
<1>1. /\ stage = "loc" /\ UNCHANGED <<cargo, param, next, locs>> /\ cur' = <<1, 1>>
      /\ next \in Nat \ {0} /\ Len(cargo) \in Nat /\ next > Len(cargo)
      /\ IF param.grouped THEN stage' = "label" /\ sorted' = NothingSorted
         ELSE stage' = "merge" /\ sorted' = [at |-> <<>>, groups |-> locs]
  BY DEF EndLoc, PoolInv, ReadType, LocsType
<1>2. next <= Len(cargo) + 1 BY <1>1 DEF CoverInv, LocsCover
<1>3. LocsCover'
  <2>1. next = Len(cargo) + 1 BY <1>1, <1>2
  <2> QED BY <1>1, <2>1 DEF CoverInv, LocsCover, Ends
<1>4. SortedCover'
  <2>1. CASE param.grouped
    <3>1. Apart(sorted') BY <1>1, <2>1 DEF Apart, NothingSorted
    <3>2. \A c : ~ Sorted(sorted', c) BY <1>1, <2>1 DEF Sorted, NothingSorted
    <3>3. \A g \in DOMAIN locs : \A i \in DOMAIN locs[g] : ~ Before(g, i)'
      <4> SUFFICES ASSUME NEW g \in DOMAIN locs, NEW i \in DOMAIN locs[g] PROVE ~ Before(g, i)'
        OBVIOUS
      <4>1. locs \in Seq(Members) BY DEF PoolInv, LocsType
      <4>2. locs[g] \in Seq(DOMAIN cargo) BY <4>1 DEF Members
      <4>3. g \in Nat \ {0} /\ i \in Nat \ {0} BY <4>1, <4>2
      <4> QED BY <1>1, <4>3 DEF Before
    <3>4. Apart(sorted)' BY <1>1, <3>1, ApartPrimed
    <3>5. stage' = "label" /\ param'.grouped /\ locs' = locs BY <1>1, <2>1
    <3>6. \A c : ~ Sorted(sorted, c)' BY <3>2 DEF Sorted
    <3> QED BY <3>3, <3>4, <3>5, <3>6 DEF SortedCover
  <2>2. CASE ~ param.grouped BY <1>1, <2>2 DEF SortedCover
  <2> QED BY <2>1, <2>2
<1> QED BY <1>3, <1>4 DEF CoverInv

\* The order of places.
LEMMA PlaceOrder ==
  ASSUME NEW g \in Nat, NEW i \in Nat \ {0}, NEW a \in Nat, NEW b \in Nat
  PROVE  /\ g < a \/ (g = a /\ i < b + 1) <=> (g < a \/ (g = a /\ i < b)) \/ (g = a /\ i = b)
         /\ (g = a => i <= b) =>
              (g < a + 1 \/ (g = a + 1 /\ i < 1) <=> (g < a \/ (g = a /\ i < b)) \/ (g = a /\ i = b))
OBVIOUS

\* The places before the next one are those before, and this one.
LEMMA BeforeAdvanced ==
  ASSUME PoolInv, stage = "label", cur[1] \in DOMAIN locs, cur' = Advanced,
         NEW g \in DOMAIN locs, NEW i \in DOMAIN locs[g]
  PROVE  Before(g, i)' <=> Before(g, i) \/ (g = cur[1] /\ i = cur[2])
<1>1. /\ cur[1] \in Nat \ {0} /\ cur[2] \in Nat \ {0} /\ cur[2] <= Len(locs[cur[1]])
      /\ locs \in Seq(Members)
  BY DEF PoolInv, LocsType
<1>2. \A h \in DOMAIN locs : locs[h] \in Seq(DOMAIN cargo) BY <1>1 DEF Members
<1>3. /\ g \in Nat /\ i \in Nat \ {0} /\ i <= Len(locs[g])
      /\ Len(locs[g]) \in Nat /\ Len(locs[cur[1]]) \in Nat
  <2>1. locs[g] \in Seq(DOMAIN cargo) /\ locs[cur[1]] \in Seq(DOMAIN cargo) BY <1>2
  <2> QED BY <1>1, <2>1
<1>4. CASE cur[2] < Len(locs[cur[1]])
  <2>1. cur'[1] = cur[1] /\ cur'[2] = cur[2] + 1 BY <1>4 DEF Advanced
  <2>2. Before(g, i)' <=> g < cur[1] \/ (g = cur[1] /\ i < cur[2] + 1) BY <2>1 DEF Before
  <2> QED BY <1>1, <1>3, <2>2, PlaceOrder DEF Before
<1>5. CASE ~ cur[2] < Len(locs[cur[1]])
  <2>1. cur'[1] = cur[1] + 1 /\ cur'[2] = 1 BY <1>5 DEF Advanced
  <2>2. cur[2] = Len(locs[cur[1]]) BY <1>1, <1>3, <1>5
  <2>3. g = cur[1] => i <= cur[2] BY <1>3, <2>2
  <2>4. Before(g, i)' <=> g < cur[1] + 1 \/ (g = cur[1] + 1 /\ i < 1) BY <2>1 DEF Before
  <2> QED BY <1>1, <1>3, <2>3, <2>4, PlaceOrder DEF Before
<1> QED BY <1>4, <1>5

\* The cargo order at the next place has not been sorted, and then is.
LEMMA PlaceCover ==
  ASSUME PoolInv, CoverInv, stage = "label", stage' = "label", cur[1] \in DOMAIN locs,
         cur' = Advanced, UNCHANGED <<cargo, param, next, locs>>,
         NEW vals, Len(vals) \in Nat, NEW key \in 1 .. Len(vals), Shape(sorted, vals),
         sorted' = Placed(locs[cur[1]][cur[2]], key, WithUnlabelled(locs[cur[1]][cur[2]]))
  PROVE  CoverInv'
<1> DEFINE c == locs[cur[1]][cur[2]]
<1>1. /\ param.grouped /\ Apart(sorted)
      /\ \A g \in DOMAIN locs : \A i \in DOMAIN locs[g] : Before(g, i) <=> Sorted(sorted, locs[g][i])
  BY DEF CoverInv, SortedCover
<1>2. /\ cur[1] \in Nat \ {0} /\ cur[2] \in Nat \ {0} /\ cur[2] <= Len(locs[cur[1]])
      /\ locs \in Seq(Members)
  BY DEF PoolInv, LocsType
<1>3. cur[2] \in DOMAIN locs[cur[1]]
  <2>1. locs[cur[1]] \in Seq(DOMAIN cargo) BY <1>2 DEF Members
  <2> QED BY <1>2, <2>1
<1>4. c \in DOMAIN cargo /\ ReadType BY NextPlaced DEF PoolInv
<1>5. ~ Before(cur[1], cur[2]) BY <1>2 DEF Before
<1>6. ~ Sorted(sorted, c) BY <1>1, <1>3, <1>5
<1>7. /\ Apart(sorted')
      /\ \A d : Sorted(sorted', d) <=> Sorted(sorted, d) \/ d = c
  BY <1>1, <1>4, <1>6, PlacedBoth
<1>8. ASSUME NEW g \in DOMAIN locs, NEW i \in DOMAIN locs[g]
      PROVE  Before(g, i)' <=> Sorted(sorted', locs[g][i])
  <2>1. locs[g][i] = c <=> g = cur[1] /\ i = cur[2] BY <1>3, LocsOnce DEF CoverInv
  <2>2. Before(g, i) <=> Sorted(sorted, locs[g][i]) BY <1>1
  <2>3. Sorted(sorted', locs[g][i]) <=> Sorted(sorted, locs[g][i]) \/ locs[g][i] = c BY <1>7
  <2>4. Before(g, i)' <=> Before(g, i) \/ (g = cur[1] /\ i = cur[2]) BY BeforeAdvanced
  <2> QED BY <2>1, <2>2, <2>3, <2>4
<1>9. LocsCover' BY DEF CoverInv, LocsCover, Ends
<1>10. Apart(sorted)' BY <1>7, ApartPrimed
<1>11. \A d : Sorted(sorted, d)' <=> Sorted(sorted', d) BY DEF Sorted
<1> HIDE DEF c
<1>12. SortedCover' BY <1>1, <1>8, <1>10, <1>11 DEF SortedCover
<1> QED BY <1>9, <1>12 DEF CoverInv

\* Both turns place the cargo order under a key of the values there are then.
LEMMA LabelCoverStep == ASSUME PoolInv, CoverInv, PlaceInGroup \/ PlaceApart PROVE CoverInv'
<1> DEFINE c == locs[cur[1]][cur[2]]
<1>1. stage = "label" /\ param.grouped BY DEF CoverInv, SortedCover, PlaceInGroup, PlaceApart
<1>2. values \in Seq(Seq(Int)) /\ Shape(sorted, values)
  BY <1>1 DEF PoolInv, ValuesType, SortedInv, Sorting
<1>3. CASE PlaceInGroup
  <2>1. PICK u \in Fits(c) : sorted' = Placed(c, u, WithUnlabelled(c)) BY <1>3 DEF PlaceInGroup
  <2>2. u \in 1 .. Len(values) /\ Len(values) \in Nat BY <1>2, <2>1 DEF Fits
  <2>3. /\ stage' = "label" /\ cur[1] \in DOMAIN locs /\ cur' = Advanced
        /\ UNCHANGED <<cargo, param, next, locs>>
    BY <1>1, <1>3 DEF PlaceInGroup
  <2> QED BY <1>1, <1>2, <2>1, <2>2, <2>3, PlaceCover
<1>4. CASE PlaceApart
  <2> DEFINE x == cargo[c].listed
             vals == Append(values, x)
             u == Len(values) + 1
  <2>1. /\ stage' = "label" /\ cur[1] \in DOMAIN locs /\ cur' = Advanced
        /\ UNCHANGED <<cargo, param, next, locs>>
        /\ sorted' = Placed(c, u, WithUnlabelled(c))
    BY <1>1, <1>4 DEF PlaceApart
  <2>2. c \in DOMAIN cargo BY <1>1, <2>1, NextPlaced DEF PoolInv
  <2>3. x \in Seq(Int) BY <2>2 DEF PoolInv, ReadType
  <2>4. Sorting(sorted, vals)
    BY <1>1, <1>2, <2>3, AppendSorting DEF PoolInv, SortedInv
  <2>5. Len(vals) \in Nat /\ u \in 1 .. Len(vals) BY <1>2, <2>3
  <2> HIDE DEF vals, u, c, x
  <2>6. Shape(sorted, vals) BY <2>4 DEF Sorting
  <2> QED BY <1>1, <2>1, <2>5, <2>6, PlaceCover DEF c
<1> QED BY <1>3, <1>4

\* All places have been passed when the last one has been.
LEMMA LastCoverSteps == ASSUME PoolInv, CoverInv, EndLabel \/ MergeOrders PROVE CoverInv'
<1>1. /\ UNCHANGED <<cargo, param, next, locs, cur, values, sorted>>
      /\ stage \in {"label", "merge"} /\ stage' \in {"merge", "done"}
  BY DEF EndLabel, MergeOrders
<1>2. LocsCover' BY <1>1 DEF CoverInv, LocsCover, Ends
<1>3. ASSUME EndLabel, NEW c \in DOMAIN cargo PROVE Sorted(sorted, c)
  <2>1. stage = "label" /\ cur[1] \notin DOMAIN locs /\ param.grouped
    BY <1>3 DEF EndLabel, CoverInv, SortedCover
  <2>2. /\ cur[1] \in Nat \ {0} /\ locs \in Seq(Members)
        /\ DOMAIN cargo = 1 .. Len(cargo) /\ Len(cargo) \in Nat
    BY <2>1 DEF PoolInv, LocsType, ReadType
  <2>3. c \in 1 .. next - 1 BY <2>1, <2>2 DEF CoverInv, LocsCover
  <2>4. PICK g \in DOMAIN locs : \E i \in DOMAIN locs[g] : locs[g][i] = c
    BY <2>1, <2>3 DEF CoverInv, LocsCover
  <2>5. PICK i \in DOMAIN locs[g] : locs[g][i] = c BY <2>4
  <2>6. g < cur[1] BY <2>1, <2>2
  <2>7. Before(g, i) BY <2>6 DEF Before
  <2> QED BY <2>1, <2>5, <2>7 DEF CoverInv, SortedCover
<1>4. Apart(sorted)' <=> Apart(sorted) BY <1>1 DEF Apart, Labelled
<1>5. \A c : Sorted(sorted, c)' <=> Sorted(sorted, c) BY <1>1 DEF Sorted
<1>6. SortedCover'
  <2>1. CASE EndLabel
    <3>1. stage = "label" /\ stage' = "merge" BY <2>1 DEF EndLabel
    <3>2. param'.grouped /\ Apart(sorted)' BY <1>1, <1>4, <3>1 DEF CoverInv, SortedCover
    <3>3. \A c \in DOMAIN cargo' : Sorted(sorted, c)' BY <1>1, <1>3, <1>5, <2>1
    <3> QED BY <3>1, <3>2, <3>3 DEF SortedCover
  <2>2. CASE MergeOrders
    <3>1. stage = "merge" /\ stage' = "done" BY <2>2 DEF MergeOrders
    <3> QED BY <1>1, <1>4, <1>5, <3>1 DEF CoverInv, SortedCover
  <2> QED BY <2>1, <2>2
<1> QED BY <1>2, <1>6 DEF CoverInv

\* No step of the constructor loses a cargo order from the locations or the groups.
LEMMA CoverStep == PoolInv /\ CoverInv /\ [PoolNext]_poolVars => CoverInv'
<1> SUFFICES ASSUME PoolInv, CoverInv, [PoolNext]_poolVars PROVE CoverInv' OBVIOUS
<1>1. ASSUME NEW r \in Readings, Read(r) PROVE CoverInv'
  BY <1>1 DEF Read, CoverInv, LocsCover, SortedCover
<1>2. CASE DropPool BY <1>2 DEF DropPool, CoverInv, LocsCover, SortedCover
<1>3. CASE StartPool
  <2>1. stage' = "loc" /\ next' = 1 /\ locs' = <<>> /\ cargo' = cargo BY <1>3 DEF StartPool
  <2>2. Len(cargo) \in Nat BY DEF PoolInv, ReadType
  <2> QED BY <2>1, <2>2 DEF CoverInv, LocsCover, SortedCover
<1>4. CASE JoinGroup \/ NewGroup BY <1>4, LocCoverStep
<1>5. CASE EndLoc BY <1>5, EndLocCoverStep
<1>6. CASE PlaceInGroup \/ PlaceApart BY <1>6, LabelCoverStep
<1>7. CASE EndLabel \/ MergeOrders BY <1>7, LastCoverSteps
<1>8. CASE UNCHANGED poolVars
  BY <1>8 DEF poolVars, CoverInv, LocsCover, SortedCover, Ends, Apart, Labelled, Before, Sorted
<1> QED BY <1>1, <1>2, <1>3, <1>4, <1>5, <1>6, <1>7, <1>8 DEF PoolNext, BuildPool

\* When the pool is built, its orders are the groups, and they cover the cargo orders.
LEMMA CoverInvCovers == PoolInv /\ CoverInv => PoolCovers
<1> SUFFICES ASSUME PoolInv, CoverInv, stage = "done" PROVE PoolCovers BY DEF PoolCovers
<1>1. DOMAIN orders = DOMAIN sorted.groups /\ \A k \in DOMAIN orders : orders[k].cargo = sorted.groups[k]
  BY DEF PoolInv, OrdersInv
<1>2. \A k \in DOMAIN orders : \A c : Holds(k, c) <=> \E i \in DOMAIN sorted.groups[k] : sorted.groups[k][i] = c
  BY <1>1 DEF Holds
<1>3. CASE param.grouped
  <2>1. Apart(sorted) /\ \A c \in DOMAIN cargo : Sorted(sorted, c)
    BY <1>3 DEF CoverInv, SortedCover
  <2>2. \A c \in DOMAIN cargo : \E k \in DOMAIN orders : Holds(k, c)
    BY <1>1, <1>2, <2>1 DEF Sorted
  <2>3. \A k, l \in DOMAIN orders : \A i \in DOMAIN orders[k].cargo, j \in DOMAIN orders[l].cargo :
          orders[k].cargo[i] = orders[l].cargo[j] =>
            IF k = l THEN i = j ELSE ~ Labelled(orders[k].cargo[i])
    BY <1>1, <2>1 DEF Apart
  <2> QED BY <1>3, <2>2, <2>3 DEF PoolCovers
<1>4. CASE ~ param.grouped
  <2>1. sorted.groups = locs BY <1>4 DEF CoverInv, SortedCover
  <2>2. Len(cargo) \in Nat /\ DOMAIN cargo = 1 .. next - 1
    BY DEF PoolInv, ReadType, CoverInv, LocsCover
  <2>3. \A c \in DOMAIN cargo : \E k \in DOMAIN orders : Holds(k, c)
    <3> SUFFICES ASSUME NEW c \in DOMAIN cargo PROVE \E k \in DOMAIN orders : Holds(k, c) OBVIOUS
    <3>1. PICK g \in DOMAIN locs : \E i \in DOMAIN locs[g] : locs[g][i] = c
      BY <2>2 DEF CoverInv, LocsCover
    <3> QED BY <1>1, <1>2, <2>1, <3>1
  <2>4. \A k, l \in DOMAIN orders : \A i \in DOMAIN orders[k].cargo, j \in DOMAIN orders[l].cargo :
          orders[k].cargo[i] = orders[l].cargo[j] => k = l /\ i = j
    BY <1>1, <2>1, LocsOnce DEF CoverInv
  <2>5. \A k \in DOMAIN orders : \A c, d \in DOMAIN cargo :
          Holds(k, c) => (Holds(k, d) <=> Ends(c) = Ends(d))
    <3> SUFFICES ASSUME NEW k \in DOMAIN orders, NEW c \in DOMAIN cargo, NEW d \in DOMAIN cargo,
                        Holds(k, c)
                 PROVE  Holds(k, d) <=> Ends(c) = Ends(d)
      OBVIOUS
    <3>1. \A l \in DOMAIN orders : \A e : Holds(l, e) => Ends(e) = Ends(locs[l][1])
      BY <1>1, <1>2, <2>1 DEF CoverInv, LocsCover
    <3>2. PICK l \in DOMAIN orders : Holds(l, d) BY <2>3
    <3>3. Ends(c) = Ends(d) => l = k BY <1>1, <2>1, <3>1, <3>2 DEF CoverInv, LocsCover
    <3> QED BY <3>1, <3>2, <3>3
  <2> QED BY <1>4, <2>3, <2>4, <2>5 DEF PoolCovers
<1> QED BY <1>3, <1>4

\* For any cargo orders, rule and listings, the pool covers the cargo orders, and
\* only what has no value is twice in it (pdm_order_pool.cpp, OrderPool).
THEOREM PoolCoversAll == PoolSpec => []PoolCovers
<1>1. PoolInit => CoverInv BY DEF PoolInit, CoverInv, LocsCover, SortedCover
<1>2. PoolSpec => [](PoolInv /\ CoverInv)
  BY <1>1, PoolInitInv, PoolStepInv, CoverStep, PTL DEF PoolSpec
<1> QED BY <1>2, CoverInvCovers, PTL

----------------------------------------------------------------------------
(* A Solver and its pools *)

\* No step of a Solver, of whatever script, changes the pool otherwise than as
\* OrderPool says (s_solver.cpp, Solver::solve).
THEOREM SolverBuildsPools == Spec => PoolSpec
<1>1. Init => PoolInit BY DEF Init
<1>2. case \in Cases /\ [Next]_vars => (case \in Cases)' /\ [PoolNext]_poolVars
  <2> SUFFICES ASSUME case \in Cases, [Next]_vars
               PROVE  case' \in Cases /\ [PoolNext]_poolVars
    OBVIOUS
  <2>1. CASE Open
    <3>1. CASE T!ScenarioAccepted(case) /\ T!ParameterAccepted(case)
      BY <2>1, <3>1, CasesAssumption DEF Open, PoolNext
    <3>2. CASE ~ (T!ScenarioAccepted(case) /\ T!ParameterAccepted(case))
      BY <2>1, <3>2 DEF Open
    <3> QED BY <3>1, <3>2
  <2>2. CASE Solve BY <2>2 DEF Solve, PoolNext
  <2>3. CASE PoolStep BY <2>3 DEF PoolStep, runVars, PoolNext
  <2>4. CASE OpenScript \/ ScriptFails BY <2>4 DEF OpenScript, ScriptFails
  <2>5. CASE Knn \/ Alns BY <2>5 DEF Knn, Alns
  <2>6. CASE Snapshot \/ EndScript BY <2>6 DEF Snapshot, EndScript
  <2>7. CASE UNCHANGED vars BY <2>7 DEF vars, runVars
  <2> QED BY <2>1, <2>2, <2>3, <2>4, <2>5, <2>6, <2>7 DEF Next
<1>3. Init => case \in Cases BY DEF Init
<1> QED BY <1>1, <1>2, <1>3, PTL DEF Spec, PoolSpec

\* The same of every call of solve().
THEOREM SolverKeepsApart == Spec => []OneGroupEach
BY SolverBuildsPools, PoolKeepsApart

\* The pools of a Solver cover what it has read (pdm_order_pool.cpp, OrderPool).
THEOREM SolverCovers == Spec => []PoolCovers
BY SolverBuildsPools, PoolCoversAll

----------------------------------------------------------------------------
(* The result of a call *)

\* What the precheck finds is settled by the scenario.
LEMMA InfeasiblePrimed ==
  ASSUME case' = case, cargo' = cargo, param' = param
  PROVE  /\ Infeasible' = Infeasible /\ Fleet' = Fleet
         /\ \A v, c : Reasons(v, c)' = Reasons(v, c)
<1>1. Fleet' = Fleet BY DEF Fleet
<1>2. \A ind, members : Order(ind, members)' = Order(ind, members) BY DEF Order
<1>3. \A c : Alone(c)' = Alone(c) BY <1>2 DEF Alone
<1>4. \A os : PeakDims(os)' = PeakDims(os) BY DEF PeakDims
<1>5. \A v, os : WithinCapacity(v, os)' <=> WithinCapacity(v, os)
  BY <1>1, <1>4 DEF WithinCapacity
<1>6. \A v, os : Failed(v, os)' = Failed(v, os)
  BY <1>5 DEF Failed
<1>7. \A v, c : Reasons(v, c)' = Reasons(v, c)
  BY <1>1, <1>3, <1>6 DEF Reasons, Unusable
<1>8. Infeasible' = Infeasible BY <1>1, <1>7 DEF Infeasible
<1> QED BY <1>1, <1>7, <1>8
\* What the precheck says of the call that is running.
ReportNow ==
  [by |-> solves, reasons |-> [c \in Infeasible |-> [v \in DOMAIN Fleet |-> Reasons(v, c)]]]

\* Which files there are is settled by the scenario: a report if a cargo order fits
\* no vehicle, and then never a plan.
FilesInv ==
  /\ disk = [infeasible |-> disk.infeasible, plan |-> disk.plan]
  /\ phase \in {"closed", "broken"} => solves = 0 /\ disk = NoDisk /\ result = NoResult
  /\ phase \in {"pooling", "script"} => Infeasible = {} /\ result = NoResult
  /\ disk.infeasible # NoFile => Infeasible # {}
  /\ disk.plan # NoFile => Infeasible = {}

\* What a call has returned is the report or the plan of that call.
ResultInv ==
  result # NoResult =>
    /\ result.by = solves
    /\ IF Infeasible = {}
       THEN /\ result.infeasible = NoFile
            /\ result.plan # NoFile /\ result.plan.by = solves /\ result.plan.final
       ELSE result.infeasible = ReportNow /\ result.plan = NoFile

RunInv == FilesInv /\ ResultInv

\* A file is never no file.
LEMMA FileIsThere ==
  /\ \A b, r : [by |-> b, reasons |-> r] # NoFile
  /\ \A b, f, s, l, ro, le, re :
       [by |-> b, final |-> f, summary |-> s, loads |-> l, rows |-> ro,
        left |-> le, refused |-> re] # NoFile
<1>1. DOMAIN NoFile = {} BY DEF NoFile
<1>2. ASSUME NEW b, NEW r PROVE [by |-> b, reasons |-> r] # NoFile
  <2>1. "by" \in DOMAIN [by |-> b, reasons |-> r] OBVIOUS
  <2> QED BY <1>1, <2>1
<1>3. ASSUME NEW b, NEW f, NEW s, NEW l, NEW ro, NEW le, NEW re
      PROVE  [by |-> b, final |-> f, summary |-> s, loads |-> l, rows |-> ro,
              left |-> le, refused |-> re] # NoFile
  <2>1. "by" \in DOMAIN [by |-> b, final |-> f, summary |-> s, loads |-> l, rows |-> ro,
                         left |-> le, refused |-> re]
    OBVIOUS
  <2> QED BY <1>1, <2>1
<1> QED BY <1>2, <1>3

\* A report of the running call has a reason for every vehicle.
LEMMA ReportHasReasons ==
  /\ ReportNow # NoFile /\ ReportNow.by = solves
  /\ DOMAIN ReportNow.reasons = Infeasible
  /\ \A c \in Infeasible : \A v \in DOMAIN Fleet :
       ReportNow.reasons[c][v] = Reasons(v, c) /\ Reasons(v, c) # {}
<1>1. ReportNow # NoFile BY FileIsThere DEF ReportNow
<1>2. \A c \in Infeasible : \A v \in DOMAIN Fleet : Reasons(v, c) # {} BY DEF Infeasible
<1> QED BY <1>1, <1>2 DEF ReportNow

\* Files that are of this call make a result of this call.
LEMMA RunInvResult == RunInv => ResultIsOfThisCall
<1> SUFFICES ASSUME RunInv, result # NoResult PROVE ResultIsOfThisCall
  BY DEF ResultIsOfThisCall
<1>1. \A v, c : Reasons(v, c) # {} <=> Unusable(v) \/ Failed(v, {Alone(c)}) # {}
  BY DEF Reasons
<1>2. Infeasible # {} <=>
        \E c \in DOMAIN cargo : \A v \in DOMAIN Fleet : Unusable(v) \/ Failed(v, {Alone(c)}) # {}
  BY <1>1 DEF Infeasible
<1>3. CASE Infeasible = {}
  BY <1>2, <1>3 DEF RunInv, ResultInv, ResultIsOfThisCall
<1>4. CASE Infeasible # {}
  <2>1. result.by = solves /\ result.infeasible = ReportNow /\ result.plan = NoFile
    BY <1>4 DEF RunInv, ResultInv
  <2> QED BY <1>2, <1>4, <2>1, ReportHasReasons DEF ResultIsOfThisCall
<1> QED BY <1>3, <1>4

\* A step that leaves the scenario, the count of calls, the files and the result
\* alone, and does not enter a script.
LEMMA RunInvKept ==
  ASSUME RunInv, case' = case, cargo' = cargo, param' = param,
         solves' = solves, disk' = disk, result' = result,
         phase' \in {"closed", "broken"} => phase = phase',
         phase' \in {"pooling", "script"} => phase \in {"pooling", "script"}
  PROVE  RunInv'
<1>1. Infeasible' = Infeasible /\ Fleet' = Fleet /\ \A v, c : Reasons(v, c)' = Reasons(v, c)
  BY InfeasiblePrimed
<1>2. ReportNow' = ReportNow BY <1>1 DEF ReportNow
<1>3. FilesInv' BY <1>1 DEF RunInv, FilesInv, NoDisk, NoResult, NoFile
<1>4. ResultInv' BY <1>1, <1>2 DEF RunInv, ResultInv, NoResult, NoFile
<1> QED BY <1>3, <1>4 DEF RunInv

\* The constructor leaves no file and no result.
LEMMA OpenRunStep == ASSUME RunInv, Open PROVE RunInv'
<1>1. solves' = 0 /\ disk' = NoDisk /\ result' = NoResult /\ phase' \in {"ready", "broken"}
  BY DEF RunInv, FilesInv, Open
<1>2. FilesInv' BY <1>1 DEF FilesInv, NoDisk
<1> QED BY <1>1, <1>2 DEF RunInv, ResultInv

\* A call removes no plan: it either ends with its report or goes on without a result.
LEMMA SolveRunStep == ASSUME RunInv, Solve PROVE RunInv'
<1>1. case' = case /\ cargo' = cargo /\ param' = param /\ solves' = solves + 1
  BY DEF Solve, DropPool
<1>2. Infeasible' = Infeasible /\ Fleet' = Fleet /\ \A v, c : Reasons(v, c)' = Reasons(v, c)
  BY <1>1, InfeasiblePrimed
<1>3. CASE Infeasible = {}
  <2>1. phase' = "pooling" /\ result' = NoResult /\ disk' = disk BY <1>3 DEF Solve
  <2>2. FilesInv' BY <1>2, <1>3, <2>1 DEF RunInv, FilesInv, NoFile, NoResult
  <2> QED BY <2>1, <2>2 DEF RunInv, ResultInv
<1>4. CASE Infeasible # {}
  <2>1. /\ phase' = "ready" /\ disk' = [disk EXCEPT !.infeasible = InfeasibleReport]
        /\ result' = [Collected(disk') EXCEPT !.by = solves']
    BY <1>4 DEF Solve
  <2>2. InfeasibleReport = ReportNow' BY <1>2 DEF InfeasibleReport, ReportNow
  <2>3. disk.plan = NoFile BY <1>4 DEF RunInv, FilesInv
  <2>4. disk' = [infeasible |-> ReportNow', plan |-> NoFile]
    BY <2>1, <2>2, <2>3 DEF RunInv, FilesInv
  <2>5. result' = [by |-> solves', infeasible |-> ReportNow', plan |-> NoFile]
    BY <2>1, <2>4 DEF Collected
  <2>6. FilesInv'
    <3>1. disk'.infeasible = ReportNow' /\ disk'.plan = NoFile BY <2>4
    <3>2. disk' = [infeasible |-> disk'.infeasible, plan |-> disk'.plan] BY <2>4, <3>1
    <3> QED BY <1>2, <1>4, <2>1, <3>1, <3>2 DEF FilesInv
  <2>7. ResultInv' BY <1>2, <1>4, <2>5 DEF ResultInv
  <2> QED BY <2>6, <2>7 DEF RunInv
<1> QED BY <1>3, <1>4

\* The plan a script leaves, of a snapshot or at its end.
LEMMA PlanIsThere ==
  \A final \in BOOLEAN : /\ Plan(place, final) # NoFile
                         /\ Plan(place, final).by = solves /\ Plan(place, final).final = final
BY FileIsThere DEF Plan

\* A snapshot is of this call.
LEMMA SnapshotRunStep == ASSUME RunInv, Snapshot PROVE RunInv'
<1>1. /\ case' = case /\ cargo' = cargo /\ param' = param /\ solves' = solves
      /\ phase = "script" /\ phase' = phase /\ result' = result
      /\ disk' \in {disk, [disk EXCEPT !.plan = Plan(place, FALSE)]}
  BY DEF Snapshot, poolVars
<1>2. Infeasible' = Infeasible BY <1>1, InfeasiblePrimed
<1>3. Infeasible = {} /\ result = NoResult /\ disk.infeasible = NoFile
  BY <1>1 DEF RunInv, FilesInv
<1>4. disk' = [infeasible |-> disk'.infeasible, plan |-> disk'.plan] /\ disk'.infeasible = NoFile
  BY <1>1, <1>3 DEF RunInv, FilesInv
<1> QED BY <1>1, <1>2, <1>3, <1>4 DEF RunInv, FilesInv, ResultInv, NoFile, NoResult

\* The plan a call ends with replaces any snapshot.
LEMMA EndRunStep == ASSUME RunInv, EndScript PROVE RunInv'
<1>1. /\ case' = case /\ cargo' = cargo /\ param' = param /\ solves' = solves
      /\ phase = "script" /\ phase' = "ready"
      /\ disk' = [disk EXCEPT !.plan = Plan(place, TRUE)]
      /\ result' = Collected(disk')
  BY DEF EndScript, poolVars
<1>2. Infeasible' = Infeasible BY <1>1, InfeasiblePrimed
<1>3. Infeasible = {} /\ disk.infeasible = NoFile
  BY <1>1 DEF RunInv, FilesInv
<1>4. disk' = [infeasible |-> NoFile, plan |-> Plan(place, TRUE)]
  BY <1>1, <1>3 DEF RunInv, FilesInv
<1>5. result' = [by |-> solves, infeasible |-> NoFile, plan |-> Plan(place, TRUE)]
  <2>1. disk'.infeasible = NoFile /\ disk'.plan = Plan(place, TRUE) BY <1>4
  <2> QED BY <1>1, <2>1 DEF Collected
<1>6. FilesInv' BY <1>1, <1>2, <1>3, <1>4 DEF FilesInv, NoFile
<1>7. ResultInv'
  <2>1. result'.by = solves /\ result'.infeasible = NoFile /\ result'.plan = Plan(place, TRUE)
    BY <1>5
  <2>2. result'.plan # NoFile /\ result'.plan.by = solves /\ result'.plan.final
    BY <2>1, PlanIsThere
  <2> QED BY <1>1, <1>2, <1>3, <2>1, <2>2 DEF ResultInv
<1> QED BY <1>6, <1>7 DEF RunInv

\* Whatever the scenario, the script and the number of calls, a result is the report
\* or the final plan of the call that returned it (s_solver.cpp, Solver::solve).
THEOREM SolverReturnsItsResult == Spec => []ResultIsOfThisCall
<1>1. Init => RunInv BY DEF Init, RunInv, FilesInv, ResultInv, NoDisk
<1>2. RunInv /\ [Next]_vars => RunInv'
  <2> SUFFICES ASSUME RunInv, [Next]_vars PROVE RunInv'
    OBVIOUS
  <2>1. CASE Open BY <2>1, OpenRunStep
  <2>2. CASE Solve BY <2>2, SolveRunStep
  <2>3. CASE PoolStep
    <3>1. cargo' = cargo /\ param' = param
      BY <2>3 DEF PoolStep, StartPool, BuildPool, JoinGroup, NewGroup, EndLoc, PlaceInGroup,
                  PlaceApart, EndLabel, MergeOrders
    <3> QED BY <2>3, <3>1, RunInvKept DEF PoolStep, runVars
  <2>4. CASE OpenScript \/ ScriptFails
    BY <2>4, RunInvKept DEF OpenScript, ScriptFails, poolVars
  <2>5. CASE Knn \/ Alns BY <2>5, RunInvKept DEF Knn, Alns, poolVars
  <2>6. CASE Snapshot BY <2>6, SnapshotRunStep
  <2>7. CASE EndScript BY <2>7, EndRunStep
  <2>8. CASE UNCHANGED vars BY <2>8, RunInvKept DEF vars, runVars, poolVars
  <2> QED BY <2>1, <2>2, <2>3, <2>4, <2>5, <2>6, <2>7, <2>8 DEF Next
<1> QED BY <1>1, <1>2, RunInvResult, PTL DEF Spec
----------------------------------------------------------------------------
(* The frozen table: every call of a Solver builds the same pool *)

\* The state of a construction, without what the last one has left in the
\* variables that the next stage sets.
State(st, n, l, c, v, s) ==
  [stage |-> st, next |-> n, locs |-> l, cur |-> c, values |-> v, sorted |-> s]

Now ==
  IF stage = "loc" THEN State(stage, next, locs, <<1, 1>>, <<>>, NothingSorted)
  ELSE State(stage, next, locs, cur, values, sorted)

Begun == State("loc", 1, <<>>, <<1, 1>>, <<>>, NothingSorted)

\* The groups by ends with one cargo order more.
Joined(l, c) ==
  IF \E g \in DOMAIN l : Ends(l[g][1]) = Ends(c)
  THEN [l EXCEPT ![CHOOSE g \in DOMAIN l : Ends(l[g][1]) = Ends(c)] = Append(@, c)]
  ELSE Append(l, <<c>>)

LocFollows(b) ==
  IF b.next <= Len(cargo)
  THEN State("loc", b.next + 1, Joined(b.locs, b.next), <<1, 1>>, <<>>, NothingSorted)
  ELSE IF param.grouped
       THEN State("label", b.next, b.locs, <<1, 1>>, param.groups, NothingSorted)
       ELSE State("merge", b.next, b.locs, <<1, 1>>, param.groups,
                  [at |-> <<>>, groups |-> b.locs])

\* The cargo order at the place b has come to, and the groups of values it fits.
At(b) == b.locs[b.cur[1]][b.cur[2]]
FitsIn(b) == {v \in DOMAIN b.values : Includes(b.values[v], cargo[At(b)].listed)}
First(fits) == CHOOSE v : IsFirst(v, fits)

LabelFollows(b) ==
  LET c == At(b)
      s == IF Labelled(c) THEN b.sorted ELSE Placed(c, Unlabelled, b.sorted)
      after == IF b.cur[2] < Len(b.locs[b.cur[1]]) THEN <<b.cur[1], b.cur[2] + 1>>
               ELSE <<b.cur[1] + 1, 1>>
  IN  IF b.cur[1] \notin DOMAIN b.locs
      THEN State("merge", b.next, b.locs, b.cur, b.values, b.sorted)
      ELSE IF FitsIn(b) = {}
           THEN State("label", b.next, b.locs, after, Append(b.values, cargo[c].listed),
                      Placed(c, Len(b.values) + 1, s))
           ELSE State("label", b.next, b.locs, after, b.values,
                      Placed(c, First(FitsIn(b)), s))

\* The one state that may follow.
Following(b) ==
  IF b.stage = "loc" THEN LocFollows(b)
  ELSE IF b.stage = "label" THEN LabelFollows(b)
  ELSE State("done", b.next, b.locs, b.cur, b.values, b.sorted)

Trace(t, n) ==
  /\ n \in Nat \ {0} /\ t[1] = Begun
  /\ \A m \in 1 .. n - 1 : t[m].stage # "done" /\ t[m + 1] = Following(t[m])

Reached(b) == \E n \in Nat : \E t : Trace(t, n) /\ t[n] = b

\* Some number of a set of numbers is the smallest.
LEMMA LeastNumber ==
  ASSUME NEW n \in Nat, NEW B, B \subseteq 1 .. n, B # {}
  PROVE  \E x \in B : \A y \in B : x <= y
<1> DEFINE S == 1 .. n
           C == {1 .. x : x \in B}
           less == StrictSubsetOrdering(S)
<1>1. IsFiniteSet(S) BY FS_Interval
<1>2. C \subseteq SUBSET S OBVIOUS
<1>3. C \subseteq FiniteSubsetsOf(S)
  <2>1. \A x \in C : x \in SUBSET S /\ IsFiniteSet(x) BY <1>1, <1>2, FS_Subset
  <2> QED BY <2>1 DEF FiniteSubsetsOf
<1>4. IsWellFoundedOn(less, FiniteSubsetsOf(S)) BY <1>1, FS_StrictSubsetOrderingWellFounded
<1>5. PICK r \in C : \A q \in C : << q, r >> \notin less
  <2>1. C # {} OBVIOUS
  <2> HIDE DEF less, C
  <2> QED BY <1>3, <1>4, <2>1, WFMin
<1>6. PICK x \in B : r = 1 .. x OBVIOUS
<1>7. ASSUME NEW y \in B, y < x PROVE FALSE
  <2>1. 1 .. y \in C /\ 1 .. y \subseteq r BY <1>6, <1>7
  <2>2. x \in Nat \ {0} /\ y \in Nat BY DEF S
  <2>3. x \in 1 .. x /\ x \notin 1 .. y BY <1>7, <2>2
  <2>4. 1 .. y # r BY <1>6, <2>3
  <2>5. << 1 .. y, r >> \in less BY <1>2, <2>1, <2>4 DEF StrictSubsetOrdering
  <2> QED BY <1>5, <2>1, <2>5
<1>8. \A y \in B : x <= y BY <1>7
<1> QED BY <1>8

\* A construction has begun.
LEMMA ReachedBegun == Reached(Begun)
<1> DEFINE t == [m \in {1} |-> Begun]
<1>1. Trace(t, 1) /\ t[1] = Begun BY DEF Trace
<1> QED BY <1>1 DEF Reached

\* A construction that is not done goes on.
LEMMA ReachedFollowing ==
  ASSUME NEW b, Reached(b), b.stage # "done"
  PROVE  Reached(Following(b))
<1>1a. PICK n \in Nat : \E t : Trace(t, n) /\ t[n] = b BY DEF Reached
<1>1. PICK t : Trace(t, n) /\ t[n] = b BY <1>1a
<1> DEFINE s == [m \in 1 .. n + 1 |-> IF m = n + 1 THEN Following(b) ELSE t[m]]
<1>2. n \in Nat \ {0} BY <1>1 DEF Trace
<1>3. s[n + 1] = Following(b) /\ \A m \in 1 .. n : s[m] = t[m] BY <1>2
<1> HIDE DEF s
<1>4. s[1] = Begun BY <1>1, <1>2, <1>3 DEF Trace
<1>5. ASSUME NEW m \in 1 .. n PROVE s[m].stage # "done" /\ s[m + 1] = Following(s[m])
  <2>1. CASE m = n BY <1>1, <1>2, <1>3, <2>1
  <2>2. CASE m # n
    <3>1. m \in 1 .. n - 1 /\ m + 1 \in 1 .. n BY <1>2, <2>2
    <3>2. t[m].stage # "done" /\ t[m + 1] = Following(t[m]) BY <1>1, <3>1 DEF Trace
    <3> QED BY <1>3, <3>1, <3>2
  <2> QED BY <2>1, <2>2
<1>6. (n + 1) - 1 = n /\ n + 1 \in Nat \ {0} BY <1>2
<1>7. Trace(s, n + 1) BY <1>4, <1>5, <1>6 DEF Trace
<1> QED BY <1>3, <1>6, <1>7 DEF Reached

\* Two constructions go the same way as long as both go on.
LEMMA TracesAgree ==
  ASSUME NEW n \in Nat, NEW k \in Nat, k >= n, NEW t, NEW s, Trace(t, n), Trace(s, k)
  PROVE  \A m \in 1 .. n : t[m] = s[m]
<1> DEFINE B == {m \in 1 .. n : t[m] # s[m]}
<1> SUFFICES ASSUME B # {} PROVE FALSE OBVIOUS
<1>1. PICK m \in B : \A y \in B : m <= y BY LeastNumber
<1>2. m # 1 BY <1>1 DEF Trace
<1>3. m \in 2 .. n BY <1>1, <1>2
<1>4. m - 1 \in 1 .. n - 1 /\ m - 1 \in 1 .. k - 1 /\ m - 1 \in 1 .. n /\ (m - 1) + 1 = m
      /\ ~ (m <= m - 1)
  BY <1>3
<1>5. t[m - 1] = s[m - 1] BY <1>1, <1>4
<1>6. t[m] = Following(t[m - 1]) /\ s[m] = Following(s[m - 1]) BY <1>4 DEF Trace
<1> QED BY <1>1, <1>5, <1>6

\* A scenario has one pool.
LEMMA ReachedOnce ==
  ASSUME NEW b, NEW c, Reached(b), Reached(c), b.stage = "done", c.stage = "done"
  PROVE  b = c
<1>1a. PICK n \in Nat : \E t : Trace(t, n) /\ t[n] = b BY DEF Reached
<1>1. PICK t : Trace(t, n) /\ t[n] = b BY <1>1a
<1>2a. PICK k \in Nat : \E s : Trace(s, k) /\ s[k] = c BY DEF Reached
<1>2. PICK s : Trace(s, k) /\ s[k] = c BY <1>2a
<1>3. n \in Nat \ {0} /\ k \in Nat \ {0} BY <1>1, <1>2 DEF Trace
<1>4. CASE n < k
  <2>1. n \in 1 .. n /\ n \in 1 .. k - 1 /\ k >= n BY <1>3, <1>4
  <2>2. t[n] = s[n] BY <1>1, <1>2, <2>1, TracesAgree
  <2>3. s[n].stage # "done" BY <1>2, <2>1 DEF Trace
  <2> QED BY <1>1, <2>2, <2>3
<1>5. CASE k < n
  <2>1. k \in 1 .. k /\ k \in 1 .. n - 1 /\ n >= k BY <1>3, <1>5
  <2>2. s[k] = t[k] BY <1>1, <1>2, <2>1, TracesAgree
  <2>3. t[k].stage # "done" BY <1>1, <2>1 DEF Trace
  <2> QED BY <1>2, <2>2, <2>3
<1>6. CASE n = k
  <2>1. n \in 1 .. n /\ k >= n BY <1>3, <1>6
  <2>2. t[n] = s[n] BY <1>1, <1>2, <2>1, TracesAgree
  <2> QED BY <1>1, <1>2, <1>6, <2>2
<1> QED BY <1>3, <1>4, <1>5, <1>6
----------------------------------------------------------------------------
\* What a state of a construction is made of.
LEMMA NowParts ==
  /\ Now.stage = stage /\ Now.next = next /\ Now.locs = locs
  /\ stage # "loc" => Now.cur = cur /\ Now.values = values /\ Now.sorted = sorted
BY DEF Now, State

\* Only the cargo orders and the rule count.
LEMMA ReachedPrimed ==
  ASSUME cargo' = cargo, param' = param
  PROVE  \A b : Reached(b)' <=> Reached(b)
<1>1. \A l, c : Joined(l, c)' = Joined(l, c) BY DEF Joined, Ends
<1>2. \A b : LocFollows(b)' = LocFollows(b) BY <1>1 DEF LocFollows
<1>3. \A b : FitsIn(b)' = FitsIn(b) BY DEF FitsIn
<1>4. \A c : Labelled(c)' <=> Labelled(c) BY DEF Labelled
<1>5. ASSUME NEW b PROVE LabelFollows(b)' = LabelFollows(b)
  <2>1. FitsIn(b)' = FitsIn(b) /\ First(FitsIn(b))' = First(FitsIn(b)) BY <1>3
  <2>2. At(b)' = At(b) OBVIOUS
  <2> QED BY <1>4, <2>1, <2>2 DEF LabelFollows
<1>6. \A b : Following(b)' = Following(b) BY <1>2, <1>5 DEF Following
<1>7. \A t, n : Trace(t, n)' <=> Trace(t, n) BY <1>6 DEF Trace
<1> QED BY <1>7 DEF Reached

\* Each cargo order joins the group its ends name, or makes one.
LEMMA LocFollowsNow ==
  ASSUME PoolInv, CoverInv, JoinGroup \/ NewGroup
  PROVE  Now' = Following(Now)
<1>1. /\ stage = "loc" /\ stage' = "loc" /\ next <= Len(cargo) /\ next' = next + 1
  BY DEF JoinGroup, NewGroup
<1>2. locs' = Joined(locs, next)
  <2>1. CASE JoinGroup
    <3>1. PICK g \in DOMAIN locs : SharesEnds(next, g) /\ locs' = [locs EXCEPT ![g] = Append(@, next)]
      BY <2>1 DEF JoinGroup
    <3>2. \A h \in DOMAIN locs : Ends(locs[h][1]) = Ends(next) => h = g
      BY <1>1, <3>1 DEF CoverInv, LocsCover, SharesEnds
    <3>3. Ends(locs[g][1]) = Ends(next) BY <3>1 DEF SharesEnds
    <3>4. g = CHOOSE h \in DOMAIN locs : Ends(locs[h][1]) = Ends(next) BY <3>2, <3>3
    <3> QED BY <3>1, <3>3, <3>4 DEF Joined
  <2>2. CASE NewGroup BY <2>2 DEF NewGroup, Joined, SharesEnds
  <2> QED BY <2>1, <2>2
<1>3. Now' = State("loc", next + 1, Joined(locs, next), <<1, 1>>, <<>>, NothingSorted)
  BY <1>1, <1>2 DEF Now
<1>4. Following(Now) = LocFollows(Now) BY <1>1, NowParts DEF Following
<1> QED BY <1>1, <1>3, <1>4, NowParts DEF LocFollows

\* So does the end of that grouping, and the last two steps of the constructor.
LEMMA EndsFollowNow ==
  ASSUME PoolInv, EndLoc \/ EndLabel \/ MergeOrders
  PROVE  Now' = Following(Now)
<1>1. CASE EndLoc
  <2>1. /\ stage = "loc" /\ ~ next <= Len(cargo) /\ next' = next /\ locs' = locs
        /\ cur' = <<1, 1>> /\ values' = param.groups
        /\ IF param.grouped THEN stage' = "label" /\ sorted' = NothingSorted
           ELSE stage' = "merge" /\ sorted' = [at |-> <<>>, groups |-> locs]
    BY <1>1 DEF EndLoc, PoolInv, ReadType, LocsType
  <2>2. Now' = State(stage', next, locs, <<1, 1>>, param.groups, sorted')
    BY <2>1 DEF Now
  <2>3. Following(Now) = LocFollows(Now) BY <2>1, NowParts DEF Following
  <2> QED BY <2>1, <2>2, <2>3, NowParts DEF LocFollows
<1>2. CASE EndLabel
  <2>1. /\ stage = "label" /\ cur[1] \notin DOMAIN locs /\ stage' = "merge"
        /\ UNCHANGED <<next, locs, cur, values, sorted>>
    BY <1>2 DEF EndLabel
  <2>2. Now' = State("merge", next, locs, cur, values, sorted) BY <2>1 DEF Now
  <2>3. Following(Now) = LabelFollows(Now) BY <2>1, NowParts DEF Following
  <2> QED BY <2>1, <2>2, <2>3, NowParts DEF LabelFollows
<1>3. CASE MergeOrders
  <2>1. stage = "merge" /\ stage' = "done" /\ UNCHANGED <<next, locs, cur, values, sorted>>
    BY <1>3 DEF MergeOrders
  <2>2. Now' = State("done", next, locs, cur, values, sorted) BY <2>1 DEF Now
  <2> QED BY <2>1, <2>2, NowParts DEF Following
<1> QED BY <1>1, <1>2, <1>3

\* Each place of the groups by ends is sorted under one key.
LEMMA LabelFollowsNow ==
  ASSUME PoolInv, PlaceInGroup \/ PlaceApart
  PROVE  Now' = Following(Now)
<1> DEFINE c == locs[cur[1]][cur[2]]
           after == IF cur[2] < Len(locs[cur[1]]) THEN <<cur[1], cur[2] + 1>>
                    ELSE <<cur[1] + 1, 1>>
<1>1. /\ stage = "label" /\ stage' = "label" /\ cur[1] \in DOMAIN locs
      /\ next' = next /\ locs' = locs /\ cur' = after
  BY DEF PlaceInGroup, PlaceApart, Advanced
<1>2. At(Now) = c /\ FitsIn(Now) = Fits(c)
  BY <1>1, NowParts DEF At, FitsIn, Fits
<1>3. Following(Now) = LabelFollows(Now) BY <1>1, NowParts DEF Following
<1>4. Now' = State("label", next, locs, after, values', sorted') BY <1>1 DEF Now
<1>5. WithUnlabelled(c) = IF Labelled(c) THEN sorted ELSE Placed(c, Unlabelled, sorted)
  BY DEF WithUnlabelled
<1>6. CASE PlaceInGroup
  <2>1. PICK v \in Fits(c) : IsFirst(v, Fits(c)) /\ sorted' = Placed(c, v, WithUnlabelled(c))
    BY <1>6 DEF PlaceInGroup
  <2>2. values' = values BY <1>6 DEF PlaceInGroup
  <2>3. Fits(c) \subseteq Nat
    <3>1. values \in Seq(Seq(Int)) BY <1>1 DEF PoolInv, ValuesType
    <3>2. DOMAIN values \subseteq Nat BY <3>1
    <3> QED BY <3>2 DEF Fits
  <2>4. \A x : IsFirst(x, Fits(c)) => x = v BY <2>1, <2>3 DEF IsFirst
  <2>5. v = First(Fits(c)) BY <2>1, <2>4 DEF First
  <2>6. Fits(c) # {} BY <2>1
  <2> HIDE DEF c, after
  <2> QED BY <1>1, <1>2, <1>3, <1>4, <1>5, <2>1, <2>2, <2>5, <2>6, NowParts DEF LabelFollows, after
<1>7. CASE PlaceApart
  <2>1. /\ Fits(c) = {} /\ sorted' = Placed(c, Len(values) + 1, WithUnlabelled(c))
        /\ values' = Append(values, cargo[c].listed)
    BY <1>7 DEF PlaceApart
  <2> HIDE DEF c, after
  <2> QED BY <1>1, <1>2, <1>3, <1>4, <1>5, <2>1, NowParts DEF LabelFollows, after
<1> QED BY <1>6, <1>7

----------------------------------------------------------------------------
\* The orders of some indices, as groups make them.
Made(inds, groups) == {Order(i, groups[i + 1]) : i \in inds}

\* The windows of an entry are those of a node of such orders.
Filed(e, groups) ==
  /\ e.inds # {} /\ e.inds \subseteq 0 .. Len(groups) - 1
  /\ e.windows = WindowsAt(e.kind, Made(e.inds, groups))

\* The pool is on the one way there is.
OrdersBuilt == orders = [k \in DOMAIN sorted.groups |-> Order(k - 1, sorted.groups[k])]

BuiltInv ==
  /\ stage \in {"loc", "label", "merge", "done"} => Reached(Now)
  /\ stage = "done" => OrdersBuilt

ScriptInv ==
  /\ stage = "unread" => table = {}
  /\ phase = "script" => stage = "done" /\ DOMAIN place = {orders[k].ind : k \in DOMAIN orders}

FiledInv ==
  \A e \in table : \E b : Reached(b) /\ b.stage = "done" /\ Filed(e, b.sorted.groups)

\* The groups of a pool that is built are a sequence.
LEMMA GroupsType ==
  ASSUME PoolInv, CoverInv, stage = "done"
  PROVE  DOMAIN sorted.groups = 1 .. Len(sorted.groups) /\ Len(sorted.groups) \in Nat
<1>1. CASE param.grouped
  <2>1. sorted.groups \in Seq(Members) BY <1>1 DEF PoolInv, SortedInv, Sorting, Shape
  <2> QED BY <2>1
<1>2. CASE ~ param.grouped
  <2>1. sorted.groups = locs BY <1>2 DEF CoverInv, SortedCover
  <2> QED BY <2>1 DEF PoolInv, LocsType
<1> QED BY <1>1, <1>2

\* Of one pool, entries are right: it is the pool they were made for.
LEMMA FiledCurrent ==
  ASSUME PoolInv, CoverInv, BuiltInv, FiledInv
  PROVE  TableCurrent
<1> SUFFICES ASSUME NEW e \in table
             PROVE  /\ stage = "done" /\ e.inds \subseteq 0 .. Len(orders) - 1 =>
                         e.windows = WindowsAt(e.kind, {OrderAt(i) : i \in e.inds})
                    /\ e.inds = {-1} => \A n \in PrecheckNodes : Matches(e, n) => e.windows = n.windows
  BY DEF TableCurrent
<1>1. PICK b : Reached(b) /\ b.stage = "done" /\ Filed(e, b.sorted.groups) BY DEF FiledInv
<1>2. e.inds # {-1} BY <1>1 DEF Filed
<1>3. ASSUME stage = "done" PROVE e.windows = WindowsAt(e.kind, {OrderAt(i) : i \in e.inds})
  <2>1. Now = b BY <1>1, <1>3, ReachedOnce, NowParts DEF BuiltInv
  <2>2. b.sorted = sorted BY <1>3, <2>1, NowParts
  <2>3. Filed(e, sorted.groups) BY <1>1, <2>2
  <2>4. orders = [k \in DOMAIN sorted.groups |-> Order(k - 1, sorted.groups[k])] BY <1>3 DEF BuiltInv, OrdersBuilt
  <2>5. DOMAIN sorted.groups = 1 .. Len(sorted.groups) /\ Len(sorted.groups) \in Nat
    BY <1>3, GroupsType
  <2>6. ASSUME NEW i \in e.inds PROVE OrderAt(i) = Order(i, sorted.groups[i + 1])
    <3>1. i + 1 \in DOMAIN sorted.groups /\ (i + 1) - 1 = i BY <2>3, <2>5 DEF Filed
    <3> QED BY <2>4, <3>1 DEF OrderAt
  <2>7. {OrderAt(i) : i \in e.inds} = Made(e.inds, sorted.groups) BY <2>6 DEF Made
  <2> QED BY <2>3, <2>7 DEF Filed
<1> QED BY <1>2, <1>3
\* Each step of the constructor stays on that way.
LEMMA BuiltStep == PoolInv /\ CoverInv /\ BuiltInv /\ [PoolNext]_poolVars => BuiltInv'
<1> SUFFICES ASSUME PoolInv, CoverInv, BuiltInv, [PoolNext]_poolVars PROVE BuiltInv' OBVIOUS
<1>1. ASSUME NEW r \in Readings, Read(r) PROVE BuiltInv' BY <1>1 DEF Read, BuiltInv
<1>2. CASE DropPool BY <1>2 DEF DropPool, BuiltInv
<1>3. CASE StartPool
  <2>1. stage' = "loc" /\ next' = 1 /\ locs' = <<>> /\ cargo' = cargo /\ param' = param
    BY <1>3 DEF StartPool
  <2>2. Now' = Begun BY <2>1 DEF Now, Begun
  <2>3. Reached(Begun)' BY <2>1, ReachedBegun, ReachedPrimed
  <2> QED BY <2>1, <2>2, <2>3 DEF BuiltInv
<1>4. CASE BuildPool
  <2>1. cargo' = cargo /\ param' = param /\ stage \in {"loc", "label", "merge"}
    BY <1>4 DEF BuildPool, JoinGroup, NewGroup, EndLoc, PlaceInGroup, PlaceApart, EndLabel, MergeOrders
  <2>2. Now' = Following(Now)
    BY <1>4, LocFollowsNow, EndsFollowNow, LabelFollowsNow DEF BuildPool
  <2>3. Reached(Now) /\ Now.stage # "done" BY <2>1, NowParts DEF BuiltInv
  <2>4. Reached(Following(Now)) BY <2>3, ReachedFollowing
  <2>5. Reached(Now)' BY <2>1, <2>2, <2>4, ReachedPrimed
  <2>6. stage' = "done" => OrdersBuilt'
    <3>1. CASE MergeOrders
      <4>1. \A i, m : Order(i, m)' = Order(i, m) BY <2>1 DEF Order
      <4>2. sorted' = sorted /\ orders' = [k \in DOMAIN sorted.groups |-> Order(k - 1, sorted.groups[k])]
        BY <3>1 DEF MergeOrders
      <4> QED BY <4>1, <4>2 DEF OrdersBuilt
    <3>2. CASE ~ MergeOrders
      BY <1>4, <3>2 DEF BuildPool, JoinGroup, NewGroup, EndLoc, PlaceInGroup, PlaceApart, EndLabel
    <3> QED BY <3>1, <3>2
  <2> QED BY <2>5, <2>6 DEF BuiltInv
<1>5. CASE UNCHANGED poolVars
  <2>1. cargo' = cargo /\ param' = param BY <1>5 DEF poolVars
  <2>2. Now' = Now BY <1>5 DEF poolVars, Now
  <2>3. Reached(Now)' <=> Reached(Now) BY <2>1, <2>2, ReachedPrimed
  <2>4. \A i, m : Order(i, m)' = Order(i, m) BY <2>1 DEF Order
  <2> QED BY <1>5, <2>3, <2>4 DEF BuiltInv, OrdersBuilt, poolVars
<1> QED BY <1>1, <1>2, <1>3, <1>4, <1>5 DEF PoolNext

\* Entries stay what they are while the scenario does.
LEMMA FiledPrimed ==
  ASSUME cargo' = cargo, param' = param
  PROVE  \A e, g : Filed(e, g)' <=> Filed(e, g)
<1>1. \A i, m : Order(i, m)' = Order(i, m) BY DEF Order
<1>2. \A inds, g : Made(inds, g)' = Made(inds, g) BY <1>1 DEF Made
<1> QED BY <1>2 DEF Filed

\* So does the table while nobody looks anything up.
LEMMA FiledKept ==
  ASSUME FiledInv, cargo' = cargo, param' = param, table' = table
  PROVE  FiledInv'
BY ReachedPrimed, FiledPrimed DEF FiledInv

\* The entry of a node of orders of the pool.
LEMMA NodeFiled ==
  ASSUME PoolInv, CoverInv, BuiltInv, stage = "done",
         NEW os, os # {}, \A o \in os : \E k \in DOMAIN orders : o = orders[k],
         NEW kind, NEW loc, NEW e,
         e.kind = kind, e.inds = Node(kind, loc, os).inds, e.windows = Node(kind, loc, os).windows
  PROVE  Filed(e, sorted.groups)
<1> DEFINE g == sorted.groups
<1>1. orders = [k \in DOMAIN g |-> Order(k - 1, g[k])] BY DEF BuiltInv, OrdersBuilt
<1>2. DOMAIN g = 1 .. Len(g) /\ Len(g) \in Nat BY GroupsType
<1>3. e.inds = {o.ind : o \in os} /\ e.windows = WindowsAt(kind, os) BY DEF Node
<1>4. ASSUME NEW o \in os
      PROVE  o.ind \in 0 .. Len(g) - 1 /\ o = Order(o.ind, g[o.ind + 1])
  <2>1. PICK k \in DOMAIN orders : o = orders[k] OBVIOUS
  <2>2. k \in 1 .. Len(g) /\ o = Order(k - 1, g[k]) BY <1>1, <1>2, <2>1
  <2>3. o.ind = k - 1 BY <2>2 DEF Order
  <2> QED BY <1>2, <2>2, <2>3
<1>5. e.inds # {} /\ e.inds \subseteq 0 .. Len(g) - 1 BY <1>3, <1>4
<1>6. os = Made(e.inds, g)
  <2>1. \A o \in os : o \in Made(e.inds, g) BY <1>3, <1>4 DEF Made
  <2>2. ASSUME NEW i \in e.inds PROVE Order(i, g[i + 1]) \in os BY <1>3, <1>4
  <2> QED BY <2>1, <2>2 DEF Made
<1> QED BY <1>3, <1>5, <1>6 DEF Filed

\* What a construction or an improvement looks up are nodes of orders of the pool.
LEMMA LookedStep ==
  ASSUME PoolInv, CoverInv, BuiltInv, FiledInv, ScriptInv, phase = "script",
         NEW p, DOMAIN p = DOMAIN place, Looked(NodesIn(p)), UNCHANGED poolVars
  PROVE  FiledInv'
<1>1. stage = "done" /\ DOMAIN p = {orders[k].ind : k \in DOMAIN orders} BY DEF ScriptInv
<1>2. cargo' = cargo /\ param' = param BY DEF poolVars
<1>3. Reached(Now) /\ Now.stage = "done" /\ Now.sorted = sorted BY <1>1, NowParts DEF BuiltInv
<1>4. ASSUME NEW n \in NodesIn(p), NEW e, e.kind = n.kind, e.inds = n.inds, e.windows = n.windows
      PROVE  Filed(e, sorted.groups)
  <2>1. PICK place0 \in LoadsOf(p) : n \in NodesOf(Load(p, place0)) BY DEF NodesIn
  <2> DEFINE os == Load(p, place0)
  <2>2. \A o \in os : \E k \in DOMAIN orders : o = orders[k]
    <3>1. orders = [k \in DOMAIN sorted.groups |-> Order(k - 1, sorted.groups[k])]
          /\ DOMAIN sorted.groups = 1 .. Len(sorted.groups) /\ Len(sorted.groups) \in Nat
      BY <1>1, GroupsType DEF BuiltInv, OrdersBuilt
    <3>2. \A k \in DOMAIN orders : orders[k].ind + 1 = k
      <4>1. \A i, m : Order(i, m).ind = i BY DEF Order
      <4> QED BY <3>1, <4>1
    <3>3. \A i \in DOMAIN p : \E k \in DOMAIN orders : OrderAt(i) = orders[k] BY <1>1, <3>2 DEF OrderAt
    <3> QED BY <3>3 DEF Load
  <2>3. PICK o \in os : \/ n = Node("PICK", o.pick, os)
                        \/ n = Node("DROP", o.drop, {x \in os : x.drop = o.drop})
    BY <2>1 DEF NodesOf
  <2> HIDE DEF os
  <2>4. CASE n = Node("PICK", o.pick, os)
    <3>1. n.kind = "PICK" BY <2>4 DEF Node
    <3> QED BY <1>1, <1>4, <2>2, <2>4, <3>1, NodeFiled
  <2>5. CASE n = Node("DROP", o.drop, {x \in os : x.drop = o.drop})
    <3> DEFINE some == {x \in os : x.drop = o.drop}
    <3>1. n.kind = "DROP" BY <2>5 DEF Node
    <3>2. some # {} /\ \A x \in some : \E k \in DOMAIN orders : x = orders[k] BY <2>2
    <3> HIDE DEF some
    <3> QED BY <1>1, <1>4, <2>5, <3>1, <3>2, NodeFiled DEF some
  <2> QED BY <2>3, <2>4, <2>5
<1>5. ASSUME NEW e \in table'
      PROVE  \E b : Reached(b) /\ b.stage = "done" /\ Filed(e, b.sorted.groups)
  <2>1. CASE e \in table BY <2>1 DEF FiledInv
  <2>2. CASE e \notin table
    <3>1. PICK n \in NodesIn(p) :
            e = [kind |-> n.kind, loc |-> n.loc, inds |-> n.inds, windows |-> n.windows, by |-> solves]
      BY <2>2 DEF Looked
    <3>2. Filed(e, sorted.groups) BY <1>4, <3>1
    <3> QED BY <1>3, <3>2
  <2> QED BY <2>1, <2>2
<1> QED BY <1>2, <1>5, ReachedPrimed, FiledPrimed DEF FiledInv

TableInv == PoolInv /\ CoverInv /\ BuiltInv /\ ScriptInv /\ FiledInv

\* A script changes no pool, and what is between scripts no table.
LEMMA TableStep ==
  ASSUME TableInv, [Next]_vars, [PoolNext]_poolVars
  PROVE  TableInv'
<1>1. PoolInv' BY PoolStepInv DEF TableInv
<1>2. CoverInv' BY CoverStep DEF TableInv
<1>3. BuiltInv' BY BuiltStep DEF TableInv
<1>4. ScriptInv' /\ FiledInv'
  <2>1. CASE Open
    <3>1. table' = table /\ phase' # "script" BY <2>1 DEF Open
    <3>2. CASE stage' = "unread"
      <4>1. UNCHANGED poolVars BY <2>1, <3>2 DEF Open, Read
      <4> QED BY <3>1, <4>1, FiledKept DEF TableInv, ScriptInv, poolVars
    <3>3. CASE stage' # "unread"
      <4>1. stage = "unread" \/ UNCHANGED poolVars BY <2>1 DEF Open, Read
      <4>2. CASE stage = "unread" BY <3>1, <3>3, <4>2 DEF TableInv, ScriptInv, FiledInv
      <4>3. CASE UNCHANGED poolVars
        BY <3>1, <3>3, <4>3, FiledKept DEF TableInv, ScriptInv, poolVars
      <4> QED BY <4>1, <4>2, <4>3
    <3> QED BY <3>2, <3>3
  <2>2. CASE Solve
    <3>1. table' = table /\ cargo' = cargo /\ param' = param /\ phase' # "script" /\ stage' = "none"
      BY <2>2 DEF Solve, DropPool
    <3> QED BY <3>1, FiledKept DEF TableInv, ScriptInv
  <2>3. CASE PoolStep
    <3>1. table' = table /\ cargo' = cargo /\ param' = param /\ phase' # "script" /\ stage' # "unread"
      BY <2>3 DEF PoolStep, runVars, StartPool, BuildPool, JoinGroup, NewGroup, EndLoc,
                  PlaceInGroup, PlaceApart, EndLabel, MergeOrders
    <3> QED BY <3>1, FiledKept DEF TableInv, ScriptInv
  <2>4. CASE OpenScript
    <3>1. table' = table /\ UNCHANGED poolVars /\ stage = "done"
          /\ DOMAIN place' = {orders[k].ind : k \in DOMAIN orders}
      BY <2>4 DEF OpenScript
    <3> QED BY <3>1, FiledKept DEF TableInv, ScriptInv, poolVars
  <2>5. CASE Knn \/ Alns
    <3>1. /\ phase = "script" /\ phase' = phase /\ UNCHANGED poolVars
          /\ DOMAIN place' = DOMAIN place /\ Looked(NodesIn(place'))
      BY <2>5 DEF Knn, Alns
    <3>2. FiledInv' BY <3>1, LookedStep DEF TableInv
    <3> QED BY <3>1, <3>2 DEF TableInv, ScriptInv, poolVars
  <2>6. CASE Snapshot \/ EndScript \/ ScriptFails
    <3>1. table' = table /\ UNCHANGED <<poolVars, place>> /\ phase = "script" /\ phase' \in {"script", "ready"}
      BY <2>6 DEF Snapshot, EndScript, ScriptFails
    <3> QED BY <3>1, FiledKept DEF TableInv, ScriptInv, poolVars
  <2>7. CASE UNCHANGED vars
    BY <2>7, FiledKept DEF TableInv, ScriptInv, vars, runVars, poolVars
  <2> QED BY <2>1, <2>2, <2>3, <2>4, <2>5, <2>6, <2>7 DEF Next
<1> QED BY <1>1, <1>2, <1>3, <1>4 DEF TableInv

\* What a lookup may find in the frozen table are the windows of the node that looks, in
\* every call of solve(): the orders of the same indices are the same orders, since a
\* scenario has one pool (prob_problem.cpp:113).
THEOREM SolverTableCurrent == Spec => []TableCurrent
<1>1. Init => TableInv
  <2>1. Init => stage = "unread" /\ table = {} /\ phase = "closed" BY DEF Init, PoolInit
  <2>2. Init => PoolInv /\ CoverInv BY PoolInitInv DEF Init, PoolInit, CoverInv, LocsCover, SortedCover
  <2> QED BY <2>1, <2>2 DEF TableInv, BuiltInv, ScriptInv, FiledInv
<1>2. TableInv /\ [Next]_vars /\ [PoolNext]_poolVars => TableInv' BY TableStep
<1>3. TableInv => TableCurrent BY FiledCurrent DEF TableInv
<1> QED BY <1>1, <1>2, <1>3, SolverBuildsPools, PTL DEF Spec, PoolSpec

----------------------------------------------------------------------------
(* Sums: what SumFunction folds, by the sums of the subsets *)

\* The element that a sum takes next.
Taken(s) == CHOOSE x \in s : TRUE

\* g has the sum of f over each subset of S.
SumsUp(g, f, S) ==
  g = [s \in SUBSET S |-> IF s = {} THEN 0 ELSE f[Taken(s)] + g[s \ {Taken(s)}]]

\* Some set of sets of a finite set is minimal.
LEMMA LeastSet ==
  ASSUME NEW S, IsFiniteSet(S), NEW B, B \subseteq SUBSET S, B # {}
  PROVE  \E x \in B : \A y \in B : y \subseteq x => y = x
<1> DEFINE less == StrictSubsetOrdering(S)
<1>1. B \subseteq FiniteSubsetsOf(S)
  <2>1. \A x \in B : x \in SUBSET S /\ IsFiniteSet(x) BY FS_Subset
  <2> QED BY <2>1 DEF FiniteSubsetsOf
<1>2. IsWellFoundedOn(less, FiniteSubsetsOf(S)) BY FS_StrictSubsetOrderingWellFounded
<1>3. PICK x \in B : \A y \in B : << y, x >> \notin less
  <2> HIDE DEF less
  <2> QED BY <1>1, <1>2, WFMin
<1>4. ASSUME NEW y \in B, y \subseteq x PROVE y = x
  BY <1>3, <1>4 DEF StrictSubsetOrdering
<1> QED BY <1>4

\* A sum takes one element away from what is left to add.
LEMMA TakenSmaller ==
  ASSUME NEW s, s # {}
  PROVE  /\ Taken(s) \in s /\ s \ {Taken(s)} \subseteq s /\ s \ {Taken(s)} # s
<1>1. \E x \in s : TRUE OBVIOUS
<1>2. Taken(s) \in s BY <1>1 DEF Taken
<1> QED BY <1>2

\* The sums are determined.
LEMMA SumsUnique ==
  ASSUME NEW S, IsFiniteSet(S), NEW D, D \subseteq S, NEW f, NEW g, NEW h,
         SumsUp(g, f, S), SumsUp(h, f, D)
  PROVE  \A s \in SUBSET D : g[s] = h[s]
<1> DEFINE bad == {s \in SUBSET D : g[s] # h[s]}
<1>1. SUFFICES ASSUME bad # {} PROVE FALSE OBVIOUS
<1>2. PICK x \in bad : \A y \in bad : y \subseteq x => y = x
  <2>1. bad \subseteq SUBSET S OBVIOUS
  <2> HIDE DEF bad
  <2> QED BY <1>1, <2>1, LeastSet
<1>3. x # {} BY <1>2 DEF SumsUp
<1> DEFINE y == x \ {Taken(x)}
<1>4. y \subseteq x /\ y # x BY <1>3, TakenSmaller
<1>5. g[y] = h[y] BY <1>2, <1>4
<1>6. g[x] = f[Taken(x)] + g[y] /\ h[x] = f[Taken(x)] + h[y] BY <1>2, <1>3 DEF SumsUp
<1> QED BY <1>2, <1>5, <1>6

\* Every finite set can be summed: a least one that could not would have a part that can.
LEMMA SumsExist ==
  ASSUME NEW S, IsFiniteSet(S), NEW f
  PROVE  \E g : SumsUp(g, f, S)
<1> DEFINE bad == {s \in SUBSET S : ~ \E g : SumsUp(g, f, s)}
<1>1. SUFFICES ASSUME bad # {} PROVE FALSE OBVIOUS
<1>2. PICK x \in bad : \A y \in bad : y \subseteq x => y = x
  <2>1. bad \subseteq SUBSET S OBVIOUS
  <2> HIDE DEF bad
  <2> QED BY <1>1, <2>1, LeastSet
<1> DEFINE rest(s) == s \ {Taken(s)}
           sums(s) == CHOOSE g : SumsUp(g, f, s)
           G == [s \in SUBSET x |-> IF s = {} THEN 0 ELSE f[Taken(s)] + sums(rest(s))[rest(s)]]
<1>3. ASSUME NEW s \in SUBSET x, s # {} PROVE SumsUp(sums(rest(s)), f, rest(s))
  <2>1. rest(s) \subseteq x /\ rest(s) # x /\ rest(s) \in SUBSET S
    BY <1>3, TakenSmaller
  <2>2. rest(s) \notin bad BY <1>2, <2>1
  <2>3. \E g : SumsUp(g, f, rest(s)) BY <2>1, <2>2
  <2> QED BY <2>3
<1>4. ASSUME NEW s \in SUBSET x, s # {} PROVE sums(rest(s))[rest(s)] = G[rest(s)]
  <2> DEFINE t == rest(s)
             g == sums(t)
  <2>1. t \in SUBSET x /\ SumsUp(g, f, t) BY <1>3, <1>4, TakenSmaller
  <2>2. CASE t = {}
    <3>1. g[t] = 0 BY <2>1, <2>2 DEF SumsUp
    <3> QED BY <2>1, <2>2, <3>1
  <2>3. CASE t # {}
    <3> DEFINE u == rest(t)
               h == sums(u)
    <3>1. u \in SUBSET t /\ SumsUp(h, f, u) BY <1>3, <2>1, <2>3, TakenSmaller
    <3>2. g[t] = f[Taken(t)] + g[u] BY <2>1, <2>3 DEF SumsUp
    <3>3. IsFiniteSet(t) BY <2>1, FS_Subset
    <3> HIDE DEF g, h, t
    <3>4. g[u] = h[u]
      <4> HIDE DEF u
      <4> QED BY <2>1, <3>1, <3>3, SumsUnique
    <3>5. G[t] = f[Taken(t)] + h[u] BY <2>1, <2>3 DEF h
    <3> QED BY <3>2, <3>4, <3>5 DEF g, t
  <2> QED BY <2>2, <2>3
<1>5. G = [s \in SUBSET x |-> IF s = {} THEN 0 ELSE f[Taken(s)] + G[rest(s)]]
  <2> HIDE DEF G, sums
  <2>1. \A s \in SUBSET x : s # {} => sums(rest(s))[rest(s)] = G[rest(s)] BY <1>4
  <2> HIDE DEF rest
  <2> QED BY <2>1 DEF G
<1>6. SumsUp(G, f, x) BY <1>5 DEF SumsUp
<1> HIDE DEF G
<1> QED BY <1>2, <1>6

\* The sum of the community modules is such a sum over the whole domain.
LEMMA SumOf ==
  ASSUME NEW f, IsFiniteSet(DOMAIN f)
  PROVE  \E g : SumsUp(g, f, DOMAIN f) /\ SumFunction(f) = g[DOMAIN f]
<1>1. SumFunction(f) = (CHOOSE g : SumsUp(g, f, DOMAIN f))[DOMAIN f]
  BY DEF SumFunction, SumFunctionOnSet, FoldFunctionOnSet, MapThenFoldSet, SumsUp, Taken
<1>2. SumsUp(CHOOSE g : SumsUp(g, f, DOMAIN f), f, DOMAIN f) BY SumsExist
<1> QED BY <1>1, <1>2

\* The sum of f over S.
Total(f, S) == SumFunction([x \in S |-> f[x]])

\* It takes one element of S, and sums the others.
LEMMA TotalTakes ==
  ASSUME NEW S, IsFiniteSet(S), NEW f
  PROVE  /\ Total(f, {}) = 0
         /\ S # {} => Total(f, S) = f[Taken(S)] + Total(f, S \ {Taken(S)})
<1>1. PICK g : SumsUp(g, f, S) BY SumsExist
<1>2. ASSUME NEW s \in SUBSET S PROVE Total(f, s) = g[s]
  <2> DEFINE r == [x \in s |-> f[x]]
  <2>1. IsFiniteSet(s) /\ DOMAIN r = s BY FS_Subset
  <2>2. PICK h : SumsUp(h, r, s) /\ SumFunction(r) = h[s]
    <3> HIDE DEF r
    <3> QED BY <2>1, SumOf
  <2>3. SumsUp(h, f, s)
    <3>1. \A t \in SUBSET s : t # {} => r[Taken(t)] = f[Taken(t)] BY TakenSmaller
    <3> HIDE DEF r
    <3>2. h = [t \in SUBSET s |-> IF t = {} THEN 0 ELSE r[Taken(t)] + h[t \ {Taken(t)}]]
      BY <2>2 DEF SumsUp
    <3>3. [t \in SUBSET s |-> IF t = {} THEN 0 ELSE r[Taken(t)] + h[t \ {Taken(t)}]]
          = [t \in SUBSET s |-> IF t = {} THEN 0 ELSE f[Taken(t)] + h[t \ {Taken(t)}]]
      BY <3>1
    <3> QED BY <3>2, <3>3 DEF SumsUp
  <2>4. g[s] = h[s]
    <3> HIDE DEF r
    <3>1. s \subseteq S OBVIOUS
    <3> QED BY <1>1, <2>3, <3>1, SumsUnique
  <2> QED BY <2>2, <2>4 DEF Total
<1>3. g[{}] = 0 BY <1>1 DEF SumsUp
<1>4. ASSUME S # {} PROVE g[S] = f[Taken(S)] + g[S \ {Taken(S)}]
  BY <1>1, <1>4 DEF SumsUp
<1>5. S \ {Taken(S)} \in SUBSET S /\ {} \in SUBSET S /\ S \in SUBSET S OBVIOUS
<1> QED BY <1>2, <1>3, <1>4, <1>5

\* A sum of integers is one.
LEMMA TotalType ==
  ASSUME NEW S, IsFiniteSet(S), NEW f, \A x \in S : f[x] \in Int
  PROVE  Total(f, S) \in Int
<1> DEFINE bad == {s \in SUBSET S : Total(f, s) \notin Int}
<1>1. SUFFICES ASSUME bad # {} PROVE FALSE OBVIOUS
<1>2. PICK x \in bad : \A y \in bad : y \subseteq x => y = x
  <2>1. bad \subseteq SUBSET S OBVIOUS
  <2> HIDE DEF bad
  <2> QED BY <1>1, <2>1, LeastSet
<1>3. IsFiniteSet(x) BY <1>2, FS_Subset
<1>4. x # {}
  <2>1. Total(f, {}) = 0 BY TotalTakes
  <2>2. {} \notin bad BY <2>1
  <2> QED BY <1>2, <2>2
<1> DEFINE y == x \ {Taken(x)}
<1>5. y \subseteq x /\ y # x /\ Taken(x) \in x BY <1>4, TakenSmaller
<1>6. Total(f, y) \in Int BY <1>2, <1>5
<1>7. f[Taken(x)] \in Int BY <1>2, <1>5
<1>8. Total(f, x) = f[Taken(x)] + Total(f, y) BY <1>3, <1>4, TotalTakes
<1> QED BY <1>2, <1>6, <1>7, <1>8

\* Whichever element it takes.
LEMMA TotalRemove ==
  ASSUME NEW S, IsFiniteSet(S), NEW f, \A x \in S : f[x] \in Int, NEW e \in S
  PROVE  Total(f, S) = f[e] + Total(f, S \ {e})
<1> DEFINE wrong(s) == \E x \in s : Total(f, s) # f[x] + Total(f, s \ {x})
           bad == {s \in SUBSET S : wrong(s)}
<1>1. SUFFICES ASSUME bad # {} PROVE FALSE OBVIOUS
<1>2. PICK s \in bad : \A y \in bad : y \subseteq s => y = s
  <2>1. bad \subseteq SUBSET S OBVIOUS
  <2> HIDE DEF bad
  <2> QED BY <1>1, <2>1, LeastSet
<1>3. PICK x \in s : Total(f, s) # f[x] + Total(f, s \ {x}) BY <1>2
<1> DEFINE y == Taken(s)
<1>4. y \in s /\ Total(f, s) = f[y] + Total(f, s \ {y})
  <2>1. IsFiniteSet(s) BY <1>2, FS_Subset
  <2> QED BY <1>3, <2>1, TotalTakes, TakenSmaller
<1>5. x # y BY <1>3, <1>4
<1>6. Total(f, s \ {y}) = f[x] + Total(f, (s \ {y}) \ {x})
  <2>1. s \ {y} \notin bad BY <1>2, <1>4
  <2> QED BY <1>2, <1>3, <1>5, <2>1
<1>7. Total(f, s \ {x}) = f[y] + Total(f, (s \ {x}) \ {y})
  <2>1. s \ {x} \notin bad BY <1>2, <1>3
  <2> QED BY <1>2, <1>4, <1>5, <2>1
<1>8. (s \ {y}) \ {x} = (s \ {x}) \ {y} OBVIOUS
<1>9. f[x] \in Int /\ f[y] \in Int /\ Total(f, (s \ {x}) \ {y}) \in Int
  <2>1. IsFiniteSet((s \ {x}) \ {y}) /\ \A z \in (s \ {x}) \ {y} : f[z] \in Int
    BY <1>2, FS_Subset
  <2> QED BY <1>2, <1>3, <1>4, <2>1, TotalType
<1> HIDE DEF y, bad
<1>10. Total(f, s) = f[y] + (f[x] + Total(f, (s \ {x}) \ {y})) BY <1>4, <1>6, <1>8
<1>11. Total(f, s) = f[x] + (f[y] + Total(f, (s \ {x}) \ {y})) BY <1>9, <1>10
<1> QED BY <1>3, <1>7, <1>11

\* The sum of a set with a part of its own.
LEMMA TotalUnion ==
  ASSUME NEW A, IsFiniteSet(A), NEW B, IsFiniteSet(B), A \cap B = {},
         NEW f, \A x \in A \cup B : f[x] \in Int
  PROVE  Total(f, A \cup B) = Total(f, A) + Total(f, B)
<1> DEFINE bad == {s \in SUBSET B : Total(f, A \cup s) # Total(f, A) + Total(f, s)}
<1>1. SUFFICES ASSUME bad # {} PROVE FALSE OBVIOUS
<1>2. PICK s \in bad : \A y \in bad : y \subseteq s => y = s
  <2>1. bad \subseteq SUBSET B OBVIOUS
  <2> HIDE DEF bad
  <2> QED BY <1>1, <2>1, LeastSet
<1>3. IsFiniteSet(s) /\ IsFiniteSet(A \cup s) BY <1>2, FS_Subset, FS_Union
<1>4. Total(f, A) \in Int /\ Total(f, {}) = 0 BY TotalType, TotalTakes
<1>5. s # {}
  <2>1. A \cup {} = A OBVIOUS
  <2>2. {} \notin bad BY <1>4, <2>1
  <2> QED BY <1>2, <2>2
<1>6. PICK x \in s : TRUE BY <1>5
<1> DEFINE t == s \ {x}
<1>7. Total(f, s) = f[x] + Total(f, t) BY <1>2, <1>3, <1>6, TotalRemove
<1>8. Total(f, A \cup s) = f[x] + Total(f, A \cup t)
  <2>1. (A \cup s) \ {x} = A \cup t BY <1>2, <1>6
  <2>2. x \in A \cup s /\ \A z \in A \cup s : f[z] \in Int BY <1>2, <1>6
  <2> HIDE DEF t
  <2> QED BY <1>3, <2>1, <2>2, TotalRemove
<1>9. Total(f, A \cup t) = Total(f, A) + Total(f, t) BY <1>2, <1>6
<1>10. f[x] \in Int /\ Total(f, t) \in Int
  <2>1. IsFiniteSet(t) /\ \A z \in t : f[z] \in Int BY <1>2, <1>3, FS_Subset
  <2> QED BY <1>2, <1>6, <2>1, TotalType
<1> HIDE DEF t, bad
<1>11. Total(f, A \cup s) = Total(f, A) + Total(f, s) BY <1>4, <1>7, <1>8, <1>9, <1>10
<1> QED BY <1>2, <1>11 DEF bad

\* The elements of S that h takes to t, and the sum over each such part.
Part(S, h, t) == {x \in S : h[x] = t}
PartTotals(f, S, h, D) == [t \in D |-> Total(f, Part(S, h, t))]

\* A sum may be taken part by part.
LEMMA TotalParts ==
  ASSUME NEW S, IsFiniteSet(S), NEW D, IsFiniteSet(D), NEW h, \A x \in S : h[x] \in D,
         NEW f, \A x \in S : f[x] \in Int
  PROVE  Total(PartTotals(f, S, h, D), D) = Total(f, S)
<1> DEFINE F == PartTotals(f, S, h, D)
           over(s) == {x \in S : h[x] \in s}
           bad == {s \in SUBSET D : Total(F, s) # Total(f, over(s))}
<1>0. over(D) = S OBVIOUS
<1>1. SUFFICES ASSUME bad # {} PROVE FALSE BY <1>0
<1>2. PICK s \in bad : \A y \in bad : y \subseteq s => y = s
  <2>1. bad \subseteq SUBSET D OBVIOUS
  <2> HIDE DEF bad
  <2> QED BY <1>1, <2>1, LeastSet
<1>3. IsFiniteSet(s) BY <1>2, FS_Subset
<1>4. \A t : /\ IsFiniteSet(Part(S, h, t)) /\ IsFiniteSet(over(t))
             /\ Total(f, Part(S, h, t)) \in Int
  <2> TAKE t
  <2>1. IsFiniteSet(Part(S, h, t)) /\ \A x \in Part(S, h, t) : f[x] \in Int BY FS_Subset DEF Part
  <2>2. IsFiniteSet(over(t)) BY FS_Subset
  <2> QED BY <2>1, <2>2, TotalType
<1>5. s # {}
  <2>1. over({}) = {} OBVIOUS
  <2> QED BY <1>2, <1>3, <2>1, TotalTakes
<1>6. PICK t \in s : TRUE BY <1>5
<1> DEFINE r == s \ {t}
<1>7. Total(F, s) = Total(f, Part(S, h, t)) + Total(F, r)
  <2>1. \A x \in s : F[x] \in Int BY <1>2, <1>4 DEF PartTotals
  <2>2. F[t] = Total(f, Part(S, h, t)) BY <1>2, <1>6 DEF PartTotals
  <2> HIDE DEF F
  <2> QED BY <1>3, <1>6, <2>1, <2>2, TotalRemove
<1>8. Total(f, over(s)) = Total(f, Part(S, h, t)) + Total(f, over(r))
  <2>1. over(s) = Part(S, h, t) \cup over(r) /\ Part(S, h, t) \cap over(r) = {}
    BY <1>6 DEF Part
  <2>2. \A x \in Part(S, h, t) \cup over(r) : f[x] \in Int BY DEF Part
  <2>3. IsFiniteSet(Part(S, h, t)) /\ IsFiniteSet(over(r)) BY <1>4
  <2> HIDE DEF over, r
  <2> QED BY <2>1, <2>2, <2>3, TotalUnion
<1>9. Total(F, r) = Total(f, over(r)) BY <1>2, <1>6
<1> HIDE DEF F, over, r
<1> QED BY <1>2, <1>7, <1>8, <1>9

\* A sum depends on the values only.
LEMMA TotalSame ==
  ASSUME NEW S, NEW f, NEW g, \A x \in S : f[x] = g[x]
  PROVE  Total(f, S) = Total(g, S)
<1>1. [x \in S |-> f[x]] = [x \in S |-> g[x]] OBVIOUS
<1> QED BY <1>1 DEF Total

LEMMA TotalSingle ==
  ASSUME NEW e, NEW f, f[e] \in Int
  PROVE  Total(f, {e}) = f[e]
<1>1. IsFiniteSet({e}) /\ {e} \ {e} = {} BY FS_Singleton
<1>2. Total(f, {e}) = f[e] + Total(f, {}) BY <1>1, TotalRemove
<1>3. Total(f, {}) = 0 BY <1>1, TotalTakes
<1> QED BY <1>2, <1>3

\* Not on what is summed over, as long as each value is met as often.
LEMMA TotalMoved ==
  ASSUME NEW S, IsFiniteSet(S), NEW D, NEW h, NEW f, NEW g,
         \A x \in S : h[x] \in D /\ g[h[x]] = f[x] /\ f[x] \in Int,
         \A x, y \in S : h[x] = h[y] => x = y,
         \A t \in D : \E x \in S : h[x] = t
  PROVE  IsFiniteSet(D) /\ Total(g, D) = Total(f, S)
<1>1. IsFiniteSet(D)
  <2> DEFINE b == [x \in S |-> h[x]]
  <2>1. b \in Surjection(S, D) BY DEF Surjection
  <2> QED BY <2>1, FS_Surjection
<1>2. Total(PartTotals(f, S, h, D), D) = Total(f, S) BY <1>1, TotalParts
<1>3. ASSUME NEW t \in D PROVE PartTotals(f, S, h, D)[t] = g[t]
  <2>1. PICK x \in S : h[x] = t OBVIOUS
  <2>2. Part(S, h, t) = {x} BY <2>1 DEF Part
  <2>3. Total(f, {x}) = f[x] BY TotalSingle
  <2> QED BY <2>1, <2>2, <2>3 DEF PartTotals
<1>4. Total(PartTotals(f, S, h, D), D) = Total(g, D) BY <1>3, TotalSame
<1> QED BY <1>1, <1>2, <1>4

\* A set has as many elements as it sums ones.
LEMMA TotalOnes ==
  ASSUME NEW S, IsFiniteSet(S), NEW f, \A x \in S : f[x] = 1
  PROVE  Total(f, S) = Cardinality(S)
<1> DEFINE bad == {s \in SUBSET S : Total(f, s) # Cardinality(s)}
<1>1. SUFFICES ASSUME bad # {} PROVE FALSE OBVIOUS
<1>2. PICK s \in bad : \A y \in bad : y \subseteq s => y = s
  <2>1. bad \subseteq SUBSET S OBVIOUS
  <2> HIDE DEF bad
  <2> QED BY <1>1, <2>1, LeastSet
<1>3. IsFiniteSet(s) BY <1>2, FS_Subset
<1>4. s # {} BY <1>2, <1>3, TotalTakes, FS_EmptySet
<1>5. PICK x \in s : TRUE BY <1>4
<1>6. Total(f, s) = f[x] + Total(f, s \ {x}) BY <1>2, <1>3, TotalRemove
<1>7. Total(f, s \ {x}) = Cardinality(s \ {x}) BY <1>2, <1>5
<1>8. Cardinality(s \ {x}) = Cardinality(s) - 1 /\ Cardinality(s) \in Nat
  BY <1>3, FS_RemoveElement, FS_CardinalityType
<1> QED BY <1>2, <1>6, <1>7, <1>8

\* The pairs of an element of K and one of its set.
PairsOver(K, S) == UNION {{<<k, x>> : x \in S[k]} : k \in K}

\* The pairs of k and an element of X.
PairsOf(k, X) == {<<k, x>> : x \in X}

LEMMA TotalSlice ==
  ASSUME NEW k, NEW X, IsFiniteSet(X), NEW f, NEW w, \A x \in X : f[x] = w[<<k, x>>] /\ f[x] \in Int
  PROVE  IsFiniteSet(PairsOf(k, X)) /\ Total(w, PairsOf(k, X)) = Total(f, X)
<1> DEFINE Y == {<<k, x>> : x \in X}
           move == [x \in X |-> <<k, x>>]
<1>1. \A x \in X : move[x] \in Y /\ w[move[x]] = f[x] /\ f[x] \in Int OBVIOUS
<1>2. \A x, y \in X : move[x] = move[y] => x = y OBVIOUS
<1>3. \A t \in Y : \E x \in X : move[x] = t OBVIOUS
<1> HIDE DEF move, Y
<1>4. IsFiniteSet(Y) /\ Total(w, Y) = Total(f, X) BY <1>1, <1>2, <1>3, TotalMoved
<1> QED BY <1>4 DEF Y, PairsOf

\* A sum over pairs may be taken by their first parts.
LEMMA TotalPairs ==
  ASSUME NEW K, IsFiniteSet(K), NEW S, NEW w, \A y \in PairsOver(K, S) : w[y] \in Int,
         NEW v, \A k \in K : IsFiniteSet(PairsOf(k, S[k])) /\ Total(w, PairsOf(k, S[k])) = v[k]
  PROVE  IsFiniteSet(PairsOver(K, S)) /\ Total(w, PairsOver(K, S)) = Total(v, K)
<1> DEFINE P == PairsOver(K, S)
           slice(k) == {<<k, x>> : x \in S[k]}
           h == [y \in P |-> y[1]]
<1>1. ASSUME NEW k \in K
      PROVE  IsFiniteSet(slice(k)) /\ Total(w, slice(k)) = v[k]
  BY DEF PairsOf
<1>2. IsFiniteSet(P)
  <2>1. IsFiniteSet({slice(k) : k \in K})
    <3> DEFINE b == [k \in K |-> slice(k)]
    <3> HIDE DEF slice
    <3>1. b \in Surjection(K, {slice(k) : k \in K}) BY DEF Surjection
    <3> HIDE DEF b
    <3> QED BY <3>1, FS_Surjection
  <2>2. P = UNION {slice(k) : k \in K} BY DEF PairsOver
  <2>3. \A s \in {slice(k) : k \in K} : IsFiniteSet(s) BY <1>1
  <2> HIDE DEF P, slice
  <2> QED BY <2>1, <2>2, <2>3, FS_UNION
<1>3. \A y \in P : h[y] \in K BY DEF PairsOver
<1>4. ASSUME NEW k \in K PROVE PartTotals(w, P, h, K)[k] = v[k]
  <2>1. Part(P, h, k) = slice(k)
    <3>1. ASSUME NEW y \in P, h[y] = k PROVE y \in slice(k)
      <4>1. PICK l \in K : \E x \in S[l] : y = <<l, x>> BY DEF PairsOver
      <4>2. PICK x \in S[l] : y = <<l, x>> BY <4>1
      <4> QED BY <3>1, <4>2
    <3>2. \A y \in slice(k) : y \in P /\ h[y] = k BY DEF PairsOver
    <3> HIDE DEF P, h, slice
    <3> QED BY <3>1, <3>2 DEF Part
  <2> HIDE DEF slice, P, h
  <2> QED BY <1>1, <2>1 DEF PartTotals
<1> HIDE DEF P, h
<1>5. Total(PartTotals(w, P, h, K), K) = Total(w, P)
  <2>1. \A y \in P : w[y] \in Int BY DEF P
  <2> QED BY <1>2, <1>3, <2>1, TotalParts
<1>6. Total(PartTotals(w, P, h, K), K) = Total(v, K) BY <1>4, TotalSame
<1> QED BY <1>2, <1>5, <1>6 DEF P

----------------------------------------------------------------------------
(* The plan of a call *)

\* What is read is a case that is accepted.
CaseInv ==
  /\ case \in Cases
  /\ stage # "unread" => /\ T!ScenarioAccepted(case)
                         /\ \E r \in ReadingsOf(case) : cargo = r.cargo /\ param = r.param

\* The sub orders of a cargo order are its dimensions, and no other has its code.
LEMMA CargoRead ==
  ASSUME CaseInv, stage # "unread"
  PROVE  /\ param.dims = DOMAIN case.dims
         /\ \A c \in DOMAIN cargo :
              cargo[c].dims = [d \in DOMAIN case.dims |->
                 SumFunction([sub \in SubsOf(case, cargo[c].code) |-> T!SubDims(case, sub)[d]])]
         /\ \A c, e \in DOMAIN cargo : cargo[c].code = cargo[e].code => c = e
<1>1. PICK r \in ReadingsOf(case) : cargo = r.cargo /\ param = r.param BY DEF CaseInv
<1>2. /\ DOMAIN cargo = DOMAIN case.cargo /\ param.dims = DOMAIN case.dims
      /\ \A c \in DOMAIN cargo : \E f : cargo[c] = CargoOrder(case, case.cargo[c], f)
  BY <1>1 DEF ReadingsOf
<1>3. ASSUME NEW c \in DOMAIN cargo
      PROVE  /\ cargo[c].code = case.cargo[c].code
             /\ cargo[c].dims = [d \in DOMAIN case.dims |->
                  SumFunction([sub \in SubsOf(case, case.cargo[c].code) |-> T!SubDims(case, sub)[d]])]
  <2>1. PICK f : cargo[c] = CargoOrder(case, case.cargo[c], f) BY <1>2
  <2> QED BY <2>1 DEF CargoOrder
<1>4. T!Distinct(case.cargo) BY DEF CaseInv, T!ScenarioAccepted, T!CargoAccepted
<1>5. \A c, e \in DOMAIN cargo : cargo[c].code = cargo[e].code => c = e
  BY <1>2, <1>3, <1>4 DEF T!Distinct
<1>6. ASSUME NEW c \in DOMAIN cargo
      PROVE  cargo[c].dims = [d \in DOMAIN case.dims |->
               SumFunction([sub \in SubsOf(case, cargo[c].code) |-> T!SubDims(case, sub)[d]])]
  <2>1. cargo[c].code = case.cargo[c].code BY <1>3
  <2> QED BY <1>3, <2>1
<1> QED BY <1>2, <1>5, <1>6

\* The rows of the sub orders are numbers.
LEMMA SubsRead ==
  ASSUME CaseInv, stage # "unread"
  PROVE  /\ IsFiniteSet(T!Rows(case.subs))
         /\ \A sub \in T!Rows(case.subs) : \A d \in DOMAIN case.dims : T!SubDims(case, sub)[d] \in Int
<1>1. /\ DOMAIN case.subs = 1 .. Len(case.subs) /\ Len(case.subs) \in Nat
      /\ \A sub \in T!Rows(case.subs) : T!SubDims(case, sub) \in [DOMAIN case.dims -> Int]
  BY FilesAssumption DEF CaseInv
<1>2. IsFiniteSet(DOMAIN case.subs) BY <1>1, FS_Interval
<1>3. IsFiniteSet(T!Rows(case.subs))
  <2> DEFINE b == [k \in DOMAIN case.subs |-> case.subs[k]]
  <2>1. b \in Surjection(DOMAIN case.subs, T!Rows(case.subs)) BY DEF Surjection, T!Rows
  <2> HIDE DEF b
  <2> QED BY <1>2, <2>1, FS_Surjection
<1> QED BY <1>1, <1>3

\* What is known of the orders of a pool.
OrdersKnown ==
  /\ DOMAIN orders = 1 .. Len(orders) /\ Len(orders) \in Nat
  /\ \A k \in DOMAIN orders :
       /\ orders[k] = Order(k - 1, orders[k].cargo)
       /\ orders[k].cargo \in Members
       /\ \A i, j \in DOMAIN orders[k].cargo :
            orders[k].cargo[i] = orders[k].cargo[j] => i = j

LEMMA PoolKnown ==
  ASSUME PoolInv, CoverInv, BuiltInv, stage = "done"
  PROVE  OrdersKnown
<1> DEFINE g == sorted.groups
<1>1. orders = [k \in DOMAIN g |-> Order(k - 1, g[k])] BY DEF BuiltInv, OrdersBuilt
<1>2. DOMAIN g = 1 .. Len(g) /\ Len(g) \in Nat BY GroupsType
<1>3. g \in Seq(Members)
  <2>1. CASE param.grouped BY <2>1 DEF PoolInv, SortedInv, Sorting, Shape
  <2>2. CASE ~ param.grouped
    <3>1. g = locs BY <2>2 DEF CoverInv, SortedCover
    <3> QED BY <3>1 DEF PoolInv, LocsType
  <2> QED BY <2>1, <2>2
<1>4. DOMAIN orders = 1 .. Len(orders) /\ Len(orders) \in Nat
  <2>1. DOMAIN orders = 1 .. Len(g) BY <1>1, <1>2
  <2> HIDE DEF g
  <2>2. orders \in Seq({orders[k] : k \in DOMAIN orders}) BY <1>2, <2>1, <1>1
  <2> QED BY <2>2
<1>5. ASSUME NEW k \in DOMAIN orders
      PROVE  orders[k] = Order(k - 1, orders[k].cargo) /\ orders[k].cargo = g[k]
  <2>1. orders[k] = Order(k - 1, g[k]) BY <1>1
  <2>2. orders[k].cargo = g[k] BY <2>1 DEF Order
  <2> QED BY <2>1, <2>2
<1>6. ASSUME NEW k \in DOMAIN orders PROVE orders[k].cargo \in Members
  <2>1. k \in DOMAIN g BY <1>1
  <2> HIDE DEF g
  <2>2. g[k] \in Members BY <1>2, <1>3, <2>1
  <2> QED BY <1>5, <2>2
<1>7. \A k \in DOMAIN orders : \A i, j \in DOMAIN orders[k].cargo :
        orders[k].cargo[i] = orders[k].cargo[j] => i = j
  BY CoverInvCovers DEF PoolCovers
<1> QED BY <1>4, <1>5, <1>6, <1>7 DEF OrdersKnown

\* Where a script may have put the orders.
Placing(p) == p \in [{orders[k].ind : k \in DOMAIN orders} -> Places]

\* The orders that p has at u.
PutAt(p, u) == {k \in DOMAIN orders : p[k - 1] = u}

LEMMA OrdersPlaced ==
  ASSUME OrdersKnown, NEW p, Placing(p)
  PROVE  /\ IsFiniteSet(DOMAIN orders)
         /\ \A k \in DOMAIN orders : /\ orders[k].ind = k - 1 /\ k - 1 \in DOMAIN p /\ OrderAt(k - 1) = orders[k]
                                     /\ p[k - 1] \in Places
         /\ \A i \in DOMAIN p : /\ i + 1 \in DOMAIN orders /\ OrderAt(i) = orders[i + 1] /\ (i + 1) - 1 = i
                                /\ orders[i + 1].ind = i
         /\ \A k, l \in DOMAIN orders : orders[k] = orders[l] => k = l
         /\ \A u : Load(p, u) = {orders[k] : k \in PutAt(p, u)}
<1>1. IsFiniteSet(DOMAIN orders) BY FS_Interval DEF OrdersKnown
<1>2. \A k \in DOMAIN orders : orders[k].ind = k - 1 /\ k \in Nat \ {0}
  <2>1. \A i, m : Order(i, m).ind = i BY DEF Order
  <2>2. \A k \in DOMAIN orders : orders[k].ind = k - 1 BY <2>1 DEF OrdersKnown
  <2>3. \A k \in DOMAIN orders : k \in Nat \ {0} BY DEF OrdersKnown
  <2> QED BY <2>2, <2>3
<1>3. DOMAIN p = {k - 1 : k \in DOMAIN orders} BY <1>2 DEF Placing
<1>4. \A k \in DOMAIN orders : /\ k - 1 \in DOMAIN p /\ OrderAt(k - 1) = orders[k] /\ p[k - 1] \in Places
  BY <1>2, <1>3 DEF OrderAt, Placing
<1>5. ASSUME NEW i \in DOMAIN p
      PROVE  i + 1 \in DOMAIN orders /\ OrderAt(i) = orders[i + 1] /\ (i + 1) - 1 = i /\ orders[i + 1].ind = i
  <2>1. PICK k \in DOMAIN orders : i = k - 1 BY <1>3
  <2> QED BY <1>2, <2>1 DEF OrderAt
<1>6. \A k, l \in DOMAIN orders : orders[k] = orders[l] => k = l
  <2> SUFFICES ASSUME NEW k \in DOMAIN orders, NEW l \in DOMAIN orders, orders[k] = orders[l]
               PROVE  k = l
    OBVIOUS
  <2>1. k - 1 = l - 1 /\ k \in Nat /\ l \in Nat BY <1>2
  <2> QED BY <2>1
<1>7. ASSUME NEW u PROVE Load(p, u) = {orders[k] : k \in PutAt(p, u)}
  <2>1. \A o \in Load(p, u) : \E k \in PutAt(p, u) : o = orders[k]
    <3> SUFFICES ASSUME NEW i \in DOMAIN p, p[i] = u
                 PROVE  \E k \in PutAt(p, u) : OrderAt(i) = orders[k]
      BY DEF Load
    <3>1. i + 1 \in PutAt(p, u) BY <1>5 DEF PutAt
    <3> QED BY <1>5, <3>1
  <2>2. \A k \in PutAt(p, u) : orders[k] \in Load(p, u)
    <3> SUFFICES ASSUME NEW k \in PutAt(p, u) PROVE orders[k] \in Load(p, u)
      OBVIOUS
    <3>1. k - 1 \in DOMAIN p /\ p[k - 1] = u /\ OrderAt(k - 1) = orders[k] BY <1>4 DEF PutAt
    <3> QED BY <3>1 DEF Load
  <2> QED BY <2>1, <2>2
<1> QED BY <1>1, <1>2, <1>4, <1>5, <1>6, <1>7

\* A plan is written in a call that has read a case and built its pool.
PlanReady == CaseInv /\ stage # "unread" /\ OrdersKnown

\* Vehicles are numbered from 1: no unit stands for the orders in no load.
LEMMA UnitsKnown ==
  ASSUME CaseInv
  PROVE  Unassigned \notin Units /\ Refused \notin Units /\ Unassigned # Refused
<1>1. DOMAIN Fleet \subseteq Nat \ {0}
  <2>1. DOMAIN case.vehicles = 1 .. Len(case.vehicles) /\ Len(case.vehicles) \in Nat
    BY FilesAssumption DEF CaseInv
  <2> QED BY <2>1 DEF Fleet, T!Vehicles
<1>2. ASSUME NEW u \in Units PROVE u # Unassigned /\ u # Refused
  <2>1. PICK v \in DOMAIN Fleet : \E n \in 1 .. Fleet[v].count : u = <<v, n>> BY DEF Units
  <2>2. v # 0 BY <1>1, <2>1
  <2> QED BY <2>1, <2>2 DEF Unassigned, Refused
<1> QED BY <1>2 DEF Unassigned, Refused

\* The orders p has in loads, and where.
Loaded(p) == {k \in DOMAIN orders : p[k - 1] \in Units}
PlaceOf(p) == [k \in DOMAIN orders |-> p[k - 1]]

LEMMA LoadsPlaced ==
  ASSUME PlanReady, NEW p, Placing(p)
  PROVE  /\ IsFiniteSet(Loaded(p)) /\ IsFiniteSet(LoadsOf(p))
         /\ \A u : IsFiniteSet(PutAt(p, u))
         /\ \A k \in Loaded(p) : PlaceOf(p)[k] \in LoadsOf(p)
         /\ \A u \in LoadsOf(p) : Part(Loaded(p), PlaceOf(p), u) = PutAt(p, u) /\ u \in Units
         /\ Loaded(p) \cap PutAt(p, Unassigned) = {}
         /\ {k \in DOMAIN orders : p[k - 1] # Refused} = Loaded(p) \cup PutAt(p, Unassigned)
<1>1. IsFiniteSet(Loaded(p)) /\ \A u : IsFiniteSet(PutAt(p, u))
  BY OrdersPlaced, FS_Subset DEF Loaded, PutAt, PlanReady
<1>2. ASSUME NEW k \in Loaded(p) PROVE PlaceOf(p)[k] \in LoadsOf(p)
  <2>1. k \in PutAt(p, p[k - 1]) /\ p[k - 1] \in Units BY DEF Loaded, PutAt
  <2>2. orders[k] \in Load(p, p[k - 1]) BY <2>1, OrdersPlaced DEF PlanReady
  <2> QED BY <2>1, <2>2 DEF LoadsOf, PlaceOf, Loaded
<1>3. ASSUME NEW u \in LoadsOf(p)
      PROVE  u \in Units /\ Part(Loaded(p), PlaceOf(p), u) = PutAt(p, u)
  BY DEF LoadsOf, Part, Loaded, PlaceOf, PutAt
<1>4. IsFiniteSet(LoadsOf(p))
  <2> DEFINE b == [k \in Loaded(p) |-> PlaceOf(p)[k]]
  <2>1. ASSUME NEW u \in LoadsOf(p) PROVE \E k \in Loaded(p) : b[k] = u
    <3>1. Load(p, u) = {orders[k] : k \in PutAt(p, u)} BY OrdersPlaced DEF PlanReady
    <3>2. PICK k \in PutAt(p, u) : TRUE BY <3>1 DEF LoadsOf
    <3>3. k \in Loaded(p) /\ PlaceOf(p)[k] = u BY <1>3, <3>2 DEF PutAt, Loaded, PlaceOf
    <3> QED BY <3>3
  <2>2. b \in Surjection(Loaded(p), LoadsOf(p)) BY <1>2, <2>1 DEF Surjection
  <2> HIDE DEF b
  <2> QED BY <1>1, <2>2, FS_Surjection
<1>5. Loaded(p) \cap PutAt(p, Unassigned) = {}
  BY UnitsKnown DEF Loaded, PutAt, PlanReady
<1>6. {k \in DOMAIN orders : p[k - 1] # Refused} = Loaded(p) \cup PutAt(p, Unassigned)
  <2>1. \A k \in DOMAIN orders : p[k - 1] \in Units \cup {Unassigned, Refused}
    BY OrdersPlaced DEF PlanReady, Places
  <2>2. Refused \notin Units /\ Unassigned # Refused BY UnitsKnown DEF PlanReady
  <2> QED BY <2>1, <2>2 DEF Loaded, PutAt
<1> QED BY <1>1, <1>2, <1>3, <1>4, <1>5, <1>6

\* What a set of orders adds up to, by their positions.
LEMMA OrdersTotal ==
  ASSUME PlanReady, NEW p, Placing(p), NEW u,
         NEW f, \A k \in DOMAIN orders : f[k] \in Int,
         NEW g, \A k \in DOMAIN orders : g[orders[k]] = f[k]
  PROVE  Total(g, Load(p, u)) = Total(f, PutAt(p, u))
<1> DEFINE S == PutAt(p, u)
           D == Load(p, u)
<1>1. IsFiniteSet(S) BY LoadsPlaced
<1>2. D = {orders[k] : k \in S} BY OrdersPlaced DEF PlanReady
<1>3. \A k \in S : k \in DOMAIN orders BY DEF PutAt
<1>4. \A k \in S : orders[k] \in D /\ g[orders[k]] = f[k] /\ f[k] \in Int BY <1>2, <1>3
<1>5. \A k, l \in S : orders[k] = orders[l] => k = l BY <1>3, OrdersPlaced DEF PlanReady
<1>6. \A t \in D : \E k \in S : orders[k] = t BY <1>2
<1> HIDE DEF S, D
<1>7. Total(g, D) = Total(f, S) BY <1>1, <1>4, <1>5, <1>6, TotalMoved
<1> QED BY <1>7 DEF S, D

\* The number of cargo orders of each order.
Sizes == [k \in DOMAIN orders |-> Len(orders[k].cargo)]

LEMMA SizesType ==
  ASSUME OrdersKnown
  PROVE  \A k \in DOMAIN orders : /\ Sizes[k] \in Int /\ Sizes[k] = Len(orders[k].cargo)
                                  /\ IsFiniteSet(DOMAIN orders[k].cargo)
                                  /\ Cardinality(DOMAIN orders[k].cargo) = Sizes[k]
<1> SUFFICES ASSUME NEW k \in DOMAIN orders
             PROVE  /\ Len(orders[k].cargo) \in Int /\ IsFiniteSet(DOMAIN orders[k].cargo)
                    /\ Cardinality(DOMAIN orders[k].cargo) = Len(orders[k].cargo)
  BY DEF Sizes
<1> DEFINE m == orders[k].cargo
<1>1. m \in Seq(DOMAIN cargo) BY DEF OrdersKnown, Members
<1> HIDE DEF m
<1>2. DOMAIN m = 1 .. Len(m) /\ Len(m) \in Nat BY <1>1
<1>3. IsFiniteSet(1 .. Len(m)) /\ Cardinality(1 .. Len(m)) = Len(m)
  <2>1. 1 \in Int /\ Len(m) \in Int BY <1>2
  <2>2. /\ IsFiniteSet(1 .. Len(m))
        /\ Cardinality(1 .. Len(m)) = IF 1 > Len(m) THEN 0 ELSE Len(m) - 1 + 1
    BY <2>1, FS_Interval
  <2> QED BY <1>2, <2>2
<1> QED BY <1>2, <1>3 DEF m

\* The size of a load.
LEMMA LoadSize ==
  ASSUME PlanReady, NEW p, Placing(p), NEW u
  PROVE  SizeOf(Load(p, u)) = Total(Sizes, PutAt(p, u)) /\ Total(Sizes, PutAt(p, u)) \in Int
<1> DEFINE len == [o \in {orders[k] : k \in DOMAIN orders} |-> Len(o.cargo)]
<1>1. \A k \in DOMAIN orders : len[orders[k]] = Sizes[k] BY DEF Sizes
<1>2. \A k \in DOMAIN orders : Sizes[k] \in Int BY SizesType DEF PlanReady
<1>3. Total(len, Load(p, u)) = SizeOf(Load(p, u))
  <2>1. \A o \in Load(p, u) : o \in {orders[k] : k \in DOMAIN orders}
    BY OrdersPlaced DEF PlanReady, PutAt
  <2>2. \A o \in Load(p, u) : len[o] = Len(o.cargo) BY <2>1
  <2> HIDE DEF len
  <2>3. [o \in Load(p, u) |-> len[o]] = [o \in Load(p, u) |-> Len(o.cargo)] BY <2>2
  <2> QED BY <2>3 DEF Total, SizeOf
<1> HIDE DEF len
<1>4. Total(len, Load(p, u)) = Total(Sizes, PutAt(p, u)) BY <1>1, <1>2, OrdersTotal
<1>5. Total(Sizes, PutAt(p, u)) \in Int
  <2>1. IsFiniteSet(PutAt(p, u)) BY LoadsPlaced
  <2>2. \A k \in PutAt(p, u) : Sizes[k] \in Int BY <1>2 DEF PutAt
  <2> QED BY <2>1, <2>2, TotalType
<1> QED BY <1>3, <1>4, <1>5

\* Load by load.
LoadSizes(p) == [u \in LoadsOf(p) |-> SizeOf(Load(p, u))]

LEMMA LoadedSize ==
  ASSUME PlanReady, NEW p, Placing(p)
  PROVE  /\ Total(LoadSizes(p), LoadsOf(p)) = Total(Sizes, Loaded(p))
         /\ Total(Sizes, Loaded(p)) \in Int
         /\ \A u \in LoadsOf(p) : LoadSizes(p)[u] \in Int
<1> DEFINE parts == PartTotals(Sizes, Loaded(p), PlaceOf(p), LoadsOf(p))
<1>1. \A k \in Loaded(p) : Sizes[k] \in Int BY SizesType DEF PlanReady, Loaded
<1>2. Total(parts, LoadsOf(p)) = Total(Sizes, Loaded(p)) BY <1>1, LoadsPlaced, TotalParts
<1>3. ASSUME NEW u \in LoadsOf(p) PROVE parts[u] = LoadSizes(p)[u] /\ LoadSizes(p)[u] \in Int
  <2>1. parts[u] = Total(Sizes, PutAt(p, u)) BY LoadsPlaced DEF PartTotals
  <2>2. LoadSizes(p)[u] = SizeOf(Load(p, u)) BY DEF LoadSizes
  <2> QED BY <2>1, <2>2, LoadSize
<1> HIDE DEF parts
<1>4. Total(parts, LoadsOf(p)) = Total(LoadSizes(p), LoadsOf(p)) BY <1>3, TotalSame
<1>5. Total(Sizes, Loaded(p)) \in Int BY <1>1, LoadsPlaced, TotalType
<1> QED BY <1>2, <1>3, <1>4, <1>5

\* Group by group.
LEMMA GroupedSize ==
  ASSUME PlanReady, NEW p, Placing(p)
  PROVE  SumFunction(Summary(p).byVehicle) = Total(LoadSizes(p), LoadsOf(p))
<1> DEFINE kind == [u \in LoadsOf(p) |-> Kind(u)]
           D == {Kind(u) : u \in LoadsOf(p)}
           S == LoadsOf(p)
           A == LoadSizes(p)
<1>1. IsFiniteSet(S) BY LoadsPlaced
<1>2. \A u \in S : kind[u] \in D OBVIOUS
<1>3. IsFiniteSet(D)
  <2>1. kind \in Surjection(S, D) BY DEF Surjection
  <2> HIDE DEF kind, D, S
  <2> QED BY <1>1, <2>1, FS_Surjection
<1>4. \A u \in S : A[u] \in Int BY LoadedSize
<1>5. Summary(p).byVehicle = PartTotals(A, S, kind, D)
  <2>1. Summary(p).byVehicle = [g \in D |-> SumFunction([u \in {x \in S : Kind(x) = g} |-> SizeOf(Load(p, u))])]
    BY DEF Summary
  <2>2. ASSUME NEW g \in D
        PROVE  SumFunction([u \in {x \in S : Kind(x) = g} |-> SizeOf(Load(p, u))]) = Total(A, Part(S, kind, g))
    <3>1. Part(S, kind, g) = {x \in S : Kind(x) = g} BY DEF Part
    <3>2. [u \in {x \in S : Kind(x) = g} |-> SizeOf(Load(p, u))] = [u \in {x \in S : Kind(x) = g} |-> A[u]]
      BY DEF LoadSizes
    <3> QED BY <3>1, <3>2 DEF Total
  <2> HIDE DEF D, S, A, kind
  <2> QED BY <2>1, <2>2 DEF PartTotals
<1> HIDE DEF D, S, A, kind
<1>6. Total(PartTotals(A, S, kind, D), D) = Total(A, S) BY <1>1, <1>2, <1>3, <1>4, TotalParts
<1>7. SumFunction(PartTotals(A, S, kind, D)) = Total(PartTotals(A, S, kind, D), D)
  <2>1. [t \in D |-> PartTotals(A, S, kind, D)[t]] = PartTotals(A, S, kind, D) BY DEF PartTotals
  <2> QED BY <2>1 DEF Total
<1> QED BY <1>5, <1>6, <1>7 DEF A, S

\* The cargo orders of some orders, counted with their orders.
LEMMA CargoCounted ==
  ASSUME OrdersKnown, NEW K, K \subseteq DOMAIN orders
  PROVE  Cardinality(UNION {{<<k, j>> : j \in DOMAIN orders[k].cargo} : k \in K}) = Total(Sizes, K)
<1> DEFINE S == [k \in DOMAIN orders |-> DOMAIN orders[k].cargo]
           P == PairsOver(K, S)
           w == [y \in P |-> 1]
<1>1. IsFiniteSet(K)
  <2>1. IsFiniteSet(DOMAIN orders) BY FS_Interval DEF OrdersKnown
  <2> QED BY <2>1, FS_Subset
<1>2. P = UNION {{<<k, j>> : j \in DOMAIN orders[k].cargo} : k \in K}
  <2>1. \A k \in K : S[k] = DOMAIN orders[k].cargo OBVIOUS
  <2>2. {{<<k, j>> : j \in S[k]} : k \in K} = {{<<k, j>> : j \in DOMAIN orders[k].cargo} : k \in K}
    BY <2>1
  <2> QED BY <2>2 DEF PairsOver
<1>3. \A k \in K : IsFiniteSet(S[k]) BY SizesType
<1>4. \A y \in P : w[y] \in Int OBVIOUS
<1>5. ASSUME NEW k \in K
      PROVE  IsFiniteSet(PairsOf(k, S[k])) /\ Total(w, PairsOf(k, S[k])) = Sizes[k]
  <2> DEFINE X == S[k]
             one == [x \in X |-> 1]
  <2>1. \A x \in X : one[x] = w[<<k, x>>] /\ one[x] \in Int /\ one[x] = 1 BY DEF PairsOver
  <2>2. IsFiniteSet(X) /\ Cardinality(X) = Sizes[k] BY SizesType
  <2> HIDE DEF one, w, X
  <2>3. IsFiniteSet(PairsOf(k, X)) /\ Total(w, PairsOf(k, X)) = Total(one, X) BY <2>1, <2>2, TotalSlice
  <2>4. Total(one, X) = Cardinality(X) BY <2>1, <2>2, TotalOnes
  <2> QED BY <2>2, <2>3, <2>4 DEF X
<1>6. \A y \in P : w[y] = 1 OBVIOUS
<1> HIDE DEF P, w, S
<1>7. IsFiniteSet(P) /\ Total(w, P) = Total(Sizes, K)
  <2>1. \A y \in PairsOver(K, S) : w[y] \in Int BY <1>4 DEF P
  <2>2. IsFiniteSet(PairsOver(K, S)) /\ Total(w, PairsOver(K, S)) = Total(Sizes, K)
    BY <1>1, <1>5, <2>1, TotalPairs
  <2> QED BY <2>2 DEF P
<1>8. Total(w, P) = Cardinality(P) BY <1>6, <1>7, TotalOnes
<1> QED BY <1>2, <1>7, <1>8

\* What a plan keeps is what p does not refuse.
LEMMA KeptPlaced ==
  ASSUME PlanReady, NEW p, Placing(p), NEW final
  PROVE  KeptIn(Plan(p, final)) = Loaded(p) \cup PutAt(p, Unassigned)
<1>1. Plan(p, final).refused = {i \in DOMAIN p : p[i] = Refused} BY DEF Plan
<1>2. \A k \in DOMAIN orders : orders[k].ind \notin Plan(p, final).refused <=> p[k - 1] # Refused
  BY <1>1, OrdersPlaced DEF PlanReady
<1>3. KeptIn(Plan(p, final)) = {k \in DOMAIN orders : p[k - 1] # Refused} BY <1>2 DEF KeptIn
<1> QED BY <1>3, LoadsPlaced

\* The summary counts every kept order once.
LEMMA SummaryCounts ==
  ASSUME PlanReady, NEW p, Placing(p), NEW final
  PROVE  SummaryComplete(Plan(p, final))
<1> DEFINE S == Summary(p)
<1>1. Plan(p, final).summary = S BY DEF Plan
<1>2. /\ S.total = Total(LoadSizes(p), LoadsOf(p)) + S.unassigned
      /\ S.unassigned = Total(Sizes, PutAt(p, Unassigned)) /\ S.unassigned \in Int
  <2>1. S.unassigned = SizeOf(Load(p, Unassigned)) BY DEF Summary, Left, Load
  <2>2. S.total = SumFunction([u \in LoadsOf(p) |-> SizeOf(Load(p, u))]) + SizeOf(Left(p)) /\ S.unassigned = SizeOf(Left(p))
    BY DEF Summary
  <2>3. SumFunction([u \in LoadsOf(p) |-> SizeOf(Load(p, u))]) = Total(LoadSizes(p), LoadsOf(p))
    <3>1. [u \in LoadsOf(p) |-> LoadSizes(p)[u]] = [u \in LoadsOf(p) |-> SizeOf(Load(p, u))] BY DEF LoadSizes
    <3> QED BY <3>1 DEF Total
  <2> HIDE DEF S
  <2> QED BY <2>1, <2>2, <2>3, LoadSize
<1>3. Total(Sizes, Loaded(p) \cup PutAt(p, Unassigned)) = Total(Sizes, Loaded(p)) + Total(Sizes, PutAt(p, Unassigned))
  <2>1. \A k \in Loaded(p) \cup PutAt(p, Unassigned) : Sizes[k] \in Int
    BY SizesType DEF PlanReady, Loaded, PutAt
  <2>2. IsFiniteSet(Loaded(p)) /\ IsFiniteSet(PutAt(p, Unassigned)) /\ Loaded(p) \cap PutAt(p, Unassigned) = {}
    BY LoadsPlaced
  <2> QED BY <2>1, <2>2, TotalUnion
<1>4. Cardinality(UNION {{<<k, j>> : j \in DOMAIN orders[k].cargo} : k \in KeptIn(Plan(p, final))})
      = Total(Sizes, Loaded(p) \cup PutAt(p, Unassigned))
  <2>1. KeptIn(Plan(p, final)) \subseteq DOMAIN orders BY DEF KeptIn
  <2> QED BY <2>1, KeptPlaced, CargoCounted DEF PlanReady
<1>5. /\ Total(LoadSizes(p), LoadsOf(p)) = Total(Sizes, Loaded(p)) /\ Total(Sizes, Loaded(p)) \in Int
      /\ SumFunction(S.byVehicle) = Total(Sizes, Loaded(p))
  BY LoadedSize, GroupedSize
<1> HIDE DEF S
<1>6. S.total = Total(Sizes, Loaded(p) \cup PutAt(p, Unassigned)) BY <1>2, <1>3, <1>5
<1>7. SumFunction(S.byVehicle) = S.total - S.unassigned BY <1>2, <1>5
<1> QED BY <1>1, <1>4, <1>6, <1>7 DEF SummaryComplete

\* The sub orders of the order k.
SubsAt == [k \in DOMAIN orders |-> SubRows({orders[k]})]

\* The rows of a plan: the sub orders of every loaded order, at either end.
LocationRow(p, r) ==
  /\ r \in [unit : LoadsOf(p), kind : {"PICK", "DROP"}, order : DOMAIN p, sub : T!Rows(case.subs)]
  /\ p[r.order] = r.unit /\ r.sub \in SubsAt[r.order + 1]

\* An order has a name for both of its ends if its cargo orders have.
LEMMA OrderEndsNamed ==
  ASSUME OrdersKnown, EndsNamed, NEW k \in DOMAIN orders
  PROVE  Default \notin {orders[k].pick, orders[k].drop}
<1> DEFINE m == orders[k].cargo
<1>1. m \in Seq(DOMAIN cargo) /\ m # <<>> BY DEF OrdersKnown, Members
<1>2. m[1] \in DOMAIN cargo
  <2> HIDE DEF m
  <2> QED BY <1>1
<1>3. orders[k] = Order(k - 1, m) BY DEF OrdersKnown
<1> HIDE DEF m
<1>4. Order(k - 1, m).pick = cargo[m[1]].pick /\ Order(k - 1, m).drop = cargo[m[1]].drop BY DEF Order
<1>5. orders[k].pick = cargo[m[1]].pick /\ orders[k].drop = cargo[m[1]].drop BY <1>3, <1>4
<1> QED BY <1>2, <1>5 DEF EndsNamed

LEMMA RowsPlaced ==
  ASSUME PlanReady, EndsNamed, NEW p, Placing(p), NEW r
  PROVE  r \in LocationRows(p) <=> LocationRow(p, r)
<1> SUFFICES ASSUME r \in [unit : LoadsOf(p), kind : {"PICK", "DROP"}, order : DOMAIN p, sub : T!Rows(case.subs)]
             PROVE  (\E n \in NodesOf(Load(p, r.unit)) :
                       n.kind = r.kind /\ n.loc # Default /\ r.order \in n.inds)
                    <=> p[r.order] = r.unit
  <2>1. r.order \in DOMAIN p => r.order + 1 \in DOMAIN orders /\ OrderAt(r.order) = orders[r.order + 1]
    BY OrdersPlaced DEF PlanReady
  <2>2. r.order \in DOMAIN p => SubRows({OrderAt(r.order)}) = SubsAt[r.order + 1] BY <2>1 DEF SubsAt
  <2> QED BY <2>2 DEF LocationRows, LocationRow
<1> DEFINE os == Load(p, r.unit)
           k == r.order + 1
<1>1. /\ k \in DOMAIN orders /\ k - 1 = r.order /\ orders[k].ind = r.order
      /\ r.kind \in {"PICK", "DROP"}
  BY OrdersPlaced DEF PlanReady
<1>2. os = {orders[l] : l \in PutAt(p, r.unit)} BY OrdersPlaced DEF PlanReady
<1>3. ASSUME NEW n \in NodesOf(os), r.order \in n.inds PROVE p[r.order] = r.unit
  <2>1. n.inds \subseteq {o.ind : o \in os}
    <3>1. \A kind, loc, xs : Node(kind, loc, xs).inds = {o.ind : o \in xs} BY DEF Node
    <3>2. \E kind, loc : \E xs \in SUBSET os : n = Node(kind, loc, xs)
      <4>1. CASE \E o \in os : n = Node("PICK", o.pick, os) BY <4>1
      <4>2. CASE \E o \in os : n = Node("DROP", o.drop, {x \in os : x.drop = o.drop})
        <5>1. PICK o \in os : n = Node("DROP", o.drop, {x \in os : x.drop = o.drop}) BY <4>2
        <5>2. {x \in os : x.drop = o.drop} \in SUBSET os OBVIOUS
        <5> QED BY <5>1, <5>2
      <4> QED BY <1>3, <4>1, <4>2 DEF NodesOf
    <3> HIDE DEF os
    <3>3. PICK kind, loc : \E xs \in SUBSET os : n = Node(kind, loc, xs) BY <3>2
    <3>4. PICK xs \in SUBSET os : n = Node(kind, loc, xs) BY <3>3
    <3>5. n.inds = {o.ind : o \in xs} BY <3>1, <3>4
    <3> QED BY <3>4, <3>5
  <2>2. PICK l \in PutAt(p, r.unit) : orders[l].ind = r.order BY <1>2, <1>3, <2>1
  <2>3. l - 1 = r.order BY <2>2, OrdersPlaced DEF PlanReady, PutAt
  <2> QED BY <2>2, <2>3 DEF PutAt
<1>4. ASSUME p[r.order] = r.unit
      PROVE  \E n \in NodesOf(os) : n.kind = r.kind /\ n.loc # Default /\ r.order \in n.inds
  <2> DEFINE o == orders[k]
  <2>1. o \in os BY <1>1, <1>2, <1>4 DEF PutAt
  <2>2. o.pick # Default /\ o.drop # Default BY <1>1, OrderEndsNamed DEF PlanReady
  <2>3. o.ind = r.order BY <1>1
  <2> HIDE DEF o, os
  <2>4. CASE r.kind = "PICK"
    <3> DEFINE n == Node("PICK", o.pick, os)
    <3>1. n \in NodesOf(os) BY <2>1 DEF NodesOf
    <3>2. n.kind = "PICK" /\ n.loc = o.pick /\ o.ind \in n.inds BY <2>1 DEF Node
    <3> HIDE DEF n
    <3> QED BY <2>2, <2>3, <2>4, <3>1, <3>2
  <2>5. CASE r.kind = "DROP"
    <3> DEFINE n == Node("DROP", o.drop, {x \in os : x.drop = o.drop})
    <3>1. n \in NodesOf(os) BY <2>1 DEF NodesOf
    <3>2. n.kind = "DROP" /\ n.loc = o.drop /\ o.ind \in n.inds BY <2>1 DEF Node
    <3> HIDE DEF n
    <3> QED BY <2>2, <2>3, <2>5, <3>1, <3>2
  <2> QED BY <1>1, <2>4, <2>5
<1> QED BY <1>3, <1>4

\* What is kept is left or in a row.
LEMMA RowsListed ==
  ASSUME PlanReady, EndsNamed, NEW p, Placing(p), NEW final, NEW sub \in T!Rows(case.subs)
  PROVE  (\E k \in KeptIn(Plan(p, final)) : \E j \in DOMAIN orders[k].cargo :
            cargo[orders[k].cargo[j]].code = sub.cargo)
         <=> sub \in SubRows(Left(p)) \/ \E r \in LocationRows(p) : r.sub = sub
<1> DEFINE has(k) == \E j \in DOMAIN orders[k].cargo : cargo[orders[k].cargo[j]].code = sub.cargo
<1>1. \A k \in DOMAIN orders : sub \in SubsAt[k] <=> has(k) BY DEF SubsAt, SubRows
<1>2. sub \in SubRows(Left(p)) <=> \E k \in PutAt(p, Unassigned) : has(k)
  <2>1. Left(p) = {orders[k] : k \in PutAt(p, Unassigned)}
    <3>1. Left(p) = Load(p, Unassigned) BY DEF Left, Load
    <3> QED BY <3>1, OrdersPlaced DEF PlanReady
  <2> QED BY <2>1 DEF SubRows
<1>3. (\E r \in LocationRows(p) : r.sub = sub) <=> \E k \in Loaded(p) : has(k)
  <2>1. ASSUME NEW r \in LocationRows(p), r.sub = sub PROVE \E k \in Loaded(p) : has(k)
    <3>1. LocationRow(p, r) BY RowsPlaced
    <3>2. /\ r.order + 1 \in DOMAIN orders /\ (r.order + 1) - 1 = r.order
          /\ p[r.order] \in Units
      BY <3>1, OrdersPlaced, LoadsPlaced DEF LocationRow, PlanReady
    <3>3. r.order + 1 \in Loaded(p) BY <3>2 DEF Loaded
    <3>4. has(r.order + 1) BY <1>1, <2>1, <3>1, <3>2 DEF LocationRow
    <3> QED BY <3>3, <3>4
  <2>2. ASSUME NEW k \in Loaded(p), has(k) PROVE \E r \in LocationRows(p) : r.sub = sub
    <3> DEFINE r == [unit |-> p[k - 1], kind |-> "PICK", order |-> k - 1, sub |-> sub]
    <3>1. k \in DOMAIN orders /\ k - 1 \in DOMAIN p /\ (k - 1) + 1 = k
      BY OrdersPlaced DEF PlanReady, Loaded, OrdersKnown
    <3>2. p[k - 1] \in LoadsOf(p) BY <3>1, LoadsPlaced DEF PlaceOf
    <3>3. r \in [unit : LoadsOf(p), kind : {"PICK", "DROP"}, order : DOMAIN p, sub : T!Rows(case.subs)]
      BY <3>1, <3>2
    <3>4. p[r.order] = r.unit /\ r.sub \in SubsAt[r.order + 1] BY <1>1, <2>2, <3>1
    <3>5. LocationRow(p, r) BY <3>3, <3>4 DEF LocationRow
    <3> HIDE DEF r
    <3>6. r \in LocationRows(p) BY <3>5, RowsPlaced
    <3> QED BY <3>6 DEF r
  <2> QED BY <2>1, <2>2
<1> HIDE DEF has
<1>4. (\E k \in KeptIn(Plan(p, final)) : has(k))
      <=> (\E k \in PutAt(p, Unassigned) : has(k)) \/ \E k \in Loaded(p) : has(k)
  BY KeptPlaced
<1> QED BY <1>2, <1>3, <1>4 DEF has

\* A row at one end comes with a row at the other.
LEMMA RowsAtEnds ==
  ASSUME PlanReady, EndsNamed, NEW p, Placing(p), NEW r \in LocationRows(p), NEW kind \in {"PICK", "DROP"}
  PROVE  [r EXCEPT !.kind = kind] \in LocationRows(p)
<1> DEFINE s == [r EXCEPT !.kind = kind]
<1>1. LocationRow(p, r) BY RowsPlaced
<1>2. LocationRow(p, s) BY <1>1 DEF LocationRow
<1> HIDE DEF s
<1>3. s \in LocationRows(p) BY <1>2, RowsPlaced
<1> QED BY <1>3 DEF s

\* What the sub orders have of the dimension d.
DimOf(d) == [sub \in T!Rows(case.subs) |-> T!SubDims(case, sub)[d]]

LEMMA DimOfType ==
  ASSUME CaseInv, stage # "unread", NEW d \in param.dims
  PROVE  \A sub \in T!Rows(case.subs) : DimOf(d)[sub] \in Int /\ DimOf(d)[sub] = T!SubDims(case, sub)[d]
BY CargoRead, SubsRead DEF DimOf

LEMMA CargoDim ==
  ASSUME CaseInv, stage # "unread", NEW c \in DOMAIN cargo, NEW d \in param.dims
  PROVE  /\ cargo[c].dims[d] = Total(DimOf(d), SubsOf(case, cargo[c].code))
         /\ IsFiniteSet(SubsOf(case, cargo[c].code))
<1> DEFINE S == SubsOf(case, cargo[c].code)
<1>1. S \subseteq T!Rows(case.subs) BY DEF SubsOf
<1>2. cargo[c].dims[d] = SumFunction([sub \in S |-> T!SubDims(case, sub)[d]]) BY CargoRead
<1>3. [sub \in S |-> T!SubDims(case, sub)[d]] = [sub \in S |-> DimOf(d)[sub]] BY <1>1 DEF DimOf
<1>4. IsFiniteSet(S) BY <1>1, SubsRead, FS_Subset
<1> QED BY <1>2, <1>3, <1>4 DEF Total

\* The dimensions of an order are those of its sub orders.
LEMMA OrderDim ==
  ASSUME PlanReady, NEW k \in DOMAIN orders, NEW d \in param.dims
  PROVE  /\ orders[k].dims[d] = Total(DimOf(d), SubsAt[k])
         /\ IsFiniteSet(SubsAt[k]) /\ SubsAt[k] \subseteq T!Rows(case.subs)
         /\ Total(DimOf(d), SubsAt[k]) \in Int
<1> DEFINE m == orders[k].cargo
           D == DOMAIN m
           S == SubsAt[k]
           h == [sub \in S |-> CHOOSE j \in D : cargo[m[j]].code = sub.cargo]
           f == DimOf(d)
<1>1. S = {sub \in T!Rows(case.subs) : \E j \in D : cargo[m[j]].code = sub.cargo} BY DEF SubsAt, SubRows
<1>2. IsFiniteSet(D) /\ IsFiniteSet(S) BY <1>1, SizesType, SubsRead, FS_Subset DEF PlanReady
<1>3. /\ m \in Seq(DOMAIN cargo)
      /\ \A j \in D : m[j] \in DOMAIN cargo
      /\ \A i, j \in D : cargo[m[i]].code = cargo[m[j]].code => i = j
  <2>1. m \in Seq(DOMAIN cargo) /\ \A i, j \in D : m[i] = m[j] => i = j
    BY DEF PlanReady, OrdersKnown, Members
  <2>2. \A c, e \in DOMAIN cargo : cargo[c].code = cargo[e].code => c = e BY CargoRead DEF PlanReady
  <2> HIDE DEF m
  <2>3. \A j \in D : m[j] \in DOMAIN cargo BY <2>1
  <2> QED BY <2>1, <2>2, <2>3
<1>4. \A sub \in S : h[sub] \in D /\ cargo[m[h[sub]]].code = sub.cargo BY <1>1
<1>5. \A sub \in S : f[sub] \in Int BY <1>1, DimOfType DEF PlanReady
<1>6. Total(f, S) \in Int BY <1>2, <1>5, TotalType
<1>7. ASSUME NEW j \in D
      PROVE  PartTotals(f, S, h, D)[j] = cargo[m[j]].dims[d]
  <2>1. Part(S, h, j) = SubsOf(case, cargo[m[j]].code)
    <3>1. \A sub \in S : h[sub] = j <=> sub.cargo = cargo[m[j]].code
      <4> HIDE DEF h, D, S
      <4> QED BY <1>3, <1>4
    <3>2. \A sub \in SubsOf(case, cargo[m[j]].code) : sub \in S /\ sub.cargo = cargo[m[j]].code
      BY <1>1 DEF SubsOf
    <3>3. \A sub \in S : sub \in T!Rows(case.subs) BY <1>1
    <3> HIDE DEF h, S, D, m
    <3> QED BY <3>1, <3>2, <3>3 DEF Part, SubsOf
  <2>2. cargo[m[j]].dims[d] = Total(f, SubsOf(case, cargo[m[j]].code))
    BY <1>3, CargoDim DEF PlanReady
  <2> HIDE DEF h, S, f
  <2> QED BY <2>1, <2>2 DEF PartTotals
<1>8. orders[k].dims[d] = Total(PartTotals(f, S, h, D), D)
  <2>1. orders[k].dims[d] = SumFunction([j \in D |-> cargo[m[j]].dims[d]])
    <3>1. orders[k] = Order(k - 1, m) BY DEF PlanReady, OrdersKnown
    <3> HIDE DEF m
    <3>2. Order(k - 1, m).dims = [e \in param.dims |-> SumFunction([j \in DOMAIN m |-> cargo[m[j]].dims[e]])]
      BY DEF Order
    <3> QED BY <3>1, <3>2
  <2> HIDE DEF f, S, h, D, m
  <2>2. [j \in D |-> PartTotals(f, S, h, D)[j]] = [j \in D |-> cargo[m[j]].dims[d]] BY <1>7
  <2> QED BY <2>1, <2>2 DEF Total
<1> HIDE DEF f, S, h, D
<1>9. Total(PartTotals(f, S, h, D), D) = Total(f, S) BY <1>2, <1>4, <1>5, TotalParts
<1>10. S \subseteq T!Rows(case.subs) BY <1>1
<1> QED BY <1>2, <1>6, <1>8, <1>9, <1>10 DEF f, S

\* What a load has of a dimension is what its rows at the pick location have of it.
LEMMA RowsDim ==
  ASSUME PlanReady, EndsNamed, NEW p, Placing(p), NEW u \in LoadsOf(p), NEW d \in param.dims
  PROVE  PeakDims(Load(p, u))[d] =
           SumFunction([r \in {x \in LocationRows(p) : x.unit = u /\ x.kind = "PICK"} |->
                          T!SubDims(case, r.sub)[d]])
<1> DEFINE K == PutAt(p, u)
           P == PairsOver(K, SubsAt)
           w == [y \in P |-> DimOf(d)[y[2]]]
           v == [k \in DOMAIN orders |-> orders[k].dims[d]]
           X == {x \in LocationRows(p) : x.unit = u /\ x.kind = "PICK"}
           row == [y \in P |-> [unit |-> u, kind |-> "PICK", order |-> y[1] - 1, sub |-> y[2]]]
           g == [r \in X |-> T!SubDims(case, r.sub)[d]]
<1>1. PeakDims(Load(p, u))[d] = Total(v, K)
  <2> DEFINE dim == [o \in {orders[k] : k \in DOMAIN orders} |-> o.dims[d]]
  <2>1. \A k \in DOMAIN orders : dim[orders[k]] = v[k] OBVIOUS
  <2>2. \A k \in DOMAIN orders : v[k] \in Int BY OrderDim
  <2>3. Total(dim, Load(p, u)) = PeakDims(Load(p, u))[d]
    <3>1. \A o \in Load(p, u) : o \in {orders[k] : k \in DOMAIN orders}
      BY OrdersPlaced DEF PlanReady, PutAt
    <3>2. \A o \in Load(p, u) : dim[o] = o.dims[d] BY <3>1
    <3> HIDE DEF dim
    <3>3. [o \in Load(p, u) |-> dim[o]] = [o \in Load(p, u) |-> o.dims[d]] BY <3>2
    <3>4. PeakDims(Load(p, u))[d] = SumFunction([o \in Load(p, u) |-> o.dims[d]]) BY DEF PeakDims
    <3> QED BY <3>3, <3>4 DEF Total
  <2> HIDE DEF dim, v
  <2>4. Total(dim, Load(p, u)) = Total(v, PutAt(p, u)) BY <2>1, <2>2, OrdersTotal
  <2> QED BY <2>3, <2>4
<1>2. \A k \in K : k \in DOMAIN orders /\ p[k - 1] = u BY DEF PutAt
<1>3. ASSUME NEW y \in P
      PROVE  /\ y = <<y[1], y[2]>> /\ y[1] \in K /\ y[2] \in SubsAt[y[1]]
             /\ y[2] \in T!Rows(case.subs) /\ w[y] = T!SubDims(case, y[2])[d] /\ w[y] \in Int
  <2>1. PICK k \in K : \E s \in SubsAt[k] : y = <<k, s>> BY DEF PairsOver
  <2>2. PICK s \in SubsAt[k] : y = <<k, s>> BY <2>1
  <2>3. s \in T!Rows(case.subs) BY <1>2, OrderDim
  <2>4. DimOf(d)[s] \in Int /\ DimOf(d)[s] = T!SubDims(case, s)[d] BY <2>3, DimOfType DEF PlanReady
  <2>5. w[y] = DimOf(d)[s] BY <2>2
  <2> QED BY <2>2, <2>3, <2>4, <2>5
<1>4. ASSUME NEW k \in K
      PROVE  IsFiniteSet(PairsOf(k, SubsAt[k])) /\ Total(w, PairsOf(k, SubsAt[k])) = v[k]
  <2> DEFINE S == SubsAt[k]
             f == DimOf(d)
  <2>1. IsFiniteSet(S) /\ v[k] = Total(f, S) BY <1>2, OrderDim
  <2>2. \A s \in S : f[s] = w[<<k, s>>] BY DEF PairsOver
  <2>3. \A s \in S : f[s] \in Int BY <1>2, OrderDim, DimOfType DEF PlanReady
  <2> HIDE DEF S, f, w, v
  <2>4. IsFiniteSet(PairsOf(k, S)) /\ Total(w, PairsOf(k, S)) = Total(f, S)
    BY <2>1, <2>2, <2>3, TotalSlice
  <2> QED BY <2>1, <2>4 DEF S
<1>5. IsFiniteSet(P) /\ Total(w, P) = Total(v, K)
  <2>1. IsFiniteSet(K) BY LoadsPlaced
  <2>2. \A y \in PairsOver(K, SubsAt) : w[y] \in Int BY <1>3
  <2> HIDE DEF K, w, v
  <2> QED BY <1>4, <2>1, <2>2, TotalPairs
<1>6. ASSUME NEW y \in P
      PROVE  row[y] \in X /\ g[row[y]] = w[y] /\ w[y] \in Int
  <2> DEFINE r == [unit |-> u, kind |-> "PICK", order |-> y[1] - 1, sub |-> y[2]]
  <2>1. y[1] \in DOMAIN orders /\ p[y[1] - 1] = u BY <1>2, <1>3
  <2>2. y[1] - 1 \in DOMAIN p /\ (y[1] - 1) + 1 = y[1]
    BY <2>1, OrdersPlaced DEF PlanReady, OrdersKnown
  <2>3. r \in [unit : LoadsOf(p), kind : {"PICK", "DROP"}, order : DOMAIN p, sub : T!Rows(case.subs)]
    BY <1>3, <2>2
  <2>4. LocationRow(p, r) BY <1>3, <2>1, <2>2, <2>3 DEF LocationRow
  <2>5. r \in LocationRows(p)
    <3> HIDE DEF r
    <3> QED BY <2>4, RowsPlaced
  <2>6. r \in X BY <2>5
  <2>7. g[r] = T!SubDims(case, y[2])[d] BY <2>6
  <2>8. row[y] = r OBVIOUS
  <2> HIDE DEF r, g, X, row
  <2> QED BY <1>3, <2>6, <2>7, <2>8
<1>7. ASSUME NEW y \in P, NEW z \in P, row[y] = row[z] PROVE y = z
  <2>1. y[1] \in Int /\ z[1] \in Int BY <1>2, <1>3 DEF PlanReady, OrdersKnown
  <2>2. y[1] - 1 = z[1] - 1 /\ y[2] = z[2]
    <3>1. row[y].order = y[1] - 1 /\ row[z].order = z[1] - 1 /\ row[y].sub = y[2] /\ row[z].sub = z[2]
      OBVIOUS
    <3> HIDE DEF row, P
    <3> QED BY <1>7, <3>1
  <2>3. y[1] = z[1] BY <2>1, <2>2
  <2> QED BY <1>3, <2>2, <2>3
<1>8. ASSUME NEW r \in X PROVE \E y \in P : row[y] = r
  <2> DEFINE y == <<r.order + 1, r.sub>>
  <2>1. LocationRow(p, r) /\ r.unit = u /\ r.kind = "PICK" BY RowsPlaced
  <2>2. r.order + 1 \in DOMAIN orders /\ (r.order + 1) - 1 = r.order /\ p[r.order] = u
    BY <2>1, OrdersPlaced DEF PlanReady, LocationRow
  <2>3. r.order + 1 \in K /\ r.sub \in SubsAt[r.order + 1] BY <2>1, <2>2 DEF PutAt, LocationRow
  <2>4. y \in P BY <2>3 DEF PairsOver
  <2>5. r = [unit |-> u, kind |-> "PICK", order |-> r.order, sub |-> r.sub] BY <2>1 DEF LocationRow
  <2>6. row[y] = r BY <2>2, <2>4, <2>5
  <2> QED BY <2>4, <2>6
<1> HIDE DEF P, w, v, X, row, g, K
<1>9. Total(g, X) = Total(w, P) BY <1>5, <1>6, <1>7, <1>8, TotalMoved
<1>10. Total(g, X) = SumFunction(g)
  <2>1. [r \in X |-> g[r]] = g BY DEF g
  <2> QED BY <2>1 DEF Total
<1> QED BY <1>1, <1>5, <1>9, <1>10 DEF g, X

\* Every plan that is written accounts for the scenario.
PlanWhole(plan) == (EndsNamed => RowsComplete(plan)) /\ SummaryComplete(plan)

LEMMA PlanAccounts ==
  ASSUME PlanReady, NEW p, Placing(p), NEW final
  PROVE  PlanWhole(Plan(p, final))
<1> DEFINE plan == Plan(p, final)
<1>1. SummaryComplete(plan) BY SummaryCounts
<1>2. ASSUME EndsNamed PROVE RowsComplete(plan)
  <2>1. /\ plan.rows = LocationRows(p) /\ plan.left = SubRows(Left(p))
        /\ DOMAIN plan.loads = LoadsOf(p)
        /\ \A u \in LoadsOf(p) : plan.loads[u].dims = PeakDims(Load(p, u))
    BY DEF Plan, LoadRows
  <2>2. \A sub \in T!Rows(case.subs) :
          (\E k \in KeptIn(plan) : \E j \in DOMAIN orders[k].cargo :
             cargo[orders[k].cargo[j]].code = sub.cargo)
          <=> sub \in SubRows(Left(p)) \/ \E r \in LocationRows(p) : r.sub = sub
    BY <1>2, RowsListed
  <2>3. \A r \in LocationRows(p) : \A kind \in {"PICK", "DROP"} : [r EXCEPT !.kind = kind] \in LocationRows(p)
    BY <1>2, RowsAtEnds
  <2>4. \A u \in LoadsOf(p) : \A d \in param.dims :
          PeakDims(Load(p, u))[d] =
            SumFunction([r \in {x \in LocationRows(p) : x.unit = u /\ x.kind = "PICK"} |->
                           T!SubDims(case, r.sub)[d]])
    BY <1>2, RowsDim
  <2> HIDE DEF plan
  <2>5. ASSUME NEW u \in DOMAIN plan.loads, NEW d \in param.dims
        PROVE  plan.loads[u].dims[d] =
                 SumFunction([r \in {x \in plan.rows : x.unit = u /\ x.kind = "PICK"} |->
                                T!SubDims(case, r.sub)[d]])
    <3>1. u \in LoadsOf(p) /\ plan.loads[u].dims = PeakDims(Load(p, u)) BY <2>1
    <3>2. PeakDims(Load(p, u))[d] =
            SumFunction([r \in {x \in LocationRows(p) : x.unit = u /\ x.kind = "PICK"} |->
                           T!SubDims(case, r.sub)[d]])
      BY <2>4, <3>1
    <3> QED BY <2>1, <3>1, <3>2
  <2>6. \A r \in plan.rows : \A kind \in {"PICK", "DROP"} : [r EXCEPT !.kind = kind] \in plan.rows
    BY <2>1, <2>3
  <2>7. \A sub \in T!Rows(case.subs) :
          (\E k \in KeptIn(plan) : \E j \in DOMAIN orders[k].cargo :
             cargo[orders[k].cargo[j]].code = sub.cargo)
          <=> sub \in plan.left \/ \E r \in plan.rows : r.sub = sub
    BY <2>1, <2>2
  <2> QED BY <2>5, <2>6, <2>7 DEF RowsComplete
<1> QED BY <1>1, <1>2 DEF PlanWhole

\* A script moves the orders of its pool about, and a plan of this call is a plan of the
\* pool that is there: the next call drops the pool, and counts on.
PlaceInv == phase = "script" => stage = "done" /\ Placing(place)

PlanInv ==
  /\ solves \in Nat
  /\ disk = [infeasible |-> disk.infeasible, plan |-> disk.plan]
  /\ disk.plan # NoFile =>
       /\ disk.plan.by \in Nat /\ disk.plan.by <= solves
       /\ disk.plan.by = solves => stage = "done" /\ PlanWhole(disk.plan)

AccountInv == TableInv /\ CaseInv /\ PlaceInv /\ PlanInv

\* What is read stays what was read.
LEMMA CaseStep == ASSUME CaseInv, [Next]_vars PROVE CaseInv'
<1>1. CASE Open
  <2>1. case' = case BY <1>1 DEF Open
  <2>2. CASE T!ScenarioAccepted(case) /\ T!ParameterAccepted(case)
    <3>1. \E r \in ReadingsOf(case) : cargo' = r.cargo /\ param' = r.param BY <1>1, <2>2 DEF Open, Read
    <3> QED BY <2>1, <2>2, <3>1 DEF CaseInv
  <2>3. CASE ~ (T!ScenarioAccepted(case) /\ T!ParameterAccepted(case))
    <3>1. UNCHANGED <<cargo, param, stage>> BY <1>1, <2>3 DEF Open, poolVars
    <3> QED BY <2>1, <3>1 DEF CaseInv
  <2> QED BY <2>2, <2>3
<1>2. CASE ~ Open
  <2>1. case' = case /\ cargo' = cargo /\ param' = param /\ (stage' # "unread" => stage # "unread")
    <3>1. CASE Solve BY <3>1 DEF Solve, DropPool
    <3>2. CASE PoolStep
      BY <3>2 DEF PoolStep, runVars, StartPool, BuildPool, JoinGroup, NewGroup, EndLoc,
                  PlaceInGroup, PlaceApart, EndLabel, MergeOrders
    <3>3. CASE OpenScript \/ Knn \/ Alns \/ Snapshot \/ EndScript \/ ScriptFails
      BY <3>3 DEF OpenScript, Knn, Alns, Snapshot, EndScript, ScriptFails, poolVars
    <3>4. CASE UNCHANGED vars BY <3>4 DEF vars, runVars, poolVars
    <3> QED BY <1>2, <3>1, <3>2, <3>3, <3>4 DEF Next
  <2> QED BY <2>1 DEF CaseInv
<1> QED BY <1>1, <1>2

\* Whichever function the script calls, it places the orders of the pool.
LEMMA PlaceStep == ASSUME PlaceInv, CaseInv, [Next]_vars PROVE PlaceInv'
<1>1. CASE phase' # "script" BY <1>1 DEF PlaceInv
<1>2. CASE phase' = "script" /\ OpenScript
  <2>1. /\ stage = "done" /\ UNCHANGED poolVars /\ case' = case
        /\ place' = [i \in {orders[k].ind : k \in DOMAIN orders} |-> Unassigned]
    BY <1>2 DEF OpenScript
  <2>2. Unassigned \in Places' BY DEF Places, Unassigned
  <2> QED BY <2>1, <2>2 DEF PlaceInv, Placing, poolVars
<1>3. CASE phase' = "script" /\ (Knn \/ Alns)
  <2>1. /\ phase = "script" /\ UNCHANGED poolVars /\ case' = case
        /\ place' \in [DOMAIN place -> Places]
    BY <1>3 DEF Knn, Alns
  <2>2. Places' = Places BY <2>1 DEF Places, Units, Fleet, Unassigned, Refused
  <2>3. stage = "done" /\ DOMAIN place = {orders[k].ind : k \in DOMAIN orders}
    BY <2>1 DEF PlaceInv, Placing
  <2> QED BY <2>1, <2>2, <2>3 DEF PlaceInv, Placing, poolVars
<1>4. CASE phase' = "script" /\ ~ OpenScript /\ ~ (Knn \/ Alns)
  <2>1. phase = "script" /\ UNCHANGED <<poolVars, case, place>>
    <3>1. CASE Open \/ Solve BY <1>4, <3>1 DEF Open, Solve
    <3>2. CASE PoolStep BY <1>4, <3>2 DEF PoolStep, runVars
    <3>3. CASE Snapshot \/ EndScript \/ ScriptFails BY <1>4, <3>3 DEF Snapshot, EndScript, ScriptFails
    <3>4. CASE UNCHANGED vars BY <1>4, <3>4 DEF vars, runVars
    <3> QED BY <1>4, <3>1, <3>2, <3>3, <3>4 DEF Next
  <2>2. Places' = Places BY <2>1 DEF Places, Units, Fleet, Unassigned, Refused
  <2> QED BY <2>1, <2>2 DEF PlaceInv, Placing, poolVars
<1> QED BY <1>1, <1>2, <1>3, <1>4

LEMMA PlanWholePrimed ==
  ASSUME orders' = orders, cargo' = cargo, param' = param, case' = case, PlanWhole(disk'.plan)
  PROVE  PlanWhole(disk.plan)'
BY DEF PlanWhole, EndsNamed, RowsComplete, SummaryComplete, KeptIn

\* A step that leaves the files and the pool alone.
LEMMA PlanKept ==
  ASSUME PlanInv, UNCHANGED <<orders, cargo, param, case, stage, disk, solves>>
  PROVE  PlanInv'
<1>1. ASSUME disk.plan # NoFile, disk.plan.by = solves PROVE PlanWhole(disk.plan)'
  <2>1. PlanWhole(disk'.plan) BY <1>1 DEF PlanInv
  <2> QED BY <2>1, PlanWholePrimed
<1> QED BY <1>1 DEF PlanInv, NoFile

\* A plan of a call before stays one.
LEMMA PlanPassed ==
  ASSUME PlanInv, solves' = solves + 1, disk'.plan = disk.plan,
         disk' = [infeasible |-> disk'.infeasible, plan |-> disk'.plan]
  PROVE  PlanInv'
<1>1. solves' \in Nat BY DEF PlanInv
<1>2. ASSUME disk.plan # NoFile
      PROVE  disk.plan.by \in Nat /\ disk.plan.by <= solves' /\ disk.plan.by # solves'
  BY <1>2 DEF PlanInv
<1> QED BY <1>1, <1>2 DEF PlanInv, NoFile

\* A plan is written of the pool that is there.
LEMMA PlanWritten ==
  ASSUME PlanInv, CaseInv, OrdersKnown, stage = "done", Placing(place), NEW final \in BOOLEAN,
         disk' = [disk EXCEPT !.plan = Plan(place, final)],
         UNCHANGED <<orders, cargo, param, case, stage, solves>>
  PROVE  PlanInv'
<1> DEFINE plan == Plan(place, final)
<1>1. PlanWhole(plan) BY PlanAccounts DEF PlanReady
<1>2. plan.by = solves BY PlanIsThere
<1>3. disk' = [infeasible |-> disk.infeasible, plan |-> plan] BY DEF PlanInv
<1> HIDE DEF plan
<1>4. disk'.plan = plan BY <1>3
<1>5. PlanWhole(disk.plan)' BY <1>1, <1>4, PlanWholePrimed
<1>6. disk' = [infeasible |-> disk'.infeasible, plan |-> disk'.plan] BY <1>3, <1>4
<1> QED BY <1>2, <1>4, <1>5, <1>6 DEF PlanInv

LEMMA AccountStep ==
  ASSUME AccountInv, [Next]_vars, [PoolNext]_poolVars
  PROVE  AccountInv'
<1>1. TableInv' BY TableStep DEF AccountInv
<1>2. CaseInv' /\ PlaceInv' BY CaseStep, PlaceStep DEF AccountInv
<1>3. PlanInv'
  <2>1. CASE Open
    <3>1. UNCHANGED <<case, disk, solves>> BY <2>1 DEF Open
    <3>2. CASE UNCHANGED poolVars BY <3>1, <3>2, PlanKept DEF AccountInv, poolVars
    <3>3. CASE stage = "unread" BY <3>1, <3>3 DEF AccountInv, PlanInv, NoFile
    <3> QED BY <2>1, <3>2, <3>3 DEF Open, Read
  <2>2. CASE Solve
    <3>1. solves' = solves + 1 /\ (disk' = disk \/ disk' = [disk EXCEPT !.infeasible = InfeasibleReport])
      BY <2>2 DEF Solve
    <3>2. disk'.plan = disk.plan /\ disk' = [infeasible |-> disk'.infeasible, plan |-> disk'.plan]
      BY <3>1 DEF AccountInv, PlanInv
    <3> QED BY <3>1, <3>2, PlanPassed DEF AccountInv
  <2>3. CASE PoolStep
    <3>1. UNCHANGED <<case, disk, solves>> /\ stage # "done"
      BY <2>3 DEF PoolStep, runVars, StartPool, BuildPool, JoinGroup, NewGroup, EndLoc,
                  PlaceInGroup, PlaceApart, EndLabel, MergeOrders
    <3> QED BY <3>1 DEF AccountInv, PlanInv, NoFile
  <2>4. CASE OpenScript \/ Knn \/ Alns \/ ScriptFails
    BY <2>4, PlanKept DEF OpenScript, Knn, Alns, ScriptFails, poolVars, AccountInv
  <2>5. CASE Snapshot \/ EndScript
    <3>1. /\ phase = "script" /\ UNCHANGED <<orders, cargo, param, case, stage, solves>>
          /\ \/ disk' = disk
             \/ \E final \in BOOLEAN : disk' = [disk EXCEPT !.plan = Plan(place, final)]
      BY <2>5 DEF Snapshot, EndScript, poolVars
    <3>2. stage = "done" /\ Placing(place) BY <3>1 DEF AccountInv, PlaceInv
    <3>3. OrdersKnown BY <3>2, PoolKnown DEF AccountInv, TableInv
    <3>4. CASE disk' = disk BY <3>1, <3>4, PlanKept DEF AccountInv
    <3>5. ASSUME NEW final \in BOOLEAN, disk' = [disk EXCEPT !.plan = Plan(place, final)]
          PROVE  PlanInv'
      BY <3>1, <3>2, <3>3, <3>5, PlanWritten DEF AccountInv
    <3> QED BY <3>1, <3>4, <3>5
  <2>6. CASE UNCHANGED vars BY <2>6, PlanKept DEF vars, runVars, poolVars, AccountInv
  <2> QED BY <2>1, <2>2, <2>3, <2>4, <2>5, <2>6 DEF Next
<1> QED BY <1>1, <1>2, <1>3 DEF AccountInv

\* Whatever the scenario and wherever knn and alns leave the orders, a plan accounts for
\* every sub order, at both ends and in the dimensions of its load, and its summary for
\* every cargo order (visual_manager_plan_result.cpp).
THEOREM SolverPlansComplete == Spec => []PlanComplete
<1>1. Init => AccountInv
  <2>1. Init => /\ stage = "unread" /\ table = {} /\ phase = "closed" /\ case \in Cases
                /\ solves = 0 /\ disk = NoDisk
    BY DEF Init, PoolInit
  <2>2. Init => PoolInv /\ CoverInv BY PoolInitInv DEF Init, PoolInit, CoverInv, LocsCover, SortedCover
  <2>3. Init => TableInv BY <2>1, <2>2 DEF TableInv, BuiltInv, ScriptInv, FiledInv
  <2> QED BY <2>1, <2>3 DEF AccountInv, CaseInv, PlaceInv, PlanInv, NoDisk
<1>2. AccountInv /\ [Next]_vars /\ [PoolNext]_poolVars => AccountInv' BY AccountStep
<1>3. AccountInv => PlanComplete BY DEF AccountInv, PlanInv, PlanWhole, PlanComplete
<1> QED BY <1>1, <1>2, <1>3, SolverBuildsPools, PTL DEF Spec, PoolSpec
----------------------------------------------------------------------------
(* Dates of the civil calendar *)

\* What the length of an era's years leaves of its days.
LEMMA YearBounds ==
  ASSUME NEW doe \in Int, NEW a \in Int, NEW b \in Int, NEW c \in Int,
         NEW yoe \in Int, NEW p \in Int, NEW s \in Int,
         0 <= doe, doe <= 146096,
         1460 * a <= doe, doe <= 1460 * a + 1459,
         36524 * b <= doe, doe <= 36524 * b + 36523,
         146096 * c <= doe, doe <= 146096 * c + 146095,
         365 * yoe <= doe - a + b - c, doe - a + b - c <= 365 * yoe + 364,
         4 * p <= yoe, yoe <= 4 * p + 3,
         100 * s <= yoe, yoe <= 100 * s + 99
  PROVE  /\ 0 <= yoe /\ yoe <= 399
         /\ 0 <= doe - (365 * yoe + p - s) /\ doe - (365 * yoe + p - s) <= 365
  BY SMT

\* The day of a year that starts in March has a month of 31 days at most.
LEMMA MonthOfDay ==
  ASSUME NEW doy \in Int, 0 <= doy, doy <= 365
  PROVE  LET mp == (5 * doy + 2) \div 153
         IN  /\ mp \in Int /\ 0 <= mp /\ mp <= 11
             /\ 0 <= doy - (153 * mp + 2) \div 5 /\ doy - (153 * mp + 2) \div 5 <= 30
  BY SMT

\* A date is that of its day, in every year of every era: no day is lost or met twice.
THEOREM DaysHaveDates ==
  ASSUME NEW days \in Int
  PROVE  /\ DaysFromCivil(CivilFromDays(days)) = days
         /\ CivilFromDays(days) \in [year : Int, month : 1 .. 12, day : 1 .. 31]
<1> DEFINE z == days + 719468
           era == z \div 146097
           doe == z - era * 146097
           a == doe \div 1460
           b == doe \div 36524
           c == doe \div 146096
           yoe == (doe - a + b - c) \div 365
           p == yoe \div 4
           s == yoe \div 100
           doy == doe - (365 * yoe + p - s)
           mp == (5 * doy + 2) \div 153
           start == (153 * mp + 2) \div 5
           date == CivilFromDays(days)
<1>1. z \in Int /\ era \in Int /\ doe \in Int /\ 0 <= doe /\ doe <= 146096 /\ z = era * 146097 + doe
  BY SMT
<1> HIDE DEF era, doe
<1>2. /\ a \in Int /\ 1460 * a <= doe /\ doe <= 1460 * a + 1459
      /\ b \in Int /\ 36524 * b <= doe /\ doe <= 36524 * b + 36523
      /\ c \in Int /\ 146096 * c <= doe /\ doe <= 146096 * c + 146095
  BY <1>1, SMT
<1> HIDE DEF a, b, c
<1>3. yoe \in Int /\ 365 * yoe <= doe - a + b - c /\ doe - a + b - c <= 365 * yoe + 364
  BY <1>1, <1>2, SMT
<1> HIDE DEF yoe
<1>4. /\ p \in Int /\ 4 * p <= yoe /\ yoe <= 4 * p + 3
      /\ s \in Int /\ 100 * s <= yoe /\ yoe <= 100 * s + 99
  BY <1>3, SMT
<1> HIDE DEF p, s
<1>5. 0 <= yoe /\ yoe <= 399 /\ 0 <= doy /\ doy <= 365 /\ doy \in Int
  BY <1>1, <1>2, <1>3, <1>4, YearBounds
<1>6. doe = yoe * 365 + p - s + doy
  BY <1>1, <1>3, <1>4
<1> HIDE DEF doy
<1>7. mp \in Int /\ 0 <= mp /\ mp <= 11 /\ 0 <= doy - start /\ doy - start <= 30 /\ start \in Int
  BY <1>5, MonthOfDay
<1> HIDE DEF mp, start
<1> DEFINE month == IF mp < 10 THEN mp + March ELSE mp - 9
           year == yoe + era * 400
<1>8. date = [year |-> IF month < March THEN year + 1 ELSE year, month |-> month,
              day |-> doy - start + 1]
  BY DEF CivilFromDays, era, doe, a, b, c, yoe, p, s, doy, mp, start
<1>9. /\ year \in Int /\ month \in 1 .. 12 /\ month \in Int
      /\ month < March <=> mp >= 10
      /\ (IF month < March THEN month + 9 ELSE month - March) = mp
  BY <1>1, <1>3, <1>7 DEF March
<1>10. (yoe + era * 400) \div 400 = era
  BY <1>1, <1>3, <1>5, SMT
<1> HIDE DEF month, date
<1>11. /\ date.year = (IF month < March THEN year + 1 ELSE year)
       /\ date.month = month /\ date.day = doy - start + 1
  BY <1>8
<1>12. (IF date.month < March THEN date.year - 1 ELSE date.year) = year
  BY <1>9, <1>11
<1>13. year - era * 400 = yoe
  BY <1>1, <1>3
<1>14. DaysFromCivil(date) = era * 146097 + yoe * 365 + p - s + (start + date.day - 1) - 719468
  BY <1>9, <1>10, <1>11, <1>12, <1>13 DEF DaysFromCivil, p, s, start
<1>15. DaysFromCivil(date) = days
  BY <1>1, <1>3, <1>4, <1>5, <1>6, <1>7, <1>11, <1>14
<1>16. date \in [year : Int, month : 1 .. 12, day : 1 .. 31]
  <2>1. doy - start + 1 \in 1 .. 31 BY <1>5, <1>7
  <2>2. (IF month < March THEN year + 1 ELSE year) \in Int BY <1>9
  <2> QED BY <1>8, <1>9, <2>1, <2>2
<1> QED BY <1>15, <1>16 DEF date

LEMMA DayOfTime ==
  ASSUME NEW n \in Int, NEW d \in Nat \ {0}
  PROVE  n \div d \in Int /\ (n \div d) * d <= n /\ n < (n \div d) * d + d
  BY SMT

LEMMA DayAfter ==
  ASSUME NEW k \in Int, NEW d \in Nat \ {0}
  PROVE  (k * d + d) \div d = k + 1
<1> DEFINE n == k * d + d
           q == n \div d
<1>1. q \in Int /\ n \in Int /\ q * d <= n /\ n < q * d + d
  <2>1. n \in Int BY SMT
  <2> HIDE DEF n
  <2> QED BY <2>1, DayOfTime
<1>2. n = (k + 1) * d BY SMT
<1> HIDE DEF n, q
<1>3. q <= k + 1
  <2> SUFFICES ASSUME q >= k + 2 PROVE FALSE BY <1>1
  <2>1. q * d >= (k + 2) * d BY <1>1, SMT
  <2>2. (k + 2) * d = (k + 1) * d + d BY SMT
  <2> QED BY <1>1, <1>2, <2>1, <2>2, SMT
<1>4. q >= k + 1
  <2> SUFFICES ASSUME q <= k PROVE FALSE BY <1>1
  <2>1. q * d <= k * d BY <1>1, SMT
  <2>2. (k + 1) * d = k * d + d BY SMT
  <2> QED BY <1>1, <1>2, <2>1, <2>2, SMT
<1> QED BY <1>1, <1>3, <1>4 DEF q, n

\* A moment lies in the day of its date; the next date is that of the next day, and so is
\* its weekday, at the end of months, years and centuries (from_unix_date, to_unix, add_days
\* of c_chrono_util.h): the days a window is cut into follow each other.
THEOREM DatesFollow ==
  ASSUME NEW t \in Int
  PROVE  LET date == DateOf(t)
         IN  /\ Midnight(date) <= t /\ t < Midnight(date) + DayLen
             /\ Midnight(NextDay(date)) = Midnight(date) + DayLen
             /\ DayOfWeek(date) = ((t + UtcOffset) \div DayLen + 4) % 7
             /\ DayOfWeek(NextDay(date)) = (DayOfWeek(date) + 1) % 7
<1> DEFINE date == DateOf(t)
           day == (t + UtcOffset) \div DayLen
           midnight == Midnight(date)
           after == (midnight + DayLen + UtcOffset) \div DayLen
<1>1. day \in Int /\ day * DayLen <= t + UtcOffset /\ t + UtcOffset < day * DayLen + DayLen
  BY DayAssumption, DayOfTime
<1>2. date = CivilFromDays(day) BY DEF DateOf
<1>3. NextDay(date) = CivilFromDays(after) BY DEF NextDay, DateOf
<1> HIDE DEF day, date
<1>4. DaysFromCivil(date) = day BY <1>1, <1>2, DaysHaveDates
<1>5. midnight = day * DayLen - UtcOffset BY <1>4 DEF Midnight
<1>6. after = day + 1
  <2>1. day * DayLen \in Int BY <1>1, DayAssumption
  <2>2. midnight + DayLen + UtcOffset = day * DayLen + DayLen BY <1>5, <2>1, DayAssumption
  <2> QED BY <1>1, <2>2, DayAssumption, DayAfter
<1> HIDE DEF after, midnight
<1>7. DaysFromCivil(NextDay(date)) = day + 1 BY <1>1, <1>3, <1>6, DaysHaveDates
<1>8. Midnight(NextDay(date)) = midnight + DayLen
  <2>1. Midnight(NextDay(date)) = (day + 1) * DayLen - UtcOffset BY <1>7 DEF Midnight
  <2>2. (day + 1) * DayLen = day * DayLen + DayLen /\ day * DayLen \in Int BY <1>1, DayAssumption, SMT
  <2> QED BY <1>5, <2>1, <2>2, DayAssumption
<1>9. midnight <= t /\ t < midnight + DayLen
  <2>1. day * DayLen \in Int BY <1>1, DayAssumption
  <2> QED BY <1>1, <1>5, <2>1, DayAssumption
<1>10. DayOfWeek(date) = (day + 4) % 7 /\ DayOfWeek(NextDay(date)) = (day + 5) % 7
  <2>1. day + 1 + 4 = day + 5 BY <1>1
  <2> QED BY <1>4, <1>7, <2>1 DEF DayOfWeek
<1>11. (day + 5) % 7 = (((day + 4) % 7) + 1) % 7 BY <1>1, SMT
<1> QED BY <1>8, <1>9, <1>10, <1>11 DEF date, day, midnight
=============================================================================
