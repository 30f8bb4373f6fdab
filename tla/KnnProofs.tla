---------------------------- MODULE KnnProofs ----------------------------
(***************************************************************************)
(* Proofs about the rows of the neighbour graph, for any orders, vehicles, *)
(* distances and counts, and about the construction that walks them, for   *)
(* any graph.                                                              *)
(***************************************************************************)
EXTENDS KnnConstruct, NeighbourGraph, SolutionSpaceProofs, SequenceTheorems

\* The pairs list every other order once, by ascending rank.
PairsSorted ==
  /\ IsFiniteSet(DOMAIN ranks)
  /\ DOMAIN ranks \subseteq Others(from)
  /\ ranks \in [DOMAIN ranks -> Nat]
  /\ rank_pairs \in Seq(DOMAIN ranks)
  /\ \A i, j \in DOMAIN rank_pairs : rank_pairs[i] = rank_pairs[j] => i = j
  /\ \A b \in DOMAIN ranks : \E i \in DOMAIN rank_pairs : rank_pairs[i] = b
  /\ Ascending(rank_pairs, ranks)

\* The row holds the pairs before next, numbered so that ranks keep their order
\* and each number, counted from 0, is at least its rank's place among the different ranks.
RowNumbered ==
  /\ next \in 1 .. Len(rank_pairs) + 1
  /\ \A b : b \in Kept <=> \E i \in 1 .. next - 1 : rank_pairs[i] = b
  /\ \A b \in Kept : knn_order_edges[b] \in 0 .. k - 1 /\ Place(b) <= knn_order_edges[b] + 1
  /\ \A b, c \in Kept : ranks[b] < ranks[c] => knn_order_edges[b] < knn_order_edges[c]

\* While it is built, the counter is the last number given, at most one more per
\* pair, and never ahead of the rank it is compared with.
CounterBehind ==
  /\ pre_rank \in -1 .. next - 2
  /\ next = 1 => pre_rank = -1
  /\ \A b \in Kept : knn_order_edges[b] <= pre_rank
  /\ next > 1 => /\ knn_order_edges[rank_pairs[next - 1]] = pre_rank
                 /\ pre_rank <= ranks[rank_pairs[next - 1]]

RowInv ==
  /\ k \in Int /\ from \in Orders /\ pc \in {"idle", "cut"}
  /\ PairsSorted
  /\ RowNumbered
  /\ pc = "cut" => CounterBehind

----------------------------------------------------------------------------
\* A count of the distances some orders have is a natural number.
LEMMA ImageCount ==
  ASSUME NEW S, IsFiniteSet(S), NEW f, f = [c \in S |-> f[c]]
  PROVE  IsFiniteSet({f[c] : c \in S}) /\ Cardinality({f[c] : c \in S}) \in Nat
<1> DEFINE T == {f[c] : c \in S}
<1>1. f \in Surjection(S, T) BY DEF Surjection
<1>2. IsFiniteSet(T) BY <1>1, FS_Surjection
<1> QED BY <1>2, FS_CardinalityType

\* Composite ranks are natural numbers, whatever the distances are.
LEMMA RankType ==
  ASSUME NEW a \in Orders, NEW b \in Orders
  PROVE  CompositeRank(a, b) \in Nat
<1> DEFINE S == {d \in Others(a) : DropDist(a, d) <= DropDist(a, b)}
           R == {d \in Others(a) : PickDist(a, d) <= PickDist(a, b)}
           f == [c \in S |-> DropDist(a, c)]
           g == [c \in R |-> PickDist(a, c)]
<1>1. S \subseteq Orders /\ R \subseteq Orders BY DEF Others
<1>2. IsFiniteSet(S) /\ IsFiniteSet(R) BY <1>1, OrdersAssumption, FS_Subset
<1>3. {DropDist(a, c) : c \in S} = {f[c] : c \in S}
  /\ {PickDist(a, c) : c \in R} = {g[c] : c \in R} OBVIOUS
<1> HIDE DEF f, g
<1>4. f = [c \in S |-> f[c]] /\ g = [c \in R |-> g[c]] BY DEF f, g
<1>5. Cardinality({f[c] : c \in S}) \in Nat BY <1>2, <1>4, ImageCount
<1>6. Cardinality({g[c] : c \in R}) \in Nat BY <1>2, <1>4, ImageCount
<1>7. DropRank(a, b) \in Nat BY <1>3, <1>5 DEF DropRank
<1>8. PickRank(a, b) \in Nat BY <1>3, <1>6 DEF PickRank
<1> QED BY <1>7, <1>8 DEF CompositeRank

\* A listing of a finite set has each of its elements.
LEMMA ListingAll ==
  ASSUME NEW S, IsFiniteSet(S), NEW l \in SetToSeqs(S)
  PROVE  /\ l \in Seq(S)
         /\ \A i, j \in DOMAIN l : l[i] = l[j] => i = j
         /\ \A b \in S : \E i \in DOMAIN l : l[i] = b
<1> DEFINE n == Cardinality(S)
           D == 1 .. n
<1>1. n \in Nat BY FS_CardinalityType
<1>2. l \in [D -> S] /\ \A i, j \in D : i # j => l[i] # l[j] BY DEF SetToSeqs
<1>3. IsFiniteSet(D) /\ Cardinality(D) = n BY <1>1, FS_Interval
<1>4. l \in Injection(D, S) BY <1>2 DEF Injection, IsInjective
<1>5. l \in Surjection(D, S) BY <1>3, <1>4, FS_Injection
<1>6. \A b \in S : \E i \in D : l[i] = b BY <1>5 DEF Surjection
<1>7. l \in Seq(S) BY <1>1, <1>2
<1> QED BY <1>2, <1>6, <1>7

----------------------------------------------------------------------------
\* Before the first call there is no row.
LEMMA RowInitHolds == RowInit => RowInv
<1> SUFFICES ASSUME RowInit PROVE RowInv OBVIOUS
<1>1. k \in Int /\ from \in Orders BY ScenesAssumption DEF RowInit
<1>2. DOMAIN ranks = {} /\ Kept = {} BY DEF RowInit, Kept
<1>3. IsFiniteSet({}) BY FS_EmptySet
<1>4. PairsSorted BY <1>2, <1>3 DEF RowInit, PairsSorted, Ascending
<1>5. RowNumbered BY <1>2 DEF RowInit, RowNumbered
<1> QED BY <1>1, <1>2, <1>4, <1>5 DEF RowInit, RowInv

\* A call starts with an empty row.
LEMMA EdgeStep ==
  ASSUME RowInv, NEW a \in Orders, ConstructKnnEdge(a)
  PROVE  RowInv'
<1> DEFINE S == Others(a)
<1>1. IsFiniteSet(S) BY OrdersAssumption, FS_Subset DEF Others
<1>2. Others(a)' = S BY DEF ConstructKnnEdge, Others, Shared
<1>3. DOMAIN ranks' = S /\ ranks' \in [S -> Nat]
  BY RankType DEF ConstructKnnEdge, Others
<1>4. rank_pairs' \in SetToSeqs(S) /\ Ascending(rank_pairs', ranks')
  BY DEF ConstructKnnEdge
<1>5. PairsSorted'
  <2>1. /\ rank_pairs' \in Seq(S)
        /\ \A i, j \in DOMAIN rank_pairs' : rank_pairs'[i] = rank_pairs'[j] => i = j
        /\ \A b \in S : \E i \in DOMAIN rank_pairs' : rank_pairs'[i] = b
    BY <1>1, <1>4, ListingAll
  <2>2. Others(from)' = S BY <1>2 DEF ConstructKnnEdge, Others, Shared
  <2> HIDE DEF S
  <2> QED BY <1>1, <1>3, <1>4, <2>1, <2>2 DEF PairsSorted, Ascending
<1>6. Kept' = {} /\ next' = 1 /\ pre_rank' = -1 /\ pc' = "cut" /\ k' = k
  BY DEF ConstructKnnEdge, Kept
<1>7. Len(rank_pairs') \in Nat BY <1>5 DEF PairsSorted
<1>8. RowNumbered' BY <1>6, <1>7 DEF RowNumbered
<1>9. CounterBehind' BY <1>6 DEF CounterBehind
<1> QED BY <1>5, <1>6, <1>8, <1>9 DEF RowInv, ConstructKnnEdge

----------------------------------------------------------------------------
\* The pair to be kept is not in the row, and no kept one has a greater rank.
LEMMA PairNew ==
  ASSUME RowInv, pc = "cut", next <= Len(rank_pairs)
  PROVE  LET b == rank_pairs[next]
         IN  /\ b \in DOMAIN ranks /\ b \notin Kept
             /\ Rank \in Nat
             /\ Kept \subseteq DOMAIN ranks
             /\ \A c \in Kept : ranks[c] <= Rank
<1>1. next \in DOMAIN rank_pairs /\ rank_pairs \in Seq(DOMAIN ranks)
  BY DEF RowInv, PairsSorted, RowNumbered
<1>2. rank_pairs[next] \in DOMAIN ranks /\ Rank \in Nat
  BY <1>1 DEF RowInv, PairsSorted, Rank
<1>3. ASSUME NEW c \in Kept
      PROVE  c \in DOMAIN ranks /\ c # rank_pairs[next] /\ ranks[c] <= Rank
  <2>1. PICK i \in 1 .. next - 1 : rank_pairs[i] = c BY DEF RowInv, RowNumbered
  <2>2. i \in DOMAIN rank_pairs /\ i < next BY <1>1, <2>1
  <2> QED BY <1>1, <2>1, <2>2 DEF RowInv, PairsSorted, Ascending, Rank
<1> QED BY <1>2, <1>3

\* What the counter becomes: it stands still only on the rank it has reached.
LEMMA CounterNext ==
  ASSUME RowInv, pc = "cut", next <= Len(rank_pairs)
  PROVE  /\ Counter \in 0 .. next - 1
         /\ Counter <= Rank
         /\ pre_rank <= Counter
         /\ \A c \in Kept : ranks[c] < Rank => knn_order_edges[c] < Counter
<1>1. /\ pre_rank \in -1 .. next - 2 /\ next \in Nat \ {0}
      /\ \A c \in Kept : knn_order_edges[c] <= pre_rank /\ knn_order_edges[c] \in Int
  <2>1. pre_rank \in -1 .. next - 2 /\ \A c \in Kept : knn_order_edges[c] <= pre_rank
    BY DEF RowInv, CounterBehind
  <2>2. Len(rank_pairs) \in Nat BY DEF RowInv, PairsSorted
  <2>3. next \in Nat \ {0} /\ \A c \in Kept : knn_order_edges[c] \in 0 .. k - 1
    BY <2>2 DEF RowInv, RowNumbered
  <2> QED BY <2>1, <2>3
<1>2. Rank \in Nat /\ \A c \in Kept : ranks[c] <= Rank /\ ranks[c] \in Nat
  BY PairNew DEF RowInv, PairsSorted
<1>3. CASE next = 1
  <2>1. pre_rank = -1 /\ Kept = {} BY <1>3 DEF RowInv, CounterBehind, RowNumbered
  <2>2. Counter = 0 BY <1>2, <2>1 DEF Counter
  <2> QED BY <1>1, <1>2, <1>3, <2>1, <2>2
<1>4. CASE next > 1
  <2> DEFINE l == rank_pairs[next - 1]
  <2>1. l \in Kept BY <1>1, <1>4 DEF RowInv, RowNumbered
  <2>2. knn_order_edges[l] = pre_rank /\ pre_rank <= ranks[l] /\ pre_rank >= 0
    BY <1>4, <2>1 DEF RowInv, CounterBehind, RowNumbered
  <2>3. ranks[l] <= Rank /\ ranks[l] \in Nat BY <1>2, <2>1
  <2>4. CASE Rank # pre_rank
    <3>1. Counter = pre_rank + 1 BY <2>4 DEF Counter
    <3>2. pre_rank < Rank BY <1>1, <1>2, <2>2, <2>3, <2>4
    <3> QED BY <1>1, <1>2, <3>1, <3>2
  <2>5. CASE Rank = pre_rank
    <3>1. Counter = pre_rank /\ ranks[l] = Rank BY <1>1, <1>2, <2>2, <2>3, <2>5 DEF Counter
    <3>2. ASSUME NEW c \in Kept, ranks[c] < Rank PROVE knn_order_edges[c] < Counter
      BY <2>1, <2>2, <3>1, <3>2 DEF RowInv, RowNumbered
    <3> QED BY <1>1, <1>2, <2>2, <2>5, <3>1, <3>2
  <2> QED BY <2>4, <2>5
<1> QED BY <1>1, <1>3, <1>4

RanksUpTo(r) == {ranks[c] : c \in {d \in DOMAIN ranks : ranks[d] <= r}}

\* A place is a natural number.
LEMMA PlaceType ==
  ASSUME RowInv
  PROVE  /\ \A r : IsFiniteSet(RanksUpTo(r)) /\ Cardinality(RanksUpTo(r)) \in Nat
         /\ \A b : Place(b) = Cardinality(RanksUpTo(ranks[b]))
<1>1. ASSUME NEW r PROVE IsFiniteSet(RanksUpTo(r)) /\ Cardinality(RanksUpTo(r)) \in Nat
  <2> DEFINE S == {d \in DOMAIN ranks : ranks[d] <= r}
             f == [c \in S |-> ranks[c]]
  <2>1. IsFiniteSet(S) BY FS_Subset DEF RowInv, PairsSorted
  <2>2. f = [c \in S |-> f[c]] /\ RanksUpTo(r) = {f[c] : c \in S} BY DEF RanksUpTo
  <2> HIDE DEF f, S
  <2> QED BY <2>1, <2>2, ImageCount
<1> QED BY <1>1 DEF Place, RanksUpTo

\* The place of the pair is at most one more than that of the pair before, and the
\* counter stands still only when the rank does.
LEMMA PlaceNext ==
  ASSUME RowInv, pc = "cut", next <= Len(rank_pairs)
  PROVE  Place(rank_pairs[next]) <= Counter + 1
<1> DEFINE b == rank_pairs[next]
<1>1. /\ next \in DOMAIN rank_pairs /\ rank_pairs \in Seq(DOMAIN ranks)
      /\ DOMAIN rank_pairs \subseteq Nat /\ next \in Nat \ {0}
      /\ ranks \in [DOMAIN ranks -> Nat] /\ IsFiniteSet(DOMAIN ranks)
  BY DEF RowInv, PairsSorted, RowNumbered
<1>2. Rank \in Nat /\ Rank = ranks[b] /\ b \in DOMAIN ranks /\ Counter \in Nat
  <2>1. Counter \in 0 .. next - 1 BY CounterNext
  <2> QED BY <1>1, <2>1, PairNew DEF Rank
<1>3. ASSUME NEW d \in DOMAIN ranks
      PROVE  \/ ranks[d] >= Rank
             \/ \E j \in DOMAIN rank_pairs : j < next /\ rank_pairs[j] = d
  <2>1. PICK j \in DOMAIN rank_pairs : rank_pairs[j] = d BY DEF RowInv, PairsSorted
  <2>2. CASE j < next BY <2>1, <2>2
  <2>3. CASE j = next BY <1>2, <2>1, <2>3
  <2>4. CASE next < j BY <1>1, <1>2, <2>1, <2>4 DEF RowInv, PairsSorted, Ascending
  <2> QED BY <1>1, <2>2, <2>3, <2>4
<1>4. Place(b) = Cardinality(RanksUpTo(Rank)) BY <1>2, PlaceType
<1>5. CASE next = 1
  <2>1. \A d \in DOMAIN ranks : ranks[d] >= Rank
    <3>1. ~ \E j \in DOMAIN rank_pairs : j < next BY <1>1, <1>5
    <3> QED BY <1>3, <3>1
  <2>2. RanksUpTo(Rank) = {Rank} BY <1>1, <1>2, <2>1 DEF RanksUpTo
  <2>3. Cardinality({Rank}) = 1 BY FS_Singleton
  <2> QED BY <1>2, <1>4, <2>2, <2>3
<1>6. CASE next # 1
  <2> DEFINE l == rank_pairs[next - 1]
  <2>1. next > 1 /\ next - 1 \in DOMAIN rank_pairs /\ l \in DOMAIN ranks /\ ranks[l] \in Nat
    BY <1>1, <1>6
  <2>2. l \in Kept /\ ranks[l] <= Rank
    <3>1. l \in Kept BY <1>1, <2>1 DEF RowInv, RowNumbered
    <3> QED BY <3>1, PairNew
  <2>3. /\ knn_order_edges[l] = pre_rank /\ pre_rank <= ranks[l] /\ pre_rank \in Int
        /\ Place(l) <= pre_rank + 1
    BY <1>1, <2>1, <2>2 DEF RowInv, CounterBehind, RowNumbered
  <2>4. ASSUME NEW d \in DOMAIN ranks, ranks[d] <= Rank
        PROVE  ranks[d] = Rank \/ ranks[d] <= ranks[l]
    <3>1. CASE ranks[d] >= Rank BY <1>1, <1>2, <2>4, <3>1
    <3>2. CASE \E j \in DOMAIN rank_pairs : j < next /\ rank_pairs[j] = d
      <4>1. PICK j \in DOMAIN rank_pairs : j < next /\ rank_pairs[j] = d BY <3>2
      <4>2. j = next - 1 \/ j < next - 1 BY <1>1, <4>1
      <4> QED BY <2>1, <4>1, <4>2 DEF RowInv, PairsSorted, Ascending
    <3> QED BY <1>3, <3>1, <3>2
  <2>5. RanksUpTo(Rank) = RanksUpTo(ranks[l]) \cup {Rank}
    BY <1>1, <1>2, <2>1, <2>2, <2>4 DEF RanksUpTo
  <2>6. /\ Place(l) = Cardinality(RanksUpTo(ranks[l])) /\ Place(l) \in Nat
        /\ IsFiniteSet(RanksUpTo(ranks[l]))
    BY PlaceType
  <2>7. CASE Rank # pre_rank
    <3>1. Counter = pre_rank + 1 BY <2>7 DEF Counter
    <3>2. Place(b) \in {Place(l), Place(l) + 1}
      <4> DEFINE S == RanksUpTo(ranks[l])
      <4>1. IsFiniteSet(S) /\ Place(l) = Cardinality(S) /\ Place(b) = Cardinality(S \cup {Rank})
        BY <1>4, <2>5, <2>6
      <4> HIDE DEF S
      <4>2. Cardinality(S \cup {Rank}) = IF Rank \in S THEN Cardinality(S) ELSE Cardinality(S) + 1
        BY <4>1, FS_AddElement
      <4> HIDE DEF b, l
      <4> QED BY <4>1, <4>2
    <3>3. Place(b) <= Counter + 1
      <4> HIDE DEF b, l
      <4> QED BY <2>3, <2>6, <3>1, <3>2
    <3> QED BY <3>3
  <2>8. CASE Rank = pre_rank
    <3>1. Counter = pre_rank /\ ranks[l] = Rank
      BY <1>2, <2>1, <2>2, <2>3, <2>8 DEF Counter
    <3> QED BY <1>4, <2>3, <2>6, <3>1
  <2> QED BY <2>7, <2>8
<1> QED BY <1>5, <1>6

\* Keeping a pair extends the row.
LEMMA KeepStep == ASSUME RowInv, Keep PROVE RowInv'
<1> DEFINE b == rank_pairs[next]
           e == knn_order_edges'
<1>0. pc = "cut" /\ next <= Len(rank_pairs) BY DEF Keep
<1>1. /\ b \in DOMAIN ranks /\ b \notin Kept /\ Rank \in Nat /\ Kept \subseteq DOMAIN ranks
      /\ \A c \in Kept : ranks[c] <= Rank
  BY <1>0, PairNew
<1>2. /\ Counter \in 0 .. next - 1 /\ Counter <= Rank /\ pre_rank <= Counter
      /\ \A c \in Kept : ranks[c] < Rank => knn_order_edges[c] < Counter
  BY <1>0, CounterNext
<1>3. /\ next \in Nat \ {0} /\ next \in DOMAIN rank_pairs /\ Len(rank_pairs) \in Nat
      /\ k \in Int /\ pre_rank \in Int /\ rank_pairs \in Seq(DOMAIN ranks)
  BY <1>0 DEF RowInv, RowNumbered, PairsSorted, CounterBehind
<1>4. /\ Kept' = Kept \cup {b} /\ e[b] = Counter
      /\ \A c \in Kept : e[c] = knn_order_edges[c]
  BY <1>1 DEF Keep, Kept
<1>5. UNCHANGED <<k, pc, from, ranks, rank_pairs, scene>> /\ next' = next + 1 /\ pre_rank' = Counter
  BY DEF Keep
<1>6. Others(from)' = Others(from) BY <1>5 DEF Others, Shared
<1>7. PairsSorted' BY <1>5, <1>6 DEF RowInv, PairsSorted, Ascending
<1>8. Counter < k
  <2>1. CASE Rank # pre_rank BY <1>2, <1>3, <2>1 DEF Keep, LimitReached
  <2>2. CASE Rank = pre_rank
    <3>1. Counter = pre_rank /\ next > 1
      BY <1>0, <1>1, <1>3, <2>2 DEF Counter, RowInv, CounterBehind
    <3>2. rank_pairs[next - 1] \in Kept /\ knn_order_edges[rank_pairs[next - 1]] = pre_rank
      BY <1>0, <1>3, <3>1 DEF RowInv, RowNumbered, CounterBehind
    <3> QED BY <1>3, <3>1, <3>2 DEF RowInv, RowNumbered
  <2> QED BY <2>1, <2>2
<1>9. RowNumbered'
  <2>1. next' \in 1 .. Len(rank_pairs') + 1 BY <1>0, <1>3, <1>5
  <2>2. ASSUME NEW c PROVE c \in Kept' <=> \E i \in 1 .. next' - 1 : rank_pairs'[i] = c
    <3>1. c \in Kept <=> \E i \in 1 .. next - 1 : rank_pairs[i] = c BY DEF RowInv, RowNumbered
    <3>2. 1 .. next' - 1 = (1 .. next - 1) \cup {next} BY <1>3, <1>5
    <3> QED BY <1>4, <1>5, <3>1, <3>2
  <2>3. \A c \in Kept' : e[c] \in 0 .. k' - 1
    BY <1>2, <1>3, <1>4, <1>5, <1>8 DEF RowInv, RowNumbered
  <2>4. \A c \in Kept' : Place(c)' <= e[c] + 1
    <3>1. Place(b) <= Counter + 1 BY <1>0, PlaceNext
    <3>2. \A c : Place(c)' = Place(c) BY <1>5 DEF Place
    <3> QED BY <1>4, <3>1, <3>2 DEF RowInv, RowNumbered
  <2>5. ASSUME NEW c \in Kept', NEW d \in Kept', ranks'[c] < ranks'[d] PROVE e[c] < e[d]
    <3>1. ranks[c] < ranks[d] /\ ranks[b] = Rank BY <1>5, <2>5 DEF Rank
    <3>2. CASE c \in Kept /\ d \in Kept BY <1>4, <3>1, <3>2 DEF RowInv, RowNumbered
    <3>3. CASE c \in Kept /\ d = b BY <1>2, <1>4, <3>1, <3>3
    <3>4. CASE c = b /\ d \in Kept
      <4>1. ranks[d] <= Rank /\ ranks[d] \in Nat BY <1>1, <3>4 DEF RowInv, PairsSorted
      <4> QED BY <1>1, <3>1, <3>4, <4>1
    <3>5. CASE c = b /\ d = b BY <1>1, <3>1, <3>5
    <3> QED BY <1>4, <3>2, <3>3, <3>4, <3>5
  <2> QED BY <2>1, <2>2, <2>3, <2>4, <2>5 DEF RowNumbered
<1>10. CounterBehind'
  <2>1. \A c \in Kept' : e[c] <= pre_rank'
    BY <1>0, <1>2, <1>3, <1>4, <1>5 DEF RowInv, CounterBehind, RowNumbered
  <2>2. rank_pairs'[next' - 1] = b BY <1>3, <1>5
  <2>3. e[b] = pre_rank' /\ pre_rank' <= ranks'[b] BY <1>2, <1>4, <1>5 DEF Rank
  <2> QED BY <1>2, <1>3, <1>5, <2>1, <2>2, <2>3 DEF CounterBehind
<1> QED BY <1>0, <1>3, <1>5, <1>7, <1>9, <1>10 DEF RowInv

\* A row that is finished stays as it is.
LEMMA EndStep == ASSUME RowInv, Cut \/ KeepAll PROVE RowInv'
<1>1. UNCHANGED <<scene, k, from, ranks, rank_pairs, next, knn_order_edges>> /\ pc' = "idle"
  BY DEF Cut, KeepAll
<1>2. PairsSorted' BY <1>1 DEF RowInv, PairsSorted, Ascending, Others, Shared
<1>3. RowNumbered'
  <2>1. \A b : Place(b)' = Place(b) BY <1>1 DEF Place
  <2> QED BY <1>1, <2>1 DEF RowInv, RowNumbered, Kept
<1> QED BY <1>1, <1>2, <1>3 DEF RowInv

\* Every step of a call keeps the row as it must be.
LEMMA RowInvHolds == RowSpec => []RowInv
<1>1. ASSUME RowInv, [RowNext]_rowVars PROVE RowInv'
  <2>1. ASSUME NEW a \in Orders, ConstructKnnEdge(a) PROVE RowInv' BY <1>1, <2>1, EdgeStep
  <2>2. CASE Keep BY <1>1, <2>2, KeepStep
  <2>3. CASE Cut \/ KeepAll BY <1>1, <2>3, EndStep
  <2>4. CASE UNCHANGED rowVars
    <3>1. UNCHANGED <<scene, k, pc, from, ranks, rank_pairs, next, pre_rank, knn_order_edges>>
      BY <2>4 DEF rowVars
    <3>2. PairsSorted' BY <1>1, <3>1 DEF RowInv, PairsSorted, Ascending, Others, Shared
    <3>3. RowNumbered'
      <4>1. \A b : Place(b)' = Place(b) BY <3>1 DEF Place
      <4> QED BY <1>1, <3>1, <4>1 DEF RowInv, RowNumbered, Kept
    <3>4. pc' = "cut" => CounterBehind' BY <1>1, <3>1 DEF RowInv, CounterBehind, Kept
    <3> QED BY <1>1, <3>1, <3>2, <3>3, <3>4 DEF RowInv
  <2> QED BY <1>1, <2>1, <2>2, <2>3, <2>4 DEF RowNext
<1> QED BY RowInitHolds, <1>1, PTL DEF RowSpec

----------------------------------------------------------------------------
\* Only what is ranked is kept.
LEMMA PairsKept == RowInv => Kept \subseteq DOMAIN ranks
<1> SUFFICES ASSUME RowInv PROVE Kept \subseteq DOMAIN ranks OBVIOUS
<1>1. rank_pairs \in Seq(DOMAIN ranks) BY DEF RowInv, PairsSorted
<1> QED BY <1>1 DEF RowInv, RowNumbered

\* Whatever the distances, the counts and the listing of equal ranks, the cut keeps
\* smaller ranks first and in their order.
THEOREM LowerRanksComeFirst == RowSpec => []LowerRankFirst
<1>1. RowInv => LowerRankFirst
  <2> SUFFICES ASSUME RowInv, pc = "idle", NEW b \in DOMAIN ranks, NEW c \in Kept,
                      ranks[b] < ranks[c]
               PROVE  b \in Kept /\ knn_order_edges[b] < knn_order_edges[c]
    BY DEF LowerRankFirst
  <2>1. PICK i \in 1 .. next - 1 : rank_pairs[i] = c BY DEF RowInv, RowNumbered
  <2>2. PICK j \in DOMAIN rank_pairs : rank_pairs[j] = b BY DEF RowInv, PairsSorted
  <2>3. /\ rank_pairs \in Seq(DOMAIN ranks) /\ next \in 1 .. Len(rank_pairs) + 1
        /\ Ascending(rank_pairs, ranks)
    BY DEF RowInv, PairsSorted, RowNumbered
  <2>4. i \in DOMAIN rank_pairs /\ c \in DOMAIN ranks BY <2>1, <2>3
  <2>5. ranks[b] \in Nat /\ ranks[c] \in Nat BY <2>4 DEF RowInv, PairsSorted
  <2>6. j < i
    <3>1. j # i BY <2>1, <2>2, <2>5
    <3>2. ~ i < j BY <2>1, <2>2, <2>3, <2>4, <2>5 DEF Ascending
    <3> QED BY <2>2, <2>3, <2>4, <3>1, <3>2
  <2>7. b \in Kept BY <2>1, <2>2, <2>3, <2>6 DEF RowInv, RowNumbered
  <2> QED BY <2>7 DEF RowInv, RowNumbered
<1> QED BY <1>1, RowInvHolds, PTL

\* Whatever the distances, the count and the listing of equal ranks, a row holds
\* only orders of the k least different ranks.
THEOREM OnlyLeastRanksKept == RowSpec => []OnlyLeastRanks
<1>1. RowInv => OnlyLeastRanks
  <2> SUFFICES ASSUME RowInv, NEW b \in Kept PROVE b \in DOMAIN ranks /\ Place(b) <= k
    BY DEF OnlyLeastRanks
  <2>1. knn_order_edges[b] \in 0 .. k - 1 /\ Place(b) <= knn_order_edges[b] + 1
    BY DEF RowInv, RowNumbered
  <2>2. Place(b) \in Nat BY PlaceType
  <2> QED BY <2>1, <2>2, PairsKept DEF RowInv
<1> QED BY <1>1, RowInvHolds, PTL

----------------------------------------------------------------------------
(* Sums: what SumFunction folds, by the sums of the subsets *)

\* The element that a sum takes next.
Taken(s) == CHOOSE x \in s : TRUE

\* g has the sum of f over each subset of S.
SumsUp(g, f, S) ==
  g = [s \in SUBSET S |-> IF s = {} THEN 0 ELSE f[Taken(s)] + g[s \ {Taken(s)}]]

\* Some set of sets of a finite set is minimal.
LEMMA LeastSet ==
  ASSUME NEW S, IsFiniteSet(S), NEW B, B \subseteq SUBSET S, B # {}
  PROVE  \E x \in B : \A y \in B : y \subseteq x => y = x
<1> DEFINE less == StrictSubsetOrdering(S)
<1>1. B \subseteq FiniteSubsetsOf(S)
  <2>1. \A x \in B : x \in SUBSET S /\ IsFiniteSet(x) BY FS_Subset
  <2> QED BY <2>1 DEF FiniteSubsetsOf
<1>2. IsWellFoundedOn(less, FiniteSubsetsOf(S)) BY FS_StrictSubsetOrderingWellFounded
<1>3. PICK x \in B : \A y \in B : << y, x >> \notin less
  <2> HIDE DEF less
  <2> QED BY <1>1, <1>2, WFMin
<1>4. ASSUME NEW y \in B, y \subseteq x PROVE y = x
  BY <1>3, <1>4 DEF StrictSubsetOrdering
<1> QED BY <1>4

\* A sum takes one element away from what is left to add.
LEMMA TakenSmaller ==
  ASSUME NEW s, s # {}
  PROVE  /\ Taken(s) \in s /\ s \ {Taken(s)} \subseteq s /\ s \ {Taken(s)} # s
<1>1. \E x \in s : TRUE OBVIOUS
<1>2. Taken(s) \in s BY <1>1 DEF Taken
<1> QED BY <1>2

\* The sums are determined.
LEMMA SumsUnique ==
  ASSUME NEW S, IsFiniteSet(S), NEW T, T \subseteq S, NEW f, NEW g, NEW h,
         SumsUp(g, f, S), SumsUp(h, f, T)
  PROVE  \A s \in SUBSET T : g[s] = h[s]
<1> DEFINE bad == {s \in SUBSET T : g[s] # h[s]}
<1>1. SUFFICES ASSUME bad # {} PROVE FALSE OBVIOUS
<1>2. PICK x \in bad : \A y \in bad : y \subseteq x => y = x
  <2>1. bad \subseteq SUBSET S OBVIOUS
  <2> HIDE DEF bad
  <2> QED BY <1>1, <2>1, LeastSet
<1>3. x # {} BY <1>2 DEF SumsUp
<1> DEFINE y == x \ {Taken(x)}
<1>4. y \subseteq x /\ y # x BY <1>3, TakenSmaller
<1>5. g[y] = h[y] BY <1>2, <1>4
<1>6. g[x] = f[Taken(x)] + g[y] /\ h[x] = f[Taken(x)] + h[y] BY <1>2, <1>3 DEF SumsUp
<1> QED BY <1>2, <1>5, <1>6

\* Every finite set can be summed: a least one that could not would have a part that can.
LEMMA SumsExist ==
  ASSUME NEW S, IsFiniteSet(S), NEW f
  PROVE  \E g : SumsUp(g, f, S)
<1> DEFINE bad == {s \in SUBSET S : ~ \E g : SumsUp(g, f, s)}
<1>1. SUFFICES ASSUME bad # {} PROVE FALSE OBVIOUS
<1>2. PICK x \in bad : \A y \in bad : y \subseteq x => y = x
  <2>1. bad \subseteq SUBSET S OBVIOUS
  <2> HIDE DEF bad
  <2> QED BY <1>1, <2>1, LeastSet
<1> DEFINE rest(s) == s \ {Taken(s)}
           sums(s) == CHOOSE g : SumsUp(g, f, s)
           G == [s \in SUBSET x |-> IF s = {} THEN 0 ELSE f[Taken(s)] + sums(rest(s))[rest(s)]]
<1>3. ASSUME NEW s \in SUBSET x, s # {} PROVE SumsUp(sums(rest(s)), f, rest(s))
  <2>1. rest(s) \subseteq x /\ rest(s) # x /\ rest(s) \in SUBSET S
    BY <1>3, TakenSmaller
  <2>2. rest(s) \notin bad BY <1>2, <2>1
  <2>3. \E g : SumsUp(g, f, rest(s)) BY <2>1, <2>2
  <2> QED BY <2>3
<1>4. ASSUME NEW s \in SUBSET x, s # {} PROVE sums(rest(s))[rest(s)] = G[rest(s)]
  <2> DEFINE t == rest(s)
             g == sums(t)
  <2>1. t \in SUBSET x /\ SumsUp(g, f, t) BY <1>3, <1>4, TakenSmaller
  <2>2. CASE t = {}
    <3>1. g[t] = 0 BY <2>1, <2>2 DEF SumsUp
    <3> QED BY <2>1, <2>2, <3>1
  <2>3. CASE t # {}
    <3> DEFINE u == rest(t)
               h == sums(u)
    <3>1. u \in SUBSET t /\ SumsUp(h, f, u) BY <1>3, <2>1, <2>3, TakenSmaller
    <3>2. g[t] = f[Taken(t)] + g[u] BY <2>1, <2>3 DEF SumsUp
    <3>3. IsFiniteSet(t) BY <2>1, FS_Subset
    <3> HIDE DEF g, h, t
    <3>4. g[u] = h[u]
      <4> HIDE DEF u
      <4> QED BY <2>1, <3>1, <3>3, SumsUnique
    <3>5. G[t] = f[Taken(t)] + h[u] BY <2>1, <2>3 DEF h
    <3> QED BY <3>2, <3>4, <3>5 DEF g, t
  <2> QED BY <2>2, <2>3
<1>5. G = [s \in SUBSET x |-> IF s = {} THEN 0 ELSE f[Taken(s)] + G[rest(s)]]
  <2> HIDE DEF G, sums
  <2>1. \A s \in SUBSET x : s # {} => sums(rest(s))[rest(s)] = G[rest(s)] BY <1>4
  <2> HIDE DEF rest
  <2> QED BY <2>1 DEF G
<1>6. SumsUp(G, f, x) BY <1>5 DEF SumsUp
<1> HIDE DEF G
<1> QED BY <1>2, <1>6

\* The sum of the community modules is such a sum over the whole domain.
LEMMA SumOf ==
  ASSUME NEW f, IsFiniteSet(DOMAIN f)
  PROVE  \E g : SumsUp(g, f, DOMAIN f) /\ SumFunction(f) = g[DOMAIN f]
<1>1. SumFunction(f) = (CHOOSE g : SumsUp(g, f, DOMAIN f))[DOMAIN f]
  BY DEF SumFunction, SumFunctionOnSet, FoldFunctionOnSet, MapThenFoldSet, SumsUp, Taken
<1>2. SumsUp(CHOOSE g : SumsUp(g, f, DOMAIN f), f, DOMAIN f) BY SumsExist
<1> QED BY <1>1, <1>2

\* A sum of natural numbers is one: in no least set does it stop being one.
LEMMA SumType ==
  ASSUME NEW f, IsFiniteSet(DOMAIN f), \A x \in DOMAIN f : f[x] \in Nat
  PROVE  SumFunction(f) \in Nat
<1> DEFINE D == DOMAIN f
<1>1. PICK g : SumsUp(g, f, D) /\ SumFunction(f) = g[D] BY SumOf
<1> DEFINE bad == {s \in SUBSET D : g[s] \notin Nat}
<1>2. SUFFICES ASSUME bad # {} PROVE FALSE BY <1>1
<1>3. PICK x \in bad : \A y \in bad : y \subseteq x => y = x
  <2>1. bad \subseteq SUBSET D OBVIOUS
  <2> HIDE DEF bad
  <2> QED BY <1>2, <2>1, LeastSet
<1>4. x # {} BY <1>1, <1>3 DEF SumsUp
<1> DEFINE y == x \ {Taken(x)}
<1>5. y \subseteq x /\ y # x /\ Taken(x) \in x BY <1>4, TakenSmaller
<1>6. g[y] \in Nat BY <1>3, <1>5
<1>7. g[x] = f[Taken(x)] + g[y] BY <1>1, <1>3, <1>4 DEF SumsUp
<1> QED BY <1>3, <1>5, <1>6, <1>7
----------------------------------------------------------------------------
(* Nearer orders *)

\* A distance between two orders is the mean over at least one vehicle.
LEMMA DistType ==
  ASSUME scene \in Scenes, NEW a \in Orders, NEW b \in Others(a)
  PROVE  PickDist(a, b) \in Nat /\ DropDist(a, b) \in Nat
<1> DEFINE S == Shared(a, b)
           d == [v \in S |-> scene.dist[v][<<scene.drop[a], scene.drop[b]>>]]
           p == [v \in S |-> IF scene.filo THEN scene.dist[v][<<scene.pick[b], scene.pick[a]>>]
                                            ELSE scene.dist[v][<<scene.pick[a], scene.pick[b]>>]]
<1>1. IsScene(scene) /\ IsFiniteSet(Vehicles) BY ScenesAssumption
<1>2. b \in Orders /\ S # {} /\ S \subseteq Vehicles BY <1>1 DEF Others, IsScene, Shared
<1>3. IsFiniteSet(S) BY <1>1, <1>2, FS_Subset
<1>4. Cardinality(S) \in Nat \ {0} BY <1>2, <1>3, FS_CardinalityType, FS_EmptySet
<1>5. ASSUME NEW v \in S PROVE d[v] \in Nat /\ p[v] \in Nat
  <2>1. /\ scene.dist[v] \in [Locations \X Locations -> Nat]
        /\ scene.drop[a] \in Locations /\ scene.drop[b] \in Locations
        /\ scene.pick[a] \in Locations /\ scene.pick[b] \in Locations
    BY <1>1, <1>2 DEF IsScene
  <2>2. \A l, m \in Locations : scene.dist[v][<<l, m>>] \in Nat BY <2>1
  <2> QED BY <2>1, <2>2
<1>6. DOMAIN d = S /\ DOMAIN p = S OBVIOUS
<1>7. DropDist(a, b) = Mean(d) /\ PickDist(a, b) = Mean(p) BY DEF DropDist, PickDist
<1> HIDE DEF S, d, p
<1>8. SumFunction(d) \in Nat /\ SumFunction(p) \in Nat BY <1>3, <1>5, <1>6, SumType
<1>9. \A n \in Nat, m \in Nat \ {0} : n \div m \in Nat OBVIOUS
<1> QED BY <1>4, <1>6, <1>7, <1>8, <1>9 DEF Mean

\* How many different values of f are at most f[x].
RankIn(S, f, x) == Cardinality({f[y] : y \in {z \in S : f[z] <= f[x]}})

\* Of two places, that of the greater value is the greater.
LEMMA RankGrows ==
  ASSUME NEW S, IsFiniteSet(S), NEW f \in [S -> Nat], NEW b \in S, NEW c \in S, f[b] <= f[c]
  PROVE  /\ RankIn(S, f, b) \in Nat /\ RankIn(S, f, c) \in Nat /\ RankIn(S, f, b) <= RankIn(S, f, c)
         /\ f[b] < f[c] => RankIn(S, f, b) < RankIn(S, f, c)
<1> DEFINE upTo(x) == {f[y] : y \in {z \in S : f[z] <= f[x]}}
<1>1. IsFiniteSet(upTo(c))
  <2> DEFINE R == {z \in S : f[z] <= f[c]}
             g == [y \in R |-> f[y]]
  <2>1. IsFiniteSet(R) BY FS_Subset
  <2>2. g \in Surjection(R, upTo(c)) BY DEF Surjection
  <2> HIDE DEF g, R
  <2> QED BY <2>1, <2>2, FS_Surjection
<1>2. upTo(b) \subseteq upTo(c) OBVIOUS
<1>3. f[b] < f[c] => f[c] \in upTo(c) /\ f[c] \notin upTo(b) OBVIOUS
<1>4. IsFiniteSet(upTo(b)) BY <1>1, <1>2, FS_Subset
<1>5. Cardinality(upTo(b)) \in Nat /\ Cardinality(upTo(c)) \in Nat
  BY <1>1, <1>4, FS_CardinalityType
<1>6. /\ Cardinality(upTo(b)) <= Cardinality(upTo(c))
      /\ Cardinality(upTo(c)) = Cardinality(upTo(b)) => upTo(c) = upTo(b)
  <2> HIDE DEF upTo
  <2> QED BY <1>1, <1>2, FS_Subset
<1>7. f[b] < f[c] => upTo(b) # upTo(c) BY <1>3
<1> HIDE DEF upTo
<1>8. f[b] < f[c] => Cardinality(upTo(b)) < Cardinality(upTo(c)) BY <1>5, <1>6, <1>7
<1>9. \A x : RankIn(S, f, x) = Cardinality(upTo(x)) BY DEF RankIn, upTo
<1> QED BY <1>5, <1>6, <1>8, <1>9

\* A nearer order has the smaller composite rank.
LEMMA NearerRanksLower ==
  ASSUME scene \in Scenes, NEW a \in Orders, NEW b \in Others(a), NEW c \in Others(a),
         Nearer(a, b, c)
  PROVE  CompositeRank(a, b) < CompositeRank(a, c)
<1> DEFINE S == Others(a)
           d == [x \in S |-> DropDist(a, x)]
           p == [x \in S |-> PickDist(a, x)]
<1>1. IsFiniteSet(S) BY OrdersAssumption, FS_Subset DEF Others
<1>2. d \in [S -> Nat] /\ p \in [S -> Nat] BY DistType
<1>3. ASSUME NEW x \in S
      PROVE  DropRank(a, x) = RankIn(S, d, x) /\ PickRank(a, x) = RankIn(S, p, x)
  <2>1. {DropDist(a, y) : y \in {z \in Others(a) : DropDist(a, z) <= DropDist(a, x)}}
          = {d[y] : y \in {z \in S : d[z] <= d[x]}}
    OBVIOUS
  <2>2. {PickDist(a, y) : y \in {z \in Others(a) : PickDist(a, z) <= PickDist(a, x)}}
          = {p[y] : y \in {z \in S : p[z] <= p[x]}}
    OBVIOUS
  <2> QED BY <2>1, <2>2 DEF DropRank, PickRank, RankIn
<1>4. d[b] <= d[c] /\ p[b] <= p[c] /\ (d[b] < d[c] \/ p[b] < p[c]) BY DEF Nearer
<1> HIDE DEF S, d, p
<1>5. b \in S /\ c \in S BY DEF S
<1>6. /\ DropRank(a, b) \in Nat /\ DropRank(a, c) \in Nat /\ DropRank(a, b) <= DropRank(a, c)
      /\ d[b] < d[c] => DropRank(a, b) < DropRank(a, c)
  BY <1>1, <1>2, <1>3, <1>4, <1>5, RankGrows
<1>7. /\ PickRank(a, b) \in Nat /\ PickRank(a, c) \in Nat /\ PickRank(a, b) <= PickRank(a, c)
      /\ p[b] < p[c] => PickRank(a, b) < PickRank(a, c)
  BY <1>1, <1>2, <1>3, <1>4, <1>5, RankGrows
<1> QED BY <1>4, <1>6, <1>7 DEF CompositeRank

\* The ranks of a row are those of the orders it is built for.
RanksComposite ==
  /\ scene \in Scenes
  /\ DOMAIN ranks = {} \/ ranks = [b \in Others(from) |-> CompositeRank(from, b)]

\* The ranks of a row are the composite ranks of its order.
LEMMA RanksCompositeHolds == RowSpec => []RanksComposite
<1>1. RowInit => RanksComposite BY DEF RowInit, RanksComposite
<1>2. ASSUME RanksComposite, [RowNext]_rowVars PROVE RanksComposite'
  <2>1. scene' = scene
    BY <1>2 DEF RowNext, rowVars, ConstructKnnEdge, Keep, Cut, KeepAll
  <2>2. \A a, b : Shared(a, b)' = Shared(a, b) BY <2>1 DEF Shared
  <2>3. \A a : Others(a)' = Others(a) BY <2>2 DEF Others
  <2>4. \A a, b : DropDist(a, b)' = DropDist(a, b) /\ PickDist(a, b)' = PickDist(a, b)
    <3> SUFFICES ASSUME NEW a, NEW b
                 PROVE  DropDist(a, b)' = DropDist(a, b) /\ PickDist(a, b)' = PickDist(a, b)
      OBVIOUS
    <3>1. /\ [v \in Shared(a, b)' |-> scene'.dist[v][<<scene'.drop[a], scene'.drop[b]>>]]
               = [v \in Shared(a, b) |-> scene.dist[v][<<scene.drop[a], scene.drop[b]>>]]
          /\ [v \in Shared(a, b)' |-> IF scene'.filo
                                       THEN scene'.dist[v][<<scene'.pick[b], scene'.pick[a]>>]
                                       ELSE scene'.dist[v][<<scene'.pick[a], scene'.pick[b]>>]]
               = [v \in Shared(a, b) |-> IF scene.filo
                                         THEN scene.dist[v][<<scene.pick[b], scene.pick[a]>>]
                                         ELSE scene.dist[v][<<scene.pick[a], scene.pick[b]>>]]
      BY <2>1, <2>2
    <3> QED BY <3>1 DEF DropDist, PickDist
  <2>5. \A a, b : CompositeRank(a, b)' = CompositeRank(a, b)
    BY <2>3, <2>4 DEF CompositeRank, DropRank, PickRank
  <2>6. ASSUME NEW a \in Orders, ConstructKnnEdge(a) PROVE RanksComposite'
    <3>1. from' = a /\ ranks' = [b \in Others(a) |-> CompositeRank(a, b)]
      BY <2>6 DEF ConstructKnnEdge
    <3>2. [b \in Others(a)' |-> CompositeRank(a, b)'] = [b \in Others(a) |-> CompositeRank(a, b)]
      BY <2>3, <2>5
    <3> QED BY <1>2, <2>1, <3>1, <3>2 DEF RanksComposite
  <2>7. CASE Keep \/ Cut \/ KeepAll \/ UNCHANGED rowVars
    <3>1. from' = from /\ ranks' = ranks BY <2>7 DEF Keep, Cut, KeepAll, rowVars
    <3>2. [b \in Others(from) |-> CompositeRank(from, b)]'
            = [b \in Others(from) |-> CompositeRank(from, b)]
      BY <2>3, <2>5, <3>1
    <3> QED BY <1>2, <2>1, <3>1, <3>2 DEF RanksComposite
  <2> QED BY <1>2, <2>6, <2>7 DEF RowNext
<1> QED BY <1>1, <1>2, PTL DEF RowSpec

\* Whatever the distances, no order is kept while a nearer one is left out, and the
\* nearer of two has the smaller rank (construct_knn_edge).
THEOREM NearerComeFirst == RowSpec => []NearerFirst
<1>1. RowInv /\ RanksComposite /\ LowerRankFirst => NearerFirst
  <2> SUFFICES ASSUME RowInv, RanksComposite, LowerRankFirst, pc = "idle",
                      NEW b \in Others(from), NEW c \in Kept, Nearer(from, b, c)
               PROVE  b \in Kept /\ knn_order_edges[b] < knn_order_edges[c]
    BY DEF NearerFirst
  <2>1. Kept \subseteq DOMAIN ranks /\ DOMAIN ranks \subseteq Others(from) /\ from \in Orders
    BY PairsKept DEF RowInv, PairsSorted
  <2>2. ranks = [x \in Others(from) |-> CompositeRank(from, x)]
    BY <2>1 DEF RanksComposite
  <2>3. CompositeRank(from, b) < CompositeRank(from, c)
    BY <2>1, NearerRanksLower DEF RanksComposite
  <2> QED BY <2>1, <2>2, <2>3 DEF LowerRankFirst
<1> QED BY <1>1, RowInvHolds, RanksCompositeHolds, LowerRanksComeFirst, PTL
----------------------------------------------------------------------------
(* The construction *)

\* Every order that is not lost is in one place, every lost one in none.
Spread(s, lost) ==
  /\ \A o \in Orders \ lost :
       o \in s.unassigned \/ \E i \in DOMAIN s.loads : o \in s.loads[i].orders
  /\ \A i \in DOMAIN s.loads : s.loads[i].orders \cap (s.unassigned \cup lost) = {}
  /\ \A i, j \in DOMAIN s.loads : i # j => s.loads[i].orders \cap s.loads[j].orders = {}
  /\ s.unassigned \cap lost = {}

\* The answer of the trial that was chosen still holds when the order is inserted.
BestStands ==
  phase = "insert" =>
    /\ scan.best \in cand \X un
    /\ LET v == scan.fits[scan.best]
       IN  v \in Vehicles /\ (v = sol.loads[scan.best[1]].veh \/ HasAvailableVehicle(sol, v))

\* The waiting orders are the pool, with a round and, among the seeds, an iteration
\* for each, or none of them can be a seed.
RoundsSuffice ==
  phase # "called" =>
    /\ un = sol.unassigned
    /\ un \subseteq Windowless \/ Cardinality(un) <= rounds
    /\ phase # "scan" => rounds > 0
    /\ phase = "seed" => seeds = Cardinality(un)

BuildInv ==
  /\ phase \in {"called", "scan", "seed", "insert"} /\ ~ thrown /\ rounds \in Nat
  /\ sol \in Solution /\ Accounted(sol) /\ Spread(sol, refused)
  /\ un \subseteq Orders /\ cand \subseteq DOMAIN sol.loads
  /\ BestStands /\ RoundsSuffice

\* Orders that wait can be counted, and one that goes lowers the count by one.
LEMMA WaitingCount ==
  ASSUME NEW U, U \subseteq Orders
  PROVE  /\ Cardinality(U) \in Nat
         /\ \A o \in U : Cardinality(U \ {o}) = Cardinality(U) - 1
         /\ Cardinality(U) = 0 => U = {}
<1>1. IsFiniteSet(U) BY OrdersAssumption, FS_Subset
<1> QED BY <1>1, FS_CardinalityType, FS_RemoveElement, FS_EmptySet

\* An order moves from the pool into a load, an old one or a new one.
LEMMA MoveSpreads ==
  ASSUME NEW s, NEW t, NEW lost, Spread(s, lost), NEW o \in s.unassigned, NEW i,
         t.unassigned = s.unassigned \ {o},
         DOMAIN t.loads = DOMAIN s.loads \cup {i},
         t.loads[i].orders = {o} \cup (IF i \in DOMAIN s.loads THEN s.loads[i].orders ELSE {}),
         \A j \in DOMAIN s.loads \ {i} : t.loads[j].orders = s.loads[j].orders
  PROVE  Spread(t, lost)
<1>1. ASSUME NEW p \in Orders \ lost
      PROVE  p \in t.unassigned \/ \E j \in DOMAIN t.loads : p \in t.loads[j].orders
  <2>1. CASE p = o BY <2>1
  <2>2. CASE p # o /\ p \in s.unassigned BY <2>2
  <2>3. CASE \E j \in DOMAIN s.loads : p \in s.loads[j].orders
    <3>1. PICK j \in DOMAIN s.loads : p \in s.loads[j].orders BY <2>3
    <3>2. p \in t.loads[j].orders
      <4>1. CASE j = i BY <3>1, <4>1
      <4>2. CASE j # i BY <3>1, <4>2
      <4> QED BY <4>1, <4>2
    <3> QED BY <3>2
  <2> QED BY <2>1, <2>2, <2>3 DEF Spread
<1>2. ASSUME NEW j \in DOMAIN t.loads
      PROVE  t.loads[j].orders \cap (t.unassigned \cup lost) = {}
  <2>1. CASE j \in DOMAIN s.loads BY <2>1 DEF Spread
  <2>2. CASE j \notin DOMAIN s.loads BY <2>2 DEF Spread
  <2> QED BY <2>1, <2>2
<1>3. ASSUME NEW j \in DOMAIN t.loads, NEW l \in DOMAIN t.loads, j # l
      PROVE  t.loads[j].orders \cap t.loads[l].orders = {}
  <2>1. CASE j # i /\ l # i BY <1>3, <2>1 DEF Spread
  <2>2. CASE j = i BY <1>3, <2>2 DEF Spread
  <2>3. CASE l = i BY <1>3, <2>3 DEF Spread
  <2> QED BY <2>1, <2>2, <2>3
<1>4. t.unassigned \cap lost = {} BY DEF Spread
<1> HIDE DEF Spread
<1> QED BY <1>1, <1>2, <1>3, <1>4 DEF Spread

\* A construction starts with a workspace whose loads and pool share out the orders.
LEMMA BuildInit == Init => BuildInv
<1> SUFFICES ASSUME Init PROVE BuildInv OBVIOUS
<1>1. sol \in Solution /\ Conserved(sol) /\ Accounted(sol) BY StartsAssumption DEF Init
<1>2. Spread(sol, refused) BY <1>1 DEF Init, Conserved, Spread
<1> QED BY <1>1, <1>2 DEF Init, BuildInv, BestStands, RoundsSuffice

\* The passes over the pool start with as many rounds as orders wait.
LEMMA StartStep == ASSUME BuildInv, Start PROVE BuildInv'
<1>1. /\ UNCHANGED <<sol, refused, thrown>> /\ phase' = "scan" /\ cand' = DOMAIN sol.loads
      /\ un' = sol.unassigned /\ rounds' = Cardinality(sol.unassigned)
  BY DEF Start
<1>2. sol.unassigned \subseteq Orders BY SolutionParts DEF BuildInv
<1>3. Cardinality(sol.unassigned) \in Nat BY <1>2, WaitingCount
<1>4. BestStands' BY <1>1 DEF BestStands
<1>5. RoundsSuffice' BY <1>1, <1>3 DEF RoundsSuffice
<1> QED BY <1>1, <1>2, <1>3, <1>4, <1>5 DEF BuildInv

\* A pass leaves the solution alone: it finds the best insertion, or goes over to the seeds.
LEMMA ScanStep == ASSUME BuildInv, Scan PROVE BuildInv'
<1>1. UNCHANGED <<sol, un, rounds, refused, thrown>> /\ phase = "scan" /\ rounds > 0 BY DEF Scan
<1>2. un = sol.unassigned /\ (un \subseteq Windowless \/ Cardinality(un) <= rounds)
  BY <1>1 DEF BuildInv, RoundsSuffice
<1>3. PICK trial \in Trials :
        IF DOMAIN trial = {}
        THEN phase' = "seed" /\ cand' = {} /\ seeds' = Cardinality(un)
        ELSE /\ phase' = "insert" /\ cand' = cand
             /\ \E p \in DOMAIN trial : scan'.best = p /\ scan'.fits = trial
  BY DEF Scan
<1>4. CASE DOMAIN trial = {}
  <2>1. BestStands' BY <1>3, <1>4 DEF BestStands
  <2>2. RoundsSuffice' BY <1>1, <1>2, <1>3, <1>4 DEF RoundsSuffice
  <2> QED BY <1>1, <1>3, <1>4, <2>1, <2>2 DEF BuildInv
<1>5. CASE DOMAIN trial # {}
  <2>1. PICK p \in DOMAIN trial : scan'.best = p /\ scan'.fits = trial BY <1>3, <1>5
  <2>2. PICK S \in SUBSET Near :
          /\ trial \in [S -> Vehicles]
          /\ \A q \in S : trial[q] = sol.loads[q[1]].veh \/ HasAvailableVehicle(sol, trial[q])
    BY DEF Trials
  <2>3. /\ p \in cand \X un /\ trial[p] \in Vehicles
        /\ trial[p] = sol.loads[p[1]].veh \/ HasAvailableVehicle(sol, trial[p])
    BY <2>2 DEF Near
  <2>4. phase' = "insert" /\ cand' = cand BY <1>3, <1>5
  <2>5. BestStands' BY <1>1, <2>1, <2>3, <2>4 DEF BestStands, HasAvailableVehicle
  <2>6. RoundsSuffice' BY <1>1, <1>2, <2>4 DEF RoundsSuffice
  <2> QED BY <1>1, <2>4, <2>5, <2>6 DEF BuildInv
<1> QED BY <1>4, <1>5

\* The load that takes an order is the load with that order on the vehicle chosen;
\* no account is exceeded.
LEMMA InsertedSound ==
  ASSUME sol \in Solution, Accounted(sol), Spread(sol, refused),
         NEW i \in DOMAIN sol.loads, NEW o \in sol.unassigned, NEW v \in Vehicles,
         v = sol.loads[i].veh \/ HasAvailableVehicle(sol, v)
  PROVE  LET new == Inserted(i, o, v)
         IN  /\ new \in Solution /\ Accounted(new) /\ Spread(new, refused)
             /\ new.unassigned = sol.unassigned \ {o} /\ DOMAIN new.loads = DOMAIN sol.loads
             /\ ~ OccupyThrows(Released(sol.usage, sol.loads[i].veh), v)
<1> DEFINE w == sol.loads[i].veh
           load == [veh |-> v, orders |-> sol.loads[i].orders \cup {o}, verdict |-> "feasible"]
           new == Inserted(i, o, v)
<1>1. /\ sol.loads \in Seq(Load) /\ sol.unassigned \subseteq Orders
      /\ sol.usage \in [Vehicles -> Int] /\ w \in Vehicles /\ sol.loads[i].orders \subseteq Orders
  BY SolutionParts
<1>2. load \in Load BY <1>1 DEF Load, Verdict
<1>3. /\ new.loads = [sol.loads EXCEPT ![i] = load]
      /\ new.usage = Occupied(Released(sol.usage, w), v)
      /\ new.unassigned = sol.unassigned \ {o}
      /\ new = [loads |-> new.loads, unassigned |-> new.unassigned, usage |-> new.usage]
  <2>1. sol = [loads |-> sol.loads, unassigned |-> sol.unassigned, usage |-> sol.usage]
    BY DEF Solution
  <2> DEFINE L == [sol.loads EXCEPT ![i] = load]
             G == Occupied(Released(sol.usage, w), v)
             U == sol.unassigned \ {o}
  <2>2. new = [sol EXCEPT !.unassigned = U, !.usage = G, !.loads = L] BY <2>1 DEF Inserted
  <2> HIDE DEF new, L, G, U
  <2>3. new = [loads |-> L, usage |-> G, unassigned |-> U] BY <2>1, <2>2
  <2>4. new.loads = L /\ new.usage = G /\ new.unassigned = U BY <2>3
  <2> QED BY <2>3, <2>4 DEF L, G, U
<1>4. ~ OccupyThrows(Released(sol.usage, w), v)
  <2>1. /\ sol.usage[w] \in Int /\ sol.usage[w] <= MaxUsable[w] /\ MaxUsable[w] \in Nat
        /\ sol.usage[v] \in Int /\ MaxUsable[v] \in Nat
    BY <1>1, FleetAssumption DEF Accounted
  <2>2. Released(sol.usage, w)[v] = sol.usage[v] - (IF v = w THEN 1 ELSE 0)
    BY <1>1 DEF Released
  <2>3. v = w \/ sol.usage[v] < MaxUsable[v] BY DEF HasAvailableVehicle
  <2> HIDE DEF w
  <2>4. Released(sol.usage, w)[v] + 1 <= MaxUsable[v] BY <2>1, <2>2, <2>3
  <2> QED BY <2>1, <2>2, <2>4 DEF OccupyThrows
<1>5. new \in Solution
  <2>1. new.loads \in Seq(Load) BY <1>1, <1>2, <1>3
  <2>2. new.usage \in [Vehicles -> Int]
    <3>1. Released(sol.usage, w) \in [Vehicles -> Int] BY <1>1, AccountsType
    <3>2. Occupied(Released(sol.usage, w), v) \in [Vehicles -> Int] BY <3>1, AccountsType
    <3> QED BY <1>3, <3>2
  <2>3. new.unassigned \in SUBSET Orders BY <1>1, <1>3
  <2> HIDE DEF new
  <2> QED BY <1>3, <2>1, <2>2, <2>3 DEF Solution
<1>6. Accounted(new)
  <2>1. ~ UpdateLoadThrows(sol, i, load) BY <1>4 DEF UpdateLoadThrows
  <2>2. new.usage = Occupied(Released(sol.usage, sol.loads[i].veh), load.veh) BY <1>3
  <2> HIDE DEF new, load
  <2> QED BY <1>2, <1>3, <2>1, <2>2, UpdateLoadAccounts
<1>7. Spread(new, refused)
  <2>1. DOMAIN new.loads = DOMAIN sol.loads \cup {i} BY <1>3
  <2>2. new.loads[i].orders = {o} \cup (IF i \in DOMAIN sol.loads THEN sol.loads[i].orders ELSE {})
    BY <1>3
  <2>3. \A j \in DOMAIN sol.loads \ {i} : new.loads[j].orders = sol.loads[j].orders BY <1>3
  <2> HIDE DEF new
  <2> QED BY <1>3, <2>1, <2>2, <2>3, MoveSpreads
<1> QED BY <1>3, <1>4, <1>5, <1>6, <1>7

\* Inserting moves one order from the pool into a load that keeps its vehicle or finds a free one.
LEMMA InsertStep == ASSUME BuildInv, Insert PROVE BuildInv'
<1> DEFINE i == scan.best[1]
           o == scan.best[2]
           v == scan.fits[scan.best]
<1>1. /\ phase = "insert" /\ sol' = Inserted(i, o, v) /\ un' = un \ {o}
      /\ cand' = cand \ scan.archived /\ rounds' = rounds - 1 /\ refused' = refused
      /\ IF OccupyThrows(Released(sol.usage, sol.loads[i].veh), v)
         THEN thrown' = TRUE /\ phase' = "crashed" ELSE thrown' = FALSE /\ phase' = "scan"
  BY DEF Insert
<1>2. /\ i \in cand /\ o \in un /\ v \in Vehicles
      /\ v = sol.loads[i].veh \/ HasAvailableVehicle(sol, v)
  BY <1>1 DEF BuildInv, BestStands
<1>3. /\ un = sol.unassigned /\ rounds > 0 /\ rounds \in Nat
      /\ un \subseteq Windowless \/ Cardinality(un) <= rounds
  BY <1>1 DEF BuildInv, RoundsSuffice
<1> HIDE DEF i, o, v
<1>4. /\ sol' \in Solution /\ Accounted(sol') /\ Spread(sol', refused)
      /\ sol'.unassigned = sol.unassigned \ {o} /\ DOMAIN sol'.loads = DOMAIN sol.loads
      /\ ~ OccupyThrows(Released(sol.usage, sol.loads[i].veh), v)
  BY <1>1, <1>2, <1>3, InsertedSound DEF BuildInv
<1>5. thrown' = FALSE /\ phase' = "scan" BY <1>1, <1>4
<1>6. Cardinality(un) \in Nat /\ Cardinality(un') = Cardinality(un) - 1
  BY <1>1, <1>2, WaitingCount DEF BuildInv
<1>7. BestStands' BY <1>5 DEF BestStands
<1>8. RoundsSuffice' BY <1>1, <1>3, <1>4, <1>5, <1>6 DEF RoundsSuffice
<1>9. Accounted(sol)' /\ Spread(sol, refused)' BY <1>1, <1>4 DEF Accounted, Driving, Spread
<1> QED BY <1>1, <1>3, <1>4, <1>5, <1>7, <1>8, <1>9 DEF BuildInv

----------------------------------------------------------------------------
\* The pool without a seed order.
LEMMA SeedLeavesPool ==
  ASSUME sol \in Solution, Accounted(sol), NEW o
  PROVE  LET mid == [sol EXCEPT !.unassigned = @ \ {o}]
         IN  /\ mid \in Solution /\ Accounted(mid)
             /\ mid.loads = sol.loads /\ mid.usage = sol.usage
             /\ mid.unassigned = sol.unassigned \ {o}
BY DEF Solution, Accounted

\* A seed that forms no load leaves the pool and is noted.
LEMMA SeedRefusedStep ==
  ASSUME BuildInv, NEW o, SeedRefused(o)
  PROVE  BuildInv'
<1>1. /\ phase = "seed" /\ o \in un /\ sol' = [sol EXCEPT !.unassigned = @ \ {o}]
      /\ un' = un \ {o} /\ refused' = refused \cup {o} /\ seeds' = seeds - 1
      /\ UNCHANGED <<phase, cand, rounds, scan, thrown>>
  BY DEF SeedRefused
<1>2. /\ un = sol.unassigned /\ rounds > 0 /\ rounds \in Nat /\ seeds = Cardinality(un)
      /\ un \subseteq Windowless \/ Cardinality(un) <= rounds
  BY <1>1 DEF BuildInv, RoundsSuffice
<1>3. /\ sol' \in Solution /\ Accounted(sol') /\ sol'.loads = sol.loads
      /\ sol'.unassigned = sol.unassigned \ {o}
  BY <1>1, SeedLeavesPool DEF BuildInv
<1>4. Spread(sol, refused)' BY <1>1, <1>2, <1>3 DEF BuildInv, Spread
<1>5. Cardinality(un) \in Nat /\ Cardinality(un') = Cardinality(un) - 1
  BY <1>1, WaitingCount DEF BuildInv
<1>6. BestStands' BY <1>1 DEF BestStands
<1>7. RoundsSuffice' BY <1>1, <1>2, <1>3, <1>5 DEF RoundsSuffice
<1>8. Accounted(sol)' BY <1>3 DEF Accounted, Driving
<1> QED BY <1>1, <1>2, <1>3, <1>4, <1>6, <1>7, <1>8 DEF BuildInv

\* A seed that forms a load takes a free vehicle.
LEMMA SeedOpensStep ==
  ASSUME BuildInv, NEW o, NEW v \in Vehicles, SeedOpens(o, v)
  PROVE  BuildInv'
<1> DEFINE mid == [sol EXCEPT !.unassigned = @ \ {o}]
           load == [veh |-> v, orders |-> {o}, verdict |-> "feasible"]
           n == Len(sol.loads) + 1
<1>1. /\ phase = "seed" /\ o \in un /\ HasAvailableVehicle(sol, v) /\ sol' = AddLoad(mid, load)
      /\ cand' = cand \cup {Len(sol'.loads)} /\ un' = un \ {o} /\ rounds' = rounds - 1
      /\ refused' = refused
      /\ IF AddLoadThrows(sol, load)
         THEN thrown' = TRUE /\ phase' = "crashed" ELSE thrown' = FALSE /\ phase' = "scan"
  BY DEF SeedOpens
<1>2. /\ un = sol.unassigned /\ rounds > 0 /\ rounds \in Nat /\ un \subseteq Orders
      /\ un \subseteq Windowless \/ Cardinality(un) <= rounds
  BY <1>1 DEF BuildInv, RoundsSuffice
<1>3. /\ mid \in Solution /\ Accounted(mid) /\ mid.loads = sol.loads /\ mid.usage = sol.usage
      /\ mid.unassigned = sol.unassigned \ {o}
  BY SeedLeavesPool DEF BuildInv
<1>4. load \in Load /\ load.verdict = "feasible" /\ load.veh = v /\ load.orders = {o}
  BY <1>1, <1>2 DEF Load, Verdict
<1>5. /\ sol.loads \in Seq(Load) /\ Len(sol.loads) \in Nat
      /\ DOMAIN sol.loads = 1 .. Len(sol.loads)
  BY SolutionParts DEF BuildInv
<1> HIDE DEF mid, load
<1>6. ~ AddLoadThrows(mid, load) /\ Accounted(sol')
  BY <1>1, <1>3, <1>4, AddLoadAccounts DEF HasAvailableVehicle
<1>7. thrown' = FALSE /\ phase' = "scan" BY <1>1, <1>3, <1>6 DEF AddLoadThrows
<1>8. /\ sol'.loads = Append(sol.loads, load) /\ sol'.unassigned = sol.unassigned \ {o}
      /\ sol'.usage = Occupied(sol.usage, v)
      /\ sol' = [loads |-> sol'.loads, unassigned |-> sol'.unassigned, usage |-> sol'.usage]
  BY <1>1, <1>3, <1>4 DEF AddLoad
<1>9. /\ sol'.loads \in Seq(Load) /\ Len(sol'.loads) = n /\ DOMAIN sol'.loads = 1 .. n
      /\ sol'.loads[n] = load /\ \A j \in DOMAIN sol.loads : sol'.loads[j] = sol.loads[j]
  BY <1>4, <1>5, <1>8
<1>10. sol' \in Solution
  <2>1. sol'.usage \in [Vehicles -> Int]
    BY <1>8, AccountsType, SolutionParts DEF BuildInv
  <2>2. sol'.unassigned \in SUBSET Orders BY <1>2, <1>8
  <2> QED BY <1>8, <1>9, <2>1, <2>2 DEF Solution
<1>11. Spread(sol', refused)
  <2>1. DOMAIN sol'.loads = DOMAIN sol.loads \cup {n} /\ n \notin DOMAIN sol.loads
    BY <1>5, <1>9
  <2>2. sol'.loads[n].orders = {o} \cup (IF n \in DOMAIN sol.loads THEN sol.loads[n].orders ELSE {})
    BY <1>4, <1>9, <2>1
  <2>3. \A j \in DOMAIN sol.loads \ {n} : sol'.loads[j].orders = sol.loads[j].orders BY <1>9
  <2>4. Spread(sol, refused) /\ o \in sol.unassigned /\ sol'.unassigned = sol.unassigned \ {o}
    BY <1>1, <1>2, <1>8 DEF BuildInv
  <2> HIDE DEF n
  <2> QED BY <2>1, <2>2, <2>3, <2>4, MoveSpreads
<1>12. Cardinality(un) \in Nat /\ Cardinality(un') = Cardinality(un) - 1
  BY <1>1, <1>2, WaitingCount
<1>13. cand' \subseteq DOMAIN sol'.loads BY <1>1, <1>5, <1>9 DEF BuildInv
<1>14. BestStands' BY <1>7 DEF BestStands
<1>15. RoundsSuffice' BY <1>1, <1>2, <1>7, <1>8, <1>12 DEF RoundsSuffice
<1>16. Accounted(sol)' /\ Spread(sol, refused)'
  BY <1>1, <1>6, <1>11 DEF Accounted, Driving, Spread
<1> QED BY <1>1, <1>2, <1>7, <1>10, <1>13, <1>14, <1>15, <1>16 DEF BuildInv

\* The seed loop and the call end without touching a load.
LEMMA EndsStep == ASSUME BuildInv, SeedsEnd \/ Return PROVE BuildInv'
<1>1. UNCHANGED <<sol, refused, thrown, scan>> BY DEF SeedsEnd, Return
<1>2. Accounted(sol)' /\ Spread(sol, refused)' BY <1>1 DEF BuildInv, Accounted, Driving, Spread
<1>3. CASE SeedsEnd
  <2>1. /\ phase = "seed" /\ phase' = "scan" /\ rounds' = rounds - 1 /\ UNCHANGED <<cand, un>>
        /\ seeds = 0 \/ un \subseteq Windowless
    BY <1>3 DEF SeedsEnd
  <2>2. un = sol.unassigned /\ rounds > 0 /\ rounds \in Nat /\ seeds = Cardinality(un)
    BY <2>1 DEF BuildInv, RoundsSuffice
  <2>3. un \subseteq Windowless BY <2>1, <2>2, WaitingCount DEF BuildInv
  <2>4. BestStands' BY <2>1 DEF BestStands
  <2>5. RoundsSuffice' BY <1>1, <2>1, <2>2, <2>3 DEF RoundsSuffice
  <2> QED BY <1>1, <1>2, <2>1, <2>2, <2>4, <2>5 DEF BuildInv
<1>4. CASE Return
  BY <1>1, <1>2, <1>4 DEF Return, BuildInv, BestStands, RoundsSuffice
<1> QED BY <1>3, <1>4

\* Every step of a construction keeps the invariant.
LEMMA BuildInvHolds == Spec => []BuildInv
<1>1. ASSUME BuildInv, [Next]_vars PROVE BuildInv'
  <2>1. CASE Start BY <1>1, <2>1, StartStep
  <2>2. CASE Scan BY <1>1, <2>2, ScanStep
  <2>3. CASE Insert BY <1>1, <2>3, InsertStep
  <2>4. ASSUME NEW o \in un, SeedRefused(o) PROVE BuildInv' BY <1>1, <2>4, SeedRefusedStep
  <2>5. ASSUME NEW o \in un, NEW v \in Vehicles, SeedOpens(o, v) PROVE BuildInv'
    BY <1>1, <2>5, SeedOpensStep
  <2>6. CASE SeedsEnd \/ Return BY <1>1, <2>6, EndsStep
  <2>7. CASE UNCHANGED vars
    BY <1>1, <2>7 DEF vars, BuildInv, BestStands, RoundsSuffice, Accounted, Driving, Spread,
                      HasAvailableVehicle
  <2> QED BY <1>1, <2>1, <2>2, <2>3, <2>4, <2>5, <2>6, <2>7 DEF Next
<1> QED BY <1>1, BuildInit, PTL DEF Spec

\* Whatever the graph, the fleet, and the loads a call finds, only a seed whose load
\* was infeasible is lost, and no order is in two places (k_nearest_neighbor).
THEOREM KnnLosesRefusedOnly == Spec => []OnlyRefusedAreLost
<1>1. BuildInv => OnlyRefusedAreLost BY DEF BuildInv, Spread, OnlyRefusedAreLost
<1> QED BY <1>1, BuildInvHolds, PTL

\* No vehicle chosen in a trial is gone when it is occupied.
THEOREM KnnThrowsNothing == Spec => []NothingThrows
<1>1. BuildInv => NothingThrows BY DEF BuildInv, NothingThrows
<1> QED BY <1>1, BuildInvHolds, PTL

\* The bound of the outer loop suffices for any number of orders and seeds.
THEOREM KnnTriesEveryOrder == Spec => []EveryOrderTried
<1>1. BuildInv => EveryOrderTried
  <2> SUFFICES ASSUME BuildInv, phase = "scan", rounds = 0 PROVE un \subseteq Windowless
    BY DEF EveryOrderTried
  <2>1. un \subseteq Windowless \/ Cardinality(un) <= 0 BY DEF BuildInv, RoundsSuffice
  <2>2. Cardinality(un) \in Nat /\ (Cardinality(un) = 0 => un = {}) BY WaitingCount DEF BuildInv
  <2> QED BY <2>1, <2>2
<1> QED BY <1>1, BuildInvHolds, PTL
=============================================================================
