--------------------------- MODULE NeighbourGraph ---------------------------
(***************************************************************************)
(* construct_knn_edge (stra_construct_knn.cpp): the row of the neighbour   *)
(* graph of one order, by the mean distances between pick and drop         *)
(* locations over the vehicles two orders share.  construct_knn_graph      *)
(* calls it for every order of the solution; no call sees another.         *)
(*                                                                         *)
(* Equal ranks stand in the order a hash map and an unstable sort leave    *)
(* them in, so the sorted pairs are any listing that ascends.              *)
(***************************************************************************)
EXTENDS Scenario, Integers, Sequences, SequencesExt, Functions

CONSTANTS
  Locations,
  Scenes,    \* what a solution's orders may be like
  Counts     \* neighbour_count, not checked by the code

IsScene(s) ==
  /\ s.pick \in [Orders -> Locations]
  /\ s.drop \in [Orders -> Locations]
  /\ s.available \in [Orders -> SUBSET Vehicles]
  /\ s.dist \in [Vehicles -> [Locations \X Locations -> Nat]]
  /\ s.filo \in BOOLEAN

ASSUME ScenesAssumption ==
  /\ IsFiniteSet(Vehicles)
  /\ \A s \in Scenes : IsScene(s)
  /\ Counts \subseteq Int

VARIABLES
  scene,            \* the orders with their locations, vehicles and distances
  k,                \* k_neighbor_count
  pc,
  from,             \* from_order
  ranks,            \* composite rank of each other order
  rank_pairs,       \* the other orders, by composite rank
  next,             \* the next of them
  pre_rank,
  knn_order_edges   \* the row: order -> rank

rowVars == <<scene, k, pc, from, ranks, rank_pairs, next, pre_rank, knn_order_edges>>

----------------------------------------------------------------------------
Shared(a, b) == scene.available[a] \cap scene.available[b]

\* The orders that may follow a, those that share a vehicle with it.
Others(a) == {b \in Orders \ {a} : Shared(a, b) # {}}

Mean(f) == SumFunction(f) \div Cardinality(DOMAIN f)

DropDist(a, b) ==
  Mean([v \in Shared(a, b) |-> scene.dist[v][<<scene.drop[a], scene.drop[b]>>]])

\* What is loaded last comes off first, so under FILO the picks are in reverse.
PickDist(a, b) ==
  Mean([v \in Shared(a, b) |-> IF scene.filo THEN scene.dist[v][<<scene.pick[b], scene.pick[a]>>]
                                             ELSE scene.dist[v][<<scene.pick[a], scene.pick[b]>>]])

\* Equal distances share a number.
PickRank(a, b) ==
  Cardinality({PickDist(a, c) : c \in {d \in Others(a) : PickDist(a, d) <= PickDist(a, b)}})
DropRank(a, b) ==
  Cardinality({DropDist(a, c) : c \in {d \in Others(a) : DropDist(a, d) <= DropDist(a, b)}})

CompositeRankOfDrop(a, b) == DropRank(a, b)

CompositeRank(a, b) == DropRank(a, b) + PickRank(a, b)

Ascending(l, r) == \A i, j \in DOMAIN l : i < j => r[l[i]] <= r[l[j]]

----------------------------------------------------------------------------
RowInit ==
  /\ scene \in Scenes /\ k \in Counts
  /\ pc = "idle" /\ from \in Orders
  /\ ranks = <<>> /\ rank_pairs = <<>> /\ next = 1 /\ pre_rank = -1 /\ knn_order_edges = <<>>

ConstructKnnEdge(a) ==
  /\ pc = "idle"
  /\ pc' = "cut"
  /\ from' = a
  /\ ranks' = [b \in Others(a) |-> CompositeRank(a, b)]
  /\ rank_pairs' \in {l \in SetToSeqs(Others(a)) : Ascending(l, ranks')}
  /\ next' = 1 /\ pre_rank' = -1 /\ knn_order_edges' = <<>>
  /\ UNCHANGED <<scene, k>>

Rank == ranks[rank_pairs[next]]

\* The counter is what the rank of the pair is compared with.
Counter == IF Rank # pre_rank THEN pre_rank + 1 ELSE pre_rank

\* (mutant) One rank more is kept.
LimitReachedLate == Rank # pre_rank /\ Counter > k

LimitReached == Rank # pre_rank /\ Counter >= k

Keep ==
  /\ pc = "cut" /\ next <= Len(rank_pairs)
  /\ ~ LimitReached
  /\ pre_rank' = Counter
  /\ knn_order_edges' = [b \in DOMAIN knn_order_edges \cup {rank_pairs[next]} |->
                           IF b = rank_pairs[next] THEN Counter ELSE knn_order_edges[b]]
  /\ next' = next + 1
  /\ UNCHANGED <<scene, k, pc, from, ranks, rank_pairs>>

Cut ==
  /\ pc = "cut" /\ next <= Len(rank_pairs)
  /\ LimitReached
  /\ pre_rank' = Counter
  /\ pc' = "idle"
  /\ UNCHANGED <<scene, k, from, ranks, rank_pairs, next, knn_order_edges>>

KeepAll ==
  /\ pc = "cut" /\ next > Len(rank_pairs)
  /\ pc' = "idle"
  /\ UNCHANGED <<scene, k, from, ranks, rank_pairs, next, pre_rank, knn_order_edges>>

RowNext == (\E a \in Orders : ConstructKnnEdge(a)) \/ Keep \/ Cut \/ KeepAll

RowSpec == RowInit /\ [][RowNext]_rowVars

----------------------------------------------------------------------------
(* Properties *)

Kept == DOMAIN knn_order_edges

\* b is nearer to a than c: by no distance further, and by one of them nearer.
Nearer(a, b, c) ==
  /\ PickDist(a, b) <= PickDist(a, c) /\ DropDist(a, b) <= DropDist(a, c)
  /\ PickDist(a, b) < PickDist(a, c) \/ DropDist(a, b) < DropDist(a, c)

\* No order is kept while one of a smaller composite rank is left out, and the
\* smaller of two ranks stays the smaller, although the cut compares ranks with a
\* counter.
LowerRankFirst ==
  pc = "idle" =>
    \A b \in DOMAIN ranks, c \in Kept :
      ranks[b] < ranks[c] => b \in Kept /\ knn_order_edges[b] < knn_order_edges[c]

\* So no order is kept while a nearer one is left out, and the construction, which
\* takes the least rank, never prefers the further order of two.
NearerFirst ==
  pc = "idle" =>
    \A b \in Others(from), c \in Kept :
      Nearer(from, b, c) => b \in Kept /\ knn_order_edges[b] < knn_order_edges[c]

\* The place of an order's composite rank among the different ones.
Place(b) == Cardinality({ranks[c] : c \in {d \in DOMAIN ranks : ranks[d] <= ranks[b]}})

\* No order is kept whose composite rank is not among the k least, although the cut
\* counts with a number that may stand still on a rank.
OnlyLeastRanks == \A b \in Kept : b \in DOMAIN ranks /\ Place(b) <= k

\* docs/dsl_user_guide.md: a row has the groups of the neighbour_count least
\* different composite ranks, each with all its orders.
KeepsRankGroups == pc = "idle" => Kept = {b \in DOMAIN ranks : Place(b) <= k}
=============================================================================
