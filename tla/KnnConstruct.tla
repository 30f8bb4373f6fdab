---------------------------- MODULE KnnConstruct ----------------------------
(***************************************************************************)
(* ConstructHeuristic::k_nearest_neighbor (stra_construct_knn.cpp): orders *)
(* are appended to candidate loads by the rank of the neighbour graph, and *)
(* when none fits, a seed order opens a new load.                          *)
(*                                                                         *)
(* Abstracted: distances and routes.  The graph is a rank for some pairs   *)
(* of orders, "best" among equals is a choice, and what the evaluation of  *)
(* a load answers is a choice, except that an order alone fits the vehicle *)
(* types of Suits.                                                         *)
(***************************************************************************)
EXTENDS SolutionSpace

CONSTANTS
  Starts,      \* workspace solutions a call may find
  MaxRank,     \* ranks of the neighbour graph: 0 .. MaxRank
  Graphs,      \* neighbour graphs a call may construct
  DropLoc,     \* the location an order is delivered to
  Suits,       \* the vehicle types on which an order alone is feasible
  Windowless   \* orders without a drop time window: never a seed

ASSUME StartsAssumption ==
  \A s \in Starts : /\ s \in Solution /\ Conserved(s) /\ Accounted(s)
                    /\ \A i \in DOMAIN s.loads : /\ s.loads[i].orders # {}
                                                 /\ s.loads[i].verdict = "feasible"

ASSUME OrdersDataAssumption ==
  /\ MaxRank \in Nat
  /\ Suits \in [Orders -> SUBSET Vehicles]
  /\ Windowless \subseteq Orders
  /\ DOMAIN DropLoc = Orders

\* The rank of a pair the graph does not relate.
NoRank == MaxRank + 1

\* An order is no neighbour of itself.
ASSUME GraphsAssumption ==
  \A r \in Graphs : /\ r \in [Orders \X Orders -> 0 .. NoRank]
                    /\ \A o \in Orders : r[<<o, o>>] = NoRank

VARIABLES
  sol,       \* the solution under construction
  phase,     \* where the call is
  rank,      \* knn_graph: rank[<<o, p>>] of appending o behind p
  tail,      \* the last order of each load's last delivery
  cand,      \* candidate_load_indices
  un,        \* unassigned_order_indices
  rounds,    \* iterations the outer loop still has
  seeds,     \* iterations the seed loop still has
  scan,      \* outcome of the last scan over candidates and orders
  refused,   \* seeds whose load was infeasible and deleted
  thrown     \* whether a check of Solution threw

vars == <<sol, phase, rank, tail, cand, un, rounds, seeds, scan, refused, thrown>>

NoScan == [fits |-> <<>>, archived |-> {}, best |-> <<>>]

Init ==
  /\ sol \in Starts
  /\ phase = "called"
  /\ rank \in Graphs
  /\ tail \in {t \in [DOMAIN sol.loads -> Orders] :
                 \A i \in DOMAIN t : t[i] \in sol.loads[i].orders}
  /\ cand = {} /\ un = {} /\ rounds = 0 /\ seeds = 0
  /\ scan = NoScan
  /\ refused = {}
  /\ thrown = FALSE

----------------------------------------------------------------------------
StartOneRoundShort ==
  /\ phase = "called" /\ sol.unassigned # {}
  /\ phase' = "scan"
  /\ cand' = DOMAIN sol.loads
  /\ un' = sol.unassigned
  /\ rounds' = Cardinality(sol.unassigned) - 1
  /\ UNCHANGED <<sol, rank, tail, seeds, scan, refused, thrown>>

\* Every load is a candidate, every pooled order waits to be assigned.
Start ==
  /\ phase = "called" /\ sol.unassigned # {}
  /\ phase' = "scan"
  /\ cand' = DOMAIN sol.loads
  /\ un' = sol.unassigned
  /\ rounds' = Cardinality(sol.unassigned)
  /\ UNCHANGED <<sol, rank, tail, seeds, scan, refused, thrown>>

RankOf(fit) == rank[<<fit[2], tail[fit[1]]>>]

\* The pairs of a candidate load and an order that the graph relates.
Near == {p \in cand \X un : RankOf(p) # NoRank}

\* Answers of the trial insertions: the vehicle type on which the load with
\* the order appended is feasible, for some of the related pairs.
Trials ==
  UNION {{t \in [S -> Vehicles] :
            \A p \in S : t[p] = sol.loads[p[1]].veh \/ HasAvailableVehicle(sol, t[p])} :
           S \in SUBSET Near}

BestRank(fits, loads) ==
  CHOOSE r \in 0 .. NoRank :
    /\ r = NoRank \/ \E p \in fits : p[1] \in loads /\ RankOf(p) = r
    /\ \A p \in fits : p[1] \in loads => r <= RankOf(p)

\* A load visited after a load with a better rank finds all its pairs skipped,
\* and is listed for archiving as if no order could be inserted.
Skipped(fits, visit, i) ==
  BestRank(fits, {j \in cand : visit[j] < visit[i]}) < BestRank(fits, {i})

\* One pass over the candidates, in the order visit in which the hash set
\* happens to list them, and over the orders.
Scan ==
  /\ phase = "scan" /\ rounds > 0 /\ un # {}
  /\ \E trial \in Trials :
       LET fits == DOMAIN trial
       IN IF fits = {}
          THEN /\ phase' = "seed"
               /\ cand' = {}
               /\ seeds' = Cardinality(un)
               /\ scan' = NoScan
          ELSE /\ \E visit \in {f \in [cand -> 1 .. Cardinality(cand)] :
                                  \A i, j \in cand : f[i] = f[j] => i = j} :
                  \E p \in fits :
                    /\ RankOf(p) = BestRank(fits, cand)
                    /\ \A q \in fits : RankOf(q) = RankOf(p) => visit[p[1]] <= visit[q[1]]
                    /\ scan' = [fits |-> trial, best |-> p,
                                archived |-> {i \in cand : \/ \A q \in fits : q[1] # i
                                                           \/ Skipped(fits, visit, i)}]
               /\ phase' = "insert"
               /\ UNCHANGED <<cand, seeds>>
  /\ UNCHANGED <<sol, rank, tail, un, rounds, refused, thrown>>

----------------------------------------------------------------------------
\* The load is changed in place.  Releasing its own vehicle before the choice
\* changes the availability of no other type: the trial's answer stands.
Inserted(i, o, v) ==
  [sol EXCEPT !.unassigned = @ \ {o},
              !.usage = Occupied(Released(@, sol.loads[i].veh), v),
              !.loads[i] = [veh |-> v, orders |-> @.orders \cup {o},
                            verdict |-> "feasible"]]

\* insert_last_delivery: an order for the location the load delivers to last
\* joins that node in front of the orders it has; another one opens a node.
LastAfter(i, o) == IF DropLoc[o] = DropLoc[tail[i]] THEN tail[i] ELSE o

InsertForgetsIndex ==
  LET i == scan.best[1]  o == scan.best[2]  v == scan.fits[scan.best]
  IN /\ phase = "insert"
     /\ sol' = Inserted(i, o, v)
     /\ phase' = "scan"
     /\ tail' = [tail EXCEPT ![i] = LastAfter(i, o)]
     /\ cand' = cand \ scan.archived
     /\ scan' = NoScan
     /\ rounds' = rounds - 1
     /\ UNCHANGED <<rank, un, seeds, refused, thrown>>

Insert ==
  LET i == scan.best[1]  o == scan.best[2]  v == scan.fits[scan.best]
  IN /\ phase = "insert"
     /\ sol' = Inserted(i, o, v)
     /\ IF OccupyThrows(Released(sol.usage, sol.loads[i].veh), v)
        THEN thrown' = TRUE /\ phase' = "crashed"
        ELSE thrown' = FALSE /\ phase' = "scan"
     /\ tail' = [tail EXCEPT ![i] = LastAfter(i, o)]
     /\ un' = un \ {o}
     /\ cand' = cand \ scan.archived
     /\ scan' = NoScan
     /\ rounds' = rounds - 1
     /\ UNCHANGED <<rank, seeds, refused>>

----------------------------------------------------------------------------
\* A seed order leaves both the pool and the waiting orders before its load is
\* constructed; an infeasible load is deleted and the next seed is tried.
SeedRefused(o) ==
  /\ phase = "seed" /\ seeds > 0
  /\ o \in un \ Windowless
  /\ \A v \in Suits[o] : ~ HasAvailableVehicle(sol, v)
  /\ sol' = [sol EXCEPT !.unassigned = @ \ {o}]
  /\ un' = un \ {o}
  /\ refused' = refused \cup {o}
  /\ seeds' = seeds - 1
  /\ UNCHANGED <<phase, rank, tail, cand, rounds, scan, thrown>>

SeedOpensUnchecked(o, v) ==
  LET load == [veh |-> v, orders |-> {o}, verdict |-> "feasible"]
  IN /\ phase = "seed" /\ seeds > 0
     /\ o \in un \ Windowless
     /\ v \in Suits[o]
     /\ sol' = AddLoad([sol EXCEPT !.unassigned = @ \ {o}], load)
     /\ IF AddLoadThrows(sol, load)
        THEN thrown' = TRUE /\ phase' = "crashed"
        ELSE thrown' = FALSE /\ phase' = "scan"
     /\ tail' = Append(tail, o)
     /\ cand' = cand \cup {Len(sol'.loads)}
     /\ un' = un \ {o}
     /\ rounds' = rounds - 1
     /\ seeds' = 0
     /\ UNCHANGED <<rank, scan, refused>>

SeedOpens(o, v) ==
  LET load == [veh |-> v, orders |-> {o}, verdict |-> "feasible"]
  IN /\ phase = "seed" /\ seeds > 0
     /\ o \in un \ Windowless
     /\ v \in Suits[o] /\ HasAvailableVehicle(sol, v)
     /\ sol' = AddLoad([sol EXCEPT !.unassigned = @ \ {o}], load)
     /\ IF AddLoadThrows(sol, load)
        THEN thrown' = TRUE /\ phase' = "crashed"
        ELSE thrown' = FALSE /\ phase' = "scan"
     /\ tail' = Append(tail, o)
     /\ cand' = cand \cup {Len(sol'.loads)}
     /\ un' = un \ {o}
     /\ rounds' = rounds - 1
     /\ seeds' = 0
     /\ UNCHANGED <<rank, scan, refused>>

SeedsEndWithoutRound ==
  /\ phase = "seed"
  /\ seeds = 0 \/ un \subseteq Windowless
  /\ phase' = "scan"
  /\ seeds' = 0
  /\ UNCHANGED <<sol, rank, tail, cand, un, rounds, scan, refused, thrown>>

\* The seed loop ran out, or no waiting order can be a seed.
SeedsEnd ==
  /\ phase = "seed"
  /\ seeds = 0 \/ un \subseteq Windowless
  /\ phase' = "scan"
  /\ seeds' = 0
  /\ rounds' = rounds - 1
  /\ UNCHANGED <<sol, rank, tail, cand, un, scan, refused, thrown>>

Return ==
  /\ phase = "scan" /\ (rounds = 0 \/ un = {})
  /\ phase' = "called"
  /\ cand' = {} /\ un' = {} /\ rounds' = 0
  /\ UNCHANGED <<sol, rank, tail, seeds, scan, refused, thrown>>

----------------------------------------------------------------------------
Next ==
  \/ Start
  \/ Scan
  \/ Insert
  \/ \E o \in un : SeedRefused(o) \/ (\E v \in Vehicles : SeedOpens(o, v))
  \/ SeedsEnd
  \/ Return

Spec == Init /\ [][Next]_vars

\* One thread runs the call and no step waits for anything.
FairSpec == Spec /\ WF_vars(Next)
----------------------------------------------------------------------------
(* Properties *)

\* An order is in at most one place, and in none only after its load as a seed
\* was infeasible.
OnlyRefusedAreLost ==
  /\ \A o \in Orders \ refused :
       o \in sol.unassigned \/ \E i \in DOMAIN sol.loads : o \in sol.loads[i].orders
  /\ \A i \in DOMAIN sol.loads : sol.loads[i].orders \cap (sol.unassigned \cup refused) = {}
  /\ \A i, j \in DOMAIN sol.loads :
       i # j => sol.loads[i].orders \cap sol.loads[j].orders = {}

\* docs/dsl_user_guide.md: an order for which no load can be constructed, a seed
\* among them, stays unassigned.  No order is missing from what a call returns.
NoOrderMissing ==
  phase = "called" =>
    Orders = sol.unassigned \cup UNION {sol.loads[i].orders : i \in DOMAIN sol.loads}

\* No check of the solution space throws during construction: vehicles chosen
\* in a trial are still free when they are occupied.
NothingThrows == ~ thrown

\* The bound of the outer loop, read before it starts, suffices: when it is used
\* up, what waits could not have been a seed.
EveryOrderTried == phase = "scan" /\ rounds = 0 => un \subseteq Windowless

\* The call returns.
CallReturns == phase = "scan" ~> phase \in {"called", "crashed"}
=============================================================================
