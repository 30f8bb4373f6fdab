--------------------------- MODULE MCKnnConstruct ---------------------------
(***************************************************************************)
(* KnnConstruct for TLC: three or four orders, a small and a big vehicle.  *)
(* A call finds the empty workspace, or one an earlier stage left with     *)
(* loads and the other orders in the pool.                                 *)
(***************************************************************************)
EXTENDS KnnConstruct, TLC

CONSTANTS o1, o2, o3, o4, small, big

MCVehicles == {small, big}

MCFleet == small :> 1 @@ big :> 1

\* o3 needs the vehicle type that o2 may take first.
MCSuits == o1 :> {small} @@ o2 :> {small, big} @@ o3 :> {big}

\* o3 goes where o2 goes.
MCDropLoc == [o \in Orders |-> IF o = o3 THEN o2 ELSE o]

AloneOn(v, o) == [veh |-> v, orders |-> {o}, verdict |-> "feasible"]

TwoLoads ==
  [loads |-> <<AloneOn(small, o1), AloneOn(big, o2)>>,
   unassigned |-> Orders \ {o1, o2},
   usage |-> small :> 1 @@ big :> 1]

OneLoad ==
  [loads |-> <<AloneOn(small, o1)>>,
   unassigned |-> Orders \ {o1},
   usage |-> small :> 1 @@ big :> 0]

MCStarts == {EmptySolution, OneLoad, TwoLoads}

\* Every graph with the given ranks.
AllGraphs ==
  {r \in [Orders \X Orders -> 0 .. NoRank] : \A o \in Orders : r[<<o, o>>] = NoRank}
=============================================================================
