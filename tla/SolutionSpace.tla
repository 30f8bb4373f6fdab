--------------------------- MODULE SolutionSpace ---------------------------
(***************************************************************************)
(* The solution space of the solver: Solution (pdm_solution.cpp) and the   *)
(* vehicle accounts it owns (pdm_resource.cpp), as operators on one record.*)
(* A Load is reduced to the vehicle type it drives, the set of orders it   *)
(* carries and the verdict of its last constraint evaluation; "freed"      *)
(* stands for the object after its delete.  A VehicleUsage is the number   *)
(* of loads that occupy a vehicle type, bounded by MaxUsable.              *)
(***************************************************************************)
EXTENDS Scenario, Integers, Sequences

CONSTANT MaxUsable   \* how many vehicles of each type the carrier has

ASSUME FleetAssumption == MaxUsable \in [Vehicles -> Nat]

Verdict == {"feasible", "infeasible", "freed"}

Load == [veh : Vehicles, orders : SUBSET Orders, verdict : Verdict]

Solution == [loads : Seq(Load), unassigned : SUBSET Orders,
             usage : [Vehicles -> Int]]

\* A solution before any construction: every order is still unassigned.
EmptySolution == [loads |-> <<>>, unassigned |-> Orders,
                  usage |-> [v \in Vehicles |-> 0]]

----------------------------------------------------------------------------
HasAvailableOffByOne(sol, v) == sol.usage[v] <= MaxUsable[v]

HasAvailableVehicle(sol, v) == sol.usage[v] < MaxUsable[v]

Occupied(usage, v) == [usage EXCEPT ![v] = @ + 1]

Released(usage, v) == [usage EXCEPT ![v] = @ - 1]

\* VehicleUsage throws after the account has been changed.
OccupyThrows(usage, v) == usage[v] + 1 > MaxUsable[v]

ReleaseThrows(usage, v) == usage[v] - 1 < 0

RemovedAt(s, i) ==
  [j \in 1 .. Len(s) - 1 |-> IF j < i THEN s[j] ELSE s[j + 1]]

----------------------------------------------------------------------------
AddLoadThrows(sol, load) ==
  load.verdict # "feasible" \/ OccupyThrows(sol.usage, load.veh)

AddLoad(sol, load) ==
  [loads |-> Append(sol.loads, load),
   usage |-> Occupied(sol.usage, load.veh),
   unassigned |-> sol.unassigned \ load.orders]

UpdateLoadThrows(sol, ind, load) ==
  OccupyThrows(Released(sol.usage, sol.loads[ind].veh), load.veh)

UpdateLoadNoRelease(sol, ind, load) ==
  [sol EXCEPT !.usage = Occupied(@, load.veh), !.loads[ind] = load]

\* The old load is released and deleted before the new vehicle is occupied:
\* when occupy throws, the slot still holds the deleted load.
UpdateLoad(sol, ind, load) ==
  [sol EXCEPT
     !.usage = Occupied(Released(@, sol.loads[ind].veh), load.veh),
     !.loads[ind] = IF UpdateLoadThrows(sol, ind, load)
                    THEN [@ EXCEPT !.verdict = "freed"] ELSE load]

RemoveLoadThrows(sol, ind) == ReleaseThrows(sol.usage, sol.loads[ind].veh)

RemoveLoadByInd(sol, ind) ==
  [loads |-> RemovedAt(sol.loads, ind),
   usage |-> Released(sol.usage, sol.loads[ind].veh),
   unassigned |-> sol.unassigned \cup sol.loads[ind].orders]

\* Some of a load's orders go back to the pool; the load is evaluated again.
DropOrders(sol, ind, gone, verdict) ==
  [sol EXCEPT !.unassigned = @ \cup gone,
              !.loads[ind].orders = @ \ gone,
              !.loads[ind].verdict = verdict]

----------------------------------------------------------------------------
\* The loads of a solution that drive vehicle type v.
Driving(loads, v) == {i \in DOMAIN loads : loads[i].veh = v}

\* Every order is in the pool or in exactly one load.
Conserved(sol) ==
  /\ \A o \in Orders : o \in sol.unassigned
                       \/ \E i \in DOMAIN sol.loads : o \in sol.loads[i].orders
  /\ \A i \in DOMAIN sol.loads : sol.loads[i].orders \cap sol.unassigned = {}
  /\ \A i, j \in DOMAIN sol.loads :
       i # j => sol.loads[i].orders \cap sol.loads[j].orders = {}

\* The accounts agree with the loads and never exceed the fleet.
Accounted(sol) ==
  \A v \in Vehicles : /\ sol.usage[v] = Cardinality(Driving(sol.loads, v))
                      /\ sol.usage[v] <= MaxUsable[v]
=============================================================================
