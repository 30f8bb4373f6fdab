----------------------------- MODULE RuinRepair -----------------------------
(***************************************************************************)
(* One ALNS move on the working solution: a ruin operator takes orders out *)
(* of loads (algo_alns_ruin*.cpp) and a repair operator puts the pooled    *)
(* orders back through a matrix of pre-computed insertions, one row per    *)
(* segment and one cell per load (algo_alns_repair*.cpp).                  *)
(*                                                                         *)
(* Abstracted: routes are the sets of orders they serve, so which slot an  *)
(* insertion takes, what it costs and what a constraint evaluation answers *)
(* are choices; which of the feasible cells is the cheapest (top-k, regret)*)
(* is a choice too.  A column of cells is filled in one step: the parallel *)
(* tasks that fill it read only what no task writes (see ParallelFor).     *)
(***************************************************************************)
EXTENDS SolutionSpace

VARIABLES
  sol,     \* the solution being changed
  phase,   \* where the driving thread is
  todo,    \* what the ruin still has to take out: load index -> orders
  idle,    \* the orders of idle_segment_indices, one order per segment
  cells,   \* RepairMatrix::matrix: idle order -> one cell per load
  rounds,  \* iterations the repair loop still has
  thrown   \* which Solution operation threw, or "none"

vars == <<sol, phase, todo, idle, cells, rounds, thrown>>

Phases == {"select", "ruin", "shed", "build", "repair", "crashed"}

Infeasible == [veh |-> "none", orders |-> {}]

Cell == [veh : Vehicles, orders : SUBSET Orders] \cup {Infeasible}

TypeOK ==
  /\ sol \in Solution
  /\ phase \in Phases
  /\ DOMAIN todo \subseteq DOMAIN sol.loads
  /\ \A i \in DOMAIN todo : todo[i] \subseteq Orders
  /\ idle \subseteq Orders
  /\ DOMAIN cells = idle
  /\ \A o \in idle : cells[o] \in Seq(Cell)
  /\ rounds \in Nat
  /\ thrown \in {"none", "add_load", "update_load", "remove_load"}

Init ==
  /\ sol = EmptySolution
  /\ phase = "select"
  /\ todo = <<>>
  /\ idle = {}
  /\ cells = <<>>
  /\ rounds = 0
  /\ thrown = "none"

----------------------------------------------------------------------------
(* Ruin *)

\* Whole loads, named by an empty list of activities.
SelectLoads ==
  \E S \in SUBSET DOMAIN sol.loads :
    /\ S = {} <=> sol.loads = <<>>
    /\ todo' = [i \in S |-> {}]

\* Orders of any loads, grouped by load; both activities of an order go.
SelectOrders ==
  \E R \in SUBSET (Orders \ sol.unassigned) :
    /\ R = {} <=> sol.loads = <<>>
    /\ todo' = [i \in {j \in DOMAIN sol.loads : sol.loads[j].orders \cap R # {}}
                  |-> sol.loads[i].orders \cap R]

Select ==
  /\ phase = "select"
  /\ SelectLoads \/ SelectOrders
  /\ phase' = "ruin"
  /\ UNCHANGED <<sol, idle, cells, rounds, thrown>>

\* The list of loads is sorted by descending index before it is worked off.
NextToRuin(i) == i \in DOMAIN todo /\ \A j \in DOMAIN todo : j <= i

RestOfTodo(i) == [j \in DOMAIN todo \ {i} |-> todo[j]]

WholeLoad(i) == todo[i] = {} \/ todo[i] = sol.loads[i].orders

Discard(i, then) ==
  /\ sol' = RemoveLoadByInd(sol, i)
  /\ IF RemoveLoadThrows(sol, i)
     THEN thrown' = "remove_load" /\ phase' = "crashed"
     ELSE thrown' = thrown /\ phase' = then

RuinWhole(i) ==
  /\ phase = "ruin"
  /\ NextToRuin(i)
  /\ WholeLoad(i)
  /\ todo' = RestOfTodo(i)
  /\ Discard(i, "ruin")
  /\ UNCHANGED <<idle, cells, rounds>>

RuinPartUnchecked(i) ==
  /\ phase = "ruin"
  /\ NextToRuin(i)
  /\ ~ WholeLoad(i)
  /\ \E verdict \in {"feasible", "infeasible"} :
       sol' = DropOrders(sol, i, todo[i], verdict)
  /\ todo' = RestOfTodo(i)
  /\ UNCHANGED <<phase, idle, cells, rounds, thrown>>

\* What is left of the load is evaluated; an infeasible rest stays at the
\* head of the list and is shed from its tail.
RuinPart(i) ==
  /\ phase = "ruin"
  /\ NextToRuin(i)
  /\ ~ WholeLoad(i)
  /\ \E verdict \in {"feasible", "infeasible"} :
       /\ sol' = DropOrders(sol, i, todo[i], verdict)
       /\ IF verdict = "feasible"
          THEN phase' = "ruin" /\ todo' = RestOfTodo(i)
          ELSE phase' = "shed" /\ todo' = todo
  /\ UNCHANGED <<idle, cells, rounds, thrown>>

ShedForgetsRemoval(i) ==
  /\ phase = "shed"
  /\ NextToRuin(i)
  /\ \E last \in sol.loads[i].orders :
       sol' = [sol EXCEPT !.unassigned = @ \cup {last}]
  /\ UNCHANGED <<phase, todo, idle, cells, rounds, thrown>>

\* The order last delivered leaves the infeasible load; which order that is
\* depends on the route.  An emptied load is removed with its vehicle.
Shed(i) ==
  /\ phase = "shed"
  /\ NextToRuin(i)
  /\ \E last \in sol.loads[i].orders :
       IF sol.loads[i].orders = {last}
       THEN /\ Discard(i, "ruin")
            /\ todo' = RestOfTodo(i)
       ELSE \E verdict \in {"feasible", "infeasible"} :
              /\ sol' = DropOrders(sol, i, {last}, verdict)
              /\ IF verdict = "feasible"
                 THEN phase' = "ruin" /\ todo' = RestOfTodo(i)
                 ELSE phase' = "shed" /\ todo' = todo
              /\ thrown' = thrown
  /\ UNCHANGED <<idle, cells, rounds>>

RuinDone ==
  /\ phase = "ruin"
  /\ DOMAIN todo = {}
  /\ phase' = "build"
  /\ UNCHANGED <<sol, todo, idle, cells, rounds, thrown>>

----------------------------------------------------------------------------
(* Repair *)

\* greedy_insert_segment_to_load on a copy of load i: the cell holds the
\* load with order o inserted, on its own vehicle or on any type that has a
\* free vehicle at this moment, or no load when every trial failed.
EvalCell(s, o, i) ==
  {Infeasible} \cup
  {[veh |-> v, orders |-> s.loads[i].orders \cup {o}] :
     v \in {w \in Vehicles : w = s.loads[i].veh \/ HasAvailableVehicle(s, w)}}

IsFeasible(o, i) == cells[o][i] # Infeasible

\* SegmentBuilder::call and RepairMatrix::init.
Build ==
  /\ phase = "build"
  /\ idle' = sol.unassigned
  /\ \E m \in [sol.unassigned ->
                [DOMAIN sol.loads ->
                  UNION {EvalCell(sol, o, i) : o \in sol.unassigned,
                                               i \in DOMAIN sol.loads}]] :
       /\ \A o \in sol.unassigned, i \in DOMAIN sol.loads :
            m[o][i] \in EvalCell(sol, o, i)
       /\ cells' = m
  /\ rounds' = Cardinality(sol.unassigned)
  /\ phase' = "repair"
  /\ UNCHANGED <<sol, todo, thrown>>

RefreshedOnlyIfNew(old, s, rows, i) ==
  {[o \in rows |-> [j \in DOMAIN s.loads |->
                      IF j \notin DOMAIN old[o] THEN c[o] ELSE old[o][j]]] :
     c \in [rows -> UNION {EvalCell(s, o, i) : o \in rows}]}

\* RepairMatrix::update_load: column i of the rows that are still idle is
\* evaluated against the solution s; a new load's column is appended.
Refreshed(old, s, rows, i) ==
  {[o \in rows |-> [j \in DOMAIN s.loads |->
                      IF j = i THEN c[o] ELSE old[o][j]]] :
     c \in {d \in [rows -> UNION {EvalCell(s, o, i) : o \in rows}] :
              \A o \in rows : d[o] \in EvalCell(s, o, i)}}

\* RepairMatrix::use_segment_schema: the load of a cell replaces load i.
UseSegment(o, i) ==
  LET cell == cells[o][i]
      load == [veh |-> cell.veh, orders |-> cell.orders, verdict |-> "feasible"]
      updated == UpdateLoad(sol, i, load)
  IN /\ phase = "repair" /\ rounds > 0
     /\ IsFeasible(o, i)
     /\ IF UpdateLoadThrows(sol, i, load)
        THEN /\ sol' = updated
             /\ thrown' = "update_load" /\ phase' = "crashed"
             /\ UNCHANGED <<idle, cells, rounds>>
        ELSE /\ sol' = [updated EXCEPT !.unassigned = @ \ {o}]
             /\ idle' = idle \ {o}
             /\ cells' \in Refreshed(cells, sol', idle', i)
             /\ rounds' = rounds - 1
             /\ UNCHANGED <<phase, thrown>>
     /\ UNCHANGED todo

NoFeasibleCell == \A o \in idle : \A i \in DOMAIN cells[o] : ~ IsFeasible(o, i)

\* RepairMatrix::idle_segment_create_load: the first idle segment for which
\* construct_load_by_order finds a feasible load on an available vehicle.
CreateLoad(o, v) ==
  LET load == [veh |-> v, orders |-> {o}, verdict |-> "feasible"]
  IN /\ phase = "repair" /\ rounds > 0
     /\ NoFeasibleCell
     /\ o \in idle
     /\ HasAvailableVehicle(sol, v)
     /\ sol' = AddLoad(sol, load)
     /\ idle' = idle \ {o}
     /\ cells' \in Refreshed(cells, sol', idle', Len(sol'.loads))
     /\ IF AddLoadThrows(sol, load)
        THEN thrown' = "add_load" /\ phase' = "crashed"
        ELSE UNCHANGED <<thrown, phase>>
     /\ rounds' = rounds - 1
     /\ UNCHANGED todo

\* The loop ran out of rounds, or no idle segment could open a load.  The
\* matrix and its segments die with the operator's call.
RepairDone ==
  /\ phase = "repair"
  /\ rounds = 0 \/ NoFeasibleCell
  /\ phase' = "select"
  /\ idle' = {} /\ cells' = <<>> /\ rounds' = 0
  /\ UNCHANGED <<sol, todo, thrown>>

----------------------------------------------------------------------------
Next ==
  \/ Select
  \/ \E i \in DOMAIN todo : RuinWhole(i) \/ RuinPart(i) \/ Shed(i)
  \/ RuinDone
  \/ Build
  \/ \E o \in idle : \E i \in DOMAIN sol.loads : UseSegment(o, i)
  \/ \E o \in idle : \E v \in Vehicles : CreateLoad(o, v)
  \/ RepairDone

Spec == Init /\ [][Next]_vars

\* One thread drives the move and no step waits for anything.
FairSpec == Spec /\ WF_vars(Next)
----------------------------------------------------------------------------
(* Properties *)

\* Orders are conserved: through every ruin and repair step each order is in
\* the pool or in exactly one load (add/remove_unassigned, add/update/remove
\* load and remove_activities are called in matching pairs).
OrdersConserved == Conserved(sol)

\* Until an exception leaves the move, VehicleResource counts exactly the
\* loads on each vehicle type and no type is used beyond its number: cells
\* are planned without occupying a vehicle and occupied only when applied.
VehiclesAccounted == thrown = "none" => Accounted(sol)

\* The load kept in a feasible cell is the present load of its column plus the
\* order of its row.  A cell that outlives a change of its column would, when
\* applied, silently take out the orders inserted in between.
CellsCurrent ==
  phase = "repair" =>
    \A o \in idle :
      /\ DOMAIN cells[o] = DOMAIN sol.loads
      /\ \A i \in DOMAIN sol.loads :
           IsFeasible(o, i) => cells[o][i].orders = sol.loads[i].orders \cup {o}

\* The matrix's idle segments are the pool of the solution, and the loop bound
\* read before the repair loop never ends it while a segment is idle: each
\* round takes one order out of both.
IdleIsPool ==
  phase = "repair" => idle = sol.unassigned /\ rounds = Cardinality(idle)

\* A ruin leaves only loads that carry orders and passed their evaluation, and
\* a repair adds no other: between two steps the one load that may be
\* infeasible is the one being shed.
LoadsSound ==
  phase # "crashed" =>
    \A i \in DOMAIN sol.loads :
      /\ sol.loads[i].orders # {}
      /\ sol.loads[i].verdict = "feasible" \/ (phase = "shed" /\ NextToRuin(i))

\* What is left of the ruin's list names orders of the load it will be applied
\* to: load indices only move when a load above them is removed.  The entry at
\* the head is excepted while its load is shed, as it has been applied.
TodoCurrent ==
  \A j \in DOMAIN todo :
    phase = "ruin" \/ (phase = "shed" /\ ~ NextToRuin(j))
      => j \in DOMAIN sol.loads /\ todo[j] \subseteq sol.loads[j].orders

\* Of the checks the solution makes, only the one update_load runs into can
\* fail: a new load always gets a vehicle that is free when it is added, and
\* no release finds an empty account.
OnlyUpdateThrows == thrown \in {"none", "update_load"}

\* A repair step never takes an order out of a load: whichever cell is applied,
\* the load in its place carries all it carried before.
RepairKeepsOrders ==
  [][phase = "repair" /\ thrown' = "none" =>
       \A i \in DOMAIN sol.loads :
         sol.loads[i].orders \subseteq sol'.loads[i].orders]_vars

\* Every move ends: shedding orders from an infeasible load and the repair loop
\* both terminate, and the thread is back at the outer loop or has thrown.
MoveEnds == phase = "ruin" ~> phase \in {"select", "crashed"}
=============================================================================
