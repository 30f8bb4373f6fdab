--------------------------- MODULE LoadInsertion ---------------------------
(***************************************************************************)
(* One load and the calls that change its route: construct_load_by_order,  *)
(* an appended delivery with tmp_select_best_vehicle,                      *)
(* greedy_insert_segment_to_load (prob_problem.cpp) and the removals of a  *)
(* ruin, over the node chain of the SPMD pattern (prob_pattern_spmd.cpp)   *)
(* and the lazily cached route profile (pdm_load.cpp, pdm_load_common.cpp).*)
(*                                                                         *)
(* Abstracted: an order fills one unit of the one dimension; travel times  *)
(* are the distances and the time windows a horizon for the whole route;   *)
(* the charges are one distance tier per vehicle type and the objective is *)
(* the charged distance times a rate.  The configurable limit of drop      *)
(* nodes is configured.  A segment is one order, as SegmentBuilder's are.  *)
(***************************************************************************)
EXTENDS Integers, FiniteSets, SequencesExt

CONSTANTS
  Orders, Locations,
  DefaultLoc,          \* LocationManager's default location
  PickLoc, DropLoc,    \* where an order is picked up and delivered
  Usages,              \* the vehicle types, in the order of vehicle_usages
  OrigLoc, DestLoc,    \* depots of a vehicle type
  Matrix,              \* distance matrix code of a vehicle type
  Dist,                \* Dist[code][from][to]
  Capacity,            \* orders that fit a vehicle type
  Serves,              \* locations a vehicle type may visit
  MaxDropNodeCount,
  Horizon,             \* longest route that meets the time windows
  TierUpper,           \* end of the last distance tier of a vehicle type
  Rate                 \* price of a unit of distance

VehicleTypes == Range(Usages)

ASSUME InstanceAssumption ==
  /\ IsFiniteSet(Orders) /\ DefaultLoc \in Locations
  /\ Usages \in Seq(VehicleTypes) /\ DOMAIN Matrix = VehicleTypes
  /\ PickLoc \in [Orders -> Locations] /\ DropLoc \in [Orders -> Locations]
  /\ OrigLoc \in [VehicleTypes -> Locations] /\ DestLoc \in [VehicleTypes -> Locations]
  /\ Serves \in [VehicleTypes -> SUBSET Locations]
  /\ Capacity \in [VehicleTypes -> Nat] /\ TierUpper \in [VehicleTypes -> Nat]
  /\ Rate \in [VehicleTypes -> Nat]
  /\ MaxDropNodeCount \in Nat /\ Horizon \in Nat
  /\ Dist \in [Range(Matrix) -> [Locations -> [Locations -> Nat]]]

VARIABLES
  base,   \* the load the solution holds, or NoLoad
  work,   \* the copy or the new load a call edits, or NoLoad
  phase,  \* where the call is
  order,  \* the order being placed
  free,   \* vehicle types with a free vehicle while the call runs
  u,      \* position in the loop over slots
  w,      \* position in the loop over vehicle types
  slots,  \* number of insertion slots
  best,   \* best trial so far: vehicle, objective, slot and (auxiliary) route
  pick    \* best vehicle type so far of tmp_select_best_vehicle

loadVars == <<base, work, phase, order, free, u, w, slots, best, pick>>

NoLoad == [nodes |-> <<>>]

Nothing == [veh |-> "none"]

----------------------------------------------------------------------------
(* The node chain: START, then nothing or one PICK and some DROPs, END.    *)

NewNode(type, loc, acts) == [type |-> type, loc |-> loc, acts |-> acts, dist |-> 0]

IsEmpty(load) == Len(load.nodes) = 2

LastStop(load) == Len(load.nodes) - 1

\* The chain without what an evaluation recomputes.
RouteOf(load) ==
  [i \in DOMAIN load.nodes |->
     [type |-> load.nodes[i].type, loc |-> load.nodes[i].loc, acts |-> load.nodes[i].acts]]

Picked(load) == Range(load.nodes[2].acts)

\* get_drop_node_count_md counts back from the end depot.
DropNodeCount(nodes) ==
  Cardinality({i \in DOMAIN nodes :
                 i < Len(nodes) /\ \A j \in i .. Len(nodes) - 1 : nodes[j].type = "DROP"})

\* The first node is not reached.
TotalDist(nodes) == SumFunction([i \in 2 .. Len(nodes) |-> nodes[i].dist])

\* What the profile's getters compute from the chain.
Profile(nodes) ==
  [drops |-> DropNodeCount(nodes),
   peak  |-> IF nodes[2].type = "PICK" THEN Len(nodes[2].acts) ELSE 0,
   stops |-> {nodes[i].loc : i \in 2 .. Len(nodes) - 1},
   dist  |-> TotalDist(nodes)]

\* get_set_dirty_mark: a marked field answers from the profile, and reading
\* marks it.  The domain of cache is the set of marked fields.
Read(load, field) ==
  IF field \in DOMAIN load.cache THEN load.cache[field] ELSE Profile(load.nodes)[field]

WithRead(load, fields) ==
  [load EXCEPT !.cache = [f \in DOMAIN @ \cup fields |-> Read(load, f)]]

ResetProfile(load) == [load EXCEPT !.cache = <<>>]

CreateLoad ==
  [nodes |-> <<NewNode("START", DefaultLoc, <<>>), NewNode("END", DefaultLoc, <<>>)>>,
   veh |-> "none", code |-> "none", cache |-> <<>>, feasible |-> TRUE, obj |-> 0]

AddBack(nodes, i, o) == [nodes EXCEPT ![i].acts = Append(@, o)]

AddFront(nodes, i, o) == [nodes EXCEPT ![i].acts = <<o>> \o @]

DropNode(o) == NewNode("DROP", DropLoc[o], <<o>>)

SharesPick(load, o) == load.nodes[2].type = "PICK" => load.nodes[2].loc = PickLoc[o]

\* insert_last_delivery for an order picked up where the load's orders are:
\* the new activities go in front of the others of their nodes.
InsertLastDelivery(load, o) ==
  LET nodes == load.nodes
      last == LastStop(load)
      added ==
        IF IsEmpty(load)
        THEN <<nodes[1], NewNode("PICK", PickLoc[o], <<o>>), DropNode(o), nodes[2]>>
        ELSE IF nodes[last].loc = DropLoc[o]
             THEN AddFront(AddFront(nodes, 2, o), last, o)
             ELSE InsertAt(AddFront(nodes, 2, o), last + 1, DropNode(o))
  IN [ResetProfile(load) EXCEPT !.nodes = added]

\* insert_segment_at: slot n is the place behind the n-th node before the last
\* drop node.  The delivery joins the node before or after it when that one is
\* at its location.
InsertSegmentAt(load, o, n) ==
  LET nodes == AddBack(load.nodes, 2, o)
      anchor == LastStop(load) - n
      Joins(i) == nodes[i].type = "DROP" /\ nodes[i].loc = DropLoc[o]
  IN [load EXCEPT !.nodes =
        IF Joins(anchor) THEN AddBack(nodes, anchor, o)
        ELSE IF Joins(anchor + 1) THEN AddBack(nodes, anchor + 1, o)
        ELSE InsertAt(nodes, anchor + 1, DropNode(o))]

\* The elements of s at the places I, in their order.
Only(s, I) ==
  [n \in 1 .. Cardinality(I) |-> s[CHOOSE i \in I : Cardinality({j \in I : j <= i}) = n]]

Without(acts, R) == Only(acts, {k \in DOMAIN acts : acts[k] \notin R})

RemoveKeepsEmptyNodes(load, R) ==
  [load EXCEPT !.nodes = [i \in DOMAIN @ |-> [@[i] EXCEPT !.acts = Without(@, R)]]]

\* remove_activities for both activities of the orders R: a node that carries
\* nothing any more is taken out of the chain.
RemoveActivities(load, R) ==
  LET rest == [i \in DOMAIN load.nodes |->
                 [load.nodes[i] EXCEPT !.acts = Without(@, R)]]
      Keeps(node) == node.type \in {"START", "END"} \/ node.acts # <<>>
  IN [load EXCEPT !.nodes = Only(rest, {i \in DOMAIN rest : Keeps(rest[i])})]

----------------------------------------------------------------------------
(* Vehicle and evaluation *)

\* change_vehicle.  The load's matrix code is compared with the one of the
\* vehicle it was copied from; when both depots change, only the leg from the
\* first one is renewed, and a fresh end node has no distance yet.
ChangeVehicle(load, v) ==
  LET last == Len(load.nodes)
      networkChange == load.veh # "none" /\ load.code # Matrix[load.veh]
      newStart == load.nodes[1].loc # OrigLoc[v]
      newEnd == load.nodes[last].loc # DestLoc[v]
      leg(i, nodes) == Dist[Matrix[v]][nodes[i - 1].loc][nodes[i].loc]
      started == IF newStart THEN [load.nodes EXCEPT ![1] = NewNode("START", OrigLoc[v], <<>>)]
                 ELSE load.nodes
      moved == IF newEnd THEN [started EXCEPT ![last] = NewNode("END", DestLoc[v], <<>>)]
               ELSE started
      renewed == IF networkChange THEN {}
                 ELSE IF newStart THEN {2} ELSE IF newEnd THEN {last} ELSE {}
  IN [load EXCEPT
        !.veh = v,
        !.code = Matrix[v],
        !.nodes = [i \in DOMAIN moved |->
                     IF i \in renewed THEN [moved[i] EXCEPT !.dist = leg(i, moved)] ELSE moved[i]],
        !.cache = IF networkChange
                  THEN [f \in DOMAIN @ \ {"legs", "dist"} |-> @[f]] ELSE @]

UpdateNodeDistTimeMarks(load) ==
  IF "legs" \in DOMAIN load.cache THEN load
  ELSE [load EXCEPT
          !.nodes =
            [i \in DOMAIN @ |->
               [@[i] EXCEPT !.dist = IF i = 1 THEN 0
                                     ELSE Dist[Matrix[load.veh]][load.nodes[i - 1].loc][load.nodes[i].loc]]],
          !.cache = [f \in DOMAIN @ \cup {"legs"} |-> IF f = "legs" THEN 0 ELSE @[f]]]

\* update_node_dist_time: nothing ever sets its mark, so every leg is renewed.
UpdateNodeDistTime(load) ==
  IF "legs" \in DOMAIN load.cache THEN load
  ELSE [load EXCEPT !.nodes =
          [i \in DOMAIN @ |->
             [@[i] EXCEPT !.dist = IF i = 1 THEN 0
                                   ELSE Dist[Matrix[load.veh]][load.nodes[i - 1].loc][load.nodes[i].loc]]]]

\* The hard constraints are all evaluated, whatever the first ones say.
EvalHard(load) == WithRead(UpdateNodeDistTime(load), {"drops", "peak", "stops"})

HardFeasible(load) ==
  /\ load.cache.peak <= Capacity[load.veh]
  /\ load.cache.stops \subseteq Serves[load.veh]
  /\ load.cache.drops <= MaxDropNodeCount
  /\ TotalDist(load.nodes) <= Horizon

\* Charges and soft constraints read the total distance: a distance beyond the
\* last tier has no rate.
EvalCost(load) ==
  LET read == WithRead(load, {"dist"})
  IN [read EXCEPT !.feasible = HardFeasible(load) /\ read.cache.dist < TierUpper[load.veh],
                  !.obj = Rate[load.veh] * read.cache.dist]

EvalLoad(load) == EvalCost(EvalHard(load))

\* tmp_eval_load returns before the costs when a hard constraint fails; its
\* verdict is the caller's, not the load's.
TmpEvalLoad(load) ==
  LET hard == EvalHard(load)
      full == EvalCost(hard)
  IN IF HardFeasible(hard)
     THEN [load |-> [full EXCEPT !.feasible = load.feasible, !.obj = load.obj],
           feasible |-> full.feasible, obj |-> full.obj]
     ELSE [load |-> hard, feasible |-> FALSE, obj |-> 0]

----------------------------------------------------------------------------
LoadInit ==
  /\ base = NoLoad /\ work = NoLoad
  /\ phase = "solution"
  /\ order \in Orders
  /\ free = {}
  /\ u = 0 /\ w = 1 /\ slots = 0
  /\ best = Nothing /\ pick = Nothing

\* A call is over: the copy is gone.
Finished ==
  /\ phase' = "solution"
  /\ work' = NoLoad /\ free' = {} /\ u' = 0 /\ w' = 1 /\ slots' = 0
  /\ best' = Nothing /\ pick' = Nothing
  /\ order' = order

(* construct_load_by_order *)

ConstructBegin(o, F) ==
  /\ phase = "solution" /\ base = NoLoad
  /\ phase' = "construct"
  /\ work' = InsertLastDelivery(CreateLoad, o)
  /\ order' = o /\ free' = F
  /\ UNCHANGED <<base, u, w, slots, best, pick>>

\* One vehicle type after the other, skipping those without a free vehicle.
ConstructTry ==
  /\ phase = "construct" /\ w <= Len(Usages)
  /\ LET v == Usages[w]
         try == TmpEvalLoad(ChangeVehicle(work, v))
     IN IF v \notin free
        THEN UNCHANGED <<work, pick>>
        ELSE /\ work' = try.load
             /\ pick' = IF try.feasible /\ (pick = Nothing \/ try.obj < pick.obj)
                        THEN [veh |-> v, obj |-> try.obj] ELSE pick
  /\ w' = w + 1
  /\ UNCHANGED <<base, phase, order, free, u, slots, best>>

\* Callers delete the load when no vehicle type was feasible.
ConstructEnd ==
  /\ phase = "construct" /\ w > Len(Usages)
  /\ base' = IF pick = Nothing THEN NoLoad ELSE EvalLoad(ChangeVehicle(work, pick.veh))
  /\ Finished

(* tmp_select_best_vehicle on the copy, called from two places. *)

SelectBegin(load, back) ==
  /\ work' = load
  /\ phase' = back
  /\ w' = 1
  /\ pick' = [veh |-> load.veh, obj |-> load.obj, any |-> load.feasible]

Selecting == phase \in {"append", "select"}

TryVehicle(v) == v # pick.veh /\ v \in free

\* The vehicle chosen so far is not tried again.
SelectTry ==
  /\ Selecting /\ w <= Len(Usages)
  /\ LET v == Usages[w]
         try == EvalLoad(ChangeVehicle(work, v))
     IN IF ~ TryVehicle(v)
        THEN UNCHANGED <<work, pick>>
        ELSE /\ work' = try
             /\ pick' = IF try.feasible /\ (pick.any => try.obj < pick.obj)
                        THEN [veh |-> v, obj |-> try.obj, any |-> TRUE] ELSE pick
  /\ w' = w + 1
  /\ UNCHANGED <<base, phase, order, free, u, slots, best>>

Selected == EvalLoad(ChangeVehicle(work, pick.veh))

(* An appended delivery, as the construction does it. *)

AppendBegin(o, F) ==
  /\ phase = "solution" /\ base # NoLoad
  /\ o \notin Picked(base) /\ SharesPick(base, o)
  /\ SelectBegin(EvalLoad(InsertLastDelivery(base, o)), "append")
  /\ order' = o /\ free' = F
  /\ UNCHANGED <<base, u, slots, best>>

\* An infeasible trial is deleted; a feasible one is done again on the load
\* itself, or is not the best of the scan.
AppendEnd ==
  /\ phase = "append" /\ w > Len(Usages)
  /\ \/ Selected.feasible /\ base' = Selected
     \/ base' = base
  /\ Finished

(* greedy_insert_segment_to_load *)

InsertBeginNotInFront(o, F) ==
  /\ phase = "solution" /\ base # NoLoad
  /\ o \notin Picked(base) /\ SharesPick(base, o)
  /\ phase' = "trial"
  /\ work' = WithRead(base, {"drops"})
  /\ slots' = Read(base, "drops")
  /\ order' = o /\ free' = F
  /\ UNCHANGED <<base, u, w, best, pick>>

\* A copy is edited; the number of slots is read from its profile.
InsertBegin(o, F) ==
  /\ phase = "solution" /\ base # NoLoad
  /\ o \notin Picked(base) /\ SharesPick(base, o)
  /\ phase' = "trial"
  /\ work' = WithRead(base, {"drops"})
  /\ slots' = Read(base, "drops") + 1
  /\ order' = o /\ free' = F
  /\ UNCHANGED <<base, u, w, best, pick>>

TrialKeepsProfile ==
  /\ phase = "trial" /\ u < slots
  /\ LET try == EvalLoad(InsertSegmentAt(work, order, u))
     IN IF try.feasible
        THEN work' = try /\ phase' = "judge" /\ UNCHANGED <<w, pick>>
        ELSE SelectBegin(try, "select")
  /\ UNCHANGED <<base, order, free, u, slots, best>>

\* Only an infeasible trial looks for another vehicle.
Trial ==
  /\ phase = "trial" /\ u < slots
  /\ LET try == EvalLoad(InsertSegmentAt(ResetProfile(work), order, u))
     IN IF try.feasible
        THEN work' = try /\ phase' = "judge" /\ UNCHANGED <<w, pick>>
        ELSE SelectBegin(try, "select")
  /\ UNCHANGED <<base, order, free, u, slots, best>>

SelectEnd ==
  /\ phase = "select" /\ w > Len(Usages)
  /\ work' = Selected
  /\ phase' = "judge"
  /\ w' = 1 /\ pick' = Nothing
  /\ UNCHANGED <<base, order, free, u, slots, best>>

RollBackKeepsVehicle(load) == RemoveActivities(load, {order})

\* The inserted activities are taken out and the vehicle is changed back; the
\* profile keeps what the trial put into it.
RollBack(load) == ChangeVehicle(RemoveActivities(load, {order}), base.veh)

JudgeNextSlot ==
  /\ phase = "judge"
  /\ best' = IF work.feasible /\ (best = Nothing \/ work.obj < best.obj)
             THEN [veh |-> work.veh, obj |-> work.obj, slot |-> u + 1, route |-> RouteOf(work)]
             ELSE best
  /\ work' = RollBack(work)
  /\ phase' = "trial"
  /\ u' = u + 1
  /\ UNCHANGED <<base, order, free, w, slots, pick>>

Judge ==
  /\ phase = "judge"
  /\ best' = IF work.feasible /\ (best = Nothing \/ work.obj < best.obj)
             THEN [veh |-> work.veh, obj |-> work.obj, slot |-> u, route |-> RouteOf(work)]
             ELSE best
  /\ work' = RollBack(work)
  /\ phase' = "trial"
  /\ u' = u + 1
  /\ UNCHANGED <<base, order, free, w, slots, pick>>

\* No trial was feasible: the cell stays empty.
InsertFails ==
  /\ phase = "trial" /\ u = slots /\ best = Nothing
  /\ base' = base
  /\ Finished

\* The best trial is done again; an infeasible outcome is thrown.
InsertBest ==
  /\ phase = "trial" /\ u = slots /\ best # Nothing
  /\ work' = EvalLoad(InsertSegmentAt(ChangeVehicle(ResetProfile(work), best.veh),
                                       order, best.slot))
  /\ phase' = IF work'.feasible THEN "final" ELSE "threw"
  /\ UNCHANGED <<base, order, free, u, w, slots, best, pick>>

\* The cell is applied to the solution, or another cell is.
UseCell ==
  /\ phase = "final"
  /\ base' \in {base, work}
  /\ Finished

(* The removals of a ruin *)

RuinPart(R) ==
  /\ phase = "solution" /\ base # NoLoad
  /\ R # {} /\ R # Picked(base) /\ R \subseteq Picked(base)
  /\ base' = EvalLoad(ResetProfile(RemoveActivities(base, R)))
  /\ phase' = IF base'.feasible THEN "solution" ELSE "shed"
  /\ UNCHANGED <<work, order, free, u, w, slots, best, pick>>

\* The last activity of the last drop node goes.
Shed ==
  /\ phase = "shed"
  /\ LET left == RemoveActivities(base, {Last(base.nodes[LastStop(base)].acts)})
         evaluated == EvalLoad(ResetProfile(left))
     IN IF IsEmpty(left)
        THEN base' = NoLoad /\ phase' = "solution"
        ELSE /\ base' = evaluated
             /\ phase' = IF evaluated.feasible THEN "solution" ELSE "shed"
  /\ UNCHANGED <<work, order, free, u, w, slots, best, pick>>

\* The load is removed with its vehicle.
RuinWhole ==
  /\ phase = "solution" /\ base # NoLoad
  /\ base' = NoLoad
  /\ UNCHANGED <<work, phase, order, free, u, w, slots, best, pick>>

LoadNext ==
  \/ \E o \in Orders, F \in SUBSET VehicleTypes :
       ConstructBegin(o, F) \/ AppendBegin(o, F) \/ InsertBegin(o, F)
  \/ ConstructTry \/ ConstructEnd
  \/ SelectTry \/ AppendEnd
  \/ Trial \/ SelectEnd \/ Judge \/ InsertFails \/ InsertBest \/ UseCell
  \/ \E R \in SUBSET Orders : RuinPart(R)
  \/ Shed \/ RuinWhole

LoadSpec == LoadInit /\ [][LoadNext]_loadVars

----------------------------------------------------------------------------
(* Properties *)

Live == {base, work} \ {NoLoad}

\* A chain is START, one PICK, some DROPs, END.  No node is empty, every order is
\* picked up once, delivered once and delivered at its own location: whatever
\* insertions, joins, roll backs and removals have done to the chain.
RoutePaired ==
  \A load \in Live :
    LET nodes == load.nodes
        last == Len(nodes)
        drops == 3 .. last - 1
    IN /\ last >= 4
       /\ nodes[1].type = "START" /\ nodes[2].type = "PICK" /\ nodes[last].type = "END"
       /\ \A i \in drops : /\ nodes[i].type = "DROP" /\ nodes[i].acts # <<>>
                          /\ \A o \in Range(nodes[i].acts) : nodes[i].loc = DropLoc[o]
       /\ \A o \in Picked(load) : nodes[2].loc = PickLoc[o]
       /\ \A i \in 2 .. last - 1 : Cardinality(Range(nodes[i].acts)) = Len(nodes[i].acts)
       /\ \A i, j \in drops : i # j => Range(nodes[i].acts) \cap Range(nodes[j].acts) = {}
       /\ Picked(load) = UNION {Range(nodes[i].acts) : i \in drops}

\* Trials share one copy: before each of them, and when the best one is done again,
\* the copy has the route, the depots and the vehicle of the load it was made from.
RollBackRestores ==
  phase = "trial" => RouteOf(work) = RouteOf(base) /\ work.veh = base.veh

\* A load is never judged by a stale count, peak or set of stops: what the profile
\* keeps of them is what the chain says, except in a copy that was rolled back.
ProfileCurrent ==
  \A load \in Live \ (IF phase = "trial" THEN {work} ELSE {}) :
    \A f \in DOMAIN load.cache \ {"legs", "dist"} : load.cache[f] = Profile(load.nodes)[f]

\* An evaluated load's legs are those of its vehicle's matrix between its nodes, and
\* its depots are the vehicle's, although change_vehicle renews at most one leg.
LegsCurrent ==
  \A load \in {base} \cup (IF phase \in {"judge", "final", "select"} THEN {work} ELSE {}) :
    load # NoLoad =>
      /\ load.nodes[1].loc = OrigLoc[load.veh]
      /\ Last(load.nodes).loc = DestLoc[load.veh]
      /\ \A i \in 2 .. Len(load.nodes) :
           load.nodes[i].dist = Dist[Matrix[load.veh]][load.nodes[i - 1].loc][load.nodes[i].loc]

\* The slot and the vehicle recorded for the best trial reproduce its route, joined
\* deliveries included, after the trials behind it have edited and restored the copy.
BestReproduced ==
  phase = "final" => RouteOf(work) = best.route /\ work.veh = best.veh

DropLocs(load) == [i \in 1 .. Len(load.nodes) - 3 |-> load.nodes[i + 2].loc]

RouteLength(v, path) ==
  SumFunction([i \in 2 .. Len(path) |-> Dist[Matrix[v]][path[i - 1]][path[i]]])

\* Reference: the order delivered as i-th stop of the load, on the load's vehicle.
FitsAsStop(load, o, i) ==
  LET stops == DropLocs(load)
      joins == \E j \in {i - 1, i} \cap DOMAIN stops : stops[j] = DropLoc[o]
      deliveries == IF joins THEN stops ELSE InsertAt(stops, i, DropLoc[o])
      v == load.veh
      length == RouteLength(v, <<OrigLoc[v], PickLoc[o]>> \o deliveries \o <<DestLoc[v]>>)
  IN /\ Cardinality(Picked(load)) + 1 <= Capacity[v]
     /\ Range(deliveries) \cup {PickLoc[o]} \subseteq Serves[v]
     /\ Len(deliveries) <= MaxDropNodeCount
     /\ length <= Horizon /\ length < TierUpper[v]

\* A cell is empty only if the order cannot be delivered as any stop of the load by
\* the load's own vehicle, in front of the first and behind the last one included.
EmptyCellHopeless ==
  phase = "trial" /\ u = slots /\ best = Nothing =>
    \A i \in 1 .. Len(base.nodes) - 2 : ~ FitsAsStop(base, order, i)

\* The judgement of a load is of the load as it is: its counts, its stops and its legs.
JudgedAsItIs == ProfileCurrent /\ LegsCurrent

=============================================================================
