----------------------------- MODULE SolverRun -----------------------------
(***************************************************************************)
(* A Solver from its constructor over repeated calls of solve(): reading,  *)
(* precheck, order pool and workspace, the functions a strategy script may *)
(* call, and the files and the result of a call (s_solver.cpp,             *)
(* s_precheck.cpp, stra_strategy.cpp, pdm_context.cpp, pdm_workspace.cpp,  *)
(* visual_manager*.cpp, yun_solver_binding.cpp).                           *)
(*                                                                         *)
(* Abstracted: what knn and alns do inside, by the loads they may leave;   *)
(* distances and work times are zero.  A load is the stock unit of its     *)
(* vehicle, and place[i] says where order i is.                            *)
(***************************************************************************)
EXTENDS OrderPool

CONSTANTS
  Cases,      \* the case directories a Solver may be constructed on
  Default, NoCode, MaxDistance, MaxTime,
  MaxSolves,  \* bound on the calls of solve()
  MaxCalls    \* bound on the calls a script makes

T == INSTANCE ScenarioTables

VARIABLES
  case,     \* the files of the case directory
  phase,    \* closed, ready, pooling, script, broken
  solves,   \* calls of solve()
  calls,    \* functions the script of this call has called
  place,    \* order index -> a unit, Unassigned or Refused
  table,    \* the keys and windows of the frozen time window table
  dead,     \* whether a key made of deleted orders was compared
  disk,     \* the files of the output directory
  result    \* what solve() returned, if it did

runVars == <<case, phase, solves, calls, place, table, dead, disk, result>>
vars == <<poolVars, runVars>>

----------------------------------------------------------------------------
(* SolverContext *)

\* The index of a value is its position among the values of its label.
ValueInd(c, label, value) ==
  Cardinality({k \in DOMAIN c.values :
                 /\ c.values[k].label = label
                 /\ \E l \in DOMAIN c.values : l >= k /\ c.values[l] =
                                                 [label |-> label, value |-> value]})

Grouped(c) == c.rule # T!NoRule

RuleValues(c, code) ==
  IF Grouped(c)
  THEN {ValueInd(c, c.rule.label, v) : v \in T!SubValues(c, code, c.rule.label)} ELSE {}

SubsOf(c, code) == {sub \in T!Rows(c.subs) : sub.cargo = code}

CargoOrder(c, row, listed) ==
  [code |-> row.code, pick |-> row.pick, drop |-> row.drop,
   pickWindow |-> row.pickWindow, dropWindow |-> row.dropWindow,
   dims |-> [d \in DOMAIN c.dims |->
               SumFunction([sub \in SubsOf(c, row.code) |-> T!SubDims(c, sub)[d]])],
   listed |-> listed,
   vehicles |-> T!AvailableAt(c, row.pick) \cap T!AvailableAt(c, row.drop)]

Indices(c, group) == {ValueInd(c, c.rule.label, v) : v \in Range(group)}

\* A case and the listings its value sets happen to have.
ReadingsOf(c) ==
  LET groups == IF Grouped(c) THEN c.rule.groups ELSE <<>>
      choices == {f \in [DOMAIN c.cargo -> UNION {SetToSeqs(RuleValues(c, row.code)) :
                                                   row \in T!Rows(c.cargo)}] :
                    \A k \in DOMAIN f : Range(f[k]) = RuleValues(c, c.cargo[k].code)}
      listings == {g \in [DOMAIN groups -> UNION {SetToSeqs(Indices(c, groups[u])) :
                                                   u \in DOMAIN groups}] :
                     \A u \in DOMAIN g : Range(g[u]) = Indices(c, groups[u])}
  IN  {[cargo |-> [k \in DOMAIN c.cargo |-> CargoOrder(c, c.cargo[k], f[k])],
        param |-> [grouped |-> Grouped(c), groups |-> g, range |-> c.range,
                   dims |-> DOMAIN c.dims, vehicles |-> DOMAIN c.vehicles]] :
       f \in choices, g \in listings}

\* Readings covers what the cases that are accepted may read as.
ASSUME CasesAssumption ==
  \A c \in Cases : T!ScenarioAccepted(c) /\ T!ParameterAccepted(c) => ReadingsOf(c) \subseteq Readings

\* Files are rows in turn, and what a sub order has of a dimension is a number.
ASSUME FilesAssumption ==
  \A c \in Cases :
    /\ DOMAIN c.vehicles = 1 .. Len(c.vehicles) /\ Len(c.vehicles) \in Nat
    /\ DOMAIN c.subs = 1 .. Len(c.subs) /\ Len(c.subs) \in Nat
    /\ T!ScenarioAccepted(c) =>
         \A sub \in T!Rows(c.subs) : T!SubDims(c, sub) \in [DOMAIN c.dims -> Int]

Fleet == T!Vehicles(case)

----------------------------------------------------------------------------
(* HardConstraintManager on the loads of one or more orders *)

\* A load is full when it leaves the pick location.
PeakDims(os) == [d \in param.dims |-> SumFunction([o \in os |-> o.dims[d]])]

WithinCapacity(v, os) ==
  \A d \in param.dims : PeakDims(os)[d] <= Fleet[v].capacity[d]

Available(v, os) == \A o \in os : v \in o.vehicles

WindowsAt(kind, os) ==
  IntersectionTwsArr(SetToSeq({IF kind = "PICK" THEN o.pickWindows ELSE o.dropWindows : o \in os}))

\* All orders are picked together and each drop location is visited once: it is
\* open after the first window of the pick location has begun.
Timely(os) ==
  LET picks == WindowsAt("PICK", os)
  IN  /\ picks # <<>>
      /\ \A loc \in {o.drop : o \in os} :
           LET drops == WindowsAt("DROP", {o \in os : o.drop = loc})
           IN  \E k \in DOMAIN drops : picks[1].early <= drops[k].late

\* The constraints a load fails: three that are always there, and a limit of
\* drop nodes each time the parameters name one.
Failed(v, os) ==
  {h \in {"VehicleCapacity", "AvailableVehicle", "TimeWindow", "MaxDropNodeCount"} :
     \/ h = "VehicleCapacity" /\ ~ WithinCapacity(v, os)
     \/ h = "AvailableVehicle" /\ ~ Available(v, os)
     \/ h = "TimeWindow" /\ ~ Timely(os)
     \/ h = "MaxDropNodeCount" /\ \E max \in case.maxDropNodes :
                                    Cardinality({o.drop : o \in os}) > max}

Units == UNION {{<<v, n>> : n \in 1 .. Fleet[v].count} : v \in DOMAIN Fleet}

OrderAt(i) == orders[i + 1]
Load(p, u) == {OrderAt(i) : i \in {j \in DOMAIN p : p[j] = u}}
LoadsOf(p) == {u \in Units : Load(p, u) # {}}

\* Every order of a load is picked at the same location (the pattern SPMD).
Feasible(p) ==
  \A u \in LoadsOf(p) : /\ Failed(u[1], Load(p, u)) = {}
                        /\ Cardinality({o.pick : o \in Load(p, u)}) = 1

----------------------------------------------------------------------------
(* The frozen table *)

\* The nodes of a load: one at the pick location, one at each drop location.
Node(kind, loc, os) ==
  [kind |-> kind, loc |-> loc, inds |-> {o.ind : o \in os}, windows |-> WindowsAt(kind, os)]

NodesOf(os) ==
  {Node("PICK", o.pick, os) : o \in os}
  \cup {Node("DROP", o.drop, {x \in os : x.drop = o.drop}) : o \in os}

\* NodeTimeWindowKey::operator==: location and order indices are compared, the
\* indices of the orders a key was made of by following its pointers.
Matches(entry, node) ==
  entry.kind = node.kind /\ entry.loc = node.loc /\ entry.inds = node.inds

\* A lookup that meets a key of an earlier pool reads its deleted orders.
ReadsDead(nodes) == \E e \in table, n \in nodes : e.by # solves /\ Matches(e, n)

Looked(nodes) ==
  /\ dead' = (dead \/ ReadsDead(nodes))
  /\ table' = table \cup {[kind |-> n.kind, loc |-> n.loc, inds |-> n.inds,
                           windows |-> n.windows, by |-> solves] :
                          n \in {x \in nodes : ~ \E e \in table : Matches(e, x)}}

NodesIn(p) == UNION {NodesOf(Load(p, u)) : u \in LoadsOf(p)}

----------------------------------------------------------------------------
(* VisualManager: the files of a plan *)

\* Where an order is that is in no load (vehicles are numbered from 1).
Unassigned == <<0, 0>>
Refused == <<0, 1>>

SizeOf(os) == SumFunction([o \in os |-> Len(o.cargo)])
Left(p) == {OrderAt(i) : i \in {j \in DOMAIN p : p[j] = Unassigned}}

Kind(u) == <<Fleet[u[1]].carrier, Fleet[u[1]].model>>

\* (mutant) What is unassigned is not part of the total.
SummaryOfLoads(p) ==
  [loads      |-> Cardinality(LoadsOf(p)),
   unassigned |-> SizeOf(Left(p)),
   total      |-> SumFunction([u \in LoadsOf(p) |-> SizeOf(Load(p, u))]),
   byVehicle  |-> [u \in LoadsOf(p) |-> SizeOf(Load(p, u))]]

\* summarize_plan: loads are grouped by carrier and model.
Summary(p) ==
  LET cargoIn(us) == SumFunction([u \in us |-> SizeOf(Load(p, u))])
  IN  [loads      |-> Cardinality(LoadsOf(p)),
       unassigned |-> SizeOf(Left(p)),
       total      |-> cargoIn(LoadsOf(p)) + SizeOf(Left(p)),
       byVehicle  |-> [g \in {Kind(u) : u \in LoadsOf(p)} |->
                         cargoIn({u \in LoadsOf(p) : Kind(u) = g})]]

\* The sub orders of orders.
SubRows(os) ==
  {sub \in T!Rows(case.subs) :
     \E o \in os : \E j \in DOMAIN o.cargo : cargo[o.cargo[j]].code = sub.cargo}

\* LoadLocations.json: the sub orders of each order picked or dropped at a stop; a
\* stop at the default location has no row.
LocationRows(p) ==
  {r \in [unit : LoadsOf(p), kind : {"PICK", "DROP"}, order : DOMAIN p, sub : T!Rows(case.subs)] :
     \E n \in NodesOf(Load(p, r.unit)) :
       /\ n.kind = r.kind /\ n.loc # Default /\ r.order \in n.inds
       /\ r.sub \in SubRows({OrderAt(r.order)})}

\* Loads.json
LoadRows(p) == [u \in LoadsOf(p) |-> [of |-> Kind(u), dims |-> PeakDims(Load(p, u))]]

\* localization_plan_result; final is whether the timing of solve() is known.
Plan(p, final) ==
  [by |-> solves, final |-> final, summary |-> Summary(p), loads |-> LoadRows(p),
   rows |-> LocationRows(p),
   left |-> SubRows(Left(p)), refused |-> {i \in DOMAIN p : p[i] = Refused}]

NoFile == <<>>
NoDisk == [infeasible |-> NoFile, plan |-> NoFile]

\* collect_results: the files that are there.
Collected(d) == [by |-> solves, infeasible |-> d.infeasible, plan |-> d.plan]

NoResult == <<>>

----------------------------------------------------------------------------
(* SolverPrecheck *)

\* A temporary order of one cargo order, with the index -1.
Alone(c) == Order(-1, <<c>>)

\* A vehicle without stock is unusable.
Unusable(v) == Fleet[v].count = 0

Reasons(v, c) == IF Unusable(v) THEN {"VehicleResource"} ELSE Failed(v, {Alone(c)})

\* (mutant) The vehicles are asked for together, not each for itself.
InfeasibleSomewhere == {c \in DOMAIN cargo : \E v \in DOMAIN Fleet : Reasons(v, c) # {}}

\* check_feasibility: a cargo order no vehicle can carry alone.
Infeasible == {c \in DOMAIN cargo : \A v \in DOMAIN Fleet : Reasons(v, c) # {}}

InfeasibleReport ==
  [by |-> solves', reasons |-> [c \in Infeasible |-> [v \in DOMAIN Fleet |-> Reasons(v, c)]]]

\* What the precheck looks up; its own buffer, dropped on return, takes what the
\* table does not have.
PrecheckNodes == UNION {NodesOf({Alone(c)}) : c \in DOMAIN cargo}

----------------------------------------------------------------------------
(* The solver *)

Init ==
  /\ PoolInit
  /\ case \in Cases /\ phase = "closed"
  /\ solves = 0 /\ calls = 0 /\ place = <<>>
  /\ table = {} /\ dead = FALSE /\ disk = NoDisk /\ result = NoResult

\* The constructor: scenario, parameter and output directory.
Open ==
  /\ phase = "closed"
  /\ IF T!ScenarioAccepted(case) /\ T!ParameterAccepted(case)
     THEN phase' = "ready" /\ \E r \in ReadingsOf(case) : Read(r)
     ELSE phase' = "broken" /\ UNCHANGED poolVars
  /\ UNCHANGED <<case, solves, calls, place, table, dead, disk, result>>

\* Not the code: the precheck writes into the shared table.
SolveArchiving ==
  /\ phase = "ready" /\ solves < MaxSolves
  /\ DropPool
  /\ solves' = solves + 1 /\ calls' = 0 /\ place' = <<>>
  /\ Looked(PrecheckNodes)
  /\ IF Infeasible = {}
     THEN phase' = "pooling" /\ result' = NoResult /\ UNCHANGED disk
     ELSE phase' = "ready" /\ disk' = [disk EXCEPT !.infeasible = InfeasibleReport]
          /\ result' = [Collected(disk') EXCEPT !.by = solves']
  /\ UNCHANGED case

\* solve(): pool and workspace of the last call go, and a cargo order no vehicle
\* can carry ends the call with a report.
Solve ==
  /\ phase = "ready" /\ solves < MaxSolves
  /\ DropPool
  /\ solves' = solves + 1 /\ calls' = 0 /\ place' = <<>>
  /\ dead' = (dead \/ ReadsDead(PrecheckNodes))
  /\ IF Infeasible = {}
     THEN phase' = "pooling" /\ result' = NoResult /\ UNCHANGED disk
     ELSE phase' = "ready" /\ disk' = [disk EXCEPT !.infeasible = InfeasibleReport]
          /\ result' = [Collected(disk') EXCEPT !.by = solves']
  /\ UNCHANGED <<case, table>>

PoolStep ==
  /\ phase = "pooling"
  /\ StartPool \/ BuildPool
  /\ UNCHANGED runVars

\* A workspace over the pool, and the script: solve() throws if it is missing or
\* does not load.
OpenScript ==
  /\ phase = "pooling" /\ stage = "done"
  /\ place' = [i \in {orders[k].ind : k \in DOMAIN orders} |-> Unassigned]
  /\ phase' \in {"script", "ready"}
  /\ UNCHANGED <<poolVars, case, solves, calls, table, dead, disk, result>>

Places == Units \cup {Unassigned, Refused}

\* knn: loads keep their orders and may get more; seeds that form no load are lost.
Knn ==
  /\ phase = "script" /\ calls < MaxCalls
  /\ place' \in [DOMAIN place -> Places]
  /\ \A i \in DOMAIN place : place[i] = Refused => place'[i] = Refused
  /\ \A i, j \in DOMAIN place :
       place[i] \in Units /\ place[i] = place[j] => place'[i] \in Units /\ place'[i] = place'[j]
  /\ Feasible(place')
  /\ Looked(NodesIn(place'))
  /\ calls' = calls + 1
  /\ UNCHANGED <<poolVars, case, phase, solves, disk, result>>

\* alns: the best solution of the search, which knows the orders of the workspace.
Alns ==
  /\ phase = "script" /\ calls < MaxCalls
  /\ place' \in [DOMAIN place -> Places]
  /\ \A i \in DOMAIN place : place[i] = Refused <=> place'[i] = Refused
  /\ Feasible(place')
  /\ Looked(NodesIn(place'))
  /\ calls' = calls + 1
  /\ UNCHANGED <<poolVars, case, phase, solves, disk, result>>

\* snapshot: into a folder of the output directory, which nobody reads again, or
\* into the directory itself.
Snapshot ==
  /\ phase = "script" /\ calls < MaxCalls
  /\ disk' \in {disk, [disk EXCEPT !.plan = Plan(place, FALSE)]}
  /\ calls' = calls + 1
  /\ UNCHANGED <<poolVars, case, phase, solves, place, table, dead, result>>

EndScript ==
  /\ phase = "script"
  /\ phase' = "ready"
  /\ disk' = [disk EXCEPT !.plan = Plan(place, TRUE)]
  /\ result' = Collected(disk')
  /\ UNCHANGED <<poolVars, case, solves, calls, place, table, dead>>

\* The script runs into an error: solve() throws.
ScriptFails ==
  /\ phase = "script"
  /\ phase' = "ready"
  /\ UNCHANGED <<poolVars, case, solves, calls, place, table, dead, disk, result>>

Next ==
  Open \/ Solve \/ PoolStep \/ OpenScript \/ Knn \/ Alns \/ Snapshot \/ EndScript \/ ScriptFails

Spec == Init /\ [][Next]_vars

----------------------------------------------------------------------------
(* Properties *)

\* A result tells of the call that returned it: the report of the precheck if and
\* only if some cargo order fits no vehicle by itself, with a reason for every
\* vehicle, and the final plan otherwise; never a snapshot or a file of a call
\* before (s_solver.cpp, collect_results).
ResultIsOfThisCall ==
  result # NoResult =>
    /\ result.by = solves
    /\ (\E c \in DOMAIN cargo : \A v \in DOMAIN Fleet :
          Unusable(v) \/ Failed(v, {Alone(c)}) # {}) <=> result.infeasible # NoFile
    /\ result.infeasible # NoFile =>
         /\ result.infeasible.by = solves /\ result.plan = NoFile
         /\ \A c \in DOMAIN result.infeasible.reasons : \A v \in DOMAIN Fleet :
              result.infeasible.reasons[c][v] # {}
    /\ result.infeasible = NoFile =>
         result.plan # NoFile /\ result.plan.by = solves /\ result.plan.final

\* A stop at the default location has no row, so these rows tell of scenarios whose cargo
\* orders are between locations of Location.csv.
EndsNamed == \A c \in DOMAIN cargo : Default \notin {cargo[c].pick, cargo[c].drop}

KeptIn(plan) == {k \in DOMAIN orders : orders[k].ind \notin plan.refused}

\* Each sub order of a kept order is listed as left, or as picked and as dropped by the
\* same load; what a load picks at its stops adds up to the dimensions of its row.
RowsComplete(plan) ==
  /\ \A sub \in T!Rows(case.subs) :
       (\E k \in KeptIn(plan) : \E j \in DOMAIN orders[k].cargo :
          cargo[orders[k].cargo[j]].code = sub.cargo)
       <=> sub \in plan.left \/ \E r \in plan.rows : r.sub = sub
  /\ \A r \in plan.rows :
      \A kind \in {"PICK", "DROP"} : [r EXCEPT !.kind = kind] \in plan.rows
  /\ \A u \in DOMAIN plan.loads : \A d \in param.dims :
       plan.loads[u].dims[d] =
         SumFunction([r \in {x \in plan.rows : x.unit = u /\ x.kind = "PICK"} |->
                        T!SubDims(case, r.sub)[d]])

\* The total is the number of cargo orders in the orders that are kept, and the vehicle
\* groups share what is loaded.
SummaryComplete(plan) ==
  /\ plan.summary.total = Cardinality(UNION {{<<k, j>> : j \in DOMAIN orders[k].cargo} :
                                             k \in KeptIn(plan)})
  /\ SumFunction(plan.summary.byVehicle) = plan.summary.total - plan.summary.unassigned

\* A plan accounts for the scenario, sub order by sub order, unless all orders of a sub
\* order were refused, and in its summary: "总货单数 = 已配送 + 未配送" counts the cargo
\* orders in the orders that are left and in those that are loaded.
PlanComplete ==
  disk.plan # NoFile /\ disk.plan.by = solves =>
    (EndsNamed => RowsComplete(disk.plan)) /\ SummaryComplete(disk.plan)

\* Whatever a lookup of this solver may find in the frozen table are the windows
\* of the node that looks: keys compare order indices only, and the indices of the
\* temporary orders of the precheck are all -1 (prob_problem.cpp:113).
TableCurrent ==
  \A e \in table :
    /\ stage = "done" /\ e.inds \subseteq 0 .. Len(orders) - 1 =>
         e.windows = WindowsAt(e.kind, {OrderAt(i) : i \in e.inds})
    /\ e.inds = {-1} => \A n \in PrecheckNodes : Matches(e, n) => e.windows = n.windows

\* "lookup 比较时 use-after-free" (prob_problem.cpp:113) is what the code must avoid,
\* while "允许重复调用" (s_solver.cpp:33): no lookup compares a key made of deleted orders.
KeysComparedLive == ~ dead
=============================================================================
