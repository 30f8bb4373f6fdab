# A TLA+ verification project for yun

yun is a vehicle routing solver. It reads a scenario from CSV files (cargo
orders, vehicles, carriers, locations, distance matrices, charges), groups the
cargo orders into orders, and runs a Lua strategy that fills a workspace with
loads: a KNN construction, then adaptive large neighbourhood search (ALNS).
This directory models the parts of it that carry state and protocol, checks them
with TLC on small instances and proves their safety with TLAPS for all of them.

`PROJECT.json` lists the runs, the source lines behind every definition, the
mutants that show each property can fail, the hazards and the findings.

## 1. The system

| Component | State | Operations | Interacts with |
|---|---|---|---|
| solution space (`pdm_solution`, `pdm_resource`) | loads, unassigned pool, one account per vehicle type | `add_load`, `update_load`, `remove_load_by_ind`, pool edits, occupy and release | edited in place by ruin, repair and KNN |
| ruin operators (`algo_alns_ruin*`) | the selection still to be worked off | `execute` (select), `call` (remove, evaluate, shed) | solution space, constraints |
| repair (`algo_alns_repair*`) | matrix of trial loads, idle segments | `init`, `use_segment_schema`, `update_load`, `idle_segment_create_load` | solution space; evaluates cells in the parallel executor |
| parallel executor (`algo_parallel_executor`) | cursor, chunks, write buffers | `run` | forks chunks in a libfork pool; archives buffers in the cache |
| time window cache (`pdm_cache_time_window`) | frozen table, parallel flag, buffers | `lookup`, `get_or_create_*`, `archive`, `on_parallel`, `off_parallel` | read by every evaluation of a load |
| KNN construction (`stra_construct_knn`) | neighbour graph, candidate loads, waiting orders | scan, insert, archive, seed | a solution copied from and moved back to the workspace |
| ALNS loop (`algo_alns_model`, `_solution_manager`, `_sa`) | best, current and working solution, counters, temperature | `solve`, `update_sol`, `cal_accept_status` | ruin, repair, workspace |
| operator manager, parameters (`algo_alns_operator`, `_parameter`) | operators, weights | roulette, weight update, parsing of the Lua table | ALNS loop |
| workspace (`pdm_workspace`) | accepted loads, pool, accounts, stack of set-aside loads | `generate_sol`, `deep_copy_sol`, `move_solution`, `push`, `pop` | every strategy function |
| load, nodes, SPMD pattern (`pdm_load*`, `pdm_node`, `prob_pattern_spmd`) | node chain of activities, cached profile fields with marks | insertion, removal, `change_vehicle`, lazy getters | trial insertions, constraints |
| problem facade (`prob_problem`) | constraint managers, load context | evaluation, vehicle choice, insertion trials, precheck | all of the above |
| constraints (`pdm_hard_constraint*`, `pdm_cost_constraint*`) | none; a mask of what is checked | evaluation of a load in a fixed order, stopping at the first violation | profile fields of the load, charges |
| orders and order pool (`pdm_order`, `pdm_order_pool`) | groups under construction, then the orders | grouping by locations, then by the values of a label | built by each `solve()`; orders point to cargo orders and are pointed to by keys of the cache |
| time windows (`bdm_work_plan`, `bdm_time_window_utils`, `pdm_load`, `pdm_time_window*`) | calendars; the plans of a route while it is inferred | cutting and merging of windows, forward and backward inference, verdict | read from `Calendar.csv` and cargo orders; windows of a node are cached |
| charges (`bdm_charge*`, `scr_charge`) | tables, and buffers of each thread that outlive a scenario | `eval` | cost of a load |
| scenario and its readers (`bdm_*`, `scr_*`) | immutable once read | what a row must satisfy, and what becomes of it | owned by the context, used by all |
| solver and strategy (`s_solver`, `s_precheck`, `stra_strategy`) | context, order pool, workspace, executor, frozen cache over calls | constructor, `solve`, precheck, functions of the Lua script | everything |
| result export, Python binding (`visual_manager*`, `yun_solver_binding`) | the output directory | files of a plan or of an infeasible call; the result collected from them | workspace, pool |

Where it is hard. The repair matrix plans with vehicle accounts it does not
hold, and keeps copies of loads that other cells replace. The executor is the
only concurrent part: chunks share a cursor and read a hash table no one may
write until all have joined. The ALNS loop replaces three owned pointers by
copies of each other and may be left by an exception at any move. KNN keeps two
index sets beside the solution it edits. The inference over a route works on
intervals whose ends move with every window, forward and then backward. The
buffers of the charge evaluator are reused without being cleared, and a Solver
keeps its cache while the orders its keys are made of come and go. A lot of what
is decided by names (groups of labels, columns of days) looks right
until the second pair of locations or the second week. Nothing is persistent and
there is no network: crashes, lost messages and retries are not this program's hazards.

What makes each part correct: orders are in one place, accounts equal the loads
that use them (solution space, ruin, repair, KNN); a cell is what it would be if it
were evaluated now (repair); a parallel run equals the plain loop and the
cache's owners and readers never meet (executor, cache); the workspace never gets
worse and solutions are never shared (ALNS); a load's cached fields agree with
its route (load); every cargo order is in the orders, and an order mixes nothing
the rule keeps apart (pool); a route that can be driven inside its windows without a wait is
accepted and exported without one, and what is exported can be driven (time windows); a load costs
what the tables in force say (charges); a call of `solve()` returns its own plan,
complete, and finds nothing outdated in the cache (solver, export).

## 2. The modules

* `Scenario`: the orders and vehicle types that the components of a solution share.
* `SolutionSpace`: operators on one record (loads, pool, accounts). A load is a
  vehicle type, a set of orders and the last verdict; `"freed"` stands for a deleted
  object that a slot still points to. The throws of `VehicleUsage` are predicates
  of their own, because it throws *after* it has changed the account.
* `RuinRepair` (uses `SolutionSpace`): one ALNS move after another. `Select`,
  `RuinWhole`, `RuinPart`, `Shed`, `RuinDone` are `AlnsRuinOperator::call`; `Build`,
  `UseSegment`, `CreateLoad`, `RepairDone` are `AlnsRepairOperator::call`.
  Evaluation answers are choices, limited to what the code can return: a cell
  names the load's own vehicle or one that is free at that moment. Greedy and
  regret-k selection are two ways to pick a feasible cell, and both are covered.
* `ParallelFor`: the abstract specification of the executor. A call of n tasks
  begins and ends each task once, may compute keys, and when it returns the table
  holds all that was computed.
* `ParallelExecutor`: chunks that claim (`Claim`), look up (`Lookup`) and end tasks,
  `Run`, `Join`, `Archive` and `Return` of the submitting thread and its serial
  lookups. Time window lists are named by the buffer that created them, so that two
  lists for one key are two objects. `KeepsPromise` is the refinement of
  `ParallelFor`.
* `NeighbourGraph`: `construct_knn_edge`, the row of the neighbour graph of one order: mean distances,
  composite ranks, and the cut at `neighbour_count` one pair per step (`Keep`, `KeepAll`, and `Cut` where the `LimitReached`). Equal ranks are listed
  in any order, as a hash map and an unstable sort leave them.
* `KnnConstruct` (uses `SolutionSpace`): a call of `k_nearest_neighbor`. `Scan` is a pass
  over candidates in the order a hash set happens to have, `Insert` the insertion
  it decides for, `SeedRefused`, `SeedOpens` and `SeedsEnd` the seed loop. The graph is
  any graph of ranks; `NeighbourGraph` says which there are.
* `LoadInsertion`: one load and the calls that change its route, evaluation by evaluation. A chain is
  a sequence of nodes with their activities and leg lengths; `cache` holds the profile fields whose mark
  is set, so a field that was read keeps its value until a mark is reset. `Construct*` is
  `construct_load_by_order`, `Append*` an insertion of the KNN construction, `InsertBegin`, `Trial`,
  `SelectTry`, `Judge`, `InsertBest` are `greedy_insert_segment_to_load` with its vehicle choice, and
  `RuinPart`, `Shed` the removals of a ruin. What `RuinRepair` and `KnnConstruct` leave open
  (a verdict, a vehicle type) is computed here from routes, capacities and distances.
* `AlnsLoop`: calls of `alns`. A heap of slots makes ownership visible: `UpdateSol`
  deletes and allocates as the code does. A move is any new objective value of
  the working solution, or an exception.
* `Calendars`: from a calendar row and the cargo orders to the windows of a node: the reader, the
  dates of `chrono_util`, `Calendar::intersection`, cutting and merging. Operators only.
* `RouteTimes`: a route of nodes with windows, travel and work times. `StopWaiting`, `Wait`,
  `Miss` and `Fit` are what one window does to one earlier plan in the forward inference, `Accept` and
  `Reject` the verdict of `HcTimeWindow`, `Back` and `Export` fill the schedule of an accepted route. It takes any ordered windows as a constant.
* `BookedRoutes` (composes the two): routes whose windows `Calendars` derives from bookings. Its
  properties compare both with the open times read off the booking unit by unit of time.
* `ChargeTables`: what the reader accepts of the four charge tables, and the manager it makes,
  with rule lists per vehicle and the slots of labels and secondaries. Arithmetic wraps at `Wide`.
* `ChargeEvaluator` (uses `ChargeTables`): one thread that evaluates loads of successive
  scenarios. Pairs, sequences, each rule and the final sum are steps (`BuildOdPairs` to `Finalize`); sums carry the number of the evaluation that wrote
  them, and that number starts over at `MaxEpoch`. The reference is the contract: a sum over the rows
  themselves, without buffers.
* `ScenarioTables`: what every other reader and `load_parameter` accept, and the fleet and
  cargo orders the rest works on. Operators only.
* `OrderPool` (uses `Calendars`): the constructor of the pool, one cargo order per step. Sets of
  label values are listed in any order, since the code walks unordered sets.
* `SolverRun` (extends `OrderPool`, uses `ScenarioTables`): a Solver over calls of `solve()`. `Open` is
  the constructor, `Solve` the begin of a call, which ends there with a report if some cargo order fits no
  vehicle, `PoolStep` and `OpenScript` the way to the script, `Knn`, `Alns`, `Snapshot`, `EndScript`,
  `ScriptFails` what a script can do. It keeps the frozen table, the output directory and the result.
* `MC*`: constants for TLC. `*Proofs`: the theorems of a module.

The text of a definition whose name ends in what is wrong with it
(`HasAvailableOffByOne`, `JoinCallOnly`, ...) is a mutant: it is used by no action and
shows, put in place of the right one, that a property can fail.

## 3. What the runs check

| Run | Question | Bounds |
|---|---|---|
| `RuinRepairMoves` | are orders, accounts and cells right after any sequence of moves; does each move end | 4 orders, 2 small and 1 big vehicle; moves unbounded |
| `ParallelExecutorRuns` | owners, readers and checks of the cache under every schedule; is it a plain parallel loop; does `run` return | 2 chunks, up to 3 tasks, 2 keys; calls unbounded |
| `KnnConstructSafety` | what may be lost, index sets, termination of the construction | 3 orders, every graph with ranks 0 and 1, 3 starting workspaces |
| `NeighbourRows` | are nearer orders kept before further ones, and none beyond the least ranks | 5 orders at 3 places, 2 vehicles with a matrix each (one of them one-way), counts 0 to 3 |
| `LoadInsertionCalls` | chains, roll back, fields a verdict reads, best trial and failed insertions over any sequence of calls | 5 orders, 3 vehicle types with different depots and matrices, 7 locations on a line |
| `AlnsLoopCalls` | ownership, best solution, termination over successive calls | 3 objective values, 4 slots, up to 4 iterations of up to 2 moves, limits of 0 and 1 without improvement |
| `RouteTimes` | are the windows of a node its open times; is no plan that meets a window lost, and a way without a wait always taken; can the exported schedule be driven | 2 stops, days of 8 units, plan ranges over 3 days at 3 dates (29 February 2024, end of February 2100, new year) |
| `RouteTimesNamedDay` (finding) | is a location open in the hours of the named day | the same |
| `Charge` | is a load charged as the tables say, whatever the thread priced before | two contracts, a scenario without rules and two that are refused, 7 loads; `MaxEpoch` = 3, `MaxOdPairs` = 3, `Wide` = 2^20 |
| `SolverRuns` | does the pool cover the cargo orders and respect the rule; is the result of this call and complete; is the table current | 7 cases that are read and 26 that are refused, 2 calls of `solve()`, 2 functions per script |
| `SolverRunsSameEnds` (finding) | do the cargo orders of an order have its ends | the same |
| `SolverRunsKeys` (finding) | is a key of deleted orders ever compared | the same |

Four more configurations each check one statement of the documents which TLC refutes; section 5 says what the traces show.
They stand beside the runs that `PROJECT.json` lists and are started by hand, as in `tlc -config RouteTimesNearest.cfg MCBookedRoutes`.

| Configuration, module | Statement | Bounds |
|---|---|---|
| `RouteTimesNearest.cfg`, `MCBookedRoutes` | a plan waits for the nearest window (`WaitsForNearest`) | those of `RouteTimes` |
| `AlnsLoopUnimproved.cfg`, `MCAlnsLoop` | the search ends at its limit of iterations without improvement (`StopsAtLimit`) | up to 4 iterations of one move, a limit of 1 |
| `KnnConstructMissing.cfg`, `MCKnnConstruct` | no order is missing from what the construction returns (`NoOrderMissing`) | those of `KnnConstructSafety` |
| `NeighbourRowsGroups.cfg`, `MCNeighbourGraph` | all orders are kept whose rank is among the least (`KeepsRankGroups`) | those of `NeighbourRows` |

Why the bounds are enough. In `RuinRepair` the interesting cases need two loads
that compete for a last vehicle, a load with two orders of which one is ruined,
and another order to be inserted: four orders and three vehicles have them all.
Two chunks that compute the same key are the smallest case of every cache hazard; with two keys
one chunk holds a list while the other creates one, and with three tasks a chunk runs a second task
after it has filled its buffer (more chunks, tasks and keys are the proofs' part). In `LoadInsertion`
two of four orders that share a pick are delivered at one place, so that deliveries join nodes before
and behind them and removals leave equal neighbours; the fifth order has another pick, and each
vehicle type is refused for a reason of its own (room, place, distance). `EmptyCellHopeless` compares the
slots with a reference that delivers the order as any stop of the load.
Four other orders are what `NeighbourGraph` needs for its counter to meet a rank (ranks start at 2).
In `BookedRoutes` two orders are picked together and dropped apart, over rows with a lunch break,
two windows a unit apart, short days and closed ones: waits, late arrivals, windows that merge and
plans that split all occur. `MaxEpoch` = 3 makes the number start over within three evaluations, and
the loads have from none to five pairs of values, on both sides of `MaxOdPairs` = 3.
The seven cases of `SolverRuns` have an order too heavy, one whose vehicle has no stock, one outside the
plan range, and rules with groups, without, and with one group that is met from both ends; a
second call is what the table, the files and the result need to go wrong, and two functions let a
construction be followed by an improvement or a snapshot.
Four slots are the three solutions and the result, so an allocation may
reuse any slot that has just been freed. Moves, calls and schedules are not bounded
except in `SolverRun` (`MaxSolves`, `MaxCalls`); only the sizes above are, and the proofs remove them.

`CHECK_DEADLOCK FALSE` is set where the system may stop: `RuinRepair` and `LoadInsertion` after an
exception, `KnnConstruct` when the pool is empty or a check threw, `AlnsLoop` after
undefined behaviour, `RouteTimes` with a verdict or a schedule, `SolverRun` after a refused case or
the last call. `ParallelExecutorRuns`, `NeighbourRows` and `Charge` check deadlock.

Fairness. The ruin and repair operators, the construction and the ALNS loop run
in one thread that never waits: weak fairness of the next-state relation (for `AlnsLoop`
only while a call runs, since no one has to make another call). In the executor
every chunk is a task of a work-stealing pool whose workers run until they are
done, so each chunk's step is weakly fair, and so are the steps of the submitting
thread inside `run`; that `run` is called again, or a serial lookup made, is not assumed.
The inference, the rows of the neighbour graph, the evaluator and `SolverRun` have no fairness: they are loops over finite data,
and a script may run for ever. `MoveEnds` rests on `Shed` taking an order out of the load each time it repeats.

## 4. What is proved

The proofs assume a finite set of orders, `MaxUsable \in [Vehicles -> Nat]`, and for
the other constants what their modules' named assumptions say. Those about tables and files say what the readers guarantee: rows are
numbered in turn and cells that are used hold numbers (`CellsAssumption`, `FilesAssumption`); a day has some length (`DayAssumption`).

* `SolutionSpaceProofs` holds lemmas about the operators: what adding, replacing and
  removing a load does to the set of loads that drive a vehicle type, to the
  number of them and to conservation. No induction is needed: removal at an index
  is a bijection between the loads that remain.
* `RuinRepairProofs`: eight theorems. The inductive invariant joins all safety
  properties with what they need of each other: an account is only right while
  every load is in it, a cell may only be used because `CellsCurrent` says what
  it would replace, `RemoveLoadByInd` may only be applied because `TodoCurrent` keeps
  indices valid while loads move down. `update_load` is the only action that throws,
  and the accounts are claimed up to that point.
* `ParallelExecutorProofs`: the invariant adds to the safety properties that a
  chunk outside a task uses nothing, tasks are claimed once, buffers own what
  they hold and are empty outside a run, and that freed lists are duplicates of a key
  in the table. From it follow `TableReadOnly` and, step by step, the refinement
  `Spec => ParallelFor!Spec` (`ExecutorKeepsPromise`).
* `AlnsLoopProofs`: `IInv` adds where the result stands, and that the best solution is no worse than
  the workspace. `CurrentStaysBest` is worth a note: the
  current solution always equals the best, because acceptance by probability leaves it where it
  is. `DOMINATE_CURRENT_SOLUTION` and its operator score can never occur, and
  annealing only decides how long the working solution drifts before it is reset.
* `RouteTimesProofs`: for every set of routes with ordered windows. The invariant describes
  the plans of the nodes done and of the node under way: each departure offered can be driven, each plan of the
  node before that meets a window is among the plans, and a plan that waits or is late is alone. This is said of one node and
  the node before; that a whole way without a wait is taken follows from it (`IInvWaitFree`): such a way has a time at each node
  (`WaysExist`), and a punctual plan that holds this time at one node meets the window the way uses at the next, where it becomes
  a punctual plan again (`WayKept`). So no node is late, and the plans of the schedule, built from the last node back, do not wait. Nothing
  of the kind is true of ways that wait, see section 5. Where an argument needs the least element of a finite set,
  it comes from well-foundedness of strict subsets in the library instead of an induction.
* `LoadProofs`, the stamps of `ChargeEvaluator`: a stamp never exceeds the number of the last evaluation, and
  when the number starts over all stamps are cleared; from this, for any tables and any `MaxEpoch`, a sum
  with the stamp of the call was written by it (`StampsSafe`).
* `LoadProofs`, the tiers of `ChargeEvaluator`: `TiersApart` is `TiersDisjoint` for any tables. The reader compares neighbours only,
  which suffices because a tier that is read is not empty, so that bounds that do not decrease from neighbour to neighbour never do
  (`NeighboursInTurn`). What a sort returns is told without one: the k-th tier is the row that k rows come up to, and rows with equal bounds
  keep their order in the file (`UpToCounts`). Equal lower bounds are refused by the same check.
* `LoadProofs`, the load: for any orders, places, vehicle types, distances and limits. A route is a chain without
  distances, and three functions tell what the calls do to it: `Put` delivers an order at a slot, `Shorn` takes orders
  out, `Moved` changes the depots. They keep a route a `Chain` (pick node and drop nodes carry the same orders, each
  once, at its own place, and no node is empty), `Shorn` undoes `Put` (`ShornPut`), whether the delivery joined a node or made one,
  and `Put` commutes with `Moved` (`PutMoved`). `LoadInv` then says in each phase which of them made the copy: before a trial it
  is the base, in a trial the base with the order put at the slot and the depots of the vehicle tried, and the best trial remembers
  slot and vehicle of such a route. Why the roll back must change the vehicle is in it: the trial after it starts from the base's depots.
  `RoutesPaired`, `TrialsStartAlike` and `BestDoneAgain` follow. For `JudgedTruly`, `Evaluated` adds that counts, peak and stops
  of the cache are those of the chain and that every leg and depot is the vehicle's; `change_vehicle` may break a leg
  (it renews one), and the evaluation after it mends all. The remembered total distance is in no such claim: it is stale, see section 5.
  `EmptyCellsAreRight` needs the copy reset before each trial as well: an order that fits as a stop makes a feasible trial
  (`TrialVerdict`), because the stops of `Put` are those of the reference (`PutStops`), joined or parted, and a chain's distance is the
  length of the path through them (`TripLength`); `HopeInv` then says that without a best trial every slot passed was hopeless.
* `KnnProofs`, the rows: the counter of the cut never runs ahead of the rank it is compared with (`CounterBehind`), so that
  a new rank always differs from it, and numbers keep the order of ranks although they are not ranks. An order's number is at least
  its place among the different ranks less one (`RowNumbered`), because the next place needs a new rank (`PlaceNext`), so that what the
  counter lets in is among the least ranks (`OnlyLeastRanksKept`). That ranks follow
  the distances (`NearerComeFirst`) rests on two counts: an order that is nearer has all the orders before it that
  the other has, and one less. Distances are means, so sums over a set are natural numbers first (`SumType`).
  The construction: `Spread` (each order waits, is refused or is in one load), the accounts of `SolutionSpace`,
  `BestStands` (the insertion a pass decided for can be done when it is done: the load keeps its vehicle or the
  type has one free) and `RoundsSuffice` (an order that could be a seed leaves a round over). The graph is any
  graph, so that nothing rests on the rows.
* `OrderPoolProofs`: `PoolInv` says that keys and groups are in bijection and that each group fits its
  key. `PoolKeepsApart` is `OneGroupEach` for any cargo orders, rule and listing. `CoverInv` adds that groups by ends
  are the classes of the cargo orders done, each with one place, and that the places before the next one are exactly the
  ones sorted under a key: `PoolCoversAll`. `SolverBuildsPools` is a
  refinement, `SolverRun!Spec => PoolSpec`: whatever the script does, the pool changes by its own steps only;
  `SolverKeepsApart` and `SolverCovers` carry the properties over. `RunInv` ties the files to the call: the
  report is that of the case's precheck, which every call repeats, and a plan is of this call once its script runs;
  hence `SolverReturnsItsResult`. `SolverTableCurrent` needs that two calls build the same pool although the second starts
  with what the first left in its variables: a construction is a trace of states of which each determines the next
  (`Following`), two complete traces agree (`ReachedOnce`), and an entry was filed for the groups at the end of one.
  `SolverPlansComplete` is `PlanComplete`. `AccountInv` follows what the sums range over from the files to the plan: the cargo orders are
  those of an accepted case, with one code each; `place` puts every order of the pool into one unit, among the refused or the unassigned,
  and `knn` and `alns` keep it so; the plan on disk was written from such places, or belongs to an earlier call. A row names
  its order, and an order holds no cargo order twice, so that orders, cargo orders and sub orders nest and their sums
  with them (`LoadedSize`, `OrderDim`, `RowsDim`). The rows say so only where no cargo order is at the default location
  (`EndsNamed`), whose stops have no row; the summary says so always.
* `OrderPoolProofs`, the dates of `Calendars`: a day number has a civil date with a month from 1 to 12 and a day from 1 to 31, and the date leads back to
  the day (`DaysHaveDates`), for every integer, since what a year leaves of the days of its era of 400 years is linear (`YearBounds`).
  Hence the days a window is cut into follow each other over the ends of months, years and centuries, with their
  weekdays (`DatesFollow`); the runs see three such ends.

Sums and traces. What a fold computes is defined by a recursive function, which says nothing until one shows
that such a function exists. Where a proof needs it, existence, uniqueness and each fact are proved for the least set (or
number) where they could fail, which comes from well-foundedness in the library; the induction theorems themselves
take an operator and cannot be used. For sums over a finite set that is `LeastSet` and `SumsExist`: a sum takes one element at a
time, in any order, so that it splits over parts, moves along a bijection, and counts where every term is one. `RECURSIVE` operators stay out of reach.

Only model-checked: liveness (`MoveEnds`, `RunReturns`, `CallReturns`, `CallEnds`), which needs
fairness and `ENABLED`, out of TLAPS' reach here, and two claims about what is computed from data. `ChargedAsContract` is only true
while no product or sum overflows and `WindowsExact` while the ranges of a day do not overlap; the code checks
neither, so that the theorems would be about less than the code accepts. Both are also computed by `SelectSeq`, and the windows by `SortSeq`, which
are built in and have no definition a proof could expand; `TiersOf` is written without them.

## 5. Findings

1. Every weekday is open in the hours of the next one (`RouteTimesNamedDay`): the reader counts from
   Monday, the lookup from Sunday.
2. With a rule for labels, cargo orders to different locations become one order, and its route goes
   only to the location of the first (`SolverRunsSameEnds`).
3. A second `solve()` compares keys that point to the orders the first one deleted (`SolverRunsKeys`).
   What is found under a key is still right (`TableCurrent`): only the comparison reads freed memory.
4. A plan waits for the last window it can wait for, where `docs/time_window_infer.md:19` says the nearest (`RouteTimesNearest.cfg`):
   the number of kept plans is read before the loop (`bdm_time_window_utils.cpp:55`), so that while it is 0 each later window replaces
   the plan kept for the one before (line 70). A route may be judged late although there is a way in time: with the windows
   [14,15] and [17,19] ahead, a plan that arrives at 12 waits to 17. What needs no wait is not affected (`WaitFreeWayTaken`).
5. The search runs one iteration more than its limit of iterations without improvement (`AlnsLoopUnimproved.cfg`;
   `algo_alns_model.cpp:74`, `docs/dsl_user_guide.md:124`).
6. A seed order whose load is infeasible disappears from the result (`KnnConstructMissing.cfg`): it has left the pool
   (`stra_construct_knn.cpp:224`), where `docs/dsl_user_guide.md:78` and `:80` say it stays unassigned. It is in `refused` of
   `KnnConstruct`, and `OnlyRefusedAreLost` says that no other order is lost.
7. Of orders with the same composite rank one may be a neighbour and another not (`NeighbourRowsGroups.cfg`): the cut compares
   ranks with a counter (`stra_construct_knn.cpp:163`), where the comment at line 151 and `docs/dsl_user_guide.md:70` keep the whole group. A
   row may therefore hold fewer ranks than asked for, but never others (`OnlyLeastRanks`).

Also seen while modelling, without a run of their own:

* Loads and vehicles. Two cells may plan the last vehicle of a type; the second `update_load` throws
  (`pdm_resource.cpp:17`) after it has deleted the load it replaces: `RuinRepair` reaches it (`thrown`).
  The total distance is stale after a change of vehicle (`pdm_load.cpp:66`, against `docs/charge.md:111`), so
  that `InsertBest` may find its trial infeasible and throw (`prob_problem.cpp:266`), which `LoadInsertion` reaches.
* ALNS and executor. `alns({})` registers no operator and divides by zero (`algo_alns_operator.cpp:84`);
  `print_log_interval_iter = 0` is a modulus. Chunks are counted from the requested workers, so that
  the default makes two (`algo_parallel_executor.cpp:113`). `yun_solver_binding.cpp:64-66` says that the result of ALNS is
  not written back; `stra_strategy.cpp:98` writes it back.
* KNN. A load is archived although a waiting order would fit (`stra_construct_knn.cpp:281`, `docs/dsl_user_guide.md:79`).
* Time windows. `docs/time_window_infer.md:57` rejects windows shorter than the
  work, the code does not. Windows of zero length are dropped at a node, overlapping day ranges shrink when
  merged (`scr_work_plan.cpp:44`), and daily calendars cannot be read: the reader takes their cells from a document
  that is already cleared.
* Orders and export. Cargo orders without a value are in two orders under a rule, and counted twice. Merged
  orders are not checked for feasibility (todo at `pdm_order_pool.cpp:126`). The file of unassigned orders indexes values of a
  label by the index of the label (`visual_manager_unassigned_order.cpp:41`). Cargo orders without sub orders are counted and in no row; one
  at the default location is in no row of the stops. The loading rate divides by a capacity of zero
  (`visual_manager_load.cpp:43`).
* Readers. Any row of `CarrierLabelValue` throws (`scr_carrier.cpp:49` reads a cleared document). A negative number of vehicles is
  accepted and passes the test for zero. A second row of a carrier and model hides the first from
  `LocationAvailableVehicle`.
* Charges. The limit on pairs counts repetitions (`bdm_charge_eval.cpp:212`, `docs/charge.md:82`); products are 64 bits wide where
  `docs/charge.md:139` promises 128.

## 6. Not modelled, and the plan

Not modelled: the text of cells (trimming, parsing of numbers and dates), missing files and YAML; the
writing of JSON; logging; vendored libraries and build scripts: input and output without
protocol. `push` and `pop` of the workspace have no caller in `src/`.

Abstracted, by module:

* `RuinRepair`, `AlnsLoop`: objective values are choices, weights of the roulette are left out since any
  combination may be drawn.
* `KnnConstruct`: the neighbour graph is any graph of ranks, not only those of `NeighbourGraph`.
* `LoadInsertion`: one dimension, one horizon for time windows and one distance tier per vehicle type; one
  load, with any set of free vehicle types.
* `RouteTimes`: the SPMD pattern only, where the check of loading order (`FILO`, `FIFO`) can never fail.
* `ChargeEvaluator`: numbers instead of decimal text; one thread, since no buffer is shared.
* `SolverRun`: distances, travel and work times are zero and there are no calendars; `knn` and `alns` appear by the loads
  they may leave; reasons common to all vehicles are repeated for each; costs and the load and unload
  policy cannot make a load infeasible here. The case directory does not change between calls.

Next, in this order:

1. Compositions: a move of `AlnsLoop` as a move of `RuinRepair`; `Knn` and `Alns` of `SolverRun` as calls of
   `KnnConstruct` and `AlnsLoop`.
2. The counts of labels and the load and unload policy among the constraints, and patterns other than SPMD once
   the solver creates them.
