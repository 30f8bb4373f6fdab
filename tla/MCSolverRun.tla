---------------------------- MODULE MCSolverRun ----------------------------
(***************************************************************************)
(* Case directories small enough to run a Solver on: a depot, two shops,   *)
(* two carriers with a vehicle each, up to four cargo orders.              *)
(***************************************************************************)
EXTENDS SolverRun

\* The label "goods" of orders has the values a, b, c (indices 1, 2, 3).
Value(v) == [label |-> "goods", value |-> v]

Cargo(code, drop, early, late) ==
  [code |-> code, pick |-> "depot", drop |-> drop,
   pickWindow |-> Window(early, late), dropWindow |-> Window(early + 1, 8)]

Sub(code) == [cargo |-> code, code |-> "s"]
Goods(code, value) == [cargo |-> code, sub |-> "s", label |-> "goods", value |-> value]
Weight(code, tenths) == [cargo |-> code, sub |-> "s", dim |-> "kg", value |-> tenths]
Vehicle(carrier, model, count) ==
  [carrier |-> carrier, model |-> model, count |-> count, origin |-> "depot", destination |-> NoCode]

Base ==
  [dims |-> <<[code |-> "kg", precision |-> 0]>>,
   labels |-> <<[code |-> "zone"], [code |-> "goods"]>>,
   values |-> <<[label |-> "zone", value |-> "z"], Value("a"), Value("b"), Value("c")>>,
   applies |-> <<[label |-> "zone", item |-> "Location"], [label |-> "goods", item |-> "Order"]>>,
   locations |-> <<[code |-> "depot"], [code |-> "A"], [code |-> "B"]>>,
   locationLabels |-> <<[location |-> "A", label |-> "zone", value |-> "z"]>>,
   matrices |-> <<[code |-> "road"]>>,
   distances |-> <<[from |-> "depot", to |-> "A", code |-> "road", dist |-> 0, time |-> 0]>>,
   models |-> <<[code |-> "van", matrix |-> "road"], [code |-> "truck", matrix |-> "road"]>>,
   modelDims |-> <<[model |-> "van", dim |-> "kg", value |-> 25],
                   [model |-> "truck", dim |-> "kg", value |-> 10],
                   [model |-> "truck", dim |-> "kg", value |-> 39]>>,
   modelLabels |-> <<>>,
   carriers |-> <<[code |-> "c1"], [code |-> "c2"]>>,
   carrierLabels |-> <<>>,
   vehicles |-> <<Vehicle("c1", "van", 1), Vehicle("c2", "truck", 1)>>,
   available |-> <<[location |-> "B", carrier |-> "c2", model |-> "truck"]>>,
   cargo |-> <<Cargo("o1", "A", 0, 5), Cargo("o2", "B", 2, 6), Cargo("o3", "A", 1, 7)>>,
   subs |-> <<Sub("o1"), Sub("o2"), Sub("o3")>>,
   subDims |-> <<Weight("o1", 10), Weight("o2", 19), Weight("o3", 10)>>,
   subLabels |-> <<>>,
   range |-> Window(0, 8), pattern |-> "SPMD", policy |-> "FILO", rule |-> <<>>,
   maxDropNodes |-> {}]

Rule(groups) == [label |-> "goods", groups |-> groups]

\* Two groups; o1 and o2 share one although they go to different shops, and o3
\* has no value.
ByGroup ==
  [Base EXCEPT !.rule = Rule(<<<<"a", "b">>, <<"c">>>>), !.available = <<>>,
               !.vehicles = <<Vehicle("c1", "van", 1)>>,
               !.subLabels = <<Goods("o1", "a"), Goods("o1", "b"), Goods("o2", "b")>>]

\* No groups: each set of values by itself.
ByValue ==
  [Base EXCEPT !.rule = Rule(<<>>), !.maxDropNodes = {1}, !.available = <<>>,
               !.vehicles = <<Vehicle("c1", "van", 1)>>,
               !.cargo = @ \o <<Cargo("o4", "A", 0, 8)>>, !.subs = @ \o <<Sub("o4")>>,
               !.subLabels = <<Goods("o1", "a"), Goods("o1", "c"), Goods("o2", "b"),
                               Goods("o3", "a"), Goods("o4", "a")>>]

\* All values in one group, met from both ends.
ByOneGroup ==
  [Base EXCEPT !.rule = Rule(<<<<"a", "b", "c">>>>),
               !.cargo = <<Cargo("o1", "A", 0, 5), Cargo("o2", "A", 2, 6)>>,
               !.subs = <<Sub("o1"), Sub("o2")>>, !.subDims = <<Weight("o1", 10)>>,
               !.available = <<>>, !.vehicles = <<Vehicle("c1", "van", 1)>>,
               !.subLabels = <<Goods("o1", "c"), Goods("o1", "a"), Goods("o2", "b")>>]

\* o2 is too heavy, or the only vehicle that may go to its shop has no stock, or
\* its window lies outside the plan range.
TooHeavy == [Base EXCEPT !.subDims = @ \o <<Weight("o2", 49)>>]
NoStock == [Base EXCEPT !.vehicles = <<Vehicle("c1", "van", 2), Vehicle("c2", "truck", 0)>>]
TooLate ==
  [Base EXCEPT !.cargo = <<[Cargo("o1", "A", 9, 9) EXCEPT !.dropWindow = Window(10, 12)]>>,
               !.subs = <<Sub("o1")>>, !.subDims = <<>>]

\* One case for each check of a reader.
Refusals ==
  {[Base EXCEPT !.dims = @ \o @],
   [Base EXCEPT !.dims[1].precision = 5],
   [Base EXCEPT !.labels = @ \o @],
   [Base EXCEPT !.values = @ \o @],
   [Base EXCEPT !.values = @ \o <<[label |-> "none", value |-> "a"]>>],
   [Base EXCEPT !.applies = @ \o @],
   [Base EXCEPT !.applies[1].item = "Fleet"],
   [Base EXCEPT !.locations = @ \o <<[code |-> Default]>>],
   [Base EXCEPT !.locationLabels[1].label = "goods"],
   [Base EXCEPT !.distances[1].dist = -1],
   [Base EXCEPT !.distances[1].to = "nowhere"],
   [Base EXCEPT !.models[1].matrix = "rail"],
   [Base EXCEPT !.modelDims[1].model = "ship"],
   [Base EXCEPT !.modelLabels = <<[model |-> "van", label |-> "goods", value |-> "a"]>>],
   [Base EXCEPT !.carrierLabels = <<[carrier |-> "c1", label |-> "zone", value |-> "z"]>>],
   [Base EXCEPT !.vehicles[1].origin = "nowhere"],
   [Base EXCEPT !.available = @ \o @],
   [Base EXCEPT !.cargo[1].pickWindow.early = 6],
   [Base EXCEPT !.cargo[1].dropWindow.early = -1],
   [Base EXCEPT !.subs = @ \o @],
   [Base EXCEPT !.subDims[1].sub = "t"],
   [Base EXCEPT !.subLabels = <<[cargo |-> "o1", sub |-> "s", label |-> "zone", value |-> "z"]>>],
   [Base EXCEPT !.rule = [label |-> "zone", groups |-> <<>>]],
   [Base EXCEPT !.rule = Rule(<<<<"a">>, <<"a">>>>)],
   [Base EXCEPT !.carriers = <<[name |-> "c1"]>>],
   [Base EXCEPT !.pattern = "MPMD"]}

MCCases == {Base, ByGroup, ByValue, ByOneGroup, TooHeavy, NoStock, TooLate} \cup Refusals

MCReadings ==
  UNION {ReadingsOf(c) : c \in {d \in MCCases : T!ScenarioAccepted(d) /\ T!ParameterAccepted(d)}}
=============================================================================
