------------------------------ MODULE MCCharge ------------------------------
(***************************************************************************)
(* Two carriers' contracts, a scenario without rules and two that are not  *)
(* read, priced for six loads on one thread.  Four locations carry zero to *)
(* two cities; a day of the process is a sequence of scenarios and calls.  *)
(***************************************************************************)
EXTENDS ChargeEvaluator

MCDimensions == [kg |-> 1]
MCLabels == [city |-> {"SH", "SZ", "WX"}, zone |-> {"east"}]
MCLocLabels == [A |-> [city |-> {"SH"}, zone |-> {"east"}],
                B |-> [city |-> {"SZ"}, zone |-> {"east"}],
                C |-> [city |-> {"SZ", "WX"}, zone |-> {"east"}],
                D |-> [city |-> {}, zone |-> {"east"}]]
MCVehicles == <<[carrier |-> "c1", model |-> "m1"], [carrier |-> "c1", model |-> "m2"]>>

RuleRow(rule, code, secondary, model, condition) ==
  [rule |-> rule, code |-> code, secondary |-> secondary, carrier |-> NoCode,
   model |-> model, path |-> NoCode, label |-> NoCode, values |-> <<>>,
   condition |-> condition, dim |-> IF condition = "DIMENSION" THEN "kg" ELSE NoCode]

OnPath(row, path, values) ==
  [row EXCEPT !.path = path, !.label = "city", !.values = values]

Tier(rule, seq, lower, upper) == [rule |-> rule, seq |-> seq, lower |-> lower, upper |-> upper]

Item(rule, seq, type, price) ==
  [rule |-> rule, seq |-> seq, type |-> type,
   dim |-> IF type \in Dimensional THEN "kg" ELSE NoCode, price |-> price]

Contracts ==
  [present |-> TRUE, codes |-> <<"x", "y">>,
   rules |-> <<OnPath(RuleRow("od1", "x", "s1", NoCode, NoCode), "OD_PAIR", <<"SH", "SZ">>),
               OnPath(RuleRow("od2", "x", "s1", "m1", "DISTANCE"), "OD_PAIR", <<"SH", "WX">>),
               RuleRow("stops", "x", "s1", NoCode, "DROP_NODE_COUNT"),
               RuleRow("mass", "x", "s2", "m2", "DIMENSION"),
               OnPath(RuleRow("tour", "y", "s1", NoCode, "PICK_NODE_COUNT"),
                      "ORDERED_ROUTE", <<"SH", "SZ">>)>>,
   tiers |-> <<Tier("od1", 1, NoBound, NoBound), Tier("od2", 2, 20, NoBound),
               Tier("od2", 1, NoBound, 20), Tier("stops", 1, 20, NoBound),
               Tier("mass", 1, 10, 30), Tier("tour", 1, 10, 20)>>,
   items |-> <<Item("od1", 1, "FLAT", 20), Item("od2", 1, "DISTANCE", 15),
               Item("od2", 2, "DIMENSION_DISTANCE", 4), Item("stops", 1, "DROP_STOP", 5),
               Item("mass", 1, "DIMENSION", 13), Item("mass", 1, "FLAT", 3),
               Item("tour", 1, "PICK_STOP", 7), Item("tour", 1, "DISTANCE", 11)>>]

OneClause ==
  [present |-> TRUE, codes |-> <<"x">>,
   rules |-> <<RuleRow("km", "x", "s2", "m1", "DISTANCE")>>,
   tiers |-> <<Tier("km", 1, NoBound, 10), Tier("km", 2, 20, NoBound)>>,
   items |-> <<Item("km", 1, "FLAT", 9), Item("km", 2, "DISTANCE", 6)>>]

NoRules == [present |-> TRUE, codes |-> <<>>, rules |-> <<>>, tiers |-> <<>>, items |-> <<>>]

MCTables ==
  {Contracts, OneClause, NoRules,
   [OneClause EXCEPT !.tiers = <<Tier("km", 1, NoBound, 30), Tier("km", 2, 20, NoBound)>>],
   [Contracts EXCEPT !.rules[2].label = "zone", !.rules[2].values = <<"east", "east">>]}

Order(pick, drop) == [pick |-> pick, drop |-> drop]

Node(loc, activity) == [loc |-> loc, activity |-> activity]

LoadOf(vehicle, orders, distance, drops) ==
  [vehicle |-> vehicle, orders |-> orders,
   nodes |-> <<Node("A", "PICK")>> \o [k \in DOMAIN orders |-> Node(orders[k].drop, "DROP")],
   distance |-> distance, picks |-> 1, drops |-> drops, dims |-> [kg |-> 7 * Len(orders)]]

MCLoads ==
  {LoadOf(1, <<Order("A", "B"), Order("A", "C")>>, 17, 2),
   LoadOf(2, <<Order("A", "B"), Order("A", "C")>>, 17, 2),
   LoadOf(1, <<Order("A", "C"), Order("A", "C"), Order("A", "B")>>, 20, 2),
   LoadOf(2, <<Order("A", "B"), Order("A", "B")>>, 9, 1),
   LoadOf(1, <<Order("A", "B"), Order("A", "C"), Order("A", "B")>>, 31, 3),
   LoadOf(1, <<Order("A", "D")>>, 15, 1),
   [LoadOf(1, <<>>, 0, 0) EXCEPT !.nodes = <<>>, !.picks = 0]}
=============================================================================
