--------------------------- MODULE ScenarioTables ---------------------------
(***************************************************************************)
(* What StandardCsvReader and load_parameter accept of a case directory,   *)
(* and the fleet and cargo orders the solver works on (scr_*.cpp,          *)
(* pdm_parameter.cpp).  The charge tables are those of ChargeTables and    *)
(* the calendars those of Calendars.                                       *)
(*                                                                         *)
(* A case is a record with one sequence of rows per file.  Codes, labels   *)
(* and values are model values; names, coordinates and the text of a cell  *)
(* are left out, and a number is given in tenths.  Reading stops at the    *)
(* first row it refuses, so what counts is whether there is one.           *)
(***************************************************************************)
EXTENDS Integers, Sequences, FiniteSets

CONSTANTS
  Default,     \* the code of the default location
  NoCode,      \* an empty cell
  MaxDistance, \* DistMatrixParameter::MAX_DISTANCE
  MaxTime      \* DistMatrixParameter::MAX_TIME

Rows(table) == {table[k] : k \in DOMAIN table}
Codes(table) == {row.code : row \in Rows(table)}
Distinct(table) == \A i, j \in DOMAIN table : table[i].code = table[j].code => i = j

\* check_column_exist: the columns of a file, of those the model keeps.
OrderColumns ==
  [cargo     |-> {"code", "pick", "drop", "pickWindow", "dropWindow"},
   subs      |-> {"cargo", "code"},
   subDims   |-> {"cargo", "sub", "dim", "value"},
   subLabels |-> {"cargo", "sub", "label", "value"}]

CarrierColumns ==
  [carriers  |-> {"code"},
   carrierLabels |-> {"carrier", "label", "value"},
   dims      |-> {"code", "precision"},
   matrices  |-> {"code"},
   distances |-> {"from", "to", "code", "dist", "time"}]

LabelColumns ==
  [labels |-> {"code"}, applies |-> {"label", "item"}, values |-> {"label", "value"}]

LocationColumns ==
  [locations |-> {"code"},
   available |-> {"location", "carrier", "model"},
   locationLabels |-> {"location", "label", "value"}]

VehicleColumns ==
  [vehicles    |-> {"carrier", "model", "count", "origin", "destination"},
   models      |-> {"code", "matrix"},
   modelDims   |-> {"model", "dim", "value"},
   modelLabels |-> {"model", "label", "value"}]

HasColumns(c, columns) ==
  \A file \in DOMAIN columns : \A row \in Rows(c[file]) : columns[file] \subseteq DOMAIN row

ColumnsPresent(c) ==
  /\ HasColumns(c, OrderColumns) /\ HasColumns(c, CarrierColumns) /\ HasColumns(c, LabelColumns)
  /\ HasColumns(c, LocationColumns) /\ HasColumns(c, VehicleColumns)

----------------------------------------------------------------------------
(* Dimensions and labels *)

MaxPrecision == 4

DimensionsAccepted(c) ==
  Distinct(c.dims) /\ \A row \in Rows(c.dims) : row.precision \in 0 .. MaxPrecision

\* scale_to_long: what the precision of the dimension cannot hold is cut off.
ScaleToLong(tenths, precision) == (tenths * 10 ^ precision) \div 10

Items == {"Location", "VehicleModel", "Order", "Carrier"}

NoRowTwice(table) == \A i, j \in DOMAIN table : table[i] = table[j] => i = j

\* A value is given once for a label, and a label is applied once to an item.
ValuesAccepted(c) ==
  NoRowTwice(c.values) /\ \A row \in Rows(c.values) : row.label \in Codes(c.labels)

AppliesAccepted(c) ==
  /\ NoRowTwice(c.applies)
  /\ \A row \in Rows(c.applies) : row.label \in Codes(c.labels) /\ row.item \in Items

LabelsAccepted(c) == Distinct(c.labels) /\ ValuesAccepted(c) /\ AppliesAccepted(c)

\* The labelset of an item.
Labelset(c, item) == {row.label : row \in {r \in Rows(c.applies) : r.item = item}}

\* One row of the *LabelValue.csv of an item.
LabelRowAccepted(c, item, row) ==
  /\ [label |-> row.label, value |-> row.value] \in Rows(c.values)
  /\ row.label \in Labelset(c, item)

\* The values an object has of a label.
ValuesIn(table, label) == {row.value : row \in {r \in Rows(table) : r.label = label}}

----------------------------------------------------------------------------
(* Locations, distances, vehicles *)

Locations(c) == {Default} \cup Codes(c.locations)

\* The default location is there before the first row.
LocationsAccepted(c) == Distinct(c.locations) /\ Default \notin Codes(c.locations)

LocationLabelsAccepted(c) ==
  \A row \in Rows(c.locationLabels) :
    row.location \in Locations(c) /\ LabelRowAccepted(c, "Location", row)

MatrixAccepted(c) ==
  /\ Distinct(c.matrices)
  /\ \A row \in Rows(c.distances) :
       /\ {row.from, row.to} \subseteq Locations(c) /\ row.code \in Codes(c.matrices)
       /\ row.dist \in 0 .. MaxDistance /\ row.time \in 0 .. MaxTime

ModelsAccepted(c) ==
  /\ Distinct(c.models)
  /\ \A row \in Rows(c.models) : row.matrix \in Codes(c.matrices)

ModelDimsAccepted(c) ==
  \A row \in Rows(c.modelDims) : row.model \in Codes(c.models) /\ row.dim \in Codes(c.dims)

ModelLabelsAccepted(c) ==
  \A row \in Rows(c.modelLabels) :
    row.model \in Codes(c.models) /\ LabelRowAccepted(c, "VehicleModel", row)

\* The label rows are looked up in the document of Carrier.csv, which is empty
\* by then: a first row ends the reading.
CarriersAccepted(c) == Distinct(c.carriers) /\ c.carrierLabels = <<>>

\* No carrier has a second vehicle of a model refused: its later row wins.
VehiclesAccepted(c) ==
  \A row \in Rows(c.vehicles) :
    /\ row.carrier \in Codes(c.carriers) /\ row.model \in Codes(c.models)
    /\ {row.origin, row.destination} \subseteq Locations(c) \cup {NoCode}

\* Dimension values: zero, or what the last row for the dimension says.
DimVals(c, rows) ==
  [d \in DOMAIN c.dims |->
     LET mine == {k \in DOMAIN rows : rows[k].dim = c.dims[d].code}
         last == CHOOSE k \in mine : \A j \in mine : j <= k
     IN  IF mine = {} THEN 0 ELSE ScaleToLong(rows[last].value, c.dims[d].precision)]

OfModel(c, model) == SelectSeq(c.modelDims, LAMBDA row : row.model = model)

\* CarrierManager::vehicles: a vehicle is a carrier's stock of a model.
Vehicles(c) ==
  [k \in DOMAIN c.vehicles |->
     [carrier  |-> c.vehicles[k].carrier,
      model    |-> c.vehicles[k].model,
      count    |-> c.vehicles[k].count,
      capacity |-> DimVals(c, OfModel(c, c.vehicles[k].model))]]

\* Carrier::get_vehicle by model, as indices: the one that was created last.
VehicleOf(c, row) ==
  LET mine == {k \in DOMAIN c.vehicles : /\ c.vehicles[k].carrier = row.carrier
                                         /\ c.vehicles[k].model = row.model}
  IN  {k \in mine : \A j \in mine : j <= k}

AvailableAccepted(c) ==
  /\ \A row \in Rows(c.available) : row.location \in Locations(c) /\ VehicleOf(c, row) # {}
  /\ \A i, j \in DOMAIN c.available :
       /\ c.available[i].location = c.available[j].location
       /\ VehicleOf(c, c.available[i]) = VehicleOf(c, c.available[j])
       => i = j

\* A location no row names may be served by every vehicle.
AvailableAt(c, location) ==
  LET mine == {row \in Rows(c.available) : row.location = location}
  IN  IF mine = {} THEN DOMAIN c.vehicles ELSE UNION {VehicleOf(c, row) : row \in mine}

----------------------------------------------------------------------------
(* Cargo orders *)

SubKeys(c) == {[cargo |-> row.cargo, code |-> row.code] : row \in Rows(c.subs)}
IsSub(c, row) == [cargo |-> row.cargo, code |-> row.sub] \in SubKeys(c)

\* Pick and drop windows are not empty and the pick window opens first; a
\* cargo order may have no sub order.
CargoAccepted(c) ==
  /\ Distinct(c.cargo)
  /\ \A row \in Rows(c.cargo) :
       /\ {row.pick, row.drop} \subseteq Locations(c)
       /\ row.pickWindow.early <= row.pickWindow.late
       /\ row.dropWindow.early <= row.dropWindow.late
       /\ row.pickWindow.early <= row.dropWindow.early

SubsAccepted(c) ==
  /\ \A row \in Rows(c.subs) : row.cargo \in Codes(c.cargo)
  /\ \A i, j \in DOMAIN c.subs :
       c.subs[i].cargo = c.subs[j].cargo /\ c.subs[i].code = c.subs[j].code => i = j

SubDimsAccepted(c) ==
  \A row \in Rows(c.subDims) : IsSub(c, row) /\ row.dim \in Codes(c.dims)

SubLabelsAccepted(c) ==
  \A row \in Rows(c.subLabels) : IsSub(c, row) /\ LabelRowAccepted(c, "Order", row)

SubDims(c, sub) ==
  DimVals(c, SelectSeq(c.subDims, LAMBDA row : row.cargo = sub.cargo /\ row.sub = sub.code))

SubValues(c, cargo, label) ==
  ValuesIn(SelectSeq(c.subLabels, LAMBDA row : row.cargo = cargo), label)

ScenarioAccepted(c) ==
  /\ ColumnsPresent(c)
  /\ DimensionsAccepted(c) /\ LabelsAccepted(c)
  /\ LocationsAccepted(c) /\ LocationLabelsAccepted(c) /\ MatrixAccepted(c)
  /\ ModelsAccepted(c) /\ ModelDimsAccepted(c) /\ ModelLabelsAccepted(c)
  /\ CarriersAccepted(c) /\ VehiclesAccepted(c) /\ AvailableAccepted(c)
  /\ CargoAccepted(c) /\ SubsAccepted(c) /\ SubDimsAccepted(c) /\ SubLabelsAccepted(c)

----------------------------------------------------------------------------
(* Parameter.yaml *)

NoRule == <<>>

\* CargoOrderGroupRule::set_rule: an order label, and groups of its values in
\* which no value comes twice; a group may be empty.
RuleAccepted(c, rule) ==
  /\ rule.label \in Labelset(c, "Order")
  /\ \A u \in DOMAIN rule.groups : \A k \in DOMAIN rule.groups[u] :
       [label |-> rule.label, value |-> rule.groups[u][k]] \in Rows(c.values)
  /\ \A u, w \in DOMAIN rule.groups :
       \A k \in DOMAIN rule.groups[u], l \in DOMAIN rule.groups[w] :
         rule.groups[u][k] = rule.groups[w][l] => u = w /\ k = l

\* The fields a document leaves out keep their defaults.
ParameterAccepted(c) ==
  /\ c.pattern = "SPMD"
  /\ c.policy \in {"FILO", "FIFO", "NONE"}
  /\ c.rule # NoRule => RuleAccepted(c, c.rule)
=============================================================================
