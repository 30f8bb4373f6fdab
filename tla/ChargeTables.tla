---------------------------- MODULE ChargeTables ----------------------------
(***************************************************************************)
(* The four charge tables of a scenario: what ChargeCsvReader accepts of   *)
(* them and the manager it makes, indexes included.                        *)
(*                                                                         *)
(* Cells are codes, NoCode when empty; a decimal cell is in tenths.  An    *)
(* index of the program that only stands for a unique code is the code;    *)
(* the positions of secondaries and label slots are kept, as the scratch   *)
(* of the evaluator is indexed by them.                                    *)
(***************************************************************************)
EXTENDS Integers, Sequences, FiniteSets, SequencesExt

CONSTANTS
  Dimensions,    \* the precision of each dimension code
  Labels,        \* the values of each location label code
  LocLabels,     \* the values a location has of each label
  Carriers, Models,
  Vehicles,      \* the carrier and the model of each vehicle
  MeterPerKm, MoneyScale,
  MaxPrice,      \* 1e9
  Wide           \* 2^63: integers lie in -Wide .. Wide - 1

NoCode == ""

NoBound == -1

Infinity == Wide - 1

Wrapped(x) == ((x + Wide) % (2 * Wide)) - Wide

\* Division of the language: towards 0.
Quotient(n, d) == IF n >= 0 THEN n \div d ELSE -((-n) \div d)

DivRound(n, d) == Quotient(Wrapped(n + d \div 2), d)

\* llround of a decimal cell times a scale.
Scaled(cell, scale) == (cell * scale + 5) \div 10

DimScale(dim) == 10 ^ Dimensions[dim]

Distinct(s) == \A j, k \in DOMAIN s : s[j] = s[k] => j = k

----------------------------------------------------------------------------
(* Rows *)

CodesAccepted(t) == NoCode \notin Range(t.codes) /\ Distinct(t.codes)

PathAccepted(r) ==
  \/ r.path = NoCode /\ r.label = NoCode /\ r.values = <<>>
  \/ /\ r.path \in {"OD_PAIR", "ORDERED_ROUTE"}
     /\ r.label \in DOMAIN Labels
     /\ r.values # <<>> /\ Range(r.values) \subseteq Labels[r.label]
     /\ r.path = "OD_PAIR" => Len(r.values) = 2

Conditions == {NoCode, "DISTANCE", "PICK_NODE_COUNT", "DROP_NODE_COUNT", "DIMENSION"}

ConditionAccepted(r) ==
  /\ r.condition \in Conditions
  /\ IF r.condition = "DIMENSION" THEN r.dim \in DOMAIN Dimensions ELSE r.dim = NoCode

MatchKey(r) == [r EXCEPT !.rule = NoCode]

RulesAccepted(t) ==
  /\ \A r \in Range(t.rules) :
       /\ r.rule # NoCode /\ r.secondary # NoCode /\ r.code \in Range(t.codes)
       /\ r.carrier \in Carriers \cup {NoCode} /\ r.model \in Models \cup {NoCode}
       /\ PathAccepted(r) /\ ConditionAccepted(r)
  /\ Distinct([k \in DOMAIN t.rules |-> t.rules[k].rule])
  /\ Distinct([k \in DOMAIN t.rules |-> MatchKey(t.rules[k])])

BoundScale(r) ==
  CASE r.condition = "DISTANCE" -> MeterPerKm
    [] r.condition = "DIMENSION" -> DimScale(r.dim)
    [] OTHER -> 1

\* Without a condition the bounds are not read; a count has no decimals.
BoundAccepted(r, cell) ==
  \/ r.condition = NoCode \/ cell = NoBound
  \/ cell >= 0 /\ (r.condition \in {"PICK_NODE_COUNT", "DROP_NODE_COUNT"} => cell % 10 = 0)

Bound(r, cell, default) ==
  IF r.condition = NoCode \/ cell = NoBound THEN default ELSE Scaled(cell, BoundScale(r))

ItemsOf(t, r, seq) == SelectSeq(t.items, LAMBDA row : row.rule = r.rule /\ row.seq = seq)

TierOf(t, r, row) ==
  [lower |-> Bound(r, row.lower, 0), upper |-> Bound(r, row.upper, Infinity),
   items |-> [k \in DOMAIN ItemsOf(t, r, row.seq) |->
                LET item == ItemsOf(t, r, row.seq)[k]
                IN  [type |-> item.type, dim |-> item.dim,
                     price |-> Scaled(item.price, MoneyScale)]]]

\* What comes up to i when s is sorted by of.
UpTo(s, of, i) == {j \in s : of[j] < of[i] \/ (of[j] = of[i] /\ j <= i)}

\* The tiers of a rule, sorted by their lower bounds: no two of a rule that is read have
\* the same.
TiersOf(t, r) ==
  LET rows == {i \in DOMAIN t.tiers : t.tiers[i].rule = r.rule}
      lower == [i \in rows |-> Bound(r, t.tiers[i].lower, 0)]
  IN  [k \in 1 .. Cardinality(rows) |->
         TierOf(t, r, t.tiers[CHOOSE i \in rows : Cardinality(UpTo(rows, lower, i)) = k])]

\* (mutant) Neighbours that overlap by less than the first's length are let through.
NeighboursApartStarts(tiers) ==
  \A k \in 2 .. Len(tiers) : tiers[k - 1].lower < tiers[k].lower

NeighboursApart(tiers) == \A k \in 2 .. Len(tiers) : tiers[k - 1].upper <= tiers[k].lower

TiersAccepted(t) ==
  /\ \A row \in Range(t.tiers) : row.seq > 0 /\
       \E r \in Range(t.rules) :
         /\ r.rule = row.rule
         /\ BoundAccepted(r, row.lower) /\ BoundAccepted(r, row.upper)
         /\ Bound(r, row.lower, 0) < Bound(r, row.upper, Infinity)
  /\ Distinct([k \in DOMAIN t.tiers |-> <<t.tiers[k].rule, t.tiers[k].seq>>])
  /\ \A r \in Range(t.rules) :
       /\ TiersOf(t, r) # <<>>
       /\ IF r.condition = NoCode THEN Len(TiersOf(t, r)) = 1
          ELSE NeighboursApart(TiersOf(t, r))

Dimensional == {"DIMENSION", "DIMENSION_DISTANCE"}

ItemTypes == {"FLAT", "DISTANCE", "PICK_STOP", "DROP_STOP"} \cup Dimensional

ItemsAccepted(t) ==
  /\ \A item \in Range(t.items) :
       /\ \E row \in Range(t.tiers) : row.rule = item.rule /\ row.seq = item.seq
       /\ item.type \in ItemTypes
       /\ 0 <= item.price /\ item.price <= 10 * MaxPrice
       /\ IF item.type \in Dimensional THEN item.dim \in DOMAIN Dimensions
          ELSE item.dim = NoCode
  /\ \A r \in Range(t.rules) : \A tier \in Range(TiersOf(t, r)) : tier.items # <<>>

----------------------------------------------------------------------------
(* The manager *)

\* Each value once, where it first appears.
FirstSeen(s) == FoldLeft(LAMBDA seen, x : IF x \in Range(seen) THEN seen ELSE Append(seen, x),
                         <<>>, s)

IndexOf(s, x) == CHOOSE k \in DOMAIN s : s[k] = x

Secondary(r) == <<r.code, r.secondary>>

Secondaries(t) == FirstSeen([k \in DOMAIN t.rules |-> Secondary(t.rules[k])])

\* The labels of the rules that have a path: one slot each.
SlotLabels(t) ==
  LET paths == SelectSeq(t.rules, LAMBDA r : r.path # NoCode)
  IN  FirstSeen([k \in DOMAIN paths |-> paths[k].label])

SlotOf(t, r) == IF r.path = NoCode THEN 0 ELSE IndexOf(SlotLabels(t), r.label)

OdRules(t) == {r \in Range(t.rules) : r.path = "OD_PAIR"}

IndexesAccepted(t) ==
  /\ \A dim \in DOMAIN Dimensions : Dimensions[dim] \in 0 .. 9
  /\ \A r, q \in OdRules(t) : Secondary(r) = Secondary(q) => r.label = q.label

Accepted(t) ==
  t.present => /\ CodesAccepted(t) /\ RulesAccepted(t)
               /\ t.rules # <<>> => TiersAccepted(t) /\ ItemsAccepted(t) /\ IndexesAccepted(t)

Rule(t, r) ==
  [sec |-> IndexOf(Secondaries(t), Secondary(r)), path |-> r.path, slot |-> SlotOf(t, r),
   values |-> r.values, condition |-> r.condition, dim |-> r.dim, tiers |-> TiersOf(t, r)]

\* The slot of a secondary's OD rules, 0 when it has none.
OdSlot(t, secondary) ==
  LET slots == {SlotOf(t, r) : r \in {q \in OdRules(t) : Secondary(q) = secondary}}
  IN  IF slots = {} THEN 0 ELSE CHOOSE slot \in slots : TRUE

Generic(r) == r.carrier = NoCode /\ r.model = NoCode

Suits(r, vehicle) == /\ r.carrier \in {NoCode, vehicle.carrier}
                     /\ r.model \in {NoCode, vehicle.model}

RuleInds(t, Test(_)) == SelectSeq([k \in DOMAIN t.rules |-> k], LAMBDA k : Test(t.rules[k]))

Disabled == [enabled |-> FALSE]

Manager(t) ==
  IF ~ t.present \/ t.rules = <<>> THEN Disabled
  ELSE [enabled |-> TRUE,
        code_count |-> Len(t.codes),
        slot_labels |-> SlotLabels(t),
        rules |-> [k \in DOMAIN t.rules |-> Rule(t, t.rules[k])],
        secondary_code |-> [s \in DOMAIN Secondaries(t) |->
                              IndexOf(t.codes, Secondaries(t)[s][1])],
        secondary_od_slot |-> [s \in DOMAIN Secondaries(t) |-> OdSlot(t, Secondaries(t)[s])],
        generic |-> RuleInds(t, Generic),
        of_vehicle |-> [v \in DOMAIN Vehicles |->
                          RuleInds(t, LAMBDA r : ~ Generic(r) /\ Suits(r, Vehicles[v]))]]
=============================================================================
