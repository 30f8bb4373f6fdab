-------------------------- MODULE ChargeEvaluator --------------------------
(***************************************************************************)
(* CcCharge::eval and the ChargeEvaluator behind it, on one thread of the  *)
(* process.                                                                *)
(*                                                                         *)
(* The buffers of an evaluation belong to the thread (tls_ in the code,    *)
(* here without the prefix): they only grow, they are never cleared as a   *)
(* whole, and they outlive the scenario, so a sum counts only while its    *)
(* stamp is the number of the evaluation under way.  The program may read  *)
(* the charge tables of another scenario between two evaluations.          *)
(***************************************************************************)
EXTENDS ChargeTables, FiniteSetsExt

CONSTANTS
  Tables,       \* what the files of a scenario may hold
  Loads,        \* the loads that are priced
  MaxOdPairs,   \* MAX_OD_PAIRS, 4096
  MaxEpoch      \* 2^32 - 1, the largest number an evaluation has

ASSUME EpochAssumption == MaxEpoch \in Nat \ {0}

\* Files are rows in turn, and the cells of a bound are decimals.
ASSUME CellsAssumption ==
  /\ MeterPerKm \in Int /\ Wide \in Int
  /\ \A t \in Tables : t.present =>
       /\ DOMAIN t.rules = 1 .. Len(t.rules) /\ DOMAIN t.tiers = 1 .. Len(t.tiers)
       /\ Len(t.tiers) \in Nat
       /\ \A k \in DOMAIN t.tiers : t.tiers[k].lower \in Int /\ t.tiers[k].upper \in Int

VARIABLES
  pc, tables, manager, view, result,
  todo,                    \* the rules still to evaluate
  path_seqs, od_pairs, od_slot_valid,
  secondary_covered, secondary_pair_sums, secondary_other_sums, secondary_epoch,
  charge_code_max, charge_code_epoch,
  touched_secondaries, touched_charge_codes,
  epoch

given == <<tables, manager, view>>
paths == <<path_seqs, od_pairs, od_slot_valid>>
pairSums == <<secondary_covered, secondary_pair_sums>>
secondaryStamps == <<secondary_other_sums, secondary_epoch, touched_secondaries>>
codeStamps == <<charge_code_max, charge_code_epoch, touched_charge_codes>>
sums == <<pairSums, secondaryStamps, codeStamps, epoch>>
vars == <<pc, given, result, todo, paths, sums>>

NoResult == [matched |-> FALSE, amount |-> -1]
Unpriced == [matched |-> FALSE, amount |-> 0]
Free == [matched |-> TRUE, amount |-> 0]

Init ==
  /\ pc = "idle" /\ tables = [present |-> FALSE] /\ manager = Disabled
  /\ view = CHOOSE l \in Loads : TRUE
  /\ result = NoResult /\ todo = <<>>
  /\ path_seqs = <<>> /\ od_pairs = <<>> /\ od_slot_valid = <<>>
  /\ secondary_covered = <<>> /\ secondary_pair_sums = <<>>
  /\ secondary_other_sums = <<>> /\ secondary_epoch = <<>> /\ touched_secondaries = <<>>
  /\ charge_code_max = <<>> /\ charge_code_epoch = <<>> /\ touched_charge_codes = <<>>
  /\ epoch = 0

----------------------------------------------------------------------------
(* What the view of a load shows *)

\* The elements of s that differ from the one before.
NoRepeats(s) == FoldLeft(LAMBDA kept, x : IF kept # <<>> /\ Last(kept) = x THEN kept
                                          ELSE Append(kept, x), <<>>, s)

OrderLocs(l) == NoRepeats(l.orders)

Stops(l) == LET nodes == NoRepeats(l.nodes) IN [k \in DOMAIN nodes |-> nodes[k].loc]

Metric(l, condition, dim) ==
  CASE condition = "DISTANCE" -> l.distance
    [] condition = "PICK_NODE_COUNT" -> l.picks
    [] condition = "DROP_NODE_COUNT" -> l.drops
    [] condition = "DIMENSION" -> l.dims[dim]
    [] OTHER -> 0

ValuesOf(loc, slot) == LocLabels[loc][manager.slot_labels[slot]]

Slots(path) == {manager.rules[k].slot : k \in {i \in DOMAIN manager.rules :
                                                manager.rules[i].path = path}}

----------------------------------------------------------------------------
(* Scenario and call *)

\* Reading fails on tables that are not accepted, and the scenario with it.
LoadTables(t) ==
  /\ pc \in {"idle", "unread"}
  /\ tables' = t
  /\ pc' = IF Accepted(t) THEN "idle" ELSE "unread"
  /\ manager' = IF Accepted(t) THEN Manager(t) ELSE Disabled
  /\ result' = NoResult
  /\ UNCHANGED <<view, todo, paths, sums>>

Priced(l) == manager.enabled /\ l.orders # <<>>

EvalFree(l) ==
  /\ pc = "idle" /\ ~ Priced(l)
  /\ view' = l /\ result' = Free
  /\ UNCHANGED <<pc, tables, manager, todo, paths, sums>>

Eval(l) ==
  /\ pc = "idle" /\ Priced(l)
  /\ pc' = "pairs"
  /\ view' = l /\ result' = NoResult
  /\ todo' = manager.generic \o manager.of_vehicle[l.vehicle]
  /\ UNCHANGED <<tables, manager, paths, sums>>

----------------------------------------------------------------------------
(* Paths *)

PairsOf(slot, order) == ValuesOf(order.pick, slot) \X ValuesOf(order.drop, slot)

\* Every order has a pair, and all of them, repeats counted, are within the cap.
Enumerable(slot) ==
  LET orders == OrderLocs(view)
      count == [k \in DOMAIN orders |-> Cardinality(PairsOf(slot, orders[k]))]
  IN  0 \notin Range(count) /\ FoldLeft(LAMBDA a, b : a + b, 0, count) <= MaxOdPairs

OdPairs(slot) ==
  IF Enumerable(slot) THEN UNION {PairsOf(slot, order) : order \in Range(OrderLocs(view))}
  ELSE {}

\* The first n of s, and x where s is shorter.
Resized(s, n, x) == [k \in 1 .. n |-> IF k \in DOMAIN s THEN s[k] ELSE x]

SlotCount == Len(manager.slot_labels)

BuildOdPairs ==
  /\ pc = "pairs"
  /\ pc' = "seqs"
  /\ LET slots == Slots("OD_PAIR")
         old == Resized(od_pairs, SlotCount, {})
     IN  IF slots = {} THEN UNCHANGED <<od_pairs, od_slot_valid>>
         ELSE /\ od_pairs' = [slot \in 1 .. SlotCount |->
                                IF slot \in slots THEN OdPairs(slot) ELSE old[slot]]
              /\ od_slot_valid' = [slot \in 1 .. SlotCount |->
                                     slot \in slots /\ Enumerable(slot)]
  /\ UNCHANGED <<given, result, todo, path_seqs, sums>>

PathSeq(slot) == NoRepeats([k \in DOMAIN Stops(view) |-> ValuesOf(Stops(view)[k], slot)])

BuildOrderedSeqs ==
  /\ pc = "seqs"
  /\ pc' = "sums"
  /\ LET slots == Slots("ORDERED_ROUTE")
         old == Resized(path_seqs, SlotCount, <<>>)
     IN  path_seqs' = IF slots = {} THEN path_seqs
                      ELSE [slot \in 1 .. SlotCount |->
                              IF slot \in slots THEN PathSeq(slot) ELSE old[slot]]
  /\ UNCHANGED <<given, result, todo, od_pairs, od_slot_valid, sums>>

----------------------------------------------------------------------------
(* Sums *)

SecondaryCount == Len(manager.secondary_code)

Grown(s, n) == IF Len(s) < n THEN Resized(s, n, 0) ELSE s

Zeroed(s) == [k \in DOMAIN s |-> 0]

PairsOfSecondary(s) == od_pairs[manager.secondary_od_slot[s]]

HasOd(s) == manager.secondary_od_slot[s] # 0

\* (mutant) The number starts over and the stamps stay.
StartEpochKeepsStamps(secondaryEpochs, codeEpochs) ==
  /\ epoch' = IF epoch < MaxEpoch THEN epoch + 1 ELSE 1
  /\ secondary_epoch' = secondaryEpochs /\ charge_code_epoch' = codeEpochs

StartEpoch(secondaryEpochs, codeEpochs) ==
  IF epoch < MaxEpoch
  THEN /\ epoch' = epoch + 1
       /\ secondary_epoch' = secondaryEpochs /\ charge_code_epoch' = codeEpochs
  ELSE /\ epoch' = 1
       /\ secondary_epoch' = Zeroed(secondaryEpochs)
       /\ charge_code_epoch' = Zeroed(codeEpochs)

PrepareAggregation ==
  /\ pc = "sums"
  /\ pc' = "rules"
  /\ secondary_other_sums' = Grown(secondary_other_sums, SecondaryCount)
  /\ charge_code_max' = Grown(charge_code_max, manager.code_count)
  /\ StartEpoch(Grown(secondary_epoch, SecondaryCount),
                Grown(charge_code_epoch, manager.code_count))
  /\ touched_secondaries' = <<>> /\ touched_charge_codes' = <<>>
  /\ LET covered == Resized(secondary_covered, SecondaryCount, {})
         pair_sums == Resized(secondary_pair_sums, SecondaryCount, <<>>)
     IN  /\ secondary_covered' = [s \in 1 .. SecondaryCount |->
                                    IF HasOd(s) THEN {} ELSE covered[s]]
         /\ secondary_pair_sums' =
              [s \in 1 .. SecondaryCount |->
                 IF HasOd(s) THEN [pair \in PairsOfSecondary(s) |-> 0] ELSE pair_sums[s]]
  /\ UNCHANGED <<given, result, todo, paths>>

----------------------------------------------------------------------------
(* Rules *)

MatchPath(rule) ==
  CASE rule.path = "OD_PAIR" -> <<rule.values[1], rule.values[2]>> \in od_pairs[rule.slot]
    [] rule.path = "ORDERED_ROUTE" ->
         /\ Len(rule.values) = Len(path_seqs[rule.slot])
         /\ \A k \in DOMAIN rule.values : rule.values[k] \in path_seqs[rule.slot][k]
    [] OTHER -> TRUE

InTier(tier, metric) == tier.lower <= metric /\ metric < tier.upper

TiersMet(rule) == SelectSeq(rule.tiers, LAMBDA tier :
                              InTier(tier, Metric(view, rule.condition, rule.dim)))

Matches(rule) == MatchPath(rule) /\ TiersMet(rule) # <<>>

Extra(count) == IF count > 1 THEN count - 1 ELSE 0

ItemAmount(item) ==
  CASE item.type = "FLAT" -> item.price
    [] item.type = "DISTANCE" -> DivRound(Wrapped(item.price * view.distance), MeterPerKm)
    [] item.type = "PICK_STOP" -> Wrapped(item.price * Extra(view.picks))
    [] item.type = "DROP_STOP" -> Wrapped(item.price * Extra(view.drops))
    [] item.type = "DIMENSION" ->
         DivRound(Wrapped(item.price * view.dims[item.dim]), DimScale(item.dim))
    [] item.type = "DIMENSION_DISTANCE" ->
         DivRound(Wrapped(Wrapped(item.price * view.dims[item.dim]) * view.distance),
                  DimScale(item.dim) * MeterPerKm)

Amount(tier) ==
  LET amount == FoldLeft(LAMBDA sum, item : Wrapped(sum + ItemAmount(item)), 0, tier.items)
  IN  IF amount < 0 THEN 0 ELSE amount

\* The sum of secondary s outside the pairs, 0 until the evaluation touches it.
OtherSum(s) == IF secondary_epoch[s] = epoch THEN secondary_other_sums[s] ELSE 0

Touch(s) ==
  IF secondary_epoch[s] = epoch THEN UNCHANGED <<secondary_epoch, touched_secondaries>>
  ELSE /\ secondary_epoch' = [secondary_epoch EXCEPT ![s] = epoch]
       /\ touched_secondaries' = Append(touched_secondaries, s)

Accumulate(rule, amount) ==
  LET s == rule.sec
  IN  /\ Touch(s)
      /\ IF rule.path = "OD_PAIR"
         THEN LET pair == <<rule.values[1], rule.values[2]>>
              IN  /\ secondary_covered' = [secondary_covered EXCEPT ![s] = @ \cup {pair}]
                  /\ secondary_pair_sums' =
                       [secondary_pair_sums EXCEPT ![s][pair] = Wrapped(@ + amount)]
                  /\ secondary_other_sums' = [secondary_other_sums EXCEPT ![s] = OtherSum(s)]
         ELSE /\ secondary_other_sums' =
                   [secondary_other_sums EXCEPT ![s] = Wrapped(OtherSum(s) + amount)]
              /\ UNCHANGED pairSums

EvalRule ==
  /\ pc = "rules" /\ todo # <<>>
  /\ LET rule == manager.rules[Head(todo)]
     IN  IF Matches(rule) THEN Accumulate(rule, Amount(Head(TiersMet(rule))))
         ELSE UNCHANGED <<pairSums, secondaryStamps>>
  /\ todo' = Tail(todo)
  /\ UNCHANGED <<pc, given, result, paths, codeStamps, epoch>>

----------------------------------------------------------------------------
(* The result *)

\* (mutant) A pair without a price is left out instead of its secondary.
ChargeableAnyPair(s) == HasOd(s) => secondary_covered[s] # {}

Chargeable(s) ==
  HasOd(s) => /\ od_slot_valid[manager.secondary_od_slot[s]]
              /\ PairsOfSecondary(s) # {} /\ secondary_covered[s] = PairsOfSecondary(s)

SecondaryAmount(s) ==
  IF HasOd(s)
  THEN Wrapped(Max(Range(secondary_pair_sums[s])) + secondary_other_sums[s])
  ELSE secondary_other_sums[s]

\* The codes of the secondaries that can be charged, in the order they are met.
CodesMet(seconds) == FirstSeen([k \in DOMAIN seconds |-> manager.secondary_code[seconds[k]]])

Stamped(c) == charge_code_epoch[c] = epoch

CodeMax(c, seconds) ==
  Max({IF Stamped(c) THEN charge_code_max[c] ELSE 0} \cup
      {SecondaryAmount(s) : s \in {x \in Range(seconds) : manager.secondary_code[x] = c}})

Finalize ==
  /\ pc = "rules" /\ todo = <<>>
  /\ pc' = "idle"
  /\ LET seconds == SelectSeq(touched_secondaries, Chargeable)
         codes == CodesMet(seconds)
         fresh == SelectSeq(codes, LAMBDA c : ~ Stamped(c))
     IN  /\ touched_charge_codes' = fresh
         /\ charge_code_epoch' = [c \in DOMAIN charge_code_epoch |->
              IF c \in Range(codes) THEN epoch ELSE charge_code_epoch[c]]
         /\ charge_code_max' = [c \in DOMAIN charge_code_max |->
              IF c \in Range(codes) THEN CodeMax(c, seconds) ELSE charge_code_max[c]]
         /\ result' = IF fresh = <<>> THEN Unpriced
                      ELSE [matched |-> TRUE,
                            amount |-> Min({CodeMax(c, seconds) : c \in Range(fresh)})]
  /\ UNCHANGED <<given, todo, paths, pairSums, secondaryStamps, epoch>>

Next == \/ \E t \in Tables : LoadTables(t)
        \/ \E l \in Loads : EvalFree(l) \/ Eval(l)
        \/ BuildOdPairs \/ BuildOrderedSeqs \/ PrepareAggregation
        \/ EvalRule \/ Finalize

Spec == Init /\ [][Next]_vars

----------------------------------------------------------------------------
(* What a load costs by the rows of the tables *)

SuitedRows == {r \in Range(tables.rules) : Suits(r, Vehicles[view.vehicle])}

LoadPairs(label) ==
  UNION {LocLabels[o.pick][label] \X LocLabels[o.drop][label] : o \in Range(view.orders)}

Listed(label) ==
  LET pairs == [k \in DOMAIN OrderLocs(view) |->
                  Cardinality(LocLabels[OrderLocs(view)[k].pick][label]
                              \X LocLabels[OrderLocs(view)[k].drop][label])]
  IN  /\ \A k \in DOMAIN pairs : pairs[k] > 0
      /\ MapThenSumSet(LAMBDA k : pairs[k], DOMAIN pairs) <= MaxOdPairs

RunStarts(label) ==
  {k \in DOMAIN Stops(view) :
     k > 1 => LocLabels[Stops(view)[k]][label] # LocLabels[Stops(view)[k - 1]][label]}

PathMet(r) ==
  CASE r.path = "OD_PAIR" -> <<r.values[1], r.values[2]>> \in LoadPairs(r.label)
    [] r.path = "ORDERED_ROUTE" ->
         LET starts == RunStarts(r.label)
             rank(k) == Cardinality({j \in starts : j <= k})
         IN  /\ Cardinality(starts) = Len(r.values)
             /\ \A k \in starts : r.values[rank(k)] \in LocLabels[Stops(view)[k]][r.label]
    [] OTHER -> TRUE

RowMet(r, row) == /\ row.rule = r.rule
                  /\ Bound(r, row.lower, 0) <= Metric(view, r.condition, r.dim)
                  /\ Metric(view, r.condition, r.dim) < Bound(r, row.upper, Infinity)

Exact(item) ==
  LET price == Scaled(item.price, MoneyScale)
      rounded(n, d) == (n + d \div 2) \div d
  IN  CASE item.type = "FLAT" -> price
        [] item.type = "DISTANCE" -> rounded(price * view.distance, MeterPerKm)
        [] item.type = "PICK_STOP" -> price * Max({0, view.picks - 1})
        [] item.type = "DROP_STOP" -> price * Max({0, view.drops - 1})
        [] item.type = "DIMENSION" -> rounded(price * view.dims[item.dim], DimScale(item.dim))
        [] item.type = "DIMENSION_DISTANCE" ->
             rounded(price * view.dims[item.dim] * view.distance,
                     DimScale(item.dim) * MeterPerKm)

RuleMet(r) == PathMet(r) /\ \E row \in Range(tables.tiers) : RowMet(r, row)

RuleMoney(r) ==
  LET row == CHOOSE x \in Range(tables.tiers) : RowMet(r, x)
      items == ItemsOf(tables, r, row.seq)
  IN  MapThenSumSet(LAMBDA k : Exact(items[k]), DOMAIN items)

Money(rules) == MapThenSumSet(RuleMoney, rules)

MetRules(sec) == {r \in SuitedRows : Secondary(r) = sec /\ RuleMet(r)}

OdLabels(sec) == {r.label : r \in {q \in OdRules(tables) : Secondary(q) = sec}}

Quotes(sec, label) ==
  {{r \in MetRules(sec) : r.path = "OD_PAIR" /\ r.values = <<pair[1], pair[2]>>} :
     pair \in LoadPairs(label)}

Quoted(sec) == /\ MetRules(sec) # {}
               /\ \A label \in OdLabels(sec) : Listed(label) /\ {} \notin Quotes(sec, label)

SecondaryMoney(sec) ==
  Money({r \in MetRules(sec) : r.path # "OD_PAIR"})
  + Max({0} \cup UNION {{Money(quote) : quote \in Quotes(sec, label)} : label \in OdLabels(sec)})

Contract ==
  LET quoted == {sec \in Range(Secondaries(tables)) : Quoted(sec)}
      clause(code) == Max({SecondaryMoney(sec) : sec \in {x \in quoted : x[1] = code}})
  IN  IF quoted = {} THEN Unpriced
      ELSE [matched |-> TRUE, amount |-> Min({clause(sec[1]) : sec \in quoted})]

\* A load costs what its tables say (docs/charge.md 3.6): a secondary with origin and
\* destination rows counts only when every pair of the load has a price, and then with the
\* dearest pair; the dearest secondary is the clause; the cheapest clause is the cost; and a
\* load without a clause is refused.  So it is whatever this thread priced before, with
\* these tables or with another scenario's.
ChargedAsContract ==
  pc = "idle" /\ result # NoResult =>
    result = IF Priced(view) THEN Contract ELSE Free

\* While rules are evaluated, a sum is this evaluation's exactly when the secondary was
\* touched by it, and no clause has a value yet: stamps of earlier evaluations, of wider
\* tables or of before the number started over, are never taken for this one's.
StampsTellThisCall ==
  pc = "rules" =>
    /\ \A s \in DOMAIN secondary_epoch :
         secondary_epoch[s] = epoch <=> s \in Range(touched_secondaries)
    /\ \A c \in DOMAIN charge_code_epoch : ~ Stamped(c)

\* No stamp is ahead of the number of the last evaluation: what makes the next one fresh.
StampsBehind ==
  /\ epoch \in 0 .. MaxEpoch
  /\ \A s \in DOMAIN secondary_epoch : secondary_epoch[s] \in 0 .. epoch
  /\ \A c \in DOMAIN charge_code_epoch : charge_code_epoch[c] \in 0 .. epoch
  /\ touched_secondaries \in Seq(Range(touched_secondaries))

\* Tables that were read price a metric by one tier of a rule at most, though the reader
\* compares only neighbours, and only after it rounded their bounds.
TiersDisjoint ==
  manager.enabled =>
    \A k \in DOMAIN manager.rules :
      LET tiers == manager.rules[k].tiers
      IN  \A i, j \in DOMAIN tiers : i < j => tiers[i].upper <= tiers[j].lower
=============================================================================
