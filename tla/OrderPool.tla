----------------------------- MODULE OrderPool -----------------------------
(***************************************************************************)
(* From cargo orders to orders (pdm_order_pool.cpp, pdm_order.cpp): cargo  *)
(* orders with the same ends are put together, a grouping rule splits them *)
(* again by their values of one label, and every group becomes an Order.   *)
(*                                                                         *)
(* The values of a label are kept in unordered sets, and std::includes     *)
(* walks them in their iteration order.  A set is therefore its listing: a *)
(* sequence without repetition, in an order nobody chose.                  *)
(***************************************************************************)
EXTENDS Calendars, FiniteSets, Functions

CONSTANT Readings   \* what reading a case may give: [cargo, param]

ASSUME ReadingsAssumption ==
  \A r \in Readings :
    /\ DOMAIN r.cargo = 1 .. Len(r.cargo) /\ Len(r.cargo) \in Nat
    /\ \A c \in DOMAIN r.cargo : r.cargo[c].listed \in Seq(Int)
    /\ r.param.grouped \in BOOLEAN
    /\ r.param.groups \in Seq(Seq(Int))

VARIABLES
  cargo,    \* the cargo orders, with the listing of their values of the rule's label
  param,    \* plan range, vehicles, and the grouping rule
  stage,    \* where the constructor of OrderPool is
  next,     \* the next cargo order to group by its ends
  locs,     \* the groups by ends, as indices of cargo
  cur,      \* group and position of the next cargo order to group by label
  values,   \* label_value_ind_groups
  sorted,   \* ind_map and res_cargo_order_groups: [at, groups]
  orders    \* the orders of the pool

poolVars == <<cargo, param, stage, next, locs, cur, values, sorted, orders>>

Unlabelled == 0   \* the key -1 of ind_map; groups of values are numbered from 1

NothingSorted == [at |-> <<>>, groups |-> <<>>]

PoolInit ==
  /\ cargo = <<>> /\ param = [grouped |-> FALSE, groups |-> <<>>] /\ stage = "unread"
  /\ next = 1 /\ locs = <<>> /\ cur = <<1, 1>>
  /\ values = <<>> /\ sorted = NothingSorted /\ orders = <<>>

\* The scenario and its parameters, read once and kept.
Read(r) ==
  /\ stage = "unread"
  /\ cargo' = r.cargo /\ param' = r.param /\ stage' = "none"
  /\ UNCHANGED <<next, locs, cur, values, sorted, orders>>

\* delete order_pool
DropPool ==
  /\ stage \in {"none", "done"}
  /\ stage' = "none" /\ orders' = <<>>
  /\ UNCHANGED <<cargo, param, next, locs, cur, values, sorted>>

StartPool ==
  /\ stage = "none"
  /\ stage' = "loc" /\ next' = 1 /\ locs' = <<>>
  /\ UNCHANGED <<cargo, param, cur, values, sorted, orders>>

----------------------------------------------------------------------------
(* cargo_orders_group_by_loc *)

Ends(c) == <<cargo[c].pick, cargo[c].drop>>

\* (mutant) The key of the map forgets the drop location.
SharesPick(c, g) == cargo[locs[g][1]].pick = cargo[c].pick

\* Whether c belongs to group g.
SharesEnds(c, g) == Ends(locs[g][1]) = Ends(c)

JoinGroup ==
  /\ stage = "loc" /\ next <= Len(cargo)
  /\ \E g \in DOMAIN locs :
       SharesEnds(next, g) /\ locs' = [locs EXCEPT ![g] = Append(@, next)]
  /\ next' = next + 1
  /\ UNCHANGED <<cargo, param, stage, cur, values, sorted, orders>>

NewGroup ==
  /\ stage = "loc" /\ next <= Len(cargo)
  /\ \A g \in DOMAIN locs : ~ SharesEnds(next, g)
  /\ locs' = Append(locs, <<next>>)
  /\ next' = next + 1
  /\ UNCHANGED <<cargo, param, stage, cur, values, sorted, orders>>

\* Without a rule the groups are taken as they are.
EndLoc ==
  /\ stage = "loc" /\ next > Len(cargo)
  /\ IF param.grouped
     THEN stage' = "label" /\ sorted' = NothingSorted
     ELSE stage' = "merge" /\ sorted' = [at |-> <<>>, groups |-> locs]
  /\ cur' = <<1, 1>> /\ values' = param.groups
  /\ UNCHANGED <<cargo, param, next, locs, orders>>

----------------------------------------------------------------------------
(* cargo_orders_group_by_label *)

\* (mutant) The smallest values need not be equal.
IncludesShortcut(group, listed) == Len(listed) <= Len(group)

\* std::includes on two listings: every value of the second is met in the
\* first, and what is passed over on the way to it is smaller.
Includes(group, listed) ==
  \E f \in [DOMAIN listed -> DOMAIN group] :
    /\ \A j \in DOMAIN listed : group[f[j]] = listed[j]
    /\ \A i, j \in DOMAIN listed : i < j => f[i] < f[j]
    /\ \A j \in DOMAIN listed, k \in DOMAIN group :
         k < f[j] /\ (\A i \in DOMAIN listed : i < j => f[i] < k) => group[k] < listed[j]

\* c joins the group that ind_map names for the key, a new one at the first time.
Placed(c, key, s) ==
  IF key \in DOMAIN s.at
  THEN [at |-> s.at, groups |-> [s.groups EXCEPT ![s.at[key]] = Append(@, c)]]
  ELSE [at |-> [k \in DOMAIN s.at \cup {key} |->
                  IF k = key THEN Len(s.groups) + 1 ELSE s.at[k]],
        groups |-> Append(s.groups, <<c>>)]

\* The first group of values that includes the listing of c.
Fits(c) == {u \in DOMAIN values : Includes(values[u], cargo[c].listed)}
IsFirst(u, fits) == u \in fits /\ \A w \in fits : u <= w

\* A cargo order without a value joins the unlabelled group, and then goes on
\* like every other.
Labelled(c) == cargo[c].listed # <<>>
WithUnlabelled(c) == IF Labelled(c) THEN sorted ELSE Placed(c, Unlabelled, sorted)

Advanced ==
  IF cur[2] < Len(locs[cur[1]]) THEN <<cur[1], cur[2] + 1>> ELSE <<cur[1] + 1, 1>>

PlaceInGroup ==
  /\ stage = "label" /\ cur[1] \in DOMAIN locs
  /\ LET c == locs[cur[1]][cur[2]]
     IN  \E u \in Fits(c) : IsFirst(u, Fits(c)) /\ sorted' = Placed(c, u, WithUnlabelled(c))
  /\ cur' = Advanced
  /\ UNCHANGED <<cargo, param, stage, next, locs, values, orders>>

\* The values of c become a group of values of their own.
PlaceApart ==
  /\ stage = "label" /\ cur[1] \in DOMAIN locs
  /\ LET c == locs[cur[1]][cur[2]]
     IN  /\ Fits(c) = {}
         /\ sorted' = Placed(c, Len(values) + 1, WithUnlabelled(c))
         /\ values' = Append(values, cargo[c].listed)
  /\ cur' = Advanced
  /\ UNCHANGED <<cargo, param, stage, next, locs, orders>>

EndLabel ==
  /\ stage = "label" /\ cur[1] \notin DOMAIN locs
  /\ stage' = "merge"
  /\ UNCHANGED <<cargo, param, next, locs, cur, values, sorted, orders>>

----------------------------------------------------------------------------
(* merge_cargo_orders_to_orders, the Order constructor *)

\* The ends are those of the first cargo order; windows and vehicles are what
\* all of them have in common, dimensions and labels what they have together.
Order(ind, members) ==
  [ind    |-> ind,
   cargo  |-> members,
   pick   |-> cargo[members[1]].pick,
   drop   |-> cargo[members[1]].drop,
   pickWindows |-> OrderWindows(param.range, [k \in DOMAIN members |->
                                  cargo[members[k]].pickWindow], NoCalendar),
   dropWindows |-> OrderWindows(param.range, [k \in DOMAIN members |->
                                  cargo[members[k]].dropWindow], NoCalendar),
   dims   |-> [d \in param.dims |->
                 SumFunction([k \in DOMAIN members |-> cargo[members[k]].dims[d]])],
   vehicles |-> {v \in param.vehicles :
                   \A k \in DOMAIN members : v \in cargo[members[k]].vehicles}]

MergeOrders ==
  /\ stage = "merge"
  /\ stage' = "done"
  /\ orders' = [k \in DOMAIN sorted.groups |-> Order(k - 1, sorted.groups[k])]
  /\ UNCHANGED <<cargo, param, next, locs, cur, values, sorted>>

BuildPool ==
  JoinGroup \/ NewGroup \/ EndLoc \/ PlaceInGroup \/ PlaceApart \/ EndLabel \/ MergeOrders

PoolNext == (\E r \in Readings : Read(r)) \/ DropPool \/ StartPool \/ BuildPool

PoolSpec == PoolInit /\ [][PoolNext]_poolVars

----------------------------------------------------------------------------
(* Properties *)

Holds(k, c) == \E j \in DOMAIN orders[k].cargo : orders[k].cargo[j] = c

\* The pool covers the scenario: every cargo order is in an order, never twice in
\* the same, and in one order only unless it has no value of the rule's label
\* (such a cargo order is sorted twice, cargo_orders_group_by_label falls
\* through).  Without a rule, orders are the classes of equal ends.
PoolCovers ==
  stage = "done" =>
    /\ \A c \in DOMAIN cargo : \E k \in DOMAIN orders : Holds(k, c)
    /\ \A k, l \in DOMAIN orders : \A i \in DOMAIN orders[k].cargo, j \in DOMAIN orders[l].cargo :
         orders[k].cargo[i] = orders[l].cargo[j] =>
           IF k = l THEN i = j ELSE param.grouped /\ ~ Labelled(orders[k].cargo[i])
    /\ ~ param.grouped =>
         \A k \in DOMAIN orders : \A c, d \in DOMAIN cargo :
           Holds(k, c) => (Holds(k, d) <=> Ends(c) = Ends(d))

LabelValues(c) == Range(cargo[c].listed)

\* A rule keeps apart what its groups keep apart: the values of all cargo orders
\* of an order lie in one configured group, or are those of one of its cargo
\* orders.
OneGroupEach ==
  stage = "done" /\ param.grouped =>
    \A k \in DOMAIN orders :
      \/ \E u \in DOMAIN param.groups :
           \A j \in DOMAIN orders[k].cargo :
             LabelValues(orders[k].cargo[j]) \subseteq Range(param.groups[u])
      \/ \E i \in DOMAIN orders[k].cargo : \A j \in DOMAIN orders[k].cargo :
           LabelValues(orders[k].cargo[j]) \subseteq LabelValues(orders[k].cargo[i])

\* "cargo order的提货站点和卸货站点必须相同" (pdm_order_pool.cpp:134): the cargo orders
\* of an order have its pick and drop location.
SameEnds ==
  \A k \in DOMAIN orders : \A j \in DOMAIN orders[k].cargo :
    Ends(orders[k].cargo[j]) = <<orders[k].pick, orders[k].drop>>
=============================================================================
