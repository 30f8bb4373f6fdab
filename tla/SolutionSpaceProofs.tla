------------------------ MODULE SolutionSpaceProofs ------------------------
(***************************************************************************)
(* Facts about the operations of the solution space, for every set of      *)
(* orders and every fleet: each returns a solution, conserves the orders   *)
(* when its precondition holds, and keeps the vehicle accounts exact.      *)
(***************************************************************************)
EXTENDS SolutionSpace, FiniteSetTheorems, FunctionTheorems, TLAPS

----------------------------------------------------------------------------
(* Removing an element of a sequence *)

\* Positions and elements of a sequence.
LEMMA SeqElements ==
  ASSUME NEW S, NEW s \in Seq(S)
  PROVE  /\ Len(s) \in Nat
         /\ DOMAIN s = 1 .. Len(s)
         /\ \A k \in DOMAIN s : k \in Int /\ s[k] \in S
  OBVIOUS

\* RemovedAt returns a sequence of the same elements, one shorter.
LEMMA RemovedAtType ==
  ASSUME NEW S, NEW s \in Seq(S), NEW i \in DOMAIN s
  PROVE  /\ RemovedAt(s, i) \in Seq(S)
         /\ Len(RemovedAt(s, i)) = Len(s) - 1
         /\ DOMAIN RemovedAt(s, i) = 1 .. Len(s) - 1
         /\ \A j \in 1 .. Len(s) - 1 :
              RemovedAt(s, i)[j] = IF j < i THEN s[j] ELSE s[j + 1]
  <1>1. Len(s) \in Nat /\ DOMAIN s = 1 .. Len(s) /\ Len(s) - 1 \in Nat
    OBVIOUS
  <1>2. \A j \in 1 .. Len(s) - 1 : s[j] \in S /\ s[j + 1] \in S
    BY <1>1
  <1> QED
    BY <1>1, <1>2 DEF RemovedAt

\* Every other position of the sequence has a place in the shorter one.
LEMMA RemovedAtCovers ==
  ASSUME NEW S, NEW s \in Seq(S), NEW i \in DOMAIN s,
         NEW k \in DOMAIN s, k # i
  PROVE  \E j \in DOMAIN RemovedAt(s, i) : RemovedAt(s, i)[j] = s[k]
  <1>1. Len(s) \in Nat /\ DOMAIN s = 1 .. Len(s)
    OBVIOUS
  <1>2. CASE k < i
    <2>1. k \in 1 .. Len(s) - 1
      BY <1>1, <1>2
    <2> QED
      BY <2>1, <1>2, RemovedAtType
  <1>3. CASE k > i
    <2>1. k - 1 \in 1 .. Len(s) - 1 /\ ~ (k - 1 < i) /\ (k - 1) + 1 = k
      BY <1>1, <1>3
    <2> QED
      BY <2>1, RemovedAtType
  <1> QED
    BY <1>1, <1>2, <1>3

----------------------------------------------------------------------------
(* Types and conservation *)

\* The parts of a solution.
LEMMA SolutionParts ==
  ASSUME NEW sol \in Solution
  PROVE  /\ sol.loads \in Seq(Load)
         /\ sol.unassigned \subseteq Orders
         /\ sol.usage \in [Vehicles -> Int]
         /\ Len(sol.loads) \in Nat
         /\ DOMAIN sol.loads = 1 .. Len(sol.loads)
         /\ \A k \in DOMAIN sol.loads : /\ sol.loads[k] \in Load
                                        /\ sol.loads[k].veh \in Vehicles
                                        /\ sol.loads[k].orders \subseteq Orders
  <1>1. /\ sol.loads \in Seq(Load)
        /\ sol.unassigned \subseteq Orders
        /\ sol.usage \in [Vehicles -> Int]
    BY DEF Solution
  <1>2. \A k \in DOMAIN sol.loads : sol.loads[k] \in Load
    BY <1>1, SeqElements
  <1> QED
    BY <1>1, <1>2, SeqElements DEF Load

\* Occupying and releasing keep one integer per vehicle type.
LEMMA AccountsType ==
  ASSUME NEW usage \in [Vehicles -> Int], NEW v \in Vehicles
  PROVE  /\ Occupied(usage, v) \in [Vehicles -> Int]
         /\ Released(usage, v) \in [Vehicles -> Int]
  BY DEF Occupied, Released

\* remove_load_by_ind gives the orders of the removed load back to the pool.
LEMMA RemoveLoadConserves ==
  ASSUME NEW sol \in Solution, Conserved(sol), NEW i \in DOMAIN sol.loads
  PROVE  /\ RemoveLoadByInd(sol, i) \in Solution
         /\ Conserved(RemoveLoadByInd(sol, i))
  <1> DEFINE new == RemoveLoadByInd(sol, i)
  <1>1. sol.loads \in Seq(Load) /\ sol.unassigned \subseteq Orders
        /\ sol.usage \in [Vehicles -> Int]
    BY DEF Solution
  <1>2. \A k \in DOMAIN sol.loads :
          sol.loads[k].orders \subseteq Orders /\ sol.loads[k].veh \in Vehicles
    <2>1. \A k \in DOMAIN sol.loads : sol.loads[k] \in Load
      BY <1>1, SeqElements
    <2> QED
      BY <2>1 DEF Load
  <1>3. /\ new.loads = RemovedAt(sol.loads, i)
        /\ new.unassigned = sol.unassigned \cup sol.loads[i].orders
        /\ new.usage = Released(sol.usage, sol.loads[i].veh)
    BY DEF RemoveLoadByInd
  <1>4. new.loads \in Seq(Load) /\ new.unassigned \subseteq Orders
        /\ new.usage \in [Vehicles -> Int]
    BY <1>1, <1>2, <1>3, RemovedAtType DEF Released
  <1>5. new \in Solution
    BY <1>4 DEF RemoveLoadByInd, Solution
  <1>6. \A j \in DOMAIN new.loads :
          LET k == IF j < i THEN j ELSE j + 1
          IN  k \in DOMAIN sol.loads /\ k # i /\ new.loads[j] = sol.loads[k]
    <2> TAKE j \in DOMAIN new.loads
    <2>1. j \in 1 .. Len(sol.loads) - 1
      BY <1>1, <1>3, RemovedAtType
    <2>2. new.loads[j] = IF j < i THEN sol.loads[j] ELSE sol.loads[j + 1]
      BY <1>1, <1>3, <2>1, RemovedAtType
    <2>3. DOMAIN sol.loads = 1 .. Len(sol.loads) /\ Len(sol.loads) \in Nat
      BY <1>1
    <2> QED
      BY <2>1, <2>2, <2>3
  <1>7. \A o \in Orders : o \in new.unassigned
                          \/ \E j \in DOMAIN new.loads : o \in new.loads[j].orders
    <2> SUFFICES ASSUME NEW o \in Orders, o \notin new.unassigned
                 PROVE  \E j \in DOMAIN new.loads : o \in new.loads[j].orders
      OBVIOUS
    <2>1. PICK k \in DOMAIN sol.loads : o \in sol.loads[k].orders
      BY <1>3 DEF Conserved
    <2>2. k # i
      BY <1>3, <2>1
    <2> QED
      BY <1>1, <1>3, <2>1, <2>2, RemovedAtCovers
  <1>8. \A j \in DOMAIN new.loads : new.loads[j].orders \cap new.unassigned = {}
    BY <1>3, <1>6 DEF Conserved
  <1>9. \A j, k \in DOMAIN new.loads :
          j # k => new.loads[j].orders \cap new.loads[k].orders = {}
    <2> SUFFICES ASSUME NEW j \in DOMAIN new.loads, NEW k \in DOMAIN new.loads, j # k
                 PROVE  new.loads[j].orders \cap new.loads[k].orders = {}
      OBVIOUS
    <2> DEFINE oj == IF j < i THEN j ELSE j + 1
               ok == IF k < i THEN k ELSE k + 1
    <2>1. /\ oj \in DOMAIN sol.loads /\ new.loads[j] = sol.loads[oj]
          /\ ok \in DOMAIN sol.loads /\ new.loads[k] = sol.loads[ok]
      BY <1>6
    <2>2. j \in Int /\ k \in Int /\ i \in Int
      <3>1. i \in Int
        BY <1>1, SeqElements
      <3>2. DOMAIN new.loads = 1 .. Len(sol.loads) - 1
        BY <1>1, <1>3, RemovedAtType
      <3> QED
        BY <3>1, <3>2
    <2>3. oj # ok
      BY <2>2
    <2> HIDE DEF oj, ok
    <2> QED
      BY <2>1, <2>3 DEF Conserved
  <1> QED
    BY <1>5, <1>7, <1>8, <1>9 DEF Conserved

\* Orders that move from one load to the pool are in the pool afterwards.
LEMMA DropOrdersConserves ==
  ASSUME NEW sol \in Solution, Conserved(sol), NEW i \in DOMAIN sol.loads,
         NEW gone \in SUBSET sol.loads[i].orders, NEW verdict \in Verdict
  PROVE  /\ DropOrders(sol, i, gone, verdict) \in Solution
         /\ Conserved(DropOrders(sol, i, gone, verdict))
  <1> DEFINE new == DropOrders(sol, i, gone, verdict)
  <1>1. sol.loads \in Seq(Load) /\ sol.unassigned \subseteq Orders
        /\ sol.usage \in [Vehicles -> Int]
    BY DEF Solution
  <1>2. \A k \in DOMAIN sol.loads : sol.loads[k] \in Load
    BY <1>1, SeqElements
  <1> DEFINE load == [sol.loads[i] EXCEPT !.orders = @ \ gone, !.verdict = verdict]
  <1>3. load \in Load
    BY <1>2 DEF Load
  <1>4. /\ new.loads = [sol.loads EXCEPT ![i] = load]
        /\ new.unassigned = sol.unassigned \cup gone
        /\ new.usage = sol.usage
        /\ new \in [loads : {new.loads}, unassigned : {new.unassigned},
                    usage : {new.usage}]
    BY <1>1, <1>2 DEF DropOrders, Solution, Load
  <1>5. gone \subseteq Orders
    BY <1>2 DEF Load
  <1>6. new.loads \in Seq(Load) /\ DOMAIN new.loads = DOMAIN sol.loads
    BY <1>1, <1>3, <1>4
  <1>7. new \in Solution
    BY <1>1, <1>4, <1>5, <1>6 DEF Solution
  <1>8. \A k \in DOMAIN sol.loads :
          new.loads[k].orders = IF k = i THEN sol.loads[i].orders \ gone
                                         ELSE sol.loads[k].orders
    <2>1. load.orders = sol.loads[i].orders \ gone
      BY <1>2 DEF Load
    <2> HIDE DEF load
    <2> QED
      BY <1>1, <1>4, <2>1
  <1> HIDE DEF new, load
  <1>9. gone \subseteq sol.loads[i].orders
    OBVIOUS
  <1>10. \A p \in Orders : p \in new.unassigned
                           \/ \E k \in DOMAIN new.loads : p \in new.loads[k].orders
    BY <1>4, <1>6, <1>8 DEF Conserved
  <1>11. \A k \in DOMAIN new.loads : new.loads[k].orders \cap new.unassigned = {}
    <2> SUFFICES ASSUME NEW k \in DOMAIN sol.loads, NEW p \in new.loads[k].orders
                 PROVE  p \notin new.unassigned
      BY <1>6
    <2>1. p \notin gone
      BY <1>8, <1>9 DEF Conserved
    <2> QED
      BY <1>4, <1>8, <2>1 DEF Conserved
  <1>12. \A j, k \in DOMAIN new.loads :
           j # k => new.loads[j].orders \cap new.loads[k].orders = {}
    BY <1>6, <1>8 DEF Conserved
  <1>13. Conserved(new)
    BY <1>10, <1>11, <1>12 DEF Conserved
  <1> QED
    BY <1>7, <1>13 DEF new

\* A load that replaces one and carries one pooled order more leaves the pool
\* without that order and every other load as it was.
LEMMA UpdateLoadConserves ==
  ASSUME NEW sol \in Solution, Conserved(sol), NEW i \in DOMAIN sol.loads,
         NEW o \in sol.unassigned, NEW load \in Load,
         load.orders = sol.loads[i].orders \cup {o},
         ~ UpdateLoadThrows(sol, i, load)
  PROVE  LET new == [UpdateLoad(sol, i, load) EXCEPT !.unassigned = @ \ {o}]
         IN  /\ new \in Solution
             /\ Conserved(new)
             /\ new.loads = [sol.loads EXCEPT ![i] = load]
             /\ new.unassigned = sol.unassigned \ {o}
             /\ new.usage = Occupied(Released(sol.usage, sol.loads[i].veh), load.veh)
  <1> DEFINE new == [UpdateLoad(sol, i, load) EXCEPT !.unassigned = @ \ {o}]
  <1>1. sol.loads \in Seq(Load) /\ sol.unassigned \subseteq Orders
        /\ sol.usage \in [Vehicles -> Int]
    BY DEF Solution
  <1>2. /\ new.loads = [sol.loads EXCEPT ![i] = load]
        /\ new.unassigned = sol.unassigned \ {o}
        /\ new.usage = Occupied(Released(sol.usage, sol.loads[i].veh), load.veh)
        /\ new \in [loads : {new.loads}, unassigned : {new.unassigned},
                    usage : {new.usage}]
    BY <1>1 DEF UpdateLoad, Solution
  <1>3. new.loads \in Seq(Load) /\ DOMAIN new.loads = DOMAIN sol.loads
    BY <1>1, <1>2
  <1>4. new.usage \in [Vehicles -> Int]
    <2>1. sol.loads[i].veh \in Vehicles /\ load.veh \in Vehicles
      BY SolutionParts DEF Load
    <2>2. Released(sol.usage, sol.loads[i].veh) \in [Vehicles -> Int]
      BY <1>1, <2>1, AccountsType
    <2> HIDE DEF new
    <2> QED
      BY <1>2, <2>1, <2>2, AccountsType
  <1>5. new \in Solution
    BY <1>1, <1>2, <1>3, <1>4 DEF Solution
  <1>6. \A k \in DOMAIN sol.loads :
          new.loads[k].orders = IF k = i THEN sol.loads[i].orders \cup {o}
                                         ELSE sol.loads[k].orders
    BY <1>1, <1>2
  <1>7. Conserved(new)
    <2> HIDE DEF new
    <2> QED
      BY <1>2, <1>3, <1>6 DEF Conserved
  <1> QED
    BY <1>2, <1>5, <1>7

\* When occupy throws, the slot keeps the orders of the deleted load.
LEMMA UpdateLoadThrowsConserves ==
  ASSUME NEW sol \in Solution, Conserved(sol), NEW i \in DOMAIN sol.loads,
         NEW load \in Load, UpdateLoadThrows(sol, i, load)
  PROVE  /\ UpdateLoad(sol, i, load) \in Solution
         /\ Conserved(UpdateLoad(sol, i, load))
         /\ DOMAIN UpdateLoad(sol, i, load).loads = DOMAIN sol.loads
  <1> DEFINE new == UpdateLoad(sol, i, load)
             freed == [sol.loads[i] EXCEPT !.verdict = "freed"]
  <1>1. sol.loads \in Seq(Load) /\ sol.unassigned \subseteq Orders
        /\ sol.usage \in [Vehicles -> Int]
    BY DEF Solution
  <1>2. freed \in Load /\ freed.orders = sol.loads[i].orders
    <2>1. sol.loads[i] \in Load
      BY <1>1, SeqElements
    <2> QED
      BY <2>1 DEF Load, Verdict
  <1>3. /\ new.loads = [sol.loads EXCEPT ![i] = freed]
        /\ new.unassigned = sol.unassigned
        /\ new.usage = Occupied(Released(sol.usage, sol.loads[i].veh), load.veh)
        /\ new \in [loads : {new.loads}, unassigned : {new.unassigned},
                    usage : {new.usage}]
    BY <1>1 DEF UpdateLoad, Solution
  <1>4. new.loads \in Seq(Load) /\ DOMAIN new.loads = DOMAIN sol.loads
    BY <1>1, <1>2, <1>3
  <1>5. new.usage \in [Vehicles -> Int]
    <2>1. sol.loads[i].veh \in Vehicles /\ load.veh \in Vehicles
      BY SolutionParts DEF Load
    <2>2. Released(sol.usage, sol.loads[i].veh) \in [Vehicles -> Int]
      BY <1>1, <2>1, AccountsType
    <2> HIDE DEF new
    <2> QED
      BY <1>3, <2>1, <2>2, AccountsType
  <1>6. new \in Solution
    BY <1>1, <1>3, <1>4, <1>5 DEF Solution
  <1>7. \A k \in DOMAIN sol.loads : new.loads[k].orders = sol.loads[k].orders
    BY <1>1, <1>2, <1>3
  <1>8. Conserved(new)
    <2> HIDE DEF new
    <2> QED
      BY <1>3, <1>4, <1>7 DEF Conserved
  <1> QED
    BY <1>4, <1>6, <1>8

\* A new load takes its orders out of the pool.
LEMMA AddLoadConserves ==
  ASSUME NEW sol \in Solution, Conserved(sol), NEW load \in Load,
         load.orders \subseteq sol.unassigned
  PROVE  /\ AddLoad(sol, load) \in Solution
         /\ Conserved(AddLoad(sol, load))
         /\ AddLoad(sol, load).loads = Append(sol.loads, load)
         /\ AddLoad(sol, load).unassigned = sol.unassigned \ load.orders
         /\ AddLoad(sol, load).usage = Occupied(sol.usage, load.veh)
  <1> DEFINE new == AddLoad(sol, load)
  <1>1. sol.loads \in Seq(Load) /\ sol.unassigned \subseteq Orders
        /\ sol.usage \in [Vehicles -> Int]
    BY DEF Solution
  <1>2. /\ new.loads = Append(sol.loads, load)
        /\ new.unassigned = sol.unassigned \ load.orders
        /\ new.usage = Occupied(sol.usage, load.veh)
        /\ new \in [loads : {new.loads}, unassigned : {new.unassigned},
                    usage : {new.usage}]
    BY DEF AddLoad
  <1>3. new.loads \in Seq(Load) /\ new.usage \in [Vehicles -> Int]
    <2>1. load.veh \in Vehicles
      BY DEF Load
    <2> HIDE DEF new
    <2> QED
      BY <1>1, <1>2, <2>1, AccountsType
  <1>4. new \in Solution
    BY <1>1, <1>2, <1>3 DEF Solution
  <1>5. Len(sol.loads) \in Nat /\ DOMAIN sol.loads = 1 .. Len(sol.loads)
    BY <1>1, SeqElements
  <1>6. /\ DOMAIN new.loads = 1 .. Len(sol.loads) + 1
        /\ new.loads[Len(sol.loads) + 1] = load
        /\ \A k \in DOMAIN sol.loads : new.loads[k] = sol.loads[k]
    BY <1>1, <1>2, <1>5
  <1>7. Conserved(new)
    <2> DEFINE last == Len(sol.loads) + 1
    <2>1. DOMAIN new.loads = DOMAIN sol.loads \cup {last}
          /\ last \notin DOMAIN sol.loads /\ new.loads[last] = load
          /\ \A k \in DOMAIN sol.loads : new.loads[k] = sol.loads[k]
      BY <1>5, <1>6
    <2> HIDE DEF new, last
    <2> QED
      BY <1>2, <2>1 DEF Conserved
  <1> QED
    BY <1>2, <1>4, <1>7

----------------------------------------------------------------------------
(* Vehicle accounts *)

\* A sequence of loads has finitely many loads on each vehicle type.
LEMMA DrivingFinite ==
  ASSUME NEW s \in Seq(Load), NEW v
  PROVE  IsFiniteSet(Driving(s, v)) /\ Cardinality(Driving(s, v)) \in Nat
  <1>1. IsFiniteSet(1 .. Len(s))
    BY SeqElements, FS_Interval
  <1>2. Driving(s, v) \in SUBSET (1 .. Len(s))
    BY SeqElements DEF Driving
  <1> QED
    BY <1>1, <1>2, FS_Subset, FS_CardinalityType

\* Replacing load i moves one count from its type to the new load's type.
LEMMA DrivingReplaced ==
  ASSUME NEW s \in Seq(Load), NEW i \in DOMAIN s, NEW load \in Load, NEW v
  PROVE  Cardinality(Driving([s EXCEPT ![i] = load], v)) =
           Cardinality(Driving(s, v))
             - (IF s[i].veh = v THEN 1 ELSE 0) + (IF load.veh = v THEN 1 ELSE 0)
  <1> DEFINE old == Driving(s, v)
             rest == old \ {i}
             new == Driving([s EXCEPT ![i] = load], v)
  <1>1. /\ IsFiniteSet(rest)
        /\ Cardinality(rest) = IF i \in old THEN Cardinality(old) - 1
                                            ELSE Cardinality(old)
    BY DrivingFinite, FS_RemoveElement
  <1>2. i \in old <=> s[i].veh = v
    BY DEF Driving
  <1>3. new = IF load.veh = v THEN rest \cup {i} ELSE rest
    BY DEF Driving
  <1>4. Cardinality(rest \cup {i}) = Cardinality(rest) + 1
    BY <1>1, FS_AddElement
  <1>5. Cardinality(old) \in Nat /\ Cardinality(rest) \in Nat
    BY <1>1, DrivingFinite, FS_CardinalityType
  <1> HIDE DEF old, rest, new
  <1>6. Cardinality(new) = Cardinality(rest) + (IF load.veh = v THEN 1 ELSE 0)
    BY <1>3, <1>4, <1>5
  <1>7. Cardinality(rest) = Cardinality(old) - (IF s[i].veh = v THEN 1 ELSE 0)
    BY <1>1, <1>2, <1>5
  <1> QED
    BY <1>5, <1>6, <1>7 DEF old, new

\* A load put at the end adds one count to its type.
LEMMA DrivingAppended ==
  ASSUME NEW s \in Seq(Load), NEW load \in Load, NEW v
  PROVE  Cardinality(Driving(Append(s, load), v)) =
           Cardinality(Driving(s, v)) + (IF load.veh = v THEN 1 ELSE 0)
  <1> DEFINE old == Driving(s, v)
             last == Len(s) + 1
             new == Driving(Append(s, load), v)
  <1>1. new = IF load.veh = v THEN old \cup {last} ELSE old
    <2>1. DOMAIN Append(s, load) = DOMAIN s \cup {last} /\ last \notin DOMAIN s
      BY SeqElements
    <2>2. /\ Append(s, load)[last] = load
          /\ \A k \in DOMAIN s : Append(s, load)[k] = s[k]
      BY SeqElements
    <2> HIDE DEF last
    <2> QED
      BY <2>1, <2>2 DEF Driving
  <1>2. last \notin old
    BY SeqElements DEF Driving
  <1>3. Cardinality(old \cup {last}) = Cardinality(old) + 1
    BY <1>2, DrivingFinite, FS_AddElement
  <1>4. Cardinality(old) \in Nat
    BY DrivingFinite
  <1> HIDE DEF old, new
  <1> QED
    BY <1>1, <1>3, <1>4 DEF old, new

\* Taking load i out takes one count from its type: the positions that move
\* down by one keep their loads.
LEMMA DrivingRemoved ==
  ASSUME NEW s \in Seq(Load), NEW i \in DOMAIN s, NEW v
  PROVE  Cardinality(Driving(RemovedAt(s, i), v)) =
           Cardinality(Driving(s, v)) - (IF s[i].veh = v THEN 1 ELSE 0)
  <1> DEFINE old == Driving(s, v)
             rest == old \ {i}
             new == Driving(RemovedAt(s, i), v)
             f == [j \in new |-> IF j < i THEN j ELSE j + 1]
  <1>1. i \in 1 .. Len(s) /\ Len(s) \in Nat /\ DOMAIN s = 1 .. Len(s)
    BY SeqElements
  <1>2. \A j \in new : /\ j \in 1 .. Len(s) - 1
                       /\ RemovedAt(s, i)[j] = IF j < i THEN s[j] ELSE s[j + 1]
                       /\ RemovedAt(s, i)[j].veh = v
    BY RemovedAtType DEF Driving
  <1>3. \A j \in new : f[j] \in rest
    BY <1>1, <1>2 DEF Driving
  <1>4. \A j, k \in new : f[j] = f[k] => j = k
    BY <1>1, <1>2
  <1>5. \A k \in rest : \E j \in new : f[j] = k
    <2> TAKE k \in rest
    <2> DEFINE j == IF k < i THEN k ELSE k - 1
    <2>1. k \in 1 .. Len(s) /\ k # i /\ s[k].veh = v
      BY <1>1 DEF Driving
    <2>2. j \in 1 .. Len(s) - 1 /\ k = (IF j < i THEN j ELSE j + 1)
      BY <1>1, <2>1
    <2>3. RemovedAt(s, i)[j] = s[k]
      BY <2>2, RemovedAtType
    <2>4. j \in new
      BY <2>1, <2>2, <2>3, RemovedAtType DEF Driving
    <2> QED
      BY <2>2, <2>4
  <1>6. f \in Bijection(new, rest)
    BY <1>3, <1>4, <1>5, Fun_IsBij
  <1>7. /\ IsFiniteSet(rest)
        /\ Cardinality(rest) = IF i \in old THEN Cardinality(old) - 1
                                            ELSE Cardinality(old)
    BY DrivingFinite, FS_RemoveElement
  <1>8. i \in old <=> s[i].veh = v
    BY DEF Driving
  <1>9. RemovedAt(s, i) \in Seq(Load)
    BY RemovedAtType
  <1>10. Cardinality(new) = Cardinality(rest)
    BY <1>6, <1>9, DrivingFinite, FS_Bijection DEF ExistsBijection
  <1>11. Cardinality(old) \in Nat
    BY DrivingFinite
  <1> HIDE DEF old, rest, new
  <1> QED
    BY <1>7, <1>8, <1>10, <1>11 DEF old, new

\* What dropping orders changes: one load's orders and verdict, and the pool.
LEMMA DropOrdersParts ==
  ASSUME NEW sol \in Solution, NEW i \in DOMAIN sol.loads, NEW gone, NEW verdict
  PROVE  LET new == DropOrders(sol, i, gone, verdict)
         IN  /\ DOMAIN new.loads = DOMAIN sol.loads
             /\ new.unassigned = sol.unassigned \cup gone
             /\ new.usage = sol.usage
             /\ new.loads[i].orders = sol.loads[i].orders \ gone
             /\ new.loads[i].verdict = verdict
             /\ \A k \in DOMAIN sol.loads :
                  /\ new.loads[k].veh = sol.loads[k].veh
                  /\ k # i => new.loads[k] = sol.loads[k]
  <1>1. sol.loads[i] \in Load
    BY SolutionParts
  <1> QED
    BY <1>1, SolutionParts DEF DropOrders, Solution, Load

\* The accounts are those of the vehicle types of the loads alone.
LEMMA DropOrdersAccounts ==
  ASSUME NEW sol \in Solution, Accounted(sol), NEW i \in DOMAIN sol.loads,
         NEW gone, NEW verdict
  PROVE  Accounted(DropOrders(sol, i, gone, verdict))
  <1> DEFINE new == DropOrders(sol, i, gone, verdict)
  <1>1. /\ DOMAIN new.loads = DOMAIN sol.loads
        /\ new.usage = sol.usage
        /\ \A k \in DOMAIN sol.loads : new.loads[k].veh = sol.loads[k].veh
    BY DropOrdersParts
  <1> HIDE DEF new
  <1>2. \A v \in Vehicles : Driving(new.loads, v) = Driving(sol.loads, v)
    BY <1>1 DEF Driving
  <1> QED
    BY <1>1, <1>2 DEF Accounted, new

\* A removed load's account is never empty, and it is counted off exactly.
LEMMA RemoveLoadAccounts ==
  ASSUME NEW sol \in Solution, Accounted(sol), NEW i \in DOMAIN sol.loads
  PROVE  ~ RemoveLoadThrows(sol, i) /\ Accounted(RemoveLoadByInd(sol, i))
  <1> DEFINE w == sol.loads[i].veh
             new == RemoveLoadByInd(sol, i)
  <1>1. /\ sol.loads \in Seq(Load) /\ sol.usage \in [Vehicles -> Int]
        /\ w \in Vehicles
    BY SolutionParts
  <1>2. /\ new.loads = RemovedAt(sol.loads, i)
        /\ new.usage = [sol.usage EXCEPT ![w] = @ - 1]
    BY DEF RemoveLoadByInd, Released
  <1>3. sol.usage[w] >= 1
    <2>1. i \in Driving(sol.loads, w)
      BY DEF Driving
    <2>2. Cardinality(Driving(sol.loads, w)) # 0
      BY <1>1, <2>1, DrivingFinite, FS_EmptySet
    <2> QED
      BY <1>1, <2>2, DrivingFinite DEF Accounted
  <1>4. \A v \in Vehicles :
          Cardinality(Driving(new.loads, v)) =
            Cardinality(Driving(sol.loads, v)) - (IF w = v THEN 1 ELSE 0)
    BY <1>1, <1>2, DrivingRemoved
  <1>5. MaxUsable \in [Vehicles -> Nat]
    BY FleetAssumption
  <1> HIDE DEF w, new
  <1>6. Accounted(new)
    BY <1>1, <1>2, <1>4, <1>5 DEF Accounted
  <1>7. ~ RemoveLoadThrows(sol, i)
    BY <1>1, <1>3 DEF RemoveLoadThrows, ReleaseThrows, w
  <1> QED
    BY <1>6, <1>7 DEF new

\* A load on an available vehicle is added without an exception.
LEMMA AddLoadAccounts ==
  ASSUME NEW sol \in Solution, Accounted(sol), NEW load \in Load,
         load.verdict = "feasible", HasAvailableVehicle(sol, load.veh)
  PROVE  ~ AddLoadThrows(sol, load) /\ Accounted(AddLoad(sol, load))
  <1> DEFINE new == AddLoad(sol, load)
             w == load.veh
  <1>1. /\ sol.loads \in Seq(Load) /\ sol.usage \in [Vehicles -> Int]
        /\ w \in Vehicles
    BY SolutionParts DEF Load
  <1>2. MaxUsable \in [Vehicles -> Nat]
    BY FleetAssumption
  <1>3. /\ new.loads = Append(sol.loads, load)
        /\ new.usage = [sol.usage EXCEPT ![w] = @ + 1]
    BY DEF AddLoad, Occupied
  <1>4. \A v \in Vehicles :
          Cardinality(Driving(new.loads, v)) =
            Cardinality(Driving(sol.loads, v)) + (IF w = v THEN 1 ELSE 0)
    BY <1>1, <1>3, DrivingAppended
  <1>5. sol.usage[w] + 1 <= MaxUsable[w]
    BY <1>1, <1>2 DEF HasAvailableVehicle
  <1>6. ~ AddLoadThrows(sol, load)
    BY <1>1, <1>2, <1>5 DEF AddLoadThrows, OccupyThrows
  <1> HIDE DEF new, w
  <1>7. Accounted(new)
    BY <1>1, <1>2, <1>3, <1>4, <1>5 DEF Accounted
  <1> QED
    BY <1>6, <1>7 DEF new

\* When update_load does not throw, releasing the old vehicle and occupying
\* the new one keeps the accounts exact.
LEMMA UpdateLoadAccounts ==
  ASSUME NEW sol \in Solution, Accounted(sol), NEW i \in DOMAIN sol.loads,
         NEW load \in Load, ~ UpdateLoadThrows(sol, i, load),
         NEW new, new.loads = [sol.loads EXCEPT ![i] = load],
         new.usage = Occupied(Released(sol.usage, sol.loads[i].veh), load.veh)
  PROVE  Accounted(new)
  <1> DEFINE u == sol.loads[i].veh
             w == load.veh
             mid == [sol.usage EXCEPT ![u] = @ - 1]
  <1>1. /\ sol.loads \in Seq(Load) /\ sol.usage \in [Vehicles -> Int]
        /\ u \in Vehicles /\ w \in Vehicles
    BY SolutionParts DEF Load
  <1>2. MaxUsable \in [Vehicles -> Nat]
    BY FleetAssumption
  <1>3. mid \in [Vehicles -> Int] /\ new.usage = [mid EXCEPT ![w] = @ + 1]
    BY <1>1 DEF Occupied, Released
  <1>4. mid[w] + 1 <= MaxUsable[w]
    <2>1. ~ (mid[w] + 1 > MaxUsable[w])
      BY DEF UpdateLoadThrows, OccupyThrows, Released
    <2> QED
      BY <1>1, <1>2, <1>3, <2>1
  <1>5. \A v \in Vehicles :
          Cardinality(Driving(new.loads, v)) =
            Cardinality(Driving(sol.loads, v))
              - (IF u = v THEN 1 ELSE 0) + (IF w = v THEN 1 ELSE 0)
    BY <1>1, DrivingReplaced
  <1>6. \A v \in Vehicles : mid[v] = sol.usage[v] - (IF u = v THEN 1 ELSE 0)
    BY <1>1
  <1>7. \A v \in Vehicles :
          new.usage[v] = mid[v] + (IF w = v THEN 1 ELSE 0)
    BY <1>1, <1>3
  <1> HIDE DEF u, w, mid
  <1> SUFFICES ASSUME NEW v \in Vehicles
               PROVE  /\ new.usage[v] = Cardinality(Driving(new.loads, v))
                      /\ new.usage[v] <= MaxUsable[v]
    BY DEF Accounted
  <1>8. /\ sol.usage[v] = Cardinality(Driving(sol.loads, v))
        /\ sol.usage[v] <= MaxUsable[v]
        /\ sol.usage[v] \in Int /\ MaxUsable[v] \in Int
    BY <1>1, <1>2 DEF Accounted
  <1>9. new.usage[v] = Cardinality(Driving(new.loads, v))
    BY <1>5, <1>6, <1>7, <1>8
  <1>10. CASE v = w
    BY <1>4, <1>6, <1>7, <1>8, <1>9, <1>10
  <1>11. CASE v # w
    BY <1>6, <1>7, <1>8, <1>9, <1>11
  <1> QED
    BY <1>10, <1>11
=============================================================================
