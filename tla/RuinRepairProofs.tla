-------------------------- MODULE RuinRepairProofs --------------------------
(***************************************************************************)
(* Proofs about RuinRepair, for every set of orders and every fleet: the   *)
(* invariants its runs check on a small instance, from one inductive       *)
(* invariant.                                                              *)
(***************************************************************************)
EXTENDS RuinRepair, SolutionSpaceProofs

\* An exception ends the move, and only update_load raises one.
ThrownEndsMove ==
  /\ thrown \in {"none", "update_load"}
  /\ thrown = "none" <=> phase # "crashed"

IInv ==
  /\ TypeOK
  /\ OrdersConserved
  /\ ThrownEndsMove
  /\ VehiclesAccounted
  /\ TodoCurrent
  /\ LoadsSound
  /\ CellsCurrent
  /\ IdleIsPool

----------------------------------------------------------------------------
\* The initial solution satisfies the invariant.
LEMMA InitIInv == Init => IInv
  <1> SUFFICES ASSUME Init PROVE IInv
    OBVIOUS
  <1> USE DEF Init, EmptySolution
  <1>1. sol \in Solution
    BY DEF Solution
  <1>2. TypeOK
    BY <1>1 DEF TypeOK, Phases
  <1>3. OrdersConserved
    BY DEF OrdersConserved, Conserved
  <1>4. Accounted(sol)
    <2> SUFFICES ASSUME NEW v \in Vehicles
                 PROVE  /\ sol.usage[v] = Cardinality(Driving(sol.loads, v))
                        /\ sol.usage[v] <= MaxUsable[v]
      BY DEF Accounted
    <2>1. Driving(sol.loads, v) = {}
      BY DEF Driving
    <2>2. MaxUsable[v] \in Nat /\ sol.usage[v] = 0
      BY FleetAssumption
    <2> QED
      BY <2>1, <2>2, FS_EmptySet
  <1> QED
    BY <1>2, <1>3, <1>4
    DEF IInv, ThrownEndsMove, VehiclesAccounted, TodoCurrent, LoadsSound,
        CellsCurrent, IdleIsPool

----------------------------------------------------------------------------
(* Ruin *)

\* Choosing what to ruin names positions of loads and orders they carry.
LEMMA SelectIInv == IInv /\ Select => IInv'
  <1> SUFFICES ASSUME IInv, Select PROVE IInv'
    OBVIOUS
  <1> USE DEF IInv
  <1>1. /\ DOMAIN todo' \subseteq DOMAIN sol.loads
        /\ \A i \in DOMAIN todo' : todo'[i] \subseteq sol.loads[i].orders
    BY DEF Select, SelectLoads, SelectOrders
  <1>2. \A i \in DOMAIN sol.loads : sol.loads[i].orders \subseteq Orders
    BY SolutionParts DEF TypeOK
  <1>3. TypeOK'
    BY <1>1, <1>2 DEF TypeOK, Select, Phases
  <1>4. TodoCurrent'
    BY <1>1 DEF TodoCurrent, Select
  <1>5. LoadsSound'
    BY DEF LoadsSound, Select
  <1> QED
    BY <1>3, <1>4, <1>5
    DEF Select, OrdersConserved, ThrownEndsMove, VehiclesAccounted,
        CellsCurrent, IdleIsPool

\* Removing the load at the head of the list disturbs no position below it.
LEMMA DiscardIInv ==
  ASSUME IInv, phase \in {"ruin", "shed"}, NEW i, NextToRuin(i),
         Discard(i, "ruin"), todo' = RestOfTodo(i), UNCHANGED <<idle, cells, rounds>>
  PROVE  IInv'
  <1> USE DEF IInv
  <1>1. sol \in Solution /\ i \in DOMAIN sol.loads
    BY DEF TypeOK, NextToRuin
  <1>2. thrown = "none" /\ Accounted(sol) /\ Conserved(sol)
    BY DEF ThrownEndsMove, VehiclesAccounted, OrdersConserved
  <1>3. ~ RemoveLoadThrows(sol, i) /\ Accounted(RemoveLoadByInd(sol, i))
    BY <1>1, <1>2, RemoveLoadAccounts
  <1>4. /\ sol' = RemoveLoadByInd(sol, i)
        /\ thrown' = "none" /\ phase' = "ruin"
    BY <1>2, <1>3 DEF Discard
  <1>5. sol' \in Solution /\ Conserved(sol')
    BY <1>1, <1>2, <1>4, RemoveLoadConserves
  <1>6. /\ sol.loads \in Seq(Load)
        /\ Len(sol.loads) \in Nat
        /\ DOMAIN sol.loads = 1 .. Len(sol.loads)
        /\ sol'.loads = RemovedAt(sol.loads, i)
        /\ DOMAIN sol'.loads = 1 .. Len(sol.loads) - 1
        /\ \A j \in 1 .. Len(sol.loads) - 1 :
             sol'.loads[j] = IF j < i THEN sol.loads[j] ELSE sol.loads[j + 1]
    BY <1>1, <1>4, SolutionParts, RemovedAtType DEF RemoveLoadByInd
  <1>7. \A j \in DOMAIN todo' : j \in DOMAIN todo /\ j < i /\ todo'[j] = todo[j]
    BY <1>1, <1>6 DEF NextToRuin, RestOfTodo, TypeOK
  <1>8. \A j \in DOMAIN todo' :
          j \in DOMAIN sol'.loads /\ sol'.loads[j] = sol.loads[j]
    BY <1>1, <1>6, <1>7 DEF TypeOK
  <1>9. TypeOK'
    BY <1>4, <1>5, <1>7, <1>8 DEF TypeOK, Phases
  <1>10. TodoCurrent'
    <2> SUFFICES ASSUME NEW j \in DOMAIN todo'
                 PROVE  todo[j] \subseteq sol.loads[j].orders
      BY <1>7, <1>8 DEF TodoCurrent
    <2>1. ~ NextToRuin(j)
      BY <1>1, <1>6, <1>7 DEF NextToRuin, TypeOK
    <2> QED
      BY <1>7, <2>1 DEF TodoCurrent
  <1>11. LoadsSound'
    <2>1. \A k \in DOMAIN sol.loads : k # i =>
            sol.loads[k].orders # {} /\ sol.loads[k].verdict = "feasible"
      BY <1>1, <1>6 DEF LoadsSound, NextToRuin, TypeOK
    <2> SUFFICES ASSUME NEW j \in DOMAIN sol'.loads
                 PROVE  /\ sol'.loads[j].orders # {}
                        /\ sol'.loads[j].verdict = "feasible"
      BY DEF LoadsSound
    <2> DEFINE k == IF j < i THEN j ELSE j + 1
    <2>2. k \in DOMAIN sol.loads /\ k # i /\ sol'.loads[j] = sol.loads[k]
      BY <1>1, <1>6
    <2> HIDE DEF k
    <2> QED
      BY <2>1, <2>2
  <1> QED
    BY <1>3, <1>4, <1>5, <1>9, <1>10, <1>11
    DEF OrdersConserved, ThrownEndsMove, VehiclesAccounted, CellsCurrent, IdleIsPool

\* Dropping some but not all orders of the load at the head keeps it in its
\* place, at the head of the list exactly while it is infeasible.
LEMMA DropIInv ==
  ASSUME IInv, phase \in {"ruin", "shed"}, NEW i, NextToRuin(i),
         NEW gone \in SUBSET sol.loads[i].orders, gone # sol.loads[i].orders,
         NEW verdict \in {"feasible", "infeasible"},
         sol' = DropOrders(sol, i, gone, verdict),
         IF verdict = "feasible" THEN phase' = "ruin" /\ todo' = RestOfTodo(i)
                                 ELSE phase' = "shed" /\ todo' = todo,
         UNCHANGED <<idle, cells, rounds, thrown>>
  PROVE  IInv'
  <1> USE DEF IInv
  <1>1. sol \in Solution /\ i \in DOMAIN sol.loads
    BY DEF TypeOK, NextToRuin
  <1>2. thrown = "none" /\ Accounted(sol) /\ Conserved(sol)
    BY DEF ThrownEndsMove, VehiclesAccounted, OrdersConserved
  <1>3. sol' \in Solution /\ Conserved(sol')
    BY <1>1, <1>2, DropOrdersConserves DEF Verdict
  <1>4. Accounted(sol')
    BY <1>1, <1>2, DropOrdersAccounts
  <1>5. /\ DOMAIN sol'.loads = DOMAIN sol.loads
        /\ sol'.loads[i].orders = sol.loads[i].orders \ gone
        /\ sol'.loads[i].verdict = verdict
        /\ \A k \in DOMAIN sol.loads : k # i => sol'.loads[k] = sol.loads[k]
    BY <1>1, DropOrdersParts
  <1>6. \A j \in DOMAIN todo : j # i => ~ NextToRuin(j) /\ j \in DOMAIN sol.loads
    <2>1. \A j \in DOMAIN todo : j \in Int
      BY <1>1, SolutionParts DEF TypeOK
    <2> QED
      BY <2>1 DEF NextToRuin, TypeOK
  <1>7. /\ DOMAIN todo' \subseteq DOMAIN todo
        /\ \A j \in DOMAIN todo' : todo'[j] = todo[j]
        /\ verdict = "feasible" => i \notin DOMAIN todo' /\ phase' = "ruin"
        /\ verdict = "infeasible" => todo' = todo /\ phase' = "shed"
    BY DEF RestOfTodo
  <1>8. TypeOK'
    BY <1>3, <1>5, <1>7 DEF TypeOK, Phases
  <1>9. TodoCurrent'
    <2> SUFFICES ASSUME NEW j \in DOMAIN todo',
                        phase' = "ruin" \/ (phase' = "shed" /\ ~ NextToRuin(j)')
                 PROVE  todo'[j] \subseteq sol'.loads[j].orders
      BY <1>8 DEF TodoCurrent, TypeOK
    <2>1. j # i
      BY <1>7 DEF NextToRuin
    <2>2. todo[j] \subseteq sol.loads[j].orders
      BY <1>6, <1>7, <2>1 DEF TodoCurrent
    <2> QED
      BY <1>5, <1>6, <1>7, <2>1, <2>2
  <1>10. LoadsSound'
    <2> SUFFICES ASSUME NEW k \in DOMAIN sol.loads
                 PROVE  /\ sol'.loads[k].orders # {}
                        /\ \/ sol'.loads[k].verdict = "feasible"
                           \/ phase' = "shed" /\ NextToRuin(k)'
      BY <1>5 DEF LoadsSound
    <2>1. CASE k = i
      BY <1>5, <1>7, <2>1 DEF NextToRuin
    <2>2. CASE k # i
      <3>1. ~ NextToRuin(k)
        BY <1>6, <2>2 DEF NextToRuin
      <3> QED
        BY <1>5, <2>2, <3>1 DEF LoadsSound
    <2> QED
      BY <2>1, <2>2
  <1> QED
    BY <1>2, <1>3, <1>4, <1>7, <1>8, <1>9, <1>10
    DEF OrdersConserved, ThrownEndsMove, VehiclesAccounted, CellsCurrent, IdleIsPool

----------------------------------------------------------------------------
(* Repair *)

\* A feasible cell holds its load with the order inserted, on a vehicle type.
LEMMA EvalCellType ==
  ASSUME NEW s \in Solution, NEW o \in Orders, NEW i \in DOMAIN s.loads,
         NEW c \in EvalCell(s, o, i)
  PROVE  /\ c \in Cell
         /\ c # Infeasible => /\ c.veh \in Vehicles
                              /\ c.orders = s.loads[i].orders \cup {o}
  <1>1. s.loads[i].orders \cup {o} \subseteq Orders
    BY SolutionParts
  <1> QED
    BY <1>1 DEF EvalCell, Cell

\* A matrix of cells is current for the loads of a solution.
CurrentFor(m, rows, s) ==
  /\ DOMAIN m = rows
  /\ \A o \in rows :
       /\ m[o] \in Seq(Cell)
       /\ DOMAIN m[o] = DOMAIN s.loads
       /\ \A j \in DOMAIN s.loads :
            m[o][j] # Infeasible => m[o][j].orders = s.loads[j].orders \cup {o}

\* Cells that are current for the other columns are current after column i is
\* evaluated.
LEMMA RefreshCurrent ==
  ASSUME NEW s \in Solution, NEW rows \in SUBSET Orders, NEW i \in DOMAIN s.loads,
         NEW old, NEW new \in Refreshed(old, s, rows, i),
         \A o \in rows : \A j \in DOMAIN s.loads \ {i} :
           /\ old[o][j] \in Cell
           /\ old[o][j] # Infeasible =>
                old[o][j].orders = s.loads[j].orders \cup {o}
  PROVE  CurrentFor(new, rows, s)
  <1>1. PICK c : /\ \A o \in rows : c[o] \in EvalCell(s, o, i)
                 /\ new = [o \in rows |-> [j \in DOMAIN s.loads |->
                             IF j = i THEN c[o] ELSE old[o][j]]]
    BY DEF Refreshed
  <1>2. \A o \in rows : /\ c[o] \in Cell
                        /\ c[o] # Infeasible =>
                             c[o].orders = s.loads[i].orders \cup {o}
    BY <1>1, EvalCellType
  <1>3. DOMAIN s.loads = 1 .. Len(s.loads) /\ Len(s.loads) \in Nat
    BY SolutionParts
  <1>4. \A o \in rows :
          /\ DOMAIN new[o] = DOMAIN s.loads
          /\ \A j \in DOMAIN s.loads :
               new[o][j] = IF j = i THEN c[o] ELSE old[o][j]
    BY <1>1
  <1>5. \A o \in rows : new[o] \in Seq(Cell)
    <2> TAKE o \in rows
    <2>1. new[o] = [j \in 1 .. Len(s.loads) |->
                      IF j = i THEN c[o] ELSE old[o][j]]
      BY <1>1, <1>3
    <2>2. \A j \in 1 .. Len(s.loads) :
            (IF j = i THEN c[o] ELSE old[o][j]) \in Cell
      BY <1>2, <1>3
    <2> QED
      BY <1>3, <2>1, <2>2
  <1>6. \A o \in rows : \A j \in DOMAIN s.loads :
          new[o][j] # Infeasible => new[o][j].orders = s.loads[j].orders \cup {o}
    BY <1>2, <1>4
  <1> QED
    BY <1>1, <1>4, <1>5, <1>6 DEF CurrentFor

\* Building the matrix evaluates every cell against the present solution.
LEMMA BuildIInv == IInv /\ Build => IInv'
  <1> SUFFICES ASSUME IInv, Build PROVE IInv'
    OBVIOUS
  <1> USE DEF IInv
  <1>1. /\ sol \in Solution /\ sol.unassigned \subseteq Orders
        /\ DOMAIN sol.loads = 1 .. Len(sol.loads) /\ Len(sol.loads) \in Nat
    BY SolutionParts DEF TypeOK
  <1>2. /\ idle' = sol.unassigned /\ rounds' = Cardinality(sol.unassigned)
        /\ phase' = "repair" /\ phase = "build" /\ UNCHANGED <<sol, todo, thrown>>
    BY DEF Build
  <1>3. /\ DOMAIN cells' = sol.unassigned
        /\ \A o \in sol.unassigned :
             /\ DOMAIN cells'[o] = DOMAIN sol.loads
             /\ \A i \in DOMAIN sol.loads : cells'[o][i] \in EvalCell(sol, o, i)
             /\ cells'[o] = [i \in DOMAIN sol.loads |-> cells'[o][i]]
    BY DEF Build
  <1>4. \A o \in sol.unassigned : \A i \in DOMAIN sol.loads :
          /\ cells'[o][i] \in Cell
          /\ cells'[o][i] # Infeasible =>
               cells'[o][i].orders = sol.loads[i].orders \cup {o}
    <2> TAKE o \in sol.unassigned
    <2> TAKE i \in DOMAIN sol.loads
    <2>1. o \in Orders /\ cells'[o][i] \in EvalCell(sol, o, i)
      BY <1>1, <1>3
    <2> QED
      BY <1>1, <2>1, EvalCellType
  <1>5. \A o \in sol.unassigned : cells'[o] \in Seq(Cell)
    <2> TAKE o \in sol.unassigned
    <2>1. cells'[o] = [i \in 1 .. Len(sol.loads) |-> cells'[o][i]]
      BY <1>1, <1>3
    <2>2. \A i \in 1 .. Len(sol.loads) : cells'[o][i] \in Cell
      BY <1>1, <1>4
    <2> QED
      BY <1>1, <2>1, <2>2
  <1>6. rounds' \in Nat
    BY <1>1, <1>2, OrdersAssumption, FS_Subset, FS_CardinalityType
  <1>7. TypeOK'
    BY <1>1, <1>2, <1>3, <1>5, <1>6 DEF TypeOK, Phases
  <1>8. CellsCurrent' /\ IdleIsPool'
    BY <1>2, <1>3, <1>4 DEF CellsCurrent, IdleIsPool, IsFeasible
  <1> QED
    BY <1>2, <1>7, <1>8
    DEF OrdersConserved, ThrownEndsMove, VehiclesAccounted, TodoCurrent, LoadsSound

\* Taking one order out of a finite set of idle orders takes one round.
LEMMA OneRound ==
  ASSUME IInv, phase = "repair", NEW o \in idle, idle' = idle \ {o},
         rounds' = rounds - 1
  PROVE  rounds' = Cardinality(idle') /\ rounds' \in Nat
  <1>1. IsFiniteSet(idle) /\ idle \subseteq Orders /\ rounds = Cardinality(idle)
    BY OrdersAssumption, FS_Subset DEF IInv, TypeOK, IdleIsPool
  <1>2. IsFiniteSet(idle') /\ Cardinality(idle') = Cardinality(idle) - 1
    BY <1>1, FS_RemoveElement
  <1> QED
    BY <1>1, <1>2, FS_CardinalityType

\* Applying a cell exchanges one load; only its column changes.
LEMMA UseSegmentIInv ==
  ASSUME IInv, NEW o \in idle, NEW i \in DOMAIN sol.loads, UseSegment(o, i)
  PROVE  IInv'
  <1> USE DEF IInv
  <1> DEFINE cell == cells[o][i]
             load == [veh |-> cell.veh, orders |-> cell.orders, verdict |-> "feasible"]
  <1>1. /\ sol \in Solution /\ Conserved(sol) /\ idle = sol.unassigned
        /\ phase = "repair" /\ thrown = "none" /\ Accounted(sol)
        /\ o \in Orders /\ o \in sol.unassigned
    BY DEF UseSegment, TypeOK, OrdersConserved, IdleIsPool, ThrownEndsMove,
           VehiclesAccounted
  <1>2. /\ cell \in Cell /\ cell # Infeasible
        /\ cell.orders = sol.loads[i].orders \cup {o}
    BY <1>1, SeqElements DEF UseSegment, TypeOK, CellsCurrent, IsFeasible
  <1>3. load \in Load /\ load.orders = sol.loads[i].orders \cup {o}
        /\ load.verdict = "feasible" /\ load.orders # {}
    <2>1. cell.veh \in Vehicles /\ cell.orders \subseteq Orders
      BY <1>2 DEF Cell
    <2> HIDE DEF cell
    <2> QED
      BY <1>2, <2>1 DEF Load, Verdict
  <1> HIDE DEF load, cell
  <1>4. CASE UpdateLoadThrows(sol, i, load)
    <2>1. /\ sol' = UpdateLoad(sol, i, load)
          /\ thrown' = "update_load" /\ phase' = "crashed"
          /\ UNCHANGED <<todo, idle, cells, rounds>>
      BY <1>4 DEF UseSegment, load, cell
    <2>2. sol' \in Solution /\ Conserved(sol') /\ DOMAIN sol'.loads = DOMAIN sol.loads
      BY <1>1, <1>3, <1>4, <2>1, UpdateLoadThrowsConserves
    <2>3. TypeOK'
      BY <2>1, <2>2 DEF TypeOK, Phases
    <2> QED
      BY <2>1, <2>2, <2>3
      DEF OrdersConserved, ThrownEndsMove, VehiclesAccounted, TodoCurrent,
          LoadsSound, CellsCurrent, IdleIsPool
  <1>5. CASE ~ UpdateLoadThrows(sol, i, load)
    <2>1. /\ sol' = [UpdateLoad(sol, i, load) EXCEPT !.unassigned = @ \ {o}]
          /\ idle' = idle \ {o} /\ rounds' = rounds - 1
          /\ cells' \in Refreshed(cells, sol', idle', i)
          /\ UNCHANGED <<phase, thrown, todo>>
      BY <1>5 DEF UseSegment, load, cell
    <2>2. /\ sol' \in Solution /\ Conserved(sol')
          /\ sol'.loads = [sol.loads EXCEPT ![i] = load]
          /\ sol'.unassigned = sol.unassigned \ {o}
          /\ sol'.usage = Occupied(Released(sol.usage, sol.loads[i].veh), load.veh)
      BY <1>1, <1>3, <1>5, <2>1, UpdateLoadConserves
    <2>3. Accounted(sol')
      BY <1>1, <1>3, <1>5, <2>2, UpdateLoadAccounts
    <2>4. /\ DOMAIN sol'.loads = DOMAIN sol.loads
          /\ sol'.loads[i] = load
          /\ \A j \in DOMAIN sol.loads \ {i} : sol'.loads[j] = sol.loads[j]
      BY <1>1, <2>2, SolutionParts
    <2>5. \A p \in idle' : \A j \in DOMAIN sol'.loads \ {i} :
            /\ cells[p][j] \in Cell
            /\ cells[p][j] # Infeasible =>
                 cells[p][j].orders = sol'.loads[j].orders \cup {p}
      BY <1>1, <2>1, <2>4, SeqElements DEF TypeOK, CellsCurrent, IsFeasible
    <2>6. idle' \in SUBSET Orders
      BY <2>1 DEF TypeOK
    <2>7. CurrentFor(cells', idle', sol')
      <3> DEFINE s == sol'
                 rows == idle'
                 new == cells'
      <3>1. /\ s \in Solution /\ rows \in SUBSET Orders /\ i \in DOMAIN s.loads
            /\ new \in Refreshed(cells, s, rows, i)
        BY <2>1, <2>2, <2>4, <2>6
      <3>2. \A p \in rows : \A j \in DOMAIN s.loads \ {i} :
              /\ cells[p][j] \in Cell
              /\ cells[p][j] # Infeasible =>
                   cells[p][j].orders = s.loads[j].orders \cup {p}
        BY <2>5
      <3> HIDE DEF s, rows, new
      <3>3. CurrentFor(new, rows, s)
        BY <3>1, <3>2, RefreshCurrent
      <3> QED
        BY <3>3 DEF s, rows, new
    <2>8. rounds' = Cardinality(idle') /\ rounds' \in Nat
      BY <1>1, <2>1, OneRound
    <2>9. TypeOK'
      BY <1>1, <2>1, <2>2, <2>4, <2>6, <2>7, <2>8 DEF TypeOK, CurrentFor
    <2>10. LoadsSound'
      BY <1>1, <1>3, <2>1, <2>4 DEF LoadsSound
    <2>11. CellsCurrent' /\ IdleIsPool'
      BY <1>1, <2>1, <2>2, <2>7, <2>8 DEF CellsCurrent, IdleIsPool, IsFeasible, CurrentFor
    <2> QED
      BY <1>1, <2>1, <2>2, <2>3, <2>9, <2>10, <2>11
      DEF OrdersConserved, ThrownEndsMove, VehiclesAccounted, TodoCurrent
  <1> QED
    BY <1>4, <1>5

\* A segment that opens a load takes an available vehicle and its order out of
\* the pool; the new load's column is appended.
LEMMA CreateLoadIInv ==
  ASSUME IInv, NEW o \in idle, NEW v \in Vehicles, CreateLoad(o, v)
  PROVE  IInv'
  <1> USE DEF IInv
  <1> DEFINE load == [veh |-> v, orders |-> {o}, verdict |-> "feasible"]
             last == Len(sol.loads) + 1
  <1>1. /\ sol \in Solution /\ Conserved(sol) /\ idle = sol.unassigned
        /\ phase = "repair" /\ thrown = "none" /\ Accounted(sol)
        /\ o \in Orders
    BY DEF CreateLoad, TypeOK, OrdersConserved, IdleIsPool, ThrownEndsMove,
           VehiclesAccounted
  <1>2. /\ load \in Load /\ load.orders = {o} /\ load.verdict = "feasible"
        /\ HasAvailableVehicle(sol, load.veh)
    BY <1>1 DEF Load, Verdict, CreateLoad
  <1>3. /\ sol' = AddLoad(sol, load)
        /\ idle' = idle \ {o} /\ rounds' = rounds - 1
        /\ cells' \in Refreshed(cells, sol', idle', Len(sol'.loads))
        /\ todo' = todo
        /\ ~ AddLoadThrows(sol, load) => UNCHANGED <<phase, thrown>>
    BY DEF CreateLoad
  <1> HIDE DEF load
  <1>4. /\ ~ AddLoadThrows(sol, load) /\ Accounted(sol')
        /\ sol' \in Solution /\ Conserved(sol')
        /\ sol'.loads = Append(sol.loads, load)
        /\ sol'.unassigned = sol.unassigned \ {o}
    <2>1. {o} \subseteq sol.unassigned
      BY <1>1
    <2> QED
      BY <1>1, <1>2, <1>3, <2>1, AddLoadAccounts, AddLoadConserves
  <1>5. /\ Len(sol'.loads) = last /\ last \notin DOMAIN sol.loads
        /\ DOMAIN sol'.loads = DOMAIN sol.loads \cup {last}
        /\ sol'.loads[last] = load
        /\ \A j \in DOMAIN sol.loads : sol'.loads[j] = sol.loads[j]
    <2>1. sol.loads \in Seq(Load) /\ Len(sol.loads) \in Nat
          /\ DOMAIN sol.loads = 1 .. Len(sol.loads)
      BY <1>1, SolutionParts
    <2> QED
      BY <1>2, <1>4, <2>1
  <1> HIDE DEF last
  <1>6. CurrentFor(cells', idle', sol')
    <2> DEFINE s == sol'
               rows == idle'
               new == cells'
    <2>1. /\ s \in Solution /\ rows \in SUBSET Orders /\ last \in DOMAIN s.loads
          /\ new \in Refreshed(cells, s, rows, last)
      BY <1>3, <1>4, <1>5 DEF TypeOK
    <2>2. \A p \in rows : \A j \in DOMAIN s.loads \ {last} :
            /\ cells[p][j] \in Cell
            /\ cells[p][j] # Infeasible =>
                 cells[p][j].orders = s.loads[j].orders \cup {p}
      BY <1>1, <1>3, <1>5, SeqElements DEF TypeOK, CellsCurrent, IsFeasible
    <2> HIDE DEF s, rows, new
    <2>3. CurrentFor(new, rows, s)
      BY <2>1, <2>2, RefreshCurrent
    <2> QED
      BY <2>3 DEF s, rows, new
  <1>7. rounds' = Cardinality(idle') /\ rounds' \in Nat
    BY <1>1, <1>3, OneRound
  <1>8. TypeOK'
    BY <1>1, <1>3, <1>4, <1>5, <1>6, <1>7 DEF TypeOK, CurrentFor
  <1>9. LoadsSound'
    BY <1>1, <1>2, <1>3, <1>4, <1>5 DEF LoadsSound
  <1>10. CellsCurrent' /\ IdleIsPool'
    BY <1>1, <1>3, <1>4, <1>6, <1>7 DEF CellsCurrent, IdleIsPool, IsFeasible, CurrentFor
  <1> QED
    BY <1>1, <1>3, <1>4, <1>8, <1>9, <1>10
    DEF OrdersConserved, ThrownEndsMove, VehiclesAccounted, TodoCurrent

----------------------------------------------------------------------------
\* Every step keeps the invariant.
LEMMA NextIInv == IInv /\ [Next]_vars => IInv'
  <1> SUFFICES ASSUME IInv, [Next]_vars PROVE IInv'
    OBVIOUS
  <1>1. CASE Select
    BY <1>1, SelectIInv
  <1>2. ASSUME NEW i \in DOMAIN todo, RuinWhole(i) PROVE IInv'
    BY <1>2, DiscardIInv DEF RuinWhole
  <1>3. ASSUME NEW i \in DOMAIN todo, RuinPart(i) PROVE IInv'
    <2>1. /\ phase = "ruin" /\ NextToRuin(i) /\ ~ WholeLoad(i)
          /\ UNCHANGED <<idle, cells, rounds, thrown>>
      BY <1>3 DEF RuinPart
    <2>2. todo[i] \in SUBSET sol.loads[i].orders /\ todo[i] # sol.loads[i].orders
      BY <2>1 DEF IInv, TodoCurrent, WholeLoad
    <2>3. PICK verdict \in {"feasible", "infeasible"} :
            /\ sol' = DropOrders(sol, i, todo[i], verdict)
            /\ IF verdict = "feasible"
               THEN phase' = "ruin" /\ todo' = RestOfTodo(i)
               ELSE phase' = "shed" /\ todo' = todo
      BY <1>3 DEF RuinPart
    <2> QED
      BY <2>1, <2>2, <2>3, DropIInv
  <1>4. ASSUME NEW i \in DOMAIN todo, Shed(i) PROVE IInv'
    <2>1. /\ phase = "shed" /\ NextToRuin(i)
          /\ UNCHANGED <<idle, cells, rounds>>
      BY <1>4 DEF Shed
    <2>2. PICK last \in sol.loads[i].orders :
            IF sol.loads[i].orders = {last}
            THEN /\ Discard(i, "ruin")
                 /\ todo' = RestOfTodo(i)
            ELSE \E verdict \in {"feasible", "infeasible"} :
                   /\ sol' = DropOrders(sol, i, {last}, verdict)
                   /\ IF verdict = "feasible"
                      THEN phase' = "ruin" /\ todo' = RestOfTodo(i)
                      ELSE phase' = "shed" /\ todo' = todo
                   /\ thrown' = thrown
      BY <1>4 DEF Shed
    <2>3. CASE sol.loads[i].orders = {last}
      BY <2>1, <2>2, <2>3, DiscardIInv
    <2>4. CASE sol.loads[i].orders # {last}
      <3>1. {last} \in SUBSET sol.loads[i].orders
        BY <2>2
      <3>2. PICK verdict \in {"feasible", "infeasible"} :
              /\ sol' = DropOrders(sol, i, {last}, verdict)
              /\ IF verdict = "feasible"
                 THEN phase' = "ruin" /\ todo' = RestOfTodo(i)
                 ELSE phase' = "shed" /\ todo' = todo
              /\ thrown' = thrown
        BY <2>2, <2>4
      <3> QED
        BY <2>1, <2>4, <3>1, <3>2, DropIInv
    <2> QED
      BY <2>3, <2>4
  <1>5. CASE RuinDone
    BY <1>5
    DEF RuinDone, IInv, TypeOK, Phases, OrdersConserved, ThrownEndsMove,
        VehiclesAccounted, TodoCurrent, LoadsSound, CellsCurrent, IdleIsPool
  <1>6. CASE Build
    BY <1>6, BuildIInv
  <1>7. ASSUME NEW o \in idle, NEW i \in DOMAIN sol.loads, UseSegment(o, i)
        PROVE  IInv'
    BY <1>7, UseSegmentIInv
  <1>8. ASSUME NEW o \in idle, NEW v \in Vehicles, CreateLoad(o, v)
        PROVE  IInv'
    BY <1>8, CreateLoadIInv
  <1>9. CASE RepairDone
    BY <1>9
    DEF RepairDone, IInv, TypeOK, Phases, OrdersConserved, ThrownEndsMove,
        VehiclesAccounted, TodoCurrent, LoadsSound, CellsCurrent, IdleIsPool
  <1>10. CASE UNCHANGED vars
    BY <1>10
    DEF vars, IInv, TypeOK, OrdersConserved, ThrownEndsMove, VehiclesAccounted,
        TodoCurrent, NextToRuin, LoadsSound, CellsCurrent, IsFeasible, IdleIsPool
  <1> QED
    BY <1>1, <1>2, <1>3, <1>4, <1>5, <1>6, <1>7, <1>8, <1>9, <1>10 DEF Next

LEMMA Invariance == Spec => []IInv
  BY InitIInv, NextIInv, PTL DEF Spec

----------------------------------------------------------------------------
\* Every variable keeps its type through ruin and repair.
THEOREM TypeCorrect == Spec => []TypeOK
  <1>1. IInv => TypeOK
    BY DEF IInv
  <1> QED
    BY <1>1, Invariance, PTL

\* No ruin, repair or shed step loses or duplicates an order: each is in the
\* pool or in exactly one load, also after update_load has thrown.
THEOREM OrdersAreConserved == Spec => []OrdersConserved
  <1>1. IInv => OrdersConserved
    BY DEF IInv
  <1> QED
    BY <1>1, Invariance, PTL

\* Until update_load throws, the vehicle accounts equal the number of loads on
\* each type and stay within the fleet.
THEOREM VehiclesAreAccounted == Spec => []VehiclesAccounted
  <1>1. IInv => VehiclesAccounted
    BY DEF IInv
  <1> QED
    BY <1>1, Invariance, PTL

\* No cell of the repair matrix is ever applied to a load that has changed
\* since the cell was evaluated.
THEOREM CellsAreCurrent == Spec => []CellsCurrent
  <1>1. IInv => CellsCurrent
    BY DEF IInv
  <1> QED
    BY <1>1, Invariance, PTL

\* The repair loop's bound is the number of idle segments, and these are the
\* pool of the solution.
THEOREM IdleSegmentsArePool == Spec => []IdleIsPool
  <1>1. IInv => IdleIsPool
    BY DEF IInv
  <1> QED
    BY <1>1, Invariance, PTL

\* A move leaves only feasible loads that carry orders, and the load indices it
\* works through stay those of the loads it selected.
THEOREM LoadsAreSound == Spec => [](LoadsSound /\ TodoCurrent)
  <1>1. IInv => LoadsSound /\ TodoCurrent
    BY DEF IInv
  <1> QED
    BY <1>1, Invariance, PTL

\* The one check of the solution space a move can fail is update_load's.
THEOREM OnlyUpdateLoadThrows == Spec => []OnlyUpdateThrows
  <1>1. IInv => OnlyUpdateThrows
    BY DEF IInv, ThrownEndsMove, OnlyUpdateThrows
  <1> QED
    BY <1>1, Invariance, PTL

\* A repair step takes no order out of a load, whichever cell it applies.
THEOREM RepairOnlyAdds == Spec => RepairKeepsOrders
  <1> DEFINE Keeps == phase = "repair" /\ thrown' = "none" =>
                        \A i \in DOMAIN sol.loads :
                          sol.loads[i].orders \subseteq sol'.loads[i].orders
  <1>1. IInv /\ [Next]_vars => [Keeps]_vars
    <2> SUFFICES ASSUME IInv, Next, phase = "repair", thrown' = "none",
                        NEW i \in DOMAIN sol.loads
                 PROVE  sol.loads[i].orders \subseteq sol'.loads[i].orders
      BY DEF vars
    <2>1. sol \in Solution /\ sol.loads \in Seq(Load)
      BY SolutionParts DEF IInv, TypeOK
    <2>2. ASSUME NEW o \in idle, NEW j \in DOMAIN sol.loads, UseSegment(o, j)
          PROVE  sol.loads[i].orders \subseteq sol'.loads[i].orders
      <3> DEFINE load == [veh |-> cells[o][j].veh, orders |-> cells[o][j].orders,
                          verdict |-> "feasible"]
      <3>1. /\ sol' = [UpdateLoad(sol, j, load) EXCEPT !.unassigned = @ \ {o}]
            /\ ~ UpdateLoadThrows(sol, j, load)
        BY <2>2 DEF UseSegment
      <3>2. sol'.loads = [sol.loads EXCEPT ![j] = load]
        BY <2>1, <3>1 DEF UpdateLoad, Solution
      <3>3. load.orders = sol.loads[j].orders \cup {o}
        BY <2>2 DEF UseSegment, IInv, CellsCurrent
      <3> HIDE DEF load
      <3> QED
        BY <2>1, <3>2, <3>3
    <2>3. ASSUME NEW o \in idle, NEW v \in Vehicles, CreateLoad(o, v)
          PROVE  sol.loads[i].orders \subseteq sol'.loads[i].orders
      <3>1. PICK load : sol'.loads = Append(sol.loads, load)
        BY <2>3 DEF CreateLoad, AddLoad
      <3>2. sol'.loads[i] = sol.loads[i]
        BY <2>1, <3>1, SeqElements
      <3> QED
        BY <3>2
    <2>4. CASE RepairDone
      BY <2>4 DEF RepairDone
    <2> QED
      BY <2>2, <2>3, <2>4
      DEF Next, Select, RuinWhole, RuinPart, Shed, RuinDone, Build
  <1>2. Spec => [][Keeps]_vars
    BY <1>1, Invariance, PTL DEF Spec
  <1> QED
    BY <1>2 DEF RepairKeepsOrders
=============================================================================
