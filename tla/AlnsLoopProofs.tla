--------------------------- MODULE AlnsLoopProofs ---------------------------
(***************************************************************************)
(* The ownership and the order of the three solutions of an ALNS call, for *)
(* every set of objective values, addresses and parameters.                *)
(***************************************************************************)
EXTENDS AlnsLoop, TLAPS

USE ObjsAssumption, ConfigsAssumption, SlotsAssumption

\* What the invariant says while a call runs, in the form the steps use.
LEMMA InCall ==
  ASSUME IInv, Running
  PROVE  /\ {best, cur, tmp} \subseteq DOMAIN heap
         /\ best # cur /\ cur # tmp /\ best # tmp
         /\ heap[best] \in Int /\ heap[cur] \in Int /\ heap[tmp] \in Int
         /\ ws \in Int
         /\ phase # "return" => DOMAIN heap = {best, cur, tmp} /\ result = Null
         /\ heap[cur] = heap[best]
         /\ heap[best] <= ws
BY DEF IInv, TypeOK, SolutionsApart, CurrentIsBest, ResultIsBest, BestFromWorkspace

LEMMA InitIInv == Init => IInv
BY DEF Init, IInv, TypeOK, SolutionsApart, CurrentIsBest, BestIsBest,
       ResultIsBest, BestFromWorkspace, SubLeft, Running, Phases

LEMMA CallIInv ==
  ASSUME IInv, NEW c \in Configs, NEW b \in Slots, NEW u \in Slots, NEW t \in Slots,
         Call(c, b, u, t)
  PROVE  IInv'
<1>1. c \in Config
  OBVIOUS
<1>2. result = Null /\ ws \in Objs
  BY DEF Call, IInv, TypeOK, ResultIsBest, Running
<1>3. phase' \in {"spin", "report"}
  BY DEF Call
<1>4. TypeOK'
  BY <1>1, <1>2, <1>3 DEF Call, IInv, TypeOK, Phases
<1>5. SolutionsApart' /\ CurrentIsBest' /\ BestIsBest'
  BY <1>2, <1>3 DEF Call, SolutionsApart, CurrentIsBest, BestIsBest, Running
<1>6. ResultIsBest' /\ BestFromWorkspace'
  BY <1>2, <1>3 DEF Call, ResultIsBest, BestFromWorkspace, Running
<1> QED
  BY <1>3, <1>4, <1>5, <1>6 DEF IInv, SubLeft

LEMMA SpinIInv == IInv /\ Spin => IInv'
<1> SUFFICES ASSUME IInv, Spin
             PROVE  IInv'
  OBVIOUS
<1>1. cfg \in Config /\ iter \in Nat /\ improvedAt \in Nat
  BY DEF IInv, TypeOK
<1>2. phase = "spin" /\ phase' \in {"move", "undefined"} /\ Running /\ Running'
  BY DEF Spin, Running
<1>3. TypeOK'
  BY <1>1, <1>2 DEF Spin, IInv, TypeOK, Phases, Config
<1>4. SolutionsApart' /\ CurrentIsBest' /\ BestIsBest'
  BY <1>2 DEF Spin, IInv, SolutionsApart, CurrentIsBest, BestIsBest, Running
<1>5. ResultIsBest' /\ BestFromWorkspace'
  BY <1>2 DEF Spin, IInv, ResultIsBest, BestFromWorkspace, Running
<1> QED
  BY <1>2, <1>3, <1>4, <1>5 DEF IInv, SubLeft

LEMMA MoveIInv ==
  ASSUME IInv, NEW ind \in CombinationInds, NEW obj \in Objs, Move(ind, obj)
  PROVE  IInv'
<1>1. /\ phase = "move" /\ phase' \in {"judge", "undefined"}
      /\ Running /\ Running'
  BY DEF Move, Running
<1>2. /\ heap' \in {heap, [heap EXCEPT ![tmp] = obj]}
      /\ UNCHANGED <<cfg, ws, best, cur, tmp, result, iter, sub, improvedAt>>
  BY DEF Move
<1>3. /\ heap'[best] = heap[best] /\ heap'[cur] = heap[cur]
      /\ DOMAIN heap' = DOMAIN heap
      /\ heap' \in [DOMAIN heap -> Objs]
  BY <1>1, <1>2, InCall DEF IInv, TypeOK
<1>4. TypeOK'
  BY <1>1, <1>2, <1>3 DEF IInv, TypeOK, Phases
<1>5. SolutionsApart' /\ CurrentIsBest' /\ BestIsBest'
  BY <1>1, <1>2, <1>3 DEF IInv, SolutionsApart, CurrentIsBest, BestIsBest, Running
<1>6. ResultIsBest' /\ BestFromWorkspace'
  BY <1>1, <1>2, <1>3 DEF IInv, ResultIsBest, BestFromWorkspace
<1>7. SubLeft'
  BY <1>1, <1>2 DEF Move, SubLeft
<1> QED
  BY <1>4, <1>5, <1>6, <1>7 DEF IInv

LEMMA MoveThrowsIInv == IInv /\ MoveThrows => IInv'
<1> SUFFICES ASSUME IInv, MoveThrows
             PROVE  IInv'
  OBVIOUS
<1>1. phase = "move" /\ phase' = "failed" /\ Running /\ ~ Running'
  BY DEF MoveThrows, Running
<1>2. DOMAIN heap' = {}
  BY <1>1, InCall DEF MoveThrows, Deleted
<1>3. TypeOK'
  BY <1>1, <1>2 DEF MoveThrows, Deleted, IInv, TypeOK, Phases
<1> QED
  BY <1>1, <1>2, <1>3, InCall
  DEF MoveThrows, IInv, SolutionsApart, CurrentIsBest, BestIsBest, ResultIsBest,
      BestFromWorkspace, SubLeft

\* A verdict replaces solutions: the new heap and pointers, whatever the status.
LEMMA UpdateSolHeap ==
  ASSUME IInv, NEW status \in Statuses, NEW p \in Slots, NEW q \in Slots,
         UpdateSol(status, p, q)
  PROVE  /\ DOMAIN heap' = {best', cur', tmp'}
         /\ {best', cur', tmp'} \subseteq Slots
         /\ best' # cur' /\ cur' # tmp' /\ best' # tmp'
         /\ heap' \in [DOMAIN heap' -> Objs]
         /\ heap'[cur'] = heap'[best']
         /\ heap'[best'] <= heap'[tmp']
         /\ heap'[best'] <= heap[best]
         /\ improvedAt' \in {improvedAt, iter}
<1>1. phase = "judge" /\ Running /\ phase # "return"
  BY DEF UpdateSol, Running
<1>2. /\ DOMAIN heap = {best, cur, tmp} /\ DOMAIN heap \subseteq Slots
      /\ heap \in [DOMAIN heap -> Objs]
      /\ best # cur /\ cur # tmp /\ best # tmp
      /\ heap[cur] = heap[best]
      /\ heap[best] \in Int /\ heap[tmp] \in Int
  BY <1>1, InCall DEF IInv, TypeOK
<1>3. CASE status = "DOMINATE_BEST_SOLUTION"
  <2> DEFINE newBest == Allocated(Deleted(heap, {best}), p, heap[tmp])
  <2>1. /\ p \notin {cur, tmp} /\ q \notin DOMAIN newBest \ {cur}
        /\ heap' = Allocated(Deleted(newBest, {cur}), q, heap[tmp])
        /\ best' = p /\ cur' = q /\ tmp' = tmp /\ improvedAt' = iter
    BY <1>2, <1>3 DEF UpdateSol
  <2>2. heap[tmp] < heap[best]
    BY <1>2, <1>3 DEF UpdateSol, AcceptStatus
  <2>3. DOMAIN newBest = {p, cur, tmp} /\ newBest[tmp] = heap[tmp] /\ newBest[p] = heap[tmp]
    BY <1>2, <2>1 DEF Allocated, Deleted
  <2>4. q \notin {p, tmp}
    BY <1>2, <2>1, <2>3
  <2> HIDE DEF newBest
  <2>5. /\ DOMAIN heap' = {p, q, tmp}
        /\ heap'[p] = heap[tmp] /\ heap'[q] = heap[tmp] /\ heap'[tmp] = heap[tmp]
        /\ heap' = [a \in DOMAIN heap' |-> heap'[a]]
    BY <1>2, <2>1, <2>3, <2>4 DEF Allocated, Deleted
  <2>6. heap' \in [DOMAIN heap' -> Objs]
    BY <1>2, <2>5
  <2> QED
    BY <1>2, <2>1, <2>2, <2>4, <2>5, <2>6
<1>4. CASE status = "DOMINATE_CURRENT_SOLUTION"
  BY <1>2, <1>4 DEF UpdateSol, AcceptStatus
<1>5. CASE status = "REJECT"
  <2>1. /\ p \notin {best, cur}
        /\ heap' = Allocated(Deleted(heap, {tmp}), p, heap[cur])
        /\ tmp' = p /\ best' = best /\ cur' = cur /\ improvedAt' = improvedAt
    BY <1>2, <1>5 DEF UpdateSol
  <2>2. /\ DOMAIN heap' = {best, cur, p}
        /\ heap'[p] = heap[cur] /\ heap'[best] = heap[best] /\ heap'[cur] = heap[cur]
        /\ heap' = [a \in DOMAIN heap' |-> heap'[a]]
    BY <1>2, <2>1 DEF Allocated, Deleted
  <2>3. heap' \in [DOMAIN heap' -> Objs]
    BY <1>2, <2>2
  <2> QED
    BY <1>2, <2>1, <2>2, <2>3
<1>6. CASE status = "PROBABILITY_ACCEPT"
  <2>1. UNCHANGED <<heap, best, cur, tmp, improvedAt>>
    BY <1>6 DEF UpdateSol
  <2>2. heap[best] <= heap[tmp]
    BY <1>2, <1>6 DEF UpdateSol, AcceptStatus
  <2> QED
    BY <1>2, <2>1, <2>2
<1> QED
  BY <1>3, <1>4, <1>5, <1>6 DEF Statuses

LEMMA UpdateSolIInv ==
  ASSUME IInv, NEW status \in Statuses, NEW p \in Slots, NEW q \in Slots,
         UpdateSol(status, p, q)
  PROVE  IInv'
<1>1. /\ phase = "judge" /\ phase' = "move" /\ Running /\ Running'
      /\ UNCHANGED <<cfg, ws, result, iter>> /\ sub' = sub - 1
  BY DEF UpdateSol, Running
<1>2. result = Null /\ heap[best] <= ws /\ heap[best] \in Int /\ ws \in Int
  BY <1>1, InCall
<1>3. /\ cfg \in Config /\ iter \in Nat /\ improvedAt \in Nat /\ sub \in Nat
      /\ sub > 0
  BY <1>1 DEF IInv, TypeOK, SubLeft
<1>4. TypeOK'
  BY <1>1, <1>2, <1>3, UpdateSolHeap DEF IInv, TypeOK, Phases
<1>5. SolutionsApart' /\ CurrentIsBest' /\ BestIsBest' /\ ResultIsBest'
  BY <1>1, <1>2, UpdateSolHeap
  DEF SolutionsApart, CurrentIsBest, BestIsBest, ResultIsBest
<1>6. BestFromWorkspace'
  <2>1. heap'[best'] \in Int
    BY <1>4, UpdateSolHeap
  <2> QED
    BY <1>1, <1>2, <2>1, UpdateSolHeap DEF BestFromWorkspace
<1> QED
  BY <1>1, <1>4, <1>5, <1>6 DEF IInv, SubLeft

LEMMA EndIterationIInv ==
  ASSUME IInv, NEW timeout \in BOOLEAN, EndIteration(timeout)
  PROVE  IInv'
<1>1. /\ phase = "move" /\ phase' \in {"spin", "report"}
      /\ Running /\ Running'
      /\ UNCHANGED <<cfg, ws, heap, best, cur, tmp, result, iter, sub, improvedAt>>
  BY DEF EndIteration, NextIteration, Running
<1>2. TypeOK'
  BY <1>1 DEF IInv, TypeOK, Phases
<1>3. SolutionsApart' /\ CurrentIsBest' /\ BestIsBest'
  BY <1>1 DEF IInv, SolutionsApart, CurrentIsBest, BestIsBest
<1>4. ResultIsBest' /\ BestFromWorkspace' /\ SubLeft'
  BY <1>1 DEF IInv, ResultIsBest, BestFromWorkspace, SubLeft
<1> QED
  BY <1>2, <1>3, <1>4 DEF IInv

LEMMA ReportIInv ==
  ASSUME IInv, NEW p \in Slots, Report(p)
  PROVE  IInv'
<1>1. /\ phase = "report" /\ phase' = "return" /\ Running /\ Running'
      /\ UNCHANGED <<cfg, ws, best, cur, tmp, iter, sub, improvedAt>>
      /\ result' = p
  BY DEF Report, Running
<1>2. /\ DOMAIN heap = {best, cur, tmp} /\ heap \in [DOMAIN heap -> Objs]
      /\ DOMAIN heap \subseteq Slots
      /\ best # cur /\ cur # tmp /\ best # tmp
  BY <1>1, InCall DEF IInv, TypeOK
<1>3. /\ p \notin {best, cur, tmp}
      /\ heap' = Allocated(heap, p, heap[best])
  BY <1>2 DEF Report, Free
<1>4. /\ DOMAIN heap' = {best, cur, tmp, p}
      /\ \A a \in {best, cur, tmp} : heap'[a] = heap[a]
      /\ heap'[p] = heap[best]
      /\ heap' = [a \in DOMAIN heap' |-> heap'[a]]
  BY <1>2, <1>3 DEF Allocated
<1>5. heap' \in [DOMAIN heap' -> Objs]
  BY <1>2, <1>4
<1>6. TypeOK'
  BY <1>1, <1>2, <1>4, <1>5 DEF IInv, TypeOK, Phases
<1>7. SolutionsApart'
  BY <1>1, <1>2, <1>3, <1>4 DEF SolutionsApart
<1>8. CurrentIsBest' /\ BestIsBest' /\ ResultIsBest' /\ BestFromWorkspace'
  BY <1>1, <1>4 DEF IInv, CurrentIsBest, BestIsBest, ResultIsBest, BestFromWorkspace
<1>9. SubLeft'
  BY <1>1 DEF SubLeft
<1> QED
  BY <1>6, <1>7, <1>8, <1>9 DEF IInv

LEMMA ReturnIInv == IInv /\ Return => IInv'
<1> SUFFICES ASSUME IInv, Return
             PROVE  IInv'
  OBVIOUS
<1>1. /\ phase = "return" /\ phase' = "idle" /\ Running /\ ~ Running'
      /\ result' = Null /\ ws' = heap[result]
  BY DEF Return, Running
<1>2. DOMAIN heap = {best, cur, tmp, result}
  BY <1>1 DEF IInv, SolutionsApart
<1>3. DOMAIN heap' = {} /\ ws' \in Objs
  BY <1>1, <1>2 DEF Return, Deleted, IInv, TypeOK
<1>4. TypeOK'
  BY <1>1, <1>3 DEF Return, Deleted, IInv, TypeOK, Phases
<1> QED
  BY <1>1, <1>3, <1>4
  DEF Return, IInv, SolutionsApart, CurrentIsBest, BestIsBest, ResultIsBest,
      BestFromWorkspace, SubLeft

LEMMA Inductive == IInv /\ [Next]_vars => IInv'
<1> SUFFICES ASSUME IInv, [Next]_vars
             PROVE  IInv'
  OBVIOUS
<1>1. CASE UNCHANGED vars
  BY <1>1 DEF vars, IInv, TypeOK, SolutionsApart, CurrentIsBest, BestIsBest, Running,
              ResultIsBest, BestFromWorkspace, SubLeft
<1> QED
  BY <1>1, CallIInv, SpinIInv, MoveIInv, MoveThrowsIInv, UpdateSolIInv, EndIterationIInv,
     ReportIInv, ReturnIInv
  DEF Next

LEMMA Invariance == Spec => []IInv
  BY InitIInv, Inductive, PTL DEF Spec

----------------------------------------------------------------------------
\* Addresses, objective values and counters keep their types.
THEOREM TypeCorrect == Spec => []TypeOK
<1>1. IInv => TypeOK
  BY DEF IInv
<1> QED
  BY <1>1, Invariance, PTL

\* AlnsSolutionManager neither shares nor leaks a solution, at any address.
THEOREM SolutionsStayApart == Spec => []SolutionsApart
<1>1. IInv => SolutionsApart
  BY DEF IInv
<1> QED
  BY <1>1, Invariance, PTL

\* The current solution never differs in value from the best one, and the
\* working solution is never better than it after a verdict.
THEOREM CurrentStaysBest == Spec => [](CurrentIsBest /\ BestIsBest)
<1>1. IInv => CurrentIsBest /\ BestIsBest
  BY DEF IInv
<1> QED
  BY <1>1, Invariance, PTL

\* A call gives the workspace a solution at least as good, or leaves it alone.
THEOREM WorkspaceNeverWorsens == Spec => WorkspaceNeverWorse
<1>1. IInv /\ [Next]_vars => [ws' <= ws /\ (ws' # ws => phase = "return" /\ phase' = "idle")]_vars
  <2> SUFFICES ASSUME IInv, Next
               PROVE  ws' <= ws /\ (ws' # ws => phase = "return" /\ phase' = "idle")
    BY DEF WorkspaceNeverWorse
  <2>1. ws \in Int
    BY DEF IInv, TypeOK
  <2>2. CASE Return
    <3>1. phase = "return" /\ phase' = "idle" /\ ws' = heap[result] /\ Running
      BY <2>2 DEF Return, Running
    <3>2. heap[result] = heap[best] /\ heap[best] <= ws
      BY <3>1, InCall DEF IInv, ResultIsBest
    <3> QED
      BY <3>1, <3>2
  <2>3. CASE ~ Return
    <3>1. ws' = ws
      BY <2>3 DEF Next, Call, Spin, Move, MoveThrows, UpdateSol, EndIteration, Report
    <3> QED
      BY <2>1, <3>1
  <2> QED
    BY <2>2, <2>3
<1> QED
  BY <1>1, Invariance, PTL DEF Spec, WorkspaceNeverWorse
=============================================================================
