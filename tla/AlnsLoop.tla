------------------------------ MODULE AlnsLoop ------------------------------
(***************************************************************************)
(* One call of `alns` from the strategy script: the three solutions that   *)
(* AlnsSolutionManager owns, the acceptance of AlnsSimulatedAnnealing, the *)
(* loop of AlnsModel::solve and the hand-over of its result to Workspace.  *)
(*                                                                         *)
(* Abstracted: a solution is its total_obj_val, a ruin and repair move     *)
(* sets that value to any other (the move itself is RuinRepair), and an    *)
(* acceptance probability between 0 and 1 is a choice, so temperature and  *)
(* operator weights, which only shift probabilities, are left out.         *)
(***************************************************************************)
EXTENDS Integers

CONSTANTS
  Objs,      \* values of total_obj_val
  Slots,     \* addresses a solution may be allocated at
  Configs    \* AlnsParameter and the operator counts a script may pass

Config == [max_iter : Nat, max_sub_iter : Nat, max_unimproved_iter : Nat,
           ruin_operator_count : Nat, repair_operator_count : Nat]

ASSUME ObjsAssumption == Objs \subseteq Int

ASSUME ConfigsAssumption == Configs \subseteq Config

Null == "null"

ASSUME SlotsAssumption == Null \notin Slots

VARIABLES
  phase,       \* where the call is
  cfg,         \* parameters of the call
  ws,          \* objective value of what the workspace holds
  heap,        \* the allocated solutions: address -> objective value
  best, cur, tmp,   \* the pointers of AlnsSolutionManager
  result,      \* the pointer solve returns
  iter,        \* outer iteration
  sub,         \* inner iterations still to run
  improvedAt   \* pre_update_best_sol_iter

vars == <<phase, cfg, ws, heap, best, cur, tmp, result, iter, sub, improvedAt>>

Phases == {"idle", "spin", "move", "judge", "report", "return",
           "failed", "undefined"}

TypeOK ==
  /\ phase \in Phases
  /\ cfg \in Configs
  /\ ws \in Objs
  /\ DOMAIN heap \subseteq Slots
  /\ heap \in [DOMAIN heap -> Objs]
  /\ {best, cur, tmp, result} \subseteq Slots \cup {Null}
  /\ iter \in Nat /\ sub \in Nat /\ improvedAt \in Nat

Init ==
  /\ phase = "idle"
  /\ cfg \in Configs
  /\ ws \in Objs
  /\ heap = [p \in {} |-> 0]
  /\ best = Null /\ cur = Null /\ tmp = Null /\ result = Null
  /\ iter = 0 /\ sub = 0 /\ improvedAt = 0

----------------------------------------------------------------------------
(* new and delete *)

Allocated(h, p, v) == [q \in DOMAIN h \cup {p} |-> IF q = p THEN v ELSE h[q]]

Deleted(h, P) == [q \in DOMAIN h \ P |-> h[q]]

Free(h) == Slots \ DOMAIN h

----------------------------------------------------------------------------
Running == phase \notin {"idle", "failed"}

\* The loop's head: solve reports at once when max_iter is no iteration.
NextIteration(i) == IF i < cfg.max_iter THEN "spin" ELSE "report"

\* AlnsSolutionManager copies the workspace three times.
Call(c, b, u, t) ==
  /\ ~ Running
  /\ b # u /\ u # t /\ b # t
  /\ cfg' = c
  /\ heap' = [p \in {b, u, t} |-> ws]
  /\ best' = b /\ cur' = u /\ tmp' = t
  /\ iter' = 0 /\ improvedAt' = 0 /\ sub' = 0
  /\ phase' = IF c.max_iter > 0 THEN "spin" ELSE "report"
  /\ UNCHANGED <<ws, result>>

\* roulette_wheel_operator: an index found in the accumulated weights; in an
\* empty list lower_bound finds the end, which is index 0.
CombinationInds ==
  LET count == cfg.ruin_operator_count * cfg.repair_operator_count
  IN IF count = 0 THEN {0} ELSE 0 .. count - 1

SpinKeepsIter ==
  /\ phase = "spin"
  /\ sub' = cfg.max_sub_iter
  /\ phase' = IF cfg.max_sub_iter > 0 /\ cfg.repair_operator_count = 0
              THEN "undefined" ELSE "move"
  /\ UNCHANGED <<cfg, ws, heap, best, cur, tmp, result, iter, improvedAt>>

\* The flat index is divided by the number of repair operators.
Spin ==
  /\ phase = "spin"
  /\ iter' = iter + 1
  /\ sub' = cfg.max_sub_iter
  /\ phase' = IF cfg.max_sub_iter > 0 /\ cfg.repair_operator_count = 0
              THEN "undefined" ELSE "move"
  /\ UNCHANGED <<cfg, ws, heap, best, cur, tmp, result, improvedAt>>

\* The chosen ruin and repair operators change tmp_sol in place.  A vector is
\* indexed past its end when there is no ruin operator.
Move(ind, obj) ==
  /\ phase = "move" /\ sub > 0
  /\ IF ind \div cfg.repair_operator_count < cfg.ruin_operator_count
     THEN /\ heap' = [heap EXCEPT ![tmp] = obj]
          /\ phase' = "judge"
     ELSE /\ heap' = heap
          /\ phase' = "undefined"
  /\ UNCHANGED <<cfg, ws, best, cur, tmp, result, iter, sub, improvedAt>>

\* An operator throws: the script fails, AlnsModel is destroyed with the three
\* solutions, and the workspace has not been touched.
MoveThrows ==
  /\ phase = "move" /\ sub > 0
  /\ phase' = "failed"
  /\ heap' = Deleted(heap, {best, cur, tmp})
  /\ best' = Null /\ cur' = Null /\ tmp' = Null
  /\ UNCHANGED <<cfg, ws, result, iter, sub, improvedAt>>

AcceptStatusUnordered(t, c, b) ==
  IF t < c THEN {"DOMINATE_CURRENT_SOLUTION"}
  ELSE IF t < b THEN {"DOMINATE_BEST_SOLUTION"}
  ELSE IF t = c THEN {"PROBABILITY_ACCEPT"}
  ELSE {"PROBABILITY_ACCEPT", "REJECT"}

\* cal_accept_status: the answers for the values of tmp, cur and best.
AcceptStatus(t, c, b) ==
  IF t < b THEN {"DOMINATE_BEST_SOLUTION"}
  ELSE IF t < c THEN {"DOMINATE_CURRENT_SOLUTION"}
  ELSE IF t = c THEN {"PROBABILITY_ACCEPT"}
  ELSE {"PROBABILITY_ACCEPT", "REJECT"}

UpdateSolShares(status, p, q) ==
  /\ phase = "judge" /\ phase' = "move"
  /\ status \in AcceptStatus(heap[tmp], heap[cur], heap[best])
  /\ sub' = sub - 1
  /\ improvedAt' = IF status = "DOMINATE_BEST_SOLUTION" THEN iter ELSE improvedAt
  /\ IF status = "DOMINATE_BEST_SOLUTION"
     THEN /\ p \in Free(heap)
          /\ heap' = Allocated(Deleted(heap, {best, cur}), p, heap[tmp])
          /\ best' = p /\ cur' = p /\ tmp' = tmp
     ELSE UNCHANGED <<heap, best, cur, tmp>>
  /\ UNCHANGED <<cfg, ws, result, iter>>

\* update_sol: each replaced solution is deleted before its successor, a copy
\* of another one, is allocated (at p, then at q).  Accepting by probability
\* only keeps tmp_sol as it is.
UpdateSol(status, p, q) ==
  /\ phase = "judge" /\ phase' = "move"
  /\ status \in AcceptStatus(heap[tmp], heap[cur], heap[best])
  /\ sub' = sub - 1
  /\ CASE status = "DOMINATE_BEST_SOLUTION" ->
            LET newBest == Allocated(Deleted(heap, {best}), p, heap[tmp])
            IN /\ p \notin DOMAIN heap \ {best}
               /\ q \notin DOMAIN newBest \ {cur}
               /\ heap' = Allocated(Deleted(newBest, {cur}), q, heap[tmp])
               /\ best' = p /\ cur' = q /\ tmp' = tmp
               /\ improvedAt' = iter
       [] status = "DOMINATE_CURRENT_SOLUTION" ->
            /\ p \notin DOMAIN heap \ {cur}
            /\ q = p
            /\ heap' = Allocated(Deleted(heap, {cur}), p, heap[tmp])
            /\ cur' = p
            /\ UNCHANGED <<best, tmp, improvedAt>>
       [] status = "REJECT" ->
            /\ p \notin DOMAIN heap \ {tmp}
            /\ q = p
            /\ heap' = Allocated(Deleted(heap, {tmp}), p, heap[cur])
            /\ tmp' = p
            /\ UNCHANGED <<best, cur, improvedAt>>
       [] OTHER ->
            /\ q = p
            /\ UNCHANGED <<heap, best, cur, tmp, improvedAt>>
  /\ UNCHANGED <<cfg, ws, result, iter>>

\* After the inner iterations the clock is read, then the improvements counted.
EndIteration(timeout) ==
  /\ phase = "move" /\ sub = 0
  /\ phase' = IF timeout \/ iter - improvedAt > cfg.max_unimproved_iter
              THEN "report" ELSE NextIteration(iter)
  /\ UNCHANGED <<cfg, ws, heap, best, cur, tmp, result, iter, sub, improvedAt>>

ReportTmp(p) ==
  /\ phase = "report"
  /\ p \in Free(heap)
  /\ heap' = Allocated(heap, p, heap[tmp])
  /\ result' = p
  /\ phase' = "return"
  /\ UNCHANGED <<cfg, ws, best, cur, tmp, iter, sub, improvedAt>>

\* The best solution is cloned: the manager goes on owning its own.
Report(p) ==
  /\ phase = "report"
  /\ p \in Free(heap)
  /\ heap' = Allocated(heap, p, heap[best])
  /\ result' = p
  /\ phase' = "return"
  /\ UNCHANGED <<cfg, ws, best, cur, tmp, iter, sub, improvedAt>>

\* move_solution takes the loads over and deletes the emptied solution, then
\* the model and its solutions go out of scope.
Return ==
  /\ phase = "return"
  /\ ws' = heap[result]
  /\ heap' = Deleted(heap, {result, best, cur, tmp})
  /\ best' = Null /\ cur' = Null /\ tmp' = Null /\ result' = Null
  /\ phase' = "idle"
  /\ UNCHANGED <<cfg, iter, sub, improvedAt>>

----------------------------------------------------------------------------
Statuses == {"DOMINATE_BEST_SOLUTION", "DOMINATE_CURRENT_SOLUTION",
             "PROBABILITY_ACCEPT", "REJECT"}

Next ==
  \/ \E c \in Configs : \E b, u, t \in Slots : Call(c, b, u, t)
  \/ Spin
  \/ \E ind \in CombinationInds : \E obj \in Objs : Move(ind, obj)
  \/ MoveThrows
  \/ \E status \in Statuses : \E p, q \in Slots : UpdateSol(status, p, q)
  \/ \E timeout \in BOOLEAN : EndIteration(timeout)
  \/ \E p \in Slots : Report(p)
  \/ Return

Spec == Init /\ [][Next]_vars

\* One thread drives the call; only whether there is a next one is open.
FairSpec == Spec /\ WF_vars(Next /\ Running)
----------------------------------------------------------------------------
(* Properties *)

\* No solution is shared, freed twice or leaked: while a call runs, the three
\* pointers and, once it exists, the result own one live object each, and
\* after the call none is left.  What a move does to tmp_sol can therefore
\* never reach best_sol or cur_sol.
SolutionsApart ==
  IF Running
  THEN /\ best # cur /\ cur # tmp /\ best # tmp
       /\ result \notin {best, cur, tmp}
       /\ DOMAIN heap = {best, cur, tmp}
                        \cup (IF phase = "return" THEN {result} ELSE {})
  ELSE DOMAIN heap = {}

\* The current solution is always as good as the best: the acceptance by
\* probability never moves it, so that DOMINATE_CURRENT_SOLUTION and its
\* operator score cannot occur, and a rejection returns to the best solution.
CurrentIsBest == Running => heap[cur] = heap[best]

\* After each verdict tmp_sol is no better than best_sol.
BestIsBest == phase \in {"spin", "move", "report", "return"} => heap[best] <= heap[tmp]

\* A call never leaves the workspace worse than it found it, and one that fails
\* leaves it alone.
WorkspaceNeverWorse ==
  [][ws' <= ws /\ (ws' # ws => phase = "return" /\ phase' = "idle")]_vars

\* docs/dsl_user_guide.md: the search ends once max_unimproved_iter iterations in a
\* row have not improved the best solution.  No further one begins then.
StopsAtLimit ==
  phase = "spin" /\ iter > improvedAt => iter - improvedAt < cfg.max_unimproved_iter

\* The strengthening that makes the properties above inductive.
ResultIsBest ==
  IF phase = "return" THEN heap[result] = heap[best] ELSE result = Null

BestFromWorkspace == Running => heap[best] <= ws

SubLeft == phase = "judge" => sub > 0

IInv ==
  /\ TypeOK /\ SolutionsApart /\ CurrentIsBest /\ BestIsBest
  /\ ResultIsBest /\ BestFromWorkspace /\ SubLeft

\* A call ends: with a result, by an exception or by undefined behaviour.
CallEnds == phase = "spin" ~> phase \in {"idle", "failed", "undefined"}
=============================================================================
