----------------------------- MODULE RouteTimes -----------------------------
(***************************************************************************)
(* The times of one route: Load::update_time_window with                   *)
(* TimeWindowInfer, one window of one earlier plan per step, the verdict   *)
(* of HcTimeWindow, and the backward inference that fills the exported     *)
(* schedule of an accepted route (Load::infer_time_window_plans).          *)
(*                                                                         *)
(* A plan is an interval of arrivals with the interval of departures it    *)
(* leads to; wait_time and over_time are those of the whole plan.          *)
(***************************************************************************)
EXTENDS Integers, Sequences

CONSTANT Routes   \* windows, work time and travel time of each node in turn

TimeWindow == [early : Int, late : Int]

Plan == [early_arr : Int, late_arr : Int, early_depart : Int, late_depart : Int,
         wait_time : Int, over_time : Int]

\* The windows of a node are disjoint and in order; no work is done at the start.
Ordered(tws) ==
  /\ \A v \in DOMAIN tws : tws[v].early <= tws[v].late
  /\ \A v, w \in DOMAIN tws : v < w => tws[v].late <= tws[w].early

IsRoute(r) ==
  /\ r.windows \in Seq(Seq(TimeWindow))
  /\ Len(r.windows) >= 2
  /\ r.travel \in [1 .. Len(r.windows) -> Int]
  /\ r.work \in [1 .. Len(r.windows) -> Int]
  /\ r.work[1] = 0
  /\ \A n \in 1 .. Len(r.windows) : Ordered(r.windows[n])

ASSUME RoutesAssumption == \A r \in Routes : IsRoute(r)

VARIABLES
  route,
  pc,     \* what is being inferred: "Plan" and "Window" forward, then "Judge",
          \* "Back" and an end, "Rejected" or "Exported"
  node,   \* head_node forward, cur_node backward
  pre,    \* index of the plan of the node before
  win,    \* index in ori_tws
  plan_node_tws_len, non_wait_over_flag,   \* the locals of forward_s_m
  ptws,   \* the plans of each node
  time_window_plans   \* of the nodes the backward inference has passed

vars == <<route, pc, node, pre, win, plan_node_tws_len, non_wait_over_flag, ptws,
          time_window_plans>>

N == Len(route.windows)

Nodes == 1 .. N

TypeOK ==
  /\ IsRoute(route)
  /\ pc \in {"Plan", "Window", "Judge", "Back", "Rejected", "Exported"}
  /\ node \in 0 .. N + 1
  /\ pre \in Nat \ {0}
  /\ win \in Nat \ {0}
  /\ plan_node_tws_len \in Nat
  /\ non_wait_over_flag \in BOOLEAN
  /\ ptws \in [Nodes -> Seq(Plan)]
  /\ DOMAIN time_window_plans \subseteq Nodes
  /\ time_window_plans \in [DOMAIN time_window_plans -> Plan]

Later(a, b) == IF a > b THEN a ELSE b

Earlier(a, b) == IF a < b THEN a ELSE b

\* create_time_window_plans: the first node is left when it is reached.
WindowPlan(w) ==
  [early_arr |-> w.early, late_arr |-> w.late, early_depart |-> w.early,
   late_depart |-> w.late, wait_time |-> 0, over_time |-> 0]

Init ==
  /\ route \in Routes
  /\ pc = "Plan" /\ node = 2 /\ pre = 1 /\ win = 1
  /\ plan_node_tws_len = 0 /\ non_wait_over_flag = FALSE
  /\ ptws = [n \in Nodes |->
               IF n = 1
               THEN [v \in 1 .. Len(route.windows[1]) |-> WindowPlan(route.windows[1][v])]
               ELSE <<>>]
  /\ time_window_plans = [n \in {} |-> 0]

----------------------------------------------------------------------------
(* Forward *)

EarlyArr(q, cost) == q.early_depart + cost

LateArr(q, cost) == q.late_depart + cost

Waits(q, cost, w) == LateArr(q, cost) < w.early

Misses(q, cost, w) == EarlyArr(q, cost) > w.late

Fits(q, cost, w) == ~ Waits(q, cost, w) /\ ~ Misses(q, cost, w)

\* (mutant) The latest departure leaves out the work.
TimesNoWork(early, late, wait, over, work) ==
  [early_arr |-> early, late_arr |-> late,
   early_depart |-> early + wait + work, late_depart |-> late + wait,
   wait_time |-> wait, over_time |-> over]

Times(early, late, wait, over, work) ==
  [early_arr |-> early, late_arr |-> late,
   early_depart |-> early + wait + work, late_depart |-> late + wait + work,
   wait_time |-> wait, over_time |-> over]

\* forward_s_s: from one plan into one window.
ForwardSS(q, cost, work, w) ==
  IF Misses(q, cost, w)
  THEN Times(EarlyArr(q, cost), EarlyArr(q, cost), 0, EarlyArr(q, cost) - w.late, work)
  ELSE IF Waits(q, cost, w)
  THEN Times(LateArr(q, cost), LateArr(q, cost), w.early - LateArr(q, cost), 0, work)
  ELSE Times(Later(EarlyArr(q, cost), w.early), Earlier(LateArr(q, cost), w.late), 0, 0,
             work)

Punctual(p) == p.wait_time <= 0 /\ p.over_time <= 0

PrePlan == ptws[node - 1][pre]

OriTw == route.windows[node][win]

CostTime == route.travel[node]

CurPlan == ForwardSS(PrePlan, CostTime, route.work[node], OriTw)

\* The loop over the plans of the node before, and the head of forward_s_m.
NextPlan ==
  /\ pc = "Plan"
  /\ node <= N /\ pre <= Len(ptws[node - 1])
  /\ plan_node_tws_len' = Len(ptws[node])
  /\ non_wait_over_flag' = (\/ Len(ptws[node]) > 1
                            \/ Len(ptws[node]) > 0 /\ Punctual(ptws[node][1]))
  /\ win' = 1
  /\ pc' = "Window"
  /\ UNCHANGED <<route, node, pre, ptws, time_window_plans>>

NextNode ==
  /\ pc = "Plan"
  /\ node <= N /\ pre > Len(ptws[node - 1])
  /\ node' = node + 1
  /\ pre' = 1
  /\ pc' = IF node = N THEN "Judge" ELSE "Plan"
  /\ UNCHANGED <<route, win, plan_node_tws_len, non_wait_over_flag, ptws, time_window_plans>>

LeavePlan ==
  /\ pc' = "Plan"
  /\ pre' = pre + 1
  /\ UNCHANGED <<route, node, win, plan_node_tws_len, non_wait_over_flag, ptws,
                 time_window_plans>>

AtWindow == pc = "Window" /\ win <= Len(route.windows[node])

WindowsDone == pc = "Window" /\ win > Len(route.windows[node]) /\ LeavePlan

\* A plan kept so far is replaced by the one into this window when `better`.
KeepOne(better) ==
  /\ ptws' = IF better THEN [ptws EXCEPT ![node] = <<CurPlan>>] ELSE ptws
  /\ win' = win + 1
  /\ UNCHANGED <<route, pc, node, pre, plan_node_tws_len, non_wait_over_flag,
                 time_window_plans>>

\* The vehicle would be early: of no interest once a plan needs no wait.
StopWaiting ==
  /\ AtWindow /\ Waits(PrePlan, CostTime, OriTw)
  /\ non_wait_over_flag
  /\ LeavePlan

Wait ==
  /\ AtWindow /\ Waits(PrePlan, CostTime, OriTw)
  /\ ~ non_wait_over_flag
  /\ KeepOne(\/ plan_node_tws_len = 0
             \/ ptws[node][1].over_time > 0
             \/ OriTw.early - LateArr(PrePlan, CostTime) < ptws[node][1].wait_time)

\* The vehicle would be late for it.
Miss ==
  /\ AtWindow /\ ~ Waits(PrePlan, CostTime, OriTw) /\ Misses(PrePlan, CostTime, OriTw)
  /\ KeepOne(/\ ~ non_wait_over_flag
             /\ \/ plan_node_tws_len = 0
                \/ /\ ptws[node][1].wait_time = 0
                   /\ EarlyArr(PrePlan, CostTime) - OriTw.late < ptws[node][1].over_time)

\* (mutant) What was kept is cleared each time.
FitClears ==
  /\ AtWindow /\ Fits(PrePlan, CostTime, OriTw)
  /\ ptws' = [ptws EXCEPT ![node] = <<CurPlan>>]
  /\ non_wait_over_flag' = TRUE
  /\ win' = win + 1
  /\ UNCHANGED <<route, pc, node, pre, plan_node_tws_len, time_window_plans>>

\* It arrives within the window: the first such plan clears what was kept.
Fit ==
  /\ AtWindow /\ Fits(PrePlan, CostTime, OriTw)
  /\ ptws' = [ptws EXCEPT ![node] = Append(IF non_wait_over_flag THEN @ ELSE <<>>, CurPlan)]
  /\ non_wait_over_flag' = TRUE
  /\ win' = win + 1
  /\ UNCHANGED <<route, pc, node, pre, plan_node_tws_len, time_window_plans>>

----------------------------------------------------------------------------
(* HcTimeWindow::eval *)

Late == \E n \in Nodes : ptws[n] # <<>> => ptws[n][1].over_time > 0

Reject ==
  /\ pc = "Judge" /\ Late
  /\ pc' = "Rejected"
  /\ UNCHANGED <<route, node, pre, win, plan_node_tws_len, non_wait_over_flag, ptws,
                 time_window_plans>>

\* The export starts from the first plan of the last node.
Accept ==
  /\ pc = "Judge" /\ ~ Late
  /\ pc' = "Back"
  /\ node' = N - 1
  /\ time_window_plans' = [n \in {N} |-> ptws[N][1]]
  /\ UNCHANGED <<route, pre, win, plan_node_tws_len, non_wait_over_flag, ptws>>

----------------------------------------------------------------------------
(* Backward *)

\* The departures that reach the node after as planned, and the arrivals that
\* lead to them without a wait.
Departures(next, n) ==
  <<next.early_arr - route.travel[n + 1], next.late_arr - route.travel[n + 1]>>

Arrivals(next, n) ==
  <<Departures(next, n)[1] - route.work[n], Departures(next, n)[2] - route.work[n]>>

Holds(p, arrivals) == p.early_arr <= arrivals[1] /\ arrivals[2] <= p.late_arr

Stops(p, arrivals) == ~ Punctual(p) \/ Holds(p, arrivals)

\* (mutant) The wait is not taken off the arrivals.
BackwardPlanNoWait(next, n) ==
  LET arrivals == Arrivals(next, n)
      stops == {k \in DOMAIN ptws[n] : Stops(ptws[n][k], arrivals)}
      first == ptws[n][CHOOSE k \in stops : \A j \in stops : k <= j]
  IN  [early_arr |-> IF stops = {} THEN 0 ELSE arrivals[1],
       late_arr |-> IF stops = {} THEN 0 ELSE arrivals[2],
       early_depart |-> Departures(next, n)[1],
       late_depart |-> Departures(next, n)[2],
       wait_time |-> IF stops # {} THEN first.wait_time ELSE 0,
       over_time |-> IF stops # {} THEN first.over_time ELSE 0]

\* Without a plan to stop at, the arrivals keep the constructor's zeros.
BackwardPlan(next, n) ==
  LET arrivals == Arrivals(next, n)
      stops == {k \in DOMAIN ptws[n] : Stops(ptws[n][k], arrivals)}
      first == ptws[n][CHOOSE k \in stops : \A j \in stops : k <= j]
      wait == IF stops # {} THEN first.wait_time ELSE 0
  IN  [early_arr |-> IF stops = {} THEN 0 ELSE arrivals[1] - wait,
       late_arr |-> IF stops = {} THEN 0 ELSE arrivals[2] - wait,
       early_depart |-> Departures(next, n)[1],
       late_depart |-> Departures(next, n)[2],
       wait_time |-> wait,
       over_time |-> IF stops # {} THEN first.over_time ELSE 0]

Back ==
  /\ pc = "Back" /\ node >= 1
  /\ time_window_plans' = [n \in DOMAIN time_window_plans \cup {node} |->
                             IF n = node THEN BackwardPlan(time_window_plans[node + 1], node)
                             ELSE time_window_plans[n]]
  /\ node' = node - 1
  /\ UNCHANGED <<route, pc, pre, win, plan_node_tws_len, non_wait_over_flag, ptws>>

Export ==
  /\ pc = "Back" /\ node = 0
  /\ pc' = "Exported"
  /\ UNCHANGED <<route, node, pre, win, plan_node_tws_len, non_wait_over_flag, ptws,
                 time_window_plans>>

Next == \/ NextPlan \/ NextNode \/ WindowsDone
        \/ StopWaiting \/ Wait \/ Miss \/ Fit
        \/ Reject \/ Accept \/ Back \/ Export

Spec == Init /\ [][Next]_vars

----------------------------------------------------------------------------
(* Properties *)

\* The nodes whose plans are complete.
Planned == {n \in Nodes : n > 1 /\ (n < node \/ pc \in {"Back", "Rejected", "Exported"})}

\* The plan of node n that plan j of the node before leads to in window v.
PlanFrom(n, j, v) ==
  ForwardSS(ptws[n - 1][j], route.travel[n], route.work[n], route.windows[n][v])

\* A plan that waits or is late is the node's only plan, so the verdict and
\* the backward inference, which read the first plan, see every such plan.
SinglesOnly ==
  \A n \in Nodes : \A k \in DOMAIN ptws[n] : ~ Punctual(ptws[n][k]) => Len(ptws[n]) = 1

\* A departure at d from node n: it was left at t the node before, reached as
\* plan p says, and served inside one of its windows.
Serves(p, n, d) ==
  \E j \in DOMAIN ptws[n - 1], v \in DOMAIN route.windows[n] :
    LET q == ptws[n - 1][j]
        w == route.windows[n][v]
        start == d - route.work[n]
        arrival == start - p.wait_time
    IN  /\ q.early_depart <= arrival - route.travel[n]
        /\ arrival - route.travel[n] <= q.late_depart
        /\ w.early <= start /\ start <= w.late
        /\ p.early_arr <= arrival /\ arrival <= p.late_arr

\* Every departure a plan offers can be driven: the interval is not empty, and
\* each of its ends (so all between) leaves the node before as planned there.
DeparturesRealisable ==
  \A n \in Nodes : n > 1 =>
    \A k \in DOMAIN ptws[n] :
      LET p == ptws[n][k]
      IN  p.over_time <= 0 => /\ p.early_depart <= p.late_depart
                              /\ \A d \in {p.early_depart, p.late_depart} : Serves(p, n, d)

\* No way to be on time is lost: each plan of the node before that meets a
\* window of this node is among this node's plans.
PunctualKept ==
  \A n \in Planned : \A j \in DOMAIN ptws[n - 1], v \in DOMAIN route.windows[n] :
    Fits(ptws[n - 1][j], route.travel[n], route.windows[n][v]) =>
      \E k \in DOMAIN ptws[n] : ptws[n][k] = PlanFrom(n, j, v)

\* When the work at each node begins on a way that starts at d and never waits.
NeverWaiting(d) ==
  LET start[n \in Nodes] == IF n = 1 THEN d
                            ELSE start[n - 1] + route.work[n - 1] + route.travel[n]
  IN  start

Punctually(start) ==
  \A n \in Nodes : \E v \in DOMAIN route.windows[n] :
    route.windows[n][v].early <= start[n] /\ start[n] <= route.windows[n][v].late

\* What can be driven without a wait is: a route is rejected, or exported with a
\* wait, only when no way that never waits meets a window of every node.  Ways that
\* wait may be lost, see WaitsForNearest.
WaitFreeWayTaken ==
  pc = "Rejected" \/ (\E n \in DOMAIN time_window_plans : time_window_plans[n].wait_time # 0) =>
    \A v \in DOMAIN route.windows[1] :
      \A d \in route.windows[1][v].early .. route.windows[1][v].late :
        ~ Punctually(NeverWaiting(d))

\* docs/time_window_infer.md: whoever arrives before the nearest window opens waits
\* until it does.  No plan waits past a window it could still have used.
WaitsForNearest ==
  \A n \in Planned : \A k \in DOMAIN ptws[n] :
    LET p == ptws[n][k]
    IN  p.wait_time > 0 =>
          \A v \in DOMAIN route.windows[n] :
            LET w == route.windows[n][v]
            IN  w.late < p.early_arr \/ w.early >= p.early_arr + p.wait_time

Scheduled(n) ==
  LET p == time_window_plans[n]
  IN  /\ p.early_arr <= p.late_arr /\ p.wait_time >= 0 /\ p.over_time = 0
      /\ p.early_depart = p.early_arr + p.wait_time + route.work[n]
      /\ p.late_depart = p.late_arr + p.wait_time + route.work[n]
      /\ \E v \in DOMAIN route.windows[n] :
           /\ route.windows[n][v].early <= p.early_arr + p.wait_time
           /\ p.late_arr + p.wait_time <= route.windows[n][v].late
      /\ n < N => /\ time_window_plans[n + 1].early_arr = p.early_depart + route.travel[n + 1]
                  /\ time_window_plans[n + 1].late_arr = p.late_depart + route.travel[n + 1]

\* The schedule that is exported can be driven: each node is reached from the
\* one before by its travel time, works inside one of its windows and leaves
\* when wait and work are done.
ExportedScheduleHolds == \A n \in DOMAIN time_window_plans : Scheduled(n)

----------------------------------------------------------------------------
(* The inductive invariant *)

PcInv ==
  /\ pc = "Plan" => node \in 2 .. N
  /\ pc = "Window" => node \in 2 .. N /\ pre <= Len(ptws[node - 1])
  /\ pc = "Judge" => node = N + 1
  /\ pc = "Back" => node \in 0 .. N - 1 /\ DOMAIN time_window_plans = node + 1 .. N
  /\ pc = "Exported" => node = 0 /\ DOMAIN time_window_plans = Nodes
  /\ pc \notin {"Back", "Exported"} => DOMAIN time_window_plans = {}
  /\ pc \in {"Back", "Exported"} => ~ Late
  /\ pc = "Rejected" => Late

Proper(p) ==
  /\ p.early_arr <= p.late_arr
  /\ p.early_depart <= p.late_depart
  /\ p.wait_time >= 0 /\ p.over_time >= 0

\* Where the plans come from: the first node's from its windows, another
\* node's from a plan of the node before and one of its windows.
Derived ==
  /\ ptws[1] = [v \in 1 .. Len(route.windows[1]) |-> WindowPlan(route.windows[1][v])]
  /\ \A n \in Nodes : \A k \in DOMAIN ptws[n] : Proper(ptws[n][k])
  /\ \A n \in 2 .. N : \A k \in DOMAIN ptws[n] :
       \E j \in DOMAIN ptws[n - 1], v \in DOMAIN route.windows[n] :
         ptws[n][k] = PlanFrom(n, j, v)
  /\ pc \in {"Plan", "Window"} => \A n \in node + 1 .. N : ptws[n] = << >>

\* What the locals of forward_s_m say of the plans kept so far.
Kept ==
  pc = "Window" =>
    /\ non_wait_over_flag => /\ ptws[node] # << >>
                             /\ \A k \in DOMAIN ptws[node] : Punctual(ptws[node][k])
    /\ ~ non_wait_over_flag => /\ Len(ptws[node]) <= 1
                               /\ \A k \in DOMAIN ptws[node] : ~ Punctual(ptws[node][k])
    /\ plan_node_tws_len > 0 => ptws[node] # << >>

\* The pairs of an earlier plan and a window the inference has been through.
Seen(n, j, v) ==
  \/ n \in Planned
  \/ pc \in {"Plan", "Window"} /\ n = node /\ j < pre
  \/ pc = "Window" /\ n = node /\ j = pre /\ v < win

SeenInv ==
  \A n \in 2 .. N : \A j \in DOMAIN ptws[n - 1], v \in DOMAIN route.windows[n] :
    Seen(n, j, v) /\ Fits(ptws[n - 1][j], route.travel[n], route.windows[n][v]) =>
      \E k \in DOMAIN ptws[n] : ptws[n][k] = PlanFrom(n, j, v)

\* The backward inference stays within the plans.
InPlan(p, q) ==
  /\ q.early_arr <= p.early_arr /\ p.early_arr <= p.late_arr /\ p.late_arr <= q.late_arr
  /\ p.wait_time = q.wait_time /\ p.over_time = 0 /\ q.over_time = 0

BackInv ==
  /\ ExportedScheduleHolds
  /\ \A n \in DOMAIN time_window_plans :
       \E k \in DOMAIN ptws[n] : InPlan(time_window_plans[n], ptws[n][k])

IInv == /\ TypeOK /\ PcInv /\ Derived /\ Kept /\ SinglesOnly /\ SeenInv /\ BackInv
=============================================================================
