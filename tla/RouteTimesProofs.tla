-------------------------- MODULE RouteTimesProofs --------------------------
(***************************************************************************)
(* The time windows of a route, for every route: a departure a plan offers *)
(* can be driven, no plan that meets a window is lost, a route that can be *)
(* driven without a wait is accepted and exported without one, and the     *)
(* exported schedule can be driven.                                        *)
(***************************************************************************)
EXTENDS RouteTimes, TLAPS, FiniteSetTheorems, SequenceTheorems

USE RoutesAssumption

----------------------------------------------------------------------------
(* One plan into one window *)

LEMMA ForwardPlan ==
  ASSUME NEW q \in Plan, Proper(q), NEW cost \in Int, NEW work \in Int,
         NEW w \in TimeWindow, w.early <= w.late
  PROVE  /\ ForwardSS(q, cost, work, w) \in Plan
         /\ Proper(ForwardSS(q, cost, work, w))
         /\ Fits(q, cost, w) => Punctual(ForwardSS(q, cost, work, w))
         /\ Waits(q, cost, w) => /\ ~ Punctual(ForwardSS(q, cost, work, w))
                                 /\ ForwardSS(q, cost, work, w).over_time = 0
                                 /\ ~ Misses(q, cost, w)
         /\ Misses(q, cost, w) => ~ Punctual(ForwardSS(q, cost, work, w))
BY DEF ForwardSS, Times, Fits, Waits, Misses, Punctual, Proper, Plan, TimeWindow,
       EarlyArr, LateArr, Later, Earlier

\* How a plan that is not late relates to the plan and the window it is from.
Drives(p, q, cost, work, w) ==
  /\ p.early_depart = p.early_arr + p.wait_time + work
  /\ p.late_depart = p.late_arr + p.wait_time + work
  /\ w.early <= p.early_arr + p.wait_time
  /\ p.late_arr + p.wait_time <= w.late
  /\ q.early_depart <= p.early_arr - cost
  /\ p.late_arr - cost <= q.late_depart

LEMMA ForwardTimes ==
  ASSUME NEW q \in Plan, Proper(q), NEW cost \in Int, NEW work \in Int,
         NEW w \in TimeWindow, w.early <= w.late,
         ForwardSS(q, cost, work, w).over_time <= 0
  PROVE  Drives(ForwardSS(q, cost, work, w), q, cost, work, w)
<1>1. ~ Misses(q, cost, w)
  BY DEF ForwardSS, Times, Misses, Plan, TimeWindow, EarlyArr
<1> QED
  BY <1>1 DEF ForwardSS, Times, Waits, Misses, Proper, Plan, TimeWindow, Drives,
              EarlyArr, LateArr, Later, Earlier

\* Windows in order: a node missed for one window is missed for those before,
\* and too early for one is too early for those after.
LEMMA InOrder ==
  ASSUME IsRoute(route), NEW n \in Nodes, NEW q \in Plan, NEW cost \in Int,
         NEW u \in DOMAIN route.windows[n], NEW v \in DOMAIN route.windows[n], u < v
  PROVE  /\ Misses(q, cost, route.windows[n][v]) => Misses(q, cost, route.windows[n][u])
         /\ Waits(q, cost, route.windows[n][u]) => Waits(q, cost, route.windows[n][v])
<1>1. route.windows[n] \in Seq(TimeWindow) /\ Ordered(route.windows[n])
  BY DEF IsRoute, Nodes, N
<1>2. /\ route.windows[n][u] \in TimeWindow /\ route.windows[n][v] \in TimeWindow
      /\ route.windows[n][u].early <= route.windows[n][u].late
      /\ route.windows[n][v].early <= route.windows[n][v].late
      /\ route.windows[n][u].late <= route.windows[n][v].early
  BY <1>1 DEF Ordered
<1> QED
  BY <1>2 DEF Misses, Waits, EarlyArr, LateArr, Plan, TimeWindow

LEMMA WindowType ==
  ASSUME IsRoute(route), NEW n \in Nodes, NEW v \in DOMAIN route.windows[n]
  PROVE  /\ route.windows[n] \in Seq(TimeWindow)
         /\ route.windows[n][v] \in TimeWindow
         /\ route.windows[n][v].early <= route.windows[n][v].late
BY DEF IsRoute, Nodes, N, Ordered

\* The facts about plan lists and the route that the steps use.
LEMMA PlanLists ==
  \A s \in Seq(Plan) : /\ Len(s) \in Nat /\ DOMAIN s = 1 .. Len(s)
                       /\ s = << >> <=> Len(s) = 0
                       /\ \A k \in DOMAIN s : s[k] \in Plan
BY LenProperties, EmptySeq, ElementOfSeq

LEMMA RouteShape ==
  ASSUME IsRoute(route)
  PROVE  N \in Nat /\ N >= 2 /\ Nodes = 1 .. N
BY LenProperties DEF IsRoute, N, Nodes

----------------------------------------------------------------------------
LEMMA InitIInv == Init => IInv
<1> SUFFICES ASSUME Init
             PROVE  IInv
  OBVIOUS
<1>1. IsRoute(route) /\ N \in Nat /\ N >= 2 /\ route.windows \in Seq(Seq(TimeWindow))
  BY DEF Init, IsRoute, N
<1>2. route.windows[1] \in Seq(TimeWindow) /\ 1 \in Nodes
  BY <1>1 DEF Nodes, N
<1>3. \A v \in 1 .. Len(route.windows[1]) : /\ WindowPlan(route.windows[1][v]) \in Plan
                                            /\ Proper(WindowPlan(route.windows[1][v]))
                                            /\ Punctual(WindowPlan(route.windows[1][v]))
  BY <1>1, <1>2, WindowType DEF WindowPlan, Plan, TimeWindow, Proper, Punctual
<1>4. ptws[1] \in Seq(Plan) /\ DOMAIN ptws[1] = 1 .. Len(route.windows[1])
  BY <1>2, <1>3 DEF Init
<1>5. \A n \in Nodes \ {1} : ptws[n] = << >>
  BY <1>1 DEF Init, Nodes
<1>6. ptws \in [Nodes -> Seq(Plan)]
  BY <1>2, <1>4, <1>5 DEF Init
<1>8. DOMAIN time_window_plans = {} /\ time_window_plans \in [{} -> Plan]
  BY DEF Init
<1>7. TypeOK
  <2>1. node \in 0 .. N + 1 /\ 1 \in Nat \ {0} /\ 0 \in Nat
    BY <1>1 DEF Init
  <2> QED
    BY <1>1, <1>6, <1>8, <2>1 DEF Init, TypeOK
<1>11. PcInv
  BY <1>1, <1>8 DEF Init, PcInv
<1>12. Kept
  BY DEF Init, Kept
<1>13. BackInv
  BY <1>8 DEF BackInv, ExportedScheduleHolds
<1>9. Derived /\ SinglesOnly
  BY <1>1, <1>2, <1>3, <1>4, <1>5 DEF Init, Derived, SinglesOnly, Nodes
<1>10. SeenInv
  <2> SUFFICES ASSUME NEW n \in 2 .. N, NEW j \in DOMAIN ptws[n - 1],
                      NEW v \in DOMAIN route.windows[n]
               PROVE  ~ Seen(n, j, v)
    BY DEF SeenInv
  <2>1. n = 2 => j \in 1 .. Len(route.windows[1]) /\ Len(route.windows[1]) \in Nat
    BY <1>2, <1>4
  <2> QED
    BY <1>1, <2>1 DEF Init, Seen, Planned, Nodes
<1> QED
  BY <1>7, <1>9, <1>10, <1>11, <1>12, <1>13 DEF IInv

----------------------------------------------------------------------------
(* Forward steps *)

LEMMA BackFrame ==
  ASSUME IInv, pc \in {"Plan", "Window"}, UNCHANGED <<route, time_window_plans>>
  PROVE  BackInv'
<1>1. DOMAIN time_window_plans = {}
  BY DEF IInv, PcInv
<1> QED
  BY <1>1 DEF BackInv, ExportedScheduleHolds

\* What the head of forward_s_m learns from the first plan kept so far.
LEMMA OneOrMany ==
  ASSUME NEW s, NEW len \in Nat,
         \A k \in 1 .. len : ~ Punctual(s[k]) => len = 1
  PROVE  /\ len > 1 \/ (len > 0 /\ Punctual(s[1])) =>
              len # 0 /\ \A k \in 1 .. len : Punctual(s[k])
         /\ ~ (len > 1 \/ (len > 0 /\ Punctual(s[1]))) =>
              len <= 1 /\ \A k \in 1 .. len : ~ Punctual(s[k])
<1>1. CASE len > 1
  BY <1>1
<1>2. CASE len = 1
  <2>1. \A k \in 1 .. len : k = 1
    BY <1>2
  <2> QED
    BY <1>2, <2>1
<1>3. CASE len = 0
  BY <1>3
<1> QED
  BY <1>1, <1>2, <1>3

LEMMA PlansKept ==
  ASSUME NEW s \in Seq(Plan),
         \A k \in DOMAIN s : ~ Punctual(s[k]) => Len(s) = 1
  PROVE  /\ Len(s) > 1 \/ (Len(s) > 0 /\ Punctual(s[1])) =>
              s # << >> /\ \A k \in DOMAIN s : Punctual(s[k])
         /\ ~ (Len(s) > 1 \/ (Len(s) > 0 /\ Punctual(s[1]))) =>
              Len(s) <= 1 /\ \A k \in DOMAIN s : ~ Punctual(s[k])
<1>1. Len(s) \in Nat /\ DOMAIN s = 1 .. Len(s) /\ (s = << >> <=> Len(s) = 0)
  BY PlanLists
<1> QED
  BY <1>1, OneOrMany

LEMMA NextPlanIInv == IInv /\ NextPlan => IInv'
<1> SUFFICES ASSUME IInv, NextPlan
             PROVE  IInv'
  OBVIOUS
<1>1. /\ node \in 2 .. N /\ N \in Nat /\ pre \in Nat \ {0}
      /\ ptws[node] \in Seq(Plan) /\ ptws[node - 1] \in Seq(Plan)
  BY RouteShape DEF IInv, TypeOK, PcInv, NextPlan
<1>2. UNCHANGED <<route, node, pre, ptws, time_window_plans>> /\ pc = "Plan" /\ pc' = "Window"
  BY DEF NextPlan
<1>3. Nodes' = Nodes /\ N' = N
  BY <1>2 DEF Nodes, N
<1>4. TypeOK'
  BY <1>1, <1>2, <1>3 DEF NextPlan, IInv, TypeOK, Punctual
<1>5. PcInv'
  BY <1>1, <1>2, <1>3 DEF NextPlan, IInv, PcInv
<1>6. Derived' /\ SinglesOnly'
  BY <1>2, <1>3 DEF IInv, Derived, SinglesOnly, PlanFrom
<1>7. Kept'
  <2> DEFINE someKept == \/ Len(ptws[node]) > 1
                         \/ Len(ptws[node]) > 0 /\ Punctual(ptws[node][1])
  <2>1. (non_wait_over_flag' => someKept) /\ (someKept => non_wait_over_flag')
    BY Zenon DEF NextPlan
  <2>2. /\ \A k \in DOMAIN ptws[node] : ~ Punctual(ptws[node][k]) => Len(ptws[node]) = 1
        /\ Len(ptws[node]) \in Nat /\ DOMAIN ptws[node] = 1 .. Len(ptws[node])
        /\ ptws[node] = << >> <=> Len(ptws[node]) = 0
    BY <1>1, PlanLists, RouteShape DEF IInv, TypeOK, SinglesOnly
  <2>3. someKept => ptws[node] # << >> /\ \A k \in DOMAIN ptws[node] : Punctual(ptws[node][k])
    BY <1>1, <2>2, PlansKept
  <2>4. ~ someKept =>
          Len(ptws[node]) <= 1 /\ \A k \in DOMAIN ptws[node] : ~ Punctual(ptws[node][k])
    BY <1>1, <2>2, PlansKept
  <2>5. plan_node_tws_len' = Len(ptws[node]) /\ win' = 1
    BY DEF NextPlan
  <2> HIDE DEF someKept
  <2> QED
    BY <1>2, <2>1, <2>2, <2>3, <2>4, <2>5 DEF Kept
<1>8. SeenInv'
  <2> SUFFICES ASSUME NEW n \in 2 .. N, NEW j \in DOMAIN ptws[n - 1],
                      NEW v \in DOMAIN route.windows[n], Seen(n, j, v)'
               PROVE  Seen(n, j, v)
    BY <1>2, <1>3 DEF IInv, SeenInv, PlanFrom
  <2>1. v \in Nat /\ v >= 1
    BY <1>2, WindowType DEF IInv, TypeOK, Nodes
  <2> QED
    BY <1>1, <1>2, <1>3, <2>1 DEF NextPlan, Seen, Planned
<1> QED
  BY <1>2, <1>4, <1>5, <1>6, <1>7, <1>8, BackFrame DEF IInv

LEMMA NextNodeIInv == IInv /\ NextNode => IInv'
<1> SUFFICES ASSUME IInv, NextNode
             PROVE  IInv'
  OBVIOUS
<1>1. /\ node \in 2 .. N /\ N \in Nat /\ pre \in Nat \ {0}
      /\ ptws[node] \in Seq(Plan) /\ ptws[node - 1] \in Seq(Plan)
  BY RouteShape DEF IInv, TypeOK, PcInv, NextNode
<1>2. /\ UNCHANGED <<route, win, plan_node_tws_len, non_wait_over_flag, ptws,
                     time_window_plans>>
      /\ pc = "Plan" /\ pc' \in {"Plan", "Judge"} /\ node' = node + 1 /\ pre' = 1
      /\ pc' = "Judge" <=> node = N
  BY DEF NextNode
<1>3. Nodes' = Nodes /\ N' = N
  BY <1>2 DEF Nodes, N
<1>4. TypeOK'
  BY <1>1, <1>2, <1>3 DEF IInv, TypeOK
<1>5. PcInv'
  BY <1>1, <1>2, <1>3 DEF IInv, PcInv
<1>6. Derived' /\ SinglesOnly'
  <2>1. \A n \in node' + 1 .. N : pc' = "Plan" => ptws[n] = << >>
    BY <1>1, <1>2 DEF IInv, Derived
  <2> QED
    BY <1>2, <1>3, <2>1 DEF IInv, Derived, SinglesOnly, PlanFrom
<1>7. Kept'
  BY <1>2 DEF Kept
<1>8. SeenInv'
  <2> SUFFICES ASSUME NEW n \in 2 .. N, NEW j \in DOMAIN ptws[n - 1],
                      NEW v \in DOMAIN route.windows[n], Seen(n, j, v)'
               PROVE  Seen(n, j, v)
    BY <1>2, <1>3 DEF IInv, SeenInv, PlanFrom
  <2>1. CASE n = node
    BY <1>1, <1>2, <2>1 DEF NextNode, Seen
  <2>2. CASE n # node
    <3>1. ptws[n - 1] \in Seq(Plan) /\ j >= 1
      BY <1>1 DEF IInv, TypeOK, Nodes
    <3> QED
      BY <1>1, <1>2, <1>3, <2>2, <3>1 DEF Seen, Planned, Nodes
  <2> QED
    BY <2>1, <2>2
<1> QED
  BY <1>2, <1>4, <1>5, <1>6, <1>7, <1>8, BackFrame DEF IInv

LEMMA Indices ==
  ASSUME TypeOK, NEW n \in Nodes
  PROVE  /\ Len(route.windows[n]) \in Nat
         /\ DOMAIN route.windows[n] = 1 .. Len(route.windows[n])
         /\ Len(ptws[n]) \in Nat /\ DOMAIN ptws[n] = 1 .. Len(ptws[n])
<1>1. route.windows[n] \in Seq(TimeWindow) /\ ptws[n] \in Seq(Plan)
  BY DEF TypeOK, IsRoute, Nodes, N
<1> QED
  BY <1>1, LenProperties

\* A plan of the node before is done with once its windows are through or need
\* not be gone through.
LEMMA LeavePlanIInv ==
  ASSUME IInv, LeavePlan, pc = "Window",
         \A v \in DOMAIN route.windows[node] : v >= win =>
           ~ Fits(ptws[node - 1][pre], route.travel[node], route.windows[node][v])
  PROVE  IInv'
<1>1. /\ node \in 2 .. N /\ N \in Nat /\ pre \in Nat \ {0}
      /\ ptws[node] \in Seq(Plan) /\ ptws[node - 1] \in Seq(Plan)
      /\ Nodes = 1 .. N /\ win \in Nat
  BY RouteShape DEF IInv, TypeOK, PcInv
<1>2. /\ UNCHANGED <<route, node, win, plan_node_tws_len, non_wait_over_flag, ptws,
                     time_window_plans>>
      /\ pc' = "Plan" /\ pre' = pre + 1
  BY DEF LeavePlan
<1>3. Nodes' = Nodes /\ N' = N
  BY <1>2 DEF Nodes, N
<1>4. TypeOK'
  BY <1>1, <1>2, <1>3 DEF IInv, TypeOK
<1>5. PcInv'
  BY <1>1, <1>2, <1>3 DEF IInv, PcInv
<1>6. Derived' /\ SinglesOnly'
  BY <1>2, <1>3 DEF IInv, Derived, SinglesOnly, PlanFrom
<1>7. Kept'
  BY <1>2 DEF Kept
<1>8. SeenInv'
  <2> SUFFICES ASSUME NEW n \in 2 .. N, NEW j \in DOMAIN ptws[n - 1],
                      NEW v \in DOMAIN route.windows[n], Seen(n, j, v)', ~ Seen(n, j, v)
               PROVE  /\ n = node /\ j = pre /\ v >= win
    BY <1>2, <1>3 DEF IInv, SeenInv, PlanFrom
  <2>1. v \in Nat /\ j \in Nat
    <3>1. n \in Nodes /\ n - 1 \in Nodes
      BY <1>1
    <3> QED
      BY <3>1, Indices DEF IInv
  <2> QED
    BY <1>1, <1>2, <1>3, <2>1 DEF Seen, Planned
<1> QED
  BY <1>2, <1>4, <1>5, <1>6, <1>7, <1>8, BackFrame DEF IInv

LEMMA WindowsDoneIInv == IInv /\ WindowsDone => IInv'
<1> SUFFICES ASSUME IInv, WindowsDone
             PROVE  IInv'
  OBVIOUS
<1>1. /\ node \in Nodes /\ win \in Nat \ {0} /\ win > Len(route.windows[node])
      /\ pc = "Window" /\ LeavePlan /\ IsRoute(route)
  BY RouteShape DEF IInv, TypeOK, PcInv, WindowsDone
<1>2. \A v \in DOMAIN route.windows[node] : v \in Nat /\ v < win
  BY <1>1, WindowType
<1> QED
  BY <1>1, <1>2, LeavePlanIInv

----------------------------------------------------------------------------
(* At a window *)

LEMMA WindowFacts ==
  ASSUME IInv, AtWindow
  PROVE  /\ IsRoute(route) /\ N \in Nat /\ Nodes = 1 .. N
         /\ node \in 2 .. N /\ node - 1 \in Nodes /\ pc = "Window"
         /\ pre \in DOMAIN ptws[node - 1] /\ pre \in Nat \ {0}
         /\ win \in DOMAIN route.windows[node] /\ win \in Nat \ {0}
         /\ ptws \in [Nodes -> Seq(Plan)]
         /\ PrePlan \in Plan /\ Proper(PrePlan)
         /\ OriTw \in TimeWindow /\ OriTw.early <= OriTw.late
         /\ CostTime \in Int /\ route.work[node] \in Int
         /\ CurPlan = PlanFrom(node, pre, win)
<1>1. /\ IsRoute(route) /\ N \in Nat /\ Nodes = 1 .. N /\ pc = "Window"
      /\ node \in 2 .. N /\ pre \in Nat \ {0} /\ win \in Nat \ {0}
      /\ ptws \in [Nodes -> Seq(Plan)] /\ pre <= Len(ptws[node - 1])
      /\ win <= Len(route.windows[node])
  BY RouteShape DEF IInv, TypeOK, PcInv, AtWindow
<1>2. node - 1 \in Nodes /\ node \in Nodes
  BY <1>1
<1>3. ptws[node - 1] \in Seq(Plan) /\ route.windows[node] \in Seq(TimeWindow)
  BY <1>1, <1>2 DEF IsRoute, N
<1>4. pre \in DOMAIN ptws[node - 1] /\ win \in DOMAIN route.windows[node]
  BY <1>1, <1>3, LenProperties
<1>5. PrePlan \in Plan /\ Proper(PrePlan)
  BY <1>2, <1>3, <1>4, PlanLists DEF IInv, Derived, PrePlan
<1>6. OriTw \in TimeWindow /\ OriTw.early <= OriTw.late
  BY <1>1, <1>2, <1>4, WindowType DEF OriTw
<1>7. CostTime \in Int /\ route.work[node] \in Int
  BY <1>1, <1>2 DEF IsRoute, CostTime, N
<1> QED
  BY <1>1, <1>2, <1>3, <1>4, <1>5, <1>6, <1>7 DEF CurPlan, PlanFrom, PrePlan, OriTw, CostTime

LEMMA StopWaitingIInv == IInv /\ StopWaiting => IInv'
<1> SUFFICES ASSUME IInv, StopWaiting
             PROVE  IInv'
  OBVIOUS
<1>1. AtWindow /\ Waits(PrePlan, CostTime, OriTw) /\ non_wait_over_flag /\ LeavePlan
  BY DEF StopWaiting
<1>2. ASSUME NEW v \in DOMAIN route.windows[node], v >= win
      PROVE  ~ Fits(ptws[node - 1][pre], route.travel[node], route.windows[node][v])
  <2>1. v \in Nat
    BY <1>1, WindowFacts, WindowType, LenProperties
  <2>2. Waits(PrePlan, CostTime, route.windows[node][v])
    <3>1. CASE v = win
      BY <1>1, <3>1 DEF OriTw
    <3>2. CASE v # win
      <4>1. win < v
        BY <1>1, <1>2, <2>1, <3>2, WindowFacts
      <4>2. /\ IsRoute(route) /\ node \in Nodes /\ PrePlan \in Plan /\ CostTime \in Int
            /\ win \in DOMAIN route.windows[node]
        BY <1>1, WindowFacts
      <4>3. Waits(PrePlan, CostTime, route.windows[node][win])
        BY <1>1 DEF OriTw
      <4> QED
        BY <4>1, <4>2, <4>3, InOrder
    <3> QED
      BY <3>1, <3>2
  <2> QED
    BY <2>2 DEF Fits, PrePlan, CostTime
<1> QED
  BY <1>1, <1>2, LeavePlanIInv DEF AtWindow

\* A window is done with once the node's plans are s: what is asked of s.
Settles(s, flag) ==
  /\ s \in Seq(Plan) /\ s # << >>
  /\ \A k \in DOMAIN s : s[k] = CurPlan \/ \E i \in DOMAIN ptws[node] : s[k] = ptws[node][i]
  /\ flag => \A k \in DOMAIN s : Punctual(s[k])
  /\ ~ flag => Len(s) <= 1 /\ \A k \in DOMAIN s : ~ Punctual(s[k])
  /\ \A j \in DOMAIN ptws[node - 1], v \in DOMAIN route.windows[node] :
       (Seen(node, j, v) \/ (j = pre /\ v = win))
         /\ Fits(ptws[node - 1][j], CostTime, route.windows[node][v]) =>
              \E k \in DOMAIN s : s[k] = PlanFrom(node, j, v)

LEMMA SeenNext ==
  ASSUME route' = route, N' = N,
         \A n \in 2 .. N : \A j \in DOMAIN ptws'[n - 1], v \in DOMAIN route.windows[n] :
           Seen(n, j, v)' /\ Fits(ptws'[n - 1][j], route.travel[n], route.windows[n][v]) =>
             \E k \in DOMAIN ptws'[n] : ptws'[n][k] = PlanFrom(n, j, v)'
  PROVE  SeenInv'
BY DEF SeenInv, PlanFrom

LEMMA SettledIInv ==
  ASSUME IInv, AtWindow, NEW s, Settles(s, non_wait_over_flag'),
         ptws' = [ptws EXCEPT ![node] = s], win' = win + 1, non_wait_over_flag' \in BOOLEAN,
         UNCHANGED <<route, pc, node, pre, plan_node_tws_len, time_window_plans>>
  PROVE  IInv'
<1>1. /\ node \in 2 .. N /\ N \in Nat /\ pre \in Nat \ {0} /\ Nodes = 1 .. N
      /\ win \in Nat \ {0} /\ pc = "Window" /\ ptws \in [Nodes -> Seq(Plan)]
      /\ s \in Seq(Plan) /\ s # << >> /\ node \in Nodes /\ node - 1 \in Nodes
      /\ Len(s) \in Nat /\ DOMAIN s = 1 .. Len(s)
  BY WindowFacts, PlanLists DEF Settles
<1>2. Nodes' = Nodes /\ N' = N
  BY DEF Nodes, N
<1>3. /\ ptws' \in [Nodes -> Seq(Plan)] /\ ptws'[node] = s
      /\ \A n \in Nodes : n # node => ptws'[n] = ptws[n]
  BY <1>1
<1>4. TypeOK'
  BY <1>1, <1>2, <1>3 DEF IInv, TypeOK
<1>5. PcInv'
  BY <1>1, <1>2, <1>3 DEF IInv, PcInv
<1>6. \A n \in Nodes : n <= node => \A j, v : PlanFrom(n, j, v)' = PlanFrom(n, j, v)
  BY <1>1, <1>3 DEF PlanFrom
<1>7. Derived'
  <2>1. \A k \in DOMAIN s : /\ Proper(s[k])
                            /\ \E j \in DOMAIN ptws[node - 1], v \in DOMAIN route.windows[node] :
                                 s[k] = PlanFrom(node, j, v)
    <3>1. CurPlan = PlanFrom(node, pre, win) /\ Proper(CurPlan)
      BY WindowFacts, ForwardPlan DEF CurPlan
    <3>2. pre \in DOMAIN ptws[node - 1] /\ win \in DOMAIN route.windows[node]
      BY WindowFacts
    <3>3. \A i \in DOMAIN ptws[node] :
            /\ Proper(ptws[node][i])
            /\ \E j \in DOMAIN ptws[node - 1], v \in DOMAIN route.windows[node] :
                 ptws[node][i] = PlanFrom(node, j, v)
      BY <1>1 DEF IInv, Derived
    <3> QED
      BY <3>1, <3>2, <3>3 DEF Settles
  <2>2. \A n \in Nodes : \A k \in DOMAIN ptws'[n] : Proper(ptws'[n][k])
    BY <1>3, <2>1 DEF IInv, Derived
  <2>3. ASSUME NEW n \in 2 .. N, NEW k \in DOMAIN ptws'[n]
        PROVE  \E j \in DOMAIN ptws'[n - 1], v \in DOMAIN route.windows[n] :
                 ptws'[n][k] = PlanFrom(n, j, v)'
    <3>1. CASE n = node
      <4>1. ptws'[n - 1] = ptws[n - 1] /\ ptws'[n] = s
        BY <1>1, <1>3, <3>1
      <4>2. \A j, v : PlanFrom(n, j, v)' = PlanFrom(node, j, v)
        BY <1>1, <1>6, <3>1
      <4> QED
        BY <2>1, <3>1, <4>1, <4>2
    <3>2. CASE n < node
      <4>1. n - 1 \in Nodes /\ n \in Nodes /\ n - 1 # node /\ n # node
        BY <1>1, <3>2
      <4> QED
        BY <1>3, <1>6, <3>2, <4>1, <1>1 DEF IInv, Derived
    <3>3. CASE n > node
      <4>1. n \in Nodes /\ n \in node + 1 .. N
        BY <1>1, <3>3
      <4>2. ptws'[n] = << >>
        BY <1>1, <1>3, <3>3, <4>1 DEF IInv, Derived
      <4> QED
        BY <4>2, EmptySeq
    <3> QED
      BY <1>1, <3>1, <3>2, <3>3
  <2>4. ptws'[1] = ptws[1]
    BY <1>1, <1>3
  <2>5. \A n \in node + 1 .. N : ptws'[n] = << >>
    BY <1>1, <1>3 DEF IInv, Derived
  <2> QED
    BY <1>2, <2>2, <2>3, <2>4, <2>5 DEF IInv, Derived
<1>8. SinglesOnly'
  <2>1. \A k \in DOMAIN s : ~ Punctual(s[k]) => Len(s) = 1
    <3>1. \A k \in DOMAIN s : Len(s) >= 1
      BY <1>1
    <3>2. CASE non_wait_over_flag'
      BY <3>2 DEF Settles
    <3>3. CASE ~ non_wait_over_flag'
      BY <1>1, <3>1, <3>3 DEF Settles
    <3> QED
      BY <3>2, <3>3
  <2> QED
    BY <1>2, <1>3, <2>1 DEF IInv, SinglesOnly
<1>9. Kept'
  BY <1>1, <1>2, <1>3 DEF IInv, Kept, Settles
<1>10. SeenInv'
  <2> SUFFICES ASSUME NEW n \in 2 .. N, NEW j \in DOMAIN ptws'[n - 1],
                      NEW v \in DOMAIN route.windows[n], Seen(n, j, v)',
                      Fits(ptws'[n - 1][j], route.travel[n], route.windows[n][v])
               PROVE  \E k \in DOMAIN ptws'[n] : ptws'[n][k] = PlanFrom(n, j, v)'
    BY <1>2, SeenNext
  <2>1. n \in Nodes /\ n - 1 \in Nodes /\ n <= node
    BY <1>1, <1>2 DEF Seen, Planned
  <2>2. ptws'[n - 1] = ptws[n - 1] /\ PlanFrom(n, j, v)' = PlanFrom(n, j, v)
    BY <1>1, <1>3, <1>6, <2>1
  <2>3. Seen(n, j, v) \/ (n = node /\ j = pre /\ v = win)
    <3>1. v \in Nat /\ j \in Nat
      BY <2>1, <2>2, Indices DEF IInv
    <3> QED
      BY <1>1, <1>2, <3>1 DEF Seen, Planned
  <2>4. CASE n = node
    BY <1>3, <2>2, <2>3, <2>4 DEF Settles, CostTime
  <2>5. CASE n # node
    BY <1>3, <2>1, <2>2, <2>3, <2>5 DEF IInv, SeenInv
  <2> QED
    BY <2>4, <2>5
<1> QED
  BY <1>1, <1>4, <1>5, <1>7, <1>8, <1>9, <1>10, BackFrame DEF IInv

\* What the windows gone through so far say while no plan meets one of them.
LEMMA NoneFits ==
  ASSUME IInv, AtWindow, ~ non_wait_over_flag,
         NEW j \in DOMAIN ptws[node - 1], NEW v \in DOMAIN route.windows[node],
         Seen(node, j, v)
  PROVE  ~ Fits(ptws[node - 1][j], CostTime, route.windows[node][v])
<1> SUFFICES ASSUME Fits(ptws[node - 1][j], CostTime, route.windows[node][v])
             PROVE  FALSE
  OBVIOUS
<1>1. /\ node \in 2 .. N /\ node \in Nodes /\ node - 1 \in Nodes /\ IsRoute(route)
      /\ ptws[node - 1] \in Seq(Plan) /\ CostTime \in Int /\ route.work[node] \in Int
  BY WindowFacts
<1>2. PICK k \in DOMAIN ptws[node] : ptws[node][k] = PlanFrom(node, j, v)
  BY <1>1 DEF IInv, SeenInv, CostTime
<1>3. Punctual(PlanFrom(node, j, v))
  <2>1. ptws[node - 1][j] \in Plan /\ Proper(ptws[node - 1][j])
    BY <1>1, PlanLists DEF IInv, Derived
  <2> QED
    BY <1>1, <2>1, WindowType, ForwardPlan DEF PlanFrom, CostTime
<1> QED
  BY <1>2, <1>3 DEF IInv, Kept, AtWindow

LEMMA OnePlan ==
  ASSUME NEW p \in Plan
  PROVE  /\ << p >> \in Seq(Plan) /\ << p >> # << >> /\ Len(<< p >>) = 1
         /\ DOMAIN << p >> = {1} /\ << p >>[1] = p
OBVIOUS

\* A window the plans are left alone for.
LEMMA LeftAlone ==
  ASSUME IInv, AtWindow, ptws[node] # << >>, ~ Fits(PrePlan, CostTime, OriTw)
  PROVE  /\ Settles(ptws[node], non_wait_over_flag)
         /\ ptws = [ptws EXCEPT ![node] = ptws[node]]
<1>1. node \in 2 .. N /\ node \in Nodes /\ ptws \in [Nodes -> Seq(Plan)] /\ pc = "Window"
  BY WindowFacts
<1> QED
  BY <1>1 DEF IInv, Kept, SeenInv, Settles, PrePlan, OriTw, CostTime

LEMMA WaitIInv == IInv /\ Wait => IInv'
<1> SUFFICES ASSUME IInv, Wait
             PROVE  IInv'
  OBVIOUS
<1> DEFINE better == \/ plan_node_tws_len = 0
                     \/ ptws[node][1].over_time > 0
                     \/ OriTw.early - LateArr(PrePlan, CostTime) < ptws[node][1].wait_time
<1>1. /\ AtWindow /\ Waits(PrePlan, CostTime, OriTw) /\ ~ non_wait_over_flag
      /\ KeepOne(better) /\ non_wait_over_flag' = non_wait_over_flag
      /\ non_wait_over_flag \in BOOLEAN
  BY DEF Wait, KeepOne, IInv, TypeOK
<1>2. /\ CurPlan \in Plan /\ ~ Punctual(CurPlan) /\ CurPlan.over_time = 0
      /\ ~ Fits(PrePlan, CostTime, OriTw)
  BY <1>1, WindowFacts, ForwardPlan DEF CurPlan, Fits
<1> HIDE DEF better
<1>3. CASE better
  <2>1. ptws' = [ptws EXCEPT ![node] = << CurPlan >>]
    BY <1>1, <1>3 DEF KeepOne
  <2>2. Settles(<< CurPlan >>, non_wait_over_flag)
    BY <1>1, <1>2, OnePlan, NoneFits DEF Settles, PrePlan, OriTw
  <2> QED
    BY <1>1, <2>1, <2>2, SettledIInv DEF KeepOne
<1>4. CASE ~ better
  <2>1. plan_node_tws_len # 0 /\ ptws' = ptws
    BY <1>1, <1>4 DEF KeepOne, better
  <2>2. ptws[node] # << >>
    BY <1>1, <2>1 DEF IInv, TypeOK, Kept, AtWindow
  <2>3. Settles(ptws[node], non_wait_over_flag) /\ ptws' = [ptws EXCEPT ![node] = ptws[node]]
    BY <1>1, <1>2, <2>1, <2>2, LeftAlone
  <2> QED
    BY <1>1, <2>3, SettledIInv DEF KeepOne
<1> QED
  BY <1>3, <1>4

LEMMA MissIInv == IInv /\ Miss => IInv'
<1> SUFFICES ASSUME IInv, Miss
             PROVE  IInv'
  OBVIOUS
<1> DEFINE better ==
      /\ ~ non_wait_over_flag
      /\ \/ plan_node_tws_len = 0
         \/ /\ ptws[node][1].wait_time = 0
            /\ EarlyArr(PrePlan, CostTime) - OriTw.late < ptws[node][1].over_time
<1>1. /\ AtWindow /\ Misses(PrePlan, CostTime, OriTw)
      /\ KeepOne(better) /\ non_wait_over_flag' = non_wait_over_flag
      /\ non_wait_over_flag \in BOOLEAN
  BY DEF Miss, KeepOne, IInv, TypeOK
<1>2. CurPlan \in Plan /\ ~ Punctual(CurPlan) /\ ~ Fits(PrePlan, CostTime, OriTw)
  BY <1>1, WindowFacts, ForwardPlan DEF CurPlan, Fits
<1>3. CASE better
  <2>1. ptws' = [ptws EXCEPT ![node] = << CurPlan >>] /\ ~ non_wait_over_flag
    BY <1>1, <1>3 DEF KeepOne
  <2>2. Settles(<< CurPlan >>, non_wait_over_flag)
    BY <1>1, <1>2, <2>1, OnePlan, NoneFits DEF Settles, PrePlan, OriTw
  <2> QED
    BY <1>1, <2>1, <2>2, SettledIInv DEF KeepOne
<1>4. CASE ~ better
  <2>1. ptws' = ptws /\ (non_wait_over_flag \/ plan_node_tws_len # 0)
    BY <1>1, <1>4 DEF KeepOne
  <2>2. ptws[node] # << >>
    BY <1>1, <2>1 DEF IInv, TypeOK, Kept, AtWindow
  <2>3. Settles(ptws[node], non_wait_over_flag) /\ ptws' = [ptws EXCEPT ![node] = ptws[node]]
    BY <1>1, <1>2, <2>1, <2>2, LeftAlone
  <2>4. non_wait_over_flag \in BOOLEAN
    BY DEF IInv, TypeOK
  <2> QED
    BY <1>1, <2>3, <2>4, SettledIInv DEF KeepOne
<1> QED
  BY <1>3, <1>4

LEMMA FitIInv == IInv /\ Fit => IInv'
<1> SUFFICES ASSUME IInv, Fit
             PROVE  IInv'
  OBVIOUS
<1>1. /\ AtWindow /\ Fits(PrePlan, CostTime, OriTw) /\ ~ Misses(PrePlan, CostTime, OriTw)
      /\ win' = win + 1 /\ non_wait_over_flag' = TRUE /\ non_wait_over_flag \in BOOLEAN
      /\ UNCHANGED <<route, pc, node, pre, plan_node_tws_len, time_window_plans>>
  BY DEF Fit, Fits, IInv, TypeOK
<1>2. CurPlan \in Plan /\ Punctual(CurPlan) /\ CurPlan = PlanFrom(node, pre, win)
  BY <1>1, WindowFacts, ForwardPlan DEF CurPlan
<1>3. node \in Nodes /\ ptws \in [Nodes -> Seq(Plan)] /\ ptws[node] \in Seq(Plan)
  BY <1>1, WindowFacts
<1>4. CASE non_wait_over_flag
  <2> DEFINE s == Append(ptws[node], CurPlan)
  <2>1. ptws' = [ptws EXCEPT ![node] = s]
    BY <1>3, <1>4 DEF Fit
  <2>2. /\ ptws[node] # << >> /\ \A k \in DOMAIN ptws[node] : Punctual(ptws[node][k])
        /\ Len(ptws[node]) \in Nat /\ DOMAIN ptws[node] = 1 .. Len(ptws[node])
        /\ Len(ptws[node]) >= 1
    BY <1>1, <1>3, <1>4, PlanLists DEF IInv, Kept, AtWindow
  <2>3. /\ s \in Seq(Plan) /\ Len(s) = Len(ptws[node]) + 1 /\ DOMAIN s = 1 .. Len(s)
        /\ s[Len(s)] = CurPlan /\ \A k \in DOMAIN ptws[node] : s[k] = ptws[node][k]
    BY <1>2, <1>3, <2>2, AppendProperties, PlanLists
  <2> HIDE DEF s
  <2>4. /\ \A k \in DOMAIN s : k = Len(s) \/ k \in DOMAIN ptws[node]
        /\ \A k \in DOMAIN ptws[node] : k \in DOMAIN s
        /\ Len(s) \in DOMAIN s /\ 1 \in DOMAIN ptws[node]
    BY <2>2, <2>3
  <2>5. s # << >> /\ \A k \in DOMAIN s : Punctual(s[k])
    BY <1>2, <2>2, <2>3, <2>4, EmptySeq
  <2>6. ASSUME NEW j \in DOMAIN ptws[node - 1], NEW v \in DOMAIN route.windows[node],
               Seen(node, j, v), Fits(ptws[node - 1][j], CostTime, route.windows[node][v])
        PROVE  \E k \in DOMAIN s : s[k] = PlanFrom(node, j, v)
    <3>1. PICK k \in DOMAIN ptws[node] : ptws[node][k] = PlanFrom(node, j, v)
      BY <1>1, <2>6, WindowFacts DEF IInv, SeenInv, CostTime
    <3> QED
      BY <2>3, <2>4, <3>1
  <2>7. s[Len(s)] = PlanFrom(node, pre, win) /\ Len(s) \in DOMAIN s
    BY <1>2, <2>3, <2>4
  <2>8. \A k \in DOMAIN s : s[k] = CurPlan \/ \E i \in DOMAIN ptws[node] : s[k] = ptws[node][i]
    BY <2>3, <2>4
  <2>9. Settles(s, TRUE)
    BY <2>3, <2>5, <2>6, <2>7, <2>8 DEF Settles
  <2> QED
    BY <1>1, <2>1, <2>9, SettledIInv
<1>5. CASE ~ non_wait_over_flag
  <2>1. ptws' = [ptws EXCEPT ![node] = << CurPlan >>]
    BY <1>3, <1>5 DEF Fit
  <2>2. Settles(<< CurPlan >>, TRUE)
    BY <1>1, <1>2, <1>5, OnePlan, NoneFits DEF Settles
  <2> QED
    BY <1>1, <2>1, <2>2, SettledIInv
<1> QED
  BY <1>4, <1>5

----------------------------------------------------------------------------
(* The verdict and the backward inference *)

\* Once the forward inference is over its plans stay: what is left to show.
LEMMA PlansStay ==
  ASSUME IInv, pc \in {"Judge", "Back"}, pc' \in {"Rejected", "Back", "Exported"},
         UNCHANGED <<route, pre, win, plan_node_tws_len, non_wait_over_flag, ptws>>,
         node' \in 0 .. N + 1, DOMAIN time_window_plans' \subseteq Nodes,
         time_window_plans' \in [DOMAIN time_window_plans' -> Plan],
         PcInv', BackInv'
  PROVE  IInv'
<1>1. Nodes' = Nodes /\ N' = N /\ N \in Nat /\ Nodes = 1 .. N
  BY RouteShape DEF Nodes, N, IInv, TypeOK
<1>2. TypeOK'
  BY <1>1 DEF IInv, TypeOK
<1>3. Derived' /\ SinglesOnly' /\ Kept'
  BY <1>1 DEF IInv, Derived, SinglesOnly, Kept, PlanFrom
<1>4. SeenInv'
  <2>1. \A n \in 2 .. N : \A j, v : Seen(n, j, v)
    BY <1>1 DEF IInv, PcInv, Seen, Planned
  <2> QED
    BY <1>1, <2>1 DEF IInv, SeenInv, PlanFrom
<1> QED
  BY <1>2, <1>3, <1>4 DEF IInv

\* What a plan that is not late has from the plan and the window it comes from.
OnTime(n, p) ==
  /\ p \in Plan /\ Proper(p) /\ p.over_time = 0
  /\ p.early_depart = p.early_arr + p.wait_time + route.work[n]
  /\ p.late_depart = p.late_arr + p.wait_time + route.work[n]
  /\ \E v \in DOMAIN route.windows[n] :
       /\ route.windows[n][v] \in TimeWindow
       /\ route.windows[n][v].early <= p.early_arr + p.wait_time
       /\ p.late_arr + p.wait_time <= route.windows[n][v].late
  /\ n > 1 => \E j \in DOMAIN ptws[n - 1], v \in DOMAIN route.windows[n] :
       /\ ptws[n - 1][j] \in Plan /\ route.windows[n][v] \in TimeWindow
       /\ Drives(p, ptws[n - 1][j], route.travel[n], route.work[n], route.windows[n][v])

LEMMA PlanFacts ==
  ASSUME TypeOK, Derived, NEW n \in Nodes, NEW k \in DOMAIN ptws[n],
         ptws[n][k].over_time <= 0
  PROVE  OnTime(n, ptws[n][k])
<1> DEFINE p == ptws[n][k]
<1>1. /\ N \in Nat /\ N >= 2 /\ Nodes = 1 .. N /\ IsRoute(route) /\ route.work[1] = 0
      /\ route.work[n] \in Int /\ route.travel[n] \in Int
      /\ ptws[n] \in Seq(Plan) /\ ptws \in [Nodes -> Seq(Plan)]
  BY RouteShape DEF TypeOK, IsRoute, Nodes, N
<1>2. p \in Plan /\ Proper(p) /\ p.over_time = 0
  <2>1. p \in Plan /\ Proper(p)
    BY <1>1, PlanLists DEF Derived
  <2> QED
    BY <2>1 DEF Proper, Plan
<1>3. CASE n = 1
  <2>1. k \in DOMAIN route.windows[1] /\ p = WindowPlan(route.windows[1][k])
    <3>1. k \in 1 .. Len(route.windows[1]) /\ p = WindowPlan(route.windows[1][k])
      BY <1>3 DEF Derived
    <3> QED
      BY <1>1, <1>3, <3>1, Indices
  <2>2. route.windows[1][k] \in TimeWindow
    BY <1>1, <1>3, <2>1, WindowType
  <2>3. /\ p.early_depart = p.early_arr + p.wait_time + route.work[n]
        /\ p.late_depart = p.late_arr + p.wait_time + route.work[n]
        /\ route.windows[1][k].early <= p.early_arr + p.wait_time
        /\ p.late_arr + p.wait_time <= route.windows[1][k].late
    BY <1>1, <1>3, <2>1, <2>2 DEF WindowPlan, TimeWindow
  <2> QED
    BY <1>2, <1>3, <2>1, <2>2, <2>3 DEF OnTime
<1>4. CASE n # 1
  <2>1. n \in 2 .. N /\ n - 1 \in Nodes
    BY <1>1, <1>4
  <2>2. PICK j \in DOMAIN ptws[n - 1], v \in DOMAIN route.windows[n] : p = PlanFrom(n, j, v)
    BY <2>1 DEF Derived
  <2>3. ptws[n - 1][j] \in Plan /\ Proper(ptws[n - 1][j])
    BY <1>1, <2>1, PlanLists DEF Derived
  <2>4. route.windows[n][v] \in TimeWindow /\ route.windows[n][v].early <= route.windows[n][v].late
    BY <1>1, WindowType
  <2>5. p = ForwardSS(ptws[n - 1][j], route.travel[n], route.work[n], route.windows[n][v])
    BY <2>2 DEF PlanFrom
  <2>6. Drives(p, ptws[n - 1][j], route.travel[n], route.work[n], route.windows[n][v])
    BY <1>1, <1>2, <2>3, <2>4, <2>5, ForwardTimes
  <2> QED
    BY <1>2, <2>3, <2>4, <2>6 DEF OnTime, Drives
<1> QED
  BY <1>3, <1>4

LEMMA RejectIInv == IInv /\ Reject => IInv'
<1> SUFFICES ASSUME IInv, Reject
             PROVE  IInv'
  OBVIOUS
<1>1. /\ pc = "Judge" /\ pc' = "Rejected"
      /\ UNCHANGED <<route, node, pre, win, plan_node_tws_len, non_wait_over_flag, ptws,
                     time_window_plans>>
      /\ DOMAIN time_window_plans = {} /\ node = N + 1
      /\ node \in 0 .. N + 1 /\ time_window_plans \in [DOMAIN time_window_plans -> Plan]
  BY DEF Reject, IInv, PcInv, TypeOK
<1>2. Late'
  BY <1>1 DEF Reject, Late, Nodes, N
<1>3. PcInv' /\ BackInv'
  BY <1>1, <1>2 DEF PcInv, BackInv, ExportedScheduleHolds
<1> QED
  BY <1>1, <1>3, PlansStay

LEMMA ExportIInv == IInv /\ Export => IInv'
<1> SUFFICES ASSUME IInv, Export
             PROVE  IInv'
  OBVIOUS
<1>1. /\ pc = "Back" /\ pc' = "Exported" /\ node = 0
      /\ UNCHANGED <<route, node, pre, win, plan_node_tws_len, non_wait_over_flag, ptws,
                     time_window_plans>>
      /\ node \in 0 .. N + 1 /\ time_window_plans \in [DOMAIN time_window_plans -> Plan]
      /\ DOMAIN time_window_plans = node + 1 .. N /\ ~ Late
      /\ DOMAIN time_window_plans \subseteq Nodes
  BY DEF Export, IInv, PcInv, TypeOK
<1>2. Nodes' = Nodes /\ N' = N /\ Nodes = 1 .. N /\ N \in Nat
  BY <1>1, RouteShape DEF Nodes, N, IInv, TypeOK
<1>3. PcInv'
  BY <1>1, <1>2 DEF PcInv, Late
<1>4. BackInv'
  BY <1>1, <1>2 DEF IInv, BackInv, ExportedScheduleHolds, Scheduled
<1> QED
  BY <1>1, <1>2, <1>3, <1>4, PlansStay

LEMMA AcceptIInv == IInv /\ Accept => IInv'
<1> SUFFICES ASSUME IInv, Accept
             PROVE  IInv'
  OBVIOUS
<1>1. /\ pc = "Judge" /\ ~ Late /\ pc' = "Back" /\ node' = N - 1
      /\ time_window_plans' = [n \in {N} |-> ptws[N][1]]
      /\ UNCHANGED <<route, pre, win, plan_node_tws_len, non_wait_over_flag, ptws>>
      /\ ptws \in [Nodes -> Seq(Plan)] /\ TypeOK /\ Derived
  BY DEF Accept, IInv, TypeOK
<1>2. Nodes' = Nodes /\ N' = N /\ Nodes = 1 .. N /\ N \in Nat /\ N >= 2 /\ N \in Nodes
  BY <1>1, RouteShape DEF Nodes, N, TypeOK
<1>3. ptws[N] # << >> /\ ~ ptws[N][1].over_time > 0 /\ 1 \in DOMAIN ptws[N]
  <2>1. ptws[N] # << >> /\ ~ ptws[N][1].over_time > 0
    BY <1>1, <1>2 DEF Late
  <2> QED
    BY <1>1, <1>2, <2>1, PlanLists
<1> DEFINE p == ptws[N][1]
<1>4. p \in Plan
  BY <1>1, <1>2, <1>3, PlanLists
<1>5. p.over_time <= 0
  BY <1>3, <1>4 DEF Plan
<1>6. OnTime(N, p)
  BY <1>1, <1>2, <1>3, <1>5, PlanFacts
<1>7. DOMAIN time_window_plans' = {N} /\ time_window_plans'[N] = p
  BY <1>1
<1>8. PcInv'
  <2>1. {N} = N - 1 + 1 .. N /\ N - 1 \in 0 .. N - 1
    BY <1>2
  <2> QED
    BY <1>1, <1>2, <1>7, <2>1 DEF PcInv, Late
<1>9. BackInv'
  <2>1. InPlan(p, p)
    BY <1>4, <1>6 DEF InPlan, OnTime, Proper, Plan
  <2> HIDE DEF p
  <2>3. route' = route /\ ~ N < N
    BY <1>1, <1>2
  <2>2. ExportedScheduleHolds'
    BY <1>2, <1>6, <1>7, <2>3 DEF ExportedScheduleHolds, Scheduled, OnTime, Proper
  <2> QED
    BY <1>1, <1>3, <1>7, <2>1, <2>2 DEF BackInv, p
<1>10. time_window_plans' \in [DOMAIN time_window_plans' -> Plan]
  BY <1>1, <1>4
<1> QED
  BY <1>1, <1>2, <1>7, <1>8, <1>9, <1>10, PlansStay

LEMMA PlanFields ==
  \A x \in Plan : /\ x.early_arr \in Int /\ x.late_arr \in Int
                  /\ x.early_depart \in Int /\ x.late_depart \in Int
                  /\ x.wait_time \in Int /\ x.over_time \in Int
BY DEF Plan

LEMMA LeastNumber ==
  ASSUME NEW S, S \subseteq Nat, S # {}
  PROVE  \E k \in S : \A j \in S : k <= j
<1> DEFINE upTo == {0 .. k : k \in S}
           less == StrictSubsetOrdering(Nat)
<1>1. upTo \subseteq FiniteSubsetsOf(Nat) /\ upTo # {}
  <2>1. \A k \in S : 0 .. k \in SUBSET Nat /\ IsFiniteSet(0 .. k)
    BY FS_Interval
  <2> QED
    BY <2>1 DEF FiniteSubsetsOf
<1>2. IsWellFoundedOn(less, FiniteSubsetsOf(Nat))
  BY FS_StrictSubsetOrderingWellFounded
<1>3. \E x \in upTo : \A y \in upTo : << y, x >> \notin less
  <2> HIDE DEF upTo, less
  <2> QED
    BY <1>1, <1>2, WFMin
<1>4. PICK k \in S : \A j \in S : << 0 .. j, 0 .. k >> \notin less
  BY <1>3
<1>5. ASSUME NEW j \in S, j < k
      PROVE  FALSE
  <2>1. 0 .. j \in SUBSET Nat /\ 0 .. k \in SUBSET Nat
    OBVIOUS
  <2>2. 0 .. j \subseteq 0 .. k /\ k \in 0 .. k /\ k \notin 0 .. j
    BY <1>5
  <2>3. << 0 .. j, 0 .. k >> \in less
    BY <2>1, <2>2 DEF StrictSubsetOrdering
  <2> QED
    BY <1>4, <2>3
<1>6. \A j \in S : k <= j
  BY <1>5
<1> QED
  BY <1>6

LEMMA LeastIndex ==
  ASSUME NEW S, S \subseteq Nat, S # {}
  PROVE  LET k == CHOOSE k \in S : \A j \in S : k <= j
         IN  k \in S
BY LeastNumber

\* A node passed backward: a plan of the node after, and the first plan of
\* this one that is not punctual or holds the arrivals.
LEMMA BackwardHolds ==
  ASSUME TypeOK, Derived, SinglesOnly, ~ Late,
         NEW n \in Nodes, n + 1 \in Nodes,
         NEW next \in Plan, NEW i \in DOMAIN ptws[n + 1], InPlan(next, ptws[n + 1][i])
  PROVE  LET p == BackwardPlan(next, n)
         IN  /\ p \in Plan /\ p.wait_time >= 0
             /\ p.early_depart = p.early_arr + p.wait_time + route.work[n]
             /\ p.late_depart = p.late_arr + p.wait_time + route.work[n]
             /\ next.early_arr = p.early_depart + route.travel[n + 1]
             /\ next.late_arr = p.late_depart + route.travel[n + 1]
             /\ \E k \in DOMAIN ptws[n] : OnTime(n, ptws[n][k]) /\ InPlan(p, ptws[n][k])
<1> DEFINE p == BackwardPlan(next, n)
           after == ptws[n + 1][i]
           arrivals == Arrivals(next, n)
           stops == {k \in DOMAIN ptws[n] : Stops(ptws[n][k], arrivals)}
           first == CHOOSE k \in stops : \A j \in stops : k <= j
           plan == ptws[n][first]
<1> HIDE DEF p, after, arrivals, stops, first, plan
<1>1. /\ N \in Nat /\ Nodes = 1 .. N /\ IsRoute(route) /\ ptws[n] \in Seq(Plan)
      /\ route.work[n] \in Int /\ route.travel[n + 1] \in Int
      /\ DOMAIN ptws[n] \subseteq Nat /\ ptws[n] # << >> => ~ ptws[n][1].over_time > 0
  <2>1. ptws[n] \in Seq(Plan) /\ ptws[n] # << >> => ~ ptws[n][1].over_time > 0
    BY DEF TypeOK, Late
  <2> QED
    BY <2>1, RouteShape, Indices DEF TypeOK, IsRoute, N, Nodes, Late
<1>2. OnTime(n + 1, after)
  BY PlanFacts DEF InPlan, after
<1>3. PICK j \in DOMAIN ptws[n] :
        /\ ptws[n][j] \in Plan
        /\ ptws[n][j].early_depart <= after.early_arr - route.travel[n + 1]
        /\ after.late_arr - route.travel[n + 1] <= ptws[n][j].late_depart
  <2>1. n + 1 > 1 /\ (n + 1) - 1 = n
    BY <1>1
  <2> QED
    BY <1>2, <2>1 DEF OnTime, Drives
<1> DEFINE q == ptws[n][j]
<1>4. /\ after \in Plan /\ next.early_arr <= next.late_arr
      /\ after.early_arr <= next.early_arr /\ next.late_arr <= after.late_arr
  BY <1>2 DEF OnTime, InPlan, after
<1>5. /\ q \in Plan /\ q.early_depart <= after.early_arr - route.travel[n + 1]
      /\ after.late_arr - route.travel[n + 1] <= q.late_depart
  BY <1>3
<1> HIDE DEF q
<1>6. /\ arrivals[1] = next.early_arr - route.travel[n + 1] - route.work[n]
      /\ arrivals[2] = next.late_arr - route.travel[n + 1] - route.work[n]
  BY DEF arrivals, Arrivals, Departures
<1>7. /\ arrivals[1] \in Int /\ arrivals[2] \in Int /\ arrivals[1] <= arrivals[2]
      /\ q.early_depart - route.work[n] <= arrivals[1]
      /\ arrivals[2] <= q.late_depart - route.work[n]
  <2>1. /\ next.early_arr \in Int /\ next.late_arr \in Int
        /\ after.early_arr \in Int /\ after.late_arr \in Int
        /\ q.early_depart \in Int /\ q.late_depart \in Int
    BY <1>4, <1>5, PlanFields
  <2>2. route.work[n] \in Int /\ route.travel[n + 1] \in Int
    BY <1>1
  <2> QED
    BY <2>1, <2>2, <1>4, <1>5, <1>6
\* An arrival that leads to the departures of q is one of its arrivals.
<1>8. OnTime(n, q) => /\ q.early_arr <= arrivals[1] - q.wait_time
                      /\ arrivals[2] - q.wait_time <= q.late_arr
  <2>1. /\ q.early_arr \in Int /\ q.late_arr \in Int /\ q.wait_time \in Int
        /\ q.early_depart \in Int /\ q.late_depart \in Int /\ route.work[n] \in Int
    BY <1>1, <1>5, PlanFields
  <2>2. OnTime(n, q) => /\ q.early_depart = q.early_arr + q.wait_time + route.work[n]
                        /\ q.late_depart = q.late_arr + q.wait_time + route.work[n]
    BY DEF OnTime
  <2> QED
    BY <1>7, <2>1, <2>2
<1>9. ASSUME NEW k \in DOMAIN ptws[n], Punctual(ptws[n][k])
      PROVE  OnTime(n, ptws[n][k]) /\ ptws[n][k].wait_time = 0
  <2>1. OnTime(n, ptws[n][k])
    BY <1>9, PlanFacts DEF Punctual
  <2> QED
    BY <1>9, <2>1 DEF OnTime, Punctual, Proper, Plan
\* The plan it was reached from is one to stop at.
<1>10. j \in stops
  <2>1. CASE Punctual(q)
    <3>1. OnTime(n, q) /\ q.wait_time = 0
      BY <1>9, <2>1 DEF q
    <3> QED
      BY <1>7, <1>8, <3>1 DEF Stops, Holds, stops, q
  <2>2. CASE ~ Punctual(q)
    BY <2>2 DEF Stops, stops, q
  <2> QED
    BY <2>1, <2>2
<1>11. first \in DOMAIN ptws[n] /\ Stops(plan, arrivals) /\ stops # {}
  <2>1. stops \subseteq Nat /\ stops # {}
    BY <1>1, <1>10 DEF stops
  <2>2. first \in stops
    BY <2>1, LeastIndex DEF first
  <2> QED
    BY <2>1, <2>2 DEF stops, plan
<1>12. /\ OnTime(n, plan) /\ plan.early_arr <= arrivals[1] - plan.wait_time
       /\ arrivals[2] - plan.wait_time <= plan.late_arr
  <2>1. CASE Punctual(plan)
    <3>1. OnTime(n, plan) /\ plan.wait_time = 0
      BY <1>9, <1>11, <2>1 DEF plan
    <3> QED
      BY <1>7, <1>11, <2>1, <3>1 DEF Stops, Holds
  <2>2. CASE ~ Punctual(plan)
    <3>1. Len(ptws[n]) = 1 /\ DOMAIN ptws[n] = 1 .. 1 /\ ptws[n] # << >>
      <4>1. Len(ptws[n]) = 1
        BY <1>11, <2>2 DEF SinglesOnly, plan
      <4> QED
        BY <1>1, <4>1, PlanLists
    <3>2. first = 1 /\ j = 1
      BY <1>11, <3>1
    <3>3. plan = q /\ plan = ptws[n][1]
      BY <3>2 DEF plan, q
    <3>4. plan.over_time <= 0
      <4>1. ~ plan.over_time > 0
        BY <1>1, <3>1, <3>3
      <4>2. plan.over_time \in Int
        BY <1>5, <3>3, PlanFields
      <4> QED
        BY <4>1, <4>2
    <3>5. OnTime(n, plan)
      BY <1>11, <3>4, PlanFacts DEF plan
    <3> QED
      BY <1>8, <3>3, <3>5
  <2> QED
    BY <2>1, <2>2
<1>13. p = [early_arr |-> arrivals[1] - plan.wait_time,
            late_arr |-> arrivals[2] - plan.wait_time,
            early_depart |-> next.early_arr - route.travel[n + 1],
            late_depart |-> next.late_arr - route.travel[n + 1],
            wait_time |-> plan.wait_time,
            over_time |-> plan.over_time]
  BY <1>11 DEF BackwardPlan, Departures, arrivals, p, stops, first, plan
<1>14. plan \in Plan /\ plan.wait_time >= 0 /\ plan.over_time = 0
  BY <1>12 DEF OnTime, Proper
<1>15. /\ p \in Plan /\ p.wait_time >= 0
       /\ p.early_depart = p.early_arr + p.wait_time + route.work[n]
       /\ p.late_depart = p.late_arr + p.wait_time + route.work[n]
       /\ next.early_arr = p.early_depart + route.travel[n + 1]
       /\ next.late_arr = p.late_depart + route.travel[n + 1]
  <2>1. /\ plan.wait_time \in Int /\ next.early_arr \in Int /\ next.late_arr \in Int
        /\ route.work[n] \in Int /\ route.travel[n + 1] \in Int
    BY <1>1, <1>14, PlanFields
  <2>2. p \in Plan
    BY <1>7, <1>13, <1>14, <2>1 DEF Plan
  <2> QED
    BY <1>6, <1>7, <1>13, <1>14, <2>1, <2>2
<1>16. InPlan(p, plan)
  BY <1>7, <1>12, <1>13, <1>14 DEF InPlan, Plan
<1> QED
  BY <1>11, <1>12, <1>15, <1>16 DEF p, plan

LEMMA BackIInv == IInv /\ Back => IInv'
<1> SUFFICES ASSUME IInv, Back
             PROVE  IInv'
  OBVIOUS
<1> DEFINE p == BackwardPlan(time_window_plans[node + 1], node)
<1>1. /\ pc = "Back" /\ pc' = "Back" /\ node >= 1 /\ node' = node - 1 /\ ~ Late
      /\ UNCHANGED <<route, pre, win, plan_node_tws_len, non_wait_over_flag, ptws>>
      /\ node \in 0 .. N - 1 /\ DOMAIN time_window_plans = node + 1 .. N
      /\ time_window_plans \in [DOMAIN time_window_plans -> Plan]
      /\ TypeOK /\ Derived /\ SinglesOnly
  BY DEF Back, IInv, PcInv, TypeOK
<1>2. /\ Nodes' = Nodes /\ N' = N /\ Nodes = 1 .. N /\ N \in Nat
      /\ node \in Nodes /\ node + 1 \in Nodes /\ node + 1 \in DOMAIN time_window_plans
      /\ DOMAIN time_window_plans \cup {node} = node' + 1 .. N
      /\ node' \in 0 .. N - 1 /\ node \notin DOMAIN time_window_plans
  <2>1. Nodes' = Nodes /\ N' = N /\ Nodes = 1 .. N /\ N \in Nat
    BY <1>1, RouteShape DEF Nodes, N, TypeOK
  <2> QED
    BY <1>1, <2>1
<1>3. PICK i \in DOMAIN ptws[node + 1] : InPlan(time_window_plans[node + 1], ptws[node + 1][i])
  BY <1>2 DEF IInv, BackInv
<1>4. /\ p \in Plan /\ p.wait_time >= 0
      /\ p.early_depart = p.early_arr + p.wait_time + route.work[node]
      /\ p.late_depart = p.late_arr + p.wait_time + route.work[node]
      /\ time_window_plans[node + 1].early_arr = p.early_depart + route.travel[node + 1]
      /\ time_window_plans[node + 1].late_arr = p.late_depart + route.travel[node + 1]
      /\ \E k \in DOMAIN ptws[node] : OnTime(node, ptws[node][k]) /\ InPlan(p, ptws[node][k])
  BY <1>1, <1>2, <1>3, BackwardHolds
<1>5. /\ time_window_plans' = [n \in DOMAIN time_window_plans \cup {node} |->
                                IF n = node THEN p ELSE time_window_plans[n]]
  BY DEF Back
<1> HIDE DEF p
<1>6. /\ DOMAIN time_window_plans' = node' + 1 .. N /\ time_window_plans'[node] = p
      /\ \A n \in DOMAIN time_window_plans : time_window_plans'[n] = time_window_plans[n]
      /\ \A n \in DOMAIN time_window_plans' : n = node \/ n \in DOMAIN time_window_plans
      /\ time_window_plans' \in [DOMAIN time_window_plans' -> Plan]
  BY <1>1, <1>2, <1>4, <1>5
<1>7. PcInv'
  BY <1>1, <1>2, <1>6 DEF PcInv, Late
<1>8. BackInv'
  <2>1. PICK k \in DOMAIN ptws[node] : OnTime(node, ptws[node][k]) /\ InPlan(p, ptws[node][k])
    BY <1>4
  <2>2. PICK v \in DOMAIN route.windows[node] :
          /\ route.windows[node][v].early <= p.early_arr + p.wait_time
          /\ p.late_arr + p.wait_time <= route.windows[node][v].late
    <3>1. PICK v \in DOMAIN route.windows[node] :
            /\ route.windows[node][v] \in TimeWindow
            /\ route.windows[node][v].early <= ptws[node][k].early_arr + ptws[node][k].wait_time
            /\ ptws[node][k].late_arr + ptws[node][k].wait_time <= route.windows[node][v].late
      BY <2>1 DEF OnTime
    <3> QED
      BY <1>4, <2>1, <3>1 DEF InPlan, OnTime, Plan, TimeWindow
  <2>3. p.early_arr <= p.late_arr /\ p.over_time = 0
    BY <2>1 DEF InPlan
  <2>4. time_window_plans'[node + 1] = time_window_plans[node + 1]
    BY <1>2, <1>6
  <2>5. ASSUME NEW n \in DOMAIN time_window_plans, n < N
        PROVE  time_window_plans'[n + 1] = time_window_plans[n + 1]
    <3>1. n + 1 \in DOMAIN time_window_plans
      BY <1>1, <1>2, <2>5
    <3> QED
      BY <1>6, <3>1
  <2>6. ExportedScheduleHolds
    BY DEF IInv, BackInv
  <2>7. ASSUME NEW n \in DOMAIN time_window_plans'
        PROVE  Scheduled(n)'
    <3>1. CASE n = node
      BY <1>1, <1>2, <1>4, <1>6, <2>2, <2>3, <2>4, <3>1 DEF Scheduled
    <3>2. CASE n # node
      <4>1. n \in DOMAIN time_window_plans
        BY <1>6, <3>2
      <4>2. Scheduled(n)
        BY <2>6, <4>1 DEF ExportedScheduleHolds
      <4> QED
        BY <1>1, <1>2, <1>6, <2>5, <4>1, <4>2 DEF Scheduled
    <3> QED
      BY <3>1, <3>2
  <2>8. ExportedScheduleHolds'
    BY <2>7 DEF ExportedScheduleHolds
  <2> QED
    BY <1>1, <1>6, <2>1, <2>8 DEF IInv, BackInv
<1>9. DOMAIN time_window_plans' \subseteq Nodes /\ node' \in 0 .. N + 1
  BY <1>2, <1>6
<1> QED
  BY <1>1, <1>6, <1>7, <1>8, <1>9, PlansStay

----------------------------------------------------------------------------
(* The theorems *)

\* The inductive invariant holds in every reachable state.
THEOREM RouteTimesInvariant == Spec => []IInv
<1>1. Init => IInv
  BY InitIInv
<1>2. IInv /\ [Next]_vars => IInv'
  <2>1. IInv /\ UNCHANGED vars => IInv'
    BY DEF vars, IInv, TypeOK, PcInv, Derived, Kept, SinglesOnly, SeenInv, BackInv, Late,
           ExportedScheduleHolds, Scheduled, PlanFrom, Seen, Planned, Nodes, N
  <2>2. IInv /\ Next => IInv'
    BY NextPlanIInv, NextNodeIInv, WindowsDoneIInv, StopWaitingIInv, WaitIInv, MissIInv,
       FitIInv, RejectIInv, AcceptIInv, BackIInv, ExportIInv DEF Next
  <2> QED
    BY <2>1, <2>2
<1> QED
  BY <1>1, <1>2, PTL DEF Spec

\* The state of update_time_window and of the backward inference is well typed.
THEOREM RouteTimesTypeOK == Spec => []TypeOK
<1>1. IInv => TypeOK
  BY DEF IInv
<1> QED
  BY <1>1, RouteTimesInvariant, PTL

\* A plan that waits or is late is the only plan of its node.
THEOREM RouteTimesSinglesOnly == Spec => []SinglesOnly
<1>1. IInv => SinglesOnly
  BY DEF IInv
<1> QED
  BY <1>1, RouteTimesInvariant, PTL

LEMMA IInvRealisable == IInv => DeparturesRealisable
<1> SUFFICES ASSUME IInv, NEW n \in Nodes, n > 1, NEW k \in DOMAIN ptws[n],
                    ptws[n][k].over_time <= 0
             PROVE  /\ ptws[n][k].early_depart <= ptws[n][k].late_depart
                    /\ Serves(ptws[n][k], n, ptws[n][k].early_depart)
                    /\ Serves(ptws[n][k], n, ptws[n][k].late_depart)
  BY DEF DeparturesRealisable
<1> DEFINE p == ptws[n][k]
<1>1. OnTime(n, p) /\ IsRoute(route) /\ n \in 1 .. N
  BY PlanFacts DEF IInv, TypeOK, Nodes
<1> HIDE DEF p
<1>2. /\ p \in Plan /\ p.early_depart <= p.late_depart /\ p.early_arr <= p.late_arr
      /\ route.work[n] \in Int /\ route.travel[n] \in Int
  BY <1>1 DEF OnTime, Proper, IsRoute, N
<1>3. PICK j \in DOMAIN ptws[n - 1], v \in DOMAIN route.windows[n] :
        /\ ptws[n - 1][j] \in Plan /\ route.windows[n][v] \in TimeWindow
        /\ Drives(p, ptws[n - 1][j], route.travel[n], route.work[n], route.windows[n][v])
  BY <1>1 DEF OnTime
<1> DEFINE q == ptws[n - 1][j]
           w == route.windows[n][v]
<1>4. /\ p.early_arr \in Int /\ p.late_arr \in Int /\ p.wait_time \in Int
      /\ p.early_depart \in Int /\ p.late_depart \in Int
      /\ q.early_depart \in Int /\ q.late_depart \in Int /\ w.early \in Int /\ w.late \in Int
  BY <1>2, <1>3, PlanFields DEF TimeWindow
<1>5. Drives(p, q, route.travel[n], route.work[n], w)
  BY <1>3
<1> HIDE DEF q, w
<1>6. ASSUME NEW d \in {p.early_depart, p.late_depart}
      PROVE  /\ q.early_depart <= d - route.work[n] - p.wait_time - route.travel[n]
             /\ d - route.work[n] - p.wait_time - route.travel[n] <= q.late_depart
             /\ w.early <= d - route.work[n] /\ d - route.work[n] <= w.late
             /\ p.early_arr <= d - route.work[n] - p.wait_time
             /\ d - route.work[n] - p.wait_time <= p.late_arr
  BY <1>2, <1>4, <1>5 DEF Drives
<1>7. \A d \in {p.early_depart, p.late_depart} : Serves(p, n, d)
  BY <1>6 DEF Serves, q, w
<1> QED
  BY <1>2, <1>7 DEF p

\* Every departure a plan offers can be driven from the plans before it.
THEOREM RouteTimesRealisable == Spec => []DeparturesRealisable
BY IInvRealisable, RouteTimesInvariant, PTL

LEMMA IInvPunctualKept == IInv => PunctualKept
<1> SUFFICES ASSUME IInv
             PROVE  PunctualKept
  OBVIOUS
<1>1. \A n \in Planned : n \in 2 .. N
  BY RouteShape DEF Planned, IInv, TypeOK
<1> QED
  BY <1>1 DEF IInv, SeenInv, Seen, PunctualKept

\* No plan that meets a window of the next node is lost.
THEOREM RouteTimesPunctualKept == Spec => []PunctualKept
BY IInvPunctualKept, RouteTimesInvariant, PTL

----------------------------------------------------------------------------
(* Ways that never wait *)

\* Some punctual plan of node n covers a departure after work that begins at x.
Leaves(n, x) ==
  \E k \in DOMAIN ptws[n] :
    /\ Punctual(ptws[n][k])
    /\ ptws[n][k].early_depart <= x + route.work[n]
    /\ x + route.work[n] <= ptws[n][k].late_depart

LEMMA LeavesFirst ==
  ASSUME IInv, NEW v \in DOMAIN route.windows[1], NEW d \in Int,
         route.windows[1][v].early <= d, d <= route.windows[1][v].late
  PROVE  Leaves(1, d)
<1>1. IsRoute(route) /\ 1 \in Nodes /\ route.work[1] = 0
  BY RouteShape DEF IInv, TypeOK, IsRoute
<1>2. v \in 1 .. Len(route.windows[1])
  BY <1>1, Indices DEF IInv
<1>3. v \in DOMAIN ptws[1] /\ ptws[1][v] = WindowPlan(route.windows[1][v])
  BY <1>2 DEF IInv, Derived
<1> QED
  BY <1>1, <1>3 DEF Leaves, WindowPlan, Punctual

LEMMA LeavesNext ==
  ASSUME IInv, NEW n \in Planned, NEW x \in Int, NEW y \in Int, Leaves(n - 1, x),
         y = x + route.work[n - 1] + route.travel[n],
         NEW v \in DOMAIN route.windows[n],
         route.windows[n][v].early <= y, y <= route.windows[n][v].late
  PROVE  Leaves(n, y)
<1>1. /\ n \in 2 .. N /\ n \in Nodes /\ n - 1 \in Nodes /\ IsRoute(route)
      /\ ptws \in [Nodes -> Seq(Plan)]
  BY RouteShape DEF Planned, IInv, TypeOK
<1>2. PICK j \in DOMAIN ptws[n - 1] :
        /\ ptws[n - 1][j].early_depart <= x + route.work[n - 1]
        /\ x + route.work[n - 1] <= ptws[n - 1][j].late_depart
  BY DEF Leaves
<1> DEFINE q == ptws[n - 1][j]
           w == route.windows[n][v]
           p == PlanFrom(n, j, v)
<1>3. /\ q \in Plan /\ w \in TimeWindow
      /\ route.work[n] \in Int /\ route.work[n - 1] \in Int /\ route.travel[n] \in Int
  <2>1. q \in Plan
    BY <1>1, PlanLists
  <2>2. w \in TimeWindow
    BY <1>1, WindowType
  <2>3. route.work[n] \in Int /\ route.work[n - 1] \in Int /\ route.travel[n] \in Int
    BY <1>1 DEF IsRoute, Nodes, N
  <2> QED
    BY <2>1, <2>2, <2>3
<1>4. /\ EarlyArr(q, route.travel[n]) <= y /\ y <= LateArr(q, route.travel[n])
      /\ EarlyArr(q, route.travel[n]) \in Int /\ LateArr(q, route.travel[n]) \in Int
  <2> HIDE DEF q, w
  <2>1. q.early_depart <= x + route.work[n - 1] /\ x + route.work[n - 1] <= q.late_depart
    BY <1>2 DEF q
  <2> QED
    BY <1>3, <2>1, PlanFields DEF EarlyArr, LateArr
<1>5. Fits(q, route.travel[n], w)
  BY <1>3, <1>4 DEF Fits, Waits, Misses, TimeWindow
<1>6. PICK k \in DOMAIN ptws[n] : ptws[n][k] = p
  BY <1>1, <1>5 DEF IInv, SeenInv, Seen
<1>7. p = Times(Later(EarlyArr(q, route.travel[n]), w.early),
                Earlier(LateArr(q, route.travel[n]), w.late), 0, 0, route.work[n])
  BY <1>5 DEF PlanFrom, ForwardSS, Fits
<1>8. Punctual(p) /\ p.early_depart <= y + route.work[n] /\ y + route.work[n] <= p.late_depart
  <2> HIDE DEF p, q
  <2>1. w.early \in Int /\ w.late \in Int
    BY <1>3 DEF TimeWindow
  <2> QED
    BY <1>3, <1>4, <1>7, <2>1 DEF Times, Later, Earlier, Punctual
<1> QED
  BY <1>6, <1>8 DEF Leaves

\* What NeverWaiting chooses: a way as far as node m.
Goes(start, d, m) ==
  start = [n \in 1 .. m |-> IF n = 1 THEN d
                            ELSE start[n - 1] + route.work[n - 1] + route.travel[n]]

LEMMA WaysExist ==
  ASSUME NEW d, NEW m \in Nat
  PROVE  \E start : Goes(start, d, m)
<1> DEFINE bad == {i \in Nat : ~ \E start : Goes(start, d, i)}
<1>1. SUFFICES ASSUME bad # {}
               PROVE  FALSE
  OBVIOUS
<1>2. PICK i \in bad : \A j \in bad : i <= j
  <2>1. bad \subseteq Nat
    OBVIOUS
  <2> HIDE DEF bad
  <2> QED
    BY <1>1, <2>1, LeastNumber
<1>3. CASE i = 0
  <2>1. Goes([n \in 1 .. 0 |-> d], d, 0)
    BY DEF Goes
  <2> QED
    BY <1>2, <1>3, <2>1
<1>4. CASE i # 0
  <2>1. i - 1 \in Nat /\ i - 1 \notin bad
    BY <1>2, <1>4
  <2>2. PICK s : Goes(s, d, i - 1)
    BY <2>1
  <2> DEFINE next == [n \in 1 .. i |-> IF n = 1 THEN d
                                       ELSE s[n - 1] + route.work[n - 1] + route.travel[n]]
  <2>3. ASSUME NEW n \in 1 .. i, n # 1
        PROVE  next[n - 1] = s[n - 1]
    <3>1. n - 1 \in 1 .. i - 1 /\ n - 1 \in 1 .. i
      BY <1>2, <2>3
    <3>2. s[n - 1] = IF n - 1 = 1 THEN d
                     ELSE s[(n - 1) - 1] + route.work[(n - 1) - 1] + route.travel[n - 1]
      BY <2>2, <3>1 DEF Goes
    <3> QED
      BY <3>1, <3>2
  <2>4. next = [n \in 1 .. i |-> IF n = 1 THEN d
                                 ELSE next[n - 1] + route.work[n - 1] + route.travel[n]]
    <3> HIDE DEF next
    <3> QED
      BY <2>3 DEF next
  <2>5. Goes(next, d, i)
    BY <2>4 DEF Goes
  <2> HIDE DEF next
  <2> QED
    BY <1>2, <2>5
<1> QED
  BY <1>3, <1>4

LEMMA WayOf ==
  ASSUME IInv, NEW d
  PROVE  Goes(NeverWaiting(d), d, N)
<1>1. N \in Nat /\ Nodes = 1 .. N
  BY RouteShape DEF IInv, TypeOK
<1>2. NeverWaiting(d) = CHOOSE start : Goes(start, d, N)
  BY <1>1 DEF NeverWaiting, Goes
<1>3. \E start : Goes(start, d, N)
  BY <1>1, WaysExist
<1> QED
  BY <1>2, <1>3

\* A way that never waits is one of the ways through the plans: no first node
\* is it lost at.
LEMMA WayKept ==
  ASSUME IInv, Nodes \subseteq Planned \cup {1},
         NEW v \in DOMAIN route.windows[1],
         NEW d \in route.windows[1][v].early .. route.windows[1][v].late,
         Punctually(NeverWaiting(d))
  PROVE  \A n \in Nodes : Leaves(n, NeverWaiting(d)[n])
<1> DEFINE start == NeverWaiting(d)
           bad == {n \in Nodes : ~ (start[n] \in Int /\ Leaves(n, start[n]))}
<1>1. /\ N \in Nat /\ Nodes = 1 .. N /\ 1 \in Nodes /\ IsRoute(route)
      /\ Goes(start, d, N) /\ d \in Int
      /\ route.windows[1][v].early <= d /\ d <= route.windows[1][v].late
  BY RouteShape, WindowType, WayOf DEF IInv, TypeOK, TimeWindow
<1> HIDE DEF start
<1>2. start[1] = d
  BY <1>1 DEF Goes
<1>3. ASSUME NEW n \in Nodes, n # 1
      PROVE  start[n] = start[n - 1] + route.work[n - 1] + route.travel[n]
  BY <1>1, <1>3 DEF Goes
<1>4. SUFFICES ASSUME bad # {}
               PROVE  FALSE
  BY DEF start
<1>5. PICK n \in bad : \A j \in bad : n <= j
  <2>1. bad \subseteq Nat
    BY <1>1
  <2> HIDE DEF bad
  <2> QED
    BY <1>4, <2>1, LeastNumber
<1>6. n # 1
  BY <1>1, <1>2, LeavesFirst
<1>7. n \in Planned /\ n - 1 \in Nodes /\ n - 1 \notin bad
  BY <1>1, <1>5, <1>6
<1>8. start[n - 1] \in Int /\ Leaves(n - 1, start[n - 1])
  BY <1>7
<1>9. start[n] \in Int
  <2>1. route.work[n - 1] \in Int /\ route.travel[n] \in Int
    BY <1>1, <1>7 DEF IsRoute, Nodes, N
  <2>2. start[n] = start[n - 1] + route.work[n - 1] + route.travel[n]
    BY <1>3, <1>6
  <2> QED
    BY <1>8, <2>1, <2>2
<1>10. PICK u \in DOMAIN route.windows[n] :
         route.windows[n][u].early <= start[n] /\ start[n] <= route.windows[n][u].late
  BY DEF Punctually, start
<1>11. Leaves(n, start[n])
  BY <1>3, <1>6, <1>7, <1>8, <1>9, <1>10, LeavesNext
<1> QED
  BY <1>9, <1>11

LEMMA IInvWaitFree == IInv => WaitFreeWayTaken
<1> SUFFICES ASSUME IInv, NEW v \in DOMAIN route.windows[1],
                    NEW d \in route.windows[1][v].early .. route.windows[1][v].late,
                    Punctually(NeverWaiting(d)),
                    \/ pc = "Rejected"
                    \/ \E n \in DOMAIN time_window_plans : time_window_plans[n].wait_time # 0
             PROVE  FALSE
  BY DEF WaitFreeWayTaken
<1>1. /\ N \in Nat /\ Nodes = 1 .. N /\ IsRoute(route)
      /\ ptws \in [Nodes -> Seq(Plan)] /\ DOMAIN time_window_plans \subseteq Nodes
  BY RouteShape DEF IInv, TypeOK
<1>2. pc \in {"Back", "Rejected", "Exported"}
  BY DEF IInv, PcInv
<1>3. Nodes \subseteq Planned \cup {1}
  BY <1>1, <1>2 DEF Planned
<1>4. ASSUME NEW n \in Nodes
      PROVE  /\ ptws[n] # << >> /\ 1 \in DOMAIN ptws[n]
             /\ \A k \in DOMAIN ptws[n] : Punctual(ptws[n][k])
  <2>1. PICK k \in DOMAIN ptws[n] : Punctual(ptws[n][k])
    BY <1>3, WayKept DEF Leaves
  <2>2. /\ ptws[n] \in Seq(Plan) /\ Len(ptws[n]) \in Nat /\ DOMAIN ptws[n] = 1 .. Len(ptws[n])
        /\ ptws[n] = << >> <=> Len(ptws[n]) = 0
    BY <1>1, PlanLists
  <2>3. ASSUME NEW i \in DOMAIN ptws[n], ~ Punctual(ptws[n][i])
        PROVE  FALSE
    <3>1. Len(ptws[n]) = 1
      BY <2>3 DEF IInv, SinglesOnly
    <3>2. i = k
      BY <2>2, <3>1
    <3> QED
      BY <2>1, <2>3, <3>2
  <2> QED
    BY <2>1, <2>2, <2>3
<1>5. ~ Late
  <2>1. ASSUME NEW n \in Nodes
        PROVE  ptws[n] # << >> /\ ~ ptws[n][1].over_time > 0
    <3>1. ptws[n][1] \in Plan
      BY <1>1, <1>4, PlanLists
    <3> QED
      BY <1>4, <3>1 DEF Punctual, Plan
  <2> QED
    BY <2>1 DEF Late
<1>6. PICK n \in DOMAIN time_window_plans : time_window_plans[n].wait_time # 0
  BY <1>5 DEF IInv, PcInv
<1>7. PICK k \in DOMAIN ptws[n] : InPlan(time_window_plans[n], ptws[n][k])
  BY DEF IInv, BackInv
<1>8. Punctual(ptws[n][k]) /\ ptws[n][k] \in Plan /\ Proper(ptws[n][k])
  BY <1>1, <1>4, PlanLists DEF IInv, Derived
<1> QED
  BY <1>6, <1>7, <1>8 DEF InPlan, Punctual, Proper, Plan

\* A route that can be driven without a wait is not rejected, and its exported
\* schedule does not wait.
THEOREM RouteTimesWaitFreeWayTaken == Spec => []WaitFreeWayTaken
BY IInvWaitFree, RouteTimesInvariant, PTL

\* The exported schedule can be driven.
THEOREM RouteTimesExportedScheduleHolds == Spec => []ExportedScheduleHolds
<1>1. IInv => ExportedScheduleHolds
  BY DEF IInv, BackInv
<1> QED
  BY <1>1, RouteTimesInvariant, PTL
=============================================================================
