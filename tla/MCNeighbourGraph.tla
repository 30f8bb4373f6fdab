-------------------------- MODULE MCNeighbourGraph --------------------------
(***************************************************************************)
(* NeighbourGraph for TLC: five orders at three places on a one-way loop   *)
(* or a road, driven by two vehicles with a matrix each.                   *)
(***************************************************************************)
EXTENDS NeighbourGraph

MCLocations == 0 .. 2

\* One of them drives both ways, the other around.
MCDist ==
  [v \in {"van", "truck"} |->
     [l \in MCLocations \X MCLocations |->
        IF v = "truck" THEN (l[2] - l[1]) % 3
        ELSE IF l[1] < l[2] THEN 2 * (l[2] - l[1]) ELSE 2 * (l[1] - l[2])]]

Everything == [o \in Orders |-> {"van", "truck"}]
OneEach == [Everything EXCEPT ![2] = {"van"}, ![4] = {"truck"}]

MCScenes ==
  {[pick |-> p, drop |-> d, available |-> a, dist |-> MCDist, filo |-> f] :
     p \in {[o \in Orders |-> 0], [o \in Orders |-> o % 3]},
     d \in {g \in [Orders -> MCLocations] : g[1] = 0 /\ g[3] <= g[5]},
     a \in {Everything, OneEach},
     f \in BOOLEAN}
=============================================================================
