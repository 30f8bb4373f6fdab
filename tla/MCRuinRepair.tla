---------------------------- MODULE MCRuinRepair ----------------------------
(***************************************************************************)
(* RuinRepair for TLC: two vehicle types, the second scarce, so that two   *)
(* insertions can plan the same last vehicle.                              *)
(***************************************************************************)
EXTENDS RuinRepair, TLC

CONSTANTS small, big

MCVehicles == {small, big}

\* Two small vehicles and one big one for three or four orders.
ScarceFleet == small :> 2 @@ big :> 1
=============================================================================
