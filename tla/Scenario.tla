------------------------------ MODULE Scenario ------------------------------
(***************************************************************************)
(* What the components that work on a solution share: the orders of the    *)
(* pool and the vehicle types of the scenario.                             *)
(***************************************************************************)
EXTENDS FiniteSets

CONSTANTS
  Orders,      \* the orders of the scenario
  Vehicles     \* the vehicle types

ASSUME OrdersAssumption == IsFiniteSet(Orders)
=============================================================================
