SPECIFICATION FairSpec
CONSTANTS
  Orders = {o1, o2, o3, o4}
  small = small
  big = big
  Vehicles <- MCVehicles
  MaxUsable <- ScarceFleet
INVARIANTS
  OrdersConserved
  VehiclesAccounted
  CellsCurrent
  LoadsSound
  OnlyUpdateThrows
PROPERTIES
  MoveEnds
CHECK_DEADLOCK FALSE
