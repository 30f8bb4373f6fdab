SPECIFICATION Spec
CONSTANTS
  o1 = o1
  o2 = o2
  o3 = o3
  o4 = o4
  small = small
  big = big
  Orders = {o1, o2, o3}
  Vehicles <- MCVehicles
  MaxUsable <- MCFleet
  Starts <- MCStarts
  MaxRank = 1
  DropLoc <- MCDropLoc
  Graphs <- AllGraphs
  Suits <- MCSuits
  Windowless = {o3}
INVARIANT NoOrderMissing
CHECK_DEADLOCK FALSE
