SPECIFICATION LoadSpec
CONSTANTS
  Orders = {"o1", "o2", "o3", "o4", "o5"}
  Locations <- Places
  DefaultLoc = "h"
  PickLoc <- Picks
  DropLoc <- Drops
  Usages <- Fleet
  OrigLoc <- Starts
  DestLoc <- Ends
  Matrix <- Codes
  Dist <- Distances
  Capacity <- Room
  Serves <- Reaches
  MaxDropNodeCount = 3
  Horizon = 30
  TierUpper <- Tiers
  Rate <- Prices
CHECK_DEADLOCK FALSE
INVARIANTS
  RoutePaired
  RollBackRestores
  JudgedAsItIs
  BestReproduced
  EmptyCellHopeless
