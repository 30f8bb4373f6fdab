SPECIFICATION RowSpec
CONSTANTS
  Orders = {1, 2, 3, 4, 5}
  Vehicles = {"van", "truck"}
  Locations <- MCLocations
  Scenes <- MCScenes
  Counts = {0, 1, 2, 3}
INVARIANTS
  NearerFirst
  OnlyLeastRanks
