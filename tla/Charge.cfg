\* A thread that prices loads of several scenarios.  It may stop after any call.
SPECIFICATION Spec
CONSTANTS
  Dimensions <- MCDimensions
  Labels <- MCLabels
  LocLabels <- MCLocLabels
  Carriers = {"c1"}
  Models = {"m1", "m2"}
  Vehicles <- MCVehicles
  MeterPerKm = 10
  MoneyScale = 10
  MaxPrice = 1000
  Wide = 1048576
  Tables <- MCTables
  Loads <- MCLoads
  MaxOdPairs = 3
  MaxEpoch = 3
INVARIANTS
  ChargedAsContract
  StampsTellThisCall
  TiersDisjoint
