SPECIFICATION Spec
CONSTANTS
  DayLen = 24
  Gap = 0
  FullDay = FullDay
  UtcOffset = 0
  Default = "default"
  NoCode = "-"
  MaxDistance = 9
  MaxTime = 9
  MaxSolves = 2
  MaxCalls = 2
  Cases <- MCCases
  Readings <- MCReadings
INVARIANTS
  PoolCovers
  OneGroupEach
  ResultIsOfThisCall
  PlanComplete
  TableCurrent
CHECK_DEADLOCK FALSE
