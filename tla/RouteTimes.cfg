SPECIFICATION Spec
CONSTANTS
  DayLen = 8
  Gap = 1
  FullDay <- MCFullDay
  UtcOffset = 3
  Bookings <- MCBookings
  Routes <- ScenarioRoutes
INVARIANTS
  WindowsExact
  DeparturesRealisable
  PunctualKept
  WaitFreeWayTaken
  ExportedScheduleHolds
CHECK_DEADLOCK FALSE
