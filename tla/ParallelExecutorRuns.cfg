SPECIFICATION FairSpec
CONSTANTS
  WorkerCount = 1
  MaxTasks = 3
  Keys = {k1, k2}
INVARIANTS
  OwnedOnce
  ListsInUseLive
  ChecksSilent
PROPERTIES
  KeepsPromise
  RunReturns
