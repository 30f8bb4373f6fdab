SPECIFICATION FairSpec
CONSTANTS
  Objs <- MCObjs
  Slots = {s1, s2, s3, s4}
  Configs <- MCConfigs
INVARIANTS
  SolutionsApart
  CurrentIsBest
PROPERTIES
  WorkspaceNeverWorse
  CallEnds
CHECK_DEADLOCK FALSE
