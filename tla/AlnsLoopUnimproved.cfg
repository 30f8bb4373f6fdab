SPECIFICATION Spec
CONSTANTS
  Objs <- MCObjs
  Slots = {s1, s2, s3, s4}
  Configs <- MCLimitConfigs
INVARIANT StopsAtLimit
CHECK_DEADLOCK FALSE
