SPECIFICATION MCFairSpec
CONSTANTS
  Requests = {r1, r2}
  Workers = {w1, w2}
  MaxPushes = 2
  MaxAttempts = 2
  Faults = 1
CHECK_DEADLOCK FALSE
INVARIANTS
  TypeOK
  CutoffIsAllWork
PROPERTIES
  DaysAreCutOnce
