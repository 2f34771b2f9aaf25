SPECIFICATION Spec
CONSTANTS
  Requests = {r1}
  Workers = {w1, w2}
  MaxPushes = 1
  MaxAttempts = 2
  Faults = 0

CHECK_DEADLOCK FALSE
INVARIANTS
  EveryCodingDayOpens
