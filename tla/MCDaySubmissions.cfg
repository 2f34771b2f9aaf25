SPECIFICATION FairSpec
CONSTANTS
  LastDay = 2
  Kind <- HandoffText
  Requests = {r1, r2}
  Workers = {w1, w2}
  Texts = {t1}
  NoText = NoText
  MaxAttempts = 2
  Faults = 2
CHECK_DEADLOCK FALSE
INVARIANTS
  TypeOK
  CutoffsTakeDrafts
  ProgressIsEarned
PROPERTIES
  DaysCloseForGood
