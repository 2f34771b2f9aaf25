SPECIFICATION FairSpec
CONSTANTS
  LastEvidence = 1
  Clients = {c1}
  Workers = {w1, w2}
  MaxAttempts = 2
  Faults = 2
INVARIANTS
  TypeOK
  ReportsAreTrue
PROPERTIES
  OutcomesStay
  EveryRequestSettles
