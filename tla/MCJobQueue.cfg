\* One job, two workers, one client session, three interventions or crashes.
CONSTANTS
  Jobs = {j1}
  Workers = {w1, w2}
  Clients = {c1}
  NoJob = NoJob
  NoWorker = NoWorker
  MaxAttempts = 2
  Lease = 2
  AdminStale = 3
  BaseBackoff = 1
  MaxBackoff = 2
  ProviderBase = 2
  ProviderMax = 3
  Delays <- MCDelays
  AgeCap = 3
  Budget = 3
SPECIFICATION FairSpec
INVARIANTS
  TypeOK
  RetryBudget
  ClaimsAreOwned
PROPERTIES
  ClaimsFollowTokens
  EverySettles
