SPECIFICATION GithubSpec
CONSTANTS
  Trials = {1}
  RunKeys = {11, 12}
  SamePrefix = {}
  Workspaces = {1, 2}
  TrialOf <- MCTrialOf
  Sweepers = {1, 2}
  SweepAttempts = 2
  CleanupFaults = 1
  RunRequests = {1}
  LastRun = 2
  LastCommit = 1
  LastAttempt = 2
  GithubFaults = 1
  Openers = {1, 2}
  Projects <- MCProjects
  LastPush = 4
  CodespaceTries = 2
  GitFaults = 1
INVARIANTS
  GithubTypeOK
  CleanupIsTrue
  ResultsAreItsOwn
  StoredRepositoryIsSeeded
PROPERTIES
  SuccessMeansSwept
CHECK_DEADLOCK FALSE
