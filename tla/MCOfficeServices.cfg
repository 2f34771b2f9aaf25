SPECIFICATION OfficeSpec
CONSTANTS
  OldDatabases <- MCOld
  RepairedByHand <- MCHand
  ReportSessions = {1, 2}
  CandidateWork <- MCWork
  Toggles <- MCToggles
  ReviewConfigs <- MCConfigs
  StrayAnswers <- MCStray
  LastRubric = 1
  ProviderScores = {40}
  LastEdition = 2
  ReviewFaults = 1
  Mailers = {1, 2}
  SendAttempts = 2
  NoticeAttempts = 2
  LastInvite = 2
  LastReport = 1
  LastOverlap = 1
  MailFaults = 1
  Processes = {1, 2, 3}
  InstanceOf <- MCInstanceOf
  StaleAfter = 1
  LastSecond = 3
  HealthFaults = 1
  SettingsChoices <- MCSettings
  StandIns = 2
  LastProbe = 3
  DemoCandidates = {"a", "b"}
  LastSeed = 2
  DemoFaults = 1
  Uploads = 1
  Servers = {1, 2}
  StorageSetups <- MCSetups
  MaxBytes = 1
  MaxDuration = 15
  MaxLife = 2
  WindowEnd = 2
  RetentionEnd = 5
  LastMinute = 6
  StorageFaults = 1
INVARIANTS
  OfficeTypeOK
  UnificationKeepsAll
  ReportsAreFair
  MailsAreTrue
  ReadyMeansWorking
  DemoIsWholeOrGone
PROPERTIES
  MediaIsKeptAsSaid
CHECK_DEADLOCK FALSE
