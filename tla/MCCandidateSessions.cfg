SPECIFICATION FairSpec
CONSTANTS
  Requests = {r1, r2}
  Subs = {s1}
  Usernames = {u1}
  NoSub = NoSub
  NoName = NoName
  NoOne = NoOne
  Partner = Partner
  Workers = {w1}
  ClosingDays = {1}
  LastDay = 1
  LastTime = 2
  LocalControls = TRUE
  Expiries = 1
  Interventions = 1
  Faults = 1
CHECK_DEADLOCK FALSE
INVARIANTS
  TypeOK
  SessionIsReachable
PROPERTIES
  NothingIsTakenBack
  ScheduledDaysClose
