SPECIFICATION FairSpec
CONSTANTS
  m1 = m1
  m2 = m2
  Recordings = {m1, m2}
  Kind <- DemoAndSupplement
  Workers = {w1, w2}
  NoRecording = NoRecording
  MaxAttempts = 3
  Faults = 1
CHECK_DEADLOCK FALSE
INVARIANTS
  TypeOK
  RecordingsAgree
PROPERTIES
  ReadyIsKept
  EveryUploadSettles
