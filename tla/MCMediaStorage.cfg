SPECIFICATION MediaSpec
CONSTANTS
  Uploads = 1
  Servers = {1, 2}
  StorageSetups <- MCSetups
  MaxBytes = 1
  MaxDuration = 15
  MaxLife = 2
  WindowEnd = 2
  RetentionEnd = 5
  LastMinute = 6
  StorageFaults = 1
INVARIANTS
  DeclaredRecordingsAccepted
CHECK_DEADLOCK FALSE
