CONSTANTS
  MaxCrashes = 1
  MaxEdits = 0
  MaxLost = 0
  MaxRetries = 0
SPECIFICATION CopySpec
INVARIANTS
  WriteCanBeResumed
CHECK_DEADLOCK FALSE
