CONSTANTS
  Calls = {c1}
  NoCall = NoCall
  MaxAttempts = 2
  MaxCrashes = 0
  MaxShellAttempts = 1
  Procs = {p1}
  Root = p1
  Parts = {"managed"}
SPECIFICATION JobsSpec
PROPERTIES
  RefusedRetryLeavesJob
