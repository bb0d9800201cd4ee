CONSTANTS
  Calls = {c1, c2}
  NoCall = NoCall
  MaxAttempts = 2
  MaxCrashes = 1
  MaxShellAttempts = 2
  Procs = {p1, p2, p3}
  Root = p1
  Parts = {"managed", "shell", "bounded"}
SPECIFICATION FairJobsSpec
INVARIANTS
  Inv
  ShellJobsInv
  BoundedInv
PROPERTIES
  AttemptsNeverOverlap
  JobsSettle
  CommandEnds
