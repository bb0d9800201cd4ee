CONSTANTS
  Sessions = {s1}
  MaxSessions = 1
  MaxFaults = 3
  MaxMail = 3
  SweptSessions = {s2, s3}
SPECIFICATION SessionsSpec
INVARIANTS
  SessionsInv
  ShutdownInv
PROPERTIES
  RowsMoveForward
  TerminationConverges
  CloseEnds
CHECK_DEADLOCK FALSE
