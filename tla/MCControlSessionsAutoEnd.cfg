CONSTANTS
  Sessions = {s1}
  MaxSessions = 1
  MaxFaults = 0
  MaxMail = 1
SPECIFICATION Spec
PROPERTIES
  AutoEndHasEvidence
CHECK_DEADLOCK FALSE
