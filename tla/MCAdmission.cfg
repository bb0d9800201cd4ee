CONSTANTS
  Sessions = {s1, s2}
  MaxSessions = 1
  MaxFaults = 0
  MaxMail = 1
  Slots = {s1, s2}
  Hosts = {h1, h2}
  MaxAttempts = 1
  MaxClaims = 2
  MaxAdmitted = 3
  MaxStops = 1
SPECIFICATION AdmissionSpec
SYMMETRY Symmetry
INVARIANTS
  AdmissionInv
PROPERTIES
  SweepBlocksTheIdle
CHECK_DEADLOCK FALSE
