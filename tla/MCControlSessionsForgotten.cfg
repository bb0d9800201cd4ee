CONSTANTS
  Sessions = {s1}
  MaxSessions = 1
  MaxFaults = 0
  MaxMail = 1
SPECIFICATION Spec
INVARIANTS
  ForgottenHasNoSideEffect
CHECK_DEADLOCK FALSE
