CONSTANTS
  c1 = c1
  c2 = c2
  c3 = c3
  c4 = c4
  k1 = k1
  Cmds = {c1, c2, c3, c4}
  Keys = {k1}
  NoKey = NoKey
  KeyOf <- MCKeyOf
  Mutating = {c1, c2}
  NoCmd = NoCmd
  MaxConcurrent = 3
  MaxFaults = 4
  MaxRetries = 1
SPECIFICATION ConnectionSpec
INVARIANTS
  Inv
  PeerInv
PROPERTIES
  WorkEnds
  LeaseEnds
CHECK_DEADLOCK FALSE
