CONSTANTS
  c1 = c1
  c2 = c2
  k1 = k1
  Cmds = {c1, c2}
  Polls = {p1, p2}
  Creds = {bearer}
  NoCred = NoCred
  NoPoll = NoPoll
  MaxPending = 2
  Keys = {k1}
  NoKey = NoKey
  KeyOf <- MCKeyOf
  Mutating = {c1}
  NoCmd = NoCmd
  MaxConcurrent = 2
  MaxHellos = 2
  LateHello = FALSE
SPECIFICATION Spec
SYMMETRY Symmetry
INVARIANTS
  Inv
PROPERTIES
  HelloCoversReplies
  RunsInCallOrder
CHECK_DEADLOCK FALSE
