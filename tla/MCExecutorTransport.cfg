CONSTANTS
  Cmds = {c1, c2}
  Polls = {p1, p2}
  Creds = {k1, k2}
  NoCred = NoCred
  NoPoll = NoPoll
  MaxPending = 2
SPECIFICATION FairSpec
INVARIANTS
  IInv
PROPERTIES
  SupersededPollTakesNothing
  OfferedInCallOrder
  ImplementsContract
  CloseFreesEveryone
  ImplementsLiveContract
CHECK_DEADLOCK FALSE
