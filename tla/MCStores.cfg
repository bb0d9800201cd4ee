CONSTANTS
  Devices = {d1, d2, d3}
  Executors = {e1, e2}
  Creds = {k1, k2, k3}
  NoExecutor = NoExecutor
  NoCred = NoCred
  NoDevice = NoDevice
  MaxAttempts = 2
  Values = {a, b, empty}
  Empty = empty
  MaxGen = 3
  MaxFaults = 3
  Threads <- MCThreads
  ProcessOf <- MCProcessOf
  Paths <- MCPaths
  ShardOf <- MCShardOf
  NoEntry = 0
  Clients = {c1, c2}
  Codes = {g1, g2, g3}
  NoClient = NoClient
  MaxClients = 1
  MaxCodes = 2
  MaxRestarts = 1
  Roles = {"control", "executor"}
  Configs = {f1, f2}
  Texts = {x1, x2}
  NoText = NoText
  MaxEdits = 2
  f1 = f1
  x1 = x1
  Links = {l1, l2}
  Limit <- MCLimit
  MaxCount = 2
  MaxDamage = 1
  l1 = l1
  l2 = l2
SPECIFICATION StoresSpec
INVARIANTS
  Inv
  RegistrySafe
  RefusesOnlyAfterTwoFaults
  LinksSafe
  OAuthInv
  PathLocksInv
  ApplyInv
PROPERTIES
  DecisionIsFinal
SYMMETRY Symmetry
CHECK_DEADLOCK FALSE
