CONSTANTS
  Streams = {s1, s2}
  Executors = {e1}
  Handlers = {h1}
  Sweeps = {f1, f2}
  None = None
  MaxStreams = 2
  MaxCrashes = 1
  MaxEdits = 1
  MaxLost = 1
  MaxRetries = 1
  Exports = {t1, t2}
  Managed = {t1}
  MaxStore = 1
  MaxTries = 2
  MaxMishaps = 2
SPECIFICATION TransfersSpec
INVARIANTS
  Inv
  CopyInv
  ExportsInv
PROPERTIES
  StreamsEnd
  AbandonmentCompletes
CHECK_DEADLOCK FALSE
