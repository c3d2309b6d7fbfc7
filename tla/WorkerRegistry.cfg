SPECIFICATION FairSpec
CONSTANTS
  WorkerIds = {w1, w2}
  Conns = {c1, c2}
  Nil = Nil
  MaxCrashes = 1
CHECK_DEADLOCK FALSE
INVARIANTS RegisteredIsSaved TableHoldsOpenConns
PROPERTIES RestoreTriesAll StreamsKeptAlive LoopsEndWithContext
