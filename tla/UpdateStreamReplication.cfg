SPECIFICATION FairSpec
CONSTANTS
  Readers = {"replicator"}
  Hooks = {h1}
  DB = DB
  Types = {"message"}
  Events <- MCEvents
  Count = 2
  MaxLen = 2
  MaxUpdates = 3
  MaxFaults = 1
CHECK_DEADLOCK FALSE
INVARIANTS NoneSkipped
PROPERTIES EveryUpdatePassed
