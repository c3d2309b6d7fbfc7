SPECIFICATION Spec
CONSTANTS
  Readers = {"dispatcher"}
  Hooks = {h1, h2}
  DB = DB
  Types = {"message", "other"}
  Events <- MCEvents
  Count = 2
  MaxLen = 2
  MaxUpdates = 2
  MaxFaults = 1
CHECK_DEADLOCK FALSE
PROPERTIES ConfirmedOnce StreamOrder EveryHookTried
