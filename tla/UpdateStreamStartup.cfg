SPECIFICATION Spec
CONSTANTS
  Readers = {"dispatcher"}
  Hooks = {h1}
  DB = DB
  Types = {"message"}
  Events <- MCEvents
  Count = 2
  MaxLen = 2
  MaxUpdates = 2
  MaxFaults = 2
CHECK_DEADLOCK FALSE
INVARIANTS AfterStartupRead
