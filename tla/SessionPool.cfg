SPECIFICATION FairSpec
CONSTANTS
  Ids = {a, b}
  Entries = {e1, e2}
  Nil = Nil
  MaxErrors = 1
CHECK_DEADLOCK FALSE
INVARIANTS TypeOK GaugeMatchesPool NoOrphanLoop StatusMatchesLoop
PROPERTIES RemovedStatusFrozen ImplementsRegistry CancelledLoopsEnd ImplementsFairRegistry
