SPECIFICATION Spec
CONSTANTS
  WorkerIds = {w1}
  Conns = {c1, c2}
  Nil = Nil
  MaxCrashes = 0
SYMMETRY Symmetry
CHECK_DEADLOCK FALSE
INVARIANTS DuplicateAddFails
