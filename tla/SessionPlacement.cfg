SPECIFICATION Spec
CONSTANTS
  Sessions = {s1, s2}
  Workers = {w1, w2}
  Nil = Nil
  MaxEvents = 4
SYMMETRY Symmetry
CHECK_DEADLOCK FALSE
INVARIANTS OneRunner RouteFollowsSession
PROPERTIES DrainHandsOver RemoveOKStops
