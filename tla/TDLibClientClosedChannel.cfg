SPECIFICATION Spec
CONSTANTS
  Callers = {c1, c2}
SYMMETRY Symmetry
CHECK_DEADLOCK FALSE
INVARIANTS SendNeverPanics
