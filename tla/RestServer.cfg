SPECIFICATION Spec
CONSTANTS
  ApiKeys = {k1}
  MasterKey = MasterKey
  NoKey = NoKey
  Keys = {k1, NoKey}
  Clients = {c1, c2}
  Rate = 1
  Burst = 2
  MaxIdle = 2
  MaxElapsed = 2
CHECK_DEADLOCK FALSE
INVARIANTS DeletedKeyRefused WindowBound
PROPERTIES ImplementsTokenBucket
