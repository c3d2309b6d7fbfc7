SPECIFICATION FairSpec
CONSTANTS
  p1 = p1
  s2 = s2
  Publishers = {p1, p2}
  Streams = {s1, s2}
  SubIds = {i1, i2}
  NoStream = NoStream
  Cap = 2
  filter <- MCFilter
  MaxUpdates = 3
CHECK_DEADLOCK FALSE
INVARIANTS NoSendOnClosed CutOffOnlyBySharedID SessionOrderKept
PROPERTIES DispatchEnds StopEnds
