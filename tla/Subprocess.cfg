SPECIFICATION FairSpec
CONSTANTS
  Streams = {"out", "err"}
  Limit = 1
  Chunk = 2
  PipeSize = 2
  Demand = 4
INVARIANTS
  ReturnsReaped
  CaptureExact
PROPERTIES
  AlwaysReturns
CHECK_DEADLOCK FALSE
