SPECIFICATION Spec
CONSTANTS
  Sources = {"a", "b"}
  Payloads <- MCPayloads
  LaterPayloads <- MCLater
  MaxRuns = 2
  MaxRecords = 4
INVARIANTS
  LinesAreDecided
  NoLostHit
  TruncatedIsRefused
  ProbeMissesNothing
