SPECIFICATION Spec
CONSTANTS
  Sources = {"a", "b"}
  Payloads <- MCPayloads
  LaterPayloads <- MCLater
  MaxRuns = 1
  MaxRecords = 1
INVARIANT StagedCoverageIsDerived
