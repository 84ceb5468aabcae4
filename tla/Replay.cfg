SPECIFICATION ReplaySpec
CONSTANTS
  Old = 1
  Last = 3
  Runs <- MCRuns
  Sessions = {s1, s2}
  Reruns <- MCReruns
  Records <- MCRecords
  Tests = {"a", "b"}
  MaxResets = 1
INVARIANTS
  StrictVerdict
  FocalTestDiverged
  AttemptsAreEvidence
PROPERTY
  SessionEnds
CHECK_DEADLOCK FALSE
