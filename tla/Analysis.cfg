SPECIFICATION Spec
CONSTANTS
  Extents <- MCExtents
  Alphabetical <- MCAlphabetical
  MaxRank = 1
  Histories <- MCHistories
  ElsewherePairs <- MCPairs
  ElsewhereFormulas <- MCFormulas
  TopN = 2
INVARIANTS
  FailureNeverHidden
  CulpritRanksFirst
  SuspectsDoNotDependOnFormula
  ExclusionLeavesSuspects
  NoRegressionLost
  CitationsResolve
  AskedAgain
CHECK_DEADLOCK FALSE
