SPECIFICATION Spec
CONSTANTS
  Extents <- MCExtents
  Alphabetical <- MCAlphabetical
  MaxRank = 1
  Histories <- MCHistories
  ElsewherePairs <- MCPairs
  ElsewhereFormulas <- MCFormulas
  TopN = 2
INVARIANT UnavailableIsExplained
CHECK_DEADLOCK FALSE
