SPECIFICATION HistorySpec
CONSTANTS
  Runs = {old, new}
  Legacy = {old}
  Deleters = {d1, d2}
  Readers = {}
  Scanners = {s}
  NoFile = NoFile
  ConcurrentDeletes = TRUE
SYMMETRY DeleterSymmetry
INVARIANTS
  DeleteTakesEffect
  OrphansWereInTheWindow
  HistoryComplete
CHECK_DEADLOCK FALSE
