SPECIFICATION FairSpec
CONSTANTS
  Runs = {old, new}
  Legacy = {old}
  Deleters = {d1, d2}
  Readers = {g}
  NoFile = NoFile
  ConcurrentDeletes = FALSE
INVARIANTS
  TombstonesComplete
  StoredAtPreserved
  NoTornEvidence
  EvidenceIsFound
PROPERTIES
  ImplementsLedger
  DeleteDecided
CHECK_DEADLOCK FALSE
