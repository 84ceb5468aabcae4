SPECIFICATION FairSpec
CONSTANTS
  Inits = {i1, i2}
  Resets = {r}
  Runners = {n}
  Supported = {py, js}
  FirstPins = {new, NoPin}
  Choice = js
  py = py
  js = js
  new = new
  Size <- MCSize
  AutoEngine = AutoEngine
  NoPin = NoPin
  NoFile = NoFile
  NoTree = NoTree
  First = First
  Overlap = FALSE
INVARIANTS
  MetaNeverTorn
PROPERTIES
  ResetRebuilds
  PinSurvivesReset
  InitRecovers
CHECK_DEADLOCK FALSE
