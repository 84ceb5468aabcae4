SPECIFICATION Spec
CONSTANTS
  Inits = {i1}
  Resets = {r}
  Runners = {n}
  Supported = {py, js}
  FirstPins = {NoPin}
  Choice = js
  py = py
  js = js
  new = new
  Size <- MCSize
  AutoEngine = AutoEngine
  NoPin = NoPin
  NoFile = NoFile
  NoTree = NoTree
  First = First
  Overlap = TRUE
INVARIANTS
  TornNeedsTwoWriters
CHECK_DEADLOCK FALSE
