SPECIFICATION Spec
CONSTANTS
  N = 2
  Old = 1
  Clients = {c1}
  Traits <- MCTraits
  Formulas = {ochiai, tarantula}
  TopNs = {ten, five}
  Ochiai = ochiai
  Ten = ten
  ochiai = ochiai
  tarantula = tarantula
  ten = ten
  five = five
  NoFinding = NoFinding
INVARIANTS
  RefusesDeleted
  NoStaleBuildServed
  FactsAreFinal
  ComparisonHeals
CHECK_DEADLOCK FALSE
