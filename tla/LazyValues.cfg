SPECIFICATION Spec
CONSTANTS
  m1 = m1
  m2 = m2
  c1 = c1
  c2 = c2
  c3 = c3
  Mains <- MCMains
  Cells <- MCCells
  Scenarios <- MCScenarios
  MaxInt = 3
  LazyOperands = FALSE
INVARIANTS
  UsesSeeFinalValues
  CollectionsSeeValues
  PrintsWhole
PROPERTIES
  AllDone
CHECK_DEADLOCK FALSE
