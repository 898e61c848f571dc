SPECIFICATION Spec
CONSTANTS
  Lowerings = {"method", "singleton"}
  Kinds <- MCKinds
  Forms = {"plain"}
  Results = {"unit", "scalar"}
  MaxLen <- MCMaxLen
INVARIANTS
  LoweringInv
  CallsComplete
  ReadersSeeLastWrite
  ResultIsLastElement
  SpawnsInOrder
  NamesVisible
CHECK_DEADLOCK FALSE
