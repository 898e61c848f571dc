SPECIFICATION Spec
CONSTANTS
  Files <- MCFiles
  Length = 4
  Twins = FALSE
  OwnParams = FALSE
INVARIANTS
  ChecksAgree
  ConstructorsByType
CHECK_DEADLOCK FALSE
