SPECIFICATION Spec
CONSTANTS
  Programs <- MCPrograms
  Words <- MCWords
  Length = 4
  NestedCalls = FALSE
INVARIANTS
  RoundTrip
  
CHECK_DEADLOCK FALSE
