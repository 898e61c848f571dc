SPECIFICATION Spec
CONSTANTS
  Files <- MCFiles
  Length = 4
  Twins = TRUE
  OwnParams = FALSE
INVARIANT ComparisonsEnd
CHECK_DEADLOCK FALSE
