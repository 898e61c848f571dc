SPECIFICATION Spec
CONSTANTS
  Bodies <- MCBodies
  Fields <- MCFields
  Params <- MCParams
  Length = 3
  NoDefault = FALSE
INVARIANTS
  NoReadBeforeAssignment
  AssignedOnEveryPath
  RejectedForAReason
CHECK_DEADLOCK FALSE
