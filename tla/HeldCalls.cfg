SPECIFICATION Spec
CONSTANTS
  a = a
  b = b
  c = c
  Methods <- MCMethods
  Programs <- MCPrograms
  Entries <- MCEntries
  Fuel = 2
  ForceArgs = FALSE
  Nodes = {"binary", "index", "interp", "cond", "group", "infix"}
  Slots = {"decl", "stmt"}
INVARIANTS
  HolderBlocksOnlyAtTail
  SyncBodiesExist
  CallsKeepOrder
PROPERTIES
  ClientsFinish
CHECK_DEADLOCK FALSE
