SPECIFICATION FairSpec
CONSTANTS
  Trees <- BuildTrees
  Edits <- CacheEdits
  MaxBuilds = 3
  MaxEdits = 2
  MaxKills = 1
  Absent = Absent
  Torn = Torn
  None = None
CHECK_DEADLOCK FALSE
INVARIANTS
  AppIsCleanBuild
  BinaryIsFresh
  TriggersChecked
PROPERTY BuildEnds
