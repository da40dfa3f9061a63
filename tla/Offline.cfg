SPECIFICATION FairSpec
CONSTANTS
  p1 = p1
  s1 = s1
  s2 = s2
  Paths <- MCPaths
  Types <- MCTypes
  Syncs <- MCSyncs
  MaxChanges = 3
  MaxRestarts = 1
INVARIANTS
  OneWorker
  NewestIsKept
PROPERTIES
  PendingIsTaken
CHECK_DEADLOCK FALSE
