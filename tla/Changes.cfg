SPECIFICATION ChangesFairSpec
CONSTANTS
  Paths <- MCPaths
  Contents <- MCContents
  Limit = 1
  MaxEdits = 2
  MaxFaults = 1
INVARIANTS
  MirrorIsCursor
  SteadyIsSeen
PROPERTIES
  Converges
CHECK_DEADLOCK FALSE
