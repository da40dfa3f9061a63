SPECIFICATION FairSpec
CONSTANTS
  f1 = f1
  f2 = f2
  Files <- MCFiles
  Sizes <- MCSizes
  Priorities <- MCPriorities
  High = 100
  Maxima <- MCMaxima
  DefaultMax = 1
  MaxRestarts = 1
  MaxMisses = 1
INVARIANTS
  SpaceIsKnown
  HydratingIsServed
PROPERTIES
  SweepFreesEnough
  UrgentIsServed
CHECK_DEADLOCK FALSE
