SPECIFICATION Spec
CONSTANTS
  n1 = n1
  n2 = n2
  NoOne = NoOne
  Writers = {1, 2}
  Names <- MCNames
  Given <- MCGiven
  Blank <- MCBlank
  Limit = 2
  MaxRequests = 3
  MaxFaults = 1
  MaxTime = 1
  MaxRestarts = 1
INVARIANTS
  SetupCloses
  UsersAreKept
  AdminStays
PROPERTIES
  AnsweredIsSaved
  LockHolds
CHECK_DEADLOCK FALSE
