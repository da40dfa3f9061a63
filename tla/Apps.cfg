SPECIFICATION Spec
CONSTANTS
  r1 = r1
  r2 = r2
  Requests = {r1, r2}
  Versions <- MCVersions
  Given <- MCGiven
  HelperPulls = TRUE
  MaxRequests = 2
  MaxFaults = 1
SYMMETRY MCSymmetry
INVARIANTS
  QuietIsSettled
  AnsweredIsTrue
  
  StoreIsTrue
CHECK_DEADLOCK FALSE
