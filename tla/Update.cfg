SPECIFICATION FairSpec
CONSTANTS
  r1 = r1
  r2 = r2
  srv = srv
  pool = pool
  NoRequest = NoRequest
  NoArchive = NoArchive
  Torn = Torn
  Requests <- MCRequests
  Targets <- MCTargets
  Always <- MCAlways
  Btrfs <- MCBtrfs
  MaxSecond = 1
  Keep = 1
  Faults = TRUE
INVARIANTS
  SuccessIsWhole
PROPERTIES
  IndexOnlyGrows
  RequestsEnd
CHECK_DEADLOCK FALSE
