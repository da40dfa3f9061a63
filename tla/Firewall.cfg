SPECIFICATION FairSpec
CONSTANTS
  p1 = p1
  p2 = p2
  p3 = p3
  t1 = t1
  t2 = t2
  Base = Base
  NoPlan = NoPlan
  NoTimer = NoTimer
  NoBackup = NoBackup
  Torn = Torn
  Loaded = Loaded
  Plans <- MCPlans
  Timers <- MCTimers
INVARIANTS
  PendingIsRevocable
PROPERTIES
  RefinesCommitConfirm
  TrialEnds
