SPECIFICATION FairSpec
CONSTANTS
  s1 = s1
  v1 = v1
  v2 = v2
  Schedules <- MCSchedules
  Covers <- MCCovers
  Manual <- MCManual
  Configured <- MCConfigured
  Earlier <- MCEarlier
  Policy <- MCPolicy
  DayOf <- MCDayOf
  Month <- MCMonth
  Year <- MCYear
  MaxJobs = 1
  MaxSnapshots = 4
  MaxSweeps = 1
  MaxRestarts = 1
INVARIANTS
  SucceededIsComplete
  RecordsAreTrue
CHECK_DEADLOCK FALSE
PROPERTIES
  RetentionSpares
  PromiseKept
  JobsEnd
