SPECIFICATION FairSpec
CONSTANTS
  k1 = k1
  k2 = k2
  s1 = s1
  s2 = s2
  c1 = c1
  c2 = c2
  None = None
  Instances = {s1, s2}
  Ticks = {k1, k2}
  InstanceOf <- OneEach
  Schedules = {c1, c2}
  Kind <- BothKinds
  Interval <- EveryTwo
  CronNext <- EvenTimes
  MaxTime = 4
  Mortal = {s2}
INVARIANTS SchedulerInv OncePerOccurrence 
PROPERTIES DueRuns NextRunAdvances
CHECK_DEADLOCK FALSE
