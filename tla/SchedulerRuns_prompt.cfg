CONSTANTS
  DayLen = 12
  MaxIter = 3
  MaxNow = 13
  TickPeriod = 2
  MaxRun = 1
  Sites = {s1, s2}
  SiteConfigs <- MCOneSite
  Schedules = {}
  DailyConfigs <- MCWide
  IntervalJobs <- MCSync
  IntervalConfigs <- MCOneInterval
  Faults = {}
  NoTime = NoTime
  NoSite = NoSite
  s1 = s1
  s2 = s2
SPECIFICATION Spec
INVARIANTS PlannedRunIsPrompt
\* The bound on time ends the instance.
CHECK_DEADLOCK FALSE
