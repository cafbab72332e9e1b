CONSTANTS
  DayLen = 6
  MaxIter = 9
  MaxNow = 13
  TickPeriod = 2
  MaxRun = 2
  Sites = {s1}
  SiteConfigs <- MCSites
  Schedules <- MCSchedules
  DailyConfigs <- MCWindows
  IntervalJobs <- MCSync
  IntervalConfigs <- MCIntervals
  Faults = {"write", "crash", "edit"}
  NoTime = NoTime
  NoSite = NoSite
  s1 = s1
  s2 = s2
SPECIFICATION Spec
CONSTRAINT MCFocus
INVARIANTS OneDailyRunPerDay RunningRowIsTrue FirstAsked
PROPERTIES DueWindowKept
\* The bound on time ends the instance.
CHECK_DEADLOCK FALSE
