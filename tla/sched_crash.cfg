SPECIFICATION Spec
CONSTANTS
  Process = {p1, p2}
  Schedule = {s1, s2}
  Cron <- Mixed
  Horizon = 6
  Limit = 1
  StaleLock = 1
  EditsWhileRunning = FALSE
  MaxTime = 5
  MaxEdits = 2
  MaxCrashes = 1
  MaxFaults = 1
  NoTime = NoTime
  Absent = Absent
  NoJob = NoJob
CONSTRAINT Punctual
INVARIANTS ExclusiveRun NextFollowsCron
PROPERTIES OneRunPerInstant
SYMMETRY Interchangeable
CHECK_DEADLOCK FALSE
