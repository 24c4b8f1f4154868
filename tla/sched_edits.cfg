SPECIFICATION Spec
CONSTANTS
  Process = {p1, p2}
  Schedule = {s1, s2}
  Cron <- JustOften
  Horizon = 6
  Limit = 1
  StaleLock = 1
  EditsWhileRunning = TRUE
  MaxTime = 3
  MaxEdits = 3
  MaxCrashes = 0
  MaxFaults = 0
  NoTime = NoTime
  Absent = Absent
  NoJob = NoJob
INVARIANTS TypeOK LockIsHeld
PROPERTIES DueIsExecuted
CHECK_DEADLOCK FALSE
