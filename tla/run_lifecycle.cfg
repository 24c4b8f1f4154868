SPECIFICATION Spec
CONSTANTS
  NodeCount = 3
  Invocation = {i1, i2, i3}
  SoftNodes <- SecondIsSoft
  Overlaps = FALSE
  Reposts = FALSE
  MaxCrashes = 1
  MaxFaults = 1
  Absent = Absent
  Torn = Torn
PROPERTIES ResumeSkipsCompleted LifecycleSpec
CHECK_DEADLOCK FALSE
