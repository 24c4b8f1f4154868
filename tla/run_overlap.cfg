SPECIFICATION Spec
CONSTANTS
  NodeCount = 2
  Invocation = {i1, i2}
  SoftNodes <- SecondIsSoft
  Overlaps = TRUE
  Reposts = FALSE
  MaxCrashes = 1
  MaxFaults = 0
  Absent = Absent
  Torn = Torn
SYMMETRY InvocationSymmetry
INVARIANTS HealthyRunIsExclusive
CHECK_DEADLOCK FALSE
