SPECIFICATION Spec
CONSTANTS
  NodeCount = 3
  Invocation = {i1, i2, i3, i4}
  SoftNodes <- SecondIsSoft
  Overlaps = FALSE
  Reposts = TRUE
  MaxCrashes = 1
  MaxFaults = 2
  Absent = Absent
  Torn = Torn
SYMMETRY InvocationSymmetry
INVARIANTS
  TypeOK
  StatusIsTrue
  RecordedMeansRan
  ProgressKept
CHECK_DEADLOCK FALSE
