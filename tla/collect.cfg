SPECIFICATION Spec
CONSTANTS
  b1 = b1
  b2 = b2
  d1 = d1
  a1 = a1
  a2 = a2
  a3 = a3
  c0 = c0
  c1 = c1
  n1 = n1
  n2 = n2
  Collecting = {b1, b2}
  Reporting = {d1}
  User = User
  Accounts <- Benchmarks
  NoHomepage = {a3}
  Site <- Pages
  Start = c0
  Plain = Plain
  Blank = Blank
  MaxRetries = 2
  MaxFaults = 1
  MaxTransients = 3
  MaxCrashes = 1
  MaxEdits = 1
CONSTRAINT TwoRuns
INVARIANTS TypeOK OneLineage PublishedAreCharged BenchmarkIsWhole
PROPERTIES RunsEnd
CHECK_DEADLOCK FALSE
