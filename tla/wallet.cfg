SPECIFICATION Spec
CONSTANTS
  p1 = p1
  p2 = p2
  c1 = c1
  c2 = c2
  c3 = c3
  c4 = c4
  recharge1 = recharge1
  consume1 = consume1
  Process = {p1, p2}
  Caller = {c1, c2, c3, c4}
  Home <- TwoProcesses
  SeedOrder <- Demo
  Recharge <- DemoRecharge
  Call = {k1}
  MaxCrashes = 1
  MaxFaults = 1
  NoCaller = NoCaller
  Absent = Absent
INVARIANTS TypeOK SeedingIsExclusive BooksAreOfEntries BooksCatchUp
PROPERTIES SeedOnlyUnused EveryRequestEnds
CONSTRAINT OneMishap
CHECK_DEADLOCK FALSE
