SPECIFICATION Spec
CONSTANTS
  p1 = p1
  p2 = p2
  u1 = u1
  u2 = u2
  u3 = u3
  old = old
  new = new
  Process = {p1, p2}
  User = {u1, u2, u3}
  Home <- TwoHomes
  Record = {old, new}
  Today = new
  Batches <- SomeBatches
  RecordId = {r1}
  MaxCrashes = 1
  MaxFaults = 1
INVARIANTS TypeOK WholeBatches AtomicWhenAlone
SYMMETRY SameHome
CHECK_DEADLOCK FALSE
