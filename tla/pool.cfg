SPECIFICATION Spec
CONSTANTS
  Call = {t1, t2, t3, t4}
  Connection = {k1, k2, k3, k4}
  Parts = 2
  MaxIdle = 2
  MaxCuts = 2
  MaxFaults = 1
  NoConnection = NoConnection
SYMMETRY PoolSymmetry
INVARIANTS TypeOK PoolIsSound BlocksAreAtomic OneCallPerCut
CHECK_DEADLOCK FALSE
