SPECIFICATION Spec
CONSTANTS
  c1 = c1
  c2 = c2
  k1 = k1
  k2 = k2
  d1 = d1
  d2 = d2
  Client = {c1, c2}
  Key = {k1, k2}
  Cred = {d1, d2}
  Absent = Absent
  MaxTenants = 2
  KeyTTL = 2
  KeyCacheSize = 1
  MonitorTTL = 1
  MonitorStaleTTL = 2
  MaxClock = 2
  MaxRequests = 4
  MaxMishaps = 1
  MaxBalance = 2
SYMMETRY Interchangeable
CONSTRAINT TenantsOrMonitors
INVARIANTS TypeOK KeyHonouredWithinTTL KeysStay NewCredentialsShow AmountsAreOfUsage
CHECK_DEADLOCK FALSE
