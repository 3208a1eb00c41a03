SPECIFICATION Spec
CONSTANTS
  Tenant = {t1, t2}
  Domain = {d1, d2}
  Replica = {k1}
  Request = {p1, p2}
  None = None
  TTL = 1
  CacheLimit = 1
  MaxTime = 2
  Workload <- Mixes
INVARIANTS TypeOK DomainsUnique ResolvedWithinLifetime
SYMMETRY Symmetry
\* with the ids and the time used up nothing is left to do
CHECK_DEADLOCK FALSE
