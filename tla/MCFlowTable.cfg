CONSTANTS
  Keys = {k1}
  Indices = {i1, i2}
  Lcores = {m, w}
  Maint = m
  None = none
  CacheRefill = 2
  FLOW_LIMBO_BATCHES = 1
  FLOW_EVICT_BATCH = 2
  RECLAIM_CREATE_MAX = 1
  RECLAIM_AGING_MAX = 2
SPECIFICATION FairSpec
INVARIANTS TypeOK OnePlace HeldNotReused NoOrphan IndexConsistent LimboNeverRefuses
PROPERTIES ImplementsStore LimboDrains StallEnds
