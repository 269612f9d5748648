SPECIFICATION FairSpec
CONSTANTS
  k1 = k1  k2 = k2  a = a  b = b
  Keys = {k1}
  Slots = {s1}
  Lcores = {l1, l2}
  Maint = l1
  SourceOf <- OneSource
  ISNs = {n1}
  FinEnd = fin
  MaxConnections = 1
  MaxHalfOpen = 1
  CleanupBatch = 1
  Work = {"ack", "s_synack", "fin", "s_fin", "s_ack", "cleanup"}
  MaxGen = 1
  None = None
INVARIANTS CountedOnce
PROPERTIES FactsKept HalfOpenEnds
