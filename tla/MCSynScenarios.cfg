SPECIFICATION Spec
CONSTANTS
  k1 = k1  k2 = k2  a = a  b = b
  reused = kr  bypassing = kb  ending = ke
  Keys = {k1, k2, kr, kb, ke}
  Slots = {s1, s2}
  Lcores = {l1, l2}
  Maint = l1
  SourceOf <- TwoSources
  ISNs = {n1}
  FinEnd = fin
  MaxConnections = 2
  MaxHalfOpen = 1
  CleanupBatch = 2
  Work = {"syn", "ack", "fin", "rst", "s_synack", "s_fin", "admit", "cleanup"}
  MaxGen = 2
  None = None
INVARIANTS TypeOK OneOwner FoundByKey CountsBalanced OwnIsn
PROPERTIES ImplementsConnections FactsKept
SYMMETRY OnlySlots
ACTION_CONSTRAINTS Changes Within
