SPECIFICATION Spec
CONSTANTS
  Handlers = {h1, h2}
  Events = {e1, e2}
  ProviderStatuses = {"PROCESSING", "VERIFIED"}
  Kinds = {"result", "status", "reconcile"}
  InitialStatuses = {"READY"}
  MaxTime = 2
  MaxVisits = 1
  MaxFaults = 0
  CanCrash = FALSE
  CanOverlap = TRUE
  NoEvent = NoEvent
SYMMETRY Symmetry
INVARIANTS TypeOK NoDecisionLost ProviderDecides DInv
PROPERTY KeepsContract
CHECK_DEADLOCK FALSE
