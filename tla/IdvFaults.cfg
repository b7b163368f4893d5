SPECIFICATION Spec
CONSTANTS
  Handlers = {h1, h2}
  Events = {e1, e2}
  ProviderStatuses = {"REQUIRES_RETRY", "ABANDONED"}
  Kinds = {"result", "status"}
  InitialStatuses = {"READY"}
  MaxTime = 2
  MaxVisits = 0
  MaxFaults = 1
  CanCrash = TRUE
  CanOverlap = TRUE
  NoEvent = NoEvent
SYMMETRY Symmetry
INVARIANTS OneClaimant DecisionReported OutcomeEventsAgree NothingDangling
CHECK_DEADLOCK FALSE
