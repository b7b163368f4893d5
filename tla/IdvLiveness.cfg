SPECIFICATION FairSpec
CONSTANTS
  Handlers = {h1, h2}
  Events = {e1, e2}
  ProviderStatuses = {"PROCESSING", "VERIFIED"}
  Kinds = {"result", "status"}
  InitialStatuses = {"READY"}
  MaxTime = 1
  MaxVisits = 0
  MaxFaults = 1
  CanCrash = FALSE
  CanOverlap = FALSE
  NoEvent = NoEvent
PROPERTY EveryWebhookSettled
CHECK_DEADLOCK FALSE
