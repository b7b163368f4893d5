SPECIFICATION FairSpec
CONSTANTS
  Procs = {p1, p2, p3}
  AttributeCount = 2
  MaxRuns = 3
  MaxFaults = 2
INVARIANTS TypeOK OneReference AccessAudited AnswersBacked
PROPERTIES HoldRespected DeletionFinal CallsEnd
CHECK_DEADLOCK FALSE
