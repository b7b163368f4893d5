SPECIFICATION Spec
CONSTANTS
  Callers = {c1}
  MaxCalls = 1
  Areas <- MCAreas
  ApiAreas <- MCApiAreas
  Contents = {x}
  OperationKeys = {k}
  Readings = {r}
  FreezeKeys = {p}
  Purposes = {q1}
  Nothing = Nothing
INVARIANT FailuresRecorded
CHECK_DEADLOCK FALSE
