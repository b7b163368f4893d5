SPECIFICATION Spec
CONSTANTS
  Callers = {c1, c2}
  MaxCalls = 3
  Areas <- MCAreas
  ApiAreas <- MCApiAreas
  Contents = {x, y}
  OperationKeys = {k}
  Readings = {r}
  FreezeKeys = {p}
  Purposes = {q1, q2}
  Nothing = Nothing
SYMMETRY Symmetry
INVARIANTS TypeOK ArtifactsBacked StatusHasEvidence PackagesHold ProviderAskedOnce
PROPERTIES InterpretationIsKeyed FreezeIsKeyed
CHECK_DEADLOCK FALSE
