SPECIFICATION Spec
CONSTANTS
  Operations = {o1, o2}
  Facts = {f, g}
  Relationships = {f}
  HostEntities = {e}
  Callers = {c1, c2}
  DecisionRequests <- MCRequests
  MaxCalls = 5
  NoCase = NoCase
SYMMETRY Symmetry
INVARIANTS TypeOK AdjudicationsReplay InputsAnswerInOrder DecisionsAccountForClaims
CHECK_DEADLOCK FALSE
