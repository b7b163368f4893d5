SPECIFICATION Spec
CONSTANTS
  Step = 4
  Depth = 4
  Hundred = 256
  Entities = {a, b, c, t}
  Target = t
  Dimensions = {"ECONOMIC", "VOTING"}
  Dimension = "ECONOMIC"
  Claims <- MCClaims
  MaxClaims = 3
  Threshold <- MCThreshold
  Concept = "SHARE_OWNERSHIP"
  Unknown = Unknown
SYMMETRY Symmetry
INVARIANTS TypeOK TrueShareInside LowerEndAttained WithinWhole DeterminationRight StatusExplained
PROPERTY OnlyConceptRevokes
CHECK_DEADLOCK FALSE
