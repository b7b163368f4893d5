SPECIFICATION Spec
CONSTANTS
  Procs = {p1, p2}
  AttributeCount = 1
  MaxRuns = 3
  MaxFaults = 0
SYMMETRY Symmetry
INVARIANT DeletedIsEmpty
CHECK_DEADLOCK FALSE
