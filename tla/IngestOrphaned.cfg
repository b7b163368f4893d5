SPECIFICATION Spec
CONSTANTS
  Handlers = {h1, h2}
  Contents = {c1}
  NoContent = NoContent
  MaxRequests = 3
  MaxFaults = 1
SYMMETRY Symmetry
PROPERTY CleanupKeepsEvidence
CHECK_DEADLOCK FALSE
