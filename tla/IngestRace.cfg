SPECIFICATION FairSpec
CONSTANTS
  Handlers = {h1, h2}
  Contents = {c1, c2}
  NoContent = NoContent
  MaxRequests = 4
  MaxFaults = 3
INVARIANTS TypeOK OneUploadPerKey StoredStays OnceWithoutFaults
PROPERTY OperationEnds
CHECK_DEADLOCK FALSE
