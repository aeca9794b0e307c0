CONSTANTS
  c1 = c1
  c2 = c2
  c3 = c3
  b1 = b1
  b2 = b2
  b3 = b3
  Conns = {c1, c2, c3}
  Browsers = {b1, b2, b3}
  Nobody = Nobody
  MaxSlice = 2
  Names = 2
  Buffer = 1
  MaxRequests = 3
  Deployments <- MCQueried
  AuthorName <- MCAuthorName
SPECIFICATION Spec
CHECK_DEADLOCK FALSE
INVARIANTS
  GateHoldsForAll
