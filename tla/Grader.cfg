SPECIFICATION FairSpec
CONSTANTS
  Requests = {r1, r2}
  Inputs = 2
CHECK_DEADLOCK FALSE
INVARIANTS
  GraderInv
PROPERTIES
  RequestsEnd
