SPECIFICATION ForwardFairSpec
CONSTANT MaxData = 2
CHECK_DEADLOCK FALSE
INVARIANTS
  ForwardInv
PROPERTIES
  ForwardEnds
  CopiesStop
