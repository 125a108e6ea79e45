SPECIFICATION FairSpec
CONSTANTS
  Conns = {c1, c2, c3, c4}
  NoConn = NoConn
CHECK_DEADLOCK FALSE
INVARIANTS
  IInv
  AtMostOneCutOff
PROPERTIES
  ShutdownTerminates
