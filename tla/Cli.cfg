SPECIFICATION FairSpec
CONSTANTS
  Nodes = {m0, w0, w1}
  Base = base
  Master = m0
  Users = {u1}
  MaxRuns = 3
CHECK_DEADLOCK FALSE
INVARIANTS
  CliInv
  NoOrphans
  FreshStart
PROPERTIES
  UsersSaved
  SignalEnds
