SPECIFICATION FairSpec
CONSTANTS
  PtyModes = {FALSE}
  Capacity = 1
  MaxInput = 1
  MaxOutput = 2
  MaxResizes = 0
CHECK_DEADLOCK FALSE
INVARIANTS
  IInv
  OutputBeforeExit
  ResultIsTrue
PROPERTIES
  CallReturns
  StdinReaderEnds
  AgentReleases
