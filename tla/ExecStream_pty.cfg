SPECIFICATION FairSpec
CONSTANTS
  PtyModes = {TRUE}
  Capacity = 1
  MaxInput = 0
  MaxOutput = 1
  MaxResizes = 1
CHECK_DEADLOCK FALSE
PROPERTIES
  CallReturns
