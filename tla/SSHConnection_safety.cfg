SPECIFICATION Spec
CONSTANTS
  Channels = {c1, c2}
  Jobs = {j1, j2}
  MaxKeepAliveRetries = 3
SYMMETRY Symmetry
INVARIANTS
  IInv
  NoGoroutineLeft
  TeardownOrder
PROPERTIES
  ChannelsAreScoped
  JobsAreScoped
