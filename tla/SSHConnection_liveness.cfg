SPECIFICATION FairSpec
CONSTANTS
  Channels = {c1}
  Jobs = {j1, j2}
  MaxKeepAliveRetries = 1
PROPERTIES
  DeadLinkReleases
  ShutdownReleases
  JobEndEndsChannel
