SPECIFICATION JobSpec
CONSTANTS
  Setting = {"on", "unreadable"}
  Instance <- MCInstance
  i1 = i1
  i2 = i2
  MaxAhead = 1
  Ahead <- MCAhead
  Interval = 3
  CheckEvery = 2
  Slack = 1
  StartupDelay = 0
  Retry = 1
  Limit = 1
  MaxRows = 2
  Parallel = 1
  MaxExtraRuns = 0
  MaxFaults = 1
  None = None
  Orphan = Orphan
INVARIANTS
  StoppedIsIdle
PROPERTIES
  AbortedBeginsNothing
  HeldRunsAreSpaced
CHECK_DEADLOCK FALSE
