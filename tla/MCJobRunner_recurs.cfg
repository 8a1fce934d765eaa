SPECIFICATION JobSpec
CONSTANTS
  Setting = {"on", "off", "unreadable"}
  Instance <- MCAlone
  i1 = i1
  i2 = i2
  MaxAhead = 0
  Ahead <- AloneAhead
  Interval = 3
  CheckEvery = 2
  Slack = 1
  StartupDelay = 0
  Retry = 1
  Limit = 1
  MaxRows = 3
  Parallel = 2
  MaxExtraRuns = 1
  MaxFaults = 1
  None = None
  Orphan = Orphan
INVARIANTS
  StoppedIsIdle
PROPERTIES
  AbortedBeginsNothing
  JobRecurs
CHECK_DEADLOCK FALSE
