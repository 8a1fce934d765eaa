SPECIFICATION ConnectorSpec
CONSTANTS
  ConnSocket = {s1, s2, s3}
  NoSocket = NoSocket
  MaxAttempts = 2
  MaxTimers = 2
PROPERTY EveryDropIsRecovered
CHECK_DEADLOCK FALSE
