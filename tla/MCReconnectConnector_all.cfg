SPECIFICATION ConnectorSpec
CONSTANTS
  ConnSocket = {s1, s2, s3}
  NoSocket = NoSocket
  MaxAttempts = 2
  MaxTimers = 2
INVARIANTS
  OneConnection
PROPERTIES
  ClosedStaysClosed
  ManualCloseIsReported
  LostIsRecovered
CHECK_DEADLOCK FALSE
