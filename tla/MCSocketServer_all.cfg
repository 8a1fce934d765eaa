SPECIFICATION Spec
CONSTANTS
  Conn = {a, b}
  Req = {r1}
INVARIANTS
  ListedAreThere
  StoppedServesNone
PROPERTIES
  RequestsSettle
  VanishedAreReaped
CHECK_DEADLOCK FALSE
