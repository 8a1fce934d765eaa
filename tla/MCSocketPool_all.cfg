SPECIFICATION Spec
CONSTANTS
  Client = {c1, c2, c3}
  Socket = {s1, s2}
  None = None
INVARIANTS
  SingleFlight
  CountsHolders
PROPERTIES
  TornDownOnlyUnheld
  AcquireSettles
  TeardownCompletes
CHECK_DEADLOCK FALSE
