SPECIFICATION Spec
CONSTANTS
  Client = {c1, c2, c3}
  Socket = {s1, s2}
  None = None
PROPERTIES
  ReleaseSparesOthers
  OvertakenHoldsOn
CHECK_DEADLOCK FALSE
