SPECIFICATION Spec
CONSTANTS
  MaxGrant = 2
  MaxToken = 3
  Request = {q1, q2}
INVARIANTS
  RevokedBuysNothing
  RedeemedOnce
  LoggedOutEverywhere
SYMMETRY Exchange
CHECK_DEADLOCK FALSE
VIEW Seen
