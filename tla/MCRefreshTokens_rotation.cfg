SPECIFICATION Spec
CONSTANTS
  u1 = u1
  Family = {f1}
  Subject = {u1}
  SubjectOf <- OneUser
  Token = {t1, t2, t3}
  Call = {k1, k2}
  None = None
  Graces = {0, 1}
  Ttl = 3
  MaxNow = 3
INVARIANTS
  OneLiveToken
  NotBurned
  RevokedStaysRevoked
SYMMETRY Exchange
VIEW Seen
CHECK_DEADLOCK FALSE
