SPECIFICATION Spec
CONSTANTS
  Conn = {c1}
  Seed = {s1, s2}
  None = None
  LateSeedsThrow = TRUE
  LateJoins = FALSE
  MaxVersion = 2
INVARIANTS
  MembersMissNothing
SYMMETRY Exchange
CHECK_DEADLOCK FALSE
