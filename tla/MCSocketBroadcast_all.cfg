SPECIFICATION Spec
CONSTANTS
  Conn = {c1}
  Seed = {s1, s2, s3}
  None = None
  LateSeedsThrow = FALSE
  LateJoins = FALSE
  MaxVersion = 2
INVARIANTS
  MembersMissNothing
  NeverOvertaken
  LiveAreOpen
PROPERTIES
  BroadcastArrives
CHECK_DEADLOCK FALSE
