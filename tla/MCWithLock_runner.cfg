SPECIFICATION Spec
CONSTANTS
  r1 = r1
  r2 = r2
  o1 = o1
  o2 = o2
  Run = {r1, r2}
  Owner = {o1}
  NoOwner = NoOwner
  OwnerOf <- OneRunner
  MaxSkew = 0
  Skew <- SkewOfR2
  Third = 2
  AcquireMax = 1
  Late = 0
  HoldFor <- HoldOfR2
  FailedCallsLand = FALSE
  MaxNow = 12
PROPERTIES
  CooldownNeverCut
CHECK_DEADLOCK FALSE
VIEW Seen
