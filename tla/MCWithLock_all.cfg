SPECIFICATION Spec
CONSTANTS
  r1 = r1
  r2 = r2
  o1 = o1
  o2 = o2
  Run = {r1, r2}
  Owner = {o1, o2}
  NoOwner = NoOwner
  OwnerOf <- OwnPerRun
  MaxSkew = 0
  Skew <- SkewOfR2
  Third = 2
  AcquireMax = 1
  Late = 0
  HoldFor <- HoldOfR1
  FailedCallsLand = TRUE
  MaxNow = 8
INVARIANTS
  LiveRunHoldsLease
  CooldownKept
  LockoutBounded
PROPERTIES
  ImplementsExclusiveRun
CHECK_DEADLOCK FALSE
VIEW Seen
