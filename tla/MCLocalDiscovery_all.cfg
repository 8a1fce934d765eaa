SPECIFICATION FairSpec
CONSTANTS
  a = a
  b = b
  Runtime = {a, b}
  Bin = Bin
  None = None
  Api <- Replicas
  MaxFalls = 1
PROPERTIES
  OnlyItsApiWithdraws
  StableRouterGathers
CHECK_DEADLOCK FALSE
