SPECIFICATION SessionSpec
CONSTANTS
  Tab = {a, b}
  MaxPair = 3
INVARIANTS
  NeverReplayed
  CacheIsRedeemable
PROPERTY OnlyDeadPairsAreWiped
SYMMETRY Exchange
CHECK_DEADLOCK FALSE
