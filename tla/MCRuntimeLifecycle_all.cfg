SPECIFICATION Spec
CONSTANTS
  Service <- MCService
  Type <- MCType
  Signal = {"SIGTERM", "SIGINT"}
INVARIANTS
  LayersHold
  NothingIsLeft
PROPERTIES
  ShutdownEnds
CHECK_DEADLOCK FALSE
