SPECIFICATION Spec
CONSTANTS
  Service <- MCService
  Type <- MCType
  Signal = {"SIGTERM", "SIGINT"}
PROPERTIES
  StatesInOrder
CHECK_DEADLOCK FALSE
