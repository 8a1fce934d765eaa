SPECIFICATION Spec
CONSTANTS
  Process <- MCProcess
  Api <- MCApi
  Serves <- MCServes
INVARIANTS
  ListedWhileAlone
PROPERTIES
  WithdrawalIsClean
CHECK_DEADLOCK FALSE
