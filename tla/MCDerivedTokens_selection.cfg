SPECIFICATION Spec
CONSTANTS
  Org = {acme, globex}
  NoOrg = NoOrg
  User = {ann, bob}
  NoUser = NoUser
INVARIANTS
  TypeOK
  ActiveIsKept
  WireIsActive
CHECK_DEADLOCK FALSE
