SPECIFICATION Spec
CONSTANTS
  Rn <- MCRn
  Ancestors <- MCAncestors
  Action <- MCAction
  GrantAction = "manage"
  Principal <- MCPrincipal
  Workload = {"bot"}
  Ids <- MCIds
  RoleActions <- MCRoleActions
  TokenScope <- MCTokenScope
  Floor <- MCFloor
  Policy <- MCPolicy
  Binding <- MCBinding
  Founding <- MCFounding
  Subject <- MCSubject
  Fact = {"mfa"}
  OfRow = {"owner"}
  OfRest = {"net", "approved"}
  OfActor = {"approved"}
  Answer <- MCAnswer
  World <- MCWorld
  MaxBindings = 2
  None = None
INVARIANTS
  ListsAgree
  UnknownFailsClosed
  ScopeRemedyWorks
  DelegationNarrows
  AccessIsConserved
CHECK_DEADLOCK FALSE
