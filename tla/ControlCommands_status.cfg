\* docs/index.html:3092 against one cancellation; nothing fails.
CONSTANTS
  Commands = {1}
  NoCommand = 0
  ScopeOrder <- SomeScopes
  Requests = {}
  UsedPushes = {}
  MaxPushes = 0
  MaxFaults = 0
SPECIFICATION Spec
INVARIANTS
  AcceptedIsNotRejected
CHECK_DEADLOCK FALSE
