\* Two commands of any kind, one event of a callback, one fault.
CONSTANTS
  Commands = {1, 2}
  NoCommand = 0
  ScopeOrder <- SomeScopes
  Requests <- SomeRequests
  UsedPushes = {"HOLDING"}
  MaxPushes = 1
  MaxFaults = 1
SPECIFICATION FairSpec
INVARIANTS
  TypeOK
  FreshPreview
  AnswerIsBacked
  OneCancel
PROPERTIES
  EveryCommandAnswered
CHECK_DEADLOCK FALSE
