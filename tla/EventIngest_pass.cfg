CONSTANTS
  Loop = Loop
  Rpc = Rpc
  MaxEvents = 2
  MaxAcks = 2
  MaxCrashes = 1
SPECIFICATION FairSpec
INVARIANTS TypeOK NothingLost StatusIsNewest
PROPERTIES ImplementsEventLog FilledIsFinal EventuallyIngested
CHECK_DEADLOCK FALSE
