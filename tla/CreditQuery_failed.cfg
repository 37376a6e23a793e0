\* One query of one batch, and one of the account before it; nothing fails.
CONSTANTS
  a = a
  b = b
  MaxQueries = 1
  MaxNative = 1
  MaxFaults = 0
  Batches <- SomeBatches
  Commands = {1}
  NoCommand = 0
SPECIFICATION FairSpec
PROPERTIES
  RejectedIsFailed
CHECK_DEADLOCK FALSE
