\* Two queries, three of the account between them, one fault.
CONSTANTS
  a = a
  b = b
  MaxQueries = 2
  MaxNative = 3
  MaxFaults = 1
  Batches <- SomeBatches
  Commands = {1, 2}
  NoCommand = 0
SPECIFICATION FairSpec
INVARIANTS
  TypeOK
  CapacityIsOwn
  BothSidesKnow
  InFlightIsOwed
PROPERTIES
  QueryEnds
CHECK_DEADLOCK FALSE
