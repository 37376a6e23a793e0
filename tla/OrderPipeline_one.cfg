\* One intent of any mode, two dispatching threads, three faults wherever they hurt.
CONSTANTS
  i1 = i1
  i2 = i2
  Intents = {i1}
  NoIntent = NoIntent
  RpcThreads = {rpc}
  Loop = loop
  UsedModes = {"OBSERVE_ONLY", "MANUAL_LIVE", "LIMITED_AUTO"}
  MaxFaults = 3
SPECIFICATION FairSpec
INVARIANTS
  TypeOK
  AtMostOnePassorder
  StatusIsEvidence
  NoLostCommand
PROPERTIES
  ImplementsOneShot
  EveryIntentReported
  LiveOrdersConverge
