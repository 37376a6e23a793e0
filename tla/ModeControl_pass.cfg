\* Two accounts and two trading modes; three operations and two faults.
CONSTANTS
  Accounts = {a1, a2}
  TradingModes = {SIM_SIGNAL, MANUAL_LIVE}
  MaxOperations = 3
  MaxFaults = 2
SPECIFICATION FairSpec
INVARIANTS
  TypeOK
  HaltReachesAdapters
  WorkerModeIsSynced
  AccountsAgree
PROPERTIES
  AdapterFollows
CHECK_DEADLOCK FALSE
