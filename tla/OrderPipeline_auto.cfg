\* Two automatic intents of one permit and one fault.
CONSTANTS
  i1 = i1
  i2 = i2
  Intents = {i1, i2}
  NoIntent = NoIntent
  RpcThreads = {rpc}
  Loop = loop
  UsedModes = {"LIMITED_AUTO"}
  MaxFaults = 1
SPECIFICATION Spec
SYMMETRY Symmetry
PROPERTIES
  UnknownStopsAuto
