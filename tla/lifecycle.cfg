SPECIFICATION FairSpec
CONSTANTS
  Backup = {"mon", "wed"}
  Device = {"disk1", "disk2"}
  DeviceOf <- MCDeviceOf
  Nothing = nothing
  CommandLines <- MCCommandLines
  TimeLimit = TRUE
  MaxTrouble = 3
INVARIANTS
  PartialMarked
  CompleteIsWhole
  TreesKnown
  MemoryAgrees
PROPERTIES
  RemovedInOrder
  Cleared
