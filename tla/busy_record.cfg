SPECIFICATION Spec
CONSTANTS
  Backup = {"mon", "wed"}
  Device = {"disk1", "disk2"}
  DeviceOf <- MCDeviceOf
  Nothing = nothing
  CommandLines <- MCCommandLines
  TimeLimit = TRUE
  MaxTrouble = 1
INVARIANT
  BusyIsRetried
