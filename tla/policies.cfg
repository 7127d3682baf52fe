SPECIFICATION Spec
CONSTANTS
  Device = {"disk1", "disk2"}
  Configuration <- MCConfiguration
  PerDay = 2
  MaxTime = 11
  MaxMidnights = 1
INVARIANTS
  BucketFound
PROPERTIES
  MinBackupsKept
  
  
  
  
