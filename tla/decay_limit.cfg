SPECIFICATION Spec
CONSTANTS
  Device = {"disk1"}
  Configuration <- DecayConfiguration
  PerDay = 1
  MaxTime = 6
  MaxMidnights = 0
INVARIANTS
  NeverNone
