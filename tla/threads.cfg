SPECIFICATION FairSpec
CONSTANTS
  Host <- MCHost
  Volume <- MCVolume
  Device = {disk1, disk2}
  Group <- MCHost
  HostOf <- MCHostOf
  GroupOf <- MCGroupOf
  Available = {disk1, disk2}
  HasPre = {"root"}
  HasPost = {"root", "mail"}
  HasCheck = {"home"}
  CheckMounted = {"home"}
  Main = main
  NoOne = noone
  MaxSpurious = 1
INVARIANTS
  LimitsRespected
  HooksApart
  HooksBracket
  WaitersCovered
  ErrorsCounted
  AllJoined
PROPERTIES
  Termination
