SPECIFICATION Spec
CONSTANTS
  Host = {"alpha"}
  Volume = {"root", "home"}
  Device = {disk1, disk2}
  Group = {"alpha"}
  HostOf <- OneHost
  GroupOf <- OneHost
  Available = {disk1, disk2}
  HasPre = {"home"}
  HasPost = {"home"}
  HasCheck = {"home"}
  CheckMounted = {"home"}
  Main = main
  NoOne = noone
  MaxSpurious = 0
INVARIANT
  FailedCheckSkips
