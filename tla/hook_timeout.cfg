SPECIFICATION FairSpec
CONSTANTS
  Command = {"hook"}
  Captured = {"hook"}
  Timed = {"hook"}
  Hangs = {}
  Parents = {"hook"}
  Lingering = {"hook"}
  ThrowOn <- HookThrowOn
  MaxOutput = 2
  PipeSize = 1
PROPERTIES
  TimeoutGivesUp
