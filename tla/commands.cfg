SPECIFICATION FairSpec
CONSTANTS
  Command = {"rsync", "check"}
  Captured = {"rsync", "check"}
  Timed = {"rsync"}
  Hangs = {"rsync"}
  Parents = {"rsync"}
  Lingering = {}
  ThrowOn <- MCThrowOn
  MaxOutput = 2
  PipeSize = 1
INVARIANTS
  CaptureComplete
  OutcomeReported
  NoStrayKill
PROPERTIES
  TimeoutKills
  Termination
