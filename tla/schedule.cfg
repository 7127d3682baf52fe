SPECIFICATION FairSpec
CONSTANTS
  Action <- MCAction
  Resource <- MCResource
  Uses <- MCUses
  After <- MCAfter
  Priority <- MCPriority
  Position <- MCPosition
  Sync <- MCSync
  Hangs = {"remove/2"}
  Limit = 1
  MaxTime = 2
INVARIANTS
  ResourceExclusion
  DependencyOrder
  
  NothingLeftIdle
  NothingLeftBehind
PROPERTIES
  
  Termination
