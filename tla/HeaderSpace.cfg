SPECIFICATION FairSpec
CONSTANTS
  NonceSpace = 8
  MaxPow = 3
  Worlds <- MCWorlds
  Bounds <- MCBounds
  Target = 0
  Hit = 2
  Requests <- MCRequests
  LocalSize = 4
  PreferredItems = 4
  MaxCommands = 2
  MaxAborts = 1
INVARIANTS MapIsExact CaptureIsExact
PROPERTIES ScanEnds
CHECK_DEADLOCK FALSE
