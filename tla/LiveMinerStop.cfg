CONSTANTS
  j1 = j1  j2 = j2  e1 = e1  e2 = e2
  NoWork = NoWork  None = None
  CpuCount = 2
  GpuEnabled = FALSE
  CpuEnabled = TRUE
  NonceSpace = 3
  Jobs <- OneJob
  Ex1s <- OneEx1
  Ex2Space <- Two
  Reconnect = TRUE
  Batch = 2
  BadJobs <- NoJobs
  CleanFlags <- Never
  CleanRenotify = FALSE
  MaxGeneration = 1
  MaxCrashes = 0
  CanShutdown = TRUE
  MaxTicks = 0
SPECIFICATION FairSpec
INVARIANTS
  CleanStopIsExact
PROPERTIES
  EveryUnitFinishes
  ShutdownEnds
CHECK_DEADLOCK FALSE
