CONSTANTS
  j1 = j1  j2 = j2  e1 = e1  e2 = e2
  NoWork = NoWork  None = None
  CpuCount = 1
  GpuEnabled = FALSE
  CpuEnabled = TRUE
  NonceSpace = 2
  Jobs <- OneJob
  Ex1s <- OneEx1
  Ex2Space <- Two
  Reconnect = TRUE
  Batch = 1
  BadJobs <- NoJobs
  CleanFlags <- Never
  CleanRenotify = FALSE
  MaxGeneration = 1
  MaxCrashes = 1
  CanShutdown = FALSE
  MaxTicks = 1
SPECIFICATION FairSpec
PROPERTIES
  EveryUnitFinishes
CHECK_DEADLOCK FALSE
