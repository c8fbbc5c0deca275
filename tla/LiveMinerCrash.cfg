CONSTANTS
  j1 = j1  j2 = j2  e1 = e1  e2 = e2
  NoWork = NoWork  None = None
  CpuCount = 1
  GpuEnabled = TRUE
  CpuEnabled = TRUE
  NonceSpace = 2
  Jobs <- OneJob
  Ex1s <- OneEx1
  Ex2Space <- Three
  Reconnect = TRUE
  Batch = 2
  BadJobs <- NoJobs
  CleanFlags <- Never
  CleanRenotify = FALSE
  MaxGeneration = 2
  MaxCrashes = 1
  CanShutdown = FALSE
  MaxTicks = 1
SPECIFICATION Spec
INVARIANTS
  NeverReallocated
  NeverForgotten
  RecordedWasHashed
PROPERTIES
  DiskNeverRegresses
