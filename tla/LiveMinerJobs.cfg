CONSTANTS
  j1 = j1  j2 = j2  e1 = e1  e2 = e2
  NoWork = NoWork  None = None
  CpuCount = 1
  GpuEnabled = TRUE
  CpuEnabled = TRUE
  NonceSpace = 2
  Jobs <- TwoJobs
  Ex1s <- TwoEx1
  Ex2Space <- Sizes
  Reconnect = TRUE
  Batch = 2
  BadJobs <- SecondJob
  CleanFlags <- Either
  CleanRenotify = FALSE
  MaxGeneration = 3
  MaxCrashes = 0
  CanShutdown = FALSE
  MaxTicks = 0
SPECIFICATION Spec
INVARIANTS
  MinerInv
  ExclusiveScan
  NeverForgotten
