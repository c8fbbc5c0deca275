SPECIFICATION FairSpec
CONSTANTS
  NBlocks = 3
  Discovery <- FirstTwo
  GpuWorkers = 2
  MaxCommands = 3
  MaxTroubles = 2
  None = None
INVARIANTS PoolInv AnalysisIsWhole
PROPERTIES CompleteStays CommandEnds
CHECK_DEADLOCK FALSE
