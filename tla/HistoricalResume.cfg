CONSTANTS
  h1 = h1  h2 = h2
  NoMeta = NoMeta
  Count = 2
  Headers <- TwoHeaders
  Ranges <- OneRange
  Hits <- TwoHits
  Batch = 2
  CanStop = TRUE
  CanCrash = TRUE
  MaxRuns = 2
SPECIFICATION FairSpec
INVARIANTS
  ScanInv
  CleanStopIsExact
PROPERTIES
  ScanEnds
