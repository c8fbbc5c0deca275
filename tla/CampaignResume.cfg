SPECIFICATION FairSpec
CONSTANTS
  NBlocks = 2
  PartitionOf <- Halves
  MinFit = 1
  NArtifacts = 1
  Studies = {"study1", "study2"}
  MaxCommands <- Commands
  MaxCrashes = 1
  Tears = TRUE
  None = None
INVARIANTS RowsInv PartitionBarrier StudyIsWhole
PROPERTIES SettledIsFinal ResumeLabelsAll
CHECK_DEADLOCK FALSE
