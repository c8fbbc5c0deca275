SPECIFICATION FairSpec
CONSTANTS
  Cpu = Cpu
  Gpu = Gpu
  Kind <- BlockAndShare
  BufferSize = 1
  KeepAudits = TRUE
  KeepCandidates = TRUE
  Accepts <- FirstOnly
  FirstId = 100
  MaxJobs = 2
  MaxTroubles = 1
  None = None
INVARIANTS DurableBeforeSubmit AnswersMatch RecordsInv
PROPERTIES AnswerIsFinal CandidateEnds
CHECK_DEADLOCK FALSE
