CONSTANTS
  s1 = s1  s2 = s2
  NoFile = NoFile
  States <- TwoStates
  Parts = 3
  StreamPower = FALSE
  Attempts = 4
SPECIFICATION StoreSpec
INVARIANTS
  NeverRefused
PROPERTIES
  ImplementsAtomicFile
