SPECIFICATION Spec
CONSTANTS
  ContextOf <- NineRows
  PrevhashOf <- FivePrevhashes
  X <- FourFeatures
  Sanity <- LastFeature
  Labels <- AllTables
  HashOrders <- Orders
  ModelScores <- OneScore
  OuterFolds = 3
  MaxFeatures = 2
  Fractions <- TenthAndQuarter
  None = None
INVARIANTS OutOfFold MaxStatisticIsExact StatisticsAreExact
CHECK_DEADLOCK FALSE
