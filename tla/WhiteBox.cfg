SPECIFICATION Spec
CONSTANT Specimens <- MCSpecimens
INVARIANTS DigestsAreKnown SigmaDifferential AdditionIsExact PrescanIsExact ComparisonIsConsistent
CHECK_DEADLOCK FALSE
