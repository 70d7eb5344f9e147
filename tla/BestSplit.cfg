SPECIFICATION Spec
CONSTANTS
  Card = 4
  Values = {0, 1, 3}
  MaxMoved = 1
INVARIANTS
  MeansOnAxis
PROPERTIES
  SplitIsBest
  MeansAreAverages
  EveryIterationSplits
CHECK_DEADLOCK FALSE
