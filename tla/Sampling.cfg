SPECIFICATION Spec
CONSTANTS
  NumBlocks = 3
  PerBlock = 2
  Attrs = {"d1", "d2"}
  Val <- MCVal
  Charts <- MCCharts
  Blocks <- MCBlocks
  Pages = 3
  ToArray <- MCToArray
INVARIANTS
  DrawsAreFresh
  PastEndMeansExhausted
  EmptiesExact
CHECK_DEADLOCK FALSE
