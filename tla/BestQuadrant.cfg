SPECIFICATION Spec
CONSTANTS
  Columns = 3
  Rows = 2
  Empty <- MCEmpty
  Values <- MCValues
  MaxMoved = 1
INVARIANTS
  CompleteInTime
  MeansOnScale
PROPERTIES
  CutIsBestOfQuadrant
  MeansAreAverages
  CornerHidesNothing
CHECK_DEADLOCK FALSE
