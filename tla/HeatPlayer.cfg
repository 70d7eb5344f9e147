SPECIFICATION Spec
CONSTANTS
  Square = Square
  Cell = Cell
  NoChart = NoChart
  Unknown = Unknown
  MaxSide = 2
  MaxIters = 5
  Charts <- MCCharts
  ColumnsOf <- MCColumnsOf
  RowsOf <- MCRowsOf
  EmptyOf <- MCEmptyOf
  XMinOf <- MCXMinOf
  YMinOf <- MCYMinOf
  VizTypes = {2, 4}
  Leaps = TRUE
  MaxRuns = 3
  MaxBack = 0
INVARIANTS
  HeatPlayerTypeOK
  RequestsFitGrid
  EmptyCellsPainted
  PictureMatchesServer
PROPERTIES
  ImplementsGrid
  AutoplayEnds
CHECK_DEADLOCK FALSE
