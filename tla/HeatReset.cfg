SPECIFICATION Spec
CONSTANTS
  Square = Square
  Cell = Cell
  NoChart = NoChart
  Unknown = Unknown
  MaxSide = 3
  MaxIters = 6
  Charts <- MCCharts
  ColumnsOf <- MCColumnsOf
  RowsOf <- MCRowsOf
  EmptyOf <- MCEmptyOf
  XMinOf <- MCXMinOf
  YMinOf <- MCYMinOf
  VizTypes = {2}
  Leaps = TRUE
  MaxRuns = 2
  MaxBack = 2
PROPERTIES
  PlaysAfterReset
CHECK_DEADLOCK FALSE
