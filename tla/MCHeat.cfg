SPECIFICATION HeatSpec
CONSTANTS
  Wide = Wide
  Column = Column
  NoChart = NoChart
  MaxSide = 3
  MaxIters = 3
  Charts <- MCCharts
  ColumnsOf <- MCColumnsOf
  RowsOf <- MCRowsOf
  EmptyOf <- MCEmptyOf
INVARIANTS
  HeatTypeOK
  KBestTiles
  EmptiesExact
  BaselineComplete
PROPERTIES
  AnswerRebuilds
