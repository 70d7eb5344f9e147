SPECIFICATION TrendSpec
CONSTANTS
  Day = Day
  Hour = Hour
  NoChart = NoChart
  MaxCard = 3
  Charts <- MCCharts
  CardOf <- MCCardOf
  XMinOf <- MCXMinOf
INVARIANTS
  TrendTypeOK
  KBestCovers
  AnswerIsNeighbours
PROPERTIES
  IterationRefines
