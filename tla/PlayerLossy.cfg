SPECIFICATION Spec
CONSTANTS
  Day = Day
  Hour = Hour
  DayDelay = DayDelay
  NoChart = NoChart
  MaxCard = 3
  Charts <- Flight
  CardOf <- CardOfFlight
  XMinOf <- XMinOfFlight
  VizTypes = {1, 3}
  Patience = "all"
  LoseRequests = {"axes", "iter"}
  LoseReplies = {"iter"}
  MaxRuns = 2
  MaxInFlight = 2
  MaxBack = 2
INVARIANTS
  PartitionShown
  ChainNeverCoarsens
  LabelMatchesDrawing
CHECK_DEADLOCK FALSE
