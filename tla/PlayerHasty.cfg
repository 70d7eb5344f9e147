SPECIFICATION Spec
CONSTANTS
  Day = Day
  Hour = Hour
  DayDelay = DayDelay
  NoChart = NoChart
  MaxCard = 3
  Charts <- Flight
  CardOf <- CardOfFlight
  XMinOf <- XMinOfFlight
  VizTypes = {1}
  Patience = "none"
  LoseRequests = {}
  LoseReplies = {}
  MaxRuns = 2
  MaxInFlight = 2
  MaxBack = 2
INVARIANTS
  PartitionShown
CHECK_DEADLOCK FALSE
