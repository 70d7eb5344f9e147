SPECIFICATION Spec
CONSTANTS
  Day = Day
  Hour = Hour
  DayDelay = DayDelay
  NoChart = NoChart
  MaxCard = 3
  Charts <- Sensor
  CardOf <- CardOfSensor
  XMinOf <- XMinOfSensor
  VizTypes = {1}
  Patience = "asking"
  LoseRequests = {}
  LoseReplies = {}
  MaxRuns = 2
  MaxInFlight = 2
  MaxBack = 2
INVARIANTS
  FirstStoreFits
CHECK_DEADLOCK FALSE
