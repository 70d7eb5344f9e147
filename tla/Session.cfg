SPECIFICATION Spec
CONSTANTS
  Tabs = {t1, t2}
  Day = Day
  Week = Week
  Year = Year
  Delay = Delay
  Nothing = Nothing
  Dims <- FlightDims
  Measures <- FlightMeasures
  OneKind = TRUE
  Waits = TRUE
  Lost = {"getViz", "load", "axes"}
  FilesFail = TRUE
  MaxVisits = 2
  MaxInFlight = 2
SYMMETRY Alike
INVARIANTS
  AxesKnown
  FilesRecover
  FormsFit
CHECK_DEADLOCK FALSE
