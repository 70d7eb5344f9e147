--------------------------- MODULE MCTrendPlayer ---------------------------
(***************************************************************************)
(* Instances of the player: the charts of MCTrend, one browser page.       *)
(***************************************************************************)
EXTENDS TrendPlayer

CONSTANTS Day, Hour, DayDelay

\* The sensor data: two dimensions, which start at different values.
Sensor == {Day, Hour}
\* The flight data: one dimension, Day, and two of its measures.
Flight == {Day, DayDelay}

CardOfSensor == [c \in Sensor |-> IF c = Day THEN 3 ELSE 2]
XMinOfSensor == [c \in Sensor |-> IF c = Day THEN 1 ELSE 0]
CardOfFlight == [c \in Flight |-> 3]
XMinOfFlight == [c \in Flight |-> 1]
=============================================================================
