------------------------------ MODULE MCTrend ------------------------------
(***************************************************************************)
(* Instances of the trendline engine: two charts of different cardinality, *)
(* so that loading one after the other leaves slots behind, and one array  *)
(* slot more than the smaller chart uses.                                  *)
(***************************************************************************)
EXTENDS Trend

CONSTANTS Day, Hour

MCCharts == {Day, Hour}
MCCardOf == [c \in MCCharts |-> IF c = Day THEN 3 ELSE 2]
MCXMinOf == [c \in MCCharts |-> IF c = Day THEN 1 ELSE 0]
=============================================================================
