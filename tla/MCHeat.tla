------------------------------- MODULE MCHeat -------------------------------
(***************************************************************************)
(* Instances of the heatmap engine: a grid of three columns and two rows   *)
(* with a cell without records, and one of a single column, so that each   *)
(* leaves iterations, averages and marks behind that do not fit the other. *)
(***************************************************************************)
EXTENDS Heat

CONSTANTS Wide, Column

MCCharts    == {Wide, Column}
MCColumnsOf == [c \in MCCharts |-> IF c = Wide THEN 3 ELSE 1]
MCRowsOf    == [c \in MCCharts |-> 2]
MCEmptyOf   == [c \in MCCharts |-> IF c = Wide THEN {<< 0, 1 >>} ELSE {}]
=============================================================================
