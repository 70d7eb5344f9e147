---------------------------- MODULE MCHeatPlayer ----------------------------
(***************************************************************************)
(* Instances of the heatmap page: a square with records in one corner,     *)
(* whose left column is cut off and then halved, after which the engine    *)
(* has nothing to split and sends that answer again; and a grid of one     *)
(* cell, complete after one iteration.  The axes start at 1 and 0, as      *)
(* those of the sensor data.                                               *)
(***************************************************************************)
EXTENDS HeatPlayer

CONSTANTS Square, Cell

MCCharts    == {Square, Cell}
MCColumnsOf == [c \in MCCharts |-> IF c = Square THEN 2 ELSE 1]
MCRowsOf    == [c \in MCCharts |-> IF c = Square THEN 2 ELSE 1]
MCEmptyOf   == [c \in MCCharts |-> IF c = Square THEN {<< 0, 1 >>, << 1, 0 >>, << 1, 1 >>}
                                                 ELSE {}]
MCXMinOf    == [c \in MCCharts |-> 1]
MCYMinOf    == [c \in MCCharts |-> 0]
=============================================================================
