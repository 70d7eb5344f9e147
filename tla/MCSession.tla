----------------------------- MODULE MCSession ------------------------------
(***************************************************************************)
(* Two tabs, the flight data reduced to one dimension for trendlines and   *)
(* two for heatmaps.                                                       *)
(***************************************************************************)
EXTENDS Session, TLC

CONSTANTS Day, Week, Year, Delay

FlightDims == [k \in {1, 2} |-> IF k = 1 THEN {Day} ELSE {Week, Year}]
FlightMeasures == {Delay}

Alike == Permutations(Tabs) \cup Permutations({Week, Year})

=============================================================================
