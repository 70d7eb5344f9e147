--------------------------- MODULE MCBestQuadrant ---------------------------
(***************************************************************************)
(* An instance of the choice of a split: three columns, two rows.  The     *)
(* cells of the first column have no records: only where all columns but   *)
(* the last are empty is the corner of a rectangle cut off.  Averages may  *)
(* be negative, as delays of flights that are early are.                   *)
(***************************************************************************)
EXTENDS BestQuadrant

MCEmpty  == {<< 0, 0 >>, << 0, 1 >>}
MCValues == {-1, 0, 2}
=============================================================================
