--------------------------- MODULE IncrementalGrid ---------------------------
(***************************************************************************)
(* What the heatmap promises: a grid is blank, then one quadrant, then at  *)
(* each step one quadrant gives way to smaller ones that fill its place,   *)
(* until the grid is cleared.  No list, no positions, no lines of a cut.   *)
(***************************************************************************)
EXTENDS Quadrants

VARIABLES
  shown,     (* The set of quadrants shown; empty when the grid is blank.  *)
  columns,   (* The size of the grid.                                      *)
  rows

grid == << shown, columns, rows >>

\* The quadrants of `set` fill `cells`, no cell twice.
Fills(set, cells) ==
  /\ \A q \in set : Cells(q) # {} /\ Cells(q) \subseteq cells
  /\ \A c \in cells : \E q \in set : c \in Cells(q)
  /\ \A p, q \in set : p # q => Cells(p) \cap Cells(q) = {}

GridInit == shown = {} /\ columns \in Nat \ {0} /\ rows \in Nat \ {0}

ClearGrid ==
  /\ shown' = {}
  /\ columns' \in Nat \ {0}
  /\ rows' \in Nat \ {0}

RevealGrid ==
  /\ shown = {}
  /\ shown' = { Quad(0, columns - 1, 0, rows - 1) }
  /\ UNCHANGED << columns, rows >>

RefineGrid ==
  /\ \E q \in shown :
       /\ q \notin shown'
       /\ shown \ {q} \subseteq shown'
       /\ Fills(shown' \ shown, Cells(q))
  /\ UNCHANGED << columns, rows >>

GridNext == ClearGrid \/ RevealGrid \/ RefineGrid

GridSpec == GridInit /\ [][GridNext]_grid

\* A grid that is not blank shows every cell exactly once.
GridFilled == shown # {} => Fills(shown, Grid(columns, rows))
=============================================================================
