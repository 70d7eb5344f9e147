------------------------------ MODULE Quadrants ------------------------------
(***************************************************************************)
(* Quadrants of the heatmap: a rectangle of cells drawn in one colour, and *)
(* the list of quadrants of one iteration (vector<Quadrant>, heat.cc).     *)
(* Columns and rows are numbered from 0, positions in the list from 1.     *)
(***************************************************************************)
EXTENDS Integers, Sequences

Quadrant == [xb : Int, xe : Int, yb : Int, ye : Int]

Quad(xb, xe, yb, ye) == [xb |-> xb, xe |-> xe, yb |-> yb, ye |-> ye]

\* Wrong: the sizes taken for the last column and row.
WholeGridOff(w, h) == << Quad(0, w, 0, h) >>

\* The first iteration: one quadrant over w columns and h rows.
WholeGrid(w, h) == << Quad(0, w - 1, 0, h - 1) >>

Inside(q, x, y) == q.xb <= x /\ x <= q.xe /\ q.yb <= y /\ y <= q.ye
Cells(q)        == (q.xb .. q.xe) \X (q.yb .. q.ye)
Grid(w, h)      == (0 .. w - 1) \X (0 .. h - 1)

\* Does `list` cover a grid of w columns and h rows, every cell once?
Tiles(list, w, h) ==
  /\ \A k \in 1 .. Len(list) :
       /\ 0 <= list[k].xb /\ list[k].xb <= list[k].xe /\ list[k].xe < w
       /\ 0 <= list[k].yb /\ list[k].yb <= list[k].ye /\ list[k].ye < h
  /\ \A x \in 0 .. w - 1, y \in 0 .. h - 1 :
       \E k \in 1 .. Len(list) : Inside(list[k], x, y)
  /\ \A j, k \in 1 .. Len(list) :
       \A x \in list[j].xb .. list[j].xe, y \in list[j].yb .. list[j].ye :
         Inside(list[k], x, y) => j = k

\* A quadrant of a single cell is never split; the others are, at a cell.
Single(q)       == q.xe - q.xb < 1 /\ q.ye - q.yb < 1
Divisible(list) == { k \in 1 .. Len(list) : ~Single(list[k]) }

\* The cut at cell (x, y) runs right of x and below y.  Right of the last
\* column and below the first row there is nothing: then only one line cuts,
\* and at the corner, where neither would, the corner cell is cut off.
CutX(q, x, y) == IF x = q.xe /\ y = q.yb /\ q.xb < q.xe THEN x - 1 ELSE x
CutY(q, x, y) == IF x = q.xe /\ y = q.yb /\ q.yb < q.ye THEN y + 1 ELSE y

\* The pieces of q around a right edge x and a lower edge y: upper left,
\* upper right, lower right, lower left, as far as they exist.
PiecesAround(q, x, y) ==
  IF x < q.xe /\ y > q.yb
    THEN << Quad(q.xb, x, y, q.ye), Quad(x + 1, q.xe, y, q.ye),
            Quad(x + 1, q.xe, q.yb, y - 1), Quad(q.xb, x, q.yb, y - 1) >>
  ELSE IF x < q.xe
    THEN << Quad(q.xb, x, q.yb, q.ye), Quad(x + 1, q.xe, q.yb, q.ye) >>
  ELSE IF y > q.yb
    THEN << Quad(q.xb, q.xe, y, q.ye), Quad(q.xb, q.xe, q.yb, y - 1) >>
  ELSE << q >>

\* Wrong: the lower line one row off.
PiecesBelow(q, x, y) == PiecesAround(q, CutX(q, x, y), CutY(q, x, y) + 1)

Pieces(q, x, y) == PiecesAround(q, CutX(q, x, y), CutY(q, x, y))

\* `list` with its s-th quadrant replaced by the pieces.
Put(list, s, pieces) ==
  [ k \in 1 .. Len(list) + Len(pieces) - 1 |->
      IF k < s THEN list[k]
      ELSE IF k < s + Len(pieces) THEN pieces[k - s + 1]
      ELSE list[k - Len(pieces) + 1] ]
=============================================================================
