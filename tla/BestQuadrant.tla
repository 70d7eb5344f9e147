---------------------------- MODULE BestQuadrant ----------------------------
(***************************************************************************)
(* Which quadrant genHeat splits, and where (heat.cc:537-1222), for one    *)
(* chart from its first iteration to its last.  A candidate is a cell with *)
(* records; its score is the sum over the four rectangles around it of     *)
(* size times squared mean, for the candidates of all quadrants alike.     *)
(* Module Heat leaves the choice open; here it is computed in exact        *)
(* arithmetic (the code's are doubles), the means of the pieces with it.   *)
(***************************************************************************)
EXTENDS Quadrants, FiniteSetsExt

CONSTANTS
  Columns,  (* Size of the grid.                                           *)
  Rows,
  Empty,    (* The cells that no record falls into: their average stays 0. *)
  Values,   (* The values a cell's sampled average may take.               *)
  MaxMoved  (* Bound: averages that an iteration's samples move.           *)

ASSUME BestQuadrantAssumption ==
  /\ Columns \in Nat \ {0} /\ Rows \in Nat \ {0}
  /\ Empty \subseteq Grid(Columns, Rows)
  /\ Values \subseteq Int /\ Values # {}
  /\ MaxMoved \in Nat

VARIABLES
  groupAvgs,  (* cell -> average of its samples.                           *)
  quads,      (* The quadrants of the last iteration, with their means.    *)
  avgMin,     (* The range of the colour scale.                            *)
  avgMax,
  cut,        (* Where the last split was: its quadrant and its cell.      *)
  iteration

vars == << groupAvgs, quads, avgMin, avgMax, cut, iteration >>

Plane == Grid(Columns, Rows)

\* As many iterations as the grid has cells; wrong: without the last column.
maxIterationShort == (Columns - 1) * Rows
maxIteration      == Columns * Rows

NoCut == [quad |-> 0, cell |-> << >>]

\* A mean is kept as the quotient it is computed by.
Mean(sum, n)      == [sum |-> sum, n |-> n]
Below(p, q)       == p.sum * q.n < q.sum * p.n
Colour(q, mean)   == [xb |-> q.xb, xe |-> q.xe, yb |-> q.yb, ye |-> q.ye,
                      mean |-> mean]

Size(q)       == (q.xe - q.xb + 1) * (q.ye - q.yb + 1)
Total(a, q)   == MapThenSumSet(LAMBDA c : a[c], Cells(q))
Average(a, q) == Mean(Total(a, q), Size(q))

-----------------------------------------------------------------------------
\* Size times squared mean, scaled by maxIteration! to an integer.
Scale        == FoldSet(LAMBDA n, p : n * p, 1, 1 .. maxIteration)
Weight(a, q) == (Scale \div Size(q)) * Total(a, q) * Total(a, q)

\* Wrong: without the last rectangle.
ScoreShort(a, q, c) ==
  LET around == PiecesAround(q, c[1], c[2])
  IN MapThenSumSet(LAMBDA k : Weight(a, around[k]), 1 .. Len(around) - 1)

\* The score of a candidate.  Right of the last column and below the first
\* row there is no rectangle to count.
Score(a, q, c) ==
  LET around == PiecesAround(q, c[1], c[2])
  IN MapThenSumSet(LAMBDA k : Weight(a, around[k]), 1 .. Len(around))

\* The candidates of a quadrant, column by column; the first best wins.
Candidates(q) == Cells(q) \ Empty
Before(c, d)  == c[1] < d[1] \/ (c[1] = d[1] /\ c[2] < d[2])

\* Wrong: the last best wins.
LastBestCell(a, q) ==
  CHOOSE c \in Candidates(q) : \A d \in Candidates(q) :
    IF Before(c, d) THEN Score(a, q, d) < Score(a, q, c)
                    ELSE Score(a, q, d) <= Score(a, q, c)
BestCell(a, q) ==
  CHOOSE c \in Candidates(q) : \A d \in Candidates(q) :
    IF Before(d, c) THEN Score(a, q, d) < Score(a, q, c)
                    ELSE Score(a, q, d) <= Score(a, q, c)
BestScore(a, q) == Score(a, q, BestCell(a, q))

\* The quadrants that compete; the first best of them wins.
Competing == { k \in Divisible(quads) : Candidates(quads[k]) # {} }
BestQuad(a) ==
  CHOOSE k \in Competing : \A j \in Competing :
    IF j < k THEN BestScore(a, quads[j]) < BestScore(a, quads[k])
             ELSE BestScore(a, quads[j]) <= BestScore(a, quads[k])

\* When the corner cell is cut off, the mean of the upper left piece is not
\* computed from its cells but from the mean the quadrant had before: of a
\* column or a row by taking the cell out, of a rectangle by subtracting the
\* three other means.
Corner(q, c) == c = << q.xe, q.yb >>
Remainder(a, q, pieces) ==
  LET old  == q.mean
      cell == a[<< q.xe, q.yb >>]
      p2   == pieces[2]
      p4   == pieces[4]
  IN IF Len(pieces) = 4
       THEN Mean(old.sum * Size(p2) * Size(p4)
                   - old.n * (Total(a, p2) * Size(p4) + cell * Size(p2) * Size(p4)
                                + Total(a, p4) * Size(p2)),
                 old.n * Size(p2) * Size(p4))
       ELSE Mean(Size(q) * old.sum - cell * old.n, old.n * (Size(q) - 1))

\* Wrong: every piece but the corner keeps the mean of the whole.
ColouredWhole(a, q, c) ==
  LET pieces == Pieces(q, c[1], c[2])
  IN [k \in 1 .. Len(pieces) |->
        Colour(pieces[k], IF k = 1 /\ Corner(q, c) THEN Remainder(a, q, pieces)
                                                   ELSE q.mean)]

\* The pieces of q cut at c, with their means.
Coloured(a, q, c) ==
  LET pieces == Pieces(q, c[1], c[2])
  IN [k \in 1 .. Len(pieces) |->
        Colour(pieces[k], IF k = 1 /\ Corner(q, c) THEN Remainder(a, q, pieces)
                                                   ELSE Average(a, pieces[k]))]

\* The colour scale grows to hold the new means; wrong: all but the last.
Extreme(means, Rel(_, _)) ==
  CHOOSE m \in means : \A o \in means : ~Rel(o, m)
WidenShort(pieces) ==
  LET means == { pieces[k].mean : k \in 1 .. Len(pieces) - 1 }
      Above(p, q) == Below(q, p)
  IN /\ avgMax' = Extreme({avgMax} \cup means, Above)
     /\ avgMin' = Extreme({avgMin} \cup means, Below)
Widen(pieces) ==
  LET means == { pieces[k].mean : k \in 1 .. Len(pieces) }
      Above(p, q) == Below(q, p)
  IN /\ avgMax' = Extreme({avgMax} \cup means, Above)
     /\ avgMin' = Extreme({avgMin} \cup means, Below)

-----------------------------------------------------------------------------
Averages ==
  { a \in [Plane -> Values \cup {0}] :
      \A c \in Plane : IF c \in Empty THEN a[c] = 0 ELSE a[c] \in Values }

Init ==
  /\ groupAvgs = [c \in Plane |-> 0]
  /\ quads = << >>
  /\ avgMin = Mean(10000000, 1) /\ avgMax = Mean(-10000000, 1)
  /\ cut = NoCut
  /\ iteration = 0

\* The first iteration: one quadrant, its mean over all cells of the grid.
First ==
  /\ iteration = 0
  /\ iteration' = 1
  /\ groupAvgs' \in Averages
  /\ LET mean == Average(groupAvgs', WholeGrid(Columns, Rows)[1])
     IN /\ quads' = << Colour(WholeGrid(Columns, Rows)[1], mean) >>
        /\ avgMin' = mean /\ avgMax' = mean
  /\ UNCHANGED cut

\* A next iteration: samples of the divisible quadrants move averages, then
\* the best candidate is split, if there is one.
Resampled ==
  { a \in Averages :
      LET moved == { c \in Plane : a[c] # groupAvgs[c] }
      IN /\ moved \subseteq UNION { Cells(quads[k]) : k \in Divisible(quads) }
         /\ Cardinality(moved) <= MaxMoved }
Iterate ==
  /\ iteration \in 1 .. maxIteration - 1
  /\ iteration' = iteration + 1
  /\ groupAvgs' \in Resampled
  /\ \/ /\ Competing = {}
        /\ cut' = NoCut
        /\ UNCHANGED << quads, avgMin, avgMax >>
     \/ /\ Competing # {}
        /\ LET k      == BestQuad(groupAvgs')
               c      == BestCell(groupAvgs', quads[k])
               pieces == Coloured(groupAvgs', quads[k], c)
           IN /\ cut' = [quad |-> k, cell |-> c]
              /\ quads' = Put(quads, k, pieces)
              /\ Widen(pieces)

Next == First \/ Iterate
Spec == Init /\ [][Next]_vars

-----------------------------------------------------------------------------
\* Squared error of drawing the cells of q in one colour, in units of Scale.
Error(a, q) ==
  Scale * MapThenSumSet(LAMBDA c : a[c] * a[c], Cells(q)) - Weight(a, q)
Loss(a, list) == MapThenSumSet(LAMBDA k : Error(a, list[k]), 1 .. Len(list))

\* No other cell with records of the split quadrant would have drawn the
\* sampled averages with a smaller squared error (heat.cc:641-736).
CutIsBestOfQuadrant ==
  [][cut' # NoCut =>
       LET q == quads[cut'.quad]
           pieces == SubSeq(quads', cut'.quad, cut'.quad + Len(quads') - Len(quads))
       IN \A c \in Candidates(q) :
            Loss(groupAvgs', pieces)
              <= Loss(groupAvgs', PiecesAround(q, c[1], c[2]))]_vars

\* Every piece of a split is drawn at the average of its cells as sampled
\* now, but for the upper left one when a corner is cut off, which is derived
\* from an older mean (heat.cc:916, 997, 1072).
MeansAreAverages ==
  [][cut' # NoCut =>
       LET q == quads[cut'.quad] IN
       \A k \in 1 .. Len(quads') :
         \/ \E j \in 1 .. Len(quads) : quads'[k] = quads[j]
         \/ k = cut'.quad /\ Corner(q, cut'.cell)
         \/ quads'[k].mean.sum * Size(quads'[k])
              = Total(groupAvgs', quads'[k]) * quads'[k].mean.n]_vars

\* Where the corner of a row or of a rectangle is cut off, the piece whose mean
\* is not that of its cells has no cell with records: the scan from the first
\* column (heat.cc:641) meets every other candidate before the corner, and a
\* cut, however little it helps, never scores below it.
CornerHidesNothing ==
  [][cut' # NoCut /\ Corner(quads[cut'.quad], cut'.cell) =>
       LET q == quads[cut'.quad] IN
       q.xb < q.xe => Cells(quads'[cut'.quad]) \subseteq Empty]_vars

\* The page asks for as many iterations as the grid has cells and no more;
\* by then nothing is left that could be split.
CompleteInTime == iteration = maxIteration => Competing = {}

\* Every colour on the page lies within the scale sent with it.
MeansOnScale ==
  \A k \in 1 .. Len(quads) :
    ~Below(quads[k].mean, avgMin) /\ ~Below(avgMax, quads[k].mean)

=============================================================================
