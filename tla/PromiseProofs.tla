---------------------------- MODULE PromiseProofs ----------------------------
(***************************************************************************)
(* What is guaranteed for every axis and for grids of every size: by the   *)
(* two abstract specifications, the chart of segments and the grid of      *)
(* quadrants, and by the search of genHeat for the quadrant to split       *)
(* (module BestQuadrant) from a chart's first iteration to its last.       *)
(***************************************************************************)
EXTENDS IncrementalChart, IncrementalGrid, BestQuadrant, PartitionProofs

-----------------------------------------------------------------------------
(* The chart.                                                              *)

\* ChartCovers with the types it needs to be inductive.
ChartInv ==
  /\ axis \in Segment
  /\ axis.b <= axis.e
  /\ segs \in Seq(Segment)
  /\ ChartCovers

LEMMA ChartInitInv == ChartInit => ChartInv
BY DEF ChartInit, ChartInv, ChartCovers

LEMMA RevealInv ==
  ASSUME ChartInv, Reveal
  PROVE  ChartInv'
<1>1. axis.b \in Int /\ axis.e \in Int
  BY DEF ChartInv, Segment
<1>2. Seg(axis.b, axis.e) \in Segment
  BY <1>1 DEF Seg, Segment
<1>3. Len(segs') = 1 /\ segs'[1] = Seg(axis.b, axis.e)
  BY DEF Reveal
<1>4. Covers(segs', axis.b, axis.e)
  BY <1>1, <1>3 DEF ChartInv, Covers, Seg
<1> QED
  BY <1>2, <1>4 DEF ChartInv, ChartCovers, Reveal

LEMMA RefineInv ==
  ASSUME ChartInv, Refine
  PROVE  ChartInv'
<1>1. PICK s \in Splittable(segs), g \in Groups(axis) :
        /\ segs[s].b < g /\ g <= segs[s].e
        /\ segs' = Cut(segs, s, g)
  BY DEF Refine, Cut
<1>2. axis.b \in Int /\ axis.e \in Int
  BY DEF ChartInv, Segment
<1>3. g \in Int
  BY <1>2 DEF Groups
<1>4. CanCut(segs, s, g)
  BY <1>1, <1>3 DEF CanCut, Splittable, ChartInv
<1>5. segs' \in Seq(Segment)
  BY <1>1, <1>4, SplitElements
<1>6. segs # << >>
  BY <1>1 DEF Splittable
<1>7. Covers(segs', axis.b, axis.e)
  BY <1>1, <1>2, <1>4, <1>6, SplitCovers DEF ChartInv, ChartCovers
<1> QED
  BY <1>5, <1>7 DEF ChartInv, ChartCovers, Refine

\* A chart that implements the abstract one always shows every value of its
\* axis exactly once: what ImplementsChart buys the page.
THEOREM ChartAlwaysCovers == ChartSpec => []ChartCovers
<1>1. ChartInv /\ [ChartNext]_Chart => ChartInv'
  <2> SUFFICES ASSUME ChartInv, [ChartNext]_Chart
               PROVE  ChartInv'
    OBVIOUS
  <2>1. CASE Clear
    BY <2>1 DEF Clear, ChartInv, ChartCovers
  <2>2. CASE Reveal
    BY <2>2, RevealInv
  <2>3. CASE Refine
    BY <2>3, RefineInv
  <2>4. CASE UNCHANGED Chart
    BY <2>4 DEF Chart, ChartInv, ChartCovers
  <2> QED
    BY <2>1, <2>2, <2>3, <2>4 DEF ChartNext
<1>2. ChartInv => ChartCovers
  BY DEF ChartInv
<1> QED
  BY ChartInitInv, <1>1, <1>2, PTL DEF ChartSpec

-----------------------------------------------------------------------------
(* The grid.                                                               *)

\* GridFilled with the types it needs to be inductive.
GridInv ==
  /\ columns \in Nat \ {0}
  /\ rows \in Nat \ {0}
  /\ GridFilled

\* Filling the place of one of the quadrants keeps the cells filled.
LEMMA RefillFills ==
  ASSUME NEW set, NEW cells, NEW q \in set, NEW new,
         Fills(set, cells), set \ {q} \subseteq new, q \notin new,
         Fills(new \ set, Cells(q))
  PROVE  Fills(new, cells)
<1>1. ASSUME NEW r \in new
      PROVE  Cells(r) # {} /\ Cells(r) \subseteq cells
  <2>1. CASE r \in set
    BY <2>1 DEF Fills
  <2>2. CASE r \notin set
    BY <2>2 DEF Fills
  <2> QED
    BY <2>1, <2>2
<1>2. ASSUME NEW c \in cells
      PROVE  \E r \in new : c \in Cells(r)
  <2>1. PICK r \in set : c \in Cells(r)
    BY DEF Fills
  <2>2. CASE r = q
    <3>1. PICK p \in new \ set : c \in Cells(p)
      BY <2>1, <2>2 DEF Fills
    <3> QED
      BY <3>1
  <2>3. CASE r # q
    BY <2>1, <2>3
  <2> QED
    BY <2>2, <2>3
<1>3. ASSUME NEW p \in new, NEW r \in new, p # r
      PROVE  Cells(p) \cap Cells(r) = {}
  <2>1. CASE p \in set /\ r \in set
    BY <1>3, <2>1 DEF Fills
  <2>2. CASE p \notin set /\ r \notin set
    BY <1>3, <2>2 DEF Fills
  <2>3. ASSUME NEW a \in set \ {q}, NEW b \in new \ set
        PROVE  Cells(a) \cap Cells(b) = {}
    <3>1. Cells(b) \subseteq Cells(q)
      BY DEF Fills
    <3>2. Cells(a) \cap Cells(q) = {}
      BY DEF Fills
    <3> QED
      BY <3>1, <3>2
  <2>4. CASE p \in set /\ r \notin set
    BY <2>3, <2>4
  <2>5. CASE p \notin set /\ r \in set
    BY <2>3, <2>5
  <2> QED
    BY <2>1, <2>2, <2>4, <2>5
<1> QED
  BY <1>1, <1>2, <1>3 DEF Fills

\* One quadrant over the whole grid fills it.
LEMMA WholeFills ==
  ASSUME columns \in Nat \ {0}, rows \in Nat \ {0}
  PROVE  Fills({ Quad(0, columns - 1, 0, rows - 1) }, Grid(columns, rows))
<1> DEFINE q == Quad(0, columns - 1, 0, rows - 1)
<1>1. Cells(q) = Grid(columns, rows)
  BY DEF Cells, Grid, Quad
<1>2. << 0, 0 >> \in Grid(columns, rows)
  BY DEF Grid
<1> HIDE DEF q
<1> QED
  BY <1>1, <1>2 DEF Fills, q

LEMMA GridInitInv == GridInit => GridInv
BY DEF GridInit, GridInv, GridFilled

LEMMA GridNextInv ==
  ASSUME GridInv, [GridNext]_grid
  PROVE  GridInv'
<1>1. CASE ClearGrid
  BY <1>1 DEF ClearGrid, GridInv, GridFilled
<1>2. CASE RevealGrid
  BY <1>2, WholeFills DEF RevealGrid, GridInv, GridFilled
<1>3. CASE RefineGrid
  <2>1. PICK q \in shown :
          /\ q \notin shown'
          /\ shown \ {q} \subseteq shown'
          /\ Fills(shown' \ shown, Cells(q))
    BY <1>3 DEF RefineGrid
  <2>2. Fills(shown', Grid(columns, rows))
    BY <2>1, RefillFills DEF GridInv, GridFilled
  <2> QED
    BY <1>3, <2>2 DEF RefineGrid, GridInv, GridFilled
<1>4. CASE UNCHANGED grid
  BY <1>4 DEF grid, GridInv, GridFilled
<1> QED
  BY <1>1, <1>2, <1>3, <1>4 DEF GridNext

\* A grid that is not blank shows every cell exactly once: any heatmap that
\* implements it, as genHeat's does (heat.cc:437-1222), does so too.
THEOREM GridAlwaysFilled == GridSpec => []GridFilled
<1>1. GridInit => GridInv
  BY GridInitInv
<1>2. GridInv /\ [GridNext]_grid => GridInv'
  BY GridNextInv
<1>3. GridInv => GridFilled
  BY DEF GridInv
<1> QED
  BY <1>1, <1>2, <1>3, PTL DEF GridSpec

-----------------------------------------------------------------------------
(* The split of the heatmap: what is counted.                              *)

\* The list of quadrants without their means.
Bare(list) ==
  [k \in 1 .. Len(list) |-> Quad(list[k].xb, list[k].xe, list[k].yb, list[k].ye)]

\* A quadrant with its mean, within the grid.
Coloureds == [xb : Int, xe : Int, yb : Int, ye : Int, mean : Quotient]
InGrid(q) ==
  /\ q.xb \in Int /\ q.xe \in Int /\ q.yb \in Int /\ q.ye \in Int
  /\ 0 <= q.xb /\ q.xb <= q.xe /\ q.xe < Columns
  /\ 0 <= q.yb /\ q.yb <= q.ye /\ q.ye < Rows

\* Below is the order of the quotients.
LEMMA BelowOrders ==
  /\ \A p, q \in Quotient : AtMost(p, q) <=> ~Below(q, p)
  /\ \A p, q \in Quotient : AtMost(p, q) \/ AtMost(q, p)
  /\ \A p, q, r \in Quotient : AtMost(p, q) /\ AtMost(q, r) => AtMost(p, r)
<1>1. ASSUME NEW p \in Quotient, NEW q \in Quotient
      PROVE  AtMost(p, q) <=> ~Below(q, p)
  <2>1. /\ p.sum \in Int /\ p.n \in Int /\ q.sum \in Int /\ q.n \in Int
    BY DEF Quotient
  <2>2. p.sum * q.n \in Int /\ q.sum * p.n \in Int
    BY <2>1
  <2> QED
    BY <2>2 DEF AtMost, Below
<1> QED
  BY <1>1, AtMostOrders

\* The total of a quadrant is a sum of the library.
LEMMA TotalFold ==
  ASSUME NEW a, NEW q, NEW h, SumsTo(a, Cells(q), h)
  PROVE  \E g : SumsTo(a, Cells(q), g) /\ Total(a, q) = g[Cells(q)]
BY Zenon DEF Total, MapThenSumSet, MapThenFoldSet, AnyOf, SumsTo

LEMMA TotalIs ==
  ASSUME NEW a, NEW q, Numbers(a, Cells(q))
  PROVE  /\ Total(a, q) = SumFunctionOnSet(a, Cells(q))
         /\ Total(a, q) \in Int
<1> DEFINE S == Cells(q)
<1>0. IsFiniteSet(S)
  BY DEF Numbers
<1>1. PICK p : Sums(a, S, p)
  BY SumIs, Zenon
<1>2. SumsTo(a, S, p) /\ SumFunctionOnSet(a, S) = p[S] /\ p[S] \in Int
  <2>1. S \in SUBSET S
    OBVIOUS
  <2>2. SumsTo(a, S, p) /\ SumFunctionOnSet(a, S) = p[S]
    BY <1>1, <2>1, Zenon DEF Sums
  <2>3. p[S] \in Int
    BY <1>1 DEF Sums
  <2> QED
    BY <2>2, <2>3
<1>3. PICK g : SumsTo(a, S, g) /\ Total(a, q) = g[S]
  BY <1>2, TotalFold, Zenon
<1> HIDE DEF S
<1>4. g[S] = p[S]
  <2>1. S \subseteq S /\ \A c \in S : a[c] = a[c]
    OBVIOUS
  <2> QED
    BY <1>0, <1>2, <1>3, <2>1, SumsUnique
<1> QED
  BY <1>2, <1>3, <1>4 DEF S

\* Of a quadrant within the grid everything that is counted is a number.
LEMMA SumsInGrid ==
  ASSUME NEW a \in [Plane -> Int], NEW q, InGrid(q)
  PROVE  /\ Cells(q) \subseteq Plane /\ IsFiniteSet(Cells(q))
         /\ Total(a, q) \in Int /\ Size(q) \in Nat \ {0}
         /\ Average(a, q) \in Quotient
         /\ Numbers(a, Cells(q)) /\ Size(q) <= maxIteration
<1>1. Columns \in Nat /\ Rows \in Nat
  BY BestQuadrantAssumption
<1>2. Cells(q) \subseteq Plane
  BY <1>1 DEF InGrid, Cells, Plane, Grid
<1>3. IsFiniteSet(Cells(q))
  <2>1. IsFiniteSet(q.xb .. q.xe) /\ IsFiniteSet(q.yb .. q.ye)
    BY FS_Interval DEF InGrid
  <2> QED
    BY <2>1, FS_Product DEF Cells
<1>4. Numbers(a, Cells(q)) /\ Total(a, q) \in Int
  <2>1. \A c \in Cells(q) : a[c] \in Int
    BY <1>2
  <2>2. Numbers(a, Cells(q))
    BY <1>3, <2>1 DEF Numbers
  <2> QED
    BY <2>2, TotalIs
<1>5. Size(q) \in Nat \ {0} /\ Size(q) <= maxIteration
  <2> DEFINE w == q.xe - q.xb + 1
             h == q.ye - q.yb + 1
  <2>1. w \in Nat \ {0} /\ h \in Nat \ {0} /\ w <= Columns /\ h <= Rows
    BY <1>1 DEF InGrid
  <2> HIDE DEF w, h
  <2>2. w * h \in Nat \ {0}
    BY <2>1
  <2>3. w * h <= Columns * h /\ Columns * h <= Columns * Rows
    BY <1>1, <2>1
  <2>4. Columns * h \in Int /\ Columns * Rows \in Int
    BY <1>1, <2>1
  <2>5. w * h <= Columns * Rows
    BY <2>2, <2>3, <2>4
  <2> QED
    BY <2>2, <2>5 DEF Size, w, h, maxIteration
<1> QED
  BY <1>2, <1>3, <1>4, <1>5 DEF Average, Mean, Quotient

\* The scale is divided by the number of cells of every quadrant.
LEMMA ScaleDivides ==
  /\ Scale \in Nat \ {0}
  /\ \A n \in 1 .. maxIteration : Scale = (Scale \div n) * n /\ Scale \div n \in Int
<1> DEFINE S == 1 .. maxIteration
<1>1. maxIteration \in Int
  BY BestQuadrantAssumption DEF maxIteration
<1>2. IsFiniteSet(S) /\ S \subseteq Nat \ {0}
  BY <1>1, FS_Interval
<1>3. Scale = FoldSet(LAMBDA n, p : n * p, 1, S)
  BY Zenon DEF Scale
<1> HIDE DEF S
<1>4. LET P == FoldSet(LAMBDA n, p : n * p, 1, S)
      IN P \in Nat \ {0} /\ \A m \in S : \E u \in Nat : P = u * m
  BY <1>2, ProductDivides, Zenon
<1>5. Scale \in Nat \ {0} /\ \A m \in S : \E u \in Nat : Scale = u * m
  BY <1>3, <1>4, Zenon
<1>6. ASSUME NEW n \in S
      PROVE  Scale = (Scale \div n) * n /\ Scale \div n \in Int
  <2>1. PICK u \in Nat : Scale = u * n
    BY <1>5
  <2>2. n \in Nat \ {0} /\ u \in Int
    BY <1>2
  <2>3. Scale \div n = u
    BY <2>1, <2>2, ExactDivision
  <2> QED
    BY <2>1, <2>2, <2>3
<1> QED
  BY <1>5, <1>6 DEF S

\* What a quadrant weighs, and its squared error, in sums.
SquaresIn(a, q) == SumFunctionOnSet(Squares(a), Cells(q))
Share(q)        == Scale \div Size(q)

LEMMA WeightIs ==
  ASSUME NEW a \in [Plane -> Int], NEW q, InGrid(q)
  PROVE  /\ Weight(a, q) = Share(q) * Total(a, q) * Total(a, q)
         /\ Weight(a, q) \in Int
         /\ Share(q) \in Int /\ Scale = Share(q) * Size(q)
         /\ Numbers(Squares(a), Cells(q)) /\ SquaresIn(a, q) \in Int
         /\ Error(a, q) = Scale * SquaresIn(a, q) - Weight(a, q)
         /\ Error(a, q) \in Int
<1>1. /\ Cells(q) \subseteq Plane /\ Numbers(a, Cells(q))
      /\ Total(a, q) \in Int /\ Size(q) \in 1 .. maxIteration
  <2>1. maxIteration \in Int
    BY BestQuadrantAssumption DEF maxIteration
  <2> QED
    BY <2>1, SumsInGrid
<1>2. /\ Share(q) \in Int /\ Scale = Share(q) * Size(q) /\ Scale \in Int
  BY <1>1, ScaleDivides DEF Share
<1>3. Weight(a, q) = Share(q) * Total(a, q) * Total(a, q)
  BY DEF Weight, Share
<1>4. Weight(a, q) \in Int
  <2> DEFINE s == Share(q)
             t == Total(a, q)
  <2>1. s \in Int /\ t \in Int
    BY <1>1, <1>2
  <2> HIDE DEF s, t
  <2>2. s * t * t \in Int
    BY <2>1
  <2> QED
    BY <1>3, <2>2 DEF s, t
<1>5. /\ Numbers(Squares(a), Cells(q))
      /\ SquareSum(a, Cells(q)) = SumFunctionOnSet(Squares(a), Cells(q))
  <2>1. Cells(q) \subseteq DOMAIN a
    BY <1>1
  <2> QED
    BY <1>1, <2>1, SquaresAre, Zenon
<1>6. SquaresIn(a, q) \in Int
  BY <1>5, SumInt, Zenon DEF SquaresIn
<1>7. Error(a, q) = Scale * SquaresIn(a, q) - Weight(a, q)
  BY <1>5, Zenon DEF Error, SquareSum, SquaresIn
<1>8. Error(a, q) \in Int
  BY <1>2, <1>4, <1>6, <1>7
<1> QED
  BY <1>2, <1>3, <1>4, <1>5, <1>6, <1>7, <1>8

\* A sum over a short list.
LEMMA SumOfFew ==
  ASSUME NEW n \in {1, 2, 4}, NEW f, \A k \in 1 .. n : f[k] \in Int
  PROVE  /\ SumFunctionOnSet(f, 1 .. n) \in Int
         /\ n = 1 => SumFunctionOnSet(f, 1 .. n) = f[1]
         /\ n = 2 => SumFunctionOnSet(f, 1 .. n) = f[1] + f[2]
         /\ n = 4 => SumFunctionOnSet(f, 1 .. n) = f[1] + f[2] + f[3] + f[4]
<1> DEFINE F(k) == SumFunctionOnSet(f, 1 .. k)
<1>1. ASSUME NEW k \in 0 .. n - 1
      PROVE  F(k) \in Int /\ F(k + 1) = F(k) + f[k + 1] /\ f[k + 1] \in Int
  <2>1. IsFiniteSet(1 .. k + 1)
    BY FS_Interval
  <2>2. Numbers(f, 1 .. k + 1)
    BY <2>1 DEF Numbers
  <2>3. 1 \in Int /\ k \in Int /\ 1 <= k + 1
    OBVIOUS
  <2> QED
    BY <2>2, <2>3, SumNext
<1>2. F(0) = 0
  <2>1. 1 .. 0 = {}
    OBVIOUS
  <2> QED
    BY <2>1, SumEmpty, Zenon
<1> HIDE DEF F
<1>3. F(1) = f[1] /\ f[1] \in Int
  <2>1. 0 \in 0 .. n - 1
    OBVIOUS
  <2>2. F(0 + 1) = F(0) + f[0 + 1] /\ f[0 + 1] \in Int
    BY <1>1, <2>1
  <2> QED
    BY <1>2, <2>2
<1>4. CASE n = 1
  BY <1>3, <1>4 DEF F
<1>5. ASSUME n # 1
      PROVE  F(2) = f[1] + f[2] /\ f[2] \in Int
  <2>1. 1 \in 0 .. n - 1
    BY <1>5
  <2>2. F(1 + 1) = F(1) + f[1 + 1] /\ f[1 + 1] \in Int
    BY <1>1, <2>1
  <2> QED
    BY <1>3, <2>2
<1>6. CASE n = 2
  BY <1>3, <1>5, <1>6 DEF F
<1>7. CASE n = 4
  <2>1. 2 \in 0 .. n - 1 /\ 3 \in 0 .. n - 1 /\ n # 1
    BY <1>7
  <2>2. F(2 + 1) = F(2) + f[2 + 1] /\ f[2 + 1] \in Int
    BY <1>1, <2>1
  <2>3. F(3 + 1) = F(3) + f[3 + 1] /\ f[3 + 1] \in Int
    BY <1>1, <2>1
  <2>4. F(4) = f[1] + f[2] + f[3] + f[4] /\ F(4) \in Int
    BY <1>3, <1>5, <2>1, <2>2, <2>3
  <2> QED
    BY <1>7, <2>4 DEF F
<1> QED
  BY <1>4, <1>6, <1>7

\* The rectangles around a candidate; their weights add up to its score,
\* and their errors to what is lost by drawing them.
Around(q, c) == PiecesAround(q, c[1], c[2])

ScoreEqn(a, q, c, h) ==
  h = [s \in SUBSET (1 .. Len(Around(q, c))) |->
         IF s = {} THEN 0 ELSE Weight(a, Around(q, c)[AnyOf(s)]) + h[s \ {AnyOf(s)}]]
LossEqn(a, list, h) ==
  h = [s \in SUBSET (1 .. Len(list)) |->
         IF s = {} THEN 0 ELSE Error(a, list[AnyOf(s)]) + h[s \ {AnyOf(s)}]]

LEMMA ScoreFold ==
  ASSUME NEW a, NEW q, NEW c, NEW h, ScoreEqn(a, q, c, h)
  PROVE  \E g : ScoreEqn(a, q, c, g) /\ Score(a, q, c) = g[1 .. Len(Around(q, c))]
BY Zenon DEF Score, Around, MapThenSumSet, MapThenFoldSet, AnyOf, ScoreEqn

LEMMA LossFold ==
  ASSUME NEW a, NEW list, NEW h, LossEqn(a, list, h)
  PROVE  \E g : LossEqn(a, list, g) /\ Loss(a, list) = g[1 .. Len(list)]
BY Zenon DEF Loss, MapThenSumSet, MapThenFoldSet, AnyOf, LossEqn

LEMMA ScoreIs ==
  ASSUME NEW a, NEW q, NEW c, Len(Around(q, c)) \in Nat, NEW f,
         \A k \in 1 .. Len(Around(q, c)) :
           f[k] = Weight(a, Around(q, c)[k]) /\ f[k] \in Int
  PROVE  Score(a, q, c) = SumFunctionOnSet(f, 1 .. Len(Around(q, c)))
<1> DEFINE list == Around(q, c)
           S == 1 .. Len(list)
<1>1. IsFiniteSet(S)
  BY FS_Interval
<1>2. Numbers(f, S)
  BY <1>1 DEF Numbers
<1>a. \A k \in S : f[k] = Weight(a, list[k])
  OBVIOUS
<1> HIDE DEF list
<1>3. ASSUME NEW h
      PROVE  ScoreEqn(a, q, c, h) <=> SumsTo(f, S, h)
  <2>1. \A s \in SUBSET S : s # {} => AnyOf(s) \in S
    <3> HIDE DEF S
    <3> QED
      BY <1>1, AnyOfPicks
  <2>2. \A s \in SUBSET S :
          (IF s = {} THEN 0 ELSE Weight(a, list[AnyOf(s)]) + h[s \ {AnyOf(s)}])
            = (IF s = {} THEN 0 ELSE f[AnyOf(s)] + h[s \ {AnyOf(s)}])
    BY <1>a, <2>1
  <2>3. [s \in SUBSET S |->
           IF s = {} THEN 0 ELSE Weight(a, list[AnyOf(s)]) + h[s \ {AnyOf(s)}]]
          = [s \in SUBSET S |-> IF s = {} THEN 0 ELSE f[AnyOf(s)] + h[s \ {AnyOf(s)}]]
    BY <2>2, Zenon
  <2> QED
    BY <2>3, Zenon DEF ScoreEqn, SumsTo, list
<1>4. PICK p : Sums(f, S, p)
  BY <1>2, SumIs, Zenon
<1>5. SumsTo(f, S, p) /\ SumFunctionOnSet(f, S) = p[S]
  <2>1. S \in SUBSET S
    OBVIOUS
  <2> QED
    BY <1>4, <2>1, Zenon DEF Sums
<1>6. PICK g : ScoreEqn(a, q, c, g) /\ Score(a, q, c) = g[S]
  <2>1. ScoreEqn(a, q, c, p)
    BY <1>3, <1>5
  <2>2. PICK g : ScoreEqn(a, q, c, g) /\ Score(a, q, c) = g[1 .. Len(Around(q, c))]
    BY <2>1, ScoreFold
  <2> QED
    BY <2>2, Zenon DEF list
<1> HIDE DEF S
<1>7. g[S] = p[S]
  <2>1. SumsTo(f, S, g) /\ S \subseteq S /\ \A x \in S : f[x] = f[x]
    BY <1>3, <1>6
  <2> QED
    BY <1>1, <1>5, <2>1, SumsUnique
<1> QED
  BY <1>5, <1>6, <1>7 DEF S, list

LEMMA LossIs ==
  ASSUME NEW a, NEW list, Len(list) \in Nat, NEW f,
         \A k \in 1 .. Len(list) : f[k] = Error(a, list[k]) /\ f[k] \in Int
  PROVE  Loss(a, list) = SumFunctionOnSet(f, 1 .. Len(list))
<1> DEFINE S == 1 .. Len(list)
<1>1. IsFiniteSet(S)
  BY FS_Interval
<1>2. Numbers(f, S)
  BY <1>1 DEF Numbers
<1>3. ASSUME NEW h
      PROVE  LossEqn(a, list, h) <=> SumsTo(f, S, h)
  <2>1. \A s \in SUBSET S : s # {} => AnyOf(s) \in S
    <3> HIDE DEF S
    <3> QED
      BY <1>1, AnyOfPicks
  <2>2. \A s \in SUBSET S :
          (IF s = {} THEN 0 ELSE Error(a, list[AnyOf(s)]) + h[s \ {AnyOf(s)}])
            = (IF s = {} THEN 0 ELSE f[AnyOf(s)] + h[s \ {AnyOf(s)}])
    BY <2>1
  <2>3. [s \in SUBSET S |->
           IF s = {} THEN 0 ELSE Error(a, list[AnyOf(s)]) + h[s \ {AnyOf(s)}]]
          = [s \in SUBSET S |-> IF s = {} THEN 0 ELSE f[AnyOf(s)] + h[s \ {AnyOf(s)}]]
    BY <2>2, Zenon
  <2> QED
    BY <2>3, Zenon DEF LossEqn, SumsTo
<1>4. PICK p : Sums(f, S, p)
  BY <1>2, SumIs, Zenon
<1>5. SumsTo(f, S, p) /\ SumFunctionOnSet(f, S) = p[S]
  <2>1. S \in SUBSET S
    OBVIOUS
  <2> QED
    BY <1>4, <2>1, Zenon DEF Sums
<1>6. PICK g : LossEqn(a, list, g) /\ Loss(a, list) = g[S]
  BY <1>3, <1>5, LossFold, Zenon
<1> HIDE DEF S
<1>7. g[S] = p[S]
  <2>1. SumsTo(f, S, g) /\ S \subseteq S /\ \A x \in S : f[x] = f[x]
    BY <1>3, <1>6
  <2> QED
    BY <1>1, <1>5, <2>1, SumsUnique
<1> QED
  BY <1>5, <1>6, <1>7 DEF S

\* x and y are the halves of q, side by side or one above the other.
Halves(q, x, y) ==
  /\ Edges(x) /\ Edges(y)
  /\ \/ /\ x.xb = q.xb /\ x.xb <= x.xe /\ y.xb = x.xe + 1 /\ y.xb <= y.xe /\ y.xe = q.xe
        /\ x.yb = q.yb /\ x.ye = q.ye /\ y.yb = q.yb /\ y.ye = q.ye
     \/ /\ y.yb = q.yb /\ y.yb <= y.ye /\ x.yb = y.ye + 1 /\ x.yb <= x.ye /\ x.ye = q.ye
        /\ x.xb = q.xb /\ x.xe = q.xe /\ y.xb = q.xb /\ y.xe = q.xe

\* What is counted of a quadrant is counted of its halves.
LEMMA HalvesAdd ==
  ASSUME NEW a \in [Plane -> Int], NEW q, InGrid(q), NEW x, NEW y, Halves(q, x, y)
  PROVE  /\ InGrid(x) /\ InGrid(y)
         /\ Size(q) = Size(x) + Size(y)
         /\ Total(a, q) = Total(a, x) + Total(a, y)
         /\ SquaresIn(a, q) = SquaresIn(a, x) + SquaresIn(a, y)
<1>1. /\ q.xb \in Int /\ q.xe \in Int /\ q.yb \in Int /\ q.ye \in Int
      /\ x.xb \in Int /\ x.xe \in Int /\ x.yb \in Int /\ x.ye \in Int
      /\ y.xb \in Int /\ y.xe \in Int /\ y.yb \in Int /\ y.ye \in Int
      /\ 0 <= q.xb /\ q.xb <= q.xe /\ q.xe < Columns
      /\ 0 <= q.yb /\ q.yb <= q.ye /\ q.ye < Rows
      /\ Columns \in Int /\ Rows \in Int
  BY BestQuadrantAssumption DEF Halves, InGrid, Edges
<1>2. InGrid(x) /\ InGrid(y)
  BY <1>1 DEF Halves, InGrid
<1>3. Size(q) = Size(x) + Size(y)
  <2>1. \A u, v, w, z \in Int :
          (u - v + 1) * z = (w - v + 1) * z + (u - (w + 1) + 1) * z
    OBVIOUS
  <2>2. \A u, v, w, z \in Int :
          z * (u - v + 1) = z * (u - (w + 1) + 1) + z * (w - v + 1)
    OBVIOUS
  <2>3. CASE /\ x.xb = q.xb /\ y.xb = x.xe + 1 /\ y.xe = q.xe
             /\ x.yb = q.yb /\ x.ye = q.ye /\ y.yb = q.yb /\ y.ye = q.ye
    <3>1. Size(q) = (q.xe - q.xb + 1) * (q.ye - q.yb + 1)
      BY DEF Size
    <3>2. /\ Size(x) = (x.xe - q.xb + 1) * (q.ye - q.yb + 1)
          /\ Size(y) = (q.xe - (x.xe + 1) + 1) * (q.ye - q.yb + 1)
      BY <2>3, Zenon DEF Size
    <3> DEFINE z == q.ye - q.yb + 1
    <3>3. z \in Int
      BY <1>1
    <3>4. /\ Size(q) = (q.xe - q.xb + 1) * z
          /\ Size(x) = (x.xe - q.xb + 1) * z
          /\ Size(y) = (q.xe - (x.xe + 1) + 1) * z
      BY <3>1, <3>2
    <3> HIDE DEF z
    <3>5. (q.xe - q.xb + 1) * z
            = (x.xe - q.xb + 1) * z + (q.xe - (x.xe + 1) + 1) * z
      BY <1>1, <2>1, <3>3
    <3> QED
      BY <3>4, <3>5
  <2>4. CASE /\ y.yb = q.yb /\ x.yb = y.ye + 1 /\ x.ye = q.ye
             /\ x.xb = q.xb /\ x.xe = q.xe /\ y.xb = q.xb /\ y.xe = q.xe
    <3>1. Size(q) = (q.xe - q.xb + 1) * (q.ye - q.yb + 1)
      BY DEF Size
    <3>2. /\ Size(x) = (q.xe - q.xb + 1) * (q.ye - (y.ye + 1) + 1)
          /\ Size(y) = (q.xe - q.xb + 1) * (y.ye - q.yb + 1)
      BY <2>4, Zenon DEF Size
    <3> DEFINE z == q.xe - q.xb + 1
    <3>3. z \in Int
      BY <1>1
    <3>4. /\ Size(q) = z * (q.ye - q.yb + 1)
          /\ Size(x) = z * (q.ye - (y.ye + 1) + 1)
          /\ Size(y) = z * (y.ye - q.yb + 1)
      BY <3>1, <3>2
    <3> HIDE DEF z
    <3>5. z * (q.ye - q.yb + 1)
            = z * (q.ye - (y.ye + 1) + 1) + z * (y.ye - q.yb + 1)
      BY <1>1, <2>2, <3>3
    <3> QED
      BY <3>4, <3>5
  <2> QED
    BY <2>3, <2>4 DEF Halves
<1>4. Cells(x) \cap Cells(y) = {}
  BY <1>1 DEF Halves, Cells
<1>5. Cells(x) \cup Cells(y) = Cells(q)
  BY <1>1 DEF Halves, Cells
<1>6. /\ Numbers(a, Cells(x)) /\ Numbers(a, Cells(y)) /\ Numbers(a, Cells(q))
      /\ Numbers(Squares(a), Cells(x)) /\ Numbers(Squares(a), Cells(y))
  BY <1>2, SumsInGrid, WeightIs
<1>7. Total(a, q) = Total(a, x) + Total(a, y)
  <2>1. SumFunctionOnSet(a, Cells(x) \cup Cells(y))
          = SumFunctionOnSet(a, Cells(x)) + SumFunctionOnSet(a, Cells(y))
    BY <1>4, <1>6, SumUnion
  <2>2. /\ Total(a, q) = SumFunctionOnSet(a, Cells(q))
        /\ Total(a, x) = SumFunctionOnSet(a, Cells(x))
        /\ Total(a, y) = SumFunctionOnSet(a, Cells(y))
    BY <1>6, TotalIs
  <2> QED
    BY <1>5, <2>1, <2>2
<1>8. SquaresIn(a, q) = SquaresIn(a, x) + SquaresIn(a, y)
  <2>1. SumFunctionOnSet(Squares(a), Cells(x) \cup Cells(y))
          = SumFunctionOnSet(Squares(a), Cells(x)) + SumFunctionOnSet(Squares(a), Cells(y))
    BY <1>4, <1>6, SumUnion
  <2> QED
    BY <1>5, <2>1 DEF SquaresIn
<1> QED
  BY <1>2, <1>3, <1>7, <1>8

\* Two colours weigh no less than one.
LEMMA HalvesWeigh ==
  ASSUME NEW a \in [Plane -> Int], NEW q, InGrid(q), NEW x, NEW y, Halves(q, x, y)
  PROVE  Weight(a, q) <= Weight(a, x) + Weight(a, y)
<1> DEFINE p  == Scale
           u  == Share(q)
           v  == Share(x)
           w  == Share(y)
           nl == Size(x)
           nr == Size(y)
           sl == Total(a, x)
           sr == Total(a, y)
           d  == sl * nr - sr * nl
           saved == v * sl * sl + w * sr * sr - u * (sl + sr) * (sl + sr)
<1>1. /\ InGrid(x) /\ InGrid(y)
      /\ Size(q) = nl + nr /\ Total(a, q) = sl + sr
  BY HalvesAdd
<1>2. /\ u \in Int /\ p = u * (nl + nr) /\ Weight(a, q) = u * (sl + sr) * (sl + sr)
  BY <1>1, WeightIs
<1>3. /\ v \in Int /\ p = v * nl /\ Weight(a, x) = v * sl * sl
      /\ w \in Int /\ p = w * nr /\ Weight(a, y) = w * sr * sr
  BY <1>1, WeightIs
<1>4. /\ p \in Nat \ {0} /\ nl \in Nat \ {0} /\ nr \in Nat \ {0} /\ sl \in Int /\ sr \in Int
  BY <1>1, SumsInGrid, ScaleDivides
<1> HIDE DEF p, u, v, w, nl, nr, sl, sr
<1>5. saved * ((nl * nr) * (nl + nr)) = p * (d * d)
  <2>1. Shares(p, u, v, w, nl, nr, sl, sr)
    BY <1>2, <1>3, <1>4 DEF Shares
  <2> QED
    BY <2>1, SavingAlgebra
<1>6. saved \in Int /\ d \in Int
  BY <1>2, <1>3, <1>4
<1>7. (nl * nr) * (nl + nr) \in Nat \ {0}
  <2>1. \A m, n \in Nat \ {0} : m * n \in Nat \ {0}
    OBVIOUS
  <2>2. nl + nr \in Nat \ {0}
    BY <1>4
  <2> QED
    BY <1>4, <2>1, <2>2
<1>8. v * sl * sl \in Int /\ w * sr * sr \in Int /\ u * (sl + sr) * (sl + sr) \in Int
  BY <1>2, <1>3, <1>4
<1>9. saved >= 0
  <2> DEFINE k == (nl * nr) * (nl + nr)
  <2>1. saved \in Int /\ d \in Int /\ k \in Nat \ {0} /\ saved * k = p * (d * d)
    BY <1>5, <1>6, <1>7
  <2> HIDE DEF saved, d, k
  <2>2. d * d >= 0 /\ d * d \in Int
    BY <2>1
  <2>3. p * (d * d) >= 0
    BY <1>4, <2>2
  <2>4. saved < 0 => saved * k < 0
    BY <2>1
  <2> QED
    BY <2>1, <2>3, <2>4
<1>10. u * (sl + sr) * (sl + sr) <= v * sl * sl + w * sr * sr
  <2> DEFINE A == v * sl * sl
             B == w * sr * sr
             C == u * (sl + sr) * (sl + sr)
  <2>1. A \in Int /\ B \in Int /\ C \in Int /\ A + B - C >= 0
    BY <1>8, <1>9
  <2> HIDE DEF A, B, C
  <2>2. C <= A + B
    BY <2>1
  <2> QED
    BY <2>2 DEF A, B, C
<1> QED
  BY <1>2, <1>3, <1>10

\* Of a short list of quadrants within the grid, both are short sums.
LEMMA FewAround ==
  ASSUME NEW a \in [Plane -> Int], NEW q, NEW c,
         NEW n \in {1, 2, 4}, Len(Around(q, c)) = n,
         \A k \in 1 .. n : InGrid(Around(q, c)[k])
  PROVE  LET W(k) == Weight(a, Around(q, c)[k])
             E(k) == Error(a, Around(q, c)[k])
         IN /\ n = 1 => /\ Score(a, q, c) = W(1)
                        /\ Loss(a, Around(q, c)) = E(1)
            /\ n = 2 => /\ Score(a, q, c) = W(1) + W(2)
                        /\ Loss(a, Around(q, c)) = E(1) + E(2)
            /\ n = 4 => /\ Score(a, q, c) = W(1) + W(2) + W(3) + W(4)
                        /\ Loss(a, Around(q, c)) = E(1) + E(2) + E(3) + E(4)
<1> DEFINE list == Around(q, c)
           f == [k \in 1 .. n |-> Weight(a, list[k])]
           g == [k \in 1 .. n |-> Error(a, list[k])]
<1>1. \A k \in 1 .. n : /\ f[k] = Weight(a, list[k]) /\ f[k] \in Int
                        /\ g[k] = Error(a, list[k]) /\ g[k] \in Int
  BY WeightIs
<1>2. Len(list) = n /\ Len(list) \in Nat
  OBVIOUS
<1> HIDE DEF f, g
<1>3. Score(a, q, c) = SumFunctionOnSet(f, 1 .. n)
  BY <1>1, <1>2, ScoreIs
<1>4. Loss(a, list) = SumFunctionOnSet(g, 1 .. n)
  <2> HIDE DEF list
  <2> QED
    BY <1>1, <1>2, LossIs
<1> HIDE DEF list
<1>5. /\ n = 1 => Score(a, q, c) = f[1]
      /\ n = 2 => Score(a, q, c) = f[1] + f[2]
      /\ n = 4 => Score(a, q, c) = f[1] + f[2] + f[3] + f[4]
  BY <1>1, <1>3, SumOfFew
<1>6. /\ n = 1 => Loss(a, list) = g[1]
      /\ n = 2 => Loss(a, list) = g[1] + g[2]
      /\ n = 4 => Loss(a, list) = g[1] + g[2] + g[3] + g[4]
  BY <1>1, <1>4, SumOfFew
<1>7. CASE n = 1
  BY <1>1, <1>5, <1>6, <1>7 DEF list
<1>8. CASE n = 2
  <2>1. 1 \in 1 .. n /\ 2 \in 1 .. n
    BY <1>8
  <2> QED
    BY <1>1, <1>5, <1>6, <1>8, <2>1 DEF list
<1>9. CASE n = 4
  <2>1. 1 \in 1 .. n /\ 2 \in 1 .. n /\ 3 \in 1 .. n /\ 4 \in 1 .. n
    BY <1>9
  <2> QED
    BY <1>1, <1>5, <1>6, <1>9, <2>1 DEF list
<1> QED
  BY <1>7, <1>8, <1>9

\* What is gained by a cut at a cell, and what is lost: drawn in pieces, a
\* quadrant weighs no less than as a whole, and loses what it weighs less.
LEMMA AroundCounts ==
  ASSUME NEW a \in [Plane -> Int], NEW q, InGrid(q), NEW c \in Cells(q)
  PROVE  /\ Score(a, q, c) \in Int
         /\ Weight(a, q) <= Score(a, q, c)
         /\ Loss(a, Around(q, c)) = Scale * SquaresIn(a, q) - Score(a, q, c)
<1> DEFINE x == c[1]
           y == c[2]
           list == Around(q, c)
           Good == /\ Score(a, q, c) \in Int
                   /\ Weight(a, q) <= Score(a, q, c)
                   /\ Loss(a, list) = Scale * SquaresIn(a, q) - Score(a, q, c)
<1>1. /\ q.xb \in Int /\ q.xe \in Int /\ q.yb \in Int /\ q.ye \in Int
      /\ x \in Int /\ y \in Int /\ q.xb <= x /\ x <= q.xe /\ q.yb <= y /\ y <= q.ye
      /\ Scale \in Int
  BY ScaleDivides DEF Cells, InGrid
<1> SUFFICES Good
  OBVIOUS
<1>2. /\ Weight(a, q) \in Int /\ SquaresIn(a, q) \in Int
      /\ Error(a, q) = Scale * SquaresIn(a, q) - Weight(a, q)
  BY WeightIs
\* A quadrant of two halves.
<1>3. ASSUME NEW p, InGrid(p), NEW l, NEW r, Halves(p, l, r)
      PROVE  /\ InGrid(l) /\ InGrid(r)
             /\ Weight(a, p) \in Int /\ Weight(a, l) \in Int /\ Weight(a, r) \in Int
             /\ Weight(a, p) <= Weight(a, l) + Weight(a, r)
             /\ Error(a, l) + Error(a, r)
                  = Scale * SquaresIn(a, p) - (Weight(a, l) + Weight(a, r))
             /\ SquaresIn(a, p) = SquaresIn(a, l) + SquaresIn(a, r)
             /\ SquaresIn(a, p) \in Int /\ Error(a, l) \in Int /\ Error(a, r) \in Int
  <2>1. /\ InGrid(l) /\ InGrid(r)
        /\ SquaresIn(a, p) = SquaresIn(a, l) + SquaresIn(a, r)
        /\ Weight(a, p) <= Weight(a, l) + Weight(a, r)
    BY <1>3, HalvesAdd, HalvesWeigh
  <2>2. /\ Weight(a, p) \in Int /\ SquaresIn(a, p) \in Int
        /\ Weight(a, l) \in Int /\ SquaresIn(a, l) \in Int
        /\ Error(a, l) = Scale * SquaresIn(a, l) - Weight(a, l) /\ Error(a, l) \in Int
        /\ Weight(a, r) \in Int /\ SquaresIn(a, r) \in Int
        /\ Error(a, r) = Scale * SquaresIn(a, r) - Weight(a, r) /\ Error(a, r) \in Int
    BY <1>3, <2>1, WeightIs
  <2>3. Scale * (SquaresIn(a, l) + SquaresIn(a, r))
          = Scale * SquaresIn(a, l) + Scale * SquaresIn(a, r)
    BY <1>1, <2>2
  <2>4. Scale * SquaresIn(a, l) \in Int /\ Scale * SquaresIn(a, r) \in Int
    BY <1>1, <2>2
  <2> QED
    BY <2>1, <2>2, <2>3, <2>4
<1>4. ASSUME Len(list) = 2, Halves(q, list[1], list[2])
      PROVE  Good
  <2>1. /\ InGrid(list[1]) /\ InGrid(list[2])
        /\ Weight(a, list[1]) \in Int /\ Weight(a, list[2]) \in Int
        /\ Weight(a, q) <= Weight(a, list[1]) + Weight(a, list[2])
        /\ Error(a, list[1]) + Error(a, list[2])
             = Scale * SquaresIn(a, q) - (Weight(a, list[1]) + Weight(a, list[2]))
    BY <1>3, <1>4
  <2>2. \A k \in 1 .. 2 : InGrid(list[k])
    <3>1. \A k \in 1 .. 2 : k = 1 \/ k = 2
      OBVIOUS
    <3> HIDE DEF list
    <3> QED
      BY <2>1, <3>1
  <2>3. /\ Score(a, q, c) = Weight(a, list[1]) + Weight(a, list[2])
        /\ Loss(a, list) = Error(a, list[1]) + Error(a, list[2])
    BY <1>4, <2>2, FewAround
  <2> HIDE DEF list
  <2> QED
    BY <1>2, <2>1, <2>3
<1>5. CASE x < q.xe /\ y > q.yb
  <2> DEFINE top    == Quad(q.xb, q.xe, y, q.ye)
             bottom == Quad(q.xb, q.xe, q.yb, y - 1)
  <2>1. /\ Len(list) = 4
        /\ list[1] = Quad(q.xb, x, y, q.ye) /\ list[2] = Quad(x + 1, q.xe, y, q.ye)
        /\ list[3] = Quad(x + 1, q.xe, q.yb, y - 1)
        /\ list[4] = Quad(q.xb, x, q.yb, y - 1)
    BY <1>5 DEF Around, PiecesAround
  <2> HIDE DEF list
  <2>2. /\ Halves(q, top, bottom) /\ Halves(top, list[1], list[2])
        /\ Halves(bottom, list[4], list[3])
    BY <1>1, <1>5, <2>1 DEF Halves, Edges, Quad
  <2> HIDE DEF top, bottom
  <2>3. /\ InGrid(top) /\ InGrid(bottom)
        /\ Weight(a, top) \in Int /\ Weight(a, bottom) \in Int
        /\ Weight(a, q) <= Weight(a, top) + Weight(a, bottom)
        /\ SquaresIn(a, q) = SquaresIn(a, top) + SquaresIn(a, bottom)
    BY <1>3, <2>2
  <2>4. /\ InGrid(list[1]) /\ InGrid(list[2])
        /\ Weight(a, list[1]) \in Int /\ Weight(a, list[2]) \in Int
        /\ Weight(a, top) <= Weight(a, list[1]) + Weight(a, list[2])
        /\ Error(a, list[1]) + Error(a, list[2])
             = Scale * SquaresIn(a, top) - (Weight(a, list[1]) + Weight(a, list[2]))
        /\ SquaresIn(a, top) \in Int
        /\ Error(a, list[1]) \in Int /\ Error(a, list[2]) \in Int
    BY <1>3, <2>2, <2>3
  <2>5. /\ InGrid(list[4]) /\ InGrid(list[3])
        /\ Weight(a, list[4]) \in Int /\ Weight(a, list[3]) \in Int
        /\ Weight(a, bottom) <= Weight(a, list[4]) + Weight(a, list[3])
        /\ Error(a, list[4]) + Error(a, list[3])
             = Scale * SquaresIn(a, bottom) - (Weight(a, list[4]) + Weight(a, list[3]))
        /\ SquaresIn(a, bottom) \in Int
        /\ Error(a, list[4]) \in Int /\ Error(a, list[3]) \in Int
    BY <1>3, <2>2, <2>3
  <2>6. \A k \in 1 .. 4 : InGrid(list[k])
    <3>1. \A k \in 1 .. 4 : k = 1 \/ k = 2 \/ k = 3 \/ k = 4
      OBVIOUS
    <3> QED
      BY <2>4, <2>5, <3>1
  <2>7. /\ Score(a, q, c) = Weight(a, list[1]) + Weight(a, list[2])
                              + Weight(a, list[3]) + Weight(a, list[4])
        /\ Loss(a, list) = Error(a, list[1]) + Error(a, list[2])
                             + Error(a, list[3]) + Error(a, list[4])
    <3>1. Len(Around(q, c)) = 4 /\ \A k \in 1 .. 4 : InGrid(Around(q, c)[k])
      BY <2>1, <2>6 DEF list
    <3> QED
      BY <3>1, FewAround DEF list
  <2>8. Scale * (SquaresIn(a, top) + SquaresIn(a, bottom))
          = Scale * SquaresIn(a, top) + Scale * SquaresIn(a, bottom)
    BY <1>1, <2>4, <2>5
  <2>9. Scale * SquaresIn(a, top) \in Int /\ Scale * SquaresIn(a, bottom) \in Int
    BY <1>1, <2>4, <2>5
  <2> DEFINE w1 == Weight(a, list[1])
             w2 == Weight(a, list[2])
             w3 == Weight(a, list[3])
             w4 == Weight(a, list[4])
             e1 == Error(a, list[1])
             e2 == Error(a, list[2])
             e3 == Error(a, list[3])
             e4 == Error(a, list[4])
             t  == Scale * SquaresIn(a, top)
             b  == Scale * SquaresIn(a, bottom)
  <2>10. /\ w1 \in Int /\ w2 \in Int /\ w3 \in Int /\ w4 \in Int
         /\ Score(a, q, c) = w1 + w2 + w3 + w4
         /\ Weight(a, top) <= w1 + w2 /\ Weight(a, bottom) <= w4 + w3
    BY <2>4, <2>5, <2>7
  <2>11. /\ e1 \in Int /\ e2 \in Int /\ e3 \in Int /\ e4 \in Int /\ t \in Int /\ b \in Int
         /\ Loss(a, list) = e1 + e2 + e3 + e4
         /\ e1 + e2 = t - (w1 + w2) /\ e4 + e3 = b - (w4 + w3)
    BY <2>4, <2>5, <2>7, <2>9
  <2>12. Scale * SquaresIn(a, q) = t + b
    BY <2>3, <2>8
  <2> HIDE DEF w1, w2, w3, w4, e1, e2, e3, e4, t, b
  <2>13. Loss(a, list) = Scale * SquaresIn(a, q) - Score(a, q, c)
    BY <2>10, <2>11, <2>12
  <2>14. Score(a, q, c) \in Int /\ Weight(a, q) <= Score(a, q, c)
    BY <1>2, <2>3, <2>10
  <2> QED
    BY <2>13, <2>14
<1>6. CASE x < q.xe /\ ~(y > q.yb)
  <2>1. /\ Len(list) = 2
        /\ list[1] = Quad(q.xb, x, q.yb, q.ye) /\ list[2] = Quad(x + 1, q.xe, q.yb, q.ye)
    BY <1>6 DEF Around, PiecesAround
  <2> HIDE DEF list
  <2>2. Halves(q, list[1], list[2])
    BY <1>1, <1>6, <2>1 DEF Halves, Edges, Quad
  <2> QED
    BY <1>4, <2>1, <2>2
<1>7. CASE ~(x < q.xe) /\ y > q.yb
  <2>1. /\ Len(list) = 2
        /\ list[1] = Quad(q.xb, q.xe, y, q.ye) /\ list[2] = Quad(q.xb, q.xe, q.yb, y - 1)
    BY <1>7 DEF Around, PiecesAround
  <2> HIDE DEF list
  <2>2. Halves(q, list[1], list[2])
    BY <1>1, <1>7, <2>1 DEF Halves, Edges, Quad
  <2> QED
    BY <1>4, <2>1, <2>2
<1>8. CASE ~(x < q.xe) /\ ~(y > q.yb)
  <2>1. list = << q >>
    BY <1>8 DEF Around, PiecesAround
  <2>2. Len(list) = 1 /\ list[1] = q
    BY <2>1
  <2>3. \A k \in 1 .. 1 : InGrid(list[k])
    <3> HIDE DEF list
    <3> QED
      BY <2>2
  <2>4. Score(a, q, c) = Weight(a, list[1]) /\ Loss(a, list) = Error(a, list[1])
    BY <2>2, <2>3, FewAround
  <2> HIDE DEF list
  <2> QED
    BY <1>2, <2>2, <2>4
<1> QED
  BY <1>5, <1>6, <1>7, <1>8

LEMMA ScoreIsInt ==
  ASSUME NEW a \in [Plane -> Int], NEW q, InGrid(q), NEW c \in Cells(q)
  PROVE  Score(a, q, c) \in Int
BY AroundCounts

-----------------------------------------------------------------------------
(* The split of the heatmap: what is chosen.                               *)

\* Which comes before which, and the first of the best.
InOrder(S, B) ==
  /\ \A x, y \in S : << x, y >> \in B \/ << y, x >> \in B \/ x = y
  /\ \A x, y \in S : << x, y >> \in B => << y, x >> \notin B
  /\ \A x, y, z \in S : << x, y >> \in B /\ << y, z >> \in B => << x, z >> \in B
IsFirstBest(S, f, B, m) ==
  \A o \in S : f[o] <= f[m] /\ (<< o, m >> \in B => f[o] < f[m])

\* Of finitely many candidates that come in some order, each with a number,
\* there is a first best.
LEMMA FirstBest ==
  ASSUME NEW S, IsFiniteSet(S), S # {}, NEW f \in [S -> Int], NEW B, InOrder(S, B)
  PROVE  \E m \in S : IsFirstBest(S, f, B, m)
<1>0. /\ \A x, y \in S : << x, y >> \in B \/ << y, x >> \in B \/ x = y
      /\ \A x, y \in S : << x, y >> \in B => << y, x >> \notin B
      /\ \A x, y, z \in S : << x, y >> \in B /\ << y, z >> \in B => << x, z >> \in B
  BY DEF InOrder
<1> DEFINE R == { p \in S \X S :
                    IF << p[1], p[2] >> \in B THEN f[p[1]] < f[p[2]]
                                              ELSE f[p[1]] <= f[p[2]] }
<1>1. \A x, y \in S :
        << x, y >> \in R <=> IF << x, y >> \in B THEN f[x] < f[y] ELSE f[x] <= f[y]
  OBVIOUS
<1> HIDE DEF R
<1>2. \A x, y \in S : << x, y >> \in R \/ << y, x >> \in R
  <2>1. ASSUME NEW x \in S, NEW y \in S
        PROVE  << x, y >> \in R \/ << y, x >> \in R
    <3>1. f[x] \in Int /\ f[y] \in Int
      OBVIOUS
    <3>2. f[x] < f[y] \/ f[y] <= f[x] 
      BY <3>1
    <3>3. CASE << x, y >> \in B
      BY <1>0, <1>1, <3>1, <3>3
    <3>4. CASE << x, y >> \notin B
      BY <1>0, <1>1, <3>1, <3>4
    <3> QED
      BY <3>3, <3>4
  <2> QED
    BY <2>1
<1>3. ASSUME NEW x \in S, NEW y \in S, NEW z \in S,
             << x, y >> \in R, << y, z >> \in R
      PROVE  << x, z >> \in R
  <2>1. f[x] <= f[y] /\ f[y] <= f[z] /\ f[x] \in Int /\ f[y] \in Int /\ f[z] \in Int
    BY <1>1, <1>3
  <2>2. ASSUME << x, z >> \in B
        PROVE  f[x] < f[z]
    <3>1. CASE << x, y >> \in B
      BY <1>0, <1>1, <1>3, <2>1, <3>1
    <3>2. CASE << x, y >> \notin B
      <4>1. << y, z >> \in B
        BY <1>0, <2>2, <3>2
      <4> QED
        BY <1>1, <1>3, <2>1, <4>1
    <3> QED
      BY <3>1, <3>2
  <2> QED
    BY <1>1, <2>1, <2>2
<1>4. PICK m \in S : \A o \in S : << o, m >> \in R
  BY <1>2, <1>3, FiniteBest
<1>5. \A o \in S : f[o] \in Int
  OBVIOUS
<1>7. ASSUME NEW o \in S
      PROVE  f[o] <= f[m] /\ (<< o, m >> \in B => f[o] < f[m])
  <2>1. IF << o, m >> \in B THEN f[o] < f[m] ELSE f[o] <= f[m]
    BY <1>1, <1>4
  <2> QED
    BY <1>5, <2>1
<1> QED
  BY <1>7 DEF IsFirstBest

\* The cell that a quadrant is cut at is one of its candidates, the first of
\* those with the best score.
LEMMA BestCellTaken ==
  ASSUME NEW a \in [Plane -> Int], NEW q, InGrid(q), Candidates(q) # {}
  PROVE  /\ BestCell(a, q) \in Candidates(q) /\ BestScore(a, q) \in Int
         /\ \A d \in Candidates(q) :
              IF Before(d, BestCell(a, q)) THEN Score(a, q, d) < BestScore(a, q)
                                           ELSE Score(a, q, d) <= BestScore(a, q)
<1> DEFINE S == Candidates(q)
           f == [c \in S |-> Score(a, q, c)]
           B == { p \in S \X S : Before(p[1], p[2]) }
<1>1. IsFiniteSet(S) /\ S \subseteq Cells(q)
  BY SumsInGrid, FS_Subset DEF Candidates
<1>2. f \in [S -> Int]
  BY <1>1, ScoreIsInt
<1>3. \A c \in S : c = << c[1], c[2] >> /\ c[1] \in Int /\ c[2] \in Int
  BY <1>1 DEF InGrid, Cells
<1>4. \A c, d \in S : << c, d >> \in B <=> Before(c, d)
  OBVIOUS
<1>5. /\ \A c, d \in S : Before(c, d) \/ Before(d, c) \/ c = d
      /\ \A c, d \in S : Before(c, d) => ~Before(d, c)
      /\ \A c, d, e \in S : Before(c, d) /\ Before(d, e) => Before(c, e)
  <2> HIDE DEF S
  <2> QED
    BY <1>3 DEF Before
<1>6. \E m \in S : IsFirstBest(S, f, B, m)
  <2>1. S # {}
    OBVIOUS
  <2> HIDE DEF S, f, B
  <2>2. InOrder(S, B)
    BY <1>4, <1>5 DEF InOrder
  <2>3. IsFiniteSet(S)
    BY <1>1
  <2> QED
    BY <1>2, <2>1, <2>2, <2>3, FirstBest, Zenon
<1>9. \A o \in S : f[o] \in Int
  BY <1>2
<1>7. \E m \in S : \A o \in S :
        IF Before(o, m) THEN Score(a, q, o) < Score(a, q, m)
                        ELSE Score(a, q, o) <= Score(a, q, m)
  BY <1>4, <1>6, <1>9 DEF IsFirstBest
<1>8. /\ BestCell(a, q) \in S
      /\ \A d \in S :
           IF Before(d, BestCell(a, q)) THEN Score(a, q, d) < Score(a, q, BestCell(a, q))
                                        ELSE Score(a, q, d) <= Score(a, q, BestCell(a, q))
  BY <1>7 DEF BestCell
<1> QED
  BY <1>1, <1>8, ScoreIsInt DEF BestScore

\* The quadrant that is cut is one that competes.
LEMMA BestQuadTaken ==
  ASSUME NEW a \in [Plane -> Int], quads \in Seq(Coloureds), Competing # {},
         \A k \in 1 .. Len(quads) : InGrid(quads[k])
  PROVE  BestQuad(a) \in Competing
<1> DEFINE S == Competing
           f == [k \in S |-> BestScore(a, quads[k])]
           B == { p \in S \X S : p[1] < p[2] }
<1>1. IsFiniteSet(S) /\ S \subseteq 1 .. Len(quads)
  <2>1. S \subseteq 1 .. Len(quads)
    BY DEF Competing, Divisible
  <2>2. IsFiniteSet(1 .. Len(quads))
    BY FS_Interval
  <2> QED
    BY <2>1, <2>2, FS_Subset
<1>2. f \in [S -> Int]
  <2>1. \A k \in S : Candidates(quads[k]) # {}
    BY DEF Competing
  <2> QED
    BY <1>1, <2>1, BestCellTaken
<1>3. \A k \in S : k \in Int
  BY <1>1
<1>4. \A j, k \in S : << j, k >> \in B <=> j < k
  OBVIOUS
<1>6. \E m \in S : IsFirstBest(S, f, B, m)
  <2>1. S # {}
    OBVIOUS
  <2> HIDE DEF S, f, B
  <2>2. InOrder(S, B)
    BY <1>3, <1>4 DEF InOrder
  <2>3. IsFiniteSet(S)
    BY <1>1
  <2> QED
    BY <1>2, <2>1, <2>2, <2>3, FirstBest, Zenon
<1>9. \A o \in S : f[o] \in Int
  BY <1>2
<1>7. \E m \in S : \A o \in S :
        IF o < m THEN BestScore(a, quads[o]) < BestScore(a, quads[m])
                 ELSE BestScore(a, quads[o]) <= BestScore(a, quads[m])
  BY <1>4, <1>6, <1>9 DEF IsFirstBest
<1> QED
  BY <1>7 DEF BestQuad

\* Of finitely many means one is the lowest and one the highest.
LEMMA ExtremeMeans ==
  ASSUME NEW S \in SUBSET Quotient, IsFiniteSet(S), S # {}
  PROVE  /\ \E m \in S : \A o \in S : ~Below(o, m)
         /\ \E m \in S : \A o \in S : ~Below(m, o)
<1> DEFINE Up   == { p \in S \X S : AtMost(p[1], p[2]) }
           Down == { p \in S \X S : AtMost(p[2], p[1]) }
<1>1. \A p, q \in S : (<< p, q >> \in Up <=> AtMost(p, q)) /\ (<< p, q >> \in Down <=> AtMost(q, p))
  OBVIOUS
<1>2. /\ \A p, q \in S : (AtMost(p, q) <=> ~Below(q, p)) /\ (AtMost(p, q) \/ AtMost(q, p))
      /\ \A p, q, r \in S : AtMost(p, q) /\ AtMost(q, r) => AtMost(p, r)
  BY BelowOrders
<1> HIDE DEF Up, Down
<1>3. \E m \in S : \A o \in S : << o, m >> \in Up
  <2>1. /\ \A x, y \in S : << x, y >> \in Up \/ << y, x >> \in Up
        /\ \A x, y, z \in S : << x, y >> \in Up /\ << y, z >> \in Up => << x, z >> \in Up
    BY <1>1, <1>2
  <2> QED
    BY <2>1, FiniteBest
<1>4. \E m \in S : \A o \in S : << o, m >> \in Down
  <2>1. /\ \A x, y \in S : << x, y >> \in Down \/ << y, x >> \in Down
        /\ \A x, y, z \in S : << x, y >> \in Down /\ << y, z >> \in Down => << x, z >> \in Down
    BY <1>1, <1>2
  <2> QED
    BY <2>1, FiniteBest
<1> QED
  BY <1>1, <1>2, <1>3, <1>4

-----------------------------------------------------------------------------
(* The split of the heatmap: what it makes of the list.                    *)

\* The quadrants of a list, as those of a list without means.
LEMMA BareList ==
  ASSUME NEW list \in Seq(Coloureds)
  PROVE  /\ Bare(list) \in Seq(Quadrant) /\ Len(Bare(list)) = Len(list)
         /\ \A k \in 1 .. Len(list) :
              /\ list[k] \in Coloureds
              /\ Bare(list)[k] = Quad(list[k].xb, list[k].xe, list[k].yb, list[k].ye)
              /\ Bare(list)[k].xb = list[k].xb /\ Bare(list)[k].xe = list[k].xe
              /\ Bare(list)[k].yb = list[k].yb /\ Bare(list)[k].ye = list[k].ye
<1>1. ASSUME NEW k \in 1 .. Len(list)
      PROVE  /\ list[k] \in Coloureds
             /\ Quad(list[k].xb, list[k].xe, list[k].yb, list[k].ye) \in Quadrant
  <2>1. list[k] \in Coloureds
    OBVIOUS
  <2>2. /\ list[k].xb \in Int /\ list[k].xe \in Int
        /\ list[k].yb \in Int /\ list[k].ye \in Int
    BY <2>1 DEF Coloureds
  <2> QED
    BY <2>1, <2>2 DEF Quad, Quadrant
<1>2. Bare(list) \in [1 .. Len(list) -> Quadrant] /\ Len(list) \in Nat
  BY <1>1 DEF Bare
<1>3. Bare(list) \in Seq(Quadrant) /\ Len(Bare(list)) = Len(list)
  BY <1>2
<1> QED
  BY <1>1, <1>3 DEF Bare, Quad

\* What covers the grid lies within it.
LEMMA BareTiles ==
  ASSUME NEW list \in Seq(Coloureds), Tiles(Bare(list), Columns, Rows),
         NEW k \in 1 .. Len(list)
  PROVE  InGrid(list[k])
<1>1. k \in 1 .. Len(Bare(list)) /\ list[k] \in Coloureds
  BY BareList
<1>2. /\ 0 <= Bare(list)[k].xb /\ Bare(list)[k].xb <= Bare(list)[k].xe
      /\ Bare(list)[k].xe < Columns
      /\ 0 <= Bare(list)[k].yb /\ Bare(list)[k].yb <= Bare(list)[k].ye
      /\ Bare(list)[k].ye < Rows
  BY <1>1 DEF Tiles
<1>3. /\ 0 <= list[k].xb /\ list[k].xb <= list[k].xe /\ list[k].xe < Columns
      /\ 0 <= list[k].yb /\ list[k].yb <= list[k].ye /\ list[k].ye < Rows
  BY <1>2, BareList
<1> QED
  BY <1>1, <1>3 DEF InGrid, Coloureds

\* The list after a split, without its means.
LEMMA BarePut ==
  ASSUME NEW list \in Seq(Coloureds), NEW s \in 1 .. Len(list),
         NEW pieces \in Seq(Coloureds), Len(pieces) >= 1
  PROVE  Bare(Put(list, s, pieces)) = Put(Bare(list), s, Bare(pieces))
<1> DEFINE new == Put(list, s, pieces)
           old == Put(Bare(list), s, Bare(pieces))
           n   == Len(list) + Len(pieces) - 1
<1>1. /\ Len(list) \in Nat /\ Len(pieces) \in Nat /\ n \in Nat
      /\ s \in Nat /\ s >= 1 /\ s <= Len(list)
  OBVIOUS
<1>2. new \in Seq(Coloureds) /\ Len(new) = n
  BY PutElements
<1>3. Bare(new) = [k \in 1 .. n |-> Quad(new[k].xb, new[k].xe, new[k].yb, new[k].ye)]
  BY <1>2 DEF Bare
<1>4. old = [ k \in 1 .. n |->
                IF k < s THEN Bare(list)[k]
                ELSE IF k < s + Len(pieces) THEN Bare(pieces)[k - s + 1]
                ELSE Bare(list)[k - Len(pieces) + 1] ]
  BY BareList DEF Put
<1>5. new = [ k \in 1 .. n |->
                IF k < s THEN list[k]
                ELSE IF k < s + Len(pieces) THEN pieces[k - s + 1]
                ELSE list[k - Len(pieces) + 1] ]
  BY DEF Put
<1> HIDE DEF new, old
<1>6. ASSUME NEW k \in 1 .. n
      PROVE  old[k] = Quad(new[k].xb, new[k].xe, new[k].yb, new[k].ye)
  <2>1. CASE k < s
    <3>1. k \in 1 .. Len(list) /\ new[k] = list[k] /\ old[k] = Bare(list)[k]
      BY <1>1, <1>4, <1>5, <2>1
    <3> QED
      BY <3>1, BareList
  <2>2. CASE s <= k /\ k < s + Len(pieces)
    <3> DEFINE j == k - s + 1
    <3>1. j \in 1 .. Len(pieces) /\ new[k] = pieces[j] /\ old[k] = Bare(pieces)[j]
      BY <1>1, <1>4, <1>5, <2>2
    <3> HIDE DEF j
    <3> QED
      BY <3>1, BareList
  <2>3. CASE s + Len(pieces) <= k
    <3> DEFINE j == k - Len(pieces) + 1
    <3>1. j \in 1 .. Len(list) /\ new[k] = list[j] /\ old[k] = Bare(list)[j]
      BY <1>1, <1>4, <1>5, <2>3
    <3> HIDE DEF j
    <3> QED
      BY <3>1, BareList
  <2> QED
    BY <1>1, <2>1, <2>2, <2>3
<1>7. old = [k \in 1 .. n |-> old[k]]
  BY <1>4
<1> QED
  BY <1>3, <1>6, <1>7 DEF new, old

\* The pieces of a quadrant with a mean are those of the quadrant without.
LEMMA BarePieces ==
  ASSUME NEW q, InGrid(q), ~Single(q), NEW c \in Cells(q)
  PROVE  LET b == Quad(q.xb, q.xe, q.yb, q.ye) IN
         /\ Pieces(q, c[1], c[2]) = Pieces(b, c[1], c[2])
         /\ Pieces(b, c[1], c[2]) \in Seq(Quadrant)
         /\ Fits(Pieces(b, c[1], c[2]), b)
         /\ Len(Pieces(b, c[1], c[2])) = 2 \/ Len(Pieces(b, c[1], c[2])) = 4
         /\ \A k \in 1 .. Len(Pieces(b, c[1], c[2])) :
              InGrid(Pieces(b, c[1], c[2])[k])
<1> DEFINE b  == Quad(q.xb, q.xe, q.yb, q.ye)
           cx == CutX(q, c[1], c[2])
           cy == CutY(q, c[1], c[2])
           ps == Pieces(b, c[1], c[2])
<1>1. CanCutAt(b, c[1], c[2]) /\ ~Single(b)
  BY DEF InGrid, Cells, CanCutAt, Proper, Quadrant, Quad, Single
<1>2. /\ b.xb = q.xb /\ b.xe = q.xe /\ b.yb = q.yb /\ b.ye = q.ye
      /\ CutX(b, c[1], c[2]) = cx /\ CutY(b, c[1], c[2]) = cy
  BY DEF Quad, CutX, CutY
<1>3. cx < q.xe \/ cy > q.yb
  BY <1>1, <1>2, CutGoesThrough
<1>4. Pieces(q, c[1], c[2]) = ps
  <2> HIDE DEF b, cx, cy
  <2>1. PiecesAround(q, cx, cy) = PiecesAround(b, cx, cy)
    BY <1>2, <1>3 DEF PiecesAround
  <2> QED
    BY <1>2, <2>1 DEF Pieces, cx, cy
<1>5. /\ ps \in Seq(Quadrant) /\ Fits(ps, b)
      /\ Len(ps) = 2 \/ Len(ps) = 4
  BY <1>1, PiecesFit
<1> HIDE DEF b, ps
<1>6. ASSUME NEW k \in 1 .. Len(ps)
      PROVE  InGrid(ps[k])
  <2>0. ps[k] \in Quadrant
    BY <1>5
  <2>1. /\ ps[k].xb \in Int /\ ps[k].xe \in Int
        /\ ps[k].yb \in Int /\ ps[k].ye \in Int
    BY <2>0 DEF Quadrant
  <2>2. /\ q.xb <= ps[k].xb /\ ps[k].xb <= ps[k].xe /\ ps[k].xe <= q.xe
        /\ q.yb <= ps[k].yb /\ ps[k].yb <= ps[k].ye /\ ps[k].ye <= q.ye
    BY <1>2, <1>5 DEF Fits
  <2>3. Columns \in Int /\ Rows \in Int
    BY BestQuadrantAssumption
  <2>4. /\ q.xb \in Int /\ q.xe \in Int /\ q.yb \in Int /\ q.ye \in Int
        /\ 0 <= q.xb /\ q.xe < Columns /\ 0 <= q.yb /\ q.ye < Rows
    BY DEF InGrid
  <2>5. 0 <= ps[k].xb /\ ps[k].xe < Columns
    BY <2>1, <2>2, <2>3, <2>4
  <2>6. 0 <= ps[k].yb /\ ps[k].ye < Rows
    BY <2>1, <2>2, <2>3, <2>4
  <2> QED
    BY <2>1, <2>2, <2>5, <2>6 DEF InGrid
<1> QED
  BY <1>4, <1>5, <1>6 DEF b, ps

\* What is subtracted from the mean of the whole leaves a mean.
LEMMA RemainderIsMean ==
  ASSUME NEW a \in [Plane -> Int], NEW q \in Coloureds, InGrid(q), ~Single(q),
         NEW c \in Cells(q), Corner(q, c)
  PROVE  Remainder(a, q, Pieces(q, c[1], c[2])) \in Quotient
<1> DEFINE ps   == Pieces(q, c[1], c[2])
           cell == a[<< q.xe, q.yb >>]
<1>1. /\ Len(ps) = 2 \/ Len(ps) = 4
      /\ \A k \in 1 .. Len(ps) : InGrid(ps[k])
  BY BarePieces
<1> HIDE DEF ps
<1>2. q.mean.sum \in Int /\ q.mean.n \in Nat \ {0}
  BY DEF Coloureds, Quotient
<1>3. cell \in Int
  <2>1. << q.xe, q.yb >> \in Plane
    BY BestQuadrantAssumption DEF InGrid, Plane, Grid
  <2> QED
    BY <2>1
<1> HIDE DEF cell
<1>4. ASSUME Len(ps) = 4
      PROVE  Remainder(a, q, ps) \in Quotient
  <2>1. 2 \in 1 .. Len(ps) /\ 4 \in 1 .. Len(ps)
    BY <1>4
  <2>2. /\ Total(a, ps[2]) \in Int /\ Size(ps[2]) \in Nat \ {0}
        /\ Total(a, ps[4]) \in Int /\ Size(ps[4]) \in Nat \ {0}
    BY <1>1, <2>1, SumsInGrid
  <2>3. \A o, n \in Nat \ {0}, k \in Nat \ {0} : o * n * k \in Nat \ {0}
    <3>1. \A i, j \in Nat \ {0} : i * j \in Nat \ {0}
      OBVIOUS
    <3> QED
      BY <3>1
  <2>4. q.mean.n * Size(ps[2]) * Size(ps[4]) \in Nat \ {0}
    BY <1>2, <2>2, <2>3
  <2>5. q.mean.sum * Size(ps[2]) * Size(ps[4])
          - q.mean.n * (Total(a, ps[2]) * Size(ps[4]) + cell * Size(ps[2]) * Size(ps[4])
                          + Total(a, ps[4]) * Size(ps[2])) \in Int
    BY <1>2, <1>3, <2>2
  <2>6. Remainder(a, q, ps) =
          [sum |-> q.mean.sum * Size(ps[2]) * Size(ps[4])
                     - q.mean.n * (Total(a, ps[2]) * Size(ps[4])
                                     + cell * Size(ps[2]) * Size(ps[4])
                                     + Total(a, ps[4]) * Size(ps[2])),
           n   |-> q.mean.n * Size(ps[2]) * Size(ps[4])]
    BY <1>4, Zenon DEF Remainder, Mean, cell
  <2> QED
    BY <2>4, <2>5, <2>6 DEF Quotient
<1>5. ASSUME Len(ps) = 2
      PROVE  Remainder(a, q, ps) \in Quotient
  <2>1. Size(q) \in Nat /\ Size(q) >= 2
    <3> DEFINE w == q.xe - q.xb + 1
               h == q.ye - q.yb + 1
    <3>1. w \in Nat \ {0} /\ h \in Nat \ {0} /\ (w >= 2 \/ h >= 2)
      BY DEF InGrid, Single
    <3> HIDE DEF w, h
    <3>2. w * h \in Nat /\ w * h >= 2
      <4>1. CASE w >= 2
        BY <3>1, <4>1
      <4>2. CASE h >= 2
        BY <3>1, <4>2
      <4> QED
        BY <3>1, <4>1, <4>2
    <3> QED
      BY <3>2 DEF Size, w, h
  <2>2. q.mean.n * (Size(q) - 1) \in Nat \ {0}
    <3>1. Size(q) - 1 \in Nat \ {0}
      BY <2>1
    <3>2. \A i, j \in Nat \ {0} : i * j \in Nat \ {0}
      OBVIOUS
    <3> QED
      BY <1>2, <3>1, <3>2
  <2>3. Size(q) * q.mean.sum - cell * q.mean.n \in Int
    BY <1>2, <1>3, <2>1
  <2>4. Remainder(a, q, ps) =
          [sum |-> Size(q) * q.mean.sum - cell * q.mean.n,
           n   |-> q.mean.n * (Size(q) - 1)]
    <3>1. Len(ps) # 4
      BY <1>5
    <3> QED
      BY <3>1, Zenon DEF Remainder, Mean, cell
  <2> QED
    BY <2>2, <2>3, <2>4 DEF Quotient
<1> QED
  BY <1>1, <1>4, <1>5 DEF ps

\* The coloured pieces fill the place of the quadrant.
LEMMA ColouredFit ==
  ASSUME NEW a \in [Plane -> Int], NEW q \in Coloureds, InGrid(q), ~Single(q),
         NEW c \in Cells(q)
  PROVE  /\ Coloured(a, q, c) \in Seq(Coloureds)
         /\ Len(Coloured(a, q, c)) >= 2
         /\ Fits(Bare(Coloured(a, q, c)), Quad(q.xb, q.xe, q.yb, q.ye))
         /\ \A k \in 1 .. Len(Coloured(a, q, c)) :
              \/ k = 1 /\ Corner(q, c)
              \/ Coloured(a, q, c)[k].mean
                   = Mean(Total(a, Coloured(a, q, c)[k]), Size(Coloured(a, q, c)[k]))
<1> DEFINE b    == Quad(q.xb, q.xe, q.yb, q.ye)
           ps   == Pieces(q, c[1], c[2])
           mean(k) == IF k = 1 /\ Corner(q, c) THEN Remainder(a, q, ps)
                                               ELSE Average(a, ps[k])
           new  == Coloured(a, q, c)
<1>1. /\ ps \in Seq(Quadrant) /\ Fits(ps, b) /\ Len(ps) \in Nat /\ Len(ps) >= 2
      /\ \A k \in 1 .. Len(ps) : InGrid(ps[k])
  <2>1. /\ ps \in Seq(Quadrant) /\ Fits(ps, b)
        /\ (Len(ps) = 2 \/ Len(ps) = 4)
        /\ \A k \in 1 .. Len(ps) : InGrid(ps[k])
    BY BarePieces
  <2> HIDE DEF ps
  <2>2. Len(ps) \in Nat
    BY <2>1
  <2>3. Len(ps) >= 2
    <3>1. Len(ps) = 2 \/ Len(ps) = 4
      BY <2>1
    <3> QED
      BY <2>2, <3>1
  <2> QED
    BY <2>1, <2>2, <2>3
<1>2. new = [k \in 1 .. Len(ps) |-> Colour(ps[k], mean(k))]
  BY DEF Coloured
<1>3. ASSUME NEW k \in 1 .. Len(ps)
      PROVE  mean(k) \in Quotient
  <2>1. CASE k = 1 /\ Corner(q, c)
    BY <2>1, RemainderIsMean
  <2>2. CASE ~(k = 1 /\ Corner(q, c))
    <3>1. Average(a, ps[k]) \in Quotient
      BY <1>1, SumsInGrid
    <3> QED
      BY <2>2, <3>1
  <2> QED
    BY <2>1, <2>2
<1>4. \A k \in 1 .. Len(ps) : (k = 1 /\ Corner(q, c)) \/ mean(k) = Average(a, ps[k])
  OBVIOUS
<1> HIDE DEF ps, mean, new
<1>5. ASSUME NEW k \in 1 .. Len(ps)
      PROVE  /\ ps[k] \in Quadrant /\ new[k] \in Coloureds
             /\ Quad(new[k].xb, new[k].xe, new[k].yb, new[k].ye) = ps[k]
             /\ Cells(new[k]) = Cells(ps[k]) /\ Size(new[k]) = Size(ps[k])
             /\ new[k].mean = mean(k)
  <2>1. ps[k] \in Quadrant
    BY <1>1
  <2>2. /\ new[k] = Colour(ps[k], mean(k)) /\ mean(k) \in Quotient
    BY <1>2, <1>3
  <2>3. new[k] \in Coloureds
    BY <2>1, <2>2 DEF Colour, Coloureds, Quadrant
  <2>4. /\ new[k].xb = ps[k].xb /\ new[k].xe = ps[k].xe
        /\ new[k].yb = ps[k].yb /\ new[k].ye = ps[k].ye /\ new[k].mean = mean(k)
    BY <2>2 DEF Colour
  <2> QED
    BY <2>1, <2>3, <2>4 DEF Quad, Quadrant, Cells, Size
<1>6. new \in Seq(Coloureds) /\ Len(new) = Len(ps)
  <2>1. new \in [1 .. Len(ps) -> Coloureds]
    BY <1>2, <1>5
  <2> QED
    BY <1>1, <2>1
<1>7. Bare(new) = ps
  <2>1. Bare(new) = [k \in 1 .. Len(ps) |-> ps[k]]
    BY <1>5, <1>6 DEF Bare
  <2> QED
    BY <1>1, <2>1
<1>8. ASSUME NEW k \in 1 .. Len(ps)
      PROVE  (k = 1 /\ Corner(q, c)) \/ new[k].mean = Mean(Total(a, new[k]), Size(new[k]))
  <2>1. Total(a, new[k]) = Total(a, ps[k])
    BY <1>5, Zenon DEF Total
  <2> QED
    BY <1>4, <1>5, <2>1 DEF Average
<1> QED
  BY <1>1, <1>6, <1>7, <1>8 DEF new

\* The scale after a split holds what it held and the new means.
LEMMA WidenHolds ==
  ASSUME NEW pieces \in Seq(Coloureds), Widen(pieces),
         avgMin \in Quotient, avgMax \in Quotient
  PROVE  /\ avgMin' \in Quotient /\ avgMax' \in Quotient
         /\ AtMost(avgMin', avgMin) /\ AtMost(avgMax, avgMax')
         /\ \A k \in 1 .. Len(pieces) :
              AtMost(avgMin', pieces[k].mean) /\ AtMost(pieces[k].mean, avgMax')
<1> DEFINE means == { pieces[k].mean : k \in 1 .. Len(pieces) }
           lows  == {avgMin} \cup means
           highs == {avgMax} \cup means
<1>1. avgMax' = CHOOSE m \in highs : \A o \in highs : ~Below(m, o)
  BY DEF Widen, Extreme
<1>2. avgMin' = CHOOSE m \in lows : \A o \in lows : ~Below(o, m)
  BY DEF Widen, Extreme
<1>3. IsFiniteSet(means) /\ means \subseteq Quotient
  <2>1. IsFiniteSet(1 .. Len(pieces))
    BY FS_Interval
  <2>2. IsFiniteSet(means)
    <3> DEFINE f == [k \in 1 .. Len(pieces) |-> pieces[k].mean]
    <3>1. f \in Surjection(1 .. Len(pieces), means)
      BY DEF Surjection
    <3> QED
      BY <2>1, <3>1, FS_Surjection
  <2>3. \A k \in 1 .. Len(pieces) : pieces[k] \in Coloureds
    OBVIOUS
  <2> QED
    BY <2>2, <2>3 DEF Coloureds
<1>4. /\ IsFiniteSet(lows) /\ lows \in SUBSET Quotient /\ lows # {}
      /\ IsFiniteSet(highs) /\ highs \in SUBSET Quotient /\ highs # {}
  <2> HIDE DEF means
  <2>1. IsFiniteSet({avgMin}) /\ IsFiniteSet({avgMax})
    BY FS_Singleton
  <2> QED
    BY <1>3, <2>1, FS_Union
<1>5. /\ avgMin \in lows /\ avgMax \in highs
      /\ \A k \in 1 .. Len(pieces) : pieces[k].mean \in lows /\ pieces[k].mean \in highs
  OBVIOUS
<1> HIDE DEF lows, highs, means
<1>6. avgMax' \in highs /\ \A o \in highs : ~Below(avgMax', o)
  BY <1>1, <1>4, ExtremeMeans
<1>7. avgMin' \in lows /\ \A o \in lows : ~Below(o, avgMin')
  BY <1>2, <1>4, ExtremeMeans
<1>8. /\ \A o \in highs : AtMost(o, avgMax')
      /\ \A o \in lows : AtMost(avgMin', o)
  BY <1>4, <1>6, <1>7, BelowOrders
<1> QED
  BY <1>4, <1>5, <1>6, <1>7, <1>8

-----------------------------------------------------------------------------
(* The split of the heatmap: from the first iteration to the last.         *)

\* What holds before every iteration: the types, a list that covers the grid,
\* as many quadrants as iterations while something can be split, and a scale
\* that holds every mean.
QuadInv ==
  /\ groupAvgs \in [Plane -> Int]
  /\ quads \in Seq(Coloureds)
  /\ iteration \in 0 .. maxIteration
  /\ iteration = 0 => quads = << >> /\ cut = NoCut
  /\ iteration > 0 => Tiles(Bare(quads), Columns, Rows)
  /\ avgMin \in Quotient /\ avgMax \in Quotient
  /\ Competing = {} \/ Len(quads) >= iteration
  /\ \A k \in 1 .. Len(quads) :
       AtMost(avgMin, quads[k].mean) /\ AtMost(quads[k].mean, avgMax)

\* The grid has as many cells as the page asks for iterations.
LEMMA GridIsFinite ==
  /\ Columns \in Nat \ {0} /\ Rows \in Nat \ {0}
  /\ maxIteration \in Nat \ {0}
  /\ IsFiniteSet(Plane) /\ Cardinality(Plane) = maxIteration
<1>1. Columns \in Nat \ {0} /\ Rows \in Nat \ {0}
  BY BestQuadrantAssumption
<1>2. \A m, n \in Nat \ {0} : m * n \in Nat \ {0}
  OBVIOUS
<1>3. /\ IsFiniteSet(0 .. Columns - 1) /\ Cardinality(0 .. Columns - 1) = Columns
      /\ IsFiniteSet(0 .. Rows - 1) /\ Cardinality(0 .. Rows - 1) = Rows
  BY <1>1, FS_Interval
<1> QED
  BY <1>1, <1>2, <1>3, FS_Product DEF Plane, Grid, maxIteration

\* The samples are integers.
LEMMA AveragesAreInts ==
  ASSUME NEW a \in Averages
  PROVE  a \in [Plane -> Int]
<1>1. a \in [Plane -> Values \cup {0}] /\ Values \subseteq Int
  BY BestQuadrantAssumption DEF Averages
<1>2. Values \cup {0} \subseteq Int
  BY <1>1
<1> QED
  BY <1>1, <1>2

\* The invariant holds initially, after the first iteration,
LEMMA QuadInit == Init => QuadInv
<1> SUFFICES ASSUME Init PROVE QuadInv
  OBVIOUS
<1>1. groupAvgs \in [Plane -> Int] /\ quads \in Seq(Coloureds)
  BY DEF Init
<1>2. iteration = 0 /\ iteration \in 0 .. maxIteration
  BY GridIsFinite DEF Init
<1>3. avgMin \in Quotient /\ avgMax \in Quotient
  BY DEF Init, Mean, Quotient
<1>4. Len(quads) = 0 /\ Len(quads) >= iteration
  BY DEF Init
<1> QED
  BY <1>1, <1>2, <1>3, <1>4 DEF Init, QuadInv

LEMMA QuadFirst ==
  ASSUME QuadInv, First
  PROVE  QuadInv'
<1> DEFINE whole == WholeGrid(Columns, Rows)[1]
           mean  == Average(groupAvgs', whole)
<1>1. /\ whole = Quad(0, Columns - 1, 0, Rows - 1) /\ whole \in Quadrant
      /\ InGrid(whole)
  BY GridIsFinite DEF WholeGrid, Quad, Quadrant, InGrid
<1>2. groupAvgs' \in [Plane -> Int]
  BY AveragesAreInts DEF First
<1>3. mean \in Quotient
  BY <1>1, <1>2, SumsInGrid
<1>4. quads' = << Colour(whole, mean) >> /\ avgMin' = mean /\ avgMax' = mean
      /\ iteration' = 1 /\ cut' = cut
  BY DEF First
<1> HIDE DEF mean
<1>5. Colour(whole, mean) \in Coloureds /\ Colour(whole, mean).mean = mean
  BY <1>1, <1>3 DEF Colour, Coloureds, Quadrant
<1>6. quads' \in Seq(Coloureds) /\ Len(quads') = 1 /\ quads'[1] = Colour(whole, mean)
  BY <1>4, <1>5
<1>7. Tiles(Bare(quads'), Columns, Rows)
  <2>1. /\ Len(Bare(quads')) = 1
        /\ Bare(quads')[1] = Quad(0, Columns - 1, 0, Rows - 1)
    BY <1>1, <1>6, BareList DEF Colour, Quad
  <2>2. \A k \in 1 .. Len(Bare(quads')) : k = 1
    BY <2>1
  <2>3. 1 \in 1 .. Len(Bare(quads'))
    BY <2>1
  <2> HIDE DEF whole
  <2> QED
    BY <2>1, <2>2, <2>3, GridIsFinite DEF Tiles, Inside, Quad
<1>8. AtMost(mean, mean)
  BY <1>3, BelowOrders
<1>9. \A k \in 1 .. Len(quads') :
        AtMost(avgMin', quads'[k].mean) /\ AtMost(quads'[k].mean, avgMax')
  <2>1. \A k \in 1 .. Len(quads') : quads'[k].mean = mean
    BY <1>5, <1>6
  <2> QED
    BY <1>4, <1>8, <2>1
<1>10. iteration' \in 0 .. maxIteration /\ iteration' # 0 /\ Len(quads') >= iteration'
  BY <1>4, <1>6, GridIsFinite
<1> QED
  BY <1>2, <1>3, <1>4, <1>6, <1>7, <1>9, <1>10 DEF QuadInv

\* What a split does: a quadrant that competes gives way to its pieces.
LEMMA SplitTaken ==
  ASSUME QuadInv, Iterate, Competing # {}
  PROVE  LET k      == BestQuad(groupAvgs')
             c      == BestCell(groupAvgs', quads[k])
             pieces == Coloured(groupAvgs', quads[k], c)
         IN /\ groupAvgs' \in [Plane -> Int]
            /\ k \in 1 .. Len(quads) /\ quads[k] \in Coloureds
            /\ InGrid(quads[k]) /\ ~Single(quads[k])
            /\ Candidates(quads[k]) # {} /\ c \in Cells(quads[k])
            /\ cut' = [quad |-> k, cell |-> c]
            /\ quads' = Put(quads, k, pieces)
            /\ Widen(pieces)
<1> DEFINE k == BestQuad(groupAvgs')
           c == BestCell(groupAvgs', quads[k])
<1>1. groupAvgs' \in [Plane -> Int]
  BY AveragesAreInts DEF Iterate, Resampled
<1>2. /\ cut' = [quad |-> k, cell |-> c]
      /\ quads' = Put(quads, k, Coloured(groupAvgs', quads[k], c))
      /\ Widen(Coloured(groupAvgs', quads[k], c))
  BY DEF Iterate
<1>3. /\ quads \in Seq(Coloureds) /\ Tiles(Bare(quads), Columns, Rows)
      /\ \A j \in 1 .. Len(quads) : InGrid(quads[j])
  <2>1. iteration > 0
    BY GridIsFinite DEF Iterate
  <2> QED
    BY <2>1, BareTiles DEF QuadInv
<1>4. k \in Competing
  BY <1>1, <1>3, BestQuadTaken
<1>5. /\ k \in 1 .. Len(quads) /\ ~Single(quads[k]) /\ Candidates(quads[k]) # {}
  BY <1>4 DEF Competing, Divisible
<1>6. quads[k] \in Coloureds /\ InGrid(quads[k])
  BY <1>3, <1>5
<1>7. c \in Cells(quads[k])
  BY <1>1, <1>5, <1>6, BestCellTaken DEF Candidates
<1> QED
  BY <1>1, <1>2, <1>5, <1>6, <1>7

\* after one that splits a quadrant,
LEMMA QuadSplit ==
  ASSUME QuadInv, Iterate, Competing # {}
  PROVE  QuadInv'
<1> DEFINE k      == BestQuad(groupAvgs')
           c      == BestCell(groupAvgs', quads[k])
           pieces == Coloured(groupAvgs', quads[k], c)
<1>1. /\ groupAvgs' \in [Plane -> Int]
      /\ k \in 1 .. Len(quads) /\ quads[k] \in Coloureds
      /\ InGrid(quads[k]) /\ ~Single(quads[k])
      /\ c \in Cells(quads[k])
      /\ quads' = Put(quads, k, pieces)
      /\ Widen(pieces)
  BY SplitTaken
<1>2. /\ pieces \in Seq(Coloureds) /\ Len(pieces) >= 2
      /\ Fits(Bare(pieces), Quad(quads[k].xb, quads[k].xe, quads[k].yb, quads[k].ye))
  BY <1>1, ColouredFit
<1>3. /\ quads \in Seq(Coloureds) /\ Len(quads) \in Nat /\ Len(pieces) \in Nat
      /\ avgMin \in Quotient /\ avgMax \in Quotient
      /\ Len(quads) >= iteration
  BY <1>2 DEF QuadInv
<1> HIDE DEF k, c, pieces
<1>4. /\ iteration \in Int /\ iteration > 0 /\ iteration' = iteration + 1
      /\ iteration' \in 0 .. maxIteration
  BY GridIsFinite DEF Iterate
<1>5. quads' \in Seq(Coloureds) /\ Len(quads') = Len(quads) + Len(pieces) - 1
  BY <1>1, <1>2, <1>3, PutElements
<1>6. Tiles(Bare(quads'), Columns, Rows)
  <2>1. Bare(quads') = Put(Bare(quads), k, Bare(pieces))
    BY <1>1, <1>2, <1>3, BarePut
  <2>2. /\ Bare(quads) \in Seq(Quadrant) /\ k \in 1 .. Len(Bare(quads))
        /\ Bare(quads)[k] = Quad(quads[k].xb, quads[k].xe, quads[k].yb, quads[k].ye)
        /\ Bare(pieces) \in Seq(Quadrant) /\ Len(Bare(pieces)) >= 1
    BY <1>1, <1>2, <1>3, BareList
  <2>3. Tiles(Bare(quads), Columns, Rows)
    BY <1>4 DEF QuadInv
  <2>4. Columns \in Int /\ Rows \in Int
    BY GridIsFinite
  <2>5. Fits(Bare(pieces), Bare(quads)[k])
    BY <1>2, <2>2
  <2> QED
    BY <2>1, <2>2, <2>3, <2>4, <2>5, PutTiles
<1>7. /\ avgMin' \in Quotient /\ avgMax' \in Quotient
      /\ AtMost(avgMin', avgMin) /\ AtMost(avgMax, avgMax')
      /\ \A j \in 1 .. Len(pieces) :
           AtMost(avgMin', pieces[j].mean) /\ AtMost(pieces[j].mean, avgMax')
  BY <1>1, <1>2, <1>3, WidenHolds
<1>8. ASSUME NEW i \in 1 .. Len(quads')
      PROVE  AtMost(avgMin', quads'[i].mean) /\ AtMost(quads'[i].mean, avgMax')
  <2>1. \/ \E j \in 1 .. Len(pieces) : quads'[i] = pieces[j]
        \/ \E j \in 1 .. Len(quads) : quads'[i] = quads[j]
    <3>1. i \in 1 .. Len(Put(quads, k, pieces)) /\ Len(pieces) >= 1
      BY <1>1, <1>2, <1>3
    <3>2. \/ \E j \in 1 .. Len(pieces) : Put(quads, k, pieces)[i] = pieces[j]
          \/ \E j \in 1 .. Len(quads) : Put(quads, k, pieces)[i] = quads[j]
      BY <1>1, <1>2, <1>3, <3>1, PutOrigin
    <3> QED
      BY <1>1, <3>2
  <2>2. CASE \E j \in 1 .. Len(pieces) : quads'[i] = pieces[j]
    BY <1>7, <2>2
  <2>3. ASSUME NEW j \in 1 .. Len(quads), quads'[i] = quads[j]
        PROVE  AtMost(avgMin', quads'[i].mean) /\ AtMost(quads'[i].mean, avgMax')
    <3>1. AtMost(avgMin, quads[j].mean) /\ AtMost(quads[j].mean, avgMax)
      BY DEF QuadInv
    <3>2. quads[j] \in Coloureds
      BY <1>3
    <3>3. quads[j].mean \in Quotient
      BY <3>2 DEF Coloureds
    <3> QED
      BY <1>3, <1>7, <2>3, <3>1, <3>3, BelowOrders
  <2> QED
    BY <2>1, <2>2, <2>3
<1>9. Len(quads') >= iteration'
  BY <1>2, <1>3, <1>4, <1>5
<1>10. iteration' # 0
  BY <1>4
<1> QED
  BY <1>1, <1>4, <1>5, <1>6, <1>7, <1>8, <1>9, <1>10 DEF QuadInv

\* after one that finds nothing to split,
LEMMA QuadRest ==
  ASSUME QuadInv, Iterate, Competing = {}
  PROVE  QuadInv'
<1>1. UNCHANGED << quads, avgMin, avgMax >> /\ iteration' = iteration + 1
  BY DEF Iterate
<1>2. groupAvgs' \in [Plane -> Int]
  BY AveragesAreInts DEF Iterate, Resampled
<1>3. /\ iteration \in Int /\ iteration > 0 /\ iteration' \in 0 .. maxIteration
      /\ iteration' # 0
  BY <1>1, GridIsFinite DEF Iterate
<1>4. Competing' = {}
  BY <1>1 DEF Competing, Candidates
<1>5. \A i \in 1 .. Len(quads') :
        AtMost(avgMin', quads'[i].mean) /\ AtMost(quads'[i].mean, avgMax')
  BY <1>1 DEF QuadInv
<1>6. quads' \in Seq(Coloureds) /\ avgMin' \in Quotient /\ avgMax' \in Quotient
  BY <1>1 DEF QuadInv
<1>7. Tiles(Bare(quads'), Columns, Rows)
  BY <1>1, <1>3 DEF QuadInv
<1> QED
  BY <1>2, <1>3, <1>4, <1>5, <1>6, <1>7 DEF QuadInv

\* and so always.
LEMMA QuadInvHolds == Spec => []QuadInv
<1>1. Init => QuadInv
  BY QuadInit
<1>2. QuadInv /\ [Next]_vars => QuadInv'
  <2>1. ASSUME QuadInv, First
        PROVE  QuadInv'
    BY <2>1, QuadFirst
  <2>2. ASSUME QuadInv, Iterate
        PROVE  QuadInv'
    BY <2>2, QuadSplit, QuadRest
  <2>3. ASSUME QuadInv, UNCHANGED vars
        PROVE  QuadInv'
    <3>1. /\ groupAvgs' = groupAvgs /\ quads' = quads /\ avgMin' = avgMin
          /\ avgMax' = avgMax /\ cut' = cut /\ iteration' = iteration
      BY <2>3 DEF vars
    <3>2. Competing' = Competing
      BY <3>1 DEF Competing, Candidates
    <3> QED
      BY <2>3, <3>1, <3>2 DEF QuadInv
  <2> QED
    BY <2>1, <2>2, <2>3 DEF Next
<1> QED
  BY <1>1, <1>2, PTL DEF Spec

\* A grid that is covered by as many quadrants as it has cells is covered by
\* single cells.
LEMMA CoveredByCells ==
  ASSUME NEW list \in Seq(Coloureds), Tiles(Bare(list), Columns, Rows),
         Len(list) >= maxIteration, NEW k \in 1 .. Len(list)
  PROVE  Single(list[k])
<1> SUFFICES ASSUME ~Single(list[k]) PROVE FALSE
  OBVIOUS
<1> DEFINE n     == Len(list)
           spare == << list[k].xe, list[k].yb >>
           first(j) == << list[j].xb, list[j].ye >>
           f     == [j \in 1 .. n |-> first(j)]
           Rest  == Plane \ {spare}
<1>1. \A j \in 1 .. n : InGrid(list[j])
  BY BareTiles
<1>2. ASSUME NEW j \in 1 .. n, NEW x \in list[j].xb .. list[j].xe,
             NEW y \in list[j].yb .. list[j].ye, NEW i \in 1 .. n,
             Inside(list[i], x, y)
      PROVE  j = i
  <2>1. /\ Len(Bare(list)) = n
        /\ x \in Bare(list)[j].xb .. Bare(list)[j].xe
        /\ y \in Bare(list)[j].yb .. Bare(list)[j].ye
        /\ Inside(Bare(list)[i], x, y)
    BY <1>2, BareList DEF Inside
  <2> QED
    BY <2>1 DEF Tiles
<1>3. \A j \in 1 .. n :
        /\ list[j].xb \in list[j].xb .. list[j].xe
        /\ list[j].ye \in list[j].yb .. list[j].ye
        /\ list[j].xe \in list[j].xb .. list[j].xe
        /\ list[j].yb \in list[j].yb .. list[j].ye
        /\ Inside(list[j], list[j].xb, list[j].ye)
        /\ first(j) \in Plane
  <2>1. Columns \in Int /\ Rows \in Int
    BY GridIsFinite
  <2> QED
    BY <1>1, <2>1 DEF InGrid, Inside, Plane, Grid
<1>4. spare \in Plane
  <2>1. InGrid(list[k])
    BY <1>1
  <2>2. Columns \in Int /\ Rows \in Int
    BY GridIsFinite
  <2> QED
    BY <2>1, <2>2 DEF InGrid, Plane, Grid
<1>5. ASSUME NEW j \in 1 .. n
      PROVE  first(j) # spare
  <2> SUFFICES ASSUME first(j) = spare PROVE FALSE
    OBVIOUS
  <2>1. list[j].xb = list[k].xe /\ list[j].ye = list[k].yb
    OBVIOUS
  <2>2. Inside(list[j], list[k].xe, list[k].yb)
    BY <1>3, <2>1
  <2>3. j = k
    BY <1>2, <1>3, <2>2
  <2> QED
    BY <1>1, <2>1, <2>3 DEF InGrid, Single
<1>6. ASSUME NEW i \in 1 .. n, NEW j \in 1 .. n, first(i) = first(j)
      PROVE  i = j
  <2>1. list[i].xb = list[j].xb /\ list[i].ye = list[j].ye
    BY <1>6
  <2>2. Inside(list[i], list[j].xb, list[j].ye)
    BY <1>3, <2>1
  <2>3. list[j].xb \in list[j].xb .. list[j].xe /\ list[j].ye \in list[j].yb .. list[j].ye
    BY <1>3
  <2> QED
    BY <1>2, <2>2, <2>3
<1>7. f \in Injection(1 .. n, Rest)
  BY <1>3, <1>5, <1>6 DEF Injection, IsInjective
<1>8. IsFiniteSet(Rest) /\ Cardinality(Rest) = maxIteration - 1
  <2> HIDE DEF spare
  <2> QED
    BY <1>4, GridIsFinite, FS_RemoveElement
<1>9. n \in Nat /\ Cardinality(1 .. n) = n
  <2>1. n \in Nat /\ n >= 1
    <3>1. Len(list) \in Nat /\ k >= 1 /\ k <= Len(list)
      OBVIOUS
    <3> QED
      BY <3>1
  <2> QED
    BY <2>1, FS_Interval
<1> HIDE DEF f, Rest
<1>10. n <= maxIteration - 1
  BY <1>7, <1>8, <1>9, FS_Injection
<1> QED
  BY <1>9, <1>10, GridIsFinite

\* The page asks genHeat for as many iterations as the grid has cells
\* (heatmap.js:740-762).  That is enough for every grid, whatever the samples:
\* after the last of them no quadrant with records is left to split.
THEOREM QuadrantsComplete == Spec => []CompleteInTime
<1>1. QuadInv => CompleteInTime
  <2> SUFFICES ASSUME QuadInv, iteration = maxIteration, Competing # {}
               PROVE  FALSE
    BY DEF CompleteInTime
  <2>1. /\ quads \in Seq(Coloureds) /\ Tiles(Bare(quads), Columns, Rows)
        /\ Len(quads) >= maxIteration
    BY GridIsFinite DEF QuadInv
  <2>2. PICK k \in 1 .. Len(quads) : ~Single(quads[k])
    BY DEF Competing, Divisible
  <2> QED
    BY <2>1, <2>2, CoveredByCells
<1> QED
  BY <1>1, QuadInvHolds, PTL

\* Every mean on the page lies on the colour scale sent with it, the derived
\* mean of a cut-off corner's rest too (getMin and getMax, heat.cc:876-897).
THEOREM MeansStayOnScale == Spec => []MeansOnScale
<1>1. QuadInv => MeansOnScale
  <2> SUFFICES ASSUME QuadInv, NEW k \in 1 .. Len(quads)
               PROVE  ~Below(quads[k].mean, avgMin) /\ ~Below(avgMax, quads[k].mean)
    BY DEF MeansOnScale
  <2>1. quads[k] \in Coloureds
    BY DEF QuadInv
  <2>2. quads[k].mean \in Quotient
    BY <2>1 DEF Coloureds
  <2> QED
    BY <2>2, BelowOrders DEF QuadInv
<1> QED
  BY <1>1, QuadInvHolds, PTL

\* A piece is coloured by the average of its cells as sampled in the iteration
\* that cuts it out, but for the rest left by a corner (heat.cc:771-900).
THEOREM MeansStayAverages == Spec => MeansAreAverages
<1> DEFINE Now == cut' # NoCut =>
             LET q == quads[cut'.quad] IN
             \A k \in 1 .. Len(quads') :
               \/ \E j \in 1 .. Len(quads) : quads'[k] = quads[j]
               \/ k = cut'.quad /\ Corner(q, cut'.cell)
               \/ quads'[k].mean.sum * Size(quads'[k])
                    = Total(groupAvgs', quads'[k]) * quads'[k].mean.n
<1>1. ASSUME QuadInv, First
      PROVE  Now
  BY <1>1 DEF First, QuadInv
<1>2. ASSUME QuadInv, Iterate, Competing = {}
      PROVE  Now
  BY <1>2 DEF Iterate
<1>3. ASSUME QuadInv, Iterate, Competing # {}
      PROVE  Now
  <2> DEFINE b      == BestQuad(groupAvgs')
             c      == BestCell(groupAvgs', quads[b])
             pieces == Coloured(groupAvgs', quads[b], c)
  <2>1. /\ groupAvgs' \in [Plane -> Int]
        /\ b \in 1 .. Len(quads) /\ quads[b] \in Coloureds
        /\ InGrid(quads[b]) /\ ~Single(quads[b])
        /\ c \in Cells(quads[b])
        /\ cut' = [quad |-> b, cell |-> c]
        /\ quads' = Put(quads, b, pieces)
    BY <1>3, SplitTaken
  <2>2. /\ pieces \in Seq(Coloureds) /\ Len(pieces) >= 2
        /\ \A j \in 1 .. Len(pieces) :
             \/ j = 1 /\ Corner(quads[b], c)
             \/ pieces[j].mean = Mean(Total(groupAvgs', pieces[j]), Size(pieces[j]))
    BY <2>1, ColouredFit
  <2>3. quads \in Seq(Coloureds) /\ b \in Int
    BY <1>3, <2>1 DEF QuadInv
  <2> HIDE DEF b, c, pieces
  <2>4. cut'.quad = b /\ cut'.cell = c
    BY <2>1
  <2>5. ASSUME NEW k \in 1 .. Len(quads')
        PROVE  \/ \E j \in 1 .. Len(quads) : quads'[k] = quads[j]
               \/ k = b /\ Corner(quads[b], c)
               \/ quads'[k].mean.sum * Size(quads'[k])
                    = Total(groupAvgs', quads'[k]) * quads'[k].mean.n
    <3>1. k \in 1 .. Len(Put(quads, b, pieces)) /\ Len(pieces) >= 1
      BY <2>1, <2>2
    <3>2. \/ \E j \in 1 .. Len(pieces) :
               k = b + j - 1 /\ Put(quads, b, pieces)[k] = pieces[j]
          \/ \E j \in 1 .. Len(quads) : Put(quads, b, pieces)[k] = quads[j]
      BY <2>1, <2>2, <2>3, <3>1, PutOrigin
    <3>3. ASSUME NEW j \in 1 .. Len(pieces), k = b + j - 1,
                 Put(quads, b, pieces)[k] = pieces[j], ~(k = b /\ Corner(quads[b], c))
          PROVE  quads'[k].mean.sum * Size(quads'[k])
                   = Total(groupAvgs', quads'[k]) * quads'[k].mean.n
      <4>1. quads'[k] = pieces[j]
        BY <2>1, <3>3
      <4>2. pieces[j].mean = Mean(Total(groupAvgs', pieces[j]), Size(pieces[j]))
        BY <2>2, <2>3, <3>3
      <4> QED
        BY <4>1, <4>2 DEF Mean
    <3> QED
      BY <2>1, <3>2, <3>3
  <2> QED
    BY <2>4, <2>5
<1>4. ASSUME QuadInv, [Next]_vars
      PROVE  [Now]_vars
  <2> HIDE DEF Now
  <2> QED
    BY <1>1, <1>2, <1>3, <1>4 DEF Next
<1>5. QuadInv /\ [Next]_vars => [Now]_vars
  <2> HIDE DEF Now
  <2> QED
    BY <1>4
<1> QED
  BY <1>5, QuadInvHolds, PTL DEF Spec, MeansAreAverages

-----------------------------------------------------------------------------
(* The split of the heatmap: why it is the best of its quadrant.           *)

\* What is lost by drawing a list does not depend on its colours.
LEMMA LossSame ==
  ASSUME NEW a \in [Plane -> Int], NEW list, NEW other,
         Len(list) \in Nat, Len(other) = Len(list),
         \A k \in 1 .. Len(list) : /\ InGrid(other[k])
                                   /\ Cells(list[k]) = Cells(other[k])
                                   /\ Size(list[k]) = Size(other[k])
  PROVE  Loss(a, list) = Loss(a, other)
<1> DEFINE f == [k \in 1 .. Len(list) |-> Error(a, other[k])]
<1>1. \A k \in 1 .. Len(list) : f[k] = Error(a, other[k]) /\ f[k] \in Int
  BY WeightIs
<1>2. ASSUME NEW k \in 1 .. Len(list)
      PROVE  Error(a, list[k]) = Error(a, other[k])
  <2>1. Cells(list[k]) = Cells(other[k]) /\ Size(list[k]) = Size(other[k])
    OBVIOUS
  <2>2. Total(a, list[k]) = Total(a, other[k])
    BY <2>1, Zenon DEF Total
  <2>3. Weight(a, list[k]) = Weight(a, other[k])
    BY <2>1, <2>2, Zenon DEF Weight
  <2> QED
    BY <2>1, <2>3, Zenon DEF Error
<1> HIDE DEF f
<1>3. Loss(a, list) = SumFunctionOnSet(f, 1 .. Len(list))
  BY <1>1, <1>2, LossIs
<1>4. Loss(a, other) = SumFunctionOnSet(f, 1 .. Len(list))
  BY <1>1, LossIs
<1> QED
  BY <1>3, <1>4

\* The cell whose right and lower edge a cut runs along.
CutCell(q, c) == << CutX(q, c[1], c[2]), CutY(q, c[1], c[2]) >>

\* The pieces of a cut are the rectangles around that cell.
LEMMA CutAround ==
  ASSUME NEW a \in [Plane -> Int], NEW q \in Coloureds, InGrid(q), ~Single(q),
         NEW c \in Cells(q)
  PROVE  /\ CutCell(q, c) \in Cells(q)
         /\ ~Corner(q, c) => CutCell(q, c) = c
         /\ Len(Coloured(a, q, c)) = Len(Around(q, CutCell(q, c)))
         /\ \A k \in 1 .. Len(Coloured(a, q, c)) :
              LET x == Coloured(a, q, c)[k]
                  y == Around(q, CutCell(q, c))[k]
              IN x.xb = y.xb /\ x.xe = y.xe /\ x.yb = y.yb /\ x.ye = y.ye
         /\ Loss(a, Coloured(a, q, c)) = Loss(a, Around(q, CutCell(q, c)))
<1> DEFINE ps  == Pieces(q, c[1], c[2])
           new == Coloured(a, q, c)
<1>1. /\ c = << c[1], c[2] >> /\ c[1] \in q.xb .. q.xe /\ c[2] \in q.yb .. q.ye
      /\ q.xb \in Int /\ q.xe \in Int /\ q.yb \in Int /\ q.ye \in Int
      /\ q.xb <= q.xe /\ q.yb <= q.ye
  BY DEF Cells, InGrid
<1>2. CutCell(q, c) \in Cells(q)
  BY <1>1 DEF CutCell, CutX, CutY, Cells
<1>3. ~Corner(q, c) => CutCell(q, c) = c
  BY <1>1 DEF CutCell, CutX, CutY, Corner
<1>4. Around(q, CutCell(q, c)) = ps
  BY DEF Around, CutCell, Pieces
<1>5. /\ ps \in Seq(Quadrant) /\ Len(ps) \in Nat
      /\ \A k \in 1 .. Len(ps) : InGrid(ps[k])
  BY BarePieces
<1>6. /\ Len(new) = Len(ps)
      /\ \A k \in 1 .. Len(ps) :
           /\ new[k].xb = ps[k].xb /\ new[k].xe = ps[k].xe
           /\ new[k].yb = ps[k].yb /\ new[k].ye = ps[k].ye
  <2> HIDE DEF ps
  <2>1. new = [k \in 1 .. Len(ps) |->
                 Colour(ps[k], IF k = 1 /\ Corner(q, c) THEN Remainder(a, q, ps)
                                                        ELSE Average(a, ps[k]))]
    BY DEF Coloured, ps
  <2> HIDE DEF new
  <2> QED
    BY <1>5, <2>1 DEF Colour
<1> HIDE DEF ps, new
<1>7. \A k \in 1 .. Len(new) : /\ InGrid(ps[k])
                               /\ Cells(new[k]) = Cells(ps[k])
                               /\ Size(new[k]) = Size(ps[k])
  BY <1>5, <1>6 DEF Cells, Size
<1>8. Loss(a, new) = Loss(a, ps)
  BY <1>5, <1>6, <1>7, LossSame
<1> QED
  BY <1>2, <1>3, <1>4, <1>6, <1>8 DEF new

\* Around the corner cell there is nothing but the quadrant.
LEMMA CornerScore ==
  ASSUME NEW a \in [Plane -> Int], NEW q, InGrid(q), NEW c, Corner(q, c)
  PROVE  Score(a, q, c) = Weight(a, q)
<1>1. Around(q, c) = << q >>
  BY DEF Corner, Around, PiecesAround, InGrid
<1>2. Len(Around(q, c)) = 1 /\ Around(q, c)[1] = q
  BY <1>1
<1>3. \A k \in 1 .. 1 : InGrid(Around(q, c)[k])
  BY <1>2
<1> QED
  BY <1>2, <1>3, FewAround

\* The cut at the best cell loses no more than any other, also when it is
\* moved off the corner.
LEMMA BestCut ==
  ASSUME NEW a \in [Plane -> Int], NEW q \in Coloureds, InGrid(q), ~Single(q),
         NEW e \in Candidates(q)
  PROVE  Loss(a, Coloured(a, q, BestCell(a, q))) <= Loss(a, Around(q, e))
<1> DEFINE c == BestCell(a, q)
           d == CutCell(q, c)
           K == Scale * SquaresIn(a, q)
<1>1. /\ c \in Candidates(q) /\ c \in Cells(q) /\ e \in Cells(q)
      /\ Score(a, q, e) <= Score(a, q, c)
      /\ Score(a, q, e) \in Int /\ Score(a, q, c) \in Int
  <2>1. /\ c \in Candidates(q)
        /\ IF Before(e, c) THEN Score(a, q, e) < BestScore(a, q)
                           ELSE Score(a, q, e) <= BestScore(a, q)
    BY BestCellTaken
  <2>2. c \in Cells(q) /\ e \in Cells(q)
    BY <2>1 DEF Candidates
  <2>3. Score(a, q, e) \in Int /\ Score(a, q, c) \in Int
    BY <2>2, ScoreIsInt
  <2>4. BestScore(a, q) = Score(a, q, c)
    BY DEF BestScore
  <2> HIDE DEF c
  <2> QED
    BY <2>1, <2>2, <2>3, <2>4
<1> HIDE DEF c
<1>2. /\ d \in Cells(q) /\ (~Corner(q, c) => d = c)
      /\ Loss(a, Coloured(a, q, c)) = Loss(a, Around(q, d))
  BY <1>1, CutAround
<1> HIDE DEF d
<1>3. /\ Weight(a, q) <= Score(a, q, d) /\ Score(a, q, d) \in Int
      /\ Loss(a, Around(q, d)) = K - Score(a, q, d)
  BY <1>2, AroundCounts
<1>4. Loss(a, Around(q, e)) = K - Score(a, q, e)
  BY <1>1, AroundCounts
<1>5. Score(a, q, c) <= Score(a, q, d)
  <2>1. CASE Corner(q, c)
    BY <1>3, <2>1, CornerScore
  <2>2. CASE ~Corner(q, c)
    BY <1>1, <1>2, <2>2
  <2> QED
    BY <2>1, <2>2
<1>6. K \in Int
  <2>1. Scale \in Int /\ SquaresIn(a, q) \in Int
    BY ScaleDivides, WeightIs
  <2> QED
    BY <2>1
<1> HIDE DEF K
<1>7. Score(a, q, e) <= Score(a, q, d)
  BY <1>1, <1>3, <1>5
<1>8. K - Score(a, q, d) <= K - Score(a, q, e)
  BY <1>1, <1>3, <1>6, <1>7
<1> QED
  BY <1>2, <1>3, <1>4, <1>8 DEF c

\* When it is the corner that wins, no other candidate came before it.
LEMMA CornerComesLast ==
  ASSUME NEW a \in [Plane -> Int], NEW q \in Coloureds, InGrid(q), ~Single(q),
         Candidates(q) # {}, Corner(q, BestCell(a, q)), q.xb < q.xe
  PROVE  Cells(Coloured(a, q, BestCell(a, q))[1]) \subseteq Empty
<1> DEFINE c   == BestCell(a, q)
           new == Coloured(a, q, c)
           x   == Around(q, CutCell(q, c))[1]
<1>1. c \in Candidates(q) /\ c \in Cells(q)
  BY BestCellTaken DEF Candidates
<1>2. /\ q.xb \in Int /\ q.xe \in Int /\ q.yb \in Int /\ q.ye \in Int
      /\ q.xb <= q.xe /\ q.yb <= q.ye
      /\ c[1] = q.xe /\ c[2] = q.yb
  BY DEF InGrid, Corner
<1>3. /\ new[1].xb = x.xb /\ new[1].xe = x.xe
      /\ new[1].yb = x.yb /\ new[1].ye = x.ye
  <2>1. Len(new) \in Nat /\ Len(new) >= 2
    <3>1. new \in Seq(Coloureds) /\ Len(new) >= 2
      BY <1>1, ColouredFit
    <3> HIDE DEF new
    <3> QED
      BY <3>1
  <2>2. 1 \in 1 .. Len(new)
    BY <2>1
  <2> HIDE DEF c
  <2> QED
    BY <1>1, <2>2, CutAround
<1>4. CutX(q, c[1], c[2]) = q.xe - 1 /\ CutY(q, c[1], c[2]) \in q.yb .. q.ye
  BY <1>2 DEF CutX, CutY
<1>5. /\ x.xb = q.xb /\ x.xe = q.xe - 1
      /\ x.yb >= q.yb /\ x.yb \in Int /\ x.ye = q.ye
  <2> DEFINE cy == CutY(q, c[1], c[2])
  <2>1. x = PiecesAround(q, q.xe - 1, cy)[1] /\ cy \in q.yb .. q.ye
    BY <1>4 DEF Around, CutCell
  <2> HIDE DEF x, cy
  <2>2. CASE cy > q.yb
    BY <1>2, <2>1, <2>2 DEF PiecesAround, Quad
  <2>3. CASE ~(cy > q.yb)
    BY <1>2, <2>1, <2>3 DEF PiecesAround, Quad
  <2> QED
    BY <2>2, <2>3
<1> HIDE DEF x, new
<1> SUFFICES ASSUME NEW d \in Cells(new[1]), d \notin Empty
             PROVE  FALSE
  BY DEF new
<1>6. d \in Cells(q) /\ d[1] < c[1]
  BY <1>2, <1>3, <1>5 DEF Cells
<1>7. Before(d, c) /\ d \in Candidates(q)
  BY <1>6 DEF Before, Candidates
<1>8. Score(a, q, d) < Score(a, q, c)
  BY <1>7, BestCellTaken DEF BestScore
<1>9. Score(a, q, c) = Weight(a, q)
  BY CornerScore
<1>10. Weight(a, q) <= Score(a, q, d) /\ Score(a, q, d) \in Int
  BY <1>6, AroundCounts
<1>11. Weight(a, q) \in Int
  BY WeightIs
<1> QED
  BY <1>8, <1>9, <1>10, <1>11

\* The cut that an iteration makes, seen from its list before and after.
CutMade(k, c) ==
  LET a == groupAvgs' IN
  /\ a \in [Plane -> Int]
  /\ quads[k] \in Coloureds /\ InGrid(quads[k]) /\ ~Single(quads[k])
  /\ Candidates(quads[k]) # {} /\ c = BestCell(a, quads[k])
  /\ cut' = [quad |-> k, cell |-> c]
  /\ SubSeq(quads', k, k + Len(quads') - Len(quads)) = Coloured(a, quads[k], c)
  /\ quads'[k] = Coloured(a, quads[k], c)[1]

\* The list after a cut, with the pieces in the place of the quadrant.
LEMMA PutColoureds ==
  ASSUME NEW list \in Seq(Coloureds), NEW s \in 1 .. Len(list),
         NEW pieces \in Seq(Coloureds), Len(pieces) >= 1
  PROVE  /\ Put(list, s, pieces) \in Seq(Coloureds)
         /\ Len(Put(list, s, pieces)) = Len(list) + Len(pieces) - 1
         /\ \A j \in 1 .. Len(pieces) : Put(list, s, pieces)[s + j - 1] = pieces[j]
<1>1. /\ Put(list, s, pieces) \in Seq(Coloureds)
      /\ Len(Put(list, s, pieces)) = Len(list) + Len(pieces) - 1
  BY PutElements
<1>2. ASSUME NEW j \in 1 .. Len(pieces)
      PROVE  Put(list, s, pieces)[s + j - 1] = pieces[j]
  BY PutElements
<1> QED
  BY <1>1, <1>2

LEMMA CutIsMade ==
  ASSUME QuadInv, Next, cut' # NoCut
  PROVE  \E k, c : CutMade(k, c)
<1> DEFINE k      == BestQuad(groupAvgs')
           c      == BestCell(groupAvgs', quads[k])
           pieces == Coloured(groupAvgs', quads[k], c)
<1>1. ~First
  BY DEF First, QuadInv
<1>2. Iterate /\ Competing # {}
  BY <1>1 DEF Next, Iterate
<1>3. /\ groupAvgs' \in [Plane -> Int]
      /\ k \in 1 .. Len(quads) /\ quads[k] \in Coloureds
      /\ InGrid(quads[k]) /\ ~Single(quads[k])
      /\ Candidates(quads[k]) # {} /\ c \in Cells(quads[k])
      /\ cut' = [quad |-> k, cell |-> c]
      /\ quads' = Put(quads, k, pieces)
  BY <1>2, SplitTaken
<1>4. pieces \in Seq(Coloureds) /\ Len(pieces) >= 2
  BY <1>3, ColouredFit
<1>5. c = BestCell(groupAvgs', quads[k])
  OBVIOUS
<1>6. pieces = Coloured(groupAvgs', quads[k], c)
  OBVIOUS
<1>7. quads \in Seq(Coloureds)
  BY DEF QuadInv
<1> HIDE DEF k, c, pieces
<1>8. /\ quads' \in Seq(Coloureds) /\ Len(quads') = Len(quads) + Len(pieces) - 1
      /\ \A j \in 1 .. Len(pieces) : quads'[k + j - 1] = pieces[j]
  <2>1. Len(pieces) >= 1
    BY <1>4
  <2>2. /\ Put(quads, k, pieces) \in Seq(Coloureds)
        /\ Len(Put(quads, k, pieces)) = Len(quads) + Len(pieces) - 1
        /\ \A j \in 1 .. Len(pieces) : Put(quads, k, pieces)[k + j - 1] = pieces[j]
    <3>1. k \in 1 .. Len(quads)
      BY <1>3
    <3>2. pieces \in Seq(Coloureds) /\ quads \in Seq(Coloureds)
      BY <1>4, <1>7
    <3> QED
      BY <2>1, <3>1, <3>2, PutColoureds
  <2> QED
    BY <1>3, <2>2
<1> DEFINE part == SubSeq(quads', k, k + Len(quads') - Len(quads))
<1>9. Len(pieces) \in Nat /\ Len(quads) \in Nat /\ k \in Int
  BY <1>3, <1>4, <1>7
<1>10. part = pieces
  <2>1. k + Len(quads') - Len(quads) = k + Len(pieces) - 1
    BY <1>8, <1>9
  <2>2. part = [j \in 1 .. Len(pieces) |-> quads'[k + j - 1]]
    <3> DEFINE m == k + Len(pieces) - 1
    <3>1. part = SubSeq(quads', k, m) /\ m \in Int /\ m - k + 1 = Len(pieces)
      BY <1>9, <2>1
    <3> HIDE DEF m
    <3>2. SubSeq(quads', k, m) = [j \in 1 .. m - k + 1 |-> quads'[k + j - 1]]
      BY <1>8, <1>9, <3>1
    <3> QED
      BY <3>1, <3>2
  <2>3. pieces = [j \in 1 .. Len(pieces) |-> pieces[j]]
    BY <1>4
  <2> QED
    BY <1>8, <2>2, <2>3
<1>11. quads'[k] = pieces[1]
  <2>1. 1 \in 1 .. Len(pieces) /\ k + 1 - 1 = k
    BY <1>4, <1>9
  <2> QED
    BY <1>8, <2>1
<1>12. CutMade(k, c)
  BY <1>3, <1>5, <1>6, <1>10, <1>11 DEF CutMade
<1> QED
  BY <1>12

\* No other cell with records of the split quadrant would have drawn the
\* sampled averages with a smaller squared error: the score that genHeat
\* maximises (heat.cc:641-736) orders the cuts as their errors do, and moving
\* the cut off the corner loses nothing.
THEOREM CutStaysBestOfQuadrant == Spec => CutIsBestOfQuadrant
<1> DEFINE Best == cut' # NoCut =>
             LET q == quads[cut'.quad]
                 pieces == SubSeq(quads', cut'.quad, cut'.quad + Len(quads') - Len(quads))
             IN \A c \in Candidates(q) :
                  Loss(groupAvgs', pieces)
                    <= Loss(groupAvgs', PiecesAround(q, c[1], c[2]))
<1>1. ASSUME QuadInv, Next
      PROVE  Best
  <2> SUFFICES ASSUME cut' # NoCut
               PROVE  Best
    OBVIOUS
  <2>1. PICK k, b : CutMade(k, b)
    BY <1>1, CutIsMade
  <2>2. cut'.quad = k
    BY <2>1 DEF CutMade
  <2>3. ASSUME NEW e \in Candidates(quads[k])
        PROVE  Loss(groupAvgs', SubSeq(quads', k, k + Len(quads') - Len(quads)))
                 <= Loss(groupAvgs', PiecesAround(quads[k], e[1], e[2]))
    <3>1. Loss(groupAvgs', Coloured(groupAvgs', quads[k], b))
            <= Loss(groupAvgs', Around(quads[k], e))
      BY <2>1, BestCut DEF CutMade
    <3> QED
      BY <2>1, <3>1 DEF CutMade, Around
  <2> QED
    BY <2>2, <2>3
<1>2. QuadInv /\ [Next]_vars => [Best]_vars
  <2> HIDE DEF Best
  <2> QED
    BY <1>1
<1> QED
  BY <1>2, QuadInvHolds, PTL DEF Spec, CutIsBestOfQuadrant

\* Where the corner of a row or of a rectangle is cut off, the piece whose
\* mean is derived and not computed (heat.cc:916, 997, 1072) has no cell with
\* records: a cut scores no less than no cut, so any candidate before the
\* corner would have won.
THEOREM CornerStillHidesNothing == Spec => CornerHidesNothing
<1> DEFINE Hidden == cut' # NoCut /\ Corner(quads[cut'.quad], cut'.cell) =>
             LET q == quads[cut'.quad] IN
             q.xb < q.xe => Cells(quads'[cut'.quad]) \subseteq Empty
<1>1. ASSUME QuadInv, Next
      PROVE  Hidden
  <2> SUFFICES ASSUME cut' # NoCut
               PROVE  Hidden
    OBVIOUS
  <2>1. PICK k, c : CutMade(k, c)
    BY <1>1, CutIsMade
  <2>2. cut'.quad = k /\ cut'.cell = c
    BY <2>1 DEF CutMade
  <2>3. ASSUME Corner(quads[k], c), quads[k].xb < quads[k].xe
        PROVE  Cells(quads'[k]) \subseteq Empty
    <3>1. Cells(Coloured(groupAvgs', quads[k], c)[1]) \subseteq Empty
      BY <2>1, <2>3, CornerComesLast DEF CutMade
    <3> QED
      BY <2>1, <3>1 DEF CutMade
  <2> QED
    BY <2>2, <2>3
<1>2. QuadInv /\ [Next]_vars => [Hidden]_vars
  <2> HIDE DEF Hidden
  <2> QED
    BY <1>1
<1> QED
  BY <1>2, QuadInvHolds, PTL DEF Spec, CornerHidesNothing
=============================================================================
