----------------------------- MODULE HeatProofs -----------------------------
(***************************************************************************)
(* Theorems about the heatmap engine, for every number of charts, every    *)
(* size and every set of empty cells of their grids, every size of the     *)
(* arrays.                                                                 *)
(***************************************************************************)
EXTENDS Heat, PartitionProofs

\* The inductive invariant: the four invariants need each other.  Colours are
\* complete because the empty cells are known exactly; what a quadrant may be
\* cut into stays inside the arrays because the list it is in covers a grid.
HeatInv ==
  /\ HeatTypeOK
  /\ KBestTiles
  /\ EmptiesExact
  /\ BaselineComplete

-----------------------------------------------------------------------------
\* Every list of quadrants of cells is one of quadrants.
LEMMA CellQuadsAreQuadrants ==
  ASSUME NEW list \in Seq(CellQuad)
  PROVE  list \in Seq(Quadrant)
<1>1. MaxSide \in Nat
  BY SizeAssumption
<1>2. CellQuad \subseteq Quadrant
  BY <1>1 DEF CellQuad, Quadrant
<1> QED
  BY <1>2

\* A list that covers a grid within the arrays is one of quadrants of cells.
LEMMA TilesAreCellQuads ==
  ASSUME NEW list \in Seq(Quadrant), NEW w \in 1 .. MaxSide,
         NEW h \in 1 .. MaxSide, Tiles(list, w, h)
  PROVE  list \in Seq(CellQuad)
<1>1. MaxSide \in Nat
  BY SizeAssumption
<1>2. ASSUME NEW k \in 1 .. Len(list)
      PROVE  list[k] \in CellQuad
  <2>1. list[k] \in Quadrant
    OBVIOUS
  <2>2. /\ 0 <= list[k].xb /\ list[k].xb <= list[k].xe /\ list[k].xe < w
        /\ 0 <= list[k].yb /\ list[k].yb <= list[k].ye /\ list[k].ye < h
    BY DEF Tiles
  <2>3. Edges(list[k]) /\ DOMAIN list[k] = {"xb", "xe", "yb", "ye"}
    BY <2>1 DEF Quadrant, Edges
  <2>4. /\ w \in Int /\ w <= MaxSide /\ h \in Int /\ h <= MaxSide
    BY <1>1
  <2>5. /\ list[k].xb \in 0 .. MaxSide - 1 /\ list[k].xe \in 0 .. MaxSide - 1
        /\ list[k].yb \in 0 .. MaxSide - 1 /\ list[k].ye \in 0 .. MaxSide - 1
    BY <1>1, <2>2, <2>3, <2>4 DEF Edges
  <2> QED
    BY <2>1, <2>5 DEF Quadrant, CellQuad
<1>3. Len(list) \in Nat /\ list \in [1 .. Len(list) -> Quadrant]
  OBVIOUS
<1>4. list \in [1 .. Len(list) -> CellQuad]
  BY <1>2, <1>3
<1> QED
  BY <1>3, <1>4

\* The loaded chart's grid lies within the arrays.
LEMMA PlaneSize ==
  ASSUME Loaded, HeatTypeOK
  PROVE  /\ Columns \in 1 .. MaxSide /\ Rows \in 1 .. MaxSide
         /\ EmptyOf[chart] \subseteq Plane
         /\ Plane \subseteq AllCells
<1>1. chart \in Charts
  BY DEF Loaded, HeatTypeOK
<1>2. /\ Columns \in 1 .. MaxSide /\ Rows \in 1 .. MaxSide
      /\ EmptyOf[chart] \subseteq Plane
  BY <1>1, ChartAssumption DEF Columns, Rows, Plane
<1>3. Plane \subseteq AllCells
  BY <1>2, SizeAssumption DEF Plane, AllCells, Grid
<1> QED
  BY <1>2, <1>3

\* The first iteration's quadrant covers the grid.
LEMMA WholeGridTiles ==
  ASSUME NEW w \in 1 .. MaxSide, NEW h \in 1 .. MaxSide
  PROVE  /\ WholeGrid(w, h) \in Seq(Quadrant)
         /\ Tiles(WholeGrid(w, h), w, h)
         /\ WholeGrid(w, h)[1] \in CellQuad
<1>1. w \in Nat /\ h \in Nat /\ w >= 1 /\ h >= 1 /\ MaxSide \in Nat
      /\ w <= MaxSide /\ h <= MaxSide
  BY SizeAssumption
<1>2. /\ Len(WholeGrid(w, h)) = 1
      /\ WholeGrid(w, h)[1] = Quad(0, w - 1, 0, h - 1)
  BY DEF WholeGrid
<1>3. Quad(0, w - 1, 0, h - 1) \in Quadrant \cap CellQuad
  BY <1>1 DEF Quad, Quadrant, CellQuad
<1>4. Tiles(WholeGrid(w, h), w, h)
  BY <1>1, <1>2 DEF Tiles, Inside, Quad
<1> QED
  BY <1>2, <1>3, <1>4 DEF WholeGrid

\* What a split of a stored iteration gives.
LEMMA SplitOfStored ==
  ASSUME HeatTypeOK, KBestTiles, NEW i \in Slots, NEW x, NEW y,
         NEW s \in Divisible(kBest[i]), << x, y >> \in Cells(kBest[i][s])
  PROVE  LET pieces == Pieces(kBest[i][s], x, y)
         IN /\ pieces \in Seq(Quadrant)
            /\ (Len(pieces) = 2 \/ Len(pieces) = 4)
            /\ Fits(pieces, kBest[i][s])
            /\ s \in 1 .. Len(kBest[i])
            /\ Holds(Put(kBest[i], s, pieces), kBest[i], s, pieces)
            /\ \E w, h \in 1 .. MaxSide : Tiles(Put(kBest[i], s, pieces), w, h)
<1> DEFINE list   == kBest[i]
           pieces == Pieces(list[s], x, y)
<1>1. list \in Seq(Quadrant)
  BY CellQuadsAreQuadrants DEF HeatTypeOK
<1>2. s \in 1 .. Len(list) /\ ~Single(list[s])
  BY DEF Divisible
<1>3. list # << >>
  BY <1>2
<1>4. PICK w \in 1 .. MaxSide, h \in 1 .. MaxSide : Tiles(list, w, h)
  BY <1>3 DEF KBestTiles
<1> HIDE DEF list, pieces
<1>5. CanCutAt(list[s], x, y)
  <2>1. list[s] \in Quadrant
    BY <1>1, <1>2
  <2>2. Proper(list[s])
    BY <1>2, <1>4, <2>1 DEF Tiles, Proper
  <2> QED
    BY <2>2 DEF CanCutAt, Cells, list
<1>6. /\ pieces \in Seq(Quadrant)
      /\ Fits(pieces, list[s])
      /\ (Len(pieces) = 2 \/ Len(pieces) = 4)
  BY <1>2, <1>5, PiecesFit DEF pieces
<1>7. Len(pieces) >= 1
  <2>1. CASE Len(pieces) = 2
    BY <2>1
  <2>2. CASE Len(pieces) = 4
    BY <2>2
  <2> QED
    BY <1>6, <2>1, <2>2
<1>8. w \in Int /\ h \in Int
  BY SizeAssumption
<1>9. Tiles(Put(list, s, pieces), w, h)
  BY <1>1, <1>2, <1>4, <1>6, <1>7, <1>8, PutTiles
<1>10. s \in 1 .. Len(list) /\ list \in Seq(Quadrant)
  BY <1>1, <1>2
<1>11. /\ pieces \in Seq(Quadrant) /\ (Len(pieces) = 2 \/ Len(pieces) = 4)
       /\ Fits(pieces, list[s])
  BY <1>6
<1>12. Holds(Put(list, s, pieces), list, s, pieces)
  BY <1>7, <1>10, <1>11, PutHolds
<1>13. \E a, b \in 1 .. MaxSide : Tiles(Put(list, s, pieces), a, b)
  BY <1>9
<1> QED
  BY <1>10, <1>11, <1>12, <1>13, Zenon DEF list, pieces

-----------------------------------------------------------------------------
LEMMA HeatInitInv == HeatInit => HeatInv
<1> SUFFICES ASSUME HeatInit
             PROVE  HeatInv
  OBVIOUS
<1>1. 0 \in 0 .. MaxSide - 1 /\ ZeroQuad \in CellQuad
  BY SizeAssumption DEF ZeroQuad, Quad, CellQuad
<1>2. HeatTypeOK
  <2>1. kBest \in [Slots -> Seq(CellQuad)]
    BY DEF HeatInit
  <2>2. newQuads \in [1 .. 4 -> CellQuad]
    BY <1>1 DEF HeatInit
  <2>3. /\ chart \in Charts \cup {NoChart}
        /\ samples \in [AllCells -> SUBSET Charts]
        /\ empties \subseteq AllCells
        /\ splitQuad \in Int /\ splitQuad >= -1
    BY DEF HeatInit
  <2>4. /\ firstIteration \in BOOLEAN /\ isTwoSeg \in BOOLEAN
        /\ isContinue \in BOOLEAN
    BY DEF HeatInit
  <2>5. avgMap = << >> /\ DOMAIN << >> = {}
    BY DEF HeatInit
  <2> QED
    BY <2>1, <2>2, <2>3, <2>4, <2>5 DEF HeatTypeOK
<1>3. KBestTiles
  BY DEF HeatInit, KBestTiles
<1>4. EmptiesExact /\ BaselineComplete
  BY DEF HeatInit, EmptiesExact, BaselineComplete, Loaded
<1> QED
  BY <1>2, <1>3, <1>4 DEF HeatInv

LEMMA LoadAxesDataInv ==
  ASSUME HeatInv, NEW c \in Charts, LoadAxesData(c)
  PROVE  HeatInv'
<1>1. HeatTypeOK'
  BY DEF HeatInv, HeatTypeOK, LoadAxesData
<1>2. KBestTiles'
  BY DEF HeatInv, KBestTiles, LoadAxesData
<1>3. EmptiesExact' /\ BaselineComplete'
  BY DEF LoadAxesData, EmptiesExact, BaselineComplete
<1> QED
  BY <1>1, <1>2, <1>3 DEF HeatInv

LEMMA ResetInv ==
  ASSUME HeatInv, Reset
  PROVE  HeatInv'
<1>1. ZeroQuad \in CellQuad
  BY SizeAssumption DEF ZeroQuad, Quad, CellQuad
<1>2. HeatTypeOK'
  <2>1. kBest' \in [Slots -> Seq(CellQuad)]
    BY DEF Reset
  <2>2. newQuads' \in [1 .. 4 -> CellQuad]
    BY <1>1 DEF Reset
  <2>3. samples' \in [AllCells -> SUBSET Charts]
    BY DEF Reset
  <2>4. splitQuad' \in Int /\ splitQuad' >= -1 /\ empties' \subseteq AllCells
    BY DEF Reset
  <2>5. /\ firstIteration' \in BOOLEAN /\ isTwoSeg' \in BOOLEAN
        /\ isContinue' \in BOOLEAN
    BY DEF Reset
  <2>6. chart' = chart /\ avgMap' = avgMap
    BY DEF Reset
  <2> QED
    BY <2>1, <2>2, <2>3, <2>4, <2>5, <2>6 DEF HeatInv, HeatTypeOK
<1>3. KBestTiles'
  BY DEF Reset, KBestTiles
<1>4. EmptiesExact'
  BY DEF Reset, EmptiesExact
<1>5. BaselineComplete'
  BY DEF HeatInv, Reset, BaselineComplete, Plane, Columns, Rows
<1> QED
  BY <1>2, <1>3, <1>4, <1>5 DEF HeatInv

\* Sampling part of the grid keeps the types and the knowledge of the empty
\* cells; sampling all of it gains that knowledge.
LEMMA SampleKeeps ==
  ASSUME HeatInv, Loaded, NEW cells, cells \subseteq Plane, Sample(cells)
  PROVE  /\ samples' \in [AllCells -> SUBSET Charts]
         /\ empties' \subseteq AllCells
         /\ empties \subseteq empties'
         /\ empties \cap Plane = EmptyOf[chart]
              => empties' \cap Plane = EmptyOf[chart]
<1>1. chart \in Charts /\ HeatTypeOK
  BY DEF HeatInv, HeatTypeOK, Loaded
<1>2. EmptyOf[chart] \subseteq Plane /\ Plane \subseteq AllCells
  BY <1>1, PlaneSize
<1>3. samples' \in [AllCells -> SUBSET Charts]
  BY <1>1 DEF HeatTypeOK, Sample
<1> QED
  BY <1>1, <1>2, <1>3 DEF HeatTypeOK, Sample

LEMMA SampleGridKnows ==
  ASSUME HeatInv, Loaded, SampleGrid
  PROVE  /\ samples' \in [AllCells -> SUBSET Charts]
         /\ empties' \subseteq AllCells
         /\ empties' \cap Plane = EmptyOf[chart]
<1>1. chart \in Charts /\ HeatTypeOK
  BY DEF HeatInv, HeatTypeOK, Loaded
<1>2. EmptyOf[chart] \subseteq Plane /\ Plane \subseteq AllCells
  BY <1>1, PlaneSize
<1>3. samples' \in [AllCells -> SUBSET Charts]
  BY <1>1 DEF HeatTypeOK, SampleGrid
<1> QED
  BY <1>1, <1>2, <1>3 DEF HeatTypeOK, SampleGrid

LEMMA GenHeatFirstInv ==
  ASSUME HeatInv, Loaded, NEW i \in 0 .. MaxIters, GenHeatFirst(i)
  PROVE  HeatInv'
<1>1. i \in Slots /\ HeatTypeOK
  BY SizeAssumption DEF GenHeatFirst, Slots, HeatInv
<1>2. Columns \in 1 .. MaxSide /\ Rows \in 1 .. MaxSide
  BY <1>1, PlaneSize
<1>3. /\ WholeGrid(Columns, Rows) \in Seq(CellQuad)
      /\ Tiles(WholeGrid(Columns, Rows), Columns, Rows)
      /\ Quad(0, Columns - 1, 0, Rows - 1) \in CellQuad
  BY <1>2, WholeGridTiles, TilesAreCellQuads DEF WholeGrid
<1>4. SampleGrid
  BY DEF GenHeatFirst
<1>5. HeatTypeOK'
  <2>1. kBest' \in [Slots -> Seq(CellQuad)]
    BY <1>1, <1>3 DEF GenHeatFirst, HeatTypeOK
  <2>2. newQuads' \in [1 .. 4 -> CellQuad]
    BY <1>1, <1>3 DEF GenHeatFirst, HeatTypeOK
  <2>3. /\ samples' \in [AllCells -> SUBSET Charts]
        /\ empties' \subseteq AllCells
    BY <1>4, SampleGridKnows
  <2>4. splitQuad' \in Int /\ splitQuad' >= -1
    BY DEF GenHeatFirst
  <2>5. /\ firstIteration' = FALSE /\ isTwoSeg' = isTwoSeg
        /\ isContinue' = isContinue /\ chart' = chart /\ avgMap' = avgMap
    BY DEF GenHeatFirst
  <2> QED
    BY <1>1, <2>1, <2>2, <2>3, <2>4, <2>5 DEF HeatTypeOK
<1>6. KBestTiles'
  <2>1. kBest' = [kBest EXCEPT ![i] = WholeGrid(Columns, Rows)]
    BY DEF GenHeatFirst
  <2> QED
    BY <1>1, <1>2, <1>3, <2>1 DEF HeatInv, HeatTypeOK, KBestTiles
<1>7. EmptiesExact'
  BY <1>4, SampleGridKnows
     DEF GenHeatFirst, EmptiesExact, Plane, Columns, Rows
<1>8. BaselineComplete'
  BY DEF HeatInv, GenHeatFirst, BaselineComplete, Plane, Columns, Rows
<1> QED
  BY <1>5, <1>6, <1>7, <1>8 DEF HeatInv

\* A split of quadrant s of the iteration before, in the store and in the
\* answer.
LEMMA SplitAtKeeps ==
  ASSUME HeatTypeOK, KBestTiles, NEW i \in Slots, i > 0,
         NEW s \in Divisible(kBest[i - 1]), NEW x, NEW y,
         << x, y >> \in Cells(kBest[i - 1][s]), SplitAt(i, s, x, y)
  PROVE  /\ kBest' \in [Slots -> Seq(CellQuad)]
         /\ KBestTiles'
         /\ newQuads' \in [1 .. 4 -> CellQuad]
         /\ splitQuad' \in Int /\ splitQuad' >= -1
         /\ isTwoSeg' \in BOOLEAN
         /\ splitQuad' + 1 = s /\ s \in 1 .. Len(kBest[i - 1])
         /\ kBest'[i] = Put(kBest[i - 1], s, Answer')
         /\ Answer' \in Seq(CellQuad) /\ (Len(Answer') = 2 \/ Len(Answer') = 4)
         /\ Fits(Answer', kBest[i - 1][s])
<1> DEFINE prev   == kBest[i - 1]
           pieces == Pieces(prev[s], x, y)
           new    == Put(prev, s, pieces)
<1>1. i - 1 \in Slots /\ i \in Slots
  BY SizeAssumption DEF Slots
<1>2. /\ pieces \in Seq(Quadrant)
      /\ (Len(pieces) = 2 \/ Len(pieces) = 4)
      /\ Fits(pieces, prev[s])
      /\ s \in 1 .. Len(prev)
      /\ Holds(new, prev, s, pieces)
      /\ \E w, h \in 1 .. MaxSide : Tiles(new, w, h)
  BY <1>1, SplitOfStored
<1>3. /\ kBest' = [kBest EXCEPT ![i] = new]
      /\ splitQuad' = s - 1
      /\ newQuads' = [k \in 1 .. 4 |-> IF k <= Len(pieces) THEN pieces[k]
                                                           ELSE newQuads[k]]
      /\ isTwoSeg' = (Len(pieces) = 2)
  BY DEF SplitAt
<1> HIDE DEF pieces, new
<1>4. new \in Seq(CellQuad)
  BY <1>2, TilesAreCellQuads DEF Holds
<1>5. kBest' \in [Slots -> Seq(CellQuad)] /\ kBest'[i] = new
  BY <1>1, <1>3, <1>4 DEF HeatTypeOK
<1>6. KBestTiles'
  BY <1>1, <1>2, <1>3 DEF KBestTiles, HeatTypeOK
<1>7. Len(prev) \in Nat /\ s \in Nat /\ s >= 1 /\ s <= Len(prev)
  <2>1. prev \in Seq(CellQuad)
    BY <1>1 DEF HeatTypeOK
  <2> QED
    BY <1>2, <2>1
<1>8. pieces \in Seq(CellQuad)
  <2>1. ASSUME NEW k \in 1 .. Len(pieces)
        PROVE  pieces[k] \in CellQuad
    <3>1. s + k - 1 \in 1 .. Len(new)
      BY <1>2, <1>7 DEF Holds
    <3>2. new[s + k - 1] \in CellQuad
      BY <1>4, <3>1
    <3>3. new[s + k - 1] = pieces[k]
      BY <1>2 DEF Holds
    <3> QED
      BY <3>2, <3>3
  <2>2. Len(pieces) \in Nat /\ pieces \in [1 .. Len(pieces) -> Quadrant]
    BY <1>2
  <2>3. pieces \in [1 .. Len(pieces) -> CellQuad]
    BY <2>1, <2>2
  <2> QED
    BY <2>2, <2>3
<1>9. newQuads' \in [1 .. 4 -> CellQuad]
  <2>1. ASSUME NEW k \in 1 .. 4
        PROVE  (IF k <= Len(pieces) THEN pieces[k] ELSE newQuads[k])
                 \in CellQuad
    BY <1>2, <1>8 DEF HeatTypeOK
  <2> QED
    BY <1>3, <2>1
<1>10. Answer' = pieces
  <2>1. splitQuad' # -1
    BY <1>3, <1>7
  <2>2. CASE Len(pieces) = 2
    <3>1. Answer' = << newQuads'[1], newQuads'[2] >>
      BY <1>3, <2>1, <2>2 DEF Answer
    <3>2. newQuads'[1] = pieces[1] /\ newQuads'[2] = pieces[2]
      BY <1>3, <2>2
    <3>3. pieces = << pieces[1], pieces[2] >>
      BY <1>2, <2>2
    <3> QED
      BY <3>1, <3>2, <3>3
  <2>3. CASE Len(pieces) = 4
    <3>0. Len(pieces) # 2
      BY <2>3
    <3>4. ~isTwoSeg'
      BY <1>3, <3>0
    <3>1. Answer' = newQuads'
      BY <2>1, <3>4 DEF Answer
    <3>2. newQuads' = [k \in 1 .. 4 |-> pieces[k]]
      BY <1>3, <2>3
    <3>3. pieces = [k \in 1 .. 4 |-> pieces[k]]
      BY <1>2, <2>3
    <3> QED
      BY <3>1, <3>2, <3>3
  <2> QED
    BY <1>2, <2>2, <2>3
<1> QED
  BY <1>2, <1>3, <1>5, <1>6, <1>7, <1>8, <1>9, <1>10 DEF new

LEMMA GenHeatNextInv ==
  ASSUME HeatInv, Loaded, NEW i \in 0 .. MaxIters, GenHeatNext(i)
  PROVE  HeatInv'
<1>1. /\ i \in Slots /\ i - 1 \in Slots /\ i > 0
      /\ HeatTypeOK /\ KBestTiles
  BY SizeAssumption DEF GenHeatNext, Slots, HeatInv
<1> DEFINE cells == DivisibleCells(kBest[i - 1]) \ empties
<1>2. cells \subseteq Plane /\ Sample(cells)
  BY DEF GenHeatNext
<1>3. /\ samples' \in [AllCells -> SUBSET Charts]
      /\ empties' \subseteq AllCells
      /\ empties \cap Plane = EmptyOf[chart]
           => empties' \cap Plane = EmptyOf[chart]
  BY <1>2, SampleKeeps
<1>4. /\ chart' = chart /\ firstIteration' = firstIteration
      /\ avgMap' = avgMap /\ isContinue' = isContinue /\ ~firstIteration
  BY DEF GenHeatNext
<1>5. EmptiesExact' /\ BaselineComplete'
  BY <1>3, <1>4
     DEF HeatInv, EmptiesExact, BaselineComplete, Loaded, Plane, Columns, Rows
<1>6. /\ kBest' \in [Slots -> Seq(CellQuad)]
      /\ KBestTiles'
      /\ newQuads' \in [1 .. 4 -> CellQuad]
      /\ splitQuad' \in Int /\ splitQuad' >= -1
      /\ isTwoSeg' \in BOOLEAN
  <2>1. CASE NothingToSplit(i)
    <3>1. /\ kBest' = [kBest EXCEPT ![i] = kBest[i - 1]]
          /\ newQuads' = newQuads /\ splitQuad' = splitQuad
          /\ isTwoSeg' = isTwoSeg
      BY <2>1 DEF NothingToSplit
    <3>2. kBest' \in [Slots -> Seq(CellQuad)]
      BY <1>1, <3>1 DEF HeatTypeOK
    <3>3. KBestTiles'
      BY <1>1, <3>1 DEF HeatTypeOK, KBestTiles
    <3> QED
      BY <1>1, <3>1, <3>2, <3>3 DEF HeatTypeOK
  <2>2. CASE \E s \in Divisible(kBest[i - 1]) :
               \E c \in Cells(kBest[i - 1][s]) \ empties' :
                 SplitAt(i, s, c[1], c[2])
    <3>1. PICK s \in Divisible(kBest[i - 1]) :
            \E c \in Cells(kBest[i - 1][s]) \ empties' :
              SplitAt(i, s, c[1], c[2])
      BY <2>2
    <3>2. PICK c \in Cells(kBest[i - 1][s]) : SplitAt(i, s, c[1], c[2])
      BY <3>1
    <3>3. << c[1], c[2] >> \in Cells(kBest[i - 1][s])
      BY DEF Cells
    <3> QED
      BY <1>1, <3>2, <3>3, SplitAtKeeps
  <2> QED
    BY <2>1, <2>2 DEF GenHeatNext
<1>7. HeatTypeOK'
  BY <1>1, <1>3, <1>4, <1>6 DEF HeatTypeOK
<1> QED
  BY <1>5, <1>6, <1>7 DEF HeatInv

LEMMA GenHeatBaseInv ==
  ASSUME HeatInv, GenHeatBase
  PROVE  HeatInv'
<1>1. Loaded /\ HeatTypeOK /\ KBestTiles
  BY DEF GenHeatBase, HeatInv
<1>2. EmptyOf[chart] \subseteq Plane /\ Plane \subseteq AllCells
  BY <1>1, PlaneSize
<1>3. /\ samples' \in [AllCells -> SUBSET Charts]
      /\ empties' \subseteq AllCells
      /\ empties' \cap Plane = EmptyOf[chart]
  <2>1. CASE firstIteration
    BY <1>1, <2>1, SampleGridKnows DEF GenHeatBase
  <2>2. CASE ~firstIteration
    <3>1. Sample(Plane \ empties)
      BY <2>2 DEF GenHeatBase
    <3>2. empties \cap Plane = EmptyOf[chart]
      BY <1>1, <2>2 DEF HeatInv, EmptiesExact
    <3> QED
      BY <1>1, <3>1, <3>2, SampleKeeps
  <2> QED
    BY <2>1, <2>2
<1>4. /\ chart' = chart /\ kBest' = kBest /\ splitQuad' = splitQuad
      /\ newQuads' = newQuads /\ isTwoSeg' = isTwoSeg
      /\ firstIteration' = FALSE
      /\ isContinue' \in BOOLEAN
  BY DEF GenHeatBase
<1>5. avgMap' = [c \in DOMAIN avgMap \cup (Plane \ empties') |->
                   IF c \in Plane \ empties' THEN samples'[c] ELSE avgMap[c]]
  BY DEF GenHeatBase
<1>6. DOMAIN avgMap' = DOMAIN avgMap \cup (Plane \ EmptyOf[chart])
  BY <1>3, <1>5
<1>7. DOMAIN avgMap \subseteq AllCells /\ DOMAIN avgMap' \subseteq AllCells
  BY <1>1, <1>2, <1>6 DEF HeatTypeOK
<1>8. ASSUME NEW c \in DOMAIN avgMap'
      PROVE  avgMap'[c] \subseteq Charts
  <2>1. CASE c \in Plane \ empties'
    BY <1>2, <1>3, <1>5, <2>1
  <2>2. CASE c \notin Plane \ empties'
    BY <1>1, <1>5, <2>2 DEF HeatTypeOK
  <2> QED
    BY <2>1, <2>2
<1>9. HeatTypeOK'
  BY <1>1, <1>3, <1>4, <1>7, <1>8 DEF HeatTypeOK
<1>10. KBestTiles'
  BY <1>1, <1>4 DEF KBestTiles
<1>11. EmptiesExact'
  BY <1>3, <1>4 DEF EmptiesExact, Plane, Columns, Rows
<1>12. BaselineComplete'
  <2>1. DOMAIN avgMap \subseteq Plane \ EmptyOf[chart]
    <3>1. CASE avgMap = << >>
      <4>1. DOMAIN << >> = {}
        OBVIOUS
      <4> QED
        BY <3>1, <4>1
    <3>2. CASE avgMap # << >>
      BY <3>2 DEF HeatInv, BaselineComplete
    <3> QED
      BY <3>1, <3>2
  <2>2. DOMAIN avgMap' = Plane \ EmptyOf[chart]
    BY <1>6, <2>1
  <2> QED
    BY <1>4, <2>2 DEF BaselineComplete, Plane, Columns, Rows
<1> QED
  BY <1>9, <1>10, <1>11, <1>12 DEF HeatInv

LEMMA HeatNextInv ==
  ASSUME HeatInv, [HeatNext]_heatVars
  PROVE  HeatInv'
<1>1. ASSUME NEW c \in Charts, LoadAxesData(c)
      PROVE  HeatInv'
  BY <1>1, LoadAxesDataInv
<1>2. CASE Reset
  BY <1>2, ResetInv
<1>3. ASSUME NEW i \in 0 .. MaxIters, GenHeat(i)
      PROVE  HeatInv'
  BY <1>3, GenHeatFirstInv, GenHeatNextInv DEF GenHeat
<1>4. CASE GenHeatBase
  BY <1>4, GenHeatBaseInv
<1>5. CASE UNCHANGED heatVars
  BY <1>5 DEF heatVars, HeatInv, HeatTypeOK, KBestTiles, EmptiesExact,
              BaselineComplete, Loaded, Plane, Columns, Rows
<1> QED
  BY <1>1, <1>2, <1>3, <1>4, <1>5 DEF HeatNext

-----------------------------------------------------------------------------
LEMMA HeatInvariant == HeatSpec => []HeatInv
<1>1. HeatInit => HeatInv
  BY HeatInitInv
<1>2. HeatInv /\ [HeatNext]_heatVars => HeatInv'
  BY HeatNextInv
<1> QED
  BY <1>1, <1>2, PTL DEF HeatSpec

\* Whatever is called in whatever order, no quadrant leaves the arrays
\* (heat.cc:771-1216) and every variable keeps its type.
THEOREM HeatTypeCorrect == HeatSpec => []HeatTypeOK
<1>1. HeatInv => HeatTypeOK
  BY DEF HeatInv
<1> QED
  BY <1>1, HeatInvariant, PTL

\* The quadrants of every stored iteration cover a grid, every cell once
\* (heat.cc:771-1216).
THEOREM HeatTiles == HeatSpec => []KBestTiles
<1>1. HeatInv => KBestTiles
  BY DEF HeatInv
<1> QED
  BY <1>1, HeatInvariant, PTL

\* The cells marked as empty are those of the loaded chart (heat.cc:449-452,
\* 565, 643): no mark of a chart before it survives into a run.
THEOREM HeatEmptiesExact == HeatSpec => []EmptiesExact
<1>1. HeatInv => EmptiesExact
  BY DEF HeatInv
<1> QED
  BY <1>1, HeatInvariant, PTL

\* The baseline colours the cells with records of the loaded chart, and no
\* other (heat.cc:1228-1336).
THEOREM HeatBaselineComplete == HeatSpec => []BaselineComplete
<1>1. HeatInv => BaselineComplete
  BY DEF HeatInv
<1> QED
  BY <1>1, HeatInvariant, PTL

-----------------------------------------------------------------------------
\* What AnswerRebuilds says of one step.
Rebuilds ==
  \A i \in Slots \ {0} :
    ~firstIteration /\ kBest'[i] # kBest[i] /\ kBest'[i] # kBest[i - 1]
    /\ kBest'[i] # << >> =>
      /\ splitQuad' + 1 \in 1 .. Len(kBest[i - 1])
      /\ kBest'[i] = Put(kBest[i - 1], splitQuad' + 1, Answer')

LEMMA StepRebuilds ==
  ASSUME HeatInv, [HeatNext]_heatVars
  PROVE  Rebuilds
<1> SUFFICES ASSUME NEW i \in Slots \ {0}, ~firstIteration,
                    kBest'[i] # kBest[i], kBest'[i] # kBest[i - 1],
                    kBest'[i] # << >>
             PROVE  /\ splitQuad' + 1 \in 1 .. Len(kBest[i - 1])
                    /\ kBest'[i] = Put(kBest[i - 1], splitQuad' + 1, Answer')
  BY DEF Rebuilds
<1>1. kBest' # kBest
  OBVIOUS
<1>2. ASSUME NEW c \in Charts, LoadAxesData(c)
      PROVE  FALSE
  BY <1>1, <1>2 DEF LoadAxesData
<1>3. CASE Reset
  BY <1>3 DEF Reset
<1>4. ASSUME NEW j \in 0 .. MaxIters, GenHeatFirst(j)
      PROVE  FALSE
  BY <1>4 DEF GenHeatFirst
<1>5. CASE GenHeatBase
  BY <1>1, <1>5 DEF GenHeatBase
<1>6. CASE UNCHANGED heatVars
  BY <1>1, <1>6 DEF heatVars
<1>7. ASSUME NEW j \in 0 .. MaxIters, GenHeatNext(j)
      PROVE  /\ splitQuad' + 1 \in 1 .. Len(kBest[i - 1])
             /\ kBest'[i] = Put(kBest[i - 1], splitQuad' + 1, Answer')
  <2>1. j \in Slots /\ j > 0 /\ HeatTypeOK /\ KBestTiles
    BY <1>7, SizeAssumption DEF GenHeatNext, Slots, HeatInv
  <2>2. CASE NothingToSplit(j)
    <3>1. kBest' = [kBest EXCEPT ![j] = kBest[j - 1]]
      BY <2>2 DEF NothingToSplit
    <3>2. i = j
      BY <3>1 DEF HeatTypeOK
    <3> QED
      BY <2>1, <3>1, <3>2 DEF HeatTypeOK
  <2>3. ASSUME NEW s \in Divisible(kBest[j - 1]),
               NEW c \in Cells(kBest[j - 1][s]), SplitAt(j, s, c[1], c[2])
        PROVE  /\ splitQuad' + 1 \in 1 .. Len(kBest[i - 1])
               /\ kBest'[i] = Put(kBest[i - 1], splitQuad' + 1, Answer')
    <3>1. kBest' = [kBest EXCEPT ![j] = Put(kBest[j - 1], s,
                                     Pieces(kBest[j - 1][s], c[1], c[2]))]
      BY <2>3 DEF SplitAt
    <3>2. i = j
      BY <3>1 DEF HeatTypeOK
    <3>3. << c[1], c[2] >> \in Cells(kBest[j - 1][s])
      BY DEF Cells
    <3>4. /\ splitQuad' + 1 = s /\ s \in 1 .. Len(kBest[j - 1])
          /\ kBest'[j] = Put(kBest[j - 1], s, Answer')
      BY <2>1, <2>3, <3>3, SplitAtKeeps
    <3> QED
      BY <3>2, <3>4
  <2> QED
    BY <1>7, <2>2, <2>3 DEF GenHeatNext
<1> QED
  BY <1>2, <1>3, <1>4, <1>5, <1>6, <1>7 DEF HeatNext, GenHeat

\* The answer, put where it says it belongs, makes of the quadrants of an
\* iteration those of the next (heat.cc:771-1216, incvisage.cc:359-426).
THEOREM HeatAnswerRebuilds == HeatSpec => AnswerRebuilds
<1>1. HeatInv /\ [HeatNext]_heatVars => [Rebuilds]_heatVars
  BY StepRebuilds
<1> QED
  BY <1>1, HeatInvariant, PTL DEF HeatSpec, AnswerRebuilds, Rebuilds
=============================================================================
