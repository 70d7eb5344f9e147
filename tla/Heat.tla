-------------------------------- MODULE Heat --------------------------------
(***************************************************************************)
(* The heatmap engine (needletail-code-base/heat.cc): the object that      *)
(* serves every heatmap.  Like the trendline engine it refines its last    *)
(* answer, but a quadrant is split in two or in four, there may be cells   *)
(* of the grid that no record falls into, and all that one chart leaves    *)
(* behind is cleared by a reset, whatever the size of the next.            *)
(*                                                                         *)
(* Which quadrant is split, and at which cell, depends on the sampled      *)
(* averages (module BestQuadrant); here it is any cell with records of any *)
(* quadrant with several cells.                                            *)
(***************************************************************************)
EXTENDS Quadrants

CONSTANTS
  MaxSide,   (* Rows and columns of groupAvgs_heat: 366 in the code.       *)
  MaxIters,  (* Size of k_Best_heat: 1000 in the code.                     *)
  Charts,    (* The charts a user can ask for.                             *)
  ColumnsOf, (* Size of a chart's grid: cardX and cardY.                   *)
  RowsOf,
  EmptyOf,   (* The cells of a chart that no record falls into.            *)
  NoChart    (* What is loaded before the first chart.                     *)

ASSUME SizeAssumption ==
  /\ MaxSide \in Nat /\ MaxIters \in Nat
  /\ MaxSide >= 1 /\ MaxIters >= 1
ASSUME NoChartAssumption == NoChart \notin Charts
ASSUME ChartAssumption ==
  /\ ColumnsOf \in [Charts -> 1 .. MaxSide]
  /\ RowsOf \in [Charts -> 1 .. MaxSide]
  /\ \A c \in Charts : EmptyOf[c] \subseteq Grid(ColumnsOf[c], RowsOf[c])

VARIABLES
  chart,           (* The chart the axes were loaded for.                  *)
  firstIteration,
  kBest,           (* k_Best_heat[i]: the quadrants of iteration i.        *)
  samples,         (* cell -> the charts whose records are in its average. *)
  empties,         (* The cells whose record_id is -1.                     *)
  splitQuad,       (* Position, from 0, of the split quadrant; -1 if none. *)
  newQuads,        (* firstNewQuadrant to fourthNewQuadrant.               *)
  isTwoSeg,        (* Only the first two of them are the answer.           *)
  avgMap,          (* groupAvgMap: cell -> the charts its colour mixes.    *)
  isContinue       (* Has the baseline a cell left to sample?              *)

heatVars == << chart, firstIteration, kBest, samples, empties, splitQuad,
               newQuads, isTwoSeg, avgMap, isContinue >>

Slots    == 0 .. MaxIters - 1
AllCells == Grid(MaxSide, MaxSide)
ZeroQuad == Quad(0, 0, 0, 0)
Loaded   == chart # NoChart
Columns  == ColumnsOf[chart]
Rows     == RowsOf[chart]
Plane    == Grid(Columns, Rows)

\* The cells of the quadrants that are sampled again and may be split.
DivisibleCells(list) == UNION { Cells(list[k]) : k \in Divisible(list) }

-----------------------------------------------------------------------------
HeatInit ==
  /\ chart = NoChart
  /\ firstIteration = FALSE
  /\ kBest = [i \in Slots |-> << >>]
  /\ samples = [c \in AllCells |-> {}]
  /\ empties = {}
  /\ splitQuad = 0
  /\ newQuads = [k \in 1 .. 4 |-> ZeroQuad]
  /\ isTwoSeg = FALSE
  /\ avgMap = << >>
  /\ isContinue = FALSE

\* Wrong: the colours of the last baseline stay.
LoadAxesKeepsColours(c) ==
  /\ chart' = c
  /\ firstIteration' = TRUE
  /\ isContinue' = TRUE
  /\ UNCHANGED << kBest, samples, empties, splitQuad, newQuads, isTwoSeg,
                  avgMap >>

\* Loading the axes forgets the colours of the baseline, and nothing else.
LoadAxesData(c) ==
  /\ chart' = c
  /\ firstIteration' = TRUE
  /\ avgMap' = << >>
  /\ isContinue' = TRUE
  /\ UNCHANGED << kBest, samples, empties, splitQuad, newQuads, isTwoSeg >>

\* A reset clears the arrays whole, but not the colours of the baseline.
Reset ==
  /\ firstIteration' = TRUE
  /\ kBest' = [i \in Slots |-> << >>]
  /\ samples' = [c \in AllCells |-> {}]
  /\ empties' = {}
  /\ splitQuad' = -1
  /\ newQuads' = [k \in 1 .. 4 |-> ZeroQuad]
  /\ isTwoSeg' = FALSE
  /\ isContinue' = TRUE
  /\ UNCHANGED << chart, avgMap >>

\* Sampling `cells` marks those without records and averages the others.
Sample(cells) ==
  /\ empties' = empties \cup (cells \cap EmptyOf[chart])
  /\ samples' = [c \in AllCells |-> IF c \in cells \ EmptyOf[chart]
                                      THEN samples[c] \cup {chart}
                                      ELSE samples[c]]

\* Wrong: the marks of the chart before stay.
SampleGridKeepsMarks ==
  /\ empties' = empties \cup EmptyOf[chart]
  /\ samples' = [c \in AllCells |-> IF c \in Plane \ EmptyOf[chart]
                                      THEN samples[c] \cup {chart}
                                      ELSE samples[c]]

\* The first call after a load or a reset forgets which cells of the grid
\* had no records, samples them all and answers one quadrant.
SampleGrid ==
  /\ empties' = (empties \ Plane) \cup EmptyOf[chart]
  /\ samples' = [c \in AllCells |-> IF c \in Plane \ EmptyOf[chart]
                                      THEN samples[c] \cup {chart}
                                      ELSE samples[c]]

\* Only a call with i < MaxIters stays inside k_Best_heat.
GenHeatFirst(i) ==
  /\ firstIteration
  /\ i < MaxIters
  /\ SampleGrid
  /\ kBest' = [kBest EXCEPT ![i] = WholeGrid(Columns, Rows)]
  /\ firstIteration' = FALSE
  /\ splitQuad' = -1
  /\ newQuads' = [newQuads EXCEPT ![1] = Quad(0, Columns - 1, 0, Rows - 1)]
  /\ UNCHANGED << chart, isTwoSeg, avgMap, isContinue >>

\* Wrong: a split in four leaves the flag of a split in two.
SplitAtKeepsFlag(i, s, x, y) ==
  LET prev   == kBest[i - 1]
      pieces == Pieces(prev[s], x, y)
  IN /\ kBest' = [kBest EXCEPT ![i] = Put(prev, s, pieces)]
     /\ splitQuad' = s - 1
     /\ newQuads' = [k \in 1 .. 4 |-> IF k <= Len(pieces) THEN pieces[k]
                                                          ELSE newQuads[k]]
     /\ isTwoSeg' = (isTwoSeg \/ Len(pieces) = 2)

\* Quadrant s of the iteration before is split at cell (x, y).
SplitAt(i, s, x, y) ==
  LET prev   == kBest[i - 1]
      pieces == Pieces(prev[s], x, y)
  IN /\ kBest' = [kBest EXCEPT ![i] = Put(prev, s, pieces)]
     /\ splitQuad' = s - 1
     /\ newQuads' = [k \in 1 .. 4 |-> IF k <= Len(pieces) THEN pieces[k]
                                                          ELSE newQuads[k]]
     /\ isTwoSeg' = (Len(pieces) = 2)

\* No quadrant with several cells has a record: the quadrants are copied,
\* and the answer stays that of the iteration before.
NothingToSplit(i) ==
  /\ DivisibleCells(kBest[i - 1]) \subseteq empties'
  /\ kBest' = [kBest EXCEPT ![i] = kBest[i - 1]]
  /\ UNCHANGED << splitQuad, newQuads, isTwoSeg >>

\* A next call needs a slot before its own, with quadrants of this grid: a
\* cell outside has no value on the axes, and its query is not answered.
GenHeatNext(i) ==
  /\ ~firstIteration
  /\ i > 0 /\ i < MaxIters
  /\ DivisibleCells(kBest[i - 1]) \subseteq Plane
  /\ Sample(DivisibleCells(kBest[i - 1]) \ empties)
  /\ \/ \E s \in Divisible(kBest[i - 1]) :
          \E c \in Cells(kBest[i - 1][s]) \ empties' : SplitAt(i, s, c[1], c[2])
     \/ NothingToSplit(i)
  /\ UNCHANGED << chart, firstIteration, avgMap, isContinue >>

GenHeat(i) ==
  /\ Loaded
  /\ GenHeatFirst(i) \/ GenHeatNext(i)

\* The baseline: one more record of every cell that has any, no quadrants.
GenHeatBase ==
  /\ Loaded
  /\ IF firstIteration THEN SampleGrid ELSE Sample(Plane \ empties)
  /\ avgMap' = [c \in DOMAIN avgMap \cup (Plane \ empties') |->
                  IF c \in Plane \ empties' THEN samples'[c] ELSE avgMap[c]]
  /\ firstIteration' = FALSE
  /\ isContinue' = ~(Plane \subseteq empties')
  /\ UNCHANGED << chart, kBest, splitQuad, newQuads, isTwoSeg >>

-----------------------------------------------------------------------------
\* The engine under any order of calls.
HeatNext ==
  \/ \E c \in Charts : LoadAxesData(c)
  \/ Reset
  \/ \E i \in 0 .. MaxIters : GenHeat(i)
  \/ GenHeatBase

HeatSpec == HeatInit /\ [][HeatNext]_heatVars

\* The list genChart packs from the answer, and where the page puts it.
Answer ==
  IF splitQuad = -1 THEN << newQuads[1] >>
  ELSE IF isTwoSeg THEN << newQuads[1], newQuads[2] >>
  ELSE newQuads

-----------------------------------------------------------------------------
\* Every variable keeps its type; a quadrant stays inside the arrays.
CellQuad == [xb : 0 .. MaxSide - 1, xe : 0 .. MaxSide - 1,
             yb : 0 .. MaxSide - 1, ye : 0 .. MaxSide - 1]
HeatTypeOK ==
  /\ chart \in Charts \cup {NoChart}
  /\ firstIteration \in BOOLEAN
  /\ kBest \in [Slots -> Seq(CellQuad)]
  /\ samples \in [AllCells -> SUBSET Charts]
  /\ empties \subseteq AllCells
  /\ splitQuad \in Int /\ splitQuad >= -1
  /\ newQuads \in [1 .. 4 -> CellQuad]
  /\ isTwoSeg \in BOOLEAN
  /\ DOMAIN avgMap \subseteq AllCells
  /\ \A c \in DOMAIN avgMap : avgMap[c] \subseteq Charts
  /\ isContinue \in BOOLEAN

\* Whatever is asked of the engine in whatever order, the quadrants of every
\* stored iteration cover a whole grid, every cell once: the six ways to
\* split (heat.cc:771-1212) leave neither a hole nor an overlap.
KBestTiles ==
  \A i \in Slots : kBest[i] # << >> =>
    \E w, h \in 1 .. MaxSide : Tiles(kBest[i], w, h)

\* Answer and store are written separately, once per way of splitting: the
\* answer, put where it says it belongs, makes of the quadrants of iteration
\* i - 1 those of iteration i, so a page that has the former gets the latter.
AnswerRebuilds ==
  [][\A i \in Slots \ {0} :
       ~firstIteration /\ kBest'[i] # kBest[i] /\ kBest'[i] # kBest[i - 1]
       /\ kBest'[i] # << >> =>
         /\ splitQuad' + 1 \in 1 .. Len(kBest[i - 1])
         /\ kBest'[i] = Put(kBest[i - 1], splitQuad' + 1, Answer')]_heatVars

\* Once a run has begun, the cells that are reported as empty, whitened by the
\* page and never sampled again are exactly those of the loaded chart: a mark
\* of the chart before it would silence a cell with records for good.
EmptiesExact ==
  Loaded /\ ~firstIteration => empties \cap Plane = EmptyOf[chart]

\* What the baseline sends is one colour for each cell with records of the
\* loaded chart, and for no other, whatever was loaded or reset before.
BaselineComplete ==
  avgMap # << >> => DOMAIN avgMap = Plane \ EmptyOf[chart]
=============================================================================
