------------------------------- MODULE Trend -------------------------------
(***************************************************************************)
(* The trendline engine (needletail-code-base/trend.cc): one object shared *)
(* by every request the server handles.  Iteration i reads the             *)
(* segmentation of iteration i-1, draws more samples of the groups that    *)
(* are not yet alone, splits the one segment whose split helps most, and   *)
(* keeps the two halves as the answer.  Which split that is depends on the *)
(* sampled averages: here it is any split of any splittable segment        *)
(* (module BestSplit is the choice itself).                               *)
(*                                                                         *)
(* The browser offers no predicate (toolkit.js:593-620 is commented out),  *)
(* so every chart is a singleton query (queryType 1), whose groups always  *)
(* have a record: record_id never becomes -1.                              *)
(***************************************************************************)
EXTENDS Segments

CONSTANTS
  MaxCard,   (* Size of k_Best, groupAvgs and groupNums: 366 in the code.  *)
  Charts,    (* The (dimension, measure) pairs a user can ask for.         *)
  CardOf,    (* Number of groups of a chart's dimension.                   *)
  XMinOf,    (* First value of a chart's dimension.                        *)
  NoChart    (* What is loaded before the first chart.                     *)

ASSUME MaxCardAssumption == MaxCard \in Nat /\ MaxCard >= 3
ASSUME NoChartAssumption == NoChart \notin Charts
\* Axes start at 0 or 1 (Hour, Day).  k_Best is indexed by the iteration,
\* which starts at xMin: on an axis 1..MaxCard, as the flight data's Day is
\* in the code (1..366), the last iteration lies outside it.
ASSUME ChartAssumption ==
  /\ CardOf \in [Charts -> 1..MaxCard]
  /\ XMinOf \in [Charts -> 0..1]

VARIABLES
  chart,           (* The chart the axes were loaded for.                  *)
  card,            (* Its number of groups.                                *)
  firstIteration,
  kBest,           (* kBest[i]: the segmentation of iteration i.           *)
  samples,         (* samples[g]: the charts whose records are in          *)
                   (* groupAvgs[g] and groupNums[g]; NoChart: overwritten. *)
  nonSingleGroups,
  splitSeg,        (* Position, from 0, of the split segment; -1 if none.  *)
  firstNew,        (* Its two halves.                                      *)
  secondNew,
  avgMap           (* groupAvgMap: group -> the charts its bar mixes.      *)

trendVars == << chart, card, firstIteration, kBest, samples,
                nonSingleGroups, splitSeg, firstNew, secondNew, avgMap >>

Slots      == 0 .. MaxCard - 1
Loaded     == chart # NoChart
ZeroSeg    == Seg(0, 0)
LastGroup  == card - 1

-----------------------------------------------------------------------------
\* Static storage is zero; k_Best and groupAvgMap are empty.
TrendInit ==
  /\ chart = NoChart
  /\ card = 0
  /\ firstIteration = FALSE
  /\ kBest = [i \in Slots |-> << >>]
  /\ samples = [g \in Slots |-> {}]
  /\ nonSingleGroups = MaxCard
  /\ splitSeg = 0
  /\ firstNew = ZeroSeg
  /\ secondNew = ZeroSeg
  /\ avgMap = << >>

\* Loading the axes forgets nothing of the chart before it.
LoadAxesData(c) ==
  /\ chart' = c
  /\ card' = CardOf[c]
  /\ firstIteration' = TRUE
  /\ UNCHANGED << kBest, samples, nonSingleGroups, splitSeg, firstNew,
                  secondNew, avgMap >>

\* Wrong resets: one leaves the samples behind, one the iteration flag.
ResetKeepsSamples ==
  /\ kBest' = [i \in Slots |-> IF i < card THEN << >> ELSE kBest[i]]
  /\ nonSingleGroups' = IF card > 0 THEN MaxCard ELSE nonSingleGroups
  /\ firstIteration' = TRUE
  /\ avgMap' = << >>
  /\ splitSeg' = -1
  /\ firstNew' = ZeroSeg
  /\ secondNew' = ZeroSeg
  /\ UNCHANGED << chart, card, samples >>
ResetKeepsIteration ==
  /\ kBest' = [i \in Slots |-> IF i < card THEN << >> ELSE kBest[i]]
  /\ samples' = [g \in Slots |-> IF g < card THEN {} ELSE samples[g]]
  /\ nonSingleGroups' = IF card > 0 THEN MaxCard ELSE nonSingleGroups
  /\ avgMap' = << >>
  /\ splitSeg' = -1
  /\ firstNew' = ZeroSeg
  /\ secondNew' = ZeroSeg
  /\ UNCHANGED << chart, card, firstIteration >>

\* Reset clears what lies below the CURRENT cardinality.
Reset ==
  /\ kBest' = [i \in Slots |-> IF i < card THEN << >> ELSE kBest[i]]
  /\ samples' = [g \in Slots |-> IF g < card THEN {} ELSE samples[g]]
  /\ nonSingleGroups' = IF card > 0 THEN MaxCard ELSE nonSingleGroups
  /\ firstIteration' = TRUE
  /\ avgMap' = << >>
  /\ splitSeg' = -1
  /\ firstNew' = ZeroSeg
  /\ secondNew' = ZeroSeg
  /\ UNCHANGED << chart, card >>

\* Sampling adds records of the loaded chart to the averages of `groups`.
Sample(groups) ==
  samples' = [g \in Slots |-> IF g \in groups THEN samples[g] \cup {chart}
                                              ELSE samples[g]]

\* The first call after a load or a reset answers one segment, whatever its
\* iteration is, and stores it without comparing the iteration with the size
\* of the array.  A store past its end is undefined.  Either it falls on the
\* averages declared next (the three words of a vector are three of them), or
\* on nothing that is modelled, or it ends the process, which is the same as
\* no further step of the server.
GenHistoFirst(i) ==
  /\ firstIteration
  /\ \/ /\ i \in Slots
        /\ Sample(0 .. LastGroup)
        /\ kBest' = [kBest EXCEPT ![i] = Whole(card)]
     \/ /\ i \notin Slots
        /\ \E hit \in {{}, Slots \cap 0 .. 2} :
             samples' = [g \in Slots |-> IF g \in hit THEN {NoChart} ELSE
                           samples[g] \cup IF g < card THEN {chart} ELSE {}]
        /\ UNCHANGED kBest
  /\ firstIteration' = FALSE
  /\ splitSeg' = -1
  /\ firstNew' = Seg(0, LastGroup)
  /\ UNCHANGED << chart, card, nonSingleGroups, secondNew, avgMap >>

\* Wrong stores: the slot after, and one slot too few.
StoreNext(i, segs) ==
  kBest' = IF i + 1 < card THEN [kBest EXCEPT ![i + 1] = segs] ELSE kBest
StoreShort(i, segs) ==
  kBest' = IF i < card - 1 THEN [kBest EXCEPT ![i] = segs] ELSE kBest

Store(i, segs) ==
  kBest' = IF i < card THEN [kBest EXCEPT ![i] = segs] ELSE kBest

\* Segment s of the previous iteration is split at group g.  When g is not
\* the last group the right half is counted twice (trend.cc:678-682).
SplitAt(i, s, g) ==
  LET prev  == kBest[i - 1]
      left  == LeftHalf(prev[s], g)
      right == RightHalf(prev[s], g)
      tmp   == SplitSeg(prev, s, left, right)
      twice == IF g # prev[s].e /\ right.b < right.e
                 THEN Cardinality(Groups(right)) ELSE 0
  IN /\ Store(i, tmp)
     /\ nonSingleGroups' = Cardinality(NonSingle(tmp)) + twice
     /\ splitSeg' = s - 1
     /\ firstNew' = left
     /\ secondNew' = right

\* No segment has two groups: the segmentation is copied, and split_seg and
\* the two halves keep the answer of the iteration before.
NothingToSplit(i) ==
  /\ Splittable(kBest[i - 1]) = {}
  /\ Store(i, kBest[i - 1])
  /\ nonSingleGroups' = 0
  /\ UNCHANGED << splitSeg, firstNew, secondNew >>

\* Only a call with i > 0 has a previous slot to read.
GenHistoNext(i) ==
  /\ ~firstIteration
  /\ i > 0
  /\ Sample(NonSingle(kBest[i - 1]))
  /\ \/ \E s \in Splittable(kBest[i - 1]) :
          \E g \in Groups(kBest[i - 1][s]) : SplitAt(i, s, g)
     \/ NothingToSplit(i)
  /\ UNCHANGED << chart, card, firstIteration, avgMap >>

GenHisto(i) ==
  /\ Loaded
  /\ GenHistoFirst(i) \/ GenHistoNext(i)

\* The baseline: one more record of every group, no segments.
GenHistoBase ==
  /\ Loaded
  /\ Sample(0 .. LastGroup)
  /\ avgMap' = [g \in DOMAIN avgMap \cup 0 .. LastGroup |->
                  IF g <= LastGroup THEN samples'[g] ELSE avgMap[g]]
  /\ firstIteration' = FALSE
  /\ UNCHANGED << chart, card, kBest, nonSingleGroups, splitSeg, firstNew,
                  secondNew >>

-----------------------------------------------------------------------------
\* The engine under any order of calls: nothing in it relies on a caller
\* that plays the iterations in order, so neither does this specification.
TrendNext ==
  \/ \E c \in Charts : LoadAxesData(c)
  \/ Reset
  \/ \E i \in 0 .. MaxCard : GenHisto(i)
  \/ GenHistoBase

TrendSpec == TrendInit /\ [][TrendNext]_trendVars

-----------------------------------------------------------------------------
\* Every variable keeps its type; a segment stays inside the arrays.
TrendTypeOK ==
  /\ chart \in Charts \cup {NoChart}
  /\ card \in 0 .. MaxCard
  /\ firstIteration \in BOOLEAN
  /\ kBest \in [Slots -> Seq([b : Slots, e : Slots])]
  /\ samples \in [Slots -> SUBSET (Charts \cup {NoChart})]
  /\ nonSingleGroups \in Nat
  /\ splitSeg \in -1 .. MaxCard - 1
  /\ firstNew \in [b : Slots, e : Slots]
  /\ secondNew \in [b : Slots, e : Slots]
  /\ DOMAIN avgMap \subseteq Slots
  /\ \A g \in DOMAIN avgMap : avgMap[g] \subseteq Charts \cup {NoChart}

\* Whatever is asked of the engine, in whatever order and with whatever is
\* left of earlier charts, every stored segmentation covers the groups from
\* 0 up to some cardinality without a gap, an overlap or an empty segment
\* (trend.cc:613-716 splits into halves that fit together).
KBestCovers ==
  \A i \in Slots : kBest[i] # << >> =>
    \E n \in 1 .. MaxCard : Covers(kBest[i], 0, n - 1)

\* The pair of segments an answer is packed from is either the untouched
\* initial pair or two non-empty neighbours (pack_segment_result,
\* incvisage.cc:322-357 sends them as positions n and n + 1).
AnswerIsNeighbours ==
  splitSeg >= 0 =>
    \/ firstNew = ZeroSeg /\ secondNew = ZeroSeg
    \/ /\ firstNew.b <= firstNew.e
       /\ secondNew.b = firstNew.e + 1
       /\ secondNew.b <= secondNew.e

\* An iteration after the first stores the segmentation of the iteration
\* before it with at most one segment split, never a coarser one, never a
\* different one, and touches no other slot of k_Best.
IterationRefines ==
  [][\A i \in Slots :
       kBest'[i] # kBest[i] /\ ~firstIteration /\ ~firstIteration' =>
         /\ i > 0
         /\ \/ kBest'[i] = kBest[i - 1]
            \/ RefinesByOne(kBest'[i], kBest[i - 1])
         /\ \A j \in Slots \ {i} : kBest'[j] = kBest[j]]_trendVars
=============================================================================
