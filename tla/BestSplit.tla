----------------------------- MODULE BestSplit -----------------------------
(***************************************************************************)
(* Which split genHisto takes (trend.cc:475-722), for one chart from its   *)
(* first iteration to its last.  Every iteration draws new samples of the  *)
(* groups that are not yet alone, which may move their averages anywhere,  *)
(* scores every split of every segment from a table of partial sums, and   *)
(* takes the best one.  Module Trend leaves that choice open; here it is   *)
(* computed as the code does, in exact arithmetic, and compared with what  *)
(* it is meant to be: the split that lowers the squared error most.        *)
(***************************************************************************)
EXTENDS Segments, FiniteSetsExt, SequencesExt

CONSTANTS
  Card,     (* Number of groups of the chart.                              *)
  Values,   (* The values a group's sampled average may take.              *)
  MaxMoved  (* Bound: averages that an iteration's samples move.           *)

ASSUME BestSplitAssumption ==
  /\ Card \in Nat \ {0}
  /\ Values \subseteq Int /\ Values # {}
  /\ MaxMoved \in Nat

VARIABLES
  groupAvgs,  (* group -> average of its samples.                          *)
  avg_map,    (* Partial sums; cells of earlier segments stay in it.       *)
  segs,       (* The segmentation of the last iteration, with its means.   *)
  avgMin,     (* The range of the vertical axis.                           *)
  avgMax,
  cut         (* Where the last split was: its segment and its group.      *)

vars == << groupAvgs, avg_map, segs, avgMin, avgMax, cut >>

AllGroups == 0 .. Card - 1
NoCut     == [seg |-> 0, g |-> 0]

\* A mean is kept as the quotient it is computed by.
Mean(sum, n)   == [sum |-> sum, n |-> n]
Below(p, q)    == p.sum * q.n < q.sum * p.n
Lower(p, q)    == IF Below(q, p) THEN q ELSE p
Higher(p, q)   == IF Below(p, q) THEN q ELSE p
Bar(x, mean)   == [b |-> x.b, e |-> x.e, mean |-> mean]

-----------------------------------------------------------------------------
\* Column am of the table for segment x: the sums that end at group x.b + am.
\* Wrong: the diagonal is added to what an earlier segment left in it.
FillColumnOnto(a, table, x, am) ==
  [it \in AllGroups |->
     IF it > am THEN table[it]
     ELSE [table[it] EXCEPT ![am] = a[x.b + am] +
             (IF it = am THEN @ ELSE table[it][am - 1])]]
FillColumn(a, table, x, am) ==
  [it \in AllGroups |->
     IF it > am THEN table[it]
     ELSE [table[it] EXCEPT ![am] = a[x.b + am] +
             (IF it = am THEN 0 ELSE table[it][am - 1])]]
Fill(a, table, x) ==
  FoldLeft(LAMBDA t, am : FillColumn(a, t, x, am), table,
           [k \in 1 .. Cardinality(Groups(x)) |-> k - 1])

\* The means left and right of a cut of x after group g; nothing is right of
\* the last group, and its mean reads 0.
LeftMean(table, x, g)  == Mean(table[0][g - x.b], g - x.b + 1)
RightMean(table, x, g) ==
  IF g = x.e THEN Mean(0, 1)
             ELSE Mean(table[g - x.b + 1][x.e - x.b], x.e - g)

\* The score of that cut; wrong: without the sizes of the two sides.
GainUnweighted(table, x, g) ==
  LET l == LeftMean(table, x, g)
      r == RightMean(table, x, g)
      d == l.sum * r.n - r.sum * l.n
  IN Mean(d * d, Card * (x.e - x.b + 1) * (l.n * r.n) * (l.n * r.n))
Gain(table, x, g) ==
  LET l == LeftMean(table, x, g)
      r == RightMean(table, x, g)
      d == l.sum * r.n - r.sum * l.n
  IN Mean(l.n * (x.e - g) * d * d,
          Card * (x.e - x.b + 1) * (l.n * r.n) * (l.n * r.n))

\* The first of the best cuts of a segment.
BestCut(table, x) ==
  CHOOSE g \in Groups(x) : \A h \in Groups(x) :
    IF h < g THEN Below(Gain(table, x, h), Gain(table, x, g))
             ELSE ~Below(Gain(table, x, g), Gain(table, x, h))

\* The search starts below every score; wrong: at zero.
NothingZero(table) == [table |-> table, cut |-> NoCut, gain |-> Mean(0, 1)]
Nothing(table)     == [table |-> table, cut |-> NoCut, gain |-> Mean(-1, 1)]

\* One segment of the search: a single group is skipped, any other fills
\* the table and competes with its best cut.
Consider(a, best, s) ==
  LET x     == segs[s]
      table == Fill(a, best.table, x)
      g     == BestCut(table, x)
      gain  == Gain(table, x, g)
  IN IF s \notin Splittable(segs) THEN best
     ELSE IF Below(best.gain, gain)
       THEN [table |-> table, cut |-> [seg |-> s, g |-> g], gain |-> gain,
             left |-> LeftMean(table, x, g), right |-> RightMean(table, x, g)]
     ELSE [best EXCEPT !.table = table]
Search(a) ==
  FoldLeft(LAMBDA best, s : Consider(a, best, s), Nothing(avg_map),
           [s \in 1 .. Len(segs) |-> s])

\* The axis grows to hold both new means; wrong: only the left one.
WidenLeft(left, right) ==
  /\ avgMax' = Higher(avgMax, left)
  /\ avgMin' = Lower(avgMin, left)
Widen(left, right) ==
  /\ avgMax' = Higher(avgMax, Higher(left, right))
  /\ avgMin' = Lower(avgMin, Lower(left, right))

-----------------------------------------------------------------------------
\* After a reset every average, the table and the segmentation are empty.
Zeros == [g \in AllGroups |-> 0]
Init ==
  /\ groupAvgs = Zeros
  /\ avg_map = [g \in AllGroups |-> Zeros]
  /\ segs = << >>
  /\ avgMin = Mean(10000000, 1) /\ avgMax = Mean(-10000000, 1)
  /\ cut = NoCut

\* The first iteration: one segment, at the mean of the group averages.
First ==
  /\ segs = << >>
  /\ groupAvgs' \in [AllGroups -> Values]
  /\ LET mean == Mean(SumFunction(groupAvgs'), Card)
     IN /\ segs' = << Bar(Whole(Card)[1], mean) >>
        /\ avgMin' = mean /\ avgMax' = mean
  /\ UNCHANGED << avg_map, cut >>

\* A next iteration: new samples, then the best split, if there is any.
\* A sample moves the average by its weight; here it may move anywhere.
Resampled ==
  { a \in [AllGroups -> Values] :
      LET moved == { g \in AllGroups : a[g] # groupAvgs[g] }
      IN moved \subseteq NonSingle(segs) /\ Cardinality(moved) <= MaxMoved }
Iterate ==
  /\ segs # << >>
  /\ groupAvgs' \in Resampled
  /\ LET best == Search(groupAvgs')
         x    == segs[best.cut.seg]
     IN /\ avg_map' = best.table
        /\ cut' = best.cut
        /\ \/ /\ best.cut = NoCut
              /\ UNCHANGED << segs, avgMin, avgMax >>
           \/ /\ best.cut # NoCut
              /\ Widen(best.left, best.right)
              /\ segs' = SplitSeg(segs, best.cut.seg,
                           Bar(LeftHalf(x, best.cut.g), best.left),
                           Bar(RightHalf(x, best.cut.g), best.right))

Next == First \/ Iterate
Spec == Init /\ [][Next]_vars

-----------------------------------------------------------------------------
(* What the split is meant to be, with no table and no running maximum.    *)

\* Squared error of drawing the groups of x at their mean; scaled by Card!
\* so that it is an integer.
Scale == FoldSet(LAMBDA n, p : n * p, 1, 1 .. Card)
Error(a, x) ==
  LET sum == SumFunctionOnSet(a, Groups(x))
  IN Scale * MapThenSumSet(LAMBDA g : a[g] * a[g], Groups(x))
       - (Scale \div Cardinality(Groups(x))) * sum * sum
TotalError(a, list) ==
  MapThenSumSet(LAMBDA s : Error(a, list[s]), 1 .. Len(list))

\* Every way to cut one segment of `segs` in two.
OtherSplits ==
  UNION { { SplitSeg(segs, s, Seg(segs[s].b, g), Seg(g + 1, segs[s].e)) :
              g \in segs[s].b .. segs[s].e - 1 } : s \in Splittable(segs) }

\* No other split of the iteration would have drawn the sampled averages with
\* a smaller squared error (trend.cc:555-606 maximises a score built from
\* partial sums, to that end).
SplitIsBest ==
  [][cut' # NoCut /\ segs' # segs =>
       \A other \in OtherSplits :
         TotalError(groupAvgs', segs') <= TotalError(groupAvgs', other)]_vars

\* The means of the two new segments are the averages of their groups: no
\* partial sum of an earlier segment or iteration is left in the table
\* (avg_map is never cleared between them, trend.cc:544-548).
MeansAreAverages ==
  [][segs' # segs =>
       \A k \in 1 .. Len(segs') :
         (\A j \in 1 .. Len(segs) : segs[j] # segs'[k]) =>
           segs'[k].mean.sum * Cardinality(Groups(segs'[k])) =
             SumFunctionOnSet(groupAvgs', Groups(segs'[k])) * segs'[k].mean.n]_vars

\* As long as a segment has two groups every iteration adds a segment, even
\* if the curve is flat: the page shows one more step per iteration and the
\* run is complete after Card of them.
EveryIterationSplits ==
  [][segs # << >> /\ Splittable(segs) # {} => Len(segs') = Len(segs) + 1]_vars

\* Every mean that is on the page lies within the axis range it is sent
\* with, although means of several iterations are shown side by side.
MeansOnAxis ==
  \A k \in 1 .. Len(segs) :
    ~Below(segs[k].mean, avgMin) /\ ~Below(avgMax, segs[k].mean)

=============================================================================
