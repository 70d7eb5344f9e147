-------------------------- MODULE IncrementalChart --------------------------
(***************************************************************************)
(* What the trendline interface promises, without server, messages or      *)
(* buttons: a chart is blank, then one segment over the whole axis, then   *)
(* one segment more at each step, and a reset or a new chart blanks it.    *)
(***************************************************************************)
EXTENDS Segments

VARIABLES
  segs,     (* The segmentation shown; empty when the chart is blank.      *)
  axis      (* The first and the last group of the axis.                   *)

Chart == << segs, axis >>

ChartInit == segs = << >> /\ axis \in Segment /\ axis.b <= axis.e

\* A reset keeps the axis, a new chart brings its own.
Clear ==
  /\ segs' = << >>
  /\ axis' \in Segment
  /\ axis'.b <= axis'.e

Reveal ==
  /\ segs = << >>
  /\ segs' = << Seg(axis.b, axis.e) >>
  /\ UNCHANGED axis

Refine ==
  /\ \E s \in Splittable(segs), cut \in Groups(axis) :
       /\ segs[s].b < cut /\ cut <= segs[s].e
       /\ segs' = SplitSeg(segs, s, Seg(segs[s].b, cut - 1), Seg(cut, segs[s].e))
  /\ UNCHANGED axis

ChartNext == Clear \/ Reveal \/ Refine

ChartSpec == ChartInit /\ [][ChartNext]_Chart

\* A chart that is not blank shows every value of its axis exactly once.
ChartCovers == segs # << >> => Covers(segs, axis.b, axis.e)
=============================================================================
