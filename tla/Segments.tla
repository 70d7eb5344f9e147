------------------------------ MODULE Segments ------------------------------
(***************************************************************************)
(* Segments and segmentations of the trendline: a segment is a run of      *)
(* consecutive groups (bars) that is drawn at one height, a segmentation   *)
(* the list of segments of one iteration (vector<Segment>, trend.cc).      *)
(* Groups are numbered from 0, the list from 1.                            *)
(***************************************************************************)
EXTENDS Integers, Sequences, FiniteSets

Segment == [b : Int, e : Int]

Seg(b, e) == [b |-> b, e |-> e]

\* The segmentation of the first iteration: one segment over all n groups.
Whole(n) == << Seg(0, n - 1) >>

\* Is `segs` a segmentation of the groups lo..hi: non-empty segments, in
\* order, each starting right after its predecessor?
Covers(segs, lo, hi) ==
  /\ Len(segs) > 0
  /\ segs[1].b = lo
  /\ segs[Len(segs)].e = hi
  /\ \A k \in 1..Len(segs) : segs[k].b <= segs[k].e
  /\ \A k \in 1..Len(segs) - 1 : segs[k + 1].b = segs[k].e + 1

\* Every segment ends before any later one starts.  Covers implies it, by
\* induction over the list; the proofs carry it along instead.
Ordered(segs) ==
  \A j, k \in 1..Len(segs) : j < k => segs[j].e < segs[k].b

\* Positions of the segments that can still be split.
Splittable(segs) == { s \in 1..Len(segs) : segs[s].b < segs[s].e }

\* Wrong versions of the halves: every cut taken to be left of g, and no
\* special case for a split at the last group.
LeftHalfShort(x, g)   == Seg(x.b, g - 1)
LeftHalfNoLast(x, g)  == Seg(x.b, g)
RightHalfNoLast(x, g) == Seg(g + 1, x.e)

\* The two halves of segment x when the best split is group g.  A split at
\* the last group peels that group off, any other one ends the left half.
LeftHalf(x, g)  == Seg(x.b, IF g = x.e THEN g - 1 ELSE g)
RightHalf(x, g) == Seg(IF g = x.e THEN g ELSE g + 1, x.e)

\* `segs` with its s-th segment replaced by two.  (A function constructor
\* and not a chain of concatenations: the proofs reason about its elements.)
SplitSeg(segs, s, lo, hi) ==
  [ k \in 1..Len(segs) + 1 |->
      IF k < s THEN segs[k]
      ELSE IF k = s THEN lo
      ELSE IF k = s + 1 THEN hi
      ELSE segs[k - 1] ]

\* `new` cuts where `old` cuts, and at one place more.
Starts(segs) == { segs[k].b : k \in 1..Len(segs) }
Ends(segs)   == { segs[k].e : k \in 1..Len(segs) }
RefinesByOne(new, old) ==
  \E x \in Starts(new) \ Starts(old) :
    /\ Starts(new) = Starts(old) \cup {x}
    /\ Ends(new) = Ends(old) \cup {x - 1}

\* The groups a segment or a segmentation spans, and those of its segments
\* that have more than one group.
Groups(x) == x.b .. x.e
NonSingle(segs) == UNION { Groups(segs[s]) : s \in Splittable(segs) }

\* A segmentation written with the values of the axis instead of the group
\* numbers, group 0 being the value x0.
Shift(segs, x0) == [ k \in 1..Len(segs) |-> Seg(segs[k].b + x0, segs[k].e + x0) ]
=============================================================================
