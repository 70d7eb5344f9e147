------------------------- MODULE TrendPlayerProofs -------------------------
(***************************************************************************)
(* Theorems about the trendline engine, for every number of charts, every  *)
(* cardinality and every size of the arrays, and about the page and its    *)
(* server: why a page that is only told the two halves of one segment at   *)
(* a time still shows a segmentation of its axis, and the one the engine   *)
(* has; why its counters stay on the axis, and its labels on their         *)
(* drawings.                                                               *)
(***************************************************************************)
EXTENDS TrendPlayer, PartitionProofs

-----------------------------------------------------------------------------
(* The engine, without the page.                                           *)

\* A cardinality is that of the loaded chart.
CardMatches == chart \in Charts => card = CardOf[chart]

\* The segments of a stored segmentation never overlap, however far apart.
\* (What Covers says of neighbours; it takes an induction to get one from
\* the other, so the invariant carries both.)
KBestOrdered == \A i \in Slots : Ordered(kBest[i])

\* The inductive invariant.
TrendInv ==
  /\ TrendTypeOK
  /\ CardMatches
  /\ KBestCovers
  /\ KBestOrdered
  /\ AnswerIsNeighbours

Bar == [b : Slots, e : Slots]

-----------------------------------------------------------------------------
\* Every bar of the arrays is a segment.
LEMMA BarsAreSegments ==
  ASSUME NEW q \in Seq(Bar)
  PROVE  q \in Seq(Segment)
<1>1. Slots \subseteq Int
  BY MaxCardAssumption DEF Slots
<1>2. Bar \subseteq Segment
  BY <1>1 DEF Bar, Segment
<1>3. Len(q) \in Nat /\ q \in [1..Len(q) -> Bar]
  OBVIOUS
<1>4. q \in [1..Len(q) -> Segment]
  BY <1>2, <1>3
<1> QED
  BY <1>3, <1>4

\* The bounds of an element of such a list.
LEMMA BarBounds ==
  ASSUME NEW q \in Seq(Bar), NEW k \in 1..Len(q)
  PROVE  q[k].b \in Slots /\ q[k].e \in Slots
<1>1. q[k] \in Bar
  BY ElementOfSeq
<1> QED
  BY <1>1 DEF Bar

\* What a stored segmentation is like when it is not empty.
LEMMA StoredShape ==
  ASSUME TrendInv, NEW i \in Slots
  PROVE  /\ kBest[i] \in Seq(Bar)
         /\ kBest[i] \in Seq(Segment)
         /\ Ordered(kBest[i])
         /\ NonEmpty(kBest[i])
         /\ Len(kBest[i]) \in Nat
         /\ Len(kBest[i]) <= MaxCard
<1>1. kBest[i] \in Seq(Bar) /\ Ordered(kBest[i])
  BY DEF TrendInv, TrendTypeOK, KBestOrdered, Bar
<1>2. Len(kBest[i]) \in Nat
  BY <1>1
<1>3. NonEmpty(kBest[i])
  <2>1. CASE kBest[i] = << >>
    BY <2>1 DEF NonEmpty
  <2>2. CASE kBest[i] # << >>
    BY <2>2 DEF TrendInv, KBestCovers, Covers, NonEmpty
  <2> QED
    BY <2>1, <2>2
<1>4. Len(kBest[i]) <= MaxCard
  <2>1. MaxCard - 1 \in Nat /\ Bar = [b : 0..MaxCard - 1, e : 0..MaxCard - 1]
    BY MaxCardAssumption DEF Bar, Slots
  <2>2. Len(kBest[i]) <= (MaxCard - 1) + 1
    BY <1>1, <1>3, <2>1, OrderedLength
  <2> QED
    BY MaxCardAssumption, <1>2, <2>2
<1> QED
  BY <1>1, <1>2, <1>3, <1>4, BarsAreSegments

\* The groups of segments inside the arrays are finitely many.
LEMMA NonSingleFinite ==
  ASSUME NEW q \in Seq(Bar)
  PROVE  /\ NonSingle(q) \subseteq Slots
         /\ Cardinality(NonSingle(q)) \in Nat
<1>1. NonSingle(q) \subseteq Slots
  <2> SUFFICES ASSUME NEW s \in 1..Len(q), NEW g \in Groups(q[s])
               PROVE  g \in Slots
    BY DEF NonSingle, Splittable
  <2>1. q[s].b \in Slots /\ q[s].e \in Slots
    BY BarBounds
  <2> QED
    BY MaxCardAssumption, <2>1 DEF Slots, Groups
<1>2. IsFiniteSet(Slots)
  BY MaxCardAssumption, FS_Interval DEF Slots
<1>3. IsFiniteSet(NonSingle(q))
  BY <1>1, <1>2, FS_Subset
<1> QED
  BY <1>1, <1>3, FS_CardinalityType

\* The group before which a split at g cuts segment x.
CutOf(x, g) == IF g = x.e THEN g ELSE g + 1

\* The two halves the engine makes are the two sides of that cut.
LEMMA HalvesAreCut ==
  ASSUME NEW q \in Seq(Bar), NEW s \in Splittable(q), NEW g \in Groups(q[s])
  PROVE  /\ CanCut(q, s, CutOf(q[s], g))
         /\ SplitSeg(q, s, LeftHalf(q[s], g), RightHalf(q[s], g))
              = Cut(q, s, CutOf(q[s], g))
         /\ LeftHalf(q[s], g) \in Bar
         /\ RightHalf(q[s], g) \in Bar
         /\ LeftHalf(q[s], g).b <= LeftHalf(q[s], g).e
         /\ RightHalf(q[s], g).b = LeftHalf(q[s], g).e + 1
         /\ RightHalf(q[s], g).b <= RightHalf(q[s], g).e
         /\ LeftHalf(q[s], g) = Seg(q[s].b, CutOf(q[s], g) - 1)
         /\ RightHalf(q[s], g) = Seg(CutOf(q[s], g), q[s].e)
<1> DEFINE x == q[s]
           cut == CutOf(x, g)
<1>1. s \in 1..Len(q) /\ x.b < x.e
  BY DEF Splittable
<1>2. x.b \in Slots /\ x.e \in Slots /\ q \in Seq(Segment)
  BY <1>1, BarBounds, BarsAreSegments
<1>3. x.b \in 0..MaxCard - 1 /\ x.e \in 0..MaxCard - 1 /\ g \in x.b..x.e
  BY <1>2 DEF Slots, Groups
<1>4. /\ cut \in Slots /\ cut - 1 \in Slots
      /\ x.b < cut /\ cut <= x.e
  BY MaxCardAssumption, <1>1, <1>3 DEF CutOf, Slots
<1>5. LeftHalf(x, g) = Seg(x.b, cut - 1) /\ RightHalf(x, g) = Seg(cut, x.e)
  <2>1. CASE g = x.e
    BY <2>1 DEF LeftHalf, RightHalf, CutOf
  <2>2. CASE g # x.e
    <3>1. cut - 1 = g
      BY <1>3, <2>2 DEF CutOf
    <3> QED
      BY <2>2, <3>1 DEF LeftHalf, RightHalf, CutOf
  <2> QED
    BY <2>1, <2>2
<1>6. cut \in Int
  BY MaxCardAssumption, <1>4 DEF Slots
<1>7. CanCut(q, s, cut)
  BY <1>1, <1>2, <1>4, <1>6 DEF CanCut
<1>8. SplitSeg(q, s, LeftHalf(x, g), RightHalf(x, g)) = Cut(q, s, cut)
  BY <1>5 DEF Cut
<1>9. Seg(x.b, cut - 1) \in Bar /\ Seg(cut, x.e) \in Bar
  BY <1>2, <1>4 DEF Seg, Bar
<1>10. /\ Seg(x.b, cut - 1).b <= Seg(x.b, cut - 1).e
       /\ Seg(cut, x.e).b = Seg(x.b, cut - 1).e + 1
       /\ Seg(cut, x.e).b <= Seg(cut, x.e).e
  BY MaxCardAssumption, <1>3, <1>4, <1>6 DEF Seg
<1> QED
  BY <1>5, <1>7, <1>8, <1>9, <1>10

\* What the constants allow.
LEMMA ChartFacts ==
  ASSUME TrendInv
  PROVE  /\ MaxCard \in Nat /\ MaxCard >= 3
         /\ card \in 0..MaxCard
         /\ Loaded => chart \in Charts /\ card \in 1..MaxCard
<1>1. Loaded => chart \in Charts
  BY DEF TrendInv, TrendTypeOK, Loaded
<1>2. chart \in Charts => card \in 1..MaxCard
  BY ChartAssumption DEF TrendInv, CardMatches
<1> QED
  BY MaxCardAssumption, <1>1, <1>2 DEF TrendInv, TrendTypeOK

-----------------------------------------------------------------------------
(* The invariant holds at the start, and every action keeps it.            *)

LEMMA InitInv == TrendInit => TrendInv
<1> SUFFICES ASSUME TrendInit PROVE TrendInv
  OBVIOUS
<1>1. 0 \in Slots /\ MaxCard \in Nat /\ 0 \in 0..MaxCard /\ 0 \in -1..MaxCard - 1
  BY MaxCardAssumption DEF Slots
<1>2. << >> \in Seq([b : Slots, e : Slots]) /\ Ordered(<< >>)
  BY DEF Ordered
<1>3. TrendTypeOK
  BY <1>1, <1>2 DEF TrendInit, TrendTypeOK, ZeroSeg, Seg
<1>4. CardMatches
  BY NoChartAssumption DEF TrendInit, CardMatches
<1>5. KBestCovers /\ KBestOrdered
  BY <1>2 DEF TrendInit, KBestCovers, KBestOrdered
<1>6. AnswerIsNeighbours
  BY DEF TrendInit, AnswerIsNeighbours
<1> QED
  BY <1>3, <1>4, <1>5, <1>6 DEF TrendInv

LEMMA LoadAxesDataInv ==
  ASSUME TrendInv, NEW c \in Charts, LoadAxesData(c)
  PROVE  TrendInv'
<1>1. CardOf[c] \in 0..MaxCard
  BY ChartAssumption, MaxCardAssumption
<1>2. TrendTypeOK'
  BY <1>1 DEF TrendInv, TrendTypeOK, LoadAxesData
<1>3. CardMatches'
  BY DEF CardMatches, LoadAxesData
<1>4. KBestCovers' /\ KBestOrdered' /\ AnswerIsNeighbours'
  BY DEF TrendInv, KBestCovers, KBestOrdered, AnswerIsNeighbours, LoadAxesData
<1> QED
  BY <1>2, <1>3, <1>4 DEF TrendInv

LEMMA ResetInv ==
  ASSUME TrendInv, Reset
  PROVE  TrendInv'
<1>1. /\ 0 \in Slots /\ MaxCard \in Nat /\ -1 \in -1..MaxCard - 1
      /\ << >> \in Seq([b : Slots, e : Slots]) /\ Ordered(<< >>)
  BY MaxCardAssumption DEF Slots, Ordered
<1>2. \A i \in Slots : kBest'[i] = << >> \/ kBest'[i] = kBest[i]
  BY DEF Reset
<1>3. TrendTypeOK'
  <2>1. kBest' \in [Slots -> Seq([b : Slots, e : Slots])]
    BY <1>1 DEF TrendInv, TrendTypeOK, Reset
  <2>2. samples' \in [Slots -> SUBSET (Charts \cup {NoChart})]
    BY DEF TrendInv, TrendTypeOK, Reset
  <2>3. nonSingleGroups' \in Nat
    BY <1>1 DEF TrendInv, TrendTypeOK, Reset
  <2>4. DOMAIN avgMap' \subseteq Slots /\ \A g \in DOMAIN avgMap' : avgMap'[g] \subseteq Charts \cup {NoChart}
    BY DEF Reset
  <2> QED
    BY <1>1, <2>1, <2>2, <2>3, <2>4
       DEF TrendInv, TrendTypeOK, Reset, ZeroSeg, Seg
<1>4. CardMatches'
  BY DEF TrendInv, CardMatches, Reset
<1>5. KBestCovers'
  BY <1>2 DEF TrendInv, KBestCovers
<1>6. KBestOrdered'
  BY <1>1, <1>2 DEF TrendInv, KBestOrdered
<1>7. AnswerIsNeighbours'
  BY DEF Reset, AnswerIsNeighbours
<1> QED
  BY <1>3, <1>4, <1>5, <1>6, <1>7 DEF TrendInv

\* Sampling keeps the averages' type, and adds the loaded chart only.
LEMMA SampleType ==
  ASSUME TrendInv, Loaded, NEW groups, Sample(groups)
  PROVE  samples' \in [Slots -> SUBSET (Charts \cup {NoChart})]
BY ChartFacts DEF TrendInv, TrendTypeOK, Sample

\* One segment over all the groups.
LEMMA WholeShape ==
  ASSUME TrendInv, Loaded
  PROVE  /\ Whole(card) \in Seq([b : Slots, e : Slots])
         /\ Seg(0, LastGroup) \in [b : Slots, e : Slots]
         /\ Covers(Whole(card), 0, card - 1)
         /\ Ordered(Whole(card))
<1>1. card \in 1..MaxCard /\ MaxCard \in Nat
  BY ChartFacts
<1>2. 0 \in Slots /\ card - 1 \in Slots
  BY <1>1 DEF Slots
<1>3. Seg(0, card - 1) \in [b : Slots, e : Slots]
  BY <1>2 DEF Seg
<1>4. Len(Whole(card)) = 1 /\ Whole(card)[1] = Seg(0, card - 1)
  BY DEF Whole
<1>5. Seg(0, card - 1).b = 0 /\ Seg(0, card - 1).e = card - 1
  BY DEF Seg
<1>6. Covers(Whole(card), 0, card - 1)
  BY <1>1, <1>4, <1>5 DEF Covers
<1>7. Ordered(Whole(card))
  BY <1>4 DEF Ordered
<1> QED
  BY <1>3, <1>6, <1>7 DEF Whole, LastGroup

\* The averages keep their type even when a store past k_Best falls on them.
LEMMA GenHistoFirstSamples ==
  ASSUME TrendInv, Loaded, NEW i, GenHistoFirst(i)
  PROVE  samples' \in [Slots -> SUBSET (Charts \cup {NoChart})]
<1>1. CASE i \in Slots
  BY <1>1, SampleType DEF GenHistoFirst
<1>2. CASE i \notin Slots
  <2>1. PICK hit \in {{}, Slots \cap 0 .. 2} :
          samples' = [g \in Slots |-> IF g \in hit THEN {NoChart} ELSE
                        samples[g] \cup IF g < card THEN {chart} ELSE {}]
    BY <1>2 DEF GenHistoFirst
  <2>2. \A g \in Slots : samples[g] \subseteq Charts \cup {NoChart}
    BY DEF TrendInv, TrendTypeOK
  <2>3. chart \in Charts
    BY ChartFacts
  <2> QED
    BY <2>1, <2>2, <2>3
<1> QED
  BY <1>1, <1>2

LEMMA GenHistoFirstInv ==
  ASSUME TrendInv, Loaded, NEW i \in 0..MaxCard, GenHistoFirst(i)
  PROVE  TrendInv'
<1>1. card \in 1..MaxCard /\ MaxCard \in Nat
  BY ChartFacts
<1>2. \A j \in Slots : kBest'[j] = IF j = i THEN Whole(card) ELSE kBest[j]
  BY DEF TrendInv, TrendTypeOK, GenHistoFirst
<1>3. TrendTypeOK'
  <2>1. kBest' \in [Slots -> Seq([b : Slots, e : Slots])]
    BY WholeShape DEF TrendInv, TrendTypeOK, GenHistoFirst
  <2>2. samples' \in [Slots -> SUBSET (Charts \cup {NoChart})]
    BY GenHistoFirstSamples
  <2>3. splitSeg' \in -1..MaxCard - 1
    BY <1>1 DEF GenHistoFirst
  <2>4. firstNew' \in [b : Slots, e : Slots]
    BY WholeShape DEF GenHistoFirst
  <2> QED
    BY <2>1, <2>2, <2>3, <2>4 DEF TrendInv, TrendTypeOK, GenHistoFirst
<1>4. CardMatches'
  BY DEF TrendInv, CardMatches, GenHistoFirst
<1>5. KBestCovers'
  BY <1>1, <1>2, WholeShape DEF TrendInv, KBestCovers
<1>6. KBestOrdered'
  BY <1>2, WholeShape DEF TrendInv, KBestOrdered
<1>7. AnswerIsNeighbours'
  BY DEF GenHistoFirst, AnswerIsNeighbours
<1> QED
  BY <1>3, <1>4, <1>5, <1>6, <1>7 DEF TrendInv

\* Storing a segmentation that covers some groups in order.
LEMMA StoreInv ==
  ASSUME TrendInv, NEW i \in 0..MaxCard,
         NEW segs \in Seq([b : Slots, e : Slots]), Store(i, segs),
         Ordered(segs),
         segs # << >> => \E n \in 1..MaxCard : Covers(segs, 0, n - 1)
  PROVE  /\ kBest' \in [Slots -> Seq([b : Slots, e : Slots])]
         /\ KBestCovers'
         /\ KBestOrdered'
<1>1. \A j \in Slots : kBest'[j] = kBest[j] \/ kBest'[j] = segs
  BY DEF TrendInv, TrendTypeOK, Store
<1>2. kBest' \in [Slots -> Seq([b : Slots, e : Slots])]
  BY DEF TrendInv, TrendTypeOK, Store
<1>3. KBestCovers'
  BY <1>1 DEF TrendInv, KBestCovers
<1>4. KBestOrdered'
  BY <1>1 DEF TrendInv, KBestOrdered
<1> QED
  BY <1>2, <1>3, <1>4

\* The previous slot of an iteration after the first.
LEMMA PreviousSlot ==
  ASSUME NEW i \in 0..MaxCard, i > 0
  PROVE  i - 1 \in Slots
BY MaxCardAssumption DEF Slots

LEMMA SplitAtInv ==
  ASSUME TrendInv, Loaded, NEW i \in 0..MaxCard, i > 0,
         NEW s \in Splittable(kBest[i - 1]), NEW g \in Groups(kBest[i - 1][s]),
         SplitAt(i, s, g), Sample(NonSingle(kBest[i - 1])),
         UNCHANGED << chart, card, firstIteration, avgMap >>
  PROVE  TrendInv'
<1> DEFINE prev  == kBest[i - 1]
           cut   == CutOf(prev[s], g)
           left  == LeftHalf(prev[s], g)
           right == RightHalf(prev[s], g)
           tmp   == SplitSeg(prev, s, left, right)
<1>1. i - 1 \in Slots
  BY PreviousSlot
<1>2. /\ prev \in Seq(Bar) /\ Ordered(prev) /\ NonEmpty(prev)
      /\ Len(prev) \in Nat /\ Len(prev) <= MaxCard
  BY <1>1, StoredShape
<1>3. s \in 1..Len(prev)
  BY DEF Splittable
<1>4. /\ CanCut(prev, s, cut) /\ tmp = Cut(prev, s, cut)
      /\ left \in Bar /\ right \in Bar
      /\ left.b <= left.e /\ right.b = left.e + 1 /\ right.b <= right.e
  BY <1>2, HalvesAreCut
<1>5. tmp \in Seq(Bar)
  BY <1>2, <1>3, <1>4, SplitType
<1>6. Ordered(tmp)
  BY <1>2, <1>4, SplitOrdered
<1>7. \E n \in 1..MaxCard : Covers(tmp, 0, n - 1)
  <2>1. prev # << >>
    BY <1>3
  <2>2. PICK n \in 1..MaxCard : Covers(prev, 0, n - 1)
    BY <1>1, <2>1 DEF TrendInv, KBestCovers
  <2>3. n - 1 \in Int /\ 0 \in Int
    OBVIOUS
  <2>4. Covers(Cut(prev, s, cut), 0, n - 1)
    BY <1>4, <2>2, <2>3, SplitCovers
  <2> QED
    BY <1>4, <2>4
<1>8. Store(i, tmp) /\ splitSeg' = s - 1 /\ firstNew' = left /\ secondNew' = right
  BY DEF SplitAt
<1>9. nonSingleGroups' \in Nat
  <2>1. Cardinality(NonSingle(tmp)) \in Nat
    BY <1>5, NonSingleFinite
  <2>2. Cardinality(Groups(right)) \in Nat
    <3>1. right.b \in Int /\ right.e \in Int
      BY MaxCardAssumption, <1>4 DEF Bar, Slots
    <3>2. IsFiniteSet(Groups(right))
      BY <3>1, FS_Interval DEF Groups
    <3> QED
      BY <3>2, FS_CardinalityType
  <2>3. nonSingleGroups' = Cardinality(NonSingle(tmp))
          + (IF g # prev[s].e /\ right.b < right.e
               THEN Cardinality(Groups(right)) ELSE 0)
    BY DEF SplitAt
  <2> HIDE DEF tmp, right
  <2> QED
    BY <2>1, <2>2, <2>3
<1> HIDE DEF tmp, left, right, cut
<1>10. /\ kBest' \in [Slots -> Seq([b : Slots, e : Slots])]
       /\ KBestCovers' /\ KBestOrdered'
  BY <1>5, <1>6, <1>7, <1>8, StoreInv DEF Bar
<1>11. splitSeg' \in -1..MaxCard - 1
  BY MaxCardAssumption, <1>2, <1>3, <1>8
<1>12. TrendTypeOK'
  BY <1>4, <1>8, <1>9, <1>10, <1>11, SampleType DEF TrendInv, TrendTypeOK, Bar
<1>13. CardMatches'
  BY DEF TrendInv, CardMatches
<1>14. AnswerIsNeighbours'
  BY <1>4, <1>8 DEF AnswerIsNeighbours
<1> QED
  BY <1>10, <1>12, <1>13, <1>14 DEF TrendInv

LEMMA NothingToSplitInv ==
  ASSUME TrendInv, Loaded, NEW i \in 0..MaxCard, i > 0,
         NothingToSplit(i), Sample(NonSingle(kBest[i - 1])),
         UNCHANGED << chart, card, firstIteration, avgMap >>
  PROVE  TrendInv'
<1>1. i - 1 \in Slots
  BY PreviousSlot
<1>2. kBest[i - 1] \in Seq([b : Slots, e : Slots]) /\ Ordered(kBest[i - 1])
  BY <1>1 DEF TrendInv, TrendTypeOK, KBestOrdered
<1>3. kBest[i - 1] # << >> => \E n \in 1..MaxCard : Covers(kBest[i - 1], 0, n - 1)
  BY <1>1 DEF TrendInv, KBestCovers
<1>4. /\ kBest' \in [Slots -> Seq([b : Slots, e : Slots])]
      /\ KBestCovers' /\ KBestOrdered'
  BY <1>2, <1>3, StoreInv DEF NothingToSplit
<1>5. TrendTypeOK'
  BY <1>4, SampleType DEF TrendInv, TrendTypeOK, NothingToSplit
<1>6. CardMatches'
  BY DEF TrendInv, CardMatches
<1>7. AnswerIsNeighbours'
  BY DEF TrendInv, AnswerIsNeighbours, NothingToSplit
<1> QED
  BY <1>4, <1>5, <1>6, <1>7 DEF TrendInv

LEMMA GenHistoBaseInv ==
  ASSUME TrendInv, GenHistoBase
  PROVE  TrendInv'
<1>1. Loaded /\ Sample(0..LastGroup)
  BY DEF GenHistoBase
<1>2. samples' \in [Slots -> SUBSET (Charts \cup {NoChart})]
  BY <1>1, SampleType
<1>3. card \in 1..MaxCard /\ MaxCard \in Nat
  BY <1>1, ChartFacts
<1>4. 0..LastGroup \subseteq Slots
  BY <1>3 DEF LastGroup, Slots
<1>5. DOMAIN avgMap' \subseteq Slots
  BY <1>4 DEF TrendInv, TrendTypeOK, GenHistoBase
<1>6. ASSUME NEW g \in DOMAIN avgMap'
      PROVE  avgMap'[g] \subseteq Charts \cup {NoChart}
  <2>1. avgMap'[g] = IF g <= LastGroup THEN samples'[g] ELSE avgMap[g]
    BY <1>6 DEF GenHistoBase
  <2>2. g \in Slots
    BY <1>5
  <2>3. g \in DOMAIN avgMap \/ g \in 0..LastGroup
    BY <1>6 DEF GenHistoBase
  <2>4. CASE g <= LastGroup
    BY <1>2, <2>1, <2>2, <2>4
  <2>5. CASE ~(g <= LastGroup)
    <3>1. g \in DOMAIN avgMap
      BY <2>3, <2>5
    <3> QED
      BY <2>1, <2>5, <3>1 DEF TrendInv, TrendTypeOK
  <2> QED
    BY <2>4, <2>5
<1>7. TrendTypeOK'
  BY <1>2, <1>5, <1>6 DEF TrendInv, TrendTypeOK, GenHistoBase
<1>8. CardMatches' /\ KBestCovers' /\ KBestOrdered' /\ AnswerIsNeighbours'
  BY DEF TrendInv, CardMatches, KBestCovers, KBestOrdered, AnswerIsNeighbours,
         GenHistoBase
<1> QED
  BY <1>7, <1>8 DEF TrendInv

LEMMA NextInv == TrendInv /\ [TrendNext]_trendVars => TrendInv'
<1> SUFFICES ASSUME TrendInv, [TrendNext]_trendVars
             PROVE  TrendInv'
  OBVIOUS
<1>1. ASSUME NEW c \in Charts, LoadAxesData(c)
      PROVE  TrendInv'
  BY <1>1, LoadAxesDataInv
<1>2. CASE Reset
  BY <1>2, ResetInv
<1>3. ASSUME NEW i \in 0..MaxCard, GenHisto(i)
      PROVE  TrendInv'
  <2>1. Loaded
    BY <1>3 DEF GenHisto
  <2>2. CASE GenHistoFirst(i)
    BY <2>1, <2>2, GenHistoFirstInv
  <2>3. CASE GenHistoNext(i)
    <3>1. /\ i > 0 /\ Sample(NonSingle(kBest[i - 1]))
          /\ UNCHANGED << chart, card, firstIteration, avgMap >>
      BY <2>3 DEF GenHistoNext
    <3>2. ASSUME NEW s \in Splittable(kBest[i - 1]),
                 NEW g \in Groups(kBest[i - 1][s]), SplitAt(i, s, g)
          PROVE  TrendInv'
      BY <2>1, <3>1, <3>2, SplitAtInv
    <3>3. CASE NothingToSplit(i)
      BY <2>1, <3>1, <3>3, NothingToSplitInv
    <3> QED
      BY <2>3, <3>2, <3>3 DEF GenHistoNext
  <2> QED
    BY <1>3, <2>2, <2>3 DEF GenHisto
<1>4. CASE GenHistoBase
  BY <1>4, GenHistoBaseInv
<1>5. CASE UNCHANGED trendVars
  BY <1>5 DEF trendVars, TrendInv, TrendTypeOK, CardMatches, KBestCovers,
              KBestOrdered, AnswerIsNeighbours
<1> QED
  BY <1>1, <1>2, <1>3, <1>4, <1>5 DEF TrendNext

-----------------------------------------------------------------------------
\* Whatever the order of the calls, the engine's state keeps its types: no
\* slot, group or segment position leaves its array.
THEOREM TrendTypeCorrect == TrendSpec => []TrendTypeOK
<1>1. TrendInv => TrendTypeOK
  BY DEF TrendInv
<1> QED
  BY InitInv, NextInv, <1>1, PTL DEF TrendSpec

\* Every stored segmentation covers its groups without gap or overlap.
THEOREM TrendCovers == TrendSpec => []KBestCovers
<1>1. TrendInv => KBestCovers
  BY DEF TrendInv
<1> QED
  BY InitInv, NextInv, <1>1, PTL DEF TrendSpec

\* Every answer names two neighbouring segments.
THEOREM TrendAnswers == TrendSpec => []AnswerIsNeighbours
<1>1. TrendInv => AnswerIsNeighbours
  BY DEF TrendInv
<1> QED
  BY InitInv, NextInv, <1>1, PTL DEF TrendSpec

-----------------------------------------------------------------------------
\* What IterationRefines says of the slot of k_Best that a step changes.
SlotRefines(i) ==
  /\ i > 0
  /\ \/ kBest'[i] = kBest[i - 1]
     \/ RefinesByOne(kBest'[i], kBest[i - 1])
  /\ \A j \in Slots \ {i} : kBest'[j] = kBest[j]

\* Storing changes the slot of the iteration only.
LEMMA StoreSlot ==
  ASSUME TrendInv, NEW i, NEW segs, Store(i, segs),
         NEW k \in Slots, kBest'[k] # kBest[k]
  PROVE  k = i /\ kBest'[i] = segs /\ \A j \in Slots \ {i} : kBest'[j] = kBest[j]
BY DEF TrendInv, TrendTypeOK, Store

\* A step that is neither a first iteration nor a reset refines the slot.
LEMMA GenHistoNextRefines ==
  ASSUME TrendInv, NEW i \in 0..MaxCard, GenHistoNext(i),
         NEW k \in Slots, kBest'[k] # kBest[k]
  PROVE  SlotRefines(k)
<1>1. i > 0 /\ i - 1 \in Slots
  BY PreviousSlot DEF GenHistoNext
<1>2. ASSUME NEW s \in Splittable(kBest[i - 1]),
             NEW g \in Groups(kBest[i - 1][s]), SplitAt(i, s, g)
      PROVE  SlotRefines(k)
  <2> DEFINE prev == kBest[i - 1]
             cut  == CutOf(prev[s], g)
             tmp  == SplitSeg(prev, s, LeftHalf(prev[s], g), RightHalf(prev[s], g))
  <2>1. prev \in Seq(Bar) /\ Ordered(prev) /\ NonEmpty(prev)
    BY <1>1, StoredShape
  <2>2. CanCut(prev, s, cut) /\ tmp = Cut(prev, s, cut)
    BY <2>1, HalvesAreCut
  <2>3. RefinesByOne(tmp, prev)
    BY <2>1, <2>2, SplitRefines
  <2>4. Store(i, tmp)
    BY <1>2 DEF SplitAt
  <2> HIDE DEF tmp
  <2>5. k = i /\ kBest'[i] = tmp /\ \A j \in Slots \ {i} : kBest'[j] = kBest[j]
    BY <2>4, StoreSlot
  <2> QED
    BY <1>1, <2>3, <2>5 DEF SlotRefines
<1>3. CASE NothingToSplit(i)
  <2>1. Store(i, kBest[i - 1])
    BY <1>3 DEF NothingToSplit
  <2>2. /\ k = i /\ kBest'[i] = kBest[i - 1]
        /\ \A j \in Slots \ {i} : kBest'[j] = kBest[j]
    BY <2>1, StoreSlot
  <2> QED
    BY <1>1, <2>2 DEF SlotRefines
<1> QED
  BY <1>2, <1>3 DEF GenHistoNext

\* Between two resets no step ever coarsens or replaces a segmentation: what
\* is stored for an iteration is that of the iteration before it, at most one
\* segment split.
THEOREM TrendRefines == TrendSpec => IterationRefines
<1> DEFINE Step == \A i \in Slots :
             kBest'[i] # kBest[i] /\ ~firstIteration /\ ~firstIteration' =>
               SlotRefines(i)
<1>1. TrendInv /\ [TrendNext]_trendVars => [Step]_trendVars
  <2> SUFFICES ASSUME TrendInv, TrendNext,
                      NEW k \in Slots, kBest'[k] # kBest[k],
                      ~firstIteration, ~firstIteration'
               PROVE  SlotRefines(k)
    OBVIOUS
  <2>1. ASSUME NEW c \in Charts, LoadAxesData(c)
        PROVE  FALSE
    BY <2>1 DEF LoadAxesData
  <2>2. CASE Reset
    BY <2>2 DEF Reset
  <2>3. ASSUME NEW i \in 0..MaxCard, GenHisto(i)
        PROVE  SlotRefines(k)
    <3>1. GenHistoNext(i)
      BY <2>3 DEF GenHisto, GenHistoFirst
    <3> QED
      BY <3>1, GenHistoNextRefines
  <2>4. CASE GenHistoBase
    BY <2>4 DEF GenHistoBase
  <2> QED
    BY <2>1, <2>2, <2>3, <2>4 DEF TrendNext
<1>2. TrendSpec => [][Step]_trendVars
  <2> HIDE DEF Step
  <2> QED
    BY InitInv, NextInv, <1>1, PTL DEF TrendSpec
<1>3. QED
  BY <1>2 DEF IterationRefines, SlotRefines

-----------------------------------------------------------------------------
(* The messages under way.  A call is a request the page waits for, and    *)
(* there is one at a time; resets are sent besides and never answered.     *)

Calls     == { m \in DOMAIN requests : m.op # "reset" }
Answers   == DOMAIN replies
ResetSent == \E m \in DOMAIN requests : m.op = "reset"

RequestsOK ==
  /\ IsABag(requests)
  /\ \A m \in Calls : requests[m] = 1
  /\ \A m, n \in Calls : m = n
RepliesOK ==
  /\ IsABag(replies)
  /\ \A m \in Answers : replies[m] = 1
  /\ \A m, n \in Answers : m = n
OneCall ==
  /\ RequestsOK
  /\ RepliesOK
  /\ Calls = {} \/ Answers = {}

\* The page calls the server while no call is under way.
LEMMA CallSent ==
  ASSUME RequestsOK, Calls = {}, NEW m, m.op # "reset", Send(m)
  PROVE  RequestsOK' /\ Calls' = {m} /\ (ResetSent' <=> ResetSent)
<1>1. /\ IsABag(requests')
      /\ DOMAIN requests' = DOMAIN requests \cup {m}
      /\ m \notin DOMAIN requests => requests'[m] = 1
  BY BagAdd DEF RequestsOK, Send
<1>2. Calls' = {m}
  BY <1>1 DEF Calls
<1>3. m \notin DOMAIN requests
  BY DEF Calls
<1> QED
  BY <1>1, <1>2, <1>3 DEF RequestsOK, ResetSent

LEMMA ResetIsSent ==
  ASSUME RequestsOK, Send(ResetRequest)
  PROVE  RequestsOK' /\ Calls' = Calls /\ ResetSent'
<1>1. ResetRequest.op = "reset"
  BY DEF ResetRequest
<1>2. \A x \in Calls : x \in DOMAIN requests /\ x # ResetRequest
  BY <1>1 DEF Calls
<1>3. /\ IsABag(requests')
      /\ DOMAIN requests' = DOMAIN requests \cup {ResetRequest}
      /\ \A x \in DOMAIN requests : x # ResetRequest => requests'[x] = requests[x]
  <2>1. requests' = requests (+) SetToBag({ResetRequest})
    BY DEF Send
  <2>2. IsABag(requests)
    BY DEF RequestsOK
  <2> QED
    BY <2>1, <2>2, BagAdd, Zenon
<1>4. Calls' = Calls
  BY <1>1, <1>3 DEF Calls
<1>5. ResetSent'
  BY <1>1, <1>3 DEF ResetSent
<1> QED
  BY <1>2, <1>3, <1>4, <1>5 DEF RequestsOK

\* The server takes a call, or the network loses it.
LEMMA CallTaken ==
  ASSUME RequestsOK, NEW m \in DOMAIN requests, m.op # "reset",
         requests' = requests (-) SetToBag({m})
  PROVE  /\ RequestsOK' /\ Calls = {m} /\ Calls' = {}
         /\ ResetSent' <=> ResetSent
<1>1. m \in Calls
  BY DEF Calls
<1>2. Calls = {m} /\ requests[m] = 1
  BY <1>1 DEF RequestsOK
<1>3. /\ IsABag(requests')
      /\ DOMAIN requests' \subseteq DOMAIN requests
      /\ DOMAIN requests \subseteq DOMAIN requests' \cup {m}
      /\ m \notin DOMAIN requests'
  BY <1>2, BagDel DEF RequestsOK
<1>4. Calls' = {}
  BY <1>2, <1>3 DEF Calls
<1>5. ResetSent' <=> ResetSent
  BY <1>3 DEF ResetSent
<1> QED
  BY <1>2, <1>3, <1>4, <1>5 DEF RequestsOK

LEMMA ResetTaken ==
  ASSUME RequestsOK, NEW m \in DOMAIN requests, m.op = "reset",
         requests' = requests (-) SetToBag({m})
  PROVE  RequestsOK' /\ Calls' = Calls /\ ResetSent
<1>1. /\ IsABag(requests')
      /\ DOMAIN requests' \subseteq DOMAIN requests
      /\ DOMAIN requests \subseteq DOMAIN requests' \cup {m}
      /\ \A x \in DOMAIN requests : x # m => requests'[x] = requests[x]
  BY BagDel DEF RequestsOK
<1>2. Calls' = Calls
  BY <1>1 DEF Calls
<1>3. \A x \in Calls : x \in DOMAIN requests /\ x # m
  BY DEF Calls
<1> QED
  BY <1>1, <1>2, <1>3 DEF RequestsOK, ResetSent

\* The server answers, and the answer is taken or lost.
LEMMA AnswerSent ==
  ASSUME RepliesOK, Answers = {}, NEW m, replies' = replies (+) SetToBag({m})
  PROVE  RepliesOK' /\ Answers' = {m}
<1>1. /\ IsABag(replies')
      /\ DOMAIN replies' = DOMAIN replies \cup {m}
      /\ m \notin DOMAIN replies => replies'[m] = 1
  BY BagAdd DEF RepliesOK
<1>2. Answers' = {m} /\ m \notin DOMAIN replies
  BY <1>1 DEF Answers
<1> QED
  BY <1>1, <1>2 DEF RepliesOK

LEMMA AnswerTaken ==
  ASSUME RepliesOK, NEW m \in DOMAIN replies,
         replies' = replies (-) SetToBag({m})
  PROVE  RepliesOK' /\ Answers = {m} /\ Answers' = {}
<1>1. Answers = {m} /\ replies[m] = 1
  BY DEF RepliesOK, Answers
<1>2. /\ IsABag(replies')
      /\ DOMAIN replies' \subseteq DOMAIN replies
      /\ m \notin DOMAIN replies'
  BY <1>1, BagDel DEF RepliesOK
<1>3. Answers' = {}
  BY <1>1, <1>2 DEF Answers
<1> QED
  BY <1>1, <1>2, <1>3 DEF RepliesOK

LEMMA IdleIsQuiet ==
  ASSUME Idle
  PROVE  Calls = {} /\ Answers = {} /\ ~ResetSent
<1>1. DOMAIN requests = {} /\ DOMAIN replies = {}
  BY DEF Idle, EmptyBag, SetToBag
<1> QED
  BY <1>1 DEF Calls, Answers, ResetSent

-----------------------------------------------------------------------------
(* What the theorems assume of the user and of the network.                *)

\* The user waits for an answer before the next call.  A lost reset or lost
\* axes leave the two sides apart for good; a lost iteration does not, as
\* long as the user touches nothing while the chart is playing.
Orderly ==
  /\ Patience \in {"asking", "all"}
  /\ "reset" \notin LoseRequests
  /\ "axes" \notin LoseReplies
  /\ "iter" \in LoseRequests \cup LoseReplies => Patience = "all"

\* No iteration is lost on the way, in either direction.
Lossless == "iter" \notin LoseRequests \cup LoseReplies

-----------------------------------------------------------------------------
(* The first invariant: which calls can be under way when, and what the    *)
(* engine has been asked so far.                                           *)

IterAsked    == \E m \in Calls : m.op = "iter"
IterAnswered == \E m \in Answers : m.op = "iter"
IterUnderWay == IterAsked \/ IterAnswered
AxesAnswered == \E m \in Answers : m.op = "axes"

\* Page and engine have the same chart, and no reset is still to come.
Synced == page.loaded /\ ~ResetSent /\ ~AxesAnswered

PageFields ==
  { "loaded", "xMin", "xMax", "iteration", "segmentArr", "playIter",
    "pauseIter", "forwardIter", "backwardIter", "seekbarMax", "forwardFlag",
    "backFlag", "pauseFlag", "playFlag", "simplayFlag", "resetFlag",
    "playNoviz", "icon", "playLit", "forwardLit", "backLit" }

PageShape ==
  /\ DOMAIN page = PageFields
  /\ page.loaded \in BOOLEAN /\ page.resetFlag \in BOOLEAN
  /\ page.playFlag \in BOOLEAN /\ page.simplayFlag \in BOOLEAN
  /\ page.xMin \in {0, 1} /\ page.xMax \in Int /\ page.xMin <= page.xMax
  /\ page.iteration \in Int
  /\ vizType \in VizTypes

MessageShape ==
  /\ \A m \in Calls : \/ (m.op = "axes" /\ m.chart \in Charts)
                       \/ (m.op = "iter" /\ m.iter \in Int)
  /\ \A m \in Answers : m.op \in {"axes", "iter"}

\* Before the first chart no button reacts.
BeforeLoad ==
  ~page.loaded =>
    /\ ~page.playLit /\ ~page.forwardLit /\ ~page.backLit
    /\ page.icon = "play" /\ ~page.resetFlag /\ page.segmentArr = << >>
    /\ ~IterUnderWay /\ ~ResetSent /\ DOMAIN segmentChain = {}

\* The axis of the page is that of the engine's chart, unless the answer
\* that tells the page is still under way.
AxisAgrees ==
  /\ page.loaded /\ ~AxesAnswered =>
       /\ Loaded
       /\ page.xMin = XMinOf[chart] /\ page.xMax = page.xMin + card - 1
  /\ \A m \in Answers : m.op = "axes" =>
       /\ Loaded /\ firstIteration
       /\ m.xMin = XMinOf[chart] /\ m.xMax = m.xMin + card - 1
  /\ \A m \in Answers : m.op = "iter" =>
       m.xMin = page.xMin /\ m.xMax = page.xMax

\* From a reset to the next click on Play the page is blank.
BlankAfterReset ==
  page.resetFlag \/ ResetSent =>
    /\ page.segmentArr = << >> /\ Current = {}
    /\ ~page.playFlag /\ ~page.simplayFlag /\ page.icon = "play"
    /\ page.iteration <= page.xMin

\* An iteration that was under way when the user clicked Repeat reaches a
\* clean engine, or is followed by one more reset.
ResetOvertakes ==
  /\ ResetSent /\ ~page.resetFlag => ~IterUnderWay
  /\ page.resetFlag /\ ~ResetSent /\ IterAsked => firstIteration
  /\ Lossless /\ page.resetFlag /\ ~ResetSent /\ ~IterUnderWay => firstIteration
  /\ IterAnswered /\ ~page.resetFlag => ~firstIteration

\* What the page asks for is an iteration of its chart, the one it is at;
\* the very first iteration of an axis that starts at 0 is only asked of a
\* clean engine.
AskedIsCurrent ==
  /\ \A m \in Calls : m.op = "iter" =>
       /\ page.xMin <= m.iter /\ m.iter <= page.xMax
       /\ page.resetFlag \/ m.iter = page.iteration
       /\ Lossless /\ m.iter = 0 => firstIteration
  /\ IterUnderWay /\ ~page.resetFlag =>
       /\ page.xMin <= page.iteration /\ page.iteration <= page.xMax
       /\ page.simplayFlag \/ page.playFlag

\* Playing goes on from the first iteration, from a pause or not at all.
PlaysInOrder ==
  /\ Patience = "all" /\ page.playFlag => page.icon = "pause"
  /\ page.loaded => \/ page.simplayFlag
                    \/ page.iteration <= page.xMin
                    \/ page.iteration > page.xMax
                    \/ page.playFlag /\ (Patience = "all" \/ IterUnderWay)

StartsAtXMin ==
  /\ page.loaded => page.iteration >= page.xMin - 1
  /\ page.icon = "pause" \/ page.simplayFlag \/ page.playFlag =>
       page.iteration >= page.xMin

\* What is first asked of a clean engine is one of the first two iterations of
\* the axis, as long as none is lost.
StartsEarly ==
  Lossless /\ page.loaded /\ ~AxesAnswered /\ firstIteration =>
    /\ page.iteration <= page.xMin + 1
    /\ ~IterAsked => page.iteration <= page.xMin

\* The averages are of the loaded chart, and there are none before the first
\* iteration.  A store past k_Best, which only an axis that ends where the
\* array does makes possible, spoils them until the reset that the discarded
\* answer is followed by; lost, it is followed by none.
AxesFit == \A c \in Charts : XMinOf[c] + CardOf[c] <= MaxCard
SamplesOfChart ==
  Synced /\ (AxesFit \/ (Lossless /\ (page.resetFlag => firstIteration))) =>
            \A g \in 0 .. card - 1 :
              samples[g] = IF firstIteration THEN {} ELSE {chart}

BlankBeforeFirst ==
  /\ page.loaded /\ ~AxesAnswered /\ firstIteration => page.segmentArr = << >>
  /\ Lossless /\ Synced /\ ~page.resetFlag /\ ~firstIteration /\ ~IterAnswered =>
       page.iteration > page.xMin

\* What the page keeps was received in this run or in an earlier one.
RunsPast ==
  /\ run \in Nat
  /\ \A i \in DOMAIN segmentChain :
       segmentChain[i].run \in Nat /\ segmentChain[i].run <= run

OrderInv ==
  /\ Orderly
  /\ TrendInv
  /\ OneCall
  /\ PageShape /\ MessageShape
  /\ BeforeLoad
  /\ AxisAgrees
  /\ BlankAfterReset
  /\ ResetOvertakes
  /\ AskedIsCurrent
  /\ PlaysInOrder
  /\ StartsAtXMin
  /\ StartsEarly
  /\ SamplesOfChart
  /\ BlankBeforeFirst
  /\ RunsPast

-----------------------------------------------------------------------------
(* The page before and after the operators the handlers share.             *)

\* What the proofs look at of a page.
SameChart(q, p) ==
  /\ DOMAIN q = PageFields
  /\ q.loaded = p.loaded /\ q.xMin = p.xMin /\ q.xMax = p.xMax

LEMMA ClearedPage ==
  ASSUME NEW p, DOMAIN p = PageFields
  PROVE  /\ SameChart(Cleared(p), p)
         /\ Cleared(p).resetFlag = p.resetFlag
         /\ Cleared(p).segmentArr = << >>
         /\ Cleared(p).iteration = p.xMin - 1
         /\ Cleared(p).playFlag = FALSE /\ Cleared(p).simplayFlag = FALSE
         /\ Cleared(p).icon = "play"
BY DEF Cleared, PageFields, SameChart

LEMMA FinishedPage ==
  ASSUME NEW p, DOMAIN p = PageFields
  PROVE  /\ SameChart(Finished(p), p)
         /\ Finished(p).resetFlag = p.resetFlag
         /\ Finished(p).segmentArr = p.segmentArr
         /\ Finished(p).iteration = p.iteration
         /\ Finished(p).playFlag = FALSE
         /\ Finished(p).simplayFlag = p.simplayFlag
         /\ Finished(p).icon = p.icon
BY DEF Finished, PageFields, SameChart

LEMMA ResumedPage ==
  ASSUME NEW p, DOMAIN p = PageFields
  PROVE  /\ SameChart(Resumed(p), p)
         /\ Resumed(p).resetFlag = p.resetFlag
         /\ Resumed(p).segmentArr = p.segmentArr
         /\ Resumed(p).iteration = p.iteration - 1
         /\ Resumed(p).playFlag = TRUE /\ Resumed(p).simplayFlag = FALSE
         /\ Resumed(p).icon = p.icon
BY DEF Resumed, PageFields, SameChart

\* play(): the next iteration is asked for, or the run is at its end, or a
\* paused page just counts on.
LEMMA PlayPage ==
  ASSUME NEW p, DOMAIN p = PageFields, Play(p)
  PROVE  /\ SameChart(page', p)
         /\ page'.resetFlag = p.resetFlag
         /\ page'.segmentArr = p.segmentArr
         /\ page'.iteration = p.iteration + 1
         /\ page'.simplayFlag = p.simplayFlag
         /\ page'.icon = p.icon
         /\ \/ /\ p.playFlag /\ page'.playFlag = p.playFlag
               /\ p.iteration + 1 <= p.xMax
               /\ Send(IterRequest(p.iteration + 1))
            \/ /\ ~(p.playFlag /\ p.iteration + 1 <= p.xMax)
               /\ page'.playFlag = p.playFlag /\ p.simplayFlag
               /\ UNCHANGED requests
            \/ /\ ~(p.playFlag /\ p.iteration + 1 <= p.xMax)
               /\ page'.playFlag = FALSE /\ ~p.simplayFlag
               /\ UNCHANGED requests
<1> DEFINE q == [p EXCEPT !.iteration = @ + 1]
<1>1. /\ SameChart(q, p) /\ q.resetFlag = p.resetFlag
      /\ q.segmentArr = p.segmentArr /\ q.iteration = p.iteration + 1
      /\ q.playFlag = p.playFlag /\ q.simplayFlag = p.simplayFlag
      /\ q.icon = p.icon
  BY DEF PageFields, SameChart
<1>2. \/ /\ q.playFlag /\ q.iteration <= q.xMax
         /\ page' = q /\ Send(IterRequest(q.iteration))
      \/ /\ ~(q.playFlag /\ q.iteration <= q.xMax) /\ q.simplayFlag
         /\ page' = q /\ UNCHANGED requests
      \/ /\ ~(q.playFlag /\ q.iteration <= q.xMax) /\ ~q.simplayFlag
         /\ page' = Finished(q) /\ UNCHANGED requests
  BY DEF Play
<1> HIDE DEF q
<1>3. DOMAIN q = PageFields
  BY <1>1 DEF SameChart
<1>4. CASE /\ q.playFlag /\ q.iteration <= q.xMax
           /\ page' = q /\ Send(IterRequest(q.iteration))
  BY <1>1, <1>3, <1>4 DEF SameChart
<1>5. CASE /\ ~(q.playFlag /\ q.iteration <= q.xMax) /\ q.simplayFlag
           /\ page' = q /\ UNCHANGED requests
  BY <1>1, <1>3, <1>5 DEF SameChart
<1>6. CASE /\ ~(q.playFlag /\ q.iteration <= q.xMax) /\ ~q.simplayFlag
           /\ page' = Finished(q) /\ UNCHANGED requests
  <2>1. /\ SameChart(page', q) /\ page'.resetFlag = q.resetFlag
        /\ page'.segmentArr = q.segmentArr /\ page'.iteration = q.iteration
        /\ page'.playFlag = FALSE /\ page'.simplayFlag = q.simplayFlag
        /\ page'.icon = q.icon
    BY <1>3, <1>6, FinishedPage
  <2> QED
    BY <1>1, <1>6, <2>1 DEF SameChart
<1> QED
  BY <1>2, <1>4, <1>5, <1>6

-----------------------------------------------------------------------------
(* Steps of the page alone keep the first invariant.                       *)

LEMMA EngineKept ==
  ASSUME TrendInv, UNCHANGED trendVars
  PROVE  TrendInv' /\ chart' = chart /\ card' = card
         /\ firstIteration' = firstIteration /\ kBest' = kBest
         /\ samples' = samples /\ splitSeg' = splitSeg
         /\ firstNew' = firstNew /\ (Loaded' <=> Loaded)
BY NextInv DEF trendVars, Loaded

LEMMA NetKept ==
  ASSUME OneCall, UNCHANGED net
  PROVE  /\ OneCall' /\ Calls' = Calls /\ Answers' = Answers
         /\ ResetSent' <=> ResetSent
         /\ IterAsked' <=> IterAsked
         /\ IterAnswered' <=> IterAnswered
         /\ IterUnderWay' <=> IterUnderWay
         /\ AxesAnswered' <=> AxesAnswered
BY DEF net, OneCall, RequestsOK, RepliesOK, Calls, Answers, ResetSent,
       IterAsked, IterAnswered, IterUnderWay, AxesAnswered

\* A click that neither calls the server nor touches what was received.
Quiet ==
  /\ UNCHANGED << trendVars, net, segmentChain, run, vizType >>
  /\ page.loaded
  /\ SameChart(page', page)
  /\ page'.segmentArr = page.segmentArr
  /\ page'.playFlag \in BOOLEAN /\ page'.simplayFlag \in BOOLEAN
  /\ \/ page'.resetFlag = page.resetFlag
     \/ Idle /\ page'.resetFlag = FALSE
  /\ \/ page'.iteration = page.iteration
     \/ page.iteration < page.xMin /\ page'.iteration = page.iteration + 1
  /\ PlaysInOrder' /\ StartsAtXMin'
  /\ page'.resetFlag \/ ResetSent =>
       ~page'.playFlag /\ ~page'.simplayFlag /\ page'.icon = "play"
  /\ IterUnderWay /\ ~page'.resetFlag => page'.simplayFlag \/ page'.playFlag

LEMMA QuietInv ==
  ASSUME OrderInv, Quiet
  PROVE  OrderInv'
<1>1. /\ TrendInv' /\ chart' = chart /\ card' = card
      /\ firstIteration' = firstIteration /\ kBest' = kBest
      /\ samples' = samples /\ (Loaded' <=> Loaded)
  BY EngineKept DEF OrderInv, Quiet
<1>2. /\ OneCall' /\ Calls' = Calls /\ Answers' = Answers
      /\ ResetSent' <=> ResetSent
      /\ IterAsked' <=> IterAsked
      /\ IterAnswered' <=> IterAnswered
      /\ IterUnderWay' <=> IterUnderWay
      /\ AxesAnswered' <=> AxesAnswered
  BY NetKept DEF OrderInv, Quiet
<1>3. /\ DOMAIN page' = PageFields /\ page'.loaded = page.loaded
      /\ page'.xMin = page.xMin /\ page'.xMax = page.xMax
      /\ page'.segmentArr = page.segmentArr /\ page.loaded
  BY DEF Quiet, SameChart
<1>4. Current' = Current
  BY DEF Quiet, Current
<1>5. /\ page.xMin \in Int /\ page.iteration \in Int /\ page'.iteration \in Int
      /\ page'.resetFlag \in BOOLEAN
  <2>1. PageShape /\ page.xMin \in Int /\ page.iteration \in Int
    BY DEF OrderInv, PageShape
  <2>2. page'.iteration \in Int
    BY <2>1 DEF Quiet
  <2>3. page'.resetFlag \in BOOLEAN
    BY <2>1 DEF PageShape, Quiet
  <2> QED
    BY <2>1, <2>2, <2>3
<1>6. \/ /\ Calls = {} /\ Answers = {} /\ ~ResetSent
         /\ ~IterUnderWay /\ ~IterAnswered /\ page'.resetFlag = FALSE
      \/ page'.resetFlag = page.resetFlag
  BY IdleIsQuiet DEF Quiet, IterUnderWay, IterAsked, IterAnswered
<1>7. PageShape'
  BY <1>3, <1>5 DEF OrderInv, PageShape, Quiet
<1>8. MessageShape' /\ BeforeLoad' /\ AxisAgrees'
  BY <1>1, <1>2, <1>3 DEF OrderInv, MessageShape, BeforeLoad, AxisAgrees
<1>9. BlankAfterReset'
  BY <1>2, <1>3, <1>4, <1>5, <1>6 DEF OrderInv, BlankAfterReset, Quiet
<1>10. ResetOvertakes'
  BY <1>1, <1>2, <1>5, <1>6 DEF OrderInv, ResetOvertakes, IterUnderWay, IterAsked
<1>11. AskedIsCurrent'
  BY <1>1, <1>2, <1>3, <1>5, <1>6
     DEF OrderInv, AskedIsCurrent, Quiet, IterUnderWay, IterAsked
<1>12. SamplesOfChart'
  BY <1>1, <1>2, <1>3, <1>6
     DEF OrderInv, SamplesOfChart, Synced, ResetOvertakes, AxesFit, Lossless
<1>13. BlankBeforeFirst'
  BY <1>1, <1>2, <1>3, <1>5, <1>6
     DEF OrderInv, BlankBeforeFirst, ResetOvertakes, Quiet, Synced
<1>14. RunsPast'
  BY DEF OrderInv, RunsPast, Quiet
<1>15. StartsEarly'
  BY <1>1, <1>2, <1>3, <1>5 DEF OrderInv, StartsEarly, Lossless, Quiet
<1> QED
  BY <1>1, <1>2, <1>7, <1>8, <1>9, <1>10, <1>11, <1>12, <1>13, <1>14, <1>15
     DEF OrderInv, Quiet

\* Looking at the chart moves neither the playing nor the segmentation.
SameView(q, p) ==
  /\ SameChart(q, p)
  /\ q.segmentArr = p.segmentArr /\ q.resetFlag = p.resetFlag
  /\ q.playFlag = p.playFlag /\ q.simplayFlag = p.simplayFlag
  /\ q.icon \in {p.icon, "play"}
  /\ \/ q.iteration = p.iteration
     \/ p.iteration < p.xMin /\ q.iteration = p.iteration + 1

LEMMA LookIsQuiet ==
  ASSUME OrderInv, CanLook, page.loaded, SameView(page', page),
         UNCHANGED << trendVars, net, segmentChain, run, vizType >>
  PROVE  Quiet
<1>1. /\ page.iteration \in Int /\ page.xMin \in Int
      /\ page.playFlag \in BOOLEAN /\ page.simplayFlag \in BOOLEAN
  BY DEF OrderInv, PageShape
<1>2. IterUnderWay' <=> IterUnderWay
  BY NetKept DEF OrderInv
<1>3. PlaysInOrder'
  BY <1>1, <1>2 DEF OrderInv, PlaysInOrder, CanLook, SameView, SameChart
<1>4. StartsAtXMin'
  BY <1>1 DEF OrderInv, StartsAtXMin, SameView, SameChart
<1>5. page'.resetFlag \/ ResetSent =>
        ~page'.playFlag /\ ~page'.simplayFlag /\ page'.icon = "play"
  BY DEF OrderInv, BlankAfterReset, SameView
<1>6. IterUnderWay /\ ~page'.resetFlag => page'.simplayFlag \/ page'.playFlag
  BY DEF OrderInv, AskedIsCurrent, SameView
<1> QED
  BY <1>1, <1>3, <1>4, <1>5, <1>6 DEF Quiet, SameView, SameChart

LEMMA ClickForwardQuiet ==
  ASSUME OrderInv, ClickForward
  PROVE  Quiet
<1> DEFINE p == IF page.iteration < page.xMin
                  THEN [page EXCEPT !.iteration = @ + 1, !.forwardFlag = TRUE,
                                    !.forwardIter = page.iteration + 1]
                  ELSE page
           moves == p.forwardFlag /\ ~p.playFlag /\ p.pauseFlag
           to == p.forwardIter + 1
           q  == [p EXCEPT !.backFlag = TRUE, !.forwardIter = to,
                           !.seekbarMax = Max({@, to})]
           at == IF moves THEN Min({to, p.xMax}) ELSE p.forwardIter
           r  == IF moves THEN [q EXCEPT !.forwardIter = at, !.backwardIter = at,
                                         !.playIter = at, !.pauseIter = at]
                          ELSE p
           t  == [r EXCEPT
                   !.forwardFlag = @ \/ (r.iteration < r.xMax /\ r.backFlag),
                   !.icon = "play", !.playLit = at < r.xMax,
                   !.forwardLit = at < r.iteration - 1, !.backLit = TRUE]
<1>1. DOMAIN page = PageFields
  BY DEF OrderInv, PageShape
<1>2. page' = q \/ page' = t
  BY DEF ClickForward
<1>3. SameView(p, page) /\ p.icon = page.icon
  BY <1>1 DEF SameView, SameChart, PageFields
<1> HIDE DEF p
<1>4. /\ SameView(q, page) /\ q.icon = page.icon
  BY <1>3 DEF SameView, SameChart, PageFields
<1> HIDE DEF q
<1>5. SameView(r, page)
  BY <1>3, <1>4 DEF SameView, SameChart, PageFields
<1> HIDE DEF r
<1>6. SameView(t, page)
  BY <1>5 DEF SameView, SameChart, PageFields
<1> HIDE DEF t
<1>7. SameView(page', page)
  BY <1>2, <1>4, <1>6
<1>8. CanLook /\ UNCHANGED << trendVars, net, segmentChain, run, vizType >>
  BY DEF ClickForward
<1>9. page.loaded
  BY DEF ClickForward, OrderInv, BeforeLoad
<1> QED
  BY <1>7, <1>8, <1>9, LookIsQuiet

LEMMA ClickBackQuiet ==
  ASSUME OrderInv, ClickBack
  PROVE  Quiet
<1> DEFINE p     == page
           moves == ~p.playFlag /\ p.backFlag
           to    == p.backwardIter - 1
           q     == [p EXCEPT !.forwardFlag = TRUE, !.backwardIter = to]
           at    == Max({to, p.xMin})
           r     == IF moves THEN [q EXCEPT !.forwardIter = at, !.playIter = at,
                                            !.pauseIter = at]
                             ELSE p
           early == r.backwardIter < r.xMax
           t     == [r EXCEPT !.backLit = r.backwardIter > r.xMin,
                              !.icon = IF early THEN "play" ELSE @,
                              !.playLit = @ \/ early,
                              !.forwardLit = TRUE]
           u     == [p EXCEPT !.backFlag = FALSE, !.backLit = FALSE,
                              !.forwardLit = TRUE]
<1>1. DOMAIN page = PageFields
  BY DEF OrderInv, PageShape
<1>2. page' = q \/ page' = t \/ page' = u
  BY DEF ClickBack
<1>3. SameView(u, page)
  BY <1>1 DEF SameView, SameChart, PageFields
<1>4. SameView(q, page)
  BY <1>1 DEF SameView, SameChart, PageFields
<1> HIDE DEF q
<1>5. SameView(r, page)
  BY <1>1, <1>4 DEF SameView, SameChart, PageFields
<1> HIDE DEF r
<1>6. SameView(t, page)
  BY <1>5 DEF SameView, SameChart, PageFields
<1> HIDE DEF t, u
<1>7. SameView(page', page)
  BY <1>2, <1>3, <1>4, <1>6
<1>8. CanLook /\ UNCHANGED << trendVars, net, segmentChain, run, vizType >>
  BY DEF ClickBack
<1>9. page.loaded
  BY DEF ClickBack, OrderInv, BeforeLoad
<1> QED
  BY <1>7, <1>8, <1>9, LookIsQuiet

LEMMA DragSeekbarQuiet ==
  ASSUME OrderInv, DragSeekbar
  PROVE  Quiet
<1>1. DOMAIN page = PageFields
  BY DEF OrderInv, PageShape
<1>2. PICK v \in page.xMin .. page.xMax :
        LET limit == IF page.pauseFlag THEN page.seekbarMax ELSE page.iteration
            at == Min({v, limit})
            q  == [page EXCEPT !.forwardFlag = @ \/ at < page.xMax,
                           !.backFlag = @ \/ (at <= page.xMax /\ at > page.xMin),
                           !.forwardIter = at, !.backwardIter = at,
                           !.pauseIter = at, !.playIter = at]
        IN page' = q \/ page' = SeekButtons(q, at) \/ page' = SeekButtons(page, v)
  BY DEF DragSeekbar
<1> DEFINE at == Min({v, IF page.pauseFlag THEN page.seekbarMax ELSE page.iteration})
           q  == [page EXCEPT !.forwardFlag = @ \/ at < page.xMax,
                           !.backFlag = @ \/ (at <= page.xMax /\ at > page.xMin),
                           !.forwardIter = at, !.backwardIter = at,
                           !.pauseIter = at, !.playIter = at]
<1>3. page' = q \/ page' = SeekButtons(q, at) \/ page' = SeekButtons(page, v)
  BY <1>2
<1> HIDE <1>2
<1>4. SameView(q, page)
  BY <1>1 DEF SameView, SameChart, PageFields
<1> HIDE DEF q
<1>5. SameView(SeekButtons(q, at), page)
  BY <1>4 DEF SameView, SameChart, PageFields, SeekButtons
<1>6. SameView(SeekButtons(page, v), page)
  BY <1>1 DEF SameView, SameChart, PageFields, SeekButtons
<1>7. SameView(page', page)
  BY <1>3, <1>4, <1>5, <1>6
<1>8. /\ CanLook /\ page.loaded
      /\ UNCHANGED << trendVars, net, segmentChain, run, vizType >>
  BY DEF DragSeekbar
<1> QED
  BY <1>7, <1>8, LookIsQuiet

LEMMA ClickSaveQuiet ==
  ASSUME OrderInv, ClickSave
  PROVE  Quiet
<1>1. DOMAIN page = PageFields
  BY DEF OrderInv, PageShape
<1>2. /\ CanLook /\ page.loaded /\ page' = page
      /\ UNCHANGED << trendVars, net, segmentChain, run, vizType >>
  BY DEF ClickSave
<1>3. SameView(page', page)
  BY <1>1, <1>2 DEF SameView, SameChart
<1> QED
  BY <1>2, <1>3, LookIsQuiet

LEMMA ClickPauseQuiet ==
  ASSUME OrderInv, ClickPause
  PROVE  Quiet
<1> DEFINE to == Min({PausedAt, page.xMax})
<1>1. /\ DOMAIN page = PageFields /\ page.icon = "pause"
      /\ UNCHANGED << trendVars, net, segmentChain, run, vizType >>
  BY DEF OrderInv, PageShape, ClickPause
<1>2. page.loaded /\ ~page.resetFlag /\ ~ResetSent
  BY <1>1 DEF OrderInv, BeforeLoad, BlankAfterReset
<1>3. page' = [page EXCEPT
          !.simplayFlag = TRUE, !.pauseFlag = TRUE, !.playFlag = FALSE,
          !.playNoviz = TRUE, !.backFlag = TRUE, !.forwardFlag = TRUE,
          !.seekbarMax = Max({@, PausedAt}),
          !.pauseIter = to, !.forwardIter = to, !.backwardIter = to,
          !.playIter = to,
          !.icon = "play", !.backLit = TRUE, !.forwardLit = to < page.iteration]
  BY DEF ClickPause
<1> HIDE DEF to
<1>4. /\ SameChart(page', page) /\ page'.segmentArr = page.segmentArr
      /\ page'.simplayFlag = TRUE /\ page'.playFlag = FALSE
      /\ page'.resetFlag = page.resetFlag /\ page'.iteration = page.iteration
  BY <1>1, <1>3 DEF SameChart, PageFields
<1>5. PlaysInOrder'
  BY <1>4 DEF PlaysInOrder
<1>6. StartsAtXMin'
  BY <1>1, <1>4 DEF OrderInv, StartsAtXMin, SameChart
<1> QED
  BY <1>1, <1>2, <1>4, <1>5, <1>6 DEF Quiet

-----------------------------------------------------------------------------
(* Play either asks for an iteration or is as quiet as the other clicks.   *)

Ask ==
  /\ UNCHANGED << trendVars, replies, segmentChain, run, vizType >>
  /\ Idle /\ page.loaded
  /\ Send(IterRequest(page'.iteration))
  /\ SameChart(page', page)
  /\ page'.segmentArr = page.segmentArr
  /\ page'.resetFlag = FALSE
  /\ page'.playFlag = TRUE /\ page'.simplayFlag \in BOOLEAN
  /\ page'.icon = "pause"
  /\ page.xMin <= page'.iteration /\ page'.iteration <= page.xMax
  /\ \/ page'.iteration = page.iteration
     \/ page.iteration <= page.xMin /\ page'.iteration = page.iteration + 1

\* The page of a click on Play, before the handler's branches.
Pressed(d) ==
  /\ SameChart(d, page)
  /\ d.segmentArr = page.segmentArr /\ d.iteration = page.iteration
  /\ d.resetFlag = FALSE /\ d.playFlag = TRUE /\ d.icon = "pause"
  /\ d.simplayFlag \in BOOLEAN

LEMMA ReplayStep ==
  ASSUME OrderInv, Idle, page.loaded, page.iteration >= page.xMin,
         NEW d, Pressed(d), d.simplayFlag = TRUE, SimulatePlay(d),
         UNCHANGED << trendVars, replies, segmentChain, run, vizType >>
  PROVE  Quiet \/ Ask
<1>1. /\ page.iteration \in Int /\ page.xMin \in Int /\ page.xMax \in Int
      /\ DOMAIN d = PageFields
  BY DEF OrderInv, PageShape, Pressed, SameChart
<1>2. ~ResetSent /\ ~IterUnderWay
  BY IdleIsQuiet DEF IterUnderWay, IterAsked, IterAnswered
<1>3. CASE Play(Resumed(d))
  <2> DEFINE p == Resumed(d)
  <2>1. /\ SameChart(p, page) /\ p.segmentArr = page.segmentArr
        /\ p.resetFlag = FALSE /\ p.iteration = page.iteration - 1
        /\ p.playFlag = TRUE /\ p.simplayFlag = FALSE /\ p.icon = "pause"
    BY <1>1, ResumedPage DEF Pressed, SameChart
  <2> HIDE DEF p
  <2>2. DOMAIN p = PageFields /\ Play(p)
    BY <1>3, <2>1 DEF SameChart, p
  <2>3. p.iteration + 1 = page.iteration /\ p.xMax = page.xMax
    BY <1>1, <2>1 DEF SameChart
  <2>4. /\ SameChart(page', page) /\ page'.segmentArr = page.segmentArr
        /\ page'.resetFlag = FALSE /\ page'.iteration = page.iteration
        /\ page'.simplayFlag = FALSE /\ page'.icon = "pause"
        /\ \/ /\ page'.playFlag = TRUE /\ page.iteration <= page.xMax
              /\ Send(IterRequest(page.iteration))
           \/ /\ page'.playFlag = FALSE /\ ~(page.iteration <= page.xMax)
              /\ UNCHANGED requests
    BY <2>1, <2>2, <2>3, PlayPage DEF SameChart
  <2>5. CASE page'.playFlag = TRUE /\ page.iteration <= page.xMax
             /\ Send(IterRequest(page.iteration))
    <3>1. Ask
      BY <1>1, <2>4, <2>5 DEF Ask
    <3> QED
      BY <3>1
  <2>6. CASE page'.playFlag = FALSE /\ ~(page.iteration <= page.xMax)
             /\ UNCHANGED requests
    <3>1. PlaysInOrder'
      BY <1>1, <2>4, <2>6 DEF PlaysInOrder, SameChart
    <3>2. StartsAtXMin'
      BY <1>1, <2>4, <2>6 DEF StartsAtXMin, SameChart, OrderInv
    <3>3. Quiet
      BY <1>2, <2>4, <2>6, <3>1, <3>2 DEF Quiet, net
    <3> QED
      BY <3>3
  <2> QED
    BY <2>4, <2>5, <2>6
<1>4. ASSUME NEW last, page' = [d EXCEPT !.playIter = last], UNCHANGED requests
      PROVE  Quiet
  <2>1. /\ SameChart(page', page) /\ page'.segmentArr = page.segmentArr
        /\ page'.resetFlag = FALSE /\ page'.iteration = page.iteration
        /\ page'.simplayFlag = TRUE /\ page'.playFlag = TRUE /\ page'.icon = "pause"
    BY <1>1, <1>4 DEF Pressed, SameChart, PageFields
  <2>2. PlaysInOrder' /\ StartsAtXMin'
    BY <1>1, <2>1 DEF PlaysInOrder, StartsAtXMin, SameChart, OrderInv
  <2> QED
    BY <1>2, <1>4, <2>1, <2>2 DEF Quiet, net
<1>5. \/ Play(Resumed(d))
      \/ \E last : page' = [d EXCEPT !.playIter = last] /\ UNCHANGED requests
  BY Zenon DEF SimulatePlay
<1> QED
  BY <1>3, <1>4, <1>5

LEMMA ClickPlayCases ==
  ASSUME OrderInv, ClickPlay
  PROVE  Quiet \/ Ask
<1> DEFINE p == [page EXCEPT !.icon = "pause", !.forwardFlag = FALSE,
                        !.backFlag = FALSE, !.pauseFlag = FALSE,
                        !.playFlag = TRUE, !.playNoviz = FALSE,
                        !.resetFlag = FALSE]
           dimmed == [p EXCEPT !.forwardLit = FALSE, !.backLit = FALSE]
           again  == [dimmed EXCEPT !.simplayFlag = TRUE, !.playIter = @ - 1]
           lit    == [p EXCEPT !.backLit = TRUE]
           ended  == p.iteration >= p.xMax
<1>1. /\ DOMAIN page = PageFields /\ page.simplayFlag \in BOOLEAN
      /\ page.iteration \in Int /\ page.xMin \in Int /\ page.xMax \in Int
      /\ page.xMin <= page.xMax
  BY DEF OrderInv, PageShape
<1>2. /\ CanAsk /\ page.icon = "play" /\ page.playLit
      /\ UNCHANGED << trendVars, replies, segmentChain, run, vizType >>
      /\ \/ ended /\ SimulatePlay(again)
         \/ ended /\ page' = lit /\ UNCHANGED requests
         \/ ~ended /\ p.simplayFlag /\ SimulatePlay(dimmed)
         \/ ~ended /\ ~p.simplayFlag /\ Play(dimmed)
  BY DEF ClickPlay
<1>3. Pressed(p) /\ p.simplayFlag = page.simplayFlag
  BY <1>1 DEF Pressed, SameChart, PageFields
<1> HIDE DEF p
<1>4. Pressed(dimmed) /\ dimmed.simplayFlag = page.simplayFlag
  BY <1>3 DEF Pressed, SameChart, PageFields
<1>5. Pressed(lit) /\ lit.simplayFlag = page.simplayFlag
  BY <1>3 DEF Pressed, SameChart, PageFields
<1> HIDE DEF dimmed, lit
<1>6. Pressed(again) /\ again.simplayFlag = TRUE
  BY <1>4 DEF Pressed, SameChart, PageFields
<1> HIDE DEF again
<1>7. ended <=> page.iteration >= page.xMax
  BY <1>3 DEF Pressed, SameChart
<1> HIDE DEF ended
<1>8. page.loaded /\ Idle
  BY <1>2 DEF OrderInv, BeforeLoad, CanAsk, Orderly
<1>9. ~ResetSent /\ ~IterUnderWay
  BY <1>8, IdleIsQuiet DEF IterUnderWay, IterAsked, IterAnswered
<1>10. CASE ended /\ SimulatePlay(again)
  <2>1. page.iteration >= page.xMin
    BY <1>1, <1>7, <1>10
  <2> QED
    BY <1>2, <1>6, <1>8, <1>10, <2>1, ReplayStep
<1>11. CASE ended /\ page' = lit /\ UNCHANGED requests
  <2>1. page.iteration >= page.xMin
    BY <1>1, <1>7, <1>11
  <2>2. /\ SameChart(page', page) /\ page'.segmentArr = page.segmentArr
        /\ page'.resetFlag = FALSE /\ page'.iteration = page.iteration
        /\ page'.simplayFlag = page.simplayFlag /\ page'.playFlag = TRUE
        /\ page'.icon = "pause"
    BY <1>5, <1>11 DEF Pressed
  <2>3. PlaysInOrder'
    BY <1>1, <1>2, <1>9, <2>2 DEF PlaysInOrder, OrderInv, SameChart
  <2>4. StartsAtXMin'
    BY <1>1, <2>1, <2>2 DEF StartsAtXMin, OrderInv, SameChart
  <2>5. Quiet
    BY <1>1, <1>2, <1>8, <1>9, <1>11, <2>2, <2>3, <2>4 DEF Quiet, net
  <2> QED
    BY <2>5
<1>12. CASE ~ended /\ p.simplayFlag /\ SimulatePlay(dimmed)
  <2>1. page.iteration >= page.xMin /\ dimmed.simplayFlag = TRUE
    BY <1>1, <1>3, <1>4, <1>12 DEF OrderInv, StartsAtXMin
  <2> QED
    BY <1>2, <1>4, <1>8, <1>12, <2>1, ReplayStep
<1>13. CASE ~ended /\ ~p.simplayFlag /\ Play(dimmed)
  <2>1. page.iteration <= page.xMin
    BY <1>1, <1>2, <1>3, <1>7, <1>8, <1>9, <1>13 DEF OrderInv, PlaysInOrder
  <2>2. page.xMin <= page.iteration + 1 /\ page.iteration + 1 <= page.xMax
    BY <1>1, <1>7, <1>8, <1>13 DEF OrderInv, StartsAtXMin
  <2>3. /\ SameChart(page', page) /\ page'.segmentArr = page.segmentArr
        /\ page'.resetFlag = FALSE /\ page'.iteration = page.iteration + 1
        /\ page'.simplayFlag = page.simplayFlag /\ page'.icon = "pause"
        /\ page'.playFlag = TRUE
        /\ Send(IterRequest(page.iteration + 1))
    <3>1. DOMAIN dimmed = PageFields
      BY <1>4 DEF Pressed, SameChart
    <3> QED
      BY <1>4, <1>13, <2>2, <3>1, PlayPage DEF Pressed, SameChart
  <2>4. Ask
    BY <1>1, <1>2, <1>8, <2>1, <2>2, <2>3 DEF Ask
  <2> QED
    BY <2>4
<1> QED
  BY <1>2, <1>10, <1>11, <1>12, <1>13

LEMMA AskInv ==
  ASSUME OrderInv, Ask
  PROVE  OrderInv'
<1> DEFINE i == page'.iteration
           m == IterRequest(i)
<1>1. /\ TrendInv' /\ chart' = chart /\ card' = card
      /\ firstIteration' = firstIteration /\ kBest' = kBest
      /\ samples' = samples /\ (Loaded' <=> Loaded)
  BY EngineKept DEF OrderInv, Ask
<1>2. /\ Calls = {} /\ Answers = {} /\ ~ResetSent
      /\ ~IterUnderWay /\ ~AxesAnswered /\ ~IterAnswered
  BY IdleIsQuiet DEF Ask, IterUnderWay, IterAsked, IterAnswered, AxesAnswered
<1>3. m.op = "iter" /\ m.iter = i
  BY DEF IterRequest
<1>4. RequestsOK' /\ Calls' = {m} /\ ~ResetSent'
  BY <1>2, <1>3, CallSent DEF OrderInv, OneCall, Ask
<1>5. RepliesOK' /\ Answers' = {}
  BY <1>2 DEF OrderInv, OneCall, RepliesOK, Answers, Ask
<1>6. OneCall'
  BY <1>4, <1>5 DEF OneCall
<1>7. /\ IterAsked' /\ IterUnderWay' /\ ~IterAnswered' /\ ~AxesAnswered'
  BY <1>3, <1>4, <1>5 DEF IterAsked, IterUnderWay, IterAnswered, AxesAnswered
<1>8. /\ DOMAIN page' = PageFields /\ page'.loaded = page.loaded
      /\ page'.xMin = page.xMin /\ page'.xMax = page.xMax
      /\ page'.segmentArr = page.segmentArr /\ page.loaded
      /\ page'.resetFlag = FALSE /\ page'.playFlag = TRUE
      /\ page.xMin <= i /\ i <= page.xMax /\ page'.icon = "pause"
  BY DEF Ask, SameChart
<1>9. /\ page.xMin \in Int /\ page.iteration \in Int /\ i \in Int
      /\ page.xMax \in Int /\ page.xMin \in {0, 1}
  BY DEF OrderInv, PageShape, Ask
<1> HIDE DEF m, i
<1>10. PageShape'
  BY <1>8, <1>9 DEF OrderInv, PageShape, Ask, i
<1>11. MessageShape' /\ BeforeLoad'
  BY <1>3, <1>4, <1>5, <1>8, <1>9 DEF MessageShape, BeforeLoad
<1>12. AxisAgrees'
  BY <1>1, <1>2, <1>5, <1>8 DEF OrderInv, AxisAgrees
<1>13. BlankAfterReset' /\ ResetOvertakes'
  BY <1>4, <1>7, <1>8 DEF BlankAfterReset, ResetOvertakes
\* Iteration 0 is only asked where the first iteration has not been asked.
<1>14. Lossless /\ i = 0 => firstIteration
  <2> SUFFICES ASSUME Lossless, i = 0, ~firstIteration
               PROVE  FALSE
    OBVIOUS
  <2>1. Synced /\ page.iteration <= page.xMin
    BY <1>2, <1>8, <1>9 DEF Ask, Synced, i
  <2>2. CASE page.resetFlag
    BY <1>2, <2>2 DEF OrderInv, ResetOvertakes
  <2>3. CASE ~page.resetFlag
    BY <1>2, <1>9, <2>1, <2>3 DEF OrderInv, BlankBeforeFirst
  <2> QED
    BY <2>2, <2>3
<1>15. AskedIsCurrent'
  BY <1>1, <1>3, <1>4, <1>8, <1>14 DEF AskedIsCurrent, i
<1>16. PlaysInOrder' /\ StartsAtXMin'
  BY <1>7, <1>8, <1>9 DEF OrderInv, Orderly, PlaysInOrder, StartsAtXMin, i
<1>17. SamplesOfChart'
  BY <1>1, <1>2, <1>8
     DEF OrderInv, SamplesOfChart, Synced, ResetOvertakes, AxesFit, Lossless
<1>18. BlankBeforeFirst'
  <2>1. page.loaded /\ firstIteration => page.segmentArr = << >>
    BY <1>2 DEF OrderInv, BlankBeforeFirst
  <2>2. Lossless /\ ~firstIteration => i > page.xMin
    <3> SUFFICES ASSUME Lossless, ~firstIteration PROVE i > page.xMin
      OBVIOUS
    <3>1. ~page.resetFlag
      BY <1>2 DEF OrderInv, ResetOvertakes
    <3>2. page.iteration > page.xMin
      BY <1>2, <1>8, <3>1 DEF OrderInv, BlankBeforeFirst, Synced
    <3> QED
      BY <1>9, <3>2 DEF Ask, i
  <2> QED
    BY <1>1, <1>8, <2>1, <2>2 DEF BlankBeforeFirst, i
<1>19. RunsPast'
  BY DEF OrderInv, RunsPast, Ask
<1>20. StartsEarly'
  BY <1>1, <1>2, <1>7, <1>8, <1>9 DEF OrderInv, StartsEarly, Lossless, Ask, i
<1> QED
  BY <1>1, <1>6, <1>10, <1>11, <1>12, <1>13, <1>15, <1>16, <1>17, <1>18, <1>19,
     <1>20
     DEF OrderInv

-----------------------------------------------------------------------------
(* The other two clicks.                                                   *)

LEMMA VisualizeInv ==
  ASSUME OrderInv, NEW c \in Charts, Visualize(c)
  PROVE  OrderInv'
<1> DEFINE m == AxesRequest(c)
<1>1. /\ TrendInv' /\ chart' = chart /\ card' = card
      /\ firstIteration' = firstIteration /\ samples' = samples
      /\ (Loaded' <=> Loaded)
  BY EngineKept DEF OrderInv, Visualize
<1>2. Idle
  BY DEF OrderInv, Orderly, Visualize, CanAsk
<1>3. /\ Calls = {} /\ Answers = {} /\ ~ResetSent
      /\ ~IterUnderWay /\ ~AxesAnswered /\ ~IterAnswered
  BY <1>2, IdleIsQuiet DEF IterUnderWay, IterAsked, IterAnswered, AxesAnswered
<1>4. m.op = "axes" /\ m.chart = c
  BY DEF AxesRequest
<1>5. RequestsOK' /\ Calls' = {m} /\ ~ResetSent'
  BY <1>3, <1>4, CallSent DEF OrderInv, OneCall, Visualize
<1>6. RepliesOK' /\ Answers' = {}
  BY <1>3 DEF OrderInv, OneCall, RepliesOK, Answers, Visualize
<1>7. OneCall'
  BY <1>5, <1>6 DEF OneCall
<1>8. ~IterAsked' /\ ~IterUnderWay' /\ ~IterAnswered' /\ ~AxesAnswered'
  BY <1>4, <1>5, <1>6 DEF IterAsked, IterUnderWay, IterAnswered, AxesAnswered
<1>9. page' = page /\ segmentChain' = segmentChain /\ run' = run /\ vizType' = vizType
  BY DEF Visualize, view
<1> HIDE DEF m
<1>10. PageShape' /\ MessageShape' /\ BeforeLoad'
  BY <1>4, <1>5, <1>6, <1>8, <1>9 DEF OrderInv, PageShape, MessageShape, BeforeLoad
<1>11. AxisAgrees'
  BY <1>1, <1>3, <1>6, <1>9 DEF OrderInv, AxisAgrees
<1>12. Current' = Current
  BY <1>9 DEF Current
<1>13. BlankAfterReset' /\ ResetOvertakes'
  BY <1>1, <1>3, <1>5, <1>8, <1>9, <1>12 DEF OrderInv, BlankAfterReset, ResetOvertakes
<1>14. AskedIsCurrent'
  BY <1>4, <1>5, <1>8 DEF AskedIsCurrent
<1>15. PlaysInOrder' /\ StartsAtXMin' /\ RunsPast'
  BY <1>3, <1>9 DEF OrderInv, PlaysInOrder, StartsAtXMin, RunsPast
<1>16. SamplesOfChart' /\ BlankBeforeFirst'
  BY <1>1, <1>3, <1>5, <1>8, <1>9
     DEF OrderInv, SamplesOfChart, BlankBeforeFirst, Synced, AxesFit, Lossless
<1>17. StartsEarly'
  BY <1>1, <1>3, <1>8, <1>9 DEF OrderInv, StartsEarly, Lossless, IterUnderWay
<1> QED
  BY <1>1, <1>7, <1>10, <1>11, <1>13, <1>14, <1>15, <1>16, <1>17
     DEF OrderInv

\* Entries of the runs before are not those of a new run.
LEMMA NewRun ==
  ASSUME RunsPast, UNCHANGED segmentChain, run' = run + 1
  PROVE  RunsPast' /\ Current' = {}
<1>1. run \in Nat /\ run' \in Nat
  BY DEF RunsPast
<1>2. \A i \in DOMAIN segmentChain : segmentChain[i].run # run'
  BY <1>1 DEF RunsPast
<1>3. Current' = {}
  BY <1>2 DEF Current
<1> QED
  BY <1>1, <1>3 DEF RunsPast

\* reset() on the page: whatever is under way meets a blank page, or a reset
\* that is still to come.
LEMMA ClickRepeatInv ==
  ASSUME OrderInv, ClickRepeat
  PROVE  OrderInv'
<1>1. /\ TrendInv' /\ chart' = chart /\ card' = card
      /\ firstIteration' = firstIteration /\ samples' = samples
      /\ (Loaded' <=> Loaded)
  BY EngineKept DEF OrderInv, ClickRepeat
<1>2. RequestsOK' /\ Calls' = Calls /\ ResetSent'
  BY ResetIsSent DEF OrderInv, OneCall, ClickRepeat
<1>3. RepliesOK' /\ Answers' = Answers
  BY DEF OrderInv, OneCall, RepliesOK, Answers, ClickRepeat
<1>4. OneCall'
  BY <1>2, <1>3 DEF OrderInv, OneCall
<1>5. /\ AxesAnswered' <=> AxesAnswered
  BY <1>3 DEF AxesAnswered
<1>6. /\ DOMAIN page' = PageFields /\ page.loaded /\ page'.loaded = page.loaded
      /\ page'.xMin = page.xMin /\ page'.xMax = page.xMax
      /\ page'.segmentArr = << >> /\ page'.iteration = page.xMin - 1
      /\ page'.playFlag = FALSE /\ page'.simplayFlag = FALSE
      /\ page'.icon = "play" /\ page'.resetFlag = TRUE
  <2> DEFINE p == Cleared(page)
  <2>1. DOMAIN page = PageFields /\ page.loaded /\ page.loaded \in BOOLEAN
    BY DEF OrderInv, PageShape, ClickRepeat
  <2>2. /\ SameChart(p, page) /\ p.segmentArr = << >>
        /\ p.iteration = page.xMin - 1
        /\ p.playFlag = FALSE /\ p.simplayFlag = FALSE /\ p.icon = "play"
    BY <2>1, ClearedPage
  <2>3. page' = [p EXCEPT !.resetFlag = TRUE]
    BY DEF ClickRepeat
  <2> HIDE DEF p
  <2> QED
    BY <2>1, <2>2, <2>3 DEF SameChart, PageFields
<1>7. RunsPast' /\ Current' = {}
  BY NewRun DEF OrderInv, ClickRepeat
<1>8. page.xMin \in Int /\ page.xMin \in {0, 1}
  BY DEF OrderInv, PageShape
<1>9. PageShape' /\ MessageShape' /\ BeforeLoad'
  <2>1. PageShape'
    <3>1. PageShape /\ page.xMin - 1 \in Int /\ vizType' = vizType
      BY <1>8 DEF OrderInv, ClickRepeat
    <3>2. page'.loaded \in BOOLEAN /\ page'.resetFlag \in BOOLEAN
      BY <1>6, <3>1 DEF PageShape
    <3>3. page'.playFlag \in BOOLEAN /\ page'.simplayFlag \in BOOLEAN
      BY <1>6
    <3>4. /\ DOMAIN page' = PageFields
          /\ page'.xMin \in {0, 1} /\ page'.xMax \in Int /\ page'.xMin <= page'.xMax
          /\ page'.iteration \in Int /\ vizType' \in VizTypes
      BY <1>6, <3>1 DEF PageShape
    <3> QED
      BY <3>2, <3>3, <3>4 DEF PageShape
  <2>2. MessageShape'
    BY <1>2, <1>3 DEF OrderInv, MessageShape
  <2>3. BeforeLoad'
    BY <1>6 DEF BeforeLoad
  <2> QED
    BY <2>1, <2>2, <2>3
<1>10. AxisAgrees'
  BY <1>1, <1>3, <1>5, <1>6 DEF OrderInv, AxisAgrees
<1>11. BlankAfterReset' /\ ResetOvertakes'
  BY <1>2, <1>6, <1>7, <1>8 DEF BlankAfterReset, ResetOvertakes
<1>12. AskedIsCurrent'
  BY <1>1, <1>2, <1>6 DEF OrderInv, AskedIsCurrent
<1>13. PlaysInOrder' /\ StartsAtXMin'
  BY <1>6, <1>8 DEF PlaysInOrder, StartsAtXMin
<1>14. SamplesOfChart' /\ BlankBeforeFirst'
  BY <1>2, <1>6 DEF SamplesOfChart, BlankBeforeFirst, Synced
<1>15. StartsEarly'
  BY <1>6, <1>8 DEF StartsEarly
<1> QED
  BY <1>1, <1>4, <1>7, <1>9, <1>10, <1>11, <1>12, <1>13, <1>14, <1>15
     DEF OrderInv

-----------------------------------------------------------------------------
(* The server handles a request.                                           *)

LEMMA ServeAxesInv ==
  ASSUME OrderInv, NEW m \in DOMAIN requests, ServeAxes(m),
         requests' = requests (-) SetToBag({m}),
         UNCHANGED << page, view, run, vizType >>
  PROVE  OrderInv'
<1> DEFINE a == [op |-> "axes", xMin |-> XMinOf[m.chart],
                 xMax |-> XMinOf[m.chart] + CardOf[m.chart] - 1]
<1>1. m.op = "axes" /\ LoadAxesData(m.chart) /\ replies' = replies (+) SetToBag({a})
  BY DEF ServeAxes
<1>2. a.op = "axes" /\ a.xMin = XMinOf[m.chart] /\ a.xMax = a.xMin + CardOf[m.chart] - 1
  OBVIOUS
<1> HIDE DEF a
<1>3. /\ RequestsOK' /\ Calls = {m} /\ Calls' = {}
      /\ ResetSent' <=> ResetSent
  BY <1>1, CallTaken DEF OrderInv, OneCall
<1>4. Answers = {}
  BY <1>3 DEF OrderInv, OneCall
<1>5. RepliesOK' /\ Answers' = {a}
  BY <1>1, <1>4, AnswerSent DEF OrderInv, OneCall
<1>6. OneCall'
  BY <1>3, <1>5 DEF OneCall
<1>7. /\ ~IterAsked' /\ ~IterAnswered' /\ ~IterUnderWay' /\ AxesAnswered'
      /\ ~IterUnderWay
  BY <1>1, <1>2, <1>3, <1>4, <1>5
     DEF IterAsked, IterAnswered, IterUnderWay, AxesAnswered
<1>8. m.chart \in Charts
  BY <1>1, <1>3 DEF OrderInv, MessageShape
<1>9. TrendInv' /\ Loaded' /\ chart' = m.chart /\ card' = CardOf[m.chart] /\ firstIteration'
  BY <1>1, <1>8, LoadAxesDataInv, NoChartAssumption
     DEF OrderInv, LoadAxesData, Loaded
<1>10. page' = page /\ segmentChain' = segmentChain /\ run' = run /\ vizType' = vizType
       /\ Current' = Current
  BY DEF view, Current
<1>11. PageShape' /\ MessageShape' /\ BeforeLoad'
  BY <1>2, <1>3, <1>5, <1>7, <1>10 DEF OrderInv, PageShape, MessageShape, BeforeLoad
<1>12. AxisAgrees'
  BY <1>2, <1>5, <1>7, <1>9 DEF AxisAgrees
<1>13. BlankAfterReset' /\ ResetOvertakes'
  BY <1>3, <1>7, <1>9, <1>10 DEF OrderInv, BlankAfterReset, ResetOvertakes
<1>14. AskedIsCurrent'
  BY <1>3, <1>7 DEF AskedIsCurrent
<1>15. PlaysInOrder' /\ StartsAtXMin' /\ RunsPast'
  BY <1>7, <1>10 DEF OrderInv, PlaysInOrder, StartsAtXMin, RunsPast
<1>16. SamplesOfChart' /\ BlankBeforeFirst'
  BY <1>7 DEF SamplesOfChart, BlankBeforeFirst, Synced
<1>17. StartsEarly'
  BY <1>7 DEF StartsEarly
<1> QED
  BY <1>6, <1>9, <1>11, <1>12, <1>13, <1>14, <1>15, <1>16, <1>17
     DEF OrderInv, Orderly

LEMMA ServeResetInv ==
  ASSUME OrderInv, NEW m \in DOMAIN requests, ServeReset(m),
         requests' = requests (-) SetToBag({m}),
         UNCHANGED << page, view, run, vizType >>
  PROVE  OrderInv'
<1>1. m.op = "reset" /\ Reset /\ replies' = replies
  BY DEF ServeReset
<1>2. RequestsOK' /\ Calls' = Calls /\ ResetSent
  BY <1>1, ResetTaken DEF OrderInv, OneCall
<1>3. RepliesOK' /\ Answers' = Answers
  BY <1>1 DEF OrderInv, OneCall, RepliesOK, Answers
<1>4. OneCall'
  BY <1>2, <1>3 DEF OrderInv, OneCall
<1>5. /\ IterAsked' <=> IterAsked
      /\ IterAnswered' <=> IterAnswered
      /\ IterUnderWay' <=> IterUnderWay
      /\ AxesAnswered' <=> AxesAnswered
  BY <1>2, <1>3 DEF IterAsked, IterAnswered, IterUnderWay, AxesAnswered
<1>6. /\ TrendInv' /\ chart' = chart /\ card' = card /\ firstIteration'
      /\ Loaded' <=> Loaded
  BY <1>1, ResetInv DEF OrderInv, Reset, Loaded
<1>7. page' = page /\ segmentChain' = segmentChain /\ run' = run /\ vizType' = vizType
      /\ Current' = Current
  BY DEF view, Current
<1>8. /\ page.segmentArr = << >> /\ Current = {}
      /\ ~page.playFlag /\ ~page.simplayFlag /\ page.icon = "play"
      /\ page.iteration <= page.xMin
  BY <1>2 DEF OrderInv, BlankAfterReset
<1>9. PageShape' /\ MessageShape' /\ BeforeLoad'
  BY <1>2, <1>3, <1>5, <1>7 DEF OrderInv, PageShape, MessageShape, BeforeLoad
<1>10. AxisAgrees'
  BY <1>3, <1>5, <1>6, <1>7 DEF OrderInv, AxisAgrees
<1>11. BlankAfterReset'
  BY <1>7, <1>8 DEF BlankAfterReset
<1>12. ResetOvertakes'
  BY <1>2, <1>5, <1>6, <1>7 DEF OrderInv, ResetOvertakes, IterUnderWay
<1>13. AskedIsCurrent'
  BY <1>2, <1>5, <1>6, <1>7 DEF OrderInv, AskedIsCurrent
<1>14. PlaysInOrder' /\ StartsAtXMin' /\ RunsPast'
  BY <1>5, <1>7 DEF OrderInv, PlaysInOrder, StartsAtXMin, RunsPast
<1>15. SamplesOfChart'
  <2>1. card \in 0..MaxCard /\ MaxCard \in Nat
    BY ChartFacts DEF OrderInv
  <2>2. \A g \in 0..card - 1 : samples'[g] = {}
    BY <1>1, <2>1 DEF Reset, Slots
  <2> QED
    BY <1>6, <2>2 DEF SamplesOfChart
<1>16. BlankBeforeFirst'
  BY <1>6, <1>7, <1>8 DEF BlankBeforeFirst
<1>17. StartsEarly'
  <2>1. page.xMin \in Int /\ page.iteration \in Int
    BY DEF OrderInv, PageShape
  <2> QED
    BY <1>7, <1>8, <2>1 DEF StartsEarly
<1> QED
  BY <1>4, <1>6, <1>9, <1>10, <1>11, <1>12, <1>13, <1>14, <1>15, <1>16, <1>17
     DEF OrderInv, Orderly

\* What the page asks for is in the arrays of the engine.
LEMMA AskedIsInRange ==
  ASSUME OrderInv, NEW m \in Calls, m.op = "iter"
  PROVE  /\ page.loaded /\ Loaded /\ Answers = {}
         /\ page.xMin = XMinOf[chart] /\ page.xMax = page.xMin + card - 1
         /\ chart \in Charts /\ card \in 1..MaxCard
         /\ m.iter \in 0..MaxCard
         /\ page.xMin <= m.iter /\ m.iter <= page.xMax
<1>1. Answers = {} /\ IterUnderWay
  BY DEF OrderInv, OneCall, IterUnderWay, IterAsked
<1>2. page.loaded /\ ~AxesAnswered
  BY <1>1 DEF OrderInv, BeforeLoad, AxesAnswered
<1>3. Loaded /\ page.xMin = XMinOf[chart] /\ page.xMax = page.xMin + card - 1
  BY <1>2 DEF OrderInv, AxisAgrees
<1>4. chart \in Charts /\ card \in 1..MaxCard /\ MaxCard \in Nat
  BY <1>3, ChartFacts DEF OrderInv
<1>5. card = CardOf[chart] /\ XMinOf[chart] \in 0..1
  BY <1>4, ChartAssumption DEF OrderInv, TrendInv, CardMatches
<1>7. m.iter \in Int /\ page.xMin <= m.iter /\ m.iter <= page.xMax
  BY DEF OrderInv, MessageShape, AskedIsCurrent
<1>8. m.iter \in 0..MaxCard
  BY <1>3, <1>4, <1>5, <1>7
<1> QED
  BY <1>1, <1>2, <1>3, <1>4, <1>7, <1>8

\* A first iteration is stored in the arrays, unless a reset has overtaken it
\* or some were lost before it.
LEMMA FirstIsInSlots ==
  ASSUME OrderInv, NEW m \in Calls, m.op = "iter", firstIteration,
         AxesFit \/ (Lossless /\ ~page.resetFlag)
  PROVE  m.iter \in Slots
<1>1. /\ page.loaded /\ Loaded /\ Answers = {}
      /\ page.xMin = XMinOf[chart] /\ page.xMax = page.xMin + card - 1
      /\ chart \in Charts /\ card \in 1..MaxCard
      /\ m.iter \in 0..MaxCard
      /\ page.xMin <= m.iter /\ m.iter <= page.xMax
  BY AskedIsInRange
<1>2. card = CardOf[chart] /\ XMinOf[chart] \in 0..1
  BY <1>1, ChartAssumption DEF OrderInv, TrendInv, CardMatches
<1>3. CASE AxesFit
  <2>1. page.xMin + card <= MaxCard
    BY <1>1, <1>2, <1>3 DEF AxesFit
  <2> QED
    BY <1>1, <1>2, <2>1, MaxCardAssumption DEF Slots
<1>4. CASE Lossless /\ ~page.resetFlag
  <2>1. ~AxesAnswered /\ m.iter = page.iteration
    BY <1>1, <1>4 DEF OrderInv, AxesAnswered, AskedIsCurrent
  <2>2. page.iteration <= page.xMin + 1
    BY <1>1, <1>4, <2>1 DEF OrderInv, StartsEarly
  <2> QED
    BY <1>1, <1>2, <2>1, <2>2, MaxCardAssumption DEF Slots
<1> QED
  BY <1>3, <1>4

LEMMA ServeIterInv ==
  ASSUME OrderInv, NEW m \in DOMAIN requests, ServeIter(m),
         requests' = requests (-) SetToBag({m}),
         UNCHANGED << page, view, run, vizType >>
  PROVE  OrderInv'
<1> DEFINE a == [op |-> "iter",
                 sl |-> IF vizType = 1 THEN PackSegments ELSE << >>,
                 gl |-> IF vizType = 3 THEN PackBars ELSE << >>,
                 xMin |-> XMin, xMax |-> XMin + card - 1]
<1>1. /\ m.op = "iter" /\ replies' = replies (+) SetToBag({a})
      /\ GenHisto(m.iter) \/ GenHistoBase
  BY DEF ServeIter
<1>2. a.op = "iter" /\ a.xMin = XMin /\ a.xMax = XMin + card - 1
  OBVIOUS
<1> HIDE DEF a
<1>3. /\ RequestsOK' /\ Calls = {m} /\ Calls' = {}
      /\ ResetSent' <=> ResetSent
  BY <1>1, CallTaken DEF OrderInv, OneCall
<1>4. /\ page.loaded /\ Loaded /\ Answers = {}
      /\ page.xMin = XMinOf[chart] /\ page.xMax = page.xMin + card - 1
      /\ chart \in Charts /\ card \in 1..MaxCard
      /\ m.iter \in 0..MaxCard
      /\ page.xMin <= m.iter /\ m.iter <= page.xMax
  BY <1>1, <1>3, AskedIsInRange
<1>5. RepliesOK' /\ Answers' = {a}
  BY <1>1, <1>4, AnswerSent DEF OrderInv, OneCall
<1>6. OneCall'
  BY <1>3, <1>5 DEF OneCall
<1>7. /\ IterAsked /\ IterUnderWay /\ ~AxesAnswered /\ ~IterAsked'
      /\ IterAnswered' /\ IterUnderWay' /\ ~AxesAnswered'
  BY <1>1, <1>2, <1>3, <1>4, <1>5
     DEF IterAsked, IterAnswered, IterUnderWay, AxesAnswered
<1>8. /\ TrendInv' /\ chart' = chart /\ card' = card /\ ~firstIteration'
      /\ Loaded' <=> Loaded
  <2>1. TrendNext
    BY <1>1, <1>4 DEF TrendNext
  <2>2. TrendInv'
    BY <2>1, NextInv DEF OrderInv
  <2> QED
    BY <1>1, <2>2
       DEF GenHisto, GenHistoFirst, GenHistoNext, GenHistoBase, Loaded
<1>9. page' = page /\ segmentChain' = segmentChain /\ run' = run /\ vizType' = vizType
      /\ Current' = Current
  BY DEF view, Current
<1>10. XMin = page.xMin
  BY <1>4 DEF XMin
<1>11. PageShape' /\ MessageShape' /\ BeforeLoad'
  BY <1>2, <1>3, <1>4, <1>5, <1>9 DEF OrderInv, PageShape, MessageShape, BeforeLoad
<1>12. AxisAgrees'
  BY <1>2, <1>4, <1>5, <1>8, <1>9, <1>10 DEF AxisAgrees
<1>13. BlankAfterReset' /\ ResetOvertakes'
  BY <1>3, <1>7, <1>8, <1>9 DEF OrderInv, BlankAfterReset, ResetOvertakes
<1>14. AskedIsCurrent'
  BY <1>3, <1>7, <1>9 DEF OrderInv, AskedIsCurrent
<1>15. PlaysInOrder' /\ StartsAtXMin' /\ RunsPast'
  BY <1>7, <1>9 DEF OrderInv, PlaysInOrder, StartsAtXMin, RunsPast
<1>16. SamplesOfChart'
  <2> SUFFICES ASSUME Synced', AxesFit \/ (Lossless /\ ~page.resetFlag),
                      NEW g \in 0..card - 1
               PROVE  samples'[g] = {chart}
    BY <1>8, <1>9 DEF SamplesOfChart, AxesFit, Lossless
  <2>1. Synced
    BY <1>3, <1>7, <1>9 DEF Synced
  <2>2. samples[g] = IF firstIteration THEN {} ELSE {chart}
    BY <2>1 DEF OrderInv, SamplesOfChart
  <2>3. g \in Slots /\ g \in 0..LastGroup
    BY <1>4, MaxCardAssumption DEF Slots, LastGroup
  <2>4. CASE GenHistoBase
    BY <2>2, <2>3, <2>4 DEF GenHistoBase, Sample
  <2>5. CASE GenHistoFirst(m.iter)
    <3>1. m \in Calls /\ firstIteration
      BY <1>3, <2>5 DEF GenHistoFirst
    <3>2. m.iter \in Slots
      BY <1>1, <3>1, FirstIsInSlots
    <3> QED
      BY <2>2, <2>3, <2>5, <3>2 DEF GenHistoFirst, Sample
  <2>6. CASE GenHistoNext(m.iter)
    BY <2>2, <2>3, <2>6 DEF GenHistoNext, Sample
  <2> QED
    BY <1>1, <2>4, <2>5, <2>6 DEF GenHisto
<1>17. BlankBeforeFirst'
  BY <1>7, <1>8 DEF BlankBeforeFirst
<1>18. StartsEarly'
  BY <1>8 DEF StartsEarly
<1> QED
  BY <1>6, <1>8, <1>11, <1>12, <1>13, <1>14, <1>15, <1>16, <1>17, <1>18
     DEF OrderInv, Orderly

-----------------------------------------------------------------------------
(* The page handles an answer.                                             *)

LEMMA DeliverAxesInv ==
  ASSUME OrderInv, DeliverAxes
  PROVE  OrderInv'
<1>1. PICK m \in DOMAIN replies :
        /\ m.op = "axes"
        /\ replies' = replies (-) SetToBag({m})
        /\ page' = Cleared([page EXCEPT !.xMin = m.xMin, !.xMax = m.xMax,
                                        !.loaded = TRUE, !.resetFlag = FALSE])
        /\ Send(ResetRequest)
        /\ run' = run + 1
        /\ UNCHANGED << trendVars, segmentChain, vizType >>
  BY DEF DeliverAxes, BagToSet
<1>2. RepliesOK' /\ Answers = {m} /\ Answers' = {}
  BY <1>1, AnswerTaken DEF OrderInv, OneCall
<1>3. RequestsOK' /\ Calls = {} /\ Calls' = {} /\ ResetSent'
  BY <1>1, <1>2, ResetIsSent DEF OrderInv, OneCall
<1>4. OneCall'
  BY <1>2, <1>3 DEF OneCall
<1>5. ~IterUnderWay' /\ ~AxesAnswered'
  BY <1>2, <1>3 DEF IterUnderWay, IterAsked, IterAnswered, AxesAnswered
<1>6. /\ TrendInv' /\ chart' = chart /\ card' = card
      /\ firstIteration' = firstIteration /\ (Loaded' <=> Loaded)
  BY <1>1, EngineKept DEF OrderInv
<1>7. Loaded /\ firstIteration /\ m.xMin = XMinOf[chart] /\ m.xMax = m.xMin + card - 1
  BY <1>1, <1>2 DEF OrderInv, AxisAgrees
<1>8. XMinOf[chart] \in {0, 1} /\ card \in Int /\ card >= 1
  BY <1>7, ChartFacts, ChartAssumption DEF OrderInv
<1>9. /\ DOMAIN page' = PageFields /\ page'.loaded = TRUE
      /\ page'.xMin = m.xMin /\ page'.xMax = m.xMax
      /\ page'.segmentArr = << >> /\ page'.iteration = m.xMin - 1
      /\ page'.playFlag = FALSE /\ page'.simplayFlag = FALSE
      /\ page'.icon = "play" /\ page'.resetFlag = FALSE
  <2> DEFINE p == [page EXCEPT !.xMin = m.xMin, !.xMax = m.xMax,
                               !.loaded = TRUE, !.resetFlag = FALSE]
  <2>1. DOMAIN page = PageFields
    BY DEF OrderInv, PageShape
  <2>2. /\ DOMAIN p = PageFields /\ p.xMin = m.xMin /\ p.xMax = m.xMax
        /\ p.loaded = TRUE /\ p.resetFlag = FALSE
    BY <2>1 DEF PageFields
  <2>3. page' = Cleared(p)
    BY <1>1
  <2> HIDE DEF p
  <2>4. /\ SameChart(Cleared(p), p) /\ Cleared(p).resetFlag = p.resetFlag
        /\ Cleared(p).segmentArr = << >> /\ Cleared(p).iteration = p.xMin - 1
        /\ Cleared(p).playFlag = FALSE /\ Cleared(p).simplayFlag = FALSE
        /\ Cleared(p).icon = "play"
    BY <2>2, ClearedPage
  <2> QED
    BY <2>2, <2>3, <2>4 DEF SameChart
<1>10. RunsPast' /\ Current' = {}
  BY <1>1, NewRun DEF OrderInv
<1>11. PageShape'
  <2>1. /\ page'.xMin \in {0, 1} /\ page'.xMax \in Int /\ page'.xMin <= page'.xMax
        /\ page'.iteration \in Int
    BY <1>7, <1>8, <1>9
  <2>2. vizType' \in VizTypes
    BY <1>1 DEF OrderInv, PageShape
  <2>3. /\ page'.loaded \in BOOLEAN /\ page'.resetFlag \in BOOLEAN
        /\ page'.playFlag \in BOOLEAN /\ page'.simplayFlag \in BOOLEAN
    BY <1>9
  <2> QED
    BY <1>9, <2>1, <2>2, <2>3 DEF PageShape
<1>12. MessageShape' /\ BeforeLoad'
  BY <1>2, <1>3, <1>9 DEF MessageShape, BeforeLoad
<1>13. AxisAgrees'
  BY <1>2, <1>6, <1>7, <1>9 DEF AxisAgrees
<1>14. BlankAfterReset'
  BY <1>7, <1>8, <1>9, <1>10 DEF BlankAfterReset
<1>15. ResetOvertakes' /\ AskedIsCurrent'
  BY <1>3, <1>5, <1>9 DEF ResetOvertakes, AskedIsCurrent, IterUnderWay
<1>16. PlaysInOrder' /\ StartsAtXMin'
  BY <1>7, <1>8, <1>9 DEF PlaysInOrder, StartsAtXMin
<1>17. SamplesOfChart' /\ BlankBeforeFirst'
  BY <1>3, <1>9 DEF SamplesOfChart, BlankBeforeFirst, Synced
<1>18. StartsEarly'
  BY <1>7, <1>8, <1>9 DEF StartsEarly
<1> QED
  BY <1>4, <1>6, <1>10, <1>11, <1>12, <1>13, <1>14, <1>15, <1>16, <1>17, <1>18
     DEF OrderInv, Orderly

\* The answer of a run that a reset has ended resets once more.
Discard(m) ==
  /\ page.resetFlag
  /\ page' = Cleared(page)
  /\ Send(ResetRequest)
  /\ UNCHANGED segmentChain

\* The answer of the iteration the page waits for: what it becomes part of.
ArrAfter(m) == IF m.sl # << >> THEN Spliced(page.segmentArr, m.sl)
                               ELSE Overwritten(page.segmentArr, m.gl)
KeptEntry(m) == Entry(run, IF m.sl # << >> THEN ArrAfter(m) ELSE m.gl)
ChainAfter(m) ==
  [j \in DOMAIN segmentChain \cup {page.iteration} |->
     IF j = page.iteration THEN KeptEntry(m) ELSE segmentChain[j]]
Accept(m) ==
  /\ ~page.resetFlag
  /\ segmentChain' = ChainAfter(m)
  /\ \E p : /\ SameChart(p, page)
            /\ p.segmentArr = ArrAfter(m)
            /\ p.iteration = page.iteration /\ p.resetFlag = page.resetFlag
            /\ p.playFlag = page.playFlag /\ p.simplayFlag = page.simplayFlag
            /\ p.icon = page.icon
            /\ Play(p)

LEMMA DeliverIterCases ==
  ASSUME OrderInv, DeliverIter
  PROVE  \E m \in DOMAIN replies :
           /\ m.op = "iter"
           /\ replies' = replies (-) SetToBag({m})
           /\ UNCHANGED << trendVars, run, vizType >>
           /\ Discard(m) \/ Accept(m)
<1>1. PICK m \in DOMAIN replies :
        /\ m.op = "iter"
        /\ replies' = replies (-) SetToBag({m})
        /\ UNCHANGED << trendVars, run, vizType >>
        /\ \/ Discard(m)
           \/ /\ ~page.resetFlag
              /\ LET i == page.iteration
                     p == [page EXCEPT !.segmentArr = ArrAfter(m),
                                     !.xMin = IF i = 1 THEN m.xMin ELSE @,
                                     !.xMax = IF i = 1 THEN m.xMax ELSE @]
                 IN /\ segmentChain' = ChainAfter(m)
                    /\ IF i <= p.xMax
                         THEN Play([p EXCEPT !.playNoviz = @ \/ p.forwardFlag])
                         ELSE page' = p /\ UNCHANGED requests
  BY Zenon DEF DeliverIter, BagToSet, Discard, ArrAfter, ChainAfter, KeptEntry
<1>2. SUFFICES ASSUME ~Discard(m)
               PROVE  Accept(m)
  BY <1>1
<1> DEFINE i == page.iteration
           p == [page EXCEPT !.segmentArr = ArrAfter(m),
                             !.xMin = IF i = 1 THEN m.xMin ELSE @,
                             !.xMax = IF i = 1 THEN m.xMax ELSE @]
           q == [p EXCEPT !.playNoviz = @ \/ p.forwardFlag]
<1>3. /\ ~page.resetFlag /\ segmentChain' = ChainAfter(m)
      /\ IF i <= p.xMax THEN Play(q) ELSE page' = p /\ UNCHANGED requests
  BY <1>1, <1>2
<1> HIDE <1>1
<1>4. m.xMin = page.xMin /\ m.xMax = page.xMax /\ i <= page.xMax
  <2>1. IterUnderWay /\ m \in Answers /\ m.op = "iter"
    BY <1>1 DEF IterUnderWay, IterAnswered, Answers
  <2> QED
    BY <1>3, <2>1 DEF OrderInv, AxisAgrees, AskedIsCurrent
<1>5. DOMAIN page = PageFields
  BY DEF OrderInv, PageShape
<1>6. /\ SameChart(p, page) /\ p.segmentArr = ArrAfter(m)
      /\ p.iteration = page.iteration /\ p.resetFlag = page.resetFlag
      /\ p.playFlag = page.playFlag /\ p.simplayFlag = page.simplayFlag
      /\ p.icon = page.icon
  BY <1>4, <1>5 DEF SameChart, PageFields
<1> HIDE DEF p
<1>7. /\ SameChart(q, page) /\ q.segmentArr = ArrAfter(m)
      /\ q.iteration = page.iteration /\ q.resetFlag = page.resetFlag
      /\ q.playFlag = page.playFlag /\ q.simplayFlag = page.simplayFlag
      /\ q.icon = page.icon
  BY <1>6 DEF SameChart, PageFields
<1> HIDE DEF q
<1>8. Play(q)
  BY <1>3, <1>4, <1>6 DEF SameChart
<1> QED
  BY <1>3, <1>7, <1>8 DEF Accept

LEMMA DiscardInv ==
  ASSUME OrderInv, NEW m \in DOMAIN replies, m.op = "iter",
         replies' = replies (-) SetToBag({m}),
         UNCHANGED << trendVars, run, vizType >>, Discard(m)
  PROVE  OrderInv'
<1>1. /\ page.resetFlag /\ page' = Cleared(page) /\ Send(ResetRequest)
      /\ UNCHANGED segmentChain
  BY DEF Discard
<1>2. RepliesOK' /\ Answers = {m} /\ Answers' = {}
  BY AnswerTaken DEF OrderInv, OneCall
<1>3. RequestsOK' /\ Calls = {} /\ Calls' = {} /\ ResetSent'
  BY <1>1, <1>2, ResetIsSent DEF OrderInv, OneCall
<1>4. OneCall'
  BY <1>2, <1>3 DEF OneCall
<1>5. ~IterUnderWay' /\ ~AxesAnswered' /\ ~AxesAnswered
  BY <1>2, <1>3 DEF IterUnderWay, IterAsked, IterAnswered, AxesAnswered
<1>6. /\ TrendInv' /\ chart' = chart /\ card' = card
      /\ firstIteration' = firstIteration /\ (Loaded' <=> Loaded)
  BY EngineKept DEF OrderInv
<1>7. /\ DOMAIN page' = PageFields /\ page.loaded /\ page'.loaded = page.loaded
      /\ page'.xMin = page.xMin /\ page'.xMax = page.xMax
      /\ page'.segmentArr = << >> /\ page'.iteration = page.xMin - 1
      /\ page'.playFlag = FALSE /\ page'.simplayFlag = FALSE
      /\ page'.icon = "play" /\ page'.resetFlag = page.resetFlag
  <2>1. DOMAIN page = PageFields
    BY DEF OrderInv, PageShape
  <2>2. page.loaded
    BY <1>1 DEF OrderInv, BeforeLoad
  <2> QED
    BY <1>1, <2>1, <2>2, ClearedPage DEF SameChart
<1>8. page.xMin \in Int /\ page.xMin \in {0, 1}
  BY DEF OrderInv, PageShape
<1>9. Current' = {} /\ RunsPast'
  BY <1>1 DEF OrderInv, BlankAfterReset, Current, RunsPast
<1>10. PageShape'
  <2>1. PageShape /\ page.xMin - 1 \in Int /\ vizType' = vizType
    BY <1>8 DEF OrderInv
  <2>2. page'.loaded \in BOOLEAN /\ page'.resetFlag \in BOOLEAN
    BY <1>7, <2>1 DEF PageShape
  <2>3. page'.playFlag \in BOOLEAN /\ page'.simplayFlag \in BOOLEAN
    BY <1>7
  <2>4. /\ DOMAIN page' = PageFields
        /\ page'.xMin \in {0, 1} /\ page'.xMax \in Int /\ page'.xMin <= page'.xMax
        /\ page'.iteration \in Int /\ vizType' \in VizTypes
    BY <1>7, <2>1 DEF PageShape
  <2> QED
    BY <2>2, <2>3, <2>4 DEF PageShape
<1>11. MessageShape' /\ BeforeLoad'
  BY <1>2, <1>3, <1>7 DEF MessageShape, BeforeLoad
<1>12. AxisAgrees'
  BY <1>2, <1>5, <1>6, <1>7 DEF OrderInv, AxisAgrees
<1>13. BlankAfterReset'
  BY <1>7, <1>8, <1>9 DEF BlankAfterReset
<1>14. ResetOvertakes' /\ AskedIsCurrent'
  BY <1>1, <1>3, <1>5, <1>7 DEF ResetOvertakes, AskedIsCurrent, IterUnderWay
<1>15. PlaysInOrder' /\ StartsAtXMin'
  BY <1>7, <1>8 DEF PlaysInOrder, StartsAtXMin
<1>16. SamplesOfChart' /\ BlankBeforeFirst'
  BY <1>3, <1>7 DEF SamplesOfChart, BlankBeforeFirst, Synced
<1>17. StartsEarly'
  BY <1>7, <1>8 DEF StartsEarly
<1> QED
  BY <1>4, <1>6, <1>9, <1>10, <1>11, <1>12, <1>13, <1>14, <1>15, <1>16, <1>17
     DEF OrderInv, Orderly

\* What accepting an answer does to the page and to the network.
LEMMA AcceptPage ==
  ASSUME OrderInv, NEW m \in DOMAIN replies, m.op = "iter",
         replies' = replies (-) SetToBag({m}),
         UNCHANGED << trendVars, run, vizType >>, Accept(m)
  PROVE  /\ SameChart(page', page) /\ page.loaded
         /\ page.xMin <= page.iteration /\ page.iteration <= page.xMax
         /\ page'.segmentArr = ArrAfter(m)
         /\ page'.iteration = page.iteration + 1
         /\ page.resetFlag = FALSE /\ page'.resetFlag = FALSE
         /\ page'.simplayFlag = page.simplayFlag /\ page'.icon = page.icon
         /\ page'.playFlag \in BOOLEAN
         /\ page'.playFlag => page.playFlag
         /\ OneCall' /\ Answers = {m} /\ Answers' = {}
         /\ ~ResetSent /\ ~ResetSent' /\ Calls = {}
         /\ \/ /\ page.playFlag /\ page'.playFlag
               /\ page.iteration + 1 <= page.xMax
               /\ Calls' = {IterRequest(page.iteration + 1)}
            \/ Calls' = {} /\ page.simplayFlag
            \/ Calls' = {} /\ ~page'.playFlag /\ page.iteration + 1 > page.xMax
<1>1. RepliesOK' /\ Answers = {m} /\ Answers' = {}
  BY AnswerTaken DEF OrderInv, OneCall
<1>2. Calls = {} /\ RequestsOK
  BY <1>1 DEF OrderInv, OneCall
<1>3. IterAnswered /\ IterUnderWay /\ ~page.resetFlag
  BY <1>1 DEF IterAnswered, IterUnderWay, Accept
<1>4. page.loaded /\ ~ResetSent
  BY <1>3 DEF OrderInv, BeforeLoad, ResetOvertakes
<1>5. /\ page.xMin <= page.iteration /\ page.iteration <= page.xMax
      /\ page.simplayFlag \/ page.playFlag
  BY <1>3 DEF OrderInv, AskedIsCurrent
<1>6. /\ page.iteration \in Int /\ page.xMax \in Int
      /\ page.playFlag \in BOOLEAN /\ page.resetFlag = FALSE
  BY <1>3 DEF OrderInv, PageShape
<1>7. PICK p : /\ SameChart(p, page)
               /\ p.segmentArr = ArrAfter(m)
               /\ p.iteration = page.iteration /\ p.resetFlag = page.resetFlag
               /\ p.playFlag = page.playFlag /\ p.simplayFlag = page.simplayFlag
               /\ p.icon = page.icon
               /\ Play(p)
  BY DEF Accept
<1>8. /\ SameChart(page', p)
      /\ page'.resetFlag = p.resetFlag
      /\ page'.segmentArr = p.segmentArr
      /\ page'.iteration = p.iteration + 1
      /\ page'.simplayFlag = p.simplayFlag
      /\ page'.icon = p.icon
      /\ \/ /\ p.playFlag /\ page'.playFlag = p.playFlag
            /\ p.iteration + 1 <= p.xMax
            /\ Send(IterRequest(p.iteration + 1))
         \/ /\ ~(p.playFlag /\ p.iteration + 1 <= p.xMax)
            /\ page'.playFlag = p.playFlag /\ p.simplayFlag
            /\ UNCHANGED requests
         \/ /\ ~(p.playFlag /\ p.iteration + 1 <= p.xMax)
            /\ page'.playFlag = FALSE /\ ~p.simplayFlag
            /\ UNCHANGED requests
  BY <1>7, PlayPage DEF SameChart
<1>9. /\ SameChart(page', page) /\ page'.segmentArr = ArrAfter(m)
      /\ page'.iteration = page.iteration + 1
      /\ page'.resetFlag = FALSE
      /\ page'.simplayFlag = page.simplayFlag /\ page'.icon = page.icon
  BY <1>6, <1>7, <1>8 DEF SameChart
<1>10. ASSUME page.playFlag, page'.playFlag = page.playFlag,
              page.iteration + 1 <= page.xMax,
              Send(IterRequest(page.iteration + 1))
       PROVE  RequestsOK' /\ ~ResetSent' /\ Calls' = {IterRequest(page.iteration + 1)}
  <2>1. IterRequest(page.iteration + 1).op = "iter"
    BY DEF IterRequest
  <2> QED
    BY <1>2, <1>4, <1>10, <2>1, CallSent
<1>11. ASSUME UNCHANGED requests
       PROVE  RequestsOK' /\ ~ResetSent' /\ Calls' = {}
  BY <1>2, <1>4, <1>11 DEF RequestsOK, ResetSent, Calls
<1>12. \/ /\ page.playFlag /\ page'.playFlag = page.playFlag
          /\ page.iteration + 1 <= page.xMax
          /\ Send(IterRequest(page.iteration + 1))
       \/ /\ page'.playFlag = page.playFlag /\ page.simplayFlag
          /\ UNCHANGED requests
       \/ /\ page'.playFlag = FALSE /\ page.iteration + 1 > page.xMax
          /\ UNCHANGED requests
  BY <1>5, <1>6, <1>7, <1>8 DEF SameChart
<1>13. CASE /\ page.playFlag /\ page'.playFlag = page.playFlag
            /\ page.iteration + 1 <= page.xMax
            /\ Send(IterRequest(page.iteration + 1))
  BY <1>1, <1>2, <1>4, <1>5, <1>6, <1>9, <1>10, <1>13 DEF OneCall
<1>14. CASE /\ page'.playFlag = page.playFlag /\ page.simplayFlag
            /\ UNCHANGED requests
  BY <1>1, <1>2, <1>4, <1>5, <1>6, <1>9, <1>11, <1>14 DEF OneCall
<1>15. CASE /\ page'.playFlag = FALSE /\ page.iteration + 1 > page.xMax
            /\ UNCHANGED requests
  BY <1>1, <1>2, <1>4, <1>5, <1>6, <1>9, <1>11, <1>15 DEF OneCall
<1> QED
  BY <1>12, <1>13, <1>14, <1>15

LEMMA AcceptInv ==
  ASSUME OrderInv, NEW m \in DOMAIN replies, m.op = "iter",
         replies' = replies (-) SetToBag({m}),
         UNCHANGED << trendVars, run, vizType >>, Accept(m)
  PROVE  OrderInv'
<1> DEFINE n == IterRequest(page.iteration + 1)
<1>1. /\ SameChart(page', page) /\ page.loaded
      /\ page.xMin <= page.iteration /\ page.iteration <= page.xMax
      /\ page'.iteration = page.iteration + 1
      /\ page.resetFlag = FALSE /\ page'.resetFlag = FALSE
      /\ page'.simplayFlag = page.simplayFlag /\ page'.icon = page.icon
      /\ page'.playFlag \in BOOLEAN
      /\ page'.playFlag => page.playFlag
  BY AcceptPage
<1>2. /\ OneCall' /\ Answers = {m} /\ Answers' = {}
      /\ ~ResetSent /\ ~ResetSent' /\ Calls = {}
  BY AcceptPage
<1>3. \/ /\ page'.playFlag /\ page.iteration + 1 <= page.xMax
         /\ Calls' = {n}
      \/ Calls' = {} /\ page.simplayFlag
      \/ Calls' = {} /\ ~page'.playFlag /\ page.iteration + 1 > page.xMax
  BY AcceptPage
<1>4. n.op = "iter" /\ n.iter = page.iteration + 1
  BY DEF IterRequest
<1> HIDE DEF n
<1>5. /\ TrendInv' /\ chart' = chart /\ card' = card /\ samples' = samples
      /\ firstIteration' = firstIteration /\ (Loaded' <=> Loaded)
  BY EngineKept DEF OrderInv
<1>6. /\ IterAnswered /\ IterUnderWay /\ ~AxesAnswered
      /\ ~IterAnswered' /\ ~AxesAnswered' /\ ~firstIteration
      /\ IterUnderWay' <=> Calls' # {}
  <2>1. IterAnswered /\ IterUnderWay /\ ~AxesAnswered /\ ~IterAnswered' /\ ~AxesAnswered'
    BY <1>2 DEF IterAnswered, IterUnderWay, AxesAnswered
  <2>2. IterUnderWay' <=> Calls' # {}
    BY <1>3, <1>4, <2>1 DEF IterUnderWay, IterAsked
  <2>3. ~firstIteration
    BY <1>1, <2>1 DEF OrderInv, ResetOvertakes
  <2> QED
    BY <2>1, <2>2, <2>3
<1>7. /\ DOMAIN page' = PageFields /\ page'.loaded = page.loaded
      /\ page'.xMin = page.xMin /\ page'.xMax = page.xMax
  BY <1>1 DEF SameChart
<1>8. /\ page.xMin \in Int /\ page.iteration \in Int /\ page.xMax \in Int
      /\ page.xMin \in {0, 1}
  BY DEF OrderInv, PageShape
<1>9. PageShape'
  <2>1. PageShape
    BY DEF OrderInv
  <2>2. page'.resetFlag \in BOOLEAN
    BY <1>1
  <2> QED
    BY <1>1, <1>7, <1>8, <2>1, <2>2 DEF PageShape
<1>10. MessageShape' /\ BeforeLoad'
  BY <1>1, <1>2, <1>3, <1>4, <1>7, <1>8 DEF MessageShape, BeforeLoad
<1>11. AxisAgrees'
  BY <1>2, <1>5, <1>6, <1>7 DEF OrderInv, AxisAgrees
<1>12. BlankAfterReset' /\ ResetOvertakes'
  BY <1>1, <1>2, <1>6 DEF BlankAfterReset, ResetOvertakes
<1>13. AskedIsCurrent'
  <2>1. CASE page'.playFlag /\ page.iteration + 1 <= page.xMax /\ Calls' = {n}
    BY <1>1, <1>4, <1>7, <1>8, <2>1 DEF AskedIsCurrent
  <2>2. CASE Calls' = {}
    BY <1>6, <2>2 DEF AskedIsCurrent
  <2> QED
    BY <1>3, <2>1, <2>2
<1>14. PlaysInOrder'
  <2>1. Patience = "all" /\ page'.playFlag => page'.icon = "pause"
    BY <1>1 DEF OrderInv, PlaysInOrder
  <2>2. \/ page'.simplayFlag
        \/ page'.iteration > page'.xMax
        \/ page'.playFlag /\ IterUnderWay'
    BY <1>1, <1>3, <1>6, <1>7
  <2> QED
    BY <2>1, <2>2 DEF PlaysInOrder
<1>15. StartsAtXMin'
  BY <1>1, <1>7, <1>8 DEF StartsAtXMin
<1>16. SamplesOfChart'
  BY <1>1, <1>2, <1>5, <1>6
     DEF OrderInv, SamplesOfChart, Synced, AxesFit, Lossless
<1>17. BlankBeforeFirst'
  BY <1>1, <1>5, <1>6, <1>7, <1>8 DEF BlankBeforeFirst
<1>18. RunsPast'
  BY <1>1 DEF OrderInv, RunsPast, Accept, ChainAfter, KeptEntry, Entry
<1>19. StartsEarly'
  BY <1>5, <1>6 DEF StartsEarly
<1> QED
  BY <1>2, <1>5, <1>9, <1>10, <1>11, <1>12, <1>13, <1>14, <1>15, <1>16, <1>17, <1>18,
     <1>19
     DEF OrderInv, Orderly

-----------------------------------------------------------------------------
(* The network loses a call.                                               *)

LEMMA LoseRequestInv ==
  ASSUME OrderInv, LoseRequest
  PROVE  OrderInv'
<1>1. PICK m \in DOMAIN requests : /\ m.op \in LoseRequests
                                   /\ requests' = requests (-) SetToBag({m})
  BY DEF LoseRequest, BagToSet
<1>2. UNCHANGED << trendVars, replies, page, view, run, vizType >>
  BY DEF LoseRequest
<1>3. m.op # "reset" /\ (m.op = "iter" => Patience = "all" /\ ~Lossless)
  BY <1>1 DEF OrderInv, Orderly, Lossless
<1>4. /\ RequestsOK' /\ Calls = {m} /\ Calls' = {}
      /\ ResetSent' <=> ResetSent
  BY <1>1, <1>3, CallTaken DEF OrderInv, OneCall
<1>5. Answers = {} /\ Answers' = {} /\ RepliesOK'
  BY <1>2, <1>4 DEF OrderInv, OneCall, RepliesOK, Answers
<1>6. OneCall'
  BY <1>4, <1>5 DEF OneCall
<1>7. /\ ~IterAsked' /\ ~IterAnswered' /\ ~IterUnderWay' /\ ~AxesAnswered'
      /\ ~IterAnswered /\ ~AxesAnswered
      /\ IterUnderWay => m.op = "iter"
  BY <1>4, <1>5 DEF IterAsked, IterAnswered, IterUnderWay, AxesAnswered
<1>8. /\ TrendInv' /\ chart' = chart /\ card' = card /\ samples' = samples
      /\ firstIteration' = firstIteration /\ (Loaded' <=> Loaded)
  BY <1>2, EngineKept DEF OrderInv
<1>9. page' = page /\ segmentChain' = segmentChain /\ run' = run /\ vizType' = vizType
      /\ Current' = Current
  BY <1>2 DEF view, Current
<1>10. PageShape' /\ MessageShape' /\ BeforeLoad'
  BY <1>4, <1>5, <1>7, <1>9 DEF OrderInv, PageShape, MessageShape, BeforeLoad
<1>11. AxisAgrees'
  BY <1>5, <1>7, <1>8, <1>9 DEF OrderInv, AxisAgrees
<1>12. BlankAfterReset'
  BY <1>4, <1>9 DEF OrderInv, BlankAfterReset
<1>13. ResetOvertakes' /\ AskedIsCurrent'
  BY <1>3, <1>4, <1>7, <1>8, <1>9 DEF OrderInv, ResetOvertakes, AskedIsCurrent
<1>14. PlaysInOrder' /\ StartsAtXMin' /\ RunsPast'
  BY <1>3, <1>7, <1>9 DEF OrderInv, PlaysInOrder, StartsAtXMin, RunsPast
<1>15. SamplesOfChart' /\ BlankBeforeFirst'
  BY <1>3, <1>4, <1>7, <1>8, <1>9
     DEF OrderInv, SamplesOfChart, BlankBeforeFirst, Synced, AxesFit, Lossless
<1>16. StartsEarly'
  <2>1. Lossless => ~IterAsked
    BY <1>3, <1>4, <1>7 DEF IterAsked
  <2> QED
    BY <1>7, <1>8, <1>9, <2>1 DEF OrderInv, StartsEarly, Lossless
<1> QED
  BY <1>6, <1>8, <1>10, <1>11, <1>12, <1>13, <1>14, <1>15, <1>16
     DEF OrderInv, Orderly

LEMMA LoseReplyInv ==
  ASSUME OrderInv, LoseReply
  PROVE  OrderInv'
<1>1. PICK m \in DOMAIN replies : /\ m.op \in LoseReplies
                                  /\ replies' = replies (-) SetToBag({m})
  BY DEF LoseReply, BagToSet
<1>2. UNCHANGED << trendVars, requests, page, view, run, vizType >>
  BY DEF LoseReply
<1>3. RepliesOK' /\ Answers = {m} /\ Answers' = {}
  BY <1>1, AnswerTaken DEF OrderInv, OneCall
<1>4. m.op = "iter" /\ Patience = "all" /\ ~Lossless
  BY <1>1, <1>3 DEF OrderInv, Orderly, Lossless, MessageShape
<1>5. /\ RequestsOK' /\ Calls = {} /\ Calls' = {}
      /\ ResetSent' <=> ResetSent
  BY <1>2, <1>3 DEF OrderInv, OneCall, RequestsOK, Calls, ResetSent
<1>6. OneCall'
  BY <1>3, <1>5 DEF OneCall
<1>7. /\ ~IterAsked' /\ ~IterAnswered' /\ ~IterUnderWay' /\ ~AxesAnswered'
      /\ ~AxesAnswered
  BY <1>3, <1>4, <1>5 DEF IterAsked, IterAnswered, IterUnderWay, AxesAnswered
<1>8. /\ TrendInv' /\ chart' = chart /\ card' = card /\ samples' = samples
      /\ firstIteration' = firstIteration /\ (Loaded' <=> Loaded)
  BY <1>2, EngineKept DEF OrderInv
<1>9. page' = page /\ segmentChain' = segmentChain /\ run' = run /\ vizType' = vizType
      /\ Current' = Current
  BY <1>2 DEF view, Current
<1>10. PageShape' /\ MessageShape' /\ BeforeLoad'
  BY <1>3, <1>5, <1>7, <1>9 DEF OrderInv, PageShape, MessageShape, BeforeLoad
<1>11. AxisAgrees'
  BY <1>3, <1>7, <1>8, <1>9 DEF OrderInv, AxisAgrees
<1>12. BlankAfterReset'
  BY <1>5, <1>9 DEF OrderInv, BlankAfterReset
<1>13. ResetOvertakes' /\ AskedIsCurrent'
  BY <1>4, <1>5, <1>7 DEF ResetOvertakes, AskedIsCurrent
<1>14. PlaysInOrder' /\ StartsAtXMin' /\ RunsPast'
  BY <1>4, <1>9 DEF OrderInv, PlaysInOrder, StartsAtXMin, RunsPast
<1>15. SamplesOfChart' /\ BlankBeforeFirst'
  BY <1>4, <1>5, <1>7, <1>8, <1>9
     DEF OrderInv, SamplesOfChart, BlankBeforeFirst, Synced, AxesFit, Lossless
<1>16. StartsEarly'
  BY <1>4 DEF StartsEarly, Lossless
<1> QED
  BY <1>6, <1>8, <1>10, <1>11, <1>12, <1>13, <1>14, <1>15, <1>16
     DEF OrderInv, Orderly

-----------------------------------------------------------------------------
(* The first invariant holds.                                              *)

LEMMA InitOrder ==
  ASSUME Orderly, Init
  PROVE  OrderInv
<1>1. TrendInv
  BY InitInv DEF Init
<1>2. requests = EmptyBag /\ replies = EmptyBag
  BY DEF Init
<1>3. Calls = {} /\ Answers = {} /\ ~ResetSent
  BY <1>2, IdleIsQuiet DEF Idle
<1>4. IsABag(EmptyBag)
  BY DEF IsABag, EmptyBag, SetToBag
<1>5. OneCall
  BY <1>2, <1>3, <1>4 DEF OneCall, RequestsOK, RepliesOK
<1>6. ~IterUnderWay /\ ~IterAnswered /\ ~AxesAnswered /\ ~IterAsked
  BY <1>3 DEF IterUnderWay, IterAsked, IterAnswered, AxesAnswered
<1>7. /\ DOMAIN page = PageFields /\ page.loaded = FALSE
      /\ page.xMin = 0 /\ page.xMax = 0 /\ page.iteration = 1
      /\ page.segmentArr = << >> /\ page.resetFlag = FALSE
      /\ page.playFlag = FALSE /\ page.simplayFlag = FALSE
      /\ page.playLit = FALSE /\ page.forwardLit = FALSE /\ page.backLit = FALSE
      /\ page.icon = "play"
  BY DEF Init, PageFields
<1>8. PageShape /\ MessageShape
  <2>1. vizType \in VizTypes
    BY DEF Init
  <2>2. /\ page.loaded \in BOOLEAN /\ page.resetFlag \in BOOLEAN
        /\ page.playFlag \in BOOLEAN /\ page.simplayFlag \in BOOLEAN
    BY <1>7
  <2>3. /\ page.xMin \in {0, 1} /\ page.xMax \in Int /\ page.xMin <= page.xMax
        /\ page.iteration \in Int
    BY <1>7
  <2> QED
    BY <1>3, <1>7, <2>1, <2>2, <2>3 DEF PageShape, MessageShape
<1>9. DOMAIN segmentChain = {} /\ run = 0
  BY DEF Init
<1>10. BeforeLoad /\ RunsPast
  BY <1>3, <1>6, <1>7, <1>9 DEF BeforeLoad, RunsPast
<1>11. AxisAgrees /\ BlankAfterReset
  BY <1>3, <1>7 DEF AxisAgrees, BlankAfterReset
<1>12. ResetOvertakes /\ AskedIsCurrent
  BY <1>3, <1>6, <1>7 DEF ResetOvertakes, AskedIsCurrent
<1>13. PlaysInOrder /\ StartsAtXMin
  BY <1>7 DEF PlaysInOrder, StartsAtXMin
<1>14. SamplesOfChart /\ BlankBeforeFirst /\ StartsEarly
  BY <1>7 DEF StartsEarly, SamplesOfChart, BlankBeforeFirst, Synced
<1> QED
  BY <1>1, <1>5, <1>8, <1>10, <1>11, <1>12, <1>13, <1>14 DEF OrderInv

\* A step of the page alone, the way the second invariant wants to see it.
LEMMA UserCases ==
  ASSUME OrderInv, User
  PROVE  \/ Quiet \/ Ask \/ ClickRepeat
         \/ \E c \in Charts : Visualize(c)
BY ClickPlayCases, ClickPauseQuiet, ClickForwardQuiet, ClickBackQuiet,
   DragSeekbarQuiet, ClickSaveQuiet DEF User

LEMMA ServeCases ==
  ASSUME Serve
  PROVE  \E m \in DOMAIN requests :
           /\ ServeAxes(m) \/ ServeReset(m) \/ ServeIter(m)
           /\ requests' = requests (-) SetToBag({m})
           /\ UNCHANGED << page, view, run, vizType >>
BY DEF Serve, BagToSet

LEMMA NextOrder ==
  ASSUME OrderInv, [Next]_vars
  PROVE  OrderInv'
<1>1. CASE User
  BY <1>1, UserCases, QuietInv, AskInv, ClickRepeatInv, VisualizeInv
<1>2. CASE Serve
  BY <1>2, ServeCases, ServeAxesInv, ServeResetInv, ServeIterInv
<1>3. CASE Deliver
  BY <1>3, DeliverAxesInv, DeliverIterCases, DiscardInv, AcceptInv DEF Deliver
<1>4. CASE LoseRequest \/ LoseReply
  BY <1>4, LoseRequestInv, LoseReplyInv
<1>5. CASE UNCHANGED vars
  <2>1. /\ UNCHANGED << trendVars, net, page, segmentChain, run, vizType >>
    BY <1>5 DEF vars, view
  <2>2. TrendInv'
    BY <2>1, EngineKept DEF OrderInv
  <2>3. /\ OneCall' /\ Calls' = Calls /\ Answers' = Answers
        /\ ResetSent' <=> ResetSent
        /\ IterAsked' <=> IterAsked
        /\ IterAnswered' <=> IterAnswered
        /\ IterUnderWay' <=> IterUnderWay
        /\ AxesAnswered' <=> AxesAnswered
    BY <2>1, NetKept DEF OrderInv
  <2>4. /\ chart' = chart /\ card' = card /\ samples' = samples
        /\ firstIteration' = firstIteration /\ (Loaded' <=> Loaded)
        /\ Current' = Current
    BY <2>1 DEF trendVars, Loaded, Current
  <2>5. PageShape' /\ MessageShape' /\ BeforeLoad' /\ AxisAgrees'
    BY <2>1, <2>3, <2>4 DEF OrderInv, PageShape, MessageShape, BeforeLoad, AxisAgrees
  <2>6. BlankAfterReset' /\ ResetOvertakes' /\ AskedIsCurrent'
    BY <2>1, <2>3, <2>4 DEF OrderInv, BlankAfterReset, ResetOvertakes, AskedIsCurrent
  <2>7. PlaysInOrder' /\ StartsAtXMin' /\ RunsPast'
    BY <2>1, <2>3 DEF OrderInv, PlaysInOrder, StartsAtXMin, RunsPast
  <2>8. SamplesOfChart' /\ BlankBeforeFirst' /\ StartsEarly'
    BY <2>1, <2>3, <2>4
       DEF OrderInv, SamplesOfChart, BlankBeforeFirst, StartsEarly, Synced,
           AxesFit, Lossless
  <2> QED
    BY <2>2, <2>3, <2>5, <2>6, <2>7, <2>8 DEF OrderInv, Orderly
<1> QED
  BY <1>1, <1>2, <1>3, <1>4, <1>5 DEF Next

LEMMA OrderHolds == Orderly /\ Spec => []OrderInv
<1>1. Orderly /\ Init => OrderInv
  BY InitOrder
<1>2. OrderInv /\ [Next]_vars => OrderInv'
  BY NextOrder
<1> QED
  BY <1>1, <1>2, PTL DEF Spec

\* As long as the user waits for answers before asking and no call is lost,
\* the engine never reads k_Best outside its slots, whatever the axes, and it
\* writes past them at most what a reset has overtaken (trend.cc:460, 477).
THEOREM RequestsStayInRange == Orderly /\ Lossless /\ Spec => []RequestsInRange
<1>1. OrderInv /\ Lossless => RequestsInRange
  <2> SUFFICES ASSUME OrderInv, Lossless,
                      NEW m \in DOMAIN requests, m.op = "iter"
               PROVE  /\ m.iter \in 0 .. MaxCard
                      /\ m.iter = 0 => firstIteration
                      /\ m.iter \notin Slots /\ firstIteration => page.resetFlag
    BY DEF RequestsInRange, BagToSet
  <2>1. m \in Calls
    BY DEF Calls
  <2>2. m.iter \in 0 .. MaxCard
    BY <2>1, AskedIsInRange
  <2>3. firstIteration /\ ~page.resetFlag => m.iter \in Slots
    BY <2>1, FirstIsInSlots
  <2> QED
    BY <2>1, <2>2, <2>3 DEF OrderInv, AskedIsCurrent
<1>2. Lossless => Lossless'
  BY DEF Lossless
<1> QED
  BY OrderHolds, <1>1, <1>2, PTL DEF Spec

\* When every axis ends before the array does, the engine never writes past
\* it at all, whatever iterations are lost.
THEOREM FirstStoresFit == Orderly /\ AxesFit /\ Spec => []FirstStoreFits
<1>1. OrderInv /\ AxesFit => FirstStoreFits
  <2> SUFFICES ASSUME OrderInv, AxesFit, firstIteration,
                      NEW m \in DOMAIN requests, m.op = "iter"
               PROVE  m.iter \in Slots
    BY DEF FirstStoreFits, BagToSet
  <2>1. m \in Calls
    BY DEF Calls
  <2> QED
    BY <2>1, FirstIsInSlots
<1>2. AxesFit => AxesFit'
  BY DEF AxesFit
<1> QED
  BY OrderHolds, <1>1, <1>2, PTL DEF Spec

\* Bars and segments average records of the chart on the page only, whatever
\* iterations are lost if every axis ends before the array does, and on every
\* axis if none is lost: the reset of a new run is never overtaken by an
\* iteration of the old one that is drawn (trend.cc:213-245 clears what is
\* sampled).
THEOREM AveragesStayOfChart ==
  Orderly /\ (AxesFit \/ Lossless) /\ Spec => []AveragesAreOfThisChart
<1>1. OrderInv /\ (AxesFit \/ Lossless) => AveragesAreOfThisChart
  <2> SUFFICES ASSUME OrderInv, AxesFit \/ Lossless,
                      page.segmentArr # << >>, ~firstIteration,
                      NEW g \in 0..card - 1
               PROVE  samples[g] = {chart}
    BY DEF AveragesAreOfThisChart
  <2>1. page.loaded /\ ~ResetSent /\ ~page.resetFlag
    BY DEF OrderInv, BeforeLoad, BlankAfterReset
  <2>2. ~AxesAnswered
    BY DEF OrderInv, AxisAgrees, AxesAnswered
  <2> QED
    BY <2>1, <2>2 DEF OrderInv, SamplesOfChart, Synced
<1>2. AxesFit \/ Lossless => (AxesFit \/ Lossless)'
  BY DEF AxesFit, Lossless
<1> QED
  BY OrderHolds, <1>1, <1>2, PTL DEF Spec

-----------------------------------------------------------------------------
(* Splicing an answer into the page's segmentation.                        *)

\* One segment takes the place of another.
LEMMA SpliceOver ==
  ASSUME NEW arr \in Seq(Segment), NEW x \in Segment, NEW n \in 0..Len(arr) - 1
  PROVE  /\ Splice(arr, n, 1, x) \in Seq(Segment)
         /\ Len(Splice(arr, n, 1, x)) = Len(arr)
         /\ \A k \in 1..Len(arr) :
              Splice(arr, n, 1, x)[k] = IF k = n + 1 THEN x ELSE arr[k]
<1>1. Splice(arr, n, 1, x) = Over(arr, n, x)
  <2>1. Min({n, Len(arr)}) = n
    BY MinOfTwo
  <2> QED
    BY <2>1 DEF Splice, Over
<1> QED
  BY <1>1, OverElements

\* One segment is inserted.
LEMMA SpliceIn ==
  ASSUME NEW arr \in Seq(Segment), NEW x \in Segment, NEW n \in 0..Len(arr)
  PROVE  /\ Splice(arr, n, 0, x) \in Seq(Segment)
         /\ Len(Splice(arr, n, 0, x)) = Len(arr) + 1
         /\ \A k \in 1..n : Splice(arr, n, 0, x)[k] = arr[k]
         /\ Splice(arr, n, 0, x)[n + 1] = x
         /\ \A k \in n + 1..Len(arr) : Splice(arr, n, 0, x)[k + 1] = arr[k]
<1>1. Splice(arr, n, 0, x) = In(arr, n, x)
  <2>1. Min({n, Len(arr)}) = n
    BY MinOfTwo
  <2> QED
    BY <2>1 DEF Splice, In
<1>2. /\ In(arr, n, x) \in Seq(Segment)
      /\ Len(In(arr, n, x)) = Len(arr) + 1
      /\ \A k \in 1..n : In(arr, n, x)[k] = arr[k]
      /\ In(arr, n, x)[n + 1] = x
  BY InElements
<1>3. ASSUME NEW k \in n + 1..Len(arr)
      PROVE  In(arr, n, x)[k + 1] = arr[k]
  BY InElements
<1> QED
  BY <1>1, <1>2, <1>3

\* The first segment of all.
LEMMA SpliceFirst ==
  ASSUME NEW x
  PROVE  Splice(<< >>, 0, 1, x) = << x >>
<1>1. Min({0, Len(<< >>)}) = 0
  BY MinOfTwo
<1>2. Splice(<< >>, 0, 1, x)
        = SubSeq(<< >>, 1, 0) \o << x >> \o SubSeq(<< >>, 0 + 1 + 1, Len(<< >>))
  BY <1>1 DEF Splice
<1>3. SubSeq(<< >>, 1, 0) = << >> /\ SubSeq(<< >>, 0 + 1 + 1, Len(<< >>)) = << >>
  OBVIOUS
<1> QED
  BY <1>2, <1>3

\* The answer that names the two halves of segment s.
Halves(segs, s, cut) ==
  << [n |-> s - 1, seg |-> Seg(segs[s].b, cut - 1)],
     [n |-> s,     seg |-> Seg(cut, segs[s].e)] >>

\* Splicing the two halves in is what the engine did.
LEMMA SplicedIsCut ==
  ASSUME NEW arr, NEW s, NEW cut, CanCut(arr, s, cut)
  PROVE  Spliced(arr, Halves(arr, s, cut)) = Cut(arr, s, cut)
<1> DEFINE x == Seg(arr[s].b, cut - 1)
           y == Seg(cut, arr[s].e)
           h == Halves(arr, s, cut)
           one == Splice(arr, s - 1, 1, x)
           two == Splice(one, s, 0, y)
           new == Cut(arr, s, cut)
           len == Len(arr)
<1>1. arr \in Seq(Segment) /\ s \in 1..len /\ cut \in Int /\ len \in Nat
  BY DEF CanCut
<1>2. x \in Segment /\ y \in Segment
  BY <1>1, SegmentBounds DEF Seg, Segment
<1>3. Spliced(arr, h) = two
  <2>1. /\ Len(h) = 2 /\ h[1].n = s - 1 /\ h[1].seg = x
        /\ h[2].n = s /\ h[2].seg = y
    BY DEF Halves
  <2> HIDE DEF h, x, y
  <2> QED
    BY <2>1 DEF Spliced
<1>4. new = SplitSeg(arr, s, x, y)
  BY DEF Cut
<1> HIDE DEF x, y, h, new
<1>5. s - 1 \in 0..len - 1
  BY <1>1
<1>6. /\ one \in Seq(Segment) /\ Len(one) = len
      /\ \A k \in 1..len : one[k] = IF k = (s - 1) + 1 THEN x ELSE arr[k]
  BY <1>1, <1>2, <1>5, SpliceOver
<1> HIDE DEF one
<1>7. /\ two \in Seq(Segment) /\ Len(two) = len + 1
      /\ \A k \in 1..s : two[k] = one[k]
      /\ two[s + 1] = y
      /\ \A k \in s + 1..len : two[k + 1] = one[k]
  <2>1. s \in 0..Len(one)
    BY <1>1, <1>6
  <2>2. /\ two \in Seq(Segment) /\ Len(two) = Len(one) + 1
        /\ \A k \in 1..s : two[k] = one[k]
        /\ two[s + 1] = y
        /\ \A k \in s + 1..Len(one) : two[k + 1] = one[k]
    BY <1>2, <1>6, <2>1, SpliceIn
  <2> QED
    BY <1>6, <2>2
<1> HIDE DEF two
<1>8. /\ new \in Seq(Segment) /\ Len(new) = len + 1
  BY <1>1, <1>2, <1>4, SplitType
<1>9. ASSUME NEW k \in 1..len + 1
      PROVE  two[k] = new[k]
  <2>1. CASE k < s
    <3>1. k \in 1..s /\ k \in 1..len /\ k # (s - 1) + 1
      BY <1>1, <2>1
    <3>2. two[k] = arr[k]
      BY <1>6, <1>7, <3>1
    <3>3. new[k] = arr[k]
      BY <1>1, <1>4, <2>1 DEF SplitSeg
    <3> QED
      BY <3>2, <3>3
  <2>2. CASE k = s
    BY <1>1, <1>4, <1>6, <1>7, <2>2 DEF SplitSeg
  <2>3. CASE k = s + 1
    BY <1>1, <1>4, <1>7, <2>3 DEF SplitSeg
  <2>4. CASE k > s + 1
    <3>1. k - 1 \in s + 1..len /\ (k - 1) + 1 = k /\ k - 1 \in 1..len
          /\ k - 1 # (s - 1) + 1
      BY <1>1, <2>4
    <3>2. two[k] = arr[k - 1]
      BY <1>6, <1>7, <3>1
    <3>3. new[k] = arr[k - 1]
      BY <1>1, <1>4, <2>4 DEF SplitSeg
    <3> QED
      BY <3>2, <3>3
  <2> QED
    BY <1>1, <2>1, <2>2, <2>3, <2>4
<1>10. two = new
  BY <1>7, <1>8, <1>9
<1> QED
  BY <1>3, <1>10 DEF h, new

\* The answer of a first iteration, and the segmentation it makes.
First(x) == << [n |-> 0, seg |-> x] >>

LEMMA SplicedFirst ==
  ASSUME NEW x \in Segment, NEW arr, arr = << >> \/ arr = << x >>
  PROVE  Spliced(arr, First(x)) = << x >>
<1>1. Len(First(x)) = 1 /\ First(x)[1].n = 0 /\ First(x)[1].seg = x
  BY DEF First
<1>2. Spliced(arr, First(x)) = Splice(arr, 0, 1, x)
  BY <1>1 DEF Spliced
<1>3. CASE arr = << >>
  BY <1>2, <1>3, SpliceFirst
<1>4. CASE arr = << x >>
  <2>1. arr \in Seq(Segment) /\ Len(arr) = 1 /\ 0 \in 0..Len(arr) - 1
    BY <1>4
  <2>2. /\ Splice(arr, 0, 1, x) \in Seq(Segment)
        /\ Len(Splice(arr, 0, 1, x)) = 1
        /\ Splice(arr, 0, 1, x)[1] = x
    BY <2>1, SpliceOver
  <2> QED
    BY <1>2, <2>2
<1> QED
  BY <1>3, <1>4

\* On a blank page the first half takes the place of nothing.
LEMMA SplicedOnBlank ==
  ASSUME NEW x \in Segment, NEW s, NEW cut, CanCut(<< x >>, s, cut)
  PROVE  Spliced(<< >>, Halves(<< x >>, s, cut)) = Cut(<< x >>, s, cut)
<1> DEFINE h == Halves(<< x >>, s, cut)
<1>1. /\ Len(<< x >>) = 1 /\ << x >>[1] = x /\ s = 1 /\ cut \in Int
  BY DEF CanCut
<1>2. /\ Len(h) = 2 /\ h[1].n = 0 /\ h[2].n = 1
  BY <1>1 DEF Halves
<1>3. Spliced(<< >>, h) = Splice(Splice(<< >>, 0, 1, h[1].seg), 1, 0, h[2].seg)
  BY <1>2 DEF Spliced
<1>4. Spliced(<< x >>, h) = Splice(Splice(<< x >>, 0, 1, h[1].seg), 1, 0, h[2].seg)
  BY <1>2 DEF Spliced
<1>5. h[1].seg \in Segment
  BY <1>1, SegmentBounds DEF Halves, Seg, Segment
<1>6. Splice(<< x >>, 0, 1, h[1].seg) = << h[1].seg >>
  <2> DEFINE t == Splice(<< x >>, 0, 1, h[1].seg)
  <2>1. << x >> \in Seq(Segment) /\ 0 \in 0..Len(<< x >>) - 1
    BY <1>1
  <2>2. /\ t \in Seq(Segment) /\ Len(t) = Len(<< x >>)
        /\ \A k \in 1..Len(<< x >>) :
             t[k] = IF k = 0 + 1 THEN h[1].seg ELSE << x >>[k]
    BY <1>5, <2>1, SpliceOver
  <2> HIDE DEF t
  <2>3. t \in Seq(Segment) /\ Len(t) = 1 /\ t[1] = h[1].seg
    BY <1>1, <2>2
  <2>4. t = << h[1].seg >>
    BY <2>3
  <2> QED
    BY <2>4 DEF t
<1>7. Splice(<< >>, 0, 1, h[1].seg) = << h[1].seg >>
  BY SpliceFirst
<1> QED
  BY <1>3, <1>4, <1>6, <1>7, SplicedIsCut

-----------------------------------------------------------------------------
(* The second invariant: what the page shows, what the engine keeps, and   *)
(* what an answer under way says, as long as the charts are trendlines.    *)

Arr       == page.segmentArr
WholeAxis == << Seg(page.xMin, page.xMax) >>

\* What the next iteration splits: a blank page is one segment already.
Base == IF Arr = << >> THEN WholeAxis ELSE Arr

\* Page and engine are in the same run, and an iteration has been handled.
Settled == Synced /\ ~page.resetFlag /\ ~firstIteration

\* The page shows a segmentation of its axis, with no more segments than
\* iterations it has received.
ArrShape ==
  Arr # << >> =>
    /\ Arr \in Seq(Segment)
    /\ Covers(Arr, page.xMin, page.xMax)
    /\ Ordered(Arr)
    /\ Full(Arr, page.xMin, page.xMax)
    /\ Len(Arr) <= page.iteration - page.xMin

\* What it has kept of this run leads up to what it shows.
Grows == \A i, j \in Current :
  i <= j => Starts(segmentChain[i].segs) \subseteq Starts(segmentChain[j].segs)
Nested == \A i \in Current : i + 1 \in Current =>
  RefinesByOne(segmentChain[i + 1].segs, segmentChain[i].segs)
ChainShape ==
  /\ \A i \in Current :
       /\ i \in Int /\ i < page.iteration
       /\ Starts(segmentChain[i].segs) \subseteq Starts(Arr)
  /\ Arr = << >> <=> Current = {}
  /\ Current # {} => /\ page.iteration - 1 \in Current
                     /\ Arr = segmentChain[page.iteration - 1].segs
  /\ Grows
  /\ Lossless => Nested

\* An engine that was asked for at most the first iteration has split
\* nothing, whatever charts it has had before.
NoSplit == splitSeg = -1 /\ firstNew = Seg(0, card - 1)
Unsplit(j) == \/ kBest[j] = << >>
              \/ ~firstIteration /\ j >= page.xMin /\ kBest[j] = Whole(card)
EngineFresh ==
  Synced /\ (firstIteration \/ page.iteration <= page.xMin) =>
    /\ firstIteration \/ NoSplit
    /\ \A j \in 0..card - 1 : Unsplit(j)

\* The slot the next iteration reads is what the page shows, or it is empty
\* and so is the page, or nearly.
PrevSlot ==
  Settled /\ page.iteration - 1 \in 0..card - 1 =>
    \/ /\ kBest[page.iteration - 1] = << >> /\ NoSplit
       /\ Arr = << >> \/ Arr = WholeAxis
    \/ /\ kBest[page.iteration - 1] # << >>
       /\ Shift(kBest[page.iteration - 1], page.xMin) = Base

\* When nothing is lost, every slot of the run is what the page has kept.
SlotsKept ==
  Lossless /\ Settled =>
    /\ ~IterAnswered => Arr # << >>
    /\ Arr # << >> /\ page.iteration - 1 \in 0..card - 1 =>
         kBest[page.iteration - 1] # << >>
    /\ \A m \in Answers : m.op = "iter" => (Len(m.sl) = 1 <=> Arr = << >>)
    /\ IterAnswered /\ Arr = << >> /\ page.iteration \in 0..card - 1 =>
         kBest[page.iteration] = Whole(card)
    /\ \A i \in Current : i \in 0..card - 1 =>
         segmentChain[i].segs = Shift(kBest[i], page.xMin)

\* An answer is the whole axis, or the two halves of a segment shown.
WholeAnswer(m) ==
  /\ m.sl = First(Seg(page.xMin, page.xMax))
  /\ Arr = << >> \/ Arr = WholeAxis
  /\ page.iteration \in 0..card - 1 =>
       \/ kBest[page.iteration] = Whole(card)
       \/ kBest[page.iteration] = << >> /\ NoSplit
SplitAnswer(m, s, cut) ==
  /\ CanCut(Base, s, cut)
  /\ m.sl = Halves(Base, s, cut)
  /\ page.iteration \in 0..card - 1 =>
       Shift(kBest[page.iteration], page.xMin) = Cut(Base, s, cut)
AnswerFits ==
  \A m \in Answers : m.op = "iter" /\ ~page.resetFlag =>
    \/ WholeAnswer(m)
    \/ page.iteration > page.xMin /\ \E s, cut : SplitAnswer(m, s, cut)

ShapeInv ==
  /\ ArrShape
  /\ ChainShape
  /\ EngineFresh
  /\ PrevSlot
  /\ SlotsKept
  /\ AnswerFits

-----------------------------------------------------------------------------
(* Steps that move neither segmentation keep the second invariant.         *)

LEMMA ShownPastXMin ==
  ASSUME OrderInv, ShapeInv, Arr # << >>
  PROVE  page.iteration > page.xMin
<1>1. Len(Arr) \in Nat /\ Len(Arr) > 0 /\ Len(Arr) <= page.iteration - page.xMin
  BY DEF ShapeInv, ArrShape, Covers
<1> QED
  BY <1>1 DEF OrderInv, PageShape

LEMMA ShiftWhole ==
  ASSUME NEW n \in Int, NEW x \in Int
  PROVE  /\ Shift(Whole(n), x) = << Seg(x, x + n - 1) >>
         /\ Whole(n) # << >>
<1>1. /\ Whole(n) \in Seq(Segment) /\ Len(Whole(n)) = 1
      /\ Whole(n)[1].b = 0 /\ Whole(n)[1].e = n - 1
  BY DEF Whole, Seg, Segment
<1>2. /\ Shift(Whole(n), x) \in Seq(Segment) /\ Len(Shift(Whole(n), x)) = 1
      /\ Shift(Whole(n), x)[1].b = x /\ Shift(Whole(n), x)[1].e = x + n - 1
  BY <1>1, ShiftElements
<1> DEFINE one == << Seg(x, x + n - 1) >>
<1>3. one \in Seq(Segment) /\ Len(one) = 1 /\ one[1].b = x /\ one[1].e = x + n - 1
  BY DEF Seg, Segment
<1> HIDE DEF one
<1>4. Shift(Whole(n), x) = one
  BY <1>2, <1>3, SameSegments
<1>5. Whole(n) # << >>
  BY <1>1
<1> QED
  BY <1>4, <1>5 DEF one

\* In particular, a slot with the whole chart is the whole axis of the page.
LEMMA WholeIsAxis ==
  ASSUME OrderInv, Synced
  PROVE  Shift(Whole(card), page.xMin) = WholeAxis /\ Whole(card) # << >>
<1>1. /\ page.xMax = page.xMin + card - 1 /\ page.xMin \in Int /\ card \in Int
  BY ChartFacts DEF OrderInv, AxisAgrees, PageShape, Synced
<1> QED
  BY <1>1, ShiftWhole DEF WholeAxis

Still ==
  /\ UNCHANGED << trendVars, segmentChain, run, vizType >>
  /\ SameChart(page', page) /\ page'.segmentArr = page.segmentArr
  /\ Answers' \subseteq Answers
  /\ Lossless => Answers' = Answers
  /\ AxesAnswered' <=> AxesAnswered
  /\ ResetSent' <=> ResetSent
  /\ \/ page'.resetFlag = page.resetFlag
     \/ page'.resetFlag = FALSE /\ Idle
  /\ \/ page'.iteration = page.iteration
     \/ /\ page.iteration <= page.xMin /\ page'.iteration = page.iteration + 1
        /\ page'.resetFlag \/ ~IterAnswered

LEMMA QuietIsStill ==
  ASSUME OrderInv, Quiet
  PROVE  Still
<1>1. UNCHANGED net /\ UNCHANGED << trendVars, segmentChain, run, vizType >>
  BY DEF Quiet
<1>2. /\ Answers' = Answers /\ (ResetSent' <=> ResetSent)
      /\ AxesAnswered' <=> AxesAnswered
  BY <1>1, NetKept DEF OrderInv
<1>3. page.iteration < page.xMin => page.resetFlag \/ ~IterAnswered
  BY DEF OrderInv, AskedIsCurrent, IterUnderWay, PageShape
<1>4. Idle => ~IterAnswered
  BY IdleIsQuiet DEF IterAnswered
<1>5. page.resetFlag \in BOOLEAN /\ page.iteration \in Int /\ page.xMin \in Int
  BY DEF OrderInv, PageShape
<1>6. /\ \/ page'.resetFlag = page.resetFlag
         \/ page'.resetFlag = FALSE /\ Idle
      /\ \/ page'.iteration = page.iteration
         \/ page.iteration < page.xMin /\ page'.iteration = page.iteration + 1
  BY DEF Quiet
<1>7. /\ \/ page'.iteration = page.iteration
         \/ /\ page.iteration <= page.xMin /\ page'.iteration = page.iteration + 1
            /\ page'.resetFlag \/ ~IterAnswered
  BY <1>3, <1>4, <1>5, <1>6
<1> QED
  BY <1>1, <1>2, <1>6, <1>7 DEF Still, Quiet

LEMMA AskIsStill ==
  ASSUME OrderInv, Ask
  PROVE  Still
<1>1. Calls = {} /\ Answers = {} /\ ~ResetSent
  BY IdleIsQuiet DEF Ask
<1>2. IterRequest(page'.iteration).op # "reset"
  BY DEF IterRequest
<1>3. ResetSent' <=> ResetSent
  BY <1>1, <1>2, CallSent DEF OrderInv, OneCall, Ask
<1>4. Answers' = Answers
  BY DEF Ask, Answers
<1>5. (AxesAnswered' <=> AxesAnswered) /\ ~IterAnswered
  BY <1>1, <1>4 DEF AxesAnswered, IterAnswered
<1> QED
  BY <1>3, <1>4, <1>5 DEF Still, Ask

LEMMA VisualizeIsStill ==
  ASSUME OrderInv, NEW c \in Charts, Visualize(c)
  PROVE  Still
<1>1. Idle
  BY DEF Visualize, CanAsk, OrderInv, Orderly
<1>2. Calls = {} /\ Answers = {} /\ ~ResetSent
  BY <1>1, IdleIsQuiet
<1>3. AxesRequest(c).op # "reset"
  BY DEF AxesRequest
<1>4. ResetSent' <=> ResetSent
  BY <1>2, <1>3, CallSent DEF OrderInv, OneCall, Visualize
<1>5. Answers' = Answers
  BY DEF Visualize, Answers
<1>6. AxesAnswered' <=> AxesAnswered
  BY <1>5 DEF AxesAnswered
<1>7. SameChart(page', page)
  BY DEF Visualize, SameChart, OrderInv, PageShape
<1> QED
  BY <1>4, <1>5, <1>6, <1>7 DEF Still, Visualize, view

LEMMA LossIsStill ==
  ASSUME OrderInv, LoseRequest \/ LoseReply
  PROVE  Still
<1>1. /\ UNCHANGED << trendVars, segmentChain, run, vizType >>
      /\ page' = page /\ SameChart(page', page)
  BY DEF LoseRequest, LoseReply, view, SameChart, OrderInv, PageShape
<1>2. CASE LoseRequest
  <2>1. PICK m \in DOMAIN requests : /\ m.op \in LoseRequests
                                     /\ requests' = requests (-) SetToBag({m})
    BY <1>2 DEF LoseRequest, BagToSet
  <2>2. m.op # "reset"
    BY <2>1 DEF OrderInv, Orderly
  <2>3. ResetSent' <=> ResetSent
    BY <2>1, <2>2, CallTaken DEF OrderInv, OneCall
  <2>4. Answers' = Answers
    BY <1>2 DEF LoseRequest, Answers
  <2>5. AxesAnswered' <=> AxesAnswered
    BY <2>4 DEF AxesAnswered
  <2> QED
    BY <1>1, <2>3, <2>4, <2>5 DEF Still
<1>3. CASE LoseReply
  <2>1. PICK m \in DOMAIN replies : /\ m.op \in LoseReplies
                                    /\ replies' = replies (-) SetToBag({m})
    BY <1>3 DEF LoseReply, BagToSet
  <2>2. Answers = {m} /\ Answers' = {}
    BY <2>1, AnswerTaken DEF OrderInv, OneCall
  <2>3. m.op # "axes" /\ m.op \in {"axes", "iter"}
    BY <2>1, <2>2 DEF OrderInv, Orderly, MessageShape
  <2>4. ~Lossless
    BY <2>1, <2>3 DEF Lossless
  <2>5. ~AxesAnswered /\ ~AxesAnswered'
    BY <2>2, <2>3 DEF AxesAnswered
  <2>6. ResetSent' <=> ResetSent
    BY <1>3 DEF LoseReply, ResetSent
  <2> QED
    BY <1>1, <2>2, <2>4, <2>5, <2>6 DEF Still
<1> QED
  BY <1>2, <1>3

LEMMA StillShape ==
  ASSUME OrderInv, ShapeInv, OrderInv', Still
  PROVE  ShapeInv'
<1> USE DEF Arr
<1>1. /\ chart' = chart /\ card' = card /\ firstIteration' = firstIteration
      /\ kBest' = kBest /\ splitSeg' = splitSeg /\ firstNew' = firstNew
  BY DEF Still, trendVars
<1>2. /\ segmentChain' = segmentChain /\ run' = run /\ Current' = Current
  BY DEF Still, Current
<1>3. /\ page'.loaded = page.loaded
      /\ page'.xMin = page.xMin /\ page'.xMax = page.xMax
      /\ page'.segmentArr = page.segmentArr
  BY DEF Still, SameChart
<1>4. (Synced' <=> Synced) /\ WholeAxis' = WholeAxis /\ Base' = Base
  BY <1>3 DEF Still, Synced, WholeAxis, Base
<1>5. Lossless' <=> Lossless
  BY DEF Lossless
<1>6. /\ page.iteration \in Int /\ page.xMin \in Int /\ page'.iteration \in Int
      /\ page.resetFlag \in BOOLEAN /\ page'.resetFlag \in BOOLEAN
  BY DEF OrderInv, PageShape
<1>7. \/ page'.iteration = page.iteration
      \/ /\ page.iteration <= page.xMin /\ page'.iteration = page.iteration + 1
         /\ page'.resetFlag \/ ~IterAnswered
  BY DEF Still
<1>8. \/ page'.resetFlag = page.resetFlag
      \/ page'.resetFlag = FALSE /\ Idle
  BY DEF Still
<1>9. Arr # << >> => page.iteration > page.xMin /\ page'.iteration = page.iteration
  BY <1>6, <1>7, ShownPastXMin
<1>10. ArrShape'
  BY <1>3, <1>9 DEF ShapeInv, ArrShape
<1>11. ChainShape'
  <2>1. Grows' /\ (Lossless' => Nested')
    BY <1>2, <1>5 DEF ShapeInv, ChainShape, Grows, Nested
  <2>2. (Arr = << >> <=> Current = {})' /\ (Arr = << >> <=> Current = {})
    BY <1>2, <1>3 DEF ShapeInv, ChainShape
  <2>3. Current # {} => page'.iteration = page.iteration
    BY <1>9, <2>2
  <2> QED
    BY <1>2, <1>3, <2>1, <2>2, <2>3 DEF ShapeInv, ChainShape
<1>12. EngineFresh'
  <2>1. page'.iteration <= page.xMin => page.iteration <= page.xMin
    BY <1>6, <1>7
  <2> QED
    BY <1>1, <1>3, <1>4, <2>1 DEF ShapeInv, EngineFresh, NoSplit, Unsplit
<1>13. PrevSlot'
  <2> SUFFICES ASSUME Synced, ~firstIteration, ~page'.resetFlag,
                      page'.iteration - 1 \in 0..card - 1
               PROVE  \/ /\ kBest[page'.iteration - 1] = << >> /\ NoSplit
                         /\ Arr = << >> \/ Arr = WholeAxis
                      \/ /\ kBest[page'.iteration - 1] # << >>
                         /\ Shift(kBest[page'.iteration - 1], page.xMin) = Base
    BY <1>1, <1>3, <1>4 DEF PrevSlot, NoSplit, Settled
  <2>1. CASE page.iteration <= page.xMin
    <3>1. Arr = << >> /\ Base = WholeAxis
      BY <1>6, <1>9, <2>1 DEF Base
    <3>2. NoSplit /\ Unsplit(page'.iteration - 1)
      BY <2>1 DEF ShapeInv, EngineFresh
    <3> QED
      BY <3>1, <3>2, WholeIsAxis DEF Unsplit
  <2>2. CASE page.iteration > page.xMin
    <3>1. page'.iteration = page.iteration
      BY <1>6, <1>7, <2>2
    <3>2. ~page.resetFlag
      BY <1>6, <2>2 DEF OrderInv, BlankAfterReset
    <3> QED
      BY <3>1, <3>2 DEF ShapeInv, PrevSlot, Settled
  <2> QED
    BY <1>6, <2>1, <2>2
<1>14. SlotsKept'
  <2> SUFFICES ASSUME Lossless, Synced, ~firstIteration, ~page'.resetFlag
               PROVE  SlotsKept'
    BY <1>1, <1>4, <1>5 DEF SlotsKept, Settled
  <2>1. Answers' = Answers /\ (IterAnswered' <=> IterAnswered)
    BY DEF Still, IterAnswered
  <2>2. ~page.resetFlag
    BY <1>8, IdleIsQuiet
       DEF OrderInv, ResetOvertakes, IterUnderWay, IterAsked, IterAnswered
  <2>3. ~IterAnswered => page.iteration > page.xMin
    BY <2>2 DEF OrderInv, BlankBeforeFirst
  <2>4. page'.iteration = page.iteration
    BY <1>6, <1>7, <2>3
  <2>5. Settled
    BY <2>2 DEF Settled
  <2> QED
    BY <1>1, <1>2, <1>3, <2>1, <2>4, <2>5 DEF ShapeInv, SlotsKept
<1>15. AnswerFits'
  <2> SUFFICES ASSUME NEW m \in Answers', m.op = "iter", ~page'.resetFlag
               PROVE  (\/ WholeAnswer(m)
                       \/ page.iteration > page.xMin
                            /\ \E s, cut : SplitAnswer(m, s, cut))'
    BY DEF AnswerFits
  <2>1. m \in Answers /\ IterAnswered
    BY DEF Still, IterAnswered
  <2>2. ~page.resetFlag
    BY <1>8, <2>1, IdleIsQuiet
  <2>3. page'.iteration = page.iteration
    BY <1>7, <2>1
  <2>4. (WholeAnswer(m))' <=> WholeAnswer(m)
    BY <1>1, <1>3, <1>4, <2>3 DEF WholeAnswer, NoSplit
  <2>5. \A s, cut : (SplitAnswer(m, s, cut))' <=> SplitAnswer(m, s, cut)
    BY <1>1, <1>3, <1>4, <2>3 DEF SplitAnswer
  <2>6. \/ WholeAnswer(m)
        \/ page.iteration > page.xMin /\ \E s, cut : SplitAnswer(m, s, cut)
    BY <2>1, <2>2 DEF ShapeInv, AnswerFits
  <2> QED
    BY <1>3, <2>3, <2>4, <2>5, <2>6
<1> QED
  BY <1>10, <1>11, <1>12, <1>13, <1>14, <1>15 DEF ShapeInv

\* A blank page is of the right shape, and it is blank while a reset is sent.
LEMMA BlankPage ==
  ASSUME Arr = << >>, Current = {}
  PROVE  ArrShape /\ ChainShape
BY DEF ArrShape, ChainShape, Grows, Nested

LEMMA ResetShape ==
  ASSUME OrderInv, ResetSent
  PROVE  ShapeInv
<1>1. Arr = << >> /\ Current = {} /\ ~Synced
  BY DEF OrderInv, BlankAfterReset, Synced, Arr
<1>2. ArrShape /\ ChainShape
  BY <1>1, BlankPage
<1>3. EngineFresh /\ PrevSlot /\ SlotsKept
  BY <1>1 DEF EngineFresh, PrevSlot, SlotsKept, Settled
<1>4. AnswerFits
  BY DEF AnswerFits, OrderInv, ResetOvertakes, IterUnderWay, IterAnswered
<1> QED
  BY <1>2, <1>3, <1>4 DEF ShapeInv

LEMMA InitShape ==
  ASSUME Init
  PROVE  ShapeInv
<1>1. ~page.loaded /\ Arr = << >> /\ DOMAIN segmentChain = {} /\ Answers = {}
  BY DEF Init, Arr, Answers, EmptyBag, SetToBag
<1>2. ArrShape /\ ChainShape
  BY <1>1, BlankPage DEF Current
<1>3. EngineFresh /\ PrevSlot /\ SlotsKept
  BY <1>1 DEF EngineFresh, PrevSlot, SlotsKept, Settled, Synced
<1>4. AnswerFits
  BY <1>1 DEF AnswerFits
<1> QED
  BY <1>2, <1>3, <1>4 DEF ShapeInv

-----------------------------------------------------------------------------
(* Every handler of the server keeps the second invariant.                 *)

LEMMA PageKept ==
  ASSUME ShapeInv, UNCHANGED << page, view, run >>
  PROVE  /\ ArrShape' /\ ChainShape' /\ Arr' = Arr /\ Current' = Current
         /\ WholeAxis' = WholeAxis /\ Base' = Base
<1>1. page' = page /\ segmentChain' = segmentChain /\ run' = run /\ Arr' = Arr
  BY DEF view, Arr
<1>2. Current' = Current /\ WholeAxis' = WholeAxis /\ Base' = Base
  BY <1>1 DEF Current, WholeAxis, Base
<1>3. ArrShape'
  BY <1>1 DEF ShapeInv, ArrShape
<1>4. ChainShape'
  BY <1>1, <1>2 DEF ShapeInv, ChainShape, Grows, Nested, Lossless
<1> QED
  BY <1>1, <1>2, <1>3, <1>4

LEMMA ServeAxesShape ==
  ASSUME OrderInv, ShapeInv, OrderInv',
         NEW m \in DOMAIN requests, ServeAxes(m),
         requests' = requests (-) SetToBag({m}),
         UNCHANGED << page, view, run, vizType >>
  PROVE  ShapeInv'
<1> DEFINE r == [op |-> "axes", xMin |-> XMinOf[m.chart],
                 xMax |-> XMinOf[m.chart] + CardOf[m.chart] - 1]
<1>1. m.op = "axes" /\ replies' = replies (+) SetToBag({r})
  BY DEF ServeAxes
<1>2. Calls = {m}
  BY <1>1, CallTaken DEF OrderInv, OneCall
<1>3. Answers = {}
  BY <1>2 DEF OrderInv, OneCall
<1>4. Answers' = {r}
  BY <1>1, <1>3, AnswerSent DEF OrderInv, OneCall
<1>5. AxesAnswered' /\ \A n \in Answers' : n.op = "axes"
  BY <1>4 DEF AxesAnswered
<1>6. EngineFresh' /\ PrevSlot' /\ SlotsKept'
  BY <1>5 DEF EngineFresh, PrevSlot, SlotsKept, Settled, Synced
<1>7. AnswerFits'
  BY <1>5 DEF AnswerFits
<1> QED
  BY <1>6, <1>7, PageKept DEF ShapeInv

LEMMA ServeResetShape ==
  ASSUME OrderInv, ShapeInv, OrderInv',
         NEW m \in DOMAIN requests, ServeReset(m),
         requests' = requests (-) SetToBag({m}),
         UNCHANGED << page, view, run, vizType >>
  PROVE  ShapeInv'
<1>1. ResetSent
  BY DEF ServeReset, ResetSent
<1>2. /\ firstIteration' = TRUE /\ card' = card
      /\ kBest' = [i \in Slots |-> IF i < card THEN << >> ELSE kBest[i]]
      /\ replies' = replies /\ Answers' = Answers /\ page' = page
  BY DEF ServeReset, Reset, Answers
<1>3. EngineFresh'
  <2>1. \A j \in 0..card - 1 : j \in Slots /\ j < card
    BY ChartFacts DEF OrderInv, Slots
  <2>2. \A j \in 0..card - 1 : kBest'[j] = << >>
    BY <1>2, <2>1
  <2> QED
    BY <1>2, <2>2 DEF EngineFresh, Unsplit
<1>4. PrevSlot' /\ SlotsKept'
  BY <1>2 DEF PrevSlot, SlotsKept, Settled
<1>5. AnswerFits'
  BY <1>1, <1>2 DEF AnswerFits, OrderInv, ResetOvertakes, IterUnderWay, IterAnswered
<1> QED
  BY <1>3, <1>4, <1>5, PageKept DEF ShapeInv

\* The answer `a` of iteration i, and when the server gives it.
Answering(i, a) ==
  /\ GenHisto(i)
  /\ page.loaded /\ Answers = {} /\ ~AxesAnswered
  /\ page.xMin \in 0..1 /\ page.xMin = XMin
  /\ card \in 1..MaxCard /\ page.xMax = page.xMin + card - 1
  /\ i \in 0..MaxCard /\ page.xMin <= i /\ i <= page.xMax
  /\ page.iteration \in Int
  /\ \/ page.resetFlag = TRUE /\ (firstIteration \/ ResetSent)
     \/ page.resetFlag = FALSE /\ ~ResetSent /\ i = page.iteration
  /\ a.op = "iter" /\ a.sl = PackSegments
  /\ Answers' = {a} /\ IterAnswered' /\ ~AxesAnswered'
  /\ ResetSent' <=> ResetSent
  /\ page' = page /\ segmentChain' = segmentChain /\ run' = run
  /\ card' = card /\ firstIteration' = FALSE

LEMMA ServeIterAnswers ==
  ASSUME OrderInv, vizType = 1,
         NEW m \in DOMAIN requests, ServeIter(m),
         requests' = requests (-) SetToBag({m}),
         UNCHANGED << page, view, run, vizType >>
  PROVE  \E a : Answering(m.iter, a)
<1> DEFINE a == [op |-> "iter",
                 sl |-> IF vizType = 1 THEN PackSegments ELSE << >>,
                 gl |-> IF vizType = 3 THEN PackBars ELSE << >>,
                 xMin |-> XMin, xMax |-> XMin + card - 1]
<1>1. /\ m.op = "iter" /\ replies' = replies (+) SetToBag({a})
      /\ GenHisto(m.iter)
  BY DEF ServeIter
<1>2. a.op = "iter" /\ a.sl = PackSegments
  OBVIOUS
<1> HIDE DEF a
<1>3. Calls = {m} /\ (ResetSent' <=> ResetSent)
  BY <1>1, CallTaken DEF OrderInv, OneCall
<1>4. /\ page.loaded /\ Loaded /\ Answers = {}
      /\ page.xMin = XMinOf[chart] /\ page.xMax = page.xMin + card - 1
      /\ card \in 1..MaxCard /\ m.iter \in 0..MaxCard
      /\ page.xMin <= m.iter /\ m.iter <= page.xMax
  BY <1>1, <1>3, AskedIsInRange
<1>5. Answers' = {a}
  BY <1>1, <1>4, AnswerSent DEF OrderInv, OneCall
<1>6. IterAsked /\ ~AxesAnswered /\ IterAnswered' /\ ~AxesAnswered'
  BY <1>1, <1>2, <1>3, <1>4, <1>5 DEF IterAsked, IterAnswered, AxesAnswered
<1>7. page.resetFlag \in BOOLEAN /\ page.xMin \in 0..1 /\ page.iteration \in Int
  BY DEF OrderInv, PageShape
<1>8. /\ page.resetFlag => firstIteration \/ ResetSent
      /\ ~page.resetFlag => ~ResetSent /\ m.iter = page.iteration
  BY <1>1, <1>3, <1>6 DEF OrderInv, ResetOvertakes, AskedIsCurrent, IterUnderWay
<1>9. card' = card /\ firstIteration' = FALSE
  <2>1. firstIteration \in BOOLEAN
    BY DEF OrderInv, TrendInv, TrendTypeOK
  <2> QED
    BY <1>1, <2>1 DEF GenHisto, GenHistoFirst, GenHistoNext
<1>10. page' = page /\ segmentChain' = segmentChain /\ run' = run
  BY DEF view
<1>11. XMin = page.xMin
  BY <1>4 DEF XMin
<1>12. Answering(m.iter, a)
  BY <1>1, <1>2, <1>3, <1>4, <1>5, <1>6, <1>7, <1>8, <1>9, <1>10, <1>11
     DEF Answering
<1> QED
  BY <1>12

\* What is left to show when the server has answered.
LEMMA AnsweringKept ==
  ASSUME OrderInv, ShapeInv, NEW i, NEW a, Answering(i, a)
  PROVE  /\ ArrShape' /\ ChainShape' /\ Arr' = Arr /\ Current' = Current
         /\ WholeAxis' = WholeAxis /\ Base' = Base
         /\ Synced' <=> ~ResetSent
         /\ Synced <=> ~ResetSent
         /\ Settled' <=> ~page.resetFlag
         /\ card \in Int /\ i \in Int
         /\ page.iteration \in Int /\ page.xMin \in Int
<1>1. page' = page /\ segmentChain' = segmentChain /\ run' = run /\ Arr' = Arr
  BY DEF Answering, Arr
<1>2. Current' = Current /\ WholeAxis' = WholeAxis /\ Base' = Base
  BY <1>1 DEF Current, WholeAxis, Base
<1>3. ArrShape'
  BY <1>1 DEF ShapeInv, ArrShape
<1>4. ChainShape'
  BY <1>1, <1>2 DEF ShapeInv, ChainShape, Grows, Nested, Lossless
<1>5. (Synced' <=> ~ResetSent) /\ (Synced <=> ~ResetSent)
  BY DEF Answering, Synced
<1>6. Settled' <=> ~page.resetFlag
  BY <1>5 DEF Answering, Settled
<1>7. /\ card \in Int /\ i \in Int /\ page.iteration \in Int
      /\ page.xMin \in Int
  BY MaxCardAssumption DEF Answering, Slots
<1> QED
  BY <1>1, <1>2, <1>3, <1>4, <1>5, <1>6, <1>7

\* The answer of an engine that has split nothing.
LEMMA PackWhole ==
  ASSUME NEW i, NEW a, Answering(i, a), NoSplit'
  PROVE  a.sl = First(Seg(page.xMin, page.xMax))
<1>1. splitSeg' = -1 /\ firstNew' = Seg(0, card - 1)
  BY DEF NoSplit, Answering
<1>2. a.sl = << Packed(0, Seg(0, card - 1)) >>
  BY <1>1 DEF Answering, PackSegments
<1>3. /\ Seg(0, card - 1).b = 0 /\ Seg(0, card - 1).e = card - 1
      /\ card \in 1..MaxCard /\ MaxCard \in Nat
      /\ page.xMin = XMin /\ page.xMin \in 0..1 /\ page.xMax = page.xMin + card - 1
  BY MaxCardAssumption DEF Answering, Seg
<1>4. Value(0) = page.xMin /\ Value(card - 1) = page.xMax
  BY <1>3 DEF Value
<1>5. Packed(0, Seg(0, card - 1)) = [n |-> 0, seg |-> Seg(page.xMin, page.xMax)]
  BY <1>3, <1>4 DEF Packed
<1> QED
  BY <1>2, <1>5 DEF First

LEMMA AnswerFirst ==
  ASSUME OrderInv, ShapeInv, NEW i, NEW a, Answering(i, a), GenHistoFirst(i)
  PROVE  ShapeInv'
<1>1. /\ firstIteration
      /\ kBest' = IF i \in Slots THEN [kBest EXCEPT ![i] = Whole(card)] ELSE kBest
      /\ splitSeg' = -1 /\ firstNew' = Seg(0, card - 1)
  BY DEF GenHistoFirst, LastGroup
<1>2. /\ page' = page /\ card' = card /\ firstIteration' = FALSE
      /\ page.loaded /\ ~AxesAnswered /\ Answers' = {a} /\ a.op = "iter"
      /\ page.xMin <= i /\ card \in 1..MaxCard /\ MaxCard \in Nat
  BY MaxCardAssumption DEF Answering
<1>3. /\ ArrShape' /\ ChainShape' /\ Arr' = Arr /\ Current' = Current
      /\ WholeAxis' = WholeAxis /\ Base' = Base
      /\ Synced' <=> ~ResetSent
      /\ Synced <=> ~ResetSent
      /\ Settled' <=> ~page.resetFlag
      /\ card \in Int /\ i \in Int
      /\ page.iteration \in Int /\ page.xMin \in Int
  BY AnsweringKept
<1>4. Arr = << >>
  BY <1>1, <1>2 DEF OrderInv, BlankBeforeFirst, Arr
<1>5. ~ResetSent => \A j \in 0..card - 1 : kBest[j] = << >>
  BY <1>1, <1>3 DEF ShapeInv, EngineFresh, Unsplit
<1>6. \A j \in 0..card - 1 : kBest'[j] = IF j = i THEN Whole(card) ELSE kBest[j]
  <2>1. kBest \in [Slots -> Seq(Bar)]
    BY DEF OrderInv, TrendInv, TrendTypeOK, Bar
  <2>2. \A j \in 0..card - 1 : j \in Slots
    BY <1>2 DEF Slots
  <2> QED
    BY <1>1, <2>1, <2>2
<1>7. NoSplit'
  BY <1>1, <1>2 DEF NoSplit
<1>8. EngineFresh'
  <2> SUFFICES ASSUME ~ResetSent, NEW j \in 0..card - 1
               PROVE  (Unsplit(j))'
    BY <1>2, <1>3, <1>7 DEF EngineFresh
  <2> QED
    BY <1>2, <1>5, <1>6 DEF Unsplit
<1>9. ~page.resetFlag => i = page.iteration /\ ~ResetSent
  BY DEF Answering
<1>10. PrevSlot'
  <2> SUFFICES ASSUME ~page.resetFlag, page.iteration - 1 \in 0..card - 1
               PROVE  kBest'[page.iteration - 1] = << >>
    BY <1>2, <1>3, <1>4, <1>7 DEF PrevSlot
  <2> QED
    BY <1>3, <1>5, <1>6, <1>9
<1>11. a.sl = First(Seg(page.xMin, page.xMax)) /\ Len(a.sl) = 1
  <2>1. a.sl = First(Seg(page.xMin, page.xMax))
    BY <1>7, PackWhole
  <2> QED
    BY <2>1 DEF First
<1>12. SlotsKept'
  <2> SUFFICES ASSUME ~page.resetFlag
               PROVE  SlotsKept'
    BY <1>3 DEF SlotsKept
  <2>1. Current = {}
    BY <1>4 DEF ShapeInv, ChainShape
  <2>2. page.iteration \in 0..card - 1 => kBest'[page.iteration] = Whole(card)
    BY <1>6, <1>9
  <2>3. IterAnswered'
    BY DEF Answering
  <2> QED
    BY <1>2, <1>3, <1>4, <1>11, <2>1, <2>2, <2>3 DEF SlotsKept
<1>13. AnswerFits'
  <2> SUFFICES ASSUME ~page.resetFlag
               PROVE  (WholeAnswer(a))'
    BY <1>2 DEF AnswerFits
  <2>1. page.iteration \in 0..card - 1 => kBest'[page.iteration] = Whole(card)
    BY <1>6, <1>9
  <2> QED
    BY <1>2, <1>3, <1>4, <1>11, <2>1 DEF WholeAnswer
<1> QED
  BY <1>3, <1>8, <1>10, <1>12, <1>13 DEF ShapeInv

\* An iteration after the first reads the slot before its own.
LEMMA ReadsPrevSlot ==
  ASSUME OrderInv, ShapeInv, NEW i, NEW a, Answering(i, a), GenHistoNext(i),
         ~page.resetFlag
  PROVE  /\ i = page.iteration /\ i - 1 \in 0..card - 1 /\ i - 1 # i
         /\ ~ResetSent /\ Synced /\ Settled
         /\ i - 1 \in Slots /\ kBest[i - 1] \in Seq(Bar)
         /\ i <= page.xMin => kBest[i - 1] = << >>
<1>1. ~firstIteration /\ i > 0
  BY DEF GenHistoNext
<1>2. i = page.iteration /\ ~ResetSent
  BY DEF Answering
<1>3. Synced /\ Settled
  BY <1>1, <1>2 DEF Answering, Synced, Settled
<1>4. /\ i \in Int /\ i <= page.xMin + card - 1 /\ page.xMin \in 0..1
      /\ page.xMin <= i
      /\ card \in 1..MaxCard /\ MaxCard \in Nat
  BY AnsweringKept, MaxCardAssumption DEF Answering
<1>5. i - 1 \in 0..card - 1 /\ i - 1 \in Slots
  BY <1>1, <1>4 DEF Slots
<1>6. i <= page.xMin => Unsplit(i - 1)
  BY <1>2, <1>3, <1>5 DEF ShapeInv, EngineFresh
<1>7. i <= page.xMin => kBest[i - 1] = << >>
  BY <1>4, <1>6 DEF Unsplit
<1>8. kBest[i - 1] \in Seq(Bar)
  BY <1>5 DEF OrderInv, TrendInv, TrendTypeOK, Bar
<1> QED
  BY <1>2, <1>3, <1>4, <1>5, <1>7, <1>8

\* After a loss the slot may be empty: the engine then answers the whole
\* axis once more, which is all the page shows.
LEMMA AnswerNothing ==
  ASSUME OrderInv, ShapeInv, NEW i, NEW a, Answering(i, a), GenHistoNext(i),
         ~page.resetFlag, kBest[i - 1] = << >>
  PROVE  ShapeInv'
<1>1. /\ i = page.iteration /\ i - 1 \in 0..card - 1 /\ i - 1 # i
      /\ ~ResetSent /\ Synced /\ Settled
  BY ReadsPrevSlot
<1>2. /\ page' = page /\ card' = card /\ firstIteration' = FALSE
      /\ page.loaded /\ Answers = {} /\ Answers' = {a} /\ a.op = "iter"
  BY DEF Answering
<1>3. /\ ArrShape' /\ ChainShape' /\ Arr' = Arr /\ Current' = Current
      /\ WholeAxis' = WholeAxis /\ Base' = Base
      /\ Synced' <=> ~ResetSent
      /\ Settled' <=> ~page.resetFlag
      /\ card \in Int /\ i \in Int
  BY AnsweringKept
<1>4. NoSplit /\ (Arr = << >> \/ Arr = WholeAxis)
  BY <1>1 DEF ShapeInv, PrevSlot
<1>5. Splittable(kBest[i - 1]) = {}
  BY DEF Splittable
<1>6. NothingToSplit(i)
  BY <1>5 DEF GenHistoNext
<1>7. /\ kBest' = IF i < card THEN [kBest EXCEPT ![i] = << >>] ELSE kBest
      /\ splitSeg' = splitSeg /\ firstNew' = firstNew
  BY <1>6 DEF NothingToSplit, Store
<1>8. NoSplit'
  BY <1>2, <1>4, <1>7 DEF NoSplit
<1>9. \A j \in 0..card - 1 : kBest'[j] = IF j = i THEN << >> ELSE kBest[j]
  <2>1. kBest \in [Slots -> Seq(Bar)]
    BY DEF OrderInv, TrendInv, TrendTypeOK, Bar
  <2>2. \A j \in 0..card - 1 : j \in Slots /\ (j = i => i < card)
    BY <1>3, MaxCardAssumption DEF Slots, Answering
  <2> QED
    BY <1>7, <2>1, <2>2
<1>10. EngineFresh'
  <2> SUFFICES ASSUME page.iteration <= page.xMin, NEW j \in 0..card - 1
               PROVE  (Unsplit(j))'
    BY <1>2, <1>3, <1>8 DEF EngineFresh
  <2>1. Unsplit(j)
    BY <1>1 DEF ShapeInv, EngineFresh
  <2> QED
    BY <1>2, <1>9, <2>1 DEF Unsplit
<1>11. PrevSlot'
  BY <1>1, <1>2, <1>3, <1>4, <1>8, <1>9 DEF PrevSlot
<1>12. SlotsKept'
  <2>1. ~IterAnswered
    BY <1>2 DEF IterAnswered
  <2>2. ~Lossless
    BY <1>1, <2>1 DEF ShapeInv, SlotsKept
  <2> QED
    BY <2>2 DEF SlotsKept, Lossless
<1>13. AnswerFits'
  <2>1. a.sl = First(Seg(page.xMin, page.xMax))
    BY <1>8, PackWhole
  <2>2. (WholeAnswer(a))'
    BY <1>1, <1>2, <1>3, <1>4, <1>8, <1>9, <2>1 DEF WholeAnswer
  <2> QED
    BY <1>2, <2>2 DEF AnswerFits
<1> QED
  BY <1>3, <1>10, <1>11, <1>12, <1>13 DEF ShapeInv

\* What the next iteration splits is a segmentation of the page's axis.
LEMMA BaseShape ==
  ASSUME OrderInv, ShapeInv
  PROVE  /\ Base \in Seq(Segment)
         /\ Covers(Base, page.xMin, page.xMax)
         /\ Ordered(Base)
         /\ Full(Base, page.xMin, page.xMax)
         /\ page.iteration > page.xMin => Len(Base) <= page.iteration - page.xMin
<1>1. /\ page.xMin \in Int /\ page.xMax \in Int /\ page.xMin <= page.xMax
      /\ page.iteration \in Int
  BY DEF OrderInv, PageShape
<1>2. CASE Arr = << >>
  BY <1>1, <1>2, OneSegment DEF Base, WholeAxis
<1>3. CASE Arr # << >>
  BY <1>3 DEF ShapeInv, ArrShape, Base
<1> QED
  BY <1>2, <1>3

\* A slot that is not empty still has a segment to split, and the answer
\* names the two halves of the same segment of the page.
LEMMA AnswerSplit ==
  ASSUME OrderInv, ShapeInv, NEW i, NEW a, Answering(i, a), GenHistoNext(i),
         ~page.resetFlag, kBest[i - 1] # << >>
  PROVE  ShapeInv'
<1> DEFINE q == kBest[i - 1]
           x == page.xMin
<1>1. /\ i = page.iteration /\ i - 1 \in 0..card - 1 /\ i - 1 # i
      /\ ~ResetSent /\ Synced /\ Settled
      /\ q \in Seq(Bar)
      /\ ~(i <= x)
  BY ReadsPrevSlot
<1>2. /\ page' = page /\ card' = card /\ firstIteration' = FALSE
      /\ page.loaded /\ Answers = {} /\ Answers' = {a} /\ a.op = "iter"
      /\ a.sl = PackSegments
      /\ page.xMax = x + card - 1 /\ i <= page.xMax /\ x = XMin
      /\ card \in 1..MaxCard /\ MaxCard \in Nat
  BY MaxCardAssumption DEF Answering
<1>3. /\ ArrShape' /\ ChainShape' /\ Arr' = Arr /\ Current' = Current
      /\ WholeAxis' = WholeAxis /\ Base' = Base
      /\ Synced' <=> ~ResetSent
      /\ Settled' <=> ~page.resetFlag
      /\ card \in Int /\ i \in Int /\ x \in Int
  BY AnsweringKept
<1>4. Shift(q, x) = Base
  BY <1>1 DEF ShapeInv, PrevSlot
<1>5. q \in Seq(Segment)
  BY <1>1, BarsAreSegments
<1>6. /\ Base \in Seq(Segment) /\ Covers(Base, x, page.xMax) /\ Ordered(Base)
      /\ Full(Base, x, page.xMax) /\ Len(Base) <= i - x
      /\ page.xMax \in Int
  BY <1>1, <1>2, <1>3, BaseShape
<1>7. /\ Len(Base) = Len(q) /\ Splittable(Base) = Splittable(q)
      /\ \A k \in 1..Len(q) : Base[k].b = q[k].b + x /\ Base[k].e = q[k].e + x
  BY <1>3, <1>4, <1>5, ShiftElements
<1>8. Splittable(q) # {}
  <2>1. Len(Base) <= page.xMax - x
    BY <1>2, <1>3, <1>5, <1>6, <1>7
  <2> QED
    BY <1>3, <1>6, <1>7, <2>1, CanStillSplit
<1>0. PICK s \in Splittable(q) : \E g \in Groups(q[s]) : SplitAt(i, s, g)
  BY <1>8 DEF GenHistoNext, NothingToSplit
<1>9. PICK g \in Groups(q[s]) : SplitAt(i, s, g)
  BY <1>0
<1> DEFINE c    == CutOf(q[s], g)
           new  == Cut(q, s, c)
           left == Seg(q[s].b, c - 1)
           rest == Seg(c, q[s].e)
<1>10. /\ CanCut(q, s, c)
       /\ SplitSeg(q, s, LeftHalf(q[s], g), RightHalf(q[s], g)) = new
       /\ LeftHalf(q[s], g) = left /\ RightHalf(q[s], g) = rest
  BY <1>1, HalvesAreCut
<1>11. Store(i, new) /\ splitSeg' = s - 1 /\ firstNew' = left /\ secondNew' = rest
  BY <1>9, <1>10 DEF SplitAt
<1> HIDE DEF q, c, new
<1>12. /\ CanCut(Base, s, c + x)
       /\ Shift(new, x) = Cut(Base, s, c + x)
  BY <1>3, <1>4, <1>10, ShiftCut DEF new
<1>13. /\ s \in 1..Len(q) /\ s \in Nat /\ s > 0 /\ c \in Int
       /\ q[s].b \in Int /\ q[s].e \in Int /\ q[s].b < c /\ c <= q[s].e
       /\ Base[s].b = q[s].b + x /\ Base[s].e = q[s].e + x
       /\ 0 <= q[s].b /\ q[s].e < card
  <2>1. /\ s \in 1..Len(q) /\ c \in Int
        /\ q[s].b < c /\ c <= q[s].e
    BY <1>10 DEF CanCut
  <2>2. q[s].b \in Int /\ q[s].e \in Int
    BY <1>5, <2>1, SegmentBounds
  <2>3. Base[s].b = q[s].b + x /\ Base[s].e = q[s].e + x
    BY <1>7, <2>1
  <2>4. x <= Base[s].b /\ Base[s].e <= page.xMax
    BY <1>3, <1>6, <1>7, <2>1, CoversInside
  <2> QED
    BY <1>2, <1>3, <2>1, <2>2, <2>3, <2>4
<1>14. a.sl = Halves(Base, s, c + x)
  <2>1. a.sl = << Packed(s - 1, left), Packed((s - 1) + 1, rest) >>
    BY <1>2, <1>11, <1>13 DEF PackSegments
  <2>2. Packed(s - 1, left) = [n |-> s - 1, seg |-> Seg(Base[s].b, (c + x) - 1)]
    <3>1. /\ Value(q[s].b) = Base[s].b
          /\ Value(c - 1) = (c + x) - 1
      BY <1>2, <1>3, <1>13 DEF Value
    <3> QED
      BY <3>1 DEF Packed, Seg
  <2>3. Packed((s - 1) + 1, rest) = [n |-> s, seg |-> Seg(c + x, Base[s].e)]
    <3>1. Value(c) = c + x /\ Value(q[s].e) = Base[s].e /\ (s - 1) + 1 = s
      BY <1>2, <1>3, <1>13 DEF Value
    <3> QED
      BY <3>1 DEF Packed, Seg
  <2> QED
    BY <2>1, <2>2, <2>3 DEF Halves
<1>15. /\ i < card => kBest'[i] = new
       /\ \A j \in 0..card - 1 : j # i => kBest'[j] = kBest[j]
  <2>1. kBest \in [Slots -> Seq(Bar)]
    BY DEF OrderInv, TrendInv, TrendTypeOK, Bar
  <2>2. /\ i \in Int /\ i < card => i \in Slots
        /\ \A j \in 0..card - 1 : j \in Slots
    BY <1>2 DEF Slots, Answering
  <2>3. CASE i < card
    <3>1. kBest' = [kBest EXCEPT ![i] = new]
      BY <1>11, <2>3 DEF Store
    <3> QED
      BY <1>2, <1>3, <2>1, <2>2, <2>3, <3>1
  <2>4. CASE ~(i < card)
    BY <1>11, <2>4 DEF Store
  <2> QED
    BY <2>3, <2>4
<1>16. EngineFresh'
  BY <1>1, <1>2 DEF EngineFresh
<1>17. PrevSlot'
  <2>1. kBest'[page.iteration - 1] = q
    BY <1>1, <1>15 DEF q
  <2> QED
    BY <1>2, <1>3, <1>4, <2>1 DEF PrevSlot, q
<1>18. SlotsKept'
  <2> SUFFICES ASSUME Lossless
               PROVE  SlotsKept'
    BY DEF SlotsKept, Lossless
  <2>1. ~IterAnswered
    BY <1>2 DEF IterAnswered
  <2>2. /\ Arr # << >>
        /\ \A j \in Current : j \in 0..card - 1 =>
             segmentChain[j].segs = Shift(kBest[j], x)
    BY <1>1, <2>1 DEF ShapeInv, SlotsKept
  <2>3. \A j \in Current : j # i
    BY <1>1, <1>3 DEF ShapeInv, ChainShape
  <2>4. \A j \in Current : j \in 0..card - 1 =>
             segmentChain[j].segs = Shift(kBest'[j], x)
    BY <1>15, <2>2, <2>3
  <2>5. Len(a.sl) = 2
    BY <1>14 DEF Halves
  <2>6. kBest'[page.iteration - 1] # << >>
    BY <1>1, <1>15
  <2>7. segmentChain' = segmentChain
    BY DEF Answering
  <2>8. /\ IterAnswered' /\ Arr' # << >> /\ Current' = Current
        /\ \A m \in Answers' : Len(m.sl) # 1
    <3>1. IterAnswered'
      BY DEF Answering
    <3>2. Arr' # << >> /\ Current' = Current
      BY <1>3, <2>2
    <3>3. \A m \in Answers' : m = a
      BY <1>2
    <3> QED
      BY <2>5, <3>1, <3>2, <3>3
  <2>9. (\A j \in Current : j \in 0..card - 1 =>
             segmentChain[j].segs = Shift(kBest[j], page.xMin))'
    BY <1>2, <1>3, <2>4, <2>7
  <2> QED
    BY <1>2, <2>6, <2>8, <2>9 DEF SlotsKept
<1>19. AnswerFits'
  <2>1. PICK t, cut : /\ CanCut(Base, t, cut)
                      /\ a.sl = Halves(Base, t, cut)
                      /\ i < card => Shift(kBest'[i], x) = Cut(Base, t, cut)
    BY <1>12, <1>14, <1>15
  <2>2. i \in 0..card - 1 => i < card
    BY <1>3
  <2>3. (SplitAnswer(a, t, cut))'
    BY <1>1, <1>2, <1>3, <2>1, <2>2 DEF SplitAnswer
  <2>4. page'.iteration > page'.xMin
    BY <1>1, <1>2, <1>3
  <2> QED
    BY <1>2, <2>3, <2>4 DEF AnswerFits
<1> QED
  BY <1>3, <1>16, <1>17, <1>18, <1>19 DEF ShapeInv

LEMMA ServeIterShape ==
  ASSUME OrderInv, ShapeInv, vizType = 1,
         NEW m \in DOMAIN requests, ServeIter(m),
         requests' = requests (-) SetToBag({m}),
         UNCHANGED << page, view, run, vizType >>
  PROVE  ShapeInv'
<1>1. PICK a : Answering(m.iter, a)
  BY ServeIterAnswers
<1>2. GenHistoFirst(m.iter) \/ GenHistoNext(m.iter)
  BY <1>1 DEF Answering, GenHisto
<1>3. CASE GenHistoFirst(m.iter)
  BY <1>1, <1>3, AnswerFirst
<1>4. CASE GenHistoNext(m.iter) /\ ~page.resetFlag
  BY <1>1, <1>4, AnswerNothing, AnswerSplit
<1>5. CASE GenHistoNext(m.iter) /\ page.resetFlag
  <2>1. ResetSent
    BY <1>1, <1>5 DEF Answering, GenHistoNext
  <2>2. ArrShape' /\ ChainShape' /\ ~Synced' /\ page'.resetFlag
    BY <1>1, <1>5, <2>1, AnsweringKept DEF Answering
  <2> QED
    BY <2>2
       DEF ShapeInv, EngineFresh, PrevSlot, SlotsKept, Settled, AnswerFits
<1> QED
  BY <1>2, <1>3, <1>4, <1>5

-----------------------------------------------------------------------------
(* An answer the page accepts keeps the second invariant.                  *)

\* Page and network before and after an answer that says something of the
\* segmentation.
Accepted(m) ==
  /\ Settled /\ Settled' /\ Synced
  /\ Answers = {m} /\ m.op = "iter" /\ IterAnswered /\ Answers' = {}
  /\ page'.xMin = page.xMin /\ page'.xMax = page.xMax
  /\ page.xMin \in Int /\ page.xMax \in Int /\ page.xMin <= page.xMax
  /\ page.iteration \in Int /\ page.xMin <= page.iteration
  /\ page.iteration <= page.xMax
  /\ page'.iteration = page.iteration + 1
  /\ chart' = chart /\ card' = card /\ firstIteration' = firstIteration
  /\ kBest' = kBest /\ splitSeg' = splitSeg /\ firstNew' = firstNew
  /\ firstIteration \in BOOLEAN /\ ~firstIteration
  /\ m.sl # << >> => /\ Arr' = Spliced(Arr, m.sl)
                     /\ Current' = Current \cup {page.iteration}
                     /\ segmentChain'[page.iteration].segs = Arr'
                     /\ \A j \in Current : j # page.iteration =>
                          segmentChain'[j].segs = segmentChain[j].segs

LEMMA AcceptIsAccepted ==
  ASSUME OrderInv, NEW m \in DOMAIN replies, m.op = "iter",
         replies' = replies (-) SetToBag({m}),
         UNCHANGED << trendVars, run, vizType >>, Accept(m)
  PROVE  Accepted(m)
<1>1. /\ SameChart(page', page) /\ page.loaded
      /\ page.xMin <= page.iteration /\ page.iteration <= page.xMax
      /\ page'.segmentArr = ArrAfter(m)
      /\ page'.iteration = page.iteration + 1
      /\ page.resetFlag = FALSE /\ page'.resetFlag = FALSE
      /\ Answers = {m} /\ Answers' = {}
      /\ ~ResetSent /\ ~ResetSent'
  BY AcceptPage
<1>2. page'.loaded = page.loaded /\ page'.xMin = page.xMin /\ page'.xMax = page.xMax
  BY <1>1 DEF SameChart
<1>3. IterAnswered /\ ~AxesAnswered /\ ~AxesAnswered'
  BY <1>1 DEF IterAnswered, AxesAnswered
<1>4. /\ chart' = chart /\ card' = card /\ firstIteration' = firstIteration
      /\ kBest' = kBest /\ splitSeg' = splitSeg /\ firstNew' = firstNew
      /\ run' = run
  BY DEF trendVars
<1>5. ~firstIteration /\ firstIteration \in BOOLEAN
  BY <1>1, <1>3 DEF OrderInv, ResetOvertakes, TrendInv, TrendTypeOK
<1>6. Settled /\ Settled' /\ Synced
  BY <1>1, <1>2, <1>3, <1>4, <1>5 DEF Settled, Synced
<1>7. /\ page.xMin \in Int /\ page.xMax \in Int /\ page.xMin <= page.xMax
      /\ page.iteration \in Int
  BY DEF OrderInv, PageShape
<1>8. ASSUME m.sl # << >>
      PROVE  /\ Arr' = Spliced(Arr, m.sl)
             /\ Current' = Current \cup {page.iteration}
             /\ segmentChain'[page.iteration].segs = Arr'
             /\ \A j \in Current : j # page.iteration =>
                  segmentChain'[j].segs = segmentChain[j].segs
  <2>1. Arr' = ArrAfter(m) /\ Arr' = Spliced(Arr, m.sl)
    BY <1>1, <1>8 DEF Arr, ArrAfter
  <2>2. KeptEntry(m).run = run /\ KeptEntry(m).segs = Arr'
    BY <1>8, <2>1 DEF KeptEntry, Entry
  <2> DEFINE it == page.iteration
  <2>3. /\ DOMAIN segmentChain' = DOMAIN segmentChain \cup {it}
        /\ segmentChain'[it] = KeptEntry(m)
        /\ \A j \in DOMAIN segmentChain : j # it =>
             segmentChain'[j] = segmentChain[j]
    BY DEF Accept, ChainAfter
  <2> HIDE DEF it
  <2>4. Current' = Current \cup {it}
    BY <1>4, <2>2, <2>3 DEF Current
  <2>5. \A j \in Current : j # it => segmentChain'[j].segs = segmentChain[j].segs
    BY <2>3 DEF Current
  <2> QED
    BY <2>1, <2>2, <2>3, <2>4, <2>5 DEF it
<1> QED
  BY <1>1, <1>2, <1>3, <1>4, <1>5, <1>6, <1>7, <1>8 DEF Accepted

LEMMA AcceptChain ==
  ASSUME ShapeInv, NEW m, Accepted(m), m.sl # << >>,
         Arr' # << >>, Starts(Arr) \subseteq Starts(Arr'),
         Lossless /\ Arr # << >> => RefinesByOne(Arr', Arr)
  PROVE  ChainShape'
<1> DEFINE it == page.iteration
<1>1. /\ Current' = Current \cup {it}
      /\ segmentChain'[it].segs = Arr'
      /\ \A j \in Current : j # it => segmentChain'[j].segs = segmentChain[j].segs
      /\ it \in Int /\ page'.iteration = it + 1
  BY DEF Accepted
<1>2. /\ \A i \in Current : /\ i \in Int /\ i < it
                            /\ Starts(segmentChain[i].segs) \subseteq Starts(Arr)
      /\ Arr = << >> <=> Current = {}
      /\ Current # {} => it - 1 \in Current /\ Arr = segmentChain[it - 1].segs
      /\ Grows /\ (Lossless => Nested)
  BY DEF ShapeInv, ChainShape
<1> HIDE DEF it
<1>3. \A i \in Current : i # it /\ segmentChain'[i].segs = segmentChain[i].segs
  BY <1>1, <1>2
<1>4. \A i \in Current : Starts(segmentChain'[i].segs) \subseteq Starts(Arr')
  BY <1>2, <1>3
<1>5. \A i \in Current' : /\ i \in Int /\ i < it + 1
                          /\ Starts(segmentChain'[i].segs) \subseteq Starts(Arr')
  BY <1>1, <1>2, <1>4
<1>6. Grows'
  <2> SUFFICES ASSUME NEW i \in Current', NEW j \in Current', i <= j
               PROVE  Starts(segmentChain'[i].segs) \subseteq Starts(segmentChain'[j].segs)
    BY DEF Grows
  <2>1. CASE j = it
    BY <1>1, <1>5, <2>1
  <2>2. CASE j # it
    <3>1. i \in Current /\ j \in Current
      BY <1>1, <1>2, <2>2
    <3> QED
      BY <1>2, <1>3, <3>1 DEF Grows
  <2> QED
    BY <2>1, <2>2
<1>7. ASSUME Lossless PROVE Nested'
  <2> SUFFICES ASSUME NEW i \in Current', i + 1 \in Current'
               PROVE  RefinesByOne(segmentChain'[i + 1].segs, segmentChain'[i].segs)
    BY DEF Nested
  <2>1. i \in Current
    BY <1>1, <1>2
  <2>2. CASE i + 1 = it
    <3>1. i = it - 1
      BY <1>1, <1>2, <2>1, <2>2
    <3>2. segmentChain'[i].segs = Arr /\ Arr # << >>
      BY <1>2, <1>3, <2>1, <3>1
    <3> QED
      BY <1>1, <1>7, <2>2, <3>2
  <2>3. CASE i + 1 # it
    <3>1. i + 1 \in Current
      BY <1>1, <2>3
    <3> QED
      BY <1>2, <1>3, <1>7, <2>1, <3>1 DEF Nested
  <2> QED
    BY <2>2, <2>3
<1>8. /\ Arr' # << >> /\ Current' # {} /\ (it + 1) - 1 \in Current'
      /\ Arr' = segmentChain'[(it + 1) - 1].segs
  BY <1>1
<1> QED
  BY <1>1, <1>5, <1>6, <1>7, <1>8 DEF ChainShape, Lossless

\* What is left to show of an accepted answer.
LEMMA AcceptRest ==
  ASSUME OrderInv, ShapeInv, NEW m, Accepted(m), m.sl # << >>, Arr' # << >>,
         page.iteration \in 0..card - 1 =>
           \/ kBest[page.iteration] = << >> /\ NoSplit /\ Arr' = WholeAxis
           \/ /\ kBest[page.iteration] # << >>
              /\ Shift(kBest[page.iteration], page.xMin) = Arr',
         Lossless /\ page.iteration \in 0..card - 1 => kBest[page.iteration] # << >>
  PROVE  EngineFresh' /\ PrevSlot' /\ SlotsKept' /\ AnswerFits'
<1> DEFINE it == page.iteration
<1>1. /\ Settled /\ Answers' = {} /\ page'.iteration = it + 1
      /\ page'.xMin = page.xMin /\ page'.xMax = page.xMax
      /\ it \in Int /\ page.xMin \in Int /\ page.xMin <= it
      /\ card' = card /\ kBest' = kBest /\ firstIteration' = firstIteration
      /\ splitSeg' = splitSeg /\ firstNew' = firstNew /\ ~firstIteration
      /\ Current' = Current \cup {it} /\ segmentChain'[it].segs = Arr'
      /\ \A j \in Current : j # it => segmentChain'[j].segs = segmentChain[j].segs
  BY DEF Accepted
<1>2. EngineFresh'
  BY <1>1 DEF EngineFresh
<1>3. page'.iteration - 1 = it
  BY <1>1
<1>4. PrevSlot'
  <2>1. Base' = Arr' /\ WholeAxis' = WholeAxis /\ (NoSplit' <=> NoSplit)
    BY <1>1 DEF Base, WholeAxis, NoSplit
  <2> QED
    BY <1>1, <1>3, <2>1 DEF PrevSlot
<1>5. SlotsKept'
  <2> SUFFICES ASSUME Lossless
               PROVE  SlotsKept'
    BY DEF SlotsKept, Lossless
  <2>1. \A j \in Current : j \in 0..card - 1 =>
          segmentChain[j].segs = Shift(kBest[j], page.xMin)
    BY <1>1 DEF ShapeInv, SlotsKept
  <2>2. \A j \in Current : j # it
    BY <1>1 DEF ShapeInv, ChainShape
  <2>3. \A j \in Current' : j \in 0..card - 1 =>
          segmentChain'[j].segs = Shift(kBest[j], page.xMin)
    BY <1>1, <2>1, <2>2
  <2>4. ~IterAnswered'
    BY <1>1 DEF IterAnswered
  <2> QED
    BY <1>1, <1>3, <2>3, <2>4 DEF SlotsKept
<1>6. AnswerFits'
  BY <1>1 DEF AnswerFits
<1> QED
  BY <1>2, <1>4, <1>5, <1>6

LEMMA AcceptWhole ==
  ASSUME OrderInv, ShapeInv, NEW m, Accepted(m), WholeAnswer(m)
  PROVE  ShapeInv' /\ Arr' = WholeAxis /\ (Lossless => Arr = << >>)
<1> DEFINE lo == page.xMin
           hi == page.xMax
           one == << Seg(lo, hi) >>
<1>1. /\ m.sl = First(Seg(lo, hi))
      /\ Arr = << >> \/ Arr = one
      /\ page.iteration \in 0..card - 1 =>
           \/ kBest[page.iteration] = Whole(card)
           \/ kBest[page.iteration] = << >> /\ NoSplit
  BY DEF WholeAnswer, WholeAxis
<1>2. /\ Settled /\ Synced /\ IterAnswered /\ m \in Answers /\ m.op = "iter"
      /\ page'.iteration = page.iteration + 1 /\ page.iteration \in Int
      /\ lo \in Int /\ hi \in Int /\ lo <= hi /\ lo <= page.iteration
      /\ page'.xMin = lo /\ page'.xMax = hi
      /\ m.sl # << >> => Arr' = Spliced(Arr, m.sl)
  BY DEF Accepted
<1>3. /\ one \in Seq(Segment) /\ Len(one) = 1 /\ one # << >>
      /\ Covers(one, lo, hi) /\ Ordered(one) /\ Full(one, lo, hi)
  BY <1>2, OneSegment
<1>4. m.sl # << >> /\ Len(m.sl) = 1
  BY <1>1 DEF First
<1>5. Arr' = one
  <2>1. Seg(lo, hi) \in Segment
    BY <1>2 DEF Seg, Segment
  <2>2. Spliced(Arr, m.sl) = one
    BY <1>1, <2>1, SplicedFirst
  <2> QED
    BY <1>2, <1>4, <2>2
<1> HIDE DEF one
<1>6. Arr' # << >> /\ Starts(Arr) \subseteq Starts(Arr')
  BY <1>1, <1>3, <1>5 DEF Starts
<1>7. Lossless => /\ Arr = << >>
                  /\ page.iteration \in 0..card - 1 =>
                       kBest[page.iteration] = Whole(card)
  BY <1>2, <1>4 DEF ShapeInv, SlotsKept
<1>8. ChainShape'
  BY <1>4, <1>6, <1>7, AcceptChain
<1>9. Shift(Whole(card), lo) = one /\ Whole(card) # << >> /\ WholeAxis = one
  BY <1>2, WholeIsAxis DEF WholeAxis, one
<1>10. EngineFresh' /\ PrevSlot' /\ SlotsKept' /\ AnswerFits'
  BY <1>1, <1>4, <1>5, <1>6, <1>7, <1>9, AcceptRest
<1>11. ArrShape'
  <2>1. 1 <= (page.iteration + 1) - lo
    BY <1>2
  <2> QED
    BY <1>2, <1>3, <1>5, <2>1 DEF ArrShape
<1> QED
  BY <1>5, <1>7, <1>8, <1>9, <1>10, <1>11 DEF ShapeInv

LEMMA AcceptSplit ==
  ASSUME OrderInv, ShapeInv, NEW m, Accepted(m), page.iteration > page.xMin,
         NEW s, NEW cut, SplitAnswer(m, s, cut)
  PROVE  /\ ShapeInv' /\ Arr' = Cut(Base, s, cut)
         /\ Lossless => Arr # << >>
<1> DEFINE lo == page.xMin
           hi == page.xMax
           new == Cut(Base, s, cut)
<1>1. /\ CanCut(Base, s, cut)
      /\ m.sl = Halves(Base, s, cut)
      /\ page.iteration \in 0..card - 1 =>
           Shift(kBest[page.iteration], lo) = new
  BY DEF SplitAnswer
<1>2. /\ Settled /\ Synced /\ IterAnswered /\ m \in Answers /\ m.op = "iter"
      /\ page'.iteration = page.iteration + 1 /\ page.iteration \in Int
      /\ lo \in Int /\ hi \in Int /\ lo <= hi /\ lo <= page.iteration
      /\ page'.xMin = lo /\ page'.xMax = hi
      /\ m.sl # << >> => Arr' = Spliced(Arr, m.sl)
  BY DEF Accepted
<1>3. /\ Base \in Seq(Segment) /\ Covers(Base, lo, hi) /\ Ordered(Base)
      /\ Full(Base, lo, hi) /\ Len(Base) <= page.iteration - lo
      /\ NonEmpty(Base)
  BY BaseShape DEF Covers, NonEmpty
<1>4. /\ new \in Seq(Segment) /\ Len(new) = Len(Base) + 1
      /\ Covers(new, lo, hi) /\ Ordered(new) /\ Full(new, lo, hi)
      /\ RefinesByOne(new, Base)
  <2>1. new \in Seq(Segment) /\ Len(new) = Len(Base) + 1
    BY <1>1, SplitElements
  <2>2. Covers(new, lo, hi)
    BY <1>1, <1>2, <1>3, SplitCovers
  <2>3. Ordered(new) /\ RefinesByOne(new, Base)
    BY <1>1, <1>3, SplitOrdered, SplitRefines
  <2>4. Full(new, lo, hi)
    BY <1>1, <1>2, <1>3, SplitFull
  <2> QED
    BY <2>1, <2>2, <2>3, <2>4
<1>5. new # << >>
  <2>1. Len(Base) \in Nat /\ Len(new) # 0
    BY <1>3, <1>4
  <2> QED
    BY <2>1
<1>6. m.sl # << >> /\ Len(m.sl) = 2
  BY <1>1 DEF Halves
<1>7. Arr' = new
  <2>1. Spliced(Arr, m.sl) = new
    <3>1. CASE Arr = << >>
      <4>1. Base = << Seg(lo, hi) >> /\ Seg(lo, hi) \in Segment
        BY <1>2, <3>1 DEF Base, WholeAxis, Seg, Segment
      <4> HIDE DEF lo, hi
      <4>2. Spliced(<< >>, Halves(Base, s, cut)) = Cut(Base, s, cut)
        BY <1>1, <4>1, SplicedOnBlank
      <4> QED
        BY <1>1, <3>1, <4>2
    <3>2. CASE Arr # << >>
      <4>1. Base = Arr
        BY <3>2 DEF Base
      <4> QED
        BY <1>1, <4>1, SplicedIsCut
    <3> QED
      BY <3>1, <3>2
  <2> QED
    BY <1>2, <1>6, <2>1
<1> HIDE DEF new
<1>8. Arr' # << >> /\ Starts(Arr) \subseteq Starts(Arr')
  <2>1. Arr = << >> => Starts(Arr) = {}
    BY DEF Starts
  <2>2. Arr # << >> => Base = Arr
    BY DEF Base
  <2>3. Starts(Base) \subseteq Starts(new)
    BY <1>4 DEF RefinesByOne
  <2> QED
    BY <1>5, <1>7, <2>1, <2>2, <2>3
<1>9. Arr # << >> => RefinesByOne(Arr', Arr)
  BY <1>4, <1>7 DEF Base
<1>10. ChainShape'
  BY <1>6, <1>8, <1>9, AcceptChain
<1>11. page.iteration \in 0..card - 1 => kBest[page.iteration] # << >>
  <2>1. Shift(<< >>, lo) = << >>
    BY DEF Shift
  <2> QED
    BY <1>1, <1>5, <2>1 DEF new
<1>12. EngineFresh' /\ PrevSlot' /\ SlotsKept' /\ AnswerFits'
  <2>1. page.iteration \in 0..card - 1 =>
          /\ kBest[page.iteration] # << >>
          /\ Shift(kBest[page.iteration], page.xMin) = Arr'
    BY <1>1, <1>7, <1>11 DEF new
  <2> QED
    BY <1>6, <1>8, <2>1, AcceptRest
<1>13. ArrShape'
  <2>1. Len(new) <= (page.iteration + 1) - lo
    BY <1>2, <1>3, <1>4
  <2> QED
    BY <1>2, <1>4, <1>7, <2>1 DEF ArrShape
<1>14. Lossless => Arr # << >>
  <2>1. SlotsKept
    BY DEF ShapeInv
  <2>2. Lossless => (Len(m.sl) = 1 <=> Arr = << >>)
    BY <1>2, <2>1 DEF SlotsKept
  <2> QED
    BY <1>6, <2>2
<1> QED
  BY <1>7, <1>10, <1>12, <1>13, <1>14 DEF ShapeInv, new

LEMMA AcceptShape ==
  ASSUME OrderInv, ShapeInv, NEW m \in DOMAIN replies, m.op = "iter",
         replies' = replies (-) SetToBag({m}),
         UNCHANGED << trendVars, run, vizType >>, Accept(m)
  PROVE  ShapeInv'
<1>1. Accepted(m)
  BY AcceptIsAccepted
<1>2. \/ WholeAnswer(m)
      \/ page.iteration > page.xMin /\ \E s, cut : SplitAnswer(m, s, cut)
  BY <1>1 DEF Accepted, Settled, ShapeInv, AnswerFits
<1> QED
  BY <1>1, <1>2, AcceptWhole, AcceptSplit

-----------------------------------------------------------------------------
(* The second invariant holds wherever the charts are trendlines.          *)

LineInv == OrderInv /\ (vizType = 1 => ShapeInv)

LEMMA NextShape ==
  ASSUME OrderInv, OrderInv', ShapeInv, vizType = 1, [Next]_vars
  PROVE  ShapeInv'
<1>1. CASE User
  <2>1. CASE Quiet \/ Ask \/ \E c \in Charts : Visualize(c)
    BY <2>1, QuietIsStill, AskIsStill, VisualizeIsStill, StillShape
  <2>2. CASE ClickRepeat
    <3>1. ResetSent'
      BY <2>2, ResetIsSent DEF ClickRepeat, OrderInv, OneCall
    <3> QED
      BY <3>1, ResetShape, PTL
  <2> QED
    BY <1>1, <2>1, <2>2, UserCases
<1>2. CASE Serve
  BY <1>2, ServeCases, ServeAxesShape, ServeResetShape, ServeIterShape
<1>3. CASE DeliverAxes
  <2>1. ResetSent'
    BY <1>3, ResetIsSent DEF DeliverAxes, OrderInv, OneCall
  <2> QED
    BY <2>1, ResetShape, PTL
<1>4. CASE DeliverIter
  <2>1. PICK m \in DOMAIN replies :
          /\ m.op = "iter"
          /\ replies' = replies (-) SetToBag({m})
          /\ UNCHANGED << trendVars, run, vizType >>
          /\ Discard(m) \/ Accept(m)
    BY <1>4, DeliverIterCases
  <2>2. CASE Discard(m)
    <3>1. ResetSent'
      BY <2>2, ResetIsSent DEF Discard, OrderInv, OneCall
    <3> QED
      BY <3>1, ResetShape, PTL
  <2> QED
    BY <2>1, <2>2, AcceptShape
<1>5. CASE LoseRequest \/ LoseReply
  BY <1>5, LossIsStill, StillShape
<1>6. CASE UNCHANGED vars
  <2>1. /\ UNCHANGED << trendVars, net, page, segmentChain, run, vizType >>
    BY <1>6 DEF vars, view
  <2>2. /\ Answers' = Answers
        /\ ResetSent' <=> ResetSent
        /\ AxesAnswered' <=> AxesAnswered
    BY <2>1, NetKept DEF OrderInv
  <2>3. Still
    BY <2>1, <2>2 DEF Still, SameChart, OrderInv, PageShape
  <2> QED
    BY <2>3, StillShape
<1> QED
  BY <1>1, <1>2, <1>3, <1>4, <1>5, <1>6 DEF Next, Deliver

LEMMA SameServer ==
  ASSUME OrderInv, [Next]_vars
  PROVE  vizType' = vizType
<1>1. CASE User
  BY <1>1, UserCases DEF Quiet, Ask, ClickRepeat, Visualize
<1>2. CASE Serve
  BY <1>2 DEF Serve
<1>3. CASE Deliver
  BY <1>3 DEF Deliver, DeliverAxes, DeliverIter
<1>4. CASE LoseRequest \/ LoseReply
  BY <1>4 DEF LoseRequest, LoseReply
<1>5. CASE UNCHANGED vars
  BY <1>5 DEF vars
<1> QED
  BY <1>1, <1>2, <1>3, <1>4, <1>5 DEF Next

LEMMA LineHolds == Orderly /\ Spec => []LineInv
<1>1. Orderly /\ Init => LineInv
  BY InitOrder, InitShape DEF LineInv
<1>2. LineInv /\ [Next]_vars => LineInv'
  BY NextOrder, NextShape, SameServer DEF LineInv
<1> QED
  BY <1>1, <1>2, PTL DEF Spec

\* The server shows trendlines only, never the baseline's bars.
LinesOnly == VizTypes = {1}

LEMMA LinesShape ==
  ASSUME LineInv, LinesOnly
  PROVE  OrderInv /\ ShapeInv
BY DEF LineInv, LinesOnly, OrderInv, PageShape

\* The page's own segmentation is a partition of the axis at every moment,
\* whatever iterations are lost: every answer replaces a segment by two that
\* fill its place (player.js:433-444 splices by position alone).
THEOREM PartitionStaysShown == Orderly /\ LinesOnly /\ Spec => []PartitionShown
<1>1. LineInv /\ LinesOnly => PartitionShown
  BY LinesShape DEF ShapeInv, ArrShape, Arr, PartitionShown
<1>2. LinesOnly => LinesOnly'
  BY DEF LinesOnly
<1> QED
  BY LineHolds, <1>1, <1>2, PTL

\* Whatever is lost, what the page has kept for a later iteration of the run
\* cuts wherever an earlier one does.
THEOREM ChainStaysFine == Orderly /\ LinesOnly /\ Spec => []ChainNeverCoarsens
<1>1. LineInv /\ LinesOnly => ChainNeverCoarsens
  BY LinesShape DEF ShapeInv, ChainShape, Grows, ChainNeverCoarsens
<1>2. LinesOnly => LinesOnly'
  BY DEF LinesOnly
<1> QED
  BY LineHolds, <1>1, <1>2, PTL

\* With no iteration lost, each segmentation the page has kept is the one
\* before it with a single segment split.
THEOREM ChainStaysNested == Orderly /\ Lossless /\ Spec => []ChainNested
<1>1. LineInv /\ Lossless => ChainNested
  BY DEF LineInv, ShapeInv, ChainShape, Nested, ChainNested
<1>2. Lossless => Lossless'
  BY DEF Lossless
<1> QED
  BY LineHolds, <1>1, <1>2, PTL

\* With no iteration lost, what the page has kept of the run is what the
\* engine has in k_Best, although no message carries a whole segmentation.
THEOREM ViewStaysServers == Orderly /\ Lossless /\ Spec => []ViewMatchesServer
<1>1. LineInv /\ Lossless => ViewMatchesServer
  <2> SUFFICES ASSUME LineInv, Lossless, vizType = 1, ~firstIteration,
                      NEW i \in Current, i \in Slots, i < card
               PROVE  segmentChain[i].segs = Shift(kBest[i], page.xMin)
    BY DEF ViewMatchesServer
  <2>1. OrderInv /\ ShapeInv
    BY DEF LineInv
  <2>2. Arr # << >>
    BY <2>1 DEF ShapeInv, ChainShape
  <2>3. page.loaded /\ ~page.resetFlag /\ ~ResetSent
    BY <2>1, <2>2 DEF OrderInv, BeforeLoad, BlankAfterReset, Arr
  <2>4. Settled
    BY <2>1, <2>3 DEF OrderInv, AxisAgrees, AxesAnswered, Settled, Synced
  <2>5. i \in 0..card - 1
    BY <2>1, ChartFacts DEF OrderInv, Slots
  <2> QED
    BY <2>1, <2>4, <2>5 DEF ShapeInv, SlotsKept
<1>2. Lossless => Lossless'
  BY DEF Lossless
<1> QED
  BY LineHolds, <1>1, <1>2, PTL

-----------------------------------------------------------------------------
(* The page implements the abstract chart, step by step.                   *)

Axis == Seg(page.xMin, page.xMax)

\* The abstract chart is about the segments of this module.
LEMMA SameOperators ==
  /\ Abstract!Segment = Segment
  /\ \A b, e : Abstract!Seg(b, e) = Seg(b, e)
  /\ \A x : Abstract!Groups(x) = Groups(x)
  /\ \A q : Abstract!Splittable(q) = Splittable(q)
  /\ \A q, s, x, y : Abstract!SplitSeg(q, s, x, y) = SplitSeg(q, s, x, y)
BY DEF Abstract!Segment, Segment, Abstract!Seg, Seg, Abstract!Groups, Groups,
       Abstract!Splittable, Splittable, Abstract!SplitSeg, SplitSeg

LEMMA AxisShape ==
  ASSUME OrderInv
  PROVE  Axis \in Segment /\ Axis.b = page.xMin /\ Axis.e = page.xMax
         /\ Axis.b <= Axis.e
BY DEF OrderInv, PageShape, Axis, Seg, Segment

\* A reset, a repeat and a new chart clear it.
LEMMA BlankedClears ==
  ASSUME OrderInv', ResetSent'
  PROVE  Abstract!Clear
<1>1. page'.segmentArr = << >>
  BY DEF OrderInv, BlankAfterReset
<1>2. (Axis \in Segment /\ Axis.b <= Axis.e)'
  BY DEF OrderInv, PageShape, Axis, Seg, Segment
<1> QED
  BY <1>1, <1>2, SameOperators DEF Abstract!Clear, Axis

\* The first answer reveals it, any other one refines it.
LEMMA AcceptRefines ==
  ASSUME OrderInv, ShapeInv, Lossless, NEW m, Accepted(m)
  PROVE  Abstract!Reveal \/ Abstract!Refine
<1>1. /\ Axis' = Axis /\ Axis \in Segment
      /\ Axis.b = page.xMin /\ Axis.e = page.xMax
      /\ page.xMin \in Int /\ page.xMax \in Int
  BY AxisShape DEF Accepted, Axis
<1>2. \/ WholeAnswer(m)
      \/ page.iteration > page.xMin /\ \E s, cut : SplitAnswer(m, s, cut)
  BY DEF Accepted, Settled, ShapeInv, AnswerFits
<1>3. CASE WholeAnswer(m)
  <2>1. Arr' = WholeAxis /\ Arr = << >>
    BY <1>3, AcceptWhole
  <2>2. Abstract!Reveal
    BY <1>1, <2>1, SameOperators DEF Abstract!Reveal, Axis, Arr, WholeAxis
  <2> QED
    BY <2>2
<1>4. ASSUME NEW s, NEW cut, page.iteration > page.xMin, SplitAnswer(m, s, cut)
      PROVE  Abstract!Refine
  <2>1. Arr' = Cut(Base, s, cut) /\ Arr # << >> /\ Base = Arr
    BY <1>4, AcceptSplit DEF Base
  <2>2. CanCut(Arr, s, cut)
    BY <1>4, <2>1 DEF SplitAnswer
  <2>3. /\ s \in 1..Len(Arr) /\ Arr[s].b < cut /\ cut <= Arr[s].e /\ cut \in Int
        /\ Arr[s].b \in Int /\ Arr[s].e \in Int
        /\ page.xMin <= Arr[s].b /\ Arr[s].e <= page.xMax
    BY <1>1, <2>1, <2>2, CoversInside DEF CanCut, ShapeInv, ArrShape
  <2>4. s \in Splittable(Arr) /\ cut \in Groups(Axis)
    BY <1>1, <2>3 DEF Splittable, Groups
  <2>5. Arr' = SplitSeg(Arr, s, Seg(Arr[s].b, cut - 1), Seg(cut, Arr[s].e))
    BY <2>1 DEF Cut
  <2> QED
    BY <1>1, <2>3, <2>4, <2>5, SameOperators DEF Abstract!Refine, Arr, Axis
<1> QED
  BY <1>2, <1>3, <1>4

LEMMA NextChart ==
  ASSUME OrderInv, OrderInv', ShapeInv, vizType = 1, Lossless, [Next]_vars
  PROVE  [Abstract!ChartNext]_(Abstract!Chart)
<1>1. ASSUME SameChart(page', page), page'.segmentArr = page.segmentArr
      PROVE  UNCHANGED Abstract!Chart
  BY <1>1 DEF SameChart, Abstract!Chart
<1>2. CASE User
  <2>1. CASE Quiet \/ Ask \/ \E c \in Charts : Visualize(c)
    BY <1>1, <2>1, QuietIsStill, AskIsStill, VisualizeIsStill DEF Still
  <2>2. CASE ClickRepeat
    <3>1. ResetSent'
      BY <2>2, ResetIsSent DEF ClickRepeat, OrderInv, OneCall
    <3> QED
      BY <3>1, BlankedClears DEF Abstract!ChartNext
  <2> QED
    BY <1>2, <2>1, <2>2, UserCases
<1>3. CASE Serve \/ LoseRequest \/ LoseReply \/ UNCHANGED vars
  <2>1. page' = page
    BY <1>3 DEF Serve, LoseRequest, LoseReply, vars
  <2> QED
    BY <1>1, <2>1 DEF SameChart, OrderInv, PageShape
<1>4. CASE DeliverAxes
  <2>1. ResetSent'
    BY <1>4, ResetIsSent DEF DeliverAxes, OrderInv, OneCall
  <2> QED
    BY <2>1, BlankedClears DEF Abstract!ChartNext
<1>5. CASE DeliverIter
  <2>1. PICK m \in DOMAIN replies :
          /\ m.op = "iter"
          /\ replies' = replies (-) SetToBag({m})
          /\ UNCHANGED << trendVars, run, vizType >>
          /\ Discard(m) \/ Accept(m)
    BY <1>5, DeliverIterCases
  <2>2. CASE Discard(m)
    <3>1. ResetSent'
      BY <2>2, ResetIsSent DEF Discard, OrderInv, OneCall
    <3> QED
      BY <3>1, BlankedClears DEF Abstract!ChartNext
  <2>3. CASE Accept(m)
    <3>1. Accepted(m)
      BY <2>1, <2>3, AcceptIsAccepted
    <3> QED
      BY <3>1, AcceptRefines DEF Abstract!ChartNext
  <2> QED
    BY <2>1, <2>2, <2>3
<1> QED
  BY <1>2, <1>3, <1>4, <1>5 DEF Next, Deliver

\* A page that shows trendlines to a patient user over a network that loses
\* no iteration behaves, every step of it, like the abstract chart: blank,
\* one segment, one segment more at a time, until it is cleared.
THEOREM PageImplementsChart ==
  Orderly /\ Lossless /\ LinesOnly /\ Spec => ImplementsChart
<1>1. Init => Abstract!ChartInit
  <2> SUFFICES ASSUME Init PROVE Abstract!ChartInit
    OBVIOUS
  <2>1. page.segmentArr = << >> /\ page.xMin = 0 /\ page.xMax = 0
    BY DEF Init
  <2> QED
    BY <2>1, SameOperators DEF Abstract!ChartInit, Seg, Segment
<1>2. LineInv /\ LineInv' /\ LinesOnly /\ Lossless /\ [Next]_vars
        => [Abstract!ChartNext]_(Abstract!Chart)
  BY NextChart, LinesShape DEF LineInv, LinesOnly, OrderInv, PageShape
<1>3. (LinesOnly => LinesOnly') /\ (Lossless => Lossless')
  BY DEF LinesOnly, Lossless
<1> QED
  BY LineHolds, <1>1, <1>2, <1>3, PTL DEF Spec, ImplementsChart, Abstract!ChartSpec
-----------------------------------------------------------------------------
(* The counters of the page and what is on its screen.                     *)

\* No counter but backwardIter leaves the iterations of the axis by more than
\* the steps the buttons take, although some keep their value from chart to
\* chart; and what a label names can be as low as backwardIter is.
Labels == { i \in Int : i <= MaxCard + 1 }
Counted(p) ==
  /\ p.xMax \in 0 .. MaxCard
  /\ p.iteration \in -1 .. p.xMax + 1
  /\ p.playIter \in Iters /\ p.pauseIter \in Iters /\ p.seekbarMax \in Iters
  /\ p.forwardIter \in -1 .. MaxCard
  /\ p.backwardIter \in Int /\ p.backwardIter <= p.xMax
  /\ p.simplayFlag => p.playIter <= p.xMax
  /\ p.icon \in {"play", "pause"}

Shows(s) ==
  /\ s = [label |-> s.label, path |-> s.path, run |-> s.run, segs |-> s.segs]
  /\ s.label \in Labels /\ s.path \in BOOLEAN /\ s.run \in 0 .. run

\* LabelMatchesDrawing, of any picture.
Matches(s) ==
  s.path /\ s.label \in Current =>
    s.segs = segmentChain[s.label].segs /\ s.run = run

\* An answer of the baseline has a bar for every group, and so has what the
\* page keeps of it.
Width      == page.xMax - page.xMin + 1
Bars(s, n) == s = [k \in 1 .. n |-> s[k]]
BarsFit ==
  /\ Synced /\ vizType = 3 => DOMAIN avgMap \subseteq 0 .. card - 1
  /\ vizType = 3 /\ page.segmentArr # << >> => Bars(page.segmentArr, Width)
  /\ \A m \in Answers : m.op = "iter" /\ ~page.resetFlag =>
       IF vizType = 1 THEN m.sl # << >> ELSE m.sl = << >> /\ Bars(m.gl, Width)

\* The page keeps nothing of an iteration it has not come to, and what it
\* keeps of the last is its segmentation.
Latest ==
  /\ \A j \in Current : j < page.iteration
  /\ page.iteration - 1 \in Current =>
       page.segmentArr = segmentChain[page.iteration - 1].segs

\* An answer under way will be drawn, or it is not what the label names.
WillDraw ==
  IterUnderWay /\ ~page.resetFlag =>
    \/ /\ page.playFlag /\ ~page.playNoviz /\ ~page.simplayFlag
       /\ ~page.forwardFlag
    \/ ~page.playFlag /\ screen.label # page.iteration

ScreenInv ==
  /\ Counted(page)
  /\ Shows(screen)
  /\ DOMAIN segmentChain \subseteq Iters
  /\ BarsFit
  /\ Latest
  /\ Patience = "all" => WillDraw /\ LabelMatchesDrawing

LEMMA CountersAreInt ==
  ASSUME NEW p, Counted(p)
  PROVE  /\ MaxCard \in Nat /\ p.xMax \in Int /\ p.xMax >= 0 /\ p.xMax <= MaxCard
         /\ p.iteration \in Int /\ p.playIter \in Int /\ p.pauseIter \in Int
         /\ p.seekbarMax \in Int /\ p.forwardIter \in Int /\ p.backwardIter \in Int
         /\ p.iteration \in Iters /\ p.forwardIter \in Iters /\ p.backwardIter \in Labels
         /\ p.xMax \in Iters
BY MaxCardAssumption DEF Counted, Slots, Iters, Labels

LEMMA ItersAreLabels ==
  /\ \A i \in Iters : i \in Labels
  /\ \A i \in Labels : i \in Int
BY MaxCardAssumption DEF Iters, Labels

-----------------------------------------------------------------------------
(* Drawing.                                                                *)

\* Whatever is redrawn fits its label.
LEMMA RedrawShows ==
  ASSUME RunsPast, NEW s, Shows(s), NEW i \in Labels
  PROVE  /\ Shows(Redraw(s, i)) /\ Matches(Redraw(s, i))
         /\ \/ Redraw(s, i).segs = s.segs
            \/ \E j \in DOMAIN segmentChain : Redraw(s, i).segs = segmentChain[j].segs
<1>1. CASE i \in DOMAIN segmentChain /\ (s.path \/ i = page.xMin)
  <2>1. segmentChain[i].run \in 0 .. run
    BY <1>1 DEF RunsPast
  <2>2. Redraw(s, i) = [label |-> i, path |-> TRUE, run |-> segmentChain[i].run,
                        segs |-> segmentChain[i].segs]
    BY <1>1 DEF Redraw, Received, Render
  <2> QED
    BY <1>1, <2>1, <2>2 DEF Shows, Matches, Current
<1>2. CASE ~(i \in DOMAIN segmentChain /\ (s.path \/ i = page.xMin))
  <2>1. Redraw(s, i) = [s EXCEPT !.label = i]
    BY <1>2 DEF Redraw, Received, Render
  <2>2. Redraw(s, i) = [label |-> i, path |-> s.path, run |-> s.run, segs |-> s.segs]
    BY <2>1 DEF Shows
  <2>3. s.path => i \notin DOMAIN segmentChain
    BY <1>2
  <2> QED
    BY <2>2, <2>3 DEF Shows, Matches, Current
<1> QED
  BY <1>1, <1>2

\* What the page holds of the last iteration fits the label of its own.
LEMMA RenderShows ==
  ASSUME run \in Nat, NEW s, Shows(s), NEW i \in Labels, NEW x0, NEW arr,
         i \in Current => arr = segmentChain[i].segs
  PROVE  /\ Shows(Render(s, x0, i, Entry(run, arr)))
         /\ Matches(Render(s, x0, i, Entry(run, arr)))
         /\ Render(s, x0, i, Entry(run, arr)).label = i
<1>1. run \in 0 .. run
  OBVIOUS
<1>2. CASE s.path \/ i = x0
  <2>1. Render(s, x0, i, Entry(run, arr))
          = [label |-> i, path |-> TRUE, run |-> run, segs |-> arr]
    BY <1>2 DEF Render, Entry
  <2> QED
    BY <1>1, <2>1 DEF Shows, Matches
<1>3. CASE ~(s.path \/ i = x0)
  <2>1. Render(s, x0, i, Entry(run, arr)) = [s EXCEPT !.label = i]
    BY <1>3 DEF Render
  <2>2. [s EXCEPT !.label = i]
          = [label |-> i, path |-> s.path, run |-> s.run, segs |-> s.segs]
    BY DEF Shows
  <2> QED
    BY <1>3, <2>1, <2>2 DEF Shows, Matches
<1> QED
  BY <1>2, <1>3

\* The frames of a replay of any length.
LEMMA ReplayStays ==
  ASSUME NEW n \in Nat, NEW frames, DOMAIN frames = 1 .. n, NEW V, screen \in V,
         \A s \in V, k \in 1 .. n : Redraw(s, frames[k]) \in V
  PROVE  FoldLeft(Redraw, screen, frames) \in V
<1> DEFINE S == 1 .. n
           F == [p \in S \X V |-> Redraw(p[2], frames[p[1]])]
           pick == [s \in SUBSET S |-> Max(s)]
           Eqn(g) == g = [s \in SUBSET S |->
                            IF s = {} THEN screen
                            ELSE Redraw(g[s \ {Max(s)}], frames[Max(s)])]
<1>1. IsFiniteSet(S) /\ Picks(pick, S)
  <2>1. Picks(pick, S)
    BY MaxPicks, Zenon
  <2>2. IsFiniteSet(S)
    BY FS_Interval
  <2> QED
    BY <2>1, <2>2
<1>2. PICK h \in [SUBSET S -> V] : FoldBy(F, screen, pick, S, h)
  <2>1. F \in [S \X V -> V]
    OBVIOUS
  <2>2. screen \in V
    OBVIOUS
  <2> HIDE DEF F, S, pick
  <2> QED
    BY <1>1, <2>1, <2>2, FoldByExists, Zenon
<1>3. \A s \in SUBSET S : s # {} => Max(s) \in S /\ s \ {Max(s)} \in SUBSET S
                                     /\ pick[s] = Max(s)
  <2>1. \A s \in SUBSET S : pick[s] = Max(s)
    OBVIOUS
  <2> HIDE DEF S, pick
  <2> QED
    BY <1>1, <2>1 DEF Picks
<1>4. Eqn(h)
  <2>1. ASSUME NEW s \in SUBSET S, s # {}
        PROVE  F[<< Max(s), h[s \ {Max(s)}] >>]
                 = Redraw(h[s \ {Max(s)}], frames[Max(s)])
    BY <1>3, <2>1
  <2> HIDE DEF F, S
  <2> QED
    BY <1>2, <1>3, <2>1 DEF FoldBy
<1>5. PICK g : Eqn(g) /\ FoldLeft(Redraw, screen, frames) = g[S]
  BY <1>4, Zenon DEF FoldLeft, MapThenFoldSet
<1>6. g[{}] = screen /\ \A s \in SUBSET S : s # {} =>
        g[s] = Redraw(g[s \ {pick[s]}], frames[pick[s]])
  BY <1>3, <1>5
<1>7. ASSUME NEW s \in SUBSET S, s # {}, g[s \ {pick[s]}] \in V
      PROVE  g[s] \in V
  <2>1. pick[s] \in 1 .. n
    BY <1>3, <1>7
  <2>2. g[s] = Redraw(g[s \ {pick[s]}], frames[pick[s]])
    BY <1>6, <1>7
  <2> HIDE DEF pick
  <2> QED
    BY <1>7, <2>1, <2>2
<1> HIDE DEF S, F, pick, Eqn
<1>8. \A s \in SUBSET S : g[s] \in V
  <2>1. g[{}] \in V
    BY <1>6
  <2> QED
    BY <1>1, <1>7, <2>1, FoldByStays
<1> QED
  BY <1>5, <1>8

\* A replay, whatever it shows on the way, leaves a picture that fits.
LEMMA ReplayShows ==
  ASSUME RunsPast, Shows(screen), NEW n \in Nat, NEW frames,
         DOMAIN frames = 1 .. n, \A k \in 1 .. n : frames[k] \in Labels
  PROVE  /\ Shows(FoldLeft(Redraw, screen, frames))
         /\ Matches(screen) => Matches(FoldLeft(Redraw, screen, frames))
<1> DEFINE Drawings == { screen.segs } \cup { segmentChain[i].segs : i \in DOMAIN segmentChain }
           Pictures == [label : Labels, path : BOOLEAN, run : 0 .. run, segs : Drawings]
           V == { s \in Pictures : Matches(screen) => Matches(s) }
<1>1. \A s \in Pictures : Shows(s)
  BY DEF Shows
<1>2. \A s : Shows(s) /\ s.segs \in Drawings => s \in Pictures
  <2> SUFFICES ASSUME NEW s, Shows(s), s.segs \in Drawings
               PROVE  s \in Pictures
    OBVIOUS
  <2> HIDE DEF Drawings
  <2>1. [label |-> s.label, path |-> s.path, run |-> s.run, segs |-> s.segs] \in Pictures
    BY DEF Shows
  <2> QED
    BY <2>1 DEF Shows
<1>3. screen \in V
  BY <1>2
<1>4. ASSUME NEW s \in V, NEW k \in 1 .. n
      PROVE  Redraw(s, frames[k]) \in V
  <2>1. Shows(s) /\ s.segs \in Drawings /\ frames[k] \in Labels
    BY <1>1
  <2>2. /\ Shows(Redraw(s, frames[k])) /\ Matches(Redraw(s, frames[k]))
        /\ \/ Redraw(s, frames[k]).segs = s.segs
           \/ \E j \in DOMAIN segmentChain :
                Redraw(s, frames[k]).segs = segmentChain[j].segs
    BY <2>1, RedrawShows
  <2>3. Redraw(s, frames[k]).segs \in Drawings
    BY <2>1, <2>2
  <2> QED
    BY <1>2, <2>2, <2>3
<1> HIDE DEF V
<1>5. FoldLeft(Redraw, screen, frames) \in V
  BY <1>3, <1>4, ReplayStays
<1> QED
  BY <1>1, <1>5 DEF V

-----------------------------------------------------------------------------
(* The counters, from page to page.                                        *)

SameCounts(q, p) ==
  /\ DOMAIN q = PageFields
  /\ q.xMax = p.xMax /\ q.iteration = p.iteration
  /\ q.playIter = p.playIter /\ q.pauseIter = p.pauseIter
  /\ q.forwardIter = p.forwardIter /\ q.backwardIter = p.backwardIter
  /\ q.seekbarMax = p.seekbarMax /\ q.simplayFlag = p.simplayFlag
  /\ q.icon \in {"play", "pause"}

LEMMA SameAreCounted ==
  ASSUME NEW p, Counted(p), NEW q, SameCounts(q, p)
  PROVE  Counted(q)
BY DEF Counted, SameCounts

LEMMA ClearedCounted ==
  ASSUME NEW p, DOMAIN p = PageFields, p.xMin \in {0, 1}, p.xMax \in 0 .. MaxCard,
         p.xMin <= p.xMax, p.forwardIter \in -1 .. MaxCard
  PROVE  Counted(Cleared(p))
<1>1. p.xMin - 1 \in {-1, 0} /\ p.xMax \in Int /\ p.xMax >= 0
  BY MaxCardAssumption DEF Slots
<1>2. /\ Cleared(p).xMax = p.xMax /\ Cleared(p).iteration = p.xMin - 1
      /\ Cleared(p).playIter = p.xMin - 1 /\ Cleared(p).pauseIter = p.xMin - 1
      /\ Cleared(p).backwardIter = p.xMin - 1 /\ Cleared(p).seekbarMax = p.xMin - 1
      /\ Cleared(p).forwardIter = p.forwardIter
      /\ Cleared(p).simplayFlag = FALSE /\ Cleared(p).icon = "play"
  BY DEF Cleared, PageFields
<1> QED
  BY <1>1, <1>2, MaxCardAssumption DEF Counted, Iters, Slots

\* play() counts one iteration further, and tells the buttons as much only
\* when it asks for it.
LEMMA PlayCounted ==
  ASSUME NEW p, DOMAIN p = PageFields, Counted(p), p.iteration <= p.xMax, Play(p)
  PROVE  /\ Counted(page')
         /\ \/ UNCHANGED requests
            \/ /\ p.playFlag /\ page'.playFlag = p.playFlag
               /\ page'.playNoviz = p.playNoviz
               /\ page'.forwardFlag = p.forwardFlag
               /\ page'.simplayFlag = p.simplayFlag
<1> DEFINE q == [p EXCEPT !.iteration = @ + 1]
<1>1. /\ DOMAIN q = PageFields /\ q.iteration = p.iteration + 1
      /\ q.xMax = p.xMax /\ q.playIter = p.playIter /\ q.pauseIter = p.pauseIter
      /\ q.forwardIter = p.forwardIter /\ q.backwardIter = p.backwardIter
      /\ q.seekbarMax = p.seekbarMax /\ q.simplayFlag = p.simplayFlag
      /\ q.icon = p.icon /\ q.playFlag = p.playFlag
      /\ q.playNoviz = p.playNoviz /\ q.forwardFlag = p.forwardFlag
  BY DEF PageFields
<1>2. \/ /\ q.playFlag /\ page' = q
      \/ UNCHANGED requests /\ page' = q
      \/ UNCHANGED requests /\ page' = Finished(q)
  BY DEF Play
<1> HIDE DEF q
<1>3. Counted(q)
  <2>1. q.iteration \in -1 .. q.xMax + 1
    BY <1>1, CountersAreInt DEF Counted
  <2> QED
    BY <1>1, <2>1 DEF Counted
<1>4. Counted(Finished(q))
  <2>1. /\ Finished(q).xMax = q.xMax /\ Finished(q).iteration = q.iteration
        /\ Finished(q).playIter = q.playIter /\ Finished(q).pauseIter = q.pauseIter
        /\ Finished(q).forwardIter = q.forwardIter
        /\ Finished(q).backwardIter \in {q.backwardIter, q.xMax}
        /\ Finished(q).seekbarMax = q.seekbarMax
        /\ Finished(q).simplayFlag = q.simplayFlag /\ Finished(q).icon = q.icon
    BY <1>1 DEF Finished, PageFields
  <2>2. q.backwardIter \in Int /\ q.backwardIter <= q.xMax /\ q.xMax \in Int
    BY <1>3, CountersAreInt DEF Counted
  <2> QED
    BY <1>3, <2>1, <2>2 DEF Counted
<1> QED
  BY <1>1, <1>2, <1>3, <1>4

-----------------------------------------------------------------------------
(* What was received fits, when nothing is received or forgotten.          *)

KeptFits ==
  /\ DOMAIN segmentChain \subseteq Iters
  /\ BarsFit
  /\ Latest

LEMMA StillFits ==
  ASSUME OrderInv, KeptFits, Still
  PROVE  KeptFits' /\ Current' = Current
<1>1. /\ SameChart(page', page) /\ page'.segmentArr = page.segmentArr
      /\ segmentChain' = segmentChain /\ run' = run /\ vizType' = vizType
      /\ card' = card /\ avgMap' = avgMap
      /\ Answers' \subseteq Answers
  BY DEF Still, trendVars
<1>2. Synced' <=> Synced
  BY DEF Still, SameChart, Synced
<1>3. page'.resetFlag = page.resetFlag \/ Answers = {}
  BY IdleIsQuiet DEF Still
<1>4. Current' = Current
  BY <1>1 DEF Current
<1>5. page.xMin' = page.xMin /\ page.xMax' = page.xMax
  BY <1>1 DEF SameChart
<1>6. BarsFit'
  BY <1>1, <1>2, <1>3, <1>5 DEF KeptFits, BarsFit, Width
<1>7. Latest'
  <2>1. CASE page'.iteration = page.iteration
    BY <1>1, <1>4, <2>1 DEF KeptFits, Latest
  <2>2. CASE page'.iteration = page.iteration + 1
    <3>1. page.iteration \in Int /\ \A j \in Current : j \in Int /\ j < page.iteration
      BY DEF OrderInv, PageShape, KeptFits, Latest, Current, Iters
    <3>2. \A j \in Current' : j < page'.iteration
      BY <1>4, <2>2, <3>1
    <3>3. page'.iteration - 1 \notin Current'
      BY <1>4, <2>2, <3>1
    <3> QED
      BY <3>2, <3>3 DEF Latest
  <2> QED
    BY <2>1, <2>2 DEF Still
<1> QED
  BY <1>1, <1>4, <1>6, <1>7 DEF KeptFits

\* A click that finds no call under way.
LEMMA LookScreen ==
  ASSUME OrderInv, ScreenInv, CanLook, page.loaded, SameView(page', page),
         UNCHANGED << trendVars, net, segmentChain, run, vizType >>,
         Counted(page'),
         screen' = screen \/ \E i \in Labels : screen' = Redraw(screen, i)
  PROVE  ScreenInv'
<1>1. Quiet
  BY LookIsQuiet
<1>2. KeptFits' /\ Current' = Current
  BY <1>1, QuietIsStill, StillFits DEF ScreenInv, KeptFits
<1>3. /\ segmentChain' = segmentChain /\ run' = run
      /\ IterUnderWay' <=> IterUnderWay
  BY NetKept DEF OrderInv
<1>4. Shows(screen') /\ (LabelMatchesDrawing => Matches(screen'))
  <2>1. ASSUME NEW i \in Labels, screen' = Redraw(screen, i)
        PROVE  Shows(screen') /\ Matches(screen')
    BY <2>1, RedrawShows DEF OrderInv, ScreenInv
  <2>2. LabelMatchesDrawing => Matches(screen)
    BY DEF LabelMatchesDrawing, Matches
  <2> QED
    BY <2>1, <2>2 DEF ScreenInv
<1>5. Shows(screen)'
  BY <1>3, <1>4 DEF Shows
<1>6. LabelMatchesDrawing => LabelMatchesDrawing'
  BY <1>2, <1>3, <1>4 DEF LabelMatchesDrawing, Matches
<1>7. Patience = "all" => WillDraw'
  <2>1. Patience = "all" => ~IterUnderWay
    BY IdleIsQuiet DEF CanLook, IterUnderWay, IterAsked, IterAnswered
  <2> QED
    BY <1>3, <2>1 DEF WillDraw
<1>8. Counted(page)'
  BY DEF Counted
<1> QED
  BY <1>2, <1>5, <1>6, <1>7, <1>8 DEF ScreenInv, KeptFits

LEMMA ClickSaveScreen ==
  ASSUME OrderInv, ScreenInv, ClickSave
  PROVE  ScreenInv'
<1>1. /\ CanLook /\ page.loaded /\ page' = page
      /\ screen' = Redraw(screen, SavedIter)
      /\ UNCHANGED << trendVars, net, segmentChain, run, vizType >>
  BY DEF ClickSave
<1>2. SameView(page', page)
  BY <1>1 DEF SameView, SameChart, OrderInv, PageShape
<1>3. Counted(page') /\ SavedIter \in Labels
  <2>1. Counted(page)
    BY DEF ScreenInv
  <2>2. /\ page.iteration \in Labels /\ page.playIter \in Labels
        /\ page.forwardIter \in Labels /\ page.backwardIter \in Labels
    BY <2>1, CountersAreInt, ItersAreLabels DEF Counted
  <2> QED
    BY <1>1, <2>1, <2>2 DEF SavedIter
<1> QED
  BY <1>1, <1>2, <1>3, LookScreen

LEMMA ClickForwardScreen ==
  ASSUME OrderInv, ScreenInv, ClickForward
  PROVE  ScreenInv'
<1> DEFINE p == IF page.iteration < page.xMin
                  THEN [page EXCEPT !.iteration = @ + 1, !.forwardFlag = TRUE,
                                    !.forwardIter = page.iteration + 1]
                  ELSE page
           moves == p.forwardFlag /\ ~p.playFlag /\ p.pauseFlag
           to == p.forwardIter + 1
           q  == [p EXCEPT !.backFlag = TRUE, !.forwardIter = to,
                           !.seekbarMax = Max({@, to})]
           at == IF moves THEN Min({to, p.xMax}) ELSE p.forwardIter
           r  == IF moves THEN [q EXCEPT !.forwardIter = at, !.backwardIter = at,
                                         !.playIter = at, !.pauseIter = at]
                          ELSE p
           t  == [r EXCEPT
                   !.forwardFlag = @ \/ (r.iteration < r.xMax /\ r.backFlag),
                   !.icon = "play", !.playLit = at < r.xMax,
                   !.forwardLit = at < r.iteration - 1, !.backLit = TRUE]
<1>1. /\ DOMAIN page = PageFields /\ page.xMin \in Int /\ page.xMin <= page.xMax
      /\ Counted(page)
  BY DEF OrderInv, PageShape, ScreenInv
<1>2. /\ page' = IF moves /\ to <= p.xMax /\ ~Received(to) THEN q ELSE t
      /\ screen' = IF moves /\ to <= p.xMax THEN Redraw(screen, to) ELSE screen
      /\ CanLook /\ UNCHANGED << trendVars, net, segmentChain, run, vizType >>
  BY DEF ClickForward
<1>3. /\ SameView(p, page) /\ p.icon = page.icon
      /\ p.xMax = page.xMax /\ p.playIter = page.playIter
      /\ p.pauseIter = page.pauseIter /\ p.backwardIter = page.backwardIter
      /\ p.seekbarMax = page.seekbarMax /\ p.simplayFlag = page.simplayFlag
      /\ \/ p.iteration = page.iteration /\ p.forwardIter = page.forwardIter
         \/ /\ page.iteration < page.xMin /\ p.iteration = page.iteration + 1
            /\ p.forwardIter = page.iteration + 1
  BY <1>1 DEF SameView, SameChart, PageFields
<1> HIDE DEF p
<1>4. Counted(p)
  <2>1. /\ page.xMax \in Int /\ page.xMax <= MaxCard /\ MaxCard \in Int
        /\ page.iteration \in Int /\ page.iteration >= -1
    BY <1>1, CountersAreInt DEF Counted
  <2>2. /\ p.iteration \in -1 .. p.xMax + 1
        /\ p.forwardIter \in -1 .. MaxCard
    BY <1>1, <1>3, <2>1 DEF Counted
  <2> QED
    BY <1>1, <1>3, <2>2 DEF Counted
<1>5. /\ MaxCard \in Int /\ p.xMax \in Int /\ p.xMax <= MaxCard /\ to \in Int
      /\ to >= -1 /\ to <= MaxCard + 1 /\ p.seekbarMax \in Int /\ p.seekbarMax \in Iters
      /\ p.xMax >= 0
  BY <1>4, CountersAreInt DEF Counted
<1>6. /\ SameView(q, page) /\ q.icon = page.icon
      /\ q.iteration = p.iteration /\ q.xMax = p.xMax
      /\ q.playIter = p.playIter /\ q.pauseIter = p.pauseIter
      /\ q.backwardIter = p.backwardIter /\ q.simplayFlag = p.simplayFlag
      /\ q.forwardIter = to /\ q.seekbarMax = Max({p.seekbarMax, to})
  BY <1>3 DEF SameView, SameChart, PageFields
<1> HIDE DEF to
<1>7. Max({p.seekbarMax, to}) \in Iters
  BY <1>5, MaxOfTwo DEF Iters
<1>8. Min({to, p.xMax}) \in Int /\ Min({to, p.xMax}) >= -1 /\ Min({to, p.xMax}) <= p.xMax
  BY <1>5, MinOfTwo
<1>9. to <= p.xMax => Counted(q)
  BY <1>4, <1>5, <1>6, <1>7 DEF Counted, SameView
<1>10. /\ SameView(r, page) /\ r.icon = page.icon
       /\ moves => /\ r.iteration = q.iteration /\ r.xMax = q.xMax
                   /\ r.playIter = at /\ r.pauseIter = at /\ r.forwardIter = at
                   /\ r.backwardIter = at /\ r.simplayFlag = q.simplayFlag
                   /\ r.seekbarMax = q.seekbarMax
  BY <1>3, <1>6 DEF SameView, SameChart, PageFields
<1>11. moves => at = Min({to, p.xMax})
  OBVIOUS
<1>12. ~moves => r = p
  OBVIOUS
<1> HIDE DEF q, moves, at, r
<1>13. Counted(r)
  <2>1. CASE moves
    <3>1. /\ at \in Iters /\ at <= p.xMax /\ at \in Int
          /\ at \in -1 .. MaxCard
      BY <1>5, <1>8, <1>11, <2>1 DEF Iters
    <3> QED
      BY <1>3, <1>4, <1>6, <1>7, <1>10, <2>1, <3>1 DEF Counted
  <2>2. CASE ~moves
    <3>1. r = p
      BY <1>12, <2>2
    <3> QED
      BY <1>4, <3>1
  <2> QED
    BY <2>1, <2>2
<1>14. SameView(t, page) /\ SameCounts(t, r)
  BY <1>10 DEF SameView, SameChart, SameCounts, PageFields
<1> HIDE DEF t
<1>15. SameView(page', page) /\ Counted(page')
  BY <1>2, <1>6, <1>9, <1>13, <1>14, SameAreCounted
<1>16. screen' = screen \/ \E i \in Labels : screen' = Redraw(screen, i)
  <2>1. to <= p.xMax => to \in Labels
    BY <1>5 DEF Labels
  <2> QED
    BY <1>2, <2>1
<1>17. page.loaded
  BY DEF ClickForward, OrderInv, BeforeLoad
<1> QED
  BY <1>2, <1>15, <1>16, <1>17, LookScreen

LEMMA ClickBackScreen ==
  ASSUME OrderInv, ScreenInv, ClickBack
  PROVE  ScreenInv'
<1> DEFINE moves == ~page.playFlag /\ page.backFlag
           to    == page.backwardIter - 1
           q     == [page EXCEPT !.forwardFlag = TRUE, !.backwardIter = to]
           at    == Max({to, page.xMin})
           r     == IF moves THEN [q EXCEPT !.forwardIter = at, !.playIter = at,
                                            !.pauseIter = at]
                             ELSE page
           early == r.backwardIter < r.xMax
           t     == [r EXCEPT !.backLit = r.backwardIter > r.xMin,
                              !.icon = IF early THEN "play" ELSE @,
                              !.playLit = @ \/ early,
                              !.forwardLit = TRUE]
           u     == [page EXCEPT !.backFlag = FALSE, !.backLit = FALSE,
                                 !.forwardLit = TRUE]
<1>1. /\ DOMAIN page = PageFields /\ page.xMin \in Int /\ page.xMin <= page.xMax
      /\ page.xMin \in {0, 1} /\ Counted(page)
  BY DEF OrderInv, PageShape, ScreenInv
<1>2. /\ page' = q \/ page' = t \/ page' = u
      /\ CanLook
      /\ UNCHANGED << trendVars, net, segmentChain, run, vizType >>
  BY DEF ClickBack
<1>3. \/ screen' = screen \/ screen' = Redraw(screen, page.iteration)
      \/ screen' = Redraw(screen, to)
  BY DEF ClickBack
<1>4. /\ MaxCard \in Int /\ page.xMax \in Int /\ page.xMax <= MaxCard
      /\ page.xMax >= 0 /\ page.backwardIter \in Int
      /\ to \in Int /\ to <= page.xMax /\ page.iteration \in Labels
  BY <1>1, CountersAreInt, ItersAreLabels DEF Counted
<1>5. SameView(u, page) /\ SameCounts(u, page)
  BY <1>1 DEF SameView, SameChart, SameCounts, PageFields, Counted
<1>6. /\ SameView(q, page) /\ q.icon = page.icon
      /\ q.iteration = page.iteration /\ q.xMax = page.xMax
      /\ q.playIter = page.playIter /\ q.pauseIter = page.pauseIter
      /\ q.backwardIter = to /\ q.simplayFlag = page.simplayFlag
      /\ q.forwardIter = page.forwardIter /\ q.seekbarMax = page.seekbarMax
  BY <1>1 DEF SameView, SameChart, PageFields
<1> HIDE DEF to
<1>7. Counted(q)
  BY <1>1, <1>4, <1>6 DEF Counted
<1>8. Max({to, page.xMin}) \in 0 .. page.xMax
  BY <1>1, <1>4, MaxOfTwo
<1>9. /\ SameView(r, page) /\ r.icon = page.icon
      /\ moves => /\ r.iteration = q.iteration /\ r.xMax = q.xMax
                  /\ r.playIter = at /\ r.pauseIter = at /\ r.forwardIter = at
                  /\ r.backwardIter = q.backwardIter
                  /\ r.simplayFlag = q.simplayFlag
                  /\ r.seekbarMax = q.seekbarMax
      /\ ~moves => r = page
  BY <1>1, <1>6 DEF SameView, SameChart, PageFields
<1> HIDE DEF q, moves, at, r, u
<1>10. Counted(r)
  <2>1. CASE moves
    <3>1. /\ at \in Iters /\ at <= page.xMax /\ at \in -1 .. MaxCard
      BY <1>4, <1>8 DEF Iters, at
    <3> QED
      BY <1>6, <1>7, <1>9, <2>1, <3>1 DEF Counted
  <2>2. CASE ~moves
    <3>1. r = page
      BY <1>9, <2>2
    <3> QED
      BY <1>1, <3>1
  <2> QED
    BY <2>1, <2>2
<1>11. SameView(t, page) /\ SameCounts(t, r)
  BY <1>9, <1>10 DEF SameView, SameChart, SameCounts, PageFields, Counted
<1> HIDE DEF t
<1>12. SameView(page', page) /\ Counted(page')
  BY <1>1, <1>2, <1>5, <1>6, <1>7, <1>10, <1>11, SameAreCounted
<1>13. screen' = screen \/ \E i \in Labels : screen' = Redraw(screen, i)
  <2>1. to \in Labels
    BY <1>4 DEF Labels
  <2> QED
    BY <1>3, <1>4, <2>1
<1>14. page.loaded
  BY DEF ClickBack, OrderInv, BeforeLoad
<1> QED
  BY <1>2, <1>12, <1>13, <1>14, LookScreen

LEMMA DragSeekbarScreen ==
  ASSUME OrderInv, ScreenInv, DragSeekbar
  PROVE  ScreenInv'
<1>1. /\ DOMAIN page = PageFields /\ page.xMin \in {0, 1} /\ page.xMin <= page.xMax
      /\ Counted(page)
  BY DEF OrderInv, PageShape, ScreenInv
<1>2. PICK v \in page.xMin .. page.xMax :
        LET limit == IF page.pauseFlag THEN page.seekbarMax ELSE page.iteration
            at == Min({v, limit})
            q  == [page EXCEPT !.forwardFlag = @ \/ at < page.xMax,
                           !.backFlag = @ \/ (at <= page.xMax /\ at > page.xMin),
                           !.forwardIter = at, !.backwardIter = at,
                           !.pauseIter = at, !.playIter = at]
        IN \/ /\ screen' = Redraw(screen, at)
              /\ page' = IF Received(at) THEN SeekButtons(q, at) ELSE q
           \/ page' = SeekButtons(page, v) /\ UNCHANGED screen
  BY Zenon DEF DragSeekbar
<1> DEFINE limit == IF page.pauseFlag THEN page.seekbarMax ELSE page.iteration
           at == Min({v, limit})
           q  == [page EXCEPT !.forwardFlag = @ \/ at < page.xMax,
                           !.backFlag = @ \/ (at <= page.xMax /\ at > page.xMin),
                           !.forwardIter = at, !.backwardIter = at,
                           !.pauseIter = at, !.playIter = at]
<1>3. /\ page' = q \/ page' = SeekButtons(q, at) \/ page' = SeekButtons(page, v)
      /\ screen' = screen \/ screen' = Redraw(screen, at)
  BY <1>2
<1> HIDE <1>2
<1>4. /\ limit \in Int /\ limit >= -1 /\ limit <= MaxCard + 1 /\ v \in Int
      /\ v >= 0 /\ v <= page.xMax
      /\ MaxCard \in Int /\ page.xMax \in Int /\ page.xMax <= MaxCard
  BY <1>1, CountersAreInt DEF Counted, Iters
<1> HIDE DEF limit
<1>5. /\ at \in Int /\ at >= -1 /\ at <= page.xMax
  BY <1>4, MinOfTwo
<1> HIDE DEF at
<1>6. /\ at \in Iters /\ at \in -1 .. MaxCard /\ at \in Int /\ at <= page.xMax
  BY <1>4, <1>5 DEF Iters
<1>7. /\ SameView(q, page) /\ q.icon = page.icon
      /\ q.iteration = page.iteration /\ q.xMax = page.xMax
      /\ q.playIter = at /\ q.pauseIter = at /\ q.forwardIter = at
      /\ q.backwardIter = at /\ q.simplayFlag = page.simplayFlag
      /\ q.seekbarMax = page.seekbarMax
  BY <1>1 DEF SameView, SameChart, PageFields
<1> HIDE DEF q
<1>8. Counted(q)
  BY <1>1, <1>5, <1>6, <1>7 DEF Counted
<1>9. SameView(SeekButtons(q, at), page) /\ SameCounts(SeekButtons(q, at), q)
  BY <1>7 DEF SameView, SameChart, SameCounts, PageFields, SeekButtons
<1>10. SameView(SeekButtons(page, v), page) /\ SameCounts(SeekButtons(page, v), page)
  BY <1>1 DEF SameView, SameChart, SameCounts, PageFields, SeekButtons
<1>11. SameView(page', page) /\ Counted(page')
  BY <1>1, <1>3, <1>7, <1>8, <1>9, <1>10, SameAreCounted
<1>12. screen' = screen \/ \E i \in Labels : screen' = Redraw(screen, i)
  BY <1>3, <1>6, ItersAreLabels
<1>13. /\ CanLook /\ page.loaded
       /\ UNCHANGED << trendVars, net, segmentChain, run, vizType >>
  BY DEF DragSeekbar
<1> QED
  BY <1>11, <1>12, <1>13, LookScreen

\* A pause names the last iteration that was received, and an answer that is
\* still to come names the next.
LEMMA ClickPauseScreen ==
  ASSUME OrderInv, ScreenInv, ClickPause
  PROVE  ScreenInv'
<1> DEFINE at == PausedAt
           to == Min({at, page.xMax})
<1>1. /\ DOMAIN page = PageFields /\ page.icon = "pause" /\ Counted(page)
      /\ Shows(screen) /\ run \in Nat
      /\ UNCHANGED << trendVars, net, segmentChain, run, vizType >>
  BY DEF OrderInv, PageShape, ClickPause, ScreenInv, RunsPast
<1>2. page' = [page EXCEPT
          !.simplayFlag = TRUE, !.pauseFlag = TRUE, !.playFlag = FALSE,
          !.playNoviz = TRUE, !.backFlag = TRUE, !.forwardFlag = TRUE,
          !.seekbarMax = Max({@, at}),
          !.pauseIter = to, !.forwardIter = to, !.backwardIter = to,
          !.playIter = to,
          !.icon = "play", !.backLit = TRUE, !.forwardLit = to < page.iteration]
  BY DEF ClickPause
<1>3. screen' = IF page.simplayFlag THEN screen
                ELSE Render(screen, page.xMin, at, Entry(run, page.segmentArr))
  BY DEF ClickPause
<1>4. /\ at \in Iters /\ at \in Int /\ at >= -1 /\ at <= MaxCard
      /\ MaxCard \in Int /\ page.xMax \in Int /\ page.xMax <= MaxCard
      /\ page.xMax >= -1 /\ page.seekbarMax \in Int /\ page.seekbarMax \in Iters
      /\ page.iteration \in Int
      /\ ~page.simplayFlag => at = page.iteration - 1
  <2>1. page.iteration >= 0
    BY <1>1 DEF OrderInv, PageShape, StartsAtXMin
  <2> QED
    BY <1>1, <2>1, CountersAreInt DEF Counted, Iters, PausedAt
<1> HIDE DEF at
<1>5. to \in Int /\ to >= -1 /\ to <= page.xMax
  BY <1>4, MinOfTwo
<1>6. Max({page.seekbarMax, at}) \in Iters
  BY <1>4, MaxOfTwo
<1> HIDE DEF to
<1>7. /\ to \in Iters /\ to \in -1 .. MaxCard /\ to \in Int /\ to <= page.xMax
  BY <1>4, <1>5 DEF Iters
<1>8. /\ page'.iteration = page.iteration /\ page'.xMax = page.xMax
      /\ page'.playIter = to /\ page'.pauseIter = to /\ page'.forwardIter = to
      /\ page'.backwardIter = to /\ page'.icon = "play"
      /\ page'.seekbarMax = Max({page.seekbarMax, at})
      /\ page'.playFlag = FALSE /\ page'.resetFlag = page.resetFlag
  BY <1>1, <1>2 DEF PageFields
<1>9. Counted(page)'
  BY <1>1, <1>5, <1>6, <1>7, <1>8 DEF Counted
<1>10. KeptFits' /\ Current' = Current
  BY ClickPauseQuiet, QuietIsStill, StillFits DEF ScreenInv, KeptFits
<1>11. /\ segmentChain' = segmentChain /\ run' = run
       /\ IterUnderWay' <=> IterUnderWay
  BY <1>1, NetKept DEF OrderInv
<1>12. ASSUME ~page.simplayFlag
       PROVE  Shows(screen') /\ Matches(screen') /\ screen'.label = page.iteration - 1
  <2>1. at \in Current => page.segmentArr = segmentChain[at].segs
    BY <1>4, <1>12 DEF ScreenInv, Latest
  <2> QED
    BY <1>1, <1>3, <1>4, <1>12, <2>1, RenderShows, ItersAreLabels
<1>13. Shows(screen') /\ (LabelMatchesDrawing => Matches(screen'))
  BY <1>1, <1>3, <1>12 DEF LabelMatchesDrawing, Matches
<1>14. Shows(screen)'
  BY <1>11, <1>13 DEF Shows
<1>15. LabelMatchesDrawing => LabelMatchesDrawing'
  BY <1>10, <1>11, <1>13 DEF LabelMatchesDrawing, Matches
<1>16. WillDraw => WillDraw'
  <2> SUFFICES ASSUME WillDraw, IterUnderWay, ~page.resetFlag
               PROVE  screen'.label # page.iteration
    BY <1>8, <1>11 DEF WillDraw
  <2>1. CASE page.simplayFlag
    BY <1>3, <2>1 DEF WillDraw
  <2>2. CASE ~page.simplayFlag
    BY <1>4, <1>12, <2>2
  <2> QED
    BY <2>1, <2>2
<1> QED
  BY <1>9, <1>10, <1>14, <1>15, <1>16 DEF ScreenInv, KeptFits

-----------------------------------------------------------------------------
(* Play, and the clicks that start over.                                   *)

\* The page of a click on Play, before the handler's branches.
Lit(d) ==
  /\ DOMAIN d = PageFields /\ Counted(d)
  /\ d.xMax = page.xMax /\ d.iteration = page.iteration
  /\ d.playFlag = TRUE /\ d.playNoviz = FALSE /\ d.forwardFlag = FALSE

\* What the page asks for it will draw.
Draws(p) == p.playFlag /\ ~p.playNoviz /\ ~p.simplayFlag /\ ~p.forwardFlag

LEMMA PlayDraws ==
  ASSUME NEW p, DOMAIN p = PageFields, Counted(p), p.iteration <= p.xMax, Play(p),
         Draws(p)
  PROVE  Counted(page') /\ (UNCHANGED requests \/ Draws(page'))
BY PlayCounted DEF Draws

LEMMA ReplayScreen ==
  ASSUME OrderInv, ScreenInv, page.iteration >= 0,
         NEW d, Lit(d), d.simplayFlag = TRUE, SimulatePlay(d)
  PROVE  /\ Counted(page') /\ (UNCHANGED requests \/ Draws(page'))
         /\ Shows(screen') /\ (Matches(screen) => Matches(screen'))
<1> DEFINE missing == { i \in d.playIter + 1 .. d.iteration - 1 : ~Received(i) }
           last    == IF missing = {} THEN d.iteration - 1 ELSE Min(missing)
           frames  == [k \in 1 .. last - d.playIter |-> d.playIter + k]
<1>1. /\ screen' = FoldLeft(Redraw, screen, frames)
      /\ \/ missing = {} /\ Play(Resumed(d))
         \/ /\ missing # {}
            /\ page' = [d EXCEPT !.playIter = last]
            /\ UNCHANGED requests
  BY DEF SimulatePlay
<1>2. /\ DOMAIN d = PageFields /\ Counted(d) /\ d.iteration >= 0
      /\ d.playIter \in Int /\ d.playIter >= -1 /\ d.iteration \in Int
      /\ d.xMax \in Int /\ d.xMax <= MaxCard /\ MaxCard \in Int
      /\ d.playIter <= d.xMax /\ d.iteration <= d.xMax + 1
  BY CountersAreInt DEF Lit, Counted, Iters
<1>3. /\ last \in Int /\ last >= -1 /\ last <= d.iteration - 1
  <2>1. CASE missing = {}
    BY <1>2, <2>1
  <2>2. CASE missing # {}
    <3>1. /\ d.playIter + 1 \in Int /\ missing \subseteq Int
          /\ \A i \in missing : d.playIter + 1 <= i
      BY <1>2
    <3>2. Min(missing) \in missing
      <4> HIDE DEF missing
      <4> QED
        BY <2>2, <3>1, LeastInt
    <3> QED
      BY <1>2, <2>2, <3>2
  <2> QED
    BY <2>1, <2>2
<1> HIDE DEF missing, last
<1>4. Shows(screen') /\ (Matches(screen) => Matches(screen'))
  <2> DEFINE n == IF last - d.playIter >= 0 THEN last - d.playIter ELSE 0
  <2>1. n \in Nat /\ DOMAIN frames = 1 .. n
    BY <1>2, <1>3
  <2>2. ASSUME NEW k \in 1 .. n
        PROVE  frames[k] \in Labels
    <3>1. k \in Int /\ 1 <= k /\ k <= last - d.playIter
      BY <1>2, <1>3
    <3>2. frames[k] = d.playIter + k
      BY <1>2, <1>3, <3>1
    <3> HIDE DEF frames
    <3> QED
      BY <1>2, <1>3, <3>1, <3>2, MaxCardAssumption DEF Iters, Labels
  <2>3. RunsPast /\ Shows(screen)
    BY DEF OrderInv, ScreenInv
  <2> HIDE DEF n, frames
  <2> QED
    BY <1>1, <2>1, <2>2, <2>3, ReplayShows
<1>5. CASE Play(Resumed(d))
  <2> DEFINE p == Resumed(d)
  <2>1. /\ DOMAIN p = PageFields /\ p.xMax = d.xMax
        /\ p.iteration = d.iteration - 1
        /\ p.playIter = Max({d.playIter + 1, d.iteration})
        /\ p.pauseIter = d.pauseIter /\ p.forwardIter = d.forwardIter
        /\ p.backwardIter = d.backwardIter /\ p.seekbarMax = d.seekbarMax
        /\ p.icon = d.icon
        /\ p.playFlag = TRUE /\ p.playNoviz = FALSE /\ p.simplayFlag = FALSE
        /\ p.forwardFlag = FALSE
    BY <1>2 DEF Resumed, PageFields, Lit
  <2> HIDE DEF p
  <2>2. Max({d.playIter + 1, d.iteration}) \in Iters
    BY <1>2, MaxOfTwo DEF Iters
  <2>3. p.iteration \in -1 .. p.xMax + 1 /\ p.iteration <= p.xMax
    BY <1>2, <2>1
  <2>4. Counted(p) /\ Draws(p)
    BY <1>2, <2>1, <2>2, <2>3 DEF Counted, Draws
  <2>5. Play(p)
    BY <1>5 DEF p
  <2> QED
    BY <1>4, <2>1, <2>3, <2>4, <2>5, PlayDraws
<1>6. CASE page' = [d EXCEPT !.playIter = last] /\ UNCHANGED requests
  <2>1. /\ page'.playIter = last /\ page'.xMax = d.xMax
        /\ page'.iteration = d.iteration
        /\ page'.pauseIter = d.pauseIter /\ page'.forwardIter = d.forwardIter
        /\ page'.backwardIter = d.backwardIter /\ page'.seekbarMax = d.seekbarMax
        /\ page'.icon = d.icon
    BY <1>2, <1>6 DEF PageFields
  <2>2. last \in Iters /\ last <= d.xMax
    BY <1>2, <1>3 DEF Iters
  <2>3. Counted(page')
    BY <1>2, <2>1, <2>2 DEF Counted
  <2> QED
    BY <1>4, <1>6, <2>3
<1> QED
  BY <1>1, <1>5, <1>6

LEMMA ClickPlayScreen ==
  ASSUME OrderInv, ScreenInv, ClickPlay
  PROVE  ScreenInv'
<1> DEFINE p == [page EXCEPT !.icon = "pause", !.forwardFlag = FALSE,
                        !.backFlag = FALSE, !.pauseFlag = FALSE,
                        !.playFlag = TRUE, !.playNoviz = FALSE,
                        !.resetFlag = FALSE]
           dimmed == [p EXCEPT !.forwardLit = FALSE, !.backLit = FALSE]
           again  == [dimmed EXCEPT !.simplayFlag = TRUE, !.playIter = @ - 1]
           lit    == [p EXCEPT !.backLit = TRUE]
           ended  == p.iteration >= p.xMax
           replay == p.xMin <= p.playIter /\ p.playIter < p.xMax
<1>1. /\ DOMAIN page = PageFields /\ page.simplayFlag \in BOOLEAN
      /\ page.iteration \in Int /\ page.xMin \in {0, 1} /\ page.xMax \in Int
      /\ page.xMin <= page.xMax /\ Counted(page) /\ Shows(screen)
      /\ run \in Nat
  BY DEF OrderInv, PageShape, ScreenInv, RunsPast
<1>2. /\ CanAsk /\ page.icon = "play" /\ page.playLit
      /\ UNCHANGED << trendVars, replies, segmentChain, run, vizType >>
      /\ \/ ended /\ replay /\ SimulatePlay(again)
         \/ /\ ended /\ page' = lit /\ UNCHANGED requests
            /\ screen' = Render(screen, p.xMin, p.xMax, Entry(run, p.segmentArr))
         \/ ~ended /\ p.simplayFlag /\ SimulatePlay(dimmed)
         \/ ~ended /\ ~p.simplayFlag /\ Play(dimmed) /\ UNCHANGED screen
  BY DEF ClickPlay
<1>3. /\ SameCounts(p, page) /\ p.xMin = page.xMin
      /\ p.segmentArr = page.segmentArr
      /\ p.playFlag = TRUE /\ p.playNoviz = FALSE /\ p.forwardFlag = FALSE
  BY <1>1 DEF SameCounts, PageFields
<1> HIDE DEF p
<1>4. /\ SameCounts(dimmed, p)
      /\ dimmed.playFlag = TRUE /\ dimmed.playNoviz = FALSE
      /\ dimmed.forwardFlag = FALSE
  BY <1>3 DEF SameCounts, PageFields
<1>5. SameCounts(lit, p)
  BY <1>3 DEF SameCounts, PageFields
<1>6. Counted(p) /\ Counted(dimmed) /\ Counted(lit)
  BY <1>1, <1>3, <1>4, <1>5, SameAreCounted
<1> HIDE DEF dimmed, lit
<1>7. Lit(dimmed) /\ dimmed.simplayFlag = page.simplayFlag
  BY <1>3, <1>4, <1>6 DEF Lit, SameCounts
<1>8. replay => Lit(again) /\ again.simplayFlag = TRUE
  <2>1. /\ DOMAIN again = PageFields /\ again.xMax = dimmed.xMax
        /\ again.iteration = dimmed.iteration
        /\ again.playIter = dimmed.playIter - 1
        /\ again.pauseIter = dimmed.pauseIter
        /\ again.forwardIter = dimmed.forwardIter
        /\ again.backwardIter = dimmed.backwardIter
        /\ again.seekbarMax = dimmed.seekbarMax /\ again.icon = dimmed.icon
        /\ again.playFlag = TRUE /\ again.playNoviz = FALSE
        /\ again.forwardFlag = FALSE /\ again.simplayFlag = TRUE
    BY <1>4 DEF SameCounts, PageFields
  <2> HIDE DEF again
  <2>2. /\ dimmed.playIter = page.playIter /\ dimmed.xMax = page.xMax
        /\ page.playIter \in Int /\ p.playIter = page.playIter
        /\ p.xMin = page.xMin /\ p.xMax = page.xMax
        /\ page.xMax <= MaxCard /\ MaxCard \in Int
    BY <1>1, <1>3, <1>4, CountersAreInt DEF SameCounts
  <2>3. replay => again.playIter \in Iters /\ again.playIter <= again.xMax
    BY <1>1, <2>1, <2>2 DEF Iters
  <2> QED
    BY <1>6, <1>7, <2>1, <2>3 DEF Lit, Counted
<1> HIDE DEF again, replay
<1>9. ended <=> page.iteration >= page.xMax
  BY <1>3 DEF SameCounts
<1> HIDE DEF ended
<1>10. page.loaded /\ Idle
  BY <1>2 DEF OrderInv, BeforeLoad, CanAsk, Orderly
\* Each branch of the handler, and what the chart shows then.
<1>11. /\ Counted(page') /\ (UNCHANGED requests \/ Draws(page'))
       /\ Shows(screen') /\ (Matches(screen) => Matches(screen'))
  <2>1. CASE ended /\ replay /\ SimulatePlay(again)
    <3>1. page.iteration >= 0
      BY <1>1, <1>9, <2>1
    <3> QED
      BY <1>8, <2>1, <3>1, ReplayScreen
  <2>2. CASE /\ ended /\ page' = lit /\ UNCHANGED requests
             /\ screen' = Render(screen, p.xMin, p.xMax, Entry(run, p.segmentArr))
    <3>1. /\ p.xMax = page.xMax /\ p.segmentArr = page.segmentArr
          /\ page.xMax \in Iters /\ page.iteration <= page.xMax + 1
      BY <1>1, <1>3, CountersAreInt DEF SameCounts, Counted
    <3>2. page.xMax \in Current =>
            page.segmentArr = segmentChain[page.xMax].segs
      <4>1. page.iteration = page.xMax \/ page.iteration - 1 = page.xMax
        BY <1>1, <1>9, <2>2, <3>1
      <4>2. page.iteration \notin Current
        BY <1>1 DEF ScreenInv, Latest
      <4> QED
        BY <4>1, <4>2 DEF ScreenInv, Latest
    <3>3. Shows(screen') /\ Matches(screen')
      BY <1>1, <2>2, <3>1, <3>2, RenderShows, ItersAreLabels
    <3> QED
      BY <1>6, <2>2, <3>3
  <2>3. CASE ~ended /\ p.simplayFlag /\ SimulatePlay(dimmed)
    <3>1. page.simplayFlag /\ dimmed.simplayFlag = TRUE
      BY <1>1, <1>3, <1>7, <2>3 DEF SameCounts
    <3>2. page.iteration >= 0
      BY <1>1, <3>1 DEF OrderInv, StartsAtXMin
    <3> QED
      BY <1>7, <2>3, <3>1, <3>2, ReplayScreen
  <2>4. CASE ~ended /\ ~p.simplayFlag /\ Play(dimmed) /\ UNCHANGED screen
    <3>1. Draws(dimmed)
      BY <1>3, <1>4, <2>4 DEF Draws, SameCounts
    <3>2. dimmed.iteration <= dimmed.xMax /\ DOMAIN dimmed = PageFields
      BY <1>1, <1>7, <1>9, <2>4 DEF Lit
    <3> QED
      BY <1>1, <1>6, <2>4, <3>1, <3>2, PlayDraws
  <2> QED
    BY <1>2, <2>1, <2>2, <2>3, <2>4
<1>12. KeptFits' /\ Current' = Current
  BY ClickPlayCases, QuietIsStill, AskIsStill, StillFits DEF ScreenInv, KeptFits
<1>13. segmentChain' = segmentChain /\ run' = run
  BY <1>2
<1>14. Shows(screen)'
  BY <1>11, <1>13 DEF Shows
<1>15. LabelMatchesDrawing => LabelMatchesDrawing'
  BY <1>11, <1>12, <1>13 DEF LabelMatchesDrawing, Matches
<1>16. WillDraw'
  <2>1. UNCHANGED requests => ~IterUnderWay'
    BY <1>2, <1>10, IdleIsQuiet, NetKept
       DEF net, OrderInv, IterUnderWay, IterAsked, IterAnswered
  <2> QED
    BY <1>11, <2>1 DEF WillDraw, Draws
<1>17. Counted(page)'
  BY <1>11 DEF Counted
<1> QED
  BY <1>12, <1>14, <1>15, <1>16, <1>17 DEF ScreenInv, KeptFits

\* A page that starts over keeps nothing and shows nothing.
LEMMA BlankScreen ==
  ASSUME Counted(page'), page'.segmentArr = << >>, Current' = {},
         DOMAIN segmentChain' \subseteq Iters,
         run' \in Nat, NEW i \in Iters, screen' = Blank(i, run'),
         ~Synced', page'.resetFlag = TRUE \/ (Answers' = {} /\ Calls' = {})
  PROVE  ScreenInv'
<1>1. Shows(screen)' /\ ~screen'.path
  BY ItersAreLabels DEF Shows, Blank
<1>2. LabelMatchesDrawing'
  BY <1>1 DEF LabelMatchesDrawing
<1>3. Latest'
  BY DEF Latest
<1>4. BarsFit'
  BY DEF BarsFit
<1>5. WillDraw'
  BY DEF WillDraw, IterUnderWay, IterAsked, IterAnswered
<1>6. Counted(page)'
  BY DEF Counted
<1> QED
  BY <1>1, <1>2, <1>3, <1>4, <1>5, <1>6 DEF ScreenInv

LEMMA ClickRepeatScreen ==
  ASSUME OrderInv, ScreenInv, ClickRepeat
  PROVE  ScreenInv'
<1> DEFINE q == Cleared(page)
<1>1. /\ DOMAIN page = PageFields /\ page.xMin \in {0, 1} /\ page.xMin <= page.xMax
      /\ Counted(page)
  BY DEF OrderInv, PageShape, ScreenInv
<1>2. /\ page' = [q EXCEPT !.resetFlag = TRUE]
      /\ screen' = Blank(page.xMin - 1, run + 1)
      /\ Send(ResetRequest) /\ run' = run + 1 /\ UNCHANGED segmentChain
  BY DEF ClickRepeat
<1>3. Counted(q)
  BY <1>1, ClearedCounted DEF Counted
<1>4. /\ DOMAIN q = PageFields /\ q.segmentArr = << >> /\ q.icon = "play"
  BY <1>1, ClearedPage DEF SameChart
<1> HIDE DEF q
<1>5. /\ SameCounts(page', q) /\ page'.segmentArr = << >>
      /\ page'.resetFlag = TRUE
  BY <1>2, <1>4 DEF SameCounts, PageFields
<1>6. Counted(page')
  BY <1>3, <1>5, SameAreCounted
<1>7. Current' = {} /\ run' \in Nat
  BY <1>2, NewRun DEF OrderInv, RunsPast
<1>8. ~Synced'
  BY <1>2, ResetIsSent DEF OrderInv, OneCall, Synced
<1>9. page.xMin - 1 \in Iters /\ screen' = Blank(page.xMin - 1, run')
  BY <1>1, <1>2, MaxCardAssumption DEF Iters
<1>10. DOMAIN segmentChain' \subseteq Iters
  BY <1>2 DEF ScreenInv
<1>11. page'.resetFlag = TRUE \/ (Answers' = {} /\ Calls' = {})
  BY <1>5
<1>12. page'.segmentArr = << >>
  BY <1>5
<1> HIDE DEF q
<1> QED
  BY <1>6, <1>7, <1>8, <1>9, <1>10, <1>11, <1>12, BlankScreen

LEMMA DeliverAxesScreen ==
  ASSUME OrderInv, ScreenInv, DeliverAxes
  PROVE  ScreenInv'
<1>1. PICK m \in DOMAIN replies :
        /\ m.op = "axes"
        /\ replies' = replies (-) SetToBag({m})
        /\ page' = Cleared([page EXCEPT !.xMin = m.xMin, !.xMax = m.xMax,
                                        !.loaded = TRUE, !.resetFlag = FALSE])
        /\ screen' = Blank(m.xMin - 1, run + 1)
        /\ Send(ResetRequest)
        /\ run' = run + 1
        /\ UNCHANGED segmentChain
  BY Zenon DEF DeliverAxes, BagToSet
<1>2. Answers = {m} /\ Answers' = {}
  BY <1>1, AnswerTaken DEF OrderInv, OneCall
<1>3. Calls' = {} /\ ~Synced'
  BY <1>1, <1>2, ResetIsSent DEF OrderInv, OneCall, Synced
<1>4. m.xMin \in {0, 1} /\ m.xMax \in 0 .. MaxCard /\ m.xMin <= m.xMax
  <2>1. Loaded /\ m.xMin = XMinOf[chart] /\ m.xMax = m.xMin + card - 1
    BY <1>1, <1>2 DEF OrderInv, AxisAgrees
  <2>2. chart \in Charts /\ card \in 1..MaxCard /\ MaxCard \in Nat
    BY <2>1, ChartFacts DEF OrderInv
  <2>3. card = CardOf[chart] /\ XMinOf[chart] \in 0..1
    BY <2>2, ChartAssumption DEF OrderInv, TrendInv, CardMatches
  <2> QED
    BY <2>1, <2>2, <2>3
<1> DEFINE p == [page EXCEPT !.xMin = m.xMin, !.xMax = m.xMax,
                             !.loaded = TRUE, !.resetFlag = FALSE]
<1>5. /\ DOMAIN p = PageFields /\ p.xMin = m.xMin /\ p.xMax = m.xMax
      /\ p.forwardIter = page.forwardIter
  BY DEF OrderInv, PageShape, PageFields
<1>6. page' = Cleared(p)
  BY <1>1
<1> HIDE DEF p
<1>7. page.forwardIter \in -1 .. MaxCard
  BY DEF ScreenInv, Counted
<1>8. Counted(page') /\ page'.segmentArr = << >>
  BY <1>4, <1>5, <1>6, <1>7, ClearedCounted, ClearedPage
<1>9. Current' = {} /\ run' \in Nat
  BY <1>1, NewRun DEF OrderInv, RunsPast
<1>10. m.xMin - 1 \in Iters /\ screen' = Blank(m.xMin - 1, run')
  BY <1>1, <1>4, MaxCardAssumption DEF Iters
<1>11. DOMAIN segmentChain' \subseteq Iters
  BY <1>1 DEF ScreenInv
<1> QED
  BY <1>2, <1>3, <1>8, <1>9, <1>10, <1>11, BlankScreen

LEMMA DiscardScreen ==
  ASSUME OrderInv, ScreenInv, NEW m \in DOMAIN replies, m.op = "iter",
         replies' = replies (-) SetToBag({m}), run' = run, Discard(m),
         screen' = Blank(page.xMin - 1, run)
  PROVE  ScreenInv'
<1>1. /\ page.resetFlag /\ page' = Cleared(page) /\ Send(ResetRequest)
      /\ UNCHANGED segmentChain
  BY DEF Discard
<1>2. Answers = {m} /\ Answers' = {}
  BY AnswerTaken DEF OrderInv, OneCall
<1>3. Calls' = {} /\ ~Synced'
  BY <1>1, <1>2, ResetIsSent DEF OrderInv, OneCall, Synced
<1>4. /\ DOMAIN page = PageFields /\ page.xMin \in {0, 1} /\ page.xMin <= page.xMax
      /\ Counted(page)
  BY DEF OrderInv, PageShape, ScreenInv
<1>5. Counted(page') /\ page'.segmentArr = << >>
  BY <1>1, <1>4, ClearedCounted, ClearedPage DEF Counted
<1>6. Current' = {} /\ run' \in Nat
  BY <1>1 DEF OrderInv, BlankAfterReset, Current, RunsPast
<1>7. page.xMin - 1 \in Iters
  BY <1>4, MaxCardAssumption DEF Iters
<1>8. DOMAIN segmentChain' \subseteq Iters
  BY <1>1 DEF ScreenInv
<1> QED
  BY <1>2, <1>3, <1>5, <1>6, <1>7, <1>8, BlankScreen

-----------------------------------------------------------------------------
(* Steps the page does not see.                                            *)

LEMMA UnseenScreen ==
  ASSUME ScreenInv, UNCHANGED << page, view, run, vizType >>, BarsFit',
         IterUnderWay' => IterUnderWay
  PROVE  ScreenInv'
<1>1. /\ page' = page /\ segmentChain' = segmentChain /\ screen' = screen
      /\ run' = run
  BY DEF view
<1>2. Current' = Current
  BY <1>1 DEF Current
<1>3. Counted(page)' /\ Shows(screen)' /\ DOMAIN segmentChain' \subseteq Iters
  BY <1>1 DEF ScreenInv, Counted, Shows
<1>4. Latest' /\ (LabelMatchesDrawing => LabelMatchesDrawing')
  BY <1>1, <1>2 DEF ScreenInv, Latest, LabelMatchesDrawing
<1>5. WillDraw => WillDraw'
  BY <1>1 DEF WillDraw
<1> QED
  BY <1>3, <1>4, <1>5 DEF ScreenInv

\* Visualize, and what the network loses.
LEMMA StillUnseen ==
  ASSUME OrderInv, ScreenInv, Still, UNCHANGED << page, view, run, vizType >>,
         ~IterAsked' \/ requests' = requests
  PROVE  ScreenInv'
<1>1. BarsFit'
  BY StillFits DEF ScreenInv, KeptFits
<1>2. IterUnderWay' => IterUnderWay
  BY DEF Still, IterUnderWay, IterAsked, IterAnswered, Calls
<1> QED
  BY <1>1, <1>2, UnseenScreen

LEMMA VisualizeScreen ==
  ASSUME OrderInv, ScreenInv, NEW c \in Charts, Visualize(c)
  PROVE  ScreenInv'
<1>1. Calls = {}
  BY IdleIsQuiet DEF OrderInv, Orderly, Visualize, CanAsk
<1>2. AxesRequest(c).op = "axes"
  BY DEF AxesRequest
<1>3. Calls' = {AxesRequest(c)}
  BY <1>1, <1>2, CallSent DEF OrderInv, OneCall, Visualize
<1>4. ~IterAsked'
  BY <1>2, <1>3 DEF IterAsked
<1>5. UNCHANGED << page, view, run, vizType >>
  BY DEF Visualize
<1> QED
  BY <1>4, <1>5, VisualizeIsStill, StillUnseen

LEMMA LossScreen ==
  ASSUME OrderInv, ScreenInv, LoseRequest \/ LoseReply
  PROVE  ScreenInv'
<1>1. UNCHANGED << page, view, run, vizType >>
  BY DEF LoseRequest, LoseReply
<1>2. CASE LoseRequest
  <2>1. PICK m \in DOMAIN requests : /\ m.op \in LoseRequests
                                     /\ requests' = requests (-) SetToBag({m})
    BY <1>2 DEF LoseRequest, BagToSet
  <2>2. m.op # "reset"
    BY <2>1 DEF OrderInv, Orderly
  <2>3. ~IterAsked'
    BY <2>1, <2>2, CallTaken DEF OrderInv, OneCall, IterAsked
  <2> QED
    BY <1>1, <2>3, LossIsStill, StillUnseen
<1>3. CASE LoseReply
  <2>1. requests' = requests
    BY <1>3 DEF LoseReply
  <2> QED
    BY <1>1, <2>1, LossIsStill, StillUnseen
<1> QED
  BY <1>2, <1>3

-----------------------------------------------------------------------------
(* The server answers.                                                     *)

\* An answer that splits nothing and one that splits say something, and a
\* baseline has a bar for every group.
LEMMA PacksSomething == PackSegments # << >>
BY DEF PackSegments

LEMMA PacksAllBars ==
  ASSUME NEW n \in Nat, DOMAIN avgMap' = 0 .. n - 1
  PROVE  PackBars = [k \in 1 .. n |-> PackBars[k]]
<1>1. Cardinality(0 .. n - 1) = n
  BY FS_Interval
<1> QED
  BY <1>1 DEF PackBars

LEMMA ServeScreen ==
  ASSUME OrderInv, ScreenInv, NEW m \in DOMAIN requests,
         ServeAxes(m) \/ ServeReset(m) \/ ServeIter(m),
         requests' = requests (-) SetToBag({m}),
         UNCHANGED << page, view, run, vizType >>
  PROVE  ScreenInv'
<1>1. /\ page' = page /\ segmentChain' = segmentChain /\ run' = run
      /\ vizType' = vizType
  BY DEF view
<1>2. CASE ServeAxes(m)
  <2> DEFINE a == [op |-> "axes", xMin |-> XMinOf[m.chart],
                   xMax |-> XMinOf[m.chart] + CardOf[m.chart] - 1]
  <2>1. m.op = "axes" /\ replies' = replies (+) SetToBag({a})
    BY <1>2 DEF ServeAxes
  <2>2. a.op = "axes"
    OBVIOUS
  <2> HIDE DEF a
  <2>3. Calls = {m} /\ Calls' = {} /\ Answers = {}
    BY <2>1, CallTaken DEF OrderInv, OneCall
  <2>4. Answers' = {a}
    BY <2>1, <2>3, AnswerSent DEF OrderInv, OneCall
  <2>5. ~Synced' /\ ~IterUnderWay'
    BY <2>2, <2>3, <2>4 DEF Synced, AxesAnswered, IterUnderWay, IterAsked, IterAnswered
  <2>6. BarsFit'
    BY <1>1, <2>2, <2>4, <2>5 DEF ScreenInv, BarsFit, Width
  <2> QED
    BY <2>5, <2>6, UnseenScreen
<1>3. CASE ServeReset(m)
  <2>1. m.op = "reset" /\ Reset /\ replies' = replies
    BY <1>3 DEF ServeReset
  <2>2. Calls' = Calls /\ Answers' = Answers
    BY <2>1, ResetTaken DEF OrderInv, OneCall, Answers
  <2>3. avgMap' = << >>
    BY <2>1 DEF Reset
  <2>4. BarsFit'
    BY <1>1, <2>2, <2>3 DEF ScreenInv, BarsFit, Width
  <2>5. IterUnderWay' => IterUnderWay
    BY <2>2 DEF IterUnderWay, IterAsked, IterAnswered
  <2> QED
    BY <2>4, <2>5, UnseenScreen
<1>4. CASE ServeIter(m)
  <2> DEFINE a == [op |-> "iter",
                   sl |-> IF vizType = 1 THEN PackSegments ELSE << >>,
                   gl |-> IF vizType = 3 THEN PackBars ELSE << >>,
                   xMin |-> XMin, xMax |-> XMin + card - 1]
  <2>1. /\ m.op = "iter" /\ replies' = replies (+) SetToBag({a})
        /\ IF vizType = 1 THEN GenHisto(m.iter) ELSE GenHistoBase
    BY <1>4 DEF ServeIter
  <2>2. /\ a.op = "iter"
        /\ a.sl = IF vizType = 1 THEN PackSegments ELSE << >>
        /\ a.gl = IF vizType = 3 THEN PackBars ELSE << >>
    OBVIOUS
  <2> HIDE DEF a
  <2>3. Calls = {m} /\ Calls' = {} /\ Answers = {} /\ (ResetSent' <=> ResetSent)
    BY <2>1, CallTaken DEF OrderInv, OneCall
  <2>4. Answers' = {a}
    BY <2>1, <2>3, AnswerSent DEF OrderInv, OneCall
  <2>5. IterUnderWay /\ (Synced' <=> Synced)
    BY <1>1, <2>1, <2>2, <2>3, <2>4
       DEF Synced, AxesAnswered, IterUnderWay, IterAsked
  <2>6. /\ page.loaded /\ page.xMax = page.xMin + card - 1
        /\ card \in 1..MaxCard /\ MaxCard \in Nat /\ page.xMin \in Int
    BY <2>1, <2>3, AskedIsInRange, MaxCardAssumption DEF OrderInv, PageShape
  <2>7. vizType \in {1, 3}
    BY PlayerAssumption DEF OrderInv, PageShape
  <2>8. ~page.resetFlag => Synced
    BY <2>3, <2>5, <2>6 DEF OrderInv, ResetOvertakes, Synced, AxesAnswered
  <2>9. Synced /\ vizType = 3 => DOMAIN avgMap' = 0 .. card - 1 /\ card' = card
    <3> SUFFICES ASSUME Synced, vizType = 3
                 PROVE  DOMAIN avgMap' = 0 .. card - 1 /\ card' = card
      OBVIOUS
    <3>1. GenHistoBase
      BY <2>1
    <3>2. DOMAIN avgMap \subseteq 0 .. card - 1
      BY DEF ScreenInv, BarsFit
    <3> QED
      BY <3>1, <3>2 DEF GenHistoBase, LastGroup
  <2>10. vizType = 3 /\ ~page.resetFlag => Bars(a.gl, card)
    <3> SUFFICES ASSUME vizType = 3, ~page.resetFlag
                 PROVE  Bars(a.gl, card)
      OBVIOUS
    <3>1. card \in Nat /\ DOMAIN avgMap' = 0 .. card - 1 /\ a.gl = PackBars
      BY <2>2, <2>6, <2>8, <2>9
    <3>2. PackBars = [k \in 1 .. card |-> PackBars[k]]
      BY <3>1, PacksAllBars
    <3> QED
      BY <3>1, <3>2 DEF Bars
  <2>11. vizType = 1 => a.sl # << >>
    BY <2>2, PacksSomething
  <2>12. BarsFit'
    <3> Width' = Width /\ Width = card
      BY <1>1, <2>6 DEF Width
    <3>1. Synced' /\ vizType' = 3 => DOMAIN avgMap' \subseteq 0 .. card' - 1
      BY <1>1, <2>5, <2>9
    <3>2. vizType' = 3 /\ page'.segmentArr # << >> => Bars(page'.segmentArr, Width')
      BY <1>1 DEF ScreenInv, BarsFit
    <3>3. ~page'.resetFlag =>
            IF vizType' = 1 THEN a.sl # << >> ELSE a.sl = << >> /\ Bars(a.gl, Width')
      BY <1>1, <2>2, <2>7, <2>10, <2>11
    <3> QED
      BY <2>4, <3>1, <3>2, <3>3 DEF BarsFit
  <2> QED
    BY <2>5, <2>12, UnseenScreen
<1> QED
  BY <1>2, <1>3, <1>4

-----------------------------------------------------------------------------
(* The page draws an answer.                                               *)

\* DeliverIter, with what it does to the screen.
AcceptShown(m) ==
  /\ Accept(m)
  /\ screen' = IF ~page.playNoviz /\ ~page.simplayFlag
                 THEN Render(screen, page.xMin, page.iteration, Entry(run, ArrAfter(m)))
                 ELSE screen
  /\ page.iteration <= page.xMax
  /\ \E q : /\ SameCounts(q, page) /\ Play(q)
            /\ Draws(page) => Draws(q)
            /\ q.playFlag = page.playFlag

LEMMA DeliverIterShown ==
  ASSUME OrderInv, ScreenInv, DeliverIter
  PROVE  \E m \in DOMAIN replies :
           /\ m.op = "iter"
           /\ replies' = replies (-) SetToBag({m})
           /\ UNCHANGED << trendVars, run, vizType >>
           /\ \/ Discard(m) /\ screen' = Blank(page.xMin - 1, run)
              \/ AcceptShown(m)
<1>1. PICK m \in DOMAIN replies :
        /\ m.op = "iter"
        /\ replies' = replies (-) SetToBag({m})
        /\ UNCHANGED << trendVars, run, vizType >>
        /\ \/ Discard(m) /\ screen' = Blank(page.xMin - 1, run)
           \/ /\ ~page.resetFlag
              /\ LET i == page.iteration
                     p == [page EXCEPT !.segmentArr = ArrAfter(m),
                                     !.xMin = IF i = 1 THEN m.xMin ELSE @,
                                     !.xMax = IF i = 1 THEN m.xMax ELSE @]
                 IN /\ segmentChain' = ChainAfter(m)
                    /\ screen' = IF ~p.playNoviz /\ ~p.simplayFlag
                                   THEN Render(screen, p.xMin, i, Entry(run, ArrAfter(m)))
                                   ELSE screen
                    /\ IF i <= p.xMax
                         THEN Play([p EXCEPT !.playNoviz = @ \/ p.forwardFlag])
                         ELSE page' = p /\ UNCHANGED requests
  BY Zenon DEF DeliverIter, BagToSet, Discard, ArrAfter, ChainAfter, KeptEntry
<1>2. SUFFICES ASSUME ~(Discard(m) /\ screen' = Blank(page.xMin - 1, run))
               PROVE  AcceptShown(m)
  BY <1>1
<1> DEFINE i == page.iteration
           p == [page EXCEPT !.segmentArr = ArrAfter(m),
                             !.xMin = IF i = 1 THEN m.xMin ELSE @,
                             !.xMax = IF i = 1 THEN m.xMax ELSE @]
           q == [p EXCEPT !.playNoviz = @ \/ p.forwardFlag]
<1>3. /\ ~page.resetFlag /\ segmentChain' = ChainAfter(m)
      /\ screen' = IF ~p.playNoviz /\ ~p.simplayFlag
                     THEN Render(screen, p.xMin, i, Entry(run, ArrAfter(m)))
                     ELSE screen
      /\ IF i <= p.xMax THEN Play(q) ELSE page' = p /\ UNCHANGED requests
  BY <1>1, <1>2
<1> HIDE <1>1
<1>4. m.xMin = page.xMin /\ m.xMax = page.xMax /\ i <= page.xMax
  <2>1. IterUnderWay /\ m \in Answers /\ m.op = "iter"
    BY <1>1 DEF IterUnderWay, IterAnswered, Answers
  <2> QED
    BY <1>3, <2>1 DEF OrderInv, AxisAgrees, AskedIsCurrent
<1>5. DOMAIN page = PageFields /\ page.icon \in {"play", "pause"}
  BY DEF OrderInv, PageShape, ScreenInv, Counted
<1>6. /\ SameChart(p, page) /\ p.segmentArr = ArrAfter(m)
      /\ p.iteration = page.iteration /\ p.resetFlag = page.resetFlag
      /\ p.playFlag = page.playFlag /\ p.simplayFlag = page.simplayFlag
      /\ p.icon = page.icon
      /\ p.playIter = page.playIter /\ p.pauseIter = page.pauseIter
      /\ p.forwardIter = page.forwardIter /\ p.backwardIter = page.backwardIter
      /\ p.seekbarMax = page.seekbarMax
      /\ p.playNoviz = page.playNoviz /\ p.forwardFlag = page.forwardFlag
  BY <1>4, <1>5 DEF SameChart, PageFields
<1> HIDE DEF p
<1>7. /\ SameChart(q, page) /\ q.segmentArr = ArrAfter(m)
      /\ q.iteration = page.iteration /\ q.resetFlag = page.resetFlag
      /\ q.playFlag = page.playFlag /\ q.simplayFlag = page.simplayFlag
      /\ q.icon = page.icon
      /\ q.playIter = page.playIter /\ q.pauseIter = page.pauseIter
      /\ q.forwardIter = page.forwardIter /\ q.backwardIter = page.backwardIter
      /\ q.seekbarMax = page.seekbarMax
      /\ q.forwardFlag = page.forwardFlag
      /\ ~page.playNoviz /\ ~page.forwardFlag => ~q.playNoviz
  BY <1>6 DEF SameChart, PageFields
<1> HIDE DEF q
<1>8. Play(q) /\ Accept(m)
  <2>1. Play(q)
    BY <1>3, <1>4, <1>6 DEF SameChart
  <2> QED
    BY <1>3, <1>7, <2>1 DEF Accept
<1>9. SameCounts(q, page)
  BY <1>5, <1>7 DEF SameCounts, SameChart
<1>10. Draws(page) => Draws(q)
  BY <1>7 DEF Draws
<1>11. screen' = IF ~page.playNoviz /\ ~page.simplayFlag
                   THEN Render(screen, page.xMin, page.iteration, Entry(run, ArrAfter(m)))
                   ELSE screen
  BY <1>3, <1>6 DEF SameChart
<1> QED
  BY <1>4, <1>7, <1>8, <1>9, <1>10, <1>11 DEF AcceptShown

\* Bars overwrite bars, as many as there are.
LEMMA BarsOverwrite ==
  ASSUME NEW n \in Nat, NEW gl, Bars(gl, n), NEW arr, arr = << >> \/ Bars(arr, n)
  PROVE  Overwritten(arr, gl) = gl
<1> DEFINE T == { gl[k] : k \in 1 .. n } \cup { arr[k] : k \in 1 .. n }
<1>1. gl \in Seq(T) /\ Len(gl) = n
  BY DEF Bars
<1>2. arr \in Seq(T) /\ (Len(arr) = n \/ Len(arr) = 0)
  <2>1. CASE arr = << >>
    BY <2>1
  <2>2. CASE Bars(arr, n)
    BY <2>2 DEF Bars
  <2> QED
    BY <2>1, <2>2
<1> HIDE DEF T
<1>3. SubSeq(arr, n + 1, Len(arr)) = << >>
  BY <1>2
<1>4. gl \o << >> = gl
  BY <1>1
<1> QED
  BY <1>1, <1>3, <1>4 DEF Overwritten

LEMMA AcceptScreen ==
  ASSUME OrderInv, ScreenInv, NEW m \in DOMAIN replies, m.op = "iter",
         replies' = replies (-) SetToBag({m}),
         UNCHANGED << trendVars, run, vizType >>, AcceptShown(m)
  PROVE  ScreenInv'
<1> DEFINE i == page.iteration
           arr == ArrAfter(m)
<1>1. /\ Accept(m) /\ i <= page.xMax /\ ~page.resetFlag
      /\ segmentChain' = ChainAfter(m)
      /\ screen' = IF ~page.playNoviz /\ ~page.simplayFlag
                     THEN Render(screen, page.xMin, i, Entry(run, arr))
                     ELSE screen
  BY DEF AcceptShown, Accept
<1>2. /\ SameChart(page', page) /\ page.loaded
      /\ page'.segmentArr = arr
      /\ page'.iteration = i + 1
      /\ Answers = {m} /\ Answers' = {}
      /\ ~ResetSent /\ Calls = {}
  BY <1>1, AcceptPage
<1>3. /\ Counted(page) /\ Shows(screen) /\ run \in Nat /\ run' = run
      /\ DOMAIN segmentChain \subseteq Iters /\ i \in Int /\ i \in Iters
      /\ DOMAIN page = PageFields /\ vizType \in {1, 3}
      /\ page.xMin \in Int /\ page.xMax \in Int /\ page.xMin <= page.xMax
  BY CountersAreInt, PlayerAssumption DEF ScreenInv, OrderInv, PageShape, RunsPast
<1>4. Width \in Nat /\ Width' = Width
  BY <1>2, <1>3 DEF Width, SameChart
<1>5. IF vizType = 1 THEN m.sl # << >>
                     ELSE m.sl = << >> /\ Bars(m.gl, Width) /\ arr = m.gl
  <2>1. IF vizType = 1 THEN m.sl # << >> ELSE m.sl = << >> /\ Bars(m.gl, Width)
    BY <1>1, <1>2 DEF ScreenInv, BarsFit
  <2>2. CASE vizType = 3
    <3>1. page.segmentArr = << >> \/ Bars(page.segmentArr, Width)
      BY <2>2 DEF ScreenInv, BarsFit
    <3>2. m.sl = << >> /\ Bars(m.gl, Width)
      BY <2>1, <2>2
    <3>3. Overwritten(page.segmentArr, m.gl) = m.gl
      BY <1>4, <3>1, <3>2, BarsOverwrite
    <3> QED
      BY <2>2, <3>2, <3>3 DEF ArrAfter
  <2> QED
    BY <1>3, <2>1, <2>2
<1>6. KeptEntry(m) = [run |-> run, segs |-> arr]
  BY <1>3, <1>5 DEF KeptEntry, Entry
<1> HIDE DEF arr
<1>7. /\ DOMAIN segmentChain' = DOMAIN segmentChain \cup {i}
      /\ segmentChain'[i] = [run |-> run, segs |-> arr]
      /\ \A j \in DOMAIN segmentChain : j # i => segmentChain'[j] = segmentChain[j]
  BY <1>1, <1>6 DEF ChainAfter
<1>8. Current' = Current \cup {i}
  BY <1>3, <1>7 DEF Current
<1>9. Latest'
  <2>1. \A j \in Current : j \in Int /\ j < i
    BY <1>3 DEF ScreenInv, Latest, Current, Iters
  <2>2. \A j \in Current' : j < page'.iteration
    BY <1>2, <1>3, <1>8, <2>1
  <2>3. page'.iteration - 1 = i
    BY <1>2, <1>3
  <2> QED
    BY <1>2, <1>7, <2>2, <2>3 DEF Latest
<1>10. BarsFit'
  <2>1. Synced
    BY <1>2 DEF Synced, AxesAnswered
  <2>2. /\ vizType' = vizType /\ avgMap' = avgMap /\ card' = card
    BY DEF trendVars
  <2>3. vizType' = 3 => Bars(page'.segmentArr, Width')
    BY <1>2, <1>4, <1>5, <2>2
  <2> QED
    BY <1>2, <2>1, <2>2, <2>3 DEF ScreenInv, BarsFit
<1>11. PICK q : /\ SameCounts(q, page) /\ Play(q)
                /\ Draws(page) => Draws(q)
                /\ q.playFlag = page.playFlag
  BY DEF AcceptShown
<1>12. /\ Counted(q) /\ DOMAIN q = PageFields /\ q.iteration <= q.xMax
  BY <1>1, <1>3, <1>11, SameAreCounted DEF SameCounts
<1>13. /\ Counted(page')
       /\ \/ UNCHANGED requests
          \/ /\ page.playFlag
             /\ Draws(page) => Draws(page')
  BY <1>11, <1>12, PlayCounted, PlayDraws
<1>14. /\ Shows(screen')
       /\ \/ screen' = screen /\ ~Draws(page)
          \/ ~screen'.path /\ screen'.label = i
          \/ screen'.segs = arr /\ screen'.run = run /\ screen'.label = i
  <2>1. CASE ~page.playNoviz /\ ~page.simplayFlag
    <3>1. screen' = Render(screen, page.xMin, i, Entry(run, arr))
      BY <1>1, <2>1
    <3>2. i \notin Current
      BY <1>3 DEF ScreenInv, Latest
    <3>3. Shows(screen') /\ screen'.label = i
      BY <1>3, <3>1, <3>2, RenderShows, ItersAreLabels
    <3>4. ~screen'.path \/ (screen'.segs = arr /\ screen'.run = run)
      <4>1. CASE screen.path \/ i = page.xMin
        BY <3>1, <4>1 DEF Render, Entry
      <4>2. CASE ~(screen.path \/ i = page.xMin)
        <5>1. screen' = [screen EXCEPT !.label = i]
          BY <3>1, <4>2 DEF Render
        <5>2. screen'.path = screen.path
          BY <1>3, <5>1 DEF Shows
        <5> QED
          BY <4>2, <5>2
      <4> QED
        BY <4>1, <4>2
    <3> QED
      BY <3>3, <3>4
  <2>2. CASE ~(~page.playNoviz /\ ~page.simplayFlag)
    <3>1. screen' = screen
      BY <1>1, <2>2
    <3> QED
      BY <1>3, <2>2, <3>1 DEF Draws
  <2> QED
    BY <2>1, <2>2
<1>15. IterUnderWay
  BY <1>2 DEF IterUnderWay, IterAnswered
<1>16. WillDraw => Draws(page) \/ (~page.playFlag /\ screen.label # i)
  BY <1>1, <1>15 DEF WillDraw, Draws
<1>17. WillDraw => WillDraw'
  <2> SUFFICES ASSUME WillDraw, IterUnderWay'
               PROVE  Draws(page')
    BY DEF WillDraw, Draws
  <2>1. requests' # requests
    BY <1>2 DEF IterUnderWay, IterAsked, IterAnswered, Calls
  <2> QED
    BY <1>13, <1>16, <2>1
<1>18. WillDraw /\ LabelMatchesDrawing => LabelMatchesDrawing'
  <2> SUFFICES ASSUME WillDraw, LabelMatchesDrawing, screen'.path,
                      screen'.label \in Current'
               PROVE  /\ screen'.segs = segmentChain'[screen'.label].segs
                      /\ screen'.run = run'
    BY DEF LabelMatchesDrawing
  <2>1. CASE screen' = screen /\ ~Draws(page)
    <3>1. screen.label # i
      BY <1>16, <2>1
    <3>2. screen.label \in Current
      BY <1>8, <2>1, <3>1
    <3> QED
      BY <1>3, <1>7, <2>1, <3>1, <3>2 DEF LabelMatchesDrawing, Current
  <2>2. CASE ~screen'.path /\ screen'.label = i
    BY <2>2
  <2>3. CASE screen'.segs = arr /\ screen'.run = run /\ screen'.label = i
    BY <1>3, <1>7, <2>3
  <2> QED
    BY <1>14, <2>1, <2>2, <2>3
<1>19. Counted(page)' /\ Shows(screen)'
  BY <1>3, <1>13, <1>14 DEF Counted, Shows
<1>20. DOMAIN segmentChain' \subseteq Iters
  BY <1>3, <1>7
<1> QED
  BY <1>9, <1>10, <1>17, <1>18, <1>19, <1>20 DEF ScreenInv

-----------------------------------------------------------------------------
(* The second invariant, kept by every step.                               *)

LEMMA InitScreen == Orderly /\ Init => ScreenInv
<1> SUFFICES ASSUME Orderly, Init
             PROVE  ScreenInv
  OBVIOUS
<1>1. 0 \in Slots /\ 0 \in Iters /\ 1 \in Iters /\ MaxCard \in Nat /\ MaxCard >= 3
  BY MaxCardAssumption DEF Slots, Iters
<1>2. Counted(page)
  BY <1>1 DEF Init, Counted, Iters
<1>3. Shows(screen) /\ ~screen.path
  BY <1>1, ItersAreLabels DEF Init, Shows, Blank
<1>4. DOMAIN segmentChain = {} /\ Current = {}
  BY DEF Init, Current
<1>5. Calls = {} /\ Answers = {} /\ ~IterUnderWay
  <2>1. Idle
    BY DEF Init, Idle
  <2> QED
    BY <2>1, IdleIsQuiet DEF IterUnderWay, IterAsked, IterAnswered
<1>6. BarsFit
  BY <1>5 DEF BarsFit, Init, TrendInit
<1>7. Latest /\ WillDraw /\ LabelMatchesDrawing
  BY <1>3, <1>4, <1>5 DEF Latest, WillDraw, LabelMatchesDrawing
<1> QED
  BY <1>2, <1>3, <1>4, <1>6, <1>7 DEF ScreenInv

LEMMA NextScreen ==
  ASSUME OrderInv, ScreenInv, [Next]_vars
  PROVE  ScreenInv'
<1>1. CASE User
  BY <1>1, ClickPlayScreen, ClickPauseScreen, ClickForwardScreen, ClickBackScreen,
     DragSeekbarScreen, ClickSaveScreen, ClickRepeatScreen, VisualizeScreen
     DEF User
<1>2. CASE Serve
  BY <1>2, ServeCases, ServeScreen
<1>3. CASE Deliver
  BY <1>3, DeliverAxesScreen, DeliverIterShown, DiscardScreen, AcceptScreen DEF Deliver
<1>4. CASE LoseRequest \/ LoseReply
  BY <1>4, LossScreen
<1>5. CASE UNCHANGED vars
  <2>1. /\ UNCHANGED << page, view, run, vizType >>
        /\ UNCHANGED net /\ page' = page
        /\ card' = card /\ avgMap' = avgMap /\ vizType' = vizType
    BY <1>5 DEF vars, trendVars
  <2>2. /\ Answers' = Answers /\ (IterUnderWay' <=> IterUnderWay)
        /\ (ResetSent' <=> ResetSent) /\ (AxesAnswered' <=> AxesAnswered)
    BY <2>1, NetKept DEF OrderInv
  <2>3. BarsFit'
    BY <2>1, <2>2 DEF ScreenInv, BarsFit, Synced, Width
  <2> QED
    BY <2>1, <2>2, <2>3, UnseenScreen
<1> QED
  BY <1>1, <1>2, <1>3, <1>4, <1>5 DEF Next

LEMMA ScreenHolds == Orderly /\ Spec => [](OrderInv /\ ScreenInv)
<1>1. Orderly /\ Init => OrderInv /\ ScreenInv
  BY InitOrder, InitScreen
<1>2. OrderInv /\ ScreenInv /\ [Next]_vars => (OrderInv /\ ScreenInv)'
  BY NextOrder, NextScreen
<1> QED
  BY <1>1, <1>2, PTL DEF Spec

\* Whatever a page that waits for its answers is clicked through, and with
\* iterations lost or not, no counter of player.js but backwardIter leaves the
\* iterations of the axis by more than one step, although Forward, Back and
\* the seekbar move six of them and a reset leaves one with the value of the
\* chart before (player.js:18-358, 681-762).  backwardIter, and with it the
\* label, is only known never to pass the end: the bound MaxBack is not used.
THEOREM PlayerStaysTyped == Orderly /\ Spec => []PlayerTypeOK
<1>1. OrderInv /\ ScreenInv => PlayerTypeOK
  <2> SUFFICES ASSUME OrderInv, ScreenInv
               PROVE  PlayerTypeOK
    OBVIOUS
  <2>1. TrendTypeOK
    BY DEF OrderInv, TrendInv
  <2>2. page.xMin \in 0 .. 1 /\ vizType \in VizTypes
    BY DEF OrderInv, PageShape
  <2>3. /\ page.xMax \in 0 .. MaxCard /\ page.iteration \in Iters
        /\ page.playIter \in Iters /\ page.pauseIter \in Iters
        /\ page.forwardIter \in Iters /\ page.seekbarMax \in Iters
        /\ page.backwardIter \in Int /\ page.backwardIter <= MaxCard
        /\ page.icon \in {"play", "pause"}
    <3>1. Counted(page)
      BY DEF ScreenInv
    <3> QED
      BY <3>1, CountersAreInt DEF Counted
  <2>4. /\ screen.label \in Int /\ screen.label <= MaxCard + 1
        /\ screen.run \in 0 .. run /\ DOMAIN segmentChain \subseteq Iters
    BY DEF ScreenInv, Shows, Labels
  <2> QED
    BY <2>1, <2>2, <2>3, <2>4 DEF PlayerTypeOK
<1> QED
  BY ScreenHolds, <1>1, PTL

\* While the user leaves a playing chart alone (all but Pause and Repeat),
\* the chart under the label of an iteration that was received in this run
\* is what was received for it: no replay, pause or lost iteration leaves
\* another drawing under it (player.js:450-667).
THEOREM LabelStaysOfDrawing ==
  Orderly /\ Patience = "all" /\ Spec => []LabelMatchesDrawing
<1>1. OrderInv /\ ScreenInv /\ Patience = "all" => LabelMatchesDrawing
  BY DEF ScreenInv
<1>2. Patience = "all" => (Patience = "all")'
  OBVIOUS
<1> QED
  BY ScreenHolds, <1>1, <1>2, PTL
=============================================================================
