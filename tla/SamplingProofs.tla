--------------------------- MODULE SamplingProofs ---------------------------
(***************************************************************************)
(* For every data file, index and set of charts: between two loads no      *)
(* group is given a record twice, nor a record of another group, and the   *)
(* sampler runs past its vector only once a group is exhausted; and the    *)
(* groups marked as empty are those without records.                       *)
(*                                                                         *)
(* The inductive invariant says where the sampler stands: what a group has *)
(* drawn is as long as its position, and is a prefix of its bitmap's       *)
(* listing; a group the cache does not know has drawn nothing; and the     *)
(* buffer holds the block it is said to hold, the file being positioned    *)
(* right after it.  A second one, at the end, follows the flag that marks  *)
(* the empty groups.                                                       *)
(***************************************************************************)
EXTENDS Sampling, FiniteSetTheorems, TLAPS

FileBlocks == 0 .. NumBlocks - 1
MapState   == [samples : Seq(Records), sampled : Nat, empty : BOOLEAN]

SamplingType ==
  /\ chart \in Charts \cup {NoChart}
  /\ maps \in [Ids -> MapState]
  /\ mapSwiftMap \in [Keys -> {<< >>} \cup { c.dims : c \in Charts }]
  /\ drawn \in [Keys -> Seq(Records)]
  /\ asked \in [Keys -> Int]
  /\ left \in Int

\* The loop is at one of its groups, whose bitmap is in the cache.
LoopState ==
  /\ todo \subseteq Groups(chart.dims)
  /\ call # "idle" => chart # NoChart
  /\ call = "idle" => todo = {}
  /\ active \in todo \cup {<< >>}
  /\ active # << >> => mapSwiftMap[active] # << >>

BufferHonest ==
  /\ buffer \in [idx : {NoBlock} \cup FileBlocks, block : {NoBlock} \cup FileBlocks,
                 pos : 0 .. NumBlocks]
  /\ buffer.idx # NoBlock => buffer.block = buffer.idx /\ buffer.pos = buffer.idx + 1
  /\ stopped # "assert"

\* The position of a group, and what it has drawn so far.
PositionOf(g) ==
  LET m == maps[<< chart.dims, g >>]
      S == Bits(chart.dims, g)
  IN  /\ mapSwiftMap[g] = chart.dims
      /\ m.sampled = Len(drawn[g])
      /\ Len(drawn[g]) <= Cardinality(S)
      /\ Len(drawn[g]) > 0 => m.samples = ToArray[S]
      /\ \A i \in 1 .. Len(drawn[g]) : drawn[g][i] = ToArray[S][i]

Positions ==
  \A g \in Keys :
    IF mapSwiftMap[g] = << >> THEN drawn[g] = << >>
                              ELSE g \in Groups(chart.dims) /\ PositionOf(g)

\* A query's demand was counted before its first record was drawn.
AskedInTime ==
  /\ \A g \in Keys : asked[g] >= Len(drawn[g]) + (IF g = active THEN left ELSE 0)
  /\ stopped = "pastEnd" =>
       /\ active # << >> /\ left > 0
       /\ Len(drawn[active]) = Cardinality(Bits(chart.dims, active))

SamplingInv == /\ SamplingType /\ LoopState /\ BufferHonest
               /\ Positions /\ AskedInTime

-----------------------------------------------------------------------------
(* Facts about the constants.                                              *)

\* A group of a chart is a key of the cache and has a bitmap.
LEMMA GroupsAreKeys ==
  ASSUME NEW c \in Charts, NEW g \in Groups(c.dims)
  PROVE  /\ g \in Keys /\ << c.dims, g >> \in Ids /\ c.dims # << >> /\ g # << >>
         /\ Bits(c.dims, g) \in SUBSET Records
<1>1. g \in Keys /\ << c.dims, g >> \in Ids
  BY DEF Keys, Ids
<1>2. c.dims \in Seq(Attrs) /\ Len(c.dims) \in {1, 2}
  BY SamplingAssumption
<1>3. c.dims # << >>
  BY <1>2
<1>4. DOMAIN g = DOMAIN c.dims /\ 1 \in DOMAIN c.dims
  BY <1>2 DEF Groups
<1>5. g # << >>
  BY <1>4
<1>. QED BY <1>1, <1>3, <1>5 DEF Bits

\* Every set of records is finite, and so is the file.
LEMMA RecordsFinite ==
  /\ IsFiniteSet(Records) /\ Cardinality(Records) \in Nat \ {0}
  /\ \A S \in SUBSET Records : IsFiniteSet(S) /\ Cardinality(S) \in Nat
<1>1. IsFiniteSet(0 .. NumBlocks - 1) /\ IsFiniteSet(0 .. PerBlock - 1)
  BY FS_Interval, SamplingAssumption
<1>2. IsFiniteSet(Records)
  BY <1>1, FS_Product DEF Records
<1>3. \A S \in SUBSET Records : IsFiniteSet(S) /\ Cardinality(S) \in Nat
  BY <1>2, FS_Subset, FS_CardinalityType
<1>4. << 0, 0 >> \in Records
  BY SamplingAssumption DEF Records
<1>5. Cardinality(Records) # 0
  BY <1>2, <1>4, FS_EmptySet
<1>. QED BY <1>2, <1>3, <1>5

\* A query asks for a whole number of records.
LEMMA ConvSamplesType ==
  ASSUME NEW g, chart \in Charts  PROVE ConvSamples(g) \in Int
<1>1. \A a, v : Count(a, v) \in Nat
  BY RecordsFinite DEF Count
<1>2. Pages \in Nat \ {0} /\ Blocks[chart] \in Nat
  BY SamplingAssumption
<1>3. Cardinality(Records) * Pages \in Nat \ {0}
  <2>. DEFINE C == Cardinality(Records)
  <2>1. C \in Nat \ {0}
    BY RecordsFinite
  <2>. HIDE DEF C
  <2>2. C * Pages \in Nat \ {0}
    BY <2>1, <1>2
  <2>. QED BY <2>2 DEF C
<1>4. \A m \in Nat, n \in Nat \ {0} : m \div n \in Int /\ CeilDiv(m, n) \in Int
  BY DEF CeilDiv
<1>5. \A m, n \in Nat : m * n \in Nat
  OBVIOUS
<1>6. PerPage(g) \in Int
  BY <1>1, <1>2, <1>3, <1>4, <1>5 DEF PerPage
<1>7. \A m, n \in Int : m * n \in Int
  OBVIOUS
<1>. QED BY <1>6, <1>7, <1>2 DEF ConvSamples

\* The block that is asked for ends up in the buffer, and no read fails.
LEMMA FetchedIsAsked ==
  ASSUME BufferHonest, NEW b \in FileBlocks
  PROVE  ~ReadFails(b) /\ Fetched(b) = [idx |-> b, block |-> b, pos |-> b + 1]
<1>1. ReadAt(b) = b \/ b = buffer.idx
  BY SamplingAssumption DEF ReadAt, BufferHonest, FileBlocks, NoBlock
<1>2. ~ReadFails(b)
  BY <1>1, SamplingAssumption DEF ReadFails, FileBlocks
<1>3. CASE b = buffer.idx
  <2>1. Fetched(b) = buffer
    BY <1>2, <1>3 DEF Fetched
  <2>2. buffer = [idx |-> buffer.idx, block |-> buffer.block, pos |-> buffer.pos]
    BY DEF BufferHonest
  <2>3. b # NoBlock
    BY DEF FileBlocks, NoBlock
  <2>4. buffer.block = b /\ buffer.pos = b + 1
    BY <1>3, <2>3 DEF BufferHonest
  <2>. QED BY <1>2, <1>3, <2>1, <2>2, <2>4
<1>4. CASE b # buffer.idx
  BY <1>1, <1>2, <1>4 DEF Fetched
<1>. QED BY <1>2, <1>3, <1>4

\* What is known of the group that is being sampled.
LEMMA ActiveGroup ==
  ASSUME SamplingInv, active # << >>
  PROVE  /\ chart \in Charts /\ active \in Groups(chart.dims) /\ active \in Keys
         /\ Map = << chart.dims, active >> /\ Map \in Ids
         /\ Bits(chart.dims, active) \in SUBSET Records
         /\ PositionOf(active)
<1>1. active \in Groups(chart.dims) /\ call # "idle" /\ mapSwiftMap[active] # << >>
  BY DEF SamplingInv, LoopState
<1>2. chart \in Charts
  BY <1>1 DEF SamplingInv, SamplingType, LoopState
<1>3. /\ active \in Keys /\ << chart.dims, active >> \in Ids
      /\ Bits(chart.dims, active) \in SUBSET Records
  BY <1>1, <1>2, GroupsAreKeys
<1>4. PositionOf(active)
  BY <1>1, <1>3 DEF SamplingInv, Positions
<1>5. mapSwiftMap[active] = chart.dims
  BY <1>4 DEF PositionOf
<1>. QED BY <1>1, <1>2, <1>3, <1>4, <1>5 DEF Map

\* What the sampler reads from: the listing of the group's bitmap.
LEMMA ListedIsListing ==
  ASSUME SamplingInv, active # << >>
  PROVE  /\ Listed = ToArray[Bits(chart.dims, active)]
         /\ Listed \in Seq(Records)
         /\ Len(Listed) = Cardinality(Bits(chart.dims, active))
         /\ \A i \in 1 .. Len(Listed) : Listed[i] \in Bits(chart.dims, active)
<1>. DEFINE S == Bits(chart.dims, active)
<1>1. /\ S \in SUBSET Records /\ PositionOf(active)
      /\ Map = << chart.dims, active >> /\ active \in Keys
  BY ActiveGroup
<1>2. drawn[active] \in Seq(Records)
  BY <1>1 DEF SamplingInv, SamplingType
<1>3. Listed = ToArray[S]
  BY <1>1, <1>2 DEF Listed, PositionOf
<1>4. Cardinality(S) \in Nat /\ ToArray[S] \in [1 .. Cardinality(S) -> S]
  BY <1>1, ToArrayAssumption, RecordsFinite
<1>. HIDE DEF S
<1>5. ToArray[S] \in Seq(Records) /\ Len(ToArray[S]) = Cardinality(S)
  BY <1>1, <1>4
<1>. QED BY <1>3, <1>4, <1>5 DEF S

-----------------------------------------------------------------------------
(* The invariant is inductive.                                             *)

LEMMA InitSampling == Init => SamplingInv
<1>. SUFFICES ASSUME Init PROVE SamplingInv
  OBVIOUS
<1>1. SamplingType
  BY DEF Init, SamplingType, MapState
<1>2. LoopState
  BY DEF Init, LoopState
<1>3. BufferHonest
  BY SamplingAssumption DEF Init, BufferHonest, NoBlock
<1>4. Positions
  BY DEF Init, Positions
<1>5. AskedInTime
  BY DEF Init, AskedInTime
<1>. QED BY <1>1, <1>2, <1>3, <1>4, <1>5 DEF SamplingInv

LEMMA LoadKeepsSampling ==
  ASSUME SamplingInv, NEW c \in Charts, Load(c) PROVE SamplingInv'
<1>. USE DEF SamplingInv, Load, Idle, ClearedIndex
<1>1. SamplingType'
  BY DEF SamplingType
<1>2. LoopState'
  BY DEF LoopState
<1>3. BufferHonest'
  BY DEF BufferHonest
<1>4. Positions'
  BY DEF Positions
<1>5. AskedInTime'
  <2>1. todo = {} /\ active = << >>
    BY DEF LoopState
  <2>2. \A g \in Keys : g # << >>
    BY GroupsAreKeys DEF Keys
  <2>. QED BY <2>1, <2>2 DEF AskedInTime
<1>. QED BY <1>1, <1>2, <1>3, <1>4, <1>5

\* The actions that leave the sampler alone.
LEMMA ControlKeepsSampling ==
  ASSUME SamplingInv,
         Reset \/ (\E kind \in {"first", "next", "base"} : Start(kind)) \/ EndCall
  PROVE  SamplingInv'
<1>. USE DEF SamplingInv, index, history
<1>1. UNCHANGED << chart, active, left, maps, mapSwiftMap, buffer, stopped,
                   drawn, asked >>
  BY DEF Reset, Start, EndCall
<1>2. SamplingType'
  BY <1>1 DEF SamplingType
<1>3. LoopState'
  <2>1. CASE Reset
    BY <2>1 DEF Reset, Idle, LoopState
  <2>2. CASE EndCall
    BY <2>2 DEF EndCall, LoopState
  <2>3. ASSUME NEW kind \in {"first", "next", "base"}, Start(kind) PROVE LoopState'
    BY <2>3 DEF Start, Idle, LoopState
  <2>. QED BY <2>1, <2>2, <2>3
<1>4. BufferHonest'
  BY <1>1 DEF BufferHonest
<1>5. Positions'
  BY <1>1 DEF Positions, PositionOf
<1>6. AskedInTime'
  BY <1>1 DEF AskedInTime
<1>. QED BY <1>2, <1>3, <1>4, <1>5, <1>6

LEMMA RunQueryKeepsSampling ==
  ASSUME SamplingInv, RunQuery PROVE SamplingInv'
<1>1. PICK g \in todo :
        /\ active' = g
        /\ left' = ConvSamples(g)
        /\ asked' = [asked EXCEPT ![g] = @ + ConvSamples(g)]
        /\ IF mapSwiftMap[g] = << >> THEN FirstLookup(g) ELSE UNCHANGED << maps, mapSwiftMap >>
  BY DEF RunQuery
<1>2. UNCHANGED << chart, call, todo, buffer, stopped, drawn >> /\ active = << >> /\ stopped = "no"
  BY DEF RunQuery, engine
<1>3. call # "idle" /\ chart \in Charts /\ g \in Groups(chart.dims)
  BY DEF SamplingInv, LoopState, SamplingType
<1>4. /\ g \in Keys /\ << chart.dims, g >> \in Ids /\ chart.dims # << >> /\ g # << >>
      /\ Bits(chart.dims, g) \in SUBSET Records
  BY <1>3, GroupsAreKeys
<1>5. ConvSamples(g) \in Int
  BY <1>3, ConvSamplesType
<1>8. AskedInTime'
  <2>. DEFINE n == ConvSamples(g)
  <2>1. \A h \in Keys : Len(drawn[h]) \in Nat /\ asked[h] \in Int /\ left \in Int
    BY DEF SamplingInv, SamplingType
  <2>2. \A h \in Keys : asked[h] >= Len(drawn[h])
    <3>1. \A h \in Keys : h # << >>
      BY GroupsAreKeys DEF Keys
    <3>. QED BY <1>2, <2>1, <3>1 DEF SamplingInv, AskedInTime
  <2>3. /\ n \in Int /\ left' = n
        /\ asked'[g] = asked[g] + n /\ \A h \in Keys \ {g} : asked'[h] = asked[h]
    BY <1>1, <1>4, <1>5 DEF SamplingInv, SamplingType
  <2>. HIDE DEF n
  <2>4. ASSUME NEW h \in Keys
        PROVE  asked'[h] >= Len(drawn[h]) + (IF h = g THEN n ELSE 0)
    <3>1. CASE h = g
      BY <1>4, <2>1, <2>2, <2>3, <3>1
    <3>2. CASE h # g
      BY <2>1, <2>2, <2>3, <3>2
    <3>. QED BY <3>1, <3>2
  <2>. QED BY <1>1, <1>2, <2>3, <2>4 DEF AskedInTime
<1>6. CASE mapSwiftMap[g] = << >>
  <2>. DEFINE id == << chart.dims, g >>
              m  == IF Len(chart.dims) = 1 THEN maps[id]
                      ELSE [samples |-> << >>, sampled |-> 0, empty |-> FALSE]
  <2>1. /\ mapSwiftMap' = [mapSwiftMap EXCEPT ![g] = chart.dims]
        /\ maps' = [maps EXCEPT ![id] = [m EXCEPT !.sampled = 0]]
    BY <1>1, <1>6 DEF FirstLookup
  <2>2. m \in MapState
    BY <1>4 DEF SamplingInv, SamplingType, MapState
  <2>. HIDE DEF m
  <2>3. [m EXCEPT !.sampled = 0] \in MapState /\ [m EXCEPT !.sampled = 0].sampled = 0
    BY <2>2 DEF MapState
  <2>. DEFINE n == [m EXCEPT !.sampled = 0]
  <2>4. n \in MapState /\ n.sampled = 0 /\ maps' = [maps EXCEPT ![id] = n]
    BY <2>1, <2>3
  <2>. HIDE DEF n
  <2>5. SamplingType'
    BY <1>1, <1>2, <1>3, <1>4, <1>5, <2>1, <2>4 DEF SamplingInv, SamplingType
  <2>6. LoopState'
    BY <1>1, <1>2, <1>3, <1>4, <2>1 DEF SamplingInv, SamplingType, LoopState
  <2>7. BufferHonest'
    BY <1>2 DEF SamplingInv, BufferHonest
  <2>8. Positions'
    <3>. SUFFICES ASSUME NEW h \in Keys, mapSwiftMap'[h] # << >>
                  PROVE  h \in Groups(chart.dims) /\ PositionOf(h)'
      <4>1. \A h \in Keys : mapSwiftMap'[h] = << >> => mapSwiftMap[h] = << >>
        BY <1>4, <2>1 DEF SamplingInv, SamplingType
      <4>. QED BY <4>1, <1>2 DEF Positions, SamplingInv
    <3>1. CASE h = g
      <4>1. drawn'[h] = << >> /\ Len(drawn'[h]) = 0
        BY <1>2, <1>4, <1>6, <3>1 DEF SamplingInv, Positions
      <4>2. maps'[<< chart.dims, h >>].sampled = 0
        BY <1>4, <2>4, <3>1 DEF SamplingInv, SamplingType
      <4>3. mapSwiftMap'[h] = chart.dims
        BY <1>4, <2>1, <3>1 DEF SamplingInv, SamplingType
      <4>4. Cardinality(Bits(chart.dims, h)) \in Nat
        BY <1>4, <3>1, RecordsFinite
      <4>. QED BY <1>2, <1>3, <3>1, <4>1, <4>2, <4>3, <4>4 DEF PositionOf
    <3>2. CASE h # g
      <4>1. mapSwiftMap'[h] = mapSwiftMap[h] /\ drawn'[h] = drawn[h]
        BY <1>2, <2>1, <3>2 DEF SamplingInv, SamplingType
      <4>2. h \in Groups(chart.dims) /\ PositionOf(h)
        BY <4>1 DEF SamplingInv, Positions
      <4>3. maps'[<< chart.dims, h >>] = maps[<< chart.dims, h >>]
        BY <1>3, <3>2, <4>2, <2>1, GroupsAreKeys DEF SamplingInv, SamplingType
      <4>. QED BY <1>2, <4>1, <4>2, <4>3 DEF PositionOf
    <3>. QED BY <3>1, <3>2
  <2>. QED BY <2>5, <2>6, <2>7, <2>8, <1>8 DEF SamplingInv
<1>7. CASE mapSwiftMap[g] # << >>
  <2>1. UNCHANGED << maps, mapSwiftMap >>
    BY <1>1, <1>7
  <2>2. SamplingType'
    BY <1>1, <1>2, <1>4, <1>5, <2>1 DEF SamplingInv, SamplingType
  <2>3. LoopState'
    BY <1>1, <1>2, <1>7, <2>1 DEF SamplingInv, LoopState
  <2>4. BufferHonest'
    BY <1>2 DEF SamplingInv, BufferHonest
  <2>5. Positions'
    BY <1>2, <2>1 DEF SamplingInv, Positions, PositionOf
  <2>. QED BY <2>2, <2>3, <2>4, <2>5, <1>8 DEF SamplingInv
<1>. QED BY <1>6, <1>7

LEMMA SampleRecordKeepsSampling ==
  ASSUME SamplingInv, SampleRecord PROVE SamplingInv'
<1>. DEFINE S  == Bits(chart.dims, active)
            id == << chart.dims, active >>
            k  == Len(drawn[active])
            r  == Listed[k + 1]
<1>1. /\ active # << >> /\ left > 0 /\ stopped = "no"
      /\ UNCHANGED << chart, call, todo, active, mapSwiftMap, asked >>
      /\ left' = left - 1
  BY DEF SampleRecord, Sampling, engine
<1>2. /\ chart \in Charts /\ active \in Groups(chart.dims) /\ active \in Keys
      /\ Map = id /\ id \in Ids /\ S \in SUBSET Records /\ PositionOf(active)
  BY <1>1, ActiveGroup
<1>3. /\ Listed = ToArray[S] /\ Listed \in Seq(Records) /\ Len(Listed) = Cardinality(S)
      /\ \A i \in 1 .. Len(Listed) : Listed[i] \in S
  BY <1>1, ListedIsListing
<1>4. maps[id].sampled = k /\ k \in Nat /\ k < Len(Listed)
  BY <1>2 DEF SamplingInv, SamplingType, PositionOf, SampleRecord
<1>5. r \in S /\ r \in Records /\ r = ToArray[S][k + 1]
  BY <1>2, <1>3, <1>4
<1>6. r[1] \in FileBlocks /\ r = << r[1], r[2] >>
  BY <1>5 DEF Records, FileBlocks
<1>7. ~ReadFails(r[1]) /\ Fetched(r[1]) = [idx |-> r[1], block |-> r[1], pos |-> r[1] + 1]
  BY <1>6, FetchedIsAsked DEF SamplingInv
<1>8. /\ maps' = [maps EXCEPT ![id] = [samples |-> Listed, sampled |-> k + 1, empty |-> FALSE]]
      /\ buffer' = Fetched(r[1])
      /\ stopped' = IF ReadFails(r[1]) THEN "assert" ELSE "no"
      /\ drawn' = [drawn EXCEPT ![active] = Append(@, << buffer'.block, r[2] >>)]
  BY <1>2, <1>4 DEF SampleRecord
<1>. HIDE DEF r
<1>9. stopped' = "no" /\ drawn' = [drawn EXCEPT ![active] = Append(@, r)]
  <2>1. stopped' = "no" /\ buffer'.block = r[1]
    BY <1>7, <1>8
  <2>. QED BY <1>6, <1>8, <2>1
<1>10. /\ drawn \in [Keys -> Seq(Records)] /\ maps \in [Ids -> MapState]
  BY DEF SamplingInv, SamplingType
<1>11. /\ drawn'[active] = Append(drawn[active], r)
       /\ \A h \in Keys \ {active} : drawn'[h] = drawn[h]
       /\ Len(drawn'[active]) = k + 1
  BY <1>2, <1>5, <1>9, <1>10
<1>12. SamplingType'
  <2>1. [samples |-> Listed, sampled |-> k + 1, empty |-> FALSE] \in MapState
    BY <1>3, <1>4 DEF MapState
  <2>2. drawn' \in [Keys -> Seq(Records)]
    BY <1>2, <1>5, <1>9, <1>10
  <2>. QED BY <1>1, <1>2, <1>8, <2>1, <2>2 DEF SamplingInv, SamplingType
<1>13. LoopState'
  BY <1>1 DEF SamplingInv, LoopState
<1>14. BufferHonest'
  BY <1>6, <1>7, <1>8, <1>9, SamplingAssumption DEF BufferHonest, FileBlocks
<1>15. Positions'
  <2>. SUFFICES ASSUME NEW h \in Keys, mapSwiftMap[h] # << >>
                PROVE  h \in Groups(chart.dims) /\ PositionOf(h)'
    <3>1. mapSwiftMap[active] = chart.dims /\ chart.dims # << >>
      BY <1>2, GroupsAreKeys DEF PositionOf
    <3>. QED BY <1>1, <1>11, <3>1 DEF SamplingInv, Positions
  <2>1. h \in Groups(chart.dims) /\ PositionOf(h)
    BY DEF SamplingInv, Positions
  <2>2. CASE h = active
    <3>1. /\ maps'[id].sampled = k + 1 /\ maps'[id].samples = ToArray[S]
      BY <1>2, <1>3, <1>8, <1>10
    <3>2. \A i \in 1 .. k + 1 : drawn'[active][i] = ToArray[S][i]
      <4>1. \A i \in 1 .. k : drawn'[active][i] = ToArray[S][i]
        BY <1>2, <1>4, <1>5, <1>10, <1>11 DEF PositionOf
      <4>2. drawn'[active][k + 1] = ToArray[S][k + 1]
        BY <1>2, <1>4, <1>5, <1>10, <1>11
      <4>. QED BY <1>4, <4>1, <4>2
    <3>3. k + 1 <= Cardinality(S)
      BY <1>2, <1>3, <1>4, RecordsFinite
    <3>. QED BY <1>1, <1>2, <1>11, <2>1, <2>2, <3>1, <3>2, <3>3 DEF PositionOf
  <2>3. CASE h # active
    <3>1. maps'[<< chart.dims, h >>] = maps[<< chart.dims, h >>]
      BY <1>2, <1>8, <1>10, <2>1, <2>3, GroupsAreKeys
    <3>. QED BY <1>1, <1>11, <2>1, <2>3, <3>1 DEF PositionOf
  <2>. QED BY <2>2, <2>3
<1>16. AskedInTime'
  <2>1. \A h \in Keys : Len(drawn[h]) \in Nat /\ asked[h] \in Int /\ left \in Int
    BY <1>10 DEF SamplingInv, SamplingType
  <2>2. \A h \in Keys : asked[h] >= Len(drawn[h]) + (IF h = active THEN left ELSE 0)
    BY DEF SamplingInv, AskedInTime
  <2>. QED BY <1>1, <1>2, <1>9, <1>11, <2>1, <2>2 DEF AskedInTime
<1>. QED BY <1>12, <1>13, <1>14, <1>15, <1>16 DEF SamplingInv

LEMMA SampleNothingKeepsSampling ==
  ASSUME SamplingInv, SampleNothing PROVE SamplingInv'
<1>. DEFINE S  == Bits(chart.dims, active)
            id == << chart.dims, active >>
            m  == [samples |-> << >>, sampled |-> maps[id].sampled, empty |-> TRUE]
<1>1. /\ active # << >> /\ left > 0 /\ stopped = "no" /\ Listed = << >> /\ left' = 0
      /\ UNCHANGED << chart, call, todo, active, mapSwiftMap, drawn, asked >>
      /\ buffer' = Fetched(0) /\ stopped' = IF ReadFails(0) THEN "assert" ELSE "no"
  BY DEF SampleNothing, Sampling, engine, history
<1>2. /\ chart \in Charts /\ active \in Groups(chart.dims) /\ active \in Keys
      /\ Map = id /\ id \in Ids /\ S \in SUBSET Records /\ PositionOf(active)
  BY <1>1, ActiveGroup
<1>3. Cardinality(S) = 0
  BY <1>1, ListedIsListing
<1>4. 0 \in FileBlocks
  BY SamplingAssumption DEF FileBlocks
<1>5. ~ReadFails(0) /\ Fetched(0) = [idx |-> 0, block |-> 0, pos |-> 1]
  BY <1>4, FetchedIsAsked DEF SamplingInv
<1>6. /\ drawn \in [Keys -> Seq(Records)] /\ maps \in [Ids -> MapState]
  BY DEF SamplingInv, SamplingType
<1>7. maps' = [maps EXCEPT ![id] = m] /\ m \in MapState /\ m.sampled = maps[id].sampled
  <2>1. maps' = [maps EXCEPT ![id] = m]
    BY <1>2, <1>6 DEF SampleNothing
  <2>2. maps[id] \in MapState /\ maps[id].sampled \in Nat
    BY <1>2, <1>6 DEF MapState
  <2>3. << >> \in Seq(Records)
    OBVIOUS
  <2>4. m \in MapState /\ m.sampled = maps[id].sampled
    BY <2>2, <2>3 DEF MapState
  <2>. QED BY <2>1, <2>4
<1>. HIDE DEF m
<1>8. SamplingType'
  BY <1>1, <1>2, <1>7 DEF SamplingInv, SamplingType
<1>9. LoopState'
  BY <1>1 DEF SamplingInv, LoopState
<1>10. BufferHonest'
  BY <1>1, <1>4, <1>5, SamplingAssumption DEF BufferHonest, FileBlocks
<1>11. Positions'
  <2>. SUFFICES ASSUME NEW h \in Keys, mapSwiftMap[h] # << >>
                PROVE  h \in Groups(chart.dims) /\ PositionOf(h)'
    BY <1>1 DEF SamplingInv, Positions
  <2>1. h \in Groups(chart.dims) /\ PositionOf(h)
    BY DEF SamplingInv, Positions
  <2>2. CASE h = active
    <3>1. Len(drawn[active]) = 0
      BY <1>2, <1>3, <1>6 DEF PositionOf
    <3>2. maps'[id].sampled = maps[id].sampled
      BY <1>2, <1>6, <1>7
    <3>. QED BY <1>1, <1>2, <2>1, <2>2, <3>1, <3>2 DEF PositionOf
  <2>3. CASE h # active
    <3>1. maps'[<< chart.dims, h >>] = maps[<< chart.dims, h >>]
      BY <1>2, <1>6, <1>7, <2>1, <2>3, GroupsAreKeys
    <3>. QED BY <1>1, <2>1, <2>3, <3>1 DEF PositionOf
  <2>. QED BY <2>2, <2>3
<1>12. AskedInTime'
  <2>1. \A h \in Keys : Len(drawn[h]) \in Nat /\ asked[h] \in Int /\ left \in Int
    BY <1>6 DEF SamplingInv, SamplingType
  <2>. QED BY <1>1, <1>5, <2>1 DEF SamplingInv, AskedInTime
<1>. QED BY <1>8, <1>9, <1>10, <1>11, <1>12 DEF SamplingInv

LEMMA PastEndKeepsSampling ==
  ASSUME SamplingInv, SamplePastEnd PROVE SamplingInv'
<1>1. /\ active # << >> /\ left > 0 /\ stopped' = "pastEnd"
      /\ UNCHANGED << chart, call, todo, active, left, maps, mapSwiftMap, buffer,
                      drawn, asked >>
  BY DEF SamplePastEnd, Sampling, engine, index, history
<1>2. Len(drawn[active]) = Cardinality(Bits(chart.dims, active))
  <2>. DEFINE S == Bits(chart.dims, active)
  <2>1. PositionOf(active) /\ Map = << chart.dims, active >> /\ active \in Keys
        /\ S \in SUBSET Records
    BY <1>1, ActiveGroup
  <2>2. Len(Listed) = Cardinality(S)
    BY <1>1, ListedIsListing
  <2>3. drawn[active] \in Seq(Records) /\ Cardinality(S) \in Nat
    BY <2>1, RecordsFinite DEF SamplingInv, SamplingType
  <2>. HIDE DEF S
  <2>4. Len(drawn[active]) >= Cardinality(S) /\ Len(drawn[active]) <= Cardinality(S)
    BY <2>1, <2>2 DEF SamplePastEnd, PositionOf, S
  <2>. QED BY <2>3, <2>4 DEF S
<1>3. SamplingType' /\ LoopState'
  BY <1>1 DEF SamplingInv, SamplingType, LoopState
<1>4. BufferHonest'
  BY <1>1 DEF SamplingInv, BufferHonest
<1>5. Positions'
  BY <1>1 DEF SamplingInv, Positions, PositionOf
<1>6. AskedInTime'
  BY <1>1, <1>2 DEF SamplingInv, AskedInTime
<1>. QED BY <1>3, <1>4, <1>5, <1>6 DEF SamplingInv

LEMMA FinishKeepsSampling ==
  ASSUME SamplingInv, FinishQuery PROVE SamplingInv'
<1>1. /\ active # << >> /\ active' = << >> /\ todo' = todo \ {active} /\ left = 0
      /\ stopped = "no"
      /\ UNCHANGED << chart, call, left, maps, mapSwiftMap, buffer, stopped, drawn, asked >>
  BY DEF FinishQuery, history
<1>2. SamplingType'
  BY <1>1 DEF SamplingInv, SamplingType
<1>3. LoopState'
  BY <1>1 DEF SamplingInv, LoopState
<1>4. BufferHonest'
  BY <1>1 DEF SamplingInv, BufferHonest
<1>5. Positions'
  BY <1>1 DEF SamplingInv, Positions, PositionOf
<1>6. AskedInTime'
  <2>1. \A h \in Keys : Len(drawn[h]) \in Nat /\ asked[h] \in Int
    BY DEF SamplingInv, SamplingType
  <2>. QED BY <1>1, <2>1 DEF SamplingInv, AskedInTime
<1>. QED BY <1>2, <1>3, <1>4, <1>5, <1>6 DEF SamplingInv

\* The sampler's position, list and buffer agree at every moment, in whatever
\* order charts are loaded, reset and sampled (swift_index.cc, swift_map.cc).
THEOREM SamplingInvariant == Spec => []SamplingInv
<1>1. Init => SamplingInv
  BY InitSampling
<1>2. SamplingInv /\ [Next]_vars => SamplingInv'
  <2>. SUFFICES ASSUME SamplingInv, [Next]_vars PROVE SamplingInv'
    OBVIOUS
  <2>1. ASSUME NEW c \in Charts, Load(c) PROVE SamplingInv'
    BY <2>1, LoadKeepsSampling
  <2>2. CASE Reset \/ (\E kind \in {"first", "next", "base"} : Start(kind)) \/ EndCall
    BY <2>2, ControlKeepsSampling
  <2>3. CASE RunQuery
    BY <2>3, RunQueryKeepsSampling
  <2>4. CASE SampleRecord
    BY <2>4, SampleRecordKeepsSampling
  <2>5. CASE SampleNothing
    BY <2>5, SampleNothingKeepsSampling
  <2>6. CASE SamplePastEnd
    BY <2>6, PastEndKeepsSampling
  <2>7. CASE FinishQuery
    BY <2>7, FinishKeepsSampling
  <2>8. CASE UNCHANGED vars
    BY <2>8 DEF vars, engine, index, history, SamplingInv, SamplingType, LoopState,
                BufferHonest, Positions, PositionOf, AskedInTime
  <2>. QED BY <2>1, <2>2, <2>3, <2>4, <2>5, <2>6, <2>7, <2>8 DEF Next
<1>. QED BY <1>1, <1>2, PTL DEF Spec

-----------------------------------------------------------------------------
(* What follows from it.                                                   *)

\* No group is given a record of another group, or a record twice, between
\* two loads, whatever the file and the charts are (swift_index.cc run_query,
\* swift_map.cc sequential_sample, sdb.cc get_record).
THEOREM DrawsStayFresh == Spec => []DrawsAreFresh
<1>1. SamplingInv => DrawsAreFresh
  <2>. SUFFICES ASSUME SamplingInv, NEW g \in Keys
                PROVE  /\ \A i \in DOMAIN drawn[g] : drawn[g][i] \in Bits(chart.dims, g)
                       /\ \A i, j \in DOMAIN drawn[g] :
                            drawn[g][i] = drawn[g][j] => i = j
    BY DEF SamplingInv, BufferHonest, DrawsAreFresh
  <2>. DEFINE S == Bits(chart.dims, g)
  <2>1. drawn[g] \in Seq(Records)
    BY DEF SamplingInv, SamplingType
  <2>2. CASE mapSwiftMap[g] = << >>
    <3>1. drawn[g] = << >>
      BY <2>2 DEF SamplingInv, Positions
    <3>2. DOMAIN drawn[g] = {}
      BY <3>1
    <3>. QED BY <3>2
  <2>3. CASE mapSwiftMap[g] # << >>
    <3>1. PositionOf(g)
      BY <2>3 DEF SamplingInv, Positions
    <3>2. S \in SUBSET Records /\ Cardinality(S) \in Nat
      BY RecordsFinite DEF Bits
    <3>3. /\ ToArray[S] \in [1 .. Cardinality(S) -> S]
          /\ \A i, j \in 1 .. Cardinality(S) : ToArray[S][i] = ToArray[S][j] => i = j
      BY <3>2, ToArrayAssumption
    <3>4. \A i \in DOMAIN drawn[g] :
            i \in 1 .. Cardinality(S) /\ drawn[g][i] = ToArray[S][i]
      BY <2>1, <3>1, <3>2 DEF PositionOf
    <3>. HIDE DEF S
    <3>5. \A i \in DOMAIN drawn[g] : drawn[g][i] \in S
      BY <3>3, <3>4
    <3>6. \A i, j \in DOMAIN drawn[g] : drawn[g][i] = drawn[g][j] => i = j
      BY <3>3, <3>4
    <3>. QED BY <3>5, <3>6 DEF S
  <2>. QED BY <2>2, <2>3
<1>. QED BY <1>1, SamplingInvariant, PTL

\* The sampler runs past its vector only for a group that was asked for more
\* than it has since the load (swift_map.cc sequential_sample).
THEOREM PastEndOnlyExhausted == Spec => []PastEndMeansExhausted
<1>1. SamplingInv => PastEndMeansExhausted
  <2>. SUFFICES ASSUME SamplingInv, stopped = "pastEnd"
                PROVE  asked[active] > Cardinality(Bits(chart.dims, active))
    BY DEF PastEndMeansExhausted
  <2>1. /\ active # << >> /\ left > 0
        /\ Len(drawn[active]) = Cardinality(Bits(chart.dims, active))
    BY DEF SamplingInv, AskedInTime
  <2>2. active \in Keys
    BY <2>1, ActiveGroup
  <2>3. asked[active] >= Len(drawn[active]) + left
    BY <2>2 DEF SamplingInv, AskedInTime
  <2>4. Len(drawn[active]) \in Nat /\ asked[active] \in Int /\ left \in Int
    BY <2>2 DEF SamplingInv, SamplingType
  <2>. QED BY <2>1, <2>3, <2>4
<1>. QED BY <1>1, SamplingInvariant, PTL
-----------------------------------------------------------------------------
(* Which groups are marked as empty.  The flag that says so is shared by   *)
(* all queries and put down only by a record that is read, so what matters *)
(* is when it can still be up from an earlier query: on a chart of one     *)
(* attribute, whose groups all have records, not beyond the first group of *)
(* the first call, for only a later call may ask for no record at all.     *)

\* A bitmap is said to be empty only if it is.
MapsHonest == \A id \in Ids : maps[id].empty => Bits(id[1], id[2]) = {}

\* From the first call on: the marks are right, but for the groups to come.
Sampled == chart # NoChart /\ (call # "idle" \/ ~firstIteration)

MarksRight ==
  Sampled => \A g \in Groups(chart.dims) :
               /\ recordId[g] = -1 => Bits(chart.dims, g) = {}
               /\ Bits(chart.dims, g) = {} => recordId[g] = -1 \/ g \in todo

FlagLowered ==
  Sampled /\ Len(chart.dims) = 1 /\ isRecordEmpty =>
    firstIteration /\ todo = Groups(chart.dims)

QueryTells ==
  active # << >> =>
    IF Bits(chart.dims, active) = {} THEN left > 0 \/ maps[Map].empty
                                     ELSE left = 0 => ~isRecordEmpty

MarksInv ==
  /\ recordId \in [Keys -> Int]
  /\ isRecordEmpty \in BOOLEAN /\ firstIteration \in BOOLEAN
  /\ call \in {"idle", "first", "next", "base"}
  /\ call = "next" => ~firstIteration
  /\ ~firstIteration => chart # NoChart
  /\ MapsHonest
  /\ MarksRight
  /\ FlagLowered
  /\ QueryTells

\* A chart of one attribute has groups, and each of them has records.
LEMMA OneAttributeHasRecords ==
  ASSUME NEW c \in Charts, Len(c.dims) = 1
  PROVE  /\ Groups(c.dims) # {}
         /\ \A g \in Groups(c.dims) : Bits(c.dims, g) # {}
<1>. DEFINE d == c.dims
<1>1. d \in Seq(Attrs) /\ DOMAIN d = {1} /\ d[1] \in Attrs
  BY SamplingAssumption
<1>2. \A g \in Groups(d) : g[1] \in Values(d[1])
  BY <1>1 DEF Groups
<1>3. ASSUME NEW g \in Groups(d) PROVE Bits(d, g) # {}
  <2>1. PICK r \in Records : Val[d[1]][r] = g[1]
    BY <1>2 DEF Values
  <2>2. r \in Bits(d, g)
    BY <1>1, <2>1 DEF Bits
  <2>. QED BY <2>2
<1>4. Groups(d) # {}
  <2>1. PICK r : r \in Records
    BY RecordsFinite, FS_EmptySet
  <2>. DEFINE g == [i \in DOMAIN d |-> Val[d[1]][r]]
  <2>2. Val[d[1]][r] \in Values(d[1])
    BY <2>1 DEF Values
  <2>3. Val[d[1]][r] \in UNION { Values(a) : a \in Attrs }
    BY <1>1, <2>2
  <2>4. g \in [DOMAIN d -> UNION { Values(a) : a \in Attrs }]
    BY <2>3
  <2>5. \A i \in DOMAIN d : g[i] \in Values(d[i])
    BY <1>1, <2>2
  <2>6. g \in Groups(d)
    BY <2>4, <2>5 DEF Groups
  <2>. QED BY <2>6
<1>. QED BY <1>3, <1>4

\* Rounding up leaves at least one.
LEMMA CeilDivPositive ==
  ASSUME NEW m \in Nat \ {0}, NEW n \in Nat \ {0} PROVE CeilDiv(m, n) \in Nat \ {0}
<1>. DEFINE q == (m + n - 1) \div n
<1>1. q \in Int /\ n * q <= m + n - 1 /\ m + n - 1 < n * q + n
  OBVIOUS
<1>. HIDE DEF q
<1>2. ~(q <= 0)
  <2>. SUFFICES ASSUME q <= 0 PROVE FALSE
    OBVIOUS
  <2>1. n * q <= 0
    BY <1>1
  <2>2. n * q \in Int
    BY <1>1
  <2>. QED BY <1>1, <2>1, <2>2
<1>3. q \in Nat \ {0}
  BY <1>1, <1>2
<1>. QED BY <1>3 DEF CeilDiv, q

\* Only a later call on a chart of one attribute may ask for no record.
LEMMA AsksForSome ==
  ASSUME chart \in Charts, NEW g \in Groups(chart.dims),
         call \in {"first", "base"} \/ Len(chart.dims) # 1
  PROVE  ConvSamples(g) > 0
<1>. DEFINE d == chart.dims
<1>1. d \in Seq(Attrs) /\ Len(d) \in {1, 2} /\ DOMAIN d = 1 .. Len(d)
  BY SamplingAssumption
<1>2. \A i \in DOMAIN d : g[i] \in Values(d[i])
  BY DEF Groups
<1>3. ASSUME NEW a, NEW v \in Values(a) PROVE Count(a, v) \in Nat \ {0}
  <2>. DEFINE S == { r \in Records : Val[a][r] = v }
  <2>1. S \in SUBSET Records /\ S # {}
    BY <1>3 DEF Values
  <2>. HIDE DEF S
  <2>2. IsFiniteSet(S) /\ Cardinality(S) \in Nat
    BY <2>1, RecordsFinite
  <2>3. Cardinality(S) # 0
    BY <2>1, <2>2, FS_EmptySet
  <2>. QED BY <2>2, <2>3 DEF Count, S
<1>4. \A m, n \in Nat \ {0} : m * n \in Nat \ {0}
  OBVIOUS
<1>5. Pages \in Nat \ {0} /\ Blocks[chart] \in Nat \ {0}
  BY SamplingAssumption
<1>6. Cardinality(Records) * Pages \in Nat \ {0}
  BY <1>4, <1>5, RecordsFinite
<1>7. CASE call = "base"
  BY <1>7 DEF ConvSamples
<1>8. CASE call # "base" /\ Len(d) = 2
  <2>1. Count(d[1], g[1]) * Count(d[2], g[2]) \in Nat \ {0}
    <3>1. Count(d[1], g[1]) \in Nat \ {0} /\ Count(d[2], g[2]) \in Nat \ {0}
      BY <1>1, <1>2, <1>3, <1>8
    <3>. QED BY <1>4, <3>1
  <2>2. PerPage(g) \in Nat \ {0}
    <3>1. PerPage(g) = CeilDiv(Count(d[1], g[1]) * Count(d[2], g[2]),
                               Cardinality(Records) * Pages)
      BY <1>8 DEF PerPage
    <3>. QED BY <1>6, <2>1, <3>1, CeilDivPositive
  <2>3. PerPage(g) * Blocks[chart] \in Nat \ {0}
    BY <1>4, <1>5, <2>2
  <2>. QED BY <1>8, <2>3 DEF ConvSamples
<1>9. CASE call = "first" /\ Len(d) = 1
  <2>1. Count(d[1], g[1]) \in Nat \ {0}
    BY <1>1, <1>2, <1>3, <1>9
  <2>2. PerPage(g) \in Nat \ {0}
    BY <1>5, <1>9, <2>1, CeilDivPositive DEF PerPage
  <2>3. PerPage(g) * Blocks[chart] \in Nat \ {0}
    BY <1>4, <1>5, <2>2
  <2>. QED BY <1>9, <2>3 DEF ConvSamples
<1>. QED BY <1>1, <1>7, <1>8, <1>9

\* The listing of a group is empty when the group is, and what is listed later
\* is the same.
LEMMA ListedTells ==
  ASSUME SamplingInv, active # << >>
  PROVE  Listed = << >> <=> Bits(chart.dims, active) = {}
<1>. DEFINE S == Bits(chart.dims, active)
<1>1. S \in SUBSET Records /\ IsFiniteSet(S)
  BY ActiveGroup, RecordsFinite
<1>2. Len(Listed) = Cardinality(S) /\ Listed \in Seq(Records)
  BY ListedIsListing
<1>. HIDE DEF S
<1>3. Cardinality(S) = 0 <=> S = {}
  BY <1>1, FS_EmptySet
<1>4. Listed = << >> <=> Len(Listed) = 0
  BY <1>2
<1>. QED BY <1>2, <1>3, <1>4 DEF S

LEMMA InitMarks == Init => MarksInv
<1>. SUFFICES ASSUME Init PROVE MarksInv
  OBVIOUS
<1>1. MapsHonest
  BY DEF Init, MapsHonest
<1>2. ~Sampled
  BY DEF Init, Sampled
<1>3. MarksRight /\ FlagLowered
  BY <1>2 DEF MarksRight, FlagLowered
<1>4. QueryTells
  BY DEF Init, QueryTells
<1>5. recordId \in [Keys -> Int] /\ call = "idle" /\ firstIteration = TRUE /\ isRecordEmpty = FALSE
  BY DEF Init
<1>. QED BY <1>1, <1>3, <1>4, <1>5 DEF MarksInv

\* A new chart is not sampled yet.
LEMMA LoadKeepsMarks ==
  ASSUME MarksInv, SamplingInv, NEW c \in Charts, Load(c) PROVE MarksInv'
<1>1. /\ call' = "idle" /\ firstIteration' = TRUE /\ active' = << >>
      /\ UNCHANGED << maps, recordId, isRecordEmpty >>
  BY DEF Load, Idle, SamplingInv, LoopState
<1>2. MapsHonest'
  BY <1>1 DEF MarksInv, MapsHonest
<1>3. ~Sampled'
  BY <1>1 DEF Sampled
<1>4. QueryTells' /\ MarksRight' /\ FlagLowered'
  BY <1>1, <1>3 DEF QueryTells, MarksRight, FlagLowered
<1>. QED BY <1>1, <1>2, <1>4 DEF MarksInv

LEMMA ResetKeepsMarks ==
  ASSUME MarksInv, SamplingInv, Reset PROVE MarksInv'
<1>1. /\ call' = "idle" /\ firstIteration' = TRUE /\ active' = << >>
      /\ UNCHANGED << maps, isRecordEmpty >>
  BY DEF Reset, Idle, SamplingInv, LoopState, index
<1>2. recordId' \in [Keys -> Int]
  BY DEF Reset, MarksInv
<1>3. MapsHonest'
  BY <1>1 DEF MarksInv, MapsHonest
<1>4. ~Sampled'
  BY <1>1 DEF Sampled
<1>5. QueryTells' /\ MarksRight' /\ FlagLowered'
  BY <1>1, <1>4 DEF QueryTells, MarksRight, FlagLowered
<1>. QED BY <1>1, <1>2, <1>3, <1>5 DEF MarksInv

\* A first call comes to every group; a later one knows the empty ones.
LEMMA StartKeepsMarks ==
  ASSUME MarksInv, SamplingInv, NEW kind \in {"first", "next", "base"}, Start(kind)
  PROVE  MarksInv'
<1>1. /\ call = "idle" /\ todo = {} /\ active = << >> /\ chart \in Charts
      /\ kind = "first" => firstIteration
      /\ kind = "next" => ~firstIteration
      /\ call' = kind /\ recordId' = Rewound
      /\ UNCHANGED << chart, firstIteration, active, left, maps, isRecordEmpty >>
  BY DEF Start, Idle, SamplingInv, SamplingType, LoopState, index
<1>2. PICK S \in SUBSET Groups(chart.dims) :
        /\ kind # "next" => S = Groups(chart.dims)
        /\ todo' = { g \in S : recordId'[g] # -1 }
  BY DEF Start
<1>3. \A g \in Groups(chart.dims) : g \in Keys
  BY <1>1, GroupsAreKeys
<1>4. /\ recordId' \in [Keys -> Int]
      /\ firstIteration => \A g \in Groups(chart.dims) : recordId'[g] = 0
      /\ ~firstIteration => recordId' = recordId
  BY <1>1, <1>3 DEF Rewound, MarksInv
<1>5. MapsHonest' /\ QueryTells'
  BY <1>1 DEF MarksInv, MapsHonest, QueryTells
<1>6. MarksRight' /\ FlagLowered'
  <2>1. CASE firstIteration
    <3>1. todo' = Groups(chart.dims)
      BY <1>1, <1>2, <1>4, <2>1
    <3>. QED BY <1>1, <1>4, <2>1, <3>1 DEF MarksRight, FlagLowered
  <2>2. CASE ~firstIteration
    <3>1. Sampled
      BY <2>2 DEF MarksInv, Sampled
    <3>2. \A g \in Groups(chart.dims) : recordId[g] = -1 <=> Bits(chart.dims, g) = {}
      BY <1>1, <3>1 DEF MarksInv, MarksRight
    <3>3. Len(chart.dims) = 1 => ~isRecordEmpty
      BY <2>2, <3>1 DEF MarksInv, FlagLowered
    <3>. QED BY <1>1, <1>4, <2>2, <3>2, <3>3 DEF MarksRight, FlagLowered
  <2>. QED BY <2>1, <2>2 DEF MarksInv
<1>. QED BY <1>1, <1>4, <1>5, <1>6 DEF MarksInv

\* A group without records is asked for some; one with records is asked for
\* none only when the flag is down.
LEMMA RunQueryKeepsMarks ==
  ASSUME MarksInv, SamplingInv, RunQuery PROVE MarksInv'
<1>1. PICK g \in todo :
        /\ active' = g /\ left' = ConvSamples(g)
        /\ IF mapSwiftMap[g] = << >> THEN FirstLookup(g) ELSE UNCHANGED << maps, mapSwiftMap >>
  BY DEF RunQuery
<1>2. /\ UNCHANGED << chart, firstIteration, recordId, call, todo, isRecordEmpty >>
      /\ call # "idle" /\ chart \in Charts /\ g \in Groups(chart.dims)
  BY DEF RunQuery, engine, SamplingInv, SamplingType, LoopState
<1>3. /\ g \in Keys /\ << chart.dims, g >> \in Ids
      /\ Len(chart.dims) \in {1, 2}
  BY <1>2, GroupsAreKeys, SamplingAssumption
<1>4. MapsHonest'
  <2>1. CASE mapSwiftMap[g] # << >>
    BY <1>1, <2>1 DEF MarksInv, MapsHonest
  <2>2. CASE mapSwiftMap[g] = << >>
    <3>. DEFINE id == << chart.dims, g >>
                m  == IF Len(chart.dims) = 1 THEN maps[id]
                      ELSE [samples |-> << >>, sampled |-> 0, empty |-> FALSE]
    <3>1. maps' = [maps EXCEPT ![id] = [m EXCEPT !.sampled = 0]]
      BY <1>1, <2>2 DEF FirstLookup
    <3>2. maps \in [Ids -> MapState]
      BY DEF SamplingInv, SamplingType
    <3>3. m \in MapState /\ (m.empty => maps[id].empty)
      BY <1>3, <3>2 DEF MapState
    <3>. HIDE DEF m
    <3>4. [m EXCEPT !.sampled = 0].empty = m.empty
      BY <3>3 DEF MapState
    <3>5. \A i \in Ids : maps'[i].empty => maps[i].empty
      BY <1>3, <3>1, <3>2, <3>3, <3>4
    <3>. QED BY <3>5 DEF MarksInv, MapsHonest
  <2>. QED BY <2>1, <2>2
<1>5. QueryTells'
  <2>1. CASE Bits(chart.dims, g) = {}
    <3>1. Len(chart.dims) # 1
      BY <1>2, <2>1, OneAttributeHasRecords
    <3>. QED BY <1>1, <1>2, <2>1, <3>1, AsksForSome DEF QueryTells
  <2>2. CASE Bits(chart.dims, g) # {} /\ left' = 0
    <3>1. call = "next" /\ Len(chart.dims) = 1
      <4>1. ~(ConvSamples(g) > 0)
        BY <1>1, <2>2
      <4>2. call \in {"idle", "first", "next", "base"}
        BY DEF MarksInv
      <4>. QED BY <1>2, <4>1, <4>2, AsksForSome
    <3>2. ~firstIteration
      BY <3>1 DEF MarksInv
    <3>3. Sampled
      BY <3>2 DEF MarksInv, Sampled
    <3>4. ~isRecordEmpty
      BY <3>1, <3>2, <3>3 DEF MarksInv, FlagLowered
    <3>. QED BY <1>1, <1>2, <2>2, <3>4 DEF QueryTells
  <2>3. CASE Bits(chart.dims, g) # {} /\ left' # 0
    BY <1>1, <1>2, <2>3 DEF QueryTells
  <2>. QED BY <2>1, <2>2, <2>3
<1>6. MarksRight' /\ FlagLowered'
  BY <1>2 DEF MarksInv, MarksRight, FlagLowered, Sampled
<1>. QED BY <1>2, <1>4, <1>5, <1>6 DEF MarksInv

\* A record that is read lowers the flag.
LEMMA SampleRecordKeepsMarks ==
  ASSUME MarksInv, SamplingInv, SampleRecord PROVE MarksInv'
<1>1. /\ active # << >> /\ Listed # << >> /\ isRecordEmpty' = FALSE
      /\ UNCHANGED << chart, firstIteration, recordId, call, todo, active, mapSwiftMap >>
  <2>1. active # << >> /\ maps[Map].sampled < Len(Listed)
    BY DEF SampleRecord, Sampling
  <2>2. Map \in Ids /\ maps \in [Ids -> MapState]
    BY <2>1, ActiveGroup DEF SamplingInv, SamplingType
  <2>3. Len(Listed) # 0
    BY <2>1, <2>2, ListedIsListing DEF MapState
  <2>. QED BY <2>1, <2>3 DEF SampleRecord, engine
<1>2. Bits(chart.dims, active) # {}
  BY <1>1, ListedTells
<1>3. MapsHonest'
  <2>. DEFINE m == [samples |-> Listed, sampled |-> maps[Map].sampled + 1, empty |-> FALSE]
  <2>1. maps' = [maps EXCEPT ![Map] = m] /\ ~m.empty
    BY DEF SampleRecord
  <2>. HIDE DEF m
  <2>2. \A id \in Ids : maps'[id].empty => maps[id].empty
    BY <1>1, <2>1, ActiveGroup DEF SamplingInv, SamplingType
  <2>. QED BY <2>2 DEF MarksInv, MapsHonest
<1>4. MarksRight'
  BY <1>1 DEF MarksInv, MarksRight, Sampled
<1>5. FlagLowered' /\ QueryTells'
  BY <1>1, <1>2 DEF FlagLowered, QueryTells
<1>6. isRecordEmpty' \in BOOLEAN
  BY <1>1
<1>. QED BY <1>1, <1>3, <1>4, <1>5, <1>6 DEF MarksInv

\* A bitmap with nothing to list is marked as empty, and is.
LEMMA SampleNothingKeepsMarks ==
  ASSUME MarksInv, SamplingInv, SampleNothing PROVE MarksInv'
<1>1. /\ active # << >> /\ Listed = << >>
      /\ UNCHANGED << chart, firstIteration, recordId, call, todo, active,
                      mapSwiftMap, isRecordEmpty >>
  BY DEF SampleNothing, Sampling, engine
<1>2. /\ Bits(chart.dims, active) = {} /\ Map = << chart.dims, active >>
      /\ Map \in Ids /\ maps \in [Ids -> MapState]
  BY <1>1, ListedTells, ActiveGroup DEF SamplingInv, SamplingType
<1>3. /\ maps'[Map].empty
      /\ \A id \in Ids \ {Map} : maps'[id] = maps[id]
  BY <1>2 DEF SampleNothing
<1>4. MapsHonest'
  <2>1. \A id \in Ids : Bits(id[1], id[2]) = {} \/ maps'[id] = maps[id]
    BY <1>2, <1>3
  <2>. QED BY <2>1 DEF MarksInv, MapsHonest
<1>5. QueryTells'
  <2>1. Map' = Map
    BY <1>1 DEF Map
  <2>. QED BY <1>1, <1>2, <1>3, <2>1 DEF QueryTells
<1>6. MarksRight' /\ FlagLowered'
  BY <1>1 DEF MarksInv, MarksRight, FlagLowered, Sampled
<1>. QED BY <1>1, <1>4, <1>5, <1>6 DEF MarksInv

LEMMA PastEndKeepsMarks ==
  ASSUME MarksInv, SamplePastEnd PROVE MarksInv'
  BY DEF MarksInv, MapsHonest, MarksRight, FlagLowered, QueryTells, Sampled, Map,
         SamplePastEnd, engine, index

\* The group is marked if and only if it has no records.
LEMMA FinishKeepsMarks ==
  ASSUME MarksInv, SamplingInv, FinishQuery PROVE MarksInv'
<1>1. /\ active # << >> /\ active' = << >> /\ left = 0 /\ todo' = todo \ {active}
      /\ isRecordEmpty' = Flag
      /\ recordId' = [recordId EXCEPT ![active] =
                        IF isRecordEmpty' THEN -1 ELSE maps[Map].sampled]
      /\ UNCHANGED << chart, firstIteration, call, maps >>
  BY DEF FinishQuery
<1>2. /\ active \in Keys /\ active \in Groups(chart.dims) /\ chart \in Charts
      /\ Map = << chart.dims, active >> /\ Map \in Ids
      /\ maps[Map].sampled \in Nat /\ maps[Map].empty \in BOOLEAN
  BY <1>1, ActiveGroup DEF SamplingInv, SamplingType, MapState
<1>3. /\ recordId \in [Keys -> Int] /\ isRecordEmpty \in BOOLEAN
  BY DEF MarksInv
<1>4. /\ Flag \in BOOLEAN
      /\ Bits(chart.dims, active) = {} <=> Flag
  <2>1. maps[Map].empty => Bits(chart.dims, active) = {}
    BY <1>2 DEF MarksInv, MapsHonest
  <2>2. IF Bits(chart.dims, active) = {} THEN maps[Map].empty ELSE ~isRecordEmpty
    BY <1>1 DEF MarksInv, QueryTells
  <2>3. Flag \in BOOLEAN
    BY <1>2, <1>3 DEF Flag
  <2>4. Flag <=> maps[Map].empty \/ isRecordEmpty
    BY DEF Flag
  <2>. QED BY <2>1, <2>2, <2>3, <2>4, Zenon
<1>5. recordId' \in [Keys -> Int]
  BY <1>1, <1>2, <1>3
<1>6. MarksRight'
  <2>1. recordId'[active] = -1 <=> Bits(chart.dims, active) = {}
    BY <1>1, <1>2, <1>3, <1>4
  <2>2. \A g \in Keys : g # active => recordId'[g] = recordId[g]
    BY <1>1, <1>3
  <2>3. \A g \in Groups(chart.dims) : g \in Keys
    BY <1>2, GroupsAreKeys
  <2>4. Sampled' = Sampled
    BY <1>1 DEF Sampled
  <2>. QED BY <1>1, <2>1, <2>2, <2>3, <2>4 DEF MarksInv, MarksRight
<1>7. FlagLowered'
  <2>1. Len(chart.dims) = 1 => ~Flag
    BY <1>2, <1>4, OneAttributeHasRecords
  <2>. QED BY <1>1, <2>1 DEF FlagLowered
<1>8. MapsHonest' /\ QueryTells'
  BY <1>1 DEF MarksInv, MapsHonest, QueryTells
<1>. QED BY <1>1, <1>4, <1>5, <1>6, <1>7, <1>8 DEF MarksInv

\* All groups have been come to.
LEMMA EndKeepsMarks ==
  ASSUME MarksInv, SamplingInv, EndCall PROVE MarksInv'
<1>1. /\ call # "idle" /\ todo = {} /\ call' = "idle" /\ firstIteration' = FALSE
      /\ UNCHANGED << chart, recordId, todo, active, left, maps, mapSwiftMap,
                      isRecordEmpty >>
  BY DEF EndCall, index
<1>2. Sampled /\ chart \in Charts
  BY <1>1 DEF SamplingInv, SamplingType, LoopState, Sampled
<1>3. MarksRight'
  BY <1>1, <1>2 DEF MarksInv, MarksRight
<1>4. FlagLowered'
  <2>1. Len(chart.dims) = 1 => Groups(chart.dims) # {}
    BY <1>2, OneAttributeHasRecords
  <2>. QED BY <1>1, <1>2, <2>1 DEF MarksInv, FlagLowered
<1>5. MapsHonest' /\ QueryTells'
  BY <1>1 DEF MarksInv, MapsHonest, QueryTells, Map
<1>6. chart' # NoChart
  BY <1>1, <1>2 DEF Sampled
<1>7. call' \in {"idle", "first", "next", "base"} /\ firstIteration' \in BOOLEAN
  BY <1>1
<1>. QED BY <1>1, <1>3, <1>4, <1>5, <1>6, <1>7 DEF MarksInv

\* Once the groups have been sampled, those marked as empty are those without
\* records, whatever the charts, the file and the queries before: the flag
\* that is shared by all queries is never up when a query that asks for no
\* record hands it on (swift_index.cc sample_mean, swift_map.cc).
THEOREM EmptiesStayExact == Spec => []EmptiesExact
<1>1. MarksInv /\ SamplingInv /\ [Next]_vars => MarksInv'
  <2>. SUFFICES ASSUME MarksInv, SamplingInv, [Next]_vars PROVE MarksInv'
    OBVIOUS
  <2>1. CASE \E c \in Charts : Load(c)
    BY <2>1, LoadKeepsMarks
  <2>2. CASE \E kind \in {"first", "next", "base"} : Start(kind)
    BY <2>2, StartKeepsMarks
  <2>3. CASE Reset \/ RunQuery \/ EndCall
    BY <2>3, ResetKeepsMarks, RunQueryKeepsMarks, EndKeepsMarks
  <2>4. CASE SampleRecord \/ SampleNothing \/ SamplePastEnd \/ FinishQuery
    BY <2>4, SampleRecordKeepsMarks, SampleNothingKeepsMarks, PastEndKeepsMarks,
       FinishKeepsMarks
  <2>5. CASE UNCHANGED vars
    BY <2>5 DEF vars, engine, index, MarksInv, MapsHonest, MarksRight, FlagLowered,
                QueryTells, Sampled, Map
  <2>. QED BY <2>1, <2>2, <2>3, <2>4, <2>5 DEF Next
<1>2. MarksInv /\ SamplingInv => EmptiesExact
  <2>. SUFFICES ASSUME MarksInv, SamplingInv, Idle, ~firstIteration,
                       NEW g \in Groups(chart.dims)
                PROVE  recordId[g] = -1 <=> Bits(chart.dims, g) = {}
    BY DEF EmptiesExact
  <2>1. Sampled /\ todo = {}
    BY DEF MarksInv, Sampled, SamplingInv, LoopState, Idle
  <2>. QED BY <2>1 DEF MarksInv, MarksRight
<1>. QED BY InitMarks, <1>1, <1>2, SamplingInvariant, PTL DEF Spec
=============================================================================
