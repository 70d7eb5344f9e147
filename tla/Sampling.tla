------------------------------ MODULE Sampling ------------------------------
(***************************************************************************)
(* How the two engines get their averages: a query for every group of the  *)
(* chart, answered by SwiftIndex (swift_index.cc) with the next records of *)
(* the group's bitmap (swift_map.cc), which SDB (sdb.cc) reads through a   *)
(* buffer of one block.  The bitmaps of one attribute live as long as the  *)
(* process; those of two attributes, the cache that leads to both, and the *)
(* position that says how far a group was sampled live until the next      *)
(* load.  /reset rewinds none of it.                                       *)
(*                                                                         *)
(* A record is << block, place >>: record_idx / records_per_buf and        *)
(* record_idx % records_per_buf.  Which groups an iteration samples is the *)
(* business of modules Trend and Heat; here it is any choice.              *)
(***************************************************************************)
EXTENDS Integers, Sequences, FiniteSets

CONSTANTS
  NumBlocks, PerBlock, (* Size of the data file, in blocks, and of a block.*)
  Attrs,       (* The indexed attributes (d0, d1, ...).                    *)
  Val,         (* Attribute -> record -> value.                            *)
  Charts,      (* What can be loaded: records of dims, one attribute (a    *)
               (* trendline) or two (a heatmap).                           *)
  Blocks,      (* Chart -> num_blocks_allowed, 1000 ms shared out over its *)
               (* groups and rounded up.                                   *)
  Pages,       (* The number of pages the schema states.                   *)
  ToArray      (* EWAH: set of records -> its members, in file order.      *)

Records == (0 .. NumBlocks - 1) \X (0 .. PerBlock - 1)

\* The groups of a chart: one value per dimension.
Values(a) == { Val[a][r] : r \in Records }
Groups(dims) == { g \in [DOMAIN dims -> UNION { Values(a) : a \in Attrs }] :
                    \A i \in DOMAIN dims : g[i] \in Values(dims[i]) }
Keys == UNION { Groups(c.dims) : c \in Charts }
Ids  == UNION { { << c.dims, g >> : g \in Groups(c.dims) } : c \in Charts }

\* SwiftIndex::read and and_combine: the records a group's bitmap holds.
Bits(dims, g) == { r \in Records : \A i \in DOMAIN dims : Val[dims[i]][r] = g[i] }

\* perGroupValCount
Count(a, v) == Cardinality({ r \in Records : Val[a][r] = v })

ASSUME SamplingAssumption ==
  /\ NumBlocks \in Nat \ {0} /\ PerBlock \in Nat \ {0} /\ Pages \in Nat \ {0}
  /\ Val \in [Attrs -> [Records -> Nat]]
  /\ \A c \in Charts : /\ c.dims \in Seq(Attrs) /\ Len(c.dims) \in {1, 2}
                       /\ Blocks[c] \in Nat \ {0}

ASSUME ToArrayAssumption ==
  \A S \in SUBSET Records :
    /\ ToArray[S] \in [1 .. Cardinality(S) -> S]
    /\ \A r \in S : \E i \in 1 .. Cardinality(S) : ToArray[S][i] = r
    /\ \A i, j \in 1 .. Cardinality(S) : ToArray[S][i] = ToArray[S][j] => i = j

VARIABLES
  chart,          \* The chart that was loaded.
  firstIteration, \* Whether the next iteration is the first.
  recordId,       \* record_id: what the last query of a group returned, -1
                  \* once the group is known to have no records.
  call,           \* The handler that runs: "idle", "first", "next" or "base".
  todo,           \* The groups its loop has yet to come to.
  active,         \* The group that is sampled now, << >> between two.
  left,           \* How many records its query still wants.
  maps,           \* Bitmaps: samples, sampled_so_far and isSamplesEmpty.
  mapSwiftMap,    \* Group -> the dims of the bitmap it leads to, << >> if none.
  isRecordEmpty,  \* SwiftIndex's flag, shared by all queries.
  buffer,         \* SDB: buf_idx, the block buf holds, the file's position.
  stopped,        \* How the process broke off: "no", "pastEnd" or "assert".
  drawn,          \* History: the records a group got since the load.
  asked           \* History: how many it was asked for since the load.

engine  == << chart, firstIteration, recordId, call, todo >>
index   == << maps, mapSwiftMap, isRecordEmpty >>
history == << drawn, asked >>
vars    == << engine, active, left, index, buffer, stopped, history >>

NoChart == [dims |-> << >>]
NoBlock == -2

Idle == call = "idle" /\ stopped = "no"

-----------------------------------------------------------------------------
(* SDB::get_record: the block a record is in is read unless it is the one  *)
(* in the buffer; the file is positioned unless it is the next one.        *)

ReadAt(b)    == IF b = buffer.idx + 1 THEN buffer.pos ELSE b
ReadFails(b) == b # buffer.idx /\ ReadAt(b) >= NumBlocks

Fetched(b) ==
  CASE b = buffer.idx -> buffer
    [] ReadFails(b)   -> [buffer EXCEPT !.idx = b]
    [] OTHER          -> [idx |-> b, block |-> ReadAt(b), pos |-> ReadAt(b) + 1]

-----------------------------------------------------------------------------
(* How many records a query asks for.                                      *)

CeilDiv(m, n) == (m + n - 1) \div n

\* Trend's first sampling rounds up, the later ones divide integers; Heat
\* expects the counts of the two values to be independent.
PerPage(g) ==
  LET d == chart.dims IN
  CASE Len(d) = 2 -> CeilDiv(Count(d[1], g[1]) * Count(d[2], g[2]),
                             Cardinality(Records) * Pages)
    [] Len(d) = 1 /\ call = "first" -> CeilDiv(Count(d[1], g[1]), Pages)
    [] OTHER -> Count(d[1], g[1]) \div Pages

ConvSamples(g) == IF call = "base" THEN 1 ELSE PerPage(g) * Blocks[chart]

-----------------------------------------------------------------------------
(* The handlers.  One runs to its end before the next starts.              *)

\* Wrong: the cache is kept.
ClearedNothing == mapSwiftMap' = mapSwiftMap

\* loadAxesData: SwiftIndex::clear and the new chart.
ClearedIndex == mapSwiftMap' = [g \in Keys |-> << >>]

Load(c) ==
  /\ Idle
  /\ chart' = c
  /\ firstIteration' = TRUE
  /\ ClearedIndex
  /\ drawn' = [g \in Keys |-> << >>]
  /\ asked' = [g \in Keys |-> 0]
  /\ UNCHANGED << recordId, call, todo, active, left, maps, isRecordEmpty,
                  buffer, stopped >>

\* Trend::reset, Heat::reset
Reset ==
  /\ Idle /\ chart # NoChart
  /\ firstIteration' = TRUE
  /\ recordId' = [g \in Keys |-> IF g \in Groups(chart.dims) THEN 0 ELSE recordId[g]]
  /\ UNCHANGED << chart, call, todo, active, left, index, buffer, stopped, history >>

\* A first iteration, of either kind, forgets which groups were empty.
Rewound == [g \in Keys |-> IF firstIteration /\ g \in Groups(chart.dims)
                             THEN 0 ELSE recordId[g]]

\* genHisto and genHeat, or genHistoBase and genHeatBase: all groups at first
\* and in the baseline, later those that still share a piece with another one;
\* groups that are known to be empty are passed over.
Start(kind) ==
  /\ Idle /\ chart # NoChart
  /\ kind = "first" => firstIteration
  /\ kind = "next" => ~firstIteration
  /\ call' = kind
  /\ recordId' = Rewound
  /\ \E S \in SUBSET Groups(chart.dims) :
       /\ IF kind = "next" THEN Cardinality(S) # 1 ELSE S = Groups(chart.dims)
       /\ todo' = { g \in S : recordId'[g] # -1 }
  /\ UNCHANGED << chart, firstIteration, active, left, index, buffer, stopped, history >>

-----------------------------------------------------------------------------
(* One pass of a handler's loop.                                           *)

Before(g, h) == g[1] < h[1] \/ (g[1] = h[1] /\ Len(g) = 2 /\ g[2] < h[2])

Map == << mapSwiftMap[active], active >>   \* The bitmap being sampled.

\* Wrong: the position is left where an earlier chart put it.
FirstLookupKeeps(g) ==
  /\ mapSwiftMap' = [mapSwiftMap EXCEPT ![g] = chart.dims]
  /\ maps' = [maps EXCEPT ![<< chart.dims, g >>] =
                IF Len(chart.dims) = 1
                  THEN @ ELSE [samples |-> << >>, sampled |-> 0, empty |-> FALSE]]

\* run_query: a group without an entry in the cache gets one.  The bitmaps of
\* one attribute are the index's own, those of two are made for the query.
FirstLookup(g) ==
  LET id == << chart.dims, g >>
      m  == IF Len(chart.dims) = 1
              THEN maps[id] ELSE [samples |-> << >>, sampled |-> 0, empty |-> FALSE]
  IN  /\ mapSwiftMap' = [mapSwiftMap EXCEPT ![g] = chart.dims]
      /\ maps' = [maps EXCEPT ![id] = [m EXCEPT !.sampled = 0]]

RunQuery ==
  /\ stopped = "no" /\ active = << >>
  /\ \E g \in todo :
       /\ \A h \in todo : ~Before(h, g)
       /\ active' = g
       /\ left' = ConvSamples(g)
       /\ asked' = [asked EXCEPT ![g] = @ + ConvSamples(g)]
       /\ IF mapSwiftMap[g] = << >> THEN FirstLookup(g) ELSE UNCHANGED << maps, mapSwiftMap >>
  /\ UNCHANGED << engine, isRecordEmpty, buffer, stopped, drawn >>

\* sequential_sample lists the bitmap when it stands at its start.
Listed == IF maps[Map].sampled = 0
            THEN ToArray[Bits(Map[1], Map[2])] ELSE maps[Map].samples

Sampling == stopped = "no" /\ active # << >> /\ left > 0

\* The record is read and summed up.
SampleRecord ==
  LET m == maps[Map]
      r == Listed[m.sampled + 1]
  IN  /\ Sampling
      /\ m.sampled < Len(Listed)
      /\ maps' = [maps EXCEPT ![Map] =
                    [samples |-> Listed, sampled |-> m.sampled + 1, empty |-> FALSE]]
      /\ buffer' = Fetched(r[1])
      /\ stopped' = IF ReadFails(r[1]) THEN "assert" ELSE "no"
      /\ isRecordEmpty' = FALSE
      /\ drawn' = [drawn EXCEPT ![active] = Append(@, << buffer'.block, r[2] >>)]
      /\ left' = left - 1
      /\ UNCHANGED << engine, active, mapSwiftMap, asked >>

\* No records at all: record 0 is read for nothing, and sampling ends.
SampleNothing ==
  /\ Sampling
  /\ Listed = << >>
  /\ maps' = [maps EXCEPT ![Map] =
                    [samples |-> << >>, sampled |-> @.sampled, empty |-> TRUE]]
  /\ buffer' = Fetched(0)
  /\ stopped' = IF ReadFails(0) THEN "assert" ELSE "no"
  /\ left' = 0
  /\ UNCHANGED << engine, active, mapSwiftMap, isRecordEmpty, history >>

\* samples[sampled_so_far++] past the end of the vector: anything can follow.
SamplePastEnd ==
  /\ Sampling
  /\ Listed # << >> /\ maps[Map].sampled >= Len(Listed)
  /\ stopped' = "pastEnd"
  /\ UNCHANGED << engine, active, left, index, buffer, history >>

\* Wrong: the flag of the bitmap is not handed on.
FlagKept == isRecordEmpty

\* sample_mean's end, and what the loop does with what it returns.
Flag == maps[Map].empty \/ isRecordEmpty

FinishQuery ==
  /\ stopped = "no" /\ active # << >> /\ left = 0
  /\ isRecordEmpty' = Flag
  /\ recordId' = [recordId EXCEPT ![active] =
                    IF isRecordEmpty' THEN -1 ELSE maps[Map].sampled]
  /\ todo' = todo \ {active}
  /\ active' = << >>
  /\ UNCHANGED << chart, firstIteration, call, left, maps, mapSwiftMap, buffer,
                  stopped, history >>

\* The loop is through.
EndCall ==
  /\ stopped = "no" /\ call # "idle" /\ todo = {}
  /\ call' = "idle"
  /\ firstIteration' = FALSE
  /\ UNCHANGED << chart, recordId, todo, active, left, index, buffer, stopped, history >>

-----------------------------------------------------------------------------
Init ==
  /\ chart = NoChart
  /\ firstIteration = TRUE
  /\ recordId = [g \in Keys |-> 0]
  /\ call = "idle" /\ todo = {} /\ active = << >> /\ left = 0
  /\ maps = [id \in Ids |-> [samples |-> << >>, sampled |-> 0, empty |-> FALSE]]
  /\ mapSwiftMap = [g \in Keys |-> << >>]
  /\ isRecordEmpty = FALSE
  /\ buffer = [idx |-> NoBlock, block |-> NoBlock, pos |-> NumBlocks]
  /\ stopped = "no"
  /\ drawn = [g \in Keys |-> << >>]
  /\ asked = [g \in Keys |-> 0]

Next ==
  \/ \E c \in Charts : Load(c)
  \/ Reset
  \/ \E kind \in {"first", "next", "base"} : Start(kind)
  \/ RunQuery
  \/ SampleRecord
  \/ SampleNothing
  \/ SamplePastEnd
  \/ FinishQuery
  \/ EndCall

Spec == Init /\ [][Next]_vars

-----------------------------------------------------------------------------
(* Properties.                                                             *)

\* Between a load and the next, however many iterations and resets there are,
\* a group is given records of its own only, and none of them twice, through
\* the shared index, the cache and the one-block buffer (swift_index.cc
\* run_query, swift_map.cc sequential_sample, sdb.cc get_record); a read never
\* starts at the end of the file, where get_record's assertion fails.
DrawsAreFresh ==
  /\ stopped # "assert"
  /\ \A g \in Keys :
       /\ \A i \in DOMAIN drawn[g] : drawn[g][i] \in Bits(chart.dims, g)
       /\ \A i, j \in DOMAIN drawn[g] : drawn[g][i] = drawn[g][j] => i = j

\* sequential_sample leaves its vector only when a group has been asked for
\* more records than it has since the chart was loaded, resets included.
PastEndMeansExhausted ==
  stopped = "pastEnd" => asked[active] > Cardinality(Bits(chart.dims, active))

\* Between two requests the groups marked -1 are exactly those without records,
\* although the flag that says so is shared by all queries and a query may ask
\* for no record at all.
EmptiesExact ==
  Idle /\ ~firstIteration =>
    \A g \in Groups(chart.dims) : recordId[g] = -1 <=> Bits(chart.dims, g) = {}
=============================================================================
