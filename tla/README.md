# A verification project for IncVisage

IncVisage draws a chart of a large data set one step at a time: iteration 1 of
a trendline is a single horizontal segment over the whole axis, and every
further iteration samples some records, splits one segment in two and sends
only the two halves to the browser. A heatmap is drawn the same way: one
rectangle over the whole grid, then one rectangle is split in two or in four.
The project models the running system from the start page to the records that
are sampled: the session of several tabs, the two pages with their players, the
server, the two engines, the choice of a split, and the sampler underneath. It
checks the models with TLC and proves what holds for every chart with TLAPS.

## 1. Inventory

| Component | Code | State it keeps | Operations | Model |
|---|---|---|---|---|
| Trendline engine | `needletail-code-base/trend.cc`, `segment.*` | `k_Best`, `groupAvgs`/`groupNums`, `firstIteration`, `card`, `split_seg`, the two new segments, `groupAvgMap` | `loadAxesData`, `reset`, `genHisto`, `genHistoBase` | `Segments`, `Trend` |
| Choice of the split | `trend.cc:475-722` | `avg_map`, `avgMin`, `avgMax` | the scoring in `genHisto` | `BestSplit` |
| Trendline page | `new-web-test/js/trendline/player.js`, `trendline.js` | `iteration`, `segmentArr`, `segmentChain`, six iteration counters, seven flags, three buttons | Play, Pause, Forward, Back, seekbar, Repeat, Save, Visualize; the answers | `TrendPlayer` |
| Heatmap engine | `heat.cc`, `quadrant.*` | `k_Best_heat`, `groupAvgs_heat`, `record_id_heat` (-1: no records), `split_quad`, the four new quadrants, `isTwoSeg`, `groupAvgMap` | `loadAxesData`, `reset`, `genHeat`, `genHeatBase` | `Quadrants`, `Heat` |
| Choice of the quadrant and cell | `heat.cc:537-1222` | the averages, `avgMin`, `avgMax` | the scoring in `genHeat`, the means of the pieces | `BestQuadrant` |
| Heatmap page | `js/heatmap/player.js`, `heatmap.js` | as the trendline page, with quadrants in `segmentArr`; `validCells` | as the trendline page | `HeatPlayer` |
| What a chart promises | - | what is shown | clear, reveal, refine | `IncrementalChart`, `IncrementalGrid` |
| Server | `app.js`, `incvisage.cc` | two engine objects, `vizType`, four treatment files | `/setViz`, `/getViz`, `/getloaddata`, `/getaxesdata`, `/getiterativedata1`, `/resetdata`; packing of answers | `Session`; `Serve...`, `Pack...` of the players |
| Start page and forms | `index.html`, `js/*/toolkit.js`, `trendline.js`, `heatmap.js` | the form of each page | page buttons, dataset, axes, measure, Visualize | `Session` |
| Sampling indexes | `swift_index.cc`, `swift_map.cc` | a bitmap per group with its list of records and a position, a cache, `isRecordEmpty` | `run_query`, `sample_mean`, `sequential_sample`, `clear` | `Sampling` |
| Data store | `sdb.cc` | a buffer of one block, the position of the file | `get_record` | `Sampling` |
| Conversion, binner, schema and query files | `sdb.cc`, `binner.cc`, `schema.cc`, `query.cc` | | | not modelled |
| Questionnaire, `js/*Base.js`, `js/old_`, `main.cc` and the experiments, vendored code | | | | not modelled |

How they interact. A page sends HTTP requests with `$.get` and never waits: the
answers come back as callbacks, each on its own connection. Node runs one
handler at a time and calls straight into the C++ engines, which are global
objects and remember the last iteration; only the file accesses of `/getViz` run
in the background. The page remembers the segmentation too, in `segmentArr`; an
answer names what it replaces only by its position. Nothing in a message says
which tab, run, chart or iteration it belongs to. The two memories agree only
because of the order of the calls. The engines in turn sample through an index
whose positions outlive a run and through a buffer shared by all queries.

What makes this hard: answers and requests of two runs may overlap (a reset is
sent without waiting for its answer; Play can be pressed while an answer is
under way); a request or an answer can fail, which only shows an alert; the
player's flags are set by eight handlers independently; `reset` clears what
lies below the cardinality of the chart loaded at that moment and rewinds none
of the sampler; the C++ arrays are indexed by the iteration number the browser
sends; one `vizType` serves every tab; and a file is written while the next page
reads it. PROJECT.json lists these hazards line by line, with the properties
that cover them.

## 2. Modules

**Segments** - segments, segmentations and their split (`LeftHalf`,
`RightHalf`, `SplitSeg`), the predicate `Covers` (a partition of the axis) and
`RefinesByOne` (one cut more). Groups are numbered from 0 as in the code,
positions in a list from 1.

**Trend** - the engine object, one action per method. It is specified under
*every* order of calls, because nothing in it relies on a well-behaved caller.
Abstractions: the data are gone, so a split is *any* split of *any* splittable
segment, and `samples[g]` is the set of charts whose records went into the
average of group g, which is what a leftover of an earlier chart would change.
`GenHistoNext` needs `i > 0`: the C++ would read `k_Best[-1]`, and that callers
respect this is part of `RequestsInRange`, an invariant of the composition. The
first iteration is stored for any `i`, as the code does: where there is no slot
`i`, what lies behind the array is overwritten, and the model keeps the slots. `queryType` 2 is left out:
the predicate form is commented out (`toolkit.js:593-620`).

**BestSplit** - the choice that Trend leaves open, computed as the code does:
the table of partial sums `avg_map` that survives from segment to segment, the
score of each cut, the first strict maximum. Means are exact quotients; the
code's are doubles, so only ties that rounding creates are outside the model.

**IncrementalChart** - the abstract specification: a chart is blank, then one
segment, then one segment more at each step, until it is cleared.

**TrendPlayer** - one page, the server and the engine (it EXTENDS Trend).
`requests` and `replies` are bags: they may be handled in any order. One action
per handler: `ClickPlay`, `ClickPause`, `ClickForward`, `ClickBack`,
`DragSeekbar`, `ClickRepeat`, `ClickSave`, `Visualize`, `DeliverAxes`,
`DeliverIter`, and on the server's side `Serve`. `page` is the record of the
page's globals, under their own names. `screen` is what `render` drew: the
label and, once there is a path, the segmentation. `run` is a history variable
that counts resets and loads, so that a property can say "of this run".
A handler that throws (rendering an entry that was never received) keeps what
it did before the throw: see `Redraw`, `ClickForward`, `ClickBack`. Back may
lower `backwardIter` below the first iteration, as often as it is lit; the bound
`MaxBack` says how far the runs follow it.

**Quadrants** - rectangles of cells, lists of them, and a split: `Pieces` are the
two or four rectangles around a cell, `Put` writes them in the place of the one
they come from. The six ways to split that `heat.cc:771-1198` writes out are one
definition: a cut right of column x and below row y (`PiecesAround`), where a
line with nothing beyond it cuts nothing, and at the corner, where neither line
would cut, the corner cell is cut off (`CutX`, `CutY`). The seventh case, a
quadrant of one cell (`heat.cc:968-984`), is never reached: those are passed
over before.

**Heat** - the heatmap's engine, one action per method, under every order of
calls, abstracted as Trend is. New are the cells without records: `empties` are
those whose `record_id` is -1, and they are never a split's cell. `GenHeatNext`
needs the quadrants of the iteration before to be of the loaded chart's grid.

**BestQuadrant** - the choice that Heat leaves open, computed as the code does,
with the means of the pieces (of which one is derived from an older mean,
`Remainder`) and the colour scale. Sums are exact; the code's are doubles.

**IncrementalGrid** - the abstract specification: a grid is blank, then one
quadrant, then one gives way to several that fill its place.

**HeatPlayer** - the heatmap page, the server and the engine (it EXTENDS Heat).
The same handlers as TrendPlayer's, with what is different in the heatmap's
files: the first iteration is 1 after a load and 0 after Repeat
(`iterationLow`), the cells without records arrive with the answer to iteration
1 only (`validCells`), an answer has one, two or four quadrants, spliced in one
after another (`Spliced`), a Repeat leaves `resetFlag` on so that late answers
reset again, and `forwardIter` is not reset. The page asks for as many
iterations as the grid has cells: once no quadrant can be split, the engine
leaves its last answer in place and the page splices it in again. The user
waits for pending answers before a click that calls the server, except Repeat.

**Sampling** - where an average comes from. A call of an engine runs a query per
group (`Start`, `RunQuery`, `FinishQuery`, `EndCall`); a query takes the next
records of the group's bitmap (`SampleRecord`, `SampleNothing`,
`SamplePastEnd`), and each is fetched through the buffer of one block
(`Fetched`). Steps between which another request cannot run (Node is busy) are
separate actions only to keep each small: `Load` and `Reset` need `Idle`. A
record is a block and a place in it. The list a bitmap is expanded to is
external (EWAH's `toArray`: every member once, in file order). Which groups an
iteration samples is any choice, as in Trend and Heat. Reading past the end of the vector of
records is undefined behaviour: the model stops there. So does it where
`get_record` asserts (the build does not define NDEBUG); no run reaches that.
Not in the model: filters (`queryType` 2), two equal dimensions (the engine then
does a one-dimension query), and values of an attribute that no record has
(looking up their bitmap throws).

**Session** - several tabs, one server. A user opens a page from the start page
(which sends `/setViz` and leaves at once), picks the dataset, fills in the form
and presses Visualize; the tab may be sent back to the start page or reloaded
at any time. Every request has a connection of its own: the server takes
those of one tab, as those of different tabs, in any order (`requests[t]` is a
bag), and each may be lost, or its answer (`Lose`, of the kinds in `Lost`); the
page that asked then shows a message and stays as it is. `/getViz` reads the
file of the server's kind of chart in the background, answers, and writes the
other treatment back without waiting; a write cuts the file before it fills it
(`CutFile`, `WriteFile`). Opening the file may fail (`FilesFail`), and it may
hold neither treatment: then nothing is answered (`ReadFile`). A write that
fails after the cut is not in the model. Only
"Flight" is offered, so the dataset changes once on each page. An answer to a page the
tab no longer shows is dropped. A name that `setMaps` did not enter becomes an
empty attribute (`LookUp`). What is played on the chart afterwards is the
players' business.

**MCTrend, MCTrendPlayer, MCHeat, MCBestQuadrant, MCHeatPlayer, MCSampling,
MCSession** - instances.
**PartitionProofs, SplitProofs, TrendPlayerProofs, HeatProofs, HeatPlayerProofs,
PromiseProofs, SamplingProofs, SessionProofs** - the proofs (section 5).

## 3. Runs

Flight data has one dimension (Day, starting at 1) and several measures;
sensor data has Day (from 1) and Hour (from 0). The instances keep exactly
that: `Flight` has two charts of 3 groups, `Sensor` one of 3 and one of 2.

| Run | Question | Properties |
|---|---|---|
| `trend` | The engine, any calls in any order | `TrendTypeOK`, `KBestCovers`, `AnswerIsNeighbours`, `IterationRefines` |
| `best_split` | Is the split taken the best one? | `SplitIsBest`, `MeansAreAverages`, `EveryIterationSplits`, `MeansOnAxis` |
| `player` | Do page and engine stay in step, does anything of one dimension reach the next, and does a run end? | `PlayerTypeOK`, `ChainNested`, `ViewMatchesServer`, `AveragesAreOfThisChart`, `RequestsInRange`, `AutoplayEnds`, `ImplementsChart` |
| `player_lossy` | What survives failed calls, and is the curve the one its label names? Trendline and baseline | `PartitionShown`, `ChainNeverCoarsens`, `LabelMatchesDrawing` |
| `heat` | The heatmap engine, any calls in any order | `HeatTypeOK`, `KBestTiles`, `AnswerRebuilds`, `EmptiesExact`, `BaselineComplete` |
| `best_quadrant` | Which quadrant is split, where, in what colours? | `CutIsBestOfQuadrant`, `CornerHidesNothing`, `MeansAreAverages`, `MeansOnScale`, `CompleteInTime` |
| `heat_player` | Does the heatmap show what the engine keeps, is it painted over where there are no records, and does a run end? Heatmap and baseline, every button, three runs | `HeatPlayerTypeOK`, `RequestsFitGrid`, `EmptyCellsPainted`, `PictureMatchesServer`, `ImplementsGrid`, `AutoplayEnds` |
| `sampling` | Is every group given fresh records of its own, through index, cache and buffer? | `DrawsAreFresh`, `PastEndMeansExhausted`, `EmptiesExact` |
| `session` | Two tabs, requests lost or out of order, files that do not open: does a chart reach an engine that knows it, do the files survive, is a form of its page's kind? | `AxesKnown`, `FilesRecover`, `FormsFit` |
| `player_hasty`, `player_repeat`, `heat_reset` | see section 4 | violated: `PartitionShown`, `FirstStoreFits`, `PlaysAfterReset` |

How patient the user is matters, and is a constant of TrendPlayer. `"asking"`:
before Play and Visualize, which call the server, the user waits for pending
answers; every other button is pressed at any time. `"all"`: the user waits
before everything but Pause and Repeat. `"none"`: no waiting. `player` takes
the first, `player_lossy` the second; `player_hasty` shows that the assumption
is needed. `Leaps` of HeatPlayer: does the user press Forward before the first
iteration? The runs let it be pressed; two theorems need that it is not
(`PlaysFirst`), since Play then skips an iteration and page and engine part
(section 4). `PictureMatchesServer` therefore speaks of the iterations of a run
received without a gap (`Unbroken`); of all that were received it is violated in
`heat_player`. In Session, `OneKind`: users keep to one kind of page at a time,
and `Waits`: they open a page in a tab, and pick the dataset, only when the
server has taken the tab's earlier requests; no message tells them when that is,
as `/setViz` is never answered. `Lost` are the requests that may be lost, all but
`/setViz` in `session`. What happens to users of two kinds of page, or who do not
wait, or lose `/setViz`, is in section 4.

Bounds. `MaxCard` 3: three groups give chains of three iterations, the
smallest in which the split segment is neither the whole nor alone; a smaller
chart beside it lets leftovers above its cardinality exist. The axis from 1 to 3
ends where the array does, as the flight data's Day (1..366 of `k_Best[366]`)
does: iteration 3 has no slot. `MaxRuns` 2 lets
one run follow another (load, Repeat, or a second chart). For the trendline a
third run adds nothing (section 5 proves its invariants for any number). For the
heatmap it does: after a repeated run `segmentChain[0]` is left over for the
chart that is loaded next, whose first iteration is 1, and that takes three; the
invariants of `heat_player` are proved for any number (`PictureMatchesServer` with
`PlaysFirst`). `MaxInFlight` 2 bounds messages under way when an impatient user clicks. `MaxBack` (2, in
`heat_player` 0) ends a descent that the code does not end, that of `backwardIter`
below the first iteration; the proofs do not use it, and no property of a passing
run says that it is bounded.
`player` has 77,214 states. `BestSplit` has 4 groups, three values, and
`MaxMoved` 1: each iteration's samples move one average; with all of them moving
(140,042 states, four minutes) it holds as well. `Heat` has a grid of 3 x 2 with
an empty cell and one of 1 x 2, so that leftovers of one do not fit the other,
and all six ways to split occur; with `MaxIters` 4 (637,000 states, three
minutes) it holds as well. `BestQuadrant` has 3 x 2 cells of which two are
empty: a rectangle loses its corner only where all its columns but the last are
empty, so a smaller instance, or one without empty cells, never reaches that
case. `heat_player` (438,650 states, three minutes) has a square of four cells with
records in one corner, of which the left column is cut off and then halved; the
right one, which has none, is never split, so that the last answer is sent again.
Beside it a grid of a single cell, complete with its first iteration. Splits in
four are those of `heat` and `best_quadrant`; for the page they were tried on a
square with records in two opposite cells, beside a row of two (536,463 states, all
six properties) and beside a strip of three with none in the middle (877,318
states, `PictureMatchesServer` and `ImplementsGrid`).
`Sampling` (98,556 states) has six records in three blocks of two; the values of the two
attributes collide in the cache and one pair of values has no record. The
groups run out of records within two calls, so the model needs no bound.
`Session` (858,658 states, a minute and a half) has two tabs and two pages opened in
all: two of one kind side by side, or one reloaded, or one left for the other
kind, each with two requests under way. The treatment
files start alike, with 1 or with 2. Its tabs and the two heatmap dimensions are
interchangeable, which is sound as the run checks invariants only.
CHECK_DEADLOCK is FALSE where the system may rest: a user may stop clicking, a
finished chart has no next iteration, a sampler past its vector is stopped.

Fairness. TrendPlayer and HeatPlayer assume `WF` of serving a request and of
handling an answer: Node handles each request that arrives and the browser runs
each callback. Nothing is assumed of the user or of the network's failures, and
`AutoplayEnds` needs no more. In HeatPlayer it is stated of the messages
(`RequestTaken`, `AnswerTaken`), which only `Serve` and `Deliver` take away; one
request is exempt, iteration 0 of an engine that has already begun, for which
`genHeat` reads `k_Best_heat[-1]` and may end the server (`Answerable`). Fairness
also assumes a server that survives a store past an array (`player_repeat`). Session and Sampling state safety only and assume
no fairness.

Each property of a passing run has a mutant in PROJECT.json: a wrong version of
one definition (they stand before the definition they replace, marked "Wrong" or
"A plausible slip") under which TLC finds the property violated.

## 4. Where the code and its documentation disagree

* `player_hasty`: pressing Play again while an answer is under way starts a
  second chain of requests; both answers of one iteration are spliced, and the
  segmentation on the page is no longer a partition.
* `heat_reset`: a heatmap repeated before iteration 1 was ever received asks for
  iteration 0 first; the cells without records come with iteration 1 only, so
  drawing throws (`heatmap.js:339`) and the animation stops at once. Pressing
  Play again then asks for iteration 0 of an engine that has begun.
* `player_repeat`: on an axis that ends where `k_Best` does, Repeat while the last
  iteration is under way. The reset is not awaited (`player.js:687`); an engine
  that takes it first takes the last iteration for a first one and stores it
  past the array (`trend.cc:460`, which lacks the guard of `715`). In its turn
  the last iteration is harmless, because of that guard.
### Observations

Met while modelling; nothing in the repository says otherwise, or the models
leave them to the reader, so no run states them. Those marked (TLC) are
counterexamples that TLC found to a property stated for the purpose.

* Back lowers `backwardIter` before it compares it with the first iteration
  (`player.js:303`) and nothing stops it there. Pause, Back, and the last answer
  arrives: Save asks for iteration `xMin - 1`, and every Back after it lowers it by
  one more (TLC).
* `reset()` and `resetOnLoad()` empty `segmentArr` but not `segmentChain`
  (`player.js:742`, `trendline.js:733`). Save, pressed after Repeat and Play before
  the first answer, draws the iteration of the run before, or of another chart
  (TLC).
* Repeat plays a heatmap from iteration 0 and leaves an entry for it. When a chart
  is then loaded, which starts at 1, the seekbar can draw that entry
  (`heatmap/player.js:104-140`), which lights Forward on a page without an
  iteration. Forward (`183-204`) asks for iteration 1 with `playFlag` off; its
  answer counts on to 2 without asking, and Play asks for 3. `genHeat` reads the
  empty `k_Best_heat[2]` (`heat.cc:539`) and finds nothing to split, and so it
  goes on: the heatmap stays one average for the whole run (TLC).
* No store into `k_Best_heat` (1000 slots) is guarded, and the page asks for as many
  iterations as the grid has cells: 1643 for Day Of Month by Week Of Year.
  HeatPlayer's `MaxIters` is that size; `PageStaysTyped` assumes smaller grids.
* `/setViz` is sent by a page that is left at once (`index.html:20-25`). Where the
  request is dropped with the page, or overtaken by those of a user who does not
  wait, the next page gets the fields of the kind opened before (of a heatmap,
  if none was), and may not be able to read them (TLC, both).
* One `vizType` serves all tabs. A heatmap page opened in a second tab turns the
  server away from the first tab's trendline, whose chart is then loaded without
  attributes (TLC). Two pages of one kind share the engine and play each other's
  chart.
* A `/getViz` that reads a treatment file while another has cut it is never
  answered (TLC), nor is one whose file does not open (`app.js:73`): the page waits
  until the server closes the socket.
* The measure chosen in the form is looked up and stored in `measAttr`
  (`trend.cc:274`), which nothing reads; the query file's target is averaged. The
  models therefore have no measure but in the form.
* Save while playing takes the iteration under way. In a first run nothing has been
  received for it: the label moves on, no snapshot appears.
* After a complete run with nothing to replay, Play shows a Pause button and
  stays `playFlag` without asking for anything, which is why `AutoplayEnds`
  speaks of a call under way.
* A reset that fails (`player.js:688`) leaves the engine in the middle of a run.
* `nonSingleGroups` counts the right half twice (`trend.cc:678-682`), which has
  no effect because the sample count is then overwritten.
* Across quadrants the code compares the absolute score of a cut, not what it
  adds to the quadrant uncut (`heat.cc:742`), so a quadrant of a single average
  may be split, which shows nothing, while another has a feature. Within a
  quadrant the cut is the best one (`CutIsBestOfQuadrant`).
* Where a rectangle loses its corner, the mean of the rest is the old mean minus
  the three others, without their sizes (`heat.cc:1072`). No cell with records
  is drawn in it (`CornerHidesNothing`), but the colour scale is stretched to it.
* The browser's Back button or a typed address open a page without any `/setViz`,
  with the effect of a dropped one; they are not actions of the model. `setMaps`
  only ever adds names.
* On a heatmap's form a dimension chosen for y first may be chosen for x too
  (`heatmap/toolkit.js:604` only takes it off the list for y).
* A group's position in its records is not rewound by a reset, so a chart that
  is repeated often enough exhausts it and `sequential_sample` reads past the
  vector (`swift_map.cc:369`); `PastEndMeansExhausted` says that this is the only
  way there.

## 5. Proofs

All are checked by tlapm to the last leaf, for every number of charts, every
cardinality up to any `MaxCard`, grids of any size, any number of runs and any
order of calls that the specifications allow. Where a theorem needs more, its
hypothesis is a named definition and stands in the statement.

*PartitionProofs* - the lemmas about data that the other proofs share. Bags:
what adding or removing one message does to a bag. Lists: what one `splice`
does, replacing (`OverElements`) and inserting (`InElements`). Segments: what
`SplitSeg` returns, that it stays a partition (`SplitCovers`), in order, inside
its bounds, refines by exactly one cut, and can be done as long as the list is
not full (`SplitFull`, `CanStillSplit`). Quadrants: the pieces of one fill its
place (`PiecesFit`), where an element of the new list comes from (`PutOrigin`),
and a list that covers a grid still does when pieces that fill it replace one
of its quadrants (`PutTiles`). Unlike the segments' `Covers`, `Tiles` speaks of
every pair of quadrants, not of neighbours, and is inductive as it stands. Sums
and maxima: what a fold over a finite set returns (`FoldByExists`, `MaxUpTo`),
that a sum of integers is one, and that it adds up over disjoint sets (`SumAdd`,
`SumUnion`), over one group more (`SumNext`) and when one value changes
(`SumReplaced`). Savings: the identity between the squared errors before and
after a set is cut in two and the difference of the two means, in integers.

*TrendPlayerProofs*, the engine alone - `TrendTypeCorrect`, `TrendCovers`, `TrendAnswers` (state
invariants of `TrendSpec`) and `TrendRefines` (an action property). The
inductive invariant `TrendInv` is the conjunction of `TrendTypeOK`, `KBestCovers`,
`AnswerIsNeighbours`, and two parts that no run needs but the induction does:
`CardMatches` (`card` is that of the loaded chart, hence positive when
`genHisto` runs: otherwise the first segment would be 0..-1) and
`KBestOrdered`: segments that are not neighbours do not overlap either. Covers
implies the latter, but only by an induction over the list;
as an invariant of its own it is inductive over the steps and gives that cuts are
distinct, which `IterationRefines` needs. Assumptions: `MaxCard >= 3`, `NoChart` is no
chart, cardinalities within the arrays, axes that start at 0 or 1.

*TrendPlayerProofs*, the page - page, network, server and engine together, in three layers.
`OrderInv` is about the order of the calls: one call or one answer is under way
(`OneCall`), page and engine have the same axis unless the answer that says so
is still under way (`AxisAgrees`), an iteration that was under way when the user
clicked Repeat reaches a clean engine or is followed by one more reset
(`ResetOvertakes`), and what is asked is the iteration the page is at
(`AskedIsCurrent`), at most the one past the array where an axis ends there. It
gives `RequestsStayInRange`: no slot of `k_Best` that the C++ does not have is
read, and one is written at most where Repeat's reset has overtaken the last
iteration. With `AxesFit` (every axis ends before the array does) that case is
gone (`FirstStoresFit`); `player_repeat` shows it without. `AveragesStayOfChart`
holds with `AxesFit`, or with no iteration lost. `ShapeInv` says, on top of
it, what the page shows: its list covers the axis (`ArrShape`), the entries of
the chain lead up to it (`ChainShape`), the slot the next iteration reads is
what the page shows or empty (`PrevSlot`), an answer is the whole axis or the two
halves of a segment that is shown (`AnswerFits`). It gives `PartitionStaysShown`,
`ChainStaysFine`, `ChainStaysNested`, `ViewStaysServers`, and, mapping every step
to a step of the abstract chart or to a stutter, `PageImplementsChart`. The
hypotheses are those the runs have. `Orderly`: the user waits for an answer
before the next call (`player_hasty` shows why), no reset and no axes are lost,
and if iterations are, the user touches nothing while the chart plays.
`Lossless`: no iteration is lost. `LinesOnly`: no baseline, whose bars are a
different drawing. Each theorem states those it needs: the averages and the
partition survive lost iterations, the chain's fineness as well. The third,
`ScreenInv`, is about the counters and the screen. Six counters move with every
button, and no reset clears `forwardIter`; `Counted` says how they stand to the
last iteration that was asked and received, which keeps five of them within a step
of the axis, and `backwardIter` below its end: `PlayerStaysTyped`, for every
orderly user and without a limit to how often Back is pressed. A replay sets label and drawing frame
by frame, a pause cuts it off, and an answer that was under way is drawn later:
`Latest`, `BarsFit` and `WillDraw` say what the screen shows, or will show before
the user can act. They give `LabelStaysOfDrawing`: the chart under the label of a
received iteration is what was received for it. Its hypothesis is that the user
leaves a playing chart alone (`Patience = "all"`). Who only waits for answers
can press Pause and then Forward to the pending iteration, and gets its
label over another drawing. No assumption beside Trend's.

*SplitProofs* - of `BestSplit`, for every cardinality and all averages: the means
lie on the axis sent with them (`MeansStayOnAxis`), those of the two new segments
are the averages of their groups (`MeansStayAverages`), every iteration splits
while a segment has two groups (`EveryIterationStillSplits`), and no other split
would have left a smaller squared error (`SplitStaysBest`). The table of partial
sums is never cleared, neither between segments nor between iterations. It is
filled column by column, and what a segment's search reads are cells filled for
the same segment (`TableReads`, by induction along the fold of the columns), so
no stale cell counts. The search starts below every score, hence finds a cut, and
one after the last group never wins against one inside. The inductive `SplitInv`
says that every segment lies on the axis, that the table holds integers and that
the means lie within the range sent so far. What a split saves, times the sizes of both halves, is
the scaled square of the difference of their means; so the scores order the splits
as the errors do. Assumption: `BestSplitAssumption`.

*PromiseProofs* - `ChartAlwaysCovers`: a chart that is not blank shows every
value of its axis exactly once; `GridAlwaysFilled`: the same of a heatmap and its
cells. Every module that refines the abstract ones inherits them. Then, of
`BestQuadrant`, for grids of every size, any empty cells and any samples:
`QuadrantsComplete` (the iterations the page asks for are enough),
`MeansStayOnScale` and `MeansStayAverages`. The inductive `QuadInv` says that the
list without its means covers the grid, that it has as many quadrants as there
were iterations while anything can be split, and that every mean lies between
`avgMin` and `avgMax`. That a split does happen rests on the search finding
something: `BestCell` and `BestQuad` pick a first best, which exists in a finite
set of candidates with integer scores (`FirstBest`). Scores are sums over sets of
cells; that they are integers is proved about the fold that computes them
(`FoldExists`, `TotalIsInt`, `ProductIsInt`), the induction being that a set of
naturals has a least element (`LeastNat`), which needs no operator for a
parameter. Complete it is because quadrants that cover the grid have different
upper left cells, so that with one quadrant per cell none can have a second cell
(`CoveredByCells`). What the score is worth: totals, sizes and squares add up over
the pieces (`HalvesAdd`), two colours weigh no less than one (`HalvesWeigh`,
convexity of the square), hence no cut scores below the uncut quadrant
(`AroundCounts`), and the error left by a cut is what the squares come to less its
score. From that, `CutStaysBestOfQuadrant`: no other cell with records would have
left a smaller error, and where the code moves the cut off the corner nothing is
lost; and `CornerStillHidesNothing`: the piece whose mean is derived instead of
computed has no cell with records, as a candidate before the corner would have
won. Assumption: `BestQuadrantAssumption`, a grid that is not
empty and integer samples.

*HeatProofs* - `HeatTypeCorrect`, `HeatTiles`, `HeatEmptiesExact`,
`HeatBaselineComplete` and, as an action property, `HeatAnswerRebuilds`. The
inductive invariant is the conjunction of the four state invariants: the type of
`kBest` and the answer follows from the tiling, the baseline's completeness from
the empty cells being known exactly. Assumptions: `MaxSide` and `MaxIters` at
least 1, grids within the arrays, empty cells within their grid.

*HeatPlayerProofs* - the heatmap page with its server, in layers like the
trendline's. `RequestsStayInGrid` holds without a hypothesis, for every user and
any number of runs, `ForwardFirst` and the stray answers after Repeat included:
the engine is never asked for more iterations than the grid has cells. Its
`OrderInv` is that of the trendline with what differs: a Repeat leaves
`resetFlag` on, so an answer of the old run is never taken for one of the new
(`ResetOvertakes`), and a run that was played or paused has begun or is at its
end (`Counted`), which bounds what the next `play()` asks. `ShapeInv` says what
the page has received: the iterations of the run without a gap (`ChainIs`), none
of them asked for twice (`FirstOrNot`, `Resting`, `Playing`), for each the
quadrants the engine keeps (`SlotsKept`). The page's list is the engine's own,
in the values of the axes, until nothing can be split; then the last answer
comes again and splicing it in repeats quadrants in the list, but adds none
(`ListKept`, `AgainAnswer`, `PutAgain`). It gives `PictureStaysServers` and,
mapping every step to one of the abstract grid or to a stutter,
`PageImplementsGrid`. Both have one hypothesis, `PlaysFirst` (`~Leaps`): the user
does not press Forward before the first iteration. Without it `ImplementsGrid`
and `PictureMatchesServer` are only model-checked.

A third layer, `PaintInv`, is about the cells that are painted over as having no
records. They come with iteration 1 only and the page clears them at no reset,
nor the entries of earlier runs, so between a Repeat and iteration 1 of the new
run it may draw old quadrants with old cells, those of another chart even.
`EmptiesStayPainted` says, for every user and without `PlaysFirst`, that this
ends in time: once iterations of this run are shown under their label, the cells
are this chart's. It is not inductive: a label survives a redraw that throws, and
a paused page counts on without drawing. The strengthening says that no later
iteration is received before iteration 1 (`ChainBegins`), when the page waits for
an answer it will not draw (`WaitingFits`, `Unseen`), and that a picture painted
over wrongly carries a label of nothing received, 0, or else 1 in the one case in
which Play must draw again before iteration 1 can arrive: a grid of one cell,
paused (`Mistaken`). It was model-checked with up to three runs before it was
proved.

A fourth layer, `RangeInv`, bounds every counter, label and entry, and gives
`PageStaysTyped`: nothing but `backwardIter`, and the label taken from it, leaves
the iterations of the chart by more than the steps that `play()` counts past the
last and an early pause counts back. It holds of every use of the page,
Forward before the first iteration included, but needs `GridsFit`: the grid of
every chart has fewer cells than `MaxIters`, and its axes' values fit the arrays.
`MaxIters` is the size of `k_Best_heat`, 1000 in the code, which checks neither; a
grid with more cells is played past the end of that array. The case that makes the bound an invariant of its own is
`forwardIter`: no reset clears it, so it enters the next run with the value of
the last chart. It stays one below the others' bound, and what Forward adds to it
is bounded by the new run's `maxIteration`. `backwardIter` is bounded from above
only (`Labels`), so `MaxBack` plays no part. This invariant, too, was
model-checked first. Assumptions beside Heat's: axes start at a natural number,
the server's type is 2 or 4, and `UnknownAssumption`, that the unset `validCells`
is no set of cells.

*SamplingProofs* - `DrawsStayFresh`, `PastEndOnlyExhausted` and `EmptiesStayExact`,
for every file, block size, index and set of charts. The inductive invariant
`SamplingInv` says where the sampler stands: what a group has drawn is as long as
its position and a prefix of its bitmap's list, a group the cache does not know
has drawn nothing (`Positions`), a query's demand is counted before its records
are drawn (`AskedInTime`), and the buffer holds the block it is said to hold with
the file positioned right after it (`BufferHonest`, which is why a read never
starts at the end of the file). `MarksInv` is about the one flag through which
all queries say that a group has no records: on a chart of one attribute it is
up only until the first group of the first call was read (`FlagLowered`), so
that it never marks a group that has records (`MarksRight`). Assumptions: at least one
block, one record in each, and `ToArrayAssumption` (the list of a bitmap holds
each member once).

*SessionProofs* - for any number of tabs, requests and accesses under way,
`FilesAlwaysRecover`, and under `Careful` (`OneKind`, `Waits`, no `/setViz` lost)
`AxesStayKnown` and `FormsStayFitting`. `FilesRecover` speaks of the
moments without accesses only; the inductive `FileInv` says what holds in
between: a file is cut to nothing only while some access is about to write it,
and what is written is a 1 or a 2. `SessionInv` relates the tabs to the server.
All tabs' pages and requests are of one kind (`KindsAgree`). The server is at the
kind of whatever it is asked but a `/setViz`, and at a page's kind once the
page's `/setViz` is served, before which nothing is asked for it (`AtKind`): so
the order in which a tab's requests are served does not matter. What is under
way for a page, it has asked for (`AskedFor`), and a form is filled from a server
that knows the names (`FormsKnow`). Each of the three hypotheses is needed: without
any one of them the server answers a page with the form of the other kind, or
loads a chart without attributes (section 4).
Assumption: `Nothing` is no name.

Only model-checked, and why. Liveness (`AutoplayEnds` of both players,
`PlaysAfterReset`) is out of the prover's reach; every invariant and every action
property of a passing run is stated by a theorem. What the runs add is mostly
where a theorem has a hypothesis: the runs that expect a violation show what
happens without it. Those runs (section 4) are no matter for a
proof. Nothing is proved of what a recursive definition over data
computes: folds over sets and recursive functions on the naturals are what the
models use instead, and their lemmas are inductions on the least counterexample.

## 6. Not modelled

* Parts of the running server: the predicate form and its queries
  (`queryType` 2, `/getpreddata`), `/getiterativedata2`, error estimates, the storing of questionnaires
  (`/storeResponse*`), the conversion of CSV files, the binner (one value, one
  key), the parsing of schema, configuration and query files. They
  keep no state that the charts depend on, or no page reaches them.
* The index's other ways to sample: density maps, lossy bitmaps, random samples
  and scans (most of `swift_map.cc`, `swift_index.cc`), used only by the
  command-line experiments `main.cc`, `trendline.cc`, `eugenewu.cc`,
  `intel_sample.cc`.
* `js/*/playerBase.js`, `js/*/*Base.js` and `js/old_`, which no page loads, and
  third-party code.

These are more than half of the repository's lines; of the code that runs
behind the two pages most is modelled.
