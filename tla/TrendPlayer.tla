---------------------------- MODULE TrendPlayer ----------------------------
(***************************************************************************)
(* One browser page (new-web-test/js/trendline/player.js, trendline.js)    *)
(* talking to the server (app.js, incvisage.cc) and its trendline engine   *)
(* (module Trend).  The page asks for one iteration at a time; an answer   *)
(* carries only the two halves of the segment that was split, and the page *)
(* splices them into the segmentation it already has.  Nothing but the     *)
(* order of the calls keeps the two sides in step.                         *)
(*                                                                         *)
(* Requests travel on separate connections, so they are bags: the server   *)
(* may see them, and the page their answers, in any order.  Each handler   *)
(* runs to its end (Node and the browser are single-threaded).             *)
(***************************************************************************)
EXTENDS Trend, Bags, SequencesExt

CONSTANTS
  VizTypes,     (* What the server was set to show: 1, the incremental     *)
                (* trendline, or 3, the baseline (a bar per group).        *)
  Patience,     (* Before which clicks does the user wait for the pending  *)
                (* answers?  "none", "asking" (Play and Visualize, which   *)
                (* call the server) or "all" (but Pause and Repeat; and    *)
                (* the seekbar is left alone while the chart is playing).  *)
  LoseRequests, (* The requests ("axes", "reset", "iter") that may fail    *)
                (* before they reach the server.                           *)
  LoseReplies,  (* The answers ("axes", "iter") that may be lost.          *)
  MaxRuns,      (* Bound: resets and loads of one behaviour.               *)
  MaxInFlight,  (* Bound: messages under way when the user clicks.         *)
  MaxBack       (* Bound: how far below 0 Back takes backwardIter.         *)

ASSUME PlayerAssumption ==
  /\ VizTypes \subseteq {1, 3}
  /\ Patience \in {"none", "asking", "all"}
  /\ LoseRequests \subseteq {"axes", "reset", "iter"}
  /\ LoseReplies \subseteq {"axes", "iter"}
  /\ MaxRuns \in Nat /\ MaxInFlight \in Nat /\ MaxBack \in Nat

VARIABLES
  requests,      (* Requests the server has not handled.                   *)
  replies,       (* Answers the page has not handled.                      *)
  page,          (* The global variables and buttons of the page.          *)
  segmentChain,  (* iteration -> the segmentation that was received for it *)
  screen,        (* What the chart shows: its label and its segmentation.  *)
  run,           (* History variable: number of resets and loads so far.   *)
  vizType        (* Server: the type of the charts of this session.        *)

net  == << requests, replies >>
view == << segmentChain, screen >>
vars == << trendVars, net, page, view, run, vizType >>

-----------------------------------------------------------------------------
(* Messages.                                                               *)
AxesRequest(c) == [op |-> "axes", chart |-> c]
ResetRequest   == [op |-> "reset"]
IterRequest(i) == [op |-> "iter", iter |-> i]

Send(m) == requests' = requests (+) SetToBag({m})
Idle    == requests = EmptyBag /\ replies = EmptyBag

-----------------------------------------------------------------------------
(* The server: app.js dispatches on the path; the answer of an iteration   *)
(* is packed from the engine's state right after genHisto.                 *)

\* groupMap[g]: a std::map, whose absent keys read as 0.
XMin == IF Loaded THEN XMinOf[chart] ELSE 0
Value(g) == IF g < card THEN XMin + g ELSE 0
PackedNext(n, seg) == [n |-> n + 1, seg |-> Seg(Value(seg.b), Value(seg.e))]
Packed(n, seg) == [n |-> n, seg |-> Seg(Value(seg.b), Value(seg.e))]

\* Wrong answers: position off by one (above), the halves swapped, the axis
\* one value too long.
PackSwapped ==
  IF splitSeg' = -1
    THEN << Packed(0, firstNew') >>
    ELSE << Packed(splitSeg', secondNew'), Packed(splitSeg' + 1, firstNew') >>
ServeAxesLong(m) ==
  /\ m.op = "axes"
  /\ LoadAxesData(m.chart)
  /\ replies' = replies (+) SetToBag({[op |-> "axes", xMin |-> XMinOf[m.chart],
                    xMax |-> XMinOf[m.chart] + CardOf[m.chart]]})

PackSegments ==
  IF splitSeg' = -1
    THEN << Packed(0, firstNew') >>
    ELSE << Packed(splitSeg', firstNew'), Packed(splitSeg' + 1, secondNew') >>

\* The bars in the order of their keys: k - 1 keys are below the k-th.
PackBars ==
  LET keys   == DOMAIN avgMap'
      Key(k) == CHOOSE g \in keys : Cardinality({ h \in keys : h < g }) = k - 1
  IN [k \in 1 .. Cardinality(keys) |-> Seg(Value(Key(k)), Value(Key(k)))]

ServeAxes(m) ==
  /\ m.op = "axes"
  /\ LoadAxesData(m.chart)
  /\ replies' = replies (+) SetToBag({[op |-> "axes", xMin |-> XMinOf[m.chart],
                    xMax |-> XMinOf[m.chart] + CardOf[m.chart] - 1]})

ServeReset(m) ==
  /\ m.op = "reset"
  /\ Reset
  /\ UNCHANGED replies

ServeIter(m) ==
  /\ m.op = "iter"
  /\ IF vizType = 1 THEN GenHisto(m.iter) ELSE GenHistoBase
  /\ replies' = replies (+) SetToBag({[op |-> "iter",
                    sl |-> IF vizType = 1 THEN PackSegments ELSE << >>,
                    gl |-> IF vizType = 3 THEN PackBars ELSE << >>,
                    xMin |-> XMin, xMax |-> XMin + card - 1]})

Serve ==
  \E m \in BagToSet(requests) :
    /\ ServeAxes(m) \/ ServeReset(m) \/ ServeIter(m)
    /\ requests' = requests (-) SetToBag({m})
    /\ UNCHANGED << page, view, run, vizType >>

-----------------------------------------------------------------------------
(* The page.                                                               *)

Entry(r, segs) == [run |-> r, segs |-> segs]

\* render(i, entry): the label always changes; the curve is drawn only once
\* there is a path, which iteration x0 (xMin) creates.
Render(s, x0, i, entry) ==
  IF s.path \/ i = x0
    THEN [label |-> i, path |-> TRUE, run |-> entry.run, segs |-> entry.segs]
    ELSE [s EXCEPT !.label = i]

\* render(i, segmentChain[i]): an entry that was never received is
\* undefined, and render throws once it has written the label.
Received(i) == i \in DOMAIN segmentChain
Redraw(s, i) ==
  IF Received(i) THEN Render(s, page.xMin, i, segmentChain[i])
                 ELSE [s EXCEPT !.label = i]

Blank(i, r) == [label |-> i, path |-> FALSE, run |-> r, segs |-> << >>]

\* The page after reset() and resetOnLoad().  forwardIter keeps its value
\* (both assign a misspelt variable), and so does segmentChain.
Cleared(p) ==
  LET start == p.xMin - 1
  IN [p EXCEPT !.iteration = start, !.playIter = start, !.pauseIter = start,
               !.backwardIter = start, !.seekbarMax = start,
               !.segmentArr = << >>,
               !.forwardFlag = FALSE, !.backFlag = FALSE, !.pauseFlag = FALSE,
               !.playFlag = FALSE, !.simplayFlag = FALSE, !.playNoviz = FALSE,
               !.icon = "play", !.playLit = TRUE, !.forwardLit = FALSE,
               !.backLit = FALSE]

\* The page when play() finds nothing more to ask; wrong: it plays on.
FinishedButPlaying(p) ==
  [p EXCEPT !.backFlag = TRUE,
            !.backwardIter = IF p.pauseFlag THEN @ ELSE p.xMax,
            !.playLit = @ /\ ~p.playFlag, !.forwardLit = @ /\ ~p.playFlag,
            !.backLit = @ \/ p.playFlag]
Finished(p) ==
  [p EXCEPT !.backFlag = TRUE,
            !.backwardIter = IF p.pauseFlag THEN @ ELSE p.xMax,
            !.playLit = @ /\ ~p.playFlag, !.forwardLit = @ /\ ~p.playFlag,
            !.backLit = @ \/ p.playFlag, !.playFlag = FALSE]

\* play(): ask for the next iteration, or stop at the end of the run.
\* resetFlag is false wherever play is called.
Play(p) ==
  LET q    == [p EXCEPT !.iteration = @ + 1]
      live == q.playFlag /\ q.iteration <= q.xMax
  IN \/ /\ live
        /\ page' = q
        /\ Send(IterRequest(q.iteration))
     \/ /\ ~live /\ q.simplayFlag
        /\ page' = q
        /\ UNCHANGED requests
     \/ /\ ~live /\ ~q.simplayFlag
        /\ page' = Finished(q)
        /\ UNCHANGED requests

\* The page when the replay has caught up; wrong: it skips an iteration.
ResumedSkips(p) ==
  [p EXCEPT !.playIter = Max({@ + 1, p.iteration}), !.playFlag = TRUE,
            !.playNoviz = FALSE, !.simplayFlag = FALSE]
Resumed(p) ==
  [p EXCEPT !.playIter = Max({@ + 1, p.iteration}), !.playFlag = TRUE,
            !.iteration = @ - 1, !.playNoviz = FALSE, !.simplayFlag = FALSE]

\* simulatePlay() and genSimCharts(): replay the iterations after playIter
\* that were already received, then go on playing live.  The first one that
\* is missing from segmentChain throws, and nothing goes on.
SimulatePlay(p) ==
  LET missing == { i \in p.playIter + 1 .. p.iteration - 1 : ~Received(i) }
      last    == IF missing = {} THEN p.iteration - 1 ELSE Min(missing)
      frames  == [k \in 1 .. last - p.playIter |-> p.playIter + k]
  IN /\ screen' = FoldLeft(Redraw, screen, frames)
     /\ \/ missing = {} /\ Play(Resumed(p))
        \/ /\ missing # {}
           /\ page' = [p EXCEPT !.playIter = last]
           /\ UNCHANGED requests

-----------------------------------------------------------------------------
(* Answers arriving at the page.                                           *)

\* processAxesData and resetOnLoad.
DeliverAxes ==
  \E m \in BagToSet(replies) :
    /\ m.op = "axes"
    /\ replies' = replies (-) SetToBag({m})
    /\ page' = Cleared([page EXCEPT !.xMin = m.xMin, !.xMax = m.xMax,
                                    !.loaded = TRUE, !.resetFlag = FALSE])
    /\ screen' = Blank(m.xMin - 1, run + 1)
    /\ Send(ResetRequest)
    /\ run' = run + 1
    /\ UNCHANGED << trendVars, segmentChain, vizType >>

\* segmentArr.splice(n, drop, segment): positions past the end are the end.
Splice(arr, n, drop, segment) ==
  LET at == Min({n, Len(arr)})
  IN SubSeq(arr, 1, at) \o << segment >> \o SubSeq(arr, at + 1 + drop, Len(arr))

\* A wrong splice: the second segment replaces the one that follows.
SplicedOver(arr, sl) ==
  LET one == Splice(arr, sl[1].n, 1, sl[1].seg)
  IN IF Len(sl) = 1 THEN one ELSE Splice(one, sl[2].n, 1, sl[2].seg)

\* The first segment of an answer replaces the one that was split, the
\* second is inserted after it.
Spliced(arr, sl) ==
  LET one == Splice(arr, sl[1].n, 1, sl[1].seg)
  IN IF Len(sl) = 1 THEN one ELSE Splice(one, sl[2].n, 0, sl[2].seg)

\* The baseline's bars overwrite the array from its start.
Overwritten(arr, gl) == gl \o SubSeq(arr, Len(gl) + 1, Len(arr))

\* genCharts: whatever answer arrives, it is taken for that of `iteration`.
DeliverIter ==
  \E m \in BagToSet(replies) :
    /\ m.op = "iter"
    /\ replies' = replies (-) SetToBag({m})
    /\ UNCHANGED << trendVars, run, vizType >>
    /\ \/ /\ page.resetFlag
          /\ page' = Cleared(page)
          /\ screen' = Blank(page.xMin - 1, run)
          /\ Send(ResetRequest)
          /\ UNCHANGED segmentChain
       \/ /\ ~page.resetFlag
          /\ LET i   == page.iteration
                 arr == IF m.sl # << >> THEN Spliced(page.segmentArr, m.sl)
                                        ELSE Overwritten(page.segmentArr, m.gl)
                 got == Entry(run, IF m.sl # << >> THEN arr ELSE m.gl)
                 p   == [page EXCEPT !.segmentArr = arr,
                                     !.xMin = IF i = 1 THEN m.xMin ELSE @,
                                     !.xMax = IF i = 1 THEN m.xMax ELSE @]
             IN /\ segmentChain' = [j \in DOMAIN segmentChain \cup {i} |->
                                      IF j = i THEN got ELSE segmentChain[j]]
                /\ screen' = IF ~p.playNoviz /\ ~p.simplayFlag
                               THEN Render(screen, p.xMin, i, Entry(run, arr)) ELSE screen
                /\ IF i <= p.xMax
                     THEN Play([p EXCEPT !.playNoviz = @ \/ p.forwardFlag])
                     ELSE page' = p /\ UNCHANGED requests

-----------------------------------------------------------------------------
(* Clicks.  A button reacts only while it is lit.                          *)

InFlight == BagCardinality(requests) + BagCardinality(replies)
CanAsk   == IF Patience = "none" THEN InFlight < MaxInFlight ELSE Idle
CanLook  == Patience = "all" => Idle /\ ~page.playFlag

Visualize(c) ==
  /\ CanAsk
  /\ run < MaxRuns
  /\ Send(AxesRequest(c))
  /\ UNCHANGED << trendVars, replies, page, view, run, vizType >>

ClickPlay ==
  LET p == [page EXCEPT !.icon = "pause", !.forwardFlag = FALSE,
                        !.backFlag = FALSE, !.pauseFlag = FALSE,
                        !.playFlag = TRUE, !.playNoviz = FALSE,
                        !.resetFlag = FALSE]
      dimmed == [p EXCEPT !.forwardLit = FALSE, !.backLit = FALSE]
      ended  == p.iteration >= p.xMax
      replay == p.xMin <= p.playIter /\ p.playIter < p.xMax
  IN /\ CanAsk
     /\ page.icon = "play" /\ page.playLit
     /\ \/ /\ ended /\ replay
           /\ SimulatePlay([dimmed EXCEPT !.simplayFlag = TRUE,
                                          !.playIter = @ - 1])
        \/ /\ ended /\ ~replay
           /\ page' = [p EXCEPT !.backLit = TRUE]
           /\ screen' = Render(screen, p.xMin, p.xMax, Entry(run, p.segmentArr))
           /\ UNCHANGED requests
        \/ /\ ~ended /\ p.simplayFlag
           /\ SimulatePlay(dimmed)
        \/ /\ ~ended /\ ~p.simplayFlag
           /\ Play(dimmed)
           /\ UNCHANGED screen
     /\ UNCHANGED << trendVars, replies, segmentChain, run, vizType >>

\* The iteration a pause holds; wrong: the one that is still under way.
PausedAtNext == IF page.simplayFlag THEN page.playIter ELSE page.iteration
PausedAt     == IF page.simplayFlag THEN page.playIter ELSE page.iteration - 1

ClickPause ==
  LET at == PausedAt
      to == Min({at, page.xMax})
  IN /\ page.icon = "pause" /\ page.playLit
     /\ page' = [page EXCEPT
          !.simplayFlag = TRUE, !.pauseFlag = TRUE, !.playFlag = FALSE,
          !.playNoviz = TRUE, !.backFlag = TRUE, !.forwardFlag = TRUE,
          !.seekbarMax = Max({@, at}),
          !.pauseIter = to, !.forwardIter = to, !.backwardIter = to,
          !.playIter = to,
          !.icon = "play", !.backLit = TRUE, !.forwardLit = to < page.iteration]
     /\ screen' = IF page.simplayFlag THEN screen
                  ELSE Render(screen, page.xMin, at, Entry(run, page.segmentArr))
     /\ UNCHANGED << trendVars, net, segmentChain, run, vizType >>

ClickForward ==
  LET p == IF page.iteration < page.xMin
             THEN [page EXCEPT !.iteration = @ + 1, !.forwardFlag = TRUE,
                               !.forwardIter = page.iteration + 1]
             ELSE page
      moves == p.forwardFlag /\ ~p.playFlag /\ p.pauseFlag
      to == p.forwardIter + 1
      q  == [p EXCEPT !.backFlag = TRUE, !.forwardIter = to,
                      !.seekbarMax = Max({@, to})]
      at == IF moves THEN Min({to, p.xMax}) ELSE p.forwardIter
      r  == IF moves THEN [q EXCEPT !.forwardIter = at, !.backwardIter = at,
                                    !.playIter = at, !.pauseIter = at]
                     ELSE p
  IN /\ CanLook
     /\ page.forwardLit
     /\ screen' = IF moves /\ to <= p.xMax THEN Redraw(screen, to) ELSE screen
     /\ page' = IF moves /\ to <= p.xMax /\ ~Received(to)
                  THEN q
                  ELSE [r EXCEPT
                         !.forwardFlag = @ \/ (r.iteration < r.xMax /\ r.backFlag),
                         !.icon = "play", !.playLit = at < r.xMax,
                         !.forwardLit = at < r.iteration - 1, !.backLit = TRUE]
     /\ UNCHANGED << trendVars, net, segmentChain, run, vizType >>

\* Once a run is complete, Back and Forward in turn take backwardIter below
\* the first iteration, one lower each time, as often as one clicks: only
\* the bound MaxBack ends that here, nothing does in the page.
ClickBack ==
  LET p     == page
      moves == ~p.playFlag /\ p.backFlag
      to    == p.backwardIter - 1
      q     == [p EXCEPT !.forwardFlag = TRUE, !.backwardIter = to]
      at    == Max({to, p.xMin})
      r     == IF moves THEN [q EXCEPT !.forwardIter = at, !.playIter = at,
                                       !.pauseIter = at]
                        ELSE p
      early == r.backwardIter < r.xMax
  IN /\ CanLook
     /\ page.backLit
     /\ to >= -MaxBack
     /\ \/ /\ p.iteration = p.xMin
           /\ page' = [p EXCEPT !.backFlag = FALSE, !.backLit = FALSE,
                                !.forwardLit = TRUE]
           /\ screen' = Redraw(screen, p.iteration)
        \/ /\ p.iteration # p.xMin
           /\ screen' = IF moves /\ to >= p.xMin THEN Redraw(screen, to)
                                                 ELSE screen
           /\ page' = IF moves /\ to >= p.xMin /\ ~Received(to)
                        THEN q
                        ELSE [r EXCEPT !.backLit = r.backwardIter > r.xMin,
                                       !.icon = IF early THEN "play" ELSE @,
                                       !.playLit = @ \/ early,
                                       !.forwardLit = TRUE]
     /\ UNCHANGED << trendVars, net, segmentChain, run, vizType >>

\* The buttons after the seekbar was moved to v.
SeekButtons(p, v) ==
  [p EXCEPT !.icon = "play", !.playLit = v < p.xMax, !.forwardLit = TRUE,
            !.backLit = v >= p.xMax \/ v # p.xMin]

\* While an iteration is being played the seekbar moves nothing; at its two
\* ends it still turns the buttons.
DragSeekbar ==
  LET p == page
  IN \E v \in p.xMin .. p.xMax :
       LET limit == IF p.pauseFlag THEN p.seekbarMax ELSE p.iteration
           at == Min({v, limit})
           q  == [p EXCEPT !.forwardFlag = @ \/ at < p.xMax,
                           !.backFlag = @ \/ (at <= p.xMax /\ at > p.xMin),
                           !.forwardIter = at, !.backwardIter = at,
                           !.pauseIter = at, !.playIter = at]
       IN /\ CanLook
          /\ p.loaded
          /\ \/ /\ p.pauseFlag \/ ~p.playFlag
                /\ screen' = Redraw(screen, at)
                /\ page' = IF Received(at) THEN SeekButtons(q, at) ELSE q
             \/ /\ ~p.pauseFlag /\ p.playFlag
                /\ v = p.xMin \/ v = p.xMax
                /\ page' = SeekButtons(p, v)
                /\ UNCHANGED screen
          /\ UNCHANGED << trendVars, net, segmentChain, run, vizType >>

\* reset(), with resetFlag left on: answers that still arrive reset again.
ClickRepeat ==
  /\ page.loaded
  /\ run < MaxRuns
  /\ page' = [Cleared(page) EXCEPT !.resetFlag = TRUE]
  /\ screen' = Blank(page.xMin - 1, run + 1)
  /\ Send(ResetRequest)
  /\ run' = run + 1
  /\ UNCHANGED << trendVars, replies, segmentChain, vizType >>

\* The snapshot and the chart are drawn from the same entry.
SavedIter == IF page.backFlag THEN page.backwardIter
             ELSE IF page.forwardFlag THEN page.forwardIter
             ELSE IF page.simplayFlag THEN page.playIter
             ELSE page.iteration
ClickSave ==
  /\ CanLook
  /\ page.loaded
  /\ screen' = Redraw(screen, SavedIter)
  /\ UNCHANGED << trendVars, net, page, segmentChain, run, vizType >>

-----------------------------------------------------------------------------
(* The network.  A failed call ends in an alert box and changes nothing.   *)

LoseRequest ==
  /\ \E m \in BagToSet(requests) :
       /\ m.op \in LoseRequests
       /\ requests' = requests (-) SetToBag({m})
  /\ UNCHANGED << trendVars, replies, page, view, run, vizType >>

LoseReply ==
  /\ \E m \in BagToSet(replies) :
       /\ m.op \in LoseReplies
       /\ replies' = replies (-) SetToBag({m})
  /\ UNCHANGED << trendVars, requests, page, view, run, vizType >>

-----------------------------------------------------------------------------
Init ==
  /\ TrendInit
  /\ requests = EmptyBag
  /\ replies = EmptyBag
  /\ page = [loaded |-> FALSE, xMin |-> 0, xMax |-> 0, iteration |-> 1,
             segmentArr |-> << >>, playIter |-> -1, pauseIter |-> -1,
             forwardIter |-> -1, backwardIter |-> -1, seekbarMax |-> -1,
             forwardFlag |-> FALSE, backFlag |-> FALSE, pauseFlag |-> FALSE,
             playFlag |-> FALSE, simplayFlag |-> FALSE, resetFlag |-> FALSE,
             playNoviz |-> FALSE, icon |-> "play", playLit |-> FALSE,
             forwardLit |-> FALSE, backLit |-> FALSE]
  /\ segmentChain = << >>
  /\ screen = Blank(0, 0)
  /\ run = 0
  /\ vizType \in VizTypes

User ==
  \/ \E c \in Charts : Visualize(c)
  \/ ClickPlay \/ ClickPause
  \/ ClickForward \/ ClickBack
  \/ DragSeekbar
  \/ ClickRepeat \/ ClickSave

Deliver == DeliverAxes \/ DeliverIter

Next == User \/ Serve \/ Deliver \/ LoseRequest \/ LoseReply

\* The server answers every request that reaches it, and the page handles
\* every answer; nothing makes the user click or the network lose a call.
Spec == Init /\ [][Next]_vars /\ WF_vars(Serve) /\ WF_vars(Deliver)

-----------------------------------------------------------------------------
(* Properties.                                                             *)

\* From the iteration before the first (xMin is 0 or 1) to the one after the
\* last (xMax is at most MaxCard).
Iters == -1 .. MaxCard + 1

\* The page's variables keep their types, and all but backwardIter, which
\* has no lower limit (player.js:303-308), leave the iterations of the chart
\* by at most the one step play() takes past the last.
PlayerTypeOK ==
  /\ TrendTypeOK
  /\ page.xMin \in 0 .. 1 /\ page.xMax \in 0 .. MaxCard
  /\ { page.iteration, page.playIter, page.pauseIter, page.forwardIter,
       page.seekbarMax } \subseteq Iters
  /\ { page.backwardIter, screen.label } \subseteq Int
  /\ page.backwardIter <= MaxCard /\ screen.label <= MaxCard + 1
  /\ DOMAIN segmentChain \subseteq Iters
  /\ page.icon \in {"play", "pause"}
  /\ screen.run \in 0 .. run
  /\ vizType \in VizTypes

\* The page's own segmentation is a partition of the axis at every moment,
\* although every answer only names two segments of it by position.
PartitionShown ==
  page.segmentArr # << >> => Covers(page.segmentArr, page.xMin, page.xMax)

\* Entries of segmentChain written since the last reset.
Current == { i \in DOMAIN segmentChain : segmentChain[i].run = run }

\* Iteration i + 1 shows iteration i with one segment split.
ChainNested ==
  vizType = 1 => \A i \in Current : i + 1 \in Current =>
    RefinesByOne(segmentChain[i + 1].segs, segmentChain[i].segs)

\* Whatever is lost on the way, a later iteration never shows fewer cuts.
ChainNeverCoarsens ==
  \A i, j \in Current :
    i <= j => Starts(segmentChain[i].segs) \subseteq Starts(segmentChain[j].segs)

\* What the page keeps for an iteration is what the engine keeps for it,
\* although no message carries a whole segmentation.
ViewMatchesServer ==
  \A i \in Current : vizType = 1 /\ ~firstIteration /\ i \in Slots /\ i < card =>
    segmentChain[i].segs = Shift(kBest[i], page.xMin)

\* Under the label of an iteration that was received in this run the chart
\* shows what was received for it.
LabelMatchesDrawing ==
  screen.path /\ screen.label \in Current =>
    screen.segs = segmentChain[screen.label].segs /\ screen.run = run

\* Bars and segments average records of the chart they are drawn for only.
AveragesAreOfThisChart ==
  page.segmentArr # << >> /\ ~firstIteration =>
    \A g \in 0 .. card - 1 : samples[g] = {chart}

\* The engine is never made to read k_Best outside its slots, nor to write
\* past them but in one case: Repeat's reset has overtaken the last iteration
\* of an axis that ends where the array does, so that the engine takes that
\* iteration for a first one, and stores it unguarded (trend.cc:460, 477).
RequestsInRange ==
  \A m \in BagToSet(requests) : m.op = "iter" =>
    /\ m.iter \in 0 .. MaxCard
    /\ m.iter = 0 /\ Loaded => firstIteration
    /\ m.iter \notin Slots /\ Loaded /\ firstIteration => page.resetFlag

\* What the code seems to count on: a first iteration has a slot in k_Best.
\* It has none in the case above, on the flight data's Day axis (1..366).
FirstStoreFits ==
  \A m \in BagToSet(requests) :
    m.op = "iter" /\ Loaded /\ firstIteration => m.iter \in Slots

\* Once an iteration is being played live (a call is under way), playing
\* goes on by itself until the run is complete or the user stops it.
AutoplayEnds == page.playFlag /\ ~Idle ~> ~page.playFlag

\* What the page shows of a chart is the abstract incremental chart.
Abstract == INSTANCE IncrementalChart
              WITH segs <- page.segmentArr, axis <- Seg(page.xMin, page.xMax)
ImplementsChart == Abstract!ChartSpec
=============================================================================
