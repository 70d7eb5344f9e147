----------------------------- MODULE HeatPlayer -----------------------------
(***************************************************************************)
(* The heatmap page (new-web-test/js/heatmap/player.js, heatmap.js)        *)
(* talking to the server (app.js, incvisage.cc) and its heatmap engine     *)
(* (module Heat).  It is a variant of the trendline page, with differences *)
(* of its own: the first iteration is 1 after a load but 0 after Repeat;   *)
(* the cells without records arrive with iteration 1 only; the page asks   *)
(* for as many iterations as the grid has cells, so that towards the end   *)
(* the engine finds nothing to split and sends its last answer again.      *)
(*                                                                         *)
(* Requests and answers are bags, and a handler runs to its end, as in     *)
(* TrendPlayer.  A handler that throws keeps what it did before.           *)
(***************************************************************************)
EXTENDS Heat, Bags, SequencesExt

CONSTANTS
  XMinOf, YMinOf, (* The first value of a chart's two dimensions.          *)
  VizTypes,       (* What the server was set to show: 2, the incremental   *)
                  (* heatmap, or 4, the baseline.                          *)
  Unknown,        (* No value: what validCells is before it has one.       *)
  Leaps,          (* Does the user press Forward before the first          *)
                  (* iteration was asked for?                              *)
  MaxRuns,        (* Bound: resets and loads of one behaviour.             *)
  MaxBack         (* Bound: how far below 0 Back takes backwardIter.       *)

ASSUME PlayerAssumption ==
  /\ XMinOf \in [Charts -> Nat] /\ YMinOf \in [Charts -> Nat]
  /\ VizTypes \subseteq {2, 4}
  /\ Leaps \in BOOLEAN
  /\ MaxRuns \in Nat /\ MaxBack \in Nat
ASSUME UnknownAssumption ==
  \A c \in Charts :
    Unknown # { << d[1] + XMinOf[c], d[2] + YMinOf[c] >> : d \in EmptyOf[c] }

VARIABLES
  requests,      (* Requests the server has not handled.                   *)
  replies,       (* Answers the page has not handled.                      *)
  page,          (* The global variables and buttons of the page.          *)
  segmentChain,  (* iteration -> the quadrants that were received for it.  *)
  screen,        (* What the chart shows: the label, the quadrants drawn   *)
                 (* and the cells painted over as having no records.       *)
  run,           (* History variable: number of resets and loads so far.   *)
  vizType        (* Server: the type of the charts of this session.        *)

net  == << requests, replies >>
view == << segmentChain, screen >>
vars == << heatVars, net, page, view, run, vizType >>

-----------------------------------------------------------------------------
(* Messages.                                                               *)
AxesRequest(c) == [op |-> "axes", chart |-> c]
ResetRequest   == [op |-> "reset"]
IterRequest(i) == [op |-> "iter", iter |-> i]

Send(m) == requests' = requests (+) SetToBag({m})
Idle    == requests = EmptyBag /\ replies = EmptyBag

-----------------------------------------------------------------------------
(* The server.  Coordinates are packed as values of the two dimensions.    *)

\* Wrong: a size is sent where the last value belongs.
AxesLong(c) == [xMin |-> XMinOf[c], xMax |-> XMinOf[c] + ColumnsOf[c],
                yMin |-> YMinOf[c], yMax |-> YMinOf[c] + RowsOf[c]]

Axes(c) == [xMin |-> XMinOf[c], xMax |-> XMinOf[c] + ColumnsOf[c] - 1,
            yMin |-> YMinOf[c], yMax |-> YMinOf[c] + RowsOf[c] - 1]

\* What groupXMap and groupYMap make of a quadrant.
Values(q) == Quad(q.xb + XMinOf[chart], q.xe + XMinOf[chart],
                  q.yb + YMinOf[chart], q.ye + YMinOf[chart])

\* Wrong: all pieces are sent as the one that was split.
PackAtSplit ==
  [k \in 1 .. Len(Answer') |->
     [n |-> IF splitQuad' = -1 THEN 0 ELSE splitQuad', quad |-> Values(Answer'[k])]]

\* genChart: the pieces, each with its position in the list.
PackCells ==
  [k \in 1 .. Len(Answer') |->
     [n |-> IF splitQuad' = -1 THEN 0 ELSE splitQuad' + k - 1,
      quad |-> Values(Answer'[k])]]

\* getValidCells: the cells that have no records.
ValidCells == { << c[1] + XMinOf[chart], c[2] + YMinOf[chart] >> :
                c \in empties' \cap Plane }

ServeAxes(m) ==
  /\ m.op = "axes"
  /\ LoadAxesData(m.chart)
  /\ replies' = replies (+) SetToBag({[op |-> "axes", y |-> Axes(m.chart)]})

ServeReset(m) ==
  /\ m.op = "reset"
  /\ Reset
  /\ UNCHANGED replies

\* The page never reads the list of the baseline, so it is left out.
ServeIter(m) ==
  /\ m.op = "iter"
  /\ IF vizType = 2 THEN GenHeat(m.iter) ELSE GenHeatBase
  /\ replies' = replies (+) SetToBag({[op |-> "iter", y |-> Axes(chart),
                    sl |-> IF vizType = 2 THEN PackCells ELSE << >>,
                    validCells |-> IF m.iter = 1 THEN ValidCells ELSE Unknown]})

Serve ==
  \E m \in BagToSet(requests) :
    /\ ServeAxes(m) \/ ServeReset(m) \/ ServeIter(m)
    /\ requests' = requests (-) SetToBag({m})
    /\ UNCHANGED << page, view, run, vizType >>

-----------------------------------------------------------------------------
(* The page.                                                               *)

Entry(r, quads) == [run |-> r, quads |-> quads]
Blank(p, r) == [label |-> p.iterationLow - 1, run |-> r, quads |-> << >>, white |-> {}]

\* render(i, list) writes the label and paints the list over what was there;
\* from the first iteration on it then needs the averages of iteration i for
\* the legend, and paints the cells without records.
LegendFails(p, i) ==
  i >= p.iterationLow /\ (i \notin DOMAIN segmentChain' \/ p.validCells = Unknown)
Painted(p, s, i, entry) ==
  [label |-> i, run  |-> entry.run, quads |-> entry.quads,
   white |-> IF i >= p.iterationLow /\ ~LegendFails(p, i) THEN p.validCells ELSE {}]

\* render(i, segmentChain[i]): throws on an entry that was never received.
RedrawFails(p, i) == i \notin DOMAIN segmentChain \/ LegendFails(p, i)
Redraw(p, s, i) ==
  IF i \in DOMAIN segmentChain THEN Painted(p, s, i, segmentChain[i])
                               ELSE [s EXCEPT !.label = i]

\* The page after reset() (low = 0) and resetOnLoad() (low = 1).  forwardIter
\* keeps its value (both assign a misspelt variable), and so do segmentChain
\* and validCells.
Cleared(p, low) ==
  [p EXCEPT !.iterationLow = low, !.iteration = low - 1, !.playIter = low - 1,
            !.pauseIter = low - 1, !.backwardIter = low - 1, !.seekbarMax = low - 1,
            !.maxIteration = (p.y.xMax - p.y.xMin + 1) * (p.y.yMax - p.y.yMin + 1),
            !.segmentArr = << >>,
            !.forwardFlag = FALSE, !.backFlag = FALSE, !.pauseFlag = FALSE,
            !.playFlag = FALSE, !.simplayFlag = FALSE, !.playNoviz = FALSE,
            !.icon = "play", !.playLit = TRUE, !.forwardLit = FALSE,
            !.backLit = FALSE]

\* Wrong: at the end of the run playing stays on.
FinishedButPlaying(p) ==
  LET to == [p EXCEPT !.backwardIter = p.maxIteration, !.playIter = p.maxIteration,
                      !.pauseIter = p.maxIteration]
  IN [(IF p.pauseFlag THEN p ELSE to) EXCEPT !.backFlag = TRUE]

\* The page when play() finds nothing more to ask.
Finished(p) ==
  LET to == [p EXCEPT !.backwardIter = p.maxIteration, !.playIter = p.maxIteration,
                      !.pauseIter = p.maxIteration]
      q  == IF p.pauseFlag THEN p ELSE to
  IN [q EXCEPT !.backFlag = TRUE, !.playLit = @ /\ ~p.playFlag,
               !.forwardLit = @ /\ ~p.playFlag, !.backLit = @ \/ p.playFlag,
               !.playFlag = FALSE]

\* Wrong: the run is one iteration longer.
PlayPast(p) ==
  LET q    == [p EXCEPT !.iteration = @ + 1]
      live == q.playFlag /\ q.iteration <= q.maxIteration + 1
  IN /\ page' = IF live \/ q.simplayFlag THEN q ELSE Finished(q)
     /\ IF live THEN Send(IterRequest(q.iteration)) ELSE UNCHANGED requests

\* play(): ask for the next iteration, or stop at the end of the run.
\* resetFlag is false wherever play is called.
Play(p) ==
  LET q    == [p EXCEPT !.iteration = @ + 1]
      live == q.playFlag /\ q.iteration <= q.maxIteration
  IN /\ page' = IF live \/ q.simplayFlag THEN q ELSE Finished(q)
     /\ IF live THEN Send(IterRequest(q.iteration)) ELSE UNCHANGED requests

\* The page when the replay has caught up.
Resumed(p) ==
  [p EXCEPT !.playIter = Max({@ + 1, p.iteration}), !.playFlag = TRUE,
            !.iteration = @ - 1, !.playNoviz = FALSE, !.simplayFlag = FALSE]

\* simulatePlay() and genSimCharts(): replay the iterations after playIter,
\* then go on playing live.  The first one that cannot be drawn throws.  Each
\* frame is painted over the one before, so the last two make the screen.
SimulatePlay(p) ==
  LET frames     == p.playIter + 1 .. p.iteration - 1
      Before(i)  == IF i - 1 \in frames THEN Redraw(p, screen, i - 1) ELSE screen
      Upto(last) == IF last \in frames THEN Redraw(p, Before(last), last) ELSE screen
  IN \/ /\ \A i \in frames : ~RedrawFails(p, i)
        /\ screen' = Upto(p.iteration - 1)
        /\ Play(Resumed(p))
     \/ \E i \in frames :
          /\ RedrawFails(p, i)
          /\ \A j \in frames : j < i => ~RedrawFails(p, j)
          /\ screen' = Upto(i)
          /\ page' = [p EXCEPT !.playIter = i]
          /\ UNCHANGED requests

-----------------------------------------------------------------------------
(* Answers arriving at the page.                                           *)

\* processAxesData and resetOnLoad.
DeliverAxes ==
  \E m \in BagToSet(replies) :
    /\ m.op = "axes"
    /\ replies' = replies (-) SetToBag({m})
    /\ LET p == Cleared([page EXCEPT !.y = m.y, !.loaded = TRUE,
                                     !.resetFlag = FALSE], 1)
       IN /\ page' = [p EXCEPT !.seekMin = 1, !.seekMax = p.maxIteration]
          /\ screen' = Blank(p, run + 1)
    /\ Send(ResetRequest)
    /\ run' = run + 1
    /\ UNCHANGED << heatVars, segmentChain, vizType >>

\* segmentArr.splice(n, drop, quadrant): positions past the end are the end.
Splice(arr, n, drop, quad) ==
  LET at == Min({n, Len(arr)})
  IN SubSeq(arr, 1, at) \o << quad >> \o SubSeq(arr, at + 1 + drop, Len(arr))

\* Wrong: every piece is inserted, none replaces the quadrant that was split.
SplicedIn(arr, sl) ==
  LET Insert(a, piece) == Splice(a, piece.n, 0, piece.quad)
  IN FoldLeft(Insert, arr, sl)

\* The first piece replaces the quadrant that was split, the others, up to
\* three, are inserted after it.
Spliced(arr, sl) ==
  LET Insert(a, k) == IF k <= Len(sl) THEN Splice(a, sl[k].n, 0, sl[k].quad) ELSE a
  IN Insert(Insert(Insert(Splice(arr, sl[1].n, 1, sl[1].quad), 2), 3), 4)

\* An answer without quadrants ends the run where it is.
Ended(p) ==
  LET max == p.iteration - 1
      dim == p.playFlag /\ ~p.simplayFlag
  IN [p EXCEPT !.iteration = max, !.maxIteration = max,
               !.seekMin = p.iterationLow, !.seekMax = max, !.backFlag = TRUE,
               !.backwardIter = IF p.pauseFlag THEN @ ELSE max,
               !.playLit = @ /\ ~dim, !.forwardLit = @ /\ ~dim,
               !.backLit = @ \/ dim, !.playFlag = FALSE]

\* Wrong: the cells without records are only taken once.
NotedOnce(p, m) ==
  IF p.iteration = 1 /\ p.validCells = Unknown
    THEN [p EXCEPT !.validCells = m.validCells, !.y = m.y] ELSE p

\* What the page takes over from an answer before it looks at the quadrants:
\* it is taken for that of `iteration`, whatever it was asked for.
Noted(p, m) ==
  IF p.iteration = 1 THEN [p EXCEPT !.validCells = m.validCells, !.y = m.y] ELSE p

\* genCharts.
Charted(m) ==
  LET p    == [Noted(page, m) EXCEPT !.segmentArr = Spliced(@, m.sl)]
      i    == p.iteration
      draw == ~p.playNoviz /\ ~p.simplayFlag
  IN /\ segmentChain' = [j \in DOMAIN segmentChain \cup {i} |->
                           IF j = i THEN Entry(run, p.segmentArr) ELSE segmentChain[j]]
     /\ screen' = IF draw THEN Painted(p, screen, i, Entry(run, p.segmentArr)) ELSE screen
     /\ IF (draw /\ LegendFails(p, i)) \/ i > p.maxIteration
          THEN page' = p /\ UNCHANGED requests
          ELSE Play([p EXCEPT !.playNoviz = @ \/ p.forwardFlag])

DeliverIter ==
  \E m \in BagToSet(replies) :
    /\ m.op = "iter"
    /\ replies' = replies (-) SetToBag({m})
    /\ UNCHANGED << heatVars, run, vizType >>
    /\ \/ /\ page.resetFlag
          /\ page' = Cleared(page, 0)
          /\ screen' = Blank(page', run)
          /\ Send(ResetRequest)
          /\ UNCHANGED segmentChain
       \/ /\ ~page.resetFlag /\ m.sl # << >>
          /\ Charted(m)
       \/ /\ ~page.resetFlag /\ m.sl = << >>
          /\ page' = Ended(Noted(page, m))
          /\ UNCHANGED << requests, view >>

-----------------------------------------------------------------------------
(* Clicks.  A button reacts only while it is lit.  The user waits for the  *)
(* pending answers before a click that calls the server, Repeat excepted.  *)

Visualize(c) ==
  /\ Idle
  /\ run < MaxRuns
  /\ Send(AxesRequest(c))
  /\ UNCHANGED << heatVars, replies, page, view, run, vizType >>

ClickPlay ==
  LET p == [page EXCEPT !.icon = "pause", !.forwardFlag = FALSE,
                        !.backFlag = FALSE, !.pauseFlag = FALSE,
                        !.playFlag = TRUE, !.playNoviz = FALSE,
                        !.resetFlag = FALSE]
      dimmed == [p EXCEPT !.forwardLit = FALSE, !.backLit = FALSE]
      ended  == p.iteration >= p.maxIteration
      replay == p.iterationLow <= p.playIter /\ p.playIter < p.maxIteration
  IN /\ Idle
     /\ page.icon = "play" /\ page.playLit
     /\ UNCHANGED << heatVars, replies, segmentChain, run, vizType >>
     /\ \/ /\ ended /\ replay
           /\ SimulatePlay([dimmed EXCEPT !.simplayFlag = TRUE, !.playIter = @ - 1])
        \/ /\ ended /\ ~replay
           /\ page' = [p EXCEPT !.backLit = TRUE]
           /\ screen' = Painted(p, screen, p.maxIteration, Entry(run, p.segmentArr))
           /\ UNCHANGED requests
        \/ /\ ~ended /\ p.simplayFlag
           /\ SimulatePlay(dimmed)
        \/ /\ ~ended /\ ~p.simplayFlag
           /\ Play(dimmed)
           /\ UNCHANGED screen

ClickPause ==
  LET p  == page
      at == IF p.simplayFlag THEN p.playIter ELSE p.iteration - 1
      to == Min({at, p.maxIteration})
      held == [p EXCEPT
          !.simplayFlag = TRUE, !.pauseFlag = TRUE, !.playFlag = FALSE,
          !.playNoviz = TRUE, !.backFlag = TRUE, !.forwardFlag = TRUE,
          !.seekbarMax = Max({@, at}),
          !.pauseIter = to, !.forwardIter = to, !.backwardIter = to,
          !.playIter = to,
          !.icon = "play", !.backLit = TRUE, !.forwardLit = to < p.iteration]
  IN /\ p.icon = "pause" /\ p.playLit
     /\ UNCHANGED << heatVars, net, segmentChain, run, vizType >>
     /\ page' = IF ~p.simplayFlag /\ LegendFails(p, at)
                  THEN [p EXCEPT !.pauseIter = at] ELSE held
     /\ screen' = IF p.simplayFlag THEN screen
                  ELSE Painted(p, screen, at, Entry(run, p.segmentArr))

\* Forward before the first iteration asks for it, without playing.
ForwardFirst ==
  /\ Leaps
  /\ Idle
  /\ page.forwardLit
  /\ page.iteration < page.iterationLow
  /\ page' = [page EXCEPT !.forwardFlag = TRUE, !.iteration = @ + 1,
                          !.forwardIter = page.iteration + 1,
                          !.playLit = TRUE, !.backLit = TRUE]
  /\ Send(IterRequest(page.iteration + 1))
  /\ UNCHANGED << heatVars, replies, view, run, vizType >>

ClickForward ==
  LET p     == page
      moves == p.forwardFlag /\ ~p.playFlag
      to    == p.forwardIter + 1
      shows == moves /\ to <= p.maxIteration
      q     == [p EXCEPT !.backFlag = TRUE, !.forwardIter = to,
                         !.seekbarMax = Max({@, to})]
      at    == IF moves THEN Min({to, p.maxIteration}) ELSE p.forwardIter
      r     == IF moves THEN [q EXCEPT !.forwardIter = at, !.backwardIter = at,
                                       !.playIter = at, !.pauseIter = at]
                        ELSE p
  IN /\ p.forwardLit /\ p.iteration >= p.iterationLow
     /\ UNCHANGED << heatVars, net, segmentChain, run, vizType >>
     /\ screen' = IF shows THEN Redraw(p, screen, to) ELSE screen
     /\ page' = IF shows /\ RedrawFails(p, to)
                  THEN q
                  ELSE [r EXCEPT
                         !.forwardFlag = @ \/ (p.iteration < p.maxIteration /\ r.backFlag),
                         !.icon = "play", !.playLit = at < p.maxIteration,
                         !.forwardLit = at < p.iteration - 1, !.backLit = TRUE]

\* On a page whose first answer could not be drawn, Back and Forward in turn
\* take backwardIter below the first iteration, one lower each time: only the
\* bound MaxBack ends that here, nothing does in the page.
ClickBack ==
  LET p     == page
      moves == ~p.playFlag /\ p.backFlag
      to    == p.backwardIter - 1
      shows == moves /\ to >= p.iterationLow
      q     == [p EXCEPT !.forwardFlag = TRUE, !.backwardIter = to]
      at    == Max({to, p.iterationLow})
      r     == IF moves THEN [q EXCEPT !.forwardIter = at, !.playIter = at,
                                       !.pauseIter = at]
                        ELSE p
      early == r.backwardIter < p.maxIteration
  IN /\ p.backLit
     /\ to >= -MaxBack
     /\ UNCHANGED << heatVars, net, segmentChain, run, vizType >>
     /\ \/ /\ p.iteration = p.iterationLow
           /\ page' = [p EXCEPT !.backFlag = FALSE, !.backLit = FALSE,
                                !.forwardLit = TRUE]
           /\ screen' = Redraw(p, screen, p.iteration)
        \/ /\ p.iteration # p.iterationLow
           /\ screen' = IF shows THEN Redraw(p, screen, to) ELSE screen
           /\ page' = IF shows /\ RedrawFails(p, to)
                        THEN q
                        ELSE [r EXCEPT !.backLit = @ /\ r.backwardIter > p.iterationLow,
                                       !.icon = IF early THEN "play" ELSE @,
                                       !.playLit = @ \/ early,
                                       !.forwardLit = TRUE]

\* The buttons after the seekbar was moved to v.
SeekButtons(p, v) ==
  [p EXCEPT !.icon = "play", !.playLit = v < p.maxIteration, !.forwardLit = TRUE,
            !.backLit = v >= p.maxIteration \/ v # p.iterationLow]

\* Paused, the seekbar reaches what was seen before; otherwise, unless the
\* chart is playing, what was asked for.  While playing it moves nothing,
\* but at its ends it still turns the buttons.
DragSeekbar ==
  LET p == page
  IN \E v \in p.seekMin .. Max({p.seekMin, p.seekMax}) :
       LET at == IF p.pauseFlag THEN Min({v, p.seekbarMax})
                 ELSE Min({Max({Min({v, p.maxIteration}), p.iterationLow}), p.iteration})
           q  == [p EXCEPT
                    !.forwardFlag = @ \/ at < (IF p.pauseFlag THEN p.pauseIter
                                                              ELSE p.maxIteration),
                    !.backFlag = @ \/ (at > p.iterationLow
                                       /\ at <= (IF p.pauseFlag THEN p.pauseIter
                                                                ELSE p.maxIteration)),
                    !.forwardIter = at, !.backwardIter = at,
                    !.pauseIter = at, !.playIter = at]
       IN /\ p.loaded
          /\ UNCHANGED << heatVars, net, segmentChain, run, vizType >>
          /\ \/ /\ p.pauseFlag \/ ~p.playFlag
                /\ screen' = Redraw(p, screen, at)
                /\ page' = IF RedrawFails(p, at) THEN q ELSE SeekButtons(q, at)
             \/ /\ ~p.pauseFlag /\ p.playFlag
                /\ v = p.iterationLow \/ v >= p.maxIteration
                /\ page' = SeekButtons(p, v)
                /\ UNCHANGED screen

\* reset(), with resetFlag left on: answers that still arrive reset again.
ClickRepeat ==
  /\ page.loaded
  /\ run < MaxRuns
  /\ page' = [Cleared(page, 0) EXCEPT !.resetFlag = TRUE]
  /\ screen' = Blank(page', run + 1)
  /\ Send(ResetRequest)
  /\ run' = run + 1
  /\ UNCHANGED << heatVars, replies, segmentChain, vizType >>

\* The snapshot is drawn first, and the chart from the same entry after it.
ClickSave ==
  LET p  == page
      at == IF p.backFlag THEN p.backwardIter
            ELSE IF p.forwardFlag THEN p.forwardIter
            ELSE IF p.simplayFlag THEN p.playIter
            ELSE p.iteration
  IN /\ p.loaded
     /\ UNCHANGED << heatVars, net, page, segmentChain, run, vizType >>
     /\ screen' = IF RedrawFails(p, at) THEN [screen EXCEPT !.label = at]
                                        ELSE Redraw(p, screen, at)

-----------------------------------------------------------------------------
NoAxes == [xMin |-> 0, xMax |-> 0, yMin |-> 0, yMax |-> 0]

Init ==
  /\ HeatInit
  /\ requests = EmptyBag
  /\ replies = EmptyBag
  /\ page = [loaded |-> FALSE, y |-> NoAxes, validCells |-> Unknown,
             iterationLow |-> 0, iteration |-> 1, maxIteration |-> 1,
             seekMin |-> 0, seekMax |-> 0,
             segmentArr |-> << >>, playIter |-> -1, pauseIter |-> -1,
             forwardIter |-> -1, backwardIter |-> -1, seekbarMax |-> -1,
             forwardFlag |-> FALSE, backFlag |-> FALSE, pauseFlag |-> FALSE,
             playFlag |-> FALSE, simplayFlag |-> FALSE, resetFlag |-> FALSE,
             playNoviz |-> FALSE, icon |-> "play", playLit |-> FALSE,
             forwardLit |-> FALSE, backLit |-> FALSE]
  /\ segmentChain = << >>
  /\ screen = Blank(page, 0)
  /\ run = 0
  /\ vizType \in VizTypes

User ==
  \/ \E c \in Charts : Visualize(c)
  \/ ClickPlay \/ ClickPause
  \/ ForwardFirst \/ ClickForward \/ ClickBack
  \/ DragSeekbar
  \/ ClickRepeat \/ ClickSave

Deliver == DeliverAxes \/ DeliverIter

Next == User \/ Serve \/ Deliver

\* Iteration 0 of an engine that was not reset reads k_Best_heat[-1], and the
\* server may end there: ServeIter leaves the request.  No other is refused.
Answerable(m) == m.op = "iter" /\ vizType = 2 => firstIteration \/ m.iter > 0

\* One message leaves the network.  Only Serve and Deliver do that, so that
\* fairness of these is fairness of those.
RequestTaken == \E m \in BagToSet(requests) :
                  Answerable(m) /\ requests' = requests (-) SetToBag({m})
AnswerTaken  == \E m \in BagToSet(replies) : replies' = replies (-) SetToBag({m})

\* The server answers every request that it can, and the page handles every
\* answer; nothing makes the user click.
Spec == Init /\ [][Next]_vars /\ WF_requests(RequestTaken) /\ WF_replies(AnswerTaken)

-----------------------------------------------------------------------------
(* Properties.                                                             *)

\* From two before the first iteration (a pause of a chart that ended before
\* it began) to the one after the last.
Iters == -2 .. MaxIters

\* The page's variables keep their types, and all counters but backwardIter,
\* which has no lower limit (heatmap/player.js:302-317), stay among these.
HeatPlayerTypeOK ==
  /\ HeatTypeOK
  /\ page.iterationLow \in {0, 1}
  /\ { page.iteration, page.maxIteration, page.playIter, page.pauseIter,
       page.forwardIter, page.seekbarMax } \subseteq Iters
  /\ { page.backwardIter, screen.label } \subseteq Int
  /\ page.backwardIter <= MaxIters /\ screen.label <= MaxIters
  /\ DOMAIN segmentChain \subseteq Iters
  /\ page.icon \in {"play", "pause"}
  /\ screen.run \in 0 .. run
  /\ page.validCells = Unknown \/ page.validCells \subseteq (0 .. MaxSide) \X (0 .. MaxSide)

\* Entries of segmentChain written since the last reset.
Current == { i \in DOMAIN segmentChain : segmentChain[i].run = run }

\* The quadrants of a list in the page's axes, counted from 0.
Placed(list) ==
  { Quad(q.xb - page.y.xMin, q.xe - page.y.xMin,
         q.yb - page.y.yMin, q.ye - page.y.yMin) : q \in ToSet(list) }

\* The iterations of this run that the page has received without a gap.  A
\* user who presses Forward before the first one makes Play skip an iteration
\* (heatmap/player.js:183-204): the engine then keeps nothing for the next.
Unbroken == { i \in Current : \A j \in page.iterationLow .. i : j \in Current }

\* What the page keeps for an iteration shows what the engine keeps for it, up
\* to the first iteration that was skipped, although an answer names positions
\* only, and although the answer that is sent again when there is nothing to
\* split is spliced in again.
PictureMatchesServer ==
  \A i \in Unbroken : vizType = 2 /\ ~firstIteration /\ i \in Slots =>
    Placed(segmentChain[i].quads) = ToSet(kBest[i])

\* Whatever the user does, the engine is never asked for more iterations than
\* the grid has cells: k_Best_heat, whose size no store checks, needs to hold
\* one more than that.
RequestsFitGrid ==
  \A m \in BagToSet(requests) : m.op = "iter" /\ Loaded =>
    m.iter \in 0 .. Columns * Rows

\* Where quadrants of this run are drawn under the label of an iteration, 1 or
\* later, that was received, exactly the cells of this chart that have no
\* records are painted over.
EmptyCellsPainted ==
  ~firstIteration /\ screen.run = run /\ screen.quads # << >>
  /\ screen.label \in Current \ {0} =>
    screen.white = { << c[1] + XMinOf[chart], c[2] + YMinOf[chart] >> :
                     c \in EmptyOf[chart] }

\* Once an iteration is being played live (a call is under way) on a page
\* that has the empty cells of some chart, playing goes on by itself until
\* the run is complete or the user stops it.
AutoplayEnds ==
  page.playFlag /\ ~Idle /\ page.validCells # Unknown ~> ~page.playFlag

\* The same on every page: README.md:16 promises "to play, pause and reset
\* the visualization generations at any point".
PlaysAfterReset == page.playFlag /\ ~Idle ~> ~page.playFlag

\* What the page shows of a chart is the abstract incremental grid.
Abstract == INSTANCE IncrementalGrid
              WITH shown <- Placed(page.segmentArr),
                   columns <- page.y.xMax - page.y.xMin + 1,
                   rows <- page.y.yMax - page.y.yMin + 1
ImplementsGrid == Abstract!GridSpec
=============================================================================
