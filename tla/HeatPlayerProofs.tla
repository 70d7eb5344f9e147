-------------------------- MODULE HeatPlayerProofs --------------------------
(***************************************************************************)
(* Theorems about the heatmap page and its server: why the engine is never *)
(* asked for more iterations than the grid has cells, why a page that is   *)
(* told positions and pieces only, the last ones again when there is       *)
(* nothing to split, still shows the quadrants the engine has, why the     *)
(* cells it paints over are those of the chart without records, and why no *)
(* button takes a counter out of the iterations of the chart.              *)
(***************************************************************************)
EXTENDS HeatPlayer, HeatProofs

-----------------------------------------------------------------------------
(* The messages under way.  A call is a request the page waits for, and    *)
(* there is one at a time; resets are sent besides and never answered.     *)

Calls     == { m \in DOMAIN requests : m.op # "reset" }
Answers   == DOMAIN replies
ResetSent == \E m \in DOMAIN requests : m.op = "reset"

RequestsOK ==
  /\ IsABag(requests)
  /\ \A m \in Calls : requests[m] = 1
  /\ \A m, n \in Calls : m = n
RepliesOK ==
  /\ IsABag(replies)
  /\ \A m \in Answers : replies[m] = 1
  /\ \A m, n \in Answers : m = n
OneCall ==
  /\ RequestsOK
  /\ RepliesOK
  /\ Calls = {} \/ Answers = {}

\* The page calls the server while no call is under way.
LEMMA CallSent ==
  ASSUME RequestsOK, Calls = {}, NEW m, m.op # "reset", Send(m)
  PROVE  RequestsOK' /\ Calls' = {m} /\ (ResetSent' <=> ResetSent)
<1>1. /\ IsABag(requests')
      /\ DOMAIN requests' = DOMAIN requests \cup {m}
      /\ m \notin DOMAIN requests => requests'[m] = 1
  BY BagAdd DEF RequestsOK, Send
<1>2. Calls' = {m}
  BY <1>1 DEF Calls
<1>3. m \notin DOMAIN requests
  BY DEF Calls
<1> QED
  BY <1>1, <1>2, <1>3 DEF RequestsOK, ResetSent

LEMMA ResetIsSent ==
  ASSUME RequestsOK, Send(ResetRequest)
  PROVE  RequestsOK' /\ Calls' = Calls /\ ResetSent'
<1>1. ResetRequest.op = "reset"
  BY DEF ResetRequest
<1>2. \A x \in Calls : x \in DOMAIN requests /\ x # ResetRequest
  BY <1>1 DEF Calls
<1>3. /\ IsABag(requests')
      /\ DOMAIN requests' = DOMAIN requests \cup {ResetRequest}
      /\ \A x \in DOMAIN requests : x # ResetRequest => requests'[x] = requests[x]
  <2>1. requests' = requests (+) SetToBag({ResetRequest})
    BY DEF Send
  <2>2. IsABag(requests)
    BY DEF RequestsOK
  <2> QED
    BY <2>1, <2>2, BagAdd, Zenon
<1>4. Calls' = Calls
  BY <1>1, <1>3 DEF Calls
<1>5. ResetSent'
  BY <1>1, <1>3 DEF ResetSent
<1> QED
  BY <1>2, <1>3, <1>4, <1>5 DEF RequestsOK

\* The server takes a call.
LEMMA CallTaken ==
  ASSUME RequestsOK, NEW m \in DOMAIN requests, m.op # "reset",
         requests' = requests (-) SetToBag({m})
  PROVE  /\ RequestsOK' /\ Calls = {m} /\ Calls' = {}
         /\ ResetSent' <=> ResetSent
<1>1. m \in Calls
  BY DEF Calls
<1>2. Calls = {m} /\ requests[m] = 1
  BY <1>1 DEF RequestsOK
<1>3. /\ IsABag(requests')
      /\ DOMAIN requests' \subseteq DOMAIN requests
      /\ DOMAIN requests \subseteq DOMAIN requests' \cup {m}
      /\ m \notin DOMAIN requests'
  BY <1>2, BagDel DEF RequestsOK
<1>4. Calls' = {}
  BY <1>2, <1>3 DEF Calls
<1>5. ResetSent' <=> ResetSent
  BY <1>3 DEF ResetSent
<1> QED
  BY <1>2, <1>3, <1>4, <1>5 DEF RequestsOK

LEMMA ResetTaken ==
  ASSUME RequestsOK, NEW m \in DOMAIN requests, m.op = "reset",
         requests' = requests (-) SetToBag({m})
  PROVE  RequestsOK' /\ Calls' = Calls /\ ResetSent
<1>1. /\ IsABag(requests')
      /\ DOMAIN requests' \subseteq DOMAIN requests
      /\ DOMAIN requests \subseteq DOMAIN requests' \cup {m}
      /\ \A x \in DOMAIN requests : x # m => requests'[x] = requests[x]
  BY BagDel DEF RequestsOK
<1>2. Calls' = Calls
  BY <1>1 DEF Calls
<1>3. \A x \in Calls : x \in DOMAIN requests /\ x # m
  BY DEF Calls
<1> QED
  BY <1>1, <1>2, <1>3 DEF RequestsOK, ResetSent

\* The server answers, and the page takes the answer.
LEMMA AnswerSent ==
  ASSUME RepliesOK, Answers = {}, NEW m, replies' = replies (+) SetToBag({m})
  PROVE  RepliesOK' /\ Answers' = {m}
<1>1. /\ IsABag(replies')
      /\ DOMAIN replies' = DOMAIN replies \cup {m}
      /\ m \notin DOMAIN replies => replies'[m] = 1
  BY BagAdd DEF RepliesOK
<1>2. Answers' = {m} /\ m \notin DOMAIN replies
  BY <1>1 DEF Answers
<1> QED
  BY <1>1, <1>2 DEF RepliesOK

LEMMA AnswerGone ==
  ASSUME RepliesOK, NEW m \in DOMAIN replies,
         replies' = replies (-) SetToBag({m})
  PROVE  RepliesOK' /\ Answers = {m} /\ Answers' = {}
<1>1. Answers = {m} /\ replies[m] = 1
  BY DEF RepliesOK, Answers
<1>2. /\ IsABag(replies')
      /\ DOMAIN replies' \subseteq DOMAIN replies
      /\ m \notin DOMAIN replies'
  BY <1>1, BagDel DEF RepliesOK
<1>3. Answers' = {}
  BY <1>1, <1>2 DEF Answers
<1> QED
  BY <1>1, <1>2, <1>3 DEF RepliesOK

LEMMA IdleIsQuiet ==
  ASSUME Idle
  PROVE  Calls = {} /\ Answers = {} /\ ~ResetSent
<1>1. DOMAIN requests = {} /\ DOMAIN replies = {}
  BY DEF Idle, EmptyBag, SetToBag
<1> QED
  BY <1>1 DEF Calls, Answers, ResetSent

-----------------------------------------------------------------------------
(* The first invariant: which calls can be under way when, and how far the *)
(* counters of the page can get.                                           *)

IterAsked    == \E m \in Calls : m.op = "iter"
IterAnswered == \E m \in Answers : m.op = "iter"
IterUnderWay == IterAsked \/ IterAnswered
AxesAnswered == \E m \in Answers : m.op = "axes"

\* Page and engine have the same chart, and no reset is still to come.
Synced == page.loaded /\ ~ResetSent /\ ~AxesAnswered

PageFields ==
  { "loaded", "y", "validCells", "iterationLow", "iteration", "maxIteration",
    "seekMin", "seekMax", "segmentArr", "playIter", "pauseIter", "forwardIter",
    "backwardIter", "seekbarMax", "forwardFlag", "backFlag", "pauseFlag",
    "playFlag", "simplayFlag", "resetFlag", "playNoviz", "icon", "playLit",
    "forwardLit", "backLit" }

\* The number of cells of a grid with these axes.
Wide(y) == y.xMax - y.xMin + 1
High(y) == y.yMax - y.yMin + 1
SizeOf(y) == Wide(y) * High(y)

AxesShape(y) ==
  /\ y.xMin \in Int /\ y.xMax \in Int /\ y.yMin \in Int /\ y.yMax \in Int
  /\ y.xMin <= y.xMax /\ y.yMin <= y.yMax

\* The counters that other counters are computed from.
Counting(p) ==
  /\ p.iteration \in Int /\ p.maxIteration \in Int /\ p.playIter \in Int
  /\ p.forwardIter \in Int /\ p.backwardIter \in Int /\ p.seekbarMax \in Int

PageShape ==
  /\ DOMAIN page = PageFields
  /\ page.loaded \in BOOLEAN /\ page.resetFlag \in BOOLEAN
  /\ page.playFlag \in BOOLEAN /\ page.simplayFlag \in BOOLEAN
  /\ page.iterationLow \in {0, 1}
  /\ AxesShape(page.y)
  /\ Counting(page)
  /\ vizType \in VizTypes

MessageShape ==
  /\ \A m \in Calls : \/ (m.op = "axes" /\ m.chart \in Charts)
                       \/ (m.op = "iter" /\ m.iter \in Int)
  /\ \A m \in Answers : m.op \in {"axes", "iter"}

\* Before the first chart no button reacts.
BeforeLoad ==
  ~page.loaded =>
    /\ ~page.playLit /\ ~page.forwardLit /\ ~page.backLit
    /\ page.icon = "play" /\ ~page.resetFlag /\ page.segmentArr = << >>
    /\ ~IterUnderWay /\ ~ResetSent /\ DOMAIN segmentChain = {}

\* The axes of the page are those of the engine's chart, unless the answer
\* that tells the page is still under way.
AxesAgree ==
  /\ page.loaded /\ ~AxesAnswered => Loaded /\ page.y = Axes(chart)
  /\ \A m \in Answers : m.op = "axes" =>
       Loaded /\ firstIteration /\ m.y = Axes(chart)
  /\ \A m \in Answers : m.op = "iter" => m.y = page.y

\* Play was pressed, and maybe Pause after it.
InPlay(p) == p.icon # "play" \/ p.simplayFlag \/ p.playFlag

\* From a reset to the next click on Play the page is blank.
BlankAfterReset ==
  page.resetFlag \/ ResetSent =>
    page.segmentArr = << >> /\ Current = {} /\ ~InPlay(page)

\* An iteration that was under way when the user clicked Repeat reaches a
\* clean engine, or is followed by one more reset.
ResetOvertakes ==
  /\ ResetSent /\ ~page.resetFlag => ~IterUnderWay
  /\ page.resetFlag /\ ~ResetSent /\ ~IterAnswered => firstIteration
  /\ IterAnswered /\ ~page.resetFlag => ~firstIteration

\* What the page asks for is an iteration of its grid, the one it is at.
AskedIsCurrent ==
  /\ \A m \in Calls : m.op = "iter" =>
       /\ 0 <= m.iter /\ m.iter <= SizeOf(page.y)
       /\ page.resetFlag \/ m.iter = page.iteration
  /\ IterUnderWay /\ ~page.resetFlag =>
       page.iterationLow <= page.iteration /\ page.iteration <= SizeOf(page.y)

\* The run is no longer than the grid has cells, and what is being played or
\* paused has begun or is at its end.
Begun(p) == p.iteration >= p.iterationLow \/ p.iteration >= p.maxIteration
Counted ==
  /\ page.maxIteration <= SizeOf(page.y)
  /\ page.iteration >= page.iterationLow - 1
  /\ InPlay(page) => Begun(page)

\* What the page keeps was received in this run or in an earlier one.
RunsPast ==
  /\ run \in Nat
  /\ \A i \in DOMAIN segmentChain :
       segmentChain[i].run \in Nat /\ segmentChain[i].run <= run

OrderInv ==
  /\ HeatInv
  /\ OneCall
  /\ PageShape /\ MessageShape
  /\ BeforeLoad
  /\ AxesAgree
  /\ BlankAfterReset
  /\ ResetOvertakes
  /\ AskedIsCurrent
  /\ Counted
  /\ RunsPast

-----------------------------------------------------------------------------
(* The page before and after the operators the handlers share.             *)

\* The least and the greatest of two integers are integers.
LEMMA MinMaxInt ==
  ASSUME NEW a \in Int, NEW b \in Int
  PROVE  Min({a, b}) \in Int /\ Max({a, b}) \in Int
<1>1. \E x \in {a, b} : \A y \in {a, b} : x <= y
  OBVIOUS
<1>2. \E x \in {a, b} : \A y \in {a, b} : x >= y
  OBVIOUS
<1>3. Min({a, b}) \in {a, b}
  BY <1>1 DEF Min
<1>4. Max({a, b}) \in {a, b}
  BY <1>2 DEF Max
<1> QED
  BY <1>3, <1>4

\* What the proofs look at of a page, besides its counters.
SameChart(q, p) ==
  /\ DOMAIN q = PageFields
  /\ q.loaded = p.loaded /\ q.y = p.y /\ q.iterationLow = p.iterationLow
  /\ q.validCells = p.validCells /\ q.segmentArr = p.segmentArr

\* Playing stands as it did, whatever is lit.
SamePlay(q, p) ==
  /\ SameChart(q, p)
  /\ q.iteration = p.iteration /\ q.maxIteration = p.maxIteration
  /\ q.resetFlag = p.resetFlag
  /\ q.playFlag = p.playFlag /\ q.simplayFlag = p.simplayFlag

LEMMA ClearedPage ==
  ASSUME NEW p, DOMAIN p = PageFields, NEW low \in {0, 1}, AxesShape(p.y)
  PROVE  /\ DOMAIN Cleared(p, low) = PageFields
         /\ Cleared(p, low).loaded = p.loaded /\ Cleared(p, low).y = p.y
         /\ Cleared(p, low).iterationLow = low
         /\ Cleared(p, low).resetFlag = p.resetFlag
         /\ Cleared(p, low).segmentArr = << >>
         /\ Cleared(p, low).iteration = low - 1
         /\ Cleared(p, low).maxIteration = SizeOf(p.y)
         /\ Cleared(p, low).playFlag = FALSE /\ Cleared(p, low).simplayFlag = FALSE
         /\ Cleared(p, low).icon = "play"
         /\ p.forwardIter \in Int => Counting(Cleared(p, low))
<1> DEFINE q == Cleared(p, low)
<1>1. /\ DOMAIN q = PageFields
      /\ q.loaded = p.loaded /\ q.y = p.y
      /\ q.iterationLow = low /\ q.resetFlag = p.resetFlag
      /\ q.segmentArr = << >>
      /\ q.iteration = low - 1
      /\ q.playFlag = FALSE /\ q.simplayFlag = FALSE /\ q.icon = "play"
  BY DEF Cleared, PageFields
<1>2. /\ q.playIter = low - 1 /\ q.backwardIter = low - 1 /\ q.seekbarMax = low - 1
      /\ q.forwardIter = p.forwardIter
      /\ q.maxIteration = SizeOf(p.y)
  BY DEF Cleared, PageFields, SizeOf, Wide, High
<1> HIDE DEF q
<1>3. SizeOf(p.y) \in Int /\ low - 1 \in Int
  BY DEF SizeOf, Wide, High, AxesShape
<1>4. p.forwardIter \in Int => Counting(q)
  BY <1>1, <1>2, <1>3 DEF Counting
<1> QED
  BY <1>1, <1>2, <1>4 DEF q

LEMMA FinishedPage ==
  ASSUME NEW p, DOMAIN p = PageFields, Counting(p)
  PROVE  /\ SameChart(Finished(p), p) /\ Counting(Finished(p))
         /\ Finished(p).maxIteration = p.maxIteration
         /\ Finished(p).resetFlag = p.resetFlag
         /\ Finished(p).iteration = p.iteration
         /\ Finished(p).playFlag = FALSE
         /\ Finished(p).simplayFlag = p.simplayFlag
         /\ Finished(p).icon = p.icon
<1> DEFINE to == [p EXCEPT !.backwardIter = p.maxIteration,
                           !.playIter = p.maxIteration,
                           !.pauseIter = p.maxIteration]
           q  == IF p.pauseFlag THEN p ELSE to
<1>1. SamePlay(q, p) /\ Counting(q) /\ q.icon = p.icon
  <2>1. SamePlay(to, p) /\ Counting(to) /\ to.icon = p.icon
    BY DEF SamePlay, SameChart, Counting, PageFields
  <2>2. SamePlay(p, p)
    BY DEF SamePlay, SameChart
  <2> HIDE DEF to
  <2> QED
    BY <2>1, <2>2
<1>2. Finished(p) =
        [q EXCEPT !.backFlag = TRUE, !.playLit = @ /\ ~p.playFlag,
                  !.forwardLit = @ /\ ~p.playFlag, !.backLit = @ \/ p.playFlag,
                  !.playFlag = FALSE]
  BY DEF Finished
<1> HIDE DEF q
<1>3. DOMAIN q = PageFields
  BY <1>1 DEF SamePlay, SameChart
<1> DEFINE r == Finished(p)
<1>4. DOMAIN r = PageFields /\ r.playFlag = FALSE
  BY <1>2, <1>3 DEF PageFields
<1>5. /\ r.loaded = q.loaded /\ r.y = q.y /\ r.iterationLow = q.iterationLow
      /\ r.validCells = q.validCells /\ r.segmentArr = q.segmentArr
  BY <1>2, <1>3 DEF PageFields
<1>6. /\ r.iteration = q.iteration /\ r.maxIteration = q.maxIteration
      /\ r.resetFlag = q.resetFlag /\ r.simplayFlag = q.simplayFlag
      /\ r.icon = q.icon
  BY <1>2, <1>3 DEF PageFields
<1>7. /\ r.playIter = q.playIter /\ r.forwardIter = q.forwardIter
      /\ r.backwardIter = q.backwardIter /\ r.seekbarMax = q.seekbarMax
  BY <1>2, <1>3 DEF PageFields
<1> HIDE DEF r
<1>8. SameChart(r, p)
  BY <1>1, <1>4, <1>5 DEF SamePlay, SameChart
<1>9. Counting(r)
  BY <1>1, <1>6, <1>7 DEF Counting
<1>10. /\ r.maxIteration = p.maxIteration /\ r.resetFlag = p.resetFlag
       /\ r.iteration = p.iteration /\ r.simplayFlag = p.simplayFlag
       /\ r.icon = p.icon
  BY <1>1, <1>6 DEF SamePlay
<1> QED
  BY <1>4, <1>8, <1>9, <1>10 DEF r

LEMMA ResumedPage ==
  ASSUME NEW p, DOMAIN p = PageFields, Counting(p)
  PROVE  /\ SameChart(Resumed(p), p) /\ Counting(Resumed(p))
         /\ Resumed(p).maxIteration = p.maxIteration
         /\ Resumed(p).resetFlag = p.resetFlag
         /\ Resumed(p).iteration = p.iteration - 1
         /\ Resumed(p).playFlag = TRUE /\ Resumed(p).simplayFlag = FALSE
         /\ Resumed(p).icon = p.icon
<1> DEFINE next == p.playIter + 1
<1>1. next \in Int /\ p.iteration \in Int /\ p.iteration - 1 \in Int
  BY DEF Counting
<1> HIDE DEF next
<1>2. Max({next, p.iteration}) \in Int
  BY <1>1, MinMaxInt
<1>3. Max({p.playIter + 1, p.iteration}) \in Int
  BY <1>2 DEF next
<1> QED
  BY <1>1, <1>3 DEF Resumed, SameChart, Counting, PageFields

\* play(): the next iteration is asked for, or the run is at its end, or a
\* paused page just counts on.
LEMMA PlayPage ==
  ASSUME NEW p, DOMAIN p = PageFields, Counting(p), Play(p)
  PROVE  /\ SameChart(page', p) /\ Counting(page')
         /\ page'.maxIteration = p.maxIteration
         /\ page'.resetFlag = p.resetFlag
         /\ page'.iteration = p.iteration + 1
         /\ page'.simplayFlag = p.simplayFlag
         /\ page'.icon = p.icon
         /\ \/ /\ p.playFlag /\ page'.playFlag = p.playFlag
               /\ p.iteration + 1 <= p.maxIteration
               /\ Send(IterRequest(p.iteration + 1))
            \/ /\ ~(p.playFlag /\ p.iteration + 1 <= p.maxIteration)
               /\ page'.playFlag = p.playFlag /\ p.simplayFlag
               /\ UNCHANGED requests
            \/ /\ ~(p.playFlag /\ p.iteration + 1 <= p.maxIteration)
               /\ page'.playFlag = FALSE /\ ~p.simplayFlag
               /\ UNCHANGED requests
<1> DEFINE q == [p EXCEPT !.iteration = @ + 1]
<1>1. /\ SameChart(q, p) /\ Counting(q) /\ q.maxIteration = p.maxIteration
      /\ q.resetFlag = p.resetFlag /\ q.iteration = p.iteration + 1
      /\ q.playFlag = p.playFlag /\ q.simplayFlag = p.simplayFlag
      /\ q.icon = p.icon
  BY DEF PageFields, SameChart, Counting
<1>2. \/ /\ q.playFlag /\ q.iteration <= q.maxIteration
         /\ page' = q /\ Send(IterRequest(q.iteration))
      \/ /\ ~(q.playFlag /\ q.iteration <= q.maxIteration) /\ q.simplayFlag
         /\ page' = q /\ UNCHANGED requests
      \/ /\ ~(q.playFlag /\ q.iteration <= q.maxIteration) /\ ~q.simplayFlag
         /\ page' = Finished(q) /\ UNCHANGED requests
  BY DEF Play
<1> HIDE DEF q
<1>3. DOMAIN q = PageFields
  BY <1>1 DEF SameChart
<1>4. CASE /\ q.playFlag /\ q.iteration <= q.maxIteration
           /\ page' = q /\ Send(IterRequest(q.iteration))
  BY <1>1, <1>3, <1>4 DEF SameChart
<1>5. CASE /\ ~(q.playFlag /\ q.iteration <= q.maxIteration) /\ q.simplayFlag
           /\ page' = q /\ UNCHANGED requests
  BY <1>1, <1>3, <1>5 DEF SameChart
<1>6. CASE /\ ~(q.playFlag /\ q.iteration <= q.maxIteration) /\ ~q.simplayFlag
           /\ page' = Finished(q) /\ UNCHANGED requests
  <2>1. /\ SameChart(page', q) /\ Counting(page')
        /\ page'.maxIteration = q.maxIteration /\ page'.resetFlag = q.resetFlag
        /\ page'.iteration = q.iteration
        /\ page'.playFlag = FALSE /\ page'.simplayFlag = q.simplayFlag
        /\ page'.icon = q.icon
    BY <1>1, <1>3, <1>6, FinishedPage
  <2> QED
    BY <1>1, <1>6, <2>1 DEF SameChart
<1> QED
  BY <1>2, <1>4, <1>5, <1>6

-----------------------------------------------------------------------------
(* Steps of the page alone keep the first invariant.                       *)

LEMMA EngineKept ==
  ASSUME HeatInv, UNCHANGED heatVars
  PROVE  HeatInv' /\ chart' = chart /\ firstIteration' = firstIteration
         /\ (Loaded' <=> Loaded)
<1>1. HeatInv'
  BY HeatNextInv
<1> QED
  BY <1>1 DEF heatVars, Loaded

LEMMA NetKept ==
  ASSUME OneCall, UNCHANGED net
  PROVE  /\ OneCall' /\ Calls' = Calls /\ Answers' = Answers
         /\ ResetSent' <=> ResetSent
         /\ IterAsked' <=> IterAsked
         /\ IterAnswered' <=> IterAnswered
         /\ IterUnderWay' <=> IterUnderWay
         /\ AxesAnswered' <=> AxesAnswered
BY DEF net, OneCall, RequestsOK, RepliesOK, Calls, Answers, ResetSent,
       IterAsked, IterAnswered, IterUnderWay, AxesAnswered

\* Play that is not paused goes on as it did, unless nothing is under way; a
\* pause ends with Play at the end of the run only.
Steady ==
  \/ page'.simplayFlag
  \/ ~page.simplayFlag /\ (page'.playFlag = page.playFlag \/ Idle)
  \/ Idle /\ page.iteration > page.maxIteration

\* A click that neither calls the server nor touches what was received.
Quiet ==
  /\ UNCHANGED << heatVars, net, segmentChain, run, vizType >>
  /\ page.loaded
  /\ SameChart(page', page) /\ Counting(page')
  /\ page'.iteration = page.iteration /\ page'.maxIteration = page.maxIteration
  /\ page'.playFlag \in BOOLEAN /\ page'.simplayFlag \in BOOLEAN
  /\ \/ page'.resetFlag = page.resetFlag
     \/ Idle /\ page'.resetFlag = FALSE
  /\ page'.resetFlag \/ ResetSent => ~InPlay(page')
  /\ InPlay(page') => Begun(page)
  /\ Steady

LEMMA QuietInv ==
  ASSUME OrderInv, Quiet
  PROVE  OrderInv'
<1>1. /\ HeatInv' /\ chart' = chart /\ firstIteration' = firstIteration
      /\ (Loaded' <=> Loaded)
  BY EngineKept DEF OrderInv, Quiet
<1>2. /\ OneCall' /\ Calls' = Calls /\ Answers' = Answers
      /\ ResetSent' <=> ResetSent
      /\ IterAsked' <=> IterAsked
      /\ IterAnswered' <=> IterAnswered
      /\ IterUnderWay' <=> IterUnderWay
      /\ AxesAnswered' <=> AxesAnswered
  BY NetKept DEF OrderInv, Quiet
<1>3. /\ DOMAIN page' = PageFields /\ page'.loaded = page.loaded
      /\ page'.y = page.y /\ page'.iterationLow = page.iterationLow
      /\ page'.segmentArr = page.segmentArr /\ page.loaded
      /\ page'.iteration = page.iteration /\ page'.maxIteration = page.maxIteration
  BY DEF Quiet, SameChart
<1>4. Current' = Current
  BY DEF Quiet, Current
<1>5. page.resetFlag \in BOOLEAN /\ page'.resetFlag \in BOOLEAN
  BY DEF OrderInv, PageShape, Quiet
<1>6. \/ /\ Calls = {} /\ Answers = {} /\ ~ResetSent
         /\ ~IterUnderWay /\ ~IterAnswered /\ page'.resetFlag = FALSE
      \/ page'.resetFlag = page.resetFlag
  BY IdleIsQuiet DEF Quiet, IterUnderWay, IterAsked, IterAnswered
<1>7. PageShape'
  BY <1>3, <1>5 DEF OrderInv, PageShape, Quiet
<1>8. MessageShape' /\ BeforeLoad'
  BY <1>2, <1>3 DEF OrderInv, MessageShape, BeforeLoad
<1>9. AxesAgree'
  BY <1>1, <1>2, <1>3 DEF OrderInv, AxesAgree
<1>10. BlankAfterReset'
  <2> SUFFICES ASSUME page'.resetFlag \/ ResetSent'
               PROVE  page'.segmentArr = << >> /\ Current' = {} /\ ~InPlay(page')
    BY DEF BlankAfterReset
  <2>1. page.resetFlag \/ ResetSent
    BY <1>2, <1>6
  <2>2. page.segmentArr = << >> /\ Current = {}
    BY <2>1 DEF OrderInv, BlankAfterReset
  <2>3. ~InPlay(page')
    BY <1>2 DEF Quiet
  <2> QED
    BY <1>3, <1>4, <2>2, <2>3
<1>11. ResetOvertakes'
  BY <1>1, <1>2, <1>5, <1>6 DEF OrderInv, ResetOvertakes, IterUnderWay, IterAsked
<1>12. AskedIsCurrent'
  BY <1>2, <1>3, <1>5, <1>6 DEF OrderInv, AskedIsCurrent, IterUnderWay
<1>13. Counted'
  BY <1>3 DEF OrderInv, Counted, Quiet, Begun
<1>14. RunsPast'
  BY DEF OrderInv, RunsPast, Quiet
<1> QED
  BY <1>1, <1>2, <1>7, <1>8, <1>9, <1>10, <1>11, <1>12, <1>13, <1>14 DEF OrderInv

\* Looking at the chart moves neither the playing nor the quadrants.
SameView(q, p) == SamePlay(q, p) /\ q.icon \in {p.icon, "play"}

LEMMA LookIsQuiet ==
  ASSUME OrderInv, page.loaded, SameView(page', page), Counting(page'),
         UNCHANGED << heatVars, net, segmentChain, run, vizType >>
  PROVE  Quiet
<1>1. page.playFlag \in BOOLEAN /\ page.simplayFlag \in BOOLEAN
  BY DEF OrderInv, PageShape
<1>2. page.resetFlag \/ ResetSent => ~InPlay(page)
  BY DEF OrderInv, BlankAfterReset
<1>3. InPlay(page) => Begun(page)
  BY DEF OrderInv, Counted
<1>4. InPlay(page') => InPlay(page)
  BY DEF InPlay, SameView, SamePlay
<1>5. page'.resetFlag = page.resetFlag
  BY DEF SameView, SamePlay
<1>6. Steady
  BY <1>1 DEF Steady, SameView, SamePlay
<1> QED
  BY <1>1, <1>2, <1>3, <1>4, <1>5, <1>6 DEF Quiet, SameView, SamePlay

LEMMA ClickForwardQuiet ==
  ASSUME OrderInv, ClickForward
  PROVE  Quiet
<1> DEFINE p     == page
           moves == p.forwardFlag /\ ~p.playFlag
           to    == p.forwardIter + 1
           most  == Max({p.seekbarMax, to})
           q     == [p EXCEPT !.backFlag = TRUE, !.forwardIter = to,
                              !.seekbarMax = most]
           least == Min({to, p.maxIteration})
           at    == IF moves THEN least ELSE p.forwardIter
           r     == IF moves THEN [q EXCEPT !.forwardIter = at, !.backwardIter = at,
                                            !.playIter = at, !.pauseIter = at]
                             ELSE p
           t     == [r EXCEPT
                      !.forwardFlag = @ \/ (p.iteration < p.maxIteration /\ r.backFlag),
                      !.icon = "play", !.playLit = at < p.maxIteration,
                      !.forwardLit = at < p.iteration - 1, !.backLit = TRUE]
<1>1. DOMAIN page = PageFields /\ Counting(page)
  BY DEF OrderInv, PageShape
<1>2. page' = q \/ page' = t
  BY DEF ClickForward
<1>3. to \in Int /\ least \in Int /\ most \in Int
  <2>1. to \in Int /\ page.maxIteration \in Int /\ page.seekbarMax \in Int
    BY <1>1 DEF Counting
  <2> HIDE DEF to
  <2> QED
    BY <2>1, MinMaxInt
<1>4. at \in Int
  BY <1>1, <1>3 DEF Counting
<1> HIDE DEF to, most, least, at
<1>5. SameView(q, page) /\ Counting(q)
  BY <1>1, <1>3 DEF SameView, SamePlay, SameChart, PageFields, Counting
<1> HIDE DEF q
<1>6. SameView(r, page) /\ Counting(r)
  <2>1. CASE moves
    BY <1>4, <1>5, <2>1 DEF SameView, SamePlay, SameChart, PageFields, Counting
  <2>2. CASE ~moves
    BY <1>1, <2>2 DEF SameView, SamePlay, SameChart
  <2> QED
    BY <2>1, <2>2
<1> HIDE DEF r
<1>7. SameView(t, page) /\ Counting(t)
  BY <1>6 DEF SameView, SamePlay, SameChart, PageFields, Counting
<1> HIDE DEF t
<1>8. SameView(page', page) /\ Counting(page')
  BY <1>2, <1>5, <1>7
<1>9. page.loaded /\ UNCHANGED << heatVars, net, segmentChain, run, vizType >>
  BY DEF ClickForward, OrderInv, BeforeLoad
<1> QED
  BY <1>8, <1>9, LookIsQuiet

LEMMA ClickBackQuiet ==
  ASSUME OrderInv, ClickBack
  PROVE  Quiet
<1> DEFINE p     == page
           moves == ~p.playFlag /\ p.backFlag
           to    == p.backwardIter - 1
           q     == [p EXCEPT !.forwardFlag = TRUE, !.backwardIter = to]
           at    == Max({to, p.iterationLow})
           r     == IF moves THEN [q EXCEPT !.forwardIter = at, !.playIter = at,
                                            !.pauseIter = at]
                             ELSE p
           early == r.backwardIter < p.maxIteration
           t     == [r EXCEPT !.backLit = @ /\ r.backwardIter > p.iterationLow,
                              !.icon = IF early THEN "play" ELSE @,
                              !.playLit = @ \/ early,
                              !.forwardLit = TRUE]
           u     == [p EXCEPT !.backFlag = FALSE, !.backLit = FALSE,
                              !.forwardLit = TRUE]
<1>1. DOMAIN page = PageFields /\ Counting(page) /\ page.iterationLow \in Int
  BY DEF OrderInv, PageShape
<1>2. page' = q \/ page' = t \/ page' = u
  BY DEF ClickBack
<1>3. SameView(u, page) /\ Counting(u)
  BY <1>1 DEF SameView, SamePlay, SameChart, PageFields, Counting
<1>4. to \in Int
  BY <1>1 DEF Counting
<1> HIDE DEF to
<1>5. at \in Int
  BY <1>1, <1>4, MinMaxInt
<1> HIDE DEF at
<1>6. SameView(q, page) /\ Counting(q)
  BY <1>1, <1>4 DEF SameView, SamePlay, SameChart, PageFields, Counting
<1> HIDE DEF q
<1>7. SameView(r, page) /\ Counting(r)
  <2>1. CASE moves
    BY <1>5, <1>6, <2>1 DEF SameView, SamePlay, SameChart, PageFields, Counting
  <2>2. CASE ~moves
    BY <1>1, <2>2 DEF SameView, SamePlay, SameChart
  <2> QED
    BY <2>1, <2>2
<1> HIDE DEF r
<1>8. SameView(t, page) /\ Counting(t)
  BY <1>7 DEF SameView, SamePlay, SameChart, PageFields, Counting
<1> HIDE DEF t, u
<1>9. SameView(page', page) /\ Counting(page')
  BY <1>2, <1>3, <1>6, <1>8
<1>10. page.loaded /\ UNCHANGED << heatVars, net, segmentChain, run, vizType >>
  BY DEF ClickBack, OrderInv, BeforeLoad
<1> QED
  BY <1>9, <1>10, LookIsQuiet

LEMMA ClickSaveQuiet ==
  ASSUME OrderInv, ClickSave
  PROVE  Quiet
<1>1. DOMAIN page = PageFields /\ Counting(page)
  BY DEF OrderInv, PageShape
<1>2. /\ page.loaded /\ page' = page
      /\ UNCHANGED << heatVars, net, segmentChain, run, vizType >>
  BY DEF ClickSave
<1>3. SameView(page', page) /\ Counting(page')
  BY <1>1, <1>2 DEF SameView, SamePlay, SameChart
<1> QED
  BY <1>2, <1>3, LookIsQuiet

LEMMA DragSeekbarQuiet ==
  ASSUME OrderInv, DragSeekbar
  PROVE  Quiet
<1> DEFINE p    == page
           a(v) == IF p.pauseFlag THEN Min({v, p.seekbarMax})
                   ELSE Min({Max({Min({v, p.maxIteration}), p.iterationLow}),
                             p.iteration})
<1>1. DOMAIN page = PageFields /\ Counting(page) /\ page.iterationLow \in Int
  BY DEF OrderInv, PageShape
<1>2. PICK v \in page.seekMin .. Max({page.seekMin, page.seekMax}) :
        LET at == a(v)
            q  == [p EXCEPT
                    !.forwardFlag = @ \/ at < (IF p.pauseFlag THEN p.pauseIter
                                                              ELSE p.maxIteration),
                    !.backFlag = @ \/ (at > p.iterationLow
                                       /\ at <= (IF p.pauseFlag THEN p.pauseIter
                                                                ELSE p.maxIteration)),
                    !.forwardIter = at, !.backwardIter = at,
                    !.pauseIter = at, !.playIter = at]
        IN page' = q \/ page' = SeekButtons(q, at) \/ page' = SeekButtons(p, v)
  BY DEF DragSeekbar
<1> DEFINE at == a(v)
           q  == [p EXCEPT
                    !.forwardFlag = @ \/ at < (IF p.pauseFlag THEN p.pauseIter
                                                              ELSE p.maxIteration),
                    !.backFlag = @ \/ (at > p.iterationLow
                                       /\ at <= (IF p.pauseFlag THEN p.pauseIter
                                                                ELSE p.maxIteration)),
                    !.forwardIter = at, !.backwardIter = at,
                    !.pauseIter = at, !.playIter = at]
<1>3. page' = q \/ page' = SeekButtons(q, at) \/ page' = SeekButtons(p, v)
  BY <1>2
<1>4. at \in Int
  <2>1. v \in Int /\ page.seekbarMax \in Int /\ page.maxIteration \in Int
        /\ page.iteration \in Int
    BY <1>1 DEF Counting
  <2>2. Min({v, page.seekbarMax}) \in Int /\ Min({v, page.maxIteration}) \in Int
    BY <2>1, MinMaxInt
  <2>3. Max({Min({v, page.maxIteration}), page.iterationLow}) \in Int
    BY <1>1, <2>2, MinMaxInt
  <2>4. Min({Max({Min({v, page.maxIteration}), page.iterationLow}),
             page.iteration}) \in Int
    BY <2>1, <2>3, MinMaxInt
  <2> QED
    BY <2>2, <2>4
<1> HIDE <1>2
<1> HIDE DEF at
<1>5. SameView(q, page) /\ Counting(q)
  BY <1>1, <1>4 DEF SameView, SamePlay, SameChart, PageFields, Counting
<1> HIDE DEF q
<1>6. SameView(SeekButtons(q, at), page) /\ Counting(SeekButtons(q, at))
  BY <1>5 DEF SameView, SamePlay, SameChart, PageFields, Counting, SeekButtons
<1>7. SameView(SeekButtons(page, v), page) /\ Counting(SeekButtons(page, v))
  BY <1>1 DEF SameView, SamePlay, SameChart, PageFields, Counting, SeekButtons
<1>8. SameView(page', page) /\ Counting(page')
  BY <1>3, <1>5, <1>6, <1>7
<1>9. page.loaded /\ UNCHANGED << heatVars, net, segmentChain, run, vizType >>
  BY DEF DragSeekbar
<1> QED
  BY <1>8, <1>9, LookIsQuiet

LEMMA ClickPauseQuiet ==
  ASSUME OrderInv, ClickPause
  PROVE  Quiet
<1> DEFINE p    == page
           at   == IF p.simplayFlag THEN p.playIter ELSE p.iteration - 1
           to   == Min({at, p.maxIteration})
           most == Max({p.seekbarMax, at})
           held == [p EXCEPT
                     !.simplayFlag = TRUE, !.pauseFlag = TRUE, !.playFlag = FALSE,
                     !.playNoviz = TRUE, !.backFlag = TRUE, !.forwardFlag = TRUE,
                     !.seekbarMax = most,
                     !.pauseIter = to, !.forwardIter = to, !.backwardIter = to,
                     !.playIter = to,
                     !.icon = "play", !.backLit = TRUE, !.forwardLit = to < p.iteration]
           left == [p EXCEPT !.pauseIter = at]
<1>1. /\ DOMAIN page = PageFields /\ Counting(page) /\ page.icon = "pause"
      /\ page.playFlag \in BOOLEAN /\ page.simplayFlag \in BOOLEAN
      /\ UNCHANGED << heatVars, net, segmentChain, run, vizType >>
  BY DEF OrderInv, PageShape, ClickPause
<1>2. page.loaded /\ ~page.resetFlag /\ ~ResetSent /\ Begun(page)
  BY <1>1 DEF OrderInv, BeforeLoad, BlankAfterReset, Counted, InPlay
<1>3. page' = left \/ page' = held
  BY DEF ClickPause
<1>4. at \in Int /\ to \in Int /\ most \in Int
  <2>1. at \in Int /\ page.maxIteration \in Int /\ page.seekbarMax \in Int
    BY <1>1 DEF Counting
  <2> HIDE DEF at
  <2> QED
    BY <2>1, MinMaxInt
<1> HIDE DEF at, to, most
<1>5. CASE page' = left
  <2>1. SameView(page', page) /\ Counting(page')
    BY <1>1, <1>5 DEF SameView, SamePlay, SameChart, PageFields, Counting
  <2> QED
    BY <1>1, <1>2, <2>1, LookIsQuiet
<1>6. CASE page' = held
  <2>1. /\ SameChart(page', page) /\ Counting(page')
        /\ page'.simplayFlag = TRUE /\ page'.playFlag = FALSE
        /\ page'.resetFlag = page.resetFlag /\ page'.iteration = page.iteration
        /\ page'.maxIteration = page.maxIteration
    BY <1>1, <1>4, <1>6 DEF SameChart, Counting, PageFields
  <2>2. Steady
    BY <2>1 DEF Steady
  <2> QED
    BY <1>1, <1>2, <2>1, <2>2 DEF Quiet
<1> QED
  BY <1>3, <1>5, <1>6

-----------------------------------------------------------------------------
(* Play either asks for an iteration or is as quiet as the other clicks;   *)
(* Forward before the first iteration asks for it.                         *)

\* A grid has a cell.
LEMMA SizePositive ==
  ASSUME NEW y, AxesShape(y)
  PROVE  SizeOf(y) \in Int /\ SizeOf(y) >= 1
<1>1. Wide(y) \in Int /\ High(y) \in Int /\ Wide(y) >= 1 /\ High(y) >= 1
  BY DEF Wide, High, AxesShape
<1>2. ASSUME NEW a \in Int, NEW b \in Int, a >= 1, b >= 1
      PROVE  a * b \in Int /\ a * b >= 1
  BY <1>2
<1> QED
  BY <1>1, <1>2 DEF SizeOf

Ask ==
  /\ UNCHANGED << heatVars, replies, segmentChain, run, vizType >>
  /\ Idle /\ page.loaded
  /\ Send(IterRequest(page'.iteration))
  /\ SameChart(page', page) /\ Counting(page')
  /\ page'.maxIteration = page.maxIteration
  /\ page.iterationLow <= page'.iteration /\ page'.iteration <= SizeOf(page.y)
  /\ page'.playFlag \in BOOLEAN /\ page'.simplayFlag \in BOOLEAN
  /\ page'.resetFlag = page.resetFlag \/ page'.resetFlag = FALSE
  /\ page'.resetFlag => ~InPlay(page')

\* Play asks for the iteration after the one it is at, unless it was paused:
\* then that one was not asked for yet.
PlaysOn ==
  /\ page'.resetFlag = FALSE /\ page'.playFlag = TRUE
  /\ page'.iteration <= page.maxIteration
  /\ \/ page'.iteration = page.iteration + 1 /\ ~page.simplayFlag
     \/ /\ page'.iteration = page.iteration
        /\ page.simplayFlag \/ page.iteration >= page.maxIteration

\* The page of a click on Play, before the handler's branches.
Pressed(d) ==
  /\ SameChart(d, page) /\ Counting(d)
  /\ d.iteration = page.iteration /\ d.maxIteration = page.maxIteration
  /\ d.resetFlag = FALSE /\ d.playFlag = TRUE /\ d.icon = "pause"
  /\ d.simplayFlag \in BOOLEAN

\* Once the replay has caught up, or stopped on an entry it cannot draw.
LEMMA ReplayStep ==
  ASSUME OrderInv, Idle, page.loaded, Begun(page),
         page.simplayFlag \/ page.iteration >= page.maxIteration,
         page.iteration <= page.maxIteration => page.iteration >= page.iterationLow,
         NEW d, Pressed(d), d.simplayFlag = TRUE, SimulatePlay(d),
         UNCHANGED << heatVars, replies, segmentChain, run, vizType >>
  PROVE  Quiet \/ (Ask /\ PlaysOn)
<1>1. /\ page.iteration \in Int /\ page.maxIteration \in Int
      /\ page.iterationLow \in Int /\ DOMAIN d = PageFields /\ Counting(d)
      /\ AxesShape(page.y) /\ page.maxIteration <= SizeOf(page.y)
  BY DEF OrderInv, PageShape, Counting, Pressed, SameChart, Counted
<1>2. ~ResetSent
  BY IdleIsQuiet
<1>3. CASE Play(Resumed(d))
  <2> DEFINE p == Resumed(d)
  <2>1. /\ SameChart(p, page) /\ Counting(p)
        /\ p.resetFlag = FALSE /\ p.iteration = page.iteration - 1
        /\ p.maxIteration = page.maxIteration
        /\ p.playFlag = TRUE /\ p.simplayFlag = FALSE /\ p.icon = "pause"
    BY <1>1, ResumedPage DEF Pressed, SameChart
  <2> HIDE DEF p
  <2>2. DOMAIN p = PageFields /\ Play(p)
    BY <1>3, <2>1 DEF SameChart, p
  <2>3. p.iteration + 1 = page.iteration
    BY <1>1, <2>1
  <2>4. /\ SameChart(page', page) /\ Counting(page')
        /\ page'.maxIteration = page.maxIteration
        /\ page'.resetFlag = FALSE /\ page'.iteration = page.iteration
        /\ page'.simplayFlag = FALSE /\ page'.icon = "pause"
        /\ \/ /\ page'.playFlag = TRUE /\ page.iteration <= page.maxIteration
              /\ Send(IterRequest(page.iteration))
           \/ /\ page'.playFlag = FALSE /\ UNCHANGED requests
              /\ page.iteration > page.maxIteration
    <3>1. \/ /\ page'.playFlag = p.playFlag /\ p.iteration + 1 <= p.maxIteration
             /\ Send(IterRequest(p.iteration + 1))
          \/ /\ ~(p.playFlag /\ p.iteration + 1 <= p.maxIteration)
             /\ page'.playFlag = FALSE /\ UNCHANGED requests
      BY <2>1, <2>2, PlayPage
    <3>2. ~(p.iteration + 1 <= p.maxIteration) => page.iteration > page.maxIteration
      BY <1>1, <2>1, <2>3
    <3>3. \/ /\ page'.playFlag = TRUE /\ page.iteration <= page.maxIteration
             /\ Send(IterRequest(page.iteration))
          \/ /\ page'.playFlag = FALSE /\ UNCHANGED requests
             /\ page.iteration > page.maxIteration
      BY <2>1, <2>3, <3>1, <3>2
    <3> QED
      BY <2>1, <2>2, <2>3, <3>3, PlayPage DEF SameChart
  <2>5. CASE page'.playFlag = TRUE /\ page.iteration <= page.maxIteration
             /\ Send(IterRequest(page.iteration))
    <3>1. page.iterationLow <= page.iteration /\ page.iteration <= SizeOf(page.y)
      BY <1>1, <2>5, SizePositive
    <3>2. Ask
      BY <2>4, <2>5, <3>1 DEF Ask
    <3>3. PlaysOn
      BY <2>4, <2>5 DEF PlaysOn
    <3> QED
      BY <3>2, <3>3
  <2>6. CASE /\ page'.playFlag = FALSE /\ UNCHANGED requests
             /\ page.iteration > page.maxIteration
    <3>1. Steady
      BY <2>6 DEF Steady
    <3> QED
      BY <1>2, <2>4, <2>6, <3>1 DEF Quiet, net
  <2> QED
    BY <2>4, <2>5, <2>6
<1>4. ASSUME NEW last \in Int, page' = [d EXCEPT !.playIter = last],
             UNCHANGED requests
      PROVE  Quiet
  <2>1. /\ SameChart(page', page) /\ Counting(page')
        /\ page'.maxIteration = page.maxIteration
        /\ page'.resetFlag = FALSE /\ page'.iteration = page.iteration
        /\ page'.simplayFlag = TRUE /\ page'.playFlag = TRUE /\ page'.icon = "pause"
    BY <1>1, <1>4 DEF Pressed, SameChart, Counting, PageFields
  <2>2. Steady
    BY <2>1 DEF Steady
  <2> QED
    BY <1>2, <1>4, <2>1, <2>2 DEF Quiet, net
<1>5. \/ Play(Resumed(d))
      \/ \E last \in d.playIter + 1 .. d.iteration - 1 :
           page' = [d EXCEPT !.playIter = last] /\ UNCHANGED requests
  BY Zenon DEF SimulatePlay
<1> QED
  BY <1>3, <1>4, <1>5

LEMMA ClickPlayCases ==
  ASSUME OrderInv, ClickPlay
  PROVE  Quiet \/ (Ask /\ PlaysOn)
<1> DEFINE p == [page EXCEPT !.icon = "pause", !.forwardFlag = FALSE,
                        !.backFlag = FALSE, !.pauseFlag = FALSE,
                        !.playFlag = TRUE, !.playNoviz = FALSE,
                        !.resetFlag = FALSE]
           dimmed == [p EXCEPT !.forwardLit = FALSE, !.backLit = FALSE]
           again  == [dimmed EXCEPT !.simplayFlag = TRUE, !.playIter = @ - 1]
           lit    == [p EXCEPT !.backLit = TRUE]
           ended  == p.iteration >= p.maxIteration
           replay == p.iterationLow <= p.playIter /\ p.playIter < p.maxIteration
<1>1. /\ DOMAIN page = PageFields /\ page.simplayFlag \in BOOLEAN
      /\ page.iteration \in Int /\ page.maxIteration \in Int
      /\ page.iterationLow \in Int /\ page.playIter \in Int
      /\ Counting(page) /\ AxesShape(page.y)
      /\ page.maxIteration <= SizeOf(page.y)
  BY DEF OrderInv, PageShape, Counting, Counted
<1>2. /\ Idle /\ page.loaded
      /\ UNCHANGED << heatVars, replies, segmentChain, run, vizType >>
      /\ \/ ended /\ replay /\ SimulatePlay(again)
         \/ ended /\ page' = lit /\ UNCHANGED requests
         \/ ~ended /\ p.simplayFlag /\ SimulatePlay(dimmed)
         \/ ~ended /\ ~p.simplayFlag /\ Play(dimmed)
  BY DEF ClickPlay, OrderInv, BeforeLoad
<1>3. /\ Pressed(p) /\ p.simplayFlag = page.simplayFlag
      /\ p.playIter = page.playIter
  BY <1>1 DEF Pressed, SameChart, Counting, PageFields
<1> HIDE DEF p
<1>4. /\ Pressed(dimmed) /\ dimmed.simplayFlag = page.simplayFlag
      /\ dimmed.playIter = page.playIter
  BY <1>3 DEF Pressed, SameChart, Counting, PageFields
<1>5. Pressed(lit) /\ lit.simplayFlag = page.simplayFlag
  BY <1>3 DEF Pressed, SameChart, Counting, PageFields
<1> HIDE DEF dimmed, lit
<1>6. Pressed(again) /\ again.simplayFlag = TRUE
  BY <1>1, <1>4 DEF Pressed, SameChart, Counting, PageFields
<1> HIDE DEF again
<1>7. /\ ended <=> page.iteration >= page.maxIteration
      /\ replay => page.iterationLow < page.maxIteration
  BY <1>1, <1>3 DEF Pressed, SameChart
<1> HIDE DEF ended, replay
<1>8. ~ResetSent
  BY <1>2, IdleIsQuiet
<1>9. CASE ended /\ replay /\ SimulatePlay(again)
  <2>1. /\ Begun(page) /\ page.iteration >= page.maxIteration
        /\ page.iteration >= page.iterationLow
    BY <1>1, <1>7, <1>9 DEF Begun
  <2> QED
    BY <1>2, <1>6, <1>9, <2>1, ReplayStep
<1>10. CASE ended /\ page' = lit /\ UNCHANGED requests
  <2>1. Begun(page)
    BY <1>7, <1>10 DEF Begun
  <2>2. Steady
    <3>1. page'.simplayFlag = page.simplayFlag
      BY <1>5, <1>10
    <3> QED
      BY <1>2, <3>1 DEF Steady
  <2> QED
    BY <1>2, <1>5, <1>8, <1>10, <2>1, <2>2 DEF Quiet, Pressed, net
<1>11. CASE ~ended /\ p.simplayFlag /\ SimulatePlay(dimmed)
  <2>1. page.simplayFlag /\ dimmed.simplayFlag = TRUE
    BY <1>1, <1>3, <1>4, <1>11
  <2>2. Begun(page) /\ page.iteration >= page.iterationLow
    BY <1>1, <1>7, <1>11, <2>1 DEF OrderInv, Counted, InPlay, Begun
  <2> QED
    BY <1>2, <1>4, <1>11, <2>1, <2>2, ReplayStep
<1>12. CASE ~ended /\ ~p.simplayFlag /\ Play(dimmed)
  <2>1. /\ page.iterationLow <= page.iteration + 1
        /\ page.iteration + 1 <= page.maxIteration
        /\ page.iteration + 1 <= SizeOf(page.y)
    <3>1. page.iteration + 1 <= page.maxIteration
      BY <1>1, <1>7, <1>12
    <3>2. SizeOf(page.y) \in Int
      BY <1>1, SizePositive
    <3> QED
      BY <1>1, <3>1, <3>2 DEF OrderInv, Counted
  <2>2. /\ SameChart(page', page) /\ Counting(page')
        /\ page'.maxIteration = page.maxIteration
        /\ page'.resetFlag = FALSE /\ page'.iteration = page.iteration + 1
        /\ page'.simplayFlag = page.simplayFlag
        /\ page'.playFlag = TRUE
        /\ Send(IterRequest(page.iteration + 1))
    <3>1. DOMAIN dimmed = PageFields /\ Counting(dimmed)
      BY <1>4 DEF Pressed, SameChart
    <3> QED
      BY <1>4, <1>12, <2>1, <3>1, PlayPage DEF Pressed, SameChart
  <2>3. Ask
    BY <1>1, <1>2, <2>1, <2>2 DEF Ask
  <2>4. PlaysOn
    BY <1>3, <1>12, <2>1, <2>2 DEF PlaysOn
  <2> QED
    BY <2>3, <2>4
<1> QED
  BY <1>2, <1>9, <1>10, <1>11, <1>12

LEMMA ForwardFirstAsks ==
  ASSUME OrderInv, ForwardFirst
  PROVE  Ask
<1>1. /\ DOMAIN page = PageFields /\ Counting(page)
      /\ page.iteration \in Int /\ page.iterationLow \in {0, 1}
      /\ page.playFlag \in BOOLEAN /\ page.simplayFlag \in BOOLEAN
      /\ page.iteration >= page.iterationLow - 1 /\ AxesShape(page.y)
  BY DEF OrderInv, PageShape, Counting, Counted
<1>2. /\ Idle /\ page.loaded /\ page.iteration < page.iterationLow
      /\ Send(IterRequest(page.iteration + 1))
      /\ UNCHANGED << heatVars, replies, segmentChain, run, vizType >>
  BY DEF ForwardFirst, view, OrderInv, BeforeLoad
<1>3. page' = [page EXCEPT !.forwardFlag = TRUE, !.iteration = @ + 1,
                           !.forwardIter = page.iteration + 1,
                           !.playLit = TRUE, !.backLit = TRUE]
  BY DEF ForwardFirst
<1>4. /\ SameChart(page', page) /\ Counting(page')
      /\ page'.iteration = page.iteration + 1
      /\ page'.maxIteration = page.maxIteration
      /\ page'.resetFlag = page.resetFlag /\ page'.icon = page.icon
      /\ page'.playFlag = page.playFlag /\ page'.simplayFlag = page.simplayFlag
  BY <1>1, <1>3 DEF SameChart, Counting, PageFields
<1>5. page.iterationLow <= page.iteration + 1 /\ page.iteration + 1 <= SizeOf(page.y)
  BY <1>1, <1>2, SizePositive
<1>6. page.resetFlag => ~InPlay(page)
  BY DEF OrderInv, BlankAfterReset
<1>7. InPlay(page') <=> InPlay(page)
  BY <1>4 DEF InPlay
<1> QED
  BY <1>1, <1>2, <1>4, <1>5, <1>6, <1>7 DEF Ask

LEMMA AskInv ==
  ASSUME OrderInv, Ask
  PROVE  OrderInv'
<1> DEFINE i == page'.iteration
           m == IterRequest(i)
<1>1. /\ HeatInv' /\ chart' = chart /\ firstIteration' = firstIteration
      /\ (Loaded' <=> Loaded)
  BY EngineKept DEF OrderInv, Ask
<1>2. /\ Calls = {} /\ Answers = {} /\ ~ResetSent
      /\ ~IterUnderWay /\ ~AxesAnswered /\ ~IterAnswered
  BY IdleIsQuiet DEF Ask, IterUnderWay, IterAsked, IterAnswered, AxesAnswered
<1>3. m.op = "iter" /\ m.iter = i
  BY DEF IterRequest
<1>4. RequestsOK' /\ Calls' = {m} /\ ~ResetSent'
  BY <1>2, <1>3, CallSent DEF OrderInv, OneCall, Ask
<1>5. RepliesOK' /\ Answers' = {}
  BY <1>2 DEF OrderInv, OneCall, RepliesOK, Answers, Ask
<1>6. OneCall'
  BY <1>4, <1>5 DEF OneCall
<1>7. ~IterAnswered' /\ ~AxesAnswered'
  BY <1>5 DEF IterAnswered, AxesAnswered
<1>8. /\ DOMAIN page' = PageFields /\ page'.loaded = page.loaded
      /\ page'.y = page.y /\ page'.iterationLow = page.iterationLow
      /\ page'.segmentArr = page.segmentArr /\ page.loaded
      /\ page'.maxIteration = page.maxIteration
      /\ page.iterationLow <= i /\ i <= SizeOf(page.y)
  BY DEF Ask, SameChart
<1>9. /\ page.iterationLow \in {0, 1} /\ i \in Int /\ page.resetFlag \in BOOLEAN
      /\ page'.resetFlag \in BOOLEAN
  BY DEF OrderInv, PageShape, Ask, Counting
<1> HIDE DEF m, i
<1>10. PageShape'
  BY <1>8, <1>9 DEF OrderInv, PageShape, Ask
<1>11. MessageShape' /\ BeforeLoad'
  BY <1>3, <1>4, <1>5, <1>8, <1>9 DEF MessageShape, BeforeLoad
<1>12. AxesAgree'
  BY <1>1, <1>2, <1>5, <1>8 DEF OrderInv, AxesAgree
<1>13. BlankAfterReset'
  <2> SUFFICES ASSUME page'.resetFlag \/ ResetSent'
               PROVE  page'.segmentArr = << >> /\ Current' = {} /\ ~InPlay(page')
    BY DEF BlankAfterReset
  <2>1. page.resetFlag = TRUE /\ page'.resetFlag = TRUE
    BY <1>4, <1>9 DEF Ask
  <2>2. page.segmentArr = << >> /\ Current = {}
    BY <2>1 DEF OrderInv, BlankAfterReset
  <2>3. Current' = Current
    BY DEF Current, Ask
  <2> QED
    BY <1>8, <2>1, <2>2, <2>3 DEF Ask
<1>14. ResetOvertakes'
  BY <1>1, <1>2, <1>4, <1>7, <1>9 DEF OrderInv, ResetOvertakes, Ask
<1>15. AskedIsCurrent'
  BY <1>3, <1>4, <1>8, <1>9 DEF AskedIsCurrent, i
<1>16. Counted'
  BY <1>8, <1>9 DEF OrderInv, Counted, Begun, i
<1>17. RunsPast'
  BY DEF OrderInv, RunsPast, Ask
<1> QED
  BY <1>1, <1>6, <1>10, <1>11, <1>12, <1>13, <1>14, <1>15, <1>16, <1>17 DEF OrderInv

-----------------------------------------------------------------------------
(* The other two clicks.                                                   *)

LEMMA VisualizeInv ==
  ASSUME OrderInv, NEW c \in Charts, Visualize(c)
  PROVE  OrderInv'
<1> DEFINE m == AxesRequest(c)
<1>1. /\ HeatInv' /\ chart' = chart /\ firstIteration' = firstIteration
      /\ (Loaded' <=> Loaded)
  BY EngineKept DEF OrderInv, Visualize
<1>2. Idle
  BY DEF Visualize
<1>3. /\ Calls = {} /\ Answers = {} /\ ~ResetSent
      /\ ~IterUnderWay /\ ~AxesAnswered /\ ~IterAnswered
  BY <1>2, IdleIsQuiet DEF IterUnderWay, IterAsked, IterAnswered, AxesAnswered
<1>4. m.op = "axes" /\ m.chart = c
  BY DEF AxesRequest
<1>5. RequestsOK' /\ Calls' = {m} /\ ~ResetSent'
  BY <1>3, <1>4, CallSent DEF OrderInv, OneCall, Visualize
<1>6. RepliesOK' /\ Answers' = {}
  BY <1>3 DEF OrderInv, OneCall, RepliesOK, Answers, Visualize
<1>7. OneCall'
  BY <1>5, <1>6 DEF OneCall
<1>8. ~IterAsked' /\ ~IterUnderWay' /\ ~IterAnswered' /\ ~AxesAnswered'
  BY <1>4, <1>5, <1>6 DEF IterAsked, IterUnderWay, IterAnswered, AxesAnswered
<1>9. page' = page /\ segmentChain' = segmentChain /\ run' = run /\ vizType' = vizType
  BY DEF Visualize, view
<1> HIDE DEF m
<1>10. PageShape' /\ MessageShape'
  BY <1>4, <1>5, <1>6, <1>9 DEF OrderInv, PageShape, MessageShape
<1>11. BeforeLoad'
  BY <1>5, <1>8, <1>9 DEF OrderInv, BeforeLoad
<1>12. AxesAgree'
  BY <1>1, <1>3, <1>6, <1>9 DEF OrderInv, AxesAgree
<1>13. Current' = Current
  BY <1>9 DEF Current
<1>14. BlankAfterReset' /\ ResetOvertakes'
  BY <1>1, <1>3, <1>5, <1>8, <1>9, <1>13 DEF OrderInv, BlankAfterReset, ResetOvertakes
<1>15. AskedIsCurrent'
  BY <1>4, <1>5, <1>8 DEF AskedIsCurrent
<1>16. Counted' /\ RunsPast'
  BY <1>9 DEF OrderInv, Counted, RunsPast
<1> QED
  BY <1>1, <1>7, <1>10, <1>11, <1>12, <1>14, <1>15, <1>16 DEF OrderInv

\* Entries of the runs before are not those of a new run.
LEMMA NewRun ==
  ASSUME RunsPast, UNCHANGED segmentChain, run' = run + 1
  PROVE  RunsPast' /\ Current' = {}
<1>1. run \in Nat /\ run' \in Nat
  BY DEF RunsPast
<1>2. \A i \in DOMAIN segmentChain : segmentChain[i].run # run'
  BY <1>1 DEF RunsPast
<1>3. Current' = {}
  BY <1>2 DEF Current
<1> QED
  BY <1>1, <1>3 DEF RunsPast

\* reset() on the page: whatever is under way meets a blank page, or a reset
\* that is still to come.
LEMMA ClickRepeatInv ==
  ASSUME OrderInv, ClickRepeat
  PROVE  OrderInv'
<1>1. /\ HeatInv' /\ chart' = chart /\ firstIteration' = firstIteration
      /\ (Loaded' <=> Loaded)
  BY EngineKept DEF OrderInv, ClickRepeat
<1>2. RequestsOK' /\ Calls' = Calls /\ ResetSent'
  BY ResetIsSent DEF OrderInv, OneCall, ClickRepeat
<1>3. RepliesOK' /\ Answers' = Answers
  BY DEF OrderInv, OneCall, RepliesOK, Answers, ClickRepeat
<1>4. OneCall'
  BY <1>2, <1>3 DEF OrderInv, OneCall
<1>5. AxesAnswered' <=> AxesAnswered
  BY <1>3 DEF AxesAnswered
<1>6. /\ DOMAIN page = PageFields /\ page.loaded = TRUE /\ AxesShape(page.y)
      /\ Counting(page) /\ page.forwardIter \in Int
  BY DEF OrderInv, PageShape, ClickRepeat, Counting
<1>7. /\ DOMAIN page' = PageFields /\ page'.loaded = page.loaded
      /\ page'.y = page.y /\ page'.iterationLow = 0
      /\ page'.segmentArr = << >> /\ page'.iteration = -1
      /\ page'.maxIteration = SizeOf(page.y)
      /\ page'.playFlag = FALSE /\ page'.simplayFlag = FALSE
      /\ page'.icon = "play" /\ page'.resetFlag = TRUE
      /\ Counting(page')
  <2> DEFINE p == Cleared(page, 0)
  <2>1. /\ DOMAIN p = PageFields /\ p.loaded = page.loaded /\ p.y = page.y
        /\ p.iterationLow = 0 /\ p.segmentArr = << >> /\ p.iteration = 0 - 1
        /\ p.maxIteration = SizeOf(page.y)
        /\ p.playFlag = FALSE /\ p.simplayFlag = FALSE /\ p.icon = "play"
        /\ Counting(p)
    <3>1. 0 \in {0, 1}
      OBVIOUS
    <3> QED
      BY <1>6, <3>1, ClearedPage, Zenon
  <2>2. page' = [p EXCEPT !.resetFlag = TRUE]
    BY DEF ClickRepeat
  <2> HIDE DEF p
  <2>3. /\ DOMAIN page' = PageFields /\ page'.loaded = p.loaded
        /\ page'.y = p.y /\ page'.iterationLow = p.iterationLow
        /\ page'.segmentArr = p.segmentArr /\ page'.iteration = p.iteration
        /\ page'.maxIteration = p.maxIteration
        /\ page'.playFlag = p.playFlag /\ page'.simplayFlag = p.simplayFlag
        /\ page'.icon = p.icon /\ page'.resetFlag = TRUE
    BY <2>1, <2>2 DEF PageFields
  <2>4. Counting(page')
    BY <2>1, <2>2 DEF PageFields, Counting
  <2> QED
    BY <2>1, <2>3, <2>4
<1>8. PageShape'
  BY <1>6, <1>7 DEF OrderInv, PageShape, ClickRepeat
<1>9. MessageShape' /\ BeforeLoad'
  BY <1>2, <1>3, <1>6, <1>7 DEF OrderInv, MessageShape, BeforeLoad
<1>10. AxesAgree'
  BY <1>1, <1>3, <1>5, <1>6, <1>7 DEF OrderInv, AxesAgree
<1>11. RunsPast' /\ Current' = {}
  BY NewRun DEF OrderInv, ClickRepeat
<1>12. BlankAfterReset' /\ ResetOvertakes'
  BY <1>2, <1>7, <1>11 DEF BlankAfterReset, ResetOvertakes, InPlay
<1>13. AskedIsCurrent'
  BY <1>2, <1>7 DEF OrderInv, AskedIsCurrent
<1>14. Counted'
  <2>1. SizeOf(page.y) \in Int
    BY <1>6, SizePositive
  <2> QED
    BY <1>7, <2>1 DEF Counted, InPlay
<1> QED
  BY <1>1, <1>4, <1>8, <1>9, <1>10, <1>11, <1>12, <1>13, <1>14 DEF OrderInv

-----------------------------------------------------------------------------
(* The server handles a request.                                           *)

\* The axes tell the size of the grid.
LEMMA AxesOfChart ==
  ASSUME NEW c \in Charts
  PROVE  /\ AxesShape(Axes(c))
         /\ Wide(Axes(c)) = ColumnsOf[c] /\ High(Axes(c)) = RowsOf[c]
         /\ SizeOf(Axes(c)) = ColumnsOf[c] * RowsOf[c]
         /\ Axes(c).xMin = XMinOf[c] /\ Axes(c).yMin = YMinOf[c]
<1>1. /\ XMinOf[c] \in Int /\ YMinOf[c] \in Int
      /\ ColumnsOf[c] \in Int /\ RowsOf[c] \in Int
      /\ ColumnsOf[c] >= 1 /\ RowsOf[c] >= 1
  <2>1. MaxSide \in Nat
    BY SizeAssumption
  <2>2. ColumnsOf[c] \in 1 .. MaxSide /\ RowsOf[c] \in 1 .. MaxSide
    BY ChartAssumption
  <2>3. XMinOf[c] \in Nat /\ YMinOf[c] \in Nat
    BY PlayerAssumption
  <2> QED
    BY <2>1, <2>2, <2>3
<1>2. /\ Axes(c).xMin = XMinOf[c] /\ Axes(c).xMax = XMinOf[c] + ColumnsOf[c] - 1
      /\ Axes(c).yMin = YMinOf[c] /\ Axes(c).yMax = YMinOf[c] + RowsOf[c] - 1
  BY DEF Axes
<1>3. Wide(Axes(c)) = ColumnsOf[c] /\ High(Axes(c)) = RowsOf[c]
  BY <1>1, <1>2 DEF Wide, High
<1>4. AxesShape(Axes(c))
  BY <1>1, <1>2 DEF AxesShape
<1> QED
  BY <1>2, <1>3, <1>4 DEF SizeOf

LEMMA ServeAxesInv ==
  ASSUME OrderInv, NEW m \in DOMAIN requests, ServeAxes(m),
         requests' = requests (-) SetToBag({m}),
         UNCHANGED << page, view, run, vizType >>
  PROVE  OrderInv'
<1> DEFINE a == [op |-> "axes", y |-> Axes(m.chart)]
<1>1. m.op = "axes" /\ LoadAxesData(m.chart) /\ replies' = replies (+) SetToBag({a})
  BY DEF ServeAxes
<1>2. a.op = "axes" /\ a.y = Axes(m.chart)
  OBVIOUS
<1> HIDE DEF a
<1>3. /\ RequestsOK' /\ Calls = {m} /\ Calls' = {}
      /\ ResetSent' <=> ResetSent
  BY <1>1, CallTaken DEF OrderInv, OneCall
<1>4. Answers = {}
  BY <1>3 DEF OrderInv, OneCall
<1>5. RepliesOK' /\ Answers' = {a}
  BY <1>1, <1>4, AnswerSent DEF OrderInv, OneCall
<1>6. OneCall'
  BY <1>3, <1>5 DEF OneCall
<1>7. /\ ~IterAsked' /\ ~IterAnswered' /\ ~IterUnderWay' /\ AxesAnswered'
      /\ ~IterUnderWay
  BY <1>1, <1>2, <1>3, <1>4, <1>5
     DEF IterAsked, IterAnswered, IterUnderWay, AxesAnswered
<1>8. m.chart \in Charts
  BY <1>1, <1>3 DEF OrderInv, MessageShape
<1>9. HeatInv' /\ Loaded' /\ chart' = m.chart /\ firstIteration'
  BY <1>1, <1>8, LoadAxesDataInv, NoChartAssumption
     DEF OrderInv, LoadAxesData, Loaded
<1>10. page' = page /\ segmentChain' = segmentChain /\ run' = run /\ vizType' = vizType
       /\ Current' = Current
  BY DEF view, Current
<1>11. PageShape' /\ MessageShape' /\ BeforeLoad'
  BY <1>2, <1>3, <1>5, <1>7, <1>10 DEF OrderInv, PageShape, MessageShape, BeforeLoad
<1>12. AxesAgree'
  BY <1>2, <1>5, <1>7, <1>9 DEF AxesAgree
<1>13. BlankAfterReset' /\ ResetOvertakes'
  BY <1>3, <1>7, <1>9, <1>10 DEF OrderInv, BlankAfterReset, ResetOvertakes
<1>14. AskedIsCurrent'
  BY <1>3, <1>7 DEF AskedIsCurrent
<1>15. Counted' /\ RunsPast'
  BY <1>10 DEF OrderInv, Counted, RunsPast
<1> QED
  BY <1>6, <1>9, <1>11, <1>12, <1>13, <1>14, <1>15 DEF OrderInv

LEMMA ServeResetInv ==
  ASSUME OrderInv, NEW m \in DOMAIN requests, ServeReset(m),
         requests' = requests (-) SetToBag({m}),
         UNCHANGED << page, view, run, vizType >>
  PROVE  OrderInv'
<1>1. m.op = "reset" /\ Reset /\ replies' = replies
  BY DEF ServeReset
<1>2. RequestsOK' /\ Calls' = Calls /\ ResetSent
  BY <1>1, ResetTaken DEF OrderInv, OneCall
<1>3. RepliesOK' /\ Answers' = Answers
  BY <1>1 DEF OrderInv, OneCall, RepliesOK, Answers
<1>4. OneCall'
  BY <1>2, <1>3 DEF OrderInv, OneCall
<1>5. /\ IterAsked' <=> IterAsked
      /\ IterAnswered' <=> IterAnswered
      /\ IterUnderWay' <=> IterUnderWay
      /\ AxesAnswered' <=> AxesAnswered
  BY <1>2, <1>3 DEF IterAsked, IterAnswered, IterUnderWay, AxesAnswered
<1>6. /\ HeatInv' /\ chart' = chart /\ firstIteration'
      /\ Loaded' <=> Loaded
  BY <1>1, ResetInv DEF OrderInv, Reset, Loaded
<1>7. page' = page /\ segmentChain' = segmentChain /\ run' = run /\ vizType' = vizType
      /\ Current' = Current
  BY DEF view, Current
<1>8. page.segmentArr = << >> /\ Current = {} /\ ~InPlay(page)
  BY <1>2 DEF OrderInv, BlankAfterReset
<1>9. PageShape' /\ MessageShape' /\ BeforeLoad'
  BY <1>2, <1>3, <1>5, <1>7 DEF OrderInv, PageShape, MessageShape, BeforeLoad
<1>10. AxesAgree'
  BY <1>3, <1>5, <1>6, <1>7 DEF OrderInv, AxesAgree
<1>11. BlankAfterReset'
  BY <1>7, <1>8 DEF BlankAfterReset
<1>12. ResetOvertakes'
  BY <1>2, <1>5, <1>6, <1>7 DEF OrderInv, ResetOvertakes, IterUnderWay
<1>13. AskedIsCurrent'
  BY <1>2, <1>5, <1>7 DEF OrderInv, AskedIsCurrent
<1>14. Counted' /\ RunsPast'
  BY <1>7 DEF OrderInv, Counted, RunsPast
<1> QED
  BY <1>4, <1>6, <1>9, <1>10, <1>11, <1>12, <1>13, <1>14 DEF OrderInv

\* What the page asks for is an iteration of the engine's grid.
LEMMA AskedIsInGrid ==
  ASSUME OrderInv, NEW m \in Calls, m.op = "iter"
  PROVE  /\ page.loaded /\ Loaded /\ Answers = {} /\ page.y = Axes(chart)
         /\ chart \in Charts
         /\ m.iter \in Int /\ 0 <= m.iter /\ m.iter <= SizeOf(page.y)
<1>1. Answers = {} /\ IterUnderWay
  BY DEF OrderInv, OneCall, IterUnderWay, IterAsked
<1>2. page.loaded /\ ~AxesAnswered
  BY <1>1 DEF OrderInv, BeforeLoad, AxesAnswered
<1>3. Loaded /\ page.y = Axes(chart)
  BY <1>2 DEF OrderInv, AxesAgree
<1>4. chart \in Charts
  BY <1>3 DEF OrderInv, HeatInv, HeatTypeOK, Loaded
<1>5. m.iter \in Int /\ 0 <= m.iter /\ m.iter <= SizeOf(page.y)
  BY DEF OrderInv, MessageShape, AskedIsCurrent
<1> QED
  BY <1>1, <1>2, <1>3, <1>4, <1>5

LEMMA ServeIterInv ==
  ASSUME OrderInv, NEW m \in DOMAIN requests, ServeIter(m),
         requests' = requests (-) SetToBag({m}),
         UNCHANGED << page, view, run, vizType >>
  PROVE  OrderInv'
<1> DEFINE a == [op |-> "iter", y |-> Axes(chart),
                 sl |-> IF vizType = 2 THEN PackCells ELSE << >>,
                 validCells |-> IF m.iter = 1 THEN ValidCells ELSE Unknown]
<1>1. /\ m.op = "iter" /\ replies' = replies (+) SetToBag({a})
      /\ GenHeat(m.iter) \/ GenHeatBase
  BY DEF ServeIter
<1>2. a.op = "iter" /\ a.y = Axes(chart)
  OBVIOUS
<1> HIDE DEF a
<1>3. /\ RequestsOK' /\ Calls = {m} /\ Calls' = {}
      /\ ResetSent' <=> ResetSent
  BY <1>1, CallTaken DEF OrderInv, OneCall
<1>4. /\ page.loaded /\ Loaded /\ Answers = {} /\ page.y = Axes(chart)
      /\ m.iter \in Int /\ 0 <= m.iter
  BY <1>1, <1>3, AskedIsInGrid
<1>5. RepliesOK' /\ Answers' = {a}
  BY <1>1, <1>4, AnswerSent DEF OrderInv, OneCall
<1>6. OneCall'
  BY <1>3, <1>5 DEF OneCall
<1>7. /\ IterAsked /\ IterUnderWay /\ ~AxesAnswered /\ ~IterAsked'
      /\ IterAnswered' /\ IterUnderWay' /\ ~AxesAnswered'
  BY <1>1, <1>2, <1>3, <1>4, <1>5
     DEF IterAsked, IterAnswered, IterUnderWay, AxesAnswered
<1>8. /\ HeatInv' /\ chart' = chart /\ firstIteration' = FALSE
      /\ Loaded' <=> Loaded
  <2>1. CASE GenHeatBase
    <3>1. HeatInv'
      BY <2>1, HeatNextInv DEF OrderInv, HeatNext
    <3> QED
      BY <2>1, <3>1 DEF GenHeatBase, Loaded
  <2>2. CASE GenHeat(m.iter)
    <3>1. m.iter < MaxIters /\ MaxIters \in Nat
      BY <2>2, SizeAssumption DEF GenHeat, GenHeatFirst, GenHeatNext
    <3>2. m.iter \in 0 .. MaxIters
      BY <1>4, <3>1
    <3>3. HeatInv'
      BY <2>2, <3>2, HeatNextInv DEF OrderInv, HeatNext
    <3>4. firstIteration \in BOOLEAN
      BY DEF OrderInv, HeatInv, HeatTypeOK
    <3> QED
      BY <2>2, <3>3, <3>4 DEF GenHeat, GenHeatFirst, GenHeatNext, Loaded
  <2> QED
    BY <1>1, <2>1, <2>2
<1>9. page' = page /\ segmentChain' = segmentChain /\ run' = run /\ vizType' = vizType
      /\ Current' = Current
  BY DEF view, Current
<1>10. PageShape' /\ MessageShape' /\ BeforeLoad'
  BY <1>2, <1>3, <1>4, <1>5, <1>9 DEF OrderInv, PageShape, MessageShape, BeforeLoad
<1>11. AxesAgree'
  BY <1>2, <1>4, <1>5, <1>8, <1>9 DEF AxesAgree
<1>12. BlankAfterReset' /\ ResetOvertakes'
  BY <1>3, <1>7, <1>8, <1>9 DEF OrderInv, BlankAfterReset, ResetOvertakes
<1>13. AskedIsCurrent'
  BY <1>3, <1>7, <1>9 DEF OrderInv, AskedIsCurrent
<1>14. Counted' /\ RunsPast'
  BY <1>9 DEF OrderInv, Counted, RunsPast
<1> QED
  BY <1>6, <1>8, <1>10, <1>11, <1>12, <1>13, <1>14 DEF OrderInv

-----------------------------------------------------------------------------
(* The page handles an answer.                                             *)

LEMMA DeliverAxesInv ==
  ASSUME OrderInv, DeliverAxes
  PROVE  OrderInv'
<1>1. PICK m \in DOMAIN replies :
        /\ m.op = "axes"
        /\ replies' = replies (-) SetToBag({m})
        /\ LET p == Cleared([page EXCEPT !.y = m.y, !.loaded = TRUE,
                                         !.resetFlag = FALSE], 1)
           IN page' = [p EXCEPT !.seekMin = 1, !.seekMax = p.maxIteration]
        /\ Send(ResetRequest)
        /\ run' = run + 1
        /\ UNCHANGED << heatVars, segmentChain, vizType >>
  BY DEF DeliverAxes, BagToSet
<1>2. RepliesOK' /\ Answers = {m} /\ Answers' = {}
  BY <1>1, AnswerGone DEF OrderInv, OneCall
<1>3. RequestsOK' /\ Calls = {} /\ Calls' = {} /\ ResetSent'
  BY <1>1, <1>2, ResetIsSent DEF OrderInv, OneCall
<1>4. OneCall'
  BY <1>2, <1>3 DEF OneCall
<1>5. ~IterUnderWay' /\ ~AxesAnswered' /\ ~IterAnswered'
  BY <1>2, <1>3 DEF IterUnderWay, IterAsked, IterAnswered, AxesAnswered
<1>6. /\ HeatInv' /\ chart' = chart
      /\ firstIteration' = firstIteration /\ (Loaded' <=> Loaded)
  BY <1>1, EngineKept DEF OrderInv
<1>7. Loaded /\ firstIteration /\ m.y = Axes(chart)
  BY <1>1, <1>2 DEF OrderInv, AxesAgree
<1>8. AxesShape(m.y)
  BY <1>7, AxesOfChart DEF OrderInv, HeatInv, HeatTypeOK, Loaded
<1>9. /\ DOMAIN page' = PageFields /\ page'.loaded = TRUE
      /\ page'.y = m.y /\ page'.iterationLow = 1
      /\ page'.segmentArr = << >> /\ page'.iteration = 1 - 1
      /\ page'.maxIteration = SizeOf(m.y)
      /\ page'.playFlag = FALSE /\ page'.simplayFlag = FALSE
      /\ page'.icon = "play" /\ page'.resetFlag = FALSE
      /\ Counting(page')
  <2> DEFINE q == [page EXCEPT !.y = m.y, !.loaded = TRUE, !.resetFlag = FALSE]
             p == Cleared(q, 1)
  <2>1. DOMAIN page = PageFields /\ page.forwardIter \in Int
    BY DEF OrderInv, PageShape, Counting
  <2>2. /\ DOMAIN q = PageFields /\ q.y = m.y /\ q.forwardIter \in Int
        /\ q.loaded = TRUE /\ q.resetFlag = FALSE
    BY <2>1 DEF PageFields
  <2>3. page' = [p EXCEPT !.seekMin = 1, !.seekMax = p.maxIteration]
    BY <1>1
  <2> HIDE DEF q
  <2>4. /\ DOMAIN p = PageFields /\ p.loaded = q.loaded /\ p.y = q.y
        /\ p.iterationLow = 1 /\ p.resetFlag = q.resetFlag
        /\ p.segmentArr = << >> /\ p.iteration = 1 - 1
        /\ p.maxIteration = SizeOf(q.y)
        /\ p.playFlag = FALSE /\ p.simplayFlag = FALSE /\ p.icon = "play"
        /\ Counting(p)
    <3>1. 1 \in {0, 1} /\ AxesShape(q.y)
      BY <1>8, <2>2
    <3> QED
      BY <2>2, <3>1, ClearedPage, Zenon
  <2> HIDE DEF p
  <2>5. /\ DOMAIN page' = PageFields /\ page'.loaded = p.loaded
        /\ page'.y = p.y /\ page'.iterationLow = p.iterationLow
        /\ page'.segmentArr = p.segmentArr /\ page'.iteration = p.iteration
        /\ page'.maxIteration = p.maxIteration
        /\ page'.playFlag = p.playFlag /\ page'.simplayFlag = p.simplayFlag
        /\ page'.icon = p.icon /\ page'.resetFlag = p.resetFlag
    BY <2>3, <2>4 DEF PageFields
  <2>6. Counting(page')
    BY <2>3, <2>4 DEF PageFields, Counting
  <2> QED
    BY <2>2, <2>4, <2>5, <2>6
<1>10. RunsPast' /\ Current' = {}
  BY <1>1, NewRun DEF OrderInv
<1>11. PageShape'
  BY <1>1, <1>8, <1>9 DEF OrderInv, PageShape
<1>12. MessageShape' /\ BeforeLoad'
  BY <1>2, <1>3, <1>9 DEF MessageShape, BeforeLoad
<1>13. AxesAgree'
  BY <1>2, <1>6, <1>7, <1>9 DEF AxesAgree
<1>14. BlankAfterReset'
  BY <1>9, <1>10 DEF BlankAfterReset, InPlay
<1>15. ResetOvertakes' /\ AskedIsCurrent'
  BY <1>3, <1>5, <1>9 DEF ResetOvertakes, AskedIsCurrent, IterUnderWay
<1>16. Counted'
  <2>1. SizeOf(m.y) \in Int
    BY <1>8, SizePositive
  <2> QED
    BY <1>9, <2>1 DEF Counted, InPlay
<1> QED
  BY <1>4, <1>6, <1>10, <1>11, <1>12, <1>13, <1>14, <1>15, <1>16 DEF OrderInv

\* The answer of a run that a reset has ended resets once more.
Discard(m) ==
  /\ page.resetFlag
  /\ page' = Cleared(page, 0)
  /\ Send(ResetRequest)
  /\ UNCHANGED segmentChain

\* The answer of the iteration the page waits for: what it becomes part of.
ArrAfter(m)   == Spliced(page.segmentArr, m.sl)
ValidAfter(m) == IF page.iteration = 1 THEN m.validCells ELSE page.validCells
ChainAfter(m) ==
  [j \in DOMAIN segmentChain \cup {page.iteration} |->
     IF j = page.iteration THEN Entry(run, ArrAfter(m)) ELSE segmentChain[j]]

\* The page with the answer taken over.
With(q, m) ==
  /\ DOMAIN q = PageFields /\ Counting(q)
  /\ q.loaded = page.loaded /\ q.y = page.y /\ q.iterationLow = page.iterationLow
  /\ q.iteration = page.iteration /\ q.maxIteration = page.maxIteration
  /\ q.resetFlag = page.resetFlag /\ q.icon = page.icon
  /\ q.playFlag = page.playFlag /\ q.simplayFlag = page.simplayFlag
  /\ q.validCells = ValidAfter(m)
Accept(m) ==
  /\ ~page.resetFlag /\ m.sl # << >>
  /\ segmentChain' = ChainAfter(m)
  /\ \E q : /\ With(q, m) /\ q.segmentArr = ArrAfter(m)
            /\ \/ Play(q)
               \/ /\ page' = q /\ UNCHANGED requests
                  /\ ValidAfter(m) = Unknown \/ page.iteration > page.maxIteration

\* An answer without quadrants.
Stop(m) ==
  /\ ~page.resetFlag /\ m.sl = << >>
  /\ UNCHANGED << requests, segmentChain >>
  /\ \E q : /\ With(q, m) /\ q.segmentArr = page.segmentArr
            /\ page' = Ended(q)

LEMMA DeliverIterCases ==
  ASSUME OrderInv, DeliverIter
  PROVE  \E m \in DOMAIN replies :
           /\ m.op = "iter"
           /\ replies' = replies (-) SetToBag({m})
           /\ UNCHANGED << heatVars, run, vizType >>
           /\ Discard(m) \/ Accept(m) \/ Stop(m)
<1>1. PICK m \in DOMAIN replies :
        /\ m.op = "iter"
        /\ replies' = replies (-) SetToBag({m})
        /\ UNCHANGED << heatVars, run, vizType >>
        /\ \/ Discard(m)
           \/ ~page.resetFlag /\ m.sl # << >> /\ Charted(m)
           \/ /\ ~page.resetFlag /\ m.sl = << >>
              /\ page' = Ended(Noted(page, m))
              /\ UNCHANGED << requests, view >>
  BY Zenon DEF DeliverIter, BagToSet, Discard
<1> DEFINE n == Noted(page, m)
<1>2. With(n, m) /\ n.segmentArr = page.segmentArr
  <2>1. m.y = page.y
    BY <1>1 DEF OrderInv, AxesAgree, Answers
  <2>2. DOMAIN page = PageFields /\ Counting(page)
    BY DEF OrderInv, PageShape
  <2>3. CASE page.iteration = 1
    <3>1. n = [page EXCEPT !.validCells = m.validCells, !.y = m.y]
      BY <2>3 DEF Noted
    <3> HIDE DEF n
    <3> QED
      BY <2>1, <2>2, <2>3, <3>1 DEF With, ValidAfter, PageFields, Counting
  <2>4. CASE page.iteration # 1
    BY <2>2, <2>4 DEF With, ValidAfter, Noted
  <2> QED
    BY <2>3, <2>4
<1> HIDE DEF n
<1>3. CASE ~page.resetFlag /\ m.sl = << >> /\ page' = Ended(n)
           /\ UNCHANGED << requests, view >>
  <2>1. Stop(m)
    BY <1>2, <1>3 DEF Stop, view
  <2> QED
    BY <1>1, <2>1
<1>4. CASE ~page.resetFlag /\ m.sl # << >> /\ Charted(m)
  <2> DEFINE p == [n EXCEPT !.segmentArr = Spliced(@, m.sl)]
             r == [p EXCEPT !.playNoviz = @ \/ p.forwardFlag]
             draw == ~p.playNoviz /\ ~p.simplayFlag
  <2>1. /\ segmentChain' = [j \in DOMAIN segmentChain \cup {p.iteration} |->
                              IF j = p.iteration THEN Entry(run, p.segmentArr)
                              ELSE segmentChain[j]]
        /\ \/ /\ LegendFails(p, p.iteration) \/ p.iteration > p.maxIteration
              /\ page' = p /\ UNCHANGED requests
           \/ Play(r)
    BY <1>4 DEF Charted, n
  <2>2. With(p, m) /\ p.segmentArr = ArrAfter(m)
    BY <1>2 DEF With, ArrAfter, PageFields, Counting
  <2> HIDE DEF p
  <2>3. With(r, m) /\ r.segmentArr = ArrAfter(m)
    BY <2>2 DEF With, PageFields, Counting
  <2> HIDE DEF r
  <2>4. segmentChain' = ChainAfter(m)
    BY <2>1, <2>2 DEF With, ChainAfter
  <2>5. LegendFails(p, p.iteration) => ValidAfter(m) = Unknown
    BY <2>1, <2>2 DEF LegendFails, With
  <2>6. Accept(m)
    <3>1. CASE Play(r)
      BY <1>4, <2>3, <2>4, <3>1 DEF Accept
    <3>2. CASE page' = p /\ UNCHANGED requests
               /\ (LegendFails(p, p.iteration) \/ p.iteration > p.maxIteration)
      <4>1. ValidAfter(m) = Unknown \/ page.iteration > page.maxIteration
        BY <2>2, <2>5, <3>2 DEF With
      <4> QED
        BY <1>4, <2>2, <2>4, <3>2, <4>1 DEF Accept
    <3> QED
      BY <2>1, <3>1, <3>2
  <2> QED
    BY <1>1, <2>6
<1> QED
  BY <1>1, <1>3, <1>4 DEF n

LEMMA DiscardInv ==
  ASSUME OrderInv, NEW m \in DOMAIN replies, m.op = "iter",
         replies' = replies (-) SetToBag({m}),
         UNCHANGED << heatVars, run, vizType >>, Discard(m)
  PROVE  OrderInv'
<1>1. RepliesOK' /\ Answers = {m} /\ Answers' = {}
  BY AnswerGone DEF OrderInv, OneCall
<1>2. RequestsOK' /\ Calls = {} /\ Calls' = {} /\ ResetSent'
  BY <1>1, ResetIsSent DEF OrderInv, OneCall, Discard
<1>3. OneCall'
  BY <1>1, <1>2 DEF OneCall
<1>4. /\ ~IterUnderWay' /\ ~AxesAnswered' /\ ~IterAnswered'
      /\ IterUnderWay /\ ~AxesAnswered
  BY <1>1, <1>2 DEF IterUnderWay, IterAsked, IterAnswered, AxesAnswered
<1>5. /\ HeatInv' /\ chart' = chart
      /\ firstIteration' = firstIteration /\ (Loaded' <=> Loaded)
  BY EngineKept DEF OrderInv
<1>6. page.loaded = TRUE /\ page.resetFlag = TRUE /\ AxesShape(page.y)
  BY <1>4 DEF OrderInv, BeforeLoad, PageShape, Discard
<1>7. /\ DOMAIN page' = PageFields /\ page'.loaded = page.loaded
      /\ page'.y = page.y /\ page'.iterationLow = 0
      /\ page'.segmentArr = << >> /\ page'.iteration = 0 - 1
      /\ page'.maxIteration = SizeOf(page.y)
      /\ page'.playFlag = FALSE /\ page'.simplayFlag = FALSE
      /\ page'.icon = "play" /\ page'.resetFlag = page.resetFlag
      /\ Counting(page')
  <2>1. DOMAIN page = PageFields /\ page.forwardIter \in Int /\ 0 \in {0, 1}
    BY DEF OrderInv, PageShape, Counting
  <2>2. page' = Cleared(page, 0)
    BY DEF Discard
  <2> QED
    BY <1>6, <2>1, <2>2, ClearedPage, Zenon
<1>8. Current' = {}
  BY <1>6 DEF OrderInv, BlankAfterReset, Current, Discard
<1>9. RunsPast'
  BY DEF OrderInv, RunsPast, Discard
<1>10. PageShape'
  BY <1>6, <1>7 DEF OrderInv, PageShape
<1>11. MessageShape' /\ BeforeLoad'
  BY <1>1, <1>2, <1>6, <1>7 DEF MessageShape, BeforeLoad
<1>12. AxesAgree'
  BY <1>1, <1>4, <1>5, <1>6, <1>7 DEF OrderInv, AxesAgree
<1>13. BlankAfterReset'
  BY <1>7, <1>8 DEF BlankAfterReset, InPlay
<1>14. ResetOvertakes' /\ AskedIsCurrent'
  BY <1>2, <1>4, <1>6, <1>7 DEF ResetOvertakes, AskedIsCurrent
<1>15. Counted'
  <2>1. SizeOf(page.y) \in Int
    BY <1>6, SizePositive
  <2> QED
    BY <1>7, <2>1 DEF Counted, InPlay
<1> QED
  BY <1>3, <1>5, <1>9, <1>10, <1>11, <1>12, <1>13, <1>14, <1>15 DEF OrderInv

\* What an accepted answer makes of the page and the calls.
LEMMA AcceptPage ==
  ASSUME OrderInv, NEW m \in DOMAIN replies, m.op = "iter", Accept(m)
  PROVE  /\ DOMAIN page' = PageFields /\ Counting(page')
         /\ page'.loaded = page.loaded /\ page'.y = page.y
         /\ page'.iterationLow = page.iterationLow
         /\ page'.maxIteration = page.maxIteration
         /\ page'.resetFlag = page.resetFlag
         /\ page'.simplayFlag = page.simplayFlag
         /\ page'.segmentArr = ArrAfter(m) /\ page'.validCells = ValidAfter(m)
         /\ \/ /\ page'.iteration = page.iteration + 1
               /\ page.playFlag = TRUE /\ page'.playFlag = TRUE
               /\ page.iteration + 1 <= page.maxIteration
               /\ Send(IterRequest(page.iteration + 1))
            \/ /\ page'.iteration = page.iteration + 1
               /\ ~(page.playFlag /\ page.iteration + 1 <= page.maxIteration)
               /\ page'.playFlag \in BOOLEAN /\ UNCHANGED requests
            \/ /\ page'.iteration = page.iteration
               /\ ValidAfter(m) = Unknown \/ page.iteration > page.maxIteration
               /\ page'.playFlag = page.playFlag /\ UNCHANGED requests
<1>1. PICK q : /\ With(q, m) /\ q.segmentArr = ArrAfter(m)
               /\ \/ Play(q)
                  \/ /\ page' = q /\ UNCHANGED requests
                     /\ ValidAfter(m) = Unknown \/ page.iteration > page.maxIteration
  BY DEF Accept
<1>2. page.playFlag \in BOOLEAN
  BY DEF OrderInv, PageShape
<1>3. CASE page' = q /\ UNCHANGED requests
           /\ (ValidAfter(m) = Unknown \/ page.iteration > page.maxIteration)
  BY <1>1, <1>3 DEF With
<1>4. CASE Play(q)
  <2>1. DOMAIN q = PageFields /\ Counting(q)
    BY <1>1 DEF With
  <2>2. /\ SameChart(page', q) /\ Counting(page')
        /\ page'.maxIteration = q.maxIteration
        /\ page'.resetFlag = q.resetFlag
        /\ page'.iteration = q.iteration + 1
        /\ page'.simplayFlag = q.simplayFlag
        /\ \/ /\ q.playFlag /\ page'.playFlag = q.playFlag
              /\ q.iteration + 1 <= q.maxIteration
              /\ Send(IterRequest(q.iteration + 1))
           \/ /\ ~(q.playFlag /\ q.iteration + 1 <= q.maxIteration)
              /\ page'.playFlag = q.playFlag
              /\ UNCHANGED requests
           \/ /\ ~(q.playFlag /\ q.iteration + 1 <= q.maxIteration)
              /\ page'.playFlag = FALSE
              /\ UNCHANGED requests
    BY <1>4, <2>1, PlayPage
  <2>3. /\ DOMAIN page' = PageFields
        /\ page'.loaded = page.loaded /\ page'.y = page.y
        /\ page'.iterationLow = page.iterationLow
        /\ page'.segmentArr = ArrAfter(m) /\ page'.validCells = ValidAfter(m)
    BY <1>1, <2>2 DEF SameChart, With
  <2>4. /\ q.iteration = page.iteration /\ q.maxIteration = page.maxIteration
        /\ q.playFlag = page.playFlag /\ q.resetFlag = page.resetFlag
        /\ q.simplayFlag = page.simplayFlag
    BY <1>1 DEF With
  <2> QED
    BY <1>2, <2>2, <2>3, <2>4
<1> QED
  BY <1>1, <1>3, <1>4

\* What the page knows while the answer of an iteration is under way.
LEMMA AnswerComes ==
  ASSUME OrderInv, NEW m \in DOMAIN replies, m.op = "iter",
         replies' = replies (-) SetToBag({m}), ~page.resetFlag
  PROVE  /\ RepliesOK' /\ Answers = {m} /\ Answers' = {} /\ Calls = {}
         /\ IterUnderWay /\ ~AxesAnswered /\ ~ResetSent /\ page.resetFlag = FALSE
         /\ ~IterAnswered' /\ ~AxesAnswered'
         /\ page.loaded = TRUE /\ m.y = page.y
         /\ page.iterationLow \in {0, 1} /\ page.iteration \in Int
         /\ page.maxIteration \in Int /\ SizeOf(page.y) \in Int
         /\ page.maxIteration <= SizeOf(page.y)
         /\ page.iterationLow <= page.iteration
         /\ page.iteration <= SizeOf(page.y)
<1>1. RepliesOK' /\ Answers = {m} /\ Answers' = {}
  BY AnswerGone DEF OrderInv, OneCall
<1>2. Calls = {}
  BY <1>1 DEF OrderInv, OneCall
<1>3. /\ IterUnderWay /\ IterAnswered /\ ~AxesAnswered
      /\ ~IterAnswered' /\ ~AxesAnswered'
  BY <1>1 DEF IterUnderWay, IterAnswered, AxesAnswered
<1>4. page.loaded = TRUE /\ page.resetFlag = FALSE /\ ~ResetSent
  BY <1>3 DEF OrderInv, PageShape, BeforeLoad, ResetOvertakes
<1>5. /\ page.iterationLow \in {0, 1} /\ page.iteration \in Int
      /\ page.maxIteration \in Int /\ AxesShape(page.y)
      /\ page.maxIteration <= SizeOf(page.y)
  BY DEF OrderInv, PageShape, Counting, Counted
<1>6. page.iterationLow <= page.iteration /\ page.iteration <= SizeOf(page.y)
  BY <1>3 DEF OrderInv, AskedIsCurrent
<1>7. m.y = page.y
  BY <1>1 DEF OrderInv, AxesAgree
<1>8. SizeOf(page.y) \in Int
  BY <1>5, SizePositive
<1> QED
  BY <1>1, <1>2, <1>3, <1>4, <1>5, <1>6, <1>7, <1>8

LEMMA AcceptInv ==
  ASSUME OrderInv, NEW m \in DOMAIN replies, m.op = "iter",
         replies' = replies (-) SetToBag({m}),
         UNCHANGED << heatVars, run, vizType >>, Accept(m)
  PROVE  OrderInv'
<1> DEFINE i == page.iteration
           k == IterRequest(i + 1)
<1>1. /\ RepliesOK' /\ Answers = {m} /\ Answers' = {} /\ Calls = {}
      /\ IterUnderWay /\ ~AxesAnswered /\ ~ResetSent /\ page.resetFlag = FALSE
      /\ ~IterAnswered' /\ ~AxesAnswered'
      /\ page.loaded = TRUE
      /\ page.iterationLow \in {0, 1} /\ i \in Int
      /\ page.maxIteration \in Int /\ SizeOf(page.y) \in Int
      /\ page.maxIteration <= SizeOf(page.y)
      /\ page.iterationLow <= i
  BY AnswerComes DEF Accept
<1>2. /\ DOMAIN page' = PageFields /\ Counting(page')
      /\ page'.loaded = page.loaded /\ page'.y = page.y
      /\ page'.iterationLow = page.iterationLow
      /\ page'.maxIteration = page.maxIteration
      /\ page'.resetFlag = page.resetFlag
      /\ page'.simplayFlag = page.simplayFlag
      /\ page'.playFlag \in BOOLEAN
      /\ \/ /\ page'.iteration = i + 1 /\ i + 1 <= page.maxIteration
            /\ Send(IterRequest(i + 1))
         \/ page'.iteration \in {i, i + 1} /\ UNCHANGED requests
  BY AcceptPage DEF OrderInv, PageShape
<1>3. /\ HeatInv' /\ chart' = chart
      /\ firstIteration' = firstIteration /\ (Loaded' <=> Loaded)
  BY EngineKept DEF OrderInv
<1>4. k.op = "iter" /\ k.iter = i + 1
  BY DEF IterRequest
<1> HIDE DEF k
<1>5. /\ RequestsOK' /\ ~ResetSent'
      /\ \/ Calls' = {}
         \/ /\ Calls' = {k} /\ page'.iteration = i + 1
            /\ i + 1 <= page.maxIteration
  <2>1. CASE page'.iteration = i + 1 /\ i + 1 <= page.maxIteration /\ Send(k)
    BY <1>1, <1>4, <2>1, CallSent DEF OrderInv, OneCall
  <2>2. CASE UNCHANGED requests
    BY <1>1, <2>2 DEF OrderInv, OneCall, RequestsOK, Calls, ResetSent
  <2> QED
    BY <1>2, <2>1, <2>2 DEF k
<1>6. OneCall'
  BY <1>1, <1>5 DEF OneCall
<1>7. page'.iteration \in Int /\ page.iterationLow <= page'.iteration
  BY <1>1, <1>2
<1>8. PageShape'
  BY <1>2 DEF OrderInv, PageShape
<1>9. MessageShape' /\ BeforeLoad'
  BY <1>1, <1>2, <1>4, <1>5 DEF MessageShape, BeforeLoad
<1>10. AxesAgree'
  BY <1>1, <1>2, <1>3 DEF OrderInv, AxesAgree
<1>11. BlankAfterReset' /\ ResetOvertakes'
  BY <1>1, <1>2, <1>5 DEF BlankAfterReset, ResetOvertakes
<1>12. AskedIsCurrent'
  <2>1. IterUnderWay' => Calls' = {k} /\ page'.iteration = i + 1
                         /\ i + 1 <= page.maxIteration
    BY <1>1, <1>5 DEF IterUnderWay, IterAsked
  <2>2. ASSUME Calls' = {k} /\ page'.iteration = i + 1 /\ i + 1 <= page.maxIteration
        PROVE  /\ 0 <= k.iter /\ k.iter <= SizeOf(page.y)
               /\ k.iter = page'.iteration
               /\ page.iterationLow <= page'.iteration
               /\ page'.iteration <= SizeOf(page.y)
    BY <1>1, <1>4, <2>2
  <2> QED
    BY <1>2, <1>5, <2>1, <2>2 DEF AskedIsCurrent
<1>13. Counted'
  BY <1>1, <1>2, <1>7 DEF Counted, Begun
<1>14. RunsPast'
  <2>1. run \in Nat /\ run' = run
    BY DEF OrderInv, RunsPast
  <2>2. ASSUME NEW j \in DOMAIN segmentChain'
        PROVE  segmentChain'[j].run \in Nat /\ segmentChain'[j].run <= run
    <3>1. segmentChain' = ChainAfter(m)
      BY DEF Accept
    <3>2. CASE j = page.iteration
      BY <2>1, <3>1, <3>2 DEF ChainAfter, Entry
    <3>3. CASE j # page.iteration
      <4>1. j \in DOMAIN segmentChain /\ segmentChain'[j] = segmentChain[j]
        BY <3>1, <3>3 DEF ChainAfter
      <4> QED
        BY <4>1 DEF OrderInv, RunsPast
    <3> QED
      BY <3>2, <3>3
  <2> QED
    BY <2>1, <2>2 DEF RunsPast
<1> QED
  BY <1>3, <1>6, <1>8, <1>9, <1>10, <1>11, <1>12, <1>13, <1>14 DEF OrderInv

\* What the end of a run makes of the page.
LEMMA EndedPage ==
  ASSUME NEW q, DOMAIN q = PageFields, Counting(q)
  PROVE  /\ SameChart(Ended(q), q) /\ Counting(Ended(q))
         /\ Ended(q).iteration = q.iteration - 1
         /\ Ended(q).maxIteration = q.iteration - 1
         /\ Ended(q).resetFlag = q.resetFlag
         /\ Ended(q).playFlag = FALSE /\ Ended(q).simplayFlag = q.simplayFlag
<1> DEFINE max == q.iteration - 1
           dim == q.playFlag /\ ~q.simplayFlag
           r   == Ended(q)
<1>1. r = [q EXCEPT !.iteration = max, !.maxIteration = max,
               !.seekMin = q.iterationLow, !.seekMax = max, !.backFlag = TRUE,
               !.backwardIter = IF q.pauseFlag THEN @ ELSE max,
               !.playLit = @ /\ ~dim, !.forwardLit = @ /\ ~dim,
               !.backLit = @ \/ dim, !.playFlag = FALSE]
  BY DEF Ended
<1>2. max \in Int
  BY DEF Counting
<1> HIDE DEF max, dim, r
<1>3. /\ DOMAIN r = PageFields /\ r.loaded = q.loaded /\ r.y = q.y
      /\ r.iterationLow = q.iterationLow
      /\ r.validCells = q.validCells /\ r.segmentArr = q.segmentArr
  BY <1>1 DEF PageFields
<1>4. /\ r.iteration = max /\ r.maxIteration = max
      /\ r.resetFlag = q.resetFlag
      /\ r.playFlag = FALSE /\ r.simplayFlag = q.simplayFlag
  BY <1>1 DEF PageFields
<1>5. /\ r.playIter = q.playIter /\ r.forwardIter = q.forwardIter
      /\ r.seekbarMax = q.seekbarMax
      /\ r.backwardIter = IF q.pauseFlag THEN q.backwardIter ELSE max
  BY <1>1 DEF PageFields
<1>6. Counting(r)
  <2>1. r.backwardIter \in Int
    BY <1>2, <1>5 DEF Counting
  <2> QED
    BY <1>2, <1>4, <1>5, <2>1 DEF Counting
<1> QED
  BY <1>3, <1>4, <1>6 DEF SameChart, r, max

LEMMA StopInv ==
  ASSUME OrderInv, NEW m \in DOMAIN replies, m.op = "iter",
         replies' = replies (-) SetToBag({m}),
         UNCHANGED << heatVars, run, vizType >>, Stop(m)
  PROVE  OrderInv'
<1> DEFINE i == page.iteration
<1>1. /\ RepliesOK' /\ Answers' = {} /\ Calls = {}
      /\ ~AxesAnswered /\ ~ResetSent /\ page.resetFlag = FALSE
      /\ ~IterAnswered' /\ ~AxesAnswered'
      /\ page.loaded = TRUE
      /\ page.iterationLow \in {0, 1} /\ i \in Int
      /\ page.maxIteration \in Int /\ SizeOf(page.y) \in Int
      /\ i <= SizeOf(page.y) /\ page.iterationLow <= i
  BY AnswerComes DEF Stop
<1>2. /\ DOMAIN page' = PageFields /\ Counting(page')
      /\ page'.loaded = page.loaded /\ page'.y = page.y
      /\ page'.iterationLow = page.iterationLow
      /\ page'.segmentArr = page.segmentArr
      /\ page'.iteration = i - 1 /\ page'.maxIteration = i - 1
      /\ page'.resetFlag = page.resetFlag /\ page'.playFlag = FALSE
      /\ page'.simplayFlag = page.simplayFlag
  <2>1. PICK q : With(q, m) /\ q.segmentArr = page.segmentArr /\ page' = Ended(q)
    BY DEF Stop
  <2>2. /\ SameChart(page', q) /\ Counting(page')
        /\ page'.iteration = q.iteration - 1
        /\ page'.maxIteration = q.iteration - 1
        /\ page'.resetFlag = q.resetFlag
        /\ page'.playFlag = FALSE /\ page'.simplayFlag = q.simplayFlag
    BY <2>1, EndedPage DEF With
  <2> QED
    BY <2>1, <2>2 DEF With, SameChart
<1>3. /\ HeatInv' /\ chart' = chart
      /\ firstIteration' = firstIteration /\ (Loaded' <=> Loaded)
  BY EngineKept DEF OrderInv
<1>4. RequestsOK' /\ Calls' = {} /\ ~ResetSent'
  BY <1>1 DEF OrderInv, OneCall, RequestsOK, Calls, ResetSent, Stop
<1>5. OneCall'
  BY <1>1, <1>4 DEF OneCall
<1>6. PageShape'
  BY <1>1, <1>2 DEF OrderInv, PageShape
<1>7. MessageShape' /\ BeforeLoad'
  BY <1>1, <1>2, <1>4 DEF MessageShape, BeforeLoad
<1>8. AxesAgree'
  BY <1>1, <1>2, <1>3 DEF OrderInv, AxesAgree
<1>9. BlankAfterReset' /\ ResetOvertakes'
  BY <1>1, <1>2, <1>4 DEF BlankAfterReset, ResetOvertakes
<1>10. AskedIsCurrent'
  BY <1>1, <1>4 DEF AskedIsCurrent, IterUnderWay, IterAsked
<1>11. Counted'
  BY <1>1, <1>2 DEF Counted, Begun
<1>12. RunsPast'
  BY DEF OrderInv, RunsPast, Stop
<1> QED
  BY <1>3, <1>5, <1>6, <1>7, <1>8, <1>9, <1>10, <1>11, <1>12 DEF OrderInv

-----------------------------------------------------------------------------
(* The first invariant holds.                                              *)

LEMMA InitOrder ==
  ASSUME Init
  PROVE  OrderInv
<1>1. HeatInv
  BY HeatInitInv DEF Init
<1>2. requests = EmptyBag /\ replies = EmptyBag
  BY DEF Init
<1>3. Calls = {} /\ Answers = {} /\ ~ResetSent
  BY <1>2, IdleIsQuiet DEF Idle
<1>4. IsABag(EmptyBag)
  BY DEF IsABag, EmptyBag, SetToBag
<1>5. OneCall
  BY <1>2, <1>3, <1>4 DEF OneCall, RequestsOK, RepliesOK
<1>6. ~IterUnderWay /\ ~IterAnswered /\ ~AxesAnswered
  BY <1>3 DEF IterUnderWay, IterAsked, IterAnswered, AxesAnswered
<1>7. /\ DOMAIN page = PageFields /\ page.loaded = FALSE
      /\ page.y = NoAxes /\ page.iterationLow = 0
      /\ page.iteration = 1 /\ page.maxIteration = 1
      /\ page.playIter = -1 /\ page.forwardIter = -1
      /\ page.backwardIter = -1 /\ page.seekbarMax = -1
      /\ page.segmentArr = << >> /\ page.resetFlag = FALSE
      /\ page.playFlag = FALSE /\ page.simplayFlag = FALSE
      /\ page.playLit = FALSE /\ page.forwardLit = FALSE /\ page.backLit = FALSE
      /\ page.icon = "play"
  BY DEF Init, PageFields
<1>8. AxesShape(page.y) /\ SizeOf(page.y) = 1
  <2>1. AxesShape(NoAxes)
    BY DEF AxesShape, NoAxes
  <2>2. Wide(NoAxes) = 1 /\ High(NoAxes) = 1
    BY DEF Wide, High, NoAxes
  <2> QED
    BY <1>7, <2>1, <2>2 DEF SizeOf
<1>9. Counting(page)
  BY <1>7 DEF Counting
<1>10. PageShape /\ MessageShape
  <2>1. vizType \in VizTypes
    BY DEF Init
  <2> QED
    BY <1>3, <1>7, <1>8, <1>9, <2>1 DEF PageShape, MessageShape
<1>11. DOMAIN segmentChain = {} /\ run = 0
  BY DEF Init
<1>12. BeforeLoad /\ RunsPast
  BY <1>3, <1>6, <1>7, <1>11 DEF BeforeLoad, RunsPast
<1>13. AxesAgree /\ BlankAfterReset
  BY <1>3, <1>7 DEF AxesAgree, BlankAfterReset
<1>14. ResetOvertakes /\ AskedIsCurrent
  BY <1>3, <1>6, <1>7 DEF ResetOvertakes, AskedIsCurrent
<1>15. Counted
  BY <1>7, <1>8 DEF Counted, InPlay
<1> QED
  BY <1>1, <1>5, <1>10, <1>12, <1>13, <1>14, <1>15 DEF OrderInv

\* A step of the page alone, the way the second invariant wants to see it.
LEMMA UserCases ==
  ASSUME OrderInv, User
  PROVE  \/ Quiet \/ (Ask /\ (PlaysOn \/ ForwardFirst)) \/ ClickRepeat
         \/ \E c \in Charts : Visualize(c)
BY ClickPlayCases, ClickPauseQuiet, ForwardFirstAsks, ClickForwardQuiet,
   ClickBackQuiet, DragSeekbarQuiet, ClickSaveQuiet DEF User

LEMMA ServeCases ==
  ASSUME Serve
  PROVE  \E m \in DOMAIN requests :
           /\ ServeAxes(m) \/ ServeReset(m) \/ ServeIter(m)
           /\ requests' = requests (-) SetToBag({m})
           /\ UNCHANGED << page, view, run, vizType >>
BY DEF Serve, BagToSet

LEMMA NextOrder ==
  ASSUME OrderInv, [Next]_vars
  PROVE  OrderInv'
<1>1. CASE User
  BY <1>1, UserCases, QuietInv, AskInv, ClickRepeatInv, VisualizeInv
<1>2. CASE Serve
  BY <1>2, ServeCases, ServeAxesInv, ServeResetInv, ServeIterInv
<1>3. CASE Deliver
  BY <1>3, DeliverAxesInv, DeliverIterCases, DiscardInv, AcceptInv, StopInv DEF Deliver
<1>4. CASE UNCHANGED vars
  <2>1. UNCHANGED << heatVars, net, page, segmentChain, run, vizType >>
    BY <1>4 DEF vars, view
  <2>2. /\ HeatInv' /\ chart' = chart
        /\ firstIteration' = firstIteration /\ (Loaded' <=> Loaded)
    BY <2>1, EngineKept DEF OrderInv
  <2>3. /\ OneCall' /\ Calls' = Calls /\ Answers' = Answers
        /\ ResetSent' <=> ResetSent
        /\ IterAsked' <=> IterAsked
        /\ IterAnswered' <=> IterAnswered
        /\ IterUnderWay' <=> IterUnderWay
        /\ AxesAnswered' <=> AxesAnswered
    BY <2>1, NetKept DEF OrderInv
  <2>4. Current' = Current
    BY <2>1 DEF Current
  <2>5. PageShape' /\ MessageShape' /\ BeforeLoad'
    BY <2>1, <2>3 DEF OrderInv, PageShape, MessageShape, BeforeLoad
  <2>6. AxesAgree'
    BY <2>1, <2>2, <2>3 DEF OrderInv, AxesAgree
  <2>7. BlankAfterReset' /\ ResetOvertakes' /\ AskedIsCurrent'
    BY <2>1, <2>2, <2>3, <2>4 DEF OrderInv, BlankAfterReset, ResetOvertakes, AskedIsCurrent
  <2>8. Counted' /\ RunsPast'
    BY <2>1 DEF OrderInv, Counted, RunsPast
  <2> QED
    BY <2>2, <2>3, <2>5, <2>6, <2>7, <2>8 DEF OrderInv
<1> QED
  BY <1>1, <1>2, <1>3, <1>4 DEF Next

LEMMA OrderHolds == Spec => []OrderInv
<1>1. Init => OrderInv
  BY InitOrder
<1>2. OrderInv /\ [Next]_vars => OrderInv'
  BY NextOrder
<1> QED
  BY <1>1, <1>2, PTL DEF Spec

\* Whatever the user does, and however many charts, runs and replays there
\* are, the page never asks for an iteration past the number of cells of the
\* loaded chart's grid (heat.cc:520 and 1216 store k_Best_heat[iter] unchecked).
THEOREM RequestsStayInGrid == Spec => []RequestsFitGrid
<1>1. OrderInv => RequestsFitGrid
  <2> SUFFICES ASSUME OrderInv, NEW m \in DOMAIN requests, m.op = "iter"
               PROVE  m.iter \in 0 .. Columns * Rows
    BY DEF RequestsFitGrid, BagToSet
  <2>1. m \in Calls
    BY DEF Calls
  <2>2. /\ page.y = Axes(chart) /\ chart \in Charts
        /\ m.iter \in Int /\ 0 <= m.iter /\ m.iter <= SizeOf(page.y)
    BY <2>1, AskedIsInGrid
  <2>3. SizeOf(page.y) = Columns * Rows
    BY <2>2, AxesOfChart DEF Columns, Rows
  <2>4. SizeOf(page.y) \in Int
    BY SizePositive DEF OrderInv, PageShape
  <2> QED
    BY <2>2, <2>3, <2>4
<1> QED
  BY OrderHolds, <1>1, PTL
-----------------------------------------------------------------------------
(* Splicing an answer into the page's list.                                *)

\* How a list comes of another: q put in after the first n, or the quadrants
\* p in the place of the one at s.
Joined(new, arr, n, q) ==
  /\ new \in Seq(Quadrant) /\ Len(new) = Len(arr) + 1
  /\ \A k \in 1 .. Len(arr) + 1 :
       new[k] = IF k <= n THEN arr[k] ELSE IF k = n + 1 THEN q ELSE arr[k - 1]
Replaced(new, arr, s, p) ==
  /\ new \in Seq(Quadrant) /\ Len(new) = Len(arr) + Len(p) - 1
  /\ \A k \in 1 .. Len(arr) + Len(p) - 1 :
       new[k] = IF k < s THEN arr[k]
                ELSE IF k < s + Len(p) THEN p[k - s + 1]
                ELSE arr[k - Len(p) + 1]

LEMMA InJoins ==
  ASSUME NEW arr \in Seq(Quadrant), NEW q \in Quadrant, NEW n \in 0 .. Len(arr)
  PROVE  Joined(In(arr, n, q), arr, n, q)
<1> DEFINE new == In(arr, n, q)
<1>1. /\ new \in Seq(Quadrant) /\ Len(new) = Len(arr) + 1
      /\ \A k \in 1 .. n : new[k] = arr[k]
      /\ new[n + 1] = q
      /\ \A k \in n + 1 .. Len(arr) : new[k + 1] = arr[k]
  BY InElements, SMTT(40)
<1> HIDE DEF new
<1>2. ASSUME NEW k \in 1 .. Len(arr) + 1
      PROVE  new[k] = IF k <= n THEN arr[k]
                      ELSE IF k = n + 1 THEN q ELSE arr[k - 1]
  <2>1. Len(arr) \in Nat /\ n \in Nat /\ n <= Len(arr)
    OBVIOUS
  <2>2. CASE k <= n
    BY <1>1, <2>1, <2>2
  <2>3. CASE k = n + 1
    BY <1>1, <2>1, <2>3
  <2>4. CASE k > n + 1
    <3>1. k - 1 \in n + 1 .. Len(arr) /\ (k - 1) + 1 = k
      BY <2>1, <2>4
    <3>2. new[(k - 1) + 1] = arr[k - 1]
      BY <1>1, <3>1
    <3> QED
      BY <2>1, <2>4, <3>1, <3>2
  <2> QED
    BY <2>1, <2>2, <2>3, <2>4
<1> QED
  BY <1>1, <1>2 DEF new, Joined

LEMMA PutReplaces ==
  ASSUME NEW arr \in Seq(Quadrant), NEW s \in 1 .. Len(arr),
         NEW p \in Seq(Quadrant), Len(p) >= 1
  PROVE  Replaced(Put(arr, s, p), arr, s, p)
<1>1. Holds(Put(arr, s, p), arr, s, p)
  BY PutHolds
<1>2. /\ Put(arr, s, p) \in Seq(Quadrant)
      /\ Len(Put(arr, s, p)) = Len(arr) + Len(p) - 1
  BY <1>1 DEF Holds
<1>3. ASSUME NEW k \in 1 .. Len(arr) + Len(p) - 1
      PROVE  Put(arr, s, p)[k] = IF k < s THEN arr[k]
                                 ELSE IF k < s + Len(p) THEN p[k - s + 1]
                                 ELSE arr[k - Len(p) + 1]
  BY DEF Put
<1> QED
  BY <1>2, <1>3 DEF Replaced

\* One quadrant takes the place of another.
LEMMA SplicedOver ==
  ASSUME NEW arr \in Seq(Quadrant), NEW s \in 1 .. Len(arr),
         NEW p \in Seq(Quadrant), Len(p) = 1
  PROVE  Splice(arr, s - 1, 1, p[1]) = Put(arr, s, p)
<1> DEFINE one == Splice(arr, s - 1, 1, p[1])
           new == Put(arr, s, p)
<1>1. /\ Len(arr) \in Nat /\ s \in Nat /\ s - 1 \in 0 .. Len(arr) - 1 /\ 1 <= s
      /\ p[1] \in Quadrant
  <2>1. Len(arr) \in Nat /\ s \in Nat /\ 1 <= s /\ s <= Len(arr)
    OBVIOUS
  <2>2. p[1] \in Quadrant
    <3>1. 1 \in 1 .. Len(p)
      OBVIOUS
    <3> QED
      BY <3>1, ElementOfSeq
  <2> QED
    BY <2>1, <2>2
<1>2. one = Over(arr, s - 1, p[1])
  <2>1. Min({s - 1, Len(arr)}) = s - 1
    BY <1>1, MinOfTwo
  <2> QED
    BY <2>1 DEF Splice, Over
<1>3. /\ one \in Seq(Quadrant) /\ Len(one) = Len(arr)
      /\ \A k \in 1 .. Len(arr) : one[k] = IF k = (s - 1) + 1 THEN p[1] ELSE arr[k]
  BY <1>1, <1>2, OverElements
<1>4. Replaced(new, arr, s, p)
  <2>1. Len(p) >= 1
    OBVIOUS
  <2> QED
    BY <2>1, PutReplaces
<1> HIDE DEF one, new
<1>5. ASSUME NEW k \in 1 .. Len(arr)
      PROVE  one[k] = new[k]
  <2>1. /\ k \in 1 .. Len(arr) + Len(p) - 1
        /\ k = s => k - s + 1 = 1
        /\ k - Len(p) + 1 = k
    BY <1>1
  <2>2. new[k] = IF k < s THEN arr[k]
                 ELSE IF k < s + Len(p) THEN p[k - s + 1]
                 ELSE arr[k - Len(p) + 1]
    BY <1>4, <2>1 DEF Replaced
  <2>3. new[k] = IF k = s THEN p[1] ELSE arr[k]
    BY <1>1, <2>1, <2>2
  <2>4. one[k] = IF k = s THEN p[1] ELSE arr[k]
    BY <1>1, <1>3
  <2> QED
    BY <2>3, <2>4
<1>6. one = new
  <2>1. new \in Seq(Quadrant) /\ Len(new) = Len(arr)
    BY <1>1, <1>4 DEF Replaced
  <2> QED
    BY <1>3, <1>5, <2>1
<1> QED
  BY <1>6 DEF one, new

\* One more is inserted after those that have come in its place.
LEMMA SplicedAfter ==
  ASSUME NEW arr \in Seq(Quadrant), NEW s \in 1 .. Len(arr),
         NEW p \in Seq(Quadrant), Len(p) >= 1,
         NEW t \in Seq(Quadrant), Len(t) = Len(p) + 1,
         \A k \in 1 .. Len(p) : t[k] = p[k]
  PROVE  Splice(Put(arr, s, p), s + Len(p) - 1, 0, t[Len(t)]) = Put(arr, s, t)
<1> DEFINE m   == Len(p)
           old == Put(arr, s, p)
           n   == s + m - 1
           q   == t[Len(t)]
           two == Splice(old, n, 0, q)
           new == Put(arr, s, t)
<1>1. /\ Len(arr) \in Nat /\ s \in Nat /\ 1 <= s /\ s <= Len(arr)
      /\ m \in Nat /\ m >= 1 /\ Len(t) = m + 1 /\ q = t[m + 1] /\ q \in Quadrant
  OBVIOUS
<1> HIDE DEF old, new, q
<1>2. Replaced(old, arr, s, p)
  BY PutReplaces DEF old
<1>3. Replaced(new, arr, s, t)
  <2>1. Len(t) >= 1
    BY <1>1
  <2> QED
    BY <2>1, PutReplaces DEF new
<1>4. \A k \in 1 .. m : t[k] = p[k]
  OBVIOUS
<1> HIDE DEF m
<1>10. /\ old \in Seq(Quadrant) /\ Len(old) = Len(arr) + m - 1
       /\ new \in Seq(Quadrant) /\ Len(new) = Len(arr) + m
  BY <1>1, <1>2, <1>3 DEF Replaced, m
<1>11. ASSUME NEW k \in 1 .. Len(arr) + m - 1
       PROVE  old[k] = IF k < s THEN arr[k]
                       ELSE IF k < s + m THEN p[k - s + 1] ELSE arr[k - m + 1]
  BY <1>2, <1>11 DEF Replaced, m
<1>12. ASSUME NEW k \in 1 .. Len(arr) + m
       PROVE  new[k] = IF k < s THEN arr[k]
                       ELSE IF k < s + (m + 1) THEN t[k - s + 1]
                       ELSE arr[k - (m + 1) + 1]
  <2>1. k \in 1 .. Len(arr) + Len(t) - 1
    BY <1>1
  <2> QED
    BY <1>1, <1>3, <2>1 DEF Replaced
<1>5. n \in 0 .. Len(old) /\ n \in Nat /\ n >= s
  BY <1>1, <1>10
<1>6. two = In(old, n, q)
  <2> HIDE DEF n
  <2>1. n \in Int /\ Len(old) \in Int /\ n <= Len(old)
    BY <1>5, <1>10
  <2>2. Min({n, Len(old)}) = n
    BY <2>1, MinOfTwo
  <2> QED
    BY <2>2 DEF Splice, In
<1>7. Joined(two, old, n, q)
  <2> HIDE DEF two, n
  <2> QED
    BY <1>1, <1>10, <1>5, <1>6, InJoins
<1> HIDE DEF two
<1>13. two \in Seq(Quadrant) /\ Len(two) = Len(arr) + m
  BY <1>1, <1>7, <1>10 DEF Joined
<1>14. ASSUME NEW k \in 1 .. Len(arr) + m
       PROVE  two[k] = IF k <= n THEN old[k] ELSE IF k = n + 1 THEN q ELSE old[k - 1]
  <2>1. k \in 1 .. Len(old) + 1
    BY <1>1, <1>10
  <2> QED
    BY <1>7, <2>1 DEF Joined
<1>8. ASSUME NEW k \in 1 .. Len(arr) + m
      PROVE  two[k] = new[k]
  <2>2. CASE k < s
    <3>1. k \in 1 .. Len(arr) + m - 1 /\ k <= n
      BY <1>1, <1>5, <2>2
    <3>2. two[k] = old[k] /\ old[k] = arr[k]
      BY <1>11, <1>14, <2>2, <3>1
    <3>3. new[k] = arr[k]
      BY <1>12, <2>2
    <3> QED
      BY <3>2, <3>3
  <2>3. CASE s <= k /\ k <= n
    <3>1. /\ k \in 1 .. Len(arr) + m - 1 /\ ~(k < s) /\ k < s + m
          /\ k < s + (m + 1) /\ k - s + 1 \in 1 .. m
      BY <1>1, <2>3
    <3>2. two[k] = old[k] /\ old[k] = p[k - s + 1]
      BY <1>11, <1>14, <2>3, <3>1
    <3>3. new[k] = t[k - s + 1]
      BY <1>12, <3>1
    <3> QED
      BY <1>4, <3>1, <3>2, <3>3
  <2>4. CASE k = n + 1
    <3>1. ~(k <= n) /\ ~(k < s) /\ k < s + (m + 1) /\ k - s + 1 = m + 1
      BY <1>1, <2>4
    <3>2. two[k] = q
      BY <1>14, <2>4, <3>1
    <3>3. new[k] = t[k - s + 1]
      BY <1>12, <3>1
    <3> QED
      BY <1>1, <3>1, <3>2, <3>3
  <2>5. CASE k > n + 1
    <3>1. /\ ~(k <= n) /\ k # n + 1 /\ ~(k < s) /\ ~(k < s + (m + 1))
          /\ k - 1 \in 1 .. Len(arr) + m - 1 /\ ~(k - 1 < s) /\ ~(k - 1 < s + m)
          /\ (k - 1) - m + 1 = k - (m + 1) + 1
      BY <1>1, <1>5, <2>5
    <3>2. two[k] = old[k - 1]
      BY <1>14, <3>1
    <3>3. old[k - 1] = arr[(k - 1) - m + 1]
      BY <1>11, <3>1
    <3>4. new[k] = arr[k - (m + 1) + 1]
      BY <1>12, <3>1
    <3> QED
      BY <3>1, <3>2, <3>3, <3>4
  <2>6. k < s \/ (s <= k /\ k <= n) \/ k = n + 1 \/ k > n + 1
    <3> HIDE DEF n
    <3>1. k \in Int /\ n \in Int /\ s \in Int
      BY <1>1, <1>5
    <3> QED
      BY <3>1
  <2> QED
    BY <2>2, <2>3, <2>4, <2>5, <2>6
<1>9. two = new
  BY <1>8, <1>10, <1>13
<1> QED
  BY <1>9 DEF two, new, old, n, m, q

\* An answer as it is sent: pieces with their places.
Places(s, p) == [k \in 1 .. Len(p) |-> [n |-> s + k - 2, quad |-> p[k]]]

\* On a page that shows something the pieces take the place of one quadrant.
LEMMA SplicedIsPut ==
  ASSUME NEW arr \in Seq(Quadrant), NEW s \in 1 .. Len(arr),
         NEW p \in Seq(Quadrant), Len(p) = 2 \/ Len(p) = 4
  PROVE  Spliced(arr, Places(s, p)) = Put(arr, s, p)
<1> DEFINE sl    == Places(s, p)
           one   == Splice(arr, sl[1].n, 1, sl[1].quad)
           two   == Splice(one, sl[2].n, 0, sl[2].quad)
           three == Splice(two, sl[3].n, 0, sl[3].quad)
           four  == Splice(three, sl[4].n, 0, sl[4].quad)
           a(n)  == SubSeq(p, 1, n)
<1>1. /\ s \in Int /\ 1 <= s /\ Len(sl) = Len(p)
      /\ \A k \in 1 .. Len(p) : sl[k].n = s + k - 2 /\ sl[k].quad = p[k]
  BY DEF Places
<1>2. ASSUME NEW n \in 1 .. Len(p)
      PROVE  /\ a(n) \in Seq(Quadrant) /\ Len(a(n)) = n
             /\ \A k \in 1 .. n : a(n)[k] = p[k]
  OBVIOUS
<1>3. a(Len(p)) = p
  OBVIOUS
<1> HIDE DEF sl, a
<1>4. /\ Len(p) = 2 => Spliced(arr, sl) = two
      /\ Len(p) = 4 => Spliced(arr, sl) = four
  BY <1>1 DEF Spliced
<1>5. one = Put(arr, s, a(1))
  <2>1. 1 \in 1 .. Len(p) /\ s + 1 - 2 = s - 1
    BY <1>1
  <2>2. sl[1].n = s - 1 /\ sl[1].quad = p[1]
    BY <1>1, <2>1
  <2>3. a(1) \in Seq(Quadrant) /\ Len(a(1)) = 1 /\ a(1)[1] = p[1]
    <3>1. a(1) \in Seq(Quadrant) /\ Len(a(1)) = 1 /\ \A k \in 1 .. 1 : a(1)[k] = p[k]
      BY <1>2, <2>1
    <3> QED
      BY <3>1
  <2> QED
    BY <2>2, <2>3, SplicedOver
<1>6. ASSUME NEW n \in 1 .. 3, n + 1 \in 1 .. Len(p)
      PROVE  Splice(Put(arr, s, a(n)), sl[n + 1].n, 0, sl[n + 1].quad)
               = Put(arr, s, a(n + 1))
  <2>1. n \in 1 .. Len(p) /\ n \in Int
    BY <1>6
  <2>2. /\ a(n) \in Seq(Quadrant) /\ Len(a(n)) = n
        /\ \A k \in 1 .. n : a(n)[k] = p[k]
    BY <1>2, <2>1
  <2>3. /\ a(n + 1) \in Seq(Quadrant) /\ Len(a(n + 1)) = n + 1
        /\ \A k \in 1 .. n + 1 : a(n + 1)[k] = p[k]
    BY <1>2, <1>6
  <2>4. /\ Len(a(n)) >= 1 /\ Len(a(n + 1)) = Len(a(n)) + 1
        /\ \A k \in 1 .. Len(a(n)) : a(n + 1)[k] = a(n)[k]
    <3>1. Len(a(n)) = n /\ Len(a(n + 1)) = n + 1 /\ n >= 1
      BY <2>1, <2>2, <2>3
    <3>2. ASSUME NEW k \in 1 .. n PROVE a(n + 1)[k] = a(n)[k]
      <4>1. k \in 1 .. n + 1
        BY <2>1
      <4> QED
        BY <2>2, <2>3, <4>1
    <3> QED
      BY <3>1, <3>2
  <2>5. Splice(Put(arr, s, a(n)), s + Len(a(n)) - 1, 0, a(n + 1)[Len(a(n + 1))])
          = Put(arr, s, a(n + 1))
    BY <2>2, <2>3, <2>4, SplicedAfter
  <2>6. sl[n + 1].n = s + (n + 1) - 2 /\ sl[n + 1].quad = p[n + 1]
    BY <1>1, <1>6
  <2>7. s + (n + 1) - 2 = s + Len(a(n)) - 1 /\ a(n + 1)[Len(a(n + 1))] = p[n + 1]
    BY <1>1, <2>1, <2>2, <2>3
  <2> QED
    BY <2>5, <2>6, <2>7
<1> HIDE DEF one
<1>7. two = Put(arr, s, a(2))
  <2>1. 1 \in 1 .. 3 /\ 1 + 1 = 2
    OBVIOUS
  <2>2. 1 + 1 \in 1 .. Len(p)
    <3>1. 2 \in 1 .. 2 /\ 2 \in 1 .. 4
      OBVIOUS
    <3> QED
      BY <2>1, <3>1, Zenon
  <2> QED
    BY <1>5, <1>6, <2>1, <2>2
<1> HIDE DEF two
<1>8. CASE Len(p) = 2
  BY <1>3, <1>4, <1>7, <1>8 DEF sl
<1>9. CASE Len(p) = 4
  <2>1. /\ 2 \in 1 .. 3 /\ 2 + 1 \in 1 .. Len(p) /\ 2 + 1 = 3
        /\ 3 \in 1 .. 3 /\ 3 + 1 \in 1 .. Len(p) /\ 3 + 1 = 4
    BY <1>9
  <2>2. three = Put(arr, s, a(3))
    BY <1>6, <1>7, <2>1
  <2> HIDE DEF three
  <2>3. four = Put(arr, s, a(4))
    BY <1>6, <2>1, <2>2
  <2> QED
    BY <1>3, <1>4, <1>9, <2>3 DEF sl
<1> QED
  BY <1>8, <1>9

\* On a blank page one quadrant takes the place of nothing.
LEMMA SplicedFirst ==
  ASSUME NEW q \in Quadrant
  PROVE  Spliced(<< >>, Places(1, << q >>)) = << q >>
<1> DEFINE sl == Places(1, << q >>)
<1>1. Len(sl) = 1 /\ sl[1].n = 0 /\ sl[1].quad = q
  BY DEF Places
<1> HIDE DEF sl
<1>2. Spliced(<< >>, sl) = Splice(<< >>, 0, 1, q)
  BY <1>1 DEF Spliced
<1>3. Min({0, Len(<< >>)}) = 0
  BY MinOfTwo
<1>4. Splice(<< >>, 0, 1, q)
        = SubSeq(<< >>, 1, 0) \o << q >> \o SubSeq(<< >>, 0 + 1 + 1, Len(<< >>))
  BY <1>3 DEF Splice
<1>5. SubSeq(<< >>, 1, 0) = << >> /\ SubSeq(<< >>, 0 + 1 + 1, Len(<< >>)) = << >>
  OBVIOUS
<1>6. Splice(<< >>, 0, 1, q) = << q >>
  BY <1>4, <1>5
<1> QED
  BY <1>2, <1>6 DEF sl

-----------------------------------------------------------------------------
(* The second invariant: what the page has received of the run.            *)

Live == Synced /\ ~page.resetFlag

\* The quadrants of a list in the values of the chart's axes.
Moved(list) == [k \in 1 .. Len(list) |-> Values(list[k])]

\* The engine's last answer: its place in the list, and as it is sent.
Place  == IF splitQuad = -1 THEN 0 ELSE splitQuad
Packed == [k \in 1 .. Len(Answer) |->
             [n |-> IF splitQuad = -1 THEN 0 ELSE splitQuad + k - 1,
              quad |-> Values(Answer[k])]]

\* The answer has been spliced into this list before.
Shown(arr) ==
  /\ Place + 1 <= Len(arr) /\ arr[Place + 1] = Values(Answer[1])
  /\ \A k \in 1 .. Len(Answer) : Values(Answer[k]) \in ToSet(arr)

\* Iteration j has nothing that could be split.
Done(j) == DivisibleCells(kBest[j]) \subseteq empties

\* The last iteration that was received.
Latest == IF page.iteration \in Current THEN page.iteration ELSE page.iteration - 1

\* Every iteration of the run before the one under way has been received;
\* only iteration 0 can be received without a next one being asked.
ChainIs ==
  \/ Current = page.iterationLow .. page.iteration - 1
  \/ page.iteration = 0 /\ page.iterationLow = 0 /\ Current = {0}

FirstOrNot ==
  /\ firstIteration =>
       /\ Current = {}
       /\ \/ page.iteration = page.iterationLow - 1 /\ ~IterUnderWay
          \/ page.iteration = page.iterationLow /\ IterAsked
  /\ ~firstIteration =>
       /\ page.iteration >= page.iterationLow
       /\ Current = {} => IterAnswered

\* Nothing is under way: the run has not begun, or only begun, or ended.
Resting ==
  ~IterUnderWay /\ ~page.simplayFlag =>
    \/ page.iteration = page.iterationLow - 1
    \/ page.iteration \in Current
    \/ page.iteration > page.maxIteration
Playing ==
  IterUnderWay =>
    /\ page.simplayFlag \/ page.playFlag
    /\ page.iteration <= page.maxIteration

ValidKnown ==
  /\ 1 \in Current => page.validCells # Unknown
  /\ \A m \in Answers : m.op = "iter" /\ page.iteration = 1 =>
       m.validCells # Unknown

\* What is kept of an iteration are the engine's quadrants of it.
SlotsKept ==
  \A i \in Current : i \in Slots /\ Placed(segmentChain[i].quads) = ToSet(kBest[i])

\* The list on the page is that of the last iteration, the engine's own as
\* long as it can still be split.
ListKept ==
  /\ page.segmentArr \in Seq(Quadrant)
  /\ page.segmentArr = << >> <=> Current = {}
  /\ Current # {} =>
       /\ Latest \in Current /\ page.segmentArr = segmentChain[Latest].quads
       /\ page.segmentArr = Moved(kBest[Latest]) \/ Done(Latest)
       /\ ~IterAnswered => Shown(page.segmentArr)

\* The answer that is under way is one quadrant over the grid, or the pieces
\* of one of the list before, or what was sent before.
WholeAnswer(i) ==
  /\ Current = {} /\ splitQuad = -1
  /\ Answer = WholeGrid(Columns, Rows) /\ kBest[i] = WholeGrid(Columns, Rows)
SplitAnswer(i) ==
  /\ i - 1 \in Slots /\ splitQuad # -1
  /\ page.segmentArr = Moved(kBest[i - 1])
  /\ splitQuad + 1 \in 1 .. Len(kBest[i - 1])
  /\ Answer \in Seq(CellQuad) /\ (Len(Answer) = 2 \/ Len(Answer) = 4)
  /\ Fits(Answer, kBest[i - 1][splitQuad + 1])
  /\ kBest[i] = Put(kBest[i - 1], splitQuad + 1, Answer)
AgainAnswer(i) ==
  /\ i - 1 \in Current
  /\ Done(i - 1) /\ kBest[i] = kBest[i - 1]
  /\ Shown(page.segmentArr)

AnswerFits ==
  \A m \in Answers : m.op = "iter" =>
    /\ m.sl = Packed
    /\ page.iteration \in Slots /\ page.iteration \notin Current
    /\ \/ WholeAnswer(page.iteration) \/ SplitAnswer(page.iteration)
       \/ AgainAnswer(page.iteration)

RunInv ==
  /\ ChainIs /\ FirstOrNot
  /\ Resting /\ Playing
  /\ ValidKnown
  /\ SlotsKept
  /\ ListKept
  /\ AnswerFits

\* A reset takes the page before the first iteration.
BeforeFirst ==
  page.resetFlag \/ ResetSent => page.iteration = page.iterationLow - 1

\* The baseline draws no quadrants.
BaselineBlank ==
  vizType # 2 =>
    /\ page.segmentArr = << >>
    /\ \A m \in Answers : m.op = "iter" => m.sl = << >>

ShapeInv ==
  /\ BeforeFirst
  /\ vizType = 2 /\ Live => RunInv
  /\ BaselineBlank

-----------------------------------------------------------------------------
(* Lists of the engine on the page.                                        *)

LEMMA ChartOrigin ==
  ASSUME HeatTypeOK, Loaded
  PROVE  chart \in Charts /\ XMinOf[chart] \in Int /\ YMinOf[chart] \in Int
<1>1. chart \in Charts
  BY DEF HeatTypeOK, Loaded
<1>2. XMinOf[chart] \in Nat /\ YMinOf[chart] \in Nat
  BY <1>1, PlayerAssumption
<1> QED
  BY <1>1, <1>2

LEMMA ValuesQuadrant ==
  ASSUME HeatTypeOK, Loaded, NEW q \in CellQuad
  PROVE  Values(q) \in Quadrant
<1>1. XMinOf[chart] \in Int /\ YMinOf[chart] \in Int
  BY ChartOrigin
<1>2. q.xb \in Int /\ q.xe \in Int /\ q.yb \in Int /\ q.ye \in Int
  BY SizeAssumption DEF CellQuad
<1> QED
  BY <1>1, <1>2 DEF Values, Quad, Quadrant

LEMMA MovedList ==
  ASSUME HeatTypeOK, Loaded, NEW list \in Seq(CellQuad)
  PROVE  /\ Moved(list) \in Seq(Quadrant) /\ Len(Moved(list)) = Len(list)
         /\ \A k \in 1 .. Len(list) : Moved(list)[k] = Values(list[k])
<1>1. Len(list) \in Nat
  OBVIOUS
<1>2. ASSUME NEW k \in 1 .. Len(list)
      PROVE  Values(list[k]) \in Quadrant
  <2>1. list[k] \in CellQuad
    BY ElementOfSeq
  <2> QED
    BY <2>1, ValuesQuadrant
<1>3. Moved(list) \in [1 .. Len(list) -> Quadrant]
  BY <1>2 DEF Moved
<1>4. Moved(list) \in Seq(Quadrant) /\ Len(Moved(list)) = Len(list)
  BY <1>1, <1>3
<1>5. \A k \in 1 .. Len(list) : Moved(list)[k] = Values(list[k])
  BY DEF Moved
<1> QED
  BY <1>4, <1>5

\* Replacing a quadrant is the same before and after moving.
LEMMA MovedPut ==
  ASSUME HeatTypeOK, Loaded, NEW list \in Seq(CellQuad), NEW s \in 1 .. Len(list),
         NEW p \in Seq(CellQuad), Len(p) >= 1
  PROVE  Moved(Put(list, s, p)) = Put(Moved(list), s, Moved(p))
<1> DEFINE n == Len(list) + Len(p) - 1
           a == Moved(Put(list, s, p))
           b == Put(Moved(list), s, Moved(p))
<1>1. /\ Len(list) \in Nat /\ Len(p) \in Nat /\ s \in Nat /\ 1 <= s /\ s <= Len(list)
  OBVIOUS
<1>2. Len(Put(list, s, p)) = n
  BY PutElements
<1>3. a = [k \in 1 .. n |-> Values(Put(list, s, p)[k])]
  BY <1>2 DEF Moved
<1>4. /\ Len(Moved(list)) = Len(list) /\ Len(Moved(p)) = Len(p)
      /\ \A k \in 1 .. Len(list) : Moved(list)[k] = Values(list[k])
      /\ \A k \in 1 .. Len(p) : Moved(p)[k] = Values(p[k])
  BY MovedList
<1>5. b = [k \in 1 .. n |-> IF k < s THEN Moved(list)[k]
                            ELSE IF k < s + Len(p) THEN Moved(p)[k - s + 1]
                            ELSE Moved(list)[k - Len(p) + 1]]
  BY <1>4 DEF Put
<1>6. ASSUME NEW k \in 1 .. n
      PROVE  a[k] = b[k]
  <2>1. Put(list, s, p)[k] = IF k < s THEN list[k]
                             ELSE IF k < s + Len(p) THEN p[k - s + 1]
                             ELSE list[k - Len(p) + 1]
    BY DEF Put
  <2>2. a[k] = Values(Put(list, s, p)[k])
    BY <1>3
  <2> HIDE DEF a
  <2>3. b[k] = IF k < s THEN Moved(list)[k]
               ELSE IF k < s + Len(p) THEN Moved(p)[k - s + 1]
               ELSE Moved(list)[k - Len(p) + 1]
    BY <1>5
  <2> HIDE DEF b
  <2>4. CASE k < s
    <3>1. k \in 1 .. Len(list)
      BY <1>1, <2>4
    <3> QED
      BY <1>4, <2>1, <2>2, <2>3, <2>4, <3>1
  <2>5. CASE ~(k < s) /\ k < s + Len(p)
    <3>1. k - s + 1 \in 1 .. Len(p)
      BY <1>1, <2>5
    <3>2. a[k] = Values(p[k - s + 1]) /\ b[k] = Moved(p)[k - s + 1]
      BY <2>1, <2>2, <2>3, <2>5
    <3> QED
      BY <1>4, <3>1, <3>2
  <2>6. CASE ~(k < s) /\ ~(k < s + Len(p))
    <3>1. k - Len(p) + 1 \in 1 .. Len(list)
      BY <1>1, <2>6
    <3>2. a[k] = Values(list[k - Len(p) + 1]) /\ b[k] = Moved(list)[k - Len(p) + 1]
      BY <2>1, <2>2, <2>3, <2>6
    <3> QED
      BY <1>4, <3>1, <3>2
  <2> QED
    BY <2>4, <2>5, <2>6
<1> QED
  BY <1>3, <1>5, <1>6

\* The page's own axes undo the move.
LEMMA PlacedMoved ==
  ASSUME HeatTypeOK, Loaded, page.y = Axes(chart), NEW list \in Seq(CellQuad)
  PROVE  Placed(Moved(list)) = ToSet(list)
<1> DEFINE Back(q) == Quad(q.xb - page.y.xMin, q.xe - page.y.xMin,
                           q.yb - page.y.yMin, q.ye - page.y.yMin)
<1>1. /\ page.y.xMin = XMinOf[chart] /\ page.y.yMin = YMinOf[chart]
      /\ XMinOf[chart] \in Int /\ YMinOf[chart] \in Int
  BY ChartOrigin DEF Axes
<1>2. ASSUME NEW q \in CellQuad
      PROVE  Back(Values(q)) = q
  <2>1. /\ q.xb \in Int /\ q.xe \in Int /\ q.yb \in Int /\ q.ye \in Int
        /\ q = Quad(q.xb, q.xe, q.yb, q.ye)
    BY SizeAssumption DEF CellQuad, Quad
  <2>2. /\ Values(q).xb = q.xb + XMinOf[chart] /\ Values(q).xe = q.xe + XMinOf[chart]
        /\ Values(q).yb = q.yb + YMinOf[chart] /\ Values(q).ye = q.ye + YMinOf[chart]
    BY DEF Values, Quad
  <2>3. /\ Values(q).xb - page.y.xMin = q.xb /\ Values(q).xe - page.y.xMin = q.xe
        /\ Values(q).yb - page.y.yMin = q.yb /\ Values(q).ye - page.y.yMin = q.ye
    BY <1>1, <2>1, <2>2
  <2> QED
    BY <2>1, <2>3
<1>3. Placed(Moved(list)) = { Back(q) : q \in ToSet(Moved(list)) }
  BY DEF Placed
<1> HIDE DEF Back
<1>4. ToSet(Moved(list)) = { Values(list[k]) : k \in 1 .. Len(list) }
  <2>1. DOMAIN Moved(list) = 1 .. Len(list)
    BY DEF Moved
  <2>2. \A k \in 1 .. Len(list) : Moved(list)[k] = Values(list[k])
    BY MovedList
  <2> QED
    BY <2>1, <2>2 DEF ToSet
<1>5. ToSet(list) = { list[k] : k \in 1 .. Len(list) }
  BY DEF ToSet
<1>6. \A k \in 1 .. Len(list) : Back(Values(list[k])) = list[k]
  BY <1>2, ElementOfSeq
<1> QED
  BY <1>3, <1>4, <1>5, <1>6

\* The answer is one quadrant, or two or four.
LEMMA AnswerShape ==
  ASSUME HeatTypeOK
  PROVE  /\ Answer \in Seq(CellQuad)
         /\ splitQuad = -1 => Len(Answer) = 1
         /\ splitQuad # -1 => Len(Answer) = 2 \/ Len(Answer) = 4
         /\ Place \in Nat
<1>1. newQuads[1] \in CellQuad /\ newQuads[2] \in CellQuad
  BY DEF HeatTypeOK
<1>2. newQuads \in Seq(CellQuad) /\ Len(newQuads) = 4
  <2>1. newQuads \in [1 .. 4 -> CellQuad]
    BY DEF HeatTypeOK
  <2>2. ASSUME NEW f \in [1 .. 4 -> CellQuad]
        PROVE  f \in Seq(CellQuad) /\ Len(f) = 4
    <3>1. f = << f[1], f[2], f[3], f[4] >>
      OBVIOUS
    <3>2. /\ f[1] \in CellQuad /\ f[2] \in CellQuad
          /\ f[3] \in CellQuad /\ f[4] \in CellQuad
      OBVIOUS
    <3>3. /\ << f[1], f[2], f[3], f[4] >> \in Seq(CellQuad)
          /\ Len(<< f[1], f[2], f[3], f[4] >>) = 4
      BY <3>2
    <3> QED
      BY <3>1, <3>3
  <2> QED
    BY <2>1, <2>2
<1>3. Place \in Nat
  BY DEF HeatTypeOK, Place
<1>4. CASE splitQuad = -1
  BY <1>1, <1>3, <1>4 DEF Answer
<1>5. CASE splitQuad # -1 /\ isTwoSeg
  <2>1. Answer = << newQuads[1], newQuads[2] >>
    BY <1>5 DEF Answer
  <2>2. Answer \in Seq(CellQuad) /\ Len(Answer) = 2
    BY <1>1, <2>1
  <2> QED
    BY <1>3, <1>5, <2>2
<1>6. CASE splitQuad # -1 /\ ~isTwoSeg
  <2>1. Answer = newQuads
    BY <1>6 DEF Answer
  <2> QED
    BY <1>2, <1>3, <1>6, <2>1
<1> QED
  BY <1>4, <1>5, <1>6

LEMMA AnswerLen ==
  ASSUME HeatTypeOK
  PROVE  Len(Answer) \in Nat /\ Len(Answer) >= 1
<1>1. Len(Answer) = 1 \/ Len(Answer) = 2 \/ Len(Answer) = 4
  BY AnswerShape
<1> QED
  BY <1>1

\* The answer as it is sent.
LEMMA PackedPlaces ==
  ASSUME HeatTypeOK, Loaded
  PROVE  Packed = Places(Place + 1, Moved(Answer)) /\ Packed # << >>
<1> DEFINE p == Moved(Answer)
           t == Places(Place + 1, p)
<1>1. Answer \in Seq(CellQuad) /\ Len(Answer) \in Nat /\ Len(Answer) >= 1 /\ Place \in Nat
  BY AnswerShape, AnswerLen
<1>2. Len(p) = Len(Answer) /\ \A k \in 1 .. Len(Answer) : p[k] = Values(Answer[k])
  BY <1>1, MovedList
<1>3. t = [k \in 1 .. Len(Answer) |-> [n |-> Place + 1 + k - 2, quad |-> p[k]]]
  BY <1>2 DEF Places
<1>4. ASSUME NEW k \in 1 .. Len(Answer)
      PROVE  (IF splitQuad = -1 THEN 0 ELSE splitQuad + k - 1) = Place + 1 + k - 2
  <2>1. CASE splitQuad = -1
    <3>1. Len(Answer) = 1
      BY <2>1, AnswerShape
    <3>2. k = 1
      BY <3>1
    <3> QED
      BY <2>1, <3>2 DEF Place
  <2>2. CASE splitQuad # -1
    BY <1>1, <2>2 DEF Place
  <2> QED
    BY <2>1, <2>2
<1>5. Packed = [k \in 1 .. Len(Answer) |->
                  [n |-> IF splitQuad = -1 THEN 0 ELSE splitQuad + k - 1,
                   quad |-> Values(Answer[k])]]
  BY DEF Packed
<1> HIDE DEF p, t
<1>6. Packed = t
  BY <1>2, <1>3, <1>4, <1>5
<1>7. Packed # << >>
  BY <1>1, <1>5
<1> QED
  BY <1>6, <1>7 DEF t, p

\* Putting in again what the list has: the same quadrants, some of them twice.
LEMMA PutAgain ==
  ASSUME NEW arr \in Seq(Quadrant), NEW s \in 1 .. Len(arr), NEW p \in Seq(Quadrant),
         Len(p) >= 1, p[1] = arr[s], \A k \in 1 .. Len(p) : p[k] \in ToSet(arr)
  PROVE  /\ Put(arr, s, p) \in Seq(Quadrant)
         /\ ToSet(Put(arr, s, p)) = ToSet(arr)
         /\ s <= Len(Put(arr, s, p)) /\ Put(arr, s, p)[s] = p[1]
<1> DEFINE new == Put(arr, s, p)
<1>1. /\ Len(arr) \in Nat /\ Len(p) \in Nat /\ s \in Nat /\ 1 <= s /\ s <= Len(arr)
      /\ 1 \in 1 .. Len(p) /\ s + 1 - 1 = s
  OBVIOUS
<1>2. /\ new \in Seq(Quadrant) /\ Len(new) = Len(arr) + Len(p) - 1
      /\ \A k \in 1 .. s - 1 : new[k] = arr[k]
      /\ \A k \in 1 .. Len(p) : new[s + k - 1] = p[k]
      /\ \A k \in s + 1 .. Len(arr) : new[k + Len(p) - 1] = arr[k]
  BY PutElements, SMTT(40)
<1>3. ASSUME NEW k \in 1 .. Len(new)
      PROVE  new[k] \in ToSet(arr)
  <2>1. \/ \E j \in 1 .. Len(p) : new[k] = p[j]
        \/ \E j \in 1 .. Len(arr) : new[k] = arr[j]
    BY PutOrigin
  <2> QED
    BY <2>1 DEF ToSet
<1> HIDE DEF new
<1>4. new[s] = p[1]
  BY <1>1, <1>2
<1>5. ASSUME NEW j \in 1 .. Len(arr)
      PROVE  \E k \in 1 .. Len(new) : new[k] = arr[j]
  <2>1. CASE j < s
    BY <1>1, <1>2, <2>1
  <2>2. CASE j = s
    BY <1>1, <1>2, <1>4, <2>2
  <2>3. CASE j > s
    <3>1. j \in s + 1 .. Len(arr) /\ j + Len(p) - 1 \in 1 .. Len(new)
      BY <1>1, <1>2, <2>3
    <3>2. new[j + Len(p) - 1] = arr[j]
      BY <1>2, <3>1
    <3> QED
      BY <3>1, <3>2
  <2> QED
    BY <1>1, <2>1, <2>2, <2>3
<1>6. ToSet(new) = { new[k] : k \in 1 .. Len(new) }
      /\ ToSet(arr) = { arr[k] : k \in 1 .. Len(arr) }
  BY <1>2 DEF ToSet
<1>7. ToSet(new) = ToSet(arr)
  <2>1. ToSet(new) \subseteq ToSet(arr)
    BY <1>3, <1>6
  <2>2. ToSet(arr) \subseteq ToSet(new)
    BY <1>5, <1>6
  <2> QED
    BY <2>1, <2>2
<1>8. s <= Len(new)
  BY <1>1, <1>2
<1>9. new \in Seq(Quadrant)
  BY <1>2
<1> QED
  BY <1>4, <1>7, <1>8, <1>9 DEF new

-----------------------------------------------------------------------------
(* Steps that leave what was received as it is.                            *)

\* A run that has not begun.
Fresh ==
  /\ Current = {} /\ page.segmentArr = << >>
  /\ firstIteration /\ ~IterUnderWay
  /\ page.iterationLow \in {0, 1} /\ page.iteration = page.iterationLow - 1

LEMMA FreshRun ==
  ASSUME Fresh
  PROVE  RunInv
<1>1. \A m \in Answers : m.op # "iter"
  BY DEF Fresh, IterUnderWay, IterAnswered
<1>2. page.iterationLow .. page.iteration - 1 = {}
  BY DEF Fresh
<1>3. ChainIs /\ FirstOrNot /\ Resting /\ Playing
  BY <1>2 DEF Fresh, ChainIs, FirstOrNot, Resting, Playing
<1>4. ValidKnown /\ SlotsKept /\ AnswerFits
  BY <1>1 DEF Fresh, ValidKnown, SlotsKept, AnswerFits
<1>5. ListKept
  BY DEF Fresh, ListKept
<1> QED
  BY <1>3, <1>4, <1>5 DEF RunInv

\* A reset, a repeat and a new chart end the run.
LEMMA BlankedShape ==
  ASSUME ResetSent, BeforeFirst, BaselineBlank
  PROVE  ShapeInv
BY DEF ShapeInv, Live, Synced

\* Engine, answers and quadrants stand as they did.
Still ==
  /\ UNCHANGED << heatVars, segmentChain, run, vizType >>
  /\ Answers' = Answers
  /\ SameChart(page', page)

\* What is said of quadrants speaks of these, and maybe of the iteration.
LEMMA StillValues ==
  ASSUME Still
  PROVE  /\ Current' = Current /\ Packed' = Packed
         /\ IterAnswered' <=> IterAnswered
         /\ AxesAnswered' <=> AxesAnswered
         /\ SlotsKept' <=> SlotsKept
         /\ BaselineBlank' <=> BaselineBlank
         /\ Latest' = Latest => (ListKept' <=> ListKept)
         /\ page'.iteration = page.iteration =>
              /\ Latest' = Latest
              /\ AnswerFits' <=> AnswerFits
              /\ ValidKnown' <=> ValidKnown
<1>1. /\ page'.y = page.y /\ page'.iterationLow = page.iterationLow
      /\ page'.segmentArr = page.segmentArr /\ page'.validCells = page.validCells
      /\ segmentChain' = segmentChain /\ vizType' = vizType
  BY DEF Still, SameChart
<1>2. /\ chart' = chart /\ kBest' = kBest /\ splitQuad' = splitQuad
      /\ newQuads' = newQuads /\ isTwoSeg' = isTwoSeg /\ empties' = empties
  BY DEF Still, heatVars
<1>3. Current' = Current
  BY DEF Still, Current
<1>4. page'.iteration = page.iteration => Latest' = Latest
  BY <1>3 DEF Latest
<1>5. Answer' = Answer
  BY <1>2 DEF Answer
<1>6. Packed' = Packed /\ Place' = Place
  BY <1>2, <1>5 DEF Packed, Place, Values
<1>7. /\ IterAnswered' <=> IterAnswered
      /\ AxesAnswered' <=> AxesAnswered
  BY DEF Still, IterAnswered, AxesAnswered
<1>8. SlotsKept' <=> SlotsKept
  BY <1>1, <1>2, <1>3 DEF SlotsKept, Placed
<1>9. Shown(page.segmentArr)' <=> Shown(page.segmentArr)
  BY <1>1, <1>2, <1>5, <1>6 DEF Shown, Values
<1>10. Latest' = Latest => (ListKept' <=> ListKept)
  BY <1>1, <1>2, <1>3, <1>7, <1>9 DEF ListKept, Moved, Values, Done
<1>11. page'.iteration = page.iteration => (AnswerFits' <=> AnswerFits)
  BY <1>1, <1>2, <1>3, <1>5, <1>6, <1>9
     DEF Still, AnswerFits, WholeAnswer, SplitAnswer, AgainAnswer, Moved, Values,
         Done, Columns, Rows
<1>12. /\ page'.iteration = page.iteration => (ValidKnown' <=> ValidKnown)
       /\ BaselineBlank' <=> BaselineBlank
  BY <1>1, <1>3 DEF Still, ValidKnown, BaselineBlank
<1> QED
  BY <1>3, <1>4, <1>6, <1>7, <1>8, <1>10, <1>11, <1>12

LEMMA StillRun ==
  ASSUME RunInv, Still, page'.iteration = page.iteration,
         IterAsked' <=> IterAsked, Resting', Playing'
  PROVE  RunInv'
<1>1. /\ page'.iterationLow = page.iterationLow /\ page'.iteration = page.iteration
      /\ firstIteration' = firstIteration
  BY DEF Still, SameChart, heatVars
<1>2. Current' = Current /\ (IterAnswered' <=> IterAnswered)
      /\ (IterUnderWay' <=> IterUnderWay)
  BY StillValues DEF IterUnderWay
<1>3. ChainIs'
  BY <1>1, <1>2 DEF RunInv, ChainIs
<1>4. FirstOrNot'
  BY <1>1, <1>2 DEF RunInv, FirstOrNot
<1> QED
  BY <1>1, <1>3, <1>4, StillValues DEF RunInv

\* What is played on after a reset is a run that has not begun.
LEMMA QuietShape ==
  ASSUME OrderInv, ShapeInv, Quiet
  PROVE  ShapeInv'
<1>1. /\ page'.loaded = page.loaded /\ page'.segmentArr = page.segmentArr
      /\ page'.iterationLow = page.iterationLow /\ page'.iteration = page.iteration
      /\ page'.maxIteration = page.maxIteration
      /\ firstIteration' = firstIteration /\ vizType' = vizType
  BY DEF Quiet, SameChart, heatVars
<1>2. /\ Answers' = Answers
      /\ ResetSent' <=> ResetSent
      /\ IterAsked' <=> IterAsked
      /\ IterAnswered' <=> IterAnswered
      /\ IterUnderWay' <=> IterUnderWay
      /\ AxesAnswered' <=> AxesAnswered
  BY NetKept DEF OrderInv, Quiet
<1>3. Still
  BY <1>2 DEF Still, Quiet
<1>4. \/ page'.resetFlag = page.resetFlag
      \/ page'.resetFlag = FALSE /\ Idle
  BY DEF Quiet
<1>5. BeforeFirst'
  BY <1>1, <1>2, <1>4 DEF ShapeInv, BeforeFirst
<1>6. BaselineBlank'
  BY <1>3, StillValues DEF ShapeInv
<1>7. ASSUME vizType = 2, Live'
      PROVE  RunInv'
  <2>1. page.loaded /\ ~ResetSent /\ ~AxesAnswered /\ ~page'.resetFlag
    BY <1>1, <1>2, <1>7 DEF Live, Synced
  <2>2. CASE page.resetFlag
    <3>1. Idle
      BY <1>4, <2>1, <2>2
    <3>2. ~IterUnderWay /\ ~IterAnswered
      BY <3>1, IdleIsQuiet DEF IterUnderWay, IterAsked, IterAnswered
    <3>3. /\ Current = {} /\ page.segmentArr = << >> /\ firstIteration
          /\ page.iteration = page.iterationLow - 1
      BY <2>1, <2>2, <3>2
         DEF OrderInv, BlankAfterReset, ResetOvertakes, ShapeInv, BeforeFirst
    <3>4. Current' = Current
      BY <1>3, StillValues
    <3>5. page.iterationLow \in {0, 1}
      BY DEF OrderInv, PageShape
    <3>6. Fresh'
      BY <1>1, <1>2, <3>2, <3>3, <3>4, <3>5 DEF Fresh
    <3> QED
      BY <3>6, FreshRun, PTL
  <2>3. CASE ~page.resetFlag
    <3>1. RunInv
      BY <1>7, <2>1, <2>3 DEF ShapeInv, Live, Synced
    <3>2. Idle => ~IterUnderWay
      BY IdleIsQuiet DEF IterUnderWay, IterAsked, IterAnswered
    <3>3. Current' = Current
      BY <1>3, StillValues
    <3>4. Resting'
      BY <1>1, <1>2, <3>1, <3>3 DEF RunInv, Resting, Quiet, Steady
    <3>5. Playing'
      BY <1>1, <1>2, <3>1, <3>2 DEF RunInv, Playing, Quiet, Steady
    <3> QED
      BY <1>1, <1>2, <1>3, <3>1, <3>4, <3>5, StillRun
  <2> QED
    BY <2>2, <2>3
<1> QED
  BY <1>1, <1>5, <1>6, <1>7 DEF ShapeInv

\* A run that has not begun asks for its first iteration, any other for the
\* one after the last that was received.
LEMMA AskShape ==
  ASSUME OrderInv, ShapeInv, Ask, PlaysOn
  PROVE  ShapeInv'
<1> DEFINE i == page'.iteration
           m == IterRequest(i)
<1>1. Calls = {} /\ Answers = {} /\ ~ResetSent /\ ~IterUnderWay /\ ~IterAnswered
      /\ ~IterAsked /\ ~AxesAnswered
  BY IdleIsQuiet DEF Ask, IterUnderWay, IterAsked, IterAnswered, AxesAnswered
<1>2. Calls' = {m} /\ ~ResetSent'
  BY <1>1, CallSent DEF OrderInv, OneCall, Ask, IterRequest
<1>3. Answers' = {} /\ Answers' = Answers
  BY <1>1 DEF Ask, Answers
<1>4. IterAsked' /\ IterUnderWay' /\ ~IterAnswered'
  BY <1>2, <1>3 DEF IterUnderWay, IterAsked, IterAnswered, IterRequest
<1>5. /\ page.loaded /\ page'.segmentArr = page.segmentArr
      /\ page'.iterationLow = page.iterationLow /\ page'.maxIteration = page.maxIteration
      /\ firstIteration' = firstIteration /\ vizType' = vizType
      /\ page.iterationLow <= i
  BY DEF Ask, SameChart, heatVars
<1>6. /\ page'.resetFlag = FALSE /\ page'.playFlag = TRUE /\ i <= page.maxIteration
      /\ \/ i = page.iteration + 1 /\ ~page.simplayFlag
         \/ i = page.iteration
  BY DEF PlaysOn
<1>7. /\ page.iterationLow \in {0, 1} /\ page.iteration \in Int /\ i \in Int
      /\ page.maxIteration \in Int /\ page.resetFlag \in BOOLEAN
  BY DEF OrderInv, PageShape, Counting, Ask
<1> HIDE DEF m, i
<1>8. Still
  BY <1>3 DEF Still, Ask
<1>9. Current' = Current
  BY <1>8, StillValues
<1>10. BeforeFirst'
  BY <1>2, <1>6 DEF BeforeFirst
<1>11. BaselineBlank'
  BY <1>8, StillValues DEF ShapeInv
<1>12. Playing' /\ Resting'
  BY <1>4, <1>5, <1>6 DEF Playing, Resting, i
<1>13. AnswerFits'
  BY <1>3 DEF AnswerFits
<1>14. ASSUME Current = {}, page.segmentArr = << >>, firstIteration,
              page.iteration = page.iterationLow - 1
       PROVE  RunInv'
  <2>1. i = page.iterationLow
    BY <1>5, <1>6, <1>7, <1>14
  <2>2. page.iterationLow .. i - 1 = {}
    BY <1>7, <2>1
  <2>3. ChainIs'
    BY <1>5, <1>9, <1>14, <2>2 DEF ChainIs, i
  <2>4. FirstOrNot'
    BY <1>4, <1>5, <1>9, <1>14, <2>1 DEF FirstOrNot, i
  <2>5. ValidKnown' /\ SlotsKept' /\ ListKept'
    BY <1>3, <1>5, <1>9, <1>14 DEF ValidKnown, SlotsKept, ListKept
  <2> QED
    BY <1>12, <1>13, <2>3, <2>4, <2>5 DEF RunInv
<1>15. ASSUME ~firstIteration, Current # {}, RunInv,
              \/ i = page.iteration
              \/ /\ i = page.iteration + 1
                 /\ page.iteration = 0 /\ page.iterationLow = 0 /\ Current = {0}
       PROVE  RunInv'
  <2>1. ChainIs'
    <3>1. CASE i = page.iteration
      BY <1>5, <1>9, <1>15, <3>1 DEF RunInv, ChainIs, i
    <3>2. CASE i = page.iteration + 1 /\ page.iteration = 0
               /\ page.iterationLow = 0 /\ Current = {0}
      <4>1. page'.iterationLow = 0 /\ page'.iteration - 1 = 0
        BY <1>5, <3>2 DEF i
      <4>2. 0 .. 0 = {0}
        OBVIOUS
      <4> QED
        BY <1>9, <3>2, <4>1, <4>2 DEF ChainIs
    <3> QED
      BY <1>15, <3>1, <3>2
  <2>2. FirstOrNot'
    BY <1>5, <1>9, <1>15 DEF FirstOrNot, i
  <2>3. Latest' = Latest
    BY <1>9, <1>15 DEF Latest, i
  <2>4. SlotsKept' /\ ListKept'
    BY <1>8, <1>15, <2>3, StillValues DEF RunInv
  <2>5. ValidKnown'
    <3>1. page'.validCells = page.validCells
      BY DEF Ask, SameChart
    <3> QED
      BY <1>3, <1>9, <1>15, <3>1 DEF RunInv, ValidKnown
  <2> QED
    BY <1>12, <1>13, <2>1, <2>2, <2>4, <2>5 DEF RunInv
<1>16. ASSUME vizType = 2
       PROVE  RunInv'
  <2>1. CASE page.resetFlag
    BY <1>1, <1>14, <2>1
       DEF OrderInv, BlankAfterReset, ResetOvertakes, ShapeInv, BeforeFirst
  <2>2. CASE ~page.resetFlag
    <3>1. RunInv
      BY <1>1, <1>5, <1>16, <2>2 DEF ShapeInv, Live, Synced
    <3>2. CASE page.iteration = page.iterationLow - 1
      <4>1. page.iterationLow .. page.iteration - 1 = {}
        BY <1>7, <3>2
      <4>2. Current = {}
        BY <1>7, <3>1, <3>2, <4>1 DEF RunInv, ChainIs
      <4>3. firstIteration
        BY <1>7, <3>1, <3>2 DEF RunInv, FirstOrNot
      <4>4. page.segmentArr = << >>
        BY <3>1, <4>2 DEF RunInv, ListKept
      <4> QED
        BY <1>14, <3>2, <4>2, <4>3, <4>4
    <3>3. CASE page.iteration # page.iterationLow - 1
      <4>1. ~firstIteration
        BY <1>1, <1>7, <3>1, <3>3 DEF RunInv, FirstOrNot
      <4>2. Current # {}
        BY <1>1, <3>1, <4>1 DEF RunInv, FirstOrNot
      <4>3. CASE i = page.iteration
        BY <1>15, <3>1, <4>1, <4>2, <4>3
      <4>4. CASE i = page.iteration + 1 /\ ~page.simplayFlag
        <5>1. page.iteration \in Current
          BY <1>1, <1>6, <1>7, <3>1, <3>3, <4>4 DEF RunInv, Resting
        <5>2. page.iteration \notin page.iterationLow .. page.iteration - 1
          BY <1>7
        <5>3. page.iteration = 0 /\ page.iterationLow = 0 /\ Current = {0}
          BY <3>1, <5>1, <5>2 DEF RunInv, ChainIs
        <5> QED
          BY <1>15, <3>1, <4>1, <4>2, <4>4, <5>3
      <4> QED
        BY <1>6, <4>3, <4>4
    <3> QED
      BY <3>2, <3>3
  <2> QED
    BY <2>1, <2>2
<1> QED
  BY <1>5, <1>10, <1>11, <1>16 DEF ShapeInv

LEMMA VisualizeShape ==
  ASSUME OrderInv, ShapeInv, NEW c \in Charts, Visualize(c)
  PROVE  ShapeInv'
<1> DEFINE m == AxesRequest(c)
<1>1. Calls = {} /\ ~ResetSent /\ ~IterAsked
  BY IdleIsQuiet DEF Visualize, IterAsked
<1>2. m.op = "axes"
  BY DEF AxesRequest
<1>3. Calls' = {m} /\ ~ResetSent' /\ Answers' = Answers /\ page' = page
  BY <1>1, <1>2, CallSent DEF OrderInv, OneCall, Visualize, Answers
<1>4. ~IterAsked' /\ firstIteration' = firstIteration /\ vizType' = vizType
  BY <1>2, <1>3 DEF IterAsked, Visualize, heatVars
<1>5. Still
  BY <1>3 DEF Still, Visualize, view, SameChart, OrderInv, PageShape
<1>6. /\ Current' = Current
      /\ AxesAnswered' <=> AxesAnswered
      /\ IterUnderWay' <=> IterUnderWay
  BY <1>1, <1>4, <1>5, StillValues DEF IterUnderWay
<1>7. BeforeFirst' /\ BaselineBlank'
  BY <1>1, <1>3, <1>5, StillValues DEF ShapeInv, BeforeFirst
<1>8. ASSUME vizType = 2, Live'
      PROVE  RunInv'
  <2>1. RunInv
    BY <1>1, <1>3, <1>6, <1>8 DEF ShapeInv, Live, Synced
  <2>2. Resting' /\ Playing'
    BY <1>3, <1>6, <2>1 DEF RunInv, Resting, Playing
  <2> QED
    BY <1>1, <1>3, <1>4, <1>5, <2>1, <2>2, StillRun
<1> QED
  BY <1>4, <1>7, <1>8 DEF ShapeInv

LEMMA ServeAxesShape ==
  ASSUME OrderInv, ShapeInv, NEW m \in DOMAIN requests, ServeAxes(m),
         requests' = requests (-) SetToBag({m}),
         UNCHANGED << page, view, run, vizType >>
  PROVE  ShapeInv'
<1> DEFINE a == [op |-> "axes", y |-> Axes(m.chart)]
<1>1. m.op = "axes" /\ replies' = replies (+) SetToBag({a})
  BY DEF ServeAxes
<1>2. a.op = "axes"
  OBVIOUS
<1> HIDE DEF a
<1>3. Calls = {m} /\ (ResetSent' <=> ResetSent)
  BY <1>1, CallTaken DEF OrderInv, OneCall
<1>4. Answers' = {a}
  BY <1>1, <1>3, AnswerSent DEF OrderInv, OneCall
<1>5. AxesAnswered' /\ \A x \in Answers' : x.op # "iter"
  BY <1>2, <1>4 DEF AxesAnswered
<1>6. ~Live'
  BY <1>5 DEF Live, Synced
<1> QED
  BY <1>3, <1>5, <1>6 DEF ShapeInv, BeforeFirst, BaselineBlank

\* A reset that arrives finds no iteration under way, unless the page waits
\* to reset once more.
LEMMA ServeResetShape ==
  ASSUME OrderInv, ShapeInv, NEW m \in DOMAIN requests, ServeReset(m),
         requests' = requests (-) SetToBag({m}),
         UNCHANGED << page, view, run, vizType >>
  PROVE  ShapeInv'
<1>1. m.op = "reset" /\ firstIteration' /\ replies' = replies
  BY DEF ServeReset, Reset
<1>2. Calls' = Calls /\ ResetSent
  BY <1>1, ResetTaken DEF OrderInv, OneCall
<1>3. Answers' = Answers /\ (IterUnderWay' <=> IterUnderWay)
  BY <1>1, <1>2 DEF Answers, IterUnderWay, IterAsked, IterAnswered
<1>4. page' = page /\ Current' = Current /\ vizType' = vizType
  BY DEF view, Current
<1>5. /\ page.segmentArr = << >> /\ Current = {}
      /\ page.iteration = page.iterationLow - 1
  BY <1>2 DEF OrderInv, BlankAfterReset, ShapeInv, BeforeFirst
<1>6. BeforeFirst' /\ BaselineBlank'
  BY <1>3, <1>4, <1>5 DEF ShapeInv, BeforeFirst, BaselineBlank
<1>7. ASSUME Live'
      PROVE  RunInv'
  <2>1. ~page.resetFlag
    BY <1>4, <1>7 DEF Live
  <2>2. ~IterUnderWay
    BY <1>2, <2>1 DEF OrderInv, ResetOvertakes
  <2>3. page.iterationLow \in {0, 1}
    BY DEF OrderInv, PageShape
  <2>4. Fresh'
    BY <1>1, <1>3, <1>4, <1>5, <2>2, <2>3 DEF Fresh
  <2> QED
    BY <2>4, FreshRun, PTL
<1> QED
  BY <1>6, <1>7 DEF ShapeInv

-----------------------------------------------------------------------------
(* The server answers an iteration.                                        *)

LEMMA ServedRun ==
  ASSUME RunInv, IterUnderWay,
         page' = page, segmentChain' = segmentChain, run' = run,
         NEW a, Answers' = {a}, a.op = "iter", a.sl = Packed',
         page.iteration = 1 => a.validCells # Unknown,
         firstIteration' = FALSE, page.iteration >= page.iterationLow,
         page.iteration \in Slots, page.iteration \notin Current,
         (\/ WholeAnswer(page.iteration) \/ SplitAnswer(page.iteration)
          \/ AgainAnswer(page.iteration))',
         SlotsKept', ListKept'
  PROVE  RunInv'
<1>1. Current' = Current
  BY DEF Current
<1>2. IterAnswered' /\ IterUnderWay'
  BY DEF IterAnswered, IterUnderWay
<1>3. ChainIs'
  BY <1>1 DEF RunInv, ChainIs
<1>4. FirstOrNot'
  BY <1>1, <1>2 DEF FirstOrNot
<1>5. Resting' /\ Playing'
  BY <1>2 DEF RunInv, Resting, Playing
<1>6. ValidKnown'
  BY <1>1 DEF RunInv, ValidKnown
<1>7. AnswerFits'
  BY <1>1 DEF AnswerFits
<1> QED
  BY <1>3, <1>4, <1>5, <1>6, <1>7 DEF RunInv

\* The first answer of a run: one quadrant over the grid.
LEMMA FirstAnswer ==
  ASSUME HeatTypeOK, RunInv, Current = {}, NEW i \in Slots, GenHeatFirst(i),
         page' = page, segmentChain' = segmentChain, run' = run
  PROVE  WholeAnswer(i)' /\ SlotsKept' /\ ListKept'
<1>1. Current' = {}
  BY DEF Current
<1>2. /\ kBest' = [kBest EXCEPT ![i] = WholeGrid(Columns, Rows)]
      /\ newQuads' = [newQuads EXCEPT ![1] = Quad(0, Columns - 1, 0, Rows - 1)]
      /\ splitQuad' = -1 /\ chart' = chart
  BY DEF GenHeatFirst
<1>3. kBest'[i] = WholeGrid(Columns, Rows)
  BY <1>2 DEF HeatTypeOK
<1>4. newQuads'[1] = Quad(0, Columns - 1, 0, Rows - 1)
  BY <1>2 DEF HeatTypeOK
<1>5. Answer' = WholeGrid(Columns, Rows)
  BY <1>2, <1>4 DEF Answer, WholeGrid
<1>6. Columns' = Columns /\ Rows' = Rows
  BY <1>2 DEF Columns, Rows
<1>7. WholeAnswer(i)'
  BY <1>1, <1>2, <1>3, <1>5, <1>6 DEF WholeAnswer
<1>8. SlotsKept' /\ ListKept'
  BY <1>1 DEF SlotsKept, ListKept, RunInv
<1> QED
  BY <1>7, <1>8

\* A next one: the pieces of a quadrant of the page's list, or once more what
\* the list has already.
LEMMA NextAnswer ==
  ASSUME HeatTypeOK, KBestTiles, RunInv, ~IterAnswered, Answers' # {},
         NEW i, i = page.iteration, i - 1 \in Current, i \notin Current,
         i \in Int, GenHeatNext(i), IterAnswered',
         page' = page, segmentChain' = segmentChain, run' = run
  PROVE  /\ i \in Slots
         /\ SplitAnswer(i)' \/ AgainAnswer(i)'
         /\ SlotsKept' /\ ListKept'
<1> DEFINE prev == kBest[i - 1]
<1>1. /\ i \in Slots /\ i - 1 \in Slots /\ i > 0 /\ i - 1 # i
  BY SizeAssumption DEF GenHeatNext, Slots
<1>2. Current' = Current /\ chart' = chart /\ Latest = i - 1
  BY DEF Current, GenHeatNext, Latest
<1>3. empties \subseteq empties'
  BY DEF GenHeatNext, Sample
<1>4. \/ NothingToSplit(i)
      \/ \E s \in Divisible(prev) :
           \E c \in Cells(prev[s]) \ empties' : SplitAt(i, s, c[1], c[2])
  BY DEF GenHeatNext
<1>5. /\ page.segmentArr \in Seq(Quadrant) /\ Shown(page.segmentArr)
      /\ page.segmentArr = segmentChain[i - 1].quads
      /\ page.segmentArr = Moved(prev) \/ Done(i - 1)
  BY <1>2 DEF RunInv, ListKept
<1>6. \A j \in Slots : j # i => kBest'[j] = kBest[j]
  BY <1>4 DEF NothingToSplit, SplitAt, HeatTypeOK
<1>7. kBest'[i - 1] = prev
  BY <1>1, <1>6
<1>8. SlotsKept'
  <2> SUFFICES ASSUME NEW j \in Current
               PROVE  j \in Slots /\ Placed(segmentChain[j].quads)' = ToSet(kBest'[j])
    BY <1>2 DEF SlotsKept
  <2>1. j \in Slots /\ Placed(segmentChain[j].quads) = ToSet(kBest[j])
    BY DEF RunInv, SlotsKept
  <2>2. kBest'[j] = kBest[j]
    BY <1>6, <2>1
  <2>3. Placed(segmentChain[j].quads)' = Placed(segmentChain[j].quads)
    BY DEF Placed
  <2> QED
    BY <2>1, <2>2, <2>3
<1>9. Moved(kBest[i - 1])' = Moved(prev)
  BY <1>2, <1>7 DEF Moved, Values
<1>10. Done(i - 1) => Done(i - 1)'
  BY <1>3, <1>7 DEF Done
<1>11. Latest' = i - 1
  BY <1>2 DEF Latest
<1>12. ListKept'
  <2>1. (page.segmentArr = Moved(kBest[i - 1]) \/ Done(i - 1))'
    BY <1>5, <1>9, <1>10
  <2>2. (page.segmentArr = Moved(kBest[Latest]) \/ Done(Latest))'
    BY <1>11, <2>1
  <2>3. (page.segmentArr = segmentChain[Latest].quads)'
    BY <1>5, <1>11
  <2>4. (page.segmentArr = << >> <=> Current = {})'
    BY <1>2 DEF RunInv, ListKept
  <2> QED
    BY <1>2, <1>5, <1>11, <2>2, <2>3, <2>4 DEF ListKept
<1>13. CASE NothingToSplit(i)
  <2>1. /\ DivisibleCells(prev) \subseteq empties'
        /\ kBest' = [kBest EXCEPT ![i] = prev]
        /\ splitQuad' = splitQuad /\ newQuads' = newQuads /\ isTwoSeg' = isTwoSeg
    BY <1>13 DEF NothingToSplit
  <2>2. kBest'[i] = kBest'[i - 1]
    BY <1>1, <1>7, <2>1 DEF HeatTypeOK
  <2>3. Done(i - 1)'
    BY <1>7, <2>1 DEF Done
  <2>4. Answer' = Answer /\ Place' = Place
    BY <2>1 DEF Answer, Place
  <2>5. Shown(page.segmentArr)'
    BY <1>2, <1>5, <2>4 DEF Shown, Values
  <2> QED
    BY <1>1, <1>2, <1>8, <1>12, <2>2, <2>3, <2>5 DEF AgainAnswer
<1>14. CASE \E s \in Divisible(prev) :
              \E c \in Cells(prev[s]) \ empties' : SplitAt(i, s, c[1], c[2])
  <2>1. PICK s \in Divisible(prev) :
          \E c \in Cells(prev[s]) \ empties' : SplitAt(i, s, c[1], c[2])
    BY <1>14
  <2>2. PICK c \in Cells(prev[s]) : c \notin empties' /\ SplitAt(i, s, c[1], c[2])
    BY <2>1
  <2>3. << c[1], c[2] >> \in Cells(prev[s])
    BY DEF Cells
  <2>4. c \in DivisibleCells(prev)
    BY <2>1, <2>2 DEF DivisibleCells
  <2>5. page.segmentArr = Moved(prev)
    BY <1>3, <1>5, <2>2, <2>4 DEF Done
  <2>6. /\ splitQuad' \in Int /\ splitQuad' >= -1
        /\ splitQuad' + 1 = s /\ s \in 1 .. Len(prev)
        /\ kBest'[i] = Put(prev, s, Answer')
        /\ Answer' \in Seq(CellQuad) /\ (Len(Answer') = 2 \/ Len(Answer') = 4)
        /\ Fits(Answer', prev[s])
    BY <1>1, <2>2, <2>3, SplitAtKeeps
  <2>7. splitQuad' # -1
    BY <2>6
  <2>8. SplitAnswer(i)'
    BY <1>1, <1>7, <1>9, <2>5, <2>6, <2>7 DEF SplitAnswer
  <2> QED
    BY <1>1, <1>8, <1>12, <2>8
<1> QED
  BY <1>4, <1>13, <1>14

LEMMA ServeIterShape ==
  ASSUME OrderInv, OrderInv', ShapeInv, NEW m \in DOMAIN requests, ServeIter(m),
         requests' = requests (-) SetToBag({m}),
         UNCHANGED << page, view, run, vizType >>
  PROVE  ShapeInv'
<1> DEFINE a == [op |-> "iter", y |-> Axes(chart),
                 sl |-> IF vizType = 2 THEN PackCells ELSE << >>,
                 validCells |-> IF m.iter = 1 THEN ValidCells ELSE Unknown]
           i == page.iteration
<1>1. m.op = "iter" /\ replies' = replies (+) SetToBag({a})
      /\ (vizType = 2 => GenHeat(m.iter))
  BY DEF ServeIter
<1>2. /\ a.op = "iter" /\ (vizType = 2 => a.sl = PackCells)
      /\ (vizType # 2 => a.sl = << >>)
      /\ (m.iter = 1 => a.validCells = ValidCells)
  OBVIOUS
<1> HIDE DEF a
<1>3. /\ Calls = {m} /\ Calls' = {}
      /\ ResetSent' <=> ResetSent
  BY <1>1, CallTaken DEF OrderInv, OneCall
<1>4. /\ page.loaded /\ Loaded /\ Answers = {} /\ chart \in Charts
  BY <1>1, <1>3, AskedIsInGrid
<1>5. Answers' = {a}
  BY <1>1, <1>4, AnswerSent DEF OrderInv, OneCall
<1>6. IterUnderWay /\ ~IterAnswered /\ ~AxesAnswered /\ IterAnswered'
  BY <1>1, <1>2, <1>3, <1>4, <1>5 DEF IterUnderWay, IterAsked, IterAnswered, AxesAnswered
<1>7. page' = page /\ segmentChain' = segmentChain /\ run' = run /\ vizType' = vizType
  BY DEF view
<1>8. BeforeFirst' /\ BaselineBlank'
  BY <1>2, <1>3, <1>5, <1>7 DEF ShapeInv, BeforeFirst, BaselineBlank
<1>9. ASSUME vizType = 2, Live'
      PROVE  RunInv'
  <2>1. ~page.resetFlag /\ ~ResetSent
    BY <1>3, <1>7, <1>9 DEF Live, Synced
  <2>2. RunInv
    BY <1>4, <1>6, <1>9, <2>1 DEF ShapeInv, Live, Synced
  <2>3. /\ m.iter = i /\ page.iterationLow <= i
        /\ i \in Int /\ page.iterationLow \in {0, 1}
    BY <1>1, <1>3, <1>6, <2>1
       DEF OrderInv, AskedIsCurrent, PageShape, Counting
  <2>4. /\ GenHeat(i) /\ HeatTypeOK /\ KBestTiles
    BY <1>1, <1>9, <2>3 DEF OrderInv, HeatInv
  <2>5. chart' = chart /\ firstIteration' = FALSE
    BY <2>4 DEF GenHeat, GenHeatFirst, GenHeatNext, HeatTypeOK
  <2>6. i = 1 => a.validCells # Unknown
    <3>1. empties' \cap Plane = EmptyOf[chart]
      BY <1>4, <2>5
         DEF OrderInv, HeatInv, EmptiesExact, Loaded, Plane, Columns, Rows
    <3>2. ValidCells = { << d[1] + XMinOf[chart], d[2] + YMinOf[chart] >> :
                          d \in EmptyOf[chart] }
      BY <3>1 DEF ValidCells
    <3> QED
      BY <1>2, <1>4, <2>3, <3>2, UnknownAssumption
  <2>7. a.sl = Packed'
    BY <1>2, <1>9, <2>5 DEF PackCells, Packed, Values
  <2>8. CASE GenHeatFirst(i)
    <3>1. firstIteration
      BY <2>8 DEF GenHeatFirst
    <3>2. Current = {}
      BY <2>2, <3>1 DEF RunInv, FirstOrNot
    <3>3. i \in Slots
      BY <2>3, <2>8, SizeAssumption DEF GenHeatFirst, Slots
    <3>4. WholeAnswer(i)' /\ SlotsKept' /\ ListKept'
      BY <1>7, <2>2, <2>4, <2>8, <3>2, <3>3, FirstAnswer
    <3> QED
      BY <1>2, <1>5, <1>6, <1>7, <2>2, <2>3, <2>5, <2>6, <2>7, <3>2, <3>3, <3>4,
         ServedRun
  <2>9. CASE GenHeatNext(i)
    <3>1. ~firstIteration /\ i > 0
      BY <2>9 DEF GenHeatNext
    <3>2. Current = page.iterationLow .. i - 1 /\ Current # {}
      BY <1>6, <2>2, <3>1 DEF RunInv, FirstOrNot, ChainIs
    <3>3. i - 1 \in Current /\ i \notin Current
      BY <2>3, <3>2
    <3>4. /\ i \in Slots
          /\ SplitAnswer(i)' \/ AgainAnswer(i)'
          /\ SlotsKept' /\ ListKept'
      BY <1>5, <1>6, <1>7, <2>2, <2>3, <2>4, <2>9, <3>3, NextAnswer
    <3> QED
      BY <1>2, <1>5, <1>6, <1>7, <2>2, <2>3, <2>5, <2>6, <2>7, <3>3, <3>4, ServedRun
  <2> QED
    BY <2>4, <2>8, <2>9 DEF GenHeat
<1> QED
  BY <1>7, <1>8, <1>9 DEF ShapeInv

-----------------------------------------------------------------------------
(* The page splices an answer in.                                          *)

LEMMA SplicedPacked ==
  ASSUME HeatTypeOK, Loaded, NEW arr \in Seq(Quadrant), Place + 1 \in 1 .. Len(arr)
  PROVE  Spliced(arr, Packed) = Put(arr, Place + 1, Moved(Answer))
<1> DEFINE p == Moved(Answer)
           s == Place + 1
<1>1. /\ Answer \in Seq(CellQuad)
      /\ Len(Answer) = 1 \/ Len(Answer) = 2 \/ Len(Answer) = 4
  BY AnswerShape
<1>2. p \in Seq(Quadrant) /\ Len(p) = Len(Answer)
  BY <1>1, MovedList
<1>3. Packed = Places(s, p)
  BY PackedPlaces
<1>4. s \in 1 .. Len(arr)
  OBVIOUS
<1> HIDE DEF p, s
<1>5. CASE Len(p) = 2 \/ Len(p) = 4
  BY <1>2, <1>3, <1>4, <1>5, SplicedIsPut DEF p, s
<1>6. CASE Len(p) = 1
  <2> DEFINE sl == Places(s, p)
  <2>1. Len(sl) = 1 /\ sl[1].n = s + 1 - 2 /\ sl[1].quad = p[1]
    BY <1>6 DEF Places
  <2> HIDE DEF sl
  <2>2. Spliced(arr, sl) = Splice(arr, sl[1].n, 1, sl[1].quad)
    BY <2>1 DEF Spliced
  <2>3. s + 1 - 2 = s - 1
    BY <1>4
  <2>4. Splice(arr, s - 1, 1, p[1]) = Put(arr, s, p)
    BY <1>2, <1>4, <1>6, SplicedOver
  <2>5. Spliced(arr, sl) = Put(arr, s, p)
    BY <2>1, <2>2, <2>3, <2>4
  <2> QED
    BY <1>3, <2>5 DEF sl, p, s
<1> QED
  BY <1>1, <1>2, <1>5, <1>6

\* What was spliced in is in the list from then on.
LEMMA PutShows ==
  ASSUME HeatTypeOK, Loaded, NEW arr \in Seq(Quadrant), Place + 1 \in 1 .. Len(arr)
  PROVE  /\ Put(arr, Place + 1, Moved(Answer)) \in Seq(Quadrant)
         /\ Shown(Put(arr, Place + 1, Moved(Answer)))
<1> DEFINE p   == Moved(Answer)
           s   == Place + 1
           new == Put(arr, s, p)
<1>1. Answer \in Seq(CellQuad) /\ Len(Answer) \in Nat /\ Len(Answer) >= 1
  BY AnswerShape, AnswerLen
<1>2. /\ p \in Seq(Quadrant) /\ Len(p) = Len(Answer)
      /\ \A k \in 1 .. Len(Answer) : p[k] = Values(Answer[k])
  BY <1>1, MovedList
<1>3. s \in 1 .. Len(arr) /\ Len(p) >= 1 /\ s \in Nat /\ Len(arr) \in Nat
  BY <1>1, <1>2, AnswerShape
<1> HIDE DEF p, s
<1>4. Replaced(new, arr, s, p)
  BY <1>2, <1>3, PutReplaces
<1> HIDE DEF new
<1>5. new \in Seq(Quadrant) /\ Len(new) = Len(arr) + Len(p) - 1
  BY <1>4 DEF Replaced
<1>6. ASSUME NEW k \in 1 .. Len(Answer)
      PROVE  s + k - 1 \in 1 .. Len(new) /\ new[s + k - 1] = Values(Answer[k])
  <2> DEFINE j == s + k - 1
  <2>1. j \in 1 .. Len(arr) + Len(p) - 1
    BY <1>1, <1>2, <1>3
  <2>2. ~(j < s) /\ j < s + Len(p) /\ j - s + 1 = k
    BY <1>1, <1>2, <1>3
  <2> HIDE DEF j
  <2>3. new[j] = p[j - s + 1]
    BY <1>4, <2>1, <2>2 DEF Replaced
  <2> QED
    BY <1>2, <1>5, <2>1, <2>2, <2>3 DEF j
<1>7. s <= Len(new) /\ new[s] = Values(Answer[1])
  <2>1. 1 \in 1 .. Len(Answer) /\ s + 1 - 1 = s
    BY <1>1, <1>3
  <2>2. s \in 1 .. Len(new) /\ new[s] = Values(Answer[1])
    BY <1>6, <2>1
  <2> QED
    BY <2>2
<1>8. \A k \in 1 .. Len(Answer) : Values(Answer[k]) \in ToSet(new)
  BY <1>5, <1>6 DEF ToSet
<1>9. Shown(new)
  BY <1>7, <1>8 DEF Shown, s
<1> QED
  BY <1>5, <1>9 DEF new, p, s

\* The list that an answer makes: the engine's own, or the same quadrants.
LEMMA ListAfter ==
  ASSUME HeatTypeOK, Loaded, page.segmentArr \in Seq(Quadrant), NEW i \in Slots,
         \/ WholeAnswer(i) /\ page.segmentArr = << >>
         \/ SplitAnswer(i)
         \/ AgainAnswer(i),
         NEW new, new = Spliced(page.segmentArr, Packed)
  PROVE  /\ new \in Seq(Quadrant) /\ new # << >> /\ Shown(new)
         /\ \/ new = Moved(kBest[i])
            \/ AgainAnswer(i) /\ ToSet(new) = ToSet(page.segmentArr)
<1> DEFINE arr == page.segmentArr
           p   == Moved(Answer)
<1>1. Answer \in Seq(CellQuad) /\ Len(Answer) \in Nat /\ Len(Answer) >= 1 /\ Place \in Nat
  BY AnswerShape, AnswerLen
<1>2. /\ p \in Seq(Quadrant) /\ Len(p) = Len(Answer)
      /\ \A k \in 1 .. Len(Answer) : p[k] = Values(Answer[k])
  BY <1>1, MovedList
<1> HIDE DEF p
<1>3. CASE WholeAnswer(i) /\ arr = << >>
  <2>1. Place = 0 /\ Answer = kBest[i] /\ Len(Answer) = 1
    BY <1>3 DEF WholeAnswer, Place, WholeGrid
  <2>2. Answer[1] \in CellQuad
    BY <1>1, ElementOfSeq
  <2>3. p[1] = Values(Answer[1]) /\ p[1] \in Quadrant
    BY <1>2, <2>1, <2>2, ValuesQuadrant
  <2>4. p = << p[1] >>
    BY <1>2, <2>1
  <2>5. Packed = Places(1, << p[1] >>)
    BY <2>1, <2>4, PackedPlaces DEF p
  <2>6. Spliced(<< >>, Packed) = << p[1] >>
    BY <2>3, <2>5, SplicedFirst
  <2>7. new = << p[1] >> /\ new = p
    BY <1>3, <2>4, <2>6
  <2>8. Len(new) = 1 /\ new[1] = Values(Answer[1]) /\ new[1] \in ToSet(new)
    BY <2>3, <2>7 DEF ToSet
  <2>9. Shown(new)
    BY <2>1, <2>8 DEF Shown
  <2> QED
    BY <1>2, <2>1, <2>7, <2>8, <2>9 DEF p
<1>4. ASSUME Place + 1 \in 1 .. Len(arr)
      PROVE  /\ new \in Seq(Quadrant) /\ new # << >> /\ Shown(new)
             /\ new = Put(arr, Place + 1, p)
  <2>1. new = Put(arr, Place + 1, p)
    BY <1>4, SplicedPacked DEF p
  <2>2. new \in Seq(Quadrant) /\ Shown(new)
    BY <1>4, <2>1, PutShows DEF p
  <2>3. new # << >>
    BY <1>1, <2>2 DEF Shown
  <2> QED
    BY <2>1, <2>2, <2>3
<1>5. CASE SplitAnswer(i)
  <2> DEFINE prev == kBest[i - 1]
             s    == splitQuad + 1
  <2>1. /\ s \in 1 .. Len(prev) /\ arr = Moved(prev) /\ i - 1 \in Slots
        /\ kBest[i] = Put(prev, s, Answer) /\ Place = splitQuad
    BY <1>5 DEF SplitAnswer, Place
  <2>2. prev \in Seq(CellQuad)
    BY <2>1 DEF HeatTypeOK
  <2>3. Len(arr) = Len(prev)
    BY <2>1, <2>2, MovedList
  <2>4. Place + 1 \in 1 .. Len(arr) /\ Place + 1 = s
    BY <2>1, <2>3
  <2>5. Moved(kBest[i]) = Put(arr, s, p)
    BY <1>1, <2>1, <2>2, MovedPut DEF p
  <2> QED
    BY <1>4, <2>4, <2>5
<1>6. CASE AgainAnswer(i)
  <2>1. /\ Place + 1 <= Len(arr) /\ arr[Place + 1] = Values(Answer[1])
        /\ \A k \in 1 .. Len(Answer) : Values(Answer[k]) \in ToSet(arr)
    BY <1>6 DEF AgainAnswer, Shown
  <2>2. Place + 1 \in 1 .. Len(arr)
    BY <1>1, <2>1
  <2>3. /\ p[1] = arr[Place + 1]
        /\ \A k \in 1 .. Len(p) : p[k] \in ToSet(arr)
    BY <1>1, <1>2, <2>1
  <2>4. ToSet(Put(arr, Place + 1, p)) = ToSet(arr)
    BY <1>1, <1>2, <2>2, <2>3, PutAgain
  <2> QED
    BY <1>4, <1>6, <2>2, <2>4
<1> QED
  BY <1>3, <1>5, <1>6

\* The answer that is accepted is that of the run's next iteration, on a page
\* that shows the one before.
Accepted(m) ==
  /\ vizType = 2 /\ RunInv /\ HeatTypeOK /\ Loaded
  /\ page.y = Axes(chart) /\ ~firstIteration /\ IterUnderWay
  /\ page.iteration \in Int /\ page.iterationLow \in {0, 1}
  /\ page.iterationLow <= page.iteration
  /\ page.iteration = 1 => m.validCells # Unknown
  /\ page.iteration \in Slots /\ page.iteration \notin Current
  /\ page.segmentArr \in Seq(Quadrant)
  /\ \/ WholeAnswer(page.iteration) /\ page.segmentArr = << >>
     \/ SplitAnswer(page.iteration)
     \/ AgainAnswer(page.iteration)
  /\ ArrAfter(m) = Spliced(page.segmentArr, Packed)

LEMMA AcceptIsAccepted ==
  ASSUME OrderInv, ShapeInv, NEW m \in DOMAIN replies, m.op = "iter",
         replies' = replies (-) SetToBag({m}), Accept(m)
  PROVE  Accepted(m)
<1>1. ~page.resetFlag /\ m.sl # << >>
  BY DEF Accept
<1>2. /\ Answers = {m} /\ IterUnderWay /\ ~AxesAnswered /\ ~ResetSent
      /\ page.loaded = TRUE
      /\ page.iterationLow \in {0, 1} /\ page.iteration \in Int
      /\ page.iterationLow <= page.iteration
  BY <1>1, AnswerComes
<1>3. Loaded /\ page.y = Axes(chart) /\ HeatTypeOK
  BY <1>2 DEF OrderInv, AxesAgree, HeatInv
<1>4. IterAnswered
  BY <1>2 DEF IterAnswered
<1>5. ~firstIteration
  BY <1>1, <1>4 DEF OrderInv, ResetOvertakes
<1>6. vizType = 2
  BY <1>1, <1>2 DEF ShapeInv, BaselineBlank
<1>7. RunInv
  BY <1>1, <1>2, <1>6 DEF ShapeInv, Live, Synced
<1>8. /\ m.sl = Packed
      /\ page.iteration \in Slots /\ page.iteration \notin Current
      /\ \/ WholeAnswer(page.iteration) \/ SplitAnswer(page.iteration)
         \/ AgainAnswer(page.iteration)
  BY <1>2, <1>7 DEF RunInv, AnswerFits
<1>9. page.segmentArr \in Seq(Quadrant) /\ (Current = {} => page.segmentArr = << >>)
  BY <1>7 DEF RunInv, ListKept
<1>10. page.iteration = 1 => m.validCells # Unknown
  BY <1>2, <1>7 DEF RunInv, ValidKnown
<1>11. WholeAnswer(page.iteration) => page.segmentArr = << >>
  BY <1>9 DEF WholeAnswer
<1>12. ArrAfter(m) = Spliced(page.segmentArr, Packed)
  BY <1>8 DEF ArrAfter
<1> QED
  BY <1>2, <1>3, <1>5, <1>6, <1>7, <1>8, <1>9, <1>10, <1>11, <1>12 DEF Accepted

\* The iteration joins those that were received.
LEMMA AcceptChain ==
  ASSUME NEW m, Accepted(m), segmentChain' = ChainAfter(m), run' = run
  PROVE  /\ Current' = Current \cup {page.iteration}
         /\ segmentChain'[page.iteration].quads = ArrAfter(m)
         /\ \A j \in Current : segmentChain'[j] = segmentChain[j]
         /\ Current = page.iterationLow .. page.iteration - 1
         /\ page.iteration + 1 \notin Current'
         /\ Current' = page.iterationLow .. page.iteration
<1> DEFINE i == page.iteration
<1>1. i \notin Current /\ i \in Int /\ page.iterationLow <= i
      /\ page.iterationLow \in Int
  BY DEF Accepted
<1>2. /\ DOMAIN segmentChain' = DOMAIN segmentChain \cup {i}
      /\ segmentChain'[i].run = run /\ segmentChain'[i].quads = ArrAfter(m)
      /\ \A j \in DOMAIN segmentChain : j # i => segmentChain'[j] = segmentChain[j]
  BY DEF ChainAfter, Entry
<1>3. Current' = Current \cup {i}
  BY <1>2 DEF Current
<1>4. Current = page.iterationLow .. i - 1
  BY <1>1 DEF Accepted, RunInv, ChainIs
<1>5. \A j \in Current : segmentChain'[j] = segmentChain[j]
  BY <1>1, <1>2 DEF Current
<1>6. Current' = page.iterationLow .. i /\ i + 1 \notin Current'
  BY <1>1, <1>3, <1>4
<1> QED
  BY <1>2, <1>3, <1>4, <1>5, <1>6

\* What is kept of it, and shown, are the engine's quadrants.
LEMMA AcceptKeeps ==
  ASSUME NEW m, Accepted(m), segmentChain' = ChainAfter(m),
         UNCHANGED << heatVars, run >>, page'.y = page.y,
         page'.segmentArr = ArrAfter(m),
         page'.iteration \in {page.iteration, page.iteration + 1}
  PROVE  SlotsKept' /\ ListKept'
<1> DEFINE arr == page.segmentArr
<1>0. PICK i, new : i = page.iteration /\ new = ArrAfter(m)
  OBVIOUS
<1>1. /\ HeatTypeOK /\ Loaded /\ i \in Slots /\ i \in Int /\ RunInv
      /\ page.y = Axes(chart)
  BY <1>0 DEF Accepted
<1>2. /\ chart' = chart /\ kBest' = kBest /\ splitQuad' = splitQuad
      /\ newQuads' = newQuads /\ isTwoSeg' = isTwoSeg /\ empties' = empties
  BY DEF heatVars
<1>3. /\ Current' = Current \cup {i} /\ segmentChain'[i].quads = new
      /\ \A j \in Current : segmentChain'[j] = segmentChain[j]
      /\ Current = page.iterationLow .. i - 1 /\ i + 1 \notin Current'
  BY <1>0, AcceptChain
<1>4. /\ new \in Seq(Quadrant) /\ new # << >> /\ Shown(new)
      /\ \/ new = Moved(kBest[i])
         \/ AgainAnswer(i) /\ ToSet(new) = ToSet(arr)
  BY <1>0, ListAfter DEF Accepted
<1>5. ASSUME AgainAnswer(i), ToSet(new) = ToSet(arr)
      PROVE  Placed(new) = ToSet(kBest[i]) /\ Done(i)
  <2>1. i - 1 \in Current /\ Done(i - 1) /\ kBest[i] = kBest[i - 1]
    BY <1>5 DEF AgainAnswer
  <2>2. i \notin Current
    BY <1>0 DEF Accepted
  <2>3. arr = segmentChain[i - 1].quads
    BY <1>0, <2>1, <2>2 DEF Accepted, RunInv, ListKept, Latest
  <2>4. Placed(arr) = ToSet(kBest[i - 1])
    BY <1>1, <2>1, <2>3 DEF RunInv, SlotsKept
  <2>5. Placed(new) = Placed(arr)
    BY <1>5 DEF Placed
  <2> QED
    BY <2>1, <2>4, <2>5 DEF Done
<1>6. Placed(new) = ToSet(kBest[i])
  <2>1. CASE new = Moved(kBest[i])
    <3>1. kBest[i] \in Seq(CellQuad)
      BY <1>1 DEF HeatTypeOK
    <3> QED
      BY <1>1, <2>1, <3>1, PlacedMoved
  <2> QED
    BY <1>4, <1>5, <2>1
<1>7. SlotsKept'
  <2> SUFFICES ASSUME NEW j \in Current'
               PROVE  j \in Slots
                      /\ Placed(segmentChain[j].quads)' = ToSet(kBest'[j])
    BY DEF SlotsKept
  <2>1. CASE j = i
    <3>1. Placed(segmentChain[i].quads)' = Placed(new)
      BY <1>3 DEF Placed
    <3> QED
      BY <1>1, <1>2, <1>6, <2>1, <3>1
  <2>2. CASE j \in Current
    <3>1. Placed(segmentChain[j].quads)' = Placed(segmentChain[j].quads)
      BY <1>3, <2>2 DEF Placed
    <3> QED
      BY <1>1, <1>2, <2>2, <3>1 DEF RunInv, SlotsKept
  <2> QED
    BY <1>3, <2>1, <2>2
<1>8. Latest' = i
  BY <1>0, <1>1, <1>3 DEF Latest
<1>9. Shown(new)' <=> Shown(new)
  <2>1. Answer' = Answer /\ Place' = Place
    BY <1>2 DEF Answer, Place
  <2>2. Values(Answer[1])' = Values(Answer[1])
        /\ \A k : Values(Answer[k])' = Values(Answer[k])
    BY <1>2, <2>1 DEF Values
  <2> QED
    BY <2>1, <2>2 DEF Shown
<1>10. ListKept'
  <2>1. i \in Current' /\ Current' # {}
    BY <1>3
  <2>2. (page.segmentArr = Moved(kBest[i]) \/ Done(i))'
    <3>1. Moved(kBest[i])' = Moved(kBest[i])
      BY <1>2 DEF Moved, Values
    <3>2. Done(i)' <=> Done(i)
      BY <1>2 DEF Done
    <3> QED
      BY <1>0, <1>4, <1>5, <3>1, <3>2
  <2>3. page'.segmentArr = new
    BY <1>0
  <2>4. (page.segmentArr = segmentChain[Latest].quads)'
    BY <1>3, <1>8, <2>3
  <2>5. (page.segmentArr = Moved(kBest[Latest]) \/ Done(Latest))'
    BY <1>8, <2>2
  <2>6. Shown(page.segmentArr)'
    BY <1>4, <1>9, <2>3 DEF Shown
  <2> QED
    BY <1>4, <1>8, <2>1, <2>3, <2>4, <2>5, <2>6 DEF ListKept
<1> QED
  BY <1>7, <1>10

\* The run goes on, ends where the iterations end, or waits for the user; the
\* first iteration after Repeat may leave the page without its empty cells.
LEMMA AcceptShape ==
  ASSUME OrderInv, ShapeInv, NEW m \in DOMAIN replies, m.op = "iter",
         replies' = replies (-) SetToBag({m}),
         UNCHANGED << heatVars, run, vizType >>, Accept(m)
  PROVE  ShapeInv'
<1>1. Accepted(m)
  BY AcceptIsAccepted
<1> DEFINE i == page.iteration
           k == IterRequest(i + 1)
<1>2. /\ Answers' = {} /\ Calls = {} /\ ~ResetSent /\ page.resetFlag = FALSE
      /\ page.loaded = TRUE /\ IterUnderWay
  BY AnswerComes DEF Accept
<1>3. /\ page'.y = page.y /\ page'.iterationLow = page.iterationLow
      /\ page'.maxIteration = page.maxIteration
      /\ page'.resetFlag = page.resetFlag
      /\ page'.simplayFlag = page.simplayFlag
      /\ page'.segmentArr = ArrAfter(m) /\ page'.validCells = ValidAfter(m)
      /\ \/ /\ page'.iteration = i + 1
            /\ page.playFlag = TRUE /\ page'.playFlag = TRUE
            /\ i + 1 <= page.maxIteration
            /\ Send(IterRequest(i + 1))
         \/ /\ page'.iteration = i + 1
            /\ ~(page.playFlag /\ i + 1 <= page.maxIteration)
            /\ UNCHANGED requests
         \/ /\ page'.iteration = i
            /\ ValidAfter(m) = Unknown \/ i > page.maxIteration
            /\ UNCHANGED requests
  BY AcceptPage
<1>4. /\ RunInv /\ i \in Int /\ page.iterationLow \in {0, 1} /\ page.iterationLow <= i
      /\ ~firstIteration /\ firstIteration' = firstIteration /\ vizType = 2
      /\ (i = 1 => m.validCells # Unknown)
  BY <1>1 DEF Accepted, heatVars
<1>5. i <= page.maxIteration /\ (page.simplayFlag \/ page.playFlag)
  BY <1>2, <1>4 DEF RunInv, Playing
<1>6. segmentChain' = ChainAfter(m)
  BY DEF Accept
<1>7. /\ Current' = Current \cup {i}
      /\ Current = page.iterationLow .. i - 1 /\ Current' = page.iterationLow .. i
  BY <1>1, <1>6, AcceptChain
<1>8. SlotsKept' /\ ListKept'
  BY <1>1, <1>3, <1>6, AcceptKeeps
<1>9. /\ ~ResetSent' /\ ~IterAnswered'
      /\ UNCHANGED requests => ~IterUnderWay'
      /\ Send(IterRequest(i + 1)) => IterUnderWay'
  <2>1. CASE UNCHANGED requests
    <3>1. Calls' = {} /\ ~ResetSent'
      BY <1>2, <2>1 DEF Calls, ResetSent
    <3>2. ~IterUnderWay' /\ ~IterAnswered'
      BY <1>2, <3>1 DEF IterUnderWay, IterAsked, IterAnswered
    <3>3. Send(IterRequest(i + 1)) => Calls' = {k}
      BY <1>2, CallSent DEF OrderInv, OneCall, IterRequest
    <3> QED
      BY <3>1, <3>2, <3>3
  <2>2. CASE Send(IterRequest(i + 1))
    <3>1. Calls' = {k} /\ ~ResetSent' /\ k.op = "iter"
      BY <1>2, <2>2, CallSent DEF OrderInv, OneCall, IterRequest
    <3>2. IterUnderWay' /\ ~IterAnswered'
      BY <1>2, <3>1 DEF IterUnderWay, IterAsked, IterAnswered
    <3>3. UNCHANGED requests => Calls' = {}
      BY <1>2 DEF Calls
    <3> QED
      BY <3>1, <3>2, <3>3
  <2> QED
    BY <1>3, <2>1, <2>2
<1> HIDE DEF k
<1>10. Playing'
  BY <1>3, <1>9 DEF Playing
<1>11. i \in Current' /\ Current' # {}
  BY <1>7
<1>12. Resting'
  <2>1. CASE page'.iteration = i
    BY <1>11, <2>1 DEF Resting
  <2>2. CASE page'.iteration = i + 1 /\ Send(IterRequest(i + 1))
    BY <1>9, <2>2 DEF Resting
  <2>3. CASE /\ page'.iteration = i + 1
             /\ ~(page.playFlag /\ i + 1 <= page.maxIteration)
    <3>1. page.maxIteration \in Int
      BY DEF OrderInv, PageShape, Counting
    <3> QED
      BY <1>3, <1>4, <1>5, <2>3, <3>1 DEF Resting
  <2> QED
    BY <1>3, <2>1, <2>2, <2>3
<1>13. 1 \in Current' => ValidAfter(m) # Unknown
  BY <1>4, <1>7 DEF RunInv, ValidKnown, ValidAfter
<1>14. ValidKnown' /\ AnswerFits'
  BY <1>2, <1>3, <1>13 DEF ValidKnown, AnswerFits
<1>15. ChainIs'
  <2>1. CASE page'.iteration = i + 1
    <3>1. page'.iteration - 1 = i
      BY <1>4, <2>1
    <3> HIDE DEF i
    <3>2. Current' = page'.iterationLow .. page'.iteration - 1
      BY <1>3, <1>7, <3>1
    <3> QED
      BY <3>2 DEF ChainIs
  <2>2. CASE page'.iteration = i /\ (ValidAfter(m) = Unknown \/ i > page.maxIteration)
    <3>1. page.maxIteration \in Int
      BY DEF OrderInv, PageShape, Counting
    <3>2. 1 \notin page.iterationLow .. i
      BY <1>4, <1>5, <1>7, <1>13, <2>2, <3>1
    <3>3. i = 0 /\ page.iterationLow = 0
      BY <1>4, <3>2
    <3>4. Current' = {0}
      BY <1>7, <3>3
    <3> QED
      BY <1>3, <2>2, <3>3, <3>4 DEF ChainIs
  <2> QED
    BY <1>3, <2>1, <2>2
<1>16. FirstOrNot'
  BY <1>3, <1>4, <1>11 DEF FirstOrNot
<1>17. RunInv'
  BY <1>8, <1>10, <1>12, <1>14, <1>15, <1>16 DEF RunInv
<1>18. BeforeFirst' /\ BaselineBlank'
  BY <1>2, <1>3, <1>4, <1>9 DEF BeforeFirst, BaselineBlank
<1> QED
  BY <1>17, <1>18 DEF ShapeInv

\* An answer without quadrants comes of the baseline only.
LEMMA StopShape ==
  ASSUME OrderInv, ShapeInv, NEW m \in DOMAIN replies, m.op = "iter",
         replies' = replies (-) SetToBag({m}),
         UNCHANGED << heatVars, run, vizType >>, Stop(m)
  PROVE  ShapeInv' /\ vizType # 2 /\ page'.segmentArr = page.segmentArr
         /\ page'.y = page.y
<1>1. ~page.resetFlag /\ m.sl = << >> /\ requests' = requests
  BY DEF Stop
<1>2. /\ Answers = {m} /\ Answers' = {} /\ ~AxesAnswered /\ ~ResetSent
      /\ page.resetFlag = FALSE /\ page.loaded = TRUE
  BY <1>1, AnswerComes
<1>3. PICK q : With(q, m) /\ q.segmentArr = page.segmentArr /\ page' = Ended(q)
  BY DEF Stop
<1>4. SameChart(page', q) /\ page'.resetFlag = q.resetFlag
  BY <1>3, EndedPage DEF With
<1>5. page'.resetFlag = FALSE /\ page'.segmentArr = page.segmentArr /\ page'.y = page.y
  BY <1>2, <1>3, <1>4 DEF With, SameChart
<1>6. vizType # 2
  <2> SUFFICES ASSUME vizType = 2 PROVE FALSE
    OBVIOUS
  <2>1. RunInv
    BY <1>1, <1>2 DEF ShapeInv, Live, Synced
  <2>2. m.sl = Packed
    BY <1>2, <2>1 DEF RunInv, AnswerFits
  <2>3. Loaded /\ HeatTypeOK
    BY <1>2 DEF OrderInv, AxesAgree, HeatInv
  <2> QED
    BY <1>1, <2>2, <2>3, PackedPlaces
<1>7. ~ResetSent'
  BY <1>1, <1>2 DEF ResetSent
<1>8. BeforeFirst' /\ BaselineBlank'
  BY <1>2, <1>5, <1>6, <1>7 DEF ShapeInv, BeforeFirst, BaselineBlank
<1> QED
  BY <1>5, <1>6, <1>8 DEF ShapeInv

-----------------------------------------------------------------------------
(* The second invariant holds, as long as the user does not press Forward  *)
(* before the first iteration: the page then asks for it without playing,  *)
(* and Play, pressed in the meantime, asks for the second before the first *)
(* has been received.                           *)

LEMMA InitShape ==
  ASSUME Init
  PROVE  ShapeInv
<1>1. page.resetFlag = FALSE /\ page.loaded = FALSE /\ page.segmentArr = << >>
  BY DEF Init
<1>2. Answers = {} /\ ~ResetSent
  BY IdleIsQuiet DEF Init, Idle
<1> QED
  BY <1>1, <1>2 DEF ShapeInv, BeforeFirst, BaselineBlank, Live, Synced

LEMMA ClickRepeatShape ==
  ASSUME OrderInv, OrderInv', ShapeInv, ClickRepeat
  PROVE  ShapeInv' /\ ResetSent'
<1>1. ResetSent'
  BY ResetIsSent DEF OrderInv, OneCall, ClickRepeat
<1>2. page'.iteration = 0 - 1 /\ page'.iterationLow = 0
  <2>1. /\ DOMAIN page = PageFields /\ AxesShape(page.y) /\ 0 \in {0, 1}
    BY DEF OrderInv, PageShape
  <2>2. /\ DOMAIN Cleared(page, 0) = PageFields
        /\ Cleared(page, 0).iteration = 0 - 1 /\ Cleared(page, 0).iterationLow = 0
    BY <2>1, ClearedPage, Zenon
  <2> QED
    BY <2>2 DEF ClickRepeat, PageFields
<1>3. Answers' = Answers /\ vizType' = vizType
  BY DEF Answers, ClickRepeat
<1>4. page'.segmentArr = << >>
  BY <1>1 DEF OrderInv, BlankAfterReset
<1>5. BeforeFirst' /\ BaselineBlank'
  BY <1>2, <1>3, <1>4 DEF BeforeFirst, ShapeInv, BaselineBlank
<1> QED
  BY <1>1, <1>5, BlankedShape, PTL

LEMMA DeliverAxesShape ==
  ASSUME OrderInv, OrderInv', DeliverAxes
  PROVE  ShapeInv' /\ ResetSent'
<1>1. PICK m \in DOMAIN replies :
        /\ m.op = "axes"
        /\ replies' = replies (-) SetToBag({m})
        /\ LET p == Cleared([page EXCEPT !.y = m.y, !.loaded = TRUE,
                                         !.resetFlag = FALSE], 1)
           IN page' = [p EXCEPT !.seekMin = 1, !.seekMax = p.maxIteration]
        /\ Send(ResetRequest)
  BY DEF DeliverAxes, BagToSet
<1>2. Answers = {m} /\ Answers' = {}
  BY <1>1, AnswerGone DEF OrderInv, OneCall
<1>3. ResetSent'
  BY <1>1, ResetIsSent DEF OrderInv, OneCall
<1>4. page'.iteration = 1 - 1 /\ page'.iterationLow = 1
  <2> DEFINE q == [page EXCEPT !.y = m.y, !.loaded = TRUE, !.resetFlag = FALSE]
             p == Cleared(q, 1)
  <2>1. DOMAIN q = PageFields /\ q.y = m.y
    BY DEF OrderInv, PageShape, PageFields
  <2>2. AxesShape(m.y) /\ 1 \in {0, 1}
    BY <1>1, <1>2, AxesOfChart DEF OrderInv, AxesAgree, HeatInv, HeatTypeOK, Loaded
  <2>3. page' = [p EXCEPT !.seekMin = 1, !.seekMax = p.maxIteration]
    BY <1>1
  <2> HIDE DEF q
  <2>4. DOMAIN p = PageFields /\ p.iteration = 1 - 1 /\ p.iterationLow = 1
    BY <2>1, <2>2, ClearedPage, Zenon
  <2> HIDE DEF p
  <2> QED
    BY <2>3, <2>4 DEF PageFields
<1>5. page'.segmentArr = << >>
  BY <1>3 DEF OrderInv, BlankAfterReset
<1>6. BeforeFirst' /\ BaselineBlank'
  BY <1>2, <1>4, <1>5 DEF BeforeFirst, BaselineBlank
<1> QED
  BY <1>3, <1>6, BlankedShape, PTL

LEMMA DiscardShape ==
  ASSUME OrderInv, OrderInv', NEW m \in DOMAIN replies, m.op = "iter",
         replies' = replies (-) SetToBag({m}),
         UNCHANGED << heatVars, run, vizType >>, Discard(m)
  PROVE  ShapeInv' /\ ResetSent'
<1>1. Answers' = {}
  BY AnswerGone DEF OrderInv, OneCall
<1>2. ResetSent'
  BY ResetIsSent DEF OrderInv, OneCall, Discard
<1>3. page'.iteration = 0 - 1 /\ page'.iterationLow = 0
  <2>1. DOMAIN page = PageFields /\ AxesShape(page.y) /\ 0 \in {0, 1}
    BY DEF OrderInv, PageShape
  <2>2. page' = Cleared(page, 0)
    BY DEF Discard
  <2> QED
    BY <2>1, <2>2, ClearedPage, Zenon
<1>4. page'.segmentArr = << >>
  BY <1>2 DEF OrderInv, BlankAfterReset
<1>5. BeforeFirst' /\ BaselineBlank'
  BY <1>1, <1>3, <1>4 DEF BeforeFirst, BaselineBlank
<1> QED
  BY <1>2, <1>5, BlankedShape, PTL

LEMMA StutterShape ==
  ASSUME OrderInv, ShapeInv, UNCHANGED vars
  PROVE  ShapeInv'
<1>1. UNCHANGED << heatVars, net, page, segmentChain, run, vizType >>
  BY DEF vars, view
<1>2. /\ Answers' = Answers
      /\ ResetSent' <=> ResetSent
      /\ IterAsked' <=> IterAsked
      /\ IterUnderWay' <=> IterUnderWay
      /\ AxesAnswered' <=> AxesAnswered
  BY <1>1, NetKept DEF OrderInv
<1>3. Still
  BY <1>1, <1>2 DEF Still, SameChart, OrderInv, PageShape
<1>4. Current' = Current /\ BaselineBlank' /\ page' = page /\ vizType' = vizType
  BY <1>1, <1>3, StillValues DEF ShapeInv
<1>5. BeforeFirst'
  BY <1>2, <1>4 DEF ShapeInv, BeforeFirst
<1>6. ASSUME vizType = 2, Live'
      PROVE  RunInv'
  <2>1. RunInv
    BY <1>2, <1>4, <1>6 DEF ShapeInv, Live, Synced
  <2>2. Resting' /\ Playing'
    BY <1>2, <1>4, <2>1 DEF RunInv, Resting, Playing
  <2> QED
    BY <1>2, <1>3, <1>4, <2>1, <2>2, StillRun
<1> QED
  BY <1>4, <1>5, <1>6 DEF ShapeInv

LEMMA NextShape ==
  ASSUME OrderInv, OrderInv', ShapeInv, [Next]_vars, ~Leaps
  PROVE  ShapeInv'
<1>1. CASE UNCHANGED vars
  BY <1>1, StutterShape
<1>2. CASE User
  <2>1. ~ForwardFirst
    BY DEF ForwardFirst
  <2>2. \/ Quiet \/ (Ask /\ PlaysOn) \/ ClickRepeat
        \/ \E c \in Charts : Visualize(c)
    BY <1>2, <2>1, UserCases
  <2> QED
    BY <2>2, QuietShape, AskShape, ClickRepeatShape, VisualizeShape
<1>3. CASE Serve
  BY <1>3, ServeCases, ServeAxesShape, ServeResetShape, ServeIterShape
<1>4. CASE DeliverAxes
  BY <1>4, DeliverAxesShape
<1>5. CASE DeliverIter
  <2>1. PICK m \in DOMAIN replies :
          /\ m.op = "iter"
          /\ replies' = replies (-) SetToBag({m})
          /\ UNCHANGED << heatVars, run, vizType >>
          /\ Discard(m) \/ Accept(m) \/ Stop(m)
    BY <1>5, DeliverIterCases
  <2> QED
    BY <2>1, DiscardShape, AcceptShape, StopShape
<1> QED
  BY <1>1, <1>2, <1>3, <1>4, <1>5 DEF Next, Deliver

\* The user presses Play, not Forward, before the first iteration.
PlaysFirst == ~Leaps

LEMMA ShapeHolds == PlaysFirst /\ Spec => [](OrderInv /\ ShapeInv)
<1>1. Init => ShapeInv
  BY InitShape
<1>2. ASSUME PlaysFirst PROVE Spec => [](OrderInv /\ ShapeInv)
  <2>1. OrderInv /\ OrderInv' /\ ShapeInv /\ [Next]_vars => ShapeInv'
    BY <1>2, NextShape DEF PlaysFirst
  <2> QED
    BY OrderHolds, <1>1, <2>1, PTL DEF Spec
<1> QED
  BY <1>2

\* Whatever else the user does, and whichever answer is sent again, what the
\* page keeps of an iteration of the run are the quadrants the engine keeps of
\* it, although an answer names positions of a list that only the engine has
\* (genChart, incvisage.cc:465, and the splice of genCharts, player.js:624).
THEOREM PictureStaysServers == PlaysFirst /\ Spec => []PictureMatchesServer
<1>1. OrderInv /\ ShapeInv => PictureMatchesServer
  <2> SUFFICES ASSUME OrderInv, ShapeInv, NEW i \in Current,
                      vizType = 2, ~firstIteration
               PROVE  Placed(segmentChain[i].quads) = ToSet(kBest[i])
    BY DEF PictureMatchesServer, Unbroken
  <2>1. page.loaded
    BY DEF OrderInv, BeforeLoad, Current
  <2>2. ~page.resetFlag /\ ~ResetSent
    BY DEF OrderInv, BlankAfterReset
  <2>3. ~AxesAnswered
    BY DEF OrderInv, AxesAgree, AxesAnswered
  <2>4. RunInv
    BY <2>1, <2>2, <2>3 DEF ShapeInv, Live, Synced
  <2> QED
    BY <2>4 DEF RunInv, SlotsKept
<1> QED
  BY ShapeHolds, <1>1, PTL

-----------------------------------------------------------------------------
(* The page implements the abstract grid, step by step.                    *)

\* The abstract grid is about the quadrants of this module.
LEMMA SameQuadrants ==
  /\ \A a, b, c, d : Abstract!Quad(a, b, c, d) = Quad(a, b, c, d)
  /\ \A q : Abstract!Cells(q) = Cells(q)
BY DEF Abstract!Quad, Quad, Abstract!Cells, Cells

\* Pieces that fit a quadrant fill its cells.
LEMMA FitsFills ==
  ASSUME NEW q \in Quadrant, NEW list \in Seq(Quadrant), Fits(list, q)
  PROVE  Abstract!Fills(ToSet(list), Abstract!Cells(q))
<1>1. ToSet(list) = { list[k] : k \in 1 .. Len(list) }
  BY DEF ToSet
<1>2. /\ Edges(q) /\ \A k \in 1 .. Len(list) : Edges(list[k])
  <2>1. \A k \in 1 .. Len(list) : list[k] \in Quadrant
    BY ElementOfSeq
  <2> QED
    BY <2>1 DEF Edges, Quadrant
<1>3. ASSUME NEW k \in 1 .. Len(list)
      PROVE  Cells(list[k]) # {} /\ Cells(list[k]) \subseteq Cells(q)
  <2>1. Within(list[k], q)
    BY DEF Fits, Within
  <2>2. << list[k].xb, list[k].yb >> \in Cells(list[k])
    BY <1>2, <2>1 DEF Cells, Within, Edges
  <2>3. list[k].xb .. list[k].xe \subseteq q.xb .. q.xe
    BY <1>2, <2>1 DEF Within, Edges
  <2>4. list[k].yb .. list[k].ye \subseteq q.yb .. q.ye
    BY <1>2, <2>1 DEF Within, Edges
  <2> QED
    BY <2>2, <2>3, <2>4 DEF Cells
<1>4. ASSUME NEW c \in Cells(q)
      PROVE  \E k \in 1 .. Len(list) : c \in Cells(list[k])
  <2>1. PICK x \in q.xb .. q.xe, y \in q.yb .. q.ye : c = << x, y >>
    BY DEF Cells
  <2>2. PICK k \in 1 .. Len(list) : Inside(list[k], x, y)
    BY <2>1 DEF Fits
  <2>3. x \in list[k].xb .. list[k].xe /\ y \in list[k].yb .. list[k].ye
    BY <1>2, <2>2 DEF Inside, Edges
  <2> QED
    BY <2>1, <2>3 DEF Cells
<1>5. ASSUME NEW j \in 1 .. Len(list), NEW k \in 1 .. Len(list),
             NEW c \in Cells(list[j]) \cap Cells(list[k])
      PROVE  j = k
  <2>1. PICK x \in list[j].xb .. list[j].xe, y \in list[j].yb .. list[j].ye :
          c = << x, y >>
    BY DEF Cells
  <2>2. x \in list[k].xb .. list[k].xe /\ y \in list[k].yb .. list[k].ye
    BY <2>1 DEF Cells
  <2>3. Inside(list[k], x, y)
    BY <1>2, <2>2 DEF Inside, Edges
  <2> QED
    BY <2>1, <2>3 DEF Fits
<1>6. \A p \in ToSet(list) : Cells(p) # {} /\ Cells(p) \subseteq Cells(q)
  BY <1>1, <1>3
<1>7. \A c \in Cells(q) : \E p \in ToSet(list) : c \in Cells(p)
  BY <1>1, <1>4
<1>8. \A p, r \in ToSet(list) : p # r => Cells(p) \cap Cells(r) = {}
  BY <1>1, <1>5
<1> QED
  BY <1>6, <1>7, <1>8, SameQuadrants DEF Abstract!Fills

\* What lies within a quadrant has its lower left cell there.
LEMMA CornerInside ==
  ASSUME NEW p, NEW q, Edges(p), Edges(q), Within(p, q)
  PROVE  /\ p.xb \in p.xb .. p.xe /\ p.yb \in p.yb .. p.ye
         /\ Inside(q, p.xb, p.yb)
<1>1. /\ q.xb \in Int /\ q.xe \in Int /\ q.yb \in Int /\ q.ye \in Int
      /\ p.xb \in Int /\ p.xe \in Int /\ p.yb \in Int /\ p.ye \in Int
  BY DEF Edges
<1> QED
  BY <1>1 DEF Within, Inside

\* No piece of a split is a quadrant that was there before.
LEMMA PiecesAreNew ==
  ASSUME NEW prev \in Seq(Quadrant), NEW w \in Int, NEW h \in Int,
         Tiles(prev, w, h), NEW s \in 1 .. Len(prev),
         NEW p \in Seq(Quadrant), Len(p) >= 2, Fits(p, prev[s]),
         NEW k \in 1 .. Len(p), NEW j \in 1 .. Len(prev)
  PROVE  p[k] # prev[j]
<1> SUFFICES ASSUME p[k] = prev[j] PROVE FALSE
  OBVIOUS
<1>1. /\ Edges(prev[s]) /\ Edges(prev[j])
      /\ \A i \in 1 .. Len(p) : Edges(p[i])
  <2>1. /\ prev[s] \in Quadrant /\ prev[j] \in Quadrant
        /\ \A i \in 1 .. Len(p) : p[i] \in Quadrant
    BY ElementOfSeq
  <2> QED
    BY <2>1 DEF Edges, Quadrant
<1>2. \A i \in 1 .. Len(p) : Within(p[i], prev[s])
  BY DEF Fits, Within
<1>3. /\ p[k].xb \in prev[j].xb .. prev[j].xe
      /\ p[k].yb \in prev[j].yb .. prev[j].ye
      /\ Inside(prev[s], p[k].xb, p[k].yb)
  <2>1. Within(p[k], prev[s]) /\ Edges(p[k])
    BY <1>1, <1>2
  <2>2. /\ Inside(prev[s], p[k].xb, p[k].yb)
        /\ p[k].xb \in p[k].xb .. p[k].xe /\ p[k].yb \in p[k].yb .. p[k].ye
    BY <1>1, <2>1, CornerInside
  <2> QED
    BY <2>2
<1>4. j = s
  BY <1>3 DEF Tiles
<1>5. PICK i \in 1 .. Len(p) : i # k
  <2>1. 1 \in 1 .. Len(p) /\ 2 \in 1 .. Len(p)
    OBVIOUS
  <2> QED
    BY <2>1
<1>6. /\ p[i].xb \in p[i].xb .. p[i].xe
      /\ p[i].yb \in p[i].yb .. p[i].ye
      /\ Inside(p[k], p[i].xb, p[i].yb)
  <2>1. Within(p[i], p[k]) /\ Edges(p[i]) /\ Edges(p[k])
    <3>1. p[k] = prev[s]
      BY <1>4
    <3> QED
      BY <1>1, <1>2, <3>1
  <2> QED
    BY <2>1, CornerInside
<1> QED
  BY <1>5, <1>6 DEF Fits

\* Where the quadrants before and after a split are.
LEMMA PutMoves ==
  ASSUME NEW prev \in Seq(Quadrant), NEW s \in 1 .. Len(prev),
         NEW p \in Seq(Quadrant), Len(p) >= 1
  PROVE  /\ Put(prev, s, p) \in Seq(Quadrant)
         /\ Len(Put(prev, s, p)) = Len(prev) + Len(p) - 1
         /\ \A k \in 1 .. s - 1 : Put(prev, s, p)[k] = prev[k]
         /\ \A k \in 1 .. Len(p) : Put(prev, s, p)[s + k - 1] = p[k]
         /\ \A k \in s + 1 .. Len(prev) :
              Put(prev, s, p)[k + Len(p) - 1] = prev[k]
         /\ \A k \in 1 .. Len(Put(prev, s, p)) :
              \/ \E j \in 1 .. Len(p) : Put(prev, s, p)[k] = p[j]
              \/ \E j \in 1 .. Len(prev) : j # s /\ Put(prev, s, p)[k] = prev[j]
<1>1. ASSUME NEW k \in 1 .. Len(Put(prev, s, p))
      PROVE  \/ \E j \in 1 .. Len(p) : Put(prev, s, p)[k] = p[j]
             \/ \E j \in 1 .. Len(prev) : j # s /\ Put(prev, s, p)[k] = prev[j]
  <2>1. \/ \E j \in 1 .. Len(p) :
              k = s + j - 1 /\ Put(prev, s, p)[k] = p[j]
        \/ \E j \in 1 .. Len(prev) :
              /\ j # s
              /\ k = IF j < s THEN j ELSE j + Len(p) - 1
              /\ Put(prev, s, p)[k] = prev[j]
    BY PutOrigin
  <2> QED
    BY <2>1, Zenon
<1>2. /\ Put(prev, s, p) \in Seq(Quadrant)
      /\ Len(Put(prev, s, p)) = Len(prev) + Len(p) - 1
      /\ \A k \in 1 .. s - 1 : Put(prev, s, p)[k] = prev[k]
      /\ \A k \in 1 .. Len(p) : Put(prev, s, p)[s + k - 1] = p[k]
      /\ \A k \in s + 1 .. Len(prev) :
           Put(prev, s, p)[k + Len(p) - 1] = prev[k]
  BY PutElements
<1> QED
  BY <1>1, <1>2, Zenon

\* A split takes one quadrant away, keeps the others and adds its pieces.
LEMMA PutExchanges ==
  ASSUME NEW prev \in Seq(Quadrant), NEW w \in Int, NEW h \in Int,
         Tiles(prev, w, h), NEW s \in 1 .. Len(prev),
         NEW p \in Seq(Quadrant), Len(p) >= 2, Fits(p, prev[s])
  PROVE  /\ prev[s] \in ToSet(prev) /\ prev[s] \notin ToSet(Put(prev, s, p))
         /\ ToSet(prev) \ {prev[s]} \subseteq ToSet(Put(prev, s, p))
         /\ ToSet(Put(prev, s, p)) \ ToSet(prev) = ToSet(p)
<1> DEFINE new == Put(prev, s, p)
<1>1. /\ Len(prev) \in Nat /\ Len(p) \in Nat /\ Len(p) >= 1
      /\ s \in Nat /\ s >= 1 /\ s <= Len(prev)
  OBVIOUS
<1>2. /\ new \in Seq(Quadrant) /\ Len(new) = Len(prev) + Len(p) - 1
      /\ \A k \in 1 .. s - 1 : new[k] = prev[k]
      /\ \A k \in 1 .. Len(p) : new[s + k - 1] = p[k]
      /\ \A k \in s + 1 .. Len(prev) : new[k + Len(p) - 1] = prev[k]
      /\ \A k \in 1 .. Len(new) :
           \/ \E j \in 1 .. Len(p) : new[k] = p[j]
           \/ \E j \in 1 .. Len(prev) : j # s /\ new[k] = prev[j]
  BY <1>1, PutMoves, Zenon
<1> HIDE DEF new
<1>3. /\ ToSet(new) = { new[k] : k \in 1 .. Len(new) }
      /\ ToSet(prev) = { prev[k] : k \in 1 .. Len(prev) }
      /\ ToSet(p) = { p[k] : k \in 1 .. Len(p) }
  <2>1. /\ DOMAIN new = 1 .. Len(new) /\ DOMAIN prev = 1 .. Len(prev)
        /\ DOMAIN p = 1 .. Len(p)
    BY <1>2
  <2> QED
    BY <2>1 DEF ToSet
<1>4. ASSUME NEW j \in 1 .. Len(p)
      PROVE  p[j] \in ToSet(new) /\ p[j] \notin ToSet(prev)
  <2>1. s + j - 1 \in 1 .. Len(new)
    BY <1>1, <1>2
  <2>2. \A k \in 1 .. Len(prev) : p[j] # prev[k]
    BY PiecesAreNew
  <2> QED
    BY <1>2, <1>3, <2>1, <2>2
<1>5. ASSUME NEW j \in 1 .. Len(prev), j # s
      PROVE  prev[j] \in ToSet(new) /\ prev[j] # prev[s]
  <2>1. prev[j] \in ToSet(new)
    <3>1. CASE j < s
      <4>1. j \in 1 .. s - 1 /\ j \in 1 .. Len(new)
        BY <1>1, <1>2, <3>1
      <4> QED
        BY <1>2, <1>3, <4>1
    <3>2. CASE j > s
      <4>1. j \in s + 1 .. Len(prev) /\ j + Len(p) - 1 \in 1 .. Len(new)
        BY <1>1, <1>2, <3>2
      <4> QED
        BY <1>2, <1>3, <4>1
    <3> QED
      BY <1>1, <1>5, <3>1, <3>2
  <2>2. Edges(prev[j])
    <3>1. prev[j] \in Quadrant
      BY ElementOfSeq
    <3> QED
      BY <3>1 DEF Edges, Quadrant
  <2>3. Within(prev[j], prev[j])
    <3>1. prev[j].xb <= prev[j].xe /\ prev[j].yb <= prev[j].ye
      BY DEF Tiles
    <3> QED
      BY <2>2, <3>1 DEF Within, Edges
  <2>4. /\ prev[j].xb \in prev[j].xb .. prev[j].xe
        /\ prev[j].yb \in prev[j].yb .. prev[j].ye
        /\ Inside(prev[j], prev[j].xb, prev[j].yb)
    BY <2>2, <2>3 DEF Inside, Within, Edges
  <2>5. prev[j] # prev[s]
    BY <1>5, <2>4 DEF Tiles
  <2> QED
    BY <2>1, <2>5
<1>6. prev[s] \in ToSet(prev)
  BY <1>3
<1>7. prev[s] \notin ToSet(new)
  <2> SUFFICES ASSUME NEW k \in 1 .. Len(new), new[k] = prev[s] PROVE FALSE
    BY <1>3
  <2> QED
    BY <1>2, <1>4, <1>5, <1>6
<1>8. ToSet(prev) \ {prev[s]} \subseteq ToSet(new)
  BY <1>3, <1>5
<1>9. ToSet(new) \ ToSet(prev) \subseteq ToSet(p)
  BY <1>2, <1>3
<1>10. ToSet(p) \subseteq ToSet(new) \ ToSet(prev)
  BY <1>3, <1>4
<1> QED
  BY <1>6, <1>7, <1>8, <1>9, <1>10 DEF new

\* The sizes of the grid that the page's axes make.
LEMMA GridSizes ==
  ASSUME OrderInv
  PROVE  Wide(page.y) \in Nat \ {0} /\ High(page.y) \in Nat \ {0}
<1>1. AxesShape(page.y)
  BY DEF OrderInv, PageShape
<1> QED
  BY <1>1 DEF AxesShape, Wide, High

\* A blank page is a blank grid.
LEMMA NothingPlaced ==
  ASSUME page.segmentArr = << >>
  PROVE  Placed(page.segmentArr) = {}
<1>1. ToSet(page.segmentArr) = {}
  BY DEF ToSet
<1> QED
  BY <1>1 DEF Placed

\* A reset, a repeat and a new chart clear it.
LEMMA BlankedClearsGrid ==
  ASSUME OrderInv', ResetSent'
  PROVE  Abstract!ClearGrid
<1>1. page'.segmentArr = << >>
  BY DEF OrderInv, BlankAfterReset
<1>2. Placed(page.segmentArr)' = {}
  <2>1. ToSet(page'.segmentArr) = {}
    BY <1>1 DEF ToSet
  <2> QED
    BY <2>1 DEF Placed
<1>3. (Wide(page.y) \in Nat \ {0} /\ High(page.y) \in Nat \ {0})'
  BY GridSizes, PTL
<1> QED
  BY <1>2, <1>3 DEF Abstract!ClearGrid, Wide, High

\* The page's quadrants are those of the iteration it has received last.
LEMMA ListIsStored ==
  ASSUME RunInv, HeatTypeOK, Loaded, page.y = Axes(chart), Current # {}
  PROVE  Latest \in Slots /\ Placed(page.segmentArr) = ToSet(kBest[Latest])
BY DEF RunInv, ListKept, SlotsKept

\* The first answer reveals the grid, a split refines it, and an answer that
\* is sent again changes nothing.
LEMMA AcceptRefinesGrid ==
  ASSUME OrderInv, NEW m, Accepted(m), page'.y = page.y,
         page'.segmentArr = ArrAfter(m)
  PROVE  \/ Abstract!RevealGrid \/ Abstract!RefineGrid
         \/ UNCHANGED Abstract!grid
<1>0. PICK i, new : i = page.iteration /\ new = ArrAfter(m)
  OBVIOUS
<1>1. /\ HeatTypeOK /\ KBestTiles /\ Loaded /\ i \in Slots /\ i \in Int /\ RunInv
      /\ page.y = Axes(chart) /\ page.segmentArr \in Seq(Quadrant)
  BY <1>0 DEF Accepted, OrderInv, HeatInv
<1>2. /\ new \in Seq(Quadrant) /\ new # << >>
      /\ \/ new = Moved(kBest[i])
         \/ AgainAnswer(i) /\ ToSet(new) = ToSet(page.segmentArr)
  BY <1>0, ListAfter DEF Accepted
<1>3. Placed(page.segmentArr)' = Placed(new)
  BY <1>0 DEF Placed
<1>4. ASSUME ToSet(new) = ToSet(page.segmentArr)
      PROVE  UNCHANGED Abstract!grid
  <2>1. Placed(new) = Placed(page.segmentArr)
    BY <1>4 DEF Placed
  <2> QED
    BY <1>3, <2>1 DEF Abstract!grid
<1>5. ASSUME new = Moved(kBest[i])
      PROVE  Placed(new) = ToSet(kBest[i]) /\ kBest[i] \in Seq(CellQuad)
  <2>1. kBest[i] \in Seq(CellQuad)
    BY <1>1 DEF HeatTypeOK
  <2> QED
    BY <1>1, <1>5, <2>1, PlacedMoved
<1>6. CASE new = Moved(kBest[i]) /\ WholeAnswer(i) /\ page.segmentArr = << >>
  <2>1. Placed(page.segmentArr) = {}
    BY <1>6, NothingPlaced
  <2>2. chart \in Charts
    BY <1>1 DEF HeatTypeOK, Loaded
  <2>3. page.y.xMax - page.y.xMin + 1 = Columns
        /\ page.y.yMax - page.y.yMin + 1 = Rows
    BY <1>1, <2>2, AxesOfChart DEF Wide, High, Columns, Rows
  <2>4. kBest[i] = << Quad(0, Columns - 1, 0, Rows - 1) >>
    BY <1>6 DEF WholeAnswer, WholeGrid
  <2>5. ToSet(kBest[i]) = { Quad(0, Columns - 1, 0, Rows - 1) }
    BY <2>4 DEF ToSet
  <2>6. Placed(page.segmentArr)' = { Quad(0, Columns - 1, 0, Rows - 1) }
    BY <1>3, <1>5, <1>6, <2>5
  <2> QED
    BY <2>1, <2>3, <2>6, SameQuadrants DEF Abstract!RevealGrid
<1>7. CASE new = Moved(kBest[i]) /\ SplitAnswer(i)
  <2> DEFINE prev == kBest[i - 1]
             s    == splitQuad + 1
  <2>1. /\ s \in 1 .. Len(prev) /\ page.segmentArr = Moved(prev) /\ i - 1 \in Slots
        /\ kBest[i] = Put(prev, s, Answer) /\ Fits(Answer, prev[s])
        /\ Answer \in Seq(CellQuad) /\ (Len(Answer) = 2 \/ Len(Answer) = 4)
    BY <1>7 DEF SplitAnswer
  <2>2. prev \in Seq(CellQuad)
    BY <1>1, <2>1 DEF HeatTypeOK
  <2>3. Placed(page.segmentArr) = ToSet(prev)
    BY <1>1, <2>1, <2>2, PlacedMoved
  <2>4. prev # << >>
    BY <2>1, <2>2
  <2>5. PICK w \in 1 .. MaxSide, h \in 1 .. MaxSide : Tiles(prev, w, h)
    BY <1>1, <2>1, <2>4 DEF KBestTiles
  <2>6. w \in Int /\ h \in Int
    BY SizeAssumption
  <2>7. prev \in Seq(Quadrant) /\ Answer \in Seq(Quadrant) /\ Len(Answer) >= 2
    <3>1. Len(Answer) >= 2
      <4>1. CASE Len(Answer) = 2
        BY <4>1
      <4>2. CASE Len(Answer) = 4
        BY <4>2
      <4> QED
        BY <2>1, <4>1, <4>2
    <3>2. prev \in Seq(Quadrant)
      BY <2>2, CellQuadsAreQuadrants
    <3>3. Answer \in Seq(Quadrant)
      BY <2>1, CellQuadsAreQuadrants
    <3> QED
      BY <3>1, <3>2, <3>3
  <2> HIDE DEF prev, s
  <2>8. /\ prev[s] \in ToSet(prev) /\ prev[s] \notin ToSet(kBest[i])
        /\ ToSet(prev) \ {prev[s]} \subseteq ToSet(kBest[i])
        /\ ToSet(kBest[i]) \ ToSet(prev) = ToSet(Answer)
    BY <2>1, <2>5, <2>6, <2>7, PutExchanges
  <2>9. Abstract!Fills(ToSet(Answer), Abstract!Cells(prev[s]))
    <3>1. prev[s] \in Quadrant
      BY <2>1, <2>7
    <3> QED
      BY <2>1, <2>7, <3>1, FitsFills
  <2>10. Placed(page.segmentArr)' = ToSet(kBest[i])
    BY <1>3, <1>5, <1>7
  <2> QED
    BY <2>3, <2>8, <2>9, <2>10 DEF Abstract!RefineGrid
<1>8. CASE new = Moved(kBest[i]) /\ AgainAnswer(i)
  <2>1. i - 1 \in Current /\ kBest[i] = kBest[i - 1] /\ i \notin Current
    BY <1>0, <1>8 DEF AgainAnswer, Accepted
  <2>2. Latest = i - 1
    BY <1>0, <2>1 DEF Latest
  <2>3. Placed(page.segmentArr) = ToSet(kBest[i - 1])
    BY <1>1, <2>1, <2>2, ListIsStored
  <2>4. Placed(new) = ToSet(kBest[i])
    BY <1>5, <1>8
  <2> QED
    BY <1>3, <2>1, <2>3, <2>4 DEF Abstract!grid
<1> QED
  BY <1>0, <1>2, <1>4, <1>6, <1>7, <1>8 DEF Accepted

LEMMA NextGrid ==
  ASSUME OrderInv, OrderInv', ShapeInv, [Next]_vars
  PROVE  [Abstract!GridNext]_(Abstract!grid)
<1>1. ASSUME page'.y = page.y, page'.segmentArr = page.segmentArr
      PROVE  UNCHANGED Abstract!grid
  <2>1. Placed(page.segmentArr)' = Placed(page.segmentArr)
    BY <1>1 DEF Placed
  <2> QED
    BY <1>1, <2>1 DEF Abstract!grid
<1>2. ASSUME ResetSent'
      PROVE  Abstract!GridNext
  BY <1>2, BlankedClearsGrid DEF Abstract!GridNext
<1>3. CASE User
  <2>1. CASE Quiet \/ Ask
    BY <1>1, <2>1 DEF Quiet, Ask, SameChart
  <2>2. CASE \E c \in Charts : Visualize(c)
    BY <1>1, <2>2 DEF Visualize
  <2>3. CASE ClickRepeat
    <3>1. ResetSent'
      BY <2>3, ResetIsSent DEF ClickRepeat, OrderInv, OneCall
    <3> QED
      BY <1>2, <3>1
  <2> QED
    BY <1>3, <2>1, <2>2, <2>3, UserCases
<1>4. CASE Serve \/ UNCHANGED vars
  <2>1. page' = page
    BY <1>4 DEF Serve, vars
  <2> QED
    BY <1>1, <2>1
<1>5. CASE DeliverAxes
  <2>1. ResetSent'
    BY <1>5, DeliverAxesShape
  <2> QED
    BY <1>2, <2>1
<1>6. CASE DeliverIter
  <2>1. PICK m \in DOMAIN replies :
          /\ m.op = "iter"
          /\ replies' = replies (-) SetToBag({m})
          /\ UNCHANGED << heatVars, run, vizType >>
          /\ Discard(m) \/ Accept(m) \/ Stop(m)
    BY <1>6, DeliverIterCases
  <2>2. CASE Discard(m)
    <3>1. ResetSent'
      BY <2>2, ResetIsSent DEF Discard, OrderInv, OneCall
    <3> QED
      BY <1>2, <3>1
  <2>3. CASE Accept(m)
    <3>1. Accepted(m)
      BY <2>1, <2>3, AcceptIsAccepted
    <3>2. page'.y = page.y /\ page'.segmentArr = ArrAfter(m)
      BY <2>1, <2>3, AcceptPage
    <3> QED
      BY <3>1, <3>2, AcceptRefinesGrid DEF Abstract!GridNext
  <2>4. CASE Stop(m)
    <3>1. page'.y = page.y /\ page'.segmentArr = page.segmentArr
      BY <2>1, <2>4, StopShape
    <3> QED
      BY <1>1, <3>1
  <2> QED
    BY <2>1, <2>2, <2>3, <2>4
<1> QED
  BY <1>3, <1>4, <1>5, <1>6 DEF Next, Deliver

\* A page that the user plays from its first iteration on behaves, every step
\* of it, like the abstract grid: blank, one quadrant, one quadrant at a time
\* giving way to smaller ones that fill its place, until it is cleared.  The
\* page only splices into its list what it is sent (genCharts, player.js:624).
THEOREM PageImplementsGrid == PlaysFirst /\ Spec => ImplementsGrid
<1>1. Init => Abstract!GridInit
  <2> SUFFICES ASSUME Init PROVE Abstract!GridInit
    OBVIOUS
  <2>1. OrderInv
    BY InitOrder
  <2>2. page.segmentArr = << >>
    BY DEF Init
  <2> QED
    BY <2>1, <2>2, NothingPlaced, GridSizes DEF Abstract!GridInit, Wide, High
<1>2. OrderInv /\ OrderInv' /\ ShapeInv /\ [Next]_vars
        => [Abstract!GridNext]_(Abstract!grid)
  BY NextGrid
<1> QED
  BY ShapeHolds, <1>1, <1>2, PTL DEF Spec, ImplementsGrid, Abstract!GridSpec

-----------------------------------------------------------------------------
(* The third invariant: which cells are painted over.  It holds of every   *)
(* use of the page, Forward first included.                                *)

\* The cells of the loaded chart without records, in the values of its axes.
CellsHere == { << c[1] + XMinOf[chart], c[2] + YMinOf[chart] >> :
               c \in EmptyOf[chart] }

\* What is drawn of this run is painted over where it has to be.
Clean == screen.run = run /\ screen.quads # << >> => screen.white = CellsHere

\* The page waits for an iteration, and will not draw what it waits for.
Waiting == IterUnderWay /\ ~page.resetFlag
Unseen  == page.simplayFlag \/ page.playNoviz

ScreenFields == { "label", "run", "quads", "white" }

\* Only the incremental heatmap is sent quadrants, and so keeps any.
ListSent ==
  \A m \in Answers : m.op = "iter" => (m.sl = << >> <=> vizType # 2)
BaselineChain == vizType # 2 => DOMAIN segmentChain = {}

\* The page has empty cells, of this chart or another, once it has received
\* an iteration 1, and those of this chart once this run has received it.
CellsKept ==
  vizType = 2 => (page.validCells = Unknown <=> 1 \notin DOMAIN segmentChain)
CellsFit ==
  /\ \A m \in Answers :
       m.op = "iter" /\ ~page.resetFlag /\ page.iteration = 1
         => m.validCells = CellsHere
  /\ ~AxesAnswered /\ 1 \in Current => page.validCells = CellsHere

\* No later iteration is received before iteration 1.
ChainBegins ==
  /\ DOMAIN segmentChain \subseteq Nat
  /\ \A i \in Current : i >= page.iterationLow /\ (i >= 1 => 1 \in Current)
  /\ page.iteration >= 2 => 1 \in Current
  /\ page.iteration = 1 /\ 1 \notin Current => page.simplayFlag \/ IterUnderWay
  /\ page.maxIteration = SizeOf(page.y)

\* Before the first iteration of a repeated run only Play can be pressed.
NotBegun ==
  page.iteration < page.iterationLow =>
    /\ ~page.pauseFlag /\ ~page.playNoviz
    /\ page.iterationLow = 0 => ~page.forwardLit /\ ~page.backLit

\* What is being played is drawn; what was paused is not asked for again.  A
\* page that has no empty cells yet cannot pause after iteration 0.
WaitingFits ==
  Waiting =>
    /\ page.iterationLow = 0 => page.playFlag \/ page.simplayFlag
    /\ page.simplayFlag => ~page.playFlag
    /\ ~page.simplayFlag =>
         /\ ~page.playNoviz
         /\ page.playFlag => ~page.forwardFlag /\ ~page.backFlag /\ ~page.pauseFlag
    /\ page.iteration = 1 /\ 1 \notin DOMAIN segmentChain /\ Unseen
         => page.iterationLow = 1

\* Where the cells painted over are not those of the chart, the label is one
\* of an iteration that was not received, or 0, and it will be painted again
\* before the iteration of its label arrives.
Mistaken ==
  ~Clean /\ screen.label = 1 /\ 1 \in DOMAIN segmentChain /\ 1 \notin Current
ScreenFits ==
  /\ page.iterationLow = 1 /\ 1 \notin Current =>
       /\ Current = {} /\ page.segmentArr = << >>
       /\ screen.run = run => screen.quads = << >>
  /\ ~AxesAnswered /\ Mistaken =>
       SizeOf(page.y) = 1 /\ page.iteration = 1 /\ page.simplayFlag /\ ~IterUnderWay
  /\ ~AxesAnswered /\ 1 \in Current /\ ~Clean => screen.label \notin Current \ {0}
  /\ Waiting /\ 1 \in Current /\ page.iteration >= 2 /\ Unseen => Clean

PaintInv ==
  /\ DOMAIN screen = ScreenFields
  /\ ListSent /\ BaselineChain /\ CellsKept
  /\ vizType = 2 /\ page.loaded =>
       ChainBegins /\ NotBegun /\ WaitingFits /\ CellsFit /\ ScreenFits

\* What the page knows of its counters.
LEMMA PageCounters ==
  ASSUME OrderInv
  PROVE  /\ DOMAIN page = PageFields /\ Counting(page)
         /\ page.iteration \in Int /\ page.maxIteration \in Int
         /\ page.iterationLow \in {0, 1} /\ page.iteration >= page.iterationLow - 1
         /\ page.playFlag \in BOOLEAN /\ page.simplayFlag \in BOOLEAN
         /\ page.resetFlag \in BOOLEAN /\ page.loaded \in BOOLEAN
         /\ SizeOf(page.y) \in Int /\ SizeOf(page.y) >= 1
BY SizePositive DEF OrderInv, PageShape, Counting, Counted

\* One call is under way at a time.
LEMMA WaitingAlone ==
  ASSUME OrderInv, IterUnderWay
  PROVE  ~AxesAnswered
BY DEF OrderInv, OneCall, RequestsOK, RepliesOK, IterUnderWay, IterAsked,
       IterAnswered, AxesAnswered

-----------------------------------------------------------------------------
(* Drawing what was received.                                              *)

\* The cells that an entry of segmentChain is painted over.
Whiten(i) == IF i >= page.iterationLow /\ page.validCells # Unknown
               THEN page.validCells ELSE {}

\* The screen keeps its picture, but for a label of what it cannot draw, or
\* shows an entry of segmentChain.
Looked ==
  /\ DOMAIN screen' = ScreenFields
  /\ \/ /\ screen'.run = screen.run /\ screen'.quads = screen.quads
        /\ screen'.white = screen.white
        /\ \/ screen'.label = screen.label
           \/ screen'.label \notin DOMAIN segmentChain
           \/ page.validCells = Unknown
     \/ \E j \in DOMAIN segmentChain :
          /\ screen'.run = segmentChain[j].run
          /\ screen'.white = Whiten(j)
          /\ screen'.label = j \/ screen'.label \notin DOMAIN segmentChain

LEMMA RedrawLooks ==
  ASSUME UNCHANGED segmentChain,
         NEW p, p.iterationLow = page.iterationLow, p.validCells = page.validCells,
         NEW s, DOMAIN s = ScreenFields, NEW i
  PROVE  /\ DOMAIN Redraw(p, s, i) = ScreenFields
         /\ Redraw(p, s, i).label = i
         /\ i \in DOMAIN segmentChain =>
              /\ Redraw(p, s, i).run = segmentChain[i].run
              /\ Redraw(p, s, i).white = Whiten(i)
         /\ i \notin DOMAIN segmentChain =>
              /\ Redraw(p, s, i).run = s.run /\ Redraw(p, s, i).quads = s.quads
              /\ Redraw(p, s, i).white = s.white
<1>1. CASE i \in DOMAIN segmentChain
  <2>1. Redraw(p, s, i) = Painted(p, s, i, segmentChain[i])
    BY <1>1 DEF Redraw
  <2>2. Painted(p, s, i, segmentChain[i]).white = Whiten(i)
    BY <1>1 DEF Painted, LegendFails, Whiten
  <2>3. LET t == Painted(p, s, i, segmentChain[i])
        IN  /\ DOMAIN t = ScreenFields
            /\ t.label = i /\ t.run = segmentChain[i].run
    BY DEF Painted, ScreenFields
  <2> QED
    BY <1>1, <2>1, <2>2, <2>3
<1>2. CASE i \notin DOMAIN segmentChain
  BY <1>2 DEF Redraw, ScreenFields
<1> QED
  BY <1>1, <1>2

\* What looking does to a picture.
LEMMA LookKeeps ==
  ASSUME vizType = 2, CellsKept, ChainBegins, CellsFit, ScreenFits, Looked,
         page.iterationLow \in {0, 1},
         UNCHANGED << segmentChain, run, chart >>
  PROVE  /\ page.iterationLow = 1 /\ 1 \notin Current =>
              (screen'.run = run' => screen'.quads = << >>)
         /\ ~AxesAnswered =>
              /\ Mistaken' => Mistaken
              /\ 1 \in Current /\ ~Clean' => screen'.label \notin Current \ {0}
              /\ 1 \in Current /\ Clean => Clean'
<1>1. CellsHere' = CellsHere /\ Current' = Current
  BY DEF CellsHere, Current
<1>2. 1 \in DOMAIN segmentChain => page.validCells # Unknown
  BY DEF CellsKept
<1>3. Current \subseteq DOMAIN segmentChain /\ Current \subseteq Nat
  BY DEF Current, ChainBegins
<1>4. CASE /\ screen'.run = screen.run /\ screen'.quads = screen.quads
           /\ screen'.white = screen.white
           /\ \/ screen'.label = screen.label
              \/ screen'.label \notin DOMAIN segmentChain
              \/ page.validCells = Unknown
  <2>1. Clean' <=> Clean
    BY <1>1, <1>4 DEF Clean
  <2>2. page.iterationLow = 1 /\ 1 \notin Current =>
          (screen'.run = run' => screen'.quads = << >>)
    BY <1>4 DEF ScreenFits
  <2>3. ASSUME screen'.label = 1, 1 \in DOMAIN segmentChain
        PROVE  screen.label = 1
    BY <1>2, <1>4, <2>3
  <2>4. ASSUME ~AxesAnswered, 1 \in Current, ~Clean
        PROVE  screen'.label \notin Current \ {0}
    <3>1. screen.label \notin Current \ {0}
      BY <2>4 DEF ScreenFits
    <3> QED
      BY <1>2, <1>3, <1>4, <2>4, <3>1
  <2>5. ~AxesAnswered => (Mistaken' => Mistaken)
    BY <1>1, <2>1, <2>3 DEF Mistaken
  <2>6. ~AxesAnswered =>
          (1 \in Current /\ ~Clean' => screen'.label \notin Current \ {0})
    BY <2>1, <2>4
  <2>7. ~AxesAnswered =>
          (1 \in Current /\ Clean => Clean')
    BY <2>1
  <2> QED
    BY <2>2, <2>5, <2>6, <2>7
<1>5. ASSUME NEW j \in DOMAIN segmentChain,
             screen'.run = segmentChain[j].run, screen'.white = Whiten(j),
             screen'.label = j \/ screen'.label \notin DOMAIN segmentChain
      PROVE  /\ page.iterationLow = 1 /\ 1 \notin Current =>
                  (screen'.run = run' => screen'.quads = << >>)
             /\ ~AxesAnswered =>
                  /\ Mistaken' => Mistaken
                  /\ 1 \in Current /\ ~Clean' => screen'.label \notin Current \ {0}
                  /\ 1 \in Current /\ Clean => Clean'
  <2>1. screen'.run = run' => j \in Current
    BY <1>5 DEF Current
  <2>2. j \notin Current => Clean'
    BY <2>1 DEF Clean
  <2>3. ASSUME ~AxesAnswered, 1 \in Current, j \in Current
        PROVE  Clean'
    <3>1. page.validCells = CellsHere /\ page.validCells # Unknown
      BY <1>2, <1>3, <2>3 DEF CellsFit
    <3>2. j >= page.iterationLow
      BY <2>3 DEF ChainBegins
    <3>3. screen'.white = CellsHere
      BY <1>5, <3>1, <3>2 DEF Whiten
    <3> QED
      BY <1>1, <3>3 DEF Clean
  <2>4. page.iterationLow = 1 /\ 1 \notin Current => Current = {}
    BY DEF ScreenFits
  <2>5. page.iterationLow = 1 /\ 1 \notin Current =>
          (screen'.run = run' => screen'.quads = << >>)
    BY <2>1, <2>4
  <2>6. ASSUME screen'.label = 1, 1 \in DOMAIN segmentChain, 1 \notin Current
        PROVE  Clean'
    BY <1>5, <2>2, <2>6
  <2>7. ~AxesAnswered /\ 1 \in Current => Clean'
    BY <2>2, <2>3
  <2> QED
    BY <1>1, <2>5, <2>6, <2>7 DEF Mistaken
<1> QED
  BY <1>4, <1>5 DEF Looked

\* Looking leaves playing as it is.
Glances(q, p) ==
  /\ SamePlay(q, p)
  /\ q.pauseFlag = p.pauseFlag /\ q.playNoviz = p.playNoviz
  /\ p.playFlag /\ ~p.forwardFlag /\ ~p.backFlag /\ ~p.pauseFlag =>
       ~q.forwardFlag /\ ~q.backFlag
  /\ vizType = 2 /\ p.iteration < p.iterationLow /\ p.iterationLow = 0
     /\ ~p.forwardLit /\ ~p.backLit => ~q.forwardLit /\ ~q.backLit

LEMMA GlanceFits ==
  ASSUME OrderInv, PaintInv, Glances(page', page), Looked,
         UNCHANGED << heatVars, net, segmentChain, run, vizType >>
  PROVE  PaintInv'
<1>1. /\ Answers' = Answers
      /\ IterUnderWay' <=> IterUnderWay
      /\ AxesAnswered' <=> AxesAnswered
  BY NetKept DEF OrderInv
<1>2. chart' = chart /\ CellsHere' = CellsHere /\ Current' = Current
  BY DEF heatVars, CellsHere, Current
<1>3. /\ page'.loaded = page.loaded /\ page'.y = page.y
      /\ page'.iterationLow = page.iterationLow
      /\ page'.validCells = page.validCells /\ page'.segmentArr = page.segmentArr
      /\ page'.iteration = page.iteration /\ page'.maxIteration = page.maxIteration
      /\ page'.resetFlag = page.resetFlag
      /\ page'.playFlag = page.playFlag /\ page'.simplayFlag = page.simplayFlag
      /\ page'.pauseFlag = page.pauseFlag /\ page'.playNoviz = page.playNoviz
  BY DEF Glances, SamePlay, SameChart
<1>4. (Waiting' <=> Waiting) /\ (Unseen' <=> Unseen)
  BY <1>1, <1>3 DEF Waiting, Unseen
<1>5. ListSent' /\ BaselineChain' /\ CellsKept' /\ DOMAIN screen' = ScreenFields
  BY <1>1, <1>3 DEF PaintInv, ListSent, BaselineChain, CellsKept, Looked
<1>6. ASSUME vizType = 2, page.loaded
      PROVE  ChainBegins' /\ NotBegun' /\ WaitingFits' /\ CellsFit' /\ ScreenFits'
  <2>1. ChainBegins /\ NotBegun /\ WaitingFits /\ CellsFit /\ ScreenFits /\ CellsKept
    BY <1>6 DEF PaintInv
  <2>2. ChainBegins' /\ CellsFit'
    BY <1>1, <1>2, <1>3, <2>1 DEF ChainBegins, CellsFit
  <2>3. NotBegun'
    BY <1>3, <1>6, <2>1 DEF NotBegun, Glances
  <2>4. WaitingFits'
    BY <1>3, <1>4, <2>1 DEF WaitingFits, Glances
  <2>5. ScreenFits'
    <3>1. page.iterationLow \in {0, 1}
      BY PageCounters
    <3>2. /\ page.iterationLow = 1 /\ 1 \notin Current =>
               (screen'.run = run' => screen'.quads = << >>)
          /\ ~AxesAnswered =>
               /\ Mistaken' => Mistaken
               /\ 1 \in Current /\ ~Clean' => screen'.label \notin Current \ {0}
               /\ 1 \in Current /\ Clean => Clean'
      BY <1>2, <1>6, <2>1, <3>1, LookKeeps
    <3>3. Waiting => ~AxesAnswered
      BY WaitingAlone DEF Waiting
    <3> QED
      BY <1>1, <1>2, <1>3, <1>4, <2>1, <3>2, <3>3 DEF ScreenFits
  <2> QED
    BY <2>2, <2>3, <2>4, <2>5
<1> QED
  BY <1>3, <1>5, <1>6 DEF PaintInv

\* Drawing an entry of segmentChain again, or none.
LEMMA RedrawnLooked ==
  ASSUME UNCHANGED segmentChain, DOMAIN screen = ScreenFields, NEW i,
         screen' = Redraw(page, screen, i)
  PROVE  Looked
<1>1. /\ DOMAIN screen' = ScreenFields /\ screen'.label = i
      /\ i \in DOMAIN segmentChain =>
           /\ screen'.run = segmentChain[i].run /\ screen'.white = Whiten(i)
      /\ i \notin DOMAIN segmentChain =>
           /\ screen'.run = screen.run /\ screen'.quads = screen.quads
           /\ screen'.white = screen.white
  BY RedrawLooks
<1> QED
  BY <1>1 DEF Looked

LEMMA SameLooked ==
  ASSUME DOMAIN screen = ScreenFields, screen' = screen
  PROVE  Looked
BY DEF Looked

LEMMA ClickForwardFits ==
  ASSUME OrderInv, PaintInv, ClickForward
  PROVE  PaintInv'
<1> DEFINE p     == page
           moves == p.forwardFlag /\ ~p.playFlag
           to    == p.forwardIter + 1
           most  == Max({p.seekbarMax, to})
           q     == [p EXCEPT !.backFlag = TRUE, !.forwardIter = to,
                              !.seekbarMax = most]
           least == Min({to, p.maxIteration})
           at    == IF moves THEN least ELSE p.forwardIter
           r     == IF moves THEN [q EXCEPT !.forwardIter = at, !.backwardIter = at,
                                            !.playIter = at, !.pauseIter = at]
                             ELSE p
           t     == [r EXCEPT
                      !.forwardFlag = @ \/ (p.iteration < p.maxIteration /\ r.backFlag),
                      !.icon = "play", !.playLit = at < p.maxIteration,
                      !.forwardLit = at < p.iteration - 1, !.backLit = TRUE]
<1>1. /\ DOMAIN page = PageFields /\ page.forwardLit
      /\ page.iteration \in Int /\ page.iterationLow \in Int
      /\ page.iteration >= page.iterationLow
      /\ UNCHANGED << heatVars, net, segmentChain, run, vizType >>
  BY PageCounters DEF ClickForward
<1>2. /\ screen' = screen \/ screen' = Redraw(page, screen, to)
      /\ \/ page' = q /\ moves
         \/ page' = t
  BY DEF ClickForward
<1>3. Looked
  BY <1>1, <1>2, RedrawnLooked, SameLooked DEF PaintInv
<1> DEFINE Alike(x) ==
      /\ SamePlay(x, page)
      /\ x.pauseFlag = page.pauseFlag /\ x.playNoviz = page.playNoviz
<1> HIDE DEF to, most, least, at
<1>4. Alike(q)
  BY <1>1 DEF SamePlay, SameChart, PageFields
<1>5. Alike(r)
  <2> HIDE DEF q
  <2>1. CASE moves
    BY <1>4, <2>1 DEF SamePlay, SameChart, PageFields
  <2>2. CASE ~moves
    BY <1>1, <2>2 DEF SamePlay, SameChart
  <2> QED
    BY <2>1, <2>2
<1>6. ~moves => r = p
  OBVIOUS
<1> HIDE DEF q, r
<1>7. /\ Alike(t) /\ t.backFlag = r.backFlag
      /\ t.forwardFlag = (r.forwardFlag \/ (p.iteration < p.maxIteration /\ r.backFlag))
  BY <1>5 DEF SamePlay, SameChart, PageFields
<1> HIDE DEF t
<1>8. page.playFlag /\ ~page.forwardFlag /\ ~page.backFlag =>
        ~page'.forwardFlag /\ ~page'.backFlag
  BY <1>2, <1>6, <1>7
<1>9. Glances(page', page)
  BY <1>1, <1>2, <1>4, <1>7, <1>8 DEF Glances
<1> QED
  BY <1>1, <1>3, <1>9, GlanceFits

LEMMA ClickBackFits ==
  ASSUME OrderInv, PaintInv, ClickBack
  PROVE  PaintInv'
<1> DEFINE p     == page
           moves == ~p.playFlag /\ p.backFlag
           to    == p.backwardIter - 1
           q     == [p EXCEPT !.forwardFlag = TRUE, !.backwardIter = to]
           at    == Max({to, p.iterationLow})
           r     == IF moves THEN [q EXCEPT !.forwardIter = at, !.playIter = at,
                                            !.pauseIter = at]
                             ELSE p
           early == r.backwardIter < p.maxIteration
           t     == [r EXCEPT !.backLit = @ /\ r.backwardIter > p.iterationLow,
                              !.icon = IF early THEN "play" ELSE @,
                              !.playLit = @ \/ early,
                              !.forwardLit = TRUE]
           u     == [p EXCEPT !.backFlag = FALSE, !.backLit = FALSE,
                              !.forwardLit = TRUE]
<1>1. /\ DOMAIN page = PageFields /\ page.backLit
      /\ UNCHANGED << heatVars, net, segmentChain, run, vizType >>
  BY PageCounters DEF ClickBack
<1>2. /\ screen' = screen \/ (\E i : screen' = Redraw(page, screen, i))
      /\ \/ page' = q /\ moves
         \/ page' = t
         \/ page' = u
  BY DEF ClickBack
<1>3. Looked
  BY <1>1, <1>2, RedrawnLooked, SameLooked DEF PaintInv
<1> DEFINE Alike(x) ==
      /\ SamePlay(x, page)
      /\ x.pauseFlag = page.pauseFlag /\ x.playNoviz = page.playNoviz
<1> HIDE DEF to, at
<1>4. Alike(u) /\ u.forwardFlag = p.forwardFlag /\ u.backFlag = FALSE
  BY <1>1 DEF SamePlay, SameChart, PageFields
<1>5. Alike(q)
  BY <1>1 DEF SamePlay, SameChart, PageFields
<1>6. Alike(r)
  <2> HIDE DEF q
  <2>1. CASE moves
    BY <1>5, <2>1 DEF SamePlay, SameChart, PageFields
  <2>2. CASE ~moves
    BY <1>1, <2>2 DEF SamePlay, SameChart
  <2> QED
    BY <2>1, <2>2
<1>7. ~moves => r = p
  OBVIOUS
<1> HIDE DEF q, r, u
<1>8. Alike(t) /\ t.backFlag = r.backFlag /\ t.forwardFlag = r.forwardFlag
  BY <1>6 DEF SamePlay, SameChart, PageFields
<1> HIDE DEF t
<1>9. page.playFlag /\ ~page.forwardFlag /\ ~page.backFlag =>
        ~page'.forwardFlag /\ ~page'.backFlag
  BY <1>2, <1>4, <1>7, <1>8
<1>10. Glances(page', page)
  BY <1>1, <1>2, <1>4, <1>5, <1>8, <1>9 DEF Glances
<1> QED
  BY <1>1, <1>3, <1>10, GlanceFits

LEMMA ClickSaveFits ==
  ASSUME OrderInv, PaintInv, ClickSave
  PROVE  PaintInv'
<1>1. PICK i : screen' = IF RedrawFails(page, i) THEN [screen EXCEPT !.label = i]
                                                 ELSE Redraw(page, screen, i)
  BY DEF ClickSave
<1>2. /\ DOMAIN page = PageFields /\ page' = page /\ DOMAIN screen = ScreenFields
      /\ UNCHANGED << heatVars, net, segmentChain, run, vizType >>
  BY PageCounters DEF ClickSave, PaintInv
<1>3. Looked
  <2>1. CASE ~RedrawFails(page, i)
    BY <1>1, <1>2, <2>1, RedrawnLooked
  <2>2. CASE RedrawFails(page, i)
    <3>1. /\ DOMAIN screen' = ScreenFields /\ screen'.label = i
          /\ screen'.run = screen.run /\ screen'.quads = screen.quads
          /\ screen'.white = screen.white
      BY <1>1, <1>2, <2>2 DEF ScreenFields
    <3>2. i \notin DOMAIN segmentChain \/ page.validCells = Unknown
      BY <1>2, <2>2 DEF RedrawFails, LegendFails
    <3> QED
      BY <3>1, <3>2 DEF Looked
  <2> QED
    BY <2>1, <2>2
<1>4. Glances(page', page)
  BY <1>2 DEF Glances, SamePlay, SameChart
<1> QED
  BY <1>2, <1>3, <1>4, GlanceFits

\* Min and Max of two integers.
LEMMA MinMaxBound ==
  ASSUME NEW a \in Int, NEW b \in Int
  PROVE  /\ Min({a, b}) <= a /\ Min({a, b}) <= b
         /\ Max({a, b}) >= a /\ Max({a, b}) >= b
<1>1. \E x \in {a, b} : \A y \in {a, b} : x <= y
  OBVIOUS
<1>2. \E x \in {a, b} : \A y \in {a, b} : x >= y
  OBVIOUS
<1>3. \A y \in {a, b} : Min({a, b}) <= y
  BY <1>1 DEF Min
<1>4. \A y \in {a, b} : Max({a, b}) >= y
  BY <1>2 DEF Max
<1> QED
  BY <1>3, <1>4

\* Before the first iteration of a repeated run the seekbar shows nothing.
LEMMA DragSeekbarFits ==
  ASSUME OrderInv, PaintInv, DragSeekbar
  PROVE  PaintInv'
<1> DEFINE p    == page
           a(v) == IF p.pauseFlag THEN Min({v, p.seekbarMax})
                   ELSE Min({Max({Min({v, p.maxIteration}), p.iterationLow}),
                             p.iteration})
           m(v, at) == [p EXCEPT
                    !.forwardFlag = @ \/ at < (IF p.pauseFlag THEN p.pauseIter
                                                              ELSE p.maxIteration),
                    !.backFlag = @ \/ (at > p.iterationLow
                                       /\ at <= (IF p.pauseFlag THEN p.pauseIter
                                                                ELSE p.maxIteration)),
                    !.forwardIter = at, !.backwardIter = at,
                    !.pauseIter = at, !.playIter = at]
<1>1. PICK v \in page.seekMin .. Max({page.seekMin, page.seekMax}) :
        \/ /\ p.pauseFlag \/ ~p.playFlag
           /\ screen' = Redraw(p, screen, a(v))
           /\ page' = IF RedrawFails(p, a(v)) THEN m(v, a(v))
                                              ELSE SeekButtons(m(v, a(v)), a(v))
        \/ /\ ~p.pauseFlag /\ p.playFlag
           /\ page' = SeekButtons(p, v)
           /\ UNCHANGED screen
  BY DEF DragSeekbar
<1> DEFINE at == a(v)
           q  == m(v, at)
<1>2. /\ DOMAIN page = PageFields /\ page.loaded
      /\ page.iteration \in Int /\ page.maxIteration \in Int
      /\ page.iterationLow \in Int /\ Counting(page)
      /\ page.iteration >= page.iterationLow - 1
      /\ UNCHANGED << heatVars, net, segmentChain, run, vizType >>
  BY PageCounters DEF DragSeekbar
<1>3. Looked
  BY <1>1, <1>2, RedrawnLooked, SameLooked DEF PaintInv
<1> DEFINE Alike(x) ==
      /\ SamePlay(x, page)
      /\ x.pauseFlag = page.pauseFlag /\ x.playNoviz = page.playNoviz
<1>4. ASSUME vizType = 2, page.iteration < page.iterationLow, page.iterationLow = 0
      PROVE  /\ RedrawFails(p, at) /\ ~p.pauseFlag /\ ~p.playFlag
  <2>1. ChainBegins /\ NotBegun
    BY <1>2, <1>4 DEF PaintInv
  <2>2. ~p.pauseFlag /\ page.iteration = -1
    BY <1>2, <1>4, <2>1 DEF NotBegun
  <2>3. page.maxIteration >= 1
    BY <2>1, PageCounters DEF ChainBegins
  <2>4. ~p.playFlag
    <3>1. ~Begun(page)
      BY <1>2, <1>4, <2>2, <2>3 DEF Begun
    <3> QED
      BY <3>1 DEF OrderInv, Counted, InPlay
  <2>5. at <= -1
    <3>1. v \in Int
      OBVIOUS
    <3>2. Min({v, p.maxIteration}) \in Int
      BY <1>2, <3>1, MinMaxInt
    <3>3. Max({Min({v, p.maxIteration}), p.iterationLow}) \in Int
      BY <1>2, <3>2, MinMaxInt
    <3>4. Min({Max({Min({v, p.maxIteration}), p.iterationLow}), p.iteration})
            <= p.iteration
      BY <1>2, <3>3, MinMaxBound
    <3> QED
      BY <2>2, <3>4
  <2> HIDE DEF at
  <2>6. at \notin DOMAIN segmentChain
    BY <2>1, <2>5 DEF ChainBegins
  <2> QED
    BY <2>2, <2>4, <2>6 DEF RedrawFails
<1>5. \/ /\ p.pauseFlag \/ ~p.playFlag
         /\ page' = IF RedrawFails(p, at) THEN q ELSE SeekButtons(q, at)
      \/ /\ ~p.pauseFlag /\ p.playFlag
         /\ page' = SeekButtons(p, v)
  BY <1>1
<1> HIDE <1>1
<1> HIDE DEF at
<1>6. Alike(q) /\ q.forwardLit = p.forwardLit /\ q.backLit = p.backLit
  BY <1>2 DEF SamePlay, SameChart, PageFields
<1> HIDE DEF q
<1>7. Alike(SeekButtons(q, at))
  BY <1>6 DEF SamePlay, SameChart, PageFields, SeekButtons
<1>8. /\ Alike(SeekButtons(p, v))
      /\ SeekButtons(p, v).forwardFlag = p.forwardFlag
      /\ SeekButtons(p, v).backFlag = p.backFlag
  BY <1>2 DEF SamePlay, SameChart, PageFields, SeekButtons
<1>9. Alike(page')
  BY <1>5, <1>6, <1>7, <1>8
<1>10. page.playFlag /\ ~page.pauseFlag => page' = SeekButtons(p, v)
  BY <1>5
<1>11. vizType = 2 /\ page.iteration < page.iterationLow /\ page.iterationLow = 0
         => page' = q
  BY <1>4, <1>5
<1>12. Glances(page', page)
  BY <1>6, <1>8, <1>9, <1>10, <1>11 DEF Glances
<1> QED
  BY <1>2, <1>3, <1>12, GlanceFits

\* What the page paints of the list it has at hand.
LEMMA PaintedScreen ==
  ASSUME NEW p, NEW s, NEW i, NEW r, NEW quads
  PROVE  /\ DOMAIN Painted(p, s, i, Entry(r, quads)) = ScreenFields
         /\ Painted(p, s, i, Entry(r, quads)).label = i
         /\ Painted(p, s, i, Entry(r, quads)).run = r
         /\ Painted(p, s, i, Entry(r, quads)).quads = quads
         /\ i >= p.iterationLow /\ ~LegendFails(p, i) =>
              Painted(p, s, i, Entry(r, quads)).white = p.validCells
BY DEF Painted, Entry, ScreenFields

\* Pause paints the last iteration; where that throws, nothing is paused.
LEMMA ClickPauseFits ==
  ASSUME OrderInv, PaintInv, ClickPause
  PROVE  PaintInv'
<1> DEFINE p    == page
           at   == IF p.simplayFlag THEN p.playIter ELSE p.iteration - 1
           to   == Min({at, p.maxIteration})
           most == Max({p.seekbarMax, at})
           held == [p EXCEPT
                     !.simplayFlag = TRUE, !.pauseFlag = TRUE, !.playFlag = FALSE,
                     !.playNoviz = TRUE, !.backFlag = TRUE, !.forwardFlag = TRUE,
                     !.seekbarMax = most,
                     !.pauseIter = to, !.forwardIter = to, !.backwardIter = to,
                     !.playIter = to,
                     !.icon = "play", !.backLit = TRUE, !.forwardLit = to < p.iteration]
           left == [p EXCEPT !.pauseIter = at]
<1>1. /\ DOMAIN page = PageFields /\ page.icon = "pause"
      /\ page.iteration \in Int /\ page.iterationLow \in {0, 1}
      /\ page.playFlag \in BOOLEAN /\ page.simplayFlag \in BOOLEAN
      /\ UNCHANGED << heatVars, net, segmentChain, run, vizType >>
  BY PageCounters DEF ClickPause
<1>2. page.loaded /\ ~page.resetFlag /\ Begun(page)
  BY <1>1 DEF OrderInv, BeforeLoad, BlankAfterReset, Counted, InPlay
<1>3. /\ \/ page' = left /\ ~p.simplayFlag /\ LegendFails(p, at)
         \/ page' = held /\ (p.simplayFlag \/ ~LegendFails(p, at))
      /\ screen' = IF p.simplayFlag THEN screen
                   ELSE Painted(p, screen, at, Entry(run, p.segmentArr))
  BY DEF ClickPause
<1>4. ~p.simplayFlag => at = page.iteration - 1
  OBVIOUS
<1> HIDE DEF at, to, most
<1>5. /\ SameChart(page', page) /\ page'.iteration = page.iteration
      /\ page'.maxIteration = page.maxIteration /\ page'.resetFlag = page.resetFlag
  <2>1. CASE page' = left
    BY <1>1, <2>1 DEF SameChart, PageFields
  <2>2. CASE page' = held
    BY <1>1, <2>2 DEF SameChart, PageFields
  <2> QED
    BY <1>3, <2>1, <2>2
<1>6. \/ /\ ~page.simplayFlag /\ LegendFails(page, at)
         /\ page'.playFlag = page.playFlag /\ page'.simplayFlag = page.simplayFlag
         /\ page'.pauseFlag = page.pauseFlag /\ page'.playNoviz = page.playNoviz
         /\ page'.forwardFlag = page.forwardFlag /\ page'.backFlag = page.backFlag
      \/ /\ page.simplayFlag \/ ~LegendFails(page, at)
         /\ page'.playFlag = FALSE /\ page'.simplayFlag = TRUE
  BY <1>1, <1>3 DEF PageFields
<1> HIDE DEF held, left
<1>7. /\ DOMAIN screen' = ScreenFields
      /\ \/ page.simplayFlag /\ screen' = screen
         \/ /\ ~page.simplayFlag /\ screen'.label = page.iteration - 1
            /\ screen'.run = run /\ screen'.quads = page.segmentArr
            /\ at >= page.iterationLow /\ ~LegendFails(page, at) =>
                 screen'.white = page.validCells
  BY <1>1, <1>3, <1>4, PaintedScreen DEF PaintInv
<1>8. /\ Answers' = Answers
      /\ IterUnderWay' <=> IterUnderWay
      /\ AxesAnswered' <=> AxesAnswered
  BY <1>1, NetKept DEF OrderInv
<1>9. CellsHere' = CellsHere /\ Current' = Current
  BY <1>1 DEF heatVars, CellsHere, Current
<1>10. /\ page'.loaded = page.loaded /\ page'.y = page.y
       /\ page'.iterationLow = page.iterationLow
       /\ page'.validCells = page.validCells /\ page'.segmentArr = page.segmentArr
  BY <1>5 DEF SameChart
<1>11. ListSent' /\ BaselineChain' /\ CellsKept' /\ DOMAIN screen' = ScreenFields
  BY <1>1, <1>7, <1>8, <1>10 DEF PaintInv, ListSent, BaselineChain, CellsKept
<1>12. ASSUME vizType = 2
       PROVE  ChainBegins' /\ NotBegun' /\ WaitingFits' /\ CellsFit' /\ ScreenFits'
  <2>1. ChainBegins /\ NotBegun /\ WaitingFits /\ CellsFit /\ ScreenFits /\ CellsKept
    BY <1>2, <1>12 DEF PaintInv
  <2>2. ChainBegins' /\ CellsFit'
    BY <1>1, <1>5, <1>6, <1>8, <1>9, <1>10, <2>1 DEF ChainBegins, CellsFit
  <2>3. page.iteration >= page.iterationLow
    <3>1. page.maxIteration >= 1
      BY <2>1, PageCounters DEF ChainBegins
    <3> QED
      BY <1>1, <1>2, <3>1, PageCounters DEF Begun
  <2>4. NotBegun'
    BY <1>1, <1>5, <1>10, <2>3 DEF NotBegun
  <2>5. 1 \in DOMAIN segmentChain <=> page.validCells # Unknown
    BY <1>12, <2>1 DEF CellsKept
  <2>6. LegendFails(page, at) <=>
          /\ at >= page.iterationLow
          /\ at \notin DOMAIN segmentChain \/ page.validCells = Unknown
    BY <1>1 DEF LegendFails
  <2>7. Waiting' <=> Waiting
    BY <1>5, <1>8 DEF Waiting
  <2>8. WaitingFits'
    <3>1. CASE ~page.simplayFlag /\ LegendFails(page, at)
      <4>1. (Unseen' <=> Unseen)
        BY <1>6, <3>1 DEF Unseen
      <4> QED
        BY <1>1, <1>5, <1>6, <1>10, <2>1, <2>7, <3>1, <4>1 DEF WaitingFits
    <3>2. CASE page.simplayFlag \/ ~LegendFails(page, at)
      <4>1. page'.playFlag = FALSE /\ page'.simplayFlag = TRUE
        BY <1>6, <3>2
      <4>2. ASSUME Waiting, page.iteration = 1, 1 \notin DOMAIN segmentChain
            PROVE  page.iterationLow = 1
        <5>1. CASE page.simplayFlag
          BY <2>1, <4>2, <5>1 DEF WaitingFits, Unseen
        <5>2. CASE ~page.simplayFlag
          <6>1. at = 0 /\ ~LegendFails(page, at) /\ page.validCells = Unknown
            BY <1>4, <2>5, <3>2, <4>2, <5>2
          <6> QED
            BY <1>1, <2>6, <6>1
        <5> QED
          BY <5>1, <5>2
      <4> QED
        BY <1>1, <1>5, <1>10, <2>7, <4>1, <4>2 DEF WaitingFits
    <3> QED
      BY <3>1, <3>2
  <2>9. ScreenFits'
    <3>1. CASE page.simplayFlag
      <4>1. screen' = screen /\ (Unseen' <=> Unseen) /\ page'.simplayFlag
            /\ (Clean' <=> Clean)
        BY <1>1, <1>6, <1>7, <1>9, <3>1 DEF Unseen, Clean
      <4> QED
        BY <1>1, <1>5, <1>8, <1>9, <1>10, <2>1, <2>7, <4>1 DEF ScreenFits, Mistaken
    <3>2. CASE ~page.simplayFlag
      <4>1. /\ at = page.iteration - 1 /\ screen'.label = at /\ at \in Int
            /\ screen'.run = run /\ screen'.quads = page.segmentArr
            /\ at >= page.iterationLow /\ ~LegendFails(page, at) =>
                 screen'.white = page.validCells
        BY <1>1, <1>4, <1>7, <3>2
      <4>2. page.iterationLow = 1 /\ 1 \notin Current =>
              /\ Current = {} /\ page.segmentArr = << >>
              /\ screen'.quads = << >>
        BY <2>1, <4>1 DEF ScreenFits
      <4>3. ~(Mistaken')
        BY <1>1, <1>9, <2>1, <4>1 DEF ChainBegins, Mistaken
      <4>4. ASSUME ~AxesAnswered, 1 \in Current, at \in Current
            PROVE  Clean'
        <5>1. page.validCells = CellsHere /\ page.validCells # Unknown
          BY <2>1, <2>5, <4>4 DEF CellsFit, Current
        <5>2. at >= page.iterationLow /\ at \in DOMAIN segmentChain
          BY <2>1, <4>4 DEF ChainBegins, Current
        <5> QED
          BY <1>9, <2>6, <4>1, <5>1, <5>2 DEF Clean
      <4>5. ASSUME Waiting, 1 \in Current, page.iteration >= 2, Unseen'
            PROVE  Clean'
        <5>1. ~LegendFails(page, at)
          BY <1>6, <2>1, <3>2, <4>5 DEF WaitingFits, Unseen
        <5>2. ~AxesAnswered
          BY <4>5, WaitingAlone DEF Waiting
        <5>3. at >= page.iterationLow
          BY <1>1, <4>1, <4>5
        <5>4. page.validCells = CellsHere
          BY <2>1, <4>5, <5>2 DEF CellsFit
        <5> QED
          BY <1>9, <4>1, <5>1, <5>3, <5>4 DEF Clean
      <4> QED
        BY <1>5, <1>8, <1>9, <1>10, <2>7, <4>1, <4>2, <4>3, <4>4, <4>5 DEF ScreenFits
    <3> QED
      BY <1>1, <3>1, <3>2
  <2> QED
    BY <2>2, <2>4, <2>8, <2>9
<1> QED
  BY <1>1, <1>2, <1>11, <1>12 DEF PaintInv

-----------------------------------------------------------------------------
(* Playing.                                                                *)

\* What play() leaves alone of the flags that PaintInv is about.
LEMMA PlayFlags ==
  ASSUME NEW p, DOMAIN p = PageFields, Play(p)
  PROVE  /\ page'.playNoviz = p.playNoviz /\ page'.pauseFlag = p.pauseFlag
         /\ page'.forwardFlag = p.forwardFlag
         /\ p.playFlag /\ p.iteration + 1 <= p.maxIteration =>
              page'.backFlag = p.backFlag
<1> DEFINE q  == [p EXCEPT !.iteration = @ + 1]
           to == [q EXCEPT !.backwardIter = q.maxIteration,
                           !.playIter = q.maxIteration,
                           !.pauseIter = q.maxIteration]
           h  == IF q.pauseFlag THEN q ELSE to
<1>1. /\ DOMAIN q = PageFields /\ q.playNoviz = p.playNoviz
      /\ q.pauseFlag = p.pauseFlag /\ q.forwardFlag = p.forwardFlag
      /\ q.backFlag = p.backFlag /\ q.playFlag = p.playFlag
      /\ q.iteration = p.iteration + 1 /\ q.maxIteration = p.maxIteration
  BY DEF PageFields
<1>2. /\ page' = q \/ page' = Finished(q)
      /\ q.playFlag /\ q.iteration <= q.maxIteration => page' = q
  BY DEF Play
<1> HIDE DEF q
<1>3. Finished(q) =
        [h EXCEPT !.backFlag = TRUE, !.playLit = @ /\ ~q.playFlag,
                  !.forwardLit = @ /\ ~q.playFlag, !.backLit = @ \/ q.playFlag,
                  !.playFlag = FALSE]
  BY DEF Finished
<1>4. /\ DOMAIN h = PageFields /\ h.playNoviz = q.playNoviz
      /\ h.pauseFlag = q.pauseFlag /\ h.forwardFlag = q.forwardFlag
  BY <1>1 DEF PageFields
<1> HIDE DEF h
<1>5. /\ Finished(q).playNoviz = q.playNoviz
      /\ Finished(q).pauseFlag = q.pauseFlag
      /\ Finished(q).forwardFlag = q.forwardFlag
  BY <1>3, <1>4 DEF PageFields
<1> QED
  BY <1>1, <1>2, <1>5

\* What a click on Play needs to leave on the screen, however it is drawn.
PlayPicture ==
  /\ DOMAIN screen' = ScreenFields
  /\ vizType = 2 =>
       /\ page.iterationLow = 1 /\ 1 \notin Current =>
            (screen'.run = run' => screen'.quads = << >>)
       /\ Mistaken' => /\ SizeOf(page.y) = 1 /\ page'.iteration = 1
                       /\ page'.simplayFlag /\ UNCHANGED requests
       /\ 1 \in Current /\ ~Clean' => screen'.label \notin Current \ {0}

\* Play asks for an iteration, or leaves the page where it is.
PlayAsked ==
  /\ Send(IterRequest(page'.iteration))
  /\ page'.playFlag /\ ~page'.simplayFlag
  /\ ~page'.forwardFlag /\ ~page'.backFlag
  /\ page'.iteration \in Int /\ page'.iteration >= page.iterationLow
  /\ \/ page'.iteration = page.iteration
     \/ page'.iteration = page.iteration + 1 /\ ~page.simplayFlag
PlayRested ==
  /\ UNCHANGED requests
  /\ page'.iteration = page.iteration
  /\ page.iteration >= page.iterationLow
  /\ \/ page'.simplayFlag
     \/ ~page.simplayFlag
     \/ page.iteration > page.maxIteration

LEMMA PlayedFits ==
  ASSUME OrderInv, PaintInv, Idle, page.loaded,
         UNCHANGED << heatVars, replies, segmentChain, run, vizType >>,
         SameChart(page', page), page'.maxIteration = page.maxIteration,
         ~page'.playNoviz, ~page'.pauseFlag,
         PlayPicture, vizType = 2 => PlayAsked \/ PlayRested
  PROVE  PaintInv'
<1>1. /\ Calls = {} /\ Answers = {} /\ Answers' = {}
      /\ ~IterUnderWay /\ ~AxesAnswered /\ ~(AxesAnswered') /\ ~IterAnswered
  <2>1. Calls = {} /\ Answers = {}
    BY IdleIsQuiet
  <2>2. Answers' = Answers
    BY DEF Answers
  <2> QED
    BY <2>1, <2>2 DEF IterUnderWay, IterAsked, IterAnswered, AxesAnswered
<1>2. CellsHere' = CellsHere /\ Current' = Current
  BY DEF heatVars, CellsHere, Current
<1>3. /\ page'.loaded = page.loaded /\ page'.y = page.y
      /\ page'.iterationLow = page.iterationLow
      /\ page'.validCells = page.validCells /\ page'.segmentArr = page.segmentArr
  BY DEF SameChart
<1>4. ListSent' /\ BaselineChain' /\ CellsKept' /\ DOMAIN screen' = ScreenFields
  BY <1>1, <1>3 DEF PaintInv, ListSent, BaselineChain, CellsKept, PlayPicture
<1>5. ASSUME vizType = 2
      PROVE  ChainBegins' /\ NotBegun' /\ WaitingFits' /\ CellsFit' /\ ScreenFits'
  <2>1. ChainBegins /\ NotBegun /\ WaitingFits /\ CellsFit /\ ScreenFits /\ CellsKept
    BY <1>5 DEF PaintInv
  <2>2. /\ page.iteration \in Int /\ page.iterationLow \in {0, 1}
        /\ page.maxIteration \in Int /\ page.maxIteration >= 1
    BY <2>1, PageCounters DEF ChainBegins
  <2>3. CellsFit'
    BY <1>1, <1>2, <1>3, <2>1 DEF CellsFit
  <2>4. PlayAsked => IterUnderWay'
    <3> SUFFICES ASSUME PlayAsked  PROVE IterUnderWay'
      OBVIOUS
    <3>1. IterRequest(page'.iteration).op = "iter"
      BY DEF IterRequest
    <3> HIDE DEF PlayAsked
    <3>2. Send(IterRequest(page'.iteration))
      BY DEF PlayAsked
    <3>3. Calls' = {IterRequest(page'.iteration)}
      BY <1>1, <3>1, <3>2, CallSent DEF OrderInv, OneCall
    <3> QED
      BY <3>1, <3>3 DEF IterUnderWay, IterAsked
  <2>5. UNCHANGED requests => ~(IterUnderWay')
    BY <1>1 DEF IterUnderWay, IterAsked, IterAnswered, Calls
  <2>6. PlayAsked \/ PlayRested
    BY <1>5
  <2>7. page'.iteration \in Int /\ page'.iteration >= page.iterationLow
    BY <2>2, <2>6 DEF PlayAsked, PlayRested
  <2>8. NotBegun'
    BY <1>3, <2>2, <2>7 DEF NotBegun
  <2>9. page'.iteration >= 2 => 1 \in Current
    <3>1. CASE page'.iteration = page.iteration
      BY <2>1, <3>1 DEF ChainBegins
    <3>2. CASE page'.iteration = page.iteration + 1 /\ ~page.simplayFlag
      BY <1>1, <2>1, <2>2, <3>2 DEF ChainBegins
    <3> QED
      BY <2>6, <3>1, <3>2 DEF PlayAsked, PlayRested
  <2>10. page'.iteration = 1 /\ 1 \notin Current => page'.simplayFlag \/ IterUnderWay'
    <3>1. CASE PlayAsked
      BY <2>4, <3>1
    <3>2. CASE PlayRested
      <4>1. page.iteration = 1 /\ 1 \notin Current => page.simplayFlag
        BY <1>1, <2>1 DEF ChainBegins
      <4>2. page.iteration > page.maxIteration => page.iteration # 1
        BY <2>2
      <4> QED
        BY <3>2, <4>1, <4>2 DEF PlayRested
    <3> QED
      BY <2>6, <3>1, <3>2
  <2>11. ChainBegins'
    BY <1>2, <1>3, <2>1, <2>9, <2>10 DEF ChainBegins
  <2>12. PlayRested => ~(Waiting')
    BY <2>5 DEF PlayRested, Waiting
  <2>13. PlayAsked => ~(Unseen')
    BY DEF PlayAsked, Unseen
  <2>14. WaitingFits'
    BY <2>6, <2>12, <2>13 DEF WaitingFits, PlayAsked
  <2>15. ScreenFits'
    <3>1. ~(Waiting' /\ Unseen')
      BY <2>6, <2>12, <2>13
    <3>2. /\ page.iterationLow = 1 /\ 1 \notin Current =>
               /\ Current = {} /\ page.segmentArr = << >>
               /\ screen'.run = run' => screen'.quads = << >>
          /\ 1 \in Current /\ ~Clean' => screen'.label \notin Current \ {0}
          /\ Mistaken' => /\ SizeOf(page.y) = 1 /\ page'.iteration = 1
                          /\ page'.simplayFlag /\ ~(IterUnderWay')
      BY <1>5, <2>1, <2>5 DEF ScreenFits, PlayPicture
    <3> QED
      BY <1>2, <1>3, <3>1, <3>2 DEF ScreenFits
  <2> QED
    BY <2>3, <2>8, <2>11, <2>14, <2>15
<1> QED
  BY <1>3, <1>4, <1>5 DEF PaintInv

\* The frames of the replay show what was received, the last one as it is.
LEMMA ReplayLooks ==
  ASSUME UNCHANGED segmentChain, DOMAIN screen = ScreenFields, NEW d,
         SameChart(d, page), d.iteration \in Int, d.playIter \in Int, SimulatePlay(d)
  PROVE  /\ Looked
         /\ \/ /\ Play(Resumed(d))
               /\ d.playIter + 1 <= d.iteration - 1 => screen'.label = d.iteration - 1
            \/ \E last : page' = [d EXCEPT !.playIter = last] /\ UNCHANGED requests
<1> DEFINE frames     == d.playIter + 1 .. d.iteration - 1
           Before(i)  == IF i - 1 \in frames THEN Redraw(d, screen, i - 1) ELSE screen
           Upto(last) == IF last \in frames THEN Redraw(d, Before(last), last) ELSE screen
<1>1. \/ /\ \A i \in frames : ~RedrawFails(d, i)
         /\ screen' = Upto(d.iteration - 1)
         /\ Play(Resumed(d))
      \/ \E i \in frames :
           /\ RedrawFails(d, i)
           /\ \A j \in frames : j < i => ~RedrawFails(d, j)
           /\ screen' = Upto(i)
           /\ page' = [d EXCEPT !.playIter = i]
           /\ UNCHANGED requests
  BY DEF SimulatePlay
<1>2. d.iterationLow = page.iterationLow /\ d.validCells = page.validCells
  BY DEF SameChart
<1>3. \A i : ~RedrawFails(d, i) => i \in DOMAIN segmentChain
  BY DEF RedrawFails
<1>4. ASSUME NEW i \in frames, i - 1 \in frames => ~RedrawFails(d, i - 1),
             screen' = Upto(i)
      PROVE  Looked /\ screen'.label = i
  <2>1. screen' = Redraw(d, Before(i), i)
    BY <1>4
  <2>2. CASE i - 1 \in frames
    <3> HIDE DEF frames
    <3>1. Before(i) = Redraw(d, screen, i - 1) /\ i - 1 \in DOMAIN segmentChain
      <4>1. ~RedrawFails(d, i - 1)
        BY <1>4, <2>2
      <4>2. i - 1 \in DOMAIN segmentChain
        BY <1>3, <4>1
      <4>3. Before(i) = Redraw(d, screen, i - 1)
        BY <2>2
      <4> QED
        BY <4>2, <4>3
    <3>2. PICK s : s = Redraw(d, screen, i - 1)
      OBVIOUS
    <3>3. DOMAIN s = ScreenFields /\ s.run = segmentChain[i - 1].run /\ s.white = Whiten(i - 1)
      BY <1>2, <3>1, <3>2, RedrawLooks
    <3>4. screen' = Redraw(d, s, i)
      BY <2>1, <3>1, <3>2
    <3> HIDE DEF Before
    <3>5. /\ DOMAIN screen' = ScreenFields /\ screen'.label = i
          /\ i \in DOMAIN segmentChain =>
               /\ screen'.run = segmentChain[i].run /\ screen'.white = Whiten(i)
          /\ i \notin DOMAIN segmentChain =>
               /\ screen'.run = s.run /\ screen'.white = s.white
      <4>1. DOMAIN s = ScreenFields
        BY <3>3
      <4>2. /\ DOMAIN Redraw(d, s, i) = ScreenFields /\ Redraw(d, s, i).label = i
            /\ i \in DOMAIN segmentChain =>
                 /\ Redraw(d, s, i).run = segmentChain[i].run
                 /\ Redraw(d, s, i).white = Whiten(i)
            /\ i \notin DOMAIN segmentChain =>
                 /\ Redraw(d, s, i).run = s.run /\ Redraw(d, s, i).white = s.white
        BY <1>2, <4>1, RedrawLooks
      <4> QED
        BY <3>4, <4>2
    <3> QED
      BY <3>1, <3>3, <3>5 DEF Looked
  <2>3. CASE i - 1 \notin frames
    <3>1. Before(i) = screen
      BY <2>3
    <3> HIDE DEF Before, frames
    <3>2. /\ DOMAIN screen' = ScreenFields /\ screen'.label = i
          /\ i \in DOMAIN segmentChain =>
               /\ screen'.run = segmentChain[i].run /\ screen'.white = Whiten(i)
          /\ i \notin DOMAIN segmentChain =>
               /\ screen'.run = screen.run /\ screen'.quads = screen.quads
               /\ screen'.white = screen.white
      BY <1>2, <2>1, <3>1, RedrawLooks
    <3> QED
      BY <3>2 DEF Looked
  <2> QED
    BY <2>2, <2>3
<1>5. CASE /\ \A i \in frames : ~RedrawFails(d, i)
           /\ screen' = Upto(d.iteration - 1)
           /\ Play(Resumed(d))
  <2>1. CASE d.iteration - 1 \in frames
    BY <1>4, <1>5, <2>1
  <2>2. CASE d.iteration - 1 \notin frames
    <3>1. screen' = screen
      BY <1>5, <2>2
    <3>2. ~(d.playIter + 1 <= d.iteration - 1)
      BY <2>2
    <3> QED
      BY <1>5, <3>1, <3>2, SameLooked
  <2> QED
    BY <2>1, <2>2
<1>6. ASSUME NEW i \in frames,
             \A j \in frames : j < i => ~RedrawFails(d, j),
             screen' = Upto(i), page' = [d EXCEPT !.playIter = i],
             UNCHANGED requests
      PROVE  Looked /\ \E last : page' = [d EXCEPT !.playIter = last] /\ UNCHANGED requests
  <2>1. i - 1 \in frames => i - 1 < i
    BY DEF frames
  <2>2. Looked
    BY <1>4, <1>6, <2>1
  <2> QED
    BY <1>6, <2>2
<1> QED
  BY <1>1, <1>5, <1>6

\* No flag is left that would keep what is asked for from being drawn.
Unflagged(d) ==
  ~d.forwardFlag /\ ~d.backFlag /\ ~d.pauseFlag /\ ~d.playNoviz

\* What LookKeeps gives where nothing but the screen moved.
LEMMA LooksPlayed ==
  ASSUME OrderInv, PaintInv, Idle, page.loaded, Looked,
         UNCHANGED << heatVars, replies, segmentChain, run, vizType >>,
         vizType = 2 /\ Mistaken' =>
           (page.simplayFlag /\ SizeOf(page.y) = 1 /\ page.iteration = 1 =>
              page'.iteration = 1 /\ page'.simplayFlag /\ UNCHANGED requests)
  PROVE  PlayPicture
<1>1. ~AxesAnswered
  BY IdleIsQuiet DEF AxesAnswered
<1>2. page.iterationLow \in {0, 1} /\ UNCHANGED chart
  BY PageCounters DEF heatVars
<1>3. ASSUME vizType = 2
      PROVE  /\ page.iterationLow = 1 /\ 1 \notin Current =>
                  (screen'.run = run' => screen'.quads = << >>)
             /\ Mistaken' => Mistaken
             /\ 1 \in Current /\ ~Clean' => screen'.label \notin Current \ {0}
             /\ Mistaken => /\ SizeOf(page.y) = 1 /\ page.iteration = 1
                            /\ page.simplayFlag
  <2>1. CellsKept /\ ChainBegins /\ CellsFit /\ ScreenFits
    BY <1>3 DEF PaintInv
  <2>2. /\ page.iterationLow = 1 /\ 1 \notin Current =>
             (screen'.run = run' => screen'.quads = << >>)
        /\ ~AxesAnswered =>
             /\ Mistaken' => Mistaken
             /\ 1 \in Current /\ ~Clean' => screen'.label \notin Current \ {0}
             /\ 1 \in Current /\ Clean => Clean'
    BY <1>2, <1>3, <2>1, LookKeeps
  <2> QED
    BY <1>1, <2>1, <2>2 DEF ScreenFits
<1> QED
  BY <1>3 DEF PlayPicture, Looked

LEMMA ReplayFits ==
  ASSUME OrderInv, PaintInv, Idle, page.loaded,
         UNCHANGED << heatVars, replies, segmentChain, run, vizType >>,
         NEW d, Pressed(d), Unflagged(d), d.simplayFlag = TRUE,
         page.iteration >= page.iterationLow,
         page.iteration = 1 /\ page.maxIteration = 1 => d.playIter <= -1,
         SimulatePlay(d)
  PROVE  PaintInv'
<1>1. /\ page.iteration \in Int /\ page.maxIteration \in Int
      /\ page.iterationLow \in Int /\ DOMAIN d = PageFields /\ Counting(d)
      /\ d.iteration = page.iteration /\ d.playIter \in Int
      /\ SameChart(d, page) /\ DOMAIN screen = ScreenFields
  BY PageCounters DEF Pressed, SameChart, Counting, PaintInv
<1>2. /\ Looked
      /\ \/ /\ Play(Resumed(d))
            /\ d.playIter + 1 <= d.iteration - 1 => screen'.label = d.iteration - 1
         \/ \E last : page' = [d EXCEPT !.playIter = last] /\ UNCHANGED requests
  BY <1>1, ReplayLooks
<1>3. CASE \E last : page' = [d EXCEPT !.playIter = last] /\ UNCHANGED requests
  <2>1. /\ SameChart(page', page) /\ page'.maxIteration = page.maxIteration
        /\ page'.iteration = page.iteration /\ page'.simplayFlag
        /\ ~page'.playNoviz /\ ~page'.pauseFlag /\ UNCHANGED requests
    BY <1>1, <1>3 DEF Pressed, Unflagged, SameChart, PageFields
  <2>2. PlayRested
    BY <2>1 DEF PlayRested
  <2>3. PlayPicture
    BY <1>2, <2>1, LooksPlayed
  <2> QED
    BY <2>1, <2>2, <2>3, PlayedFits
<1>4. CASE /\ Play(Resumed(d))
           /\ d.playIter + 1 <= d.iteration - 1 => screen'.label = d.iteration - 1
  <2> DEFINE p == Resumed(d)
  <2>1. /\ SameChart(p, page) /\ Counting(p) /\ p.iteration = page.iteration - 1
        /\ p.maxIteration = page.maxIteration
        /\ p.playFlag = TRUE /\ p.simplayFlag = FALSE
    BY <1>1, ResumedPage DEF Pressed, SameChart
  <2>2. Unflagged(p)
    BY <1>1 DEF Resumed, Unflagged, PageFields
  <2> HIDE DEF p
  <2>3. DOMAIN p = PageFields /\ Play(p)
    BY <1>4, <2>1 DEF SameChart, p
  <2>4. p.iteration + 1 = page.iteration
    BY <1>1, <2>1
  <2>5. /\ SameChart(page', page) /\ page'.maxIteration = page.maxIteration
        /\ page'.iteration = page.iteration /\ page'.simplayFlag = FALSE
    BY <2>1, <2>3, <2>4, PlayPage DEF SameChart
  <2>6. \/ /\ page'.playFlag = TRUE /\ page.iteration <= page.maxIteration
           /\ Send(IterRequest(page.iteration))
        \/ UNCHANGED requests /\ page.iteration > page.maxIteration
    <3>1. \/ /\ page'.playFlag = p.playFlag /\ p.iteration + 1 <= p.maxIteration
             /\ Send(IterRequest(p.iteration + 1))
          \/ /\ ~(p.playFlag /\ p.iteration + 1 <= p.maxIteration)
             /\ UNCHANGED requests
      BY <2>1, <2>3, PlayPage
    <3> QED
      BY <1>1, <2>1, <2>4, <3>1
  <2>7. /\ ~page'.playNoviz /\ ~page'.pauseFlag /\ ~page'.forwardFlag
        /\ page.iteration <= page.maxIteration => ~page'.backFlag
    <3>1. /\ page'.playNoviz = p.playNoviz /\ page'.pauseFlag = p.pauseFlag
          /\ page'.forwardFlag = p.forwardFlag
          /\ p.playFlag /\ p.iteration + 1 <= p.maxIteration =>
               page'.backFlag = p.backFlag
      BY <2>3, PlayFlags
    <3> QED
      BY <2>1, <2>2, <2>4, <3>1 DEF Unflagged
  <2>8. PlayAsked \/ PlayRested
    BY <1>1, <2>5, <2>6, <2>7 DEF PlayAsked, PlayRested
  <2>9. PlayPicture
    <3>1. ASSUME vizType = 2, SizeOf(page.y) = 1, page.iteration = 1
          PROVE  ~(Mistaken')
      <4>1. page.maxIteration = 1
        BY <3>1 DEF PaintInv, ChainBegins
      <4>2. screen'.label = 0
        BY <1>1, <1>4, <3>1, <4>1
      <4> QED
        BY <4>2 DEF Mistaken
    <3> QED
      BY <1>2, <3>1, LooksPlayed
  <2> QED
    BY <2>5, <2>7, <2>8, <2>9, PlayedFits
<1> QED
  BY <1>2, <1>3, <1>4

LEMMA ClickPlayFits ==
  ASSUME OrderInv, PaintInv, ClickPlay
  PROVE  PaintInv'
<1> DEFINE p == [page EXCEPT !.icon = "pause", !.forwardFlag = FALSE,
                        !.backFlag = FALSE, !.pauseFlag = FALSE,
                        !.playFlag = TRUE, !.playNoviz = FALSE,
                        !.resetFlag = FALSE]
           dimmed == [p EXCEPT !.forwardLit = FALSE, !.backLit = FALSE]
           again  == [dimmed EXCEPT !.simplayFlag = TRUE, !.playIter = @ - 1]
           lit    == [p EXCEPT !.backLit = TRUE]
           ended  == p.iteration >= p.maxIteration
           replay == p.iterationLow <= p.playIter /\ p.playIter < p.maxIteration
<1>1. /\ DOMAIN page = PageFields /\ page.simplayFlag \in BOOLEAN
      /\ page.iteration \in Int /\ page.maxIteration \in Int
      /\ page.iterationLow \in {0, 1} /\ page.playIter \in Int
      /\ page.iteration >= page.iterationLow - 1
      /\ Counting(page) /\ DOMAIN screen = ScreenFields
  BY PageCounters DEF Counting, PaintInv
<1>2. /\ Idle /\ page.loaded
      /\ UNCHANGED << heatVars, replies, segmentChain, run, vizType >>
      /\ \/ ended /\ replay /\ SimulatePlay(again)
         \/ /\ ended /\ page' = lit /\ UNCHANGED requests
            /\ screen' = Painted(p, screen, p.maxIteration, Entry(run, p.segmentArr))
         \/ ~ended /\ p.simplayFlag /\ SimulatePlay(dimmed)
         \/ ~ended /\ ~p.simplayFlag /\ Play(dimmed) /\ UNCHANGED screen
  BY DEF ClickPlay, OrderInv, BeforeLoad
<1>3. /\ Pressed(p) /\ p.simplayFlag = page.simplayFlag /\ Unflagged(p)
      /\ p.playIter = page.playIter
  BY <1>1 DEF Pressed, SameChart, Counting, PageFields, Unflagged
<1> HIDE DEF p
<1>4. /\ Pressed(dimmed) /\ dimmed.simplayFlag = page.simplayFlag
      /\ dimmed.playIter = page.playIter /\ Unflagged(dimmed)
  BY <1>3 DEF Pressed, SameChart, Counting, PageFields, Unflagged
<1>5. Pressed(lit) /\ lit.simplayFlag = page.simplayFlag /\ Unflagged(lit)
  BY <1>3 DEF Pressed, SameChart, Counting, PageFields, Unflagged
<1> HIDE DEF dimmed, lit
<1>6. /\ Pressed(again) /\ again.simplayFlag = TRUE /\ Unflagged(again)
      /\ again.playIter = page.playIter - 1
  BY <1>1, <1>4 DEF Pressed, SameChart, Counting, PageFields, Unflagged
<1> HIDE DEF again
<1>7. /\ ended <=> page.iteration >= page.maxIteration
      /\ replay => /\ page.iterationLow <= page.playIter
                   /\ page.playIter < page.maxIteration
  BY <1>1, <1>3 DEF Pressed, SameChart
<1> HIDE DEF ended, replay
<1>8. CASE ended /\ replay /\ SimulatePlay(again)
  <2>1. /\ page.iteration >= page.iterationLow
        /\ page.maxIteration = 1 => again.playIter <= -1
    BY <1>1, <1>6, <1>7, <1>8
  <2> QED
    BY <1>2, <1>6, <1>8, <2>1, ReplayFits
<1>9. CASE ~ended /\ p.simplayFlag /\ SimulatePlay(dimmed)
  <2>1. page.simplayFlag /\ dimmed.simplayFlag = TRUE
    BY <1>1, <1>3, <1>4, <1>9
  <2>2. /\ page.iteration < page.maxIteration
        /\ page.iteration >= page.iterationLow
    BY <1>1, <1>7, <1>9, <2>1 DEF OrderInv, Counted, InPlay, Begun
  <2>3. ~(page.iteration = 1 /\ page.maxIteration = 1)
    BY <2>2
  <2> QED
    BY <1>2, <1>4, <1>9, <2>1, <2>2, <2>3, ReplayFits
<1>10. CASE ~ended /\ ~p.simplayFlag /\ Play(dimmed) /\ UNCHANGED screen
  <2>1. /\ DOMAIN dimmed = PageFields /\ Counting(dimmed)
        /\ dimmed.playFlag = TRUE /\ ~dimmed.simplayFlag
        /\ dimmed.iteration = page.iteration
        /\ dimmed.maxIteration = page.maxIteration
        /\ page.iteration + 1 <= page.maxIteration
    BY <1>1, <1>3, <1>4, <1>7, <1>10 DEF Pressed, SameChart
  <2>2. /\ SameChart(page', page) /\ page'.maxIteration = page.maxIteration
        /\ page'.iteration = page.iteration + 1 /\ ~page'.simplayFlag
        /\ page'.playFlag = TRUE /\ Send(IterRequest(page.iteration + 1))
    BY <1>4, <1>10, <2>1, PlayPage DEF Pressed, SameChart
  <2>3. Unflagged(page')
    <3>1. /\ page'.playNoviz = dimmed.playNoviz /\ page'.pauseFlag = dimmed.pauseFlag
          /\ page'.forwardFlag = dimmed.forwardFlag
          /\ dimmed.playFlag /\ dimmed.iteration + 1 <= dimmed.maxIteration =>
               page'.backFlag = dimmed.backFlag
      BY <1>10, <2>1, PlayFlags
    <3> QED
      BY <1>4, <2>1, <3>1 DEF Unflagged
  <2>4. ~page.simplayFlag
    BY <1>3, <1>10
  <2>5. PlayAsked
    BY <1>1, <2>2, <2>3, <2>4 DEF PlayAsked, Unflagged
  <2>6. PlayPicture
    BY <1>1, <1>2, <1>10, <2>4, SameLooked, LooksPlayed
  <2> QED
    BY <1>2, <2>2, <2>3, <2>5, <2>6, PlayedFits DEF Unflagged
<1>11. CASE /\ ended /\ page' = lit /\ UNCHANGED requests
            /\ screen' = Painted(p, screen, p.maxIteration, Entry(run, p.segmentArr))
  <2>1. /\ SameChart(page', page) /\ page'.maxIteration = page.maxIteration
        /\ page'.iteration = page.iteration /\ page'.simplayFlag = page.simplayFlag
        /\ ~page'.playNoviz /\ ~page'.pauseFlag
    BY <1>5, <1>11 DEF Pressed, Unflagged
  <2>2. /\ p.maxIteration = page.maxIteration /\ p.segmentArr = page.segmentArr
        /\ p.iterationLow = page.iterationLow /\ p.validCells = page.validCells
    BY <1>3 DEF Pressed, SameChart
  <2> DEFINE max == page.maxIteration
  <2>3. /\ DOMAIN screen' = ScreenFields /\ screen'.label = max
        /\ screen'.run = run /\ screen'.quads = page.segmentArr
        /\ max >= page.iterationLow /\ ~LegendFails(p, max) =>
             screen'.white = page.validCells
    BY <1>11, <2>2, PaintedScreen
  <2>4. LegendFails(p, max) <=>
          /\ max >= page.iterationLow
          /\ max \notin DOMAIN segmentChain \/ page.validCells = Unknown
    BY <1>2, <2>2 DEF LegendFails
  <2>5. Current' = Current /\ CellsHere' = CellsHere
    BY <1>2 DEF heatVars, CellsHere, Current
  <2>6. ~AxesAnswered /\ ~IterUnderWay
    BY <1>2, IdleIsQuiet DEF AxesAnswered, IterUnderWay, IterAsked, IterAnswered
  <2>7. ASSUME vizType = 2
        PROVE  /\ PlayRested
               /\ page.iterationLow = 1 /\ 1 \notin Current =>
                    (screen'.run = run' => screen'.quads = << >>)
               /\ Mistaken' => /\ SizeOf(page.y) = 1 /\ page'.iteration = 1
                               /\ page'.simplayFlag /\ UNCHANGED requests
               /\ 1 \in Current /\ ~Clean' => screen'.label \notin Current \ {0}
    <3>1. ChainBegins /\ CellsKept /\ CellsFit /\ ScreenFits
      BY <1>2, <2>7 DEF PaintInv
    <3>2. max = SizeOf(page.y) /\ max >= 1 /\ page.iteration >= max
      BY <1>7, <1>11, <3>1, PageCounters DEF ChainBegins
    <3>3. PlayRested
      BY <1>1, <1>11, <2>1, <3>2 DEF PlayRested
    <3>4. page.iterationLow = 1 /\ 1 \notin Current => screen'.quads = << >>
      BY <2>3, <3>1 DEF ScreenFits
    <3>5. ASSUME Mistaken'
          PROVE  SizeOf(page.y) = 1 /\ page'.iteration = 1 /\ page'.simplayFlag
      <4>1. max = 1 /\ 1 \notin Current
        BY <2>3, <2>5, <3>5 DEF Mistaken
      <4>2. page.iteration = 1
        BY <1>1, <3>1, <3>2, <4>1 DEF ChainBegins
      <4>3. page.simplayFlag
        BY <2>6, <3>1, <4>1, <4>2 DEF ChainBegins
      <4> QED
        BY <2>1, <3>2, <4>1, <4>2, <4>3
    <3>6. ASSUME 1 \in Current, max \in Current
          PROVE  Clean'
      <4>1. page.validCells = CellsHere /\ page.validCells # Unknown
        BY <2>6, <2>7, <3>1, <3>6 DEF CellsFit, CellsKept, Current
      <4>2. max >= page.iterationLow /\ max \in DOMAIN segmentChain
        BY <3>1, <3>6 DEF ChainBegins, Current
      <4> QED
        BY <2>3, <2>4, <2>5, <4>1, <4>2 DEF Clean
    <3> QED
      BY <1>11, <2>3, <3>3, <3>4, <3>5, <3>6
  <2>8. PlayPicture
    BY <2>3, <2>7 DEF PlayPicture
  <2> QED
    BY <1>2, <2>1, <2>7, <2>8, PlayedFits
<1> QED
  BY <1>2, <1>8, <1>9, <1>10, <1>11

\* Forward in the place of Play: only the first run of a chart is begun so,
\* and nothing of it was received yet.
LEMMA ForwardFirstFits ==
  ASSUME OrderInv, PaintInv, ForwardFirst
  PROVE  PaintInv'
<1>1. /\ Idle /\ page.loaded /\ page.forwardLit
      /\ page.iteration < page.iterationLow
      /\ Send(IterRequest(page.iteration + 1))
      /\ UNCHANGED << heatVars, replies, segmentChain, screen, run, vizType >>
  BY DEF ForwardFirst, view, OrderInv, BeforeLoad
<1>2. /\ DOMAIN page = PageFields
      /\ page.iteration \in Int /\ page.iterationLow \in {0, 1}
      /\ page.iteration >= page.iterationLow - 1
  BY PageCounters
<1>3. /\ SameChart(page', page) /\ page'.iteration = page.iteration + 1
      /\ page'.maxIteration = page.maxIteration
      /\ page'.playFlag = page.playFlag /\ page'.simplayFlag = page.simplayFlag
      /\ page'.pauseFlag = page.pauseFlag /\ page'.playNoviz = page.playNoviz
      /\ page'.resetFlag = page.resetFlag
  BY <1>2 DEF ForwardFirst, SameChart, PageFields
<1>4. /\ page'.loaded = page.loaded /\ page'.y = page.y
      /\ page'.iterationLow = page.iterationLow
      /\ page'.validCells = page.validCells /\ page'.segmentArr = page.segmentArr
  BY <1>3 DEF SameChart
<1>5. /\ Answers = {} /\ Answers' = {} /\ Calls = {}
      /\ ~AxesAnswered /\ ~(AxesAnswered')
  <2>1. Calls = {} /\ Answers = {}
    BY <1>1, IdleIsQuiet
  <2>2. Answers' = Answers
    BY <1>1 DEF Answers
  <2> QED
    BY <2>1, <2>2 DEF AxesAnswered
<1>6. IterUnderWay'
  <2> DEFINE m == IterRequest(page.iteration + 1)
  <2>1. m.op = "iter" /\ Send(m)
    BY <1>1 DEF IterRequest
  <2> HIDE DEF m
  <2>2. Calls' = {m}
    BY <1>5, <2>1, CallSent DEF OrderInv, OneCall
  <2> QED
    BY <2>1, <2>2 DEF IterUnderWay, IterAsked
<1>7. CellsHere' = CellsHere /\ Current' = Current
  BY <1>1 DEF heatVars, CellsHere, Current
<1>8. ListSent' /\ BaselineChain' /\ CellsKept' /\ DOMAIN screen' = ScreenFields
  BY <1>1, <1>4, <1>5 DEF PaintInv, ListSent, BaselineChain, CellsKept
<1>9. ASSUME vizType = 2
      PROVE  ChainBegins' /\ NotBegun' /\ WaitingFits' /\ CellsFit' /\ ScreenFits'
  <2>1. ChainBegins /\ NotBegun /\ WaitingFits /\ CellsFit /\ ScreenFits
    BY <1>1, <1>9 DEF PaintInv
  <2>2. /\ page.iterationLow = 1 /\ page.iteration = 0 /\ page'.iteration = 1
        /\ ~page.playNoviz
    BY <1>1, <1>2, <1>3, <2>1 DEF NotBegun
  <2>3. ~page.playFlag /\ ~page.simplayFlag
    <3>1. page.maxIteration >= 1
      BY <2>1, PageCounters DEF ChainBegins
    <3>2. page.maxIteration \in Int
      BY PageCounters
    <3>3. ~Begun(page)
      BY <2>2, <3>1, <3>2 DEF Begun
    <3> QED
      BY <3>3 DEF OrderInv, Counted, InPlay
  <2>4. ChainBegins'
    BY <1>1, <1>3, <1>4, <1>6, <1>7, <2>1, <2>2 DEF ChainBegins
  <2>5. NotBegun'
    BY <1>4, <2>2 DEF NotBegun
  <2>6. WaitingFits'
    BY <1>3, <1>4, <2>2, <2>3 DEF WaitingFits
  <2>7. CellsFit'
    BY <1>4, <1>5, <1>7, <2>1 DEF CellsFit
  <2>8. Clean' <=> Clean
    BY <1>1, <1>7 DEF Clean
  <2>9. ~Mistaken
    BY <1>5, <2>1, <2>2 DEF ScreenFits
  <2>10. Mistaken' <=> Mistaken
    BY <1>1, <1>7, <2>8 DEF Mistaken
  <2>11. ScreenFits'
    BY <1>1, <1>4, <1>5, <1>7, <2>1, <2>2, <2>8, <2>9, <2>10 DEF ScreenFits
  <2> QED
    BY <2>4, <2>5, <2>6, <2>7, <2>11
<1> QED
  BY <1>1, <1>4, <1>8, <1>9 DEF PaintInv

-----------------------------------------------------------------------------
(* Steps of the network and the server.                                    *)

LEMMA StillFits ==
  ASSUME OrderInv, PaintInv, UNCHANGED << page, view, run, vizType >>,
         IterUnderWay' <=> IterUnderWay, ListSent',
         vizType = 2 /\ page.loaded =>
           \A m \in Answers' : m.op = "iter" /\ ~page.resetFlag /\ page.iteration = 1
             => m.validCells = CellsHere',
         \/ chart' = chart /\ (AxesAnswered' <=> AxesAnswered)
         \/ AxesAnswered' /\ ~IterUnderWay'
  PROVE  PaintInv'
<1>1. segmentChain' = segmentChain /\ screen' = screen /\ Current' = Current
  BY DEF view, Current
<1>2. BaselineChain' /\ CellsKept' /\ DOMAIN screen' = ScreenFields
  BY <1>1 DEF PaintInv, BaselineChain, CellsKept
<1>3. ASSUME vizType = 2, page.loaded
      PROVE  ChainBegins' /\ NotBegun' /\ WaitingFits' /\ CellsFit' /\ ScreenFits'
  <2>1. ChainBegins /\ NotBegun /\ WaitingFits /\ CellsFit /\ ScreenFits
    BY <1>3 DEF PaintInv
  <2>2. (Waiting' <=> Waiting) /\ (Unseen' <=> Unseen)
    BY DEF Waiting, Unseen
  <2>3. ChainBegins' /\ NotBegun' /\ WaitingFits'
    BY <1>1, <2>1, <2>2 DEF ChainBegins, NotBegun, WaitingFits
  <2>4. CASE chart' = chart /\ (AxesAnswered' <=> AxesAnswered)
    <3>1. CellsHere' = CellsHere
      BY <2>4 DEF CellsHere
    <3>2. (Clean' <=> Clean) /\ (Mistaken' <=> Mistaken)
      BY <1>1, <3>1 DEF Clean, Mistaken
    <3>3. CellsFit'
      BY <1>1, <1>3, <2>1, <2>4, <3>1 DEF CellsFit
    <3>4. ScreenFits'
      BY <1>1, <2>1, <2>2, <2>4, <3>2 DEF ScreenFits
    <3> QED
      BY <2>3, <3>3, <3>4
  <2>5. CASE AxesAnswered' /\ ~IterUnderWay'
    <3>1. CellsFit'
      BY <1>3, <2>5 DEF CellsFit
    <3>2. ~(Waiting')
      BY <2>5 DEF Waiting
    <3>3. ScreenFits'
      BY <1>1, <2>1, <2>5, <3>2 DEF ScreenFits
    <3> QED
      BY <2>3, <3>1, <3>3
  <2> QED
    BY <2>4, <2>5
<1> QED
  BY <1>2, <1>3 DEF PaintInv

LEMMA StutterFits ==
  ASSUME OrderInv, PaintInv, UNCHANGED vars
  PROVE  PaintInv'
<1>1. UNCHANGED << heatVars, net, page, view, run, vizType >>
  BY DEF vars
<1>2. /\ Answers' = Answers /\ (IterUnderWay' <=> IterUnderWay)
      /\ AxesAnswered' <=> AxesAnswered
  BY <1>1, NetKept DEF OrderInv
<1>3. chart' = chart /\ CellsHere' = CellsHere
  BY <1>1 DEF heatVars, CellsHere
<1>4. ListSent'
  BY <1>1, <1>2 DEF PaintInv, ListSent
<1> QED
  BY <1>1, <1>2, <1>3, <1>4, StillFits DEF PaintInv, CellsFit

LEMMA VisualizeFits ==
  ASSUME OrderInv, PaintInv, NEW c \in Charts, Visualize(c)
  PROVE  PaintInv'
<1> DEFINE m == AxesRequest(c)
<1>1. /\ Calls = {} /\ Answers = {} /\ Send(m) /\ m.op = "axes"
      /\ UNCHANGED << heatVars, replies, page, view, run, vizType >>
  BY IdleIsQuiet DEF Visualize, AxesRequest
<1> HIDE DEF m
<1>2. Calls' = {m}
  BY <1>1, CallSent DEF OrderInv, OneCall
<1>3. Answers' = {}
  BY <1>1 DEF Answers
<1>4. /\ ~IterUnderWay /\ ~(IterUnderWay') /\ ~AxesAnswered /\ ~(AxesAnswered')
  BY <1>1, <1>2, <1>3 DEF IterUnderWay, IterAsked, IterAnswered, AxesAnswered
<1>5. chart' = chart /\ ListSent'
  BY <1>1, <1>3 DEF heatVars, ListSent
<1> QED
  BY <1>1, <1>3, <1>4, <1>5, StillFits

LEMMA ServeAxesFits ==
  ASSUME OrderInv, PaintInv, NEW m \in DOMAIN requests, ServeAxes(m),
         requests' = requests (-) SetToBag({m}),
         UNCHANGED << page, view, run, vizType >>
  PROVE  PaintInv'
<1> DEFINE a == [op |-> "axes", y |-> Axes(m.chart)]
<1>1. m.op = "axes" /\ replies' = replies (+) SetToBag({a}) /\ a.op = "axes"
  BY DEF ServeAxes
<1> HIDE DEF a
<1>2. Calls = {m} /\ Calls' = {}
  BY <1>1, CallTaken DEF OrderInv, OneCall
<1>3. Answers = {}
  BY <1>2 DEF OrderInv, OneCall
<1>4. Answers' = {a}
  BY <1>1, <1>3, AnswerSent DEF OrderInv, OneCall
<1>5. ~IterUnderWay /\ ~(IterUnderWay') /\ AxesAnswered'
  BY <1>1, <1>2, <1>3, <1>4 DEF IterUnderWay, IterAsked, IterAnswered, AxesAnswered
<1>6. ListSent' /\ \A x \in Answers' : x.op # "iter"
  BY <1>1, <1>4 DEF ListSent
<1> QED
  BY <1>5, <1>6, StillFits

LEMMA ServeResetFits ==
  ASSUME OrderInv, PaintInv, NEW m \in DOMAIN requests, ServeReset(m),
         requests' = requests (-) SetToBag({m}),
         UNCHANGED << page, view, run, vizType >>
  PROVE  PaintInv'
<1>1. m.op = "reset" /\ Reset /\ replies' = replies
  BY DEF ServeReset
<1>2. Calls' = Calls /\ Answers' = Answers
  BY <1>1, ResetTaken DEF OrderInv, OneCall, Answers
<1>3. /\ IterUnderWay' <=> IterUnderWay
      /\ AxesAnswered' <=> AxesAnswered
  BY <1>2 DEF IterUnderWay, IterAsked, IterAnswered, AxesAnswered
<1>4. chart' = chart /\ CellsHere' = CellsHere
  BY <1>1 DEF Reset, CellsHere
<1>5. ListSent'
  BY <1>2 DEF PaintInv, ListSent
<1> QED
  BY <1>2, <1>3, <1>4, <1>5, StillFits DEF PaintInv, CellsFit

\* An answer of the incremental heatmap is never empty.
LEMMA PackedSome == HeatTypeOK /\ Loaded => Packed # << >>
BY PackedPlaces

LEMMA ServeIterFits ==
  ASSUME OrderInv, OrderInv', PaintInv, NEW m \in DOMAIN requests, ServeIter(m),
         requests' = requests (-) SetToBag({m}),
         UNCHANGED << page, view, run, vizType >>
  PROVE  PaintInv'
<1> DEFINE a == [op |-> "iter", y |-> Axes(chart),
                 sl |-> IF vizType = 2 THEN PackCells ELSE << >>,
                 validCells |-> IF m.iter = 1 THEN ValidCells ELSE Unknown]
<1>1. m.op = "iter" /\ replies' = replies (+) SetToBag({a})
      /\ (IF vizType = 2 THEN GenHeat(m.iter) ELSE GenHeatBase)
  BY DEF ServeIter
<1>2. /\ a.op = "iter" /\ (vizType = 2 => a.sl = PackCells)
      /\ (vizType # 2 => a.sl = << >>)
      /\ (m.iter = 1 => a.validCells = ValidCells)
  OBVIOUS
<1> HIDE DEF a
<1>3. Calls = {m} /\ Calls' = {}
  BY <1>1, CallTaken DEF OrderInv, OneCall
<1>4. /\ page.loaded /\ Loaded /\ Answers = {} /\ chart \in Charts
  BY <1>1, <1>3, AskedIsInGrid
<1>5. Answers' = {a}
  BY <1>1, <1>4, AnswerSent DEF OrderInv, OneCall
<1>6. /\ IterUnderWay /\ IterUnderWay' /\ ~AxesAnswered /\ ~(AxesAnswered')
  BY <1>1, <1>2, <1>3, <1>4, <1>5
     DEF IterUnderWay, IterAsked, IterAnswered, AxesAnswered
<1>7. chart' = chart /\ Loaded'
  BY <1>1, <1>4
     DEF GenHeat, GenHeatFirst, GenHeatNext, GenHeatBase, Loaded
<1>8. ListSent'
  <2>1. vizType = 2 => a.sl # << >>
    <3>1. HeatTypeOK' /\ Loaded'
      BY <1>7 DEF OrderInv, HeatInv
    <3>2. (Packed # << >>)'
      BY <3>1, PackedSome, PTL
    <3>3. vizType = 2 => a.sl = Packed'
      BY <1>2, <1>7 DEF PackCells, Packed, Values
    <3> QED
      BY <3>2, <3>3
  <2> QED
    BY <1>2, <1>5, <2>1 DEF ListSent
<1>9. ASSUME vizType = 2, ~page.resetFlag, page.iteration = 1
      PROVE  a.validCells = CellsHere'
  <2>1. m.iter = 1
    BY <1>1, <1>3, <1>9 DEF OrderInv, AskedIsCurrent
  <2>2. empties' \cap Plane = EmptyOf[chart]
    BY <1>7, <1>1, <1>4, <1>9
       DEF OrderInv, HeatInv, EmptiesExact, Loaded, Plane, Columns, Rows,
           GenHeat, GenHeatFirst, GenHeatNext
  <2>3. ValidCells = CellsHere'
    BY <1>7, <2>2 DEF ValidCells, CellsHere
  <2> QED
    BY <1>2, <2>1, <2>3
<1> QED
  BY <1>5, <1>6, <1>7, <1>8, <1>9, StillFits

-----------------------------------------------------------------------------
(* The page is cleared.                                                    *)

LEMMA ClearedFlags ==
  ASSUME NEW p, DOMAIN p = PageFields, NEW low
  PROVE  /\ ~Cleared(p, low).pauseFlag /\ ~Cleared(p, low).playNoviz
         /\ ~Cleared(p, low).forwardLit /\ ~Cleared(p, low).backLit
         /\ Cleared(p, low).validCells = p.validCells
BY DEF Cleared, PageFields

\* A page as it is before the first iteration of a run.
BlankPage(low) ==
  /\ page'.iterationLow = low /\ page'.iteration = low - 1
  /\ page'.maxIteration = SizeOf(page'.y)
  /\ page'.segmentArr = << >> /\ page'.validCells = page.validCells
  /\ ~page'.pauseFlag /\ ~page'.playNoviz
  /\ ~page'.forwardLit /\ ~page'.backLit

LEMMA BlankFits ==
  ASSUME OrderInv, PaintInv, UNCHANGED << segmentChain, vizType >>,
         NEW low \in {0, 1}, BlankPage(low),
         \E r : screen' = Blank(page', r),
         Current' = {}, ~(Waiting'), Answers' \subseteq Answers
  PROVE  PaintInv'
<1>1. /\ DOMAIN screen' = ScreenFields /\ screen'.quads = << >>
  BY DEF Blank, ScreenFields
<1>2. ListSent' /\ BaselineChain' /\ CellsKept'
  BY DEF PaintInv, ListSent, BaselineChain, CellsKept, BlankPage
<1>3. ASSUME vizType = 2
      PROVE  ChainBegins' /\ NotBegun' /\ WaitingFits' /\ CellsFit' /\ ScreenFits'
  <2>1. DOMAIN segmentChain \subseteq Nat
    BY <1>3 DEF PaintInv, ChainBegins, OrderInv, BeforeLoad
  <2>2. /\ ~(page'.iteration >= 1) /\ page'.iteration # 1
        /\ ~(page'.iteration >= 2)
    BY DEF BlankPage
  <2>3. ChainBegins'
    BY <2>1, <2>2 DEF ChainBegins, BlankPage
  <2>4. NotBegun' /\ WaitingFits'
    BY DEF NotBegun, WaitingFits, BlankPage
  <2>5. CellsFit'
    BY <2>2 DEF CellsFit
  <2>6. Clean' /\ ~(Mistaken')
    BY <1>1 DEF Clean, Mistaken
  <2>7. ScreenFits'
    BY <1>1, <2>6 DEF ScreenFits, BlankPage
  <2> QED
    BY <2>3, <2>4, <2>5, <2>7
<1> QED
  BY <1>1, <1>2, <1>3 DEF PaintInv

LEMMA ClickRepeatFits ==
  ASSUME OrderInv, PaintInv, ClickRepeat
  PROVE  PaintInv'
<1> DEFINE p == Cleared(page, 0)
<1>1. /\ DOMAIN page = PageFields /\ AxesShape(page.y) /\ 0 \in {0, 1}
      /\ UNCHANGED << segmentChain, vizType, replies >>
      /\ page' = [p EXCEPT !.resetFlag = TRUE]
      /\ screen' = Blank(page', run + 1) /\ run' = run + 1
  BY PageCounters DEF ClickRepeat, OrderInv, PageShape
<1>2. /\ DOMAIN p = PageFields /\ p.y = page.y
      /\ p.iterationLow = 0 /\ p.segmentArr = << >> /\ p.iteration = 0 - 1
      /\ p.maxIteration = SizeOf(page.y)
  BY <1>1, ClearedPage, Zenon
<1>3. /\ ~p.pauseFlag /\ ~p.playNoviz /\ ~p.forwardLit /\ ~p.backLit
      /\ p.validCells = page.validCells
  BY <1>1, ClearedFlags
<1> HIDE DEF p
<1>4. BlankPage(0) /\ page'.resetFlag
  BY <1>1, <1>2, <1>3 DEF BlankPage, PageFields
<1>5. Current' = {}
  BY <1>1, NewRun DEF OrderInv
<1>6. ~(Waiting') /\ Answers' = Answers
  BY <1>1, <1>4 DEF Waiting, Answers
<1> QED
  BY <1>1, <1>4, <1>5, <1>6, BlankFits

LEMMA DeliverAxesFits ==
  ASSUME OrderInv, PaintInv, DeliverAxes
  PROVE  PaintInv'
<1>1. PICK m \in DOMAIN replies :
        /\ m.op = "axes"
        /\ replies' = replies (-) SetToBag({m})
        /\ LET p == Cleared([page EXCEPT !.y = m.y, !.loaded = TRUE,
                                         !.resetFlag = FALSE], 1)
           IN page' = [p EXCEPT !.seekMin = 1, !.seekMax = p.maxIteration]
              /\ screen' = Blank(p, run + 1)
        /\ Send(ResetRequest)
        /\ run' = run + 1
        /\ UNCHANGED << heatVars, segmentChain, vizType >>
  BY DEF DeliverAxes, BagToSet
<1>2. RepliesOK' /\ Answers = {m} /\ Answers' = {}
  BY <1>1, AnswerGone DEF OrderInv, OneCall
<1>3. RequestsOK' /\ Calls = {} /\ Calls' = {}
  BY <1>1, <1>2, ResetIsSent DEF OrderInv, OneCall
<1>4. ~(Waiting')
  BY <1>2, <1>3 DEF Waiting, IterUnderWay, IterAsked, IterAnswered
<1>5. AxesShape(m.y)
  BY <1>1, <1>2, AxesOfChart DEF OrderInv, HeatInv, HeatTypeOK, Loaded, AxesAgree
<1> DEFINE q == [page EXCEPT !.y = m.y, !.loaded = TRUE, !.resetFlag = FALSE]
           p == Cleared(q, 1)
<1>6. /\ DOMAIN page = PageFields /\ 1 \in {0, 1}
      /\ page' = [p EXCEPT !.seekMin = 1, !.seekMax = p.maxIteration]
      /\ screen' = Blank(p, run + 1)
  BY <1>1, PageCounters
<1>7. DOMAIN q = PageFields /\ q.y = m.y /\ q.validCells = page.validCells
  BY <1>6 DEF PageFields
<1> HIDE DEF q
<1>8. AxesShape(q.y)
  BY <1>5, <1>7
<1>9. /\ DOMAIN p = PageFields /\ p.y = q.y
      /\ p.iterationLow = 1 /\ p.segmentArr = << >> /\ p.iteration = 1 - 1
      /\ p.maxIteration = SizeOf(q.y)
  BY <1>6, <1>7, <1>8, ClearedPage, Zenon
<1>10. /\ ~p.pauseFlag /\ ~p.playNoviz /\ ~p.forwardLit /\ ~p.backLit
       /\ p.validCells = q.validCells
  BY <1>7, ClearedFlags
<1> HIDE DEF p
<1>11. BlankPage(1) /\ page'.iterationLow = p.iterationLow
  BY <1>6, <1>7, <1>9, <1>10 DEF BlankPage, PageFields
<1>12. screen' = Blank(page', run + 1)
  BY <1>6, <1>11 DEF Blank
<1>13. Current' = {}
  BY <1>1, NewRun DEF OrderInv
<1> QED
  BY <1>1, <1>2, <1>4, <1>6, <1>11, <1>12, <1>13, BlankFits

-----------------------------------------------------------------------------
(* An iteration arrives.                                                   *)

LEMMA DiscardFits ==
  ASSUME OrderInv, PaintInv, NEW m \in DOMAIN replies, m.op = "iter",
         replies' = replies (-) SetToBag({m}),
         UNCHANGED << heatVars, run, vizType >>, Discard(m),
         screen' = Blank(page', run)
  PROVE  PaintInv'
<1>1. RepliesOK' /\ Answers = {m} /\ Answers' = {}
  BY AnswerGone DEF OrderInv, OneCall
<1>2. Calls = {} /\ Calls' = {}
  BY <1>1, ResetIsSent DEF OrderInv, OneCall, Discard
<1>3. ~(Waiting')
  BY <1>1, <1>2 DEF Waiting, IterUnderWay, IterAsked, IterAnswered
<1>4. /\ DOMAIN page = PageFields /\ AxesShape(page.y) /\ 0 \in {0, 1}
      /\ page' = Cleared(page, 0) /\ UNCHANGED << segmentChain, run >>
  BY PageCounters DEF Discard, OrderInv, PageShape
<1>5. /\ page'.y = page.y
      /\ page'.iterationLow = 0 /\ page'.segmentArr = << >> /\ page'.iteration = 0 - 1
      /\ page'.maxIteration = SizeOf(page.y)
  BY <1>4, ClearedPage, Zenon
<1>6. /\ ~page'.pauseFlag /\ ~page'.playNoviz /\ ~page'.forwardLit /\ ~page'.backLit
      /\ page'.validCells = page.validCells
  BY <1>4, ClearedFlags
<1>7. BlankPage(0)
  BY <1>5, <1>6 DEF BlankPage
<1>8. Current' = {}
  BY <1>4 DEF Discard, OrderInv, BlankAfterReset, Current
<1> QED
  BY <1>1, <1>3, <1>4, <1>7, <1>8, BlankFits

\* An answer without quadrants comes from the baseline.
LEMMA StopFits ==
  ASSUME OrderInv, PaintInv, NEW m \in DOMAIN replies, m.op = "iter",
         replies' = replies (-) SetToBag({m}), m.sl = << >>,
         UNCHANGED << segmentChain, screen, vizType >>
  PROVE  PaintInv'
<1>1. Answers = {m} /\ Answers' = {}
  BY AnswerGone DEF OrderInv, OneCall
<1>2. vizType # 2
  BY <1>1 DEF PaintInv, ListSent
<1> QED
  BY <1>1, <1>2 DEF PaintInv, ListSent, BaselineChain, CellsKept

\* The page with an answer that has quadrants taken over.
Taken(m) == [Noted(page, m) EXCEPT !.segmentArr = Spliced(@, m.sl)]

LEMMA TakenPage ==
  ASSUME OrderInv, NEW m, m.y = page.y
  PROVE  /\ DOMAIN Taken(m) = PageFields /\ Counting(Taken(m))
         /\ Taken(m).loaded = page.loaded /\ Taken(m).y = page.y
         /\ Taken(m).iterationLow = page.iterationLow
         /\ Taken(m).iteration = page.iteration
         /\ Taken(m).maxIteration = page.maxIteration
         /\ Taken(m).validCells = ValidAfter(m)
         /\ Taken(m).playFlag = page.playFlag
         /\ Taken(m).simplayFlag = page.simplayFlag
         /\ Taken(m).playNoviz = page.playNoviz
         /\ Taken(m).pauseFlag = page.pauseFlag
         /\ Taken(m).forwardFlag = page.forwardFlag
         /\ Taken(m).backFlag = page.backFlag
<1> DEFINE n == Noted(page, m)
           f(x) == /\ DOMAIN x = PageFields /\ Counting(x)
                   /\ x.loaded = page.loaded /\ x.y = page.y
                   /\ x.iterationLow = page.iterationLow
                   /\ x.iteration = page.iteration
                   /\ x.maxIteration = page.maxIteration
                   /\ x.validCells = ValidAfter(m)
                   /\ x.playFlag = page.playFlag
                   /\ x.simplayFlag = page.simplayFlag
                   /\ x.playNoviz = page.playNoviz
                   /\ x.pauseFlag = page.pauseFlag
                   /\ x.forwardFlag = page.forwardFlag
                   /\ x.backFlag = page.backFlag
<1>1. DOMAIN page = PageFields /\ Counting(page)
  BY PageCounters
<1>2. f(n)
  <2>1. CASE page.iteration = 1
    <3>1. n = [page EXCEPT !.validCells = m.validCells, !.y = m.y]
      BY <2>1 DEF Noted
    <3> HIDE DEF n
    <3> QED
      BY <1>1, <2>1, <3>1 DEF ValidAfter, PageFields, Counting
  <2>2. CASE page.iteration # 1
    BY <1>1, <2>2 DEF ValidAfter, Noted
  <2> QED
    BY <2>1, <2>2
<1>3. Taken(m) = [n EXCEPT !.segmentArr = Spliced(@, m.sl)]
  BY DEF Taken
<1> HIDE DEF n
<1>4. f(Taken(m))
  BY <1>2, <1>3 DEF PageFields, Counting
<1> QED
  BY <1>4

\* What the page draws of an answer, and how it goes on.
LEMMA ChartedPage ==
  ASSUME OrderInv, NEW m, m.y = page.y, Charted(m)
  PROVE  LET draw == ~Unseen
             i    == page.iteration
             t    == Taken(m)
         IN  /\ segmentChain' = [j \in DOMAIN segmentChain \cup {i} |->
                                   IF j = i THEN Entry(run, t.segmentArr)
                                            ELSE segmentChain[j]]
             /\ screen' = IF draw THEN Painted(t, screen, i, Entry(run, t.segmentArr))
                                  ELSE screen
             /\ IF (draw /\ LegendFails(t, i)) \/ i > page.maxIteration
                  THEN page' = t /\ UNCHANGED requests
                  ELSE Play([t EXCEPT !.playNoviz = @ \/ t.forwardFlag])
<1> DEFINE t == Taken(m)
           draw == ~t.playNoviz /\ ~t.simplayFlag
           i == page.iteration
<1>1. /\ segmentChain' = [j \in DOMAIN segmentChain \cup {i} |->
                                   IF j = i THEN Entry(run, t.segmentArr)
                                            ELSE segmentChain[j]]
      /\ screen' = IF draw THEN Painted(t, screen, i, Entry(run, t.segmentArr))
                   ELSE screen
      /\ IF (draw /\ LegendFails(t, i)) \/ t.iteration > t.maxIteration
           THEN page' = t /\ UNCHANGED requests
           ELSE Play([t EXCEPT !.playNoviz = @ \/ t.forwardFlag])
  <2>1. t.iteration = i
    BY TakenPage
  <2> QED
    BY <2>1 DEF Charted, Taken
<1>2. /\ t.iteration = i /\ t.maxIteration = page.maxIteration
      /\ draw <=> ~Unseen
  BY TakenPage DEF Unseen
<1> HIDE DEF t, draw
<1> QED
  BY <1>1, <1>2 DEF t

LEMMA ChartedFits ==
  ASSUME OrderInv, PaintInv, NEW m \in DOMAIN replies, m.op = "iter",
         replies' = replies (-) SetToBag({m}), ~page.resetFlag, m.sl # << >>,
         UNCHANGED << heatVars, run, vizType >>, Charted(m)
  PROVE  PaintInv'
<1> DEFINE i == page.iteration
           t == Taken(m)
           r == [t EXCEPT !.playNoviz = @ \/ t.forwardFlag]
<1>1. /\ RepliesOK' /\ Answers = {m} /\ Answers' = {} /\ Calls = {}
      /\ IterUnderWay /\ ~AxesAnswered /\ ~IterAnswered' /\ ~AxesAnswered'
      /\ page.loaded = TRUE /\ m.y = page.y
      /\ page.iterationLow \in {0, 1} /\ i \in Int
      /\ page.maxIteration \in Int
      /\ page.iterationLow <= i /\ i <= SizeOf(page.y)
  BY AnswerComes
<1>2. /\ vizType = 2 /\ Waiting
      /\ ChainBegins /\ NotBegun /\ WaitingFits /\ CellsFit /\ ScreenFits /\ CellsKept
      /\ DOMAIN screen = ScreenFields
  BY <1>1 DEF PaintInv, ListSent, Waiting
<1>3. /\ segmentChain' = [j \in DOMAIN segmentChain \cup {i} |->
                            IF j = i THEN Entry(run, t.segmentArr) ELSE segmentChain[j]]
      /\ screen' = IF ~Unseen THEN Painted(t, screen, i, Entry(run, t.segmentArr))
                   ELSE screen
      /\ IF (~Unseen /\ LegendFails(t, i)) \/ i > page.maxIteration
           THEN page' = t /\ UNCHANGED requests
           ELSE Play(r)
  BY <1>1, ChartedPage
<1>4. /\ DOMAIN t = PageFields /\ Counting(t)
      /\ t.loaded = page.loaded /\ t.y = page.y
      /\ t.iterationLow = page.iterationLow /\ t.iteration = i
      /\ t.maxIteration = page.maxIteration /\ t.validCells = ValidAfter(m)
      /\ t.playFlag = page.playFlag /\ t.simplayFlag = page.simplayFlag
      /\ t.playNoviz = page.playNoviz /\ t.pauseFlag = page.pauseFlag
      /\ t.forwardFlag = page.forwardFlag /\ t.backFlag = page.backFlag
  BY <1>1, TakenPage
<1> HIDE DEF t
<1>5. /\ DOMAIN r = PageFields /\ Counting(r)
      /\ r.loaded = page.loaded /\ r.y = page.y
      /\ r.iterationLow = page.iterationLow /\ r.iteration = i
      /\ r.maxIteration = page.maxIteration /\ r.validCells = ValidAfter(m)
      /\ r.playFlag = page.playFlag /\ r.simplayFlag = page.simplayFlag
      /\ r.playNoviz = (page.playNoviz \/ page.forwardFlag)
      /\ r.pauseFlag = page.pauseFlag
      /\ r.forwardFlag = page.forwardFlag /\ r.backFlag = page.backFlag
  BY <1>4 DEF PageFields, Counting
<1> HIDE DEF r
<1>6. DOMAIN segmentChain' = DOMAIN segmentChain \cup {i}
  BY <1>3
<1>7. Current' = Current \cup {i} /\ Current \subseteq DOMAIN segmentChain
  <2>1. \A j \in DOMAIN segmentChain' :
          segmentChain'[j].run = IF j = i THEN run ELSE segmentChain[j].run
    BY <1>3 DEF Entry
  <2> QED
    BY <1>6, <2>1 DEF Current
<1>8. CellsHere' = CellsHere /\ chart' = chart
  BY DEF heatVars, CellsHere
<1>9. CellsHere # Unknown
  <2>1. chart \in Charts
    BY <1>1 DEF OrderInv, HeatInv, HeatTypeOK, AxesAgree, Loaded
  <2> QED
    BY <2>1, UnknownAssumption DEF CellsHere
<1>10. /\ i = 1 => ValidAfter(m) = CellsHere
       /\ i # 1 => ValidAfter(m) = page.validCells
  BY <1>1, <1>2 DEF ValidAfter, CellsFit
<1>11. /\ i >= 2 => 1 \in Current
       /\ i >= 1 => ValidAfter(m) = CellsHere /\ 1 \in Current'
  BY <1>1, <1>2, <1>7, <1>10 DEF ChainBegins, CellsFit
<1>12. LegendFails(t, i) => i < 1
  BY <1>1, <1>4, <1>6, <1>9, <1>11 DEF LegendFails
<1>13. i <= page.maxIteration /\ page.maxIteration = SizeOf(page.y)
       /\ page.maxIteration >= 1
  BY <1>1, <1>2, PageCounters DEF ChainBegins
<1>14. \/ /\ i = 0 /\ ~Unseen /\ page' = t /\ UNCHANGED requests
       \/ Play(r)
  <2>1. CASE ~Unseen /\ LegendFails(t, i)
    BY <1>1, <1>3, <1>12, <2>1
  <2>2. CASE ~(~Unseen /\ LegendFails(t, i))
    BY <1>1, <1>3, <1>13, <2>2
  <2> QED
    BY <2>1, <2>2
<1>15. ASSUME Play(r)
       PROVE  /\ page'.loaded = page.loaded /\ page'.y = page.y
              /\ page'.iterationLow = page.iterationLow
              /\ page'.validCells = ValidAfter(m)
              /\ page'.maxIteration = page.maxIteration
              /\ page'.iteration = i + 1
              /\ page'.simplayFlag = page.simplayFlag
              /\ \/ /\ page.playFlag /\ page'.playFlag
                    /\ i + 1 <= page.maxIteration
                    /\ Send(IterRequest(i + 1))
                    /\ page'.playNoviz = (page.playNoviz \/ page.forwardFlag)
                    /\ page'.pauseFlag = page.pauseFlag
                    /\ page'.forwardFlag = page.forwardFlag
                    /\ page'.backFlag = page.backFlag
                 \/ /\ ~(page.playFlag /\ i + 1 <= page.maxIteration)
                    /\ UNCHANGED requests
  <2>1. /\ SameChart(page', r)
        /\ page'.maxIteration = r.maxIteration
        /\ page'.iteration = r.iteration + 1
        /\ page'.simplayFlag = r.simplayFlag
        /\ \/ /\ r.playFlag /\ page'.playFlag = r.playFlag
              /\ r.iteration + 1 <= r.maxIteration
              /\ Send(IterRequest(r.iteration + 1))
           \/ /\ ~(r.playFlag /\ r.iteration + 1 <= r.maxIteration)
              /\ UNCHANGED requests
    BY <1>5, <1>15, PlayPage
  <2>2. /\ page'.playNoviz = r.playNoviz /\ page'.pauseFlag = r.pauseFlag
        /\ page'.forwardFlag = r.forwardFlag
        /\ r.playFlag /\ r.iteration + 1 <= r.maxIteration =>
             page'.backFlag = r.backFlag
    BY <1>5, <1>15, PlayFlags
  <2> QED
    BY <1>5, <2>1, <2>2 DEF SameChart
<1>16. /\ page'.loaded = page.loaded /\ page'.y = page.y
       /\ page'.iterationLow = page.iterationLow
       /\ page'.validCells = ValidAfter(m)
       /\ page'.maxIteration = page.maxIteration
       /\ \/ i = 0 /\ page'.iteration = 0
          \/ page'.iteration = i + 1
  BY <1>4, <1>14, <1>15
<1>17. UNCHANGED requests => ~(IterUnderWay')
  BY <1>1 DEF IterUnderWay, IterAsked, IterAnswered, Calls
<1>18. Send(IterRequest(i + 1)) => IterUnderWay'
  <2> SUFFICES ASSUME Send(IterRequest(i + 1))  PROVE IterUnderWay'
    OBVIOUS
  <2>1. IterRequest(i + 1).op = "iter"
    BY DEF IterRequest
  <2> HIDE DEF i
  <2>2. Calls' = {IterRequest(i + 1)}
    BY <1>1, <2>1, CallSent DEF OrderInv, OneCall
  <2> QED
    BY <2>1, <2>2 DEF IterUnderWay, IterAsked
<1>19. Waiting' =>
         /\ page'.playFlag /\ ~page'.simplayFlag /\ ~(Unseen')
         /\ ~page'.forwardFlag /\ ~page'.backFlag /\ ~page'.pauseFlag
  <2> SUFFICES ASSUME Waiting'
               PROVE  /\ page'.playFlag /\ ~page'.simplayFlag /\ ~page'.playNoviz
                      /\ ~page'.forwardFlag /\ ~page'.backFlag /\ ~page'.pauseFlag
    BY DEF Unseen
  <2>1. ~(UNCHANGED requests)
    BY <1>17 DEF Waiting
  <2>2. /\ page.playFlag /\ page'.playFlag
        /\ page'.simplayFlag = page.simplayFlag
        /\ page'.playNoviz = (page.playNoviz \/ page.forwardFlag)
        /\ page'.pauseFlag = page.pauseFlag
        /\ page'.forwardFlag = page.forwardFlag
        /\ page'.backFlag = page.backFlag
    BY <1>14, <1>15, <2>1
  <2>3. /\ ~page.simplayFlag /\ ~page.playNoviz
        /\ ~page.forwardFlag /\ ~page.backFlag /\ ~page.pauseFlag
    BY <1>2, <2>2 DEF WaitingFits
  <2> QED
    BY <2>2, <2>3
<1>20. ListSent' /\ BaselineChain'
  BY <1>1, <1>2 DEF ListSent, BaselineChain
<1>21. CellsKept'
  BY <1>2, <1>6, <1>9, <1>10, <1>16 DEF CellsKept
<1>22. ChainBegins'
  <2>1. DOMAIN segmentChain' \subseteq Nat
    BY <1>1, <1>2, <1>6 DEF ChainBegins
  <2>2. \A j \in Current' : j >= page.iterationLow /\ (j >= 1 => 1 \in Current')
    BY <1>1, <1>2, <1>7, <1>11 DEF ChainBegins
  <2>3. page'.iteration >= 2 => 1 \in Current'
    BY <1>1, <1>11, <1>16
  <2>4. page'.iteration = 1 /\ 1 \notin Current' => page'.simplayFlag \/ IterUnderWay'
    <3> SUFFICES ASSUME page'.iteration = 1, 1 \notin Current'
                 PROVE  page'.simplayFlag \/ IterUnderWay'
      OBVIOUS
    <3>1. i = 0 /\ page.iterationLow = 0 /\ Play(r)
      BY <1>1, <1>4, <1>11, <1>14, <1>16
    <3>2. page.playFlag \/ page.simplayFlag
      BY <1>2, <3>1 DEF WaitingFits
    <3>3. i + 1 <= page.maxIteration
      BY <1>13, <3>1
    <3> QED
      BY <1>15, <1>18, <3>1, <3>2, <3>3
  <2> QED
    BY <1>13, <1>16, <2>1, <2>2, <2>3, <2>4 DEF ChainBegins
<1>23. NotBegun'
  BY <1>1, <1>16 DEF NotBegun
<1>24. WaitingFits'
  BY <1>19 DEF WaitingFits, Unseen
<1>25. CellsFit'
  <2>1. 1 \in Current' => ValidAfter(m) = CellsHere
    BY <1>1, <1>2, <1>7, <1>10 DEF CellsFit
  <2> QED
    BY <1>1, <1>8, <1>16, <2>1 DEF CellsFit
<1>26. DOMAIN screen' = ScreenFields
  BY <1>2, <1>3, PaintedScreen
<1>27. ScreenFits'
  <2>1. ~(page.iterationLow = 1 /\ 1 \notin Current')
    BY <1>1, <1>11
  <2>2. CASE ~Unseen
    <3>1. /\ screen'.label = i
          /\ i >= t.iterationLow /\ ~LegendFails(t, i) => screen'.white = t.validCells
      BY <1>3, <2>2, PaintedScreen
    <3>2. i >= 1 => Clean'
      BY <1>1, <1>4, <1>8, <1>11, <1>12, <3>1 DEF Clean
    <3>3. ~(Mistaken')
      BY <1>11, <3>1 DEF Mistaken
    <3>4. ~Clean' => screen'.label \notin Current' \ {0}
      BY <1>1, <3>1, <3>2
    <3> QED
      BY <1>16, <1>19, <2>1, <3>3, <3>4 DEF ScreenFits
  <2>3. CASE Unseen
    <3>1. screen' = screen /\ (Clean' <=> Clean)
      BY <1>3, <1>8, <2>3 DEF Clean
    <3>2. ~Mistaken
      BY <1>1, <1>2 DEF ScreenFits
    <3>3. ~(Mistaken')
      <4> SUFFICES ASSUME Mistaken'  PROVE FALSE
        OBVIOUS
      <4>1. 1 \notin Current' /\ i < 1 /\ 1 \in DOMAIN segmentChain'
        BY <1>1, <1>11 DEF Mistaken
      <4>2. 1 \in DOMAIN segmentChain /\ 1 \notin Current
        BY <1>6, <1>7, <4>1
      <4> QED
        BY <3>1, <3>2, <4>2 DEF Mistaken
    <3>4. ASSUME ~Clean
          PROVE  screen.label \notin Current' \ {0}
      <4>1. CASE 1 \in Current
        <5>1. screen.label \notin Current \ {0}
          BY <1>1, <1>2, <3>4, <4>1 DEF ScreenFits
        <5>2. ~(i >= 2)
          BY <1>2, <2>3, <3>4, <4>1 DEF ScreenFits
        <5> QED
          BY <1>1, <1>7, <4>1, <5>1, <5>2
      <4>2. CASE 1 \notin Current
        <5>1. \A j \in Current : j = 0
          <6>1. \A j \in Current : j \in Nat /\ ~(j >= 1)
            BY <1>2, <1>7, <4>2 DEF ChainBegins
          <6> QED
            BY <6>1
        <5>2. ~(i >= 2)
          BY <1>11, <4>2
        <5>3. i = 1 => screen.label # 1
          <6> SUFFICES ASSUME i = 1, screen.label = 1  PROVE FALSE
            OBVIOUS
          <6>1. 1 \notin DOMAIN segmentChain
            BY <3>2, <3>4, <4>2 DEF Mistaken
          <6>2. page.iterationLow = 1
            BY <1>2, <2>3, <6>1 DEF WaitingFits
          <6>3. screen.run = run => screen.quads = << >>
            BY <1>2, <4>2, <6>2 DEF ScreenFits
          <6> QED
            BY <3>4, <6>3 DEF Clean
        <5> QED
          BY <1>1, <1>7, <5>1, <5>2, <5>3
      <4> QED
        BY <4>1, <4>2
    <3> QED
      BY <1>16, <1>19, <2>1, <3>1, <3>3, <3>4 DEF ScreenFits
  <2> QED
    BY <2>2, <2>3
<1> QED
  BY <1>20, <1>21, <1>22, <1>23, <1>24, <1>25, <1>26, <1>27 DEF PaintInv

LEMMA DeliverIterFits ==
  ASSUME OrderInv, PaintInv, DeliverIter
  PROVE  PaintInv'
<1>1. PICK m \in DOMAIN replies :
        /\ m.op = "iter"
        /\ replies' = replies (-) SetToBag({m})
        /\ UNCHANGED << heatVars, run, vizType >>
        /\ \/ /\ page.resetFlag
              /\ page' = Cleared(page, 0)
              /\ screen' = Blank(page', run)
              /\ Send(ResetRequest)
              /\ UNCHANGED segmentChain
           \/ /\ ~page.resetFlag /\ m.sl # << >>
              /\ Charted(m)
           \/ /\ ~page.resetFlag /\ m.sl = << >>
              /\ page' = Ended(Noted(page, m))
              /\ UNCHANGED << requests, view >>
  BY Zenon DEF DeliverIter, BagToSet
<1>2. CASE /\ page.resetFlag
           /\ page' = Cleared(page, 0)
           /\ screen' = Blank(page', run)
           /\ Send(ResetRequest)
           /\ UNCHANGED segmentChain
  <2>1. Discard(m)
    BY <1>2 DEF Discard
  <2> QED
    BY <1>1, <1>2, <2>1, DiscardFits
<1>3. CASE ~page.resetFlag /\ m.sl # << >> /\ Charted(m)
  BY <1>1, <1>3, ChartedFits
<1>4. CASE /\ ~page.resetFlag /\ m.sl = << >>
           /\ page' = Ended(Noted(page, m))
           /\ UNCHANGED << requests, view >>
  <2>1. UNCHANGED << segmentChain, screen >>
    BY <1>4 DEF view
  <2> QED
    BY <1>1, <1>4, <2>1, StopFits
<1> QED
  BY <1>1, <1>2, <1>3, <1>4

LEMMA InitPaint == Init => PaintInv
<1> SUFFICES ASSUME Init PROVE PaintInv
  OBVIOUS
<1>1. Answers = {} /\ segmentChain = << >> /\ DOMAIN segmentChain = {}
  BY DEF Init, Answers, EmptyBag, SetToBag
<1>2. ~page.loaded /\ page.validCells = Unknown
  BY DEF Init
<1>3. DOMAIN screen = ScreenFields
  BY DEF Init, Blank, ScreenFields
<1> QED
  BY <1>1, <1>2, <1>3 DEF PaintInv, ListSent, BaselineChain, CellsKept

LEMMA NextPaint ==
  ASSUME OrderInv, OrderInv', PaintInv, [Next]_vars
  PROVE  PaintInv'
<1>1. CASE User
  <2>1. \/ \E c \in Charts : Visualize(c)
        \/ ClickPlay \/ ClickPause
        \/ ForwardFirst \/ ClickForward \/ ClickBack
        \/ DragSeekbar
        \/ ClickRepeat \/ ClickSave
    BY <1>1 DEF User
  <2> QED
    BY <2>1, VisualizeFits, ClickPlayFits, ClickPauseFits, ForwardFirstFits,
       ClickForwardFits, ClickBackFits, DragSeekbarFits, ClickRepeatFits,
       ClickSaveFits
<1>2. CASE Serve
  BY <1>2, ServeCases, ServeAxesFits, ServeResetFits, ServeIterFits
<1>3. CASE Deliver
  BY <1>3, DeliverAxesFits, DeliverIterFits DEF Deliver
<1>4. CASE UNCHANGED vars
  BY <1>4, StutterFits
<1> QED
  BY <1>1, <1>2, <1>3, <1>4 DEF Next

LEMMA PaintHolds == Spec => [](OrderInv /\ PaintInv)
<1>1. Init => OrderInv /\ PaintInv
  BY InitOrder, InitPaint
<1>2. OrderInv /\ PaintInv /\ [Next]_vars => OrderInv' /\ PaintInv'
  BY NextOrder, NextPaint
<1> QED
  BY <1>1, <1>2, PTL DEF Spec

\* The cells painted over as having no records are always those of the chart
\* on display, although they are sent with iteration 1 only (genChart,
\* incvisage.cc), although the page keeps those of the last run and of the
\* last chart (reset and resetOnLoad, player.js, forget to clear them), and
\* although Forward before the first iteration, Repeat or the seekbar may
\* bring entries of an earlier run back to the screen.
THEOREM EmptiesStayPainted == Spec => []EmptyCellsPainted
<1>1. OrderInv /\ PaintInv => EmptyCellsPainted
  <2> SUFFICES ASSUME OrderInv, PaintInv, ~firstIteration, screen.run = run,
                      screen.quads # << >>, screen.label \in Current \ {0}
               PROVE  screen.white = CellsHere
    BY DEF EmptyCellsPainted, CellsHere
  <2>1. screen.label \in DOMAIN segmentChain
    BY DEF Current
  <2>2. page.loaded
    BY <2>1 DEF OrderInv, BeforeLoad
  <2>3. vizType = 2
    BY <2>1 DEF PaintInv, BaselineChain
  <2>4. ~AxesAnswered
    BY DEF OrderInv, AxesAgree, AxesAnswered
  <2>5. ChainBegins /\ ScreenFits
    BY <2>2, <2>3 DEF PaintInv
  <2>6. 1 \in Current
    <3>1. screen.label \in Nat
      BY <2>1, <2>5 DEF ChainBegins
    <3>2. screen.label >= 1
      BY <3>1
    <3> QED
      BY <2>5, <3>2 DEF ChainBegins
  <2>7. Clean
    BY <2>4, <2>5, <2>6 DEF ScreenFits
  <2> QED
    BY <2>7 DEF Clean
<1> QED
  BY <1>1, PaintHolds, PTL

-----------------------------------------------------------------------------
(* The fourth invariant: no counter leaves the iterations of the chart,    *)
(* backwardIter excepted, which Back can lower without limit.  It holds of *)
(* every use of the page, but not of every grid: MaxIters must be above    *)
(* the number of its cells, as the page counts one past the last.          *)

\* The arrays hold the iterations of every grid and the values of its axes.
GridsFit ==
  \A c \in Charts :
    /\ ColumnsOf[c] * RowsOf[c] < MaxIters
    /\ XMinOf[c] + ColumnsOf[c] - 1 <= MaxSide
    /\ YMinOf[c] + RowsOf[c] - 1 <= MaxSide

\* What the label may show, and backwardIter be.
Labels == { i \in Int : i <= MaxIters }

\* What a replay starts from, and what Forward goes on from, is one lower
\* than the others may be.
InRange(p) ==
  /\ p.iteration \in Iters /\ p.maxIteration \in Iters
  /\ p.playIter \in Iters /\ p.pauseIter \in Iters
  /\ p.backwardIter \in Labels /\ p.seekbarMax \in Iters
  /\ p.forwardIter \in Iters /\ p.forwardIter < MaxIters
  /\ p.simplayFlag => p.playIter < MaxIters
  /\ p.seekMin \in {0, 1} /\ p.seekMax \in Int /\ p.seekMax < MaxIters
  /\ p.icon \in {"play", "pause"}

ScreenInRange(s) ==
  /\ DOMAIN s = ScreenFields
  /\ s.label \in Labels /\ s.run \in 0 .. run

\* Cells without records, or none received yet.
InSquare(cells) ==
  cells = Unknown \/ cells \subseteq (0 .. MaxSide) \X (0 .. MaxSide)

RangeInv ==
  /\ InRange(page)
  /\ page.loaded => SizeOf(page.y) < MaxIters
  /\ ScreenInRange(screen)
  /\ DOMAIN segmentChain \subseteq Iters
  /\ InSquare(page.validCells)
  /\ \A m \in Answers : m.op = "iter" => InSquare(m.validCells)

\* What is an iteration.
LEMMA IsIter ==
  ASSUME NEW i
  PROVE  /\ i \in Iters <=> i \in Int /\ -2 <= i /\ i <= MaxIters
         /\ MaxIters \in Int /\ MaxIters >= 1
BY SizeAssumption DEF Iters

LEMMA IsLabel ==
  ASSUME NEW i
  PROVE  /\ i \in Labels <=> i \in Int /\ i <= MaxIters
         /\ i \in Iters => i \in Labels
BY IsIter DEF Labels

LEMMA ItersAreLabels == Iters \subseteq Labels
BY DEF Iters, Labels

LEMMA MinMaxOne ==
  ASSUME NEW a \in Int, NEW b \in Int
  PROVE  /\ Min({a, b}) \in {a, b} /\ Max({a, b}) \in {a, b}
         /\ Min({a, b}) <= a /\ Min({a, b}) <= b
         /\ Max({a, b}) >= a /\ Max({a, b}) >= b
<1>1. \E x \in {a, b} : \A y \in {a, b} : x <= y
  OBVIOUS
<1>2. \E x \in {a, b} : \A y \in {a, b} : x >= y
  OBVIOUS
<1>3. Min({a, b}) \in {a, b}
  BY <1>1 DEF Min
<1>4. Max({a, b}) \in {a, b}
  BY <1>2 DEF Max
<1> QED
  BY <1>3, <1>4, MinMaxBound

\* A loaded page knows its counters, and that its grid fits.
LEMMA LoadedCounters ==
  ASSUME OrderInv, RangeInv, page.loaded
  PROVE  /\ DOMAIN page = PageFields /\ page.iterationLow \in {0, 1}
         /\ page.iteration \in Int /\ page.maxIteration \in Int
         /\ page.iteration >= page.iterationLow - 1
         /\ page.maxIteration < MaxIters
         /\ SizeOf(page.y) \in Int /\ SizeOf(page.y) >= 1
         /\ SizeOf(page.y) < MaxIters
         /\ MaxIters \in Int /\ MaxIters >= 2
<1>1. MaxIters \in Int
  BY SizeAssumption
<1> QED
  BY <1>1, PageCounters DEF RangeInv, OrderInv, Counted

\* Clicks and answers that leave the chart alone need only be looked at for
\* the page's counters and the screen.
LEMMA RangeKept ==
  ASSUME OrderInv, RangeInv, InRange(page'), ScreenInRange(screen'),
         UNCHANGED << segmentChain, run >>,
         page'.loaded = page.loaded, page'.y = page.y,
         page'.validCells = page.validCells, Answers' \subseteq Answers
  PROVE  RangeInv'
<1>1. InRange(page)'
  BY DEF InRange, Labels, Iters
<1>2. ScreenInRange(screen)'
  BY DEF ScreenInRange, Labels, Iters
<1>3. InSquare(page.validCells)' /\ (DOMAIN segmentChain \subseteq Iters)'
  BY DEF RangeInv, InSquare, Iters
<1>4. (\A m \in Answers : m.op = "iter" => InSquare(m.validCells))'
  BY DEF RangeInv, InSquare
<1>5. (page.loaded => SizeOf(page.y) < MaxIters)'
  BY DEF RangeInv, SizeOf, Wide, High
<1> QED
  BY <1>1, <1>2, <1>3, <1>4, <1>5 DEF RangeInv

\* Drawing an entry of segmentChain, or only its label.
LEMMA RedrawInRange ==
  ASSUME OrderInv, UNCHANGED segmentChain,
         NEW p, p.iterationLow = page.iterationLow, p.validCells = page.validCells,
         NEW s, ScreenInRange(s), NEW i \in Labels
  PROVE  ScreenInRange(Redraw(p, s, i))
<1> DEFINE t == Redraw(p, s, i)
<1>1. /\ DOMAIN t = ScreenFields /\ t.label = i
      /\ i \in DOMAIN segmentChain => t.run = segmentChain[i].run
      /\ i \notin DOMAIN segmentChain => t.run = s.run
  BY RedrawLooks DEF ScreenInRange
<1> HIDE DEF t
<1>2. t.run \in 0 .. run
  BY <1>1 DEF OrderInv, RunsPast, ScreenInRange
<1> QED
  BY <1>1, <1>2 DEF ScreenInRange, t

\* Drawing the list the page has at hand.
LEMMA PaintedInRange ==
  ASSUME OrderInv, NEW p, NEW s, NEW i \in Labels, NEW quads
  PROVE  ScreenInRange(Painted(p, s, i, Entry(run, quads)))
<1> DEFINE t == Painted(p, s, i, Entry(run, quads))
<1>1. DOMAIN t = ScreenFields /\ t.label = i /\ t.run = run
  BY PaintedScreen
<1> HIDE DEF t
<1> QED
  BY <1>1 DEF ScreenInRange, OrderInv, RunsPast, t

-----------------------------------------------------------------------------
(* Clicks that only look.                                                  *)

LEMMA ClickForwardRange ==
  ASSUME OrderInv, PaintInv, RangeInv, ClickForward
  PROVE  RangeInv'
<1> DEFINE p     == page
           moves == p.forwardFlag /\ ~p.playFlag
           to    == p.forwardIter + 1
           most  == Max({p.seekbarMax, to})
           q     == [p EXCEPT !.backFlag = TRUE, !.forwardIter = to,
                              !.seekbarMax = most]
           least == Min({to, p.maxIteration})
           at    == IF moves THEN least ELSE p.forwardIter
           r     == IF moves THEN [q EXCEPT !.forwardIter = at, !.backwardIter = at,
                                            !.playIter = at, !.pauseIter = at]
                             ELSE p
           t     == [r EXCEPT
                      !.forwardFlag = @ \/ (p.iteration < p.maxIteration /\ r.backFlag),
                      !.icon = "play", !.playLit = at < p.maxIteration,
                      !.forwardLit = at < p.iteration - 1, !.backLit = TRUE]
<1>1. Quiet /\ page.loaded
  BY ClickForwardQuiet DEF ClickForward, OrderInv, BeforeLoad
<1>2. /\ \/ screen' = screen
         \/ screen' = Redraw(page, screen, to) /\ to <= p.maxIteration
      /\ \/ page' = q /\ to <= p.maxIteration
         \/ page' = t
  BY DEF ClickForward
<1>3. /\ DOMAIN page = PageFields /\ InRange(page)
      /\ page.maxIteration < MaxIters /\ page.maxIteration \in Iters
  BY <1>1, LoadedCounters DEF RangeInv, InRange
<1>4. to \in Iters /\ p.seekbarMax \in Int /\ to \in Int
  BY <1>3, IsIter DEF InRange
<1>5. most \in Iters /\ least \in Iters /\ least < MaxIters
  <2>1. least \in {to, p.maxIteration} /\ least <= p.maxIteration
        /\ most \in {p.seekbarMax, to}
    BY <1>3, <1>4, IsIter, MinMaxOne
  <2> QED
    BY <1>3, <1>4, <2>1, IsIter DEF InRange
<1> HIDE DEF to, most, least
<1>6. ASSUME to < MaxIters PROVE InRange(q)
  BY <1>3, <1>4, <1>5, <1>6 DEF InRange, PageFields
<1>7. InRange(r) /\ DOMAIN r = PageFields
  <2>1. CASE moves
    BY <1>3, <1>4, <1>5, <2>1, ItersAreLabels DEF InRange, PageFields
  <2>2. CASE ~moves
    BY <1>3, <2>2
  <2> QED
    BY <2>1, <2>2
<1> HIDE DEF at, r
<1>8. InRange(t)
  BY <1>7 DEF InRange, PageFields
<1> HIDE DEF t
<1>9. to <= p.maxIteration => to < MaxIters
  BY <1>3, <1>4, IsIter
<1>10. InRange(page')
  BY <1>2, <1>6, <1>8, <1>9
<1>11. ScreenInRange(screen')
  BY <1>1, <1>2, <1>4, IsLabel, RedrawInRange DEF RangeInv, Quiet
<1> QED
  BY <1>1, <1>10, <1>11, RangeKept DEF Quiet, SameChart, net, Answers

LEMMA ClickBackRange ==
  ASSUME OrderInv, PaintInv, RangeInv, ClickBack
  PROVE  RangeInv'
<1> DEFINE p     == page
           moves == ~p.playFlag /\ p.backFlag
           to    == p.backwardIter - 1
           q     == [p EXCEPT !.forwardFlag = TRUE, !.backwardIter = to]
           at    == Max({to, p.iterationLow})
           r     == IF moves THEN [q EXCEPT !.forwardIter = at, !.playIter = at,
                                            !.pauseIter = at]
                             ELSE p
           early == r.backwardIter < p.maxIteration
           t     == [r EXCEPT !.backLit = @ /\ r.backwardIter > p.iterationLow,
                              !.icon = IF early THEN "play" ELSE @,
                              !.playLit = @ \/ early,
                              !.forwardLit = TRUE]
           u     == [p EXCEPT !.backFlag = FALSE, !.backLit = FALSE,
                              !.forwardLit = TRUE]
<1>1. Quiet /\ page.loaded
  BY ClickBackQuiet DEF ClickBack, OrderInv, BeforeLoad
<1>2. /\ \/ screen' = screen
         \/ screen' = Redraw(page, screen, to)
         \/ screen' = Redraw(page, screen, p.iteration)
      /\ \/ page' = q
         \/ page' = t
         \/ page' = u
  BY DEF ClickBack
<1>3. /\ DOMAIN page = PageFields /\ InRange(page)
      /\ page.iterationLow \in {0, 1} /\ MaxIters >= 2 /\ MaxIters \in Int
  BY <1>1, LoadedCounters DEF RangeInv
<1>4. to \in Labels /\ to \in Int /\ to < MaxIters
  BY <1>1, <1>3, IsLabel DEF InRange
<1>5. at \in Iters /\ at < MaxIters
  <2>1. p.iterationLow \in Int
    BY <1>3
  <2>2. at \in {to, p.iterationLow} /\ at >= p.iterationLow
    BY <1>4, <2>1, MinMaxOne
  <2> QED
    BY <1>3, <1>4, <2>2, IsIter
<1> HIDE DEF to, at
<1>6. InRange(q) /\ DOMAIN q = PageFields
  BY <1>3, <1>4 DEF InRange, PageFields
<1>7. InRange(u)
  BY <1>3 DEF InRange, PageFields
<1> HIDE DEF q, u
<1>8. InRange(r) /\ DOMAIN r = PageFields
  <2>1. CASE moves
    BY <1>5, <1>6, <2>1 DEF InRange, PageFields
  <2>2. CASE ~moves
    BY <1>3, <2>2
  <2> QED
    BY <2>1, <2>2
<1> HIDE DEF r
<1>9. InRange(t)
  BY <1>8 DEF InRange, PageFields
<1> HIDE DEF t
<1>10. InRange(page')
  BY <1>2, <1>6, <1>7, <1>9
<1>11. ScreenInRange(screen')
  <2>1. p.iteration \in Iters
    BY <1>3 DEF InRange
  <2> QED
    BY <1>1, <1>2, <1>4, <2>1, IsLabel, RedrawInRange DEF RangeInv, Quiet
<1> QED
  BY <1>1, <1>10, <1>11, RangeKept DEF Quiet, SameChart, net, Answers

LEMMA ClickSaveRange ==
  ASSUME OrderInv, PaintInv, RangeInv, ClickSave
  PROVE  RangeInv'
<1> DEFINE p == page
           at == IF p.backFlag THEN p.backwardIter
                 ELSE IF p.forwardFlag THEN p.forwardIter
                 ELSE IF p.simplayFlag THEN p.playIter
                 ELSE p.iteration
<1>1. /\ page' = page /\ UNCHANGED << net, segmentChain, run >>
      /\ screen' = IF RedrawFails(p, at) THEN [screen EXCEPT !.label = at]
                                         ELSE Redraw(p, screen, at)
  BY DEF ClickSave
<1>2. at \in Labels
  BY IsLabel DEF RangeInv, InRange
<1> HIDE DEF at
<1>3. ScreenInRange(screen')
  <2>1. ScreenInRange(Redraw(p, screen, at))
    BY <1>1, <1>2, IsLabel, RedrawInRange DEF RangeInv
  <2>2. ScreenInRange([screen EXCEPT !.label = at])
    BY <1>2 DEF RangeInv, ScreenInRange, ScreenFields
  <2> QED
    BY <1>1, <2>1, <2>2
<1>4. InRange(page')
  BY <1>1 DEF RangeInv
<1> QED
  BY <1>1, <1>3, <1>4, RangeKept DEF net, Answers

LEMMA DragSeekbarRange ==
  ASSUME OrderInv, PaintInv, RangeInv, DragSeekbar
  PROVE  RangeInv'
<1> DEFINE p    == page
           a(v) == IF p.pauseFlag THEN Min({v, p.seekbarMax})
                   ELSE Min({Max({Min({v, p.maxIteration}), p.iterationLow}),
                             p.iteration})
           m(v, at) == [p EXCEPT
                    !.forwardFlag = @ \/ at < (IF p.pauseFlag THEN p.pauseIter
                                                              ELSE p.maxIteration),
                    !.backFlag = @ \/ (at > p.iterationLow
                                       /\ at <= (IF p.pauseFlag THEN p.pauseIter
                                                                ELSE p.maxIteration)),
                    !.forwardIter = at, !.backwardIter = at,
                    !.pauseIter = at, !.playIter = at]
<1>1. PICK v \in page.seekMin .. Max({page.seekMin, page.seekMax}) :
        \/ /\ screen' = Redraw(p, screen, a(v))
           /\ page' = IF RedrawFails(p, a(v)) THEN m(v, a(v))
                                              ELSE SeekButtons(m(v, a(v)), a(v))
        \/ /\ page' = SeekButtons(p, v)
           /\ UNCHANGED screen
  BY DEF DragSeekbar
<1> DEFINE at == a(v)
           q  == m(v, at)
<1>2. Quiet /\ page.loaded
  BY DragSeekbarQuiet DEF DragSeekbar
<1>3. /\ DOMAIN page = PageFields /\ InRange(page)
      /\ page.iterationLow \in {0, 1} /\ page.iteration \in Int
      /\ page.iteration >= page.iterationLow - 1
      /\ page.maxIteration \in Int /\ page.maxIteration < MaxIters
      /\ MaxIters >= 2 /\ MaxIters \in Int
  BY <1>2, LoadedCounters DEF RangeInv
<1>4. v \in Int /\ 0 <= v /\ v < MaxIters
  <2> DEFINE top == Max({page.seekMin, page.seekMax})
  <2>1. page.seekMin \in {0, 1} /\ page.seekMax \in Int /\ page.seekMax < MaxIters
    BY <1>3 DEF InRange
  <2>2. top \in {page.seekMin, page.seekMax}
    <3>1. page.seekMin \in Int /\ page.seekMax \in Int
      BY <2>1
    <3> QED
      BY <3>1, MinMaxOne
  <2>3. v \in page.seekMin .. top
    OBVIOUS
  <2> HIDE DEF top
  <2> QED
    BY <1>3, <2>1, <2>2, <2>3
<1>5. at \in Iters /\ at < MaxIters
  <2>1. CASE p.pauseFlag
    <3>1. p.seekbarMax \in Int /\ p.seekbarMax \in Iters
      BY <1>3, IsIter DEF InRange
    <3>2. at \in {v, p.seekbarMax} /\ at <= v
      BY <1>4, <2>1, <3>1, MinMaxOne
    <3> QED
      BY <1>3, <1>4, <3>1, <3>2, IsIter
  <2>2. CASE ~p.pauseFlag
    <3> DEFINE low == Min({v, p.maxIteration})
               mid == Max({low, p.iterationLow})
    <3>1. low \in Int /\ low <= p.maxIteration
      BY <1>3, <1>4, MinMaxOne
    <3>2. mid \in {low, p.iterationLow} /\ mid >= p.iterationLow
      <4> HIDE DEF low
      <4>1. low \in Int /\ p.iterationLow \in Int
        BY <1>3, <3>1
      <4> QED
        BY <4>1, MinMaxOne
    <3>3. mid \in Int /\ mid >= 0 /\ mid < MaxIters
      <4> HIDE DEF low, mid
      <4> QED
        BY <1>3, <3>1, <3>2
    <3>4. Min({mid, p.iteration}) \in {mid, p.iteration}
          /\ Min({mid, p.iteration}) <= mid
      <4> HIDE DEF low, mid
      <4> QED
        BY <1>3, <3>3, MinMaxOne
    <3>5. at = Min({mid, p.iteration})
      BY <2>2
    <3> HIDE DEF at, mid, low
    <3> QED
      BY <1>3, <3>3, <3>4, <3>5, IsIter
  <2> QED
    BY <2>1, <2>2
<1>6. \/ /\ screen' = Redraw(p, screen, at)
         /\ page' = q \/ page' = SeekButtons(q, at)
      \/ page' = SeekButtons(p, v) /\ screen' = screen
  BY <1>1
<1> HIDE <1>1
<1> HIDE DEF at
<1>7. InRange(q) /\ DOMAIN q = PageFields
  BY <1>3, <1>5, ItersAreLabels DEF InRange, PageFields
<1> HIDE DEF q
<1>8. InRange(SeekButtons(q, at)) /\ InRange(SeekButtons(p, v))
  BY <1>3, <1>7 DEF InRange, PageFields, SeekButtons
<1>9. InRange(page')
  BY <1>6, <1>7, <1>8
<1>10. ScreenInRange(screen')
  BY <1>2, <1>5, <1>6, IsLabel, RedrawInRange DEF RangeInv, Quiet
<1> QED
  BY <1>2, <1>9, <1>10, RangeKept DEF Quiet, SameChart, net, Answers

LEMMA ClickPauseRange ==
  ASSUME OrderInv, PaintInv, RangeInv, ClickPause
  PROVE  RangeInv'
<1> DEFINE p    == page
           at   == IF p.simplayFlag THEN p.playIter ELSE p.iteration - 1
           to   == Min({at, p.maxIteration})
           most == Max({p.seekbarMax, at})
           held == [p EXCEPT
                     !.simplayFlag = TRUE, !.pauseFlag = TRUE, !.playFlag = FALSE,
                     !.playNoviz = TRUE, !.backFlag = TRUE, !.forwardFlag = TRUE,
                     !.seekbarMax = most,
                     !.pauseIter = to, !.forwardIter = to, !.backwardIter = to,
                     !.playIter = to,
                     !.icon = "play", !.backLit = TRUE, !.forwardLit = to < p.iteration]
           left == [p EXCEPT !.pauseIter = at]
<1>1. Quiet /\ page.loaded
  BY ClickPauseQuiet DEF ClickPause, OrderInv, BeforeLoad
<1>2. /\ page' = held \/ page' = left
      /\ \/ screen' = screen
         \/ screen' = Painted(p, screen, at, Entry(run, p.segmentArr))
  BY DEF ClickPause
<1>3. /\ DOMAIN page = PageFields /\ InRange(page)
      /\ page.iterationLow \in {0, 1} /\ page.iteration \in Int
      /\ page.iteration >= page.iterationLow - 1
      /\ page.maxIteration \in Int /\ page.maxIteration < MaxIters
  BY <1>1, LoadedCounters DEF RangeInv
<1>4. at \in Iters /\ at \in Int
  BY <1>3, IsIter DEF InRange
<1>5. to \in Iters /\ to < MaxIters /\ most \in Iters
  <2>1. p.seekbarMax \in Int /\ p.seekbarMax \in Iters /\ p.maxIteration \in Iters
    BY <1>3, IsIter DEF InRange
  <2> HIDE DEF at
  <2>2. to \in {at, p.maxIteration} /\ to <= p.maxIteration
        /\ most \in {p.seekbarMax, at}
    BY <1>3, <1>4, <2>1, MinMaxOne
  <2> HIDE DEF to, most
  <2> QED
    BY <1>3, <1>4, <2>1, <2>2, IsIter
<1> HIDE DEF at, to, most
<1>6. InRange(held) /\ InRange(left)
  BY <1>3, <1>4, <1>5, ItersAreLabels DEF InRange, PageFields
<1> HIDE DEF held, left
<1>7. InRange(page')
  BY <1>2, <1>6
<1>8. ScreenInRange(screen')
  BY <1>2, <1>4, IsLabel, PaintedInRange DEF RangeInv
<1> QED
  BY <1>1, <1>7, <1>8, RangeKept DEF Quiet, SameChart, net, Answers

-----------------------------------------------------------------------------
(* Playing.                                                                *)

LEMMA PlayInRange ==
  ASSUME NEW p, DOMAIN p = PageFields, InRange(p), p.iteration < MaxIters,
         p.maxIteration < MaxIters, Play(p)
  PROVE  InRange(page')
<1> DEFINE q  == [p EXCEPT !.iteration = @ + 1]
           to == [q EXCEPT !.backwardIter = q.maxIteration,
                           !.playIter = q.maxIteration,
                           !.pauseIter = q.maxIteration]
           h  == IF q.pauseFlag THEN q ELSE to
<1>1. page' = q \/ page' = Finished(q)
  BY DEF Play
<1>2. p.iteration + 1 \in Iters
  BY IsIter DEF InRange
<1>3. InRange(q) /\ DOMAIN q = PageFields /\ q.maxIteration < MaxIters
  BY <1>2 DEF InRange, PageFields
<1> HIDE DEF q
<1>4. InRange(h) /\ DOMAIN h = PageFields
  <2>1. InRange(to) /\ DOMAIN to = PageFields
    BY <1>3, ItersAreLabels DEF InRange, PageFields
  <2> HIDE DEF to
  <2> QED
    BY <1>3, <2>1
<1>5. Finished(q) =
        [h EXCEPT !.backFlag = TRUE, !.playLit = @ /\ ~q.playFlag,
                  !.forwardLit = @ /\ ~q.playFlag, !.backLit = @ \/ q.playFlag,
                  !.playFlag = FALSE]
  BY DEF Finished
<1> HIDE DEF h
<1>6. InRange(Finished(q))
  BY <1>4, <1>5 DEF InRange, PageFields
<1> QED
  BY <1>1, <1>3, <1>6

LEMMA ResumedInRange ==
  ASSUME NEW p, DOMAIN p = PageFields, InRange(p), p.playIter < MaxIters,
         p.iteration >= -1
  PROVE  /\ InRange(Resumed(p)) /\ DOMAIN Resumed(p) = PageFields
         /\ Resumed(p).iteration < MaxIters
         /\ Resumed(p).maxIteration = p.maxIteration
<1> DEFINE next == p.playIter + 1
           most == Max({next, p.iteration})
<1>1. next \in Iters /\ next \in Int /\ p.iteration \in Int /\ p.iteration \in Iters
  BY IsIter DEF InRange
<1>2. most \in Iters
  <2> HIDE DEF next
  <2> QED
    BY <1>1, MinMaxOne
<1>3. Resumed(p) =
        [p EXCEPT !.playIter = most, !.playFlag = TRUE,
                  !.iteration = @ - 1, !.playNoviz = FALSE, !.simplayFlag = FALSE]
  BY DEF Resumed
<1> HIDE DEF most, next
<1>4. p.iteration - 1 \in Iters /\ p.iteration - 1 < MaxIters
  BY <1>1, IsIter
<1> QED
  BY <1>2, <1>3, <1>4 DEF InRange, PageFields

\* A replay shows iterations from playIter to iteration only.
LEMMA ReplayInRange ==
  ASSUME OrderInv, UNCHANGED segmentChain, ScreenInRange(screen),
         NEW d, SameChart(d, page), InRange(d), d.playIter < MaxIters,
         d.iteration >= -1, d.maxIteration < MaxIters, SimulatePlay(d)
  PROVE  InRange(page') /\ ScreenInRange(screen')
<1> DEFINE frames     == d.playIter + 1 .. d.iteration - 1
           Before(i)  == IF i - 1 \in frames THEN Redraw(d, screen, i - 1) ELSE screen
           Upto(last) == IF last \in frames THEN Redraw(d, Before(last), last) ELSE screen
<1>1. \/ /\ screen' = Upto(d.iteration - 1)
         /\ Play(Resumed(d))
      \/ \E i \in frames :
           /\ screen' = Upto(i)
           /\ page' = [d EXCEPT !.playIter = i]
  BY DEF SimulatePlay
<1>2. /\ d.iterationLow = page.iterationLow /\ d.validCells = page.validCells
      /\ DOMAIN d = PageFields
  BY DEF SameChart
<1>3. \A i \in frames : i \in Iters /\ i < MaxIters
  <2>1. /\ d.playIter \in Int /\ d.iteration \in Int /\ MaxIters \in Int
        /\ d.playIter >= -2 /\ d.iteration <= MaxIters
    BY IsIter DEF InRange
  <2> QED
    BY <2>1, IsIter
<1>4. ASSUME NEW i
      PROVE  ScreenInRange(Before(i))
  <2>1. CASE i - 1 \in frames
    <3>1. i - 1 \in Iters
      BY <1>3, <2>1
    <3>2. ScreenInRange(Redraw(d, screen, i - 1))
      BY <1>2, <3>1, RedrawInRange, ItersAreLabels
    <3> QED
      BY <2>1, <3>2
  <2>2. CASE i - 1 \notin frames
    BY <2>2
  <2> QED
    BY <2>1, <2>2
<1>5. ASSUME NEW i
      PROVE  ScreenInRange(Upto(i))
  <2>1. CASE i \in frames
    <3>1. i \in Iters
      BY <1>3, <2>1
    <3> DEFINE s == Before(i)
    <3>2. ScreenInRange(s)
      BY <1>4
    <3> HIDE DEF s
    <3>3. ScreenInRange(Redraw(d, s, i))
      BY <1>2, <3>1, <3>2, RedrawInRange, ItersAreLabels
    <3> QED
      BY <2>1, <3>3 DEF s
  <2>2. CASE i \notin frames
    BY <2>2
  <2> QED
    BY <2>1, <2>2
<1> HIDE DEF Upto, frames
<1>6. CASE screen' = Upto(d.iteration - 1) /\ Play(Resumed(d))
  <2> DEFINE p == Resumed(d)
  <2>1. /\ InRange(p) /\ DOMAIN p = PageFields
        /\ p.iteration < MaxIters /\ p.maxIteration = d.maxIteration
    BY <1>2, ResumedInRange
  <2>2. Play(p)
    BY <1>6
  <2> HIDE DEF p
  <2>3. InRange(page')
    BY <2>1, <2>2, PlayInRange
  <2> QED
    BY <1>5, <1>6, <2>3
<1>7. ASSUME NEW i \in frames, screen' = Upto(i), page' = [d EXCEPT !.playIter = i]
      PROVE  InRange(page') /\ ScreenInRange(screen')
  <2>1. i \in Iters /\ i < MaxIters
    BY <1>3
  <2>2. InRange(page')
    BY <1>2, <1>7, <2>1 DEF InRange, PageFields
  <2> QED
    BY <1>5, <1>7, <2>2
<1> QED
  BY <1>1, <1>6, <1>7

LEMMA ClickPlayRange ==
  ASSUME OrderInv, PaintInv, RangeInv, ClickPlay
  PROVE  RangeInv'
<1> DEFINE p == [page EXCEPT !.icon = "pause", !.forwardFlag = FALSE,
                        !.backFlag = FALSE, !.pauseFlag = FALSE,
                        !.playFlag = TRUE, !.playNoviz = FALSE,
                        !.resetFlag = FALSE]
           dimmed == [p EXCEPT !.forwardLit = FALSE, !.backLit = FALSE]
           again  == [dimmed EXCEPT !.simplayFlag = TRUE, !.playIter = @ - 1]
           lit    == [p EXCEPT !.backLit = TRUE]
           ended  == p.iteration >= p.maxIteration
           replay == p.iterationLow <= p.playIter /\ p.playIter < p.maxIteration
<1>1. /\ page.loaded /\ UNCHANGED << replies, segmentChain, run >>
      /\ \/ replay /\ SimulatePlay(again)
         \/ /\ page' = lit
            /\ screen' = Painted(p, screen, p.maxIteration, Entry(run, p.segmentArr))
         \/ p.simplayFlag /\ SimulatePlay(dimmed)
         \/ ~ended /\ Play(dimmed) /\ UNCHANGED screen
  BY DEF ClickPlay, OrderInv, BeforeLoad
<1>2. SameChart(page', page)
  BY ClickPlayCases DEF Quiet, Ask
<1>3. /\ DOMAIN page = PageFields /\ InRange(page) /\ ScreenInRange(screen)
      /\ page.iterationLow \in {0, 1} /\ page.iteration \in Int
      /\ page.iteration >= page.iterationLow - 1
      /\ page.maxIteration \in Int /\ page.maxIteration < MaxIters
      /\ MaxIters \in Int
  BY <1>1, LoadedCounters DEF RangeInv
<1> DEFINE Alike(x) ==
      /\ SameChart(x, page) /\ InRange(x)
      /\ x.iteration = page.iteration /\ x.maxIteration = page.maxIteration
<1>4. Alike(p) /\ p.playIter = page.playIter /\ p.simplayFlag = page.simplayFlag
  BY <1>3 DEF SameChart, InRange, PageFields
<1> HIDE DEF p
<1>5. Alike(dimmed) /\ dimmed.playIter = p.playIter
      /\ dimmed.simplayFlag = p.simplayFlag
  BY <1>4 DEF SameChart, InRange, PageFields
<1>6. Alike(lit)
  BY <1>4 DEF SameChart, InRange, PageFields
<1> HIDE DEF dimmed, lit
<1>7. replay => Alike(again) /\ again.playIter < MaxIters
  <2>1. SUFFICES ASSUME replay PROVE Alike(again) /\ again.playIter < MaxIters
    OBVIOUS
  <2>2. /\ page.iterationLow <= page.playIter /\ page.playIter < page.maxIteration
        /\ page.playIter \in Int
    BY <1>3, <1>4, <2>1, IsIter DEF SameChart, InRange
  <2>3. page.playIter - 1 \in Iters /\ page.playIter - 1 < MaxIters
    BY <1>3, <2>2, IsIter
  <2> QED
    BY <1>4, <1>5, <2>3 DEF SameChart, InRange, PageFields
<1> HIDE DEF again
<1>8. p.simplayFlag => dimmed.playIter < MaxIters
  BY <1>4, <1>5 DEF InRange
<1>9. page.iteration >= -1
  BY <1>3
<1> HIDE DEF replay
<1>10. CASE replay /\ SimulatePlay(again)
  <2>1. /\ SameChart(again, page) /\ InRange(again) /\ again.playIter < MaxIters
        /\ again.iteration >= -1 /\ again.maxIteration < MaxIters
    BY <1>3, <1>7, <1>9, <1>10
  <2>2. InRange(page') /\ ScreenInRange(screen')
    BY <1>1, <1>3, <1>10, <2>1, ReplayInRange
  <2> QED
    BY <1>1, <1>2, <2>2, RangeKept DEF SameChart, Answers
<1>11. CASE /\ page' = lit
            /\ screen' = Painted(p, screen, p.maxIteration, Entry(run, p.segmentArr))
  <2>1. p.maxIteration \in Iters
    BY <1>4 DEF InRange
  <2>2. ScreenInRange(screen')
    BY <1>11, <2>1, PaintedInRange, ItersAreLabels
  <2>3. InRange(page')
    BY <1>6, <1>11
  <2> QED
    BY <1>1, <1>2, <2>2, <2>3, RangeKept DEF SameChart, Answers
<1>12. CASE p.simplayFlag /\ SimulatePlay(dimmed)
  <2>1. /\ SameChart(dimmed, page) /\ InRange(dimmed) /\ dimmed.playIter < MaxIters
        /\ dimmed.iteration >= -1 /\ dimmed.maxIteration < MaxIters
    BY <1>3, <1>5, <1>8, <1>9, <1>12
  <2>2. InRange(page') /\ ScreenInRange(screen')
    BY <1>1, <1>3, <1>12, <2>1, ReplayInRange
  <2> QED
    BY <1>1, <1>2, <2>2, RangeKept DEF SameChart, Answers
<1>13. CASE ~ended /\ Play(dimmed) /\ UNCHANGED screen
  <2>1. page.iteration < page.maxIteration
    BY <1>3, <1>4, <1>13
  <2>2. /\ DOMAIN dimmed = PageFields /\ InRange(dimmed)
        /\ dimmed.iteration < MaxIters /\ dimmed.maxIteration < MaxIters
    BY <1>3, <1>5, <2>1 DEF SameChart
  <2>3. InRange(page')
    BY <1>13, <2>2, PlayInRange
  <2> QED
    BY <1>1, <1>2, <1>3, <1>13, <2>3, RangeKept DEF SameChart, Answers
<1> QED
  BY <1>1, <1>10, <1>11, <1>12, <1>13

LEMMA ForwardFirstRange ==
  ASSUME OrderInv, PaintInv, RangeInv, ForwardFirst
  PROVE  RangeInv'
<1>1. /\ page.loaded /\ page.iteration < page.iterationLow
      /\ UNCHANGED << replies, segmentChain, screen, run >>
  BY DEF ForwardFirst, view, OrderInv, BeforeLoad
<1>2. /\ DOMAIN page = PageFields /\ InRange(page) /\ ScreenInRange(screen)
      /\ page.iterationLow \in {0, 1} /\ page.iteration \in Int
      /\ page.iteration >= page.iterationLow - 1
      /\ MaxIters \in Int /\ MaxIters >= 2
  BY <1>1, LoadedCounters DEF RangeInv
<1>3. page.iteration + 1 \in Iters /\ page.iteration + 1 < MaxIters
  BY <1>1, <1>2, IsIter
<1>4. InRange(page')
  BY <1>2, <1>3 DEF ForwardFirst, InRange, PageFields
<1>5. /\ page'.loaded = page.loaded /\ page'.y = page.y
      /\ page'.validCells = page.validCells
  BY <1>2 DEF ForwardFirst, PageFields
<1> QED
  BY <1>1, <1>2, <1>4, <1>5, RangeKept DEF Answers

-----------------------------------------------------------------------------
(* The server and the network.                                             *)

LEMMA RangeServed ==
  ASSUME RangeInv, UNCHANGED << page, view, run >>,
         \A m \in Answers' : m.op = "iter" => InSquare(m.validCells)
  PROVE  RangeInv'
<1>1. UNCHANGED << segmentChain, screen >>
  BY DEF view
<1>2. InRange(page)' /\ ScreenInRange(screen)'
  BY <1>1 DEF RangeInv, InRange, ScreenInRange, Labels, Iters
<1>3. InSquare(page.validCells)' /\ (DOMAIN segmentChain \subseteq Iters)'
  BY <1>1 DEF RangeInv, InSquare, Iters
<1>4. (page.loaded => SizeOf(page.y) < MaxIters)'
  BY DEF RangeInv, SizeOf, Wide, High
<1>5. (\A m \in Answers : m.op = "iter" => InSquare(m.validCells))'
  BY DEF InSquare
<1> QED
  BY <1>2, <1>3, <1>4, <1>5 DEF RangeInv

\* The cells a chart has fit, in the values of its axes.
LEMMA CellsInSquare ==
  ASSUME GridsFit, chart \in Charts, NEW E
  PROVE  InSquare({ << c[1] + XMinOf[chart], c[2] + YMinOf[chart] >> :
                    c \in E \cap Plane })
<1>1. /\ ColumnsOf[chart] \in Int /\ RowsOf[chart] \in Int
      /\ XMinOf[chart] \in Nat /\ YMinOf[chart] \in Nat /\ MaxSide \in Int
      /\ XMinOf[chart] + ColumnsOf[chart] - 1 <= MaxSide
      /\ YMinOf[chart] + RowsOf[chart] - 1 <= MaxSide
  <2>1. MaxSide \in Int
    BY SizeAssumption
  <2>2. ColumnsOf[chart] \in 1 .. MaxSide /\ RowsOf[chart] \in 1 .. MaxSide
    BY ChartAssumption
  <2>3. XMinOf[chart] \in Nat /\ YMinOf[chart] \in Nat
    BY PlayerAssumption
  <2> QED
    BY <2>1, <2>2, <2>3 DEF GridsFit
<1>2. Plane = (0 .. ColumnsOf[chart] - 1) \X (0 .. RowsOf[chart] - 1)
  BY DEF Plane, Grid, Columns, Rows
<1>3. ASSUME NEW c \in Plane
      PROVE  << c[1] + XMinOf[chart], c[2] + YMinOf[chart] >>
               \in (0 .. MaxSide) \X (0 .. MaxSide)
  <2>1. c[1] \in 0 .. ColumnsOf[chart] - 1 /\ c[2] \in 0 .. RowsOf[chart] - 1
    BY <1>2
  <2>2. c[1] + XMinOf[chart] \in 0 .. MaxSide /\ c[2] + YMinOf[chart] \in 0 .. MaxSide
    BY <1>1, <2>1
  <2> QED
    BY <2>2
<1> HIDE DEF Plane
<1> QED
  BY <1>3 DEF InSquare

LEMMA ServeRange ==
  ASSUME GridsFit, OrderInv, RangeInv, Serve
  PROVE  RangeInv'
<1>1. PICK m \in DOMAIN requests :
        /\ ServeAxes(m) \/ ServeReset(m) \/ ServeIter(m)
        /\ requests' = requests (-) SetToBag({m})
        /\ UNCHANGED << page, view, run, vizType >>
  BY ServeCases
<1>2. CASE ServeAxes(m)
  <2> DEFINE a == [op |-> "axes", y |-> Axes(m.chart)]
  <2>1. m.op = "axes" /\ replies' = replies (+) SetToBag({a}) /\ a.op = "axes"
    BY <1>2 DEF ServeAxes
  <2> HIDE DEF a
  <2>2. Calls = {m}
    BY <1>1, <2>1, CallTaken DEF OrderInv, OneCall
  <2>3. Answers = {}
    BY <2>2 DEF OrderInv, OneCall
  <2>4. Answers' = {a}
    BY <2>1, <2>3, AnswerSent DEF OrderInv, OneCall
  <2> QED
    BY <1>1, <2>1, <2>4, RangeServed
<1>3. CASE ServeReset(m)
  <2>1. Answers' = Answers
    BY <1>3 DEF ServeReset, Answers
  <2> QED
    BY <1>1, <2>1, RangeServed DEF RangeInv
<1>4. CASE ServeIter(m)
  <2> DEFINE a == [op |-> "iter", y |-> Axes(chart),
                   sl |-> IF vizType = 2 THEN PackCells ELSE << >>,
                   validCells |-> IF m.iter = 1 THEN ValidCells ELSE Unknown]
  <2>1. m.op = "iter" /\ replies' = replies (+) SetToBag({a})
    BY <1>4 DEF ServeIter
  <2>2. a.validCells = ValidCells \/ a.validCells = Unknown
    OBVIOUS
  <2> HIDE DEF a
  <2>3. Calls = {m}
    BY <1>1, <2>1, CallTaken DEF OrderInv, OneCall
  <2>4. Answers = {} /\ chart \in Charts
    BY <1>1, <2>1, <2>3, AskedIsInGrid
  <2>5. Answers' = {a}
    BY <2>1, <2>4, AnswerSent DEF OrderInv, OneCall
  <2>6. InSquare(ValidCells)
    BY <2>4, CellsInSquare DEF ValidCells
  <2>7. InSquare(Unknown)
    BY DEF InSquare
  <2>8. InSquare(a.validCells)
    BY <2>2, <2>6, <2>7
  <2> QED
    BY <1>1, <2>5, <2>8, RangeServed
<1> QED
  BY <1>1, <1>2, <1>3, <1>4

LEMMA VisualizeRange ==
  ASSUME RangeInv, NEW c \in Charts, Visualize(c)
  PROVE  RangeInv'
<1>1. Answers' = Answers /\ UNCHANGED << page, view, run >>
  BY DEF Visualize, Answers
<1> QED
  BY <1>1, RangeServed DEF RangeInv

LEMMA StutterRange ==
  ASSUME RangeInv, UNCHANGED vars
  PROVE  RangeInv'
<1>1. Answers' = Answers /\ UNCHANGED << page, view, run >>
  BY DEF vars, net, Answers
<1> QED
  BY <1>1, RangeServed DEF RangeInv

-----------------------------------------------------------------------------
(* The page is cleared.                                                    *)

LEMMA ClearedInRange ==
  ASSUME NEW p, DOMAIN p = PageFields, InRange(p), NEW low \in {0, 1},
         SizeOf(p.y) \in Int, SizeOf(p.y) >= 1, SizeOf(p.y) < MaxIters
  PROVE  /\ InRange(Cleared(p, low)) /\ DOMAIN Cleared(p, low) = PageFields
         /\ Cleared(p, low).maxIteration = SizeOf(p.y)
         /\ Cleared(p, low).loaded = p.loaded /\ Cleared(p, low).y = p.y
         /\ Cleared(p, low).validCells = p.validCells
         /\ Cleared(p, low).iterationLow = low
<1> DEFINE size == (p.y.xMax - p.y.xMin + 1) * (p.y.yMax - p.y.yMin + 1)
<1>1. size = SizeOf(p.y)
  BY DEF SizeOf, Wide, High
<1>2. size \in Iters /\ low - 1 \in Iters /\ low - 1 < MaxIters
  BY <1>1, IsIter
<1>3. Cleared(p, low) =
  [p EXCEPT !.iterationLow = low, !.iteration = low - 1, !.playIter = low - 1,
            !.pauseIter = low - 1, !.backwardIter = low - 1, !.seekbarMax = low - 1,
            !.maxIteration = size,
            !.segmentArr = << >>,
            !.forwardFlag = FALSE, !.backFlag = FALSE, !.pauseFlag = FALSE,
            !.playFlag = FALSE, !.simplayFlag = FALSE, !.playNoviz = FALSE,
            !.icon = "play", !.playLit = TRUE, !.forwardLit = FALSE,
            !.backLit = FALSE]
  BY DEF Cleared
<1> HIDE DEF size
<1>4. InRange(Cleared(p, low))
  BY <1>2, <1>3, ItersAreLabels DEF InRange, PageFields
<1> DEFINE q == Cleared(p, low)
<1>5. /\ DOMAIN q = PageFields /\ q.maxIteration = size
      /\ q.iterationLow = low
  BY <1>3 DEF PageFields
<1>6. q.loaded = p.loaded /\ q.y = p.y /\ q.validCells = p.validCells
  BY <1>3 DEF PageFields
<1> HIDE DEF q
<1> QED
  BY <1>1, <1>4, <1>5, <1>6 DEF q

LEMMA BlankInRange ==
  ASSUME NEW r \in 0 .. run', screen' = Blank(page', r),
         page'.iterationLow \in {0, 1}
  PROVE  ScreenInRange(screen)'
<1>1. page'.iterationLow - 1 \in Iters
  BY IsIter
<1>2. /\ DOMAIN screen' = ScreenFields /\ screen'.run = r
      /\ screen'.label = page'.iterationLow - 1
  BY DEF Blank, ScreenFields
<1> QED
  BY <1>1, <1>2 DEF ScreenInRange, Labels, Iters

\* What a step that changes what was received has to show.
LEMMA RangeAfter ==
  ASSUME InRange(page'), SizeOf(page'.y) < MaxIters, ScreenInRange(screen)',
         DOMAIN segmentChain' \subseteq Iters, InSquare(page'.validCells),
         \A m \in Answers' : m.op = "iter" => InSquare(m.validCells)
  PROVE  RangeInv'
<1>1. InRange(page)'
  BY DEF InRange, Labels, Iters
<1>2. InSquare(page.validCells)' /\ (DOMAIN segmentChain \subseteq Iters)'
  BY DEF InSquare, Labels, Iters
<1>3. (page.loaded => SizeOf(page.y) < MaxIters)'
  BY DEF SizeOf, Wide, High
<1>4. (\A m \in Answers : m.op = "iter" => InSquare(m.validCells))'
  BY DEF InSquare
<1> QED
  BY <1>1, <1>2, <1>3, <1>4 DEF RangeInv

\* A cleared page keeps the cells without records, and the entries.
LEMMA RangeCleared ==
  ASSUME OrderInv, RangeInv, InRange(page'), SizeOf(page'.y) < MaxIters,
         ScreenInRange(screen)', UNCHANGED segmentChain,
         page'.validCells = page.validCells, Answers' \subseteq Answers
  PROVE  RangeInv'
<1>1. DOMAIN segmentChain' \subseteq Iters /\ InSquare(page'.validCells)
  BY DEF RangeInv
<1>2. \A m \in Answers' : m.op = "iter" => InSquare(m.validCells)
  BY DEF RangeInv
<1> QED
  BY <1>1, <1>2, RangeAfter

LEMMA ClickRepeatRange ==
  ASSUME OrderInv, PaintInv, RangeInv, ClickRepeat
  PROVE  RangeInv'
<1> DEFINE p == Cleared(page, 0)
<1>1. /\ page.loaded /\ page' = [p EXCEPT !.resetFlag = TRUE]
      /\ screen' = Blank(page', run + 1) /\ run' = run + 1
      /\ UNCHANGED << replies, segmentChain >>
  BY DEF ClickRepeat
<1>2. /\ InRange(p) /\ DOMAIN p = PageFields
      /\ p.loaded = page.loaded /\ p.y = page.y
      /\ p.validCells = page.validCells /\ p.iterationLow = 0
  BY <1>1, LoadedCounters, ClearedInRange DEF RangeInv
<1> HIDE DEF p
<1>3. /\ InRange(page') /\ page'.loaded = page.loaded /\ page'.y = page.y
      /\ page'.validCells = page.validCells /\ page'.iterationLow = 0
  BY <1>1, <1>2 DEF InRange, PageFields
<1>4. run + 1 \in 0 .. run'
  BY <1>1 DEF OrderInv, RunsPast
<1>5. ScreenInRange(screen)'
  BY <1>1, <1>3, <1>4, BlankInRange
<1>6. SizeOf(page'.y) < MaxIters /\ Answers' = Answers
  BY <1>1, <1>3, LoadedCounters DEF Answers
<1> QED
  BY <1>1, <1>3, <1>5, <1>6, RangeCleared

LEMMA DeliverAxesRange ==
  ASSUME GridsFit, OrderInv, PaintInv, RangeInv, DeliverAxes
  PROVE  RangeInv'
<1>1. PICK m \in DOMAIN replies :
        /\ m.op = "axes"
        /\ replies' = replies (-) SetToBag({m})
        /\ LET p == Cleared([page EXCEPT !.y = m.y, !.loaded = TRUE,
                                         !.resetFlag = FALSE], 1)
           IN /\ page' = [p EXCEPT !.seekMin = 1, !.seekMax = p.maxIteration]
              /\ screen' = Blank(p, run + 1)
        /\ run' = run + 1
        /\ UNCHANGED segmentChain
  BY DEF DeliverAxes, BagToSet
<1>2. Answers = {m} /\ Answers' = {}
  BY <1>1, AnswerGone DEF OrderInv, OneCall
<1>3. m.y = Axes(chart) /\ chart \in Charts
  BY <1>1, <1>2 DEF OrderInv, AxesAgree, HeatInv, HeatTypeOK, Loaded
<1>4. SizeOf(m.y) \in Int /\ SizeOf(m.y) >= 1 /\ SizeOf(m.y) < MaxIters
  BY <1>3, AxesOfChart, SizePositive DEF GridsFit
<1> DEFINE q == [page EXCEPT !.y = m.y, !.loaded = TRUE, !.resetFlag = FALSE]
           p == Cleared(q, 1)
<1>5. /\ DOMAIN q = PageFields /\ InRange(q) /\ q.y = m.y
      /\ q.validCells = page.validCells
  BY PageCounters DEF RangeInv, InRange, PageFields
<1>6. /\ page' = [p EXCEPT !.seekMin = 1, !.seekMax = p.maxIteration]
      /\ screen' = Blank(p, run + 1)
  BY <1>1
<1> HIDE DEF q
<1>7. /\ InRange(p) /\ DOMAIN p = PageFields
      /\ p.y = m.y /\ p.validCells = page.validCells
      /\ p.iterationLow = 1 /\ p.maxIteration = SizeOf(m.y)
  BY <1>4, <1>5, ClearedInRange
<1> HIDE DEF p
<1>8. /\ InRange(page') /\ page'.y = m.y
      /\ page'.validCells = page.validCells
      /\ page'.iterationLow = p.iterationLow
  BY <1>4, <1>6, <1>7 DEF InRange, PageFields
<1>9. screen' = Blank(page', run + 1)
  BY <1>6, <1>8 DEF Blank
<1>10. run + 1 \in 0 .. run'
  BY <1>1 DEF OrderInv, RunsPast
<1>11. ScreenInRange(screen)'
  BY <1>7, <1>8, <1>9, <1>10, BlankInRange
<1>12. SizeOf(page'.y) < MaxIters
  BY <1>4, <1>8
<1> QED
  BY <1>1, <1>2, <1>8, <1>11, <1>12, RangeCleared

-----------------------------------------------------------------------------
(* An iteration arrives.                                                   *)

LEMMA NotedInRange ==
  ASSUME OrderInv, RangeInv, NEW m \in DOMAIN replies, m.op = "iter", m.y = page.y
  PROVE  LET n == Noted(page, m)
         IN  /\ DOMAIN n = PageFields /\ InRange(n)
             /\ n.loaded = page.loaded /\ n.y = page.y
             /\ n.iteration = page.iteration /\ n.maxIteration = page.maxIteration
             /\ n.iterationLow = page.iterationLow
             /\ InSquare(n.validCells)
<1>1. InSquare(m.validCells) /\ InSquare(page.validCells) /\ InRange(page)
  BY DEF RangeInv, Answers
<1>2. DOMAIN page = PageFields
  BY PageCounters
<1> DEFINE n == Noted(page, m)
<1>3. CASE page.iteration = 1
  <2>1. n = [page EXCEPT !.validCells = m.validCells, !.y = m.y]
    BY <1>3 DEF Noted
  <2> HIDE DEF n
  <2>2. DOMAIN n = PageFields /\ InRange(n)
    BY <1>1, <1>2, <2>1 DEF InRange, PageFields
  <2>3. /\ n.loaded = page.loaded /\ n.y = page.y
        /\ n.iteration = page.iteration /\ n.maxIteration = page.maxIteration
        /\ n.iterationLow = page.iterationLow
        /\ n.validCells = m.validCells
    BY <1>2, <2>1 DEF PageFields
  <2> QED
    BY <1>1, <2>2, <2>3 DEF n
<1>4. CASE page.iteration # 1
  BY <1>1, <1>2, <1>4 DEF Noted
<1> QED
  BY <1>3, <1>4

LEMMA EndedInRange ==
  ASSUME NEW q, DOMAIN q = PageFields, InRange(q), q.iteration >= -1,
         q.iterationLow \in {0, 1}
  PROVE  InRange(Ended(q))
<1> DEFINE max == q.iteration - 1
           dim == q.playFlag /\ ~q.simplayFlag
<1>1. Ended(q) = [q EXCEPT !.iteration = max, !.maxIteration = max,
               !.seekMin = q.iterationLow, !.seekMax = max, !.backFlag = TRUE,
               !.backwardIter = IF q.pauseFlag THEN @ ELSE max,
               !.playLit = @ /\ ~dim, !.forwardLit = @ /\ ~dim,
               !.backLit = @ \/ dim, !.playFlag = FALSE]
  BY DEF Ended
<1>2. max \in Iters /\ max \in Int /\ max < MaxIters
  BY IsIter DEF InRange
<1> HIDE DEF max, dim
<1> QED
  BY <1>1, <1>2, ItersAreLabels DEF InRange, PageFields

LEMMA DeliverIterRange ==
  ASSUME OrderInv, PaintInv, RangeInv, DeliverIter
  PROVE  RangeInv'
<1>1. PICK m \in DOMAIN replies :
        /\ m.op = "iter"
        /\ replies' = replies (-) SetToBag({m})
        /\ UNCHANGED << heatVars, run, vizType >>
        /\ \/ /\ page.resetFlag
              /\ page' = Cleared(page, 0)
              /\ screen' = Blank(page', run)
              /\ UNCHANGED segmentChain
           \/ /\ ~page.resetFlag /\ m.sl # << >>
              /\ Charted(m)
           \/ /\ ~page.resetFlag /\ m.sl = << >>
              /\ page' = Ended(Noted(page, m))
              /\ UNCHANGED view
  BY Zenon DEF DeliverIter, BagToSet
<1>2. Answers = {m} /\ Answers' = {} /\ m.y = page.y /\ page.loaded
  <2>1. Answers = {m} /\ Answers' = {}
    BY <1>1, AnswerGone DEF OrderInv, OneCall
  <2>2. IterUnderWay
    BY <1>1, <2>1 DEF IterUnderWay, IterAnswered
  <2> QED
    BY <1>1, <2>1, <2>2 DEF OrderInv, AxesAgree, BeforeLoad
<1>3. /\ DOMAIN page = PageFields /\ page.iterationLow \in {0, 1}
      /\ page.iteration \in Int /\ page.maxIteration \in Int
      /\ page.iteration >= page.iterationLow - 1
      /\ page.maxIteration < MaxIters
      /\ SizeOf(page.y) \in Int /\ SizeOf(page.y) >= 1 /\ SizeOf(page.y) < MaxIters
      /\ MaxIters \in Int
  BY <1>2, LoadedCounters
<1>4. run \in Nat /\ run' = run
  BY <1>1 DEF OrderInv, RunsPast
<1>5. CASE /\ page' = Cleared(page, 0)
           /\ screen' = Blank(page', run)
           /\ UNCHANGED segmentChain
  <2>1. /\ InRange(page') /\ page'.y = page.y /\ page'.loaded = page.loaded
        /\ page'.validCells = page.validCells /\ page'.iterationLow = 0
    BY <1>3, <1>5, ClearedInRange DEF RangeInv
  <2>2. run \in 0 .. run'
    BY <1>4
  <2>3. ScreenInRange(screen)'
    BY <1>5, <2>1, <2>2, BlankInRange
  <2> QED
    BY <1>2, <1>3, <1>5, <2>1, <2>3, RangeCleared
<1>6. CASE ~page.resetFlag /\ Charted(m)
  <2> DEFINE i == page.iteration
             n == Noted(page, m)
             t == Taken(m)
             r == [t EXCEPT !.playNoviz = @ \/ t.forwardFlag]
  <2>1. /\ DOMAIN n = PageFields /\ InRange(n)
        /\ n.loaded = page.loaded /\ n.y = page.y
        /\ n.iteration = page.iteration /\ n.maxIteration = page.maxIteration
        /\ InSquare(n.validCells)
    BY <1>1, <1>2, NotedInRange
  <2>2. t = [n EXCEPT !.segmentArr = Spliced(@, m.sl)]
    BY DEF Taken
  <2>3. /\ DOMAIN segmentChain' = DOMAIN segmentChain \cup {i}
        /\ \/ screen' = screen
           \/ screen' = Painted(t, screen, i, Entry(run, t.segmentArr))
        /\ \/ page' = t
           \/ i <= page.maxIteration /\ Play(r)
    <3>1. /\ segmentChain' = [j \in DOMAIN segmentChain \cup {i} |->
                                IF j = i THEN Entry(run, t.segmentArr)
                                         ELSE segmentChain[j]]
          /\ screen' = IF ~Unseen THEN Painted(t, screen, i, Entry(run, t.segmentArr))
                                  ELSE screen
          /\ IF (~Unseen /\ LegendFails(t, i)) \/ i > page.maxIteration
               THEN page' = t /\ UNCHANGED requests
               ELSE Play(r)
      BY <1>2, <1>6, ChartedPage, Zenon
    <3> HIDE DEF t, r
    <3>2. DOMAIN segmentChain' = DOMAIN segmentChain \cup {i}
      BY <3>1
    <3>3. screen' = screen
          \/ screen' = Painted(t, screen, i, Entry(run, t.segmentArr))
      BY <3>1
    <3>4. page' = t \/ (i <= page.maxIteration /\ Play(r))
      BY <1>3, <3>1
    <3> QED
      BY <3>2, <3>3, <3>4
  <2> HIDE DEF n
  <2>4. /\ DOMAIN t = PageFields /\ InRange(t)
        /\ t.loaded = page.loaded /\ t.y = page.y
        /\ t.iteration = page.iteration /\ t.maxIteration = page.maxIteration
        /\ t.validCells = n.validCells
    <3> HIDE DEF t
    <3> QED
      BY <2>1, <2>2 DEF InRange, PageFields
  <2> HIDE DEF t
  <2>5. i \in Iters
    BY <2>4 DEF InRange
  <2>6. /\ DOMAIN r = PageFields /\ InRange(r) /\ Counting(r)
        /\ r.loaded = page.loaded /\ r.y = page.y
        /\ r.iteration = page.iteration /\ r.maxIteration = page.maxIteration
        /\ r.validCells = n.validCells
    <3>1. /\ DOMAIN r = PageFields /\ InRange(r)
          /\ r.loaded = page.loaded /\ r.y = page.y
          /\ r.iteration = page.iteration /\ r.maxIteration = page.maxIteration
          /\ r.validCells = n.validCells
      BY <2>4 DEF InRange, PageFields
    <3> HIDE DEF r
    <3>2. Counting(r)
      BY <3>1, IsIter, IsLabel DEF Counting, InRange
    <3> QED
      BY <3>1, <3>2
  <2> HIDE DEF r
  <2>7. /\ InRange(page') /\ page'.loaded = page.loaded /\ page'.y = page.y
        /\ page'.validCells = n.validCells
    <3>1. CASE page' = t
      BY <2>4, <3>1
    <3>2. CASE i <= page.maxIteration /\ Play(r)
      <4>1. r.iteration < MaxIters /\ r.maxIteration < MaxIters
        BY <1>3, <2>6, <3>2
      <4>2. InRange(page')
        BY <2>6, <3>2, <4>1, PlayInRange
      <4>3. SameChart(page', r)
        BY <2>6, <3>2, PlayPage
      <4> QED
        BY <2>6, <4>2, <4>3 DEF SameChart
    <3> QED
      BY <2>3, <3>1, <3>2
  <2>8. ScreenInRange(screen')
    BY <2>3, <2>5, IsLabel, PaintedInRange DEF RangeInv
  <2>9. ScreenInRange(screen)'
    BY <1>4, <2>8 DEF ScreenInRange, Labels, Iters
  <2>10. DOMAIN segmentChain' \subseteq Iters /\ InSquare(page'.validCells)
    BY <2>1, <2>3, <2>5, <2>7 DEF RangeInv
  <2>11. SizeOf(page'.y) < MaxIters
    BY <1>3, <2>7
  <2> QED
    BY <1>2, <2>7, <2>9, <2>10, <2>11, RangeAfter
<1>7. CASE /\ page' = Ended(Noted(page, m))
           /\ UNCHANGED view
  <2> DEFINE n == Noted(page, m)
  <2>1. /\ DOMAIN n = PageFields /\ InRange(n)
        /\ n.loaded = page.loaded /\ n.y = page.y
        /\ n.iteration = page.iteration
        /\ n.iterationLow = page.iterationLow
        /\ InSquare(n.validCells)
    BY <1>1, <1>2, NotedInRange
  <2> HIDE DEF n
  <2>2. Counting(n) /\ n.iteration >= -1
    BY <1>3, <2>1, IsIter, IsLabel DEF Counting, InRange
  <2>3. InRange(page') /\ SameChart(page', n)
    BY <1>3, <1>7, <2>1, <2>2, EndedInRange, EndedPage DEF n
  <2>4. /\ page'.loaded = page.loaded /\ page'.y = page.y
        /\ page'.validCells = n.validCells
    BY <2>1, <2>3 DEF SameChart
  <2>5. UNCHANGED << segmentChain, screen >>
    BY <1>7 DEF view
  <2>6. ScreenInRange(screen)'
    BY <1>4, <2>5 DEF RangeInv, ScreenInRange, Labels, Iters
  <2>7. DOMAIN segmentChain' \subseteq Iters
    BY <2>5 DEF RangeInv
  <2> QED
    BY <1>2, <1>3, <2>1, <2>3, <2>4, <2>6, <2>7, RangeAfter
<1> QED
  BY <1>1, <1>5, <1>6, <1>7

-----------------------------------------------------------------------------
(* The fourth invariant holds.                                             *)

LEMMA InitRange == Init => RangeInv
<1> SUFFICES ASSUME Init PROVE RangeInv
  OBVIOUS
<1>1. Answers = {} /\ segmentChain = << >> /\ DOMAIN segmentChain = {}
  BY DEF Init, Answers, EmptyBag, SetToBag
<1>2. /\ ~page.loaded /\ page.validCells = Unknown
      /\ page.iterationLow = 0
  BY DEF Init
<1>3. InRange(page)
  <2>1. MaxIters \in Int /\ MaxIters >= 1 /\ 1 \in Iters /\ -1 \in Iters
    BY IsIter
  <2>2. /\ page.iteration = 1 /\ page.maxIteration = 1
        /\ page.seekMin = 0 /\ page.seekMax = 0 /\ page.icon = "play"
        /\ page.playIter = -1 /\ page.pauseIter = -1 /\ page.forwardIter = -1
        /\ page.backwardIter = -1 /\ page.seekbarMax = -1
        /\ page.simplayFlag = FALSE
    BY DEF Init
  <2> QED
    BY <2>1, <2>2, ItersAreLabels DEF InRange
<1>4. ScreenInRange(screen)
  <2>1. screen = Blank(page, 0) /\ run = 0
    BY DEF Init
  <2>2. /\ DOMAIN screen = ScreenFields /\ screen.label = -1 /\ screen.run = 0
    BY <1>2, <2>1 DEF Blank, ScreenFields
  <2>3. -1 \in Iters
    BY IsIter
  <2> QED
    BY <2>1, <2>2, <2>3, ItersAreLabels DEF ScreenInRange
<1> QED
  BY <1>1, <1>2, <1>3, <1>4 DEF RangeInv, InSquare

LEMMA NextRange ==
  ASSUME GridsFit, OrderInv, PaintInv, RangeInv, [Next]_vars
  PROVE  RangeInv'
<1>1. CASE User
  <2>1. \/ \E c \in Charts : Visualize(c)
        \/ ClickPlay \/ ClickPause
        \/ ForwardFirst \/ ClickForward \/ ClickBack
        \/ DragSeekbar
        \/ ClickRepeat \/ ClickSave
    BY <1>1 DEF User
  <2> QED
    BY <2>1, VisualizeRange, ClickPlayRange, ClickPauseRange, ForwardFirstRange,
       ClickForwardRange, ClickBackRange, DragSeekbarRange, ClickRepeatRange,
       ClickSaveRange
<1>2. CASE Serve
  BY <1>2, ServeRange
<1>3. CASE Deliver
  BY <1>3, DeliverAxesRange, DeliverIterRange DEF Deliver
<1>4. CASE UNCHANGED vars
  BY <1>4, StutterRange
<1> QED
  BY <1>1, <1>2, <1>3, <1>4 DEF Next

\* The page's variables keep their types, and no counter and no entry leaves
\* the iterations of the chart by more than the steps that play() counts past
\* them and a pause before the first counts back (player.js), whatever
\* buttons are pressed, over any number of runs and charts, on every chart
\* whose grid and whose values the arrays hold.  backwardIter alone, and the
\* label that a snapshot takes from it, has no lower limit: MaxBack, which
\* ends its descent in the runs, is not used.
THEOREM PageStaysTyped == GridsFit /\ Spec => []HeatPlayerTypeOK
<1>1. OrderInv /\ RangeInv => HeatPlayerTypeOK
  <2> SUFFICES ASSUME OrderInv, RangeInv PROVE HeatPlayerTypeOK
    OBVIOUS
  <2>1. HeatTypeOK /\ page.iterationLow \in {0, 1}
    BY DEF OrderInv, HeatInv, PageShape
  <2>2. /\ { page.iteration, page.maxIteration, page.playIter, page.pauseIter,
             page.forwardIter, page.seekbarMax } \subseteq Iters
        /\ page.icon \in {"play", "pause"}
        /\ page.backwardIter \in Int /\ page.backwardIter <= MaxIters
    BY IsLabel DEF RangeInv, InRange
  <2>3. DOMAIN segmentChain \subseteq Iters
    BY DEF RangeInv
  <2>4. /\ screen.label \in Int /\ screen.label <= MaxIters
        /\ screen.run \in 0 .. run
    BY IsLabel DEF RangeInv, ScreenInRange
  <2>5. page.validCells = Unknown
        \/ page.validCells \subseteq (0 .. MaxSide) \X (0 .. MaxSide)
    BY DEF RangeInv, InSquare
  <2> QED
    BY <2>1, <2>2, <2>3, <2>4, <2>5 DEF HeatPlayerTypeOK
<1>2. GridsFit /\ OrderInv /\ PaintInv /\ RangeInv /\ [Next]_vars => RangeInv'
  BY NextRange
<1>3. ASSUME GridsFit PROVE Spec => []HeatPlayerTypeOK
  <2>1. OrderInv /\ PaintInv /\ RangeInv /\ [Next]_vars => RangeInv'
    BY <1>2, <1>3
  <2> QED
    BY <1>1, <2>1, InitRange, PaintHolds, PTL DEF Spec
<1> QED
  BY <1>3
=============================================================================
