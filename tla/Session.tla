------------------------------ MODULE Session -------------------------------
(***************************************************************************)
(* Several browser tabs and one server, from the start page to the chart   *)
(* that Visualize asks for: the page buttons (index.html), the forms       *)
(* (toolkit.js, trendline.js, heatmap.js), the routes /setViz, /getViz,    *)
(* /getloaddata and /getaxesdata (app.js) and the parts of the add-on they *)
(* call (incvisage.cc, setMaps of the two engines).  What is played on a   *)
(* chart once it is loaded is in TrendPlayer and HeatPlayer.               *)
(*                                                                         *)
(* One server variable, vizType, says for every tab which kind of chart is *)
(* meant, and one file per kind says which of two treatments of a user     *)
(* study the next page gets: read, then written back without waiting.      *)
(*                                                                         *)
(* A tab's requests go over connections of their own: the server may take  *)
(* a later one first, and each may be lost, with the page that sent it or  *)
(* without it.                                                             *)
(***************************************************************************)
EXTENDS Integers, Bags, Functions

CONSTANTS
  Tabs,
  Dims,       (* kind -> the dimensions loadDataset offers for it          *)
  Measures,
  Nothing,    (* a field without a choice, an attribute without a name     *)
  OneKind,    (* users keep to one kind of page at a time                  *)
  Waits,      (* a user waits until the server has taken a tab's requests, *)
              (* before opening a page in it and before picking a dataset  *)
  Lost,       (* requests that may get lost, or their answers              *)
  FilesFail,  (* may the opening of a treatment file fail?                 *)
  MaxVisits,  (* bound: pages opened, by all tabs together                 *)
  MaxInFlight (* bound: requests of a tab under way                        *)

VARIABLES
  vizType,    (* app.js and the add-on; -1 before the first /setViz        *)
  maps,       (* engine -> the names its maps know (setMaps)               *)
  axes,       (* engine -> attributes of the chart that is loaded          *)
  file,       (* kind -> the treatment file: 1, 2 or cut to nothing (0)    *)
  jobs,       (* file accesses under way                                   *)
  tab,        (* the page each tab shows and its form                      *)
  requests,   (* tab -> bag of its requests that are not served yet        *)
  replies,    (* tab -> answers its page has not taken yet                 *)
  visits      (* how many pages have been opened                           *)

server == << vizType, maps, axes >>
vars == << server, file, jobs, tab, requests, replies, visits >>

Kinds == {1, 2}
Index == 0
Empty == 0

(* Names, of dimensions and measures alike, that setMaps enters.           *)
AllNames == (UNION {Dims[k] : k \in Kinds}) \cup Measures

(* No attribute of the data is without a name.                             *)
ASSUME SessionAssumption ==
  /\ Nothing \notin AllNames
  /\ OneKind \in BOOLEAN /\ Waits \in BOOLEAN /\ FilesFail \in BOOLEAN
  /\ Lost \subseteq {"setViz", "getViz", "load", "axes"}

-----------------------------------------------------------------------------
(* The forms.                                                              *)

Fields(k) == IF k = 1 THEN {"x", "y"} ELSE {"x", "y", "measure"}

XList(k) == Dims[k]
YList(k) == IF k = 1 THEN Measures ELSE Dims[k]
MeasList == Measures

Fresh(k, v) ==
  [page |-> k, visit |-> v, asked |-> "no", done |-> FALSE,
   chosen |-> [f \in Fields(k) |-> Nothing]]

(* What a field offers: on a heatmap a dimension chosen for x is left out   *)
(* of the list for y, but a y chosen before stays chosen.                  *)
Options(p, f) ==
  CASE f = "x" -> XList(p.page)
    [] f = "y" -> IF p.page = 2 THEN YList(2) \ {p.chosen["x"]} ELSE YList(1)
    [] OTHER   -> MeasList

(* The change handlers: the choice, and Visualize once all fields have one. *)
Chosen(p, f, n) ==
  LET q == [p EXCEPT !.chosen[f] = n]
  IN  [q EXCEPT !.done = @ \/ \A g \in Fields(p.page) : q.chosen[g] # Nothing]

(* loadQuestion and the part of renderSubmit before its request.           *)
Emptied(p) ==
  [p EXCEPT !.asked = "data", !.done = FALSE,
            !.chosen = [f \in DOMAIN @ |->
                          IF f = "measure" THEN @[f] ELSE Nothing]]

(* processMetaData reads the fields its own kind of answer has, or throws. *)
Filled(p, kind) ==
  [p EXCEPT !.asked = IF kind = p.page THEN "filled" ELSE "threw"]

(* loadAxesColumns: the attributes under the names of this kind of page.   *)
AxesInfo(p) ==
  IF p.page = 1
  THEN [dimension |-> p.chosen["x"], measure |-> p.chosen["y"]]
  ELSE [dimension1 |-> p.chosen["x"], dimension2 |-> p.chosen["y"],
        measure |-> p.chosen["measure"]]

-----------------------------------------------------------------------------
(* The user.                                                               *)

Send(t, op, k, v, info) ==
  requests' = [requests EXCEPT ![t] =
    @ (+) SetToBag({[op |-> op, kind |-> k, visit |-> v, info |-> info]})]

Room(t)   == BagCardinality(requests[t]) < MaxInFlight
Served(t) == requests[t] = EmptyBag

(* Every other tab is at the start page or at a page of kind k, and so are *)
(* the requests it has sent.                                               *)
KeepsTo(t, k) ==
  \A u \in Tabs \ {t} :
    /\ tab[u].page \in {Index, k}
    /\ \A r \in BagToSet(requests[u]) : r.kind = k

(* The tab shows a new page, its form empty; the page it showed takes no   *)
(* answer any more.                                                        *)
Shows(t, k) ==
  /\ visits < MaxVisits
  /\ visits' = visits + 1
  /\ tab' = [tab EXCEPT ![t] = Fresh(k, visits + 1)]
  /\ replies' = [replies EXCEPT ![t] = {}]

(* The buttons of the start page: /setViz, and the page without waiting.   *)
Open(t, k) ==
  /\ tab[t].page = Index
  /\ OneKind => KeepsTo(t, k)
  /\ Waits => Served(t)
  /\ Room(t)
  /\ Shows(t, k)
  /\ Send(t, "setViz", k, 0, << >>)
  /\ UNCHANGED << server, file, jobs >>

(* The title of a page is a link to the start page.                        *)
GoHome(t) ==
  /\ tab[t].page # Index
  /\ tab' = [tab EXCEPT ![t] = Fresh(Index, 0)]
  /\ replies' = [replies EXCEPT ![t] = {}]
  /\ UNCHANGED << server, file, jobs, requests, visits >>

Reload(t) ==
  /\ tab[t].page # Index
  /\ Shows(t, tab[t].page)
  /\ UNCHANGED << server, file, jobs, requests >>

(* One dataset is offered: its choice changes once on each page.           *)
PickDataset(t) ==
  /\ tab[t].page # Index
  /\ tab[t].asked = "no"
  /\ Waits => Served(t)
  /\ Room(t)
  /\ tab' = [tab EXCEPT ![t].asked = "viz"]
  /\ Send(t, "getViz", tab[t].page, tab[t].visit, << >>)
  /\ UNCHANGED << server, file, jobs, replies, visits >>

Choose(t) ==
  /\ tab[t].asked = "filled"
  /\ \E f \in Fields(tab[t].page) : \E n \in Options(tab[t], f) :
       /\ n # tab[t].chosen[f]
       /\ tab' = [tab EXCEPT ![t] = Chosen(@, f, n)]
  /\ UNCHANGED << server, file, jobs, requests, replies, visits >>

Visualize(t) ==
  /\ tab[t].done
  /\ Room(t)
  /\ Send(t, "axes", tab[t].page, 0, AxesInfo(tab[t]))
  /\ UNCHANGED << server, file, jobs, tab, replies, visits >>

-----------------------------------------------------------------------------
(* Answers.                                                                *)

TakeViz(t, r) ==
  /\ r.op = "getViz"
  /\ Room(t)
  /\ tab' = [tab EXCEPT ![t] = Emptied(@)]
  /\ Send(t, "load", tab[t].page, tab[t].visit, << >>)

TakeData(t, r) ==
  /\ r.op = "load"
  /\ tab' = [tab EXCEPT ![t] = Filled(@, r.kind)]
  /\ UNCHANGED requests

Take(t) ==
  /\ \E r \in replies[t] :
       /\ TakeViz(t, r) \/ TakeData(t, r)
       /\ replies' = [replies EXCEPT ![t] = @ \ {r}]
  /\ UNCHANGED << server, file, jobs, visits >>

(* What a page does when a request or its answer does not come through: a  *)
(* message, and nothing else, the form stays as it is.                     *)
Failed(t) == tab' = [tab EXCEPT ![t].asked = "failed"]

(* A request of a page that was left is lost on nobody.                    *)
Lose(t) ==
  /\ \/ \E r \in BagToSet(requests[t]) :
          /\ r.op \in Lost
          /\ requests' = [requests EXCEPT ![t] = @ (-) SetToBag({r})]
          /\ IF r.op \in {"getViz", "load"} /\ r.visit = tab[t].visit
               THEN Failed(t) ELSE UNCHANGED tab
          /\ UNCHANGED replies
     \/ \E a \in replies[t] :
          /\ a.op \in Lost
          /\ replies' = [replies EXCEPT ![t] = @ \ {a}]
          /\ Failed(t)
          /\ UNCHANGED requests
  /\ UNCHANGED << server, file, jobs, visits >>

-----------------------------------------------------------------------------
(* The server.                                                             *)

Engine(v) == IF v \in {1, 3} THEN 1 ELSE 2

(* An answer reaches the page that asked, if the tab still shows it.       *)
Answer(t, op, kind, v) ==
  replies' = [replies EXCEPT ![t] =
    IF tab[t].visit = v THEN @ \cup {[op |-> op, kind |-> kind]} ELSE @]

(* A plausible slip: only the first /setViz counts.                        *)
SetVizOnce(t, r) ==
  /\ r.op = "setViz"
  /\ vizType' = IF vizType = -1 THEN r.kind ELSE vizType
  /\ UNCHANGED << maps, axes, file, jobs, replies >>

(* /setViz is never answered.                                              *)
SetViz(t, r) ==
  /\ r.op = "setViz"
  /\ vizType' = r.kind
  /\ UNCHANGED << maps, axes, file, jobs, replies >>

(* /getViz starts reading the file of the server's kind.                   *)
GetViz(t, r) ==
  /\ r.op = "getViz"
  /\ jobs' = jobs \cup {[tab |-> t, visit |-> r.visit,
                         kind |-> IF vizType \in 1 .. 3 THEN vizType ELSE 4,
                         step |-> "read", value |-> Empty]}
  /\ UNCHANGED << server, file, replies >>

(* A plausible slip: the maps are filled for trendlines only.              *)
LoadDatasetOnce(t, r) ==
  /\ r.op = "load"
  /\ maps' = [maps EXCEPT ![1] = AllNames]
  /\ Answer(t, "load", Engine(vizType), r.visit)
  /\ UNCHANGED << vizType, axes, file, jobs >>

(* loadDataset fills the maps of the engine of the server's kind.          *)
LoadDataset(t, r) ==
  /\ r.op = "load"
  /\ maps' = [maps EXCEPT ![Engine(vizType)] = AllNames]
  /\ Answer(t, "load", Engine(vizType), r.visit)
  /\ UNCHANGED << vizType, axes, file, jobs >>

(* loadAxesData takes the fields of the server's kind from the request and *)
(* looks them up: a name the maps do not know gives an empty attribute.    *)
Keys(e) == IF e = 1 THEN {"dimension", "measure"}
           ELSE {"dimension1", "dimension2", "measure"}

LookUp(e, info) ==
  [key \in Keys(e) |->
     IF key \in DOMAIN info /\ info[key] \in maps[e]
       THEN info[key] ELSE Nothing]

LoadAxes(t, r) ==
  /\ r.op = "axes"
  /\ LET e == Engine(vizType) IN axes' = [axes EXCEPT ![e] = LookUp(e, r.info)]
  /\ UNCHANGED << vizType, maps, file, jobs, replies >>

Serve(t) ==
  /\ \E r \in BagToSet(requests[t]) :
       /\ SetViz(t, r) \/ GetViz(t, r) \/ LoadDataset(t, r) \/ LoadAxes(t, r)
       /\ requests' = [requests EXCEPT ![t] = @ (-) SetToBag({r})]
  /\ UNCHANGED << tab, visits >>

-----------------------------------------------------------------------------
(* The treatment files.  readFile and writeFile work in the background; a  *)
(* write first cuts the file to nothing.                                   *)

Becomes(j, step, value) ==
  jobs' = (jobs \ {j}) \cup {[j EXCEPT !.step = step, !.value = value]}

Other(v) == 3 - v

Cutting(k) == \E j \in jobs : j.kind = k /\ j.step = "write"

(* A plausible slip: what was read is written back, a number or not.       *)
ReadUnchecked(j) ==
  /\ j.step = "read"
  /\ Becomes(j, "cut", IF file[j.kind] \in {1, 2}
                          THEN Other(file[j.kind]) ELSE file[j.kind])
  /\ Answer(j.tab, "getViz", file[j.kind], j.visit)
  /\ UNCHANGED file

(* readFile and its callback, which answers only when it has read a 1 or   *)
(* a 2, and does not wait for the write.  An error is logged: no answer is *)
(* sent, until the socket's timeout of 1000 s closes the connection.       *)
ReadFile(j) ==
  /\ j.step = "read"
  /\ \/ /\ file[j.kind] \in {1, 2}
        /\ Becomes(j, "cut", Other(file[j.kind]))
        /\ Answer(j.tab, "getViz", file[j.kind], j.visit)
     \/ /\ file[j.kind] \notin {1, 2} \/ FilesFail
        /\ jobs' = jobs \ {j}
        /\ UNCHANGED replies
  /\ UNCHANGED file

(* writeFile opens the file, and with that cuts it, or its error is logged.*)
CutFile(j) ==
  /\ j.step = "cut"
  /\ \/ /\ Becomes(j, "write", j.value)
        /\ file' = [file EXCEPT ![j.kind] = Empty]
     \/ /\ FilesFail
        /\ jobs' = jobs \ {j}
        /\ UNCHANGED file
  /\ UNCHANGED replies

WriteFile(j) ==
  /\ j.step = "write"
  /\ jobs' = jobs \ {j}
  /\ file' = [file EXCEPT ![j.kind] = j.value]
  /\ UNCHANGED replies

Access(j) ==
  /\ ReadFile(j) \/ CutFile(j) \/ WriteFile(j)
  /\ UNCHANGED << server, tab, requests, visits >>

-----------------------------------------------------------------------------

Init ==
  /\ vizType = -1
  /\ maps = [e \in Kinds |-> {}]
  /\ axes = [e \in Kinds |-> << >>]
  /\ \E v \in {1, 2} : file = [k \in 1 .. 4 |-> v]
  /\ jobs = {}
  /\ tab = [t \in Tabs |-> Fresh(Index, 0)]
  /\ requests = [t \in Tabs |-> EmptyBag]
  /\ replies = [t \in Tabs |-> {}]
  /\ visits = 0

User(t) ==
  \/ \E k \in Kinds : Open(t, k)
  \/ GoHome(t)
  \/ Reload(t)
  \/ PickDataset(t)
  \/ Choose(t)
  \/ Visualize(t)

Next ==
  \/ \E t \in Tabs : User(t) \/ Take(t) \/ Serve(t) \/ Lose(t)
  \/ \E j \in jobs : Access(j)

Spec == Init /\ [][Next]_vars

-----------------------------------------------------------------------------
(* Users who keep to one kind of page at a time, and let a tab's requests  *)
(* be served before they go on, get charts of attributes the engine knows: *)
(* between the form's answer and Visualize no request of any tab has       *)
(* turned the server to an engine whose maps are empty, or to one that     *)
(* reads other fields of the request (an empty attribute ends the server). *)
AxesKnown == \A e \in Kinds : Nothing \notin Range(axes[e])

(* However the accesses of several pages overlap, and whichever file does  *)
(* not open, a treatment file is whole again when they are over: no later  *)
(* page finds it cut to nothing.                                           *)
FilesRecover == jobs = {} => \A k \in 1 .. 4 : file[k] \in {1, 2}

(* The request or the answer for the form of the page a tab shows.         *)
FormUnderWay(t) ==
  \/ \E r \in BagToSet(requests[t]) : r.op = "load" /\ r.visit = tab[t].visit
  \/ \E a \in replies[t] : a.op = "load"

(* The same users get the form of their own kind of page once its          *)
(* treatment has come, or a message, although one server variable says for *)
(* every tab which kind is meant: no answer to /getloaddata has the fields *)
(* of the other kind (processMetaData, trendline.js, heatmap.js), and none *)
(* fails to come.                                                          *)
FormsFit ==
  \A t \in Tabs :
    /\ tab[t].asked = "data" => FormUnderWay(t)
    /\ tab[t].asked # "threw"

=============================================================================
