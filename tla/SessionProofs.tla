--------------------------- MODULE SessionProofs ----------------------------
(***************************************************************************)
(* For any number of tabs, pages opened, requests and accesses under way   *)
(* at once, served in any order or lost: the treatment files recover, and, *)
(* while users keep to one kind of page at a time and wait for what a tab  *)
(* has sent, forms fit their pages and charts are loaded of attributes the *)
(* engine knows.                                                           *)
(***************************************************************************)
EXTENDS Session, PartitionProofs

(* A job is of a file there is, and writes a treatment.                    *)
JobsOK ==
  \A j \in jobs :
    /\ DOMAIN j = {"tab", "visit", "kind", "step", "value"}
    /\ j.kind \in 1 .. 4
    /\ j.step \in {"read", "cut", "write"}
    /\ j.step # "read" => j.value \in {1, 2}

(* A file is cut to nothing only while somebody is about to write it.      *)
CutIsWritten == \A k \in 1 .. 4 : file[k] = Empty => Cutting(k)

FileInv ==
  /\ file \in [1 .. 4 -> 0 .. 2]
  /\ JobsOK
  /\ CutIsWritten

-----------------------------------------------------------------------------

LEMMA FileInit == Init => FileInv
  BY DEF Init, FileInv, JobsOK, CutIsWritten, Cutting, Empty

(* Reading one file more disturbs nothing.                                 *)
LEMMA GetVizKeeps ==
  ASSUME FileInv, NEW t, NEW r, GetViz(t, r) PROVE FileInv'
<1> DEFINE new == [tab |-> t, visit |-> r.visit,
                   kind |-> IF vizType \in 1 .. 3 THEN vizType ELSE 4,
                   step |-> "read", value |-> Empty]
<1>1. jobs' = jobs \cup {new} /\ file' = file
  BY DEF GetViz
<1>2. /\ DOMAIN new = {"tab", "visit", "kind", "step", "value"}
      /\ new.kind \in 1 .. 4
      /\ new.step = "read"
  OBVIOUS
<1> HIDE DEF new
<1>3. JobsOK'
  BY <1>1, <1>2 DEF FileInv, JobsOK
<1>4. CutIsWritten'
  BY <1>1 DEF FileInv, CutIsWritten, Cutting
<1> QED  BY <1>1, <1>3, <1>4 DEF FileInv

(* The next step of an access is an access to the same file.               *)
LEMMA BecomesJob ==
  ASSUME FileInv, NEW j \in jobs,
         NEW step \in {"cut", "write"}, NEW value \in {1, 2},
         Becomes(j, step, value)
  PROVE  /\ JobsOK'
         /\ \A k \in 1 .. 4 : Cutting(k) /\ j.step # "write" => Cutting(k)'
         /\ step = "write" => Cutting(j.kind)'
<1> DEFINE new == [j EXCEPT !.step = step, !.value = value]
<1>1. jobs' = (jobs \ {j}) \cup {new}
  BY DEF Becomes
<1>2. DOMAIN j = {"tab", "visit", "kind", "step", "value"} /\ j.kind \in 1 .. 4
  BY DEF FileInv, JobsOK
<1>3. /\ DOMAIN new = {"tab", "visit", "kind", "step", "value"}
      /\ new.kind = j.kind /\ new.step = step /\ new.value = value
  BY <1>2
<1> HIDE DEF new
<1>4. JobsOK'
  BY <1>1, <1>2, <1>3 DEF FileInv, JobsOK
<1>5. ASSUME NEW k \in 1 .. 4, Cutting(k), j.step # "write" PROVE Cutting(k)'
  BY <1>1, <1>5 DEF Cutting
<1>6. ASSUME step = "write" PROVE Cutting(j.kind)'
  BY <1>1, <1>3, <1>6 DEF Cutting
<1> QED  BY <1>4, <1>5, <1>6

LEMMA ReadKeeps ==
  ASSUME FileInv, NEW j \in jobs, ReadFile(j) PROVE FileInv'
<1>1. file' = file /\ j.step = "read" /\ j.kind \in 1 .. 4
  BY DEF ReadFile, FileInv, JobsOK
<1>2. CASE file[j.kind] \in {1, 2} /\ Becomes(j, "cut", Other(file[j.kind]))
  <2>1. Other(file[j.kind]) \in {1, 2}
    BY <1>2 DEF Other
  <2>2. JobsOK' /\ \A k \in 1 .. 4 : Cutting(k) => Cutting(k)'
    BY <1>1, <1>2, <2>1, BecomesJob
  <2> QED  BY <1>1, <2>2 DEF FileInv, CutIsWritten
<1>3. CASE jobs' = jobs \ {j}
  <2>1. JobsOK'
    BY <1>3 DEF FileInv, JobsOK
  <2>2. \A k \in 1 .. 4 : Cutting(k) => Cutting(k)'
    BY <1>1, <1>3 DEF Cutting
  <2> QED  BY <1>1, <2>1, <2>2 DEF FileInv, CutIsWritten
<1> QED  BY <1>2, <1>3 DEF ReadFile

LEMMA CutKeeps ==
  ASSUME FileInv, NEW j \in jobs, CutFile(j) PROVE FileInv'
<1>1. j.step = "cut" /\ j.kind \in 1 .. 4 /\ j.value \in {1, 2}
  BY DEF CutFile, FileInv, JobsOK
<1>2. CASE /\ Becomes(j, "write", j.value)
           /\ file' = [file EXCEPT ![j.kind] = Empty]
  <2>1. /\ JobsOK' /\ Cutting(j.kind)'
        /\ \A k \in 1 .. 4 : Cutting(k) => Cutting(k)'
    BY <1>1, <1>2, BecomesJob
  <2>2. file' \in [1 .. 4 -> 0 .. 2]
    BY <1>1, <1>2 DEF FileInv, Empty
  <2>3. CutIsWritten'
    BY <1>1, <1>2, <2>1 DEF FileInv, CutIsWritten
  <2> QED  BY <2>1, <2>2, <2>3 DEF FileInv
<1>3. CASE jobs' = jobs \ {j} /\ file' = file
  <2>1. JobsOK'
    BY <1>3 DEF FileInv, JobsOK
  <2>2. \A k \in 1 .. 4 : Cutting(k) => Cutting(k)'
    BY <1>1, <1>3 DEF Cutting
  <2> QED  BY <1>3, <2>1, <2>2 DEF FileInv, CutIsWritten
<1> QED  BY <1>2, <1>3 DEF CutFile

(* The file that is written is whole; the others keep their writers.       *)
LEMMA WriteKeeps ==
  ASSUME FileInv, NEW j \in jobs, WriteFile(j) PROVE FileInv'
<1>1. /\ j.kind \in 1 .. 4 /\ j.value \in {1, 2}
      /\ jobs' = jobs \ {j}
      /\ file' = [file EXCEPT ![j.kind] = j.value]
  BY DEF WriteFile, FileInv, JobsOK
<1>2. JobsOK'
  BY <1>1 DEF FileInv, JobsOK
<1>3. file' \in [1 .. 4 -> 0 .. 2]
  BY <1>1 DEF FileInv
<1>4. ASSUME NEW k \in 1 .. 4, file'[k] = Empty PROVE Cutting(k)'
  <2>1. k # j.kind /\ file[k] = Empty
    BY <1>1, <1>4 DEF FileInv, Empty
  <2> QED  BY <1>1, <2>1 DEF FileInv, CutIsWritten, Cutting
<1> QED  BY <1>2, <1>3, <1>4 DEF FileInv, CutIsWritten

(* The steps that touch neither a file nor an access.                      *)
LEMMA OthersKeep ==
  ASSUME FileInv, UNCHANGED << file, jobs >> PROVE FileInv'
  BY DEF FileInv, JobsOK, CutIsWritten, Cutting

LEMMA FileStep == FileInv /\ [Next]_vars => FileInv'
<1> SUFFICES ASSUME FileInv, [Next]_vars PROVE FileInv'
  OBVIOUS
<1>1. ASSUME NEW t \in Tabs, User(t) PROVE FileInv'
  <2>1. UNCHANGED << file, jobs >>
    BY <1>1 DEF User, Open, GoHome, Reload, PickDataset, Choose, Visualize
  <2> QED  BY <2>1, OthersKeep
<1>2. ASSUME NEW t \in Tabs, Take(t) PROVE FileInv'
  BY <1>2, OthersKeep DEF Take
<1>3. ASSUME NEW t \in Tabs, Serve(t) PROVE FileInv'
  <2>0. PICK r \in BagToSet(requests[t]) :
          SetViz(t, r) \/ GetViz(t, r) \/ LoadDataset(t, r) \/ LoadAxes(t, r)
    BY <1>3 DEF Serve
  <2>1. CASE GetViz(t, r)
    BY <2>1, GetVizKeeps
  <2>2. CASE SetViz(t, r) \/ LoadDataset(t, r) \/ LoadAxes(t, r)
    BY <2>2, OthersKeep DEF SetViz, LoadDataset, LoadAxes
  <2> QED  BY <2>0, <2>1, <2>2
<1>6. ASSUME NEW t \in Tabs, Lose(t) PROVE FileInv'
  BY <1>6, OthersKeep DEF Lose
<1>4. ASSUME NEW j \in jobs, Access(j) PROVE FileInv'
  BY <1>4, ReadKeeps, CutKeeps, WriteKeeps DEF Access
<1>5. CASE UNCHANGED vars
  BY <1>5, OthersKeep DEF vars
<1> QED  BY <1>1, <1>2, <1>3, <1>4, <1>5, <1>6 DEF Next

(* However the accesses of several pages overlap, and whichever file does  *)
(* not open, a treatment file is whole again when they are over (/getViz,  *)
(* app.js:60-229).                                                         *)
THEOREM FilesAlwaysRecover == Spec => []FilesRecover
<1>1. FileInv => FilesRecover
  BY DEF FileInv, FilesRecover, CutIsWritten, Cutting, Empty
<1> QED  BY FileInit, FileStep, <1>1, PTL DEF Spec
-----------------------------------------------------------------------------
(* The forms.  While users keep to one kind of page at a time and wait     *)
(* before they open one, all pages and all requests under way are of one   *)
(* kind.  The server is at this kind once a page's /setViz is served, and  *)
(* nothing else is sent before: so in whichever order requests are served, *)
(* the server is at their kind.                                            *)

Named == AllNames \cup {Nothing}
FormStates == UNION {[Fields(k) -> Named] : k \in 0 .. 2}
Infos == {<< >>} \cup [Keys(1) -> Named] \cup [Keys(2) -> Named]
Requests == [op : {"setViz", "getViz", "load", "axes"}, kind : Kinds,
             visit : Nat, info : Infos]
RequestBags == UNION {[D -> {n \in Nat : n > 0}] : D \in SUBSET Requests}
Replies  == [op : {"getViz", "load"}, kind : Kinds]
Pages    == [page : 0 .. 2, visit : Nat,
             asked : {"no", "viz", "data", "filled", "threw", "failed"},
             done : BOOLEAN, chosen : FormStates]
Jobs     == [tab : Tabs, visit : Nat, kind : 1 .. 4,
             step : {"read", "cut", "write"}, value : 0 .. 2]

SessionType ==
  /\ vizType \in {-1, 1, 2}
  /\ maps \in [Kinds -> SUBSET AllNames]
  /\ axes \in [Kinds -> Infos]
  /\ jobs \subseteq Jobs
  /\ tab \in [Tabs -> Pages]
  /\ requests \in [Tabs -> RequestBags]
  /\ replies \in [Tabs -> SUBSET Replies]
  /\ visits \in Nat

Pending(t) == DOMAIN requests[t]

(* A visit is of one tab; its requests and accesses are of its page.       *)
OfPage(t, r) ==
  r.op \in {"getViz", "load"} =>
    /\ 0 < r.visit /\ r.visit <= visits
    /\ \A u \in Tabs : tab[u].visit = r.visit => u = t /\ r.kind = tab[u].page

VisitsApart ==
  /\ \A t \in Tabs : /\ tab[t].visit <= visits
                     /\ tab[t].visit = 0 <=> tab[t].page = Index
                     /\ tab[t].page = Index => replies[t] = {}
  /\ \A t, u \in Tabs : tab[t].visit = tab[u].visit => t = u \/ tab[t].visit = 0
  /\ \A t \in Tabs : \A r \in Pending(t) : OfPage(t, r)
  /\ \A j \in jobs : /\ 0 < j.visit /\ j.visit <= visits
                     /\ \A u \in Tabs : tab[u].visit = j.visit => u = j.tab

(* The kinds a tab stands for.                                             *)
KindsOf(t) == {r.kind : r \in Pending(t)} \cup ({tab[t].page} \ {Index})

KindsAgree ==
  \A t, u \in Tabs : \A k \in KindsOf(t), l \in KindsOf(u) : k = l

(* The server is at the kind of what it is asked, and at a page's kind     *)
(* once the page's /setViz is served, so before anything is asked for it.  *)
AtKind ==
  \A t \in Tabs :
    /\ \A r \in Pending(t) : r.op # "setViz" => r.kind = vizType
    /\ tab[t].page # Index =>
         vizType = tab[t].page \/ \E r \in Pending(t) : r.op = "setViz"
    /\ tab[t].asked # "no" => vizType = tab[t].page

(* What is under way for the page a tab shows, this page has asked for.    *)
AskedFor ==
  \A t \in Tabs :
    /\ replies[t] # {} => tab[t].asked # "no"
    /\ \A r \in Pending(t) :
         r.op \in {"getViz", "load"} /\ r.visit = tab[t].visit => tab[t].asked # "no"
    /\ \A j \in jobs : j.visit = tab[t].visit => tab[t].asked # "no"

(* Forms are filled from a server that knows the names.                    *)
AxesKnowable(r) ==
  r.op = "axes" => maps[r.kind] = AllNames /\ r.info \in [Keys(r.kind) -> AllNames]

FormOK(p) ==
  /\ p.page = Index => p.asked = "no" /\ ~p.done
  /\ p.chosen \in [Fields(p.page) -> Named]
  /\ p.asked = "filled" => maps[p.page] = AllNames
  /\ p.done => /\ p.asked # "no" /\ maps[p.page] = AllNames
               /\ p.chosen \in [Fields(p.page) -> AllNames]

FormsKnow ==
  \A t \in Tabs :
    /\ FormOK(tab[t])
    /\ \A a \in replies[t] : a.op = "load" => a.kind = tab[t].page /\ maps[a.kind] = AllNames
    /\ \A r \in Pending(t) : AxesKnowable(r)

SessionInv ==
  /\ SessionType
  /\ VisitsApart
  /\ KindsAgree
  /\ AtKind
  /\ AskedFor
  /\ FormsKnow
  /\ AxesKnown
  /\ FormsFit

(* One request more, one request less.                                     *)
LEMMA RequestBag ==
  ASSUME NEW s
  PROVE  s \in RequestBags <=> IsABag(s) /\ DOMAIN s \subseteq Requests
  BY DEF RequestBags, IsABag

LEMMA SentFacts ==
  ASSUME NEW s \in RequestBags, NEW x \in Requests
  PROVE  /\ s (+) SetToBag({x}) \in RequestBags
         /\ DOMAIN (s (+) SetToBag({x})) = DOMAIN s \cup {x}
<1> DEFINE z == s (+) SetToBag({x})
<1>1. IsABag(s) /\ DOMAIN s \subseteq Requests
  BY RequestBag
<1>2. IsABag(z) /\ DOMAIN z = DOMAIN s \cup {x}
  BY <1>1, BagAdd
<1> HIDE DEF z
<1>3. z \in RequestBags
  BY <1>1, <1>2, RequestBag
<1> QED  BY <1>2, <1>3 DEF z

LEMMA TakenFacts ==
  ASSUME NEW s \in RequestBags, NEW x \in DOMAIN s
  PROVE  /\ s (-) SetToBag({x}) \in RequestBags
         /\ DOMAIN (s (-) SetToBag({x})) \subseteq DOMAIN s
         /\ DOMAIN s \subseteq DOMAIN (s (-) SetToBag({x})) \cup {x}
<1> DEFINE z == s (-) SetToBag({x})
<1>1. IsABag(s) /\ DOMAIN s \subseteq Requests
  BY RequestBag
<1>2. /\ IsABag(z) /\ DOMAIN z \subseteq DOMAIN s
      /\ DOMAIN s \subseteq DOMAIN z \cup {x}
  BY <1>1, BagDel
<1> HIDE DEF z
<1>3. z \in RequestBags
  BY <1>1, <1>2, RequestBag
<1> QED  BY <1>2, <1>3 DEF z

LEMMA SessionInit == Init => SessionInv
<1> SUFFICES ASSUME Init PROVE SessionInv
  OBVIOUS
<1> DEFINE home == Fresh(Index, 0)
<1>1. /\ vizType = -1 /\ maps = [e \in Kinds |-> {}] /\ axes = [e \in Kinds |-> << >>]
      /\ jobs = {} /\ tab = [t \in Tabs |-> home] /\ requests = [t \in Tabs |-> EmptyBag]
      /\ replies = [t \in Tabs |-> {}] /\ visits = 0
  BY DEF Init
<1>2. /\ home \in Pages /\ home.page = Index /\ home.visit = 0 /\ home.asked = "no"
      /\ ~home.done /\ home.chosen \in [Fields(home.page) -> Named]
  BY DEF Fresh, Pages, FormStates, Index, Named
<1> HIDE DEF home
<1>3. \A t \in Tabs : Pending(t) = {} /\ replies[t] = {} /\ tab[t] = home
  BY <1>1 DEF Pending, EmptyBag, SetToBag
<1>4. SessionType
  <2>1. EmptyBag \in RequestBags
    BY DEF RequestBags, EmptyBag, SetToBag
  <2> QED  BY <1>1, <1>2, <2>1 DEF SessionType, Infos, Kinds
<1>5. VisitsApart
  BY <1>1, <1>2, <1>3 DEF VisitsApart
<1>6. KindsAgree
  BY <1>2, <1>3 DEF KindsAgree, KindsOf
<1>7. AtKind /\ AskedFor
  BY <1>1, <1>2, <1>3 DEF AtKind, AskedFor
<1>8. FormsKnow
  BY <1>2, <1>3 DEF FormsKnow, FormOK, Index
<1>9. AxesKnown
  BY <1>1 DEF AxesKnown, Range
<1>10. FormsFit
  BY <1>2, <1>3 DEF FormsFit
<1> QED  BY <1>4, <1>5, <1>6, <1>7, <1>8, <1>9, <1>10 DEF SessionInv

LEMMA PendingType ==
  ASSUME SessionType, NEW t \in Tabs PROVE \A r \in Pending(t) : r \in Requests
<1>1. requests[t] \in RequestBags
  BY DEF SessionType
<1> QED  BY <1>1, RequestBag DEF Pending

(* The form a page waits for stays under way.                              *)
LEMMA StaysUnderWay ==
  ASSUME NEW t \in Tabs, FormUnderWay(t),
         tab'[t].visit = tab[t].visit,
         \A r \in Pending(t) :
           r.op = "load" /\ r.visit = tab[t].visit => r \in Pending(t)',
         \A a \in replies[t] : a.op = "load" => a \in replies'[t]
  PROVE  FormUnderWay(t)'
<1>1. CASE \E r \in Pending(t) : r.op = "load" /\ r.visit = tab[t].visit
  BY <1>1 DEF FormUnderWay, Pending, BagToSet
<1>2. CASE \E a \in replies[t] : a.op = "load"
  BY <1>2 DEF FormUnderWay
<1> QED  BY <1>1, <1>2 DEF FormUnderWay, Pending, BagToSet

-----------------------------------------------------------------------------
(* A tab gets a new page.                                                  *)

NewPage(t, k, v) ==
  /\ tab' = [tab EXCEPT ![t] = Fresh(k, v)]
  /\ replies' = [replies EXCEPT ![t] = {}]
  /\ IF k = Index THEN v = 0 /\ visits' = visits ELSE v = visits + 1 /\ visits' = v
  /\ UNCHANGED << server, jobs >>

LEMMA NewPageKeeps ==
  ASSUME SessionInv, NEW t \in Tabs, NEW k \in 0 .. 2, NEW v, NewPage(t, k, v),
         requests' \in [Tabs -> RequestBags],
         \A u \in Tabs \ {t} : requests'[u] = requests[u],
         \A r \in Pending(t)' : r \in Pending(t) \/ r.op = "setViz"
  PROVE  /\ SessionType' /\ VisitsApart' /\ AskedFor' /\ FormsKnow' /\ AxesKnown'
         /\ FormsFit'
<1> DEFINE p == Fresh(k, v)
<1>1. /\ tab \in [Tabs -> Pages] /\ replies \in [Tabs -> SUBSET Replies] /\ visits \in Nat
      /\ VisitsApart /\ AskedFor /\ FormsKnow /\ FormsFit
  BY DEF SessionInv, SessionType
<1>2. /\ v \in Nat /\ visits' \in Nat /\ visits <= visits' /\ v <= visits'
      /\ v = 0 <=> k = Index
      /\ v # 0 => v > visits
  BY <1>1 DEF NewPage
<1>3. /\ p \in Pages /\ p.page = k /\ p.visit = v /\ p.asked = "no" /\ ~p.done
      /\ p.chosen \in [Fields(k) -> Named]
  BY <1>2 DEF Fresh, Pages, FormStates, Named
<1>4. /\ tab' = [tab EXCEPT ![t] = p] /\ replies' = [replies EXCEPT ![t] = {}]
      /\ UNCHANGED << vizType, maps, axes, jobs >>
  BY DEF NewPage, server
<1> HIDE DEF p
<1>5. /\ tab'[t] = p /\ replies'[t] = {}
      /\ \A u \in Tabs \ {t} : /\ tab'[u] = tab[u] /\ replies'[u] = replies[u]
                               /\ Pending(u)' = Pending(u)
  BY <1>1, <1>4 DEF Pending
<1>6. SessionType'
  BY <1>1, <1>2, <1>3, <1>4 DEF SessionInv, SessionType
<1>7. VisitsApart'
  <2>1. \A u \in Tabs : tab[u].visit \in Nat /\ tab[u].visit <= visits
    BY <1>1 DEF VisitsApart, Pages
  <2>2. \A u \in Tabs : /\ tab'[u].visit <= visits'
                        /\ tab'[u].visit = 0 <=> tab'[u].page = Index
                        /\ tab'[u].page = Index => replies'[u] = {}
    <3>1. \A u \in Tabs : /\ tab[u].visit = 0 <=> tab[u].page = Index
                          /\ tab[u].page = Index => replies[u] = {}
      BY <1>1 DEF VisitsApart
    <3>2. /\ tab'[t].visit <= visits'
          /\ tab'[t].visit = 0 <=> tab'[t].page = Index
      BY <1>2, <1>3, <1>5
    <3>3. \A u \in Tabs : tab'[u].visit <= visits'
      BY <1>1, <1>2, <1>5, <2>1, <3>2
    <3> QED  BY <1>5, <3>1, <3>2, <3>3
  <2>3. \A u, w \in Tabs : tab'[u].visit = tab'[w].visit => u = w \/ tab'[u].visit = 0
    <3>1. \A u, w \in Tabs : tab[u].visit = tab[w].visit => u = w \/ tab[u].visit = 0
      BY <1>1 DEF VisitsApart
    <3>2. \A u \in Tabs : tab[u].visit = v => v = 0
      BY <1>1, <1>2, <2>1
    <3>3. tab'[t].visit = v
      BY <1>3, <1>5
    <3> QED  BY <1>5, <3>1, <3>2, <3>3
  <2>4. ASSUME NEW u \in Tabs, NEW r \in Pending(u)' PROVE OfPage(u, r)'
    <3>1. CASE r \notin Pending(u)
      BY <1>5, <2>4, <3>1 DEF OfPage
    <3>2. CASE r \in Pending(u)
      <4>1. OfPage(u, r)
        BY <1>1, <3>2 DEF VisitsApart
      <4>2. r.visit \in Nat
        BY <3>2, PendingType DEF SessionInv, Requests
      <4>3. ASSUME r.op \in {"getViz", "load"}
            PROVE  /\ 0 < r.visit /\ r.visit <= visits'
                   /\ \A w \in Tabs : tab'[w].visit = r.visit => u = w /\ r.kind = tab'[w].page
        <5>1. /\ 0 < r.visit /\ r.visit <= visits
              /\ \A w \in Tabs : tab[w].visit = r.visit => w = u /\ r.kind = tab[w].page
          BY <4>1, <4>3 DEF OfPage
        <5>2. tab'[t].visit # r.visit
          BY <1>1, <1>2, <1>3, <1>5, <4>2, <5>1
        <5>3. r.visit <= visits'
          BY <1>1, <1>2, <4>2, <5>1
        <5> QED  BY <1>5, <5>1, <5>2, <5>3
      <4> QED  BY <4>3 DEF OfPage
    <3> QED  BY <3>1, <3>2
  <2>5. ASSUME NEW j \in jobs'
        PROVE  /\ 0 < j.visit /\ j.visit <= visits'
               /\ \A u \in Tabs : tab'[u].visit = j.visit => u = j.tab
    <3>1. /\ 0 < j.visit /\ j.visit <= visits
          /\ \A u \in Tabs : tab[u].visit = j.visit => u = j.tab
      BY <1>1, <1>4 DEF VisitsApart
    <3>2. j.visit \in Nat
      BY <1>4 DEF SessionInv, SessionType, Jobs
    <3> QED  BY <1>1, <1>2, <1>3, <1>5, <3>1, <3>2
  <2> QED  BY <2>2, <2>3, <2>4, <2>5 DEF VisitsApart
<1>8. FormsKnow'
  <2>1. ASSUME NEW u \in Tabs PROVE FormOK(tab[u])'
    BY <1>1, <1>3, <1>4, <1>5 DEF FormsKnow, FormOK, Index
  <2>2. ASSUME NEW u \in Tabs, NEW a \in replies'[u], a.op = "load"
        PROVE  a.kind = tab'[u].page /\ maps'[a.kind] = AllNames
    BY <1>1, <1>4, <1>5, <2>2 DEF FormsKnow
  <2>3. ASSUME NEW u \in Tabs, NEW r \in Pending(u)' PROVE AxesKnowable(r)'
    <3>1. r \in Pending(u) \/ r.op = "setViz"
      BY <1>5
    <3> QED  BY <1>1, <1>4, <3>1 DEF FormsKnow, AxesKnowable
  <2> QED  BY <2>1, <2>2, <2>3 DEF FormsKnow
<1>9. AxesKnown'
  BY <1>4 DEF SessionInv, AxesKnown
<1>10. FormsFit'
  <2> SUFFICES ASSUME NEW u \in Tabs
               PROVE  /\ tab'[u].asked = "data" => FormUnderWay(u)'
                      /\ tab'[u].asked # "threw"
    BY DEF FormsFit
  <2>1. CASE u = t
    BY <1>3, <1>5, <2>1
  <2>2. CASE u # t
    <3>1. FormUnderWay(u) => FormUnderWay(u)'
      BY <1>4, <1>5, <2>2, StaysUnderWay
    <3> QED  BY <1>1, <1>5, <2>2, <3>1 DEF FormsFit
  <2> QED  BY <2>1, <2>2
<1>11. AskedFor'
  <2>1. CASE \A r \in Pending(t)' : r.op \in {"getViz", "load"} => r.visit # v
    <3>1. \A j \in jobs' : j.visit # v
      <4>1. \A j \in jobs : 0 < j.visit /\ j.visit <= visits /\ j.visit \in Nat
        BY <1>1 DEF VisitsApart, SessionInv, SessionType, Jobs
      <4> QED  BY <1>1, <1>2, <1>4, <4>1
    <3> QED  BY <1>1, <1>3, <1>4, <1>5, <2>1, <3>1 DEF AskedFor
  <2>2. ASSUME NEW r \in Pending(t)', r.op \in {"getViz", "load"} PROVE r.visit # v
    <3>1. r \in Pending(t)
      BY <2>2
    <3>2. 0 < r.visit /\ r.visit <= visits /\ r.visit \in Nat
      BY <1>1, <2>2, <3>1, PendingType DEF VisitsApart, OfPage, SessionInv, Requests
    <3> QED  BY <1>1, <1>2, <3>2
  <2> QED  BY <2>1, <2>2
<1> QED  BY <1>6, <1>7, <1>8, <1>9, <1>10, <1>11

(* No tab stands for a kind more than before.                              *)
LEMMA KindsStayAgreed ==
  ASSUME KindsAgree, \A t \in Tabs : KindsOf(t)' \subseteq KindsOf(t)
  PROVE  KindsAgree'
  BY DEF KindsAgree

LEMMA OpenKeeps ==
  ASSUME SessionInv, OneKind, Waits, NEW t \in Tabs, NEW k \in Kinds, Open(t, k)
  PROVE  SessionInv'
<1> DEFINE r == [op |-> "setViz", kind |-> k, visit |-> 0, info |-> << >>]
<1>1. /\ requests \in [Tabs -> RequestBags] /\ tab \in [Tabs -> Pages]
      /\ r \in Requests /\ r.op = "setViz" /\ r.kind = k
  BY DEF SessionInv, SessionType, Requests, Infos
<1>2. /\ tab' = [tab EXCEPT ![t] = Fresh(k, visits + 1)] /\ vizType' = vizType
      /\ NewPage(t, k, visits + 1) /\ k \in 0 .. 2 /\ k # Index /\ KeepsTo(t, k)
      /\ requests' = [requests EXCEPT ![t] = @ (+) SetToBag({r})]
      /\ requests[t] = EmptyBag
  BY DEF Open, Shows, Send, Served, NewPage, server, Kinds, Index
<1> HIDE DEF r
<1>3. /\ requests' \in [Tabs -> RequestBags]
      /\ requests'[t] = requests[t] (+) SetToBag({r})
      /\ \A u \in Tabs \ {t} : requests'[u] = requests[u]
  <2>1. requests[t] (+) SetToBag({r}) \in RequestBags
    BY <1>1, SentFacts
  <2> QED  BY <1>1, <1>2, <2>1
<1>4. Pending(t)' = {r}
  <2>1. DOMAIN (requests[t] (+) SetToBag({r})) = DOMAIN requests[t] \cup {r}
    BY <1>1, SentFacts
  <2>2. DOMAIN requests[t] = {}
    BY <1>2 DEF EmptyBag, SetToBag
  <2> QED  BY <1>3, <2>1, <2>2 DEF Pending
<1>5. /\ tab'[t].page = k
      /\ \A u \in Tabs \ {t} : tab'[u] = tab[u] /\ Pending(u)' = Pending(u)
  BY <1>1, <1>2, <1>3 DEF Fresh, Pending
<1>6. /\ SessionType' /\ VisitsApart' /\ AskedFor' /\ FormsKnow' /\ AxesKnown'
      /\ FormsFit'
  BY <1>1, <1>2, <1>3, <1>4, NewPageKeeps
<1>7. KindsAgree'
  <2>1. KindsOf(t)' \subseteq {k}
    BY <1>1, <1>4, <1>5 DEF KindsOf
  <2>2. \A u \in Tabs \ {t} : KindsOf(u)' = KindsOf(u)
    BY <1>5 DEF KindsOf
  <2>3. \A u \in Tabs \ {t} : KindsOf(u) \subseteq {k}
    BY <1>2 DEF KeepsTo, KindsOf, Pending, BagToSet
  <2> QED  BY <2>1, <2>2, <2>3 DEF KindsAgree
<1>8. AtKind'
  <2>1. tab'[t].asked = "no"
    BY <1>1, <1>2 DEF Fresh
  <2> QED  BY <1>1, <1>2, <1>4, <1>5, <2>1 DEF SessionInv, AtKind
<1> QED  BY <1>6, <1>7, <1>8 DEF SessionInv

LEMMA LeaveKeeps ==
  ASSUME SessionInv, NEW t \in Tabs, GoHome(t) \/ Reload(t) PROVE SessionInv'
<1>1a. \E k \in 0 .. 2 : \E v :
        /\ NewPage(t, k, v) /\ k \in {Index, tab[t].page}
        /\ tab' = [tab EXCEPT ![t] = Fresh(k, v)]
        /\ requests' = requests /\ vizType' = vizType
  <2>1. tab[t].page \in 0 .. 2
    BY DEF SessionInv, SessionType, Pages
  <2>2. CASE GoHome(t)
    <3>1. NewPage(t, Index, 0) /\ tab' = [tab EXCEPT ![t] = Fresh(Index, 0)]
      BY <2>2 DEF GoHome, NewPage, server
    <3>2. requests' = requests /\ vizType' = vizType
      BY <2>2 DEF GoHome, server
    <3>3. Index \in 0 .. 2
      BY DEF Index
    <3> QED  BY <3>1, <3>2, <3>3
  <2>3. CASE Reload(t)
    <3>1. /\ tab' = [tab EXCEPT ![t] = Fresh(tab[t].page, visits + 1)]
          /\ NewPage(t, tab[t].page, visits + 1)
      BY <2>3 DEF Reload, Shows, NewPage, server
    <3>2. requests' = requests /\ vizType' = vizType
      BY <2>3 DEF Reload, server
    <3> QED  BY <2>1, <3>1, <3>2
  <2> QED  BY <2>2, <2>3
<1>1b. PICK k \in 0 .. 2 : \E v :
        /\ NewPage(t, k, v) /\ k \in {Index, tab[t].page}
        /\ tab' = [tab EXCEPT ![t] = Fresh(k, v)]
        /\ requests' = requests /\ vizType' = vizType
  BY <1>1a
<1>1. PICK v :
        /\ NewPage(t, k, v) /\ k \in {Index, tab[t].page}
        /\ tab' = [tab EXCEPT ![t] = Fresh(k, v)]
        /\ requests' = requests /\ vizType' = vizType
  BY <1>1b
<1>2. requests' \in [Tabs -> RequestBags] /\ \A u \in Tabs : Pending(u)' = Pending(u)
  BY <1>1 DEF SessionInv, SessionType, Pending
<1>3. /\ SessionType' /\ VisitsApart' /\ AskedFor' /\ FormsKnow' /\ AxesKnown'
      /\ FormsFit'
  BY <1>1, <1>2, NewPageKeeps
<1>4. \A u \in Tabs : tab'[u].page \in {Index, tab[u].page}
  BY <1>1 DEF SessionInv, SessionType, Fresh
<1>5. KindsAgree'
  <2>1. \A u \in Tabs : KindsOf(u)' \subseteq KindsOf(u)
    BY <1>2, <1>4 DEF KindsOf
  <2> QED  BY <2>1, KindsStayAgreed DEF SessionInv
<1>6. AtKind'
  <2>1. tab'[t].asked = "no" /\ \A u \in Tabs \ {t} : tab'[u] = tab[u]
    BY <1>1 DEF SessionInv, SessionType, Fresh
  <2> QED  BY <1>1, <1>2, <1>4, <2>1 DEF SessionInv, AtKind
<1> QED  BY <1>3, <1>5, <1>6 DEF SessionInv

-----------------------------------------------------------------------------
(* A form changes on its page, and may send a request of its page's kind.  *)

LEMMA FormKeeps ==
  ASSUME SessionInv, NEW t \in Tabs, NEW q \in Pages,
         tab' = [tab EXCEPT ![t] = q], UNCHANGED << server, jobs, visits >>,
         q.page = tab[t].page, q.visit = tab[t].visit, FormOK(q),
         replies' \in [Tabs -> SUBSET Replies], replies'[t] \subseteq replies[t],
         \A u \in Tabs \ {t} : replies'[u] = replies[u],
         \/ requests' = requests
         \/ \E r \in Requests :
              /\ requests' = [requests EXCEPT ![t] = @ (+) SetToBag({r})]
              /\ q.page # Index /\ r.kind = q.page
              /\ OfPage(t, r) /\ AxesKnowable(r),
         q.asked # "no", vizType = q.page,
         q.asked = "data" => FormUnderWay(t)',
         q.asked # "threw"
  PROVE  SessionInv'
<1>1. /\ SessionType /\ VisitsApart /\ AskedFor /\ AtKind /\ FormsKnow /\ FormsFit
      /\ tab \in [Tabs -> Pages] /\ requests \in [Tabs -> RequestBags]
      /\ UNCHANGED << vizType, maps, axes >>
  BY DEF SessionInv, SessionType, server
<1>2. /\ tab'[t] = q
      /\ \A u \in Tabs \ {t} : tab'[u] = tab[u]
      /\ \A u \in Tabs : tab'[u].page = tab[u].page /\ tab'[u].visit = tab[u].visit
  BY <1>1
<1> DEFINE OfItsPage(r) == q.page # Index /\ r.kind = q.page /\ OfPage(t, r) /\ AxesKnowable(r)
<1>3. /\ requests' \in [Tabs -> RequestBags]
      /\ \A u \in Tabs \ {t} : requests'[u] = requests[u] /\ Pending(u)' = Pending(u)
      /\ Pending(t) \subseteq Pending(t)'
      /\ \A r \in Pending(t)' : r \in Pending(t) \/ OfItsPage(r)
  <2>2. CASE requests' = requests
    BY <1>1, <2>2 DEF Pending
  <2>3. CASE requests' # requests
    <3>0. PICK r \in Requests : /\ requests' = [requests EXCEPT ![t] = @ (+) SetToBag({r})]
                                /\ OfItsPage(r)
      BY <2>3
    <3>1. /\ requests'[t] = requests[t] (+) SetToBag({r})
          /\ requests[t] (+) SetToBag({r}) \in RequestBags
          /\ DOMAIN (requests[t] (+) SetToBag({r})) = DOMAIN requests[t] \cup {r}
      BY <1>1, <3>0, SentFacts
    <3>2. Pending(t)' = Pending(t) \cup {r}
      BY <3>1 DEF Pending
    <3>5. requests' \in [Tabs -> RequestBags]
      BY <1>1, <3>0, <3>1
    <3>6. \A u \in Tabs \ {t} : requests'[u] = requests[u] /\ Pending(u)' = Pending(u)
      BY <1>1, <3>0 DEF Pending
    <3> QED  BY <3>0, <3>2, <3>5, <3>6
  <2> QED  BY <2>2, <2>3
<1>11. ASSUME NEW u \in Tabs, NEW r \in Pending(u)' PROVE OfPage(u, r) /\ AxesKnowable(r)
  <2>1. CASE r \in Pending(u)
    BY <1>1, <2>1 DEF VisitsApart, FormsKnow
  <2>2. CASE r \notin Pending(u)
    <3>1. u = t
      BY <1>3, <2>2
    <3> QED  BY <1>3, <1>11, <2>2, <3>1
  <2> QED  BY <2>1, <2>2
<1> HIDE DEF OfItsPage
<1>4. SessionType'
  BY <1>1, <1>3 DEF SessionType
<1>5. VisitsApart'
  <2>1. ASSUME NEW u \in Tabs, NEW r \in Pending(u)' PROVE OfPage(u, r)'
    <3>1. OfPage(u, r)
      BY <1>11
    <3> QED  BY <1>1, <1>2, <3>1 DEF OfPage
  <2>2. \A u \in Tabs : tab'[u].page = Index => replies'[u] = {}
    BY <1>1, <1>2 DEF VisitsApart
  <2> QED  BY <1>1, <1>2, <2>1, <2>2 DEF VisitsApart
<1>6. KindsAgree'
  <2>1. \A u \in Tabs : KindsOf(u)' \subseteq KindsOf(u)
    BY <1>2, <1>3 DEF KindsOf, OfItsPage
  <2> QED  BY <2>1, KindsStayAgreed DEF SessionInv
<1>7. AtKind' /\ AskedFor'
  <2>1. AtKind'
    BY <1>1, <1>2, <1>3 DEF AtKind, OfItsPage
  <2>2. ASSUME NEW u \in Tabs \ {t}
        PROVE  /\ replies'[u] # {} => tab'[u].asked # "no"
               /\ \A r \in Pending(u)' :
                    r.op \in {"getViz", "load"} /\ r.visit = tab'[u].visit
                      => tab'[u].asked # "no"
               /\ \A j \in jobs' : j.visit = tab'[u].visit => tab'[u].asked # "no"
    BY <1>1, <1>2, <1>3 DEF AskedFor
  <2> QED  BY <1>2, <2>1, <2>2 DEF AskedFor
<1>8. FormsKnow'
  <2>1. ASSUME NEW u \in Tabs PROVE FormOK(tab[u])'
    <3>1. FormOK(tab'[u])
      BY <1>1, <1>2 DEF FormsKnow
    <3> QED  BY <1>1, <3>1 DEF FormOK
  <2>2. ASSUME NEW u \in Tabs, NEW a \in replies'[u], a.op = "load"
        PROVE  a.kind = tab'[u].page /\ maps'[a.kind] = AllNames
    <3>1. a \in replies[u]
      BY <2>2
    <3> QED  BY <1>1, <1>2, <2>2, <3>1 DEF FormsKnow
  <2>3. ASSUME NEW u \in Tabs, NEW r \in Pending(u)' PROVE AxesKnowable(r)'
    <3>1. AxesKnowable(r)
      BY <1>11
    <3> QED  BY <1>1, <3>1 DEF AxesKnowable
  <2> QED  BY <2>1, <2>2, <2>3 DEF FormsKnow
<1>9. AxesKnown'
  BY <1>1 DEF SessionInv, AxesKnown
<1>10. FormsFit'
  <2>1. ASSUME NEW u \in Tabs \ {t}, FormUnderWay(u) PROVE FormUnderWay(u)'
    BY <1>2, <1>3, <2>1, StaysUnderWay
  <2> QED  BY <1>1, <1>2, <2>1 DEF FormsFit
<1> QED  BY <1>4, <1>5, <1>6, <1>7, <1>8, <1>9, <1>10 DEF SessionInv

LEMMA PickKeeps ==
  ASSUME SessionInv, Waits, NEW t \in Tabs, PickDataset(t) PROVE SessionInv'
<1> DEFINE q == [tab[t] EXCEPT !.asked = "viz"]
           r == [op |-> "getViz", kind |-> tab[t].page, visit |-> tab[t].visit, info |-> << >>]
<1>1. /\ tab \in [Tabs -> Pages] /\ requests \in [Tabs -> RequestBags]
      /\ replies \in [Tabs -> SUBSET Replies]
      /\ VisitsApart /\ FormsKnow /\ AtKind
  BY DEF SessionInv, SessionType
<1>2. /\ tab[t].page # Index /\ tab' = [tab EXCEPT ![t] = q]
      /\ requests' = [requests EXCEPT ![t] = @ (+) SetToBag({r})]
      /\ UNCHANGED << server, jobs, replies, visits >>
      /\ requests[t] = EmptyBag /\ tab[t].asked = "no" /\ ~tab[t].done
  BY DEF PickDataset, Send, Served, SessionInv, FormsKnow, FormOK
<1>3. /\ q \in Pages /\ q.page = tab[t].page /\ q.visit = tab[t].visit /\ q.asked = "viz"
      /\ q.done = tab[t].done /\ q.chosen = tab[t].chosen
  BY <1>1 DEF Pages
<1>4. /\ r \in Requests /\ r.op = "getViz" /\ r.kind = tab[t].page /\ r.visit = tab[t].visit
  BY <1>1, <1>2 DEF Pages, Requests, Kinds, Infos, Index
<1> HIDE DEF q, r
<1>5. FormOK(q)
  BY <1>1, <1>2, <1>3 DEF FormsKnow, FormOK
<1>6. OfPage(t, r) /\ AxesKnowable(r)
  <2>1. tab[t].visit \in Nat /\ tab[t].visit # 0 /\ tab[t].visit <= visits
    BY <1>1, <1>2 DEF VisitsApart, Pages
  <2>2. \A u \in Tabs : tab[u].visit = tab[t].visit => u = t
    BY <1>1, <2>1 DEF VisitsApart
  <2> QED  BY <1>4, <2>1, <2>2 DEF OfPage, AxesKnowable
<1>7. vizType = tab[t].page
  BY <1>1, <1>2 DEF AtKind, Pending, EmptyBag, SetToBag
<1> QED  BY <1>1, <1>2, <1>3, <1>4, <1>5, <1>6, <1>7, FormKeeps

(* What a list offers has a name; a form is ready when all its fields do.  *)
LEMMA ChooseKeeps ==
  ASSUME SessionInv, NEW t \in Tabs, Choose(t) PROVE SessionInv'
<1>1. /\ tab \in [Tabs -> Pages] /\ replies \in [Tabs -> SUBSET Replies]
      /\ FormOK(tab[t]) /\ tab[t] \in Pages
      /\ tab[t].asked # "no" => vizType = tab[t].page
  BY DEF SessionInv, SessionType, FormsKnow, AtKind
<1>2. PICK f \in Fields(tab[t].page) : \E n \in Options(tab[t], f) :
             tab' = [tab EXCEPT ![t] = Chosen(@, f, n)]
  BY DEF Choose
<1>3. PICK n \in Options(tab[t], f) : tab' = [tab EXCEPT ![t] = Chosen(@, f, n)]
  BY <1>2
<1>4. /\ tab[t].asked = "filled" /\ UNCHANGED << server, jobs, requests, replies, visits >>
  BY DEF Choose
<1> DEFINE p == tab[t]
           c == [p.chosen EXCEPT ![f] = n]
           q == Chosen(p, f, n)
<1>5. p.page \in Kinds /\ maps[p.page] = AllNames /\ p.chosen \in [Fields(p.page) -> Named]
  BY <1>1, <1>4 DEF FormOK, Pages, Kinds, Index
<1>6. n \in AllNames
  <2>1. Dims[1] \subseteq AllNames /\ Dims[2] \subseteq AllNames /\ Measures \subseteq AllNames
    <3>1. \A k \in Kinds : Dims[k] \subseteq UNION {Dims[l] : l \in Kinds}
      OBVIOUS
    <3>2. \A k \in Kinds : Dims[k] \subseteq AllNames
      BY <3>1 DEF AllNames
    <3>3. 1 \in Kinds /\ 2 \in Kinds
      BY DEF Kinds
    <3>4. Measures \subseteq AllNames
      BY DEF AllNames
    <3> QED  BY <3>2, <3>3, <3>4
  <2>2. CASE f = "x"
    <3>1. Options(p, f) = Dims[p.page]
      BY <2>2 DEF Options, XList
    <3> QED  BY <1>3, <1>5, <2>1, <3>1 DEF Kinds
  <2>3. CASE f = "y"
    <3>1. Options(p, f) = IF p.page = 2 THEN Dims[2] \ {p.chosen["x"]} ELSE Measures
      BY <2>3 DEF Options, YList
    <3> QED  BY <1>3, <2>1, <3>1
  <2>4. CASE f # "x" /\ f # "y"
    <3>1. Options(p, f) = Measures
      BY <2>4 DEF Options, MeasList
    <3> QED  BY <1>3, <2>1, <3>1
  <2> QED  BY <2>2, <2>3, <2>4
<1>7. c \in [Fields(p.page) -> Named]
  BY <1>2, <1>5, <1>6 DEF Named
<1>8. c \in FormStates
  BY <1>5, <1>7 DEF FormStates, Kinds
<1>9. /\ q \in Pages /\ q.page = p.page /\ q.visit = p.visit /\ q.asked = "filled"
      /\ q.chosen = c
      /\ q.done <=> p.done \/ \A g \in Fields(p.page) : c[g] # Nothing
  BY <1>1, <1>4, <1>8 DEF Chosen, Pages
<1> HIDE DEF q
<1>10. FormOK(q)
  <2>1. ASSUME q.done PROVE c \in [Fields(p.page) -> AllNames]
    <3>1. CASE p.done
      BY <1>1, <1>6, <3>1 DEF FormOK
    <3>2. CASE \A g \in Fields(p.page) : c[g] # Nothing
      BY <1>7, <3>2 DEF Named
    <3> QED  BY <1>9, <2>1, <3>1, <3>2
  <2> QED  BY <1>5, <1>7, <1>9, <2>1 DEF FormOK, Kinds, Index
<1>11. tab' = [tab EXCEPT ![t] = q]
  BY <1>3 DEF q
<1> QED  BY <1>1, <1>4, <1>9, <1>10, <1>11, FormKeeps

(* Visualize asks for attributes that the engine of its kind knows.        *)
LEMMA VisualizeKeeps ==
  ASSUME SessionInv, NEW t \in Tabs, Visualize(t) PROVE SessionInv'
<1> DEFINE p == tab[t]
           r == [op |-> "axes", kind |-> p.page, visit |-> 0, info |-> AxesInfo(p)]
<1>1. /\ tab \in [Tabs -> Pages] /\ requests \in [Tabs -> RequestBags]
      /\ replies \in [Tabs -> SUBSET Replies]
      /\ FormOK(p) /\ p \in Pages /\ FormsFit
      /\ p.asked # "no" => vizType = p.page
  BY DEF SessionInv, SessionType, FormsKnow, AtKind
<1>2. /\ p.done /\ UNCHANGED << server, jobs, tab, replies, visits >>
      /\ requests' = [requests EXCEPT ![t] = @ (+) SetToBag({r})]
  BY DEF Visualize, Send
<1>3. /\ p.page \in Kinds /\ p.page # Index /\ maps[p.page] = AllNames
      /\ p.chosen \in [Fields(p.page) -> AllNames]
      /\ p.asked # "no" /\ vizType = p.page
  BY <1>1, <1>2 DEF FormOK, Pages, Kinds, Index
<1>4. AxesInfo(p) \in [Keys(p.page) -> AllNames]
  BY <1>3 DEF AxesInfo, Keys, Fields, Kinds
<1>5. AxesInfo(p) \in Infos
  BY <1>3, <1>4 DEF Infos, Kinds, Named
<1>6. /\ r \in Requests /\ r.op = "axes" /\ r.kind = p.page /\ r.info = AxesInfo(p)
  BY <1>3, <1>5 DEF Requests
<1>7. OfPage(t, r) /\ AxesKnowable(r)
  BY <1>3, <1>4, <1>6 DEF OfPage, AxesKnowable
<1> HIDE DEF r
<1>8. Pending(t) \subseteq Pending(t)'
  <2>1. requests'[t] = requests[t] (+) SetToBag({r})
    BY <1>1, <1>2
  <2>2. requests[t] \in RequestBags /\ r \in Requests
    BY <1>1, <1>6
  <2>3. DOMAIN (requests[t] (+) SetToBag({r})) = DOMAIN requests[t] \cup {r}
    BY <2>2, SentFacts
  <2> QED  BY <2>1, <2>3 DEF Pending
<1>9. FormUnderWay(t) => FormUnderWay(t)'
  BY <1>2, <1>8, StaysUnderWay
<1>10. tab' = [tab EXCEPT ![t] = p]
  BY <1>1, <1>2
<1>11. p.asked = "data" => FormUnderWay(t)'
  BY <1>1, <1>9 DEF FormsFit
<1>13. p.asked # "threw"
  BY <1>1 DEF FormsFit
<1> HIDE DEF p
<1>12. p.page = tab[t].page /\ p.visit = tab[t].visit /\ replies'[t] \subseteq replies[t]
  BY <1>2 DEF p
<1> QED  BY <1>1, <1>2, <1>3, <1>6, <1>7, <1>10, <1>11, <1>12, <1>13, FormKeeps

(* The treatment has come: the form is emptied and its names asked for.    *)
LEMMA TakeVizKeeps ==
  ASSUME SessionInv, NEW t \in Tabs, NEW a \in replies[t], TakeViz(t, a),
         replies' = [replies EXCEPT ![t] = @ \ {a}], UNCHANGED << server, jobs, visits >>
  PROVE  SessionInv'
<1> DEFINE p == tab[t]
           q == Emptied(p)
           r == [op |-> "load", kind |-> p.page, visit |-> p.visit, info |-> << >>]
<1>1. /\ tab \in [Tabs -> Pages] /\ requests \in [Tabs -> RequestBags]
      /\ replies \in [Tabs -> SUBSET Replies]
      /\ FormOK(p) /\ p \in Pages /\ VisitsApart /\ vizType = p.page
  BY DEF SessionInv, SessionType, FormsKnow, AskedFor, AtKind
<1>2. /\ tab' = [tab EXCEPT ![t] = q]
      /\ requests' = [requests EXCEPT ![t] = @ (+) SetToBag({r})]
  BY DEF TakeViz, Send
<1>3. p.page # Index /\ p.page \in Kinds
  BY <1>1 DEF VisitsApart, Pages, Kinds, Index
<1> DEFINE c == [f \in DOMAIN p.chosen |-> IF f = "measure" THEN p.chosen[f] ELSE Nothing]
<1>4. c \in [Fields(p.page) -> Named] /\ c \in FormStates
  <2>1. c \in [Fields(p.page) -> Named]
    BY <1>1 DEF FormOK, Named
  <2> QED  BY <1>3, <2>1 DEF FormStates, Kinds
<1>5. q = [p EXCEPT !.asked = "data", !.done = FALSE, !.chosen = c]
  BY DEF Emptied
<1> HIDE DEF c, q
<1>6. /\ q \in Pages /\ q.page = p.page /\ q.visit = p.visit /\ q.asked = "data"
      /\ q.done = FALSE /\ q.chosen = c
  BY <1>1, <1>4, <1>5 DEF Pages
<1>7. FormOK(q)
  BY <1>3, <1>4, <1>6 DEF FormOK
<1>8. /\ r \in Requests /\ r.op = "load" /\ r.kind = p.page /\ r.visit = p.visit
  BY <1>1, <1>3 DEF Pages, Requests, Infos
<1> HIDE DEF r
<1>9. OfPage(t, r) /\ AxesKnowable(r)
  <2>1. p.visit \in Nat /\ p.visit # 0 /\ p.visit <= visits
    BY <1>1, <1>3 DEF VisitsApart, Pages
  <2>2. \A u \in Tabs : tab[u].visit = p.visit => u = t
    BY <1>1, <2>1 DEF VisitsApart
  <2> QED  BY <1>8, <2>1, <2>2 DEF OfPage, AxesKnowable
<1>10. FormUnderWay(t)'
  <2>1. requests'[t] = requests[t] (+) SetToBag({r}) /\ tab'[t] = q
    BY <1>1, <1>2
  <2>2. r \in DOMAIN requests'[t]
    <3>1. requests[t] \in RequestBags /\ r \in Requests
      BY <1>1, <1>8
    <3>2. DOMAIN (requests[t] (+) SetToBag({r})) = DOMAIN requests[t] \cup {r}
      BY <3>1, SentFacts
    <3> QED  BY <2>1, <3>2
  <2> QED  BY <1>6, <1>8, <2>1, <2>2 DEF FormUnderWay, BagToSet
<1>11. /\ replies' \in [Tabs -> SUBSET Replies] /\ replies'[t] \subseteq replies[t]
       /\ \A u \in Tabs \ {t} : replies'[u] = replies[u]
  BY <1>1
<1> HIDE DEF p
<1>12. q.page = tab[t].page /\ q.visit = tab[t].visit /\ r.kind = q.page /\ q.page # Index
  BY <1>3, <1>6, <1>8 DEF p
<1> QED  BY <1>1, <1>2, <1>6, <1>7, <1>8, <1>9, <1>10, <1>11, <1>12, FormKeeps

(* The names have come, in an answer of the page's kind.                   *)
LEMMA TakeDataKeeps ==
  ASSUME SessionInv, NEW t \in Tabs, NEW a \in replies[t], TakeData(t, a),
         replies' = [replies EXCEPT ![t] = @ \ {a}], UNCHANGED << server, jobs, visits >>
  PROVE  SessionInv'
<1> DEFINE p == tab[t]
           q == Filled(p, a.kind)
<1>1. /\ tab \in [Tabs -> Pages] /\ replies \in [Tabs -> SUBSET Replies]
      /\ FormOK(p) /\ p \in Pages /\ VisitsApart /\ vizType = p.page
      /\ a.kind = p.page /\ maps[p.page] = AllNames
  BY DEF SessionInv, SessionType, FormsKnow, AskedFor, AtKind, TakeData
<1>2. tab' = [tab EXCEPT ![t] = q] /\ requests' = requests
  BY DEF TakeData
<1>3. p.page # Index
  BY <1>1 DEF VisitsApart
<1>4. /\ q \in Pages /\ q.page = p.page /\ q.visit = p.visit /\ q.asked = "filled"
      /\ q.done = p.done /\ q.chosen = p.chosen
  BY <1>1 DEF Pages, Filled
<1> HIDE DEF q
<1>5. FormOK(q)
  BY <1>1, <1>3, <1>4 DEF FormOK
<1>6. /\ replies' \in [Tabs -> SUBSET Replies] /\ replies'[t] \subseteq replies[t]
      /\ \A u \in Tabs \ {t} : replies'[u] = replies[u]
  BY <1>1
<1> HIDE DEF p
<1>7. q.page = tab[t].page /\ q.visit = tab[t].visit
  BY <1>4 DEF p
<1>8. vizType = q.page
  BY <1>1, <1>4 DEF p
<1> QED  BY <1>2, <1>4, <1>5, <1>6, <1>7, <1>8, FormKeeps

LEMMA TakeKeeps ==
  ASSUME SessionInv, NEW t \in Tabs, Take(t) PROVE SessionInv'
<1>1. PICK a \in replies[t] : /\ TakeViz(t, a) \/ TakeData(t, a)
                              /\ replies' = [replies EXCEPT ![t] = @ \ {a}]
  BY DEF Take
<1>2. UNCHANGED << server, jobs, visits >>
  BY DEF Take
<1> QED  BY <1>1, <1>2, TakeVizKeeps, TakeDataKeeps

-----------------------------------------------------------------------------
(* The server takes one of a tab's requests.  It is at the request's kind: *)
(* a /setViz puts it there, the others find it there.                      *)

LEMMA ServeKeeps ==
  ASSUME SessionInv, NEW t \in Tabs, NEW r \in BagToSet(requests[t]),
         requests' = [requests EXCEPT ![t] = @ (-) SetToBag({r})],
         UNCHANGED << tab, visits >>,
         vizType' = IF r.op = "setViz" THEN r.kind ELSE vizType,
         maps' \in [Kinds -> SUBSET AllNames],
         \A e \in Kinds : maps[e] = AllNames => maps'[e] = AllNames,
         axes' \in [Kinds -> Infos], AxesKnown',
         jobs' \subseteq Jobs,
         \A j \in jobs' : j \in jobs \/ (j.tab = t /\ j.visit = r.visit /\ r.op = "getViz"),
         replies' \in [Tabs -> SUBSET Replies],
         \A u \in Tabs \ {t} : replies'[u] = replies[u],
         replies[t] \subseteq replies'[t],
         \A a \in replies'[t] : a \in replies[t]
           \/ (/\ a.op = "load" /\ r.op = "load" /\ r.visit = tab[t].visit
               /\ a.kind = r.kind /\ maps'[r.kind] = AllNames),
         jobs \subseteq jobs',
         r.op = "load" /\ r.visit = tab[t].visit => FormUnderWay(t)'
  PROVE  SessionInv'
<1>1. /\ SessionType /\ VisitsApart /\ FormsKnow /\ FormsFit /\ AtKind
      /\ KindsAgree /\ AskedFor
      /\ tab \in [Tabs -> Pages] /\ requests \in [Tabs -> RequestBags]
  BY DEF SessionInv, SessionType
<1>2. r \in DOMAIN requests[t]
  BY DEF BagToSet
<1>3. /\ requests' \in [Tabs -> RequestBags]
      /\ \A u \in Tabs \ {t} : requests'[u] = requests[u]
      /\ Pending(t)' \subseteq Pending(t) /\ Pending(t) \subseteq {r} \cup Pending(t)'
      /\ \A u \in Tabs \ {t} : Pending(u)' = Pending(u)
  <2>1. /\ requests[t] (-) SetToBag({r}) \in RequestBags
        /\ DOMAIN (requests[t] (-) SetToBag({r})) \subseteq DOMAIN requests[t]
        /\ DOMAIN requests[t] \subseteq DOMAIN (requests[t] (-) SetToBag({r})) \cup {r}
    BY <1>1, <1>2, TakenFacts
  <2>2. requests'[t] = requests[t] (-) SetToBag({r})
    BY <1>1
  <2>3. \A u \in Tabs \ {t} : requests'[u] = requests[u]
    BY <1>1
  <2>4. requests' \in [Tabs -> RequestBags]
    BY <1>1, <2>1
  <2> QED  BY <2>1, <2>2, <2>3, <2>4 DEF Pending
<1>4. /\ r \in Pending(t) /\ \A u \in Tabs : Pending(u)' \subseteq Pending(u)
      /\ r \in Requests
  BY <1>1, <1>2, <1>3, PendingType DEF Pending
<1>5. OfPage(t, r) /\ r.kind \in Kinds
  BY <1>1, <1>4 DEF VisitsApart, Requests
<1>6. vizType' = r.kind
  BY <1>1, <1>4 DEF AtKind
<1>7. SessionType'
  BY <1>1, <1>3, <1>5, <1>6 DEF SessionType, Kinds
<1>8. VisitsApart'
  <2>1. ASSUME NEW u \in Tabs, tab[u].page = Index PROVE replies'[u] = {}
    <3>1. replies[u] = {} /\ tab[u].visit = 0
      BY <1>1, <2>1 DEF VisitsApart
    <3>2. r.op = "load" => 0 < r.visit
      BY <1>5 DEF OfPage
    <3> QED  BY <3>1, <3>2
  <2>2. ASSUME NEW u \in Tabs, NEW s \in Pending(u)' PROVE OfPage(u, s)'
    <3>1. OfPage(u, s)
      BY <1>1, <1>4 DEF VisitsApart
    <3> QED  BY <3>1 DEF OfPage
  <2>3. ASSUME NEW j \in jobs'
        PROVE  /\ 0 < j.visit /\ j.visit <= visits
               /\ \A u \in Tabs : tab[u].visit = j.visit => u = j.tab
    <3>1. CASE j \in jobs
      BY <1>1, <3>1 DEF VisitsApart
    <3>2. CASE j.tab = t /\ j.visit = r.visit /\ r.op = "getViz"
      BY <1>5, <3>2 DEF OfPage
    <3> QED  BY <3>1, <3>2
  <2> QED  BY <1>1, <2>1, <2>2, <2>3 DEF VisitsApart
<1>9. KindsAgree'
  <2>1. \A u \in Tabs : KindsOf(u)' \subseteq KindsOf(u)
    BY <1>4 DEF KindsOf
  <2> QED  BY <1>1, <2>1, KindsStayAgreed
<1>10. AtKind' /\ AskedFor'
  <2>1. \A u \in Tabs : \A k \in KindsOf(u) : k = r.kind
    <3>1. r.kind \in KindsOf(t)
      BY <1>4 DEF KindsOf
    <3> QED  BY <1>1, <3>1 DEF KindsAgree
  <2>2. ASSUME NEW u \in Tabs
        PROVE  /\ \A s \in Pending(u)' : s.kind = vizType'
               /\ tab[u].page # Index => vizType' = tab[u].page
    BY <1>4, <1>6, <2>1 DEF KindsOf
  <2>3. \A u \in Tabs : tab[u].page = Index => tab[u].asked = "no"
    BY <1>1 DEF FormsKnow, FormOK
  <2>4. AtKind'
    BY <2>2, <2>3 DEF AtKind
  <2>5. ASSUME NEW u \in Tabs
        PROVE  /\ replies'[u] # {} => tab[u].asked # "no"
               /\ \A s \in Pending(u)' :
                    s.op \in {"getViz", "load"} /\ s.visit = tab[u].visit => tab[u].asked # "no"
               /\ \A j \in jobs' : j.visit = tab[u].visit => tab[u].asked # "no"
    <3>1. r.op \in {"getViz", "load"} /\ r.visit = tab[t].visit => tab[t].asked # "no"
      BY <1>1, <1>4 DEF AskedFor
    <3>2. r.op \in {"getViz", "load"} /\ r.visit = tab[u].visit => u = t
      BY <1>5 DEF OfPage
    <3>3. replies'[u] # {} => tab[u].asked # "no"
      <4>1. CASE replies[u] # {}
        BY <1>1, <4>1 DEF AskedFor
      <4>2. CASE replies[u] = {} /\ replies'[u] # {}
        <5>1. u = t
          BY <4>2
        <5> QED  BY <3>1, <4>2, <5>1
      <4> QED  BY <4>1, <4>2
    <3>4. ASSUME NEW j \in jobs', j.visit = tab[u].visit PROVE tab[u].asked # "no"
      BY <1>1, <3>1, <3>2, <3>4 DEF AskedFor
    <3> QED  BY <1>1, <1>4, <3>3, <3>4 DEF AskedFor
  <2> QED  BY <2>4, <2>5 DEF AskedFor
<1>11. FormsKnow'
  <2>1. ASSUME NEW u \in Tabs PROVE FormOK(tab[u])'
    <3>1. FormOK(tab[u]) /\ tab[u] \in Pages
      BY <1>1 DEF FormsKnow
    <3>2. tab[u].page # Index => tab[u].page \in Kinds
      BY <3>1 DEF Pages, Index, Kinds
    <3>3. tab[u].page = Index => tab[u].asked # "filled" /\ ~tab[u].done
      BY <3>1 DEF FormOK
    <3> QED  BY <3>1, <3>2, <3>3 DEF FormOK
  <2>2. ASSUME NEW u \in Tabs, NEW a \in replies'[u], a.op = "load"
        PROVE  a.kind = tab[u].page /\ maps'[a.kind] = AllNames
    <3>1. CASE a \in replies[u]
      <4>1. a.kind = tab[u].page /\ maps[a.kind] = AllNames
        BY <1>1, <2>2, <3>1 DEF FormsKnow
      <4>2. a.kind \in Kinds
        BY <2>2 DEF Replies
      <4> QED  BY <4>1, <4>2
    <3>2. CASE a \notin replies[u]
      <4>1. u = t
        BY <3>2
      <4>2. r.op = "load" /\ r.visit = tab[t].visit /\ a.kind = r.kind /\ maps'[r.kind] = AllNames
        BY <3>2, <4>1
      <4>3. r.kind = tab[t].page
        BY <1>5, <4>2 DEF OfPage
      <4> QED  BY <4>1, <4>2, <4>3
    <3> QED  BY <3>1, <3>2
  <2>3. ASSUME NEW u \in Tabs, NEW s \in Pending(u)' PROVE AxesKnowable(s)'
    <3>1. AxesKnowable(s) /\ s.kind \in Kinds
      BY <1>1, <1>4, PendingType DEF FormsKnow, Requests
    <3> QED  BY <3>1 DEF AxesKnowable
  <2> QED  BY <2>1, <2>2, <2>3 DEF FormsKnow
<1>12. FormsFit'
  <2>1. ASSUME NEW u \in Tabs, FormUnderWay(u)
        PROVE  FormUnderWay(u)'
    <3>1. CASE u = t /\ r.op = "load" /\ r.visit = tab[t].visit
      BY <3>1
    <3>2. CASE ~(u = t /\ r.op = "load" /\ r.visit = tab[t].visit)
      <4>1. \A s \in Pending(u) : s.op = "load" /\ s.visit = tab[u].visit => s \in Pending(u)'
        BY <1>3, <3>2
      <4>2. \A a \in replies[u] : a.op = "load" => a \in replies'[u]
        OBVIOUS
      <4> QED  BY <2>1, <4>1, <4>2, StaysUnderWay
    <3> QED  BY <3>1, <3>2
  <2> QED  BY <1>1, <2>1 DEF FormsFit
<1> QED  BY <1>7, <1>8, <1>9, <1>10, <1>11, <1>12 DEF SessionInv

LEMMA ServedAtItsKind ==
  ASSUME SessionInv, NEW t \in Tabs, NEW r \in BagToSet(requests[t])
  PROVE  /\ r \in Requests /\ r \in Pending(t) /\ OfPage(t, r) /\ AxesKnowable(r)
         /\ r.op # "setViz" => vizType = r.kind
         /\ Engine(r.kind) = r.kind /\ r.kind \in Kinds
<1>1. r \in Pending(t) /\ r \in Requests
  BY PendingType DEF BagToSet, Pending, SessionInv
<1>2. OfPage(t, r) /\ AxesKnowable(r)
  BY <1>1 DEF SessionInv, VisitsApart, FormsKnow
<1>3. r.op # "setViz" => vizType = r.kind
  BY <1>1 DEF SessionInv, AtKind
<1>4. Engine(r.kind) = r.kind /\ r.kind \in Kinds
  BY <1>1 DEF Requests, Kinds, Engine
<1> QED  BY <1>1, <1>2, <1>3, <1>4

LEMMA ServingKeeps ==
  ASSUME SessionInv, NEW t \in Tabs, Serve(t) PROVE SessionInv'
<1>0. PICK r \in BagToSet(requests[t]) :
        /\ SetViz(t, r) \/ GetViz(t, r) \/ LoadDataset(t, r) \/ LoadAxes(t, r)
        /\ requests' = [requests EXCEPT ![t] = @ (-) SetToBag({r})]
  BY DEF Serve
<1>1. /\ SetViz(t, r) \/ GetViz(t, r) \/ LoadDataset(t, r) \/ LoadAxes(t, r)
      /\ UNCHANGED << tab, visits >>
  BY <1>0 DEF Serve
<1>2. /\ r \in Requests /\ r \in Pending(t) /\ OfPage(t, r) /\ AxesKnowable(r)
      /\ r.op # "setViz" => vizType = r.kind
      /\ Engine(r.kind) = r.kind /\ r.kind \in Kinds
  BY ServedAtItsKind
<1>3. /\ maps \in [Kinds -> SUBSET AllNames] /\ axes \in [Kinds -> Infos]
      /\ jobs \subseteq Jobs /\ replies \in [Tabs -> SUBSET Replies]
      /\ AxesKnown /\ tab \in [Tabs -> Pages]
  BY DEF SessionInv, SessionType
<1>4. CASE SetViz(t, r)
  <2>1. r.op = "setViz" /\ vizType' = r.kind /\ UNCHANGED << maps, axes, jobs, replies >>
    BY <1>4 DEF SetViz
  <2>2. AxesKnown'
    BY <1>3, <2>1 DEF AxesKnown
  <2> QED  BY <1>3, <2>1, <2>2, <1>0, <1>1, ServeKeeps
<1>5. CASE GetViz(t, r)
  <2> DEFINE j == [tab |-> t, visit |-> r.visit,
                   kind |-> IF vizType \in 1 .. 3 THEN vizType ELSE 4,
                   step |-> "read", value |-> Empty]
  <2>1. /\ r.op = "getViz" /\ jobs' = jobs \cup {j}
        /\ UNCHANGED << vizType, maps, axes, replies >>
    BY <1>5 DEF GetViz, server
  <2>2. j \in Jobs /\ j.tab = t /\ j.visit = r.visit /\ j.step = "read"
    BY <1>2 DEF Jobs, Requests, Empty
  <2> HIDE DEF j
  <2>3. AxesKnown'
    BY <1>3, <2>1 DEF AxesKnown
  <2>5. \A i \in jobs' : i \in jobs \/ (i.tab = t /\ i.visit = r.visit /\ r.op = "getViz")
    BY <2>1, <2>2
  <2>6. jobs' \subseteq Jobs /\ jobs \subseteq jobs'
    BY <1>3, <2>1, <2>2
  <2> QED  BY <1>3, <2>1, <2>3, <2>5, <2>6, <1>0, <1>1, ServeKeeps
<1>6. CASE LoadDataset(t, r)
  <2> DEFINE a == [op |-> "load", kind |-> r.kind]
  <2>1. /\ r.op = "load" /\ maps' = [maps EXCEPT ![r.kind] = AllNames]
        /\ replies' = [replies EXCEPT ![t] = IF tab[t].visit = r.visit THEN @ \cup {a} ELSE @]
        /\ UNCHANGED << vizType, axes, jobs >>
    BY <1>2, <1>6 DEF LoadDataset, Answer
  <2>2. a \in Replies /\ a.op = "load" /\ a.kind = r.kind
    BY <1>2 DEF Replies
  <2> HIDE DEF a
  <2>3. /\ maps' \in [Kinds -> SUBSET AllNames] /\ maps'[r.kind] = AllNames
        /\ \A e \in Kinds : maps[e] = AllNames => maps'[e] = AllNames
    BY <1>2, <1>3, <2>1
  <2>4. /\ replies' \in [Tabs -> SUBSET Replies]
        /\ \A u \in Tabs \ {t} : replies'[u] = replies[u]
        /\ replies'[t] = IF tab[t].visit = r.visit THEN replies[t] \cup {a} ELSE replies[t]
    BY <1>3, <2>1, <2>2
  <2>5. AxesKnown'
    BY <1>3, <2>1 DEF AxesKnown
  <2>6. r.visit = tab[t].visit => FormUnderWay(t)'
    <3>1. r.visit = tab[t].visit => \E b \in replies'[t] : b.op = "load"
      BY <2>2, <2>4
    <3> QED  BY <3>1 DEF FormUnderWay
  <2>7. \A b \in replies'[t] : b \in replies[t]
           \/ (/\ b.op = "load" /\ r.op = "load" /\ r.visit = tab[t].visit
               /\ b.kind = r.kind /\ maps'[r.kind] = AllNames)
    BY <2>1, <2>2, <2>3, <2>4
  <2>8. replies[t] \subseteq replies'[t]
    BY <2>4
  <2> QED  BY <1>3, <2>1, <2>3, <2>4, <2>5, <2>6, <2>7, <2>8, <1>0, <1>1, ServeKeeps
<1>7. CASE LoadAxes(t, r)
  <2>1. /\ r.op = "axes" /\ axes' = [axes EXCEPT ![r.kind] = LookUp(r.kind, r.info)]
        /\ UNCHANGED << vizType, maps, jobs, replies >>
    BY <1>2, <1>7 DEF LoadAxes
  <2>2. maps[r.kind] = AllNames /\ r.info \in [Keys(r.kind) -> AllNames]
    BY <1>2, <2>1 DEF AxesKnowable
  <2>3. LookUp(r.kind, r.info) \in [Keys(r.kind) -> AllNames]
    BY <2>2 DEF LookUp
  <2>4. /\ LookUp(r.kind, r.info) \in Infos
        /\ Nothing \notin Range(LookUp(r.kind, r.info))
    <3>1. LookUp(r.kind, r.info) \in [Keys(r.kind) -> Named]
      BY <2>3 DEF Named
    <3>2. LookUp(r.kind, r.info) \in Infos
      BY <1>2, <3>1 DEF Infos, Kinds
    <3>3. Nothing \notin Range(LookUp(r.kind, r.info))
      BY <2>3, SessionAssumption DEF Range
    <3> QED  BY <3>2, <3>3
  <2>5. axes' \in [Kinds -> Infos]
    BY <1>3, <2>1, <2>4
  <2>6. AxesKnown'
    BY <1>2, <1>3, <2>1, <2>4 DEF AxesKnown
  <2> QED  BY <1>3, <2>1, <2>5, <2>6, <1>0, <1>1, ServeKeeps
<1> QED  BY <1>1, <1>4, <1>5, <1>6, <1>7

-----------------------------------------------------------------------------
(* The accesses to the files.                                              *)


(* Which accesses are left after a step of one of them.                    *)
LEMMA AccessLeaves ==
  ASSUME SessionInv, NEW j \in jobs, Access(j)
  PROVE  /\ jobs' \subseteq Jobs
         /\ \A i \in jobs' : i \in jobs \/ (i.visit = j.visit /\ i.tab = j.tab)
         /\ \A i \in jobs : i # j => i \in jobs'
<1>1. jobs \subseteq Jobs /\ j \in Jobs /\ j.value \in 0 .. 2 /\ j.kind \in 1 .. 4
  BY DEF SessionInv, SessionType, Jobs
<1>2. CASE jobs' = jobs \ {j}
  BY <1>1, <1>2
<1>3. CASE \E step \in {"cut", "write"}, value \in 0 .. 2 : Becomes(j, step, value)
  <2>1. PICK step \in {"cut", "write"}, value \in 0 .. 2 : Becomes(j, step, value)
    BY <1>3
  <2> DEFINE new == [j EXCEPT !.step = step, !.value = value]
  <2>2. new \in Jobs /\ new.visit = j.visit /\ new.tab = j.tab
    BY <1>1 DEF Jobs
  <2>3. jobs' = (jobs \ {j}) \cup {new}
    BY <2>1 DEF Becomes
  <2> HIDE DEF new
  <2> QED  BY <1>1, <2>2, <2>3
<1>4. ReadFile(j) => jobs' = jobs \ {j} \/ \E v \in 0 .. 2 : Becomes(j, "cut", v)
  <2>1. file[j.kind] \in {1, 2} => Other(file[j.kind]) \in 0 .. 2
    BY DEF Other
  <2> QED  BY <2>1 DEF ReadFile
<1>5. CutFile(j) \/ WriteFile(j) => jobs' = jobs \ {j} \/ Becomes(j, "write", j.value)
  BY DEF CutFile, WriteFile
<1> QED  BY <1>1, <1>2, <1>3, <1>4, <1>5 DEF Access

(* The page that asked is answered, or not.                                *)
LEMMA AccessTells ==
  ASSUME SessionInv, NEW j \in jobs, Access(j)
  PROVE  /\ replies' \in [Tabs -> SUBSET Replies]
         /\ \A u \in Tabs :
              /\ replies[u] \subseteq replies'[u]
              /\ \A a \in replies'[u] : a \in replies[u]
                    \/ (a.op = "getViz" /\ tab[u].visit = j.visit)
<1>1. /\ replies \in [Tabs -> SUBSET Replies] /\ j.tab \in Tabs
  BY DEF SessionInv, SessionType, Jobs
<1>2. CASE j.step = "read" /\ file[j.kind] \in {1, 2} /\ replies' # replies
  <2> DEFINE a == [op |-> "getViz", kind |-> file[j.kind]]
  <2>1. replies' = [replies EXCEPT ![j.tab] =
                      IF tab[j.tab].visit = j.visit THEN @ \cup {a} ELSE @]
    BY <1>2 DEF Access, ReadFile, CutFile, WriteFile, Answer
  <2>2. a \in Replies /\ a.op = "getViz"
    BY <1>2 DEF Replies, Kinds
  <2> HIDE DEF a
  <2>3. \A u \in Tabs :
          replies'[u] = IF u = j.tab /\ tab[u].visit = j.visit
                        THEN replies[u] \cup {a} ELSE replies[u]
    BY <1>1, <2>1
  <2>4. replies' \in [Tabs -> SUBSET Replies]
    BY <1>1, <2>1, <2>2
  <2> QED  BY <1>1, <2>2, <2>3, <2>4
<1>3. CASE replies' = replies
  BY <1>1, <1>3
<1>4. replies' = replies \/ (j.step = "read" /\ file[j.kind] \in {1, 2})
  BY DEF Access, ReadFile, CutFile, WriteFile
<1> QED  BY <1>2, <1>3, <1>4

LEMMA AccessKeeps ==
  ASSUME SessionInv, NEW j \in jobs, Access(j) PROVE SessionInv'
<1>1. /\ SessionType /\ VisitsApart /\ FormsKnow /\ FormsFit /\ AtKind
      /\ KindsAgree /\ AxesKnown /\ AskedFor
  BY DEF SessionInv
<1>2. /\ UNCHANGED << vizType, maps, axes, tab, requests, visits >>
      /\ \A u \in Tabs : Pending(u)' = Pending(u)
  BY DEF Access, server, Pending
<1>3. /\ jobs' \subseteq Jobs
      /\ \A i \in jobs' : i \in jobs \/ (i.visit = j.visit /\ i.tab = j.tab)
  BY AccessLeaves
<1>4. replies' \in [Tabs -> SUBSET Replies]
  BY AccessTells
<1>5. \A u \in Tabs :
        /\ replies[u] \subseteq replies'[u]
        /\ \A a \in replies'[u] : a \in replies[u]
              \/ (a.op = "getViz" /\ tab[u].visit = j.visit)
  BY AccessTells
<1>6. SessionType'
  BY <1>1, <1>2, <1>3, <1>4 DEF SessionType
<1>7. VisitsApart'
  <2>1. /\ 0 < j.visit
        /\ \A i \in jobs' : /\ 0 < i.visit /\ i.visit <= visits
                            /\ \A u \in Tabs : tab[u].visit = i.visit => u = i.tab
    BY <1>1, <1>3 DEF VisitsApart
  <2>2. ASSUME NEW u \in Tabs, tab[u].page = Index PROVE replies'[u] = {}
    <3>1. replies[u] = {} /\ tab[u].visit = 0
      BY <1>1, <2>2 DEF VisitsApart
    <3> QED  BY <1>5, <2>1, <3>1
  <2>3. ASSUME NEW u \in Tabs, NEW r \in Pending(u)' PROVE OfPage(u, r)'
    <3>1. OfPage(u, r)
      BY <1>1, <1>2 DEF VisitsApart
    <3> QED  BY <1>2, <3>1 DEF OfPage
  <2> QED  BY <1>1, <1>2, <2>1, <2>2, <2>3 DEF VisitsApart
<1>8. KindsAgree'
  <2>1. \A u \in Tabs : KindsOf(u)' = KindsOf(u)
    BY <1>2 DEF KindsOf
  <2> QED  BY <1>1, <2>1 DEF KindsAgree
<1>9. AtKind' /\ AskedFor'
  <2>1. AtKind'
    BY <1>1, <1>2 DEF AtKind
  <2>2. ASSUME NEW u \in Tabs, tab[u].asked = "no"
        PROVE  replies'[u] = {} /\ \A i \in jobs' : i.visit # tab[u].visit
    <3>1. replies[u] = {} /\ \A i \in jobs : i.visit # tab[u].visit
      BY <1>1, <2>2 DEF AskedFor
    <3> QED  BY <1>3, <1>5, <3>1
  <2> QED  BY <1>1, <1>2, <2>1, <2>2 DEF AskedFor
<1>10. FormsKnow'
  <2>1. ASSUME NEW u \in Tabs PROVE FormOK(tab[u])'
    BY <1>1, <1>2 DEF FormsKnow, FormOK
  <2>2. ASSUME NEW u \in Tabs, NEW a \in replies'[u], a.op = "load"
        PROVE  a.kind = tab'[u].page /\ maps'[a.kind] = AllNames
    <3>1. a \in replies[u]
      BY <1>5, <2>2
    <3> QED  BY <1>1, <1>2, <2>2, <3>1 DEF FormsKnow
  <2>3. ASSUME NEW u \in Tabs, NEW r \in Pending(u)' PROVE AxesKnowable(r)'
    BY <1>1, <1>2 DEF FormsKnow, AxesKnowable
  <2> QED  BY <2>1, <2>2, <2>3 DEF FormsKnow
<1>11. AxesKnown'
  BY <1>1, <1>2 DEF AxesKnown
<1>12. FormsFit'
  <2>1. ASSUME NEW u \in Tabs, FormUnderWay(u) PROVE FormUnderWay(u)'
    BY <1>2, <1>5, <2>1, StaysUnderWay
  <2> QED  BY <1>1, <1>2, <2>1 DEF FormsFit
<1> QED  BY <1>6, <1>7, <1>8, <1>9, <1>10, <1>11, <1>12 DEF SessionInv

-----------------------------------------------------------------------------
(* A request or its answer is lost; a page that waits for it is told.  It  *)
(* is no /setViz: without it the server stays at another kind.             *)

LEMMA LoseKeeps ==
  ASSUME SessionInv, "setViz" \notin Lost, NEW t \in Tabs, Lose(t) PROVE SessionInv'
<1> DEFINE q == [tab[t] EXCEPT !.asked = "failed"]
<1>1. /\ SessionType /\ VisitsApart /\ FormsKnow /\ FormsFit /\ AtKind
      /\ KindsAgree /\ AxesKnown /\ AskedFor
      /\ tab \in [Tabs -> Pages] /\ requests \in [Tabs -> RequestBags]
      /\ replies \in [Tabs -> SUBSET Replies]
  BY DEF SessionInv, SessionType
<1>2. UNCHANGED << vizType, maps, axes, jobs, visits >>
  BY DEF Lose, server
<1>3. /\ tab' = tab \/ (tab' = [tab EXCEPT ![t] = q] /\ tab[t].asked # "no")
      /\ requests' \in [Tabs -> RequestBags] /\ replies' \in [Tabs -> SUBSET Replies]
      /\ \A u \in Tabs \ {t} : Pending(u)' = Pending(u) /\ replies'[u] = replies[u]
      /\ Pending(t)' \subseteq Pending(t) /\ replies'[t] \subseteq replies[t]
      /\ \A r \in Pending(t) : r.op = "setViz" => r \in Pending(t)'
      /\ tab'[t].asked = "data" =>
           /\ tab' = tab /\ replies' = replies
           /\ \A r \in Pending(t) :
                r.op = "load" /\ r.visit = tab[t].visit => r \in Pending(t)'
  <2>1. CASE \E r \in BagToSet(requests[t]) :
               /\ r.op \in Lost
               /\ requests' = [requests EXCEPT ![t] = @ (-) SetToBag({r})]
               /\ IF r.op \in {"getViz", "load"} /\ r.visit = tab[t].visit
                    THEN Failed(t) ELSE UNCHANGED tab
               /\ UNCHANGED replies
    <3>1. PICK r \in BagToSet(requests[t]) :
               /\ r.op \in Lost
               /\ requests' = [requests EXCEPT ![t] = @ (-) SetToBag({r})]
               /\ IF r.op \in {"getViz", "load"} /\ r.visit = tab[t].visit
                    THEN Failed(t) ELSE UNCHANGED tab
               /\ UNCHANGED replies
      BY <2>1
    <3>2. r \in DOMAIN requests[t] /\ r.op # "setViz"
      BY <3>1 DEF BagToSet
    <3>3. /\ requests[t] (-) SetToBag({r}) \in RequestBags
          /\ DOMAIN (requests[t] (-) SetToBag({r})) \subseteq DOMAIN requests[t]
          /\ DOMAIN requests[t] \subseteq DOMAIN (requests[t] (-) SetToBag({r})) \cup {r}
      BY <1>1, <3>2, TakenFacts
    <3>4. /\ requests' \in [Tabs -> RequestBags]
          /\ requests'[t] = requests[t] (-) SetToBag({r})
          /\ \A u \in Tabs \ {t} : requests'[u] = requests[u]
      BY <1>1, <3>1, <3>3
    <3>5. /\ \A u \in Tabs \ {t} : Pending(u)' = Pending(u)
          /\ Pending(t)' \subseteq Pending(t) /\ Pending(t) \subseteq Pending(t)' \cup {r}
      BY <3>3, <3>4 DEF Pending
    <3>6. CASE r.op \in {"getViz", "load"} /\ r.visit = tab[t].visit
      <4>1. tab[t].asked # "no"
        BY <1>1, <3>2, <3>6 DEF AskedFor, Pending
      <4>2. tab' = [tab EXCEPT ![t] = q]
        BY <3>1, <3>6 DEF Failed
      <4>3. tab'[t].asked = "failed"
        BY <1>1, <3>1, <3>6 DEF Failed, Pages
      <4> QED  BY <1>1, <3>1, <3>2, <3>4, <3>5, <4>1, <4>2, <4>3
    <3>7. CASE ~(r.op \in {"getViz", "load"} /\ r.visit = tab[t].visit)
      BY <1>1, <3>1, <3>2, <3>4, <3>5, <3>7
    <3> QED  BY <3>6, <3>7
  <2>2. CASE \E a \in replies[t] :
               /\ replies' = [replies EXCEPT ![t] = @ \ {a}]
               /\ Failed(t)
               /\ UNCHANGED requests
    <3>1. tab' = [tab EXCEPT ![t] = q] /\ tab[t].asked # "no"
      BY <1>1, <2>2 DEF Failed, AskedFor
    <3>2. tab'[t].asked = "failed"
      BY <1>1, <2>2 DEF Failed, Pages
    <3>3. \A u \in Tabs : Pending(u)' = Pending(u)
      BY <2>2 DEF Pending
    <3>4. /\ replies' \in [Tabs -> SUBSET Replies] /\ replies'[t] \subseteq replies[t]
          /\ \A u \in Tabs \ {t} : replies'[u] = replies[u]
      BY <1>1, <2>2
    <3> QED  BY <1>1, <2>2, <3>1, <3>2, <3>3, <3>4
  <2> QED  BY <2>1, <2>2 DEF Lose
<1>4. /\ tab' \in [Tabs -> Pages]
      /\ \A u \in Tabs :
           /\ tab'[u].page = tab[u].page /\ tab'[u].visit = tab[u].visit
           /\ tab'[u].done = tab[u].done /\ tab'[u].chosen = tab[u].chosen
           /\ tab'[u].asked = tab[u].asked
                \/ (tab'[u].asked = "failed" /\ tab[u].asked # "no")
  <2>1. q \in Pages /\ q.page = tab[t].page /\ q.visit = tab[t].visit
        /\ q.done = tab[t].done /\ q.chosen = tab[t].chosen /\ q.asked = "failed"
    BY <1>1 DEF Pages
  <2> HIDE DEF q
  <2> QED  BY <1>1, <1>3, <2>1
<1>5. \A u \in Tabs : Pending(u)' \subseteq Pending(u) /\ replies'[u] \subseteq replies[u]
  BY <1>3
<1>6. SessionType'
  BY <1>1, <1>2, <1>3, <1>4 DEF SessionType
<1>7. VisitsApart'
  BY <1>1, <1>2, <1>4, <1>5 DEF VisitsApart, OfPage
<1>8. KindsAgree'
  <2>1. \A u \in Tabs : KindsOf(u)' \subseteq KindsOf(u)
    BY <1>4, <1>5 DEF KindsOf
  <2> QED  BY <1>1, <2>1 DEF KindsAgree
<1>9. AtKind'
  <2>1. \A u \in Tabs : \A r \in Pending(u) : r.op = "setViz" => r \in Pending(u)'
    BY <1>3
  <2> QED  BY <1>1, <1>2, <1>4, <1>5, <2>1 DEF AtKind
<1>10. AskedFor'
  <2>1. ASSUME NEW u \in Tabs, tab'[u].asked = "no" PROVE tab[u].asked = "no"
    BY <1>4, <2>1
  <2> QED  BY <1>1, <1>2, <1>4, <1>5, <2>1 DEF AskedFor
<1>11. FormsKnow'
  <2>1. ASSUME NEW u \in Tabs PROVE FormOK(tab[u])'
    <3>1. FormOK(tab[u])
      BY <1>1 DEF FormsKnow
    <3> QED  BY <1>2, <1>4, <3>1 DEF FormOK
  <2>2. ASSUME NEW u \in Tabs, NEW r \in Pending(u)' PROVE AxesKnowable(r)'
    BY <1>1, <1>2, <1>5 DEF FormsKnow, AxesKnowable
  <2> QED  BY <1>1, <1>2, <1>4, <1>5, <2>1, <2>2 DEF FormsKnow
<1>12. AxesKnown'
  BY <1>1, <1>2 DEF AxesKnown
<1>13. FormsFit'
  <2>1. ASSUME NEW u \in Tabs, tab'[u].asked = "data" PROVE FormUnderWay(u)'
    <3>1. FormUnderWay(u)
      BY <1>1, <1>4, <2>1 DEF FormsFit
    <3>2. \A r \in Pending(u) :
            r.op = "load" /\ r.visit = tab[u].visit => r \in Pending(u)'
      BY <1>3, <2>1
    <3>3. replies'[u] = replies[u]
      BY <1>3, <2>1
    <3> QED  BY <1>4, <3>1, <3>2, <3>3, StaysUnderWay
  <2>2. ASSUME NEW u \in Tabs PROVE tab'[u].asked # "threw"
    BY <1>1, <1>4 DEF FormsFit
  <2> QED  BY <2>1, <2>2 DEF FormsFit
<1> QED  BY <1>6, <1>7, <1>8, <1>9, <1>10, <1>11, <1>12, <1>13 DEF SessionInv

-----------------------------------------------------------------------------
(* Users who open pages of one kind at a time and do not go on before the  *)
(* server has taken what a tab has sent, and a /setViz that is not lost.   *)
Careful == OneKind /\ Waits /\ "setViz" \notin Lost

LEMMA SessionStep == Careful /\ SessionInv /\ [Next]_vars => SessionInv'
<1> SUFFICES ASSUME OneKind, Waits, "setViz" \notin Lost, SessionInv, [Next]_vars
             PROVE  SessionInv'
  BY DEF Careful
<1>1. ASSUME NEW t \in Tabs, User(t) PROVE SessionInv'
  BY <1>1, OpenKeeps, LeaveKeeps, PickKeeps, ChooseKeeps, VisualizeKeeps DEF User
<1>2. ASSUME NEW t \in Tabs, Take(t) \/ Serve(t) \/ Lose(t) PROVE SessionInv'
  BY <1>2, TakeKeeps, ServingKeeps, LoseKeeps
<1>3. ASSUME NEW j \in jobs, Access(j) PROVE SessionInv'
  BY <1>3, AccessKeeps
<1>4. CASE UNCHANGED vars
  <2>1. UNCHANGED << vizType, maps, axes, file, jobs, tab, requests, replies, visits >>
    BY <1>4 DEF vars, server
  <2>2. \A t \in Tabs : Pending(t)' = Pending(t)
    BY <2>1 DEF Pending
  <2>3. \A t \in Tabs : FormUnderWay(t)' = FormUnderWay(t)
    BY <2>1 DEF FormUnderWay
  <2>4. SessionType' /\ AxesKnown' /\ FormsFit'
    BY <2>1, <2>3 DEF SessionInv, SessionType, AxesKnown, FormsFit
  <2>5. VisitsApart' /\ KindsAgree'
    BY <2>1, <2>2 DEF SessionInv, VisitsApart, OfPage, KindsAgree, KindsOf
  <2>6. AtKind' /\ AskedFor'
    BY <2>1, <2>2 DEF SessionInv, AtKind, AskedFor
  <2>7. FormsKnow'
    BY <2>1, <2>2 DEF SessionInv, FormsKnow, FormOK, AxesKnowable
  <2> QED  BY <2>4, <2>5, <2>6, <2>7 DEF SessionInv
<1> QED  BY <1>1, <1>2, <1>3, <1>4 DEF Next

(* Users who keep to one kind of page at a time, and let a tab's requests  *)
(* be served before they go on, get no chart of attributes the engine does *)
(* not know, for any number of tabs and of requests under way, served in   *)
(* any order or lost (/getaxesdata, app.js and incvisage.cc).              *)
THEOREM AxesStayKnown == Careful /\ Spec => []AxesKnown
<1>1. SessionInv => AxesKnown
  BY DEF SessionInv
<1>2. Careful => Careful'
  BY DEF Careful
<1> QED  BY SessionInit, SessionStep, <1>1, <1>2, PTL DEF Spec

(* And their forms have the fields of their own kind of page, once their   *)
(* treatment has come, or a message: no page waits for an answer that does *)
(* not come, or gets one it cannot read (toolkit.js, app.js:84, 257).      *)
THEOREM FormsStayFitting == Careful /\ Spec => []FormsFit
<1>1. SessionInv => FormsFit
  BY DEF SessionInv
<1>2. Careful => Careful'
  BY DEF Careful
<1> QED  BY SessionInit, SessionStep, <1>1, <1>2, PTL DEF Spec
=============================================================================
