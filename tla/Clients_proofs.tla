---------------------------- MODULE Clients_proofs ----------------------------
(***************************************************************************)
(* Proofs about what runs outside of the server: the page (WebUI), for any *)
(* groups, tabs, settings and rows and any number of requests, and the     *)
(* producer's scheduler (AutoProfiler), for any number of starts, timers   *)
(* and sessions.                                                           *)
(*                                                                         *)
(* Of the page IInv is inductive; its part about the page and the one      *)
(* about the drawer are kept each by the other's handlers.  Of the         *)
(* scheduler ProfilerIInv is: it counts the timers, so that there is       *)
(* always one more to set, and knows the one _timer refers to.             *)
(***************************************************************************)
EXTENDS WebUI, AutoProfiler, FiniteSetTheorems, TLAPS

-----------------------------------------------------------------------------
(* The page                                                                *)
LEMMA NoneIsNoRun == None \notin RunRecord
BY WebUIAssumption

(* Before the first run there is none; later ones have higher numbers. *)
LEMMA Numbers ==
  ASSUME TypeOK
  PROVE  /\ RunCount \in Nat /\ body.n \in 0..MaxWork /\ MaxWork \in Nat
         /\ last # None => last \in RunRecord /\ last.n \in Nat /\ RunCount = last.n
         /\ last = None => RunCount = 0
         /\ \A r \in runs : r.n \in Nat
<1>1. MaxWork \in Nat
  BY WebUIAssumption
<1>2. \A r \in RunRecord : r.n \in Nat
  BY <1>1 DEF RunRecord
<1>3. last \in RunRecord \cup {None} /\ runs \subseteq RunRecord /\ body.n \in 0..MaxWork
  BY DEF TypeOK, PageTypes, HistoryTypes, DrawerTypes, BodyState
<1>4. QED
  BY <1>1, <1>2, <1>3 DEF RunCount

-----------------------------------------------------------------------------
(* The types of the page after a run was asked for *)
LEMMA RunTypes ==
  ASSUME TypeOK, NEW v \in Views, Run(v),
         view' \in Views, selected' \in Seq(Groups)
  PROVE  PageTypes' /\ HistoryTypes'
<1>0. matrix' = matrix /\ sort' = sort /\ PageTypes /\ HistoryTypes
  BY DEF Run, TypeOK
<1>1. CASE selected = <<>>
  <2>1. /\ result' = Shows("empty", None) /\ runs' = runs /\ progress' = progress
        /\ summaries' = summaries /\ last' = last /\ overtaken' = overtaken
        /\ alone' = alone /\ unheeded' = unheeded
    BY <1>1 DEF Run, historyVars
  <2>2. result' \in ResultState
    BY <2>1 DEF Shows, ResultState, Kinds
  <2>3. QED
    BY <1>0, <2>1, <2>2, Zenon DEF PageTypes, HistoryTypes
<1>2. CASE selected # <<>>
  <2>1. RunCount + 1 \in 1..MaxWork
    <3>1. Work + 3 <= MaxWork
      BY DEF Run
    <3>2. QED
      BY <3>1, Numbers DEF Work
  <2>2. last' \in RunRecord
    BY <1>0, <1>2, <2>1 DEF Run, RunRecord, PageTypes
  <2>3. runs' \subseteq RunRecord /\ summaries' \in RunRecord \cup {None}
    BY <1>0, <1>2, <2>2 DEF Run, PageTypes
  <2>4. /\ progress' = (progress \/ v.dim # "blocking") /\ overtaken' = (overtaken /\ runs # {})
        /\ alone' = (runs = {}) /\ unheeded' = FALSE /\ result' = Shows("waiting", None)
    BY <1>2 DEF Run
  <2>5. /\ progress' \in BOOLEAN /\ overtaken' \in BOOLEAN
        /\ alone' \in BOOLEAN /\ unheeded' \in BOOLEAN
    BY <2>4, Zenon
  <2>6. result' \in ResultState
    BY <2>4 DEF Shows, ResultState, Kinds
  <2>7. QED
    BY <1>0, <2>2, <2>3, <2>5, <2>6, Zenon DEF PageTypes, HistoryTypes
<1>3. QED
  BY <1>1, <1>2

(* The types of the page after an answer *)
LEMMA AnswerTypes ==
  ASSUME TypeOK, NEW r \in runs, Answer(r)
  PROVE  PageTypes' /\ HistoryTypes'
<1>0. PageTypes /\ HistoryTypes
  BY DEF TypeOK
<1>1. /\ r \in RunRecord /\ runs' \subseteq RunRecord
      /\ view' = view /\ selected' = selected /\ last' = last /\ alone' = alone
      /\ unheeded' = unheeded
  BY <1>0 DEF Answer, Over, PageTypes
<1>2. overtaken' \in BOOLEAN
  BY <1>0, Zenon DEF Answer, Over, HistoryTypes
<1> DEFINE Drawn == /\ result' \in ResultState /\ summaries' \in RunRecord \cup {None}
                    /\ matrix' \in [of : RunRecord \cup {None}, rows : BOOLEAN]
                    /\ sort' \in Int /\ progress' \in BOOLEAN
<1>3. Drawn
  <2>1. ASSUME NEW rows \in BOOLEAN, ShowMatrix(r, rows) PROVE Drawn
    <3>1. /\ progress' = FALSE /\ sort' = 0 /\ summaries' = r
          /\ matrix' = [of |-> r, rows |-> rows]
      BY <2>1 DEF ShowMatrix
    <3>2. view.dim \in Dims
      BY <1>0 DEF PageTypes, Views
    <3>3. result' \in ResultState
      <4>1. result' = IF matrix'.rows THEN [kind |-> "table", of |-> r, dim |-> view.dim]
                      ELSE [kind |-> "no data", of |-> r, dim |-> None]
        <5>1. matrix'.of = r
          BY <3>1
        <5>2. result' = IF matrix'.rows THEN [Shows("table", matrix'.of) EXCEPT !.dim = view.dim]
                        ELSE Shows("no data", matrix'.of)
          BY <2>1 DEF ShowMatrix, Render
        <5>3. [Shows("table", r) EXCEPT !.dim = view.dim]
                = [kind |-> "table", of |-> r, dim |-> view.dim]
          BY DEF Shows
        <5>4. QED
          BY <5>1, <5>2, <5>3 DEF Shows
      <4>2. QED
        BY <1>1, <3>2, <4>1 DEF ResultState, Kinds
    <3>4. matrix' \in [of : RunRecord \cup {None}, rows : BOOLEAN]
      BY <1>1, <3>1
    <3>5. QED
      <4>1. sort' \in Int /\ summaries' \in RunRecord \cup {None}
        BY <1>1, <3>1
      <4>2. progress' \in BOOLEAN
        BY <3>1, Zenon
      <4>3. QED
        BY <3>3, <3>4, <4>1, <4>2, Zenon
  <2>2. ASSUME ShowBlocking(r) PROVE Drawn
    <3>1. result' \in ResultState
      BY <1>1, <2>2 DEF ShowBlocking, Shows, ResultState, Kinds
    <3>2. QED
      BY <1>0, <2>2, <3>1, Zenon DEF ShowBlocking, PageTypes
  <2>3. ASSUME ShowError(r) PROVE Drawn
    <3>1. result' \in ResultState
      BY <1>1, <2>3 DEF ShowError, Shows, ResultState, Kinds
    <3>2. progress' \in BOOLEAN
      BY <2>3, Zenon DEF ShowError
    <3>3. QED
      BY <1>0, <2>3, <3>1, <3>2, Zenon DEF ShowError, PageTypes
  <2>4. QED
    BY <2>1, <2>2, <2>3 DEF Answer
<1>4. QED
  BY <1>0, <1>1, <1>2, <1>3, Zenon DEF PageTypes, HistoryTypes

(* The types of the drawer after a breakdown was asked for *)
LEMMA RefreshTypes ==
  ASSUME TypeOK, NEW b \in DrawerState, RefreshBreakdown(b)
  PROVE  DrawerTypes'
<1>1. body.n + 1 \in 1..MaxWork
  BY Numbers DEF Work, RefreshBreakdown
<1>2. selected \in Seq(Groups) /\ Len(selected) \in Nat /\ view.cats \in Categories
  BY DEF Views, TypeOK, PageTypes
<1>3. body' \in BodyState
  BY <1>1, <1>2 DEF RefreshBreakdown, BodyState
<1>4. drills' \subseteq DrillRecord
  <2>1. CASE b.group > Len(selected)
    BY <2>1 DEF RefreshBreakdown, TypeOK, DrawerTypes
  <2>2. CASE ~(b.group > Len(selected))
    <3>1. b.group \in 1..Len(selected)
      BY <1>2, <2>2 DEF DrawerState
    <3>2. selected[b.group] \in Groups
      BY <1>2, <3>1
    <3>3. QED
      BY <1>1, <1>2, <2>2, <3>2 DEF DrillRecord, RefreshBreakdown, TypeOK, DrawerTypes
  <2>3. QED
    BY <2>1, <2>2
<1>5. QED
  BY <1>3, <1>4 DEF RefreshBreakdown, DrawerTypes

(* Every click that asks for a breakdown asks for one of a selected group. *)
LEMMA ClickAsks ==
  ASSUME TypeOK, DrawerInv,
         \/ \E key \in Keys : OpenRow(key) \/ \E dim \in Drillable : Drill(dim, key)
         \/ \E i \in 1..body.choices : ChooseGroup(i)
         \/ ToggleStitch \/ SortContexts
  PROVE  \E b \in DrawerState : b.group <= Len(selected) /\ RefreshBreakdown(b)
<1>1. bd \in DrawerState /\ bd.group \in Nat \ {0}
  BY DEF TypeOK, DrawerTypes, DrawerState
<1>2. Len(selected) \in Nat /\ body.choices \in Nat /\ (selected # <<>> => Len(selected) >= 1)
  BY DEF TypeOK, PageTypes, DrawerTypes, BodyState
<1>3. bd.open => bd.group <= Len(selected) /\ body.choices <= Len(selected)
  BY DEF DrawerInv, DrawerIsServed
<1>4. ASSUME NEW dim \in Dims, NEW key \in Keys, OpenBreakdown(dim, key), Len(selected) >= 1
      PROVE  \E b \in DrawerState : b.group <= Len(selected) /\ RefreshBreakdown(b)
  <2> DEFINE g == IF bd.group > Len(selected) THEN 1 ELSE bd.group
             b == [bd EXCEPT !.open = TRUE, !.dim = dim, !.key = key, !.group = g]
  <2>1. g \in Nat \ {0} /\ g <= Len(selected)
    BY <1>1, <1>2, <1>4
  <2>2. RefreshBreakdown(b)
    BY <1>1, <1>4 DEF OpenBreakdown, DrawerState
  <2> HIDE DEF g
  <2>3. b \in DrawerState /\ b.group = g
    BY <1>1, <2>1 DEF DrawerState
  <2>4. QED
    BY <2>1, <2>2, <2>3
<1>5. ASSUME NEW key \in Keys, OpenRow(key)
      PROVE  \E b \in DrawerState : b.group <= Len(selected) /\ RefreshBreakdown(b)
  <2>1. view.dim \in Dims /\ Len(selected) >= 1 /\ OpenBreakdown(view.dim, key)
    BY <1>2, <1>5 DEF OpenRow, TypeOK, PageTypes, Views
  <2>2. QED
    BY <1>4, <2>1
<1>6. ASSUME NEW key \in Keys, NEW dim \in Drillable, Drill(dim, key)
      PROVE  \E b \in DrawerState : b.group <= Len(selected) /\ RefreshBreakdown(b)
  <2>1. dim \in Dims /\ Len(selected) >= 1 /\ OpenBreakdown(dim, key)
    BY <1>1, <1>2, <1>3, <1>6 DEF Drill, Drillable
  <2>2. QED
    BY <1>4, <2>1
<1>7. ASSUME NEW i \in 1..body.choices, ChooseGroup(i)
      PROVE  \E b \in DrawerState : b.group <= Len(selected) /\ RefreshBreakdown(b)
  <2> DEFINE b == [bd EXCEPT !.group = i]
  <2>1. b \in DrawerState /\ b.group = i
    BY <1>1, <1>2 DEF DrawerState
  <2>2. i <= Len(selected) /\ RefreshBreakdown(b)
    BY <1>2, <1>3, <1>7 DEF ChooseGroup
  <2>3. QED
    BY <2>1, <2>2
<1>8. ASSUME ToggleStitch
      PROVE  \E b \in DrawerState : b.group <= Len(selected) /\ RefreshBreakdown(b)
  <2> DEFINE b == [bd EXCEPT !.stitch = ~@]
  <2>1. b \in DrawerState /\ b.group = bd.group
    BY <1>1 DEF DrawerState
  <2>2. RefreshBreakdown(b) /\ bd.open
    BY <1>8 DEF ToggleStitch
  <2>3. QED
    BY <1>3, <2>1, <2>2
<1>9. ASSUME SortContexts
      PROVE  \E b \in DrawerState : b.group <= Len(selected) /\ RefreshBreakdown(b)
  <2> DEFINE b == [bd EXCEPT !.contextSort =
                     IF @ = "micros" THEN "pctOfContext" ELSE "micros"]
  <2>1. b \in DrawerState /\ b.group = bd.group
    BY <1>1 DEF DrawerState
  <2>2. RefreshBreakdown(b) /\ bd.open
    BY <1>9 DEF SortContexts
  <2>3. QED
    BY <1>3, <2>1, <2>2
<1>10. QED
  BY <1>5, <1>6, <1>7, <1>8, <1>9

(* The drawer shows the body of the breakdown just asked for, and waits. *)
LEMMA RefreshServes ==
  ASSUME TypeOK, DrawerInv, NEW b \in DrawerState, b.group <= Len(selected),
         RefreshBreakdown(b)
  PROVE  DrawerInv'
<1> DEFINE d == [n |-> body.n + 1, what |-> b, group |-> selected[b.group], cats |-> view.cats]
<1>1. /\ bd' = b /\ selected' = selected /\ view' = view /\ drills' = drills \cup {d}
      /\ body' = [n |-> body.n + 1, shows |-> "waiting", of |-> None, choices |-> Len(selected)]
  <2>1. b.group \in Nat /\ Len(selected) \in Nat
    BY DEF DrawerState, TypeOK, PageTypes
  <2>2. QED
    BY <2>1 DEF RefreshBreakdown, pageVars
<1>2. /\ body'.n = body.n + 1 /\ body'.shows = "waiting" /\ body'.choices = Len(selected)
      /\ d.n = body.n + 1 /\ d.what = b /\ d.cats = view.cats /\ d.group = selected[b.group]
  BY <1>1
<1> HIDE DEF d
<1>3. \A e \in drills : e.n <= body.n /\ e.n \in Nat
  <2>1. \A e \in DrillRecord : e.n \in Nat
    BY Numbers DEF DrillRecord
  <2>2. QED
    BY <2>1 DEF DrawerInv, DrawerIsServed, TypeOK, DrawerTypes
<1>4. body.n \in Nat /\ Len(selected) \in Nat
  BY Numbers DEF TypeOK, PageTypes
<1>5. DrawerIsServed'
  BY <1>1, <1>2, <1>3, <1>4 DEF DrawerIsServed
<1>6. DrawerIsCurrent'
  BY <1>2 DEF DrawerIsCurrent
<1>7. QED
  BY <1>5, <1>6 DEF DrawerInv

(* A breakdown is answered to the body that asked for it. *)
LEMMA AnswerDrillServes ==
  ASSUME TypeOK, DrawerInv, NEW d \in drills, AnswerDrill(d)
  PROVE  DrawerTypes' /\ DrawerInv'
<1>0. /\ bd \in DrawerState /\ body \in BodyState /\ drills \subseteq DrillRecord
      /\ d \in DrillRecord
  BY DEF TypeOK, DrawerTypes
<1>1. drills' = drills \ {d} /\ selected' = selected /\ view' = view /\ bd' = bd
  BY DEF AnswerDrill, pageVars
<1>2. PICK shows \in {"answer", "error"} :
        body' = IF body.n = d.n THEN [body EXCEPT !.shows = shows, !.of = d] ELSE body
  BY DEF AnswerDrill
<1>3. CASE body.n = d.n
  <2>1. /\ body' \in BodyState /\ body'.n = body.n /\ body'.shows = shows
        /\ body'.of = d /\ body'.choices = body.choices
    BY <1>0, <1>2, <1>3 DEF BodyState
  <2>2. DrawerIsServed'
    BY <1>1, <1>2, <2>1 DEF DrawerInv, DrawerIsServed
  <2>3. DrawerIsCurrent'
    BY <1>1, <1>3, <2>1 DEF DrawerInv, DrawerIsServed, DrawerIsCurrent
  <2>4. QED
    BY <1>0, <1>1, <2>1, <2>2, <2>3 DEF DrawerInv, DrawerTypes
<1>4. CASE body.n # d.n
  <2>1. body' = body
    BY <1>2, <1>4
  <2>2. DrawerIsServed'
    BY <1>1, <1>4, <2>1 DEF DrawerInv, DrawerIsServed
  <2>3. DrawerIsCurrent'
    BY <1>1, <2>1 DEF DrawerInv, DrawerIsCurrent
  <2>4. QED
    BY <1>0, <1>1, <2>1, <2>2, <2>3 DEF DrawerInv, DrawerTypes
<1>5. QED
  BY <1>3, <1>4

-----------------------------------------------------------------------------
(* A run that is asked for becomes the last, and the page waits for it. *)
LEMMA RunPage ==
  ASSUME TypeOK, PageInv, NEW v \in Views, Run(v), view' = v,
         selected = <<>> => v = view
  PROVE  PageInv'
<1>0. matrix' = matrix /\ sort' = sort
  BY DEF Run
<1>1. CASE selected = <<>>
  <2>1. /\ result'.kind = "empty" /\ runs' = runs /\ progress' = progress
        /\ summaries' = summaries /\ last' = last /\ overtaken' = overtaken
        /\ alone' = alone /\ unheeded' = unheeded /\ view' = view
    BY <1>1 DEF Run, historyVars, Shows
  <2>2. RunsAreNumbered'
    BY <2>1 DEF PageInv, RunsAreNumbered
  <2>3. ~Answered' /\ result'.kind # "waiting" /\ result'.kind # "table"
    BY <2>1 DEF Answered
  <2>4. WaitsForARun'
    BY <2>1, <2>3, Zenon DEF PageInv, WaitsForARun
  <2>5. LastRunAlone'
    BY <2>1, Zenon DEF PageInv, LastRunAlone
  <2>6. TableIsStored' /\ SettlesOnChoice'
    BY <2>3 DEF TableIsStored, SettlesOnChoice
  <2>7. QED
    BY <2>2, <2>4, <2>5, <2>6 DEF PageInv
<1>2. CASE selected # <<>>
  <2>1. /\ last' = [n |-> RunCount + 1, view |-> v, groups |-> selected]
        /\ runs' = runs \cup {last'} /\ result' = Shows("waiting", None)
        /\ progress' = (progress \/ v.dim # "blocking")
        /\ summaries' = IF v.dim = "blocking" THEN None ELSE summaries
        /\ alone' = (runs = {}) /\ unheeded' = FALSE
        /\ overtaken' = (overtaken /\ runs # {})
    BY <1>2 DEF Run
  <2>2. last'.n = RunCount + 1 /\ last'.view = v /\ result'.kind = "waiting"
    BY <2>1 DEF Shows
  <2>3. last' # None
    <3>1. RunCount + 1 \in 1..MaxWork
      BY Numbers DEF Run, Work
    <3>2. last' \in RunRecord
      BY <2>1, <3>1 DEF RunRecord, TypeOK, PageTypes
    <3>3. QED
      BY <3>2, NoneIsNoRun
  <2>4. RunsAreNumbered'
    <3>1. \A r \in runs : r.n <= RunCount /\ r.n \in Nat /\ RunCount \in Nat
      BY Numbers DEF PageInv, RunsAreNumbered
    <3>2. \A r \in runs : r.n <= last'.n /\ r.n # last'.n
      BY <2>2, <3>1
    <3>3. last'.n <= last'.n
      BY <2>2, Numbers
    <3>4. runs' = runs \cup {last'}
      BY <2>1
    <3>5. QED
      BY <2>3, <3>2, <3>3, <3>4, Zenon DEF RunsAreNumbered
  <2>5. ~Answered' /\ result'.kind # "table"
    BY <2>2 DEF Answered
  <2>6. WaitsForARun'
    <3>1. last' \in runs' /\ runs \subseteq runs'
      BY <2>1
    <3>2. progress' => \E r \in runs' : r.view.dim # "blocking"
      BY <2>1, <2>2, <3>1, Zenon DEF PageInv, WaitsForARun
    <3>3. QED
      BY <2>5, <3>1, <3>2 DEF WaitsForARun
  <2>7. LastRunAlone'
    <3>1. alone' => runs' \subseteq {last'} /\ ~overtaken'
      BY <2>1, Zenon
    <3>2. last'.view.dim = "blocking" => summaries' = None
      BY <2>1, <2>2
    <3>3. QED
      BY <2>2, <3>1, <3>2 DEF LastRunAlone
  <2>8. QED
    BY <2>4, <2>5, <2>6, <2>7 DEF PageInv, TableIsStored, SettlesOnChoice
<1>3. QED
  BY <1>1, <1>2

(* What each answer draws *)
LEMMA AnswerDraws ==
  ASSUME NEW r, Answer(r)
  PROVE  /\ result'.of = r
         /\ \/ /\ r.view.dim # "blocking" /\ ~progress'
               /\ result'.kind \in {"table", "no data"} /\ summaries' = r
               /\ matrix'.of = r /\ sort' = 0
               /\ result'.kind = "table" => matrix'.rows
            \/ /\ result'.kind \in {"blocking", "error"}
               /\ result'.kind = "blocking" => r.view.dim = "blocking"
               /\ progress' => progress /\ r.view.dim = "blocking"
               /\ summaries' = summaries
<1>1. ASSUME NEW rows \in BOOLEAN, ShowMatrix(r, rows)
      PROVE  /\ result'.of = r /\ ~progress'
             /\ result'.kind \in {"table", "no data"} /\ summaries' = r
             /\ matrix'.of = r /\ sort' = 0
             /\ result'.kind = "table" => matrix'.rows
  <2>1. matrix'.of = r /\ summaries' = r /\ sort' = 0 /\ progress' = FALSE
    BY <1>1 DEF ShowMatrix
  <2>2. result' = IF matrix'.rows THEN [Shows("table", matrix'.of) EXCEPT !.dim = view.dim]
                  ELSE Shows("no data", matrix'.of)
    BY <1>1 DEF ShowMatrix, Render
  <2>3. CASE matrix'.rows
    BY <2>1, <2>2, <2>3 DEF Shows
  <2>4. CASE ~matrix'.rows
    <3>1. result' = Shows("no data", matrix'.of)
      BY <2>2, <2>4, Zenon
    <3>2. QED
      BY <2>1, <3>1 DEF Shows
  <2>5. QED
    BY <2>3, <2>4
<1>2. ASSUME ShowBlocking(r)
      PROVE  /\ result'.of = r /\ result'.kind = "blocking"
             /\ progress' = progress /\ summaries' = summaries
  BY <1>2 DEF ShowBlocking, Shows
<1>3. ASSUME ShowError(r)
      PROVE  /\ result'.of = r /\ result'.kind = "error"
             /\ (progress' => progress /\ r.view.dim = "blocking") /\ summaries' = summaries
  <2>1. result' = Shows("error", r) /\ summaries' = summaries
    BY <1>3 DEF ShowError
  <2>2. progress' => progress /\ r.view.dim = "blocking"
    BY <1>3, Zenon DEF ShowError
  <2>3. QED
    BY <2>1, <2>2 DEF Shows
<1>4. CASE r.view.dim = "blocking"
  <2>1. ShowBlocking(r) \/ ShowError(r)
    BY <1>4 DEF Answer
  <2>2. QED
    BY <1>2, <1>3, <1>4, <2>1
<1>5. CASE r.view.dim # "blocking"
  <2>1. (\E rows \in BOOLEAN : ShowMatrix(r, rows)) \/ ShowError(r)
    BY <1>5 DEF Answer
  <2>2. QED
    BY <1>1, <1>3, <1>5, <2>1
<1>6. QED
  BY <1>4, <1>5

(* An answer is of the last run, or of an older one that overtook it. *)
LEMMA AnswerPage ==
  ASSUME TypeOK, PageInv, NEW r \in runs, Answer(r)
  PROVE  PageInv'
<1>1. /\ runs' = runs \ {r} /\ view' = view /\ last' = last
      /\ alone' = alone /\ unheeded' = unheeded
  BY DEF Answer, Over
<1>2. /\ r.n \in Nat /\ last.n \in Nat /\ last # None /\ r.n <= last.n
      /\ r.n = last.n => r = last
  BY Numbers DEF PageInv, RunsAreNumbered
<1>3. ~overtaken' /\ runs' = {} => r = last
  <2>1. SUFFICES ASSUME runs' = {}, r.n # last.n PROVE overtaken'
    BY <1>2
  <2>2. last.n \in (r.n + 1)..last.n /\ \A q \in runs : q.n # last.n
    BY <1>1, <1>2, <2>1
  <2>3. QED
    BY <2>2, Zenon DEF Answer, Over
<1>4. alone' => r = last /\ ~overtaken'
  <2>1. alone' => r = last /\ ~overtaken
    BY <1>1, <1>2 DEF PageInv, LastRunAlone
  <2>2. r = last => (r.n + 1)..last.n = {}
    BY <1>2
  <2>3. QED
    BY <2>1, <2>2, Zenon DEF Answer, Over
<1>5. RunsAreNumbered'
  BY <1>1 DEF PageInv, RunsAreNumbered
<1>6. WaitsForARun'
  <2>1. progress' => progress /\ r.view.dim = "blocking"
    BY AnswerDraws
  <2>2. progress' => \E q \in runs' : q.view.dim # "blocking"
    BY <1>1, <2>1 DEF PageInv, WaitsForARun
  <2>3. result'.kind # "waiting"
    BY AnswerDraws
  <2>4. QED
    BY <1>1, <1>2, <2>2, <2>3 DEF WaitsForARun
<1>7. last'.view.dim = "blocking" /\ alone' => summaries' = None
  BY <1>1, <1>2, <1>4, AnswerDraws DEF PageInv, LastRunAlone
<1>8. LastRunAlone'
  BY <1>1, <1>4, <1>7 DEF PageInv, LastRunAlone
<1>9. TableIsStored'
  BY AnswerDraws DEF TableIsStored
<1>10. SettlesOnChoice'
  <2>1. SUFFICES ASSUME runs' = {}
                 PROVE  /\ ~overtaken' => result'.of = last
                        /\ alone' => CASE result'.kind = "blocking" -> summaries' = None
                                       [] result'.kind = "error" -> TRUE
                                       [] OTHER -> summaries' = last
                        /\ alone' /\ ~unheeded' => last.view = view
    BY <1>1 DEF SettlesOnChoice, Quiet
  <2>2. ~overtaken' => result'.of = last
    BY <1>3, <2>1, AnswerDraws
  <2>3. alone' /\ result'.kind = "blocking" => summaries' = None
    BY <1>1, <1>4, <1>7, AnswerDraws
  <2>4. alone' /\ result'.kind \notin {"blocking", "error"} => summaries' = last
    BY <1>4, AnswerDraws
  <2>5. alone' /\ ~unheeded' => last.view = view
    BY <1>1, <1>2 DEF PageInv, LastRunAlone
  <2>6. QED
    BY <2>2, <2>3, <2>4, <2>5
<1>11. QED
  BY <1>5, <1>6, <1>8, <1>9, <1>10 DEF PageInv

(* What neither asks, answers nor draws leaves the page as it settled. *)
LEMMA PageKept ==
  ASSUME TypeOK, PageInv, selected' \in Seq(Groups), progress' \in BOOLEAN,
         UNCHANGED <<view, runs, result, matrix, sort, summaries, historyVars>>,
         progress' => progress \/ \E r \in runs : r.view.dim # "blocking"
  PROVE  PageTypes' /\ HistoryTypes' /\ PageInv'
<1>1. /\ view' = view /\ runs' = runs /\ result' = result /\ matrix' = matrix
      /\ sort' = sort /\ summaries' = summaries /\ last' = last
      /\ overtaken' = overtaken /\ alone' = alone /\ unheeded' = unheeded
  BY DEF historyVars
<1>2. PageTypes' /\ HistoryTypes'
  BY <1>1, Zenon DEF TypeOK, PageTypes, HistoryTypes
<1>3. Answered' = Answered /\ Quiet' = Quiet
  BY <1>1 DEF Answered, Quiet
<1>4. RunsAreNumbered' /\ LastRunAlone' /\ TableIsStored'
  BY <1>1, Zenon DEF PageInv, RunsAreNumbered, LastRunAlone, TableIsStored
<1>5. WaitsForARun'
  BY <1>1, <1>3, Zenon DEF PageInv, WaitsForARun
<1>6. SettlesOnChoice'
  BY <1>1, <1>3, Zenon DEF PageInv, SettlesOnChoice
<1>7. QED
  BY <1>2, <1>4, <1>5, <1>6 DEF PageInv

(* A sorted table is the table it was. *)
LEMMA SortPage ==
  ASSUME TypeOK, PageInv, NEW col \in Int, SortBy(col)
  PROVE  PageTypes' /\ HistoryTypes' /\ PageInv'
<1>1. /\ view' = view /\ selected' = selected /\ runs' = runs /\ matrix' = matrix
      /\ summaries' = summaries /\ progress' = progress /\ last' = last
      /\ overtaken' = overtaken /\ alone' = alone /\ unheeded' = unheeded
      /\ sort' = col
  BY DEF SortBy, historyVars
<1>2. result.kind = "table" /\ matrix.rows /\ result.of = matrix.of
  BY DEF SortBy, PageInv, TableIsStored
<1>3. result' = [kind |-> "table", of |-> matrix.of, dim |-> view.dim]
  <2>1. result' = [Shows("table", matrix.of) EXCEPT !.dim = view.dim]
    BY <1>2 DEF SortBy, Render
  <2>2. QED
    BY <2>1 DEF Shows
<1>4. result'.kind = result.kind /\ result'.of = result.of
  BY <1>2, <1>3
<1>5. PageTypes' /\ HistoryTypes'
  <2>1. matrix.of \in RunRecord \cup {None} /\ view.dim \in Dims
    BY DEF TypeOK, PageTypes, Views
  <2>2. result' \in ResultState
    BY <1>3, <2>1 DEF ResultState, Kinds
  <2>3. sort' \in Int
    BY <1>1
  <2>4. QED
    BY <1>1, <2>2, <2>3, Zenon DEF TypeOK, PageTypes, HistoryTypes
<1>6. Answered' = Answered /\ Quiet' = Quiet
  BY <1>1, <1>4 DEF Answered, Quiet
<1>7. RunsAreNumbered' /\ LastRunAlone'
  BY <1>1, Zenon DEF PageInv, RunsAreNumbered, LastRunAlone
<1>8. WaitsForARun'
  BY <1>1, <1>4, <1>6, Zenon DEF PageInv, WaitsForARun
<1>9. SettlesOnChoice'
  BY <1>1, <1>4, <1>6, Zenon DEF PageInv, SettlesOnChoice
<1>10. TableIsStored'
  BY <1>1, <1>2, <1>4 DEF SortBy, TableIsStored
<1>11. QED
  BY <1>5, <1>7, <1>8, <1>9, <1>10 DEF PageInv

(* A setting changed with nothing selected is remembered as unheeded. *)
LEMMA UnheededPage ==
  ASSUME TypeOK, PageInv, NEW v \in Views, SetView(v), selected = <<>>
  PROVE  PageTypes' /\ HistoryTypes' /\ PageInv'
<1>1. /\ view' = v /\ selected' = selected /\ runs' = runs /\ result' = result
      /\ matrix' = matrix /\ sort' = sort /\ summaries' = summaries
      /\ progress' = progress /\ last' = last /\ overtaken' = overtaken
      /\ alone' = alone /\ unheeded' = TRUE
  BY DEF SetView, Rerun
<1>2. PageTypes' /\ HistoryTypes'
  BY <1>1, Zenon DEF TypeOK, PageTypes, HistoryTypes
<1>3. Answered' = Answered /\ Quiet' = Quiet
  BY <1>1 DEF Answered, Quiet
<1>4. RunsAreNumbered' /\ LastRunAlone' /\ TableIsStored'
  BY <1>1, Zenon DEF PageInv, RunsAreNumbered, LastRunAlone, TableIsStored
<1>5. WaitsForARun'
  BY <1>1, <1>3, Zenon DEF PageInv, WaitsForARun
<1>6. SettlesOnChoice'
  BY <1>1, <1>3, Zenon DEF PageInv, SettlesOnChoice
<1>7. QED
  BY <1>2, <1>4, <1>5, <1>6 DEF PageInv

(* While the drawer is open the page can only add to the selection. *)
LEMMA DrawerKept ==
  ASSUME TypeOK, DrawerInv, UNCHANGED drawerVars,
         bd.open => view' = view /\ \/ selected' = selected
                                    \/ \E g \in Groups : selected' = Append(selected, g)
  PROVE  DrawerTypes' /\ DrawerInv'
<1>1. bd' = bd /\ body' = body /\ drills' = drills
  BY DEF drawerVars
<1>2. DrawerTypes'
  BY <1>1 DEF TypeOK, DrawerTypes
<1>3. CASE ~bd.open
  BY <1>1, <1>2, <1>3 DEF DrawerInv, DrawerIsServed, DrawerIsCurrent
<1>4. CASE bd.open
  <2>1. /\ selected \in Seq(Groups) /\ Len(selected) \in Nat /\ bd.group \in Nat \ {0}
        /\ body.choices \in Nat
    BY DEF TypeOK, PageTypes, DrawerTypes, DrawerState, BodyState
  <2>2. bd.group <= Len(selected) /\ body.choices <= Len(selected)
    BY <1>4 DEF DrawerInv, DrawerIsServed
  <2>3. /\ view' = view /\ bd.group <= Len(selected)' /\ body.choices <= Len(selected)'
        /\ selected'[bd.group] = selected[bd.group]
    BY <1>4, <2>1, <2>2
  <2>4. DrawerIsServed'
    BY <1>1, <1>4, <2>3 DEF DrawerInv, DrawerIsServed
  <2>5. DrawerIsCurrent'
    BY <1>1, <1>4, <2>3 DEF DrawerInv, DrawerIsCurrent
  <2>6. QED
    BY <1>2, <2>4, <2>5 DEF DrawerInv
<1>5. QED
  BY <1>3, <1>4

-----------------------------------------------------------------------------
LEMMA InitInv == Init => IInv
<1> SUFFICES ASSUME Init PROVE IInv
  OBVIOUS
<1>1. /\ view \in Views /\ view.cats = "all" /\ selected = <<>> /\ runs = {} /\ progress = FALSE
      /\ result.kind = "empty" /\ result \in ResultState
      /\ matrix \in [of : RunRecord \cup {None}, rows : BOOLEAN]
      /\ sort = 0 /\ summaries = None /\ drills = {} /\ last = None
      /\ overtaken = FALSE /\ alone = TRUE /\ unheeded = FALSE
  BY WebUIAssumption DEF Init, Shows, Views, ResultState, Kinds
<1>2. bd \in DrawerState /\ bd.open = FALSE
  BY DEF Init, DrawerState
<1>3. body \in BodyState
  BY WebUIAssumption DEF Init, BodyState
<1>4. TypeOK
  <2>1. /\ selected \in Seq(Groups) /\ runs \subseteq RunRecord /\ sort \in Int
        /\ summaries \in RunRecord \cup {None} /\ last \in RunRecord \cup {None}
        /\ drills \subseteq DrillRecord
    BY <1>1
  <2>2. progress \in BOOLEAN /\ overtaken \in BOOLEAN /\ alone \in BOOLEAN /\ unheeded \in BOOLEAN
    BY <1>1, Zenon
  <2>3. QED
    BY <1>1, <1>2, <1>3, <2>1, <2>2, Zenon DEF TypeOK, PageTypes, HistoryTypes, DrawerTypes
<1>5. PageInv
  BY <1>1 DEF PageInv, RunsAreNumbered, WaitsForARun, LastRunAlone, TableIsStored,
              SettlesOnChoice, Answered
<1>6. DrawerInv
  BY <1>1, <1>2 DEF DrawerInv, DrawerIsServed, DrawerIsCurrent
<1>7. QED
  BY <1>4, <1>5, <1>6 DEF IInv

(* Every step keeps the invariant. *)
LEMMA NextInv ==
  ASSUME IInv, Next
  PROVE  IInv'
<1>0. TypeOK /\ PageInv /\ DrawerInv
  BY DEF IInv
<1> DEFINE Page == PageTypes /\ HistoryTypes /\ PageInv
           Drawer == DrawerTypes /\ DrawerInv
<1>1. selected \in Seq(Groups) /\ progress \in BOOLEAN /\ view \in Views /\ runs \subseteq RunRecord
  BY <1>0 DEF TypeOK, PageTypes
<1>2. ASSUME UNCHANGED <<pageVars, historyVars>> PROVE Page'
  BY <1>0, <1>1, <1>2, PageKept, Zenon DEF pageVars
<1>3. CASE Refresh
  <2>1. Page'
    BY <1>0, <1>1, <1>3, RunTypes, RunPage DEF Refresh
  <2>2. Drawer'
    BY <1>0, <1>3, DrawerKept DEF Refresh
  <2>3. QED
    BY <2>1, <2>2 DEF IInv, TypeOK
<1>4. ASSUME NEW v \in Views, SetView(v) PROVE IInv'
  <2>1. CASE selected # <<>>
    BY <1>0, <1>1, <1>4, <2>1, RunTypes, RunPage, DrawerKept
       DEF SetView, Rerun, IInv, TypeOK
  <2>2. CASE selected = <<>>
    <3>1. Page'
      BY <1>0, <1>4, <2>2, UnheededPage
    <3>2. Drawer'
      BY <1>0, <1>4, DrawerKept DEF SetView
    <3>3. QED
      BY <3>1, <3>2 DEF IInv, TypeOK
  <2>3. QED
    BY <2>1, <2>2
<1>5. ASSUME NEW g \in Groups, AddSelected(g) PROVE IInv'
  <2>1. selected' = Append(selected, g) /\ selected' \in Seq(Groups) /\ view' = view
    BY <1>1, <1>5 DEF AddSelected
  <2>2. Page'
    BY <1>0, <1>1, <1>5, <2>1, PageKept, Zenon DEF AddSelected
  <2>3. Drawer'
    BY <1>0, <1>5, <2>1, DrawerKept, Zenon DEF AddSelected
  <2>4. QED
    BY <2>2, <2>3 DEF IInv, TypeOK
<1>6. ASSUME NEW rest \in Seq(Groups), Deselect(rest) PROVE IInv'
  <2>1. Page'
    BY <1>0, <1>1, <1>6, PageKept, Zenon DEF Deselect
  <2>2. Drawer'
    BY <1>0, <1>6, DrawerKept, Zenon DEF Deselect
  <2>3. QED
    BY <2>1, <2>2 DEF IInv, TypeOK
<1>7. ASSUME NEW col \in Int, SortBy(col) PROVE IInv'
  <2>1. Page'
    BY <1>0, <1>7, SortPage
  <2>2. Drawer'
    BY <1>0, <1>7, DrawerKept, Zenon DEF SortBy
  <2>3. QED
    BY <2>1, <2>2 DEF IInv, TypeOK
<1>8. ASSUME NEW b \in DrawerState, b.group <= Len(selected), RefreshBreakdown(b) PROVE IInv'
  <2>1. Page'
    BY <1>2, <1>8 DEF RefreshBreakdown
  <2>2. Drawer'
    BY <1>0, <1>8, RefreshTypes, RefreshServes
  <2>3. QED
    BY <2>1, <2>2 DEF IInv, TypeOK
<1>9. CASE \/ \E key \in Keys : OpenRow(key) \/ \E dim \in Drillable : Drill(dim, key)
           \/ \E i \in 1..body.choices : ChooseGroup(i)
           \/ ToggleStitch \/ SortContexts
  <2>1. PICK b \in DrawerState : b.group <= Len(selected) /\ RefreshBreakdown(b)
    BY <1>0, <1>9, ClickAsks
  <2>2. QED
    BY <1>8, <2>1
<1>10. CASE CloseBreakdown
  <2>1. Page'
    BY <1>2, <1>10 DEF CloseBreakdown
  <2>2. bd \in DrawerState /\ bd' = [bd EXCEPT !.open = FALSE] /\ body' = body /\ drills' = drills
    BY <1>0, <1>10 DEF CloseBreakdown, TypeOK, DrawerTypes
  <2>3. bd' \in DrawerState /\ bd'.open = FALSE
    BY <2>2 DEF DrawerState
  <2>4. Drawer'
    BY <1>0, <2>2, <2>3
       DEF TypeOK, DrawerTypes, DrawerInv, DrawerIsServed, DrawerIsCurrent
  <2>5. QED
    BY <2>1, <2>4 DEF IInv, TypeOK
<1>11. ASSUME NEW r \in runs, Progress(r) PROVE IInv'
  <2>1. progress' \in BOOLEAN /\ selected' = selected /\ r.view.dim # "blocking"
    BY <1>11, Zenon DEF Progress
  <2>2. Page'
    BY <1>0, <1>1, <1>11, <2>1, PageKept, Zenon DEF Progress
  <2>3. Drawer'
    BY <1>0, <1>11, DrawerKept, Zenon DEF Progress
  <2>4. QED
    BY <2>2, <2>3 DEF IInv, TypeOK
<1>12. ASSUME NEW r \in runs, Answer(r) PROVE IInv'
  <2>1. Page'
    BY <1>0, <1>12, AnswerTypes, AnswerPage
  <2>2. Drawer'
    BY <1>0, <1>12, DrawerKept, Zenon DEF Answer, Over
  <2>3. QED
    BY <2>1, <2>2 DEF IInv, TypeOK
<1>13. ASSUME NEW d \in drills, AnswerDrill(d) PROVE IInv'
  <2>1. Page'
    BY <1>2, <1>13 DEF AnswerDrill
  <2>2. Drawer'
    BY <1>0, <1>13, AnswerDrillServes
  <2>3. QED
    BY <2>1, <2>2 DEF IInv, TypeOK
<1>14. ASSUME NEW i \in 1..Len(selected), Deselect(RemoveAt(selected, i)) PROVE IInv'
  <2>1. RemoveAt(selected, i) \in Seq(Groups)
    BY <1>1 DEF RemoveAt
  <2>2. QED
    BY <1>6, <1>14, <2>1
<1>15. CASE User
  <2>1. ASSUME Deselect(<<>>) PROVE IInv'
    <3>1. <<>> \in Seq(Groups)
      OBVIOUS
    <3>2. QED
      BY <1>6, <2>1, <3>1
  <2>2. ASSUME NEW col \in 1..Cardinality(Groups), SortBy(col) PROVE IInv'
    BY <1>7, <2>2
  <2>3. ASSUME SortBy(Pct) PROVE IInv'
    <3>1. Pct \in Int
      BY DEF Pct
    <3>2. QED
      BY <1>7, <2>3, <3>1
  <2>4. QED
    BY <1>3, <1>4, <1>5, <1>9, <1>10, <1>14, <1>15, <2>1, <2>2, <2>3, Zenon DEF User
<1>16. CASE Server
  BY <1>11, <1>12, <1>13, <1>16, Zenon DEF Server
<1>17. QED
  BY <1>15, <1>16 DEF Next

(***************************************************************************)
(* IInv is inductive: the runs have increasing numbers and what waits has  *)
(* a request under way, in whatever order requests are asked for and       *)
(* answered.  (app.js:175-225, 601-681, 842-860)                           *)
(***************************************************************************)
THEOREM Inductive == Spec => []IInv
<1>1. IInv /\ UNCHANGED vars => IInv'
  <2> SUFFICES ASSUME IInv, UNCHANGED vars PROVE IInv'
    OBVIOUS
  <2>1. UNCHANGED <<pageVars, historyVars>> /\ UNCHANGED drawerVars
    BY DEF vars
  <2>2. selected' \in Seq(Groups) /\ progress' \in BOOLEAN
    BY <2>1 DEF pageVars, IInv, TypeOK, PageTypes
  <2>3. PageTypes' /\ HistoryTypes' /\ PageInv'
    BY <2>1, <2>2, PageKept, Zenon DEF pageVars, IInv
  <2>4. DrawerTypes' /\ DrawerInv'
    BY <2>1, DrawerKept, Zenon DEF pageVars, IInv
  <2>5. QED
    BY <2>3, <2>4 DEF IInv, TypeOK
<1>2. IInv /\ [Next]_vars => IInv'
  BY <1>1, NextInv
<1>3. QED
  BY <1>2, InitInv, PTL DEF Spec

(* The page, its drawer and the histories keep their types. (app.js) *)
THEOREM TypeCorrect == Spec => []TypeOK
<1>1. IInv => TypeOK
  BY DEF IInv
<1>2. QED
  BY <1>1, Inductive, PTL

(***************************************************************************)
(* The table shown is that of state.matrix, sorted by one of its columns,  *)
(* whatever was answered or clicked in between.  (app.js:215-218, 488-505) *)
(***************************************************************************)
THEOREM TableIsOfItsRun == Spec => []TableIsStored
<1>1. IInv => TableIsStored
  BY DEF IInv, PageInv
<1>2. QED
  BY <1>1, Inductive, PTL

(***************************************************************************)
(* At rest nothing on the page waits: no bar, no "Comparing…", and the     *)
(* open drawer no "Loading…".  (app.js:175-225, 234-246, 325-337)          *)
(***************************************************************************)
THEOREM NothingWaitsForNothing == Spec => []NothingHangs
<1>1. IInv => NothingHangs
  <2> SUFFICES ASSUME IInv PROVE NothingHangs
    OBVIOUS
  <2>1. Quiet => ~progress /\ result.kind # "waiting"
    BY DEF IInv, PageInv, WaitsForARun, Quiet
  <2>2. drills = {} => ~(bd.open /\ body.shows = "waiting")
    BY DEF IInv, DrawerInv, DrawerIsServed
  <2>3. QED
    BY <2>1, <2>2 DEF NothingHangs
<1>2. QED
  BY <1>1, Inductive, PTL

(***************************************************************************)
(* At rest the page shows its newest run unless an older answer overtook   *)
(* it, and without overlaps the settings it has.  (app.js:168-225,         *)
(* 842-860)                                                                *)
(***************************************************************************)
THEOREM PageSettles == Spec => []SettlesOnChoice
<1>1. IInv => SettlesOnChoice
  BY DEF IInv, PageInv
<1>2. QED
  BY <1>1, Inductive, PTL

(***************************************************************************)
(* The open drawer shows the breakdown its head and its controls name, in  *)
(* whatever order breakdowns are answered.  (app.js:601-681)               *)
(***************************************************************************)
THEOREM DrawerShowsWhatItSays == Spec => []DrawerIsCurrent
<1>1. IInv => DrawerIsCurrent
  BY DEF IInv, DrawerInv
<1>2. QED
  BY <1>1, Inductive, PTL

-----------------------------------------------------------------------------
(* The producer's scheduler                                                *)

(* setTimeout returns a timer that is neither pending nor known. *)
LEMMA FreshTimer ==
  ASSUME ProfilerTypeOK, TimersCounted, NEW p, p \subseteq pending
  PROVE  /\ (CHOOSE u \in Timers : u \notin p \cup {timer}) \in Timers
         /\ (CHOOSE u \in Timers : u \notin p \cup {timer}) \notin p
<1>1. IsFiniteSet(pending) /\ Cardinality(pending) \in Nat
  <2>1. pending \in SUBSET Timers
    BY DEF ProfilerTypeOK
  <2>2. QED
    BY <2>1, EnoughTimers, FS_Subset, FS_CardinalityType
<1>2. IsFiniteSet(p) /\ Cardinality(p) <= Cardinality(pending) /\ Cardinality(p) \in Nat
  <2>1. p \in SUBSET pending
    OBVIOUS
  <2>2. QED
    BY <2>1, <1>1, FS_Subset, FS_CardinalityType
<1>3. IsFiniteSet(p \cup {timer}) /\ Cardinality(p \cup {timer}) <= Cardinality(p) + 1
  <2>1. /\ IsFiniteSet(p \cup {timer})
        /\ \/ Cardinality(p \cup {timer}) = Cardinality(p)
           \/ Cardinality(p \cup {timer}) = Cardinality(p) + 1
    BY <1>2, FS_AddElement
  <2>2. QED
    BY <1>2, <2>1
<1>4. starts \in Nat /\ starts <= MaxStarts /\ MaxStarts \in Nat
  BY ProfilerAssumption DEF ProfilerTypeOK
<1>5. Cardinality(pending) <= starts
  BY <1>1, <1>4 DEF TimersCounted
<1>6. \E u \in Timers : u \notin p \cup {timer}
  <2> SUFFICES ASSUME Timers \subseteq p \cup {timer} PROVE FALSE
    OBVIOUS
  <2>1. Timers \in SUBSET (p \cup {timer})
    OBVIOUS
  <2>2. Cardinality(Timers) <= Cardinality(p \cup {timer}) /\ Cardinality(Timers) \in Nat
    BY <1>3, <2>1, FS_Subset, FS_CardinalityType
  <2>3. Cardinality(p \cup {timer}) \in Nat
    BY <1>3, FS_CardinalityType
  <2>4. QED
    BY <1>1, <1>2, <1>3, <1>4, <1>5, <2>2, <2>3, EnoughTimers
<1>7. QED
  BY <1>6

(* What _scheduleNext does to the timers. *)
LEMMA Scheduled ==
  ASSUME ProfilerTypeOK, TimersCounted, NEW on \in BOOLEAN, NEW p,
         p \subseteq pending, ScheduleNext(on, p)
  PROVE  /\ pending' \subseteq Timers /\ timer' \in Timers \cup {Null}
         /\ ~on => pending' = p /\ timer' = timer
         /\ on => timer' \notin p /\ pending' = p \cup {timer'}
         /\ Cardinality(pending') = Cardinality(p) + (IF on THEN 1 ELSE 0)
<1>1. CASE ~on
  <2>1. pending' = p /\ timer' = timer
    BY <1>1 DEF ScheduleNext
  <2>2. IsFiniteSet(p) /\ Cardinality(p) \in Nat
    <3>1. p \in SUBSET Timers
      BY DEF ProfilerTypeOK
    <3>2. QED
      BY <3>1, EnoughTimers, FS_Subset, FS_CardinalityType
  <2>3. QED
    BY <1>1, <2>1, <2>2 DEF ProfilerTypeOK
<1>2. CASE on
  <2> DEFINE t == CHOOSE u \in Timers : u \notin p \cup {timer}
  <2>1. pending' = p \cup {t} /\ timer' = t
    BY <1>2 DEF ScheduleNext
  <2>2. t \in Timers /\ t \notin p
    BY FreshTimer
  <2> HIDE DEF t
  <2>3. IsFiniteSet(p) /\ Cardinality(p) \in Nat
    <3>1. p \in SUBSET Timers
      BY DEF ProfilerTypeOK
    <3>2. QED
      BY <3>1, EnoughTimers, FS_Subset, FS_CardinalityType
  <2>4. Cardinality(p \cup {t}) = Cardinality(p) + 1
    BY <2>2, <2>3, FS_AddElement
  <2>5. QED
    BY <1>2, <2>1, <2>2, <2>4 DEF ProfilerTypeOK
<1>3. QED
  BY <1>1, <1>2

(* The session whose phase is on is the one in flight. *)
LEMMA InFlightIs ==
  ASSUME OneSessionAtATime, NEW s \in Sessions, phase[s] # "off"
  PROVE  inFlight = s
BY DEF OneSessionAtATime, Running

(* Pending timers can be counted, and one less when one fires. *)
LEMMA CountIsNat ==
  ASSUME ProfilerTypeOK
  PROVE  /\ IsFiniteSet(pending) /\ Cardinality(pending) \in Nat
         /\ \A t \in pending : Cardinality(pending \ {t}) = Cardinality(pending) - 1
         /\ \A t : t \notin pending => pending \ {t} = pending
<1>1. pending \in SUBSET Timers
  BY DEF ProfilerTypeOK
<1>2. IsFiniteSet(pending) /\ Cardinality(pending) \in Nat
  BY <1>1, EnoughTimers, FS_Subset, FS_CardinalityType
<1>3. ASSUME NEW t \in pending
      PROVE  Cardinality(pending \ {t}) = Cardinality(pending) - 1
  BY <1>2, FS_RemoveElement
<1>4. QED
  BY <1>2, <1>3

(* start() keeps ProfilerIInv. *)
LEMMA StartStep ==
  ASSUME ProfilerIInv, Start
  PROVE  ProfilerIInv'
<1> USE ProfilerAssumption DEF ProfilerIInv
<1>1. /\ pending' \subseteq Timers /\ timer' \in Timers \cup {Null}
      /\ pending' = pending \cup {timer'}
      /\ Cardinality(pending') = Cardinality(pending) + 1
  <2>1. ScheduleNext(TRUE, pending)
    BY DEF Start
  <2>2. QED
    BY <2>1, Scheduled
<1>2. ProfilerTypeOK'
  BY <1>1 DEF Start, ProfilerTypeOK
<1>3. OneSessionAtATime' /\ LoopNeverDies'
  BY <1>1 DEF Start, OneSessionAtATime, LoopNeverDies, Running
<1>4. TimersCounted'
  BY <1>1, CountIsNat DEF Start, TimersCounted, ProfilerTypeOK
<1>5. TimerIsKnown'
  BY <1>1 DEF Start, TimerIsKnown, ProfilerTypeOK
<1>6. AwaitsInFlight'
  BY DEF Start, AwaitsInFlight
<1>7. QED
  BY <1>2, <1>3, <1>4, <1>5, <1>6

(* stop() cancels at most the timer it knows. *)
LEMMA StopStep ==
  ASSUME ProfilerIInv, NEW c \in Stops, Stop(c)
  PROVE  ProfilerIInv'
<1> USE ProfilerAssumption DEF ProfilerIInv, Stop
<1>1. ProfilerTypeOK'
  BY DEF ProfilerTypeOK
<1>2. OneSessionAtATime' /\ LoopNeverDies'
  BY DEF OneSessionAtATime, LoopNeverDies, Running
<1>3. TimersCounted'
  <2>1. Cardinality(pending') <= Cardinality(pending) /\ Cardinality(pending') \in Nat
    <3>1. CASE timer \in pending
      <4>1. Cardinality(pending') = Cardinality(pending) - 1
        BY <3>1, CountIsNat
      <4>2. IsFiniteSet(pending')
        BY CountIsNat, FS_RemoveElement
      <4>3. QED
        BY <4>1, <4>2, CountIsNat, FS_CardinalityType
    <3>2. CASE timer \notin pending
      <4>1. pending' = pending
        BY <3>2
      <4>2. QED
        BY <4>1, CountIsNat
    <3>3. QED
      BY <3>1, <3>2
  <2>2. QED
    BY <2>1, CountIsNat DEF TimersCounted, ProfilerTypeOK
<1>4. TimerIsKnown'
  BY DEF TimerIsKnown
<1>5. AwaitsInFlight'
  BY DEF AwaitsInFlight, ProfilerTypeOK
<1>6. QED
  BY <1>1, <1>2, <1>3, <1>4, <1>5

(* A timer that fires without a session is replaced, when started. *)
LEMMA FireIdleStep ==
  ASSUME ProfilerIInv, NEW t \in Timers, FireIdle(t)
  PROVE  ProfilerIInv'
<1> USE ProfilerAssumption DEF ProfilerIInv
<1>1. /\ t \in pending
      /\ UNCHANGED <<started, inFlight, loggedUploadError, phase, awaits, cap, starts, overlap>>
  BY DEF FireIdle
<1>2. /\ pending' \subseteq Timers /\ timer' \in Timers \cup {Null}
      /\ ~started => pending' = pending \ {t} /\ timer' = timer
      /\ started => pending' = (pending \ {t}) \cup {timer'}
      /\ Cardinality(pending') = Cardinality(pending \ {t}) + (IF started THEN 1 ELSE 0)
  <2>1. ScheduleNext(started, pending \ {t}) /\ started \in BOOLEAN
    BY DEF FireIdle, ProfilerTypeOK
  <2>2. QED
    BY <2>1, Scheduled
<1>3. ProfilerTypeOK'
  BY <1>1, <1>2 DEF ProfilerTypeOK
<1>4. OneSessionAtATime' /\ LoopNeverDies'
  BY <1>1, <1>2 DEF OneSessionAtATime, LoopNeverDies, Running
<1>5. TimersCounted'
  <2>1. Cardinality(pending \ {t}) = Cardinality(pending) - 1
    BY <1>1, CountIsNat
  <2>2. Cardinality(pending') <= Cardinality(pending) /\ Cardinality(pending') \in Int
    BY <1>2, <2>1, CountIsNat
  <2>3. QED
    BY <1>1, <2>2, CountIsNat DEF TimersCounted, ProfilerTypeOK
<1>6. TimerIsKnown'
  BY <1>1, <1>2 DEF TimerIsKnown, ProfilerTypeOK
<1>7. AwaitsInFlight'
  BY <1>1 DEF AwaitsInFlight
<1>8. QED
  BY <1>3, <1>4, <1>5, <1>6, <1>7

(* A timer that fires becomes the session, none being in flight. *)
LEMMA FireSessionStep ==
  ASSUME ProfilerIInv, NEW t \in Timers, FireSession(t)
  PROVE  ProfilerIInv'
<1> USE ProfilerAssumption DEF ProfilerIInv
<1>1. /\ t \in pending /\ inFlight = Null /\ pending' = pending \ {t}
      /\ UNCHANGED <<started, timer, loggedUploadError, awaits, cap, starts, overlap>>
  BY DEF FireSession, Busy
<1>2. \A s \in Sessions : phase[s] = "off"
  BY <1>1 DEF OneSessionAtATime, Running
<1>3. PICK s \in Sessions : inFlight' = s /\ phase' = [phase EXCEPT ![s] = "capture"]
  <2> DEFINE s == CHOOSE u \in Sessions : phase[u] = "off"
  <2>1. \E u \in Sessions : phase[u] = "off"
    BY <1>2, SomeSession
  <2>2. s \in Sessions
    BY <2>1
  <2>3. inFlight' = s /\ phase' = [phase EXCEPT ![s] = "capture"]
    BY DEF FireSession
  <2> HIDE DEF s
  <2>4. QED
    BY <2>2, <2>3
<1>4. ProfilerTypeOK'
  BY <1>1, <1>3 DEF ProfilerTypeOK
<1>5. Running' = {s}
  BY <1>2, <1>3 DEF Running, ProfilerTypeOK
<1>6. OneSessionAtATime' /\ LoopNeverDies'
  BY <1>3, <1>5 DEF OneSessionAtATime, LoopNeverDies
<1>7. TimersCounted'
  BY <1>1, <1>3, CountIsNat DEF TimersCounted, ProfilerTypeOK
<1>8. TimerIsKnown'
  BY <1>1, <1>3 DEF TimerIsKnown
<1>9. AwaitsInFlight'
  <2>1. \A c \in Stops : awaits[c] = Null
    BY <1>2 DEF FireSession, TimersMayFire, Settled, ProfilerTypeOK
  <2>2. QED
    BY <1>1, <2>1 DEF AwaitsInFlight
<1>10. QED
  BY <1>4, <1>6, <1>7, <1>8, <1>9

(* The end of a session sets the next timer, when started. *)
LEMMA FinallyStep ==
  ASSUME ProfilerIInv, NEW s \in Sessions, phase[s] # "off", Finally(s),
         loggedUploadError' \in BOOLEAN, UNCHANGED <<started, awaits, cap, starts, overlap>>
  PROVE  ProfilerIInv'
<1> USE ProfilerAssumption DEF ProfilerIInv
<1>1. inFlight = s /\ inFlight' = Null /\ phase' = [phase EXCEPT ![s] = "off"]
  BY InFlightIs DEF Finally
<1>2. /\ pending' \subseteq Timers /\ timer' \in Timers \cup {Null}
      /\ ~started => pending' = pending /\ timer' = timer
      /\ started => pending' = pending \cup {timer'}
      /\ Cardinality(pending') = Cardinality(pending) + (IF started THEN 1 ELSE 0)
  <2>1. ScheduleNext(started, pending) /\ started \in BOOLEAN
    BY DEF Finally, ProfilerTypeOK
  <2>2. QED
    BY <2>1, Scheduled
<1>3. ProfilerTypeOK'
  BY <1>1, <1>2 DEF ProfilerTypeOK
<1>4. Running' = {}
  BY <1>1 DEF Running, OneSessionAtATime, ProfilerTypeOK
<1>5. OneSessionAtATime' /\ LoopNeverDies'
  BY <1>1, <1>2, <1>4 DEF OneSessionAtATime, LoopNeverDies
<1>6. TimersCounted'
  BY <1>1, <1>2, CountIsNat DEF TimersCounted, ProfilerTypeOK
<1>7. TimerIsKnown'
  BY <1>1, <1>2 DEF TimerIsKnown, ProfilerTypeOK
<1>8. AwaitsInFlight'
  BY <1>1 DEF AwaitsInFlight
<1>9. QED
  BY <1>3, <1>5, <1>6, <1>7, <1>8

(***************************************************************************)
(* ProfilerIInv holds at the start and after every step.                           *)
(***************************************************************************)
THEOREM ProfilerInductive == ProfilerSpec => []ProfilerIInv
<1>1. ProfilerInit => ProfilerIInv
  <2> SUFFICES ASSUME ProfilerInit PROVE ProfilerIInv
    OBVIOUS
  <2>1. ProfilerTypeOK
    <3>1. 0 \in 0..MaxStarts
      BY ProfilerAssumption
    <3>2. phase \in [Sessions -> {"off", "capture", "upload"}]
      BY DEF ProfilerInit
    <3>3. QED
      BY <3>1, <3>2 DEF ProfilerInit, ProfilerTypeOK
  <2>2. Cardinality(pending) = 0
    BY FS_EmptySet DEF ProfilerInit
  <2>3. Running = {} /\ inFlight = Null /\ started = FALSE /\ pending = {} /\ starts = 0
    BY DEF ProfilerInit, Running
  <2>4. OneSessionAtATime /\ LoopNeverDies /\ TimersCounted /\ TimerIsKnown
    BY <2>2, <2>3 DEF OneSessionAtATime, LoopNeverDies, TimersCounted, TimerIsKnown
  <2>5. AwaitsInFlight
    BY DEF ProfilerInit, AwaitsInFlight
  <2>6. QED
    BY <2>1, <2>4, <2>5 DEF ProfilerIInv
<1>2. ProfilerIInv /\ [ProfilerNext]_profilerVars => ProfilerIInv'
  <2> SUFFICES ASSUME ProfilerIInv, [ProfilerNext]_profilerVars PROVE ProfilerIInv'
    OBVIOUS
  <2>1. ASSUME NEW c \in Stops, CapFires(c) \/ StopReturns(c) PROVE ProfilerIInv'
    <3>1. ProfilerTypeOK'
      BY <2>1 DEF CapFires, StopReturns, ProfilerIInv, ProfilerTypeOK
    <3>2. AwaitsInFlight'
      BY <2>1 DEF CapFires, StopReturns, ProfilerIInv, ProfilerTypeOK, AwaitsInFlight
    <3>3. UNCHANGED <<started, timer, inFlight, pending, phase, starts, overlap>>
      BY <2>1 DEF CapFires, StopReturns
    <3>4. QED
      BY <3>1, <3>2, <3>3 DEF ProfilerIInv, OneSessionAtATime, LoopNeverDies,
                              TimersCounted, TimerIsKnown, Running
  <2>2. ASSUME NEW s \in Sessions, Capture(s) PROVE ProfilerIInv'
    <3>1. ProfilerTypeOK'
      BY <2>2 DEF Capture, ProfilerIInv, ProfilerTypeOK
    <3>2. Running' = Running
      BY <2>2 DEF Capture, ProfilerIInv, ProfilerTypeOK, Running
    <3>3. QED
      BY <2>2, <3>1, <3>2
         DEF Capture, ProfilerIInv, OneSessionAtATime, LoopNeverDies, TimersCounted,
             TimerIsKnown, AwaitsInFlight
  <2>3. ASSUME NEW s \in Sessions, Uploaded(s) PROVE ProfilerIInv'
    BY <2>3, FinallyStep DEF Uploaded
  <2>4. ASSUME NEW s \in Sessions, Fails(s) PROVE ProfilerIInv'
    BY <2>4, FinallyStep DEF Fails, LogUploadErrorOnce
  <2>5. CASE UNCHANGED profilerVars
    BY <2>5 DEF profilerVars, ProfilerIInv, ProfilerTypeOK, OneSessionAtATime, LoopNeverDies, TimersCounted,
                TimerIsKnown, AwaitsInFlight, Running
  <2>6. QED
    BY <2>1, <2>2, <2>3, <2>4, <2>5, StartStep, StopStep, FireIdleStep, FireSessionStep
       DEF ProfilerNext, Session
<1>3. QED
  BY <1>1, <1>2, PTL DEF ProfilerSpec

(***************************************************************************)
(* Type correctness of the fields of the profiler: in particular there is  *)
(* a timer identity left whenever it schedules.  (auto-profiler.js:80-96)  *)
(***************************************************************************)
THEOREM ProfilerTypeCorrect == ProfilerSpec => []ProfilerTypeOK
<1>1. ProfilerIInv => ProfilerTypeOK
  BY DEF ProfilerIInv
<1>2. QED
  BY <1>1, ProfilerInductive, PTL

(***************************************************************************)
(* However often it is started and stopped, one session runs at a time and *)
(* _inFlight is that session.  (auto-profiler.js:186-209)                  *)
(***************************************************************************)
THEOREM SessionsDoNotOverlap == ProfilerSpec => []OneSessionAtATime
<1>1. ProfilerIInv => OneSessionAtATime
  BY DEF ProfilerIInv
<1>2. QED
  BY <1>1, ProfilerInductive, PTL

(***************************************************************************)
(* A started profiler has a timer pending or a session that will set one,  *)
(* however its sessions end.  (auto-profiler.js:152-209)                   *)
(***************************************************************************)
THEOREM ProfilerGoesOn == ProfilerSpec => []LoopNeverDies
<1>1. ProfilerIInv => LoopNeverDies
  BY DEF ProfilerIInv
<1>2. QED
  BY <1>1, ProfilerInductive, PTL

(***************************************************************************)
(* As long as no start() came during a session, a started profiler has one *)
(* timer or one session, and a stopped one has no timer.                   *)
(* (auto-profiler.js:93-96, 177-183, 204-207)                              *)
(***************************************************************************)
THEOREM OneThingAtATime == ProfilerSpec => []OneTimerOrSession
<1>1. ProfilerIInv => OneTimerOrSession
  <2> SUFFICES ASSUME ProfilerIInv, ~overlap
               PROVE  IF started THEN Cardinality(pending) + Cardinality(Running) = 1
                      ELSE pending = {}
    BY DEF OneTimerOrSession
  <2>1. CASE started /\ inFlight # Null
    <3>1. pending = {} /\ Running = {inFlight}
      BY <2>1 DEF ProfilerIInv, TimerIsKnown, OneSessionAtATime
    <3>2. Cardinality(pending) = 0 /\ Cardinality(Running) = 1
      BY <3>1, FS_EmptySet, FS_Singleton
    <3>3. QED
      BY <2>1, <3>2
  <2>2. CASE started /\ inFlight = Null
    <3>1. pending = {timer} /\ Running = {}
      BY <2>2 DEF ProfilerIInv, TimerIsKnown, OneSessionAtATime
    <3>2. Cardinality(pending) = 1 /\ Cardinality(Running) = 0
      BY <3>1, FS_EmptySet, FS_Singleton
    <3>3. QED
      BY <2>2, <3>2
  <2>3. CASE ~started
    BY <2>3 DEF ProfilerIInv, TimerIsKnown
  <2>4. QED
    BY <2>1, <2>2, <2>3
<1>2. QED
  BY <1>1, ProfilerInductive, PTL

(***************************************************************************)
(* A call of stop() that its timer did not end returns to a producer at    *)
(* rest, for any number of calls, unless it was started again.             *)
(* (auto-profiler.js:160, 163-172, 204-207)                                *)
(***************************************************************************)
THEOREM StopIsComplete == ProfilerSpec => StopLeavesNothing
<1>1. ProfilerIInv /\ [ProfilerNext]_profilerVars =>
        [\A c \in Stops :
           awaits[c] # Null /\ awaits'[c] = Null /\ cap[c] # "fired" /\ ~started /\ ~overlap
             => Running = {} /\ pending = {}]_profilerVars
  <2> SUFFICES ASSUME ProfilerIInv, [ProfilerNext]_profilerVars, NEW c \in Stops,
                      awaits[c] # Null, awaits'[c] = Null, cap[c] # "fired",
                      ~started, ~overlap
               PROVE  Running = {} /\ pending = {}
    OBVIOUS
  <2>1. awaits \in [Stops -> Sessions \cup {Null}]
    BY DEF ProfilerIInv, ProfilerTypeOK
  <2>2. phase[awaits[c]] = "off"
    <3>1. \/ UNCHANGED awaits
          \/ \E d \in Stops : Stop(d) \/ StopReturns(d)
      BY DEF ProfilerNext, profilerVars, Start, CapFires, FireIdle, FireSession, Session,
             Capture, Uploaded, Fails
    <3>2. PICK d \in Stops : Stop(d) \/ StopReturns(d)
      BY <3>1
    <3>3. d = c
      BY <2>1, <3>2 DEF Stop, StopReturns
    <3>4. QED
      BY <3>2, <3>3 DEF Stop, StopReturns, Settled
  <2>3. inFlight = Null
    <3>1. CASE inFlight = awaits[c]
      <4>1. awaits[c] \in Running
        BY <3>1 DEF ProfilerIInv, OneSessionAtATime
      <4>2. QED
        BY <2>2, <4>1 DEF Running
    <3>2. QED
      BY <3>1 DEF ProfilerIInv, AwaitsInFlight
  <2>4. QED
    BY <2>3 DEF ProfilerIInv, OneSessionAtATime, TimerIsKnown
<1>2. QED
  BY <1>1, ProfilerInductive, PTL DEF ProfilerSpec, StopLeavesNothing
=============================================================================
