--------------------------------- MODULE WebUI ---------------------------------
(***************************************************************************)
(* The page (web/static/app.js): its selection and settings, the           *)
(* comparisons and blocking views it asks the server for, the table or     *)
(* view it shows, and the drawer that breaks one row down.  Every handler  *)
(* runs to its await in one step; requests are answered in any order, with *)
(* a result or an error, and each answer is drawn when it comes.           *)
(*                                                                         *)
(* An answer is the request it answers.  While the drawer is open its      *)
(* backdrop covers the page, so the page's controls are out of reach.  The *)
(* number of rows asked for, which the next run reads, is left out.        *)
(***************************************************************************)
EXTENDS Integers, Sequences, FiniteSets, SequencesExt

CONSTANTS
  Groups,     \* group ids that can be selected
  Dims,       \* tabs: dimensions, and "blocking"
  Metrics, Categories,  \* what the other controls can be set to
  Keys,       \* keys of rows
  MaxWork,    \* bound on what is asked for: a breakdown counts one, a
              \* comparison or a blocking view three
  None        \* nothing

Views == [dim : Dims, metric : Metrics, cats : Categories]
RunRecord == [n : 1..MaxWork, view : Views, groups : Seq(Groups)]
Pct == -1
Drillable == Dims \ {"overall", "blocking"}

ASSUME WebUIAssumption ==
  /\ {"overall", "blocking"} \subseteq Dims
  /\ "selfPctBusy" \in Metrics /\ "all" \in Categories
  /\ MaxWork \in Nat /\ None \notin Groups \cup Keys \cup Dims \cup RunRecord

VARIABLES
  view,      \* state.dim, metric and categories
  selected,  \* state.selected
  runs,      \* comparisons and blocking views under way
  result,    \* #result: what it shows, of which request, drawn on which tab
  matrix,    \* state.matrix: the request it answers; whether it has rows
  sort,      \* state.sort: 0 for none, a column, or Pct
  summaries, \* #summaries: the request its cards are of
  progress,  \* #progress is visible
  bd,        \* bdState and whether the drawer is open
  body,      \* the drawer as last drawn: the number of its body element, what
             \* that shows, and how many groups it offers
  drills,    \* breakdowns under way
  \* histories
  last,      \* the newest run
  overtaken, \* of the runs under way together, a newer was answered first
  alone,     \* no run was asked for while another was under way
  unheeded   \* a setting was changed with nothing selected

pageVars == <<view, selected, runs, result, matrix, sort, summaries, progress>>
drawerVars == <<bd, body, drills>>
historyVars == <<last, overtaken, alone, unheeded>>
vars == <<pageVars, drawerVars, historyVars>>

Shows(kind, run) == [kind |-> kind, of |-> run, dim |-> None]

Init ==
  /\ view = [dim |-> "overall", metric |-> "selfPctBusy", cats |-> "all"]
  /\ selected = <<>> /\ runs = {} /\ progress = FALSE
  /\ result = Shows("empty", None) /\ matrix = [of |-> None, rows |-> FALSE]
  /\ sort = 0 /\ summaries = None
  /\ bd = [open |-> FALSE, dim |-> "function", key |-> None, group |-> 1,
           stitch |-> TRUE, contextSort |-> "micros"]
  /\ body = [n |-> 0, shows |-> "nothing", of |-> None, choices |-> 0] /\ drills = {}
  /\ last = None /\ overtaken = FALSE /\ alone = TRUE /\ unheeded = FALSE

RunCount == IF last = None THEN 0 ELSE last.n
Work == 3 * RunCount + body.n

-----------------------------------------------------------------------------
(***************************************************************************)
(* runCompare and runBlocking up to their await, with settings v: the      *)
(* first clears the result and shows the bar, the second clears summaries. *)
(***************************************************************************)
Run(v) ==
  /\ Work + 3 <= MaxWork
  /\ IF selected = <<>>
     THEN /\ result' = Shows("empty", None)
          /\ UNCHANGED <<runs, progress, summaries, historyVars>>
     ELSE /\ last' = [n |-> RunCount + 1, view |-> v, groups |-> selected]
          /\ runs' = runs \cup {last'}
          /\ result' = Shows("waiting", None)
          /\ progress' = (progress \/ v.dim # "blocking")
          /\ summaries' = IF v.dim = "blocking" THEN None ELSE summaries
          /\ alone' = (runs = {}) /\ unheeded' = FALSE
          /\ overtaken' = (overtaken /\ runs # {})
  /\ UNCHANGED <<matrix, sort>>

(* The button "View" or "Compare". *)
Refresh ==
  /\ ~bd.open
  /\ Run(view)
  /\ UNCHANGED <<view, selected, drawerVars>>

(* Mutant of Rerun: a control that only sets the state. *)
NoRerun(v) == UNCHANGED <<runs, result, matrix, sort, summaries, progress, historyVars>>

(* What a tab, the metric and the filters do after setting the state. *)
Rerun(v) ==
  IF selected # <<>> THEN Run(v)
  ELSE /\ unheeded' = TRUE
       /\ UNCHANGED <<runs, result, matrix, sort, summaries, progress, last, overtaken, alone>>

SetView(v) ==
  /\ ~bd.open /\ v # view
  /\ view' = v
  /\ Rerun(v)
  /\ UNCHANGED <<selected, drawerVars>>

(* addSelected, by a button or by an upload that is done, be the drawer open. *)
AddSelected(g) ==
  /\ ~Contains(selected, g)
  /\ selected' = Append(selected, g)
  /\ UNCHANGED <<view, runs, result, matrix, sort, summaries, progress,
                 drawerVars, historyVars>>

(* removeSelected and "clear"; neither runs anything. *)
Deselect(rest) ==
  /\ ~bd.open
  /\ selected' = rest
  /\ UNCHANGED <<view, runs, result, matrix, sort, summaries, progress,
                 drawerVars, historyVars>>

-----------------------------------------------------------------------------
(* renderMatrix *)
Render(m) ==
  result' = IF m.rows THEN [Shows("table", m.of) EXCEPT !.dim = view.dim]
            ELSE Shows("no data", m.of)

(* A request is over; was it answered after a newer one? *)
Over(r) ==
  /\ runs' = runs \ {r}
  /\ overtaken' = (overtaken \/ \E n \in (r.n + 1)..last.n : \A q \in runs : q.n # n)
  /\ UNCHANGED <<view, selected, drawerVars, last, alone, unheeded>>

(* A progress line of the stream. *)
Progress(r) ==
  /\ r.view.dim # "blocking"
  /\ progress' = TRUE
  /\ UNCHANGED <<view, selected, runs, result, matrix, sort, summaries,
                 drawerVars, historyVars>>

(* Mutant of ShowMatrix: the order of the table before is kept. *)
ShowMatrixKeepsSort(r, rows) ==
  /\ progress' = FALSE
  /\ matrix' = [of |-> r, rows |-> rows]
  /\ summaries' = r
  /\ Render(matrix')
  /\ UNCHANGED sort

(* The stream ends with a result. *)
ShowMatrix(r, rows) ==
  /\ progress' = FALSE
  /\ matrix' = [of |-> r, rows |-> rows]
  /\ sort' = 0
  /\ summaries' = r
  /\ Render(matrix')

(* The request or its stream fails. *)
ShowError(r) ==
  /\ progress' = (progress /\ r.view.dim = "blocking")
  /\ result' = Shows("error", r)
  /\ UNCHANGED <<matrix, sort, summaries>>

(* A blocking view is drawn over whatever #result shows. *)
ShowBlocking(r) ==
  /\ result' = Shows("blocking", r)
  /\ UNCHANGED <<matrix, sort, summaries, progress>>

Answer(r) ==
  /\ IF r.view.dim = "blocking"
     THEN ShowBlocking(r) \/ ShowError(r)
     ELSE (\E rows \in BOOLEAN : ShowMatrix(r, rows)) \/ ShowError(r)
  /\ Over(r)

(* A click on a column of the table shown; a second one turns the order. *)
SortBy(col) ==
  /\ ~bd.open /\ result.kind = "table"
  /\ \/ col \in 1..Len(result.of.groups)
     \/ col = Pct /\ Len(result.of.groups) > 1
  /\ sort' = col
  /\ Render(matrix)
  /\ UNCHANGED <<view, selected, runs, matrix, summaries, progress,
                 drawerVars, historyVars>>

-----------------------------------------------------------------------------
(* refreshBreakdown: a new body; the request is of the state as it is now. *)
RefreshBreakdown(b) ==
  /\ Work + 1 <= MaxWork
  /\ bd' = b
  /\ body' = [n |-> body.n + 1, shows |-> "waiting", of |-> None, choices |-> Len(selected)]
  /\ drills' = IF b.group > Len(selected) THEN drills
               ELSE drills \cup {[n |-> body.n + 1, what |-> b,
                                  group |-> selected[b.group], cats |-> view.cats]}
  /\ UNCHANGED <<pageVars, historyVars>>

(* Mutant of OpenBreakdown: the group chosen before is kept. *)
OpenBreakdownKeeps(dim, key) ==
  RefreshBreakdown([bd EXCEPT !.open = TRUE, !.dim = dim, !.key = key])

(* openBreakdown: the group chosen before is kept if there still is one. *)
OpenBreakdown(dim, key) ==
  RefreshBreakdown([bd EXCEPT !.open = TRUE, !.dim = dim, !.key = key,
                              !.group = IF @ > Len(selected) THEN 1 ELSE @])

(* A click on a row drawn as a link: the dimension is that of the tab now. *)
OpenRow(key) ==
  /\ ~bd.open /\ result.kind = "table" /\ selected # <<>>
  /\ result.dim \in Drillable
  /\ OpenBreakdown(view.dim, key)

(* A click on a row of the breakdown shown. *)
Drill(dim, key) ==
  /\ bd.open /\ body.shows = "answer"
  /\ OpenBreakdown(dim, key)

(* The drawer's controls: the group, stitching, the order of contexts. *)
ChooseGroup(i) ==
  /\ bd.open /\ body.choices > 1 /\ i # bd.group
  /\ RefreshBreakdown([bd EXCEPT !.group = i])

ToggleStitch ==
  /\ bd.open /\ bd.dim = "function"
  /\ RefreshBreakdown([bd EXCEPT !.stitch = ~@])

SortContexts ==
  /\ bd.open /\ bd.dim = "function" /\ body.shows = "answer"
  /\ RefreshBreakdown([bd EXCEPT !.contextSort =
                         IF @ = "micros" THEN "pctOfContext" ELSE "micros"])

CloseBreakdown ==
  /\ bd.open
  /\ bd' = [bd EXCEPT !.open = FALSE]
  /\ UNCHANGED <<pageVars, historyVars, body, drills>>

(* Mutant of AnswerDrill: the answer goes to the body that is there now. *)
AnswerDrillAnywhere(d) ==
  /\ drills' = drills \ {d}
  /\ \E shows \in {"answer", "error"} : body' = [body EXCEPT !.shows = shows, !.of = d]
  /\ UNCHANGED <<pageVars, historyVars, bd>>

(* The answer goes to the body of its call, which may be off the page. *)
AnswerDrill(d) ==
  /\ drills' = drills \ {d}
  /\ \E shows \in {"answer", "error"} :
       body' = IF body.n = d.n THEN [body EXCEPT !.shows = shows, !.of = d] ELSE body
  /\ UNCHANGED <<pageVars, historyVars, bd>>

User ==
  \/ Refresh
  \/ \E v \in Views : SetView(v)
  \/ \E g \in Groups : AddSelected(g)
  \/ \E i \in 1..Len(selected) : Deselect(RemoveAt(selected, i))
  \/ selected # <<>> /\ Deselect(<<>>)
  \/ \E col \in 1..Cardinality(Groups) : SortBy(col)
  \/ SortBy(Pct)
  \/ \E key \in Keys : OpenRow(key) \/ \E dim \in Drillable : Drill(dim, key)
  \/ \E i \in 1..body.choices : ChooseGroup(i)
  \/ ToggleStitch \/ SortContexts
  \/ CloseBreakdown

Server ==
  \/ \E r \in runs : Progress(r) \/ Answer(r)
  \/ \E d \in drills : AnswerDrill(d)

Next == User \/ Server

Spec == Init /\ [][Next]_vars

-----------------------------------------------------------------------------
DrawerState == [open : BOOLEAN, dim : Dims \cup {"function"}, key : Keys \cup {None},
                group : Nat \ {0}, stitch : BOOLEAN,
                contextSort : {"micros", "pctOfContext"}]
DrillRecord == [n : 1..MaxWork, what : DrawerState, group : Groups, cats : Categories]

Kinds == {"empty", "waiting", "table", "no data", "blocking", "error"}
ResultState == [kind : Kinds, of : RunRecord \cup {None}, dim : Dims \cup {None}]
BodyState == [n : 0..MaxWork, shows : {"nothing", "waiting", "answer", "error"},
              of : DrillRecord \cup {None}, choices : Nat]

PageTypes ==
  /\ view \in Views /\ selected \in Seq(Groups) /\ runs \subseteq RunRecord
  /\ result \in ResultState /\ summaries \in RunRecord \cup {None}
  /\ matrix \in [of : RunRecord \cup {None}, rows : BOOLEAN]
  /\ sort \in Int /\ progress \in BOOLEAN

HistoryTypes ==
  /\ last \in RunRecord \cup {None}
  /\ overtaken \in BOOLEAN /\ alone \in BOOLEAN /\ unheeded \in BOOLEAN

DrawerTypes == bd \in DrawerState /\ body \in BodyState /\ drills \subseteq DrillRecord

(* Type invariant of the page, of its drawer and of the histories. *)
TypeOK == PageTypes /\ HistoryTypes /\ DrawerTypes

Quiet == runs = {}
Answered == result.kind \in {"table", "no data", "blocking", "error"}

(***************************************************************************)
(* The table on the page is of state.matrix, and the column it is sorted   *)
(* by is one of its own, in whatever order answers, errors and clicks      *)
(* come: a click on a header can neither bring back another table nor read *)
(* a cell that a row does not have.  (app.js:215-218, 488-505)             *)
(***************************************************************************)
TableIsStored ==
  result.kind = "table" =>
    /\ matrix.rows /\ result.of = matrix.of
    /\ sort \in {0} \cup (1..Len(matrix.of.groups)) \cup
                  (IF Len(matrix.of.groups) > 1 THEN {Pct} ELSE {})

(***************************************************************************)
(* Once no request is under way nothing pretends to wait: no "Comparing…", *)
(* no "Loading…" and no progress bar stay behind, whichever of overlapping *)
(* requests failed or came last.  (app.js:175-225, 234-246, 325-337)       *)
(***************************************************************************)
NothingHangs ==
  /\ Quiet => ~progress /\ result.kind # "waiting"
  /\ drills = {} => ~(bd.open /\ body.shows = "waiting")

(***************************************************************************)
(* At rest the page shows the newest run unless an older answer overtook   *)
(* it; a page whose runs never overlapped also shows the cards of that     *)
(* run, and it is a run of the tab, metric and filters as they are set,    *)
(* unless they were set with nothing selected.  (app.js:842-860 "Re-fetch  *)
(* so server-side Top-N ranking and trend match the chosen metric")        *)
(***************************************************************************)
SettlesOnChoice ==
  Quiet /\ Answered =>
    /\ ~overtaken => result.of = last
    /\ alone => CASE result.kind = "blocking" -> summaries = None
                  [] result.kind = "error" -> TRUE
                  [] OTHER -> summaries = last
    /\ alone /\ ~unheeded => last.view = view

(***************************************************************************)
(* The open drawer never shows the breakdown of another entity, group or   *)
(* setting than its head and controls say, in whatever order breakdowns    *)
(* are answered, be it after it was closed and opened again or while an    *)
(* upload adds to the selection.  (app.js:601-681)                         *)
(***************************************************************************)
DrawerIsCurrent ==
  bd.open /\ body.shows \in {"answer", "error"} =>
    /\ body.of.what = bd /\ body.of.cats = view.cats
    /\ bd.group <= Len(selected) /\ body.of.group = selected[bd.group]
-----------------------------------------------------------------------------
(* The inductive invariant of the proofs, in parts. *)
(* A request under way is the last or an older one, and each has its number. *)
RunsAreNumbered ==
  \A r \in runs : last # None /\ r.n <= last.n /\ (r.n = last.n => r = last)

(* What waits has something to wait for. *)
WaitsForARun ==
  /\ progress => \E r \in runs : r.view.dim # "blocking"
  /\ result.kind = "waiting" => runs # {}
  /\ Answered => last # None

(* What is known of the last run when the runs do not overlap. *)
LastRunAlone ==
  /\ alone => runs \subseteq {last}
  /\ alone /\ last # None =>
       ~overtaken /\ (last.view.dim = "blocking" => summaries = None)
  /\ last # None /\ ~unheeded => last.view = view

PageInv == RunsAreNumbered /\ WaitsForARun /\ LastRunAlone /\ TableIsStored /\ SettlesOnChoice

(* The drawer is open on a selected group, and waits for its own breakdown. *)
DrawerIsServed ==
  /\ \A d \in drills : d.n <= body.n
  /\ bd.open =>
       /\ bd.group <= Len(selected) /\ body.choices <= Len(selected)
       /\ body.shows = "waiting" => \E d \in drills : d.n = body.n
       /\ \A d \in drills : d.n = body.n =>
            d.what = bd /\ d.cats = view.cats /\ d.group = selected[bd.group]

DrawerInv == DrawerIsServed /\ DrawerIsCurrent

IInv == TypeOK /\ PageInv /\ DrawerInv
=============================================================================
