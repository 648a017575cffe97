----------------------------- MODULE QuickView ------------------------------
(***************************************************************************)
(* The pivot grid of web/app.js: filters that change at once, queries that *)
(* are answered later, pages that are rendered anew, and the edit of a     *)
(* displayed cell, which becomes a write to /api/data/cells.               *)
(*                                                                         *)
(* A view is what a query asks for: the month of the page's point of view, *)
(* the stage and the origin.  What is on screen is a view (the table drawn *)
(* from that query's answer) or Nothing.  All cells are leaves.            *)
(***************************************************************************)
EXTENDS Naturals, FiniteSets

CONSTANTS Months, Stages, Origins, UserOrigins,
          MaxQueries,   \* bound: queries over the whole behaviour
          MaxPages      \* bound: renderings of the page

Nothing == [month |-> "", stage |-> "", origin |-> ""]
Views   == [month : Months, stage : Stages, origin : Origins]

VARIABLES
  month,    \* state.pov.time
  stage,    \* gridState.stage
  origin,   \* gridState.origin
  norm,     \* gridState.norm: the view of the last answer, or Nothing
  page,     \* which rendering of the page is attached, 1, 2, ...
  loaded,   \* its member lists have come, the grid is drawn
  shown,    \* the view on screen, or Nothing
  pending,  \* queries in flight: their number, view and page
  sent,     \* how many queries have been sent
  saving,   \* the page whose edit is being posted (0: none; bound: one at a time)
  write     \* the last edit: the view it replaced a value of, and its target

vars == <<month, stage, origin, norm, page, loaded, shown, pending, sent, saving, write>>

NoWrite == [seen |-> Nothing, target |-> Nothing]

Init == /\ month \in Months /\ stage = "Consolidated" /\ origin = "all"
        /\ norm = Nothing /\ page = 1 /\ loaded = TRUE /\ shown = Nothing
        /\ pending = {} /\ sent = 0 /\ saving = 0 /\ write = NoWrite

\* buildPOVBar onChange: grid results are stale now, render the page again.
SetMonth(m) ==
  /\ m # month /\ page < MaxPages
  /\ month' = m /\ norm' = Nothing
  /\ page' = page + 1 /\ loaded' = FALSE /\ shown' = Nothing
  /\ UNCHANGED <<stage, origin, pending, sent, saving, write>>

\* renderGrid resumes when its dimMembers have come, and draws the last answer.
PageLoaded ==
  /\ ~loaded
  /\ loaded' = TRUE /\ shown' = norm
  /\ UNCHANGED <<month, stage, origin, norm, page, pending, sent, saving, write>>

\* The onchange handlers of the Stage and Origin filters.
SetStage(s) ==
  /\ loaded /\ s # stage
  /\ stage' = s
  /\ UNCHANGED <<month, origin, norm, page, loaded, shown, pending, sent, saving, write>>

SetOrigin(o) ==
  /\ loaded /\ o # origin
  /\ origin' = o
  /\ UNCHANGED <<month, stage, norm, page, loaded, shown, pending, sent, saving, write>>

\* runQuery up to its await, for the result box of page p.  The member lists it
\* waits for before it reads the filters are in the cache by then.
SendQuery(p) ==
  /\ sent < MaxQueries
  /\ sent' = sent + 1
  /\ pending' = pending \cup {[id |-> sent + 1, page |-> p,
                               view |-> [month |-> month, stage |-> stage, origin |-> origin]]}
  /\ shown' = IF p = page THEN Nothing ELSE shown

Run ==
  /\ loaded /\ SendQuery(page)
  /\ UNCHANGED <<month, stage, origin, norm, page, loaded, saving, write>>

\* runQuery after its await: answers come in any order, and one that belongs to
\* a page no longer attached is drawn where nobody sees it.
Answer(q) ==
  /\ pending' = pending \ {q}
  /\ norm' = q.view
  /\ shown' = IF loaded /\ q.page = page THEN q.view ELSE shown
  /\ UNCHANGED <<month, stage, origin, page, loaded, sent, saving, write>>

QueryFails(q) ==
  /\ pending' = pending \ {q}
  /\ norm' = Nothing
  /\ shown' = IF loaded /\ q.page = page THEN Nothing ELSE shown
  /\ UNCHANGED <<month, stage, origin, page, loaded, sent, saving, write>>

\* editGridCell up to its await: a double click on a cell of the table on
\* screen, a value typed, and the write posted.
Edit ==
  /\ loaded /\ shown # Nothing /\ norm # Nothing /\ saving = 0
  /\ stage = "Local" /\ origin \in UserOrigins
  /\ write' = [seen |-> shown, target |-> [month |-> month, stage |-> "Local", origin |-> origin]]
  /\ saving' = page
  /\ UNCHANGED <<month, stage, origin, norm, page, loaded, shown, pending, sent>>

\* editGridCell after its await: a saved cell is followed by a new query.
EditSaved ==
  /\ saving # 0 /\ saving' = 0 /\ SendQuery(saving)
  /\ UNCHANGED <<month, stage, origin, norm, page, loaded, write>>

EditRefused ==
  /\ saving # 0 /\ saving' = 0
  /\ UNCHANGED <<month, stage, origin, norm, page, loaded, shown, pending, sent, write>>

Next == \/ \E m \in Months : SetMonth(m)
        \/ PageLoaded
        \/ \E s \in Stages : SetStage(s)
        \/ \E o \in Origins : SetOrigin(o)
        \/ Run \/ Edit \/ EditSaved \/ EditRefused
        \/ \E q \in pending : Answer(q) \/ QueryFails(q)

Spec == Init /\ [][Next]_vars

(* app.js:690-693, "Replace-what-you-see semantics: edits are only allowed *)
(* against a specific user origin, so the displayed value is the one being *)
(* replaced": the table the user clicked on shows the cells the write      *)
(* replaces.                                                               *)
ReplacesWhatYouSee == write.seen = write.target
=============================================================================
