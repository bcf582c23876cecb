------------------------------- MODULE MCPanels -------------------------------
(***************************************************************************)
(* The editor, the panels and the executor, which share no state with one  *)
(* another: `focus` is the one that is in use, the others rest, and the    *)
(* state space is the sum of theirs.                                       *)
(***************************************************************************)
EXTENDS Activity, EditorText, History, PlanView, Diagram, Palette, GridView, MCQueryExecutor

CONSTANTS server, replica, file
VARIABLE focus

panelsVars == <<activityVars, editorVars, historyVars, planVars, diagramVars, paletteVars, gridViewVars, execVars, focus>>

MCDatabases == [c \in {server, replica, file} |-> {c}]
MCDefaultDb == [c \in {server, replica, file} |-> c]

Fk(n, s, c, t) == [name |-> n, source |-> s, column |-> c, target |-> t]

\* A junction between two tables and one of them to itself; constraints of two
\* columns and a chain; a database schema without tables.
MCDiagramSchemas ==
  {[tables |-> {"film_actor", "film", "actor"},
    pk     |-> [t \in {"film_actor", "film", "actor"} |-> IF t = "film_actor" THEN {"x", "y"} ELSE {"x"}],
    fks    |-> <<Fk("f1", "film_actor", "x", "film"), Fk("f2", "film_actor", "y", "actor")>>],
   [tables |-> {"film_actor", "film"},
    pk     |-> [t \in {"film_actor", "film"} |-> {"x"}],
    fks    |-> <<Fk("f1", "film_actor", "x", "film"), Fk("f1", "film_actor", "y", "film"),
                 Fk("f3", "film", "x", "film")>>],
   [tables |-> {}, pk |-> <<>>, fks |-> <<>>]}

\* Answers of two result sets: columns that can be ordered or not, with nulls and
\* ties, more rows than the filter looks at, and every other kind of result.
Answer(columns, lines) == [kind |-> "data", columns |-> columns, rows |-> lines]
Other(kind) == [kind |-> kind, columns |-> <<>>, rows |-> <<>>]
Film  == Answer(<<"id", "title">>, <<<<2, 9>>, <<1, 3>>, <<-1, 9>>, <<2, -1>>>>)
Actor == Answer(<<"id">>, <<<<3>>, <<9>>, <<1>>>>)
Stock == Answer(<<"n", "title">>, <<<<-1, 3>>, <<1, 3>>, <<2, 9>>, <<1, 9>>>>)
Showing(rs, i) == [NothingRun EXCEPT !.results = rs, !.activeResult = i]

MCViews ==
  {NothingRun, [NothingRun EXCEPT !.busy = TRUE]}
    \cup {Showing(rs, i) : rs \in {<<Film, Actor>>, <<Stock, Other("message")>>}, i \in 0..1}
    \cup {Showing(<<Film, Other("plan")>>, 1), Showing(<<Other("error")>>, 0), Showing(<<Answer(<<"id">>, <<>>)>>, 0)}
    \cup {[Showing(<<Film>>, i) EXCEPT !.showDiagram = d, !.showActivity = d] : i \in {-1, -2}, d \in BOOLEAN}

Init ==
  /\ focus \in {"activity", "editor", "history", "plan", "diagram", "palette", "grid", "executor"}
  /\ ActivityInit /\ EditorInit /\ HistoryInit /\ DiagramInit /\ PaletteInit /\ GridViewInit
  /\ ExecInit
  /\ \/ focus = "plan" /\ PlanInit
     \/ focus # "plan" /\ capture = <<>> /\ results = <<>> /\ plan = <<>>

Next ==
  \/ /\ focus = "activity" /\ ActivityNext
     /\ UNCHANGED <<editorVars, historyVars, planVars, diagramVars, paletteVars, gridViewVars, execVars, focus>>
  \/ /\ focus = "editor" /\ EditorNext
     /\ UNCHANGED <<activityVars, historyVars, planVars, diagramVars, paletteVars, gridViewVars, execVars, focus>>
  \/ /\ focus = "history" /\ HistoryNext
     /\ UNCHANGED <<activityVars, editorVars, planVars, diagramVars, paletteVars, gridViewVars, execVars, focus>>
  \/ /\ focus = "plan" /\ PlanNext
     /\ UNCHANGED <<activityVars, editorVars, historyVars, diagramVars, paletteVars, gridViewVars, execVars, focus>>
  \/ /\ focus = "diagram" /\ DiagramNext
     /\ UNCHANGED <<activityVars, editorVars, historyVars, planVars, paletteVars, gridViewVars, execVars, focus>>
  \/ /\ focus = "palette" /\ PaletteNext
     /\ UNCHANGED <<activityVars, editorVars, historyVars, planVars, diagramVars, gridViewVars, execVars, focus>>
  \/ /\ focus = "grid" /\ GridViewNext
     /\ UNCHANGED <<activityVars, editorVars, historyVars, planVars, diagramVars, paletteVars, execVars, focus>>
  \/ /\ focus = "executor" /\ ExecNext
     /\ UNCHANGED <<activityVars, editorVars, historyVars, planVars, diagramVars, paletteVars, gridViewVars, focus>>

\* The fairness is the activity panel's: it alone has a property that needs it.
Spec == Init /\ [][Next]_panelsVars /\ ActivityFairness

\* Every component's state is of its type.
TypeOK ==
  /\ ActivityTypeOK /\ EditorTypeOK /\ HistoryTypeOK /\ DiagramTypeOK /\ PaletteTypeOK
  /\ GridViewTypeOK /\ ExecTypeOK
=============================================================================
