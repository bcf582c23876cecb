------------------------------- MODULE Diagram -------------------------------
(***************************************************************************)
(* The ER diagram: components/ErDiagram and the flag and the virtual       *)
(* result tab by which App shows it.                                       *)
(*                                                                         *)
(* React owns which tables are picked and highlighted; d3 owns the groups  *)
(* it drew for them and keeps the group of a table that stays, whatever    *)
(* that table is by now.  Both live as long as the component is mounted,   *)
(* which outlives the schema it was mounted for.                           *)
(*                                                                         *)
(* Data: positions, forces and zoom are left out.  Of a drawn group we     *)
(* keep the badge and the schema its columns were written from.            *)
(***************************************************************************)
EXTENDS Integers, Sequences, FiniteSets

CONSTANTS
  NoSchema,
  LargeSchemaThreshold,   \* 50
  DiagramSchemas          \* [tables, pk : table -> columns, fks : sequence of rows]

\* A row of fks is one column of a constraint.
DiagramTables == UNION {s.tables : s \in DiagramSchemas}
FksOK(s) ==
  /\ DOMAIN s.fks \subseteq Nat
  /\ \A i \in DOMAIN s.fks : {s.fks[i].source, s.fks[i].target} \subseteq s.tables

ASSUME DiagramAssumption ==
  /\ NoSchema \notin DiagramSchemas /\ LargeSchemaThreshold \in Nat
  /\ \A s \in DiagramSchemas : FksOK(s) /\ s.tables \subseteq DOMAIN s.pk

VARIABLES
  source,      \* the schema on display in the tree
  screen,      \* showDiagram, and activeResult = -2 of the tab
  er,          \* ErDiagram: selection, selectorOpen and the selector's own selection
  canvas,      \* DiagramCanvas: highlightedId and what is drawn
  swapped      \* history: the schema changed under the mounted diagram

diagramVars == <<source, screen, er, canvas, swapped>>

Unmounted == [mounted |-> FALSE, selection |-> {}, selectorOpen |-> FALSE, picks |-> {}]
BlankCanvas == [highlightedId |-> NoSchema, groups |-> <<>>, edges |-> {}, dim |-> {}]

DiagramInit ==
  /\ source = NoSchema
  /\ screen = [showDiagram |-> FALSE, active |-> FALSE]
  /\ er = Unmounted /\ canvas = BlankCanvas
  /\ swapped = FALSE

-----------------------------------------------------------------------------
(* diagramUtils.ts                                                         *)

RowsOf(s, t) == {s.fks[i] : i \in {j \in DOMAIN s.fks : s.fks[j].source = t}}

\* Two constraints, and their columns are the primary key.
DetectJunctionTables(s) ==
  {t \in s.tables :
     /\ Cardinality({fk.name : fk \in RowsOf(s, t)}) = 2
     /\ s.pk[t] # {} /\ s.pk[t] = {fk.column : fk \in RowsOf(s, t)}}

Visible(s, selection) == s.tables \cap selection

\* Mutant of BuildNode: a junction among the tables that are shown.
BuildNodeOfVisible(s, selection, t) ==
  LET shown(fk) == fk.target \in selection
      rows      == SelectSeq(s.fks, shown)
  IN  [badge |-> t \in DetectJunctionTables([s EXCEPT !.fks = rows]), of |-> s]

\* A junction of the whole schema, whatever is shown of it.
BuildNode(s, selection, t) == [badge |-> t \in DetectJunctionTables(s), of |-> s]

\* One edge for a name, the first with both ends visible.
BuildEdges(s, selection) ==
  LET both == {i \in DOMAIN s.fks : {s.fks[i].source, s.fks[i].target} \subseteq Visible(s, selection)}
  IN  {s.fks[i] : i \in {j \in both : \A k \in both : k < j => s.fks[k].name # s.fks[j].name}}

-----------------------------------------------------------------------------
(* DiagramCanvas.                                                          *)

\* The effect on nodes and edges: groups of tables that stay are kept.
Join(s, selection, old) ==
  [t \in Visible(s, selection) |-> IF t \in DOMAIN old THEN old[t] ELSE BuildNode(s, selection, t)]

\* The effect on the highlight and the edges.
Dimmed(id, groups, edges) ==
  IF id = NoSchema THEN {}
  ELSE {t \in (DOMAIN groups) \ {id} : \A e \in edges : {e.source, e.target} # {id, t}}

Highlighted(c, id) == [c EXCEPT !.highlightedId = id, !.dim = Dimmed(id, c.groups, c.edges)]

Layout(s, selection, c) ==
  LET groups == Join(s, selection, c.groups)  edges == BuildEdges(s, selection) IN
  [c EXCEPT !.groups = groups, !.edges = edges, !.dim = Dimmed(c.highlightedId, groups, edges)]

\* ErDiagram rendered: without tables, or without a selection, there is no canvas,
\* and without tables no selector either.
Rendered(s, e) ==
  /\ er' = IF s.tables # {} /\ e.selectorOpen THEN e ELSE [e EXCEPT !.picks = {}]
  /\ canvas' = IF s.tables = {} \/ e.selection = {} THEN BlankCanvas ELSE Layout(s, e.selection, canvas)

FreshDiagram(s) ==
  LET large == Cardinality(s.tables) > LargeSchemaThreshold IN
  [mounted |-> TRUE, selection |-> IF large THEN {} ELSE s.tables, selectorOpen |-> large, picks |-> {}]

\* App rendered with the schema s and the screen v.
Shown(s, v) ==
  /\ source' = s /\ screen' = v
  /\ \/ /\ s = NoSchema \/ ~v.showDiagram \/ ~v.active
        /\ er' = Unmounted /\ canvas' = BlankCanvas /\ swapped' = FALSE
     \/ /\ s # NoSchema /\ v.showDiagram /\ v.active
        /\ \/ ~er.mounted /\ Rendered(s, FreshDiagram(s)) /\ swapped' = FALSE
           \/ /\ er.mounted /\ s # source
              /\ Rendered(s, IF source.tables = {} THEN [er EXCEPT !.picks = @ \cup er.selection] ELSE er)
              /\ swapped' = TRUE
           \/ er.mounted /\ s = source /\ UNCHANGED <<er, canvas, swapped>>

-----------------------------------------------------------------------------
(* App.                                                                    *)

\* The tree shows another schema, or none, a cached one without a pause.
SchemaSwitched(s) == s # source /\ Shown(s, screen)

\* The buttons of the tree and the palette.
ShowDiagram == Shown(source, [showDiagram |-> TRUE, active |-> TRUE])
HideDiagram == screen.showDiagram /\ Shown(source, [showDiagram |-> FALSE, active |-> FALSE])

\* The shortcut's handler was made by the first render: it hides the diagram but
\* leaves the tab on it.
ShortcutHides == screen.showDiagram /\ Shown(source, [screen EXCEPT !.showDiagram = FALSE])

\* A run, a click on a result, and a click on the diagram's tab.
ShowResult == Shown(source, [screen EXCEPT !.active = FALSE])
ClickDiagram == screen.showDiagram /\ source # NoSchema /\ Shown(source, [screen EXCEPT !.active = TRUE])

-----------------------------------------------------------------------------
(* ErDiagram, its selector and its canvas.                                 *)

Drawable == er.mounted /\ source.tables # {}

OpenSelector ==
  /\ Drawable /\ ~er.selectorOpen
  /\ Rendered(source, [er EXCEPT !.selectorOpen = TRUE, !.picks = er.selection])
  /\ UNCHANGED <<source, screen, swapped>>

\* A checkbox; or all, or none, of the tables of the database schema.
Pick(picks) ==
  /\ Drawable /\ er.selectorOpen
  /\ \/ \E t \in source.tables : picks = IF t \in er.picks THEN er.picks \ {t} ELSE er.picks \cup {t}
     \/ picks \in {er.picks \cup source.tables, er.picks \ source.tables}
  /\ er' = [er EXCEPT !.picks = picks]
  /\ UNCHANGED <<source, screen, canvas, swapped>>

ApplySelection ==
  /\ Drawable /\ er.selectorOpen /\ er.picks # {}
  /\ Rendered(source, [er EXCEPT !.selection = er.picks, !.selectorOpen = FALSE])
  /\ UNCHANGED <<source, screen, swapped>>

CancelSelection ==
  /\ Drawable /\ er.selectorOpen
  /\ Rendered(source, [er EXCEPT !.selectorOpen = FALSE])
  /\ UNCHANGED <<source, screen, swapped>>

\* A click on a table highlights it and its neighbours, another one ends that.
ClickTable(t) ==
  /\ t \in DOMAIN canvas.groups
  /\ canvas' = Highlighted(canvas, IF t = canvas.highlightedId THEN NoSchema ELSE t)
  /\ UNCHANGED <<source, screen, er, swapped>>

\* A click beside the tables, and "Reset layout", which draws nothing anew.
ClickEmptyOrReset ==
  /\ canvas.groups # <<>>
  /\ canvas' = Highlighted(canvas, NoSchema)
  /\ UNCHANGED <<source, screen, er, swapped>>

-----------------------------------------------------------------------------

DiagramNext ==
  \/ \E s \in DiagramSchemas \cup {NoSchema} : SchemaSwitched(s)
  \/ ShowDiagram \/ HideDiagram \/ ShortcutHides \/ ShowResult \/ ClickDiagram
  \/ OpenSelector \/ ApplySelection \/ CancelSelection \/ ClickEmptyOrReset
  \/ \E picks \in SUBSET DiagramTables : Pick(picks)
  \/ \E t \in DiagramTables : ClickTable(t)

DiagramSpec == DiagramInit /\ [][DiagramNext]_diagramVars

-----------------------------------------------------------------------------
(* Properties                                                              *)

DiagramTypeOK ==
  /\ source \in DiagramSchemas \cup {NoSchema}
  /\ er.selection \cup er.picks \subseteq DiagramTables
  /\ canvas.highlightedId \in DiagramTables \cup {NoSchema}
  /\ DOMAIN canvas.groups \subseteq DiagramTables

\* However tables were picked, dropped, highlighted and the schema exchanged:
\* what is drawn is the selected tables the schema has, an edge for every name
\* of a constraint between two of them and no edge with an end missing, and
\* what is dimmed is what the highlighted table has no edge to.  As long as the
\* diagram shows the schema it was opened on, every table has its own columns
\* and the badge it deserves in the whole schema.
DiagramShowsSelection ==
  canvas.groups # <<>> =>
    LET drawn == DOMAIN canvas.groups IN
    /\ drawn = source.tables \cap er.selection
    /\ \A e \in canvas.edges : {e.source, e.target} \subseteq drawn
    /\ \A i \in DOMAIN source.fks : {source.fks[i].source, source.fks[i].target} \subseteq drawn =>
         \E e \in canvas.edges : e.name = source.fks[i].name
    /\ \A t \in drawn :
         t \in canvas.dim <=>
           /\ canvas.highlightedId \notin {NoSchema, t}
           /\ \A e \in canvas.edges : {e.source, e.target} # {canvas.highlightedId, t}
    /\ ~swapped => \A t \in drawn : canvas.groups[t].of = source
    /\ ~swapped => \A t \in drawn : canvas.groups[t].badge = (t \in DetectJunctionTables(source))
=============================================================================
