------------------------------- MODULE Palette -------------------------------
(***************************************************************************)
(* The command palette: paletteReducer, modals/CommandPalette.tsx and the  *)
(* items App assembles for it on every render.                             *)
(*                                                                         *)
(* The rows below the query change under the cursor, not only with the     *)
(* query: a schema arrives, the connections are reloaded.  The cursor is   *)
(* an index, clamped by an effect after the rows were rendered.  What a    *)
(* row does is deferred by a timer of 0 ms.                                *)
(*                                                                         *)
(* Data: a row stands for its item; what the fuzzy search finds, and in    *)
(* which order, is any sequence of distinct items, at most MaxRows (50).   *)
(***************************************************************************)
EXTENDS Integers, Sequences, SequencesExt, FiniteSetsExt

CONSTANTS
  Items,     \* commands, connections, tables and views, other tabs, saved queries
  MaxRows,
  NoItem

ASSUME PaletteAssumption == MaxRows \in Nat \ {0} /\ NoItem \notin Items

VARIABLES
  palette,   \* paletteReducer: open, query (whether there is one) and index
  rows,      \* filteredPalette
  deferred   \* the item whose timer is set

paletteVars == <<palette, rows, deferred>>

RowLists == UNION {{s \in [1..n -> Items] : IsInjective(s)} : n \in 0..MaxRows}

PaletteInit ==
  /\ palette = [open |-> FALSE, query |-> FALSE, index |-> 0]
  /\ rows = <<>>
  /\ deferred = NoItem

-----------------------------------------------------------------------------
(* The reducer.                                                            *)

\* Mutant of Clamp: the length is taken for the last index.
ClampToLength(i, max) == IF max <= 0 THEN 0 ELSE Min({Max({i, 0}), max})

Clamp(i, max) == IF max <= 0 THEN 0 ELSE Min({Max({i, 0}), max - 1})

ClampSelection(p, max) == IF p.index >= max THEN [p EXCEPT !.index = Clamp(@, max)] ELSE p
MoveSelection(p, delta, max) == [p EXCEPT !.index = Clamp(@ + delta, max)]

\* Rendered with the state p: without a query no rows, and then the effect.
Rerendered(p) ==
  /\ rows' \in IF p.open /\ p.query THEN RowLists ELSE {<<>>}
  /\ palette' = ClampSelection(p, Len(rows'))

-----------------------------------------------------------------------------
(* Events.  The timer goes off before the next of them.                    *)

OpenPalette ==
  /\ deferred = NoItem
  /\ Rerendered([open |-> TRUE, query |-> FALSE, index |-> 0])
  /\ UNCHANGED deferred

ClosePalette ==
  /\ deferred = NoItem /\ palette.open
  /\ Rerendered([palette EXCEPT !.open = FALSE])
  /\ UNCHANGED deferred

TypeQuery(q) ==
  /\ deferred = NoItem /\ palette.open
  /\ Rerendered([palette EXCEPT !.query = q, !.index = 0])
  /\ UNCHANGED deferred

\* Something the items are made of has changed.
ItemsChange ==
  /\ Rerendered(palette)
  /\ UNCHANGED deferred

Arrow(delta) ==
  /\ deferred = NoItem /\ palette.open
  /\ palette' = MoveSelection(palette, delta, Len(rows))
  /\ UNCHANGED <<rows, deferred>>

HoverRow(i) ==
  /\ deferred = NoItem /\ i \in DOMAIN rows
  /\ palette' = [palette EXCEPT !.index = i - 1]
  /\ UNCHANGED <<rows, deferred>>

PressEnter ==
  /\ deferred = NoItem /\ palette.open
  /\ \E i \in DOMAIN rows : i = palette.index + 1 /\ deferred' = rows[i]
  /\ Rerendered([palette EXCEPT !.open = FALSE])

ClickRow(i) ==
  /\ deferred = NoItem /\ i \in DOMAIN rows
  /\ deferred' = rows[i]
  /\ Rerendered([palette EXCEPT !.open = FALSE])

\* The item that was captured, whatever has been assembled since.
Deferred ==
  /\ deferred # NoItem
  /\ deferred' = NoItem
  /\ UNCHANGED <<palette, rows>>

-----------------------------------------------------------------------------

PaletteNext ==
  \/ OpenPalette \/ ClosePalette \/ ItemsChange \/ PressEnter \/ Deferred
  \/ \E q \in BOOLEAN : TypeQuery(q)
  \/ \E d \in {-1, 1} : Arrow(d)
  \/ \E i \in 1..MaxRows : HoverRow(i) \/ ClickRow(i)

PaletteSpec == PaletteInit /\ [][PaletteNext]_paletteVars

-----------------------------------------------------------------------------
(* Properties                                                              *)

PaletteTypeOK ==
  /\ palette \in [open : BOOLEAN, query : BOOLEAN, index : 0..MaxRows]
  /\ rows \in RowLists
  /\ deferred \in Items \cup {NoItem}

\* Whatever the query, the rows and the cursor went through, rows that come and
\* go under it included, one of the rows on display is highlighted and Enter
\* has something to run.
CursorOnARow == rows # <<>> => palette.index + 1 \in DOMAIN rows
=============================================================================
