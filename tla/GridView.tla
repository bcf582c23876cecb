------------------------------ MODULE GridView ------------------------------
(***************************************************************************)
(* What the lower panel shows, and the grid in it: the branches of App     *)
(* below the result tabs, and the filter and the sort of ResultsGrid.      *)
(*                                                                         *)
(* The grid keeps its filter and its sort for as long as some grid is on   *)
(* display, whichever tab or result set it is of: React reuses the one     *)
(* component.  The filter is applied 300 ms after the last key.            *)
(*                                                                         *)
(* Data: a cell is a number, NullCell or Word, a text that is no number;   *)
(* a filter finds the cells equal to it (for a text, those holding it).    *)
(***************************************************************************)
EXTENDS Filters, SequencesExt

CONSTANTS
  Views,        \* what a tab may have to show: results, the active one, and flags
  FilterLimit,  \* 1_000: rows the filter looks at
  NoSort        \* sorting: []

NothingRun == [results |-> <<>>, activeResult |-> 0, showDiagram |-> FALSE, showActivity |-> FALSE, busy |-> FALSE]

NullCell == -1
Word     == 9
NoFilter == -2

\* A row has a cell for every column, and -2 and -1 are the panels.
ASSUME GridViewAssumption ==
  /\ NothingRun \in Views /\ FilterLimit \in Nat
  /\ \A v \in Views :
       /\ v.activeResult \in Nat \cup {-2, -1} /\ DOMAIN v.results = 1..Len(v.results)
       /\ \A r \in Range(v.results) : r.rows \in Seq([DOMAIN r.columns -> Nat \cup {NullCell}])

VARIABLES
  view,       \* the view on display
  filterText, \* the text in the filter box
  debounced,  \* the text the rows are filtered by
  sorting     \* the column, by name and position, and the direction

gridViewVars == <<view, filterText, debounced, sorting>>

-----------------------------------------------------------------------------
(* App: one branch for every kind of result, the grid last.                *)

ActiveResult(v) == v.results[v.activeResult + 1]

Branch(v) ==
  CASE v.activeResult = -2 /\ v.showDiagram                  -> "diagram"
    [] v.activeResult = -1 /\ v.showActivity                 -> "activity"
    [] (v.activeResult = -2 /\ ~v.showDiagram) \/ (v.activeResult = -1 /\ ~v.showActivity)
         \/ v.activeResult >= Len(v.results)                 -> IF v.busy THEN "nothing" ELSE "hint"
    [] v.activeResult \in 0..(Len(v.results) - 1)
         /\ ActiveResult(v).kind # "data"                    -> ActiveResult(v).kind
    [] v.activeResult \in 0..(Len(v.results) - 1)
         /\ ActiveResult(v).kind = "data"                    -> IF ActiveResult(v).rows = <<>> THEN "no rows" ELSE "grid"

GridViewInit ==
  /\ view = NothingRun
  /\ filterText = NoFilter /\ debounced = NoFilter /\ sorting = NoSort

\* A switch of tab or of result set, answers that arrive, a commit, a panel.
Display(v) ==
  /\ view' = v
  /\ IF Branch(view) = "grid" /\ Branch(v) = "grid"
     THEN UNCHANGED <<filterText, debounced, sorting>>
     ELSE filterText' = NoFilter /\ debounced' = NoFilter /\ sorting' = NoSort

-----------------------------------------------------------------------------
(* ResultsGrid                                                             *)

Result == ActiveResult(view)
Cells == (UNION {Range(row) : row \in Range(Result.rows)}) \ {NullCell}

TypeFilter(text) ==
  /\ Branch(view) = "grid"
  /\ filterText' = text
  /\ UNCHANGED <<view, debounced, sorting>>

DebounceFires ==
  /\ debounced # filterText
  /\ debounced' = filterText
  /\ UNCHANGED <<view, filterText, sorting>>

\* A click on a header takes its column through its directions, a click on
\* "clear sort" takes any away.
Sort(s) ==
  /\ Branch(view) = "grid"
  /\ sorting' = s
  /\ UNCHANGED <<view, filterText, debounced>>

\* Rows by their index; all of them without a filter, else those of the first
\* FilterLimit that have it in some cell.
FilteredRows ==
  LET all == [i \in DOMAIN Result.rows |-> i] IN
  IF debounced = NoFilter THEN all
  ELSE Only(all, {i \in DOMAIN Result.rows : i <= FilterLimit /\ debounced \in Range(Result.rows[i])})

Sorted == sorting # NoSort /\ sorting.at \in DOMAIN Result.columns /\ Result.columns[sorting.at] = sorting.name
Key(i) == Result.rows[i][sorting.at]

\* Mutant of Compare: the direction is applied to the nulls as well.
CompareFlippingNulls(a, b, desc) ==
  LET up == CASE a = b -> 0 [] a # b /\ a = NullCell -> 1 [] a # b /\ b = NullCell -> -1
              [] a # b /\ NullCell \notin {a, b} -> a - b
  IN  IF desc THEN -up ELSE up

\* Nulls last whatever the direction.
Compare(a, b, desc) ==
  CASE a = NullCell /\ b = NullCell -> 0
    [] a = NullCell /\ b # NullCell -> 1
    [] a # NullCell /\ b = NullCell -> -1
    [] NullCell \notin {a, b}       -> IF desc THEN b - a ELSE a - b

\* Compared as numbers when the first value is one: a word then compares with
\* nothing.
Comparable(rows) ==
  LET keys   == [p \in DOMAIN rows |-> Key(rows[p])]
      values == Only(keys, Range(keys) \ {NullCell})
  IN  values # <<>> /\ Head(values) # Word => Word \notin Range(values)

\* What the grid may show: the engine's sort is stable, and does not say what a
\* comparison that is no order leads to.
Precedes(i, j) ==
  LET c == Compare(Key(i), Key(j), sorting.desc) IN c < 0 \/ (c = 0 /\ i < j)

SortedRows ==
  LET rows == Range(FilteredRows) IN
  CASE ~Sorted                             -> {FilteredRows}
    [] Sorted /\ ~Comparable(FilteredRows) -> SetToSeqs(rows)
    [] Sorted /\ Comparable(FilteredRows)  -> {SortedBy(rows, {p \in rows \X rows : Precedes(p[1], p[2])})}

-----------------------------------------------------------------------------

Headers == [name : Range(Result.columns), at : DOMAIN Result.columns, desc : BOOLEAN]

GridViewNext ==
  \/ \E v \in Views : Display(v)
  \/ Branch(view) = "grid" /\ \E text \in Cells \cup {NoFilter} : TypeFilter(text)
  \/ Branch(view) = "grid" /\ \E s \in {h \in Headers : Result.columns[h.at] = h.name} \cup {NoSort} : Sort(s)
  \/ DebounceFires

GridViewSpec == GridViewInit /\ [][GridViewNext]_gridViewVars

-----------------------------------------------------------------------------
(* Properties                                                              *)

GridViewTypeOK ==
  /\ view \in Views
  /\ {filterText, debounced} \subseteq Nat \cup {NoFilter}

\* Through any changes of tab, result, filter and sort the grid shows rows of the
\* result on display and of no other, each once: all of them, or those among the
\* first thousand that the filter finds.  By a column of the result they are
\* sorted with nulls last and ties as they came, as long as the column can be
\* ordered; by a column of another result not at all.
ViewIsOfRows ==
  Branch(view) = "grid" =>
    LET at(v, p) == Key(v[p])
        found == {i \in DOMAIN Result.rows :
                    \/ debounced = NoFilter
                    \/ i <= FilterLimit /\ \E c \in DOMAIN Result.rows[i] : Result.rows[i][c] = debounced}
        upTo(v, p, q) == IF sorting.desc THEN at(v, p) >= at(v, q) ELSE at(v, p) <= at(v, q)
    IN
    \A v \in SortedRows :
      /\ Range(v) = found /\ \A p, q \in DOMAIN v : v[p] = v[q] => p = q
      /\ \A p, q \in DOMAIN v : p < q =>
           IF ~Sorted THEN v[p] < v[q]
           ELSE Comparable(FilteredRows) =>
                  /\ at(v, p) = NullCell => at(v, q) = NullCell
                  /\ at(v, p) # NullCell /\ at(v, q) # NullCell => upTo(v, p, q)
                  /\ at(v, p) = at(v, q) => v[p] < v[q]
=============================================================================
