------------------------------ MODULE GridEdit ------------------------------
(***************************************************************************)
(* Inline editing of results: the cells of ResultsGrid, the unsaved edits  *)
(* of a tab, and App.handleCommitAll, which turns them into one UPDATE per *)
(* row.                                                                    *)
(*                                                                         *)
(* handleCommitAll captures tab, connection and results when it is         *)
(* clicked and awaits the database once for each row.  Between two rows    *)
(* the user goes on: switches tabs and result sets, edits, runs queries,   *)
(* points the tab at another connection, or clicks Commit again.           *)
(*                                                                         *)
(* Data: a cell is a row index and a column; its text is left out, as is   *)
(* the order of pendingEdits.  An edit also remembers the data row that    *)
(* was under the cursor (seen), which the code does not.  A row of the     *)
(* database is named by the answer, the result set and the index at which  *)
(* it was fetched.  Runs are those of QueryRun, reduced to what they do to *)
(* results.                                                                *)
(***************************************************************************)
EXTENDS Tabs, FiniteSets

CONSTANTS
  Conns, ReadOnlyConns,
  Answers,        \* runs of a query and what they answer; each is used once
  Sets,           \* indices of the result sets of an answer
  Rows, Cols,     \* indices of the rows and of the columns of a result set
  DisplayOrders,  \* row shown at each position, as sort and filter permute them
  Commits,        \* clicks on Commit; each element is used once
  MaxEdits        \* bound on the unsaved edits of a tab

ASSUME GridEditAssumption ==
  /\ ReadOnlyConns \subseteq Conns
  /\ Null \notin Conns
  /\ 0 \in Sets
  /\ DisplayOrders \subseteq [Rows -> Rows]

VARIABLES
  ws,      \* the tab strip
  opened,  \* tab ids handed out so far
  query,   \* where each run is: not launched, in flight on a tab, or over
  commit,  \* what each handleCommitAll captured and where it is
  attempts  \* history: the UPDATEs that were tried, and how they ended

vars == <<ws, opened, query, commit, attempts>>

DataRows == [answer : Answers, set : Sets, row : Rows]
Edits    == [row : Rows, col : Cols, seen : DataRows]
Cell(e)  == <<e.row, e.col>>

NewTab(conn) ==
  [connection |-> conn, results |-> Null, activeResult |-> 0,
   pendingEdits |-> {}, editingCell |-> Null, error |-> FALSE]

NoCommit ==
  [pc |-> "idle", conn |-> Null, results |-> Null, set |-> 0,
   edits |-> {}, left |-> {}, errors |-> FALSE]

Init ==
  /\ ws = InitTabs(NewTab(Null))
  /\ opened = {FirstTab}
  /\ query = [a \in Answers |-> [pc |-> "idle", tab |-> FirstTab]]
  /\ commit = [k \in Commits |-> NoCommit]
  /\ attempts = {}

Here == ws.tab[ws.active]

\* A commit that returned: nothing reads its captured results any more.
Return(k, pc) == commit' = [commit EXCEPT ![k] = [@ EXCEPT !.pc = pc, !.results = Null, !.set = 0]]

-----------------------------------------------------------------------------
(* The cells of the active tab's grid.                                     *)

\* A double click: editable unless the connection is read-only (the table and
\* its key are looked up in a schema that is not modelled).
CellEdit(row, col, order) ==
  /\ Here.results # Null
  /\ Here.connection \notin ReadOnlyConns
  /\ ws' = UpdateActiveTab(ws, LAMBDA t : [t EXCEPT !.editingCell =
             [row |-> row, col |-> col,
              seen |-> [answer |-> t.results.answer, set |-> t.activeResult,
                        row |-> order[row]]]])
  /\ UNCHANGED <<opened, query, commit, attempts>>

\* Enter, or focus lost: the edit takes the place of an earlier one of the
\* cell; text equal to the original value only removes the earlier one.
CellCommit ==
  LET e == Here.editingCell
      existing == {f \in Here.pendingEdits : Cell(f) # Cell(e)}
  IN
  /\ Here.results # Null /\ e # Null
  /\ \E changed \in SUBSET {e} :
       /\ Cardinality(existing \cup changed) <= MaxEdits
       /\ ws' = UpdateActiveTab(ws, LAMBDA t : [t EXCEPT
                  !.editingCell = Null, !.pendingEdits = existing \cup changed])
  /\ UNCHANGED <<opened, query, commit, attempts>>

CellCancel ==
  /\ Here.editingCell # Null
  /\ ws' = UpdateActiveTab(ws, LAMBDA t : [t EXCEPT !.editingCell = Null])
  /\ UNCHANGED <<opened, query, commit, attempts>>

RollbackAll ==
  /\ Here.pendingEdits # {}
  /\ ws' = UpdateActiveTab(ws, LAMBDA t : [t EXCEPT
             !.editingCell = Null, !.pendingEdits = {}])
  /\ UNCHANGED <<opened, query, commit, attempts>>

SwitchResult(i) ==
  /\ Here.results # Null
  /\ ws' = UpdateActiveTab(ws, LAMBDA t : [t EXCEPT !.activeResult = i])
  /\ UNCHANGED <<opened, query, commit, attempts>>

-----------------------------------------------------------------------------
(* handleCommitAll.                                                        *)

Committable(k) ==
  /\ commit[k].pc = "idle"
  /\ Here.connection # Null /\ Here.results # Null /\ Here.pendingEdits # {}

\* The table is not in the schema on display, or has no primary key.
CommitRefused(k) ==
  /\ Committable(k)
  /\ ws' = UpdateActiveTab(ws, LAMBDA t : [t EXCEPT !.error = TRUE])
  /\ Return(k, "failed")
  /\ UNCHANGED <<opened, query, attempts>>

\* The click, up to the first await: the edits are grouped by row.
CommitStarted(k) ==
  /\ Committable(k)
  /\ commit' = [commit EXCEPT ![k] =
       [pc |-> "sending", conn |-> Here.connection,
        results |-> Here.results, set |-> Here.activeResult, edits |-> Here.pendingEdits,
        left |-> {e.row : e \in Here.pendingEdits}, errors |-> FALSE]]
  /\ UNCHANGED <<ws, opened, query, attempts>>

\* The UPDATE of one row: its key is read at the captured index of the
\* captured results, and it is executed with readOnly: false.  It is accepted
\* unless the answer holds an error or the call itself is rejected.
Update(k, row, conn, accepted) ==
  [by |-> k, conn |-> conn, accepted |-> accepted,
   target |-> [answer |-> commit[k].results.answer, set |-> commit[k].set, row |-> row],
   edits |-> {e \in commit[k].edits : e.row = row}]

\* Mutant of RowAttempted: the connection is read from the active tab.
AttemptedWhereActive(k, row) ==
  /\ commit[k].pc = "sending" /\ row \in commit[k].left
  /\ \E accepted \in BOOLEAN :
       /\ attempts' = attempts \cup {Update(k, row, Here.connection, accepted)}
       /\ commit' = [commit EXCEPT ![k].left = @ \ {row},
                                  ![k].errors = @ \/ ~accepted]
  /\ UNCHANGED <<ws, opened, query>>

\* Mutant of RowAttempted: the first error leaves the loop.
AttemptedUntilError(k, row) ==
  /\ commit[k].pc = "sending" /\ row \in commit[k].left
  /\ \E accepted \in BOOLEAN :
       /\ attempts' = attempts \cup {Update(k, row, commit[k].conn, accepted)}
       /\ commit' = [commit EXCEPT ![k].left = IF accepted THEN @ \ {row} ELSE {},
                                  ![k].errors = @ \/ ~accepted]
  /\ UNCHANGED <<ws, opened, query>>

\* One turn of the loop; an error is collected and the next row is tried.
RowAttempted(k, row) ==
  /\ commit[k].pc = "sending" /\ row \in commit[k].left
  /\ \E accepted \in BOOLEAN :
       /\ attempts' = attempts \cup {Update(k, row, commit[k].conn, accepted)}
       /\ commit' = [commit EXCEPT ![k].left = @ \ {row},
                                  ![k].errors = @ \/ ~accepted]
  /\ UNCHANGED <<ws, opened, query>>

\* Some row failed: the active tab gets the error, the edits stay.
CommitFailed(k) ==
  /\ commit[k].pc = "sending" /\ commit[k].left = {} /\ commit[k].errors
  /\ ws' = UpdateActiveTab(ws, LAMBDA t : [t EXCEPT !.error = TRUE])
  /\ Return(k, "failed")
  /\ UNCHANGED <<opened, query, attempts>>

\* The captured results with the captured edits written into them.
Applied(k) ==
  [commit[k].results EXCEPT !.applied = @ \cup
     {[set |-> commit[k].set, row |-> e.row, col |-> e.col] : e \in commit[k].edits}]

\* Mutant of CommitDone: the errors collected on the way are not looked at.
DoneDespiteErrors(k) ==
  /\ commit[k].pc = "sending" /\ commit[k].left = {}
  /\ ws' = UpdateActiveTab(ws, LAMBDA t : [t EXCEPT
             !.results = Applied(k), !.pendingEdits = {}, !.editingCell = Null])
  /\ Return(k, "done")
  /\ UNCHANGED <<opened, query, attempts>>

\* Mutant of CommitDone: every tab drops its edits.
DoneEverywhere(k) ==
  /\ commit[k].pc = "sending" /\ commit[k].left = {} /\ ~commit[k].errors
  /\ ws' = [ws EXCEPT !.tab = [t \in DOMAIN @ |-> [@[t] EXCEPT
             !.results = IF t = ws.active THEN Applied(k) ELSE @,
             !.pendingEdits = {}, !.editingCell = Null]]]
  /\ Return(k, "done")
  /\ UNCHANGED <<opened, query, attempts>>

\* Every row was accepted: the active tab, whichever it is by now, gets the
\* captured results with the edits applied, and its own edits are dropped.
CommitDone(k) ==
  /\ commit[k].pc = "sending" /\ commit[k].left = {} /\ ~commit[k].errors
  /\ ws' = UpdateActiveTab(ws, LAMBDA t : [t EXCEPT
             !.results = Applied(k), !.pendingEdits = {}, !.editingCell = Null])
  /\ Return(k, "done")
  /\ UNCHANGED <<opened, query, attempts>>

-----------------------------------------------------------------------------
(* What goes on around the grid.                                           *)

\* runQuery clears the results of the tab, and leaves its edits.
RunLaunched(a) ==
  /\ query[a].pc = "idle" /\ Here.connection # Null
  /\ query' = [query EXCEPT ![a] = [pc |-> "running", tab |-> ws.active]]
  /\ ws' = UpdateActiveTab(ws, LAMBDA t : [t EXCEPT !.results = Null, !.error = FALSE])
  /\ UNCHANGED <<opened, commit, attempts>>

RunAnswered(a) ==
  /\ query[a].pc = "running"
  /\ query' = [query EXCEPT ![a].pc = "over"]
  /\ ws' = UpdateTab(ws, query[a].tab, LAMBDA t : [t EXCEPT
             !.results = [answer |-> a, applied |-> {}], !.activeResult = 0, !.error = FALSE])
  /\ UNCHANGED <<opened, commit, attempts>>

RunFailed(a) ==
  /\ query[a].pc = "running"
  /\ query' = [query EXCEPT ![a].pc = "over"]
  /\ ws' = UpdateTab(ws, query[a].tab, LAMBDA t : [t EXCEPT !.results = Null, !.error = TRUE])
  /\ UNCHANGED <<opened, commit, attempts>>

AutoClear(t) ==
  /\ t \in OpenTabs(ws)
  /\ ws' = UpdateTab(ws, t, LAMBDA tab : [tab EXCEPT !.results = Null, !.error = FALSE])
  /\ UNCHANGED <<opened, query, commit, attempts>>

SwitchTab(t) ==
  /\ t \in OpenTabs(ws) \ {ws.active}
  /\ ws' = SetActive(ws, t)
  /\ UNCHANGED <<opened, query, commit, attempts>>

OpenTab(t, conn) ==
  /\ t \in TabIds \ opened
  /\ ws' = AppendActivate(ws, t, NewTab(conn))
  /\ opened' = opened \cup {t}
  /\ UNCHANGED <<query, commit, attempts>>

CloseTab(t) ==
  /\ t \in OpenTabs(ws) /\ Len(ws.order) > 1
  /\ ws' = Close(ws, t)
  /\ UNCHANGED <<opened, query, commit, attempts>>

SelectConnection(c) ==
  /\ ws' = UpdateActiveTab(ws, LAMBDA t : [t EXCEPT
             !.connection = c, !.results = Null, !.activeResult = 0, !.error = FALSE])
  /\ UNCHANGED <<opened, query, commit, attempts>>

\* The palette swaps the connection under the results and the edits.
PaletteConnection(c) ==
  /\ ws' = UpdateActiveTab(ws, LAMBDA t : [t EXCEPT !.connection = c])
  /\ UNCHANGED <<opened, query, commit, attempts>>

DeleteConnection(c) ==
  /\ ws' = ClearConnection(ws, c)
  /\ UNCHANGED <<opened, query, commit, attempts>>

Reset(tab) == [tab EXCEPT !.results = Null, !.activeResult = 0, !.error = FALSE]

ReloadConnections(fresh) ==
  LET refreshed == RefreshConnections(ws, fresh, Reset) IN
  /\ \E first \in fresh :
       ws' = IF refreshed.tab[ws.active].connection = Null
             THEN UpdateActiveTab(refreshed, LAMBDA t : [t EXCEPT !.connection = first])
             ELSE refreshed
  /\ UNCHANGED <<opened, query, commit, attempts>>

-----------------------------------------------------------------------------

Next ==
  \/ \E row \in Rows, col \in Cols, order \in DisplayOrders : CellEdit(row, col, order)
  \/ CellCommit \/ CellCancel \/ RollbackAll
  \/ \E i \in Sets : SwitchResult(i)
  \/ \E k \in Commits : CommitRefused(k) \/ CommitStarted(k) \/ CommitFailed(k) \/ CommitDone(k)
  \/ \E k \in Commits, row \in Rows : RowAttempted(k, row)
  \/ \E a \in Answers : RunLaunched(a) \/ RunAnswered(a) \/ RunFailed(a)
  \/ \E t \in TabIds : AutoClear(t) \/ SwitchTab(t) \/ CloseTab(t)
  \/ \E t \in TabIds, c \in Conns \cup {Null} : OpenTab(t, c)
  \/ \E c \in Conns : SelectConnection(c) \/ PaletteConnection(c) \/ DeleteConnection(c)
  \/ \E fresh \in (SUBSET Conns) \ {{}} : ReloadConnections(fresh)

Spec == Init /\ [][Next]_vars

-----------------------------------------------------------------------------
(* Properties                                                              *)

Shown == [answer : Answers, applied : SUBSET [set : Sets, row : Rows, col : Cols]]

Tab == [connection : Conns \cup {Null}, results : Shown \cup {Null}, activeResult : Sets,
        pendingEdits : SUBSET Edits, editingCell : Edits \cup {Null}, error : BOOLEAN]

\* The shape of the state; a tab holds at most one unsaved edit for each cell.
TypeOK ==
  /\ StripOK(ws)
  /\ ws.tab \in [OpenTabs(ws) -> Tab]
  /\ opened \subseteq TabIds /\ OpenTabs(ws) \subseteq opened
  /\ \A k \in Commits : commit[k].pc \in {"idle", "sending", "done", "failed"}
  /\ \A t \in OpenTabs(ws) : \A e, f \in ws.tab[t].pendingEdits : Cell(e) = Cell(f) => e = f

\* Whatever the user does while a commit is in flight, its UPDATEs go to the
\* connection the tab had at the click, one for each row, each carrying all
\* the edits of that row and of no other.
SentAsCaptured ==
  \A u \in attempts :
    /\ u.conn = commit[u.by].conn
    /\ u.edits = {e \in commit[u.by].edits : e.row = u.target.row}
    /\ \A v \in attempts : u.by = v.by /\ u.target = v.target => u = v

\* A commit that is over has tried the row of every edit it captured: a row
\* that fails does not leave those after it untried and unreported.
EveryRowTried ==
  \A k \in Commits : commit[k].pc \in {"done", "failed"} =>
    \A e \in commit[k].edits : \E u \in attempts : u.by = k /\ e \in u.edits

\* A cell on display with an edited value it takes for the database's has
\* been accepted by the database, for the row at that index of that answer.
ShownAsAccepted ==
  \A t \in OpenTabs(ws) : ws.tab[t].results # Null =>
    \A x \in ws.tab[t].results.applied :
      \E u \in attempts :
        /\ u.accepted
        /\ u.target = [answer |-> ws.tab[t].results.answer, set |-> x.set, row |-> x.row]
        /\ \E e \in u.edits : e.col = x.col

\* The unsaved edits of a tab in the background stay until it is active again
\* or closed, whatever completes, reloads or is deleted in between, unless the
\* database has accepted them.
BackgroundEditsKept ==
  [][\A t \in (OpenTabs(ws) \cap OpenTabs(ws')) \ {ws.active} :
       \A e \in ws.tab[t].pendingEdits \ ws'.tab[t].pendingEdits :
         \E u \in attempts : u.accepted /\ e \in u.edits]_vars

\* "double-click any cell to edit, UPDATE generated automatically": the UPDATE
\* is for the row that was double-clicked.
UpdateHitsEditedRow ==
  \A u \in attempts : u.accepted => \A e \in u.edits : u.target = e.seen

\* "Read-only connection mode - enforced at the driver level, not just the
\* UI": no UPDATE is executed on a read-only connection.
ReadOnlyRespected ==
  \A u \in attempts : u.accepted => u.conn \notin ReadOnlyConns
=============================================================================
