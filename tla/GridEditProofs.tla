--------------------------- MODULE GridEditProofs ---------------------------
(***************************************************************************)
(* Proofs about GridEdit, for any tabs, connections, answers and commits,  *)
(* and for result sets of any size.                                        *)
(***************************************************************************)
EXTENDS GridEdit, ListProofs

\* The tab records that hold at most one edit for each cell.
FitTabs == {tab \in Tab : \A e, f \in tab.pendingEdits : Cell(e) = Cell(f) => e = f}

Strip == WellTyped(ws, FitTabs) /\ opened \subseteq TabIds /\ OpenTabs(ws) \subseteq opened

Queries == query \in [Answers -> [pc : {"idle", "running", "over"}, tab : TabIds]]

CommitRecs ==
  [pc : {"idle", "sending", "done", "failed"}, conn : Conns \cup {Null},
   results : Shown \cup {Null}, set : Sets, edits : SUBSET Edits, left : SUBSET Rows, errors : BOOLEAN]

Updates ==
  [by : Commits, conn : Conns \cup {Null}, accepted : BOOLEAN, target : DataRows, edits : SUBSET Edits]

\* What a commit holds: nothing before its click, and results while it sends.
Captured ==
  /\ commit \in [Commits -> CommitRecs]
  /\ attempts \subseteq Updates
  /\ \A k \in Commits : /\ commit[k].pc = "idle" => commit[k] = NoCommit
                        /\ commit[k].pc = "sending" => commit[k].results # Null

\* An UPDATE is of what its commit captured; while the commit is sending its row
\* is not left to try, and one that was not accepted has been collected.
Made(u) ==
  LET m == commit[u.by] IN
  /\ m.pc # "idle" /\ u.conn = m.conn
  /\ u.edits = {e \in m.edits : e.row = u.target.row}
  /\ m.pc = "sending" =>
       /\ u.target.answer = m.results.answer /\ u.target.set = m.set
       /\ u.target.row \notin m.left
       /\ m.errors \/ u.accepted

Sent ==
  /\ \A u \in attempts : Made(u)
  /\ \A u, v \in attempts : u.by = v.by /\ u.target = v.target => u = v

\* The row of a captured edit is left to try, or was tried.
Tried ==
  \A k \in Commits : \A e \in commit[k].edits :
    \/ commit[k].pc = "sending" /\ e.row \in commit[k].left
    \/ \E u \in attempts : u.by = k /\ e \in u.edits

\* Every edited value in r that is taken for the database's was accepted, by
\* one of the UPDATEs made.
Accepted(made, r, x) ==
  \E u \in made :
    /\ u.accepted
    /\ u.target = [answer |-> r.answer, set |-> x.set, row |-> x.row]
    /\ \E e \in u.edits : e.col = x.col

Backed(made, r) == r # Null => \A x \in r.applied : Accepted(made, r, x)

AllBacked ==
  /\ \A t \in OpenTabs(ws) : Backed(attempts, ws.tab[t].results)
  /\ \A k \in Commits : Backed(attempts, commit[k].results)

GridInv == Strip /\ Queries /\ Captured /\ Sent /\ Tried /\ AllBacked

LEMMA GridInitially == Init => GridInv
<1> SUFFICES ASSUME Init PROVE GridInv
  OBVIOUS
<1>1. ws = [order |-> <<FirstTab>>, active |-> FirstTab, tab |-> [t \in {FirstTab} |-> NewTab(Null)]]
  BY DEF Init, InitTabs
<1>2. ws.order = <<FirstTab>> /\ ws.active = FirstTab /\ ws.tab = [t \in {FirstTab} |-> NewTab(Null)]
  BY <1>1
<1>3. OpenTabs(ws) = {FirstTab} /\ FirstTab \in TabIds
  BY <1>2, TabsAssumption DEF OpenTabs
<1>4. StripOK(ws)
  BY <1>1, <1>2, <1>3 DEF StripOK
<1>5. NewTab(Null) \in FitTabs /\ NewTab(Null).results = Null
  BY GridEditAssumption DEF NewTab, Tab, FitTabs
<1>6. Strip
  BY <1>2, <1>3, <1>4, <1>5 DEF Init, Strip, WellTyped
<1>7. NoCommit \in CommitRecs /\ NoCommit.pc = "idle" /\ NoCommit.results = Null /\ NoCommit.edits = {}
  BY GridEditAssumption DEF NoCommit, CommitRecs
<1>8. Captured
  BY <1>7 DEF Init, Captured
<1>9. Queries
  BY <1>3 DEF Init, Queries
<1>10. Sent /\ Tried
  BY <1>7 DEF Init, Sent, Tried
<1>11. AllBacked
  BY <1>2, <1>3, <1>5, <1>7 DEF Init, AllBacked, Backed
<1> QED BY <1>6, <1>8, <1>9, <1>10, <1>11 DEF GridInv

-----------------------------------------------------------------------------
(* What a step may do to the strip when no commit ends in it: a tab keeps   *)
(* its results or gets none, or those of an answer with nothing applied;    *)
(* and the edits of a background tab stay.                                  *)

Shows(r, old) ==
  \/ r \in {Null, old}
  \/ \E a \in Answers : r = [answer |-> a, applied |-> {}]

EditsKept ==
  \A t \in (OpenTabs(ws) \cap OpenTabs(ws')) \ {ws.active} :
    ws'.tab[t].pendingEdits = ws.tab[t].pendingEdits

Around ==
  /\ Strip'
  /\ EditsKept
  /\ \A t \in OpenTabs(ws') :
       IF t \in OpenTabs(ws) THEN Shows(ws'.tab[t].results, ws.tab[t].results)
                             ELSE ws'.tab[t].results = Null

\* The strip with the record of a tab replaced.
Put(id, new) == [ws EXCEPT !.tab = [t \in OpenTabs(ws) |-> IF t = id THEN new ELSE ws.tab[t]]]

LEMMA HereOpen ==
  ASSUME Strip
  PROVE  /\ ws.active \in OpenTabs(ws) /\ OpenTabs(ws) \subseteq TabIds
         /\ ws.tab \in [OpenTabs(ws) -> FitTabs]
         /\ \A t \in OpenTabs(ws) : ws.tab[t] \in Tab
         /\ Here \in Tab /\ Here \in FitTabs
  BY DEF Strip, WellTyped, StripOK, Here, FitTabs

\* The records are rewritten in place.
LEMMA Rewritten ==
  ASSUME Strip, NEW g \in [OpenTabs(ws) -> FitTabs], ws' = [ws EXCEPT !.tab = g], opened' = opened
  PROVE  /\ Strip' /\ OpenTabs(ws') = OpenTabs(ws) /\ ws'.tab = g /\ ws'.active = ws.active
<1>1. WellTyped(ws, FitTabs)
  BY DEF Strip
<1>2. WellTyped(ws', FitTabs) /\ OpenTabs(ws') = OpenTabs(ws) /\ ws'.tab = g /\ ws'.active = ws.active
  BY <1>1, Retab
<1> QED BY <1>2 DEF Strip

\* One record is.
LEMMA OneRewritten ==
  ASSUME Strip, NEW id, NEW new, id \in OpenTabs(ws) => new \in FitTabs, opened' = opened,
         ws' = Put(id, new)
  PROVE  /\ Strip' /\ OpenTabs(ws') = OpenTabs(ws) /\ ws'.active = ws.active
         /\ \A t \in OpenTabs(ws) : ws'.tab[t] = IF t = id THEN new ELSE ws.tab[t]
<1> DEFINE g == [t \in OpenTabs(ws) |-> IF t = id THEN new ELSE ws.tab[t]]
<1>1. g \in [OpenTabs(ws) -> FitTabs]
  BY HereOpen
<1>2. Strip' /\ OpenTabs(ws') = OpenTabs(ws) /\ ws'.tab = g /\ ws'.active = ws.active
  BY <1>1, Rewritten DEF Put
<1> QED BY <1>2

\* The one record of the active tab, or another whose edits stay.
LEMMA OneAround ==
  ASSUME Strip, NEW id, NEW new, opened' = opened,
         ws' = Put(id, new),
         id \in OpenTabs(ws) =>
           /\ new \in FitTabs
           /\ id = ws.active \/ new.pendingEdits = ws.tab[id].pendingEdits
           /\ Shows(new.results, ws.tab[id].results)
  PROVE  Around
<1>1. /\ Strip' /\ OpenTabs(ws') = OpenTabs(ws)
      /\ \A t \in OpenTabs(ws) : ws'.tab[t] = IF t = id THEN new ELSE ws.tab[t]
  BY OneRewritten
<1>2. EditsKept
  BY <1>1 DEF EditsKept
<1>3. \A t \in OpenTabs(ws) : Shows(ws'.tab[t].results, ws.tab[t].results)
  BY <1>1 DEF Shows
<1> QED BY <1>1, <1>2, <1>3 DEF Around

\* What was shown and was backed still is.
LEMMA StillBacked ==
  ASSUME NEW r, NEW old, Backed(attempts, old), Shows(r, old), attempts \subseteq attempts'
  PROVE  Backed(attempts', r)
<1>1. CASE r = old
  <2>1. \A x : Accepted(attempts, r, x) => Accepted(attempts', r, x)
    BY DEF Accepted
  <2> QED BY <1>1, <2>1 DEF Backed
<1>2. CASE \E a \in Answers : r = [answer |-> a, applied |-> {}]
  BY <1>2 DEF Backed
<1>3. CASE r = Null
  BY <1>3 DEF Backed
<1> QED BY <1>1, <1>2, <1>3 DEF Shows

\* What surrounds the commits keeps all that is known of them.
LEMMA AroundStep ==
  ASSUME GridInv, Around, Queries', UNCHANGED <<commit, attempts>>
  PROVE  GridInv' /\ EditsKept
<1> USE DEF GridInv
<1>1. Captured' /\ Sent' /\ Tried'
  BY DEF Captured, Sent, Made, Tried
<1>2. ASSUME NEW t \in OpenTabs(ws') PROVE Backed(attempts', ws'.tab[t].results)
  <2>1. CASE t \in OpenTabs(ws)
    <3>1. Backed(attempts, ws.tab[t].results) /\ Shows(ws'.tab[t].results, ws.tab[t].results)
      BY <2>1 DEF AllBacked, Around
    <3> QED BY <3>1, StillBacked
  <2>2. CASE t \notin OpenTabs(ws)
    BY <2>2 DEF Around, Backed
  <2> QED BY <2>1, <2>2
<1>3. \A k \in Commits : Backed(attempts, commit[k].results)'
  BY DEF AllBacked, Backed, Accepted
<1> QED BY <1>1, <1>2, <1>3 DEF AllBacked, Around

-----------------------------------------------------------------------------
(* One lemma per group of actions of one effect.                            *)

LEMMA CellAround ==
  ASSUME GridInv,
         \/ \E row \in Rows, col \in Cols, order \in DisplayOrders : CellEdit(row, col, order)
         \/ CellCommit \/ CellCancel \/ RollbackAll \/ \E i \in Sets : SwitchResult(i)
  PROVE  Around /\ UNCHANGED <<opened, query, commit, attempts>>
<1> USE DEF GridInv
<1>1. /\ ws.active \in OpenTabs(ws) /\ Here \in FitTabs /\ Here \in Tab /\ Here = ws.tab[ws.active]
  BY HereOpen DEF Here
<1>2. UNCHANGED <<opened, query, commit, attempts>>
  BY DEF CellEdit, CellCommit, CellCancel, RollbackAll, SwitchResult
<1>3. ASSUME NEW new \in FitTabs, new.results = Here.results, ws' = Put(ws.active, new)
      PROVE  Around
  BY <1>1, <1>2, <1>3, OneAround DEF Shows
<1>4. ASSUME NEW row \in Rows, NEW col \in Cols, NEW order \in DisplayOrders, CellEdit(row, col, order)
      PROVE  Around
  <2> DEFINE e == [row |-> row, col |-> col,
                   seen |-> [answer |-> Here.results.answer, set |-> Here.activeResult, row |-> order[row]]]
             new == [Here EXCEPT !.editingCell = e]
  <2>1. Here.results \in Shown /\ order[row] \in Rows
    BY <1>1, <1>4, GridEditAssumption DEF CellEdit, Tab
  <2>2. e \in Edits
    BY <1>1, <2>1 DEF Edits, DataRows, Shown, Tab
  <2>3. new \in FitTabs /\ new.results = Here.results
    BY <1>1, <2>2 DEF FitTabs, Tab
  <2>4. ws' = Put(ws.active, new)
    BY <1>4 DEF CellEdit, UpdateActiveTab, UpdateTab, Put, OpenTabs, Here
  <2> HIDE DEF new
  <2> QED BY <1>3, <2>3, <2>4
<1>5. CASE CellCommit
  <2> DEFINE e == Here.editingCell
             existing == {f \in Here.pendingEdits : Cell(f) # Cell(e)}
  <2>1. PICK changed \in SUBSET {e} :
          ws' = UpdateActiveTab(ws, LAMBDA t : [t EXCEPT
                  !.editingCell = Null, !.pendingEdits = existing \cup changed])
    BY <1>5 DEF CellCommit
  <2> DEFINE new == [Here EXCEPT !.editingCell = Null, !.pendingEdits = existing \cup changed]
  <2>2. e \in Edits
    BY <1>1, <1>5 DEF CellCommit, Tab
  <2>3. new \in Tab /\ new.results = Here.results /\ new.pendingEdits = existing \cup changed
    BY <1>1, <2>2 DEF Tab
  <2>4. \A f, g \in existing \cup changed : Cell(f) = Cell(g) => f = g
    <3> DEFINE C(f) == Cell(f)
    <3>1. \A f, g \in Here.pendingEdits : C(f) = C(g) => f = g
      BY <1>1 DEF FitTabs
    <3>2. \A f \in existing : f \in Here.pendingEdits /\ C(f) # C(e)
      OBVIOUS
    <3>3. \A f \in changed : f = e
      BY <2>1
    <3> HIDE DEF C, existing, e
    <3>4. \A f, g \in existing \cup changed : C(f) = C(g) => f = g
      BY <3>1, <3>2, <3>3
    <3> QED BY <3>4 DEF C
  <2>5. new \in FitTabs
    BY <2>3, <2>4 DEF FitTabs
  <2>6. ws' = Put(ws.active, new)
    BY <2>1 DEF UpdateActiveTab, UpdateTab, Put, OpenTabs, Here
  <2> HIDE DEF new
  <2> QED BY <1>2, <1>3, <2>3, <2>5, <2>6
<1>6. CASE CellCancel
  <2> DEFINE new == [ws.tab[ws.active] EXCEPT !.editingCell = Null]
  <2>1. new \in FitTabs /\ new.results = Here.results
    BY <1>1 DEF FitTabs, Tab
  <2>2. ws' = Put(ws.active, new)
    BY <1>6 DEF CellCancel, UpdateActiveTab, UpdateTab, Put, OpenTabs
  <2> HIDE DEF new
  <2> QED BY <1>2, <1>3, <2>1, <2>2
<1>7. CASE RollbackAll
  <2> DEFINE new == [ws.tab[ws.active] EXCEPT !.editingCell = Null, !.pendingEdits = {}]
  <2>1. new \in FitTabs /\ new.results = Here.results
    BY <1>1 DEF FitTabs, Tab
  <2>2. ws' = Put(ws.active, new)
    BY <1>7 DEF RollbackAll, UpdateActiveTab, UpdateTab, Put, OpenTabs
  <2> HIDE DEF new
  <2> QED BY <1>2, <1>3, <2>1, <2>2
<1>8. ASSUME NEW i \in Sets, SwitchResult(i)
      PROVE  Around
  <2> DEFINE new == [ws.tab[ws.active] EXCEPT !.activeResult = i]
  <2>1. new \in FitTabs /\ new.results = Here.results
    BY <1>1 DEF FitTabs, Tab
  <2>2. ws' = Put(ws.active, new)
    BY <1>8 DEF SwitchResult, UpdateActiveTab, UpdateTab, Put, OpenTabs
  <2> HIDE DEF new
  <2> QED BY <1>2, <1>3, <2>1, <2>2
<1> QED BY <1>2, <1>4, <1>5, <1>6, <1>7, <1>8

\* A run rewrites the results and the error of the tab it was launched from.
LEMMA RunAround ==
  ASSUME GridInv, NEW a \in Answers, RunLaunched(a) \/ RunAnswered(a) \/ RunFailed(a)
  PROVE  Around /\ Queries' /\ UNCHANGED <<opened, commit, attempts>>
<1> USE DEF GridInv
<1>1. ws.active \in OpenTabs(ws) /\ ws.active \in TabIds
      /\ ws.tab \in [OpenTabs(ws) -> FitTabs] /\ \A t \in OpenTabs(ws) : ws.tab[t] \in Tab
  BY HereOpen
<1>2. Queries' /\ UNCHANGED <<opened, commit, attempts>>
  BY <1>1 DEF RunLaunched, RunAnswered, RunFailed, Queries
<1>3. CASE RunLaunched(a)
  <2> DEFINE new == [ws.tab[ws.active] EXCEPT !.results = Null, !.error = FALSE]
  <2>1. new \in FitTabs /\ new.results = Null
    BY <1>1, ZenonT(30) DEF FitTabs, Tab
  <2>2. ws' = Put(ws.active, new)
    BY <1>3 DEF RunLaunched, UpdateActiveTab, UpdateTab, Put, OpenTabs
  <2> HIDE DEF new
  <2> QED BY <1>2, <2>1, <2>2, OneAround DEF Shows
<1>4. CASE RunAnswered(a)
  <2> DEFINE id == query[a].tab
             new == [ws.tab[id] EXCEPT
                       !.results = [answer |-> a, applied |-> {}], !.activeResult = 0, !.error = FALSE]
  <2>1. [answer |-> a, applied |-> {}] \in Shown
    BY DEF Shown
  <2>2. id \in OpenTabs(ws) => /\ new \in FitTabs /\ new.results = [answer |-> a, applied |-> {}]
                               /\ new.pendingEdits = ws.tab[id].pendingEdits
    BY <1>1, <2>1, GridEditAssumption, ZenonT(30) DEF FitTabs, Tab
  <2>3. ws' = Put(id, new)
    BY <1>4 DEF RunAnswered, UpdateTab, Put, OpenTabs
  <2> HIDE DEF new, id
  <2> QED BY <1>2, <2>2, <2>3, OneAround DEF Shows
<1>5. CASE RunFailed(a)
  <2> DEFINE id == query[a].tab
             new == [ws.tab[id] EXCEPT !.results = Null, !.error = TRUE]
  <2>1. id \in OpenTabs(ws) => /\ new \in FitTabs /\ new.results = Null
                               /\ new.pendingEdits = ws.tab[id].pendingEdits
    BY <1>1, ZenonT(30) DEF FitTabs, Tab
  <2>2. ws' = Put(id, new)
    BY <1>5 DEF RunFailed, UpdateTab, Put, OpenTabs
  <2> HIDE DEF new, id
  <2> QED BY <1>2, <2>1, <2>2, OneAround DEF Shows
<1> QED BY <1>2, <1>3, <1>4, <1>5

LEMMA ClearAround ==
  ASSUME GridInv, NEW id, AutoClear(id)
  PROVE  Around
<1> USE DEF GridInv
<1> DEFINE new == [ws.tab[id] EXCEPT !.results = Null, !.error = FALSE]
<1>1. id \in OpenTabs(ws) /\ ws.tab[id] \in FitTabs /\ opened' = opened
  BY HereOpen DEF AutoClear
<1>2. new \in FitTabs /\ new.results = Null /\ new.pendingEdits = ws.tab[id].pendingEdits
  BY <1>1 DEF FitTabs, Tab
<1>3. ws' = Put(id, new)
  BY DEF AutoClear, UpdateTab, Put, OpenTabs
<1> HIDE DEF new
<1> QED BY <1>1, <1>2, <1>3, OneAround DEF Shows

\* Connections are chosen, deleted and reloaded under the tabs; no edit goes.
LEMMA ConnectionAround ==
  ASSUME GridInv,
         \/ \E c \in Conns : SelectConnection(c) \/ PaletteConnection(c) \/ DeleteConnection(c)
         \/ \E fresh \in (SUBSET Conns) \ {{}} : ReloadConnections(fresh)
  PROVE  Around /\ UNCHANGED <<opened, query, commit, attempts>>
<1> USE DEF GridInv
<1>1. /\ ws.active \in OpenTabs(ws) /\ ws.tab \in [OpenTabs(ws) -> FitTabs]
      /\ \A t \in OpenTabs(ws) : ws.tab[t] \in Tab
  BY HereOpen
<1>2. UNCHANGED <<opened, query, commit, attempts>>
  BY DEF SelectConnection, PaletteConnection, DeleteConnection, ReloadConnections
<1>3. ASSUME NEW g \in [OpenTabs(ws) -> FitTabs], ws' = [ws EXCEPT !.tab = g],
             \A t \in OpenTabs(ws) : /\ g[t].pendingEdits = ws.tab[t].pendingEdits
                                     /\ g[t].results \in {Null, ws.tab[t].results}
      PROVE  Around
  <2>1. Strip' /\ OpenTabs(ws') = OpenTabs(ws) /\ ws'.tab = g
    BY <1>2, <1>3, Rewritten
  <2> QED BY <1>3, <2>1 DEF Around, EditsKept, Shows
<1>4. ASSUME NEW c \in Conns, SelectConnection(c)
      PROVE  Around
  <2> DEFINE f(t) == [ws.tab[t] EXCEPT
                        !.connection = c, !.results = Null, !.activeResult = 0, !.error = FALSE]
             g == [t \in OpenTabs(ws) |-> IF t = ws.active THEN f(t) ELSE ws.tab[t]]
  <2>1. \A t \in OpenTabs(ws) : /\ f(t) \in FitTabs /\ f(t).pendingEdits = ws.tab[t].pendingEdits
                                /\ f(t).results = Null
    <3> SUFFICES ASSUME NEW t \in OpenTabs(ws)
                 PROVE  /\ f(t) \in FitTabs /\ f(t).pendingEdits = ws.tab[t].pendingEdits
                        /\ f(t).results = Null
      OBVIOUS
    <3>1. ws.tab[t] \in Tab /\ ws.tab[t] \in FitTabs
      BY <1>1
    <3>2. f(t) \in Tab /\ f(t).pendingEdits = ws.tab[t].pendingEdits /\ f(t).results = Null
      BY <3>1, GridEditAssumption DEF Tab
    <3> HIDE DEF f
    <3> QED BY <3>1, <3>2 DEF FitTabs
  <2>2. ws' = [ws EXCEPT !.tab = g]
    BY <1>4 DEF SelectConnection, UpdateActiveTab, UpdateTab, OpenTabs
  <2> HIDE DEF f
  <2>3. /\ g \in [OpenTabs(ws) -> FitTabs]
        /\ \A t \in OpenTabs(ws) : /\ g[t].pendingEdits = ws.tab[t].pendingEdits
                                   /\ g[t].results \in {Null, ws.tab[t].results}
    BY <1>1, <2>1
  <2> HIDE DEF g
  <2> QED BY <1>3, <2>2, <2>3
<1>5. ASSUME NEW c \in Conns, PaletteConnection(c)
      PROVE  Around
  <2> DEFINE f(t) == [ws.tab[t] EXCEPT !.connection = c]
             g == [t \in OpenTabs(ws) |-> IF t = ws.active THEN f(t) ELSE ws.tab[t]]
  <2>1. \A t \in OpenTabs(ws) : /\ f(t) \in FitTabs /\ f(t).pendingEdits = ws.tab[t].pendingEdits
                                /\ f(t).results = ws.tab[t].results
    BY <1>1 DEF FitTabs, Tab
  <2>2. ws' = [ws EXCEPT !.tab = g]
    BY <1>5 DEF PaletteConnection, UpdateActiveTab, UpdateTab, OpenTabs
  <2> HIDE DEF f
  <2>3. /\ g \in [OpenTabs(ws) -> FitTabs]
        /\ \A t \in OpenTabs(ws) : /\ g[t].pendingEdits = ws.tab[t].pendingEdits
                                   /\ g[t].results \in {Null, ws.tab[t].results}
    BY <1>1, <2>1
  <2> HIDE DEF g
  <2> QED BY <1>3, <2>2, <2>3
<1>6. ASSUME NEW c \in Conns, DeleteConnection(c)
      PROVE  Around
  <2> DEFINE f(t) == [ws.tab[t] EXCEPT !.connection = Null]
             g == [t \in OpenTabs(ws) |-> IF ws.tab[t].connection = c THEN f(t) ELSE ws.tab[t]]
  <2>1. \A t \in OpenTabs(ws) : /\ f(t) \in FitTabs /\ f(t).pendingEdits = ws.tab[t].pendingEdits
                                /\ f(t).results = ws.tab[t].results
    BY <1>1 DEF FitTabs, Tab
  <2>2. ws' = [ws EXCEPT !.tab = g]
    BY <1>6 DEF DeleteConnection, ClearConnection, OpenTabs
  <2> HIDE DEF f
  <2>3. /\ g \in [OpenTabs(ws) -> FitTabs]
        /\ \A t \in OpenTabs(ws) : /\ g[t].pendingEdits = ws.tab[t].pendingEdits
                                   /\ g[t].results \in {Null, ws.tab[t].results}
    BY <1>1, <2>1
  <2> HIDE DEF g
  <2> QED BY <1>3, <2>2, <2>3
<1>7. ASSUME NEW fresh \in (SUBSET Conns) \ {{}}, ReloadConnections(fresh)
      PROVE  Around
  <2> DEFINE h == [t \in OpenTabs(ws) |->
                     IF ws.tab[t].connection \in fresh THEN Reset(ws.tab[t]) ELSE ws.tab[t]]
             refreshed == RefreshConnections(ws, fresh, Reset)
  <2>1. h \in [OpenTabs(ws) -> FitTabs]
        /\ \A t \in OpenTabs(ws) : /\ h[t] \in Tab
                                   /\ h[t].pendingEdits = ws.tab[t].pendingEdits
                                   /\ h[t].results \in {Null, ws.tab[t].results}
    <3>1. \A t \in OpenTabs(ws) : /\ Reset(ws.tab[t]) \in FitTabs /\ Reset(ws.tab[t]) \in Tab
                                  /\ Reset(ws.tab[t]).pendingEdits = ws.tab[t].pendingEdits
                                  /\ Reset(ws.tab[t]).results = Null
      <4> SUFFICES ASSUME NEW t \in OpenTabs(ws)
                   PROVE  /\ Reset(ws.tab[t]) \in FitTabs /\ Reset(ws.tab[t]) \in Tab
                          /\ Reset(ws.tab[t]).pendingEdits = ws.tab[t].pendingEdits
                          /\ Reset(ws.tab[t]).results = Null
        OBVIOUS
      <4>1. ws.tab[t] \in Tab /\ ws.tab[t] \in FitTabs
        BY <1>1
      <4>2. /\ Reset(ws.tab[t]) \in Tab /\ Reset(ws.tab[t]).pendingEdits = ws.tab[t].pendingEdits
            /\ Reset(ws.tab[t]).results = Null
        BY <4>1, GridEditAssumption DEF Reset, Tab
      <4> QED BY <4>1, <4>2 DEF FitTabs
    <3> QED BY <1>1, <3>1
  <2>2. refreshed = [ws EXCEPT !.tab = h]
    BY DEF RefreshConnections, OpenTabs
  <2> HIDE DEF h
  <2>3. WellTyped(ws, FitTabs)
    BY DEF Strip
  <2>4. /\ refreshed.tab = h /\ OpenTabs(refreshed) = OpenTabs(ws) /\ refreshed.active = ws.active
    BY <2>1, <2>2, <2>3, Retab
  <2> HIDE DEF refreshed
  <2>5. PICK first \in fresh :
          ws' = IF refreshed.tab[ws.active].connection = Null
                THEN UpdateActiveTab(refreshed, LAMBDA t : [t EXCEPT !.connection = first])
                ELSE refreshed
    BY <1>7 DEF ReloadConnections, refreshed
  <2>6. CASE ws' = refreshed
    BY <1>3, <2>1, <2>2, <2>6
  <2>7. CASE ws' = UpdateActiveTab(refreshed, LAMBDA t : [t EXCEPT !.connection = first])
    <3> DEFINE f(t) == [h[t] EXCEPT !.connection = first]
               g == [t \in OpenTabs(ws) |-> IF t = ws.active THEN f(t) ELSE h[t]]
    <3>1. \A t \in OpenTabs(ws) : /\ f(t) \in FitTabs /\ f(t).pendingEdits = h[t].pendingEdits
                                  /\ f(t).results = h[t].results
      BY <2>1 DEF FitTabs, Tab
    <3>2. ws' = [refreshed EXCEPT !.tab = g]
      BY <2>4, <2>7 DEF UpdateActiveTab, UpdateTab, OpenTabs
    <3>3. ws' = [ws EXCEPT !.tab = g]
      BY <2>2, <3>2
    <3> HIDE DEF f
    <3>4. /\ g \in [OpenTabs(ws) -> FitTabs]
          /\ \A t \in OpenTabs(ws) : /\ g[t].pendingEdits = ws.tab[t].pendingEdits
                                     /\ g[t].results \in {Null, ws.tab[t].results}
      BY <2>1, <3>1
    <3> HIDE DEF g
    <3> QED BY <1>3, <3>3, <3>4
  <2> QED BY <2>5, <2>6, <2>7
<1> QED BY <1>2, <1>4, <1>5, <1>6, <1>7

\* Tabs come and go; the edits of those that stay do.
LEMMA StripAround ==
  ASSUME GridInv, NEW t \in TabIds,
         SwitchTab(t) \/ CloseTab(t) \/ \E c \in Conns \cup {Null} : OpenTab(t, c)
  PROVE  Around /\ UNCHANGED <<query, commit, attempts>>
<1> USE DEF GridInv
<1>1. UNCHANGED <<query, commit, attempts>>
  BY DEF SwitchTab, CloseTab, OpenTab
<1>2. /\ WellTyped(ws, FitTabs) /\ opened \subseteq TabIds /\ OpenTabs(ws) \subseteq opened
  BY DEF Strip
<1>3. CASE SwitchTab(t)
  <2>1. WellTyped(ws', FitTabs) /\ ws'.tab = ws.tab /\ OpenTabs(ws') = OpenTabs(ws) /\ opened' = opened
    BY <1>2, <1>3, ActivateOpen DEF SwitchTab
  <2> QED BY <1>1, <1>2, <2>1 DEF Around, Strip, EditsKept, Shows
<1>4. CASE CloseTab(t)
  <2>1. /\ WellTyped(ws', FitTabs) /\ OpenTabs(ws') = OpenTabs(ws) \ {t} /\ opened' = opened
        /\ \A u \in OpenTabs(ws) \ {t} : ws'.tab[u] = ws.tab[u]
    BY <1>2, <1>4, CloseOpen DEF CloseTab
  <2> QED BY <1>1, <1>2, <2>1 DEF Around, Strip, EditsKept, Shows
<1>5. ASSUME NEW c \in Conns \cup {Null}, OpenTab(t, c)
      PROVE  Around
  <2>1. NewTab(c) \in FitTabs /\ NewTab(c).results = Null
    BY GridEditAssumption DEF NewTab, FitTabs, Tab
  <2>2. t \in TabIds \ OpenTabs(ws) /\ ws' = AppendActivate(ws, t, NewTab(c)) /\ opened' = opened \cup {t}
    BY <1>2, <1>5 DEF OpenTab
  <2>3. /\ WellTyped(ws', FitTabs) /\ OpenTabs(ws') = OpenTabs(ws) \cup {t}
        /\ \A u \in OpenTabs(ws) : ws'.tab[u] = ws.tab[u]
        /\ ws'.tab[t] = NewTab(c)
    BY <1>2, <2>1, <2>2, AppendFresh
  <2> QED BY <1>1, <1>2, <2>1, <2>2, <2>3 DEF Around, Strip, EditsKept, Shows
<1> QED BY <1>1, <1>3, <1>4, <1>5

-----------------------------------------------------------------------------
(* handleCommitAll.                                                        *)

\* A commit that returns drops its results, and keeps the rest.
LEMMA ReturnFields ==
  ASSUME Captured, NEW k \in Commits, NEW pc \in {"done", "failed"}, Return(k, pc)
  PROVE  /\ commit' \in [Commits -> CommitRecs]
         /\ commit'[k].pc = pc /\ commit'[k].results = Null
         /\ commit'[k].conn = commit[k].conn /\ commit'[k].edits = commit[k].edits
         /\ commit'[k].left = commit[k].left
         /\ \A j \in Commits \ {k} : commit'[j] = commit[j]
<1> DEFINE new == [commit[k] EXCEPT !.pc = pc, !.results = Null, !.set = 0]
<1>1. commit \in [Commits -> CommitRecs] /\ commit[k] \in CommitRecs
  BY DEF Captured
<1>2. /\ new \in CommitRecs /\ new.pc = pc /\ new.results = Null
      /\ new.conn = commit[k].conn /\ new.edits = commit[k].edits /\ new.left = commit[k].left
  BY <1>1, GridEditAssumption DEF CommitRecs
<1>3. commit' = [commit EXCEPT ![k] = new]
  BY DEF Return
<1> HIDE DEF new
<1> QED BY <1>1, <1>2, <1>3

\* What a return leaves true, if every captured row was tried.
LEMMA ReturnKeeps ==
  ASSUME GridInv, NEW k \in Commits, NEW pc \in {"done", "failed"}, Return(k, pc),
         commit[k].edits # {} => commit[k].pc = "sending" /\ commit[k].left = {},
         commit[k].pc \in {"idle", "sending"},
         UNCHANGED attempts
  PROVE  Captured' /\ Sent' /\ Tried'
<1> USE DEF GridInv
<1>1. /\ commit' \in [Commits -> CommitRecs]
      /\ commit'[k].pc = pc /\ commit'[k].results = Null
      /\ commit'[k].conn = commit[k].conn /\ commit'[k].edits = commit[k].edits
      /\ commit'[k].left = commit[k].left
      /\ \A j \in Commits \ {k} : commit'[j] = commit[j]
  BY ReturnFields
<1>2. Captured'
  BY <1>1 DEF Captured
<1>3. Sent'
  <2> SUFFICES ASSUME NEW u \in attempts PROVE Made(u)'
    BY DEF Sent
  <2>1. Made(u) /\ u.by \in Commits
    BY DEF Sent, Captured, Updates
  <2>2. CASE u.by = k
    BY <1>1, <2>1, <2>2 DEF Made
  <2>3. CASE u.by # k
    BY <1>1, <2>1, <2>3 DEF Made
  <2> QED BY <2>2, <2>3
<1>4. Tried'
  <2> SUFFICES ASSUME NEW j \in Commits, NEW e \in commit'[j].edits
               PROVE  \/ commit'[j].pc = "sending" /\ e.row \in commit'[j].left
                      \/ \E u \in attempts : u.by = j /\ e \in u.edits
    BY DEF Tried
  <2>1. e \in commit[j].edits
    BY <1>1
  <2>2. \/ commit[j].pc = "sending" /\ e.row \in commit[j].left
        \/ \E u \in attempts : u.by = j /\ e \in u.edits
    BY <2>1 DEF Tried
  <2>3. CASE j = k
    BY <2>1, <2>2, <2>3
  <2>4. CASE j # k
    BY <1>1, <2>2, <2>4
  <2> QED BY <2>3, <2>4
<1> QED BY <1>2, <1>3, <1>4

\* The click that is refused, and the loop that ends with errors: the active tab
\* shows an error and keeps its edits.
LEMMA FailStep ==
  ASSUME GridInv, NEW k \in Commits, CommitRefused(k) \/ CommitFailed(k)
  PROVE  GridInv' /\ EditsKept
<1> USE DEF GridInv
<1> DEFINE new == [ws.tab[ws.active] EXCEPT !.error = TRUE]
<1>1. ws.active \in OpenTabs(ws) /\ ws.tab[ws.active] \in FitTabs
  BY HereOpen
<1>2. new \in FitTabs /\ new.results = ws.tab[ws.active].results
  BY <1>1 DEF FitTabs, Tab
<1>3. ws' = Put(ws.active, new)
  BY DEF CommitRefused, CommitFailed, UpdateActiveTab, UpdateTab, Put, OpenTabs
<1> HIDE DEF new
<1>4. Return(k, "failed") /\ UNCHANGED <<opened, query, attempts>>
  BY DEF CommitRefused, CommitFailed
<1>5. Around
  BY <1>1, <1>2, <1>3, <1>4, OneAround DEF Shows
<1>6. commit[k].pc \in {"idle", "sending"} /\ (commit[k].edits # {} => commit[k].pc = "sending" /\ commit[k].left = {})
  <2>1. CASE CommitRefused(k)
    BY <2>1 DEF CommitRefused, Committable, Captured, NoCommit
  <2>2. CASE CommitFailed(k)
    BY <2>2 DEF CommitFailed
  <2> QED BY <2>1, <2>2
<1>7. Captured' /\ Sent' /\ Tried'
  BY <1>4, <1>6, ReturnKeeps
<1>8. AllBacked'
  <2>1. ASSUME NEW t \in OpenTabs(ws') PROVE Backed(attempts', ws'.tab[t].results)
    <3>1. t \in OpenTabs(ws) \/ ws'.tab[t].results = Null
      BY <1>5 DEF Around
    <3>2. CASE t \in OpenTabs(ws)
      <4>1. Backed(attempts, ws.tab[t].results) /\ Shows(ws'.tab[t].results, ws.tab[t].results)
        BY <1>5, <3>2 DEF AllBacked, Around
      <4> QED BY <1>4, <4>1, StillBacked
    <3> QED BY <3>1, <3>2 DEF Backed
  <2>2. ASSUME NEW j \in Commits PROVE Backed(attempts', commit'[j].results)
    <3>1. commit'[j].results \in {Null, commit[j].results}
      BY <1>4, ReturnFields
    <3> QED BY <1>4, <3>1 DEF AllBacked, Backed
  <2> QED BY <2>1, <2>2 DEF AllBacked
<1> QED BY <1>4, <1>5, <1>7, <1>8 DEF Around, Queries

LEMMA StartStep ==
  ASSUME GridInv, NEW k \in Commits, CommitStarted(k)
  PROVE  GridInv' /\ EditsKept
<1> USE DEF GridInv
<1> DEFINE new == [pc |-> "sending", conn |-> Here.connection, results |-> Here.results,
                   set |-> Here.activeResult, edits |-> Here.pendingEdits,
                   left |-> {e.row : e \in Here.pendingEdits}, errors |-> FALSE]
<1>1. /\ commit[k].pc = "idle" /\ Here.results # Null /\ UNCHANGED <<ws, opened, query, attempts>>
      /\ commit' = [commit EXCEPT ![k] = new]
  BY DEF CommitStarted, Committable
<1>2. Here \in Tab /\ Backed(attempts, Here.results)
  BY HereOpen DEF AllBacked, Here
<1>3. /\ new \in CommitRecs /\ new.pc = "sending" /\ new.results = Here.results
      /\ \A e \in new.edits : e.row \in new.left
  BY <1>2 DEF CommitRecs, Tab, Edits
<1> HIDE DEF new
<1>4. /\ commit' \in [Commits -> CommitRecs] /\ commit'[k] = new
      /\ \A j \in Commits \ {k} : commit'[j] = commit[j]
  BY <1>1, <1>3 DEF Captured
<1>5. Captured'
  BY <1>1, <1>3, <1>4 DEF Captured
<1>6. Sent'
  <2> SUFFICES ASSUME NEW u \in attempts PROVE Made(u)'
    BY <1>1 DEF Sent
  <2>1. Made(u) /\ u.by \in Commits
    BY DEF Sent, Captured, Updates
  <2>2. u.by # k
    BY <1>1, <2>1 DEF Made
  <2> QED BY <1>4, <2>1, <2>2 DEF Made
<1>7. Tried'
  BY <1>1, <1>3, <1>4 DEF Tried
<1>8. AllBacked'
  BY <1>1, <1>2, <1>3, <1>4 DEF AllBacked
<1>9. Strip' /\ Queries' /\ EditsKept
  BY <1>1 DEF Strip, Queries, EditsKept
<1> QED BY <1>5, <1>6, <1>7, <1>8, <1>9

\* One turn of the loop: its UPDATE is the first for that row.
LEMMA AttemptStep ==
  ASSUME GridInv, NEW k \in Commits, NEW row \in Rows, RowAttempted(k, row)
  PROVE  GridInv' /\ EditsKept
<1> USE DEF GridInv
<1>1. PICK accepted \in BOOLEAN :
        /\ attempts' = attempts \cup {Update(k, row, commit[k].conn, accepted)}
        /\ commit' = [commit EXCEPT ![k].left = @ \ {row}, ![k].errors = @ \/ ~accepted]
  BY DEF RowAttempted
<1>2. PICK new : new = Update(k, row, commit[k].conn, accepted)
  OBVIOUS
<1>3. /\ commit[k].pc = "sending" /\ row \in commit[k].left /\ UNCHANGED <<ws, opened, query>>
  BY DEF RowAttempted
<1>4. commit \in [Commits -> CommitRecs] /\ commit[k] \in CommitRecs /\ commit[k].results \in Shown
  BY <1>3 DEF Captured, CommitRecs
<1>5. /\ new \in Updates /\ new.by = k /\ new.conn = commit[k].conn /\ new.accepted = accepted
      /\ new.target.answer = commit[k].results.answer /\ new.target.set = commit[k].set
      /\ new.target.row = row
      /\ new.edits = {e \in commit[k].edits : e.row = row}
  BY <1>2, <1>4 DEF Update, Updates, CommitRecs, DataRows, Shown
<1>6. /\ commit'[k].pc = "sending" /\ commit'[k].conn = commit[k].conn
      /\ commit'[k].results = commit[k].results /\ commit'[k].set = commit[k].set
      /\ commit'[k].edits = commit[k].edits
      /\ commit'[k].left = commit[k].left \ {row} /\ commit'[k].errors = (commit[k].errors \/ ~accepted)
      /\ \A j \in Commits \ {k} : commit'[j] = commit[j]
      /\ commit' \in [Commits -> CommitRecs]
  <2> DEFINE m == [commit[k] EXCEPT !.left = @ \ {row}, !.errors = @ \/ ~accepted]
  <2>1. commit' = [commit EXCEPT ![k] = m]
    BY <1>1, <1>4
  <2>2. /\ m \in CommitRecs /\ m.pc = "sending" /\ m.conn = commit[k].conn
        /\ m.results = commit[k].results /\ m.set = commit[k].set /\ m.edits = commit[k].edits
        /\ m.left = commit[k].left \ {row} /\ m.errors = (commit[k].errors \/ ~accepted)
    BY <1>3, <1>4 DEF CommitRecs
  <2> HIDE DEF m
  <2> QED BY <1>4, <2>1, <2>2
<1>7. attempts' = attempts \cup {new}
  BY <1>2, <1>1
<1>8. Captured'
  BY <1>3, <1>5, <1>6, <1>7 DEF Captured
<1>9. \A u \in attempts : u.by = k => u.target.row # row
  BY <1>3 DEF Sent, Made
<1>10. Sent'
  <2>1. ASSUME NEW u \in attempts PROVE Made(u)'
    <3>1. Made(u) /\ u.by \in Commits
      BY DEF Sent, Captured, Updates
    <3>2. CASE u.by = k
      BY <1>3, <1>6, <1>9, <3>1, <3>2 DEF Made
    <3>3. CASE u.by # k
      BY <1>6, <3>1, <3>3 DEF Made
    <3> QED BY <3>2, <3>3
  <2>2. Made(new)'
    BY <1>5, <1>6 DEF Made
  <2>3. \A u, v \in attempts' : u.by = v.by /\ u.target = v.target => u = v
    BY <1>5, <1>7, <1>9 DEF Sent
  <2> QED BY <1>7, <2>1, <2>2, <2>3 DEF Sent
<1>11. Tried'
  <2> SUFFICES ASSUME NEW j \in Commits, NEW e \in commit'[j].edits
               PROVE  \/ commit'[j].pc = "sending" /\ e.row \in commit'[j].left
                      \/ \E u \in attempts' : u.by = j /\ e \in u.edits
    BY DEF Tried
  <2>1. /\ e \in commit[j].edits
        /\ \/ commit[j].pc = "sending" /\ e.row \in commit[j].left
           \/ \E u \in attempts : u.by = j /\ e \in u.edits
    BY <1>6 DEF Tried
  <2>2. CASE j = k /\ e.row = row
    BY <1>5, <1>7, <2>1, <2>2
  <2>3. CASE j = k /\ e.row # row
    BY <1>6, <1>7, <2>1, <2>3
  <2>4. CASE j # k
    BY <1>6, <1>7, <2>1, <2>4
  <2> QED BY <2>2, <2>3, <2>4
<1>12. AllBacked'
  <2>1. attempts \subseteq attempts'
    BY <1>7
  <2>2. \A t \in OpenTabs(ws) : Backed(attempts', ws.tab[t].results)
    BY <2>1, StillBacked DEF AllBacked, Shows
  <2>3. \A j \in Commits : commit'[j].results = commit[j].results
    BY <1>6
  <2>4. \A j \in Commits : Backed(attempts', commit[j].results)
    BY <2>1, StillBacked DEF AllBacked, Shows
  <2> QED BY <1>3, <2>2, <2>3, <2>4 DEF AllBacked
<1>13. Strip' /\ Queries' /\ EditsKept
  BY <1>3 DEF Strip, Queries, EditsKept
<1> QED BY <1>8, <1>10, <1>11, <1>12, <1>13

\* The captured results with the edits applied: every one of them was accepted.
LEMMA DoneStep ==
  ASSUME GridInv, NEW k \in Commits, CommitDone(k)
  PROVE  GridInv' /\ EditsKept
<1> USE DEF GridInv
<1> DEFINE new == [ws.tab[ws.active] EXCEPT !.results = Applied(k), !.pendingEdits = {}, !.editingCell = Null]
           cells == {[set |-> commit[k].set, row |-> e.row, col |-> e.col] : e \in commit[k].edits}
<1>1. /\ commit[k].pc = "sending" /\ commit[k].left = {} /\ ~commit[k].errors
      /\ Return(k, "done") /\ UNCHANGED <<opened, query, attempts>>
  BY DEF CommitDone
<1>2. commit[k] \in CommitRecs /\ commit[k].results \in Shown /\ commit[k].results # Null
  BY <1>1 DEF Captured, CommitRecs
<1>3. /\ Applied(k) \in Shown /\ Applied(k).answer = commit[k].results.answer
      /\ Applied(k).applied = commit[k].results.applied \cup cells
  <2>1. cells \subseteq [set : Sets, row : Rows, col : Cols]
    BY <1>2 DEF CommitRecs, Edits
  <2>2. Applied(k) = [commit[k].results EXCEPT !.applied = @ \cup cells]
    BY DEF Applied
  <2> HIDE DEF cells
  <2> QED BY <1>2, <2>1, <2>2 DEF Shown
<1>4. ws.active \in OpenTabs(ws) /\ ws.tab[ws.active] \in FitTabs
  BY HereOpen
<1>5. new \in FitTabs /\ new.results = Applied(k)
  BY <1>3, <1>4 DEF FitTabs, Tab
<1>6. ws' = Put(ws.active, new)
  BY DEF CommitDone, UpdateActiveTab, UpdateTab, Put, OpenTabs
<1> HIDE DEF new
<1>7. /\ Strip' /\ OpenTabs(ws') = OpenTabs(ws)
      /\ \A t \in OpenTabs(ws) : ws'.tab[t] = IF t = ws.active THEN new ELSE ws.tab[t]
  BY <1>1, <1>5, <1>6, OneRewritten
<1>8. EditsKept
  BY <1>7 DEF EditsKept
<1>9. Captured' /\ Sent' /\ Tried'
  BY <1>1, ReturnKeeps
<1>10. ASSUME NEW e \in commit[k].edits
       PROVE  Accepted(attempts, Applied(k), [set |-> commit[k].set, row |-> e.row, col |-> e.col])
  <2>1. PICK u \in attempts : u.by = k /\ e \in u.edits
    BY <1>1 DEF Tried
  <2>2. /\ u.accepted /\ u.target.answer = commit[k].results.answer /\ u.target.set = commit[k].set
        /\ u.target.row = e.row
    BY <1>1, <2>1 DEF Sent, Made
  <2>3. u.target = [answer |-> Applied(k).answer, set |-> commit[k].set, row |-> e.row]
    BY <1>3, <2>2 DEF Captured, Updates, DataRows
  <2> QED BY <2>1, <2>2, <2>3 DEF Accepted
<1>11. Backed(attempts, Applied(k))
  <2> SUFFICES ASSUME NEW x \in Applied(k).applied PROVE Accepted(attempts, Applied(k), x)
    BY DEF Backed
  <2>1. CASE x \in commit[k].results.applied
    <3>1. Accepted(attempts, commit[k].results, x)
      BY <1>2, <2>1 DEF AllBacked, Backed
    <3> QED BY <1>3, <3>1 DEF Accepted
  <2>2. CASE x \in cells
    BY <1>10, <2>2
  <2> QED BY <1>3, <2>1, <2>2
<1>12. AllBacked'
  <2>1. \A t \in OpenTabs(ws') : Backed(attempts', ws'.tab[t].results)
    BY <1>1, <1>5, <1>7, <1>11 DEF AllBacked
  <2>2. ASSUME NEW j \in Commits PROVE Backed(attempts', commit'[j].results)
    <3>1. commit'[j].results \in {Null, commit[j].results}
      BY <1>1, ReturnFields
    <3> QED BY <1>1, <3>1 DEF AllBacked, Backed
  <2> QED BY <2>1, <2>2 DEF AllBacked
<1> QED BY <1>1, <1>7, <1>8, <1>9, <1>12 DEF Queries

-----------------------------------------------------------------------------

LEMMA GridStep == GridInv /\ [Next]_vars => GridInv' /\ EditsKept
<1> SUFFICES ASSUME GridInv, [Next]_vars PROVE GridInv' /\ EditsKept
  OBVIOUS
<1>1. Queries
  BY DEF GridInv
<1>2. CASE \/ \E row \in Rows, col \in Cols, order \in DisplayOrders : CellEdit(row, col, order)
           \/ CellCommit \/ CellCancel \/ RollbackAll \/ \E i \in Sets : SwitchResult(i)
  BY <1>1, <1>2, CellAround, AroundStep DEF Queries
<1>3. ASSUME NEW a \in Answers, RunLaunched(a) \/ RunAnswered(a) \/ RunFailed(a)
      PROVE  GridInv' /\ EditsKept
  BY <1>3, RunAround, AroundStep
<1>4. ASSUME NEW t \in TabIds, AutoClear(t)
      PROVE  GridInv' /\ EditsKept
  <2>1. Around /\ Queries' /\ UNCHANGED <<commit, attempts>>
    BY <1>1, <1>4, ClearAround DEF AutoClear, Queries
  <2> QED BY <2>1, AroundStep
<1>5. ASSUME NEW t \in TabIds, SwitchTab(t) \/ CloseTab(t) \/ \E c \in Conns \cup {Null} : OpenTab(t, c)
      PROVE  GridInv' /\ EditsKept
  BY <1>1, <1>5, StripAround, AroundStep DEF Queries
<1>6. CASE \/ \E c \in Conns : SelectConnection(c) \/ PaletteConnection(c) \/ DeleteConnection(c)
           \/ \E fresh \in (SUBSET Conns) \ {{}} : ReloadConnections(fresh)
  BY <1>1, <1>6, ConnectionAround, AroundStep DEF Queries
<1>7. ASSUME NEW k \in Commits, CommitRefused(k) \/ CommitStarted(k) \/ CommitFailed(k) \/ CommitDone(k)
      PROVE  GridInv' /\ EditsKept
  BY <1>7, FailStep, StartStep, DoneStep
<1>8. ASSUME NEW k \in Commits, NEW row \in Rows, RowAttempted(k, row)
      PROVE  GridInv' /\ EditsKept
  BY <1>8, AttemptStep
<1>9. CASE UNCHANGED vars
  BY <1>9 DEF vars, GridInv, Strip, Queries, Captured, Sent, Made, Tried, AllBacked, EditsKept
<1> QED BY <1>2, <1>3, <1>4, <1>5, <1>6, <1>7, <1>8, <1>9 DEF Next

LEMMA GridInvariant == Spec => []GridInv
<1>1. GridInv /\ [Next]_vars => GridInv'
  BY GridStep
<1> QED BY <1>1, GridInitially, PTL DEF Spec

\* The strip stays well formed, the records stay typed, and a tab has at most
\* one unsaved edit for each cell.
THEOREM GridTypes == Spec => []TypeOK
<1>1. GridInv => TypeOK
  <2> SUFFICES ASSUME GridInv PROVE TypeOK
    OBVIOUS
  <2>1. StripOK(ws) /\ ws.tab \in [OpenTabs(ws) -> FitTabs]
        /\ opened \subseteq TabIds /\ OpenTabs(ws) \subseteq opened
    BY DEF GridInv, Strip, WellTyped
  <2>2. /\ ws.tab \in [OpenTabs(ws) -> Tab]
        /\ \A t \in OpenTabs(ws) : \A e, f \in ws.tab[t].pendingEdits : Cell(e) = Cell(f) => e = f
    BY <2>1 DEF FitTabs
  <2>3. \A k \in Commits : commit[k].pc \in {"idle", "sending", "done", "failed"}
    BY DEF GridInv, Captured, CommitRecs
  <2> QED BY <2>1, <2>2, <2>3 DEF TypeOK
<1> QED BY <1>1, GridInvariant, PTL

\* The UPDATEs of a commit go to the connection it was clicked on, one for each
\* row, with the edits of that row.
THEOREM UpdatesAsClicked == Spec => []SentAsCaptured
<1>1. GridInv => SentAsCaptured
  BY DEF GridInv, Sent, Made, SentAsCaptured
<1> QED BY <1>1, GridInvariant, PTL

\* A commit that is over has tried every row it captured.
THEOREM NoRowForgotten == Spec => []EveryRowTried
<1>1. GridInv => EveryRowTried
  BY DEF GridInv, Tried, EveryRowTried
<1> QED BY <1>1, GridInvariant, PTL

\* A value on display that is taken for the database's was accepted by it.
THEOREM ShowsTheDatabase == Spec => []ShownAsAccepted
<1>1. GridInv => ShownAsAccepted
  BY DEF GridInv, AllBacked, Backed, Accepted, ShownAsAccepted
<1> QED BY <1>1, GridInvariant, PTL

\* No step drops an unsaved edit of a tab that stays in the background.
THEOREM BackgroundSafe == Spec => BackgroundEditsKept
<1>1. GridInv /\ [Next]_vars =>
        [\A t \in (OpenTabs(ws) \cap OpenTabs(ws')) \ {ws.active} :
           \A e \in ws.tab[t].pendingEdits \ ws'.tab[t].pendingEdits :
             \E u \in attempts : u.accepted /\ e \in u.edits]_vars
  BY GridStep DEF EditsKept
<1> QED BY <1>1, GridInvariant, PTL DEF Spec, BackgroundEditsKept
=============================================================================
