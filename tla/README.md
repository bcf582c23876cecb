# DbArk in TLA+

DbArk is a desktop database client: a React frontend (`src/src`), a Tauri
backend in Rust (`src/src-tauri`), and native libraries in C#
(`src/src-csharp`) that talk to databases, SSH servers and files.
This directory holds TLA+ specifications of it, TLC configurations that
check them on small instances, and proofs for every instance.

- [The system](#the-system) - inventory of parts, state and hazards
- [The modules](#the-modules) - what is modelled, and how it reads the code
- [Runs](#runs) - what each configuration checks, bounds, fairness
- [Proofs](#proofs) - what is proved, and how
- [Where code and text disagree](#where-code-and-text-disagree)
- [Behaviours worth knowing](#behaviours-worth-knowing)
- [Not modelled](#not-modelled)

## The system

All frontend code runs on one JavaScript thread, so it interleaves only at
`await`, at timers and at user events, but there it interleaves freely: nothing
disables tabs, connections or the keyboard shortcuts while a call is in flight.
Tauri commands are `async` and run on a pool of threads, so two native calls
are truly concurrent and may be answered in any order.

| Component | State | Hard behaviours | Correct when | Modules |
|---|---|---|---|---|
| Editor tabs (`state/tabsReducer.ts`, `App.tsx`) | tabs in order, active id; one editor for all texts, a 300 ms timer | updates addressed to "the active tab" are resolved late; closing re-selects; timers cross a change of tab | there is always an active, open tab; each tab keeps its own text | `Tabs`, `EditorText` |
| Query runs (`App.tsx` `runQuery`) | `loading`, `results`, `error` of a tab; port cache; timers | up to five awaits per run; several runs per tab; timers that outlive runs | results reach the tab they were asked from; the spinner is lowered; results expire | `QueryRun`, `RunDelivery` |
| SSH tunnels (`data/useConnections.ts`, `commands/tunnel.rs`, `SshTunnel.cs`) | port cache and indicator; two native dictionaries | check-then-await on the cache; two dictionaries updated without a lock; network drops | a live port is only taken down by its own connection; each caller is answered | `Tunnel` |
| Inline editing (`ResultsGrid.tsx`, `handleCommitAll`) | edited cell, unsaved edits | one UPDATE per row, two awaits each; partial failure; edits outlive results | UPDATEs are those clicked; nothing refused is shown as saved | `GridEdit` |
| Results panel and grid (`App.tsx`, `ResultsGrid.tsx`) | filter, sort | the grid's state survives a change of tab or result | the rows on display are rows of the result, each once | `GridView` |
| Schema browser (`data/useSchema.ts`, `DropObjectDialog.tsx`, `SchemaExplorer`) | schema on display, cache of five, database lists | late answers for a connection that was left; tunnel failure; drops | the schema shown is that of the active tab's connection; what was dropped is forgotten | `SchemaBrowser` |
| Query executor (`QueryExecutor.cs` and its engines) | row cap (static) | concurrent calls share the cap; a run stops half-way; a read ends early and nobody is told | no write on a read-only connection; one result set for each read, in order, up to a reported error | `QueryExecutor` |
| Connections and credentials (`ConnectionManager.cs`, `AddConnectionForm.tsx`, `credentials.rs`) | TOML files, keychain entries | several commands, each may fail or be killed; rename deletes before it writes | a saved connection has its secret, and nobody else's is deleted | `ConnectionStore` |
| Activity panel (`data/useActivity.ts`, `ActivityExecutor.cs`) | rows on display, polls | overlapping polls; switch between poll and answer | a kill goes to the server that was listed; the list catches up | `Activity` |
| History and audit (`data/useHistory.ts`, `QueryHistory.cs`) | entries, list, loads | loads for several connections overlap; runs end meanwhile; native failures are answered as successes | the list shown is that of the active connection | `History` |
| Saved queries (`savedQueriesReducer.ts`, `commands/history.rs`) | SQL file and sidecar, list | two files; overlapping calls | a saved query is whole; the panel shows what is on disk | `QueryLibrary` |
| Settings and lock (`settingsReducer.ts`, `SettingsModal.tsx`, `App.tsx`) | settings, draft, `locked`, inactivity timer | closures over old settings; saves that fail | the settings in force are those on disk; an active window will lock | `Preferences` |
| Execution plans (`query/planReshape.ts`, `plan/`) | none | plans are recognised among the data; five formats of nested documents | no result set is lost; every operator is drawn once, below the right one | `PlanView` |
| ER diagram (`components/ErDiagram`) | selection, highlight; drawn groups owned by d3 | two owners of one picture; the schema is exchanged below it | what is drawn is what was selected | `Diagram` |
| Command palette (`paletteReducer.ts`, `CommandPalette.tsx`) | query, cursor | rows change under the cursor; execution is deferred | Enter has a row to run | `Palette` |
| Files, catalogue queries, connection strings, scripting, native bridge, dialogs | none to speak of | - | - | - |

Who calls whom: a run, the schema browser and the activity panel all open
tunnels through one cache; runs, commits and the connection list all write tabs
through the reducer; runs write history and audit and reload the history list;
deleting or reloading connections resets tabs that runs and commits will still
write to, and reloads the schema tree; a drop purges the schema cache; the
results of a run are reshaped into plans and shown by the grid.

PROJECT.json lists the hazards line by line, each with the properties that
would catch it or with the reason why none does.

## The modules

| Module | Models | Extends |
|---|---|---|
| `Tabs` | `state/tabsReducer.ts`, as pure operators on a workspace record | |
| `RunDelivery` | what running a query promises; written without looking at awaits | |
| `QueryRun` | `runQuery`, its timers, and all that happens to tabs meanwhile | `Tabs` |
| `Tunnel` | `openTunnel`, the `open_tunnel` command, `SshTunnel.cs` | |
| `GridEdit` | cell editing and `handleCommitAll` | `Tabs` |
| `EditorText` | the editor's text, its timers, and every way to leave a tab | `Tabs` |
| `SavedConns` | what the panels ask of a saved connection | `Tabs` |
| `Filters` | JavaScript's `filter` and `sort`, and loops that skip, as functions of positions | |
| `SchemaBrowser` | `useSchema`, its reducers and caches, dropping an object | `SavedConns`, `Filters` |
| `Activity` | `useActivity`, polls and kills | `SavedConns` |
| `History` | `useHistory`, the history panel, and what runs do to it | |
| `QueryLibrary` | saved queries: dialog, panel, and the two files of a query | |
| `Preferences` | settings dialog, its draft, saving, and the inactivity lock | |
| `ConnectionStore` | connection files and keychain entries through save, rename, delete and import | |
| `QueryExecutor` | the native `execute_query` for every engine | `Filters` |
| `PlanView` | which results are taken for plans, the five parsers, what is marked hot | `Filters` |
| `Diagram` | selection, nodes, edges and highlight of the ER diagram | |
| `Palette` | cursor, rows and deferred execution of the palette | |
| `GridView` | which display the lower panel shows; filter and sort of the grid | `Filters` |
| `MCQueryRun`, `MCTunnel`, `MCGridEdit`, `MCSchemaBrowser`, `MCQueryExecutor` | definitions for TLC | the module each is named for |
| `MCWorkbench` | `SchemaBrowser`, `ConnectionStore`, `Preferences` and `QueryLibrary` side by side | |
| `MCPanels` | `Activity`, `EditorText`, `History`, `PlanView`, `Diagram`, `Palette`, `GridView` and `QueryExecutor` side by side | `MCQueryExecutor` |
| `ListProofs` | lemmas about induction and recursive functions, filtering, sorting and the tab strip | `Tabs`, `Filters` |
| `QueryRunProofs`, `TunnelProofs`, `GridEditProofs`, `SchemaBrowserProofs` | theorems | the module each is named for, `ListProofs` where it has lists or tabs |
| `WorkbenchProofs` | theorems about `ConnectionStore`, `Preferences`, `QueryLibrary` and their composition | `MCWorkbench`, `SchemaBrowserProofs` |
| `AnswerProofs` | theorems about `QueryExecutor` and `PlanView` | these two, `ListProofs` |
| `PanelProofs` | theorems about `Activity`, `History`, `EditorText`, `Palette`, `Diagram`, `GridView` and their composition | `MCPanels`, `AnswerProofs` |

A step of a model is what runs between two awaits, or between two accesses to
shared state in native code. A call in flight is a record (`runs[r]`, `call[k]`,
`loads[k]`, ...) that holds what its closure captured. Variables marked
*history* in a module are read by properties only; no guard looks at them.

### Tabs

A workspace is `[order, active, tab]`. Each reducer case is an operator from
workspace to workspace; what a tab holds is up to the module that uses it, so
the merging cases take the update as an operator argument. A dispatch in the
code is one application; a handler that dispatches several times without an
`await` composes them into one step. The SQL text that some cases save into the
outgoing tab is in `EditorText`; the join tables of file queries are left out.

### QueryRun

`LaunchRefused`, `LaunchUnconnected` and `LaunchStarted` are the three ways
`runQuery` gets to its first await or returns; `TunnelOpened` / `TunnelFailed`,
`DataAnswered`, `NativeThrew`, `AnsweredInError`, `ResultsArrived` and `Recorded`
are its continuations; `AutoClear` is the timeout it leaves behind. `runs[r]` is
the closure: the tab it pinned, the connection, whether an EXPLAIN call follows.
The remaining actions are user events and reloads that write the same tabs. A
tab's `results` and `error` are the run that put them there, which is what the
properties ask about; their content is not modelled.

`build_connection_string` and `execute_query` are one wait, since nothing is
read or written between them. The history call and the audit call are one step
at the end (`Recorded`), since neither is seen by anything else in the module.
Whether a run sets a timer is a free choice at delivery: `settings` is missing
from the dependencies of `runQuery`, so the closure may hold any earlier value.
The lock is a flag that may flip at any time.

### Tunnel

Calls interleave at every access to shared data: the cache check, each of the
two dictionary removals in `CloseTunnelInternal`, connecting, starting the
port, and the two publications. A port and its SSH client bear the name of the
call that made them, `line` is what became of them, and `overlapped` remembers
which calls were in flight together on one connection. Disconnecting a client
stops its ports (SSH.NET, external), and the network may drop a connected client
at any time (`Drop`). Authentication by key or by password is one `Connect`,
which may fail.

### GridEdit

A tab has results (an answer and the edits already written into it), the result
set on display, unsaved edits and the edited cell. An edit carries `seen`, the
data row that was under the cursor, which the code does not keep: it is what
`UpdateHitsEditedRow` compares with the row an UPDATE addresses. Sorting and
filtering are a permutation chosen at each double click, since the grid's sort
is its own state (`GridView` has it). `commit[k]` is the closure of
`handleCommitAll`; one turn of its loop is one step, as `build_connection_string`
and `execute_query` read nothing shared that matters. `attempts` is the history
of UPDATEs.

Whether a table and its key are found in the schema on display is a free choice
(`CommitRefused`), because the schema is loaded by another component. An UPDATE is
accepted when the answer of the executor carries no error: the code does not
look at the number of rows, and neither does the model. Runs are those of
`QueryRun`, reduced to what they do to results.

### EditorText

One Monaco editor (`buffer`) serves all tabs. A change of its text arms `timer`,
300 ms, which writes to whatever tab is active when it fires (`SaveFires`). The
handlers that leave a tab write the text to it first and set a timer of 0 ms
(`load`) that puts the next tab's text into the editor (`ShowLoaded`); setting it
is a change like any other and arms the long timer again. Each handler does this
in its own way and is an action of its own; the two palette items that change
tabs without doing it, and a definition that arrives when another tab is active,
set `strayed`. The one assumption on timers is that the browser runs a 0 ms timer
before the next event of the user; it may run before or after the 300 ms timer
and native answers.

### SchemaBrowser

`loadDatabases` goes on as `loadSchema`, so both are one element of `Loads`: `list`,
`tunnel`, `fetch`, `answer`. `FollowTab` is the effect on the active tab, and part of
every action that changes its id. The cache is the insertion-ordered `Map` of
the code (`Put`, `Evicted`, `Purged`). A schema is where it was read from, whether
it is an error, and whether it still lists the one object that a drop removes;
`CatalogueRead` is the moment the server is asked, before the answer is
processed. The tunnel is an answer or a refusal (`Tunnel` has the rest). `raced`
says that the user acted while a load or a drop was in flight, `adrift` that a tab
was given a connection and the tree was not told.

### Activity and History

Both follow the connection of the active tab. `Activity` has the interval of five
seconds (`Tick`), the poll on every change of connection (`PollNow`), the button,
and the reload after a kill; polls are silent or not, and are answered in any
order. Rows are the connection they were read from. `History` has the loads of
the list, asked and answered in two steps, the clear with its own two, and runs
that remember whether the panel was open when they were launched and reload it
when they end.

`QueryHistory.cs` keeps most failures to itself. A read that fails is answered as
no entries and an error that `load` does not look at, and a step that fails ends
the rows like the last one: `HistoryRead` answers any part of what is recorded.
`ClearHistory` ignores the result of its DELETE, so `HistoryCleared` answers that the
list is cleared whether it deleted or not (`"kept"`); only an exception is an error.
`LoadFailed` is the call itself that throws, which leaves the list as it was. `short`
remembers that the list on display comes from such a failure.

### QueryLibrary, ConnectionStore, Preferences

These three have state on disk. `QueryLibrary` and `ConnectionStore` split a
command at every write: `save_query` is `SqlWritten` then `MetaWritten`; a save of a
connection is the file (`FileSaved`, which removes the old file of a renamed
connection first), then a secret stored, cleaned up or migrated (`SecretStored`,
`OldSecretDeleted`, `SecretMigrated`). Every step may fail (`CommandFails`,
`KeychainThrew`, `FileRefused`), and the application may be closed or killed between
any two (`Reopened`, `Killed`, `Restart`), which loses what is in memory and keeps
what is on disk. A list is read at one moment and shown at a later one. The writing
or removal of one file is one step: a crash leaves a file as it was before or as
it is after, although `fs::write` itself does not promise that.

`Preferences` has the reducer's settings and draft with the save in flight, and
the lock: a timer, the settings its listeners captured when they were attached,
and whether the last activity was less than half a second ago.

### QueryExecutor

A text is a sequence of batches of statements, "read" or "write". `Units` is what
an engine executes at once: a statement for SQLite, a batch for SQL Server, the
whole text behind a `DbDataReader`. The read-only guard is asked for all
statements at the start (SQLite) or for each batch in its turn. `cap` is the
static field; every call sets it on the way in and reads it for every result
set.

The ways a statement fails differ by engine and are actions of their own. An
exception of a reader, or a batch that SQL Server does not begin, is an error
(`BatchFailed`). What ODBC and SQLite report after that is lost: a fetch that fails
ends its loop like the last row, and the rows read so far are the answer
(`ReadCutShort`), whereupon the batch may have more results or none; when
`SQLMoreResults` fails the batch is over (`LaterStatementFailed`); a SQLite write that
fails is a completed command (`SqliteFailed`). `ran` remembers which statements were
done, cut short or failed, with the rows the loop found; a result set has these rows
beside those in the answer, and whether a value was clipped, which marks it as
truncated as well.

### PlanView, Diagram, Palette, GridView

An answer in `PlanView` is a list of result sets that hold data, a message, a plan,
or `"markup"`: data with a cell that begins with `<` and has `<?xml` or `ShowPlanXML` near
it, which is all that `isPlanXmlCell` looks at. A SQL Server answer may hold any of
them in any order, and several plans, since a text of several statements is wrapped as
one. The first result set with such a cell becomes the plan, its other cells are lost,
and what comes after is data, plan or not.

The rest is functions: a document is a tree of numbered nodes, and the parsers are
operators that find an operator's children as each format nests them, written with
recursive functions. The initial states range over every document up to a size.
`Expected` is the reference: read off the document node by node, without the parsers.
A MySQL block may hold, beside the wrapper it is made of, subqueries (of the select
list, of HAVING, and so on), or a wrapper this parser does not know; an entry of a
MariaDB nested loop may be a buffered join around its table. The parser does not look
into these (`Closed`), so `Expected` leaves out what is inside, and the property says
so: the tree is whole outside of them.

`Diagram` separates React's selection from the groups d3 keeps between renders.
`Palette` re-renders its rows whenever something they are made of changes, and
clamps the cursor in an effect afterwards. `GridView` keeps the filter and the
sort from one grid to the next, as React does with a component in the same
place.

## Runs

Passing runs:

| Run | Instance | Properties, beside `TypeOK` | States |
|---|---|---|---|
| `query_run` | 2 tabs, 2 runs, 1 connection (tunnelled, with plans), audit on | `ResultsFromOwnRun`, `SpinnerExplained`, `DisplayedResultsExpire`, `BackgroundTabsIsolated`, `DeliverySpec` | 621,512 |
| `query_run_live` | 2 tabs, 2 runs, 1 plain connection, audit off, with fairness | `SpinnerLowered` | 373,600 |
| `tunnel` | 2 connections, 3 calls, with fairness | `LoneOpenIsSound`, `LoadingExplained`, `ReplacedByOwnId`, `EveryCallSettles` | 162,285 |
| `grid_edit` | 2 tabs, 1 connection, 2 answers, 2 rows, 1 commit | `SentAsCaptured`, `EveryRowTried`, `ShownAsAccepted`, `BackgroundEditsKept` | 908,502 |
| `workbench` | schema: a tunnelled server with 2 databases and a SQLite file, 2 tabs, 2 loads, cache of 1; store: 2 names, 1 user, 1 password; preferences: 2 settings; library: 2 queries, 2 calls | `ShownIsActives`, `SchemaLoadingExplained`, `DroppedIsForgotten`, `CacheBounded`, `SavedWithItsSecret`, `NoSecretOfAnother`, `SettingsAreOnDisk`, `SavesOnlyEdits`, `LockArmed`, `NoTornQuery`, `LibraryIsDisk` | 653,641 |
| `panels` | activity: 2 servers and a file, 2 polls; editor: 3 tabs, 1 text; history: 2 connections, 1 run, 2 reads; plans of up to 6 nodes, answers of up to 3 result sets; 3 schemas of up to 3 tables; 3 palette items; 13 views; 2 executor calls | `ActivityLoadingExplained`, `KillsWhereListed`, `PanelCatchesUp`, `TextsKept`, `PlanAccountsForRun`, `DiagramShowsSelection`, `HistoryOfActive`, `CursorOnARow`, `ViewIsOfRows`, `AnswerAccountsForRun` | 695,447 |

Six more runs (`error_from_own_run`, `timer_clears_own_results`,
`update_hits_edited_row`, `read_only_respected`, `drop_hits_shown_database`,
`cut_by_own_limit`) each check one statement that the code does not keep.

### What the properties say

Runs and tabs:

- `ResultsFromOwnRun`: the results in a tab are of a run launched from that tab.
- `SpinnerExplained`: a loading tab has a run in flight, or one stranded by its
  tunnel. It is the invariant behind `SpinnerLowered`, which says that without
  tunnels a loading tab stops loading or is closed.
- `DisplayedResultsExpire`: while results of a run with auto-clear are shown, its
  timer is pending.
- `BackgroundTabsIsolated`: a tab that is not active changes only through its
  own runs, their timers, or the reload or deletion of its connection.
- `DeliverySpec`: refinement of `RunDelivery`. A run settles once, and results
  appear only at that moment and never come back once they are gone.
- `TextsKept`: however late timers run, the editor shows the text last left in
  the active tab, or is about to, and every other tab holds its own.

Tunnels:

- `LoneOpenIsSound`: a tunnel opened while no other opening of its connection
  was in flight is the one in the cache and in both dictionaries from then on.
- `ReplacedByOwnId`: a live port goes down with the network or for a new opening
  of its own connection.
- `LoadingExplained`, `EveryCallSettles`: the indicator is on only while a call
  is in flight, and every call is answered.

Results and editing:

- `SentAsCaptured`: the UPDATEs of a commit go where the tab pointed at the click,
  one for each row, with all the edits of that row.
- `EveryRowTried`: a commit that is over has tried every row it captured.
- `ShownAsAccepted`: what a grid shows as committed, the database accepted.
- `BackgroundEditsKept`: unsaved edits of a background tab are dropped only if
  they were accepted.
- `ViewIsOfRows`: the grid shows rows of the result on display and of no other,
  each once; sorted, nulls last and ties stable, when the column can be ordered.
- `PlanAccountsForRun`: the result sets that stay are in their order, and none is
  given up but the one the plan is taken from, and messages; that one is the first
  plan unless data before it look like a plan. Every operator of the plan with
  nothing closed around it is drawn once, below the innermost operator around it, and
  no other; what is marked hot is dearer than what is not, the dearest is marked, and
  at most a fifth of the operators is dearer than the least one marked.
- `AnswerAccountsForRun`: what the answer of `execute_query` says of what was
  executed: reads only on a read-only connection, nothing in the answer after a
  refusal or an error, one result set for each read that gave one, whole or cut
  short, with as many rows as the loop found, in order, cut by the call's own limit
  and marked so when it met no other call.

Panels:

- `ShownIsActives`: as long as the user waits for loads to end, the schema on
  display is of the active tab's connection, through any opening, closing and
  visiting of tabs.
- `SchemaLoadingExplained`, `ActivityLoadingExplained`: "loading" shows only while
  a load of that kind is in flight, however loads overlap and end.
- `DroppedIsForgotten`: after a drop that was answered, no cache lists the object.
- `CacheBounded`: the cache exceeds its limit only by loads that overlapped.
- `KillsWhereListed`: a kill goes to the server its row was read from, once the
  connection was visited with nothing in flight and listed.
- `PanelCatchesUp`: whatever was delayed before, a panel that stays open on one
  connection ends up listing no other's queries.
- `HistoryOfActive`: a list opened, or taken to another tab, with nothing else in
  flight goes on showing recorded runs of its connection and no others, through runs
  that end, clears and failures; and all of them unless the native side kept a failure
  to itself.
- `DiagramShowsSelection`: what is drawn, joined and dimmed follows from selection,
  schema and highlight, although d3 keeps groups from one render to the next.
- `CursorOnARow`: one of the rows on display is highlighted, whatever appears and
  disappears below the cursor.

State on disk:

- `SavedWithItsSecret`: a save that reports success left the connection with the
  password typed or the one it had; a rename that fails or is killed anywhere has
  the secret under the old name or the new one.
- `NoSecretOfAnother`: no step deletes a secret that a connection on disk refers to.
- `SettingsAreOnDisk`, `SavesOnlyEdits`: settings in force are those on disk; saving
  a dialog opened from the sidebar changes only what was edited in it.
- `LockArmed`: once activity was counted since the window was unlocked, its lock is
  armed.
- `NoTornQuery`: the two files of a query belong together unless a call on that
  very query failed half-way or met another.
- `LibraryIsDisk`: a list read and answered with nothing beside it is what is on disk.

Several of these are guarded by a history variable (`raced`, `overlapped`,
`strayed`, `crossed`, `short`, `met`, `torn`, `behind`, `diverged`, `trust`). The guard is where
the code makes no promise, and the module says at the variable what that is: the
property is the strongest that holds, and the behaviours beyond it are described
[below](#behaviours-worth-knowing).

### Composition

The components of `MCWorkbench` share no variable with one another, and those of
`MCPanels` neither; a run of their product would only multiply states. `focus`
names the component in use, the others rest, so one run explores the sum of their
state spaces, with one type invariant and their properties side by side.

Where components do interact, the interaction is in the module: `QueryRun` and
`GridEdit` have the tab strip and every other writer of it; `SchemaBrowser` and
`EditorText` have the strip again with what they add to a tab; `History` has the
runs that reload its list; `SchemaBrowser` has the reload of the connection list
that a save, a deletion or an import of `ConnectionStore` ends with.

### Bounds

Two tabs are enough to confuse a launching tab with the active one and to close
either, three for a text to be left behind twice. Runs, commits and tunnel calls
are used once, so behaviours end when they are used up, and the user may go on;
loads, polls, reads and library calls are reused once answered, and their number
bounds how many are in flight at once: two overlap in both orders. Three calls on
two connections give an overlapping pair with a third call before, after or beside
it, or on the other connection. Two rows make a commit that fails half-way; one
commit suffices for the awaits, as the rest of the state moves freely (the proofs
cover any number). `MaxEdits` bounds the unsaved edits of a tab.

`CacheLimit = 1` (5 in the code) makes every second database evict. `SchemaBound`
explores states in which loads have raced with one tab, without drops and with one
cached schema: all that is claimed of them is that flags make sense. `StoreBound`
stops where two operations on connections have met, since no property speaks of
what follows. `FilterLimit = 3`, `LargeSchemaThreshold = 2` and `DefaultLimit = 3`
(1,000, 50 and 10,000 in the code) lie inside the sizes that occur, so that both
sides of each are reached. Plans have up to six nodes, which nests two wrappers
or elements below an operator and leaves a sibling, and chains of five carry
every combination of a few figures. `MCRequests` has every text of one batch with up to two statements, for
every engine, and for SQL Server with another batch of one behind it, read-only or
not, with a second call beside it; result sets of one row and of two meet a cap of one
from below and from above, and a read that is cut short may have found none. Answers of three
result sets, each of any kind, have data before, between and after two plans. `MCViews` has one view for each branch of the panel, and
columns with nulls, ties and values that compare with nothing.

Runs, answers, loads and calls are interchangeable and declared symmetric where no
liveness is checked. `CHECK_DEADLOCK FALSE` stands where behaviours end because
every call of the instance is used up.

### Fairness

`QueryRun!Fairness` lets every waiting run resume and every timer fire: drivers
have command timeouts (30 seconds by default) and connections have theirs, and
`setTimeout` fires. `Tunnel!FairSpec` lets every native step and every resumption
happen: connecting has a deadline of 15 seconds and waiting for the port one
of 3. `ActivityFairness` lets native calls be answered (weak) and the interval go
off (strong, since a bound on polls may hold it up where the code has none).
Users are never fair: no property needs them to act.

### Mutants

Each property has a mutant, kept beside the definition it changes and named in
PROJECT.json: an operator with a plausible mistake under which the property
fails.

## Proofs

Eight modules prove theorems for any values of the constants, from the named
assumptions of the modules they are about and nothing else: that `Null` is no id,
that the first tab is a tab, that kinds of connections are connections, that texts
of different origin differ, that some password can be typed, that a schema's
constraints are numbered and join tables it has, that a row of a result has a cell
for every column, that only T-SQL texts have several batches, and the like.

| Theorem | Statement | Module |
|---|---|---|
| `TypeCorrect` | `Spec => []TypeOK` | `QueryRunProofs` |
| `OwnResults` | `Spec => []ResultsFromOwnRun` | |
| `ExplainedSpinner` | `Spec => []SpinnerExplained` | |
| `ResultsExpire` | `Spec => []DisplayedResultsExpire` | |
| `BackgroundIsolated` | `Spec => BackgroundTabsIsolated` | |
| `Implements` | `Spec => DeliverySpec` | |
| `TunnelTypes` | `Spec => []TypeOK` | `TunnelProofs` |
| `IndicatorExplained` | `Spec => []LoadingExplained` | |
| `LoneOpens` | `Spec => []LoneOpenIsSound` | |
| `OwnReplacement` | `Spec => ReplacedByOwnId` | |
| `GridTypes` | `Spec => []TypeOK` | `GridEditProofs` |
| `UpdatesAsClicked` | `Spec => []SentAsCaptured` | |
| `NoRowForgotten` | `Spec => []EveryRowTried` | |
| `ShowsTheDatabase` | `Spec => []ShownAsAccepted` | |
| `BackgroundSafe` | `Spec => BackgroundEditsKept` | |
| `SchemaTypeCorrect` | `SchemaSpec => []SchemaTypeOK` | `SchemaBrowserProofs` |
| `ShownIsActivesAlways` | `SchemaSpec => []ShownIsActives` | |
| `LoadingExplainedAlways` | `SchemaSpec => []SchemaLoadingExplained` | |
| `DroppedIsForgottenAlways` | `SchemaSpec => []DroppedIsForgotten` | |
| `CacheBoundedAlways` | `SchemaSpec => []CacheBounded` | |
| `StoreTypeCorrect` | `StoreSpec => []StoreTypeOK` | `WorkbenchProofs` |
| `SavedWithItsSecretAlways` | `StoreSpec => []SavedWithItsSecret` | |
| `NoSecretOfAnotherAlways` | `StoreSpec => NoSecretOfAnother` | |
| `PrefsTypeCorrect` | `PrefsSpec => []PrefsTypeOK` | |
| `SettingsInForce` | `PrefsSpec => []SettingsAreOnDisk` | |
| `LockStaysArmed` | `PrefsSpec => []LockArmed` | |
| `OnlyEditsSaved` | `PrefsSpec => SavesOnlyEdits` | |
| `LibraryTypeCorrect` | `LibrarySpec => []LibraryTypeOK` | |
| `QueriesStayWhole` | `LibrarySpec => []NoTornQuery` | |
| `PanelIsDisk` | `LibrarySpec => []LibraryIsDisk` | |
| `WorkbenchTypeCorrect` | `Spec => []TypeOK` | |
| `WorkbenchKeepsItsPromises` | `Spec => ` the nine invariants and two action properties of the components | |
| `ExecTypeCorrect` | `ExecSpec => []ExecTypeOK` | `AnswerProofs` |
| `AnswerAccountsForRunAlways` | `ExecSpec => []AnswerAccountsForRun` | |
| `PlanAccountsForRunAlways` | `PlanSpec => []PlanAccountsForRun` | |
| `ActivityTypeCorrect` | `ActivitySpec => []ActivityTypeOK` | `PanelProofs` |
| `SpinnerAnswered` | `ActivitySpec => []ActivityLoadingExplained` | |
| `KillsAtHome` | `ActivitySpec => []KillsWhereListed` | |
| `HistoryTypeCorrect` | `HistorySpec => []HistoryTypeOK` | |
| `HistoryKept` | `HistorySpec => []HistoryOfActive` | |
| `EditorTypeCorrect` | `EditorSpec => []EditorTypeOK` | |
| `EachItsOwnText` | `EditorSpec => []TextsKept` | |
| `PaletteTypeCorrect` | `PaletteSpec => []PaletteTypeOK` | |
| `CursorOnARowAlways` | `PaletteSpec => []CursorOnARow` | |
| `DiagramTypeCorrect` | `DiagramSpec => []DiagramTypeOK` | |
| `DiagramShowsSelectionAlways` | `DiagramSpec => []DiagramShowsSelection` | |
| `GridTypeCorrect` | `GridViewSpec => []GridViewTypeOK` | |
| `ViewIsOfRowsAlways` | `GridViewSpec => []ViewIsOfRows` | |
| `PanelsTypeCorrect` | `Spec => []TypeOK` | |
| `PanelsKeepTheirPromises` | `Spec => ` the nine invariants of the panels | |

**Lists and strips.** `ListProofs` has what every component with a list needs. A
filter is defined by the positions it keeps and a sort by how many members come
before each, so that both can be expanded; that every place from 1 to the length is
taken, once (`Ranks`, `Placed`), is a bijection between finite sets and no recursion.
From it follow what `Only` returns and how it grows with its list
(`OnlyProperties`, `OnlyAppend`), and that `SortedBy` lists each member once and in
order, for any strict total order (`SortedByProperties`). Induction over numbers is
stated for a set (`SetInduction`, from the well-foundedness of `<`, and
`StrongInduction`), since the library's theorems take an operator as a parameter
and cannot be cited. Recursive functions are reached in the same way: a functional
is a function `G` on functions, and when `G[f][n]` depends only on `f` at arguments
of lesser measure, it has a fixed point (`FixedPoint`), so the `CHOOSE` that a
recursive definition stands for satisfies its equation.
`Retab`, `ActivateOpen`, `AppendFresh` and `CloseOpen` say what the reducer's
operators do to a strip whose tabs are of any one type: it stays well formed, with
which open tabs and which records. Closing is the delicate one: the order loses an
element, and the successor must be one of the rest.

**QueryRun.** `TypeOK` is not inductive: `TunnelOpened` adds a run's connection to
`ports`, which only holds tunnelled ones. `IInv == TypeOK /\ TunnelWait` adds that
a run waiting for a tunnel has a connection that needs one. Each action is shown
to have one of six effects, whose disjunction is `StepEffect`: *quiet* (no run
moves and no tab gains results or a spinner), *launches*, *progresses*, *fails*,
*delivers*, *expires*. Everything else is proved once for each effect and not for
each of the twenty-odd actions: that the three properties are kept, and that each
effect is a step of `RunDelivery` or leaves its variables alone (`DeliveryStep`).
`BackgroundTabsIsolated` is about whole records and looks at the actions again: those
that write the active tab alone, those that write the tab of their run, those that
move tabs without writing any, and the two that reset tabs by their connection.

**Tunnel.** `TunnelInv` adds to the properties: who is in a dictionary or the cache
got there with its own connection and not before the step that puts it there
(`Registered`); two calls in flight on a connection are both in `overlapped`
(`Noted`); and a call that met no other still owns each entry it has made
(`Underway`), until its port is cached and nothing is in flight that could take it
(`Kept`). Without `Noted` a second call could remove the entries of a lone one.

**GridEdit.** `ShownAsAccepted` needs that results held by a commit are backed too,
since a commit writes its captured copy into a tab (`AllBacked`); `SentAsCaptured`
that an UPDATE on record is about a row the commit has left (`Sent`, `Captured`);
`EveryRowTried` that a captured row is left to try or was tried (`Tried`). The
user's actions are all shown to do no more than rearrange the active tab (`Around`),
and what that keeps is proved once. `BackgroundEditsKept` follows from the same
step lemma.

**SchemaBrowser.** The four properties are proved together, as parts of `SchemaInv`.
`ShownIsActives` speaks of what is on display, and an answer may change that at any
time: `Settled` says of everything in flight, of the tree, of an open drop dialog and
of the display at once that they are of the active tab's connection. `OneLoad` makes
a user who waits have one load at most, which is why an action that starts another
is a race. `Forgotten` extends `DroppedIsForgotten` to answers that are on their way,
since one read before the drop would bring the object back; `Bounded` extends
`CacheBounded` by the room that a load has made for its answer. That a database is in
the cache at most once (`CacheOK`) is what makes evicting and replacing bounded.

**ConnectionStore.** `SavedWithItsSecret` is about a save that has come to an end.
`SavingOK` says what a save at each of its steps is about, `FilesDone` what it or a
deletion has already done to the files, and `SecretPlaced` where the secret is at each
step: under the old reference until it is moved, under the new one after. `Alone`,
which holds until two operations overlap, keeps the rest still meanwhile. Failures and
crashes are steps like any others.

**Preferences.** `Carried`: what a load or a save in flight carries is what is on
disk, or the draft. `Unedited`: a field not edited is as in the settings in force
and as on disk.

**QueryLibrary.** `WholeQueries`: one call at most is about an untorn query, and its
files differ only while that call is between the two, having done the first
half. `CurrentLists`: a list still alone has the files as they are.

**QueryExecutor.** `AnswerAccountsForRun` compares two lists that grow apart: what
was executed, and what was answered, with the batch at hand in between (`got`). An
error discards `got`, so `Accounted` says both that the answer with `got` accounts for
all that was executed, and that without it it accounts for all but the batch at
hand; whichever way the batch ends, one of the two becomes the property. A read that
is cut short is on both sides, with the rows found. `Guarded` has
what the read-only guard leaves to execute, `Undisturbed` that the static cap is the
call's own as long as it met nobody.

**PlanView.** `PlanAccountsForRun` is about what recursive functions compute on every
document, and its inductive invariant says only that: the document is well formed,
and results and plan are what the reshaping and the parser make of it (`PlanInv`).
What has to be shown is about the functions. Each is given its equation by
`FixedPoint`: `Around`, by the number of the node (`AroundEquation`), the tree below
an operator and the walk of `findChildRelOps`, by how many nodes come after it
(`BelowEquation`, `WalkFindsNearest`), and the documents explored, by their size
(`TreesAreDocuments`). The nodes around a node are a chain (`AroundChain`), so the way
in from one operator to another passes through a child of the first (`KidToward`).
A parser is sound when what it converts an operator to is the operators whose
innermost one it is (`Sound`): at once where every node is an operator
(`UniformSound`), by induction for SQL Server, whose elements nest to any depth
(`SqlServerSound`), and from which object of MySQL may hold which for MySQL, where a
block has one wrapper at most, whatever closed objects are beside it (`Housed`,
`MysqlKids`, `MysqlSound`). A tree of sound parts from the right roots is the one
expected (`TreeWhole`). For the marks: those dearer than some marked one come before
the place in the sorted list that sets the threshold, and these are few
(`FewBefore`, `HotNodes`). These lemmas are about any well-formed document with any
figures; the specification starts from those that `Trees` and `Chains` give. What
MySQL puts where (`Holds`) is taken from its document format and from what the
parser looks for.

**EditorText.** `TextsKept` is inductive with three additions: ids not handed out are
meant to be blank, the pending timer holds what the editor shows once it has
settled (`Pending`), and the strip is well formed.

**Activity and History.** For `KillsWhereListed`: once a connection was visited with
nothing in flight, all that is in flight is for it, and after the next answer so
are the rows and the dialog (`InFlightForOne`, `ListsOne`). For `HistoryOfActive`:
below an open list that nothing crossed there is at most one read, run or clear in
flight, of the active connection, and the list and the table differ only as far as
that call has got; or they differ in that the list has less, and `short` says that a
failure was kept back (`Alone`).

**Palette, Diagram, GridView.** `CursorOnARow` needs only the type, but every change
of the rows must be followed by the clamp (`ClampIn`). `DiagramInv` says that what is
mounted was laid out for the schema and the selection of this moment, and that
groups are of this schema until it is exchanged; that every constraint with both ends
drawn has an edge of its name takes a least number (`EveryNameDrawn`), as edges of one
name are drawn once. `ViewIsOfRows` follows from the type alone: `Precedes`, the
comparison of the code with the position for ties, is a strict total order on rows
whose column can be compared, nulls and directions included (`PrecedesOrders`), and
filtering and sorting then do what `ListProofs` says.

**Compositions.** A step of `MCWorkbench` or `MCPanels` is a step or a stutter of each
component (`WorkbenchSteps`, `PanelsSteps`), so that what the runs `workbench` and
`panels` check follows from the theorems about the parts
(`WorkbenchKeepsItsPromises`, `PanelsKeepTheirPromises`). The plan alone rests in a
state of no document, which is why its invariant is stated anew (`PlanOrNone`).

Each proof has one lemma for each action or group of actions with the same effect,
one step below it for each conjunct that the action can disturb, and ends in a
temporal step that combines them.

Every invariant and every safety property of an action that a run checks is proved.
Model-checked only are the liveness properties `SpinnerLowered`, `EveryCallSettles`
and `PanelCatchesUp`: fairness is out of the prover's reach.

## Where code and text disagree

Six runs expect a violation. Each states what a comment, a label or the
project's own documentation says, and TLC shows a behaviour of the code
that does otherwise.

- `ErrorFromOwnRun` - a failed tunnel is reported on the active tab
  (`useConnections.ts:63`), against the comment in `runQuery` that every write
  targets the launching tab; the launching tab keeps its spinner.
- `TimerClearsOwnResults` - an old run's timer clears a new run's results
  (`App.tsx:926`); the setting speaks of a period of inactivity.
- `UpdateHitsEditedRow` - with a sorted or filtered grid, the UPDATE is for the
  row at the displayed position of the unsorted rows (`ResultsGrid.tsx:316`,
  `App.tsx:1770`).
- `ReadOnlyRespected` - edits survive a change of connection and are committed
  with `readOnly: false` (`App.tsx:1801`), against README and SECURITY.
- `DropHitsShownDatabase` - the palette changes a tab's connection and leaves the
  tree (`App.tsx:1490`); a drop asked for in the tree then goes to the tab's
  connection (`DropObjectDialog.tsx:67`), against the comment above that line.
- `CutByOwnLimit` - the row cap is a static field, and a call that meets another may be
  cut by the other's limit (`QueryExecutor.cs:69`), against the comment at `:25` that
  calls are serialized.

## Behaviours worth knowing

What the models show and no property excludes, for a reader of the code:

- A commit that ends after a switch writes its results into the active tab and
  drops that tab's edits, those typed since the click included.
- An answer for a database that was left is shown when a tab has been switched
  within one connection; two loads that overlap may leave one schema too many in
  the cache.
- A connection given to a tab by the palette, by the deletion of a file or by a
  reload leaves the tree on the former one (`adrift`).
- The two palette items that change tabs neither save the text in the editor
  nor show that of the tab they go to (`strayed`): the next timer writes one tab's
  text into the other. A definition that arrives when another tab is active saves
  the editor's text into the tab that asked.
- Two overlapping openings of one connection get two ports, of which the second closes
  the first (`useConnections.ts:31`); the comment in `useActivity.ts:93` calls opening
  idempotent.
- A read of the history that fails natively is answered in band without entries, and
  the list is emptied (`QueryHistory.cs:199-204`, `useHistory.ts:58`); so it is by a clear
  whose DELETE failed (`QueryHistory.cs:234-236`). The entries are still stored and come
  back with the next load. A run whose statements failed is recorded as successful
  (`App.tsx:941`).
- A limit of 0, "Unlimited" in the settings (`SettingsModal.tsx:76`), is clamped to
  10,000 (`QueryExecutor.cs:68`).
- A fetch that fails ends the loop like the last row, and the rows read so far pass as
  complete (`SqlServerExecutor.cs:466`, `SqliteQueryEngine.cs:184`).
- The loops that stop at the first error (`QueryExecutor.cs:115`, `:159`) stop at an error
  in the answer: after a later statement of a SQL Server batch that failed
  (`SqlServerExecutor.cs:392`), or a SQLite step, what follows is executed.
- On a read-only connection a SQL Server batch is refused when its turn comes, so those
  before it have been executed; SQLite is refused as a whole.
- A SQLite write that fails is answered as a completed command, and a read that
  cannot be prepared as a result set without columns or rows.
- A data cell that begins like XML is taken for the plan, and its result set is missing
  from the data (`planReshape.ts:45`, `:85`).
- In a text of several statements on SQL Server the first plan is drawn, and the others
  stay among the data as XML. A stored plan that the user selects is drawn as if it were
  the query's own, and other XML is shown as text in the plan's tab. Messages are dropped
  once there is a plan.
- The threshold of the hot mark is the value at index floor(n/5) of the descending list
  (`planParsers.ts:576`), so two operators of five are marked, and as many more as share
  that value; the comments above say the top fifth is.
- Operators inside MySQL subqueries beside a wrapper, in objects this parser does not
  know, and below MariaDB's `block-nl-join` are not drawn, and nothing in the tree
  says so.
- A text is safe to plan when its first word is SELECT or WITH (`planParsers.ts:20`), and
  is then wrapped whole: outside of SQL Server the statements after the first are
  executed again by the call for the plan.
- The lock's timer is not started by mounting: the call meant to do so
  (`App.tsx:514`) returns, because mounting counts as activity of the last half
  second. Nor does the click that unlocks arm it. The listeners keep the settings of
  the moment they were attached, so a new timeout is obeyed after the next lock.
- The palette opens the settings with the draft left by the last dialog; saving then
  writes what was abandoned. The audit button of the toolbar is overridden when
  settings arrive or are saved.
- Without a connection the history list is emptied, although its title is "All recent
  queries"; opened from the palette it is not loaded at all.
- Two saves of one query, or a failure between its files, leave new SQL with an old
  sidecar or none.
- A rename that fails after its first step has removed the old connection file; the
  secret is then under a name no file has.
- A grid column of numbers and words has no defined order. Filter and sort survive a
  change of tab when both show a grid.
- d3 keeps the groups of tables that stay: after the schema is exchanged below an
  open diagram, a table of the same name keeps the former one's columns and badge.

## Not modelled

Parts listed as `not_modelled` in PROJECT.json keep no state that anything
interleaves with, and what could be wrong in them is text:

- *File query engine*: DuckDB statements on a database made for every call; one
  native call as far as `QueryRun` is concerned.
- *Schema exploration engines*: catalogue queries and the reading of their rows.
- *Connection strings and validation*, *SQL scripting*: strings from strings.
- *Native bridge*: loading libraries and marshalling; the models take from it that
  commands run concurrently and that a call is answered or rejected once.
- *Dialogs and styling*: presentation.

Left out of parts that are modelled: the join tables of a tab; `close_tunnel`,
`is_tunnel_open` and `load_query`, which no code of the frontend calls; the content
of cells, UPDATEs, scripts and definitions; how splitters and the read-only guard
read SQL, and the wrapping of a query for its plan; the password of the SSH host,
which has an entry of its own; the encrypted format, the retention and the limit of
100 entries of the history, and the content of the audit log; a file that a crash
leaves half written; the tree of a plan found among the user's data; positions and zoom of the diagram; the
ranking of palette matches; costs and labels of plan nodes.
