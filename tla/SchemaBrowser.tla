---------------------------- MODULE SchemaBrowser ----------------------------
(***************************************************************************)
(* The schema tree of the sidebar: useSchema with its two reducers and two *)
(* caches, the effect that follows the active tab, and dropping an object. *)
(*                                                                         *)
(* loadDatabases and loadSchema are async and nothing cancels them: an     *)
(* answer is written to the one schema on display whoever asked for it.    *)
(* schemaConnectionId (connId) remembers whose schema was asked for last,  *)
(* and only the effect on the active tab looks at it.  One load of the     *)
(* database list goes on as the load of a schema, so both are one element  *)
(* of Loads.                                                               *)
(*                                                                         *)
(* Data: a schema is the database it was read from, whether it is an error *)
(* and whether it still lists the object that a drop removes.              *)
(***************************************************************************)
EXTENDS SavedConns, Filters

CONSTANTS
  CacheLimit,    \* 5
  Loads          \* calls of loadDatabases or loadSchema in flight at once

ASSUME SchemaBrowserAssumption == CacheLimit \in Nat \ {0}

VARIABLES
  strip,    \* the tab strip: connection and activeDatabase of each tab
  made,     \* tab ids handed out so far
  connId,   \* schemaConnectionId
  data,     \* schemaDataReducer: schema and database list on display, flags
  tables,   \* schemaTreeReducer's expandedTables: the connections they are of
  cache,    \* schemaCache, a Map: its entries in the order of insertion
  listed,   \* dbListCache
  loads,    \* where each load is suspended, and for what
  dropping, \* the drop dialog and its call
  gone,     \* databases the object was dropped from
  acked,    \* history: those whose drop was answered with success
  raced,    \* history: the user acted while a load or a drop was in flight
  adrift    \* history: the tab was given a connection, or lost it, and the
            \* tree was not told

schemaVars ==
  <<strip, made, connId, data, tables, cache, listed, loads, dropping, gone, acked, raced, adrift>>

Schemas == [conn : Conns, db : AllDatabases, lists : BOOLEAN, error : BOOLEAN]
BlankTab(c, d) == [connection |-> c, activeDatabase |-> d]
NoLoad == [pc |-> "idle", conn |-> Null, db |-> Null, answer |-> Null]
NoDrop == [pc |-> "closed", conn |-> Null, db |-> Null, shown |-> Null]

SchemaInit ==
  /\ strip = InitTabs(BlankTab(Null, Null))
  /\ made = {FirstTab}
  /\ connId = Null
  /\ data = [schema |-> Null, schemaLoading |-> FALSE, databases |-> Null, databasesLoading |-> FALSE]
  /\ tables = {}
  /\ cache = <<>> /\ listed = {}
  /\ loads = [k \in Loads |-> NoLoad]
  /\ dropping = NoDrop
  /\ gone = {} /\ acked = {}
  /\ raced = FALSE /\ adrift = FALSE

Active == strip.tab[strip.active]
DbOf(tab) == IF tab.activeDatabase = Null THEN DefaultDb[tab.connection] ELSE tab.activeDatabase

Fresh(k) == loads[k].pc = "idle"
Loading == \E k \in Loads : ~Fresh(k)
Busy ==
  \/ Loading
  \/ dropping.pc \in {"asked", "sent", "executed"}
Marked == raced' = (raced \/ Busy)

-----------------------------------------------------------------------------
(* The reducers.                                                           *)

LoadStart(d)      == [d EXCEPT !.schema = Null, !.schemaLoading = TRUE]
SetSchema(d, s)   == [d EXCEPT !.schema = s]
ListStart(d)      == [d EXCEPT !.databases = Null, !.databasesLoading = TRUE]
SetList(d, c)     == [d EXCEPT !.databases = c]
LoadEnd(d)        == [d EXCEPT !.schemaLoading = FALSE]

-----------------------------------------------------------------------------
(* The caches.                                                             *)

Keys == DOMAIN cache
Cached(c, db) == \E i \in Keys : cache[i].conn = c /\ cache[i].db = db

\* Mutant of Put: a key it has is entered again.
PutAgain(s) == Append(cache, s)

\* Map.set keeps the place of a key it has.
Put(s) ==
  IF Cached(s.conn, s.db)
  THEN [i \in Keys |-> IF cache[i].conn = s.conn /\ cache[i].db = s.db THEN s ELSE cache[i]]
  ELSE Append(cache, s)

\* Mutant of Evicted: off by one.
EvictedLate(m) == IF Len(m) > CacheLimit THEN Tail(m) ELSE m

\* The oldest entry makes room before the load that needs it.
Evicted(m) == IF Len(m) >= CacheLimit THEN Tail(m) ELSE m

\* Mutant of Purged: the key of the saved database alone is removed.
PurgedDefault(C) == SelectSeq(cache, LAMBDA s : s.conn \notin C \/ s.db # DefaultDb[s.conn])

Purged(C) == Only(cache, {s \in Schemas : s.conn \notin C})

-----------------------------------------------------------------------------
(* loadSchema and loadDatabases up to their first await, from the data d   *)
(* and with the cache m that the dispatches before them leave.             *)

Ended(k) == [loads EXCEPT ![k] = NoLoad]
Ask(k, pc, c, db) == loads' = [loads EXCEPT ![k] = [pc |-> pc, conn |-> c, db |-> db, answer |-> Null]]

LoadSchema(k, c, db, d, m) ==
  \/ /\ \E i \in DOMAIN m : m[i].conn = c /\ m[i].db = db /\ data' = SetSchema(d, m[i])
     /\ cache' = m
     /\ loads' = Ended(k)
  \/ /\ \A i \in DOMAIN m : m[i].conn # c \/ m[i].db # db
     /\ cache' = Evicted(m)
     /\ data' = LoadStart(d)
     /\ Ask(k, IF c \in SshConns THEN "tunnel" ELSE "fetch", c, db)

\* The list is empty for SQLite, served when cached, and else asked for.
LoadDatabases(k, c, db, d, m, lists) ==
  /\ listed' = lists
  /\ \/ c \in Sqlite /\ LoadSchema(k, c, db, SetList(d, Null), m)
     \/ c \in lists \ Sqlite /\ LoadSchema(k, c, db, SetList(d, c), m)
     \/ /\ c \notin lists \cup Sqlite
        /\ data' = ListStart(d)
        /\ cache' = m
        /\ Ask(k, "list", c, db)

\* Mutant of FollowTab: a tab without a connection keeps the tree.
FollowWithoutClearing(k, s) ==
  LET tab == s.tab[s.active] IN
  \/ /\ tab.connection # Null /\ tab.connection = connId
     /\ UNCHANGED <<connId, data, tables, cache, listed, loads>>
  \/ /\ tab.connection # Null /\ tab.connection # connId
     /\ connId' = tab.connection
     /\ tables' = {}
     /\ LoadDatabases(k, tab.connection, DbOf(tab), SetSchema(data, Null), cache, listed)
  \/ /\ tab.connection = Null
     /\ connId' = Null
     /\ UNCHANGED <<data, tables, cache, listed, loads>>

\* The effect on the active tab, once its id has changed to that of s.
FollowTab(k, s) ==
  LET tab == s.tab[s.active] IN
  \/ /\ tab.connection # Null /\ tab.connection = connId
     /\ UNCHANGED <<connId, data, tables, cache, listed, loads>>
  \/ /\ tab.connection # Null /\ tab.connection # connId
     /\ connId' = tab.connection
     /\ tables' = {}
     /\ LoadDatabases(k, tab.connection, DbOf(tab), SetSchema(data, Null), cache, listed)
  \/ /\ tab.connection = Null
     /\ connId' = Null
     /\ tables' = {}
     /\ data' = SetList(SetSchema(data, Null), Null)
     /\ UNCHANGED <<cache, listed, loads>>

-----------------------------------------------------------------------------
(* After an await.                                                         *)

\* The list arrived, with the saved database if it was missing, or did not,
\* and then it is that database alone and nothing is cached.  Either way, and
\* whether its tunnel opened or not, the schema is next.
ListArrived(k) ==
  LET c == loads[k].conn IN
  /\ loads[k].pc = "list"
  /\ listed' \in {listed, listed \cup {c}}
  /\ LoadSchema(k, c, loads[k].db, [data EXCEPT !.databases = c, !.databasesLoading = FALSE], cache)
  /\ UNCHANGED <<strip, made, connId, tables, dropping, gone, acked, raced, adrift>>

TunnelReady(k) ==
  /\ loads[k].pc = "tunnel"
  /\ loads' = [loads EXCEPT ![k].pc = "fetch"]
  /\ UNCHANGED <<strip, made, connId, data, tables, cache, listed, dropping, gone, acked, raced, adrift>>

\* Mutant of TunnelRefused: the early return forgets the flag.
RefusedStillLoading(k) ==
  /\ loads[k].pc = "tunnel"
  /\ data' = SetSchema(data, [conn |-> loads[k].conn, db |-> loads[k].db, lists |-> FALSE, error |-> TRUE])
  /\ loads' = Ended(k)
  /\ UNCHANGED <<strip, made, connId, tables, cache, listed, dropping, gone, acked, raced, adrift>>

\* No tunnel: an error is shown in the place of a schema, and not cached.
TunnelRefused(k) ==
  /\ loads[k].pc = "tunnel"
  /\ data' = LoadEnd(SetSchema(data,
       [conn |-> loads[k].conn, db |-> loads[k].db, lists |-> FALSE, error |-> TRUE]))
  /\ loads' = Ended(k)
  /\ UNCHANGED <<strip, made, connId, tables, cache, listed, dropping, gone, acked, raced, adrift>>

\* get_schema reads the catalogue, some time before its answer is processed.
CatalogueRead(k) ==
  LET c == loads[k].conn  db == loads[k].db IN
  /\ loads[k].pc = "fetch"
  /\ \E err \in BOOLEAN :
       loads' = [loads EXCEPT ![k].pc = "answer",
         ![k].answer = [conn |-> c, db |-> db, error |-> err,
                        lists |-> ~err /\ <<c, db>> \notin gone]]
  /\ UNCHANGED <<strip, made, connId, data, tables, cache, listed, dropping, gone, acked, raced, adrift>>

\* Cached and shown, an answer that is an error included.
SchemaArrived(k) ==
  /\ loads[k].pc = "answer"
  /\ cache' = Put(loads[k].answer)
  /\ data' = LoadEnd(SetSchema(data, loads[k].answer))
  /\ loads' = Ended(k)
  /\ UNCHANGED <<strip, made, connId, tables, listed, dropping, gone, acked, raced, adrift>>

SchemaThrew(k) ==
  /\ loads[k].pc \in {"fetch", "answer"}
  /\ data' = LoadEnd(data)
  /\ loads' = Ended(k)
  /\ UNCHANGED <<strip, made, connId, tables, cache, listed, dropping, gone, acked, raced, adrift>>

-----------------------------------------------------------------------------
(* The user.                                                               *)

PickConnection(k, c) ==
  /\ Fresh(k) /\ Marked
  /\ connId' = c
  /\ strip' = UpdateActiveTab(strip, LAMBDA t : BlankTab(c, DefaultDb[c]))
  /\ tables' = {}
  /\ LoadDatabases(k, c, DefaultDb[c], SetSchema(data, Null), cache, listed)
  /\ adrift' = FALSE
  /\ UNCHANGED <<made, dropping, gone, acked>>

\* A row of the list, shown below the connection of the active tab.
PickDatabase(k, db) ==
  LET c == Active.connection IN
  /\ Fresh(k) /\ Marked
  /\ c # Null /\ data.databases # Null
  /\ db \in Databases[data.databases] \ {DbOf(Active)}
  /\ strip' = UpdateActiveTab(strip, LAMBDA t : [t EXCEPT !.activeDatabase = db])
  /\ tables' = {}
  /\ LoadSchema(k, c, db, SetSchema(data, Null), cache)
  /\ UNCHANGED <<made, connId, listed, dropping, gone, acked, adrift>>

\* The palette's connection item: the tree is left as it is.
SwapConnection(c) ==
  /\ strip' = UpdateActiveTab(strip, LAMBDA t : [t EXCEPT !.connection = c])
  /\ adrift' = TRUE
  /\ UNCHANGED <<made, connId, data, tables, cache, listed, loads, dropping, gone, acked, raced>>

\* The file of a connection is gone: no tab keeps it, and the list reloads later.
ForgetConnection(c) ==
  /\ strip' = ClearConnection(strip, c)
  /\ adrift' = (adrift \/ Active.connection = c)
  /\ UNCHANGED <<made, connId, data, tables, cache, listed, loads, dropping, gone, acked, raced>>

\* The refresh button of a schema that is not an error.
Refresh(k) ==
  LET c == Active.connection IN
  /\ Fresh(k) /\ Marked
  /\ c # Null /\ data.schema # Null /\ ~data.schema.error
  /\ LoadSchema(k, c, DbOf(Active), data,
                Only(cache, {s \in Schemas : s.conn # c \/ s.db # DbOf(Active)}))
  /\ UNCHANGED <<strip, made, connId, tables, listed, dropping, gone, acked, adrift>>

ToggleTable ==
  LET c == data.schema.conn IN
  /\ data.schema # Null /\ ~data.schema.error /\ Active.connection # Null
  /\ tables' = IF c \in tables THEN tables \ {c} ELSE tables \cup {c}
  /\ UNCHANGED <<strip, made, connId, data, cache, listed, loads, dropping, gone, acked, raced, adrift>>

GoToTab(k, t) ==
  /\ t \in OpenTabs(strip) \ {strip.active}
  /\ Fresh(k) /\ Marked
  /\ strip' = SetActive(strip, t)
  /\ FollowTab(k, strip')
  /\ UNCHANGED <<made, dropping, gone, acked, adrift>>

\* A new tab: blank, or on the connection of the active one or of a definition,
\* and then without an active database.
NewTabOn(k, t, c) ==
  /\ t \in TabIds \ made
  /\ c \in {Null, Active.connection}
  /\ Fresh(k) /\ Marked
  /\ strip' = AppendActivate(strip, t, BlankTab(c, Null))
  /\ made' = made \cup {t}
  /\ FollowTab(k, strip')
  /\ UNCHANGED <<dropping, gone, acked, adrift>>

ShutTab(k, t) ==
  /\ t \in OpenTabs(strip) /\ Len(strip.order) > 1
  /\ strip' = Close(strip, t)
  /\ \/ t # strip.active /\ UNCHANGED <<connId, data, tables, cache, listed, loads, raced>>
     \/ t = strip.active /\ Fresh(k) /\ Marked /\ FollowTab(k, strip')
  /\ UNCHANGED <<made, dropping, gone, acked, adrift>>

\* loadConnections, answered with the connections in fresh.
ListReloaded(k, fresh) ==
  LET used  == {strip.tab[t].connection : t \in OpenTabs(strip)} \cap fresh
      first == CHOOSE c \in fresh : TRUE
  IN
  /\ Fresh(k) /\ Marked
  /\ \/ /\ Active.connection \in fresh
        /\ connId' = Null
        /\ tables' = {}
        /\ LoadDatabases(k, Active.connection, DbOf(Active), SetSchema(data, Null),
                         Purged(used), listed \ used)
        /\ UNCHANGED <<strip, adrift>>
     \/ /\ Active.connection \notin fresh
        /\ cache' = Purged(used) /\ listed' = listed \ used
        /\ strip' = IF Active.connection # Null THEN strip
                    ELSE UpdateActiveTab(strip, LAMBDA t : [t EXCEPT !.connection = first])
        /\ adrift' = (adrift \/ Active.connection = Null)
        /\ UNCHANGED <<connId, data, tables, loads>>
  /\ UNCHANGED <<made, dropping, gone, acked>>

-----------------------------------------------------------------------------
(* Dropping an object.                                                     *)

\* The context menu of an object in the tree opens the confirmation.
RequestDrop ==
  /\ dropping.pc = "closed"
  /\ Active.connection # Null /\ data.schema # Null /\ data.schema.lists
  /\ dropping' = [NoDrop EXCEPT !.pc = "asked", !.conn = Active.connection]
  /\ UNCHANGED <<strip, made, connId, data, tables, cache, listed, loads, gone, acked, raced, adrift>>

CancelDrop ==
  /\ dropping.pc = "asked"
  /\ dropping' = NoDrop
  /\ UNCHANGED <<strip, made, connId, data, tables, cache, listed, loads, gone, acked, raced, adrift>>

\* The drop goes to the active database of the active tab.
ConfirmDrop ==
  LET c == dropping.conn IN
  /\ dropping.pc = "asked"
  /\ dropping' = [pc |-> "sent", conn |-> c, shown |-> data.schema,
       db |-> IF Active.activeDatabase = Null THEN DefaultDb[c] ELSE Active.activeDatabase]
  /\ UNCHANGED <<strip, made, connId, data, tables, cache, listed, loads, gone, acked, raced, adrift>>

DropExecuted ==
  /\ dropping.pc = "sent"
  /\ gone' = gone \cup {<<dropping.conn, dropping.db>>}
  /\ dropping' = [dropping EXCEPT !.pc = "executed"]
  /\ UNCHANGED <<strip, made, connId, data, tables, cache, listed, loads, acked, raced, adrift>>

\* An error in the answer, or a call that was rejected, executed or not.
DropFailed ==
  /\ dropping.pc \in {"sent", "executed"}
  /\ dropping' = [NoDrop EXCEPT !.pc = "failed"]
  /\ UNCHANGED <<strip, made, connId, data, tables, cache, listed, loads, gone, acked, raced, adrift>>

\* The connection is purged and the schema loaded again, with the active
\* database of whatever tab is active by now.
DropDone(k) ==
  LET c  == dropping.conn
      db == IF Active.activeDatabase = Null THEN DefaultDb[c] ELSE Active.activeDatabase
  IN
  /\ dropping.pc = "executed"
  /\ Fresh(k)
  /\ raced' = (raced \/ Loading)
  /\ acked' = acked \cup {<<c, dropping.db>>}
  /\ connId' = Null
  /\ tables' = {}
  /\ LoadSchema(k, c, db, SetSchema(data, Null), Purged({c}))
  /\ dropping' = [NoDrop EXCEPT !.pc = "dropped"]
  /\ UNCHANGED <<strip, made, listed, gone, adrift>>

-----------------------------------------------------------------------------

Continue(k) ==
  \/ ListArrived(k) \/ TunnelReady(k) \/ TunnelRefused(k)
  \/ CatalogueRead(k) \/ SchemaArrived(k) \/ SchemaThrew(k)

SchemaNext ==
  \/ \E k \in Loads : Continue(k) \/ Refresh(k) \/ DropDone(k)
  \/ \E k \in Loads, c \in Conns : PickConnection(k, c)
  \/ \E k \in Loads, db \in AllDatabases : PickDatabase(k, db)
  \/ \E k \in Loads, t \in TabIds : GoToTab(k, t) \/ ShutTab(k, t)
  \/ \E k \in Loads, t \in TabIds, c \in Conns \cup {Null} : NewTabOn(k, t, c)
  \/ \E k \in Loads, fresh \in (SUBSET Conns) \ {{}} : ListReloaded(k, fresh)
  \/ \E c \in Conns : SwapConnection(c) \/ ForgetConnection(c)
  \/ ToggleTable
  \/ RequestDrop \/ CancelDrop \/ ConfirmDrop \/ DropExecuted \/ DropFailed

SchemaSpec == SchemaInit /\ [][SchemaNext]_schemaVars

-----------------------------------------------------------------------------
(* Properties                                                              *)

\* The shape of the state: the cache holds at most one schema of a database.
SchemaTypeOK ==
  /\ StripOK(strip)
  /\ strip.tab \in [OpenTabs(strip) -> [connection : Conns \cup {Null}, activeDatabase : AllDatabases \cup {Null}]]
  /\ connId \in Conns \cup {Null}
  /\ data \in [schema : Schemas \cup {Null}, schemaLoading : BOOLEAN,
               databases : Conns \cup {Null}, databasesLoading : BOOLEAN]
  /\ tables \subseteq Conns
  /\ \A i \in Keys : cache[i] \in Schemas
  /\ \A i, j \in Keys : cache[i].conn = cache[j].conn /\ cache[i].db = cache[j].db => i = j
  /\ listed \subseteq Conns

\* As long as the user waits for loads to end, and changes the connection of
\* a tab in the sidebar, the schema on display and the tables expanded in it
\* are those of the active tab's connection, whichever tabs are opened, closed
\* and visited and however loads end.
ShownIsActives ==
  ~raced /\ ~adrift =>
    /\ data.schema # Null => data.schema.conn = Active.connection
    /\ tables \subseteq {Active.connection}

\* The sidebar says "loading" only while a load is in flight: no order in which
\* overlapping loads end, refusals of a tunnel included, leaves the flag up.
SchemaLoadingExplained ==
  /\ data.schemaLoading => \E k \in Loads : loads[k].pc \in {"tunnel", "fetch", "answer"}
  /\ data.databasesLoading => \E k \in Loads : loads[k].pc = "list"

\* Once a drop has been answered with success, and as long as no load was in
\* flight meanwhile, the object is in no cached schema of that database.
DroppedIsForgotten ==
  ~raced => \A i \in Keys : cache[i].lists => <<cache[i].conn, cache[i].db>> \notin acked

\* The cache has room for CacheLimit schemas, and only loads that overlapped
\* have ever exceeded it.
CacheBounded == ~raced => Len(cache) <= CacheLimit

\* "Drop against the database the schema tree is showing": the database that
\* is sent is the one whose schema was on display.
DropHitsShownDatabase ==
  dropping.pc = "sent" /\ dropping.shown # Null =>
    dropping.conn = dropping.shown.conn /\ dropping.db = dropping.shown.db
=============================================================================
