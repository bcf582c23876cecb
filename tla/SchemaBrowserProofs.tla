------------------------- MODULE SchemaBrowserProofs -------------------------
(***************************************************************************)
(* Proofs about SchemaBrowser, for any connections, databases, tabs, limit *)
(* of the cache and number of overlapping calls.                           *)
(***************************************************************************)
EXTENDS SchemaBrowser, ListProofs

TabRecords == [connection : Conns \cup {Null}, activeDatabase : AllDatabases \cup {Null}]
Displays == [schema : Schemas \cup {Null}, schemaLoading : BOOLEAN,
             databases : Conns \cup {Null}, databasesLoading : BOOLEAN]
LoadStates == [pc : {"idle", "list", "tunnel", "fetch", "answer"}, conn : Conns \cup {Null},
               db : AllDatabases \cup {Null}, answer : Schemas \cup {Null}]
Drops == [pc : {"closed", "asked", "sent", "executed", "failed", "dropped"}, conn : Conns \cup {Null},
          db : AllDatabases \cup {Null}, shown : Schemas \cup {Null}]
Fetching == {"tunnel", "fetch", "answer"}
Pending == {"asked", "sent", "executed"}

\* A cache has at most one schema of a database.
CacheOK(m) ==
  /\ m \in Seq(Schemas)
  /\ \A i, j \in 1..Len(m) : m[i].conn = m[j].conn /\ m[i].db = m[j].db => i = j

\* A load is for a database of a connection, and so is its answer.
LoadOK(l) ==
  /\ l \in LoadStates
  /\ l.pc # "idle" => l.conn \in Conns /\ l.db \in AllDatabases
  /\ l.pc = "answer" => l.answer \in Schemas /\ l.answer.conn = l.conn /\ l.answer.db = l.db

StripTyped == WellTyped(strip, TabRecords) /\ OpenTabs(strip) \subseteq made /\ made \subseteq TabIds

TreeTyped ==
  /\ connId \in Conns \cup {Null} /\ tables \subseteq Conns /\ listed \subseteq Conns
  /\ raced \in BOOLEAN /\ adrift \in BOOLEAN

LoadsTyped ==
  /\ data \in Displays
  /\ CacheOK(cache)
  /\ loads \in [Loads -> LoadStates] /\ \A k \in Loads : LoadOK(loads[k])

\* A drop that was answered was executed.
DropTyped ==
  /\ dropping \in Drops
  /\ dropping.pc \in Pending => dropping.conn \in Conns
  /\ dropping.pc \in {"sent", "executed"} => dropping.db \in AllDatabases
  /\ dropping.pc = "executed" => <<dropping.conn, dropping.db>> \in gone
  /\ gone \subseteq Conns \X AllDatabases
  /\ acked \subseteq gone

\* A user who waits has one load in flight at most.
OneLoad == ~raced => \A j, k \in Loads : ~Fresh(j) /\ ~Fresh(k) => j = k

\* ... and everything that is shown, asked for or in flight is of the
\* connection of the active tab.
Settled ==
  ~raced /\ ~adrift =>
    /\ data.schema # Null => data.schema.conn = Active.connection
    /\ tables \subseteq {Active.connection}
    /\ connId \in {Null, Active.connection}
    /\ \A k \in Loads : ~Fresh(k) => loads[k].conn = Active.connection
    /\ dropping.pc \in Pending => dropping.conn = Active.connection

\* No answer that is on its way lists what was dropped before it was read.
Forgotten ==
  ~raced =>
    /\ \A i \in 1..Len(cache) : cache[i].lists => <<cache[i].conn, cache[i].db>> \notin acked
    /\ \A k \in Loads : loads[k].pc = "answer" /\ loads[k].answer.lists =>
         <<loads[k].answer.conn, loads[k].answer.db>> \notin acked

\* The cache has room for the answer a load is going to bring.
Bounded ==
  ~raced =>
    /\ Len(cache) <= CacheLimit
    /\ \A k \in Loads : loads[k].pc \in Fetching => Len(cache) < CacheLimit

SchemaInv ==
  /\ StripTyped /\ TreeTyped /\ LoadsTyped /\ DropTyped
  /\ OneLoad /\ Settled /\ SchemaLoadingExplained /\ Forgotten /\ Bounded

-----------------------------------------------------------------------------
(* The operators.                                                          *)

LEMMA DefaultTyped == \A c \in Conns : DefaultDb[c] \in AllDatabases
  BY SavedConnsAssumption DEF AllDatabases

LEMMA DbOfTyped ==
  ASSUME NEW tab \in TabRecords, tab.connection # Null
  PROVE  tab.connection \in Conns /\ DbOf(tab) \in AllDatabases
  BY DefaultTyped DEF TabRecords, DbOf

\* The active tab is rewritten.
Rewritten(s, r) == [s EXCEPT !.tab = [t \in OpenTabs(s) |-> IF t = s.active THEN r ELSE s.tab[t]]]

LEMMA RewriteActive ==
  ASSUME NEW s, WellTyped(s, TabRecords), NEW r \in TabRecords
  PROVE  /\ WellTyped(Rewritten(s, r), TabRecords) /\ OpenTabs(Rewritten(s, r)) = OpenTabs(s)
         /\ Rewritten(s, r).tab[Rewritten(s, r).active] = r
<1> DEFINE g == [t \in OpenTabs(s) |-> IF t = s.active THEN r ELSE s.tab[t]]
<1>1. s.tab \in [OpenTabs(s) -> TabRecords] /\ s.active \in OpenTabs(s)
  BY DEF WellTyped, StripOK
<1>2. g \in [OpenTabs(s) -> TabRecords]
  BY <1>1
<1>3. g[s.active] = r
  BY <1>1
<1> HIDE DEF g
<1>4. Rewritten(s, r) = [s EXCEPT !.tab = g]
  BY DEF g, Rewritten
<1>5. /\ WellTyped([s EXCEPT !.tab = g], TabRecords)
      /\ OpenTabs([s EXCEPT !.tab = g]) = OpenTabs(s)
      /\ [s EXCEPT !.tab = g].active = s.active
      /\ [s EXCEPT !.tab = g].tab = g
  BY <1>2, Retab
<1> QED BY <1>3, <1>4, <1>5

\* What is left of the cache is of it.
LEMMA Filtered ==
  ASSUME NEW m, CacheOK(m), NEW V, NEW n, n = Only(m, V)
  PROVE  /\ CacheOK(n) /\ Len(n) <= Len(m)
         /\ \A i \in 1..Len(n) : n[i] \in V /\ \E j \in 1..Len(m) : n[i] = m[j]
<1>1. /\ n \in Seq(Schemas) /\ Len(n) <= Len(m)
      /\ \A i \in 1..Len(n) : n[i] \in V
  BY OnlyProperties DEF CacheOK
<1>2. PICK f \in [1..Len(n) -> 1..Len(m)] :
        /\ \A i \in 1..Len(n) : n[i] = m[f[i]]
        /\ \A i, j \in 1..Len(n) : i < j => f[i] < f[j]
  BY OnlyProperties DEF CacheOK
<1>3. \A i \in 1..Len(n) : f[i] \in 1..Len(m)
  BY <1>2
<1>4. Len(n) \in Nat /\ Len(m) \in Nat
  BY <1>1, LenProperties DEF CacheOK
<1>5. \A i, j \in 1..Len(n) : f[i] = f[j] => i = j
  <2> TAKE i, j \in 1..Len(n)
  <2>1. f[i] \in Nat /\ f[j] \in Nat /\ i \in Nat /\ j \in Nat
    BY <1>3, <1>4
  <2>2. (i < j => f[i] < f[j]) /\ (j < i => f[j] < f[i])
    BY <1>2
  <2> QED BY <2>1, <2>2
<1>6. \A i, j \in 1..Len(n) : n[i].conn = n[j].conn /\ n[i].db = n[j].db => i = j
  <2> SUFFICES ASSUME NEW i \in 1..Len(n), NEW j \in 1..Len(n),
                      n[i].conn = n[j].conn /\ n[i].db = n[j].db
               PROVE  i = j
    OBVIOUS
  <2>1. n[i] = m[f[i]] /\ n[j] = m[f[j]]
    BY <1>2
  <2>2. f[i] = f[j]
    BY <2>1, <1>3 DEF CacheOK
  <2> QED BY <2>2, <1>5
<1> QED BY <1>1, <1>2, <1>3, <1>6 DEF CacheOK

\* Room is made by forgetting the oldest.
LEMMA EvictedOK ==
  ASSUME NEW m, CacheOK(m), NEW n, n = Evicted(m)
  PROVE  /\ CacheOK(n) /\ Len(n) <= Len(m)
         /\ Len(m) <= CacheLimit => Len(n) < CacheLimit
         /\ \A i \in 1..Len(n) : \E j \in 1..Len(m) : n[i] = m[j]
<1>1. Len(m) \in Nat /\ m \in Seq(Schemas)
  BY LenProperties DEF CacheOK
<1>2. CASE Len(m) >= CacheLimit
  <2>1. n = Tail(m) /\ m # <<>>
    BY <1>1, <1>2, SchemaBrowserAssumption DEF Evicted
  <2>2. /\ n \in Seq(Schemas) /\ Len(n) = Len(m) - 1
        /\ \A i \in 1..Len(n) : n[i] = m[i + 1] /\ i + 1 \in 1..Len(m)
    BY <1>1, <2>1
  <2>3. \A i, j \in 1..Len(n) : n[i].conn = n[j].conn /\ n[i].db = n[j].db => i = j
    <3> TAKE i, j \in 1..Len(n)
    <3> HAVE n[i].conn = n[j].conn /\ n[i].db = n[j].db
    <3>1. n[i] = m[i + 1] /\ n[j] = m[j + 1] /\ i + 1 \in 1..Len(m) /\ j + 1 \in 1..Len(m)
      BY <2>2
    <3>2. i + 1 = j + 1
      BY <3>1 DEF CacheOK
    <3> QED BY <1>1, <2>2, <3>2
  <2>4. CacheOK(n)
    BY <2>2, <2>3 DEF CacheOK
  <2>5. \A i \in 1..Len(n) : \E j \in 1..Len(m) : n[i] = m[j]
    BY <2>2
  <2>6. Len(n) <= Len(m) /\ (Len(m) <= CacheLimit => Len(n) < CacheLimit)
    BY <1>1, <2>2, SchemaBrowserAssumption
  <2> QED BY <2>4, <2>5, <2>6
<1>3. CASE ~(Len(m) >= CacheLimit)
  BY <1>1, <1>3, SchemaBrowserAssumption DEF Evicted
<1> QED BY <1>2, <1>3

\* An answer takes the place of its database, or comes last.
LEMMA PutOK ==
  ASSUME CacheOK(cache), NEW s \in Schemas, NEW n, n = Put(s)
  PROVE  /\ CacheOK(n) /\ Len(n) <= Len(cache) + 1
         /\ \A i \in 1..Len(n) : n[i] = s \/ \E j \in 1..Len(cache) : n[i] = cache[j]
<1>1. Len(cache) \in Nat /\ cache \in Seq(Schemas) /\ Keys = 1..Len(cache)
  BY LenProperties DEF CacheOK, Keys
<1>2. CASE Cached(s.conn, s.db)
  <2>1. n = [i \in 1..Len(cache) |-> IF cache[i].conn = s.conn /\ cache[i].db = s.db THEN s ELSE cache[i]]
    BY <1>1, <1>2 DEF Put
  <2>2. n \in [1..Len(cache) -> Schemas]
    BY <1>1, <2>1
  <2>3. n \in Seq(Schemas) /\ Len(n) = Len(cache)
    BY <1>1, <2>2
  <2>4. \A i \in 1..Len(n) : (n[i] = s \/ n[i] = cache[i]) /\ n[i].conn = cache[i].conn /\ n[i].db = cache[i].db
    BY <2>1, <2>3
  <2> QED BY <1>1, <2>3, <2>4 DEF CacheOK
<1>3. CASE ~Cached(s.conn, s.db)
  <2>1. n = Append(cache, s)
    BY <1>3 DEF Put
  <2>2. /\ n \in Seq(Schemas) /\ Len(n) = Len(cache) + 1 /\ n[Len(cache) + 1] = s
        /\ \A i \in 1..Len(cache) : n[i] = cache[i]
    BY <1>1, <2>1
  <2>3. \A i \in 1..Len(cache) : ~(cache[i].conn = s.conn /\ cache[i].db = s.db)
    BY <1>1, <1>3 DEF Cached
  <2>4. \A i \in 1..Len(n) : i \in 1..Len(cache) \/ i = Len(cache) + 1
    BY <1>1, <2>2
  <2>5. \A i, j \in 1..Len(n) : n[i].conn = n[j].conn /\ n[i].db = n[j].db => i = j
    BY <2>2, <2>3, <2>4 DEF CacheOK
  <2> QED BY <1>1, <2>2, <2>4, <2>5 DEF CacheOK
<1> QED BY <1>2, <1>3

\* Where a load is after its first steps: it has ended or waits, it has taken
\* nothing into the cache, and what is shown is of its connection.
Begun(k, c, d, m) ==
  /\ LoadsTyped'
  /\ \A j \in Loads \ {k} : loads'[j] = loads[j]
  /\ data'.schema # Null => data'.schema = d.schema \/ data'.schema.conn = c
  /\ loads'[k].pc # "answer"
  /\ loads'[k].pc # "idle" => loads'[k].conn = c
  /\ Len(cache') <= Len(m) /\ \A i \in 1..Len(cache') : \E j \in 1..Len(m) : cache'[i] = m[j]
  /\ loads'[k].pc \in Fetching /\ Len(m) <= CacheLimit => Len(cache') < CacheLimit
  /\ data'.schemaLoading => d.schemaLoading \/ loads'[k].pc \in Fetching
  /\ data'.databasesLoading => d.databasesLoading \/ loads'[k].pc = "list"

LEMMA NullLoad == LoadOK(NoLoad)
  BY DEF LoadOK, NoLoad, LoadStates

LEMMA Asked ==
  ASSUME NEW k \in Loads, NEW c \in Conns, NEW db \in AllDatabases, NEW pc \in {"list", "tunnel", "fetch"},
         loads \in [Loads -> LoadStates], \A j \in Loads : LoadOK(loads[j]), Ask(k, pc, c, db)
  PROVE  /\ loads' \in [Loads -> LoadStates] /\ \A j \in Loads : LoadOK(loads'[j])
         /\ \A j \in Loads \ {k} : loads'[j] = loads[j]
         /\ loads'[k].pc = pc /\ loads'[k].conn = c
<1> DEFINE l == [pc |-> pc, conn |-> c, db |-> db, answer |-> Null]
<1>1. LoadOK(l) /\ l \in LoadStates /\ l.pc = pc /\ l.conn = c
  BY DEF LoadOK, LoadStates
<1> HIDE DEF l
<1>2. loads' = [loads EXCEPT ![k] = l]
  BY DEF Ask, l
<1> QED BY <1>1, <1>2

LEMMA EndedTyped ==
  ASSUME NEW k \in Loads,
         loads \in [Loads -> LoadStates], \A j \in Loads : LoadOK(loads[j]), loads' = Ended(k)
  PROVE  /\ loads' \in [Loads -> LoadStates] /\ \A j \in Loads : LoadOK(loads'[j])
         /\ \A j \in Loads \ {k} : loads'[j] = loads[j]
         /\ loads'[k].pc = "idle"
<1>1. NoLoad \in LoadStates /\ NoLoad.pc = "idle"
  BY DEF NoLoad, LoadStates
<1>2. loads' = [loads EXCEPT ![k] = NoLoad]
  BY DEF Ended
<1> QED BY <1>1, <1>2, NullLoad

LEMMA SchemaBegun ==
  ASSUME LoadsTyped, NEW k \in Loads, NEW c \in Conns, NEW db \in AllDatabases,
         NEW d \in Displays, NEW m, CacheOK(m), LoadSchema(k, c, db, d, m)
  PROVE  Begun(k, c, d, m)
<1>1. m \in Seq(Schemas) /\ DOMAIN m = 1..Len(m) /\ Len(m) \in Nat
  BY LenProperties DEF CacheOK
<1>2. CASE \E i \in DOMAIN m : m[i].conn = c /\ m[i].db = db /\ data' = SetSchema(d, m[i]) /\ cache' = m /\ loads' = Ended(k)
  <2>1. PICK i \in DOMAIN m : m[i].conn = c /\ data' = SetSchema(d, m[i]) /\ cache' = m /\ loads' = Ended(k)
    BY <1>2
  <2>2. m[i] \in Schemas
    BY <1>1
  <2>3. /\ data' \in Displays /\ data'.schema = m[i] /\ data'.schemaLoading = d.schemaLoading
        /\ data'.databasesLoading = d.databasesLoading
    BY <2>1, <2>2 DEF SetSchema, Displays
  <2>4. /\ loads' \in [Loads -> LoadStates] /\ \A j \in Loads : LoadOK(loads'[j])
        /\ \A j \in Loads \ {k} : loads'[j] = loads[j]
        /\ loads'[k].pc = "idle"
    BY <2>1, EndedTyped DEF LoadsTyped
  <2> QED BY <1>1, <2>1, <2>3, <2>4 DEF Begun, LoadsTyped, Fetching
<1>3. CASE cache' = Evicted(m) /\ data' = LoadStart(d) /\ Ask(k, IF c \in SshConns THEN "tunnel" ELSE "fetch", c, db)
  <2>1. PICK pc \in {"list", "tunnel", "fetch"} : Ask(k, pc, c, db) /\ pc \in {"tunnel", "fetch"}
    BY <1>3
  <2>2. /\ data' \in Displays /\ data'.schema = Null /\ data'.databasesLoading = d.databasesLoading
    <3>1. data' = [schema |-> Null, schemaLoading |-> TRUE,
                   databases |-> d.databases, databasesLoading |-> d.databasesLoading]
      BY <1>3 DEF LoadStart, Displays
    <3>2. d.databases \in Conns \cup {Null} /\ d.databasesLoading \in BOOLEAN
      BY DEF Displays
    <3> QED BY <3>1, <3>2 DEF Displays
  <2>3. /\ loads' \in [Loads -> LoadStates] /\ \A j \in Loads : LoadOK(loads'[j])
        /\ \A j \in Loads \ {k} : loads'[j] = loads[j]
        /\ loads'[k].pc = pc /\ loads'[k].conn = c
    BY <2>1, Asked DEF LoadsTyped
  <2>4. /\ CacheOK(cache') /\ Len(cache') <= Len(m) /\ (Len(m) <= CacheLimit => Len(cache') < CacheLimit)
        /\ \A i \in 1..Len(cache') : \E j \in 1..Len(m) : cache'[i] = m[j]
    <3> DEFINE n == Evicted(m)
    <3>1. /\ CacheOK(n) /\ Len(n) <= Len(m) /\ (Len(m) <= CacheLimit => Len(n) < CacheLimit)
          /\ \A i \in 1..Len(n) : \E j \in 1..Len(m) : n[i] = m[j]
      BY EvictedOK
    <3>2. cache' = n
      BY <1>3
    <3> HIDE DEF n
    <3> QED BY <3>1, <3>2
  <2> QED BY <2>1, <2>2, <2>3, <2>4 DEF Begun, LoadsTyped, CacheOK, Fetching
<1> QED BY <1>2, <1>3 DEF LoadSchema

LEMMA DatabasesBegun ==
  ASSUME LoadsTyped, NEW k \in Loads, NEW c \in Conns, NEW db \in AllDatabases,
         NEW d \in Displays, d.schema = Null, NEW m, CacheOK(m), NEW lists, LoadDatabases(k, c, db, d, m, lists)
  PROVE  Begun(k, c, d, m)
<1>1. ASSUME NEW x \in Conns \cup {Null}, LoadSchema(k, c, db, SetList(d, x), m)
      PROVE  Begun(k, c, d, m)
  <2>1. /\ SetList(d, x) \in Displays /\ SetList(d, x).schema = d.schema
        /\ SetList(d, x).schemaLoading = d.schemaLoading /\ SetList(d, x).databasesLoading = d.databasesLoading
    BY DEF SetList, Displays
  <2>2. Begun(k, c, SetList(d, x), m)
    BY <1>1, <2>1, SchemaBegun
  <2> QED BY <2>1, <2>2 DEF Begun
<1>2. CASE data' = ListStart(d) /\ cache' = m /\ Ask(k, "list", c, db)
  <2>1. /\ data' \in Displays /\ data'.schema = Null /\ data'.schemaLoading = d.schemaLoading
    BY <1>2 DEF ListStart, Displays
  <2>2. /\ loads' \in [Loads -> LoadStates] /\ \A j \in Loads : LoadOK(loads'[j])
        /\ \A j \in Loads \ {k} : loads'[j] = loads[j]
        /\ loads'[k].pc = "list" /\ loads'[k].conn = c
    BY <1>2, Asked DEF LoadsTyped
  <2>3. Len(cache') <= Len(m) /\ \A i \in 1..Len(cache') : \E j \in 1..Len(m) : cache'[i] = m[j]
    BY <1>2, LenProperties DEF CacheOK
  <2> QED BY <1>2, <2>1, <2>2, <2>3 DEF Begun, LoadsTyped, CacheOK, Fetching
<1> QED BY <1>1, <1>2 DEF LoadDatabases

-----------------------------------------------------------------------------
(* A load begins, or goes on from the list to the schema.                  *)

\* What the handlers that start a load have in common: whoever waits starts it
\* for the active tab's connection when nothing else is in flight.
LEMMA LoadStep ==
  ASSUME SchemaInv, StripTyped', TreeTyped', DropTyped',
         NEW k \in Loads, loads[k].pc \in {"idle", "list"},
         NEW c \in Conns, NEW d, NEW m, Begun(k, c, d, m),
         d.schemaLoading => data.schemaLoading,
         d.databasesLoading => data.databasesLoading /\ Fresh(k),
         Len(m) <= Len(cache), m \in Seq(Schemas),
         ~raced' => ~raced /\ \A j \in Loads \ {k} : Fresh(j),
         ~raced' => \A i \in 1..Len(m) : m[i].lists => <<m[i].conn, m[i].db>> \notin acked',
         ~raced' /\ ~adrift' =>
           /\ c = Active'.connection
           /\ d.schema # Null => d.schema.conn = c
           /\ connId' \in {Null, c} /\ tables' \subseteq {c}
           /\ dropping'.pc \in Pending => dropping'.conn = c
  PROVE  SchemaInv'
<1> USE DEF SchemaInv
<1>1. /\ LoadsTyped'
      /\ \A j \in Loads \ {k} : loads'[j] = loads[j]
      /\ data'.schema # Null => data'.schema = d.schema \/ data'.schema.conn = c
      /\ loads'[k].pc # "answer"
      /\ loads'[k].pc # "idle" => loads'[k].conn = c
  BY DEF Begun
<1>2. \A j \in Loads \ {k} : ~raced' => loads'[j].pc = "idle"
  BY <1>1 DEF Fresh
<1>3. OneLoad'
  BY <1>2 DEF OneLoad, Fresh
<1>4. Settled'
  <2> SUFFICES ASSUME ~raced', ~adrift' PROVE Settled'
    BY DEF Settled
  <2>1. \A j \in Loads : loads'[j].pc # "idle" => loads'[j].conn = c
    BY <1>1, <1>2
  <2>2. data'.schema # Null => data'.schema.conn = c
    BY <1>1
  <2> QED BY <2>1, <2>2 DEF Settled, Fresh
<1>5. SchemaLoadingExplained'
  <2>1. data'.schemaLoading => \E j \in Loads : loads'[j].pc \in Fetching
    <3>1. data'.schemaLoading => d.schemaLoading \/ loads'[k].pc \in Fetching
      BY DEF Begun
    <3>2. data.schemaLoading => \E j \in Loads \ {k} : loads[j].pc \in Fetching
      BY DEF SchemaLoadingExplained, Fetching
    <3> QED BY <1>1, <3>1, <3>2
  <2>2. data'.databasesLoading => \E j \in Loads : loads'[j].pc = "list"
    <3>1. data'.databasesLoading => d.databasesLoading \/ loads'[k].pc = "list"
      BY DEF Begun
    <3>2. d.databasesLoading => \E j \in Loads \ {k} : loads[j].pc = "list"
      BY DEF SchemaLoadingExplained, Fresh
    <3> QED BY <1>1, <3>1, <3>2
  <2> QED BY <2>1, <2>2 DEF SchemaLoadingExplained, Fetching
<1>6. Forgotten'
  <2> SUFFICES ASSUME ~raced' PROVE Forgotten'
    BY DEF Forgotten
  <2>1. \A i \in 1..Len(cache') : \E j \in 1..Len(m) : cache'[i] = m[j]
    BY DEF Begun
  <2>2. \A i \in 1..Len(cache') : cache'[i].lists => <<cache'[i].conn, cache'[i].db>> \notin acked'
    BY <2>1
  <2>3. \A j \in Loads : loads'[j].pc # "answer"
    BY <1>1, <1>2
  <2> QED BY <2>2, <2>3 DEF Forgotten
<1>7. Bounded'
  <2> SUFFICES ASSUME ~raced' PROVE Bounded'
    BY DEF Bounded
  <2>1. Len(cache') \in Nat /\ Len(cache) \in Nat /\ Len(m) \in Nat /\ CacheLimit \in Nat
    BY <1>1, SchemaBrowserAssumption, LenProperties DEF LoadsTyped, CacheOK
  <2>2. Len(cache') <= Len(m) /\ (loads'[k].pc \in Fetching /\ Len(m) <= CacheLimit => Len(cache') < CacheLimit)
    BY DEF Begun
  <2>3. Len(cache) <= CacheLimit
    BY DEF Bounded
  <2>4. Len(cache') <= CacheLimit /\ (loads'[k].pc \in Fetching => Len(cache') < CacheLimit)
    BY <2>1, <2>2, <2>3
  <2>5. \A j \in Loads : loads'[j].pc \in Fetching => j = k
    BY <1>2 DEF Fetching
  <2> QED BY <2>4, <2>5 DEF Bounded
<1> QED BY <1>1, <1>3, <1>4, <1>5, <1>6, <1>7

\* A user who waited has nothing in flight.
LEMMA LoadIdle ==
  ASSUME SchemaInv, Marked
  PROVE  /\ raced' \in BOOLEAN
         /\ ~raced' => ~raced /\ \A k \in Loads : Fresh(k)
         /\ ~raced' => dropping.pc \notin Pending
  BY DEF SchemaInv, TreeTyped, Marked, Busy, Loading, Pending

\* The cache is as good as it was.
LEMMA CacheKept ==
  ASSUME SchemaInv
  PROVE  /\ CacheOK(cache) /\ cache \in Seq(Schemas) /\ Len(cache) <= Len(cache) /\ data \in Displays
         /\ ~raced => \A i \in 1..Len(cache) : cache[i].lists => <<cache[i].conn, cache[i].db>> \notin acked
  BY LenProperties DEF SchemaInv, LoadsTyped, CacheOK, Forgotten

LEMMA Cleared ==
  ASSUME NEW d \in Displays
  PROVE  /\ SetSchema(d, Null) \in Displays /\ SetSchema(d, Null).schema = Null
         /\ SetSchema(d, Null).schemaLoading = d.schemaLoading
         /\ SetSchema(d, Null).databasesLoading = d.databasesLoading
  BY DEF SetSchema, Displays

\* What was purged left nothing that was wrong.
LEMMA CacheFiltered ==
  ASSUME SchemaInv, NEW V, NEW m, m = Only(cache, V)
  PROVE  /\ CacheOK(m) /\ m \in Seq(Schemas) /\ Len(m) <= Len(cache)
         /\ \A i \in 1..Len(m) : m[i] \in V /\ \E j \in 1..Len(cache) : m[i] = cache[j]
         /\ ~raced => \A i \in 1..Len(m) : m[i].lists => <<m[i].conn, m[i].db>> \notin acked
<1>1. /\ CacheOK(m) /\ Len(m) <= Len(cache)
      /\ \A i \in 1..Len(m) : m[i] \in V /\ \E j \in 1..Len(cache) : m[i] = cache[j]
  BY CacheKept, Filtered
<1> QED BY <1>1, CacheKept DEF CacheOK

LEMMA PickConnectionStep ==
  ASSUME SchemaInv, NEW k \in Loads, NEW c \in Conns, PickConnection(k, c)
  PROVE  SchemaInv'
<1> USE DEF SchemaInv
<1> DEFINE r == BlankTab(c, DefaultDb[c])
           d == SetSchema(data, Null)
<1>1. UNCHANGED <<made, dropping, gone, acked>> /\ connId' = c /\ tables' = {} /\ adrift' = FALSE
      /\ Fresh(k) /\ Marked /\ LoadDatabases(k, c, DefaultDb[c], d, cache, listed)
  BY DEF PickConnection
<1>2. r \in TabRecords /\ r.connection = c
  BY DefaultTyped DEF BlankTab, TabRecords
<1>3. WellTyped(strip', TabRecords) /\ OpenTabs(strip') = OpenTabs(strip) /\ strip'.tab[strip'.active] = r
  <2>1. strip' = Rewritten(strip, r)
    BY DEF PickConnection, UpdateActiveTab, UpdateTab, OpenTabs, Rewritten
  <2> HIDE DEF r
  <2> QED BY <1>2, <2>1, RewriteActive DEF StripTyped
<1>4. listed' \subseteq Conns
  BY <1>1 DEF LoadDatabases, TreeTyped
<1>5. StripTyped' /\ TreeTyped' /\ DropTyped'
  BY <1>1, <1>3, <1>4, LoadIdle DEF StripTyped, TreeTyped, DropTyped
<1>6. Begun(k, c, d, cache)
  BY <1>1, CacheKept, Cleared, DatabasesBegun, DefaultTyped
<1>7. Active'.connection = c
  BY <1>2, <1>3 DEF Active
<1>8. ~raced' => ~raced /\ (\A j \in Loads : Fresh(j)) /\ dropping'.pc \notin Pending
  BY <1>1, LoadIdle
<1>9. d.schema = Null /\ d.schemaLoading = data.schemaLoading /\ d.databasesLoading = data.databasesLoading
  BY Cleared, CacheKept
<1> HIDE DEF d, r, SchemaInv
<1> QED BY <1>1, <1>5, <1>6, <1>7, <1>8, <1>9, CacheKept, LoadStep DEF Fresh

LEMMA PickDatabaseStep ==
  ASSUME SchemaInv, NEW k \in Loads, NEW db \in AllDatabases, PickDatabase(k, db)
  PROVE  SchemaInv'
<1> USE DEF SchemaInv
<1> DEFINE c == Active.connection
           r == [Active EXCEPT !.activeDatabase = db]
           d == SetSchema(data, Null)
<1>1. /\ UNCHANGED <<made, connId, listed, dropping, gone, acked, adrift>> /\ tables' = {}
      /\ Fresh(k) /\ Marked /\ c # Null /\ LoadSchema(k, c, db, d, cache)
  BY DEF PickDatabase
<1>2. Active \in TabRecords
  BY DEF StripTyped, WellTyped, StripOK, Active
<1>3. r \in TabRecords /\ r.connection = c /\ c \in Conns
  BY <1>1, <1>2 DEF TabRecords
<1>4. WellTyped(strip', TabRecords) /\ OpenTabs(strip') = OpenTabs(strip) /\ strip'.tab[strip'.active] = r
  <2>1. strip' = Rewritten(strip, r)
    BY DEF PickDatabase, UpdateActiveTab, UpdateTab, OpenTabs, Rewritten, Active
  <2> HIDE DEF r
  <2> QED BY <1>3, <2>1, RewriteActive DEF StripTyped
<1>5. StripTyped' /\ TreeTyped' /\ DropTyped'
  BY <1>1, <1>4, LoadIdle DEF StripTyped, TreeTyped, DropTyped
<1>6. Begun(k, c, d, cache)
  <2> HIDE DEF c
  <2> QED BY <1>1, <1>3, CacheKept, Cleared, SchemaBegun
<1>7. Active'.connection = c
  BY <1>3, <1>4 DEF Active
<1>8. ~raced' => ~raced /\ (\A j \in Loads : Fresh(j)) /\ dropping'.pc \notin Pending
  BY <1>1, LoadIdle
<1>9. d.schema = Null /\ d.schemaLoading = data.schemaLoading /\ d.databasesLoading = data.databasesLoading
  BY Cleared, CacheKept
<1>10. ~raced /\ ~adrift => connId \in {Null, c}
  BY DEF Settled
<1> HIDE DEF d, r, c, SchemaInv
<1> QED BY <1>1, <1>3, <1>5, <1>6, <1>7, <1>8, <1>9, <1>10, CacheKept, LoadStep DEF Fresh

LEMMA RefreshStep ==
  ASSUME SchemaInv, NEW k \in Loads, Refresh(k)
  PROVE  SchemaInv'
<1> USE DEF SchemaInv
<1> DEFINE c == Active.connection
           m == Only(cache, {s \in Schemas : s.conn # c \/ s.db # DbOf(Active)})
<1>1. /\ UNCHANGED <<strip, made, connId, tables, listed, dropping, gone, acked, adrift>>
      /\ Fresh(k) /\ Marked /\ c # Null /\ LoadSchema(k, c, DbOf(Active), data, m)
  BY DEF Refresh
<1>2. Active \in TabRecords
  BY DEF StripTyped, WellTyped, StripOK, Active
<1>3. c \in Conns /\ DbOf(Active) \in AllDatabases
  BY <1>1, <1>2, DbOfTyped
<1>4. /\ CacheOK(m) /\ m \in Seq(Schemas) /\ Len(m) <= Len(cache)
      /\ ~raced => \A i \in 1..Len(m) : m[i].lists => <<m[i].conn, m[i].db>> \notin acked
  BY CacheFiltered
<1>5. StripTyped' /\ TreeTyped' /\ DropTyped'
  BY <1>1, LoadIdle DEF StripTyped, TreeTyped, DropTyped
<1>6. Begun(k, c, data, m)
  <2> HIDE DEF c, m
  <2> QED BY <1>1, <1>3, <1>4, CacheKept, SchemaBegun
<1>7. Active'.connection = c
  BY <1>1 DEF Active
<1>8. ~raced' => ~raced /\ (\A j \in Loads : Fresh(j)) /\ dropping'.pc \notin Pending
  BY <1>1, LoadIdle
<1>9. ~raced /\ ~adrift => connId \in {Null, c} /\ tables \subseteq {c} /\ (data.schema # Null => data.schema.conn = c)
  BY DEF Settled
<1> HIDE DEF m, c, SchemaInv
<1> QED BY <1>1, <1>3, <1>4, <1>5, <1>6, <1>7, <1>8, <1>9, LoadStep DEF Fresh

\* The effect on the active tab, once the strip has changed.
LEMMA FollowStep ==
  ASSUME SchemaInv, StripTyped', NEW k \in Loads, Fresh(k), Marked, FollowTab(k, strip'),
         UNCHANGED <<dropping, gone, acked, adrift>>
  PROVE  SchemaInv'
<1> USE DEF SchemaInv
<1> DEFINE c == Active'.connection
           d == SetSchema(data, Null)
<1>1. Active' = strip'.tab[strip'.active] /\ Active' \in TabRecords
  BY DEF StripTyped, WellTyped, StripOK, Active
<1>2. ~raced' => ~raced /\ (\A j \in Loads : Fresh(j)) /\ dropping'.pc \notin Pending
  BY LoadIdle
<1>3. DropTyped' /\ raced' \in BOOLEAN /\ adrift' \in BOOLEAN
  BY LoadIdle DEF TreeTyped, DropTyped
<1>4. CASE c # Null /\ c = connId /\ UNCHANGED <<connId, data, tables, cache, listed, loads>>
  <2>1. TreeTyped' /\ LoadsTyped'
    BY <1>3, <1>4 DEF TreeTyped, LoadsTyped
  <2>2. Settled'
    BY <1>2, <1>4 DEF Settled, Fresh
  <2>3. OneLoad' /\ SchemaLoadingExplained' /\ Forgotten' /\ Bounded'
    BY <1>2, <1>4 DEF OneLoad, SchemaLoadingExplained, Forgotten, Bounded, Fresh
  <2> QED BY <1>3, <2>1, <2>2, <2>3
<1>5. CASE /\ c # Null /\ connId' = c /\ tables' = {}
           /\ LoadDatabases(k, c, DbOf(Active'), d, cache, listed)
  <2>1. c \in Conns /\ DbOf(Active') \in AllDatabases
    BY <1>1, <1>5, DbOfTyped
  <2>2. listed' \subseteq Conns
    BY <1>5 DEF LoadDatabases, TreeTyped
  <2>3. TreeTyped'
    BY <1>3, <1>5, <2>1, <2>2 DEF TreeTyped
  <2>4. Begun(k, c, d, cache)
    <3> HIDE DEF c
    <3> QED BY <1>5, <2>1, CacheKept, Cleared, DatabasesBegun
  <2>5. d.schema = Null /\ d.schemaLoading = data.schemaLoading /\ d.databasesLoading = data.databasesLoading
    BY Cleared, CacheKept
  <2>6. PICK b \in Conns : b = c
    BY <2>1
  <2> HIDE DEF d, SchemaInv
  <2> QED BY <1>2, <1>3, <1>5, <2>3, <2>4, <2>5, <2>6, CacheKept, LoadStep DEF Fresh
<1>6. CASE /\ c = Null /\ connId' = Null /\ tables' = {}
           /\ data' = SetList(d, Null) /\ UNCHANGED <<cache, listed, loads>>
  <2>1. /\ data' \in Displays /\ data'.schema = Null /\ data'.schemaLoading = data.schemaLoading
        /\ data'.databasesLoading = data.databasesLoading
    BY <1>6 DEF SetList, SetSchema, Displays, LoadsTyped
  <2>2. TreeTyped' /\ LoadsTyped'
    BY <1>3, <1>6, <2>1 DEF TreeTyped, LoadsTyped
  <2>3. Settled'
    BY <1>2, <1>6, <2>1 DEF Settled, Fresh
  <2>4. OneLoad' /\ SchemaLoadingExplained' /\ Forgotten' /\ Bounded'
    BY <1>2, <1>6, <2>1 DEF OneLoad, SchemaLoadingExplained, Forgotten, Bounded, Fresh
  <2> QED BY <1>3, <2>2, <2>3, <2>4
<1> QED BY <1>1, <1>4, <1>5, <1>6 DEF FollowTab

LEMMA GoToStep ==
  ASSUME SchemaInv, NEW k \in Loads, NEW t \in TabIds, GoToTab(k, t)
  PROVE  SchemaInv'
<1>1. WellTyped(strip, TabRecords) /\ t \in OpenTabs(strip)
  BY DEF SchemaInv, StripTyped, GoToTab
<1>2. strip' = SetActive(strip, t) /\ made' = made
  BY DEF GoToTab
<1>3. WellTyped(strip', TabRecords) /\ OpenTabs(strip') = OpenTabs(strip)
  BY <1>1, <1>2, ActivateOpen
<1>4. StripTyped'
  BY <1>2, <1>3 DEF SchemaInv, StripTyped
<1> QED BY <1>4, FollowStep DEF GoToTab

LEMMA NewTabStep ==
  ASSUME SchemaInv, NEW k \in Loads, NEW t \in TabIds, NEW c \in Conns \cup {Null}, NewTabOn(k, t, c)
  PROVE  SchemaInv'
<1>1. WellTyped(strip, TabRecords) /\ t \in TabIds \ OpenTabs(strip)
  BY DEF SchemaInv, StripTyped, NewTabOn
<1>2. strip' = AppendActivate(strip, t, BlankTab(c, Null)) /\ made' = made \cup {t}
  BY DEF NewTabOn
<1>3. BlankTab(c, Null) \in TabRecords
  BY DEF BlankTab, TabRecords
<1>4. WellTyped(strip', TabRecords) /\ OpenTabs(strip') = OpenTabs(strip) \cup {t}
  BY <1>1, <1>2, <1>3, AppendFresh
<1>5. StripTyped'
  BY <1>2, <1>4 DEF SchemaInv, StripTyped
<1> QED BY <1>5, FollowStep DEF NewTabOn

LEMMA ShutStep ==
  ASSUME SchemaInv, NEW k \in Loads, NEW t \in TabIds, ShutTab(k, t)
  PROVE  SchemaInv'
<1> USE DEF SchemaInv
<1>1. WellTyped(strip, TabRecords) /\ t \in OpenTabs(strip) /\ Len(strip.order) > 1
  BY DEF StripTyped, ShutTab
<1>2. strip' = Close(strip, t) /\ UNCHANGED <<made, dropping, gone, acked, adrift>>
  BY DEF ShutTab
<1>3. /\ WellTyped(strip', TabRecords) /\ OpenTabs(strip') = OpenTabs(strip) \ {t}
      /\ \A u \in OpenTabs(strip) \ {t} : strip'.tab[u] = strip.tab[u]
      /\ t # strip.active => strip'.active = strip.active
  BY <1>1, <1>2, CloseOpen
<1>4. StripTyped'
  BY <1>2, <1>3 DEF StripTyped
<1>5. CASE t # strip.active /\ UNCHANGED <<connId, data, tables, cache, listed, loads, raced>>
  <2>1. Active' = Active
    BY <1>1, <1>3, <1>5 DEF Active, WellTyped, StripOK
  <2>2. TreeTyped' /\ LoadsTyped' /\ DropTyped'
    BY <1>2, <1>5 DEF TreeTyped, LoadsTyped, DropTyped
  <2>3. Settled'
    BY <1>2, <1>5, <2>1 DEF Settled, Fresh
  <2>4. OneLoad' /\ SchemaLoadingExplained' /\ Forgotten' /\ Bounded'
    BY <1>2, <1>5 DEF OneLoad, SchemaLoadingExplained, Forgotten, Bounded, Fresh
  <2> QED BY <1>4, <2>2, <2>3, <2>4
<1>6. CASE t = strip.active /\ Fresh(k) /\ Marked /\ FollowTab(k, strip')
  BY <1>2, <1>4, <1>6, FollowStep
<1> QED BY <1>5, <1>6 DEF ShutTab

LEMMA ReloadStep ==
  ASSUME SchemaInv, NEW k \in Loads, NEW fresh \in (SUBSET Conns) \ {{}}, ListReloaded(k, fresh)
  PROVE  SchemaInv'
<1> USE DEF SchemaInv
<1> DEFINE used  == {strip.tab[t].connection : t \in OpenTabs(strip)} \cap fresh
           first == CHOOSE c \in fresh : TRUE
           c == Active.connection
           d == SetSchema(data, Null)
           m == Only(cache, {s \in Schemas : s.conn \notin used})
<1>1. UNCHANGED <<made, dropping, gone, acked>> /\ Fresh(k) /\ Marked /\ Purged(used) = m
  BY DEF ListReloaded, Purged
<1>2. Active \in TabRecords /\ WellTyped(strip, TabRecords)
  BY DEF StripTyped, WellTyped, StripOK, Active
<1>3. /\ CacheOK(m) /\ m \in Seq(Schemas) /\ Len(m) <= Len(cache)
      /\ ~raced => \A i \in 1..Len(m) : m[i].lists => <<m[i].conn, m[i].db>> \notin acked
  BY CacheFiltered
<1>4. DropTyped' /\ raced' \in BOOLEAN
  BY <1>1, LoadIdle DEF DropTyped
<1>5. ~raced' => ~raced /\ (\A j \in Loads : Fresh(j)) /\ dropping'.pc \notin Pending
  BY <1>1, LoadIdle
<1>6. CASE /\ c \in fresh /\ connId' = Null /\ tables' = {} /\ UNCHANGED <<strip, adrift>>
           /\ LoadDatabases(k, c, DbOf(Active), d, m, listed \ used)
  <2>1. c \in Conns /\ DbOf(Active) \in AllDatabases
    BY <1>2, <1>6, DbOfTyped, SavedConnsAssumption
  <2>2. listed' \subseteq Conns
    BY <1>6 DEF LoadDatabases, TreeTyped
  <2>3. StripTyped' /\ TreeTyped'
    BY <1>1, <1>4, <1>6, <2>2 DEF StripTyped, TreeTyped
  <2>4. Begun(k, c, d, m)
    <3> DEFINE lists == listed \ used
    <3> HIDE DEF c, m, lists
    <3>1. LoadDatabases(k, c, DbOf(Active), d, m, lists)
      BY <1>6 DEF lists
    <3> QED BY <1>3, <2>1, <3>1, CacheKept, Cleared, DatabasesBegun
  <2>5. d.schema = Null /\ d.schemaLoading = data.schemaLoading /\ d.databasesLoading = data.databasesLoading
    BY Cleared, CacheKept
  <2>6. Active'.connection = c
    BY <1>6 DEF Active
  <2> HIDE DEF c, d, m, used, SchemaInv
  <2> QED BY <1>1, <1>3, <1>4, <1>5, <1>6, <2>1, <2>3, <2>4, <2>5, <2>6, LoadStep DEF Fresh
<1>7. CASE /\ c \notin fresh /\ cache' = m /\ listed' = listed \ used
           /\ strip' = IF c # Null THEN strip ELSE UpdateActiveTab(strip, LAMBDA t : [t EXCEPT !.connection = first])
           /\ adrift' = (adrift \/ c = Null) /\ UNCHANGED <<connId, data, tables, loads>>
  <2>1. StripTyped'
    <3>1. CASE c # Null
      BY <1>1, <1>7, <3>1 DEF StripTyped
    <3>2. CASE c = Null
      <4> DEFINE r == [Active EXCEPT !.connection = first]
      <4>1. strip' = Rewritten(strip, r)
        <5> HIDE DEF first
        <5>1. UpdateActiveTab(strip, LAMBDA t : [t EXCEPT !.connection = first]) = Rewritten(strip, r)
          BY DEF UpdateActiveTab, UpdateTab, OpenTabs, Rewritten, Active
        <5> QED BY <1>7, <3>2, <5>1
      <4>3. r \in TabRecords
        <5>1. first \in Conns
          <6>1. \E x \in fresh : TRUE
            OBVIOUS
          <6>2. first \in fresh
            BY <6>1
          <6> QED BY <6>2
        <5> HIDE DEF first
        <5> QED BY <1>2, <5>1 DEF TabRecords
      <4> HIDE DEF r
      <4>4. WellTyped(strip', TabRecords) /\ OpenTabs(strip') = OpenTabs(strip)
        BY <1>2, <4>1, <4>3, RewriteActive
      <4> QED BY <1>1, <4>4 DEF StripTyped
    <3> QED BY <3>1, <3>2
  <2>2. TreeTyped' /\ LoadsTyped'
    BY <1>3, <1>4, <1>7 DEF TreeTyped, LoadsTyped
  <2>3. Settled'
    <3> SUFFICES ASSUME ~raced', ~adrift' PROVE Settled'
      BY DEF Settled
    <3>1. ~raced /\ ~adrift /\ strip' = strip
      BY <1>5, <1>7
    <3> QED BY <1>1, <1>7, <3>1 DEF Settled, Fresh, Active
  <2>4. OneLoad' /\ SchemaLoadingExplained'
    BY <1>5, <1>7 DEF OneLoad, SchemaLoadingExplained, Fresh
  <2>5. Forgotten'
    BY <1>1, <1>3, <1>5, <1>7 DEF Forgotten, Fresh
  <2>6. Bounded'
    <3>1. Len(m) \in Nat /\ Len(cache) \in Nat /\ CacheLimit \in Nat
      BY <1>3, CacheKept, SchemaBrowserAssumption, LenProperties
    <3> HIDE DEF m
    <3> QED BY <1>3, <1>5, <1>7, <3>1 DEF Bounded, Fresh, Fetching
  <2> QED BY <1>4, <2>1, <2>2, <2>3, <2>4, <2>5, <2>6
<1> QED
  <2> HIDE DEF m, d, SchemaInv
  <2> QED BY <1>1, <1>6, <1>7 DEF ListReloaded, d

-----------------------------------------------------------------------------
(* The connection of a tab changes behind the tree's back.                 *)

LEMMA SwapStep ==
  ASSUME SchemaInv, NEW c \in Conns, SwapConnection(c)
  PROVE  SchemaInv'
<1> USE DEF SchemaInv
<1> DEFINE r == [Active EXCEPT !.connection = c]
<1>1. adrift' = TRUE /\ UNCHANGED <<made, connId, data, tables, cache, listed, loads, dropping, gone, acked, raced>>
  BY DEF SwapConnection
<1>2. strip' = Rewritten(strip, r)
  BY DEF SwapConnection, UpdateActiveTab, UpdateTab, OpenTabs, Rewritten, Active
<1>3. r \in TabRecords /\ WellTyped(strip, TabRecords)
  BY DEF TabRecords, StripTyped, WellTyped, StripOK, Active
<1> HIDE DEF r
<1>4. WellTyped(strip', TabRecords) /\ OpenTabs(strip') = OpenTabs(strip)
  BY <1>2, <1>3, RewriteActive
<1>5. StripTyped' /\ TreeTyped' /\ LoadsTyped' /\ DropTyped'
  BY <1>1, <1>4 DEF StripTyped, TreeTyped, LoadsTyped, DropTyped
<1>6. Settled' /\ OneLoad' /\ SchemaLoadingExplained' /\ Forgotten' /\ Bounded'
  BY <1>1 DEF Settled, OneLoad, SchemaLoadingExplained, Forgotten, Bounded, Fresh
<1> QED BY <1>5, <1>6

LEMMA ForgetStep ==
  ASSUME SchemaInv, NEW c \in Conns, ForgetConnection(c)
  PROVE  SchemaInv'
<1> USE DEF SchemaInv
<1> DEFINE g == [t \in OpenTabs(strip) |->
      IF strip.tab[t].connection = c THEN [strip.tab[t] EXCEPT !.connection = Null] ELSE strip.tab[t]]
<1>1. /\ adrift' = (adrift \/ Active.connection = c)
      /\ UNCHANGED <<made, connId, data, tables, cache, listed, loads, dropping, gone, acked, raced>>
  BY DEF ForgetConnection
<1>2. WellTyped(strip, TabRecords) /\ strip.tab \in [OpenTabs(strip) -> TabRecords] /\ strip.active \in OpenTabs(strip)
  BY DEF StripTyped, WellTyped, StripOK
<1>3. g \in [OpenTabs(strip) -> TabRecords]
  <2>1. \A r \in TabRecords : [r EXCEPT !.connection = Null] \in TabRecords
    BY DEF TabRecords
  <2> QED BY <1>2, <2>1
<1>4. strip' = [strip EXCEPT !.tab = g]
  BY DEF ForgetConnection, ClearConnection, OpenTabs
<1>5. Active.connection # c => g[strip.active] = Active
  BY <1>2 DEF Active
<1> HIDE DEF g
<1>6. /\ WellTyped(strip', TabRecords) /\ OpenTabs(strip') = OpenTabs(strip)
      /\ strip'.active = strip.active /\ strip'.tab = g
  BY <1>2, <1>3, <1>4, Retab
<1>7. StripTyped' /\ TreeTyped' /\ LoadsTyped' /\ DropTyped'
  BY <1>1, <1>6 DEF StripTyped, TreeTyped, LoadsTyped, DropTyped
<1>8. Settled'
  BY <1>1, <1>5, <1>6 DEF Settled, Fresh, Active
<1>9. OneLoad' /\ SchemaLoadingExplained' /\ Forgotten' /\ Bounded'
  BY <1>1 DEF OneLoad, SchemaLoadingExplained, Forgotten, Bounded, Fresh
<1> QED BY <1>7, <1>8, <1>9

LEMMA ToggleStep ==
  ASSUME SchemaInv, ToggleTable
  PROVE  SchemaInv'
<1> USE DEF SchemaInv
<1> DEFINE c == data.schema.conn
<1>1. /\ UNCHANGED <<strip, made, connId, data, cache, listed, loads, dropping, gone, acked, raced, adrift>>
      /\ tables' \in {tables \ {c}, tables \cup {c}} /\ data.schema # Null
  BY DEF ToggleTable
<1>2. c \in Conns
  BY <1>1 DEF LoadsTyped, Displays, Schemas
<1>3. StripTyped' /\ TreeTyped' /\ LoadsTyped' /\ DropTyped'
  BY <1>1, <1>2 DEF StripTyped, TreeTyped, LoadsTyped, DropTyped
<1>4. Settled'
  BY <1>1 DEF Settled, Fresh, Active
<1>5. OneLoad' /\ SchemaLoadingExplained' /\ Forgotten' /\ Bounded'
  BY <1>1 DEF OneLoad, SchemaLoadingExplained, Forgotten, Bounded, Fresh
<1> QED BY <1>3, <1>4, <1>5

-----------------------------------------------------------------------------
(* Dropping an object.                                                     *)

\* Up to the answer, the drop concerns no other part of the state.
LEMMA DropStep ==
  ASSUME SchemaInv, RequestDrop \/ CancelDrop \/ ConfirmDrop \/ DropExecuted \/ DropFailed
  PROVE  SchemaInv'
<1> USE DEF SchemaInv
<1>1. UNCHANGED <<strip, made, connId, data, tables, cache, listed, loads, acked, raced, adrift>>
  BY DEF RequestDrop, CancelDrop, ConfirmDrop, DropExecuted, DropFailed
<1>2. Active \in TabRecords
  BY DEF StripTyped, WellTyped, StripOK, Active
<1>3. StripTyped' /\ TreeTyped' /\ LoadsTyped'
  BY <1>1 DEF StripTyped, TreeTyped, LoadsTyped
<1>4. OneLoad' /\ SchemaLoadingExplained' /\ Forgotten' /\ Bounded'
  BY <1>1 DEF OneLoad, SchemaLoadingExplained, Forgotten, Bounded, Fresh
<1>5. /\ DropTyped'
      /\ dropping'.pc \in Pending =>
           \/ dropping'.conn = Active.connection
           \/ dropping.pc \in Pending /\ dropping'.conn = dropping.conn
  <2>1. CASE RequestDrop
    <3>1. dropping' = [pc |-> "asked", conn |-> Active.connection, db |-> Null, shown |-> Null]
      BY <2>1 DEF RequestDrop, NoDrop
    <3>2. Active.connection \in Conns /\ gone' = gone
      BY <1>2, <2>1 DEF RequestDrop, TabRecords
    <3>3. dropping' \in Drops /\ dropping'.pc = "asked" /\ dropping'.conn = Active.connection
      BY <3>1, <3>2 DEF Drops
    <3> QED BY <1>1, <3>2, <3>3 DEF DropTyped
  <2>2. CASE CancelDrop
    <3>1. dropping' = [pc |-> "closed", conn |-> Null, db |-> Null, shown |-> Null] /\ gone' = gone
      BY <2>2 DEF CancelDrop, NoDrop
    <3> QED BY <1>1, <3>1 DEF DropTyped, Drops, Pending
  <2>3. CASE ConfirmDrop
    <3>1. PICK db : /\ db = IF Active.activeDatabase = Null THEN DefaultDb[dropping.conn] ELSE Active.activeDatabase
                    /\ dropping' = [pc |-> "sent", conn |-> dropping.conn, shown |-> data.schema, db |-> db]
      BY <2>3 DEF ConfirmDrop
    <3>2. dropping.conn \in Conns /\ dropping.pc \in Pending /\ gone' = gone
      BY <2>3 DEF ConfirmDrop, DropTyped, Pending
    <3>3. db \in AllDatabases /\ data.schema \in Schemas \cup {Null}
      BY <1>2, <3>1, <3>2, DefaultTyped DEF TabRecords, LoadsTyped, Displays
    <3> QED BY <1>1, <3>1, <3>2, <3>3 DEF DropTyped, Drops
  <2>4. CASE DropExecuted
    <3>1. /\ dropping.pc = "sent" /\ dropping' = [dropping EXCEPT !.pc = "executed"]
          /\ gone' = gone \cup {<<dropping.conn, dropping.db>>}
      BY <2>4 DEF DropExecuted
    <3>2. dropping.conn \in Conns /\ dropping.db \in AllDatabases /\ dropping.pc \in Pending
      BY <3>1 DEF DropTyped, Pending
    <3>3. dropping' \in Drops /\ dropping'.pc = "executed" /\ dropping'.conn = dropping.conn /\ dropping'.db = dropping.db
      BY <3>1 DEF DropTyped, Drops
    <3> QED BY <1>1, <3>1, <3>2, <3>3 DEF DropTyped
  <2>5. CASE DropFailed
    <3>1. dropping' = [pc |-> "failed", conn |-> Null, db |-> Null, shown |-> Null] /\ gone' = gone
      BY <2>5 DEF DropFailed, NoDrop
    <3> QED BY <1>1, <3>1 DEF DropTyped, Drops, Pending
  <2> QED BY <2>1, <2>2, <2>3, <2>4, <2>5
<1>6. Settled'
  BY <1>1, <1>5 DEF Settled, Fresh, Active
<1> QED BY <1>3, <1>4, <1>5, <1>6

\* The answer: the connection is purged, so that nothing lists what was dropped.
LEMMA DropDoneStep ==
  ASSUME SchemaInv, NEW k \in Loads, DropDone(k)
  PROVE  SchemaInv'
<1> USE DEF SchemaInv
<1> DEFINE c == dropping.conn
           db == IF Active.activeDatabase = Null THEN DefaultDb[c] ELSE Active.activeDatabase
           d == SetSchema(data, Null)
           m == Only(cache, {s \in Schemas : s.conn \notin {c}})
<1>1. /\ UNCHANGED <<strip, made, listed, gone, adrift>> /\ connId' = Null /\ tables' = {}
      /\ raced' = (raced \/ Loading) /\ acked' = acked \cup {<<c, dropping.db>>}
      /\ dropping.pc = "executed" /\ Fresh(k) /\ LoadSchema(k, c, db, d, m)
      /\ dropping' = [pc |-> "dropped", conn |-> Null, db |-> Null, shown |-> Null]
  BY DEF DropDone, Purged, NoDrop
<1>2. Active \in TabRecords /\ dropping.pc \in Pending
  BY <1>1 DEF StripTyped, WellTyped, StripOK, Active, Pending
<1>3. c \in Conns /\ db \in AllDatabases /\ <<c, dropping.db>> \in gone
  BY <1>1, <1>2, DefaultTyped DEF DropTyped, TabRecords
<1>4. /\ CacheOK(m) /\ m \in Seq(Schemas) /\ Len(m) <= Len(cache)
      /\ \A i \in 1..Len(m) : m[i] \in {s \in Schemas : s.conn \notin {c}}
      /\ ~raced => \A i \in 1..Len(m) : m[i].lists => <<m[i].conn, m[i].db>> \notin acked
  BY CacheFiltered
<1>5. ~raced => \A i \in 1..Len(m) : m[i].lists => <<m[i].conn, m[i].db>> \notin acked'
  <2>1. \A i \in 1..Len(m) : m[i].conn # c
    BY <1>4
  <2> HIDE DEF c, m
  <2> QED BY <1>1, <1>4, <2>1
<1>6. StripTyped' /\ TreeTyped'
  BY <1>1 DEF StripTyped, TreeTyped
<1>7. DropTyped'
  BY <1>1, <1>3 DEF DropTyped, Drops, Pending
<1>8. Begun(k, c, d, m)
  <2> HIDE DEF c, m, db
  <2> QED BY <1>1, <1>3, <1>4, CacheKept, Cleared, SchemaBegun
<1>9. ~raced' => ~raced /\ (\A j \in Loads : Fresh(j)) /\ dropping'.pc \notin Pending
  BY <1>1 DEF TreeTyped, Loading, Pending
<1>10. ~raced /\ ~adrift => c = Active'.connection
  BY <1>1, <1>2 DEF Settled, Active
<1>11. d.schema = Null /\ d.schemaLoading = data.schemaLoading /\ d.databasesLoading = data.databasesLoading
  BY Cleared, CacheKept
<1> HIDE DEF d, m, c, db, SchemaInv
<1> QED BY <1>1, <1>3, <1>4, <1>5, <1>6, <1>7, <1>8, <1>9, <1>10, <1>11, LoadStep DEF Fresh

-----------------------------------------------------------------------------
(* After an await.                                                         *)

\* What the load's own steps start from.
LEMMA LoadInFlight ==
  ASSUME SchemaInv, NEW k \in Loads, ~Fresh(k)
  PROVE  /\ loads[k].conn \in Conns /\ loads[k].db \in AllDatabases /\ LoadOK(loads[k])
         /\ ~raced => \A j \in Loads \ {k} : Fresh(j)
         /\ ~raced /\ ~adrift => loads[k].conn = Active.connection
  BY DEF SchemaInv, LoadsTyped, LoadOK, Fresh, OneLoad, Settled

LEMMA ListArrivedStep ==
  ASSUME SchemaInv, NEW k \in Loads, ListArrived(k)
  PROVE  SchemaInv'
<1> USE DEF SchemaInv
<1> DEFINE c == loads[k].conn
           db == loads[k].db
           d == [data EXCEPT !.databases = c, !.databasesLoading = FALSE]
<1>1. /\ UNCHANGED <<strip, made, connId, tables, dropping, gone, acked, raced, adrift>>
      /\ loads[k].pc = "list" /\ ~Fresh(k) /\ listed' \in {listed, listed \cup {c}}
      /\ LoadSchema(k, c, db, d, cache)
  BY DEF ListArrived, Fresh
<1>2. /\ c \in Conns /\ db \in AllDatabases
      /\ ~raced => \A j \in Loads \ {k} : Fresh(j)
      /\ ~raced /\ ~adrift => c = Active.connection
  BY <1>1, LoadInFlight
<1>3. /\ d \in Displays /\ d.schema = data.schema /\ d.schemaLoading = data.schemaLoading
      /\ d.databasesLoading = FALSE
  <2>1. data \in Displays
    BY DEF LoadsTyped
  <2> HIDE DEF c
  <2> QED BY <1>2, <2>1 DEF Displays
<1>4. StripTyped' /\ TreeTyped' /\ DropTyped'
  BY <1>1, <1>2 DEF StripTyped, TreeTyped, DropTyped
<1>5. Begun(k, c, d, cache)
  <2> HIDE DEF c, d, db
  <2> QED BY <1>1, <1>2, <1>3, CacheKept, SchemaBegun
<1>6. ~raced /\ ~adrift =>
        /\ c = Active'.connection /\ connId \in {Null, c} /\ tables \subseteq {c}
        /\ data.schema # Null => data.schema.conn = c
        /\ dropping.pc \in Pending => dropping.conn = c
  BY <1>1, <1>2 DEF Settled, Active
<1> HIDE DEF c, d, db, SchemaInv
<1> QED BY <1>1, <1>2, <1>3, <1>4, <1>5, <1>6, CacheKept, LoadStep

\* The load goes on or ends without an answer.
LEMMA WaitStep ==
  ASSUME SchemaInv, NEW k \in Loads, TunnelReady(k) \/ CatalogueRead(k)
  PROVE  SchemaInv'
<1> USE DEF SchemaInv
<1>1. UNCHANGED <<strip, made, connId, data, tables, cache, listed, dropping, gone, acked, raced, adrift>>
  BY DEF TunnelReady, CatalogueRead
<1>2. loads[k].pc \in Fetching /\ ~Fresh(k)
  BY DEF TunnelReady, CatalogueRead, Fetching, Fresh
<1>3. /\ loads[k].conn \in Conns /\ loads[k].db \in AllDatabases /\ loads[k] \in LoadStates
      /\ loads \in [Loads -> LoadStates]
  BY <1>2, LoadInFlight DEF LoadOK, LoadsTyped
<1>4. PICK l : /\ loads' = [loads EXCEPT ![k] = l] /\ LoadOK(l) /\ l.pc \in {"fetch", "answer"}
               /\ l.conn = loads[k].conn
               /\ l.pc = "answer" /\ l.answer.lists => <<l.answer.conn, l.answer.db>> \notin gone
  <2>1. CASE TunnelReady(k)
    <3> DEFINE l == [loads[k] EXCEPT !.pc = "fetch"]
    <3>1. loads' = [loads EXCEPT ![k] = l]
      BY <1>3, <2>1 DEF TunnelReady
    <3>2. l \in LoadStates /\ l.pc = "fetch" /\ l.conn = loads[k].conn /\ l.db = loads[k].db
      BY <1>3 DEF LoadStates
    <3> HIDE DEF l
    <3> QED BY <1>3, <3>1, <3>2 DEF LoadOK
  <2>2. CASE CatalogueRead(k)
    <3>1. PICK err \in BOOLEAN :
            loads' = [loads EXCEPT ![k].pc = "answer",
              ![k].answer = [conn |-> loads[k].conn, db |-> loads[k].db, error |-> err,
                             lists |-> ~err /\ <<loads[k].conn, loads[k].db>> \notin gone]]
      BY <2>2 DEF CatalogueRead
    <3> DEFINE a == [conn |-> loads[k].conn, db |-> loads[k].db, error |-> err,
                     lists |-> ~err /\ <<loads[k].conn, loads[k].db>> \notin gone]
               l == [loads[k] EXCEPT !.pc = "answer", !.answer = a]
    <3>2. /\ a \in Schemas /\ a.conn = loads[k].conn /\ a.db = loads[k].db
          /\ a.lists => <<a.conn, a.db>> \notin gone
      BY <1>3 DEF Schemas
    <3> HIDE DEF a
    <3>3. loads' = [loads EXCEPT ![k] = l]
      BY <1>3, <3>1 DEF a
    <3>4. l \in LoadStates /\ l.pc = "answer" /\ l.conn = loads[k].conn /\ l.db = loads[k].db /\ l.answer = a
      BY <1>3, <3>2 DEF LoadStates
    <3> HIDE DEF l
    <3> QED BY <1>3, <3>2, <3>3, <3>4 DEF LoadOK
  <2> QED BY <2>1, <2>2
<1>5. /\ loads' \in [Loads -> LoadStates] /\ \A j \in Loads : LoadOK(loads'[j])
      /\ loads'[k] = l /\ \A j \in Loads \ {k} : loads'[j] = loads[j]
  BY <1>3, <1>4 DEF LoadOK, LoadsTyped
<1>6. StripTyped' /\ TreeTyped' /\ LoadsTyped' /\ DropTyped'
  BY <1>1, <1>5 DEF StripTyped, TreeTyped, LoadsTyped, DropTyped
<1>7. OneLoad' /\ Settled'
  BY <1>1, <1>2, <1>4, <1>5 DEF OneLoad, Settled, Fresh, Active
<1>8. Forgotten'
  BY <1>1, <1>4, <1>5 DEF Forgotten, DropTyped
<1>9. Bounded'
  BY <1>1, <1>2, <1>5 DEF Bounded
<1>10. SchemaLoadingExplained'
  <2>1. data'.schemaLoading => \E j \in Loads : loads'[j].pc \in Fetching
    BY <1>4, <1>5 DEF Fetching
  <2>2. data'.databasesLoading => \E j \in Loads : loads'[j].pc = "list"
    <3>1. loads[k].pc # "list"
      BY <1>2 DEF Fetching
    <3> QED BY <1>1, <1>5, <3>1 DEF SchemaLoadingExplained
  <2> QED BY <2>1, <2>2 DEF SchemaLoadingExplained, Fetching
<1> QED BY <1>6, <1>7, <1>8, <1>9, <1>10

\* A load ends: what it shows is of its connection, what it caches lists nothing
\* that was dropped, and it had been given room for it.
LEMMA LoadEndStep ==
  ASSUME SchemaInv, NEW k \in Loads, TunnelRefused(k) \/ SchemaArrived(k) \/ SchemaThrew(k)
  PROVE  SchemaInv'
<1> USE DEF SchemaInv
<1>1. UNCHANGED <<strip, made, connId, tables, listed, dropping, gone, acked, raced, adrift>> /\ loads' = Ended(k)
  BY DEF TunnelRefused, SchemaArrived, SchemaThrew
<1>2. loads[k].pc \in Fetching /\ ~Fresh(k)
  BY DEF TunnelRefused, SchemaArrived, SchemaThrew, Fetching, Fresh
<1>3. /\ loads[k].conn \in Conns /\ loads[k].db \in AllDatabases /\ LoadOK(loads[k])
      /\ ~raced => \A j \in Loads \ {k} : Fresh(j)
      /\ ~raced /\ ~adrift => loads[k].conn = Active.connection
  BY <1>2, LoadInFlight
<1>4. PICK s \in Schemas \cup {Null} :
        /\ data' \in Displays /\ data'.schema = s /\ data'.schemaLoading = FALSE
        /\ data'.databasesLoading = data.databasesLoading
        /\ s = data.schema \/ (s \in Schemas /\ s.conn = loads[k].conn)
        /\ cache' = cache \/ (s = loads[k].answer /\ loads[k].pc = "answer" /\ cache' = Put(s))
  <2>1. ASSUME NEW s \in Schemas \cup {Null}
        PROVE  /\ LoadEnd(SetSchema(data, s)) \in Displays /\ LoadEnd(SetSchema(data, s)).schema = s
               /\ LoadEnd(SetSchema(data, s)).schemaLoading = FALSE
               /\ LoadEnd(SetSchema(data, s)).databasesLoading = data.databasesLoading
    <3> DEFINE d == SetSchema(data, s)
    <3>1. d \in Displays /\ d.schema = s /\ d.databasesLoading = data.databasesLoading
      BY DEF SetSchema, LoadsTyped, Displays
    <3> HIDE DEF d
    <3>2. /\ LoadEnd(d) \in Displays /\ LoadEnd(d).schema = d.schema
          /\ LoadEnd(d).schemaLoading = FALSE /\ LoadEnd(d).databasesLoading = d.databasesLoading
      BY <3>1 DEF LoadEnd, Displays
    <3> QED BY <3>1, <3>2 DEF d
  <2>2. CASE TunnelRefused(k)
    <3> DEFINE s == [conn |-> loads[k].conn, db |-> loads[k].db, lists |-> FALSE, error |-> TRUE]
    <3>1. s \in Schemas /\ s.conn = loads[k].conn
      BY <1>3 DEF Schemas
    <3>2. data' = LoadEnd(SetSchema(data, s)) /\ cache' = cache
      BY <2>2 DEF TunnelRefused
    <3> HIDE DEF s
    <3> QED BY <2>1, <3>1, <3>2
  <2>3. CASE SchemaArrived(k)
    <3>1. loads[k].answer \in Schemas /\ loads[k].answer.conn = loads[k].conn
      BY <1>3, <2>3 DEF SchemaArrived, LoadOK
    <3>2. /\ data' = LoadEnd(SetSchema(data, loads[k].answer)) /\ cache' = Put(loads[k].answer)
          /\ loads[k].pc = "answer"
      BY <2>3 DEF SchemaArrived
    <3> QED BY <2>1, <3>1, <3>2
  <2>4. CASE SchemaThrew(k)
    <3>1. data' = LoadEnd(data) /\ cache' = cache
      BY <2>4 DEF SchemaThrew
    <3>2. /\ LoadEnd(data) \in Displays /\ LoadEnd(data).schema = data.schema
          /\ LoadEnd(data).schemaLoading = FALSE
          /\ LoadEnd(data).databasesLoading = data.databasesLoading
      BY DEF LoadEnd, LoadsTyped, Displays
    <3>3. data.schema \in Schemas \cup {Null}
      BY DEF LoadsTyped, Displays
    <3> QED BY <3>1, <3>2, <3>3
  <2> QED BY <2>2, <2>3, <2>4
<1>5. /\ loads' \in [Loads -> LoadStates] /\ \A j \in Loads : LoadOK(loads'[j])
      /\ \A j \in Loads \ {k} : loads'[j] = loads[j]
      /\ loads'[k].pc = "idle"
  BY <1>1, EndedTyped DEF LoadsTyped
<1>6. ~raced => \A j \in Loads : loads'[j].pc = "idle"
  BY <1>3, <1>5 DEF Fresh
<1>7. /\ CacheOK(cache') /\ Len(cache') <= Len(cache) + 1
      /\ \A i \in 1..Len(cache') :
           \/ \E j \in 1..Len(cache) : cache'[i] = cache[j]
           \/ loads[k].pc = "answer" /\ cache'[i] = loads[k].answer
  <2>1. CacheOK(cache) /\ Len(cache) \in Nat
    BY CacheKept, LenProperties
  <2>2. CASE cache' = cache
    BY <2>1, <2>2
  <2>3. CASE s = loads[k].answer /\ loads[k].pc = "answer" /\ cache' = Put(s)
    <3>1. s \in Schemas
      BY <1>3, <2>3 DEF LoadOK
    <3> QED BY <2>1, <2>3, <3>1, PutOK
  <2> QED BY <1>4, <2>2, <2>3
<1>8. StripTyped' /\ TreeTyped' /\ LoadsTyped' /\ DropTyped'
  BY <1>1, <1>4, <1>5, <1>7 DEF StripTyped, TreeTyped, LoadsTyped, DropTyped
<1>9. OneLoad'
  BY <1>1, <1>6 DEF OneLoad, Fresh
<1>10. Settled'
  BY <1>1, <1>3, <1>4, <1>6 DEF Settled, Fresh, Active
<1>11. SchemaLoadingExplained'
  <2>1. loads[k].pc # "list"
    BY <1>2 DEF Fetching
  <2>2. data'.databasesLoading => \E j \in Loads : loads'[j].pc = "list"
    BY <1>4, <1>5, <2>1 DEF SchemaLoadingExplained
  <2> QED BY <1>4, <2>2 DEF SchemaLoadingExplained
<1>12. Forgotten'
  BY <1>1, <1>6, <1>7 DEF Forgotten
<1>13. Bounded'
  <2>1. Len(cache) \in Nat /\ Len(cache') \in Nat /\ CacheLimit \in Nat
    BY <1>7, CacheKept, SchemaBrowserAssumption, LenProperties DEF CacheOK
  <2>2. ~raced => Len(cache) < CacheLimit
    BY <1>2 DEF Bounded
  <2>3. ~raced => Len(cache') <= CacheLimit
    BY <1>7, <2>1, <2>2
  <2> QED BY <1>1, <1>6, <2>3 DEF Bounded, Fetching
<1> QED BY <1>8, <1>9, <1>10, <1>11, <1>12, <1>13

-----------------------------------------------------------------------------
(* The theorems.                                                           *)

LEMMA SchemaInitially == SchemaInit => SchemaInv
<1> SUFFICES ASSUME SchemaInit PROVE SchemaInv
  OBVIOUS
<1>1. strip = [order |-> <<FirstTab>>, active |-> FirstTab, tab |-> [t \in {FirstTab} |-> BlankTab(Null, Null)]]
  BY DEF SchemaInit, InitTabs
<1>2. StripTyped
  <2>1. BlankTab(Null, Null) \in TabRecords
    BY DEF BlankTab, TabRecords
  <2>2. /\ strip.order = <<FirstTab>> /\ strip.active = FirstTab /\ strip.tab \in [{FirstTab} -> TabRecords]
    BY <1>1, <2>1
  <2>3. OpenTabs(strip) = {FirstTab}
    BY <2>2 DEF OpenTabs
  <2>4. <<FirstTab>> \in Seq(TabIds) /\ Len(<<FirstTab>>) = 1 /\ {<<FirstTab>>[i] : i \in 1..1} = {FirstTab}
    BY TabsAssumption
  <2>5. StripOK(strip)
    BY <1>1, <2>2, <2>3, <2>4 DEF StripOK
  <2> QED BY <2>2, <2>3, <2>5, TabsAssumption DEF StripTyped, WellTyped, SchemaInit
<1>3. TreeTyped
  BY DEF SchemaInit, TreeTyped
<1>4. \A k \in Loads : loads[k] = NoLoad
  BY DEF SchemaInit
<1>5. NoLoad.pc = "idle" /\ NoLoad \in LoadStates /\ LoadOK(NoLoad)
  BY NullLoad DEF NoLoad, LoadStates
<1>6. cache \in Seq(Schemas) /\ Len(cache) = 0
  BY DEF SchemaInit
<1>7. LoadsTyped
  <2>1. data \in Displays
    BY DEF SchemaInit, Displays
  <2>2. CacheOK(cache)
    BY <1>6 DEF CacheOK
  <2>3. loads \in [Loads -> LoadStates]
    BY <1>5 DEF SchemaInit
  <2> QED BY <1>4, <1>5, <2>1, <2>2, <2>3 DEF LoadsTyped
<1>8. dropping.pc = "closed" /\ DropTyped
  BY DEF SchemaInit, NoDrop, DropTyped, Drops, Pending
<1>9. Settled
  BY <1>4, <1>5, <1>8 DEF SchemaInit, Settled, Fresh, Pending
<1>10. OneLoad /\ Forgotten /\ SchemaLoadingExplained
  BY <1>4, <1>5, <1>6 DEF SchemaInit, OneLoad, Forgotten, SchemaLoadingExplained, Fresh
<1>11. Bounded
  BY <1>4, <1>5, <1>6, SchemaBrowserAssumption DEF Bounded, Fetching
<1> QED BY <1>2, <1>3, <1>7, <1>8, <1>9, <1>10, <1>11 DEF SchemaInv

LEMMA SchemaStep == SchemaInv /\ [SchemaNext]_schemaVars => SchemaInv'
<1> SUFFICES ASSUME SchemaInv, [SchemaNext]_schemaVars PROVE SchemaInv'
  OBVIOUS
<1>1. ASSUME NEW k \in Loads, Continue(k) \/ Refresh(k) \/ DropDone(k)
      PROVE  SchemaInv'
  BY <1>1, ListArrivedStep, WaitStep, LoadEndStep, RefreshStep, DropDoneStep DEF Continue
<1>2. ASSUME NEW k \in Loads, NEW c \in Conns, PickConnection(k, c)
      PROVE  SchemaInv'
  BY <1>2, PickConnectionStep
<1>3. ASSUME NEW k \in Loads, NEW db \in AllDatabases, PickDatabase(k, db)
      PROVE  SchemaInv'
  BY <1>3, PickDatabaseStep
<1>4. ASSUME NEW k \in Loads, NEW t \in TabIds, GoToTab(k, t) \/ ShutTab(k, t)
      PROVE  SchemaInv'
  BY <1>4, GoToStep, ShutStep
<1>5. ASSUME NEW k \in Loads, NEW t \in TabIds, NEW c \in Conns \cup {Null}, NewTabOn(k, t, c)
      PROVE  SchemaInv'
  BY <1>5, NewTabStep
<1>6. ASSUME NEW k \in Loads, NEW fresh \in (SUBSET Conns) \ {{}}, ListReloaded(k, fresh)
      PROVE  SchemaInv'
  BY <1>6, ReloadStep
<1>7. ASSUME NEW c \in Conns, SwapConnection(c) \/ ForgetConnection(c)
      PROVE  SchemaInv'
  BY <1>7, SwapStep, ForgetStep
<1>8. CASE ToggleTable
  BY <1>8, ToggleStep
<1>9. CASE RequestDrop \/ CancelDrop \/ ConfirmDrop \/ DropExecuted \/ DropFailed
  BY <1>9, DropStep
<1>10. CASE UNCHANGED schemaVars
  <2>1. StripTyped' /\ TreeTyped' /\ LoadsTyped' /\ DropTyped'
    BY <1>10 DEF schemaVars, SchemaInv, StripTyped, TreeTyped, LoadsTyped, DropTyped
  <2>2. OneLoad' /\ Settled' /\ SchemaLoadingExplained' /\ Forgotten' /\ Bounded'
    BY <1>10 DEF schemaVars, SchemaInv, OneLoad, Settled, SchemaLoadingExplained, Forgotten, Bounded, Fresh, Active
  <2> QED BY <2>1, <2>2 DEF SchemaInv
<1> QED BY <1>1, <1>2, <1>3, <1>4, <1>5, <1>6, <1>7, <1>8, <1>9, <1>10 DEF SchemaNext

LEMMA SchemaInductive == SchemaSpec => []SchemaInv
  BY SchemaInitially, SchemaStep, PTL DEF SchemaSpec

\* The state keeps its shape, and a database is in the cache once: an answer
\* takes the place of the one before it.
THEOREM SchemaTypeCorrect == SchemaSpec => []SchemaTypeOK
<1>1. SchemaInv => SchemaTypeOK
  <2> SUFFICES ASSUME SchemaInv PROVE SchemaTypeOK
    OBVIOUS
  <2>1. /\ StripOK(strip) /\ strip.tab \in [OpenTabs(strip) -> TabRecords]
        /\ connId \in Conns \cup {Null} /\ tables \subseteq Conns /\ listed \subseteq Conns
    BY DEF SchemaInv, StripTyped, TreeTyped, WellTyped
  <2>2. Keys = 1..Len(cache) /\ cache \in Seq(Schemas) /\ CacheOK(cache)
    BY LenProperties DEF SchemaInv, LoadsTyped, CacheOK, Keys
  <2>3. \A i \in Keys : cache[i] \in Schemas
    BY <2>2
  <2>4. data \in Displays
    BY DEF SchemaInv, LoadsTyped
  <2> QED BY <2>1, <2>2, <2>3, <2>4 DEF SchemaTypeOK, TabRecords, Displays, CacheOK
<1> QED BY <1>1, SchemaInductive, PTL

\* The tree shows the active tab's connection, for a user who waits for loads
\* and does not change a tab's connection in the palette.
THEOREM ShownIsActivesAlways == SchemaSpec => []ShownIsActives
<1>1. SchemaInv => ShownIsActives
  BY DEF SchemaInv, Settled, ShownIsActives
<1> QED BY <1>1, SchemaInductive, PTL

\* A flag that says "loading" is explained by a load, however loads overlap.
THEOREM LoadingExplainedAlways == SchemaSpec => []SchemaLoadingExplained
<1>1. SchemaInv => SchemaLoadingExplained
  BY DEF SchemaInv
<1> QED BY <1>1, SchemaInductive, PTL

\* What was dropped is in no cached schema of its database.
THEOREM DroppedIsForgottenAlways == SchemaSpec => []DroppedIsForgotten
<1>1. SchemaInv => DroppedIsForgotten
  <2>1. SchemaInv => Keys = 1..Len(cache)
    BY LenProperties DEF SchemaInv, LoadsTyped, CacheOK, Keys
  <2> QED BY <2>1 DEF SchemaInv, Forgotten, DroppedIsForgotten
<1> QED BY <1>1, SchemaInductive, PTL

\* The cache never grows past its limit unless loads overlap.
THEOREM CacheBoundedAlways == SchemaSpec => []CacheBounded
<1>1. SchemaInv => CacheBounded
  BY DEF SchemaInv, Bounded, CacheBounded
<1> QED BY <1>1, SchemaInductive, PTL
=============================================================================
