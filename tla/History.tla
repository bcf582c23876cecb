------------------------------- MODULE History -------------------------------
(***************************************************************************)
(* The query history and its panel: data/useHistory.ts, historyReducer,    *)
(* editor/HistoryPanel.tsx, and what App does with them.                   *)
(*                                                                         *)
(* One list of entries is shown under the name of the active connection;   *)
(* loads of several connections overlap, and a run that ends loads the     *)
(* history of its own.  Nobody cancels a load.                             *)
(*                                                                         *)
(* The native side keeps to itself most of what goes wrong there, and      *)
(* answers a call that failed as one that did not.                         *)
(*                                                                         *)
(* Data: an entry is the run it records; the limit of 100 entries, what an *)
(* entry says and the purge of old ones are left out.                      *)
(***************************************************************************)
EXTENDS Integers

CONSTANTS
  HistoryConns,
  Runs,        \* each is launched once
  Reads,       \* calls of load; reused once answered
  Nobody       \* no connection

ASSUME HistoryAssumption == Nobody \notin HistoryConns

VARIABLES
  where,     \* the connection of the active tab
  history,   \* the reducer: open, entries
  recorded,  \* the entries in the database
  runs,      \* where each run is, of which connection, and the showHistory it saw
  reads,     \* the loads in flight, and their answers
  clearing,  \* the connection a clear is in flight for: <<>> if none
  crossed,   \* history: the list may be of other calls than the last
  short      \* history: the call it comes from failed, and nobody was told

historyVars == <<where, history, recorded, runs, reads, clearing, crossed, short>>

NotRun == [pc |-> "idle", conn |-> Nobody, showHistory |-> FALSE]
NoRead == [pc |-> "idle", conn |-> Nobody, entries |-> {}, short |-> FALSE]

HistoryInit ==
  /\ where = Nobody
  /\ history = [open |-> FALSE, entries |-> {}]
  /\ recorded = {}
  /\ runs = [r \in Runs |-> NotRun]
  /\ reads = [k \in Reads |-> NoRead]
  /\ clearing = <<>>
  /\ crossed = FALSE
  /\ short = FALSE

Underway == {r \in Runs : runs[r].pc \notin {"idle", "over"}}
Calm == clearing = <<>> /\ Underway = {} /\ \A k \in Reads : reads[k] = NoRead
OfConnection(c) == {r \in recorded : runs[r].conn = c}

-----------------------------------------------------------------------------
(* load.                                                                   *)

\* Mutant of LoadHistory: without a connection there is nothing to do.
LoadOrKeep(k, c, h) ==
  \/ c = Nobody /\ history' = h /\ UNCHANGED reads
  \/ /\ c # Nobody /\ reads[k] = NoRead
     /\ reads' = [reads EXCEPT ![k] = [NoRead EXCEPT !.pc = "asked", !.conn = c]]
     /\ history' = h

\* From the state h of the reducer.  Without a connection the list is emptied,
\* although its title is "All recent queries".
LoadHistory(k, c, h) ==
  \/ c = Nobody /\ history' = [h EXCEPT !.entries = {}] /\ UNCHANGED reads
  \/ /\ c # Nobody /\ reads[k] = NoRead
     /\ reads' = [reads EXCEPT ![k] = [NoRead EXCEPT !.pc = "asked", !.conn = c]]
     /\ history' = h

\* A step that fails ends the rows like the last one, and an exception is
\* answered by no entries and an error that the frontend does not look at.
AnsweredWith(read, found) ==
  [read EXCEPT !.pc = "answer", !.entries = found, !.short = (found # OfConnection(read.conn))]

HistoryRead(k) ==
  /\ reads[k].pc = "asked"
  /\ \E found \in SUBSET OfConnection(reads[k].conn) : reads' = [reads EXCEPT ![k] = AnsweredWith(@, found)]
  /\ UNCHANGED <<where, history, recorded, runs, clearing, crossed, short>>

EntriesArrived(k) ==
  /\ reads[k].pc = "answer"
  /\ history' = [history EXCEPT !.entries = reads[k].entries]
  /\ short' = reads[k].short
  /\ reads' = [reads EXCEPT ![k] = NoRead]
  /\ UNCHANGED <<where, recorded, runs, clearing, crossed>>

\* The call itself throws: no response, or none that can be parsed.  That is
\* logged, and the list stays.
LoadFailed(k) ==
  /\ reads[k].pc # "idle"
  /\ reads' = [reads EXCEPT ![k] = NoRead]
  /\ crossed' = TRUE
  /\ UNCHANGED <<where, history, recorded, runs, clearing, short>>

-----------------------------------------------------------------------------
(* The user.                                                               *)

\* The active tab or its connection changes: an open panel is loaded, also for
\* another tab of the same connection.
Move(k, c) ==
  /\ where' = c
  /\ \/ history.open /\ LoadHistory(k, c, history) /\ crossed' = ~Calm
     \/ ~history.open /\ crossed' = TRUE /\ UNCHANGED <<history, reads>>
  /\ UNCHANGED <<recorded, runs, clearing, short>>

\* The button loads what it opens; the palette does not.
HistoryButton(k) ==
  /\ \/ /\ ~history.open
        /\ LoadHistory(k, where, [history EXCEPT !.open = TRUE])
        /\ crossed' = ~Calm
     \/ /\ history.open
        /\ history' = [history EXCEPT !.open = FALSE]
        /\ crossed' = TRUE
        /\ UNCHANGED reads
  /\ UNCHANGED <<where, recorded, runs, clearing, short>>

PaletteTogglesHistory ==
  /\ history' = [history EXCEPT !.open = ~@]
  /\ crossed' = TRUE
  /\ UNCHANGED <<where, recorded, runs, reads, clearing, short>>

PickEntry ==
  /\ history.open /\ history.entries # {}
  /\ history' = [history EXCEPT !.open = FALSE]
  /\ crossed' = TRUE
  /\ UNCHANGED <<where, recorded, runs, reads, clearing, short>>

\* For the connection the panel was rendered for; none means all of them.
ClearHistory ==
  /\ history.open /\ clearing = <<>>
  /\ clearing' = <<"asked", where>>
  /\ crossed' = (crossed \/ ~Calm)
  /\ UNCHANGED <<where, history, recorded, runs, reads, short>>

\* Answered as cleared whether or not the DELETE went through, since nobody looks
\* at its result; an exception is an error, and the list stays.
HistoryCleared ==
  /\ clearing # <<>> /\ clearing[1] = "asked"
  /\ \/ /\ recorded' = IF clearing[2] = Nobody THEN {} ELSE recorded \ OfConnection(clearing[2])
        /\ clearing' = <<"cleared", clearing[2]>>
     \/ UNCHANGED recorded /\ clearing' = <<"kept", clearing[2]>>
     \/ UNCHANGED recorded /\ clearing' = <<>>
  /\ UNCHANGED <<where, history, runs, reads, crossed, short>>

EntriesCleared ==
  /\ clearing # <<>> /\ clearing[1] \in {"cleared", "kept"}
  /\ history' = [history EXCEPT !.entries = {}]
  /\ short' = (clearing[1] = "kept")
  /\ clearing' = <<>>
  /\ UNCHANGED <<where, recorded, runs, reads, crossed>>

-----------------------------------------------------------------------------
(* A run, which remembers whether the panel was open when it started.      *)

LaunchRun(r) ==
  /\ runs[r] = NotRun /\ where # Nobody
  /\ runs' = [runs EXCEPT ![r] = [pc |-> "running", conn |-> where, showHistory |-> history.open]]
  /\ crossed' = (crossed \/ ~Calm)
  /\ UNCHANGED <<where, history, recorded, reads, clearing, short>>

\* add_history_entry, which may fail; the run goes on.
SaveToHistory(r) ==
  /\ runs[r].pc = "running"
  /\ recorded' \in {recorded, recorded \cup {r}}
  /\ runs' = [runs EXCEPT ![r].pc = "saved"]
  /\ UNCHANGED <<where, history, reads, clearing, crossed, short>>

RunEnded(r, k) ==
  /\ runs[r].pc = "saved"
  /\ runs' = [runs EXCEPT ![r].pc = "over"]
  /\ \/ runs[r].showHistory /\ LoadHistory(k, runs[r].conn, history)
     \/ ~runs[r].showHistory /\ UNCHANGED <<history, reads>>
  /\ UNCHANGED <<where, recorded, clearing, crossed, short>>

-----------------------------------------------------------------------------

HistoryNext ==
  \/ \E k \in Reads :
       \/ HistoryRead(k) \/ EntriesArrived(k) \/ LoadFailed(k) \/ HistoryButton(k)
       \/ \E c \in HistoryConns \cup {Nobody} : Move(k, c)
       \/ \E r \in Runs : RunEnded(r, k)
  \/ PaletteTogglesHistory \/ PickEntry
  \/ ClearHistory \/ HistoryCleared \/ EntriesCleared
  \/ \E r \in Runs : LaunchRun(r) \/ SaveToHistory(r)

HistorySpec == HistoryInit /\ [][HistoryNext]_historyVars

-----------------------------------------------------------------------------
(* Properties                                                              *)

HistoryTypeOK ==
  /\ where \in HistoryConns \cup {Nobody}
  /\ history.entries \subseteq Runs /\ recorded \subseteq Runs

\* After the panel was opened, or followed the active tab, with no other call in
\* flight, what it shows are recorded runs of that connection, whatever fails on
\* the native side; and all of them, unless a read or a clear failed there and was
\* answered as if it had not.  Runs that end and clears that are answered later
\* leave that so.
HistoryOfActive ==
  Calm /\ ~crossed /\ history.open =>
    /\ history.entries \subseteq OfConnection(where)
    /\ ~short => history.entries = OfConnection(where)
=============================================================================
