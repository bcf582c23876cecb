------------------------------ MODULE Activity ------------------------------
(***************************************************************************)
(* The activity panel: useActivity with its reducer, the list of running   *)
(* queries it polls every five seconds, and the killing of one of them.    *)
(*                                                                         *)
(* A poll does not wait for the one before it, no answer says which        *)
(* connection it is for, and the session to kill is addressed by its pid   *)
(* on whatever connection is active when the kill is confirmed.            *)
(*                                                                         *)
(* Data: rows are the connection whose server was asked, Null for none; an *)
(* error is "load" or "kill".  Polls are reused once answered: as many are *)
(* in flight at once as Polls has elements.                                *)
(***************************************************************************)
EXTENDS SavedConns

CONSTANT Polls

VARIABLES
  on,       \* the connection of the active tab
  visible,  \* document.visibilityState
  panel,    \* the reducer's showActivity, rows, error, loading and killPending
  polls,    \* the loads in flight: for which connection, and silent or not
  kill,     \* the kill in flight
  trust     \* history: "entered" once a connection is visited with nothing in
            \* flight, "listed" when a load was answered since and no dialog
            \* was open, else "none"

activityVars == <<on, visible, panel, polls, kill, trust>>

Settled == [conn |-> Null, silent |-> FALSE]
NoKill == [conn |-> Null, row |-> Null, trusted |-> FALSE]

ActivityInit ==
  /\ on = Null
  /\ visible = TRUE
  /\ panel = [showActivity |-> FALSE, rows |-> Null, error |-> Null, loading |-> FALSE, killPending |-> Null]
  /\ polls = [k \in Polls |-> Settled]
  /\ kill = NoKill
  /\ trust = "none"

Serves(c) == c \in Conns \ Sqlite
Free(k) == polls[k] = Settled
Quiet == kill = NoKill /\ panel.killPending = Null /\ \A k \in Polls : Free(k)

-----------------------------------------------------------------------------
(* The reducer.                                                            *)

LoadStarted(p, silent) == IF silent THEN p ELSE [p EXCEPT !.loading = TRUE]
LoadDone(p, silent)    == IF silent THEN p ELSE [p EXCEPT !.loading = FALSE]
LoadSuccess(p, c)      == [p EXCEPT !.rows = c, !.error = Null]
LoadError(p)           == [p EXCEPT !.rows = Null, !.error = "load"]
KillError(p)           == [p EXCEPT !.error = "kill"]

-----------------------------------------------------------------------------
(* load, up to its first await and after its last.                         *)

\* Without a server to ask the rows are cleared, and an error stays.
Load(k, c, silent, p) ==
  \/ Serves(c) /\ polls' = [polls EXCEPT ![k] = [conn |-> c, silent |-> silent]]
               /\ panel' = LoadStarted(p, silent)
  \/ ~Serves(c) /\ panel' = [p EXCEPT !.rows = Null] /\ UNCHANGED polls

\* Mutant of PollNow: the connection of the render before.
PollBefore(k, c, p) ==
  \/ p.showActivity /\ Serves(c) /\ visible /\ Free(k) /\ Load(k, on, TRUE, p)
  \/ ~(p.showActivity /\ Serves(c) /\ visible) /\ panel' = p /\ UNCHANGED polls

\* The effect: a poll at once, if the window is visible, and none without a server.
PollNow(k, c, p) ==
  \/ p.showActivity /\ Serves(c) /\ visible /\ Free(k) /\ Load(k, c, TRUE, p)
  \/ ~(p.showActivity /\ Serves(c) /\ visible) /\ panel' = p /\ UNCHANGED polls

Listed == trust' = IF trust = "entered" /\ panel.killPending = Null THEN "listed" ELSE trust

\* Mutant of PollAnswered: the spinner is lowered by silent loads alone.
AnsweredStillLoading(k) ==
  /\ ~Free(k)
  /\ \E p \in {LoadSuccess(panel, polls[k].conn), LoadError(panel)} :
       panel' = IF polls[k].silent THEN LoadDone(p, FALSE) ELSE p
  /\ polls' = [polls EXCEPT ![k] = Settled]
  /\ Listed
  /\ UNCHANGED <<on, visible, kill>>

\* The rows, or an error: of the tunnel, of the server, or of the call.
PollAnswered(k) ==
  /\ ~Free(k)
  /\ \E p \in {LoadSuccess(panel, polls[k].conn), LoadError(panel)} :
       panel' = LoadDone(p, polls[k].silent)
  /\ polls' = [polls EXCEPT ![k] = Settled]
  /\ Listed
  /\ UNCHANGED <<on, visible, kill>>

\* Mutant of Tick: a list that is there is not read again.
TickOnce(k) ==
  /\ panel.showActivity /\ Serves(on) /\ visible /\ Free(k)
  /\ panel.rows = Null
  /\ Load(k, on, TRUE, panel)
  /\ UNCHANGED <<on, visible, kill, trust>>

\* The interval of five seconds.
Tick(k) ==
  /\ panel.showActivity /\ Serves(on) /\ visible /\ Free(k)
  /\ Load(k, on, TRUE, panel)
  /\ UNCHANGED <<on, visible, kill, trust>>

-----------------------------------------------------------------------------
(* The user.                                                               *)

\* The active tab, or its connection, changes.
Visit(k, c) ==
  /\ c # on
  /\ on' = c
  /\ trust' = IF Quiet THEN "entered" ELSE "none"
  /\ PollNow(k, c, panel)
  /\ UNCHANGED <<visible, kill>>

TogglePanel(k) ==
  /\ PollNow(k, on, [panel EXCEPT !.showActivity = ~@])
  /\ UNCHANGED <<on, visible, kill, trust>>

ToggleVisible ==
  /\ visible' = ~visible
  /\ UNCHANGED <<on, panel, polls, kill, trust>>

RefreshRows(k) ==
  /\ panel.showActivity /\ Free(k)
  /\ Load(k, on, FALSE, panel)
  /\ UNCHANGED <<on, visible, kill, trust>>

RequestKill ==
  /\ panel.showActivity /\ panel.rows # Null
  /\ panel' = [panel EXCEPT !.killPending = panel.rows]
  /\ UNCHANGED <<on, visible, polls, kill, trust>>

CancelKill ==
  /\ panel.killPending # Null
  /\ panel' = [panel EXCEPT !.killPending = Null]
  /\ UNCHANGED <<on, visible, polls, kill, trust>>

\* The row was of the connection listed when it was picked; the kill goes to the
\* active one.  Against SQLite nothing is done.
ConfirmKill ==
  /\ panel.killPending # Null /\ kill = NoKill
  /\ kill' = IF Serves(on) THEN [conn |-> on, row |-> panel.killPending, trusted |-> trust = "listed"] ELSE kill
  /\ panel' = [panel EXCEPT !.killPending = Null]
  /\ UNCHANGED <<on, visible, polls, trust>>

\* Killed: the errors are cleared and the list of that connection reloaded.
KillAnswered(k) ==
  /\ kill # NoKill
  /\ kill' = NoKill
  /\ \/ panel' = KillError(panel) /\ UNCHANGED polls
     \/ Free(k) /\ Load(k, kill.conn, TRUE, [panel EXCEPT !.error = Null])
  /\ UNCHANGED <<on, visible, trust>>

-----------------------------------------------------------------------------

ActivityNext ==
  \/ \E k \in Polls : PollAnswered(k) \/ Tick(k) \/ TogglePanel(k) \/ RefreshRows(k) \/ KillAnswered(k)
  \/ \E k \in Polls, c \in Conns \cup {Null} : Visit(k, c)
  \/ ToggleVisible \/ RequestKill \/ CancelKill \/ ConfirmKill

\* Native calls are answered, and the interval goes off whether or not an answer
\* is outstanding: it is the bound on Polls that may hold it up.
ActivityFairness ==
  /\ WF_activityVars(\E k \in Polls : PollAnswered(k))
  /\ SF_activityVars(\E k \in Polls : Tick(k))

ActivitySpec == ActivityInit /\ [][ActivityNext]_activityVars /\ ActivityFairness

-----------------------------------------------------------------------------
(* Properties                                                              *)

ActivityTypeOK ==
  /\ on \in Conns \cup {Null} /\ visible \in BOOLEAN
  /\ panel \in [showActivity : BOOLEAN, rows : Conns \cup {Null}, error : {Null, "load", "kill"},
                loading : BOOLEAN, killPending : Conns \cup {Null}]
  /\ polls \in [Polls -> [conn : Conns \cup {Null}, silent : BOOLEAN]]

\* "Loading..." shows only while a load the user asked for is in flight, however
\* it overlaps with polls and with the reload after a kill.
ActivityLoadingExplained ==
  panel.loading => \E k \in Polls : ~Free(k) /\ ~polls[k].silent

\* A kill is addressed to the server its row was read from, once a connection
\* visited with nothing in flight has been listed; before that, and when answers
\* of two connections cross, it is not.
KillsWhereListed == kill.trusted => kill.row = kill.conn

\* However polls were delayed and reordered before, once the user stays on a
\* connection with the panel open, it ends up listing no other server's queries.
PanelCatchesUp ==
  \A c \in Conns \ Sqlite :
    <>[](panel.showActivity /\ visible /\ on = c) => <>[](panel.rows \in {Null, c})
=============================================================================
