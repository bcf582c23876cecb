------------------------------ MODULE QueryRun ------------------------------
(***************************************************************************)
(* Running queries from the tabs of the editor: App.runQuery, the tab      *)
(* strip it writes to, the tunnel it may wait for, and the timers it       *)
(* leaves behind.                                                          *)
(*                                                                         *)
(* runQuery is an async function on the single JavaScript thread: what     *)
(* runs between two awaits is one step here, and between two steps of a    *)
(* run the user may switch, close and re-point tabs or start other runs    *)
(* (Cmd+Enter and F5 do not look at the tab's loading flag), and the       *)
(* native side may answer in any order.  A run pins the id of the tab it   *)
(* was launched from; every later write is addressed to that id.           *)
(*                                                                         *)
(* Data: `results` and `error` of a tab hold the run whose answer, or      *)
(* whose message, they show, Null for [] and null.                         *)
(***************************************************************************)
EXTENDS Tabs

CONSTANTS
  Conns,         \* saved connections
  SshConns,      \* those with sshEnabled
  ExplainConns,  \* those whose engine needs a second, EXPLAIN, call in plan mode
  Runs,          \* invocations of runQuery; each element is used once
  AuditLogEnabled

ASSUME QueryRunAssumption ==
  /\ SshConns \subseteq Conns
  /\ ExplainConns \subseteq Conns
  /\ Null \notin Conns
  /\ Null \notin Runs
  /\ AuditLogEnabled \in BOOLEAN

VARIABLES
  ws,        \* the tab strip: dispatchTabs writes it
  opened,    \* tab ids handed out so far (createTab draws fresh ones)
  runs,      \* what each run captured and where it is suspended
  ports,     \* connections with an entry in tunnelPortsRef
  timers,    \* runs whose auto-clear timeout is pending
  locked,    \* the inactivity lock
  audited    \* runs whose statement append_audit_log was called for

vars == <<ws, opened, runs, ports, timers, locked, audited>>

Waiting == {"tunnel", "native", "explain"}     \* suspended, its tab loading
Settled == {"done", "stranded"}                \* returned

NewTab(conn) ==
  [connection |-> conn, file |-> FALSE, includePlan |-> FALSE,
   loading |-> FALSE, error |-> Null, results |-> Null]

IdleRun ==
  [pc |-> "idle", tab |-> FirstTab, conn |-> Null, explain |-> FALSE,
   clears |-> FALSE]

Init ==
  /\ ws = InitTabs(NewTab(Null))
  /\ opened = {FirstTab}
  /\ runs = [r \in Runs |-> IdleRun]
  /\ ports = {}
  /\ timers = {}
  /\ locked = FALSE
  /\ audited = {}

-----------------------------------------------------------------------------
(* The updates merged by the handlers.                                     *)

Started(tab)      == [tab EXCEPT !.loading = TRUE, !.error = Null, !.results = Null]
Refused(tab, r)   == [tab EXCEPT !.loading = FALSE, !.error = r]
Failed(tab, r)    == [tab EXCEPT !.loading = FALSE, !.error = r, !.results = Null]
Answered(tab, r, err) ==
  [tab EXCEPT !.loading = FALSE, !.error = err, !.results = r]
Cleared(tab)      == [tab EXCEPT !.results = Null, !.error = Null]

\* runQuery's writeTab: UPDATE_TAB addressed to the launching tab.
WriteTab(r, F(_)) == ws' = UpdateTab(ws, runs[r].tab, F)

Goto(r, pc) == runs' = [runs EXCEPT ![r].pc = pc]

\* A run that returned: nothing reads its captured connection any more.
Return(r, pc) ==
  runs' = [runs EXCEPT ![r] = [@ EXCEPT !.pc = pc, !.conn = Null, !.explain = FALSE]]

\* A run that delivered: on a connection, it still has a history to save.
Delivered(r, clears) ==
  LET pc == IF runs[r].conn = Null THEN "done" ELSE "saving" IN
  runs' = [runs EXCEPT ![r] =
    [@ EXCEPT !.pc = pc, !.conn = Null, !.explain = FALSE, !.clears = clears]]

-----------------------------------------------------------------------------
(* runQuery up to its first await.                                         *)

\* A run is launched on the active tab, with a non-empty statement.
Launchable(r) == runs[r].pc = "idle" /\ ~locked

Capture(r, pc) ==
  LET tab == ws.tab[ws.active]
      onDb == tab.connection # Null /\ ~tab.file
  IN  runs' = [runs EXCEPT ![r] =
        [pc |-> pc, tab |-> ws.active,
         conn |-> IF onDb THEN tab.connection ELSE Null,
         explain |-> onDb /\ tab.includePlan /\ tab.connection \in ExplainConns,
         clears |-> FALSE]]

\* Plan mode is on and the statement is not one that can be explained.
LaunchRefused(r) ==
  LET tab == ws.tab[ws.active] IN
  /\ Launchable(r)
  /\ tab.includePlan /\ tab.connection # Null /\ ~tab.file
  /\ ws' = UpdateActiveTab(ws, LAMBDA t : Refused(t, r))
  /\ Capture(r, "done")
  /\ UNCHANGED <<opened, ports, timers, locked, audited>>

\* Neither a connection nor a file.
LaunchUnconnected(r) ==
  LET tab == ws.tab[ws.active] IN
  /\ Launchable(r)
  /\ tab.connection = Null /\ ~tab.file
  /\ ws' = UpdateActiveTab(ws, LAMBDA t : Failed(t, r))
  /\ Capture(r, "done")
  /\ UNCHANGED <<opened, ports, timers, locked, audited>>

\* The tab is reset and the run waits for the tunnel or, when the connection
\* needs none, has one cached, or a file is queried, for the native call.
LaunchStarted(r) ==
  LET tab == ws.tab[ws.active]
      tunnelled == ~tab.file /\ tab.connection \in SshConns \ ports
  IN
  /\ Launchable(r)
  /\ tab.file \/ tab.connection # Null
  /\ ws' = UpdateActiveTab(ws, Started)
  /\ Capture(r, IF tunnelled THEN "tunnel" ELSE "native")
  /\ UNCHANGED <<opened, ports, timers, locked, audited>>

-----------------------------------------------------------------------------
(* runQuery after an await.                                                *)

TunnelOpened(r) ==
  /\ runs[r].pc = "tunnel"
  /\ ports' = ports \cup {runs[r].conn}
  /\ Goto(r, "native")
  /\ UNCHANGED <<ws, opened, timers, locked, audited>>

\* openTunnel reports on the tab that is active now and returns null, and
\* runQuery returns without another write: loading stays as it is.
TunnelFailed(r) ==
  /\ runs[r].pc = "tunnel"
  /\ ws' = UpdateActiveTab(ws, LAMBDA t : [t EXCEPT !.error = r])
  /\ Return(r, "stranded")
  /\ UNCHANGED <<opened, ports, timers, locked, audited>>

\* Mutant of NativeThrew: the catch block reports and forgets the spinner.
ThrewWithoutLowering(r) ==
  /\ runs[r].pc \in {"native", "explain"}
  /\ WriteTab(r, LAMBDA t : [t EXCEPT !.error = r])
  /\ Return(r, "done")
  /\ UNCHANGED <<opened, ports, timers, locked, audited>>

\* A rejected call, or a data answer that does not parse, which is only seen
\* once the EXPLAIN call is over.
NativeThrew(r) ==
  /\ runs[r].pc \in {"native", "explain"}
  /\ WriteTab(r, LAMBDA t : Refused(t, r))
  /\ Return(r, "done")
  /\ UNCHANGED <<opened, ports, timers, locked, audited>>

\* Mutant of DataAnswered: the data is shown before the plan has arrived.
DataShownEarly(r) ==
  /\ runs[r].pc = "native" /\ runs[r].explain
  /\ WriteTab(r, LAMBDA t : [t EXCEPT !.results = r])
  /\ Goto(r, "explain")
  /\ UNCHANGED <<opened, ports, timers, locked, audited>>

\* The data call answered; the EXPLAIN call is next, and cannot fail the run.
DataAnswered(r) ==
  /\ runs[r].pc = "native" /\ runs[r].explain
  /\ Goto(r, "explain")
  /\ UNCHANGED <<ws, opened, ports, timers, locked, audited>>

LastAnswer(r) ==
  \/ runs[r].pc = "native" /\ ~runs[r].explain
  \/ runs[r].pc = "explain"

\* The answer is a top-level error, such as a failed connection.
AnsweredInError(r) ==
  /\ LastAnswer(r)
  /\ WriteTab(r, LAMBDA t : Failed(t, r))
  /\ Return(r, "done")
  /\ UNCHANGED <<opened, ports, timers, locked, audited>>

\* Mutant of ResultsArrived: updateActiveTab in the place of writeTab.
ResultsToActiveTab(r) ==
  /\ LastAnswer(r)
  /\ ws' = UpdateActiveTab(ws, LAMBDA t : Answered(t, r, Null))
  /\ \E clears \in BOOLEAN :
       /\ timers' = IF clears THEN timers \cup {r} ELSE timers
       /\ Delivered(r, clears)
  /\ UNCHANGED <<opened, ports, locked, audited>>

\* Results, one of which may carry an error of its own.  Whether an auto-clear
\* is set depends on the settings this closure captured: `settings` is not
\* among its dependencies, so any value they had may be the one.  A run on a
\* connection goes on to save its statement to the history.
ResultsArrived(r) ==
  /\ LastAnswer(r)
  /\ \E err \in {Null, r} : WriteTab(r, LAMBDA t : Answered(t, r, err))
  /\ \E clears \in BOOLEAN :
       /\ timers' = IF clears THEN timers \cup {r} ELSE timers
       /\ Delivered(r, clears)
  /\ UNCHANGED <<opened, ports, locked, audited>>

\* The history answered, or failed unnoticed; the audit log is next.
Recorded(r) ==
  /\ runs[r].pc = "saving"
  /\ audited' = IF AuditLogEnabled THEN audited \cup {r} ELSE audited
  /\ Return(r, "done")
  /\ UNCHANGED <<ws, opened, ports, timers, locked>>

\* Mutant of AutoClear: the timer clears whatever tab is active when it fires.
ClearActiveTab(r) ==
  /\ r \in timers
  /\ ws' = UpdateActiveTab(ws, Cleared)
  /\ timers' = timers \ {r}
  /\ UNCHANGED <<opened, runs, ports, locked, audited>>

\* The timeout set with the results fires.
AutoClear(r) ==
  /\ r \in timers
  /\ WriteTab(r, Cleared)
  /\ timers' = timers \ {r}
  /\ UNCHANGED <<opened, runs, ports, locked, audited>>

-----------------------------------------------------------------------------
(* What the user and the rest of the application do meanwhile.             *)

SwitchTab(t) ==
  /\ t \in OpenTabs(ws) \ {ws.active}
  /\ ws' = SetActive(ws, t)
  /\ UNCHANGED <<opened, runs, ports, timers, locked, audited>>

\* A blank tab, or one that inherits a connection (palette, openDefinition).
OpenTab(t, conn) ==
  /\ t \in TabIds \ opened
  /\ ws' = AppendActivate(ws, t, NewTab(conn))
  /\ opened' = opened \cup {t}
  /\ UNCHANGED <<runs, ports, timers, locked, audited>>

CloseTab(t) ==
  /\ t \in OpenTabs(ws) /\ Len(ws.order) > 1
  /\ ws' = Close(ws, t)
  /\ UNCHANGED <<opened, runs, ports, timers, locked, audited>>

\* A click on a connection in the sidebar.
SelectConnection(c) ==
  /\ ws' = UpdateActiveTab(ws, LAMBDA t : [t EXCEPT
             !.connection = c, !.file = FALSE, !.results = Null, !.error = Null])
  /\ UNCHANGED <<opened, runs, ports, timers, locked, audited>>

\* The palette's connection item: nothing but the connection changes.
PaletteConnection(c) ==
  /\ ws' = UpdateActiveTab(ws, LAMBDA t : [t EXCEPT !.connection = c])
  /\ UNCHANGED <<opened, runs, ports, timers, locked, audited>>

\* Opening a data file keeps the connection, for live joins.
OpenFile ==
  /\ ws' = UpdateActiveTab(ws, LAMBDA t : [t EXCEPT
             !.file = TRUE, !.results = Null, !.error = Null])
  /\ UNCHANGED <<opened, runs, ports, timers, locked, audited>>

TogglePlan ==
  /\ ws.tab[ws.active].connection # Null /\ ~ws.tab[ws.active].file
  /\ ws' = UpdateActiveTab(ws, LAMBDA t : [t EXCEPT !.includePlan = ~@])
  /\ UNCHANGED <<opened, runs, ports, timers, locked, audited>>

DeleteConnection(c) ==
  /\ ws' = ClearConnection(ws, c)
  /\ UNCHANGED <<opened, runs, ports, timers, locked, audited>>

\* Mutant of ReloadConnections: every tab without a connection gets the first.
ReloadEveryTab(fresh) ==
  LET refreshed == RefreshConnections(ws, fresh, Cleared) IN
  /\ \E first \in fresh :
       ws' = [refreshed EXCEPT !.tab = [t \in DOMAIN @ |->
                IF @[t].connection = Null THEN [@[t] EXCEPT !.connection = first] ELSE @[t]]]
  /\ UNCHANGED <<opened, runs, ports, timers, locked, audited>>

\* loadConnections, once list_connections answered with the connections in
\* fresh: an active tab without a connection then gets the first of them.
ReloadConnections(fresh) ==
  LET refreshed == RefreshConnections(ws, fresh, Cleared) IN
  /\ \E first \in fresh :
       ws' = IF refreshed.tab[ws.active].connection = Null
             THEN UpdateActiveTab(refreshed, LAMBDA t : [t EXCEPT !.connection = first])
             ELSE refreshed
  /\ UNCHANGED <<opened, runs, ports, timers, locked, audited>>

\* The inactivity timeout locks, a click on the overlay unlocks.
ToggleLock ==
  /\ locked' = ~locked
  /\ UNCHANGED <<ws, opened, runs, ports, timers, audited>>

-----------------------------------------------------------------------------

Launch(r) == LaunchRefused(r) \/ LaunchUnconnected(r) \/ LaunchStarted(r)

Native(r) ==
  NativeThrew(r) \/ DataAnswered(r) \/ AnsweredInError(r) \/ ResultsArrived(r) \/ Recorded(r)

Tunnel(r) == TunnelOpened(r) \/ TunnelFailed(r)

Next ==
  \/ \E r \in Runs : Launch(r) \/ Tunnel(r) \/ Native(r) \/ AutoClear(r)
  \/ \E t \in TabIds : SwitchTab(t) \/ CloseTab(t)
  \/ \E t \in TabIds, c \in Conns \cup {Null} : OpenTab(t, c)
  \/ \E c \in Conns : SelectConnection(c) \/ PaletteConnection(c) \/ DeleteConnection(c)
  \/ \E fresh \in (SUBSET Conns) \ {{}} : ReloadConnections(fresh)
  \/ OpenFile \/ TogglePlan \/ ToggleLock

Spec == Init /\ [][Next]_vars

\* Every native call is answered or rejected in the end, since connects and
\* commands carry timeouts; timers fire.  The user need not do anything.
Fairness == \A r \in Runs : WF_vars(Tunnel(r)) /\ WF_vars(Native(r)) /\ WF_vars(AutoClear(r))

FairSpec == Spec /\ Fairness

-----------------------------------------------------------------------------
(* Properties                                                              *)

Tab == [connection : Conns \cup {Null}, file : BOOLEAN, includePlan : BOOLEAN,
        loading : BOOLEAN, error : Runs \cup {Null}, results : Runs \cup {Null}]

Run == [pc : {"idle", "saving"} \cup Waiting \cup Settled, tab : TabIds,
        conn : Conns \cup {Null}, explain : BOOLEAN,
        clears : BOOLEAN]

\* The shape of the state: the strip is well formed and every open tab id was
\* handed out by createTab.
TypeOK ==
  /\ StripOK(ws)
  /\ ws.tab \in [OpenTabs(ws) -> Tab]
  /\ opened \subseteq TabIds /\ OpenTabs(ws) \subseteq opened
  /\ runs \in [Runs -> Run]
  /\ ports \subseteq SshConns
  /\ timers \subseteq Runs
  /\ audited \subseteq Runs
  /\ locked \in BOOLEAN

\* A run only waits for a tunnel to a connection that has one: what makes the
\* type of `ports` inductive.
TunnelWait == \A r \in Runs : runs[r].pc = "tunnel" => runs[r].conn \in SshConns

\* The result sets a tab shows come from a run that was launched from that
\* very tab, whatever was switched, closed or re-pointed while it was in
\* flight: the reason runQuery pins launchTabId.
ResultsFromOwnRun ==
  \A t \in OpenTabs(ws) : ws.tab[t].results # Null =>
    LET r == ws.tab[t].results IN runs[r].tab = t /\ runs[r].pc \in {"saving", "done"}

\* A tab shows "Running..." only while a run launched from it is in flight, or
\* after one was stranded by a tunnel that failed to open: no other exit of
\* runQuery forgets to lower the flag.
SpinnerExplained ==
  \A t \in OpenTabs(ws) : ws.tab[t].loading =>
    \E r \in Runs : runs[r].tab = t /\ runs[r].pc \in Waiting \cup {"stranded"}

\* With auto-clear on when its run was launched, a result on display has a
\* timer pending that will take it away: no switch, close, re-launch or reload
\* leaves results on screen that nothing would ever clear.
DisplayedResultsExpire ==
  \A t \in OpenTabs(ws) : LET r == ws.tab[t].results IN
    r # Null => (runs[r].clears => r \in timers)

\* A tab in the background is only written by its own runs, by their timers,
\* or by a reload or deletion of its connection: it gains no results, no
\* error and no spinner from what happens in another tab.
BackgroundWritten(t) ==
  \/ \E r \in Runs : runs[r].tab = t /\ (runs'[r] # runs[r] \/ r \in timers \ timers')
  \/ ws'.tab[t] = Cleared(ws.tab[t])
  \/ ws'.tab[t] = [ws.tab[t] EXCEPT !.connection = Null]

BackgroundTabsIsolated ==
  [][\A t \in (OpenTabs(ws) \cap OpenTabs(ws')) \ {ws.active} :
       ws'.tab[t] # ws.tab[t] => BackgroundWritten(t)]_vars

\* Where no tunnel can strand a run, a tab that is loading stops loading or is
\* closed, however its runs overlap.
SpinnerLowered ==
  \A t \in TabIds :
    (t \in OpenTabs(ws) /\ ws.tab[t].loading)
      ~> (t \notin OpenTabs(ws) \/ ~ws.tab[t].loading)

\* The comment in runQuery: every write of a run targets the tab it was
\* launched from, for the run's entire lifetime; so the error a tab shows is
\* that of a run launched from it.
ErrorFromOwnRun ==
  \A t \in OpenTabs(ws) : ws.tab[t].error # Null => runs[ws.tab[t].error].tab = t

\* The setting clears results "after this period of inactivity": what a timer
\* takes away is what its own run delivered, not a younger run's results.
TimerClearsOwnResults ==
  [][\A r \in timers \ timers' : runs[r].tab \in OpenTabs(ws) =>
       ws.tab[runs[r].tab].results \in {r, Null}]_vars

\* Runs deliver as RunDelivery promises: to their own tab, once, and what was
\* cleared does not reappear.
Delivery == INSTANCE RunDelivery WITH
  owner   <- [r \in Runs |-> IF runs[r].pc = "idle" THEN Null ELSE runs[r].tab],
  settled <- {r \in Runs : runs[r].pc \in {"saving"} \cup Settled},
  shown   <- [t \in TabIds |-> IF t \in OpenTabs(ws) THEN ws.tab[t].results ELSE Null]

DeliverySpec == Delivery!Spec
=============================================================================
