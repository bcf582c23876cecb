---------------------------- MODULE PanelProofs -----------------------------
(***************************************************************************)
(* Proofs about the panels and about the editor: Activity, for any number  *)
(* of polls; History, for any runs and reads; EditorText, for any texts and*)
(* tabs; Palette, for any items; Diagram, for any schemas; GridView, for   *)
(* any results; and MCPanels, which is made of them.                       *)
(***************************************************************************)
EXTENDS MCPanels, AnswerProofs

-----------------------------------------------------------------------------
(* Activity.                                                               *)

Panels == [showActivity : BOOLEAN, rows : Conns \cup {Null}, error : {Null, "load", "kill"},
           loading : BOOLEAN, killPending : Conns \cup {Null}]

Killing ==
  /\ kill \in [conn : Conns \cup {Null}, row : Conns \cup {Null}, trusted : BOOLEAN]
  /\ trust \in {"none", "entered", "listed"}

\* What is in flight, once the connection was visited with nothing in flight, is
\* for that connection; and so are the rows, once they were listed.
InFlightForOne ==
  trust # "none" =>
    /\ \A k \in Polls : Free(k) \/ polls[k].conn = on
    /\ kill = NoKill \/ kill.conn = on

ListsOne == trust = "listed" => panel.rows \in {Null, on} /\ panel.killPending \in {Null, on}

ActivityInv ==
  ActivityTypeOK /\ Killing /\ InFlightForOne /\ ListsOne /\ KillsWhereListed /\ ActivityLoadingExplained

LEMMA ActivityInitially == ActivityInit => ActivityInv
  BY SavedConnsAssumption
  DEF ActivityInit, ActivityInv, ActivityTypeOK, Killing, InFlightForOne, ListsOne,
      KillsWhereListed, ActivityLoadingExplained, Settled, NoKill

\* A load starts one poll, of the connection it was asked for, or none; the rest
\* of the panel stays, but the rows may be cleared and the spinner shown.
LEMMA LoadStarts ==
  ASSUME ActivityInv, NEW k \in Polls, NEW c \in Conns \cup {Null}, NEW silent \in BOOLEAN,
         NEW p \in Panels, Free(k), Load(k, c, silent, p)
  PROVE  /\ panel' \in Panels
         /\ panel'.showActivity = p.showActivity /\ panel'.killPending = p.killPending
         /\ panel'.rows \in {p.rows, Null}
         /\ polls' \in [Polls -> [conn : Conns \cup {Null}, silent : BOOLEAN]]
         /\ \A j \in Polls \ {k} : polls'[j] = polls[j]
         /\ polls'[k] = Settled \/ polls'[k].conn = c
         /\ panel'.loading => p.loading \/ (polls'[k] # Settled /\ ~polls'[k].silent)
<1>1. polls \in [Polls -> [conn : Conns \cup {Null}, silent : BOOLEAN]]
  BY DEF ActivityInv, ActivityTypeOK
<1>2. CASE Serves(c) /\ polls' = [polls EXCEPT ![k] = [conn |-> c, silent |-> silent]]
                     /\ panel' = LoadStarted(p, silent)
  <2>1. polls'[k] = [conn |-> c, silent |-> silent] /\ \A j \in Polls \ {k} : polls'[j] = polls[j]
    BY <1>1, <1>2
  <2>2. polls'[k] # Settled /\ polls'[k].conn = c /\ polls'[k].silent = silent
    BY <1>2, <2>1, SavedConnsAssumption DEF Serves, Settled
  <2>3. panel' = p \/ (~silent /\ panel' = [p EXCEPT !.loading = TRUE])
    BY <1>2 DEF LoadStarted
  <2>4. /\ panel' \in Panels
        /\ panel'.showActivity = p.showActivity /\ panel'.killPending = p.killPending
        /\ panel'.rows = p.rows
        /\ panel'.loading => p.loading \/ ~silent
    BY <2>3 DEF Panels
  <2>5. polls' \in [Polls -> [conn : Conns \cup {Null}, silent : BOOLEAN]]
    BY <1>1, <1>2
  <2> QED BY <2>1, <2>2, <2>4, <2>5
<1>3. CASE panel' = [p EXCEPT !.rows = Null] /\ UNCHANGED polls
  <2>1. /\ panel' \in Panels
        /\ panel'.showActivity = p.showActivity /\ panel'.killPending = p.killPending
        /\ panel'.rows = Null /\ panel'.loading = p.loading
    BY <1>3 DEF Panels
  <2> QED BY <1>1, <1>3, <2>1 DEF Free
<1> QED BY <1>2, <1>3 DEF Load

\* A step that at most loads for the connection it leaves active, from a panel
\* that differs from the last one in nothing but being shown or its error.
LEMMA LoadStep ==
  ASSUME ActivityInv, NEW k \in Polls, NEW silent \in BOOLEAN, NEW p \in Panels,
         Free(k), NEW c \in Conns \cup {Null}, Load(k, c, silent, p),
         on' = on, trust' = trust,
         p.rows = panel.rows, p.killPending = panel.killPending, p.loading = panel.loading,
         c = on \/ (kill # NoKill /\ kill.conn = c),
         kill' \in {kill, NoKill}, visible' \in BOOLEAN
  PROVE  ActivityInv'
<1> USE DEF ActivityInv
<1>1. /\ panel' \in Panels
      /\ panel'.killPending = p.killPending /\ panel'.rows \in {p.rows, Null}
      /\ polls' \in [Polls -> [conn : Conns \cup {Null}, silent : BOOLEAN]]
      /\ \A j \in Polls \ {k} : polls'[j] = polls[j]
      /\ polls'[k] = Settled \/ polls'[k].conn = c
      /\ panel'.loading => p.loading \/ (polls'[k] # Settled /\ ~polls'[k].silent)
  BY LoadStarts
<1>2. ActivityTypeOK'
  BY <1>1 DEF ActivityTypeOK, Panels
<1>3. Killing'
  <2>1. NoKill \in [conn : Conns \cup {Null}, row : Conns \cup {Null}, trusted : BOOLEAN]
    BY DEF NoKill
  <2> QED BY <2>1 DEF Killing
<1>4. InFlightForOne'
  <2> SUFFICES ASSUME trust # "none"
               PROVE  /\ \A j \in Polls : polls'[j] = Settled \/ polls'[j].conn = on
                      /\ kill' = NoKill \/ kill'.conn = on
    BY DEF InFlightForOne, Free
  <2>1. /\ \A j \in Polls : polls[j] = Settled \/ polls[j].conn = on
        /\ kill = NoKill \/ kill.conn = on
    BY DEF InFlightForOne, Free
  <2>2. c = on
    BY <2>1
  <2> QED BY <1>1, <2>1, <2>2
<1>5. ListsOne'
  BY <1>1 DEF ListsOne
<1>6. KillsWhereListed'
  BY DEF KillsWhereListed, NoKill
<1>7. ActivityLoadingExplained'
  BY <1>1 DEF ActivityLoadingExplained, Free
<1> QED BY <1>2, <1>3, <1>4, <1>5, <1>6, <1>7

LEMMA AnswerStep ==
  ASSUME ActivityInv, NEW k \in Polls, PollAnswered(k)
  PROVE  ActivityInv'
<1> USE DEF ActivityInv
<1>1. panel \in Panels /\ polls[k] \in [conn : Conns \cup {Null}, silent : BOOLEAN] /\ ~Free(k)
      /\ UNCHANGED <<on, visible, kill>>
  BY DEF ActivityTypeOK, Panels, PollAnswered
<1>2. PICK p \in {LoadSuccess(panel, polls[k].conn), LoadError(panel)} :
        panel' = LoadDone(p, polls[k].silent)
  BY DEF PollAnswered
<1>3. /\ p \in Panels /\ p.killPending = panel.killPending /\ p.loading = panel.loading
      /\ p.rows \in {Null, polls[k].conn}
  BY <1>1, <1>2, ZenonT(30) DEF LoadSuccess, LoadError, Panels
<1>4. /\ panel' \in Panels /\ panel'.killPending = panel.killPending /\ panel'.rows = p.rows
      /\ panel'.loading => panel.loading /\ polls[k].silent
  <2>1. (panel' = p /\ polls[k].silent) \/ panel' = [p EXCEPT !.loading = FALSE]
    BY <1>1, <1>2 DEF LoadDone
  <2> QED BY <1>3, <2>1 DEF Panels
<1>5. /\ polls' \in [Polls -> [conn : Conns \cup {Null}, silent : BOOLEAN]]
      /\ polls'[k] = Settled /\ \A j \in Polls \ {k} : polls'[j] = polls[j]
  BY DEF PollAnswered, ActivityTypeOK, Settled
<1>6. ActivityTypeOK'
  BY <1>1, <1>4, <1>5 DEF ActivityTypeOK, Panels
<1>7. Killing' /\ KillsWhereListed'
  BY <1>1 DEF PollAnswered, Listed, Killing, KillsWhereListed
<1>8. InFlightForOne'
  BY <1>1, <1>5 DEF PollAnswered, Listed, InFlightForOne, Free
<1>9. ListsOne'
  <2>1. trust # "none" => polls[k].conn = on
    BY <1>1 DEF InFlightForOne
  <2>2. trust' = "listed" => trust = "listed" \/ (trust = "entered" /\ panel.killPending = Null)
    BY DEF PollAnswered, Listed, Killing
  <2> QED BY <1>1, <1>3, <1>4, <2>1, <2>2 DEF ListsOne
<1>10. ActivityLoadingExplained'
  <2> SUFFICES ASSUME panel'.loading PROVE \E j \in Polls : polls'[j] # Settled /\ ~polls'[j].silent
    BY DEF ActivityLoadingExplained, Free
  <2>1. PICK j \in Polls : ~Free(j) /\ ~polls[j].silent
    BY <1>4 DEF ActivityLoadingExplained
  <2> QED BY <1>4, <1>5, <2>1 DEF Free
<1> QED BY <1>6, <1>7, <1>8, <1>9, <1>10

LEMMA VisitStep ==
  ASSUME ActivityInv, NEW k \in Polls, NEW c \in Conns \cup {Null}, Visit(k, c)
  PROVE  ActivityInv'
<1> USE DEF ActivityInv
<1>1. /\ panel \in Panels /\ on' = c /\ trust' = (IF Quiet THEN "entered" ELSE "none")
      /\ UNCHANGED <<visible, kill>>
  BY DEF ActivityTypeOK, Panels, Visit
<1>2. /\ panel' \in Panels
      /\ polls' \in [Polls -> [conn : Conns \cup {Null}, silent : BOOLEAN]]
      /\ \A j \in Polls \ {k} : polls'[j] = polls[j]
      /\ polls'[k] # polls[k] => Free(k) /\ (polls'[k] = Settled \/ polls'[k].conn = c)
      /\ panel'.loading => panel.loading \/ (polls'[k] # Settled /\ ~polls'[k].silent)
  <2>1. CASE Free(k) /\ Load(k, c, TRUE, panel)
    BY <1>1, <2>1, LoadStarts
  <2>2. CASE panel' = panel /\ UNCHANGED polls
    BY <1>1, <2>2 DEF ActivityTypeOK
  <2> QED BY <2>1, <2>2 DEF Visit, PollNow
<1>3. ActivityTypeOK'
  BY <1>1, <1>2 DEF ActivityTypeOK, Panels
<1>4. Killing' /\ KillsWhereListed' /\ ListsOne'
  BY <1>1 DEF Killing, KillsWhereListed, ListsOne
<1>5. InFlightForOne'
  BY <1>1, <1>2 DEF InFlightForOne, Quiet, Free
<1>6. ActivityLoadingExplained'
  BY <1>2 DEF ActivityLoadingExplained, Free
<1> QED BY <1>3, <1>4, <1>5, <1>6

LEMMA ToggleStep ==
  ASSUME ActivityInv, NEW k \in Polls, TogglePanel(k)
  PROVE  ActivityInv'
<1> DEFINE p == [panel EXCEPT !.showActivity = ~@]
<1>1. p \in Panels /\ p.rows = panel.rows /\ p.killPending = panel.killPending /\ p.loading = panel.loading
  BY DEF ActivityInv, ActivityTypeOK, Panels
<1>2. UNCHANGED <<on, visible, kill, trust>> /\ on \in Conns \cup {Null} /\ visible \in BOOLEAN
  BY DEF TogglePanel, ActivityInv, ActivityTypeOK
<1>3. CASE Free(k) /\ Load(k, on, TRUE, p)
  <2> HIDE DEF p
  <2> QED BY <1>1, <1>2, <1>3, LoadStep
<1>4. CASE panel' = p /\ UNCHANGED polls
  BY <1>1, <1>2, <1>4
  DEF ActivityInv, ActivityTypeOK, Panels, Killing, InFlightForOne, ListsOne, KillsWhereListed,
      ActivityLoadingExplained, Free
<1> QED BY <1>3, <1>4 DEF TogglePanel, PollNow

LEMMA KillStep ==
  ASSUME ActivityInv, NEW k \in Polls, KillAnswered(k)
  PROVE  ActivityInv'
<1> DEFINE p == [panel EXCEPT !.error = Null]
<1>1. p \in Panels /\ p.rows = panel.rows /\ p.killPending = panel.killPending /\ p.loading = panel.loading
  BY DEF ActivityInv, ActivityTypeOK, Panels
<1>2. /\ kill # NoKill /\ kill' = NoKill /\ UNCHANGED <<on, visible, trust>> /\ visible \in BOOLEAN
      /\ kill.conn \in Conns \cup {Null}
  BY DEF KillAnswered, ActivityInv, ActivityTypeOK, Killing
<1>3. CASE Free(k) /\ Load(k, kill.conn, TRUE, p)
  <2> HIDE DEF p
  <2> QED BY <1>1, <1>2, <1>3, LoadStep
<1>4. CASE panel' = KillError(panel) /\ UNCHANGED polls
  <2>1. /\ panel' \in Panels /\ panel'.rows = panel.rows /\ panel'.killPending = panel.killPending
        /\ panel'.loading = panel.loading
    BY <1>4 DEF KillError, ActivityInv, ActivityTypeOK, Panels
  <2> QED BY <1>2, <1>4, <2>1
    DEF ActivityInv, ActivityTypeOK, Panels, Killing, InFlightForOne, ListsOne, KillsWhereListed,
        ActivityLoadingExplained, Free, NoKill
<1> QED BY <1>3, <1>4 DEF KillAnswered

\* The dialog: a kill is trusted when a listed row is confirmed.
LEMMA DialogStep ==
  ASSUME ActivityInv, RequestKill \/ CancelKill \/ ConfirmKill
  PROVE  ActivityInv'
<1> USE DEF ActivityInv
<1>1. panel \in Panels /\ UNCHANGED <<on, visible, polls, trust>>
  BY DEF ActivityTypeOK, Panels, RequestKill, CancelKill, ConfirmKill
<1>2. PICK x \in {Null, panel.rows} : panel' = [panel EXCEPT !.killPending = x]
  BY DEF RequestKill, CancelKill, ConfirmKill
<1>3. /\ panel' \in Panels /\ panel'.killPending = x
      /\ panel'.rows = panel.rows /\ panel'.loading = panel.loading
  BY <1>1, <1>2 DEF Panels
<1>4. /\ kill' \in [conn : Conns \cup {Null}, row : Conns \cup {Null}, trusted : BOOLEAN]
      /\ kill' = kill \/ (/\ kill'.conn = on /\ kill'.row = panel.killPending
                          /\ panel.killPending # Null
                          /\ kill'.trusted = (trust = "listed"))
  <2>1. CASE kill' = kill
    BY <2>1 DEF Killing
  <2>2. CASE kill' = [conn |-> on, row |-> panel.killPending, trusted |-> trust = "listed"] /\ panel.killPending # Null
    BY <1>1, <2>2 DEF ActivityTypeOK, Panels
  <2> QED BY <2>1, <2>2 DEF RequestKill, CancelKill, ConfirmKill
<1>5. ActivityTypeOK' /\ Killing' /\ InFlightForOne' /\ ListsOne'
  BY <1>1, <1>3, <1>4 DEF ActivityTypeOK, Panels, Killing, InFlightForOne, ListsOne, Free
<1>6. KillsWhereListed'
  BY <1>1, <1>4 DEF KillsWhereListed, ListsOne
<1>7. ActivityLoadingExplained'
  BY <1>1, <1>3 DEF ActivityLoadingExplained, Free
<1> QED BY <1>5, <1>6, <1>7

LEMMA ActivityStep == ActivityInv /\ [ActivityNext]_activityVars => ActivityInv'
<1> SUFFICES ASSUME ActivityInv, [ActivityNext]_activityVars PROVE ActivityInv'
  OBVIOUS
<1>1. /\ panel \in Panels /\ on \in Conns \cup {Null} /\ visible \in BOOLEAN
  BY DEF ActivityInv, ActivityTypeOK, Panels
<1>2. ASSUME NEW k \in Polls, Tick(k) \/ RefreshRows(k)
      PROVE  ActivityInv'
  <2>1. PICK silent \in BOOLEAN : Free(k) /\ Load(k, on, silent, panel)
    BY <1>2 DEF Tick, RefreshRows
  <2>2. UNCHANGED <<on, visible, kill, trust>>
    BY <1>2 DEF Tick, RefreshRows
  <2> QED BY <1>1, <2>1, <2>2, LoadStep
<1>3. CASE ToggleVisible
  BY <1>3, <1>1 DEF ToggleVisible, ActivityInv, ActivityTypeOK, Killing, InFlightForOne, ListsOne,
      KillsWhereListed, ActivityLoadingExplained, Free
<1>4. CASE UNCHANGED activityVars
  BY <1>4 DEF activityVars, ActivityInv, ActivityTypeOK, Killing, InFlightForOne, ListsOne,
      KillsWhereListed, ActivityLoadingExplained, Free
<1> QED
  BY <1>2, <1>3, <1>4, AnswerStep, VisitStep, ToggleStep, KillStep, DialogStep DEF ActivityNext

LEMMA ActivityInvariant == ActivitySpec => []ActivityInv
  BY ActivityInitially, ActivityStep, PTL DEF ActivitySpec

\* The panel lists a connection or nothing, and every poll is of one.
THEOREM ActivityTypeCorrect == ActivitySpec => []ActivityTypeOK
  BY ActivityInvariant, PTL DEF ActivityInv

\* "Loading..." is on the panel only while a load the user asked for is in
\* flight, however many polls and reloads overlap with it.
THEOREM SpinnerAnswered == ActivitySpec => []ActivityLoadingExplained
  BY ActivityInvariant, PTL DEF ActivityInv

\* A kill goes to the server its row was read from, once a connection visited
\* with nothing in flight has been listed.
THEOREM KillsAtHome == ActivitySpec => []KillsWhereListed
  BY ActivityInvariant, PTL DEF ActivityInv

-----------------------------------------------------------------------------
(* History.                                                                *)

Loads == [pc : {"idle", "asked", "answer"}, conn : HistoryConns \cup {Nobody},
          entries : SUBSET Runs, short : BOOLEAN]

HistoryTyped ==
  /\ where \in HistoryConns \cup {Nobody}
  /\ history \in [open : BOOLEAN, entries : SUBSET Runs]
  /\ recorded \subseteq Runs
  /\ runs \in [Runs -> [pc : {"idle", "running", "saved", "over"},
                        conn : HistoryConns \cup {Nobody}, showHistory : BOOLEAN]]
  /\ reads \in [Reads -> Loads]
  /\ clearing = <<>> \/ \E step \in {"asked", "cleared", "kept"}, c \in HistoryConns \cup {Nobody} : clearing = <<step, c>>
  /\ crossed \in BOOLEAN /\ short \in BOOLEAN

\* A run was launched on a connection, and is not recorded before.
Attributed ==
  /\ \A r \in Runs : runs[r].pc = "idle" => r \notin recorded
  /\ \A r \in Runs : runs[r].pc # "idle" => runs[r].conn # Nobody
  /\ \A k \in Reads : reads[k].pc = "idle" => reads[k] = NoRead

NoReads == \A k \in Reads : reads[k] = NoRead

\* A list of runs of the active connection; all of them, but for a failure.
Lists(entries, failed) ==
  entries \subseteq OfConnection(where) /\ (~failed => entries = OfConnection(where))

\* What may be in flight below an open list that nothing crossed: one read, one
\* run or one clear, of the active connection, and where it has got to.
Alone ==
  ~crossed /\ history.open =>
    /\ \A k \in Reads : reads[k] # NoRead =>
         /\ \A j \in Reads : reads[j] # NoRead => j = k
         /\ Underway = {} /\ clearing = <<>> /\ reads[k].conn = where
         /\ reads[k].pc = "answer" => Lists(reads[k].entries, reads[k].short)
    /\ \A r \in Underway :
         /\ NoReads /\ clearing = <<>> /\ Underway = {r}
         /\ runs[r].conn = where /\ runs[r].showHistory
    /\ clearing # <<>> =>
         /\ NoReads /\ Underway = {} /\ clearing[2] = where
         /\ clearing[1] = "asked" => Lists(history.entries, short)
         /\ clearing[1] = "cleared" => OfConnection(where) = {}
    /\ Calm => Lists(history.entries, short)

HistoryInv == HistoryTyped /\ Attributed /\ Alone

LEMMA HistoryInitially == HistoryInit => HistoryInv
<1> SUFFICES ASSUME HistoryInit PROVE HistoryInv
  OBVIOUS
<1>1. /\ NotRun \in [pc : {"idle", "running", "saved", "over"},
                     conn : HistoryConns \cup {Nobody}, showHistory : BOOLEAN]
      /\ NoRead \in Loads
      /\ NotRun.pc = "idle"
  BY DEF NotRun, NoRead, Loads
<1>2. HistoryTyped
  BY <1>1 DEF HistoryInit, HistoryTyped
<1>3. Attributed
  BY <1>1 DEF HistoryInit, Attributed
<1>4. Alone
  BY DEF HistoryInit, Alone, Lists
<1> QED BY <1>2, <1>3, <1>4 DEF HistoryInv

LEMMA NoEntriesOfNobody == ASSUME HistoryInv PROVE OfConnection(Nobody) = {}
  BY DEF HistoryInv, HistoryTyped, Attributed, OfConnection

LEMMA NoReadTyped == NoRead \in Loads
  BY DEF NoRead, Loads

\* A load empties the list, or starts one read.
LEMMA HistoryLoadStarts ==
  ASSUME HistoryInv, NEW k \in Reads, NEW c \in HistoryConns \cup {Nobody},
         NEW h \in [open : BOOLEAN, entries : SUBSET Runs], LoadHistory(k, c, h)
  PROVE  /\ history' \in [open : BOOLEAN, entries : SUBSET Runs] /\ history'.open = h.open
         /\ reads' \in [Reads -> Loads]
         /\ \/ c = Nobody /\ history'.entries = {} /\ reads' = reads
            \/ /\ c # Nobody /\ history' = h /\ reads[k] = NoRead
               /\ reads'[k].pc = "asked" /\ reads'[k].conn = c
               /\ \A j \in Reads \ {k} : reads'[j] = reads[j]
<1>1. reads \in [Reads -> Loads]
  BY DEF HistoryInv, HistoryTyped
<1>2. CASE c = Nobody /\ history' = [h EXCEPT !.entries = {}] /\ UNCHANGED reads
  BY <1>1, <1>2
<1>3. CASE c # Nobody /\ reads[k] = NoRead /\ history' = h
           /\ reads' = [reads EXCEPT ![k] = [NoRead EXCEPT !.pc = "asked", !.conn = c]]
  <2> DEFINE asked == [NoRead EXCEPT !.pc = "asked", !.conn = c]
  <2>1. /\ asked \in Loads
        /\ asked.pc = "asked" /\ asked.conn = c
    BY DEF NoRead, Loads
  <2>2. reads'[k] = asked /\ \A j \in Reads \ {k} : reads'[j] = reads[j]
    BY <1>1, <1>3
  <2>3. reads' \in [Reads -> Loads]
    BY <1>1, <1>3, <2>1
  <2> QED BY <1>3, <2>1, <2>2, <2>3
<1> QED BY <1>2, <1>3 DEF LoadHistory

\* A list that is loaded with nothing in flight: at once, or by the one read.
LEMMA LoadedCalm ==
  ASSUME HistoryInv, Calm, NEW k \in Reads, NEW c \in HistoryConns \cup {Nobody},
         NEW h \in [open : BOOLEAN, entries : SUBSET Runs], LoadHistory(k, c, h),
         where' = c, UNCHANGED <<recorded, runs, clearing, short>>
  PROVE  Alone'
<1>1. /\ history'.open = h.open
      /\ \/ c = Nobody /\ history'.entries = {} /\ reads' = reads
         \/ /\ c # Nobody
            /\ reads'[k].pc = "asked" /\ reads'[k].conn = c
            /\ \A j \in Reads \ {k} : reads'[j] = reads[j]
  BY HistoryLoadStarts
<1>2. /\ Underway' = {} /\ clearing' = <<>> /\ NoReads
      /\ OfConnection(Nobody)' = {}
  BY NoEntriesOfNobody DEF Calm, NoReads, Underway, OfConnection
<1>3. CASE c = Nobody /\ history'.entries = {} /\ reads' = reads
  BY <1>2, <1>3 DEF Alone, Lists, NoReads, Calm
<1>4. CASE /\ c # Nobody
           /\ reads'[k].pc = "asked" /\ reads'[k].conn = c
           /\ \A j \in Reads \ {k} : reads'[j] = reads[j]
  <2>1. reads'[k] # NoRead
    BY <1>4 DEF NoRead, Loads
  <2> QED BY <1>2, <1>4, <2>1 DEF Alone, Lists, NoReads, Calm
<1> QED BY <1>1, <1>3, <1>4

LEMMA MoveStep ==
  ASSUME HistoryInv, NEW k \in Reads, NEW c \in HistoryConns \cup {Nobody}, Move(k, c)
  PROVE  HistoryInv'
<1> USE DEF HistoryInv
<1>1. history \in [open : BOOLEAN, entries : SUBSET Runs] /\ where' = c /\ UNCHANGED <<recorded, runs, clearing, short>>
  BY DEF Move, HistoryTyped
<1>2. CASE history.open /\ LoadHistory(k, c, history) /\ crossed' = ~Calm
  <2>1. HistoryTyped'
    BY <1>1, <1>2, HistoryLoadStarts DEF HistoryTyped
  <2>2. Attributed'
    <3>1. \A j \in Reads : reads'[j] = reads[j] \/ reads'[j].pc = "asked"
      BY <1>1, <1>2, HistoryLoadStarts
    <3> QED BY <1>1, <3>1 DEF Attributed
  <2>3. Alone'
    BY <1>1, <1>2, LoadedCalm DEF Alone, Lists
  <2> QED BY <2>1, <2>2, <2>3
<1>3. CASE crossed' = TRUE /\ UNCHANGED <<history, reads>>
  BY <1>1, <1>3 DEF HistoryTyped, Attributed, Alone, Lists
<1> QED BY <1>2, <1>3 DEF Move

LEMMA ButtonStep ==
  ASSUME HistoryInv, NEW k \in Reads, HistoryButton(k)
  PROVE  HistoryInv'
<1> USE DEF HistoryInv
<1> DEFINE h == [history EXCEPT !.open = TRUE]
<1>1. h \in [open : BOOLEAN, entries : SUBSET Runs] /\ UNCHANGED <<where, recorded, runs, clearing, short>>
      /\ where \in HistoryConns \cup {Nobody}
  BY DEF HistoryButton, HistoryTyped
<1>2. CASE LoadHistory(k, where, h) /\ crossed' = ~Calm
  <2> HIDE DEF h
  <2>1. HistoryTyped'
    BY <1>1, <1>2, HistoryLoadStarts DEF HistoryTyped
  <2>2. Attributed'
    <3>1. \A j \in Reads : reads'[j] = reads[j] \/ reads'[j].pc = "asked"
      BY <1>1, <1>2, HistoryLoadStarts
    <3> QED BY <1>1, <3>1 DEF Attributed
  <2>3. Alone'
    BY <1>1, <1>2, LoadedCalm DEF Alone, Lists
  <2> QED BY <2>1, <2>2, <2>3
<1>3. CASE history' = [history EXCEPT !.open = FALSE] /\ crossed' = TRUE /\ UNCHANGED reads
  BY <1>1, <1>3 DEF HistoryTyped, Attributed, Alone, Lists
<1> QED BY <1>2, <1>3 DEF HistoryButton

\* The two halves of a load that is answered.
LEMMA HistoryReadStep ==
  ASSUME HistoryInv, NEW k \in Reads, HistoryRead(k) \/ EntriesArrived(k) \/ LoadFailed(k)
  PROVE  HistoryInv'
<1> USE DEF HistoryInv
<1>1. CASE HistoryRead(k)
  <2>1. /\ reads[k].pc = "asked" /\ reads[k] # NoRead
        /\ UNCHANGED <<where, history, recorded, runs, clearing, crossed, short>>
    BY <1>1 DEF HistoryRead, NoRead
  <2>2. /\ OfConnection(reads[k].conn) \subseteq Runs
        /\ UNCHANGED <<Underway, OfConnection(where)>>
    BY <2>1 DEF OfConnection, Underway, HistoryTyped
  <2>3. PICK found \in SUBSET OfConnection(reads[k].conn) :
          reads' = [reads EXCEPT ![k] = AnsweredWith(reads[k], found)]
    BY <1>1 DEF HistoryRead
  <2>4. /\ reads' \in [Reads -> Loads]
        /\ reads'[k].pc = "answer" /\ reads'[k].conn = reads[k].conn
        /\ reads'[k].entries = found
        /\ reads'[k].short = (found # OfConnection(reads[k].conn))
        /\ \A j \in Reads \ {k} : reads'[j] = reads[j]
    <3>1. /\ AnsweredWith(reads[k], found) \in Loads
          /\ AnsweredWith(reads[k], found).pc = "answer" /\ AnsweredWith(reads[k], found).conn = reads[k].conn
          /\ AnsweredWith(reads[k], found).entries = found
          /\ AnsweredWith(reads[k], found).short = (found # OfConnection(reads[k].conn))
      <4> DEFINE all == OfConnection(reads[k].conn)
      <4>1. reads[k] \in Loads /\ found \in SUBSET Runs
        BY <2>2 DEF HistoryTyped
      <4>2. AnsweredWith(reads[k], found)
              = [reads[k] EXCEPT !.pc = "answer", !.entries = found, !.short = (found # all)]
        BY DEF AnsweredWith
      <4> HIDE DEF all
      <4>3. PICK short0 \in BOOLEAN : short0 = (found # all)
        OBVIOUS
      <4>4. AnsweredWith(reads[k], found) = [reads[k] EXCEPT !.pc = "answer", !.entries = found, !.short = short0]
        BY <4>2, <4>3, Zenon
      <4>5. /\ AnsweredWith(reads[k], found) \in Loads
            /\ AnsweredWith(reads[k], found).pc = "answer" /\ AnsweredWith(reads[k], found).conn = reads[k].conn
            /\ AnsweredWith(reads[k], found).entries = found /\ AnsweredWith(reads[k], found).short = short0
        BY <4>1, <4>4 DEF Loads
      <4> QED BY <4>3, <4>5, Zenon DEF all
    <3>2. reads \in [Reads -> Loads]
      BY DEF HistoryTyped
    <3> HIDE DEF HistoryInv
    <3> QED BY <2>3, <3>1, <3>2
  <2>5. reads'[k] # NoRead
    BY <2>4 DEF NoRead
  <2>6. HistoryTyped'
    BY <2>1, <2>4 DEF HistoryTyped
  <2>7. Attributed'
    BY <2>1, <2>4 DEF Attributed
  <2>8. reads'[k].entries \subseteq OfConnection(reads[k].conn)
        /\ (~reads'[k].short => reads'[k].entries = OfConnection(reads[k].conn))
    <3>1. ~reads'[k].short => found = OfConnection(reads[k].conn)
      BY <2>4, Zenon
    <3>2. reads'[k].entries = found
      BY <2>4
    <3> QED BY <3>1, <3>2, Zenon
  <2>9. Alone'
    <3>1. /\ reads'[k].pc = "answer" /\ reads'[k].conn = reads[k].conn
          /\ \A j \in Reads \ {k} : reads'[j] = reads[j]
      BY <2>4, Zenon
    <3> QED BY <2>1, <2>2, <2>5, <2>8, <3>1 DEF Alone, Lists, Calm, NoReads
  <2> QED BY <2>6, <2>7, <2>9
<1>2. CASE EntriesArrived(k)
  <2>1. /\ reads[k].pc = "answer" /\ reads[k] # NoRead /\ reads[k].entries \subseteq Runs
        /\ UNCHANGED <<where, recorded, runs, clearing, crossed>>
    <3>1. reads[k].pc = "answer" /\ UNCHANGED <<where, recorded, runs, clearing, crossed>>
      BY <1>2, Zenon DEF EntriesArrived
    <3>2. reads[k] \in Loads
      BY DEF HistoryTyped
    <3> HIDE DEF HistoryInv
    <3>3. reads[k] # NoRead /\ reads[k].entries \subseteq Runs
      BY <3>1, <3>2 DEF NoRead, Loads
    <3> QED BY <3>1, <3>3
  <2>2. /\ history' \in [open : BOOLEAN, entries : SUBSET Runs]
        /\ history'.open = history.open /\ history'.entries = reads[k].entries
        /\ short' = reads[k].short /\ short' \in BOOLEAN
    <3>1. reads[k] \in Loads /\ history \in [open : BOOLEAN, entries : SUBSET Runs]
      BY DEF HistoryTyped
    <3>2. history' = [history EXCEPT !.entries = reads[k].entries] /\ short' = reads[k].short
      BY <1>2, Zenon DEF EntriesArrived
    <3> HIDE DEF HistoryInv
    <3>3. reads[k].short \in BOOLEAN
      BY <3>1 DEF Loads
    <3>4. short' \in BOOLEAN
      BY <3>2, <3>3, Zenon
    <3> QED BY <2>1, <3>1, <3>2, <3>4
  <2>3. /\ reads' \in [Reads -> Loads]
        /\ reads'[k] = NoRead /\ \A j \in Reads \ {k} : reads'[j] = reads[j]
    BY <1>2, NoReadTyped DEF EntriesArrived, HistoryTyped
  <2>4. UNCHANGED <<Underway, OfConnection(where)>>
    BY <2>1 DEF OfConnection, Underway
  <2>5. HistoryTyped'
    BY <2>1, <2>2, <2>3 DEF HistoryTyped
  <2>6. Attributed'
    BY <2>1, <2>3 DEF Attributed
  <2>7. Alone'
    BY <2>1, <2>2, <2>3, <2>4 DEF Alone, Lists, Calm, NoReads
  <2> QED BY <2>5, <2>6, <2>7
<1>3. CASE LoadFailed(k)
  <2>1. reads' \in [Reads -> Loads]
        /\ reads'[k] = NoRead /\ \A j \in Reads \ {k} : reads'[j] = reads[j]
    BY <1>3, NoReadTyped DEF LoadFailed, HistoryTyped
  <2> QED BY <1>3, <2>1 DEF LoadFailed, HistoryTyped, Attributed, Alone
<1> QED BY <1>1, <1>2, <1>3

\* The panel closes, or is toggled behind the button's back.
LEMMA PanelStep ==
  ASSUME HistoryInv, PaletteTogglesHistory \/ PickEntry
  PROVE  HistoryInv'
<1>1. PICK b \in BOOLEAN : history' = [history EXCEPT !.open = b]
  BY DEF PaletteTogglesHistory, PickEntry, HistoryInv, HistoryTyped
<1> QED BY <1>1, ZenonT(30) DEF PaletteTogglesHistory, PickEntry, HistoryInv, HistoryTyped, Attributed, Alone, Lists

LEMMA ClearStep ==
  ASSUME HistoryInv, ClearHistory \/ HistoryCleared \/ EntriesCleared
  PROVE  HistoryInv'
<1> USE DEF HistoryInv
<1>1. UNCHANGED <<where, runs, reads>> /\ UNCHANGED Underway /\ UNCHANGED NoReads
  BY DEF ClearHistory, HistoryCleared, EntriesCleared, Underway, NoReads
<1>2. CASE ClearHistory
  <2>1. HistoryTyped' /\ Attributed'
    BY <1>1, <1>2 DEF ClearHistory, HistoryTyped, Attributed
  <2>2. /\ UNCHANGED <<history, recorded, short, OfConnection(where)>> /\ clearing' = <<"asked", where>>
        /\ ~crossed' => ~crossed /\ Calm
    BY <1>1, <1>2 DEF ClearHistory, OfConnection
  <2>3. clearing' # <<>> /\ clearing'[1] = "asked" /\ clearing'[2] = where
    BY <2>2
  <2>4. Alone'
    BY <1>1, <2>2, <2>3 DEF Alone, Lists, Calm, NoReads
  <2> QED BY <2>1, <2>4
<1>3. CASE HistoryCleared
  <2>1. /\ clearing # <<>> /\ clearing[1] = "asked" /\ UNCHANGED <<history, crossed, short>>
        /\ clearing[2] \in HistoryConns \cup {Nobody}
    BY <1>3 DEF HistoryCleared, HistoryTyped
  <2>2. CASE UNCHANGED recorded /\ clearing' = <<>>
    <3>1. UNCHANGED OfConnection(where)
      BY <1>1, <2>2 DEF OfConnection
    <3>2. HistoryTyped' /\ Attributed'
      BY <1>1, <2>1, <2>2 DEF HistoryTyped, Attributed
    <3> QED BY <1>1, <2>1, <2>2, <3>1, <3>2 DEF Alone, Lists, Calm, NoReads
  <2>3. CASE /\ recorded' = IF clearing[2] = Nobody THEN {} ELSE recorded \ OfConnection(clearing[2])
             /\ clearing' = <<"cleared", clearing[2]>>
    <3>1. recorded' \subseteq recorded /\ OfConnection(clearing[2])' = {}
      BY <1>1, <2>1, <2>3 DEF OfConnection
    <3>2. clearing' # <<>> /\ clearing'[1] = "cleared" /\ clearing'[2] = clearing[2]
      BY <2>3
    <3>3. HistoryTyped' /\ Attributed'
      BY <1>1, <2>1, <2>3, <3>1 DEF HistoryTyped, Attributed
    <3>4. Alone'
      BY <1>1, <2>1, <3>1, <3>2 DEF Alone, Lists, Calm, NoReads
    <3> QED BY <3>3, <3>4
  <2>4. CASE UNCHANGED recorded /\ clearing' = <<"kept", clearing[2]>>
    <3>1. clearing' # <<>> /\ clearing'[1] = "kept" /\ clearing'[2] = clearing[2]
      BY <2>4
    <3>2. HistoryTyped' /\ Attributed'
      BY <1>1, <2>1, <2>4 DEF HistoryTyped, Attributed
    <3>3. Alone'
      BY <1>1, <2>1, <3>1 DEF Alone, Lists, Calm, NoReads
    <3> QED BY <3>2, <3>3
  <2> QED BY <1>3, <2>2, <2>3, <2>4 DEF HistoryCleared
<1>4. CASE EntriesCleared
  <2>1. /\ clearing # <<>> /\ clearing[1] \in {"cleared", "kept"} /\ clearing' = <<>>
        /\ short' = (clearing[1] = "kept") /\ short' \in BOOLEAN
        /\ UNCHANGED <<recorded, crossed, OfConnection(where)>>
        /\ history' \in [open : BOOLEAN, entries : SUBSET Runs]
        /\ history'.open = history.open /\ history'.entries = {}
    BY <1>1, <1>4 DEF EntriesCleared, OfConnection, HistoryTyped
  <2>2. HistoryTyped' /\ Attributed'
    BY <1>1, <2>1 DEF HistoryTyped, Attributed
  <2>3. Alone'
    BY <1>1, <2>1 DEF Alone, Lists, Calm, NoReads
  <2> QED BY <2>2, <2>3
<1> QED BY <1>2, <1>3, <1>4

LEMMA LaunchStep ==
  ASSUME HistoryInv, NEW r \in Runs, LaunchRun(r) \/ SaveToHistory(r)
  PROVE  HistoryInv'
<1> USE DEF HistoryInv
<1>1. UNCHANGED <<where, history, reads, clearing, short>> /\ UNCHANGED NoReads
  BY DEF LaunchRun, SaveToHistory, NoReads
<1>2. CASE LaunchRun(r)
  <2>1. /\ runs[r].pc = "idle" /\ runs' \in [Runs -> [pc : {"idle", "running", "saved", "over"},
                                        conn : HistoryConns \cup {Nobody}, showHistory : BOOLEAN]]
        /\ runs'[r].pc = "running" /\ runs'[r].conn = where /\ runs'[r].showHistory = history.open
        /\ where # Nobody
        /\ \A s \in Runs \ {r} : runs'[s] = runs[s]
        /\ recorded' = recorded
    <3>1. /\ runs[r].pc = "idle" /\ where # Nobody /\ recorded' = recorded
          /\ runs' = [runs EXCEPT ![r] = [pc |-> "running", conn |-> where, showHistory |-> history.open]]
      BY <1>2 DEF LaunchRun, NotRun
    <3> QED BY <3>1 DEF HistoryTyped
  <2>2. crossed' \in BOOLEAN /\ (~crossed' => ~crossed /\ Calm)
    BY <1>2 DEF LaunchRun, HistoryTyped
  <2>3. Calm => Underway' = {r}
    BY <2>1 DEF Calm, Underway
  <2>4. HistoryTyped' /\ Attributed'
    <3>1. HistoryTyped'
      BY <1>1, <2>1, <2>2 DEF HistoryTyped
    <3>2. \A s \in Runs : runs'[s].pc = "idle" => s \notin recorded'
      BY <2>1 DEF Attributed
    <3>3. \A s \in Runs : runs'[s].pc # "idle" => runs'[s].conn # Nobody
      BY <2>1 DEF Attributed
    <3>4. \A k \in Reads : reads'[k].pc = "idle" => reads'[k] = NoRead
      BY <1>1 DEF Attributed
    <3> QED BY <3>1, <3>2, <3>3, <3>4 DEF Attributed
  <2>5. Alone'
    BY <1>1, <2>1, <2>3, <2>2 DEF Alone, Lists, Calm, NoReads
  <2> QED BY <2>4, <2>5
<1>3. CASE SaveToHistory(r)
  <2>1. /\ runs[r].pc = "running" /\ r \in Underway
        /\ runs' \in [Runs -> [pc : {"idle", "running", "saved", "over"},
                               conn : HistoryConns \cup {Nobody}, showHistory : BOOLEAN]]
        /\ runs'[r].pc = "saved" /\ runs'[r].conn = runs[r].conn /\ runs'[r].showHistory = runs[r].showHistory
        /\ \A s \in Runs \ {r} : runs'[s] = runs[s]
        /\ recorded' \in {recorded, recorded \cup {r}} /\ crossed' = crossed
    BY <1>3 DEF SaveToHistory, HistoryTyped, Underway
  <2>2. Underway' = Underway
    BY <2>1 DEF Underway
  <2>3. HistoryTyped' /\ Attributed'
    BY <1>1, <2>1 DEF HistoryTyped, Attributed
  <2>4. Alone'
    BY <1>1, <2>1, <2>2 DEF Alone, Lists, Calm, NoReads
  <2> QED BY <2>3, <2>4
<1> QED BY <1>2, <1>3

\* A run that saw the panel open leads to a read of its connection's history.
LEMMA EndStep ==
  ASSUME HistoryInv, NEW r \in Runs, NEW k \in Reads, RunEnded(r, k)
  PROVE  HistoryInv'
<1> USE DEF HistoryInv
<1>1. /\ runs[r].pc = "saved" /\ r \in Underway
      /\ runs[r].conn \in HistoryConns /\ runs[r].conn # Nobody
      /\ history \in [open : BOOLEAN, entries : SUBSET Runs]
      /\ UNCHANGED <<where, recorded, clearing, crossed, short>>
  BY DEF RunEnded, Underway, HistoryTyped, Attributed
<1>2. /\ runs' \in [Runs -> [pc : {"idle", "running", "saved", "over"},
                             conn : HistoryConns \cup {Nobody}, showHistory : BOOLEAN]]
      /\ runs'[r].pc = "over" /\ runs'[r].conn = runs[r].conn
      /\ \A s \in Runs \ {r} : runs'[s] = runs[s]
  BY DEF RunEnded, HistoryTyped
<1>3. Underway' = Underway \ {r} /\ OfConnection(where)' = OfConnection(where)
  BY <1>1, <1>2, SMTT(30) DEF Underway, OfConnection, HistoryTyped
<1>4. CASE runs[r].showHistory /\ LoadHistory(k, runs[r].conn, history)
  <2>1. /\ history' = history
        /\ reads' \in [Reads -> Loads]
        /\ reads'[k].pc = "asked" /\ reads'[k].conn = runs[r].conn
        /\ \A j \in Reads \ {k} : reads'[j] = reads[j]
    BY <1>1, <1>4, HistoryLoadStarts
  <2>2. reads'[k] # NoRead
    BY <2>1 DEF NoRead, Loads
  <2>3. HistoryTyped'
    BY <1>1, <1>2, <2>1 DEF HistoryTyped
  <2>4. Attributed'
    <3>1. \A j \in Reads : reads'[j].pc = "idle" => reads'[j] = NoRead
      BY <2>1 DEF Attributed
    <3>2. \A s \in Runs : runs'[s].pc = "idle" => s \notin recorded'
      BY <1>1, <1>2 DEF Attributed
    <3>3. \A s \in Runs : runs'[s].pc # "idle" => runs'[s].conn # Nobody
      BY <1>1, <1>2 DEF Attributed
    <3> QED BY <3>1, <3>2, <3>3 DEF Attributed
  <2>5. Alone'
    BY <1>1, <1>3, <2>1, <2>2 DEF Alone, Lists, Calm, NoReads
  <2> QED BY <2>3, <2>4, <2>5
<1>5. CASE ~runs[r].showHistory /\ UNCHANGED <<history, reads>>
  <2>1. HistoryTyped' /\ Attributed'
    BY <1>1, <1>2, <1>5 DEF HistoryTyped, Attributed
  <2>2. Alone'
    BY <1>1, <1>5 DEF Alone, Lists
  <2> QED BY <2>1, <2>2
<1> QED BY <1>4, <1>5 DEF RunEnded

LEMMA HistoryStep == HistoryInv /\ [HistoryNext]_historyVars => HistoryInv'
<1> SUFFICES ASSUME HistoryInv, [HistoryNext]_historyVars PROVE HistoryInv'
  OBVIOUS
<1>1. CASE UNCHANGED historyVars
  BY <1>1 DEF historyVars, HistoryInv, HistoryTyped, Attributed, Alone, Lists, Calm, NoReads, Underway, OfConnection
<1> QED
  BY <1>1, MoveStep, ButtonStep, HistoryReadStep, PanelStep, ClearStep, LaunchStep, EndStep DEF HistoryNext

LEMMA HistoryInvariant == HistorySpec => []HistoryInv
  BY HistoryInitially, HistoryStep, PTL DEF HistorySpec

\* What is listed and what is recorded are runs.
THEOREM HistoryTypeCorrect == HistorySpec => []HistoryTypeOK
<1>1. HistoryInv => HistoryTypeOK
  BY DEF HistoryInv, HistoryTyped, HistoryTypeOK
<1> QED BY <1>1, HistoryInvariant, PTL

\* The open panel goes on showing none but recorded runs of the connection it was
\* opened for, or followed to, with no other call in flight; and all of them, unless
\* a read or a clear failed that the native side answered as one that did not.
THEOREM HistoryKept == HistorySpec => []HistoryOfActive
<1>1. HistoryInv => HistoryOfActive
  BY DEF HistoryInv, Alone, Lists, HistoryOfActive
<1> QED BY <1>1, HistoryInvariant, PTL

-----------------------------------------------------------------------------
(* EditorText.                                                             *)

Page == [sql : AllTexts]

\* A tab whose id was not handed out yet will open on the text meant for it, and
\* the pending save, once the editor shows the active tab, is of what it holds.
EditorTyped ==
  /\ WellTyped(shelf, Page)
  /\ taken \subseteq TabIds /\ OpenTabs(shelf) \subseteq taken
  /\ buffer \in AllTexts /\ {timer, load} \subseteq AllTexts \cup {Null}
  /\ asking \in TabIds \cup {Null}
  /\ meant \in [TabIds -> AllTexts]
  /\ strayed \in BOOLEAN

Unopened == \A t \in TabIds \ taken : meant[t] = Blank

Pending == timer # Null /\ ~Settling => timer = buffer

EditorInv == EditorTyped /\ Unopened /\ Pending /\ TextsKept

\* The strip with x saved to a tab.
Saved(id, x) ==
  [shelf EXCEPT !.tab = [t \in OpenTabs(shelf) |->
     IF t = id THEN [shelf.tab[t] EXCEPT !.sql = x] ELSE shelf.tab[t]]]

LEMMA NullIsNoText == Null \notin AllTexts
  BY EditorAssumption DEF AllTexts

LEMMA SavedTab ==
  ASSUME EditorTyped, NEW id, NEW x \in AllTexts
  PROVE  /\ WellTyped(Saved(id, x), Page) /\ OpenTabs(Saved(id, x)) = OpenTabs(shelf)
         /\ Saved(id, x).active = shelf.active /\ Saved(id, x).order = shelf.order
         /\ \A t \in OpenTabs(shelf) : Saved(id, x).tab[t].sql = IF t = id THEN x ELSE shelf.tab[t].sql
<1> DEFINE g == [t \in OpenTabs(shelf) |->
                   IF t = id THEN [shelf.tab[t] EXCEPT !.sql = x] ELSE shelf.tab[t]]
<1>1. shelf.tab \in [OpenTabs(shelf) -> Page] /\ WellTyped(shelf, Page)
  BY DEF EditorTyped, WellTyped
<1>2. g \in [OpenTabs(shelf) -> Page]
  BY <1>1 DEF Page
<1>3. \A t \in OpenTabs(shelf) : g[t].sql = IF t = id THEN x ELSE shelf.tab[t].sql
  BY <1>1 DEF Page
<1>4. Saved(id, x) = [shelf EXCEPT !.tab = g]
  BY DEF Saved
<1> HIDE DEF g
<1> QED BY <1>1, <1>2, <1>3, <1>4, Retab

LEMMA ActiveOpen ==
  ASSUME EditorTyped
  PROVE  /\ shelf.active \in OpenTabs(shelf) /\ OpenTabs(shelf) \subseteq taken /\ taken \subseteq TabIds
         /\ \A t \in OpenTabs(shelf) : shelf.tab[t].sql \in AllTexts
  BY DEF EditorTyped, WellTyped, StripOK, Page

LEMMA EditorInitially == EditorInit => EditorInv
<1> SUFFICES ASSUME EditorInit PROVE EditorInv
  OBVIOUS
<1>1. shelf = [order |-> <<FirstTab>>, active |-> FirstTab, tab |-> [t \in {FirstTab} |-> [sql |-> Blank]]]
  BY DEF EditorInit, InitTabs
<1>2. /\ shelf.order = <<FirstTab>> /\ shelf.active = FirstTab
      /\ shelf.tab = [t \in {FirstTab} |-> [sql |-> Blank]]
  BY <1>1
<1>3. OpenTabs(shelf) = {FirstTab} /\ FirstTab \in TabIds
  BY <1>2, TabsAssumption DEF OpenTabs
<1>4. StripOK(shelf)
  BY <1>1, <1>2, <1>3 DEF StripOK
<1>5. shelf.tab \in [OpenTabs(shelf) -> Page]
  BY <1>2, <1>3 DEF Page, AllTexts
<1>6. EditorTyped /\ Unopened /\ Pending
  BY <1>3, <1>4, <1>5 DEF EditorInit, EditorTyped, WellTyped, AllTexts, Unopened, Pending
<1>7. TextsKept
  BY <1>2, <1>3 DEF EditorInit, TextsKept, Settling
<1> QED BY <1>6, <1>7 DEF EditorInv

-----------------------------------------------------------------------------

LEMMA PutStep ==
  ASSUME EditorInv, NEW x \in Texts, PutText(x)
  PROVE  EditorInv'
<1> USE DEF EditorInv
<1>1. x \in AllTexts /\ x # Null /\ ~Settling
  BY EditorAssumption DEF AllTexts, PutText
<1>2. EditorTyped' /\ Unopened' /\ Pending'
  BY <1>1, ActiveOpen DEF PutText, EditorTyped, Unopened, Pending
<1>3. TextsKept'
  BY <1>1, ActiveOpen DEF PutText, EditorTyped, TextsKept, Settling
<1> QED BY <1>2, <1>3

LEMMA SaveStep ==
  ASSUME EditorInv, SaveFires
  PROVE  EditorInv'
<1> USE DEF EditorInv
<1>1. /\ timer \in AllTexts /\ timer' = Null /\ UNCHANGED <<taken, buffer, load, asking, meant, strayed>>
      /\ shelf' = Saved(shelf.active, timer)
  BY DEF SaveFires, EditorTyped, UpdateActiveTab, UpdateTab, Saved, OpenTabs
<1>2. /\ WellTyped(shelf', Page) /\ OpenTabs(shelf') = OpenTabs(shelf) /\ shelf'.active = shelf.active
      /\ \A t \in OpenTabs(shelf) : shelf'.tab[t].sql = IF t = shelf.active THEN timer ELSE shelf.tab[t].sql
  BY <1>1, SavedTab
<1>3. EditorTyped' /\ Unopened' /\ Pending'
  BY <1>1, <1>2 DEF EditorTyped, Unopened, Pending, Settling
<1>4. TextsKept'
  BY <1>1, <1>2, ActiveOpen, NullIsNoText DEF TextsKept, Pending, Settling
<1> QED BY <1>3, <1>4

LEMMA ShowStep ==
  ASSUME EditorInv, ShowLoaded
  PROVE  EditorInv'
<1> USE DEF EditorInv
<1>1. load \in AllTexts /\ load # Null
  BY DEF ShowLoaded, Settling, EditorTyped
<1>2. EditorTyped' /\ Unopened' /\ Pending'
  BY <1>1 DEF ShowLoaded, EditorTyped, Unopened, Pending
<1>3. TextsKept'
  BY <1>1 DEF ShowLoaded, EditorTyped, TextsKept, Settling
<1> QED BY <1>2, <1>3

\* What a handler that leaves the active tab starts from: the text is in it.
LEMMA KeptText ==
  ASSUME EditorInv, NEW id \in TabIds
  PROVE  LET n == Kept(shelf, id) IN
         /\ WellTyped(n, Page) /\ OpenTabs(n) = OpenTabs(shelf)
         /\ n.active = shelf.active /\ n.order = shelf.order
         /\ \A t \in OpenTabs(shelf) : n.tab[t].sql = IF t = id THEN buffer ELSE shelf.tab[t].sql
         /\ ~strayed /\ ~Settling /\ id = shelf.active =>
              \A t \in OpenTabs(shelf) : n.tab[t].sql = meant[t]
<1>1. Kept(shelf, id) = Saved(id, buffer)
  BY DEF Kept, UpdateTab, Saved, OpenTabs
<1>2. EditorTyped /\ buffer \in AllTexts /\ TextsKept
  BY DEF EditorInv, EditorTyped
<1>3. ~strayed /\ ~Settling =>
        /\ \A t \in OpenTabs(shelf) \ {shelf.active} : shelf.tab[t].sql = meant[t]
        /\ buffer = meant[shelf.active]
  BY <1>2 DEF TextsKept
<1> QED BY <1>1, <1>2, <1>3, SavedTab

LEMMA ClickStep ==
  ASSUME EditorInv, NEW t \in TabIds, ClickTab(t)
  PROVE  EditorInv'
<1> USE DEF EditorInv
<1> DEFINE n == Kept(shelf, shelf.active)
<1>1. /\ ~Settling /\ t \in OpenTabs(shelf) /\ t # shelf.active
      /\ shelf' = SetActive(n, t) /\ load' = shelf.tab[t].sql
      /\ UNCHANGED <<taken, buffer, timer, asking, meant, strayed>>
  BY DEF ClickTab
<1>2. shelf.active \in TabIds /\ load' \in AllTexts /\ load' # Null
  BY <1>1, ActiveOpen, NullIsNoText
<1>3. /\ WellTyped(n, Page) /\ OpenTabs(n) = OpenTabs(shelf)
      /\ ~strayed => \A u \in OpenTabs(shelf) : n.tab[u].sql = meant[u]
  BY <1>1, <1>2, KeptText
<1> HIDE DEF n
<1>4. /\ WellTyped(shelf', Page) /\ OpenTabs(shelf') = OpenTabs(shelf) /\ shelf'.active = t
      /\ shelf'.tab = n.tab
  BY <1>1, <1>3, ActivateOpen
<1>5. EditorTyped' /\ Unopened' /\ Pending'
  BY <1>1, <1>2, <1>4 DEF EditorTyped, Unopened, Pending, Settling
<1>6. ~strayed => shelf.tab[t].sql = meant[t]
  BY <1>1 DEF TextsKept
<1>7. TextsKept'
  BY <1>1, <1>2, <1>3, <1>4, <1>6 DEF TextsKept, Settling
<1> QED BY <1>5, <1>7

LEMMA PlusStep ==
  ASSUME EditorInv, NEW t \in TabIds, PlusTab(t)
  PROVE  EditorInv'
<1> USE DEF EditorInv
<1> DEFINE n == Kept(shelf, shelf.active)
<1>1. /\ ~Settling /\ t \in TabIds \ taken
      /\ shelf' = AppendActivate(n, t, [sql |-> Blank]) /\ load' = Blank /\ taken' = taken \cup {t}
      /\ UNCHANGED <<buffer, timer, asking, meant, strayed>>
  BY DEF PlusTab
<1>2. shelf.active \in TabIds /\ OpenTabs(shelf) \subseteq taken /\ Blank \in AllTexts /\ Blank # Null
      /\ [sql |-> Blank] \in Page
  BY ActiveOpen, NullIsNoText DEF AllTexts, Page
<1>3. /\ WellTyped(n, Page) /\ OpenTabs(n) = OpenTabs(shelf)
      /\ ~strayed => \A u \in OpenTabs(shelf) : n.tab[u].sql = meant[u]
  BY <1>1, <1>2, KeptText
<1> HIDE DEF n
<1>4. /\ WellTyped(shelf', Page) /\ OpenTabs(shelf') = OpenTabs(shelf) \cup {t} /\ shelf'.active = t
      /\ \A u \in OpenTabs(shelf) : shelf'.tab[u] = n.tab[u]
  BY <1>1, <1>2, <1>3, AppendFresh
<1>5. EditorTyped' /\ Unopened' /\ Pending'
  BY <1>1, <1>2, <1>4 DEF EditorTyped, Unopened, Pending, Settling
<1>6. meant[t] = Blank
  BY <1>1 DEF Unopened
<1>7. TextsKept'
  BY <1>1, <1>2, <1>3, <1>4, <1>6 DEF TextsKept, Settling
<1> QED BY <1>5, <1>7

LEMMA ShutStep ==
  ASSUME EditorInv, NEW t \in TabIds, ShutTabKeeping(t)
  PROVE  EditorInv'
<1> USE DEF EditorInv
<1> DEFINE n == Kept(shelf, shelf.active)
<1>1. /\ ~Settling /\ t \in OpenTabs(shelf) /\ Len(shelf.order) > 1
      /\ shelf' = Close(n, t) /\ meant' = [meant EXCEPT ![t] = Blank]
      /\ load' = IF t = shelf.active THEN shelf.tab[shelf'.active].sql ELSE Null
      /\ UNCHANGED <<taken, buffer, timer, asking, strayed>>
  BY DEF ShutTabKeeping
<1>2. shelf.active \in TabIds /\ OpenTabs(shelf) \subseteq taken /\ taken \subseteq TabIds
  BY ActiveOpen
<1>3. /\ WellTyped(n, Page) /\ OpenTabs(n) = OpenTabs(shelf) /\ n.active = shelf.active
      /\ n.order = shelf.order
      /\ \A u \in OpenTabs(shelf) : n.tab[u].sql = IF u = shelf.active THEN buffer ELSE shelf.tab[u].sql
      /\ ~strayed => \A u \in OpenTabs(shelf) : n.tab[u].sql = meant[u]
  BY <1>1, <1>2, KeptText
<1> HIDE DEF n
<1>4. /\ WellTyped(shelf', Page) /\ OpenTabs(shelf') = OpenTabs(shelf) \ {t}
      /\ \A u \in OpenTabs(shelf) \ {t} : shelf'.tab[u] = n.tab[u]
      /\ shelf'.active \in OpenTabs(shelf) \ {t}
      /\ t # shelf.active => shelf'.active = shelf.active
  BY <1>1, <1>3, CloseOpen
<1>5. /\ meant' \in [TabIds -> AllTexts] /\ \A u \in TabIds \ {t} : meant'[u] = meant[u]
  BY <1>1 DEF EditorTyped, AllTexts
<1>6. /\ t = shelf.active => load' \in AllTexts /\ load' # Null /\ load' = n.tab[shelf'.active].sql
      /\ t # shelf.active => load' = Null
  BY <1>1, <1>3, <1>4, ActiveOpen, NullIsNoText
<1>7. EditorTyped' /\ Unopened' /\ Pending'
  BY <1>1, <1>2, <1>4, <1>5, <1>6 DEF EditorTyped, Unopened, Pending, Settling
<1>8. TextsKept'
  <2> SUFFICES ASSUME ~strayed
               PROVE  /\ \A u \in OpenTabs(shelf') \ {shelf'.active} : shelf'.tab[u].sql = meant'[u]
                      /\ meant'[shelf'.active] = IF load' # Null THEN load' ELSE buffer
                      /\ load' = Null => shelf'.tab[shelf'.active].sql = buffer
    BY <1>1 DEF TextsKept, Settling
  <2>1. \A u \in OpenTabs(shelf') : shelf'.tab[u].sql = meant'[u]
    BY <1>2, <1>3, <1>4, <1>5
  <2>2. CASE t = shelf.active
    BY <1>3, <1>4, <1>6, <2>1, <2>2
  <2>3. CASE t # shelf.active
    BY <1>3, <1>4, <1>6, <2>1, <2>3
  <2> QED BY <2>2, <2>3
<1> QED BY <1>7, <1>8

\* The palette changes tabs and nothing is promised of the texts any more.
LEMMA PaletteSqlStep ==
  ASSUME EditorInv, NEW t \in TabIds, PaletteJump(t) \/ PaletteNewTab(t)
  PROVE  EditorInv'
<1> USE DEF EditorInv
<1>1. strayed' = TRUE /\ UNCHANGED <<buffer, timer, load, asking, meant>>
  BY DEF PaletteJump, PaletteNewTab
<1>2. WellTyped(shelf, Page) /\ OpenTabs(shelf) \subseteq taken /\ taken \subseteq TabIds
  BY DEF EditorTyped
<1>3. CASE PaletteJump(t)
  BY <1>1, <1>2, <1>3, ActivateOpen DEF PaletteJump, EditorTyped, Unopened, Pending, TextsKept, Settling
<1>4. CASE PaletteNewTab(t)
  <2>1. [sql |-> Blank] \in Page
    BY DEF Page, AllTexts
  <2>2. WellTyped(shelf', Page) /\ OpenTabs(shelf') = OpenTabs(shelf) \cup {t}
    BY <1>2, <1>4, <2>1, AppendFresh DEF PaletteNewTab
  <2> QED BY <1>1, <1>2, <1>4, <2>2 DEF PaletteNewTab, EditorTyped, Unopened, Pending, TextsKept, Settling
<1> QED BY <1>3, <1>4

\* A definition that arrives where it was asked for.
LEMMA DefinitionStep ==
  ASSUME EditorInv, NEW t \in TabIds, DefinitionArrived(t)
  PROVE  EditorInv'
<1> USE DEF EditorInv
<1> DEFINE n == Kept(shelf, asking)
<1>1. /\ asking \in TabIds /\ t \in TabIds \ taken
      /\ shelf' = AppendActivate(n, t, [sql |-> Definition]) /\ load' = Definition
      /\ taken' = taken \cup {t} /\ asking' = Null /\ meant' = [meant EXCEPT ![t] = Definition]
      /\ strayed' = (strayed \/ asking # shelf.active \/ Settling)
      /\ UNCHANGED <<buffer, timer>>
  BY DEF DefinitionArrived, EditorTyped
<1>2. /\ OpenTabs(shelf) \subseteq taken /\ taken \subseteq TabIds
      /\ Definition \in AllTexts /\ Definition # Null /\ [sql |-> Definition] \in Page
  BY ActiveOpen, NullIsNoText DEF AllTexts, Page
<1>3. /\ WellTyped(n, Page) /\ OpenTabs(n) = OpenTabs(shelf)
      /\ ~strayed /\ ~Settling /\ asking = shelf.active =>
           \A u \in OpenTabs(shelf) : n.tab[u].sql = meant[u]
  BY <1>1, KeptText
<1> HIDE DEF n
<1>4. /\ WellTyped(shelf', Page) /\ OpenTabs(shelf') = OpenTabs(shelf) \cup {t} /\ shelf'.active = t
      /\ \A u \in OpenTabs(shelf) : shelf'.tab[u] = n.tab[u]
  BY <1>1, <1>2, <1>3, AppendFresh
<1>5. /\ meant' \in [TabIds -> AllTexts] /\ meant'[t] = Definition
      /\ \A u \in TabIds \ {t} : meant'[u] = meant[u]
  BY <1>1, <1>2 DEF EditorTyped
<1>6. EditorTyped' /\ Unopened' /\ Pending'
  <2>1. strayed' \in BOOLEAN
    BY <1>1 DEF EditorTyped
  <2> QED BY <1>1, <1>2, <1>4, <1>5, <2>1 DEF EditorTyped, Unopened, Pending, Settling
<1>7. TextsKept'
  <2>1. ~strayed' => ~strayed /\ ~Settling /\ asking = shelf.active
    BY <1>1
  <2> QED BY <1>1, <1>2, <1>3, <1>4, <1>5, <2>1 DEF TextsKept, Settling
<1> QED BY <1>6, <1>7

LEMMA EditorStep == EditorInv /\ [EditorNext]_editorVars => EditorInv'
<1> SUFFICES ASSUME EditorInv, [EditorNext]_editorVars PROVE EditorInv'
  OBVIOUS
<1>1. CASE AskDefinition \/ DefinitionRefused
  BY <1>1, ActiveOpen
  DEF AskDefinition, DefinitionRefused, EditorInv, EditorTyped, Unopened, Pending, TextsKept, Settling
<1>2. CASE UNCHANGED editorVars
  BY <1>2 DEF editorVars, EditorInv, EditorTyped, Unopened, Pending, TextsKept, Settling
<1> QED
  BY <1>1, <1>2, PutStep, SaveStep, ShowStep, ClickStep, PlusStep, ShutStep, PaletteSqlStep, DefinitionStep
  DEF EditorNext

LEMMA EditorInvariant == EditorSpec => []EditorInv
  BY EditorInitially, EditorStep, PTL DEF EditorSpec

\* The strip is well formed and holds texts, as do the editor and its two timers.
THEOREM EditorTypeCorrect == EditorSpec => []EditorTypeOK
<1>1. EditorInv => EditorTypeOK
  BY ActiveOpen DEF EditorInv, EditorTyped, WellTyped, EditorTypeOK
<1> QED BY <1>1, EditorInvariant, PTL

\* Each tab has its own SQL: however typing, switching and the two timers
\* interleave, the active tab's text is in the editor, or about to be, and the
\* others hold theirs, until the palette changes tabs or a definition arrives
\* elsewhere than it was asked for.
THEOREM EachItsOwnText == EditorSpec => []TextsKept
  BY EditorInvariant, PTL DEF EditorInv

-----------------------------------------------------------------------------
(* Palette.                                                                *)

\* Whatever the cursor was, it is clamped to a row if there is one.
LEMMA ClampIn ==
  ASSUME NEW i \in Int, NEW max \in Nat
  PROVE  Clamp(i, max) \in Nat /\ (max > 0 => Clamp(i, max) < max) /\ (max = 0 => Clamp(i, max) = 0)
<1>1. CASE max = 0
  BY <1>1 DEF Clamp
<1>2. CASE max # 0
  <2>1. 0 \in Int /\ Max({i, 0}) \in Nat
    BY PairBounds
  <2>2. max - 1 \in Nat /\ Max({i, 0}) \in Int
    BY <1>2, <2>1
  <2> DEFINE low == Max({i, 0})
             top == max - 1
  <2>3. Min({low, top}) = IF low <= top THEN low ELSE top
    <3> HIDE DEF low, top
    <3>1. low \in Int /\ top \in Int
      BY <2>2 DEF low, top
    <3> QED BY <3>1, PairBounds
  <2>4. Clamp(i, max) = Min({Max({i, 0}), max - 1})
    BY <1>2 DEF Clamp
  <2> QED BY <1>2, <2>1, <2>2, <2>3, <2>4
<1> QED BY <1>1, <1>2

LEMMA RowsAre ==
  ASSUME NEW s \in RowLists
  PROVE  /\ Len(s) \in 0..MaxRows /\ DOMAIN s = 1..Len(s) /\ s \in Seq(Items)
         /\ s = <<>> <=> Len(s) = 0
<1>1. PICK n \in 0..MaxRows : s \in [1..n -> Items]
  BY DEF RowLists
<1>2. s \in Seq(Items) /\ Len(s) = n
  BY <1>1, PaletteAssumption
<1> QED BY <1>1, <1>2

LEMMA EmptyRowList == <<>> \in RowLists /\ Len(<<>>) = 0
<1>1. <<>> \in [1..0 -> Items] /\ IsInjective(<<>>)
  BY DEF IsInjective
<1> QED BY <1>1, PaletteAssumption DEF RowLists

PaletteStates == [open : BOOLEAN, query : BOOLEAN, index : 0..MaxRows]

\* What every render leaves behind it: the effect that clamps runs after each.
PaletteInv == PaletteTypeOK /\ CursorOnARow

LEMMA PaletteInitially == PaletteInit => PaletteInv
  BY EmptyRowList, PaletteAssumption DEF PaletteInit, PaletteInv, PaletteTypeOK, CursorOnARow

LEMMA RenderedCursor ==
  ASSUME NEW p \in PaletteStates, Rerendered(p), deferred' \in Items \cup {NoItem}
  PROVE  PaletteInv'
<1>1. rows' \in RowLists
  BY EmptyRowList DEF Rerendered
<1>2. /\ Len(rows') \in 0..MaxRows /\ DOMAIN rows' = 1..Len(rows')
      /\ rows' = <<>> <=> Len(rows') = 0
  BY <1>1, RowsAre
<1> DEFINE max == Len(rows')
<1>3. max \in Nat /\ max <= MaxRows /\ p.index \in Nat /\ p.index <= MaxRows
  BY <1>2, PaletteAssumption DEF PaletteStates
<1> HIDE DEF max
<1>4. Clamp(p.index, max) \in Nat /\ (max > 0 => Clamp(p.index, max) < max) /\ (max = 0 => Clamp(p.index, max) = 0)
  <2>1. p.index \in Int
    BY <1>3
  <2> QED BY <1>3, <2>1, ClampIn
<1>5. palette' = IF p.index >= max THEN [p EXCEPT !.index = Clamp(p.index, max)] ELSE p
  BY DEF Rerendered, ClampSelection, max
<1>6. CASE p.index >= max
  <2>1. Clamp(p.index, max) \in 0..MaxRows
    BY <1>3, <1>4, PaletteAssumption
  <2>2. palette' \in PaletteStates /\ palette'.index = Clamp(p.index, max)
    BY <1>5, <1>6, <2>1 DEF PaletteStates
  <2> QED BY <1>1, <1>2, <1>3, <1>4, <2>2 DEF PaletteInv, PaletteTypeOK, CursorOnARow, PaletteStates, max
<1>7. CASE ~(p.index >= max)
  BY <1>1, <1>2, <1>3, <1>5, <1>7 DEF PaletteInv, PaletteTypeOK, CursorOnARow, PaletteStates, max
<1> QED BY <1>6, <1>7

LEMMA PaletteStep == PaletteInv /\ [PaletteNext]_paletteVars => PaletteInv'
<1> SUFFICES ASSUME PaletteInv, [PaletteNext]_paletteVars PROVE PaletteInv'
  OBVIOUS
<1>a. palette \in PaletteStates /\ rows \in RowLists /\ deferred \in Items \cup {NoItem} /\ CursorOnARow
  BY DEF PaletteInv, PaletteTypeOK, PaletteStates
<1>b. /\ Len(rows) \in 0..MaxRows /\ DOMAIN rows = 1..Len(rows) /\ rows \in Seq(Items)
      /\ rows = <<>> <=> Len(rows) = 0
  BY <1>a, RowsAre
<1>c. [palette EXCEPT !.open = FALSE] \in PaletteStates
  BY <1>a DEF PaletteStates
<1>1. CASE OpenPalette
  <2>1. [open |-> TRUE, query |-> FALSE, index |-> 0] \in PaletteStates
    BY PaletteAssumption DEF PaletteStates
  <2> QED BY <1>1, <1>a, <2>1, RenderedCursor DEF OpenPalette
<1>2. CASE ClosePalette
  BY <1>2, <1>a, <1>c, RenderedCursor DEF ClosePalette
<1>3. CASE ItemsChange
  BY <1>3, <1>a, RenderedCursor DEF ItemsChange
<1>4. CASE PressEnter
  BY <1>4, <1>a, <1>b, <1>c, RenderedCursor DEF PressEnter
<1>5. CASE Deferred
  BY <1>5, <1>a DEF Deferred, PaletteInv, PaletteTypeOK, CursorOnARow, PaletteStates
<1>6. ASSUME NEW q \in BOOLEAN, TypeQuery(q) PROVE PaletteInv'
  <2>1. 0 \in 0..MaxRows
    BY PaletteAssumption
  <2>2. [palette EXCEPT !.query = q] \in PaletteStates
    BY <1>a DEF PaletteStates
  <2>3. [palette EXCEPT !.query = q, !.index = 0] \in PaletteStates
    BY <2>1, <2>2 DEF PaletteStates
  <2> QED BY <1>6, <1>a, <2>3, RenderedCursor DEF TypeQuery
<1>7. ASSUME NEW d \in {-1, 1}, Arrow(d) PROVE PaletteInv'
  <2> DEFINE i == Clamp(palette.index + d, Len(rows))
  <2>1. Len(rows) \in Nat /\ Len(rows) <= MaxRows /\ palette.index + d \in Int
    BY <1>a, <1>b, PaletteAssumption DEF PaletteStates
  <2>2. i \in Nat /\ (Len(rows) > 0 => i < Len(rows)) /\ (Len(rows) = 0 => i = 0)
    BY <2>1, ClampIn
  <2>3. palette' = [palette EXCEPT !.index = i] /\ UNCHANGED <<rows, deferred>>
    BY <1>7 DEF Arrow, MoveSelection
  <2> HIDE DEF i
  <2>4. i \in 0..MaxRows
    BY <2>1, <2>2, PaletteAssumption
  <2>5. palette' \in PaletteStates /\ palette'.index = i
    BY <1>a, <2>3, <2>4 DEF PaletteStates
  <2>6. PaletteTypeOK'
    BY <1>a, <2>3, <2>5 DEF PaletteTypeOK, PaletteStates
  <2>7. CursorOnARow'
    BY <1>b, <2>1, <2>2, <2>3, <2>5 DEF CursorOnARow
  <2> QED BY <2>6, <2>7 DEF PaletteInv
<1>8. ASSUME NEW i \in 1..MaxRows, HoverRow(i) PROVE PaletteInv'
  <2>1. i \in 1..Len(rows) /\ palette' = [palette EXCEPT !.index = i - 1] /\ UNCHANGED <<rows, deferred>>
    BY <1>8, <1>b DEF HoverRow
  <2>2. i - 1 \in 0..MaxRows /\ i \in Nat
    BY <1>8, PaletteAssumption
  <2>3. palette' \in PaletteStates /\ palette'.index = i - 1
    BY <1>a, <2>1, <2>2 DEF PaletteStates
  <2>4. PaletteTypeOK'
    BY <1>a, <2>1, <2>3 DEF PaletteTypeOK, PaletteStates
  <2>5. CursorOnARow'
    BY <1>b, <2>1, <2>2, <2>3 DEF CursorOnARow
  <2> QED BY <2>4, <2>5 DEF PaletteInv
<1>9. ASSUME NEW i \in 1..MaxRows, ClickRow(i) PROVE PaletteInv'
  BY <1>9, <1>a, <1>b, <1>c, RenderedCursor DEF ClickRow
<1>10. CASE UNCHANGED paletteVars
  BY <1>10 DEF paletteVars, PaletteInv, PaletteTypeOK, CursorOnARow
<1> QED BY <1>1, <1>2, <1>3, <1>4, <1>5, <1>6, <1>7, <1>8, <1>9, <1>10 DEF PaletteNext

LEMMA PaletteInductive == PaletteSpec => []PaletteInv
  BY PaletteInitially, PaletteStep, PTL DEF PaletteSpec

\* The cursor of paletteReducer and the rows of CommandPalette stay typed, for any
\* items and any length of the list.
THEOREM PaletteTypeCorrect == PaletteSpec => []PaletteTypeOK
<1>1. PaletteInv => PaletteTypeOK
  BY DEF PaletteInv
<1> QED BY <1>1, PaletteInductive, PTL

\* After any keys, queries and changes of the items under the cursor, a row of the
\* palette is highlighted whenever there is one: clampSelection follows every change.
THEOREM CursorOnARowAlways == PaletteSpec => []CursorOnARow
<1>1. PaletteInv => CursorOnARow
  BY DEF PaletteInv
<1> QED BY <1>1, PaletteInductive, PTL

-----------------------------------------------------------------------------
(* Diagram.                                                                *)

Diagrams == [mounted : BOOLEAN, selection : SUBSET DiagramTables,
             selectorOpen : BOOLEAN, picks : SUBSET DiagramTables]

IsCanvas(c) ==
  /\ c = [highlightedId |-> c.highlightedId, groups |-> c.groups, edges |-> c.edges, dim |-> c.dim]
  /\ c.highlightedId \in DiagramTables \cup {NoSchema}

\* The canvas is what the effects draw for the selection, from whichever groups.
DrawnFor(c, s, selection) ==
  IF s.tables = {} \/ selection = {} THEN c = BlankCanvas
  ELSE /\ DOMAIN c.groups = Visible(s, selection)
       /\ c.edges = BuildEdges(s, selection)
       /\ c.dim = Dimmed(c.highlightedId, c.groups, c.edges)

\* Every group was drawn for the schema s.
Own(c, s) == \A t \in DOMAIN c.groups : c.groups[t] = [badge |-> t \in DetectJunctionTables(s), of |-> s]

\* A canvas that is mounted was laid out for the schema and the selection of now;
\* as long as the schema was not exchanged, every group is of it.
DiagramInv ==
  /\ source \in DiagramSchemas \cup {NoSchema}
  /\ er \in Diagrams /\ IsCanvas(canvas)
  /\ ~er.mounted => canvas = BlankCanvas
  /\ er.mounted =>
       /\ source \in DiagramSchemas /\ DrawnFor(canvas, source, er.selection)
       /\ ~swapped => Own(canvas, source)

LEMMA CanvasBlank ==
  /\ IsCanvas(BlankCanvas) /\ BlankCanvas.groups = <<>> /\ DOMAIN BlankCanvas.groups = {}
  /\ \A s : Own(BlankCanvas, s)
<1>1. DOMAIN <<>> = {}
  OBVIOUS
<1> QED BY <1>1 DEF IsCanvas, BlankCanvas, Own

LEMMA UnmountedIs == Unmounted \in Diagrams /\ ~Unmounted.mounted
  BY DEF Unmounted, Diagrams

\* The effects, run over groups of a diagram that is or is not this schema's.
LEMMA LayoutDraws ==
  ASSUME NEW c, IsCanvas(c), NEW s, NEW selection
  PROVE  LET n == Layout(s, selection, c) IN
         /\ IsCanvas(n)
         /\ DOMAIN n.groups = Visible(s, selection)
         /\ n.edges = BuildEdges(s, selection)
         /\ n.dim = Dimmed(n.highlightedId, n.groups, n.edges)
         /\ Own(c, s) => Own(n, s)
<1> DEFINE groups == Join(s, selection, c.groups)
           edges == BuildEdges(s, selection)
           dim == Dimmed(c.highlightedId, groups, edges)
           n == Layout(s, selection, c)
<1>1. groups = [t \in Visible(s, selection) |->
                  IF t \in DOMAIN c.groups THEN c.groups[t]
                  ELSE [badge |-> t \in DetectJunctionTables(s), of |-> s]]
  BY DEF Join, BuildNode
<1>2. n = [c EXCEPT !.groups = groups, !.edges = edges, !.dim = dim]
  BY DEF Layout
<1> HIDE DEF groups, edges, dim, n
<1>3. n = [highlightedId |-> c.highlightedId, groups |-> groups, edges |-> edges, dim |-> dim]
  BY <1>2 DEF IsCanvas
<1>4. IsCanvas(n) /\ n.groups = groups /\ n.edges = edges /\ n.dim = dim /\ n.highlightedId = c.highlightedId
  BY <1>3 DEF IsCanvas
<1>5. DOMAIN groups = Visible(s, selection)
  BY <1>1
<1>6. Own(c, s) => Own(n, s)
  BY <1>1, <1>4 DEF Own
<1> QED BY <1>4, <1>5, <1>6 DEF edges, dim, n

LEMMA RenderedDrawn ==
  ASSUME IsCanvas(canvas), NEW s \in DiagramSchemas, NEW e \in Diagrams, e.mounted, Rendered(s, e),
         source' = s, ~swapped' => Own(canvas, s)
  PROVE  DiagramInv'
<1>1. er' \in Diagrams /\ er'.mounted /\ er'.selection = e.selection
  BY DEF Rendered, Diagrams
<1>2. CASE s.tables = {} \/ e.selection = {}
  <2>1. canvas' = BlankCanvas
    BY <1>2 DEF Rendered
  <2> QED BY <1>1, <1>2, <2>1, CanvasBlank DEF DiagramInv, DrawnFor
<1>3. CASE ~(s.tables = {} \/ e.selection = {})
  <2>1. canvas' = Layout(s, e.selection, canvas)
    BY <1>3 DEF Rendered
  <2>2. /\ IsCanvas(canvas')
        /\ DOMAIN canvas'.groups = Visible(s, e.selection)
        /\ canvas'.edges = BuildEdges(s, e.selection)
        /\ canvas'.dim = Dimmed(canvas'.highlightedId, canvas'.groups, canvas'.edges)
        /\ Own(canvas, s) => Own(canvas', s)
    BY <2>1, LayoutDraws
  <2>3. DrawnFor(canvas', s, e.selection)
    BY <1>3, <2>2 DEF DrawnFor
  <2> QED BY <1>1, <2>2, <2>3 DEF DiagramInv
<1> QED BY <1>2, <1>3

LEMMA ShownDraws ==
  ASSUME DiagramInv, NEW s \in DiagramSchemas \cup {NoSchema}, NEW v, Shown(s, v)
  PROVE  DiagramInv'
<1>1. CASE er' = Unmounted /\ canvas' = BlankCanvas
  BY <1>1, CanvasBlank, UnmountedIs DEF Shown, DiagramInv
<1>2. CASE s # NoSchema /\ ~er.mounted /\ Rendered(s, FreshDiagram(s)) /\ swapped' = FALSE
  <2>1. s \in DiagramSchemas /\ s.tables \subseteq DiagramTables
    BY <1>2 DEF DiagramTables
  <2>2. FreshDiagram(s) \in Diagrams /\ FreshDiagram(s).mounted
    BY <2>1 DEF FreshDiagram, Diagrams
  <2>3. IsCanvas(canvas) /\ Own(canvas, s)
    BY <1>2, CanvasBlank DEF DiagramInv
  <2> QED BY <1>2, <2>1, <2>2, <2>3, RenderedDrawn DEF Shown
<1>3. CASE /\ s # NoSchema /\ er.mounted /\ swapped' = TRUE
           /\ Rendered(s, IF source.tables = {} THEN [er EXCEPT !.picks = @ \cup er.selection] ELSE er)
  <2> DEFINE e == IF source.tables = {} THEN [er EXCEPT !.picks = @ \cup er.selection] ELSE er
  <2>1. e \in Diagrams /\ e.mounted
    BY <1>3 DEF DiagramInv, Diagrams
  <2>2. s \in DiagramSchemas /\ Rendered(s, e) /\ source' = s /\ IsCanvas(canvas)
    BY <1>3 DEF Shown, DiagramInv
  <2> HIDE DEF e
  <2> QED BY <1>3, <2>1, <2>2, RenderedDrawn
<1>4. CASE er.mounted /\ s = source /\ UNCHANGED <<er, canvas, swapped>>
  BY <1>4 DEF Shown, DiagramInv
<1> QED BY <1>1, <1>2, <1>3, <1>4 DEF Shown

LEMMA HighlightedDraws ==
  ASSUME DiagramInv, canvas.groups # <<>>, NEW id \in DiagramTables \cup {NoSchema},
         canvas' = Highlighted(canvas, id), UNCHANGED <<source, screen, er, swapped>>
  PROVE  DiagramInv'
<1>1. /\ er.mounted /\ IsCanvas(canvas) /\ ~(source.tables = {} \/ er.selection = {})
      /\ DrawnFor(canvas, source, er.selection)
  BY CanvasBlank DEF DiagramInv, DrawnFor
<1>2. canvas' = [highlightedId |-> id, groups |-> canvas.groups, edges |-> canvas.edges,
                 dim |-> Dimmed(id, canvas.groups, canvas.edges)]
  BY <1>1 DEF Highlighted, IsCanvas
<1>3. IsCanvas(canvas') /\ DrawnFor(canvas', source, er.selection)
  BY <1>1, <1>2 DEF IsCanvas, DrawnFor
<1>4. Own(canvas, source) => Own(canvas', source)
  BY <1>2 DEF Own
<1> QED BY <1>1, <1>3, <1>4 DEF DiagramInv

LEMMA DiagramInitially == DiagramInit => DiagramInv
  BY CanvasBlank, UnmountedIs DEF DiagramInit, DiagramInv

LEMMA DiagramStep == DiagramInv /\ [DiagramNext]_diagramVars => DiagramInv'
<1> SUFFICES ASSUME DiagramInv, [DiagramNext]_diagramVars PROVE DiagramInv'
  OBVIOUS
<1>a. source \in DiagramSchemas \cup {NoSchema} /\ er \in Diagrams /\ IsCanvas(canvas)
  BY DEF DiagramInv
<1>b. ASSUME Drawable, NEW e \in Diagrams, e.mounted, Rendered(source, e), UNCHANGED <<source, screen, swapped>>
      PROVE  DiagramInv'
  <2>1. source \in DiagramSchemas /\ (~swapped => Own(canvas, source))
    BY <1>b DEF Drawable, DiagramInv
  <2> QED BY <1>a, <1>b, <2>1, RenderedDrawn
<1>1. ASSUME NEW s \in DiagramSchemas \cup {NoSchema}, SchemaSwitched(s) PROVE DiagramInv'
  BY <1>1, ShownDraws DEF SchemaSwitched
<1>2. CASE ShowDiagram
  BY <1>2, <1>a, ShownDraws DEF ShowDiagram
<1>3. CASE HideDiagram
  BY <1>3, <1>a, ShownDraws DEF HideDiagram
<1>4. CASE ShortcutHides
  BY <1>4, <1>a, ShownDraws DEF ShortcutHides
<1>5. CASE ShowResult
  BY <1>5, <1>a, ShownDraws DEF ShowResult
<1>6. CASE ClickDiagram
  BY <1>6, <1>a, ShownDraws DEF ClickDiagram
<1>7. CASE OpenSelector
  <2>1. [er EXCEPT !.selectorOpen = TRUE, !.picks = er.selection] \in Diagrams
    BY <1>a DEF Diagrams
  <2>2. [er EXCEPT !.selectorOpen = TRUE, !.picks = er.selection].mounted
    BY <1>7, <1>a DEF Diagrams, OpenSelector, Drawable
  <2> QED BY <1>7, <1>b, <2>1, <2>2 DEF OpenSelector
<1>8. CASE ApplySelection
  <2>1. [er EXCEPT !.selection = er.picks, !.selectorOpen = FALSE] \in Diagrams
    BY <1>a DEF Diagrams
  <2>2. [er EXCEPT !.selection = er.picks, !.selectorOpen = FALSE].mounted
    BY <1>8, <1>a DEF Diagrams, ApplySelection, Drawable
  <2> QED BY <1>8, <1>b, <2>1, <2>2 DEF ApplySelection
<1>9. CASE CancelSelection
  <2>1. [er EXCEPT !.selectorOpen = FALSE] \in Diagrams /\ [er EXCEPT !.selectorOpen = FALSE].mounted
    BY <1>9, <1>a DEF Diagrams, CancelSelection, Drawable
  <2> QED BY <1>9, <1>b, <2>1 DEF CancelSelection
<1>10. CASE ClickEmptyOrReset
  BY <1>10, HighlightedDraws DEF ClickEmptyOrReset
<1>11. ASSUME NEW picks \in SUBSET DiagramTables, Pick(picks) PROVE DiagramInv'
  <2>1. er' = [er EXCEPT !.picks = picks] /\ UNCHANGED <<source, screen, canvas, swapped>>
    BY <1>11 DEF Pick
  <2>2. er' \in Diagrams /\ er'.mounted = er.mounted /\ er'.selection = er.selection
    BY <1>a, <2>1 DEF Diagrams
  <2> QED BY <2>1, <2>2 DEF DiagramInv
<1>12. ASSUME NEW t \in DiagramTables, ClickTable(t) PROVE DiagramInv'
  <2>1. canvas.groups # <<>>
    BY <1>12, CanvasBlank DEF ClickTable, BlankCanvas
  <2> QED BY <1>12, <2>1, HighlightedDraws DEF ClickTable
<1>13. CASE UNCHANGED diagramVars
  BY <1>13 DEF diagramVars, DiagramInv
<1> QED BY <1>1, <1>2, <1>3, <1>4, <1>5, <1>6, <1>7, <1>8, <1>9, <1>10, <1>11, <1>12, <1>13 DEF DiagramNext

LEMMA DiagramInductive == DiagramSpec => []DiagramInv
  BY DiagramInitially, DiagramStep, PTL DEF DiagramSpec

\* Of the rows that qualify, one edge is drawn for every name.
LEMMA EveryNameDrawn ==
  ASSUME NEW s \in DiagramSchemas, NEW selection, NEW i \in DOMAIN s.fks,
         {s.fks[i].source, s.fks[i].target} \subseteq Visible(s, selection)
  PROVE  \E e \in BuildEdges(s, selection) : e.name = s.fks[i].name
<1> DEFINE both == {j \in DOMAIN s.fks : {s.fks[j].source, s.fks[j].target} \subseteq Visible(s, selection)}
           same == {j \in both : s.fks[j].name = s.fks[i].name}
           R == OpToRel(<, Nat)
<1>1. DOMAIN s.fks \subseteq Nat
  BY DiagramAssumption DEF FksOK
<1>2. i \in same /\ same \subseteq both /\ same \subseteq Nat /\ both \subseteq Nat
  BY <1>1
<1>3. PICK j \in same : \A k \in same : <<k, j>> \notin R
  <2> HIDE DEF R, same
  <2>1. IsWellFoundedOn(R, Nat)
    BY NatLessThanWellFounded DEF R
  <2> QED BY <1>2, <2>1, WFMin
<1>4. \A k \in same : ~(k < j)
  BY <1>2, <1>3 DEF OpToRel
<1>5. \A k \in both : k < j => s.fks[k].name # s.fks[j].name
  BY <1>4
<1> QED BY <1>2, <1>5 DEF BuildEdges

LEMMA DrawnShows == DiagramInv => DiagramShowsSelection
<1> SUFFICES ASSUME DiagramInv, canvas.groups # <<>> PROVE DiagramShowsSelection
  BY DEF DiagramShowsSelection
<1>1. /\ er.mounted /\ source \in DiagramSchemas /\ DrawnFor(canvas, source, er.selection)
      /\ ~(source.tables = {} \/ er.selection = {})
      /\ ~swapped => Own(canvas, source)
  BY CanvasBlank DEF DiagramInv, DrawnFor
<1> DEFINE drawn == DOMAIN canvas.groups
<1>2. /\ drawn = Visible(source, er.selection) /\ canvas.edges = BuildEdges(source, er.selection)
      /\ canvas.dim = Dimmed(canvas.highlightedId, canvas.groups, canvas.edges)
  BY <1>1 DEF DrawnFor
<1>3. \A e \in canvas.edges : {e.source, e.target} \subseteq drawn
  <2> TAKE e \in canvas.edges
  <2>1. PICK i \in DOMAIN source.fks :
          /\ {source.fks[i].source, source.fks[i].target} \subseteq Visible(source, er.selection)
          /\ e = source.fks[i]
    BY <1>2 DEF BuildEdges
  <2> QED BY <1>2, <2>1
<1>4. \A i \in DOMAIN source.fks : {source.fks[i].source, source.fks[i].target} \subseteq drawn =>
        \E e \in canvas.edges : e.name = source.fks[i].name
  <2> SUFFICES ASSUME NEW i \in DOMAIN source.fks,
                      {source.fks[i].source, source.fks[i].target} \subseteq Visible(source, er.selection)
               PROVE  \E e \in BuildEdges(source, er.selection) : e.name = source.fks[i].name
    BY <1>2
  <2> QED BY <1>1, EveryNameDrawn
<1>5. \A t \in drawn :
        t \in canvas.dim <=>
          /\ canvas.highlightedId \notin {NoSchema, t}
          /\ \A e \in canvas.edges : {e.source, e.target} # {canvas.highlightedId, t}
  <2> TAKE t \in drawn
  <2> DEFINE id == canvas.highlightedId
  <2>1. canvas.dim = IF id = NoSchema THEN {}
                     ELSE {u \in drawn \ {id} : \A e \in canvas.edges : {e.source, e.target} # {id, u}}
    BY <1>2 DEF Dimmed
  <2> QED BY <2>1
<1>6. ~swapped => \A t \in drawn : canvas.groups[t].of = source
                                    /\ canvas.groups[t].badge = (t \in DetectJunctionTables(source))
  <2> SUFFICES ASSUME ~swapped, NEW t \in drawn
               PROVE  /\ canvas.groups[t].of = source
                      /\ canvas.groups[t].badge = (t \in DetectJunctionTables(source))
    OBVIOUS
  <2>1. canvas.groups[t] = [badge |-> t \in DetectJunctionTables(source), of |-> source]
    BY <1>1 DEF Own
  <2>2. [badge |-> t \in DetectJunctionTables(source), of |-> source].badge = (t \in DetectJunctionTables(source))
    BY Zenon
  <2> QED BY <2>1, <2>2
<1>7. drawn = source.tables \cap er.selection
  BY <1>2 DEF Visible
<1> QED BY <1>3, <1>4, <1>5, <1>6, <1>7 DEF DiagramShowsSelection

\* The picker, the canvas and the schema under them stay typed, for any schemas.
THEOREM DiagramTypeCorrect == DiagramSpec => []DiagramTypeOK
<1>1. DiagramInv => DiagramTypeOK
  BY CanvasBlank DEF DiagramInv, DiagramTypeOK, Diagrams, IsCanvas, DrawnFor, Visible, DiagramTables
<1> QED BY <1>1, DiagramInductive, PTL

\* After any picking, dropping, highlighting and exchange of the schema, the nodes,
\* edges and dimming on the DiagramCanvas are those of the selected tables.
THEOREM DiagramShowsSelectionAlways == DiagramSpec => []DiagramShowsSelection
  BY DrawnShows, DiagramInductive, PTL

-----------------------------------------------------------------------------
(* GridView.                                                               *)

\* The rows on display.
LEMMA RowsOnDisplay ==
  ASSUME view \in Views, Branch(view) = "grid"
  PROVE  /\ Result.rows \in Seq([DOMAIN Result.columns -> Nat \cup {NullCell}])
         /\ DOMAIN Result.rows = 1..Len(Result.rows) /\ Len(Result.rows) \in Nat
<1>1. /\ view.activeResult \in Nat \cup {-2, -1} /\ DOMAIN view.results = 1..Len(view.results)
      /\ \A r \in Range(view.results) : r.rows \in Seq([DOMAIN r.columns -> Nat \cup {NullCell}])
  BY GridViewAssumption
<1>2. view.activeResult \in 0..(Len(view.results) - 1)
  BY <1>1 DEF Branch
<1>3. view.activeResult + 1 \in DOMAIN view.results
  BY <1>1, <1>2
<1>4. Result \in Range(view.results)
  BY <1>3 DEF Result, ActiveResult, Range
<1>5. Result.rows \in Seq([DOMAIN Result.columns -> Nat \cup {NullCell}])
  BY <1>1, <1>4
<1> QED BY <1>5, LenProperties

LEMMA CellsNumbers ==
  ASSUME view \in Views, Branch(view) = "grid"
  PROVE  Cells \subseteq Nat
<1> DEFINE all == Result.rows
           C == DOMAIN Result.columns
<1>1. all \in Seq([C -> Nat \cup {NullCell}])
  BY RowsOnDisplay
<1> HIDE DEF all, C
<1>2. \A row \in Range(all) : row \in [C -> Nat \cup {NullCell}]
  BY <1>1 DEF Range
<1>3. \A row \in Range(all) : \A x \in Range(row) : x \in Nat \cup {NullCell}
  BY <1>2 DEF Range
<1> QED BY <1>3 DEF Cells, all

\* The rows that the filter finds.
Found ==
  {i \in DOMAIN Result.rows :
     \/ debounced = NoFilter
     \/ i <= FilterLimit /\ \E c \in DOMAIN Result.rows[i] : Result.rows[i][c] = debounced}

\* What a list of rows by their index is: as they came, and all of them.
InOrder(v, S) ==
  /\ DOMAIN v = 1..Len(v) /\ Len(v) \in Nat /\ Range(v) = S
  /\ \A p, q \in DOMAIN v : p < q => v[p] < v[q]

LEMMA FilteredInOrder ==
  ASSUME view \in Views, Branch(view) = "grid"
  PROVE  InOrder(FilteredRows, Found) /\ Found \in SUBSET (Nat \ {0}) /\ IsFiniteSet(Found)
<1> DEFINE n == Len(Result.rows)
           all == [i \in 1..n |-> i]
<1>1. n \in Nat /\ DOMAIN Result.rows = 1..n
  BY RowsOnDisplay
<1> HIDE DEF n
<1>2. all \in Seq(1..n) /\ Len(all) = n /\ DOMAIN all = 1..n /\ \A i \in 1..n : all[i] = i
  BY <1>1
<1>3. Found \in SUBSET (1..n)
  BY <1>1 DEF Found
<1>4. Found \in SUBSET (Nat \ {0}) /\ IsFiniteSet(Found)
  <2>1. IsFiniteSet(1..n)
    BY <1>1, FS_Interval
  <2>2. IsFiniteSet(Found)
    BY <1>3, <2>1, FS_Subset
  <2> QED BY <1>1, <1>3, <2>2
<1>5. CASE debounced = NoFilter
  <2>1. FilteredRows = all /\ Found = 1..n
    BY <1>1, <1>5 DEF FilteredRows, Found
  <2>2. InOrder(all, 1..n)
    BY <1>1, <1>2 DEF InOrder, Range
  <2> QED BY <1>4, <2>1, <2>2
<1>6. CASE debounced # NoFilter
  <2> DEFINE V == {i \in DOMAIN Result.rows : i <= FilterLimit /\ debounced \in Range(Result.rows[i])}
             v == Only(all, V)
  <2>1. FilteredRows = v
    BY <1>1, <1>6 DEF FilteredRows
  <2>2. V = Found
    BY <1>6 DEF Found, Range
  <2> HIDE DEF V, all
  <2>3. At(all, V) = V
    BY <1>2, <1>3, <2>2 DEF At
  <2> DEFINE c == Cardinality(At(all, V))
  <2>4. /\ c \in Nat
        /\ v = [m \in 1..c |-> all[Nth(all, V, m)]]
        /\ \A m \in 1..c : Nth(all, V, m) \in At(all, V)
        /\ \A l, m \in 1..c : l < m => Nth(all, V, l) < Nth(all, V, m)
        /\ \A i \in At(all, V) : Rank(At(all, V), i) \in 1..c /\ Nth(all, V, Rank(At(all, V), i)) = i
    BY <1>2, Placed
  <2> HIDE DEF c, v
  <2>5. v = [m \in 1..c |-> Nth(all, V, m)] /\ \A m \in 1..c : Nth(all, V, m) \in V
    BY <1>2, <1>3, <2>2, <2>3, <2>4
  <2>6. \A i \in V : \E m \in 1..c : v[m] = i
    BY <2>3, <2>4, <2>5
  <2>7. v \in Seq(V) /\ DOMAIN v = 1..c /\ Len(v) = c
    BY <2>4, <2>5
  <2>8. Range(v) = V
    BY <2>5, <2>6, <2>7 DEF Range
  <2>9. \A p, q \in DOMAIN v : p < q => v[p] < v[q]
    BY <2>4, <2>5, <2>7
  <2> QED BY <1>4, <2>1, <2>2, <2>4, <2>7, <2>8, <2>9 DEF InOrder
<1> QED BY <1>5, <1>6

\* What Precedes says of two rows with the cells a and b.
LEMMA Compared ==
  ASSUME NEW i \in Nat, NEW j \in Nat, Key(i) \in Nat \cup {NullCell}, Key(j) \in Nat \cup {NullCell}
  PROVE  Precedes(i, j) <=>
           \/ Key(i) # NullCell /\ Key(j) = NullCell
           \/ Key(i) = Key(j) /\ i < j
           \/ /\ Key(i) # NullCell /\ Key(j) # NullCell
              /\ IF sorting.desc THEN Key(j) < Key(i) ELSE Key(i) < Key(j)
<1> DEFINE a == Key(i)
           b == Key(j)
<1>1. a \in Nat \cup {-1} /\ b \in Nat \cup {-1} /\ NullCell = -1
  BY DEF NullCell
<1>2. Precedes(i, j) <=>
        LET c == Compare(a, b, sorting.desc) IN c < 0 \/ (c = 0 /\ i < j)
  BY DEF Precedes
<1> HIDE DEF a, b
<1>3. CASE a = NullCell \/ b = NullCell
  BY <1>1, <1>2, <1>3 DEF Compare, a, b
<1>4. CASE a # NullCell /\ b # NullCell
  <2>1. Compare(a, b, sorting.desc) = IF sorting.desc THEN b - a ELSE a - b
    BY <1>4 DEF Compare
  <2> QED BY <1>1, <1>2, <1>4, <2>1 DEF a, b
<1> QED BY <1>3, <1>4

LEMMA KeysTyped ==
  ASSUME view \in Views, Branch(view) = "grid", Sorted, NEW i \in Found
  PROVE  Key(i) \in Nat \cup {NullCell}
<1>1. Result.rows[i] \in [DOMAIN Result.columns -> Nat \cup {NullCell}]
  BY RowsOnDisplay DEF Found
<1> QED BY <1>1 DEF Key, Sorted

LEMMA PrecedesOrders ==
  ASSUME view \in Views, Branch(view) = "grid", Sorted
  PROVE  Orders({p \in Found \X Found : Precedes(p[1], p[2])}, Found)
<1>1. \A i \in Found : i \in Nat /\ Key(i) \in Nat \cup {-1}
  BY FilteredInOrder, KeysTyped DEF NullCell
<1> DEFINE R == {p \in Found \X Found : Precedes(p[1], p[2])}
<1>2. \A i, j \in Found : <<i, j>> \in R <=>
           \/ Key(i) # -1 /\ Key(j) = -1
           \/ Key(i) = Key(j) /\ i < j
           \/ /\ Key(i) # -1 /\ Key(j) # -1
              /\ IF sorting.desc THEN Key(j) < Key(i) ELSE Key(i) < Key(j)
  <2> TAKE i \in Found, j \in Found
  <2>1. <<i, j>> \in R <=> Precedes(i, j)
    OBVIOUS
  <2> QED BY <1>1, <2>1, Compared DEF NullCell
<1> HIDE DEF R
<1>3. Orders(R, Found)
  BY <1>1, <1>2 DEF Orders
<1> QED BY <1>3 DEF R

\* Every list the grid may show.
LEMMA ShownRows ==
  ASSUME view \in Views, Branch(view) = "grid", NEW v \in SortedRows
  PROVE  /\ DOMAIN v \subseteq Nat /\ Range(v) = Found
         /\ \A p, q \in DOMAIN v : v[p] = v[q] => p = q
         /\ ~Sorted => \A p, q \in DOMAIN v : p < q => v[p] < v[q]
         /\ Sorted /\ Comparable(FilteredRows) => \A p, q \in DOMAIN v : p < q => Precedes(v[p], v[q])
<1>1. InOrder(FilteredRows, Found) /\ Found \in SUBSET (Nat \ {0}) /\ IsFiniteSet(Found)
  BY FilteredInOrder
<1>2. Range(FilteredRows) = Found
  BY <1>1 DEF InOrder
<1>3. CASE ~Sorted
  <2>1. v = FilteredRows
    BY <1>3 DEF SortedRows
  <2>2. DOMAIN v = 1..Len(v) /\ Len(v) \in Nat /\ Range(v) = Found /\ \A p, q \in DOMAIN v : p < q => v[p] < v[q]
    BY <1>1, <2>1 DEF InOrder
  <2>3. \A p \in DOMAIN v : v[p] \in Nat
    BY <1>1, <2>2 DEF Range
  <2>4. \A p, q \in DOMAIN v : p \in Nat /\ q \in Nat
    BY <2>2
  <2>5. \A p, q \in DOMAIN v : v[p] = v[q] => p = q
    BY <2>2, <2>3, <2>4
  <2> QED BY <1>3, <2>2, <2>4, <2>5
<1>4. CASE Sorted /\ ~Comparable(FilteredRows)
  <2> DEFINE c == Cardinality(Found)
  <2>1. v \in [1..c -> Found] /\ \A p, q \in 1..c : p # q => v[p] # v[q]
    BY <1>2, <1>4 DEF SortedRows, SetToSeqs
  <2>2. c \in Nat
    BY <1>1, FS_CardinalityType
  <2>3. IsFiniteSet(1..c) /\ Cardinality(1..c) = c
    BY <2>2, FS_Interval
  <2>4. v \in Injection(1..c, Found)
    BY <2>1 DEF Injection, IsInjective
  <2>5. v \in Surjection(1..c, Found)
    BY <1>1, <2>3, <2>4, FS_Injection
  <2>6. Range(v) = Found
    BY <2>1, <2>5 DEF Surjection, Range
  <2> QED BY <1>4, <2>1, <2>2, <2>6
<1>5. CASE Sorted /\ Comparable(FilteredRows)
  <2> DEFINE R == {p \in Found \X Found : Precedes(p[1], p[2])}
             c == Cardinality(Found)
  <2>1. v = SortedBy(Found, R)
    BY <1>2, <1>5 DEF SortedRows
  <2>2. Orders(R, Found)
    BY <1>5, PrecedesOrders
  <2>3. \A i, j \in Found : <<i, j>> \in R => Precedes(i, j) /\ ~(i = j)
    BY <2>2 DEF Orders
  <2> HIDE DEF R
  <2>4. /\ c \in Nat /\ v \in [1..c -> Found]
        /\ \A p, q \in 1..c : p < q => <<v[p], v[q]>> \in R
        /\ \A i \in Found : \E n \in 1..c : v[n] = i
    BY <1>1, <2>1, <2>2, SortedByProperties
  <2> HIDE DEF c
  <2>5. Range(v) = Found /\ DOMAIN v = 1..c
    BY <2>4 DEF Range
  <2>6. \A p, q \in 1..c : p < q => Precedes(v[p], v[q]) /\ v[p] # v[q]
    BY <2>3, <2>4
  <2>7. \A p, q \in 1..c : v[p] = v[q] => p = q
    BY <2>4, <2>6
  <2> QED BY <1>5, <2>4, <2>5, <2>6, <2>7
<1> QED BY <1>3, <1>4, <1>5

\* The view on display is one that a tab may have to show.
THEOREM GridTypeCorrect == GridViewSpec => []GridViewTypeOK
<1>1. GridViewInit => GridViewTypeOK
  BY GridViewAssumption DEF GridViewInit, GridViewTypeOK
<1>2. GridViewTypeOK /\ [GridViewNext]_gridViewVars => GridViewTypeOK'
  <2> SUFFICES ASSUME GridViewTypeOK, [GridViewNext]_gridViewVars PROVE GridViewTypeOK'
    OBVIOUS
  <2>1. ASSUME NEW v \in Views, Display(v) PROVE GridViewTypeOK'
    BY <2>1 DEF Display, GridViewTypeOK
  <2>2. ASSUME Branch(view) = "grid", NEW text \in Cells \cup {NoFilter}, TypeFilter(text) PROVE GridViewTypeOK'
    <3>1. Cells \subseteq Nat
      BY <2>2, CellsNumbers DEF GridViewTypeOK
    <3> QED BY <2>2, <3>1 DEF TypeFilter, GridViewTypeOK
  <2>3. ASSUME NEW s, Sort(s) PROVE GridViewTypeOK'
    BY <2>3 DEF Sort, GridViewTypeOK
  <2>4. CASE DebounceFires
    BY <2>4 DEF DebounceFires, GridViewTypeOK
  <2>5. CASE UNCHANGED gridViewVars
    BY <2>5 DEF gridViewVars, GridViewTypeOK
  <2> QED BY <2>1, <2>2, <2>3, <2>4, <2>5 DEF GridViewNext
<1> QED BY <1>1, <1>2, PTL DEF GridViewSpec

\* Whatever was typed, clicked and switched before, the rows of the grid are those
\* of the result on display that the filter finds, each once, in the order that
\* the header asks for.
THEOREM ViewIsOfRowsAlways == GridViewSpec => []ViewIsOfRows
<1>1. GridViewTypeOK => ViewIsOfRows
  <2> SUFFICES ASSUME GridViewTypeOK, Branch(view) = "grid", NEW v \in SortedRows
               PROVE  /\ Range(v) = Found /\ \A p, q \in DOMAIN v : v[p] = v[q] => p = q
                      /\ \A p, q \in DOMAIN v : p < q =>
                           IF ~Sorted THEN v[p] < v[q]
                           ELSE Comparable(FilteredRows) =>
                                  /\ Key(v[p]) = NullCell => Key(v[q]) = NullCell
                                  /\ Key(v[p]) # NullCell /\ Key(v[q]) # NullCell =>
                                       IF sorting.desc THEN Key(v[p]) >= Key(v[q]) ELSE Key(v[p]) <= Key(v[q])
                                  /\ Key(v[p]) = Key(v[q]) => v[p] < v[q]
    BY Zenon DEF ViewIsOfRows, Found
  <2>1. view \in Views
    BY DEF GridViewTypeOK
  <2>2. /\ Range(v) = Found
        /\ \A p, q \in DOMAIN v : v[p] = v[q] => p = q
        /\ ~Sorted => \A p, q \in DOMAIN v : p < q => v[p] < v[q]
        /\ Sorted /\ Comparable(FilteredRows) => \A p, q \in DOMAIN v : p < q => Precedes(v[p], v[q])
    BY <2>1, ShownRows
  <2>3. \A p \in DOMAIN v : v[p] \in Found
    BY <2>2 DEF Range
  <2>4. ASSUME Sorted, Comparable(FilteredRows), NEW p \in DOMAIN v, NEW q \in DOMAIN v, p < q
        PROVE  /\ Key(v[p]) = NullCell => Key(v[q]) = NullCell
               /\ Key(v[p]) # NullCell /\ Key(v[q]) # NullCell =>
                    IF sorting.desc THEN Key(v[p]) >= Key(v[q]) ELSE Key(v[p]) <= Key(v[q])
               /\ Key(v[p]) = Key(v[q]) => v[p] < v[q]
    <3> DEFINE i == v[p]
               j == v[q]
    <3>1. i \in Found /\ j \in Found /\ Precedes(i, j)
      BY <2>2, <2>3, <2>4
    <3> HIDE DEF i, j
    <3>2. i \in Nat /\ j \in Nat /\ Key(i) \in Nat \cup {NullCell} /\ Key(j) \in Nat \cup {NullCell}
      BY <2>1, <2>4, <3>1, FilteredInOrder, KeysTyped
    <3>3. \/ Key(i) # NullCell /\ Key(j) = NullCell
          \/ Key(i) = Key(j) /\ i < j
          \/ /\ Key(i) # NullCell /\ Key(j) # NullCell
             /\ IF sorting.desc THEN Key(j) < Key(i) ELSE Key(i) < Key(j)
      BY <3>1, <3>2, Compared
    <3>4. /\ Key(i) = NullCell => Key(j) = NullCell
          /\ Key(i) # NullCell /\ Key(j) # NullCell =>
               IF sorting.desc THEN Key(i) >= Key(j) ELSE Key(i) <= Key(j)
          /\ Key(i) = Key(j) => i < j
      BY <3>2, <3>3 DEF NullCell
    <3> QED BY <3>4 DEF i, j
  <2> QED BY <2>2, <2>4
<1> QED BY <1>1, GridTypeCorrect, PTL

-----------------------------------------------------------------------------
(* The panels together.                                                    *)

\* Each component takes its own steps or stutters; the panel is as fair as alone.
LEMMA PanelsSteps ==
  Spec => /\ ActivitySpec /\ EditorSpec /\ HistorySpec /\ DiagramSpec /\ PaletteSpec
          /\ GridViewSpec /\ ExecSpec
<1>1. Init => /\ ActivityInit /\ EditorInit /\ HistoryInit /\ DiagramInit /\ PaletteInit
              /\ GridViewInit /\ ExecInit
  BY DEF Init
<1>2. [Next]_panelsVars => [ActivityNext]_activityVars
  BY DEF Next, panelsVars
<1>3. [Next]_panelsVars => [EditorNext]_editorVars
  BY DEF Next, panelsVars
<1>4. [Next]_panelsVars => [HistoryNext]_historyVars
  BY DEF Next, panelsVars
<1>5. [Next]_panelsVars => [DiagramNext]_diagramVars
  BY DEF Next, panelsVars
<1>6. [Next]_panelsVars => [PaletteNext]_paletteVars
  BY DEF Next, panelsVars
<1>7. [Next]_panelsVars => [GridViewNext]_gridViewVars
  BY DEF Next, panelsVars
<1>8. [Next]_panelsVars => [ExecNext]_execVars
  BY DEF Next, panelsVars
<1> QED BY <1>1, <1>2, <1>3, <1>4, <1>5, <1>6, <1>7, <1>8, PTL
        DEF Spec, ActivitySpec, EditorSpec, HistorySpec, DiagramSpec, PaletteSpec, GridViewSpec, ExecSpec

\* The state of every component is of its type, whichever of them is in use.
THEOREM PanelsTypeCorrect == Spec => []TypeOK
<1>1. ActivityTypeOK /\ EditorTypeOK /\ HistoryTypeOK /\ DiagramTypeOK /\ PaletteTypeOK
        /\ GridViewTypeOK /\ ExecTypeOK => TypeOK
  BY DEF TypeOK
<1> QED BY <1>1, PanelsSteps, ActivityTypeCorrect, EditorTypeCorrect, HistoryTypeCorrect, DiagramTypeCorrect,
           PaletteTypeCorrect, GridTypeCorrect, ExecTypeCorrect, PTL

\* The plan, which rests without a document while another panel is in use.
PlanOrNone ==
  /\ focus = "plan" => PlanInv
  /\ focus # "plan" => results = <<>> /\ plan = <<>>

LEMMA PlanInPanels == Spec => []PlanAccountsForRun
<1>1. Init => PlanOrNone
  BY PlanInitially DEF Init, PlanOrNone
<1>2. PlanOrNone /\ [Next]_panelsVars => PlanOrNone'
  <2> SUFFICES ASSUME PlanOrNone, [Next]_panelsVars PROVE PlanOrNone'
    OBVIOUS
  <2>1. focus' = focus
    BY DEF Next, panelsVars
  <2>2. CASE focus = "plan"
    <3>1. [PlanNext]_planVars
      BY DEF Next, panelsVars
    <3>2. PlanInv'
      BY <2>2, <3>1, PlanStep DEF PlanOrNone
    <3> QED BY <2>1, <2>2, <3>2 DEF PlanOrNone
  <2>3. CASE focus # "plan"
    <3>1. UNCHANGED planVars
      BY <2>3 DEF Next, panelsVars
    <3> QED BY <2>1, <2>3, <3>1 DEF PlanOrNone, planVars
  <2> QED BY <2>2, <2>3
<1>3. PlanOrNone => PlanAccountsForRun
  <2>1. results = <<>> /\ plan = <<>> => PlanAccountsForRun
    BY DEF PlanAccountsForRun
  <2> QED BY <2>1, PlanSuffices DEF PlanOrNone
<1> QED BY <1>1, <1>2, <1>3, PTL DEF Spec

\* And each panel keeps what it promises, whichever of them is in use: spinners and
\* kills, the text of every tab, the history, the plan, the diagram, the palette, the
\* grid, and the answers of the executor.
THEOREM PanelsKeepTheirPromises ==
  Spec => /\ []ActivityLoadingExplained /\ []KillsWhereListed /\ []TextsKept /\ []HistoryOfActive
          /\ []PlanAccountsForRun /\ []DiagramShowsSelection /\ []CursorOnARow /\ []ViewIsOfRows
          /\ []AnswerAccountsForRun
  BY PanelsSteps, SpinnerAnswered, KillsAtHome, EachItsOwnText, HistoryKept, PlanInPanels,
     DiagramShowsSelectionAlways, CursorOnARowAlways, ViewIsOfRowsAlways, AnswerAccountsForRunAlways, PTL
=============================================================================
