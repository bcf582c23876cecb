-------------------------------- MODULE Tabs --------------------------------
(***************************************************************************)
(* The tab strip of the editor: the pure reducer of state/tabsReducer.ts.  *)
(*                                                                         *)
(* A workspace is a record                                                 *)
(*   order   the ids of the open tabs, left to right (the order of the     *)
(*           array `tabs`),                                                *)
(*   active  activeTabId,                                                  *)
(*   tab     the tab record of every open id.                              *)
(* What a tab record holds is left to the module that uses this one: each  *)
(* reducer case takes the update it merges as an operator F.  A dispatch   *)
(* is an application of one of these operators, and a handler that         *)
(* dispatches twice composes two of them.                                  *)
(***************************************************************************)
EXTENDS Integers, Sequences, SequencesExt

CONSTANTS
  TabIds,     \* ids createTab() can hand out, "tab-1" included
  FirstTab,   \* "tab-1", the tab of a fresh workspace
  Null        \* TypeScript's null

ASSUME TabsAssumption ==
  /\ FirstTab \in TabIds
  /\ Null \notin TabIds

OpenTabs(s) == DOMAIN s.tab

\* The state the application starts in: one blank tab, active.
InitTabs(blank) ==
  [order |-> <<FirstTab>>, active |-> FirstTab, tab |-> [t \in {FirstTab} |-> blank]]

SetActive(s, id) == [s EXCEPT !.active = id]

\* A no-op when no open tab has this id: the tab was closed in the meantime.
UpdateTab(s, id, F(_)) ==
  [s EXCEPT !.tab = [t \in DOMAIN @ |-> IF t = id THEN F(@[t]) ELSE @[t]]]

\* Resolves the active tab when the action is reduced, not when it was created.
UpdateActiveTab(s, F(_)) == UpdateTab(s, s.active, F)

AppendActivate(s, id, new) ==
  [order  |-> Append(s.order, id),
   active |-> id,
   tab    |-> [t \in OpenTabs(s) \cup {id} |-> IF t = id THEN new ELSE s.tab[t]]]

IndexOf(s, id) == CHOOSE i \in 1..Len(s.order) : s.order[i] = id

\* Mutant of Close: the active id is not moved off the closed tab.
CloseKeepingActive(s, id) ==
  IF Len(s.order) <= 1 \/ id \notin OpenTabs(s)
  THEN s
  ELSE [order  |-> RemoveAt(s.order, IndexOf(s, id)),
        active |-> s.active,
        tab    |-> [t \in OpenTabs(s) \ {id} |-> s.tab[t]]]

\* Closing the active tab activates the tab that takes its place, or the last.
Close(s, id) ==
  LET i         == IndexOf(s, id)
      remaining == RemoveAt(s.order, i)
      successor == remaining[IF i <= Len(remaining) THEN i ELSE Len(remaining)]
  IN  IF Len(s.order) <= 1 \/ id \notin OpenTabs(s)
      THEN s
      ELSE [order  |-> remaining,
            active |-> IF id = s.active THEN successor ELSE s.active,
            tab    |-> [t \in OpenTabs(s) \ {id} |-> s.tab[t]]]

\* Detach a deleted connection from every tab that referenced it.
ClearConnection(s, conn) ==
  [s EXCEPT !.tab = [t \in DOMAIN @ |->
      IF @[t].connection = conn THEN [@[t] EXCEPT !.connection = Null] ELSE @[t]]]

\* After the list reloads, reset the transient state of every tab whose
\* connection is in it; Reset merges error: null, results: [], activeResult: 0.
RefreshConnections(s, fresh, Reset(_)) ==
  [s EXCEPT !.tab = [t \in DOMAIN @ |->
      IF @[t].connection \in fresh THEN Reset(@[t]) ELSE @[t]]]

-----------------------------------------------------------------------------

\* The strip is well formed: at least one tab, no id twice, a record for
\* exactly the listed ids, and the active id is one of them.
StripOK(s) ==
  /\ s = [order |-> s.order, active |-> s.active, tab |-> s.tab]
  /\ s.order \in Seq(TabIds)
  /\ Len(s.order) >= 1
  /\ \A i, j \in 1..Len(s.order) : s.order[i] = s.order[j] => i = j
  /\ OpenTabs(s) = {s.order[i] : i \in 1..Len(s.order)}
  /\ s.active \in OpenTabs(s)
=============================================================================
