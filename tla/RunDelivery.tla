----------------------------- MODULE RunDelivery -----------------------------
(***************************************************************************)
(* What running a query promises to the person at the keyboard, with no    *)
(* word about awaits, tunnels or timers: a run belongs to the tab it was   *)
(* launched from, it settles at most once, its results appear, if they do, *)
(* in that tab at that moment, and results that have gone never come back. *)
(* QueryRun implements this specification.                                 *)
(***************************************************************************)
CONSTANTS TabIds, Runs, Null

VARIABLES
  owner,     \* the tab a run was launched from, Null before the launch
  settled,   \* runs that have delivered or failed
  shown      \* the run whose results a tab shows, Null for none

vars == <<owner, settled, shown>>

Init ==
  /\ owner = [r \in Runs |-> Null]
  /\ settled = {}
  /\ shown = [t \in TabIds |-> Null]

Blank(T) == shown' = [t \in TabIds |-> IF t \in T THEN Null ELSE shown[t]]

\* A launch blanks the tab when it gets as far as running, and settles the
\* run when it is refused on the spot.
Launch(r, t) ==
  /\ owner[r] = Null
  /\ owner' = [owner EXCEPT ![r] = t]
  /\ settled' \in {settled, settled \cup {r}}
  /\ Blank({}) \/ Blank({t})

Unsettled(r) == owner[r] # Null /\ r \notin settled

Deliver(r) ==
  /\ Unsettled(r)
  /\ settled' = settled \cup {r}
  /\ shown' = [shown EXCEPT ![owner[r]] = r]
  /\ UNCHANGED owner

\* The run fails, or its tab is gone.
Fail(r) ==
  /\ Unsettled(r)
  /\ settled' = settled \cup {r}
  /\ Blank({}) \/ Blank({owner[r]})
  /\ UNCHANGED owner

\* Tabs are closed, re-pointed, refreshed, or their results expire.
Forget ==
  /\ \E T \in SUBSET TabIds : Blank(T)
  /\ UNCHANGED <<owner, settled>>

Next ==
  \/ \E r \in Runs : Deliver(r) \/ Fail(r) \/ \E t \in TabIds : Launch(r, t)
  \/ Forget

Spec == Init /\ [][Next]_vars
=============================================================================
