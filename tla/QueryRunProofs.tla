--------------------------- MODULE QueryRunProofs ---------------------------
(***************************************************************************)
(* Proofs about QueryRun, for any set of tabs, connections and runs.       *)
(***************************************************************************)
EXTENDS QueryRun, ListProofs

\* The inductive strengthening of TypeOK.
IInv == TypeOK /\ TunnelWait

-----------------------------------------------------------------------------
(* What a step does to the runs, the timers and, of each tab, to its        *)
(* results and its spinner: the abstraction the invariants are proved of.   *)

SameTab(t) ==
  /\ ws'.tab[t].loading = ws.tab[t].loading
  /\ ws'.tab[t].results = ws.tab[t].results

SameOpen == OpenTabs(ws') = OpenTabs(ws)

\* Only the tab of run r may change, and not its spinner unless it is lowered.
OthersSame(id) == SameOpen /\ \A t \in OpenTabs(ws) \ {id} : SameTab(t)

Blanked(t) == ws'.tab[t].results \in {Null, ws.tab[t].results}

Quiet ==
  /\ runs' = runs /\ timers' = timers
  /\ \A t \in OpenTabs(ws') :
       \/ /\ t \in OpenTabs(ws)
          /\ ws'.tab[t].loading = ws.tab[t].loading /\ Blanked(t)
       \/ /\ t \notin OpenTabs(ws)
          /\ ws'.tab[t].loading = FALSE /\ ws'.tab[t].results = Null

Launches(r) ==
  /\ runs[r].pc = "idle" /\ timers' = timers
  /\ \A q \in Runs \ {r} : runs'[q] = runs[q]
  /\ runs'[r].tab = ws.active /\ runs'[r].pc \in {"tunnel", "native", "done"}
  /\ OthersSame(ws.active)
  /\ Blanked(ws.active)
  /\ ws'.tab[ws.active].loading => runs'[r].pc \in {"tunnel", "native"}

Moves(r) ==
  /\ \A q \in Runs \ {r} : runs'[q] = runs[q]
  /\ runs'[r].tab = runs[r].tab

\* The run goes on, or is stranded, or its statement is recorded.
Progresses(r) ==
  /\ Moves(r) /\ timers' = timers
  /\ SameOpen /\ \A t \in OpenTabs(ws) : SameTab(t)
  /\ runs'[r].clears = runs[r].clears
  /\ \/ runs[r].pc \in Waiting /\ runs'[r].pc \in Waiting \cup {"stranded"}
     \/ runs[r].pc = "saving" /\ runs'[r].pc = "done"

Fails(r) ==
  /\ Moves(r) /\ timers' = timers
  /\ runs[r].pc \in Waiting /\ runs'[r].pc = "done"
  /\ OthersSame(runs[r].tab)
  /\ runs[r].tab \in OpenTabs(ws) =>
       ws'.tab[runs[r].tab].loading = FALSE /\ Blanked(runs[r].tab)

Delivers(r) ==
  /\ Moves(r)
  /\ timers' = IF runs'[r].clears THEN timers \cup {r} ELSE timers
  /\ runs[r].pc \in Waiting /\ runs'[r].pc \in {"saving", "done"}
  /\ OthersSame(runs[r].tab)
  /\ runs[r].tab \in OpenTabs(ws) =>
       ws'.tab[runs[r].tab].loading = FALSE /\ ws'.tab[runs[r].tab].results = r

Expires(r) ==
  /\ runs' = runs /\ r \in timers /\ timers' = timers \ {r}
  /\ OthersSame(runs[r].tab)
  /\ runs[r].tab \in OpenTabs(ws) =>
       /\ ws'.tab[runs[r].tab].loading = ws.tab[runs[r].tab].loading
       /\ ws'.tab[runs[r].tab].results = Null

-----------------------------------------------------------------------------
(* One lemma per action, or per group of actions of one effect.             *)

\* What is left to show of a step that rewrites tab records in place.
LEMMA InPlace ==
  ASSUME TypeOK, NEW g \in [OpenTabs(ws) -> Tab], ws' = [ws EXCEPT !.tab = g],
         opened' = opened, runs' \in [Runs -> Run], ports' \subseteq SshConns,
         timers' \subseteq Runs, audited' \subseteq Runs, locked' \in BOOLEAN
  PROVE  TypeOK' /\ SameOpen /\ ws'.tab = g
<1>1. WellTyped(ws, Tab)
  BY DEF TypeOK, WellTyped
<1>2. WellTyped(ws', Tab) /\ OpenTabs(ws') = OpenTabs(ws) /\ ws'.tab = g
  BY <1>1, Retab
<1> QED
  BY <1>2 DEF TypeOK, WellTyped, SameOpen

LEMMA CaptureType ==
  ASSUME TypeOK, NEW r \in Runs, NEW pc \in {"tunnel", "native", "done"}, Capture(r, pc)
  PROVE  /\ runs' \in [Runs -> Run]
         /\ \A q \in Runs \ {r} : runs'[q] = runs[q]
         /\ runs'[r].pc = pc /\ runs'[r].tab = ws.active
         /\ ws.tab[ws.active].connection \in Conns /\ ~ws.tab[ws.active].file
              => runs'[r].conn = ws.tab[ws.active].connection
<1> DEFINE tab == ws.tab[ws.active]
           onDb == tab.connection # Null /\ ~tab.file
           new == [pc |-> pc, tab |-> ws.active,
                   conn |-> IF onDb THEN tab.connection ELSE Null,
                   explain |-> onDb /\ tab.includePlan /\ tab.connection \in ExplainConns,
                   clears |-> FALSE]
<1>1. ws.active \in OpenTabs(ws) /\ OpenTabs(ws) \subseteq TabIds /\ tab \in Tab
  BY DEF TypeOK, StripOK
<1>2. new \in Run
  BY <1>1 DEF Run, Tab, Waiting, Settled
<1>3. runs' = [runs EXCEPT ![r] = new]
  BY DEF Capture
<1>4. /\ new.pc = pc /\ new.tab = ws.active
      /\ ws.tab[ws.active].connection \in Conns /\ ~ws.tab[ws.active].file
           => new.conn = ws.tab[ws.active].connection
  BY QueryRunAssumption
<1> HIDE DEF new
<1> QED
  BY <1>2, <1>3, <1>4 DEF TypeOK

LEMMA LaunchEffect ==
  ASSUME IInv, NEW r \in Runs, Launchable(r),
         NEW pc \in {"tunnel", "native", "done"}, Capture(r, pc),
         UNCHANGED <<opened, ports, timers, locked, audited>>,
         NEW g \in [OpenTabs(ws) -> Tab], ws' = [ws EXCEPT !.tab = g],
         \A t \in OpenTabs(ws) \ {ws.active} : g[t] = ws.tab[t],
         g[ws.active].results \in {Null, ws.tab[ws.active].results},
         g[ws.active].loading => pc # "done",
         pc = "tunnel" => ws.tab[ws.active].connection \in SshConns /\ ~ws.tab[ws.active].file
  PROVE  IInv' /\ Launches(r)
<1> USE DEF IInv
<1>1. /\ runs' \in [Runs -> Run] /\ runs'[r].pc = pc /\ runs'[r].tab = ws.active
      /\ \A q \in Runs \ {r} : runs'[q] = runs[q]
      /\ pc = "tunnel" => runs'[r].conn \in SshConns
  BY CaptureType, QueryRunAssumption
<1>2. TypeOK' /\ SameOpen /\ ws'.tab = g
  BY <1>1, InPlace DEF TypeOK
<1>3. TunnelWait'
  BY <1>1 DEF TunnelWait
<1> QED
  BY <1>1, <1>2, <1>3 DEF Launches, Launchable, OthersSame, SameTab, Blanked

LEMMA LaunchStep ==
  ASSUME IInv, NEW r \in Runs, Launch(r)
  PROVE  IInv' /\ Launches(r)
<1> USE DEF IInv
<1>1. ws.active \in OpenTabs(ws) /\ ws.tab \in [OpenTabs(ws) -> Tab]
  BY DEF TypeOK, StripOK
<1>2. CASE LaunchRefused(r)
  <2> DEFINE g == [t \in OpenTabs(ws) |->
                     IF t = ws.active THEN Refused(ws.tab[t], r) ELSE ws.tab[t]]
  <2>1. ws' = [ws EXCEPT !.tab = g]
    BY <1>2 DEF LaunchRefused, UpdateActiveTab, UpdateTab, OpenTabs
  <2>2. g \in [OpenTabs(ws) -> Tab]
    BY <1>1 DEF Refused, Tab
  <2>3. /\ g[ws.active].results = ws.tab[ws.active].results /\ ~g[ws.active].loading
        /\ \A t \in OpenTabs(ws) \ {ws.active} : g[t] = ws.tab[t]
    BY <1>1 DEF Refused, Tab
  <2>4. /\ Launchable(r) /\ Capture(r, "done")
        /\ UNCHANGED <<opened, ports, timers, locked, audited>>
    BY <1>2 DEF LaunchRefused
  <2> HIDE DEF g
  <2> QED BY <2>1, <2>2, <2>3, <2>4, LaunchEffect
<1>3. CASE LaunchUnconnected(r)
  <2> DEFINE g == [t \in OpenTabs(ws) |->
                     IF t = ws.active THEN Failed(ws.tab[t], r) ELSE ws.tab[t]]
  <2>1. ws' = [ws EXCEPT !.tab = g]
    BY <1>3 DEF LaunchUnconnected, UpdateActiveTab, UpdateTab, OpenTabs
  <2>2. g \in [OpenTabs(ws) -> Tab]
    BY <1>1 DEF Failed, Tab
  <2>3. /\ g[ws.active].results = Null /\ ~g[ws.active].loading
        /\ \A t \in OpenTabs(ws) \ {ws.active} : g[t] = ws.tab[t]
    BY <1>1 DEF Failed, Tab
  <2>4. /\ Launchable(r) /\ Capture(r, "done")
        /\ UNCHANGED <<opened, ports, timers, locked, audited>>
    BY <1>3 DEF LaunchUnconnected
  <2> HIDE DEF g
  <2> QED BY <2>1, <2>2, <2>3, <2>4, LaunchEffect
<1>4. CASE LaunchStarted(r)
  <2> DEFINE g == [t \in OpenTabs(ws) |->
                     IF t = ws.active THEN Started(ws.tab[t]) ELSE ws.tab[t]]
  <2>1. ws' = [ws EXCEPT !.tab = g]
    BY <1>4 DEF LaunchStarted, UpdateActiveTab, UpdateTab, OpenTabs
  <2>2. g \in [OpenTabs(ws) -> Tab]
    BY <1>1 DEF Started, Tab
  <2>3. /\ g[ws.active].results = Null
        /\ \A t \in OpenTabs(ws) \ {ws.active} : g[t] = ws.tab[t]
    BY <1>1 DEF Started, Tab
  <2>4. /\ Launchable(r) /\ UNCHANGED <<opened, ports, timers, locked, audited>>
        /\ \/ Capture(r, "native")
           \/ Capture(r, "tunnel") /\ ws.tab[ws.active].connection \in SshConns
                                   /\ ~ws.tab[ws.active].file
    BY <1>4 DEF LaunchStarted
  <2> HIDE DEF g
  <2>5. PICK pc \in {"tunnel", "native"} :
          /\ Capture(r, pc)
          /\ pc = "tunnel" => ws.tab[ws.active].connection \in SshConns /\ ~ws.tab[ws.active].file
    BY <2>4
  <2> QED BY <2>1, <2>2, <2>3, <2>4, <2>5, LaunchEffect
<1> QED
  BY <1>2, <1>3, <1>4 DEF Launch

LEMMA ReturnType ==
  ASSUME TypeOK, NEW r \in Runs, NEW pc \in {"done", "stranded"}, Return(r, pc)
  PROVE  /\ runs' \in [Runs -> Run] /\ runs'[r].pc = pc
         /\ runs'[r].tab = runs[r].tab /\ runs'[r].clears = runs[r].clears
         /\ \A q \in Runs \ {r} : runs'[q] = runs[q]
<1> DEFINE n == [runs[r] EXCEPT !.pc = pc, !.conn = Null, !.explain = FALSE]
<1>1. runs[r] \in Run /\ runs \in [Runs -> Run]
  BY DEF TypeOK
<1>2. n \in Run /\ n.pc = pc /\ n.tab = runs[r].tab /\ n.clears = runs[r].clears
  BY <1>1 DEF Run, Settled
<1>3. runs' = [runs EXCEPT ![r] = n]
  BY DEF Return
<1> HIDE DEF n
<1> QED
  BY <1>1, <1>2, <1>3

LEMMA TunnelStep ==
  ASSUME IInv, NEW r \in Runs, Tunnel(r)
  PROVE  IInv' /\ Progresses(r)
<1> USE DEF IInv
<1>1. ws.active \in OpenTabs(ws) /\ ws.tab \in [OpenTabs(ws) -> Tab]
  BY DEF TypeOK, StripOK
<1>2. CASE TunnelOpened(r)
  <2>1. /\ runs[r].pc = "tunnel" /\ runs' = [runs EXCEPT ![r].pc = "native"]
        /\ ports' = ports \cup {runs[r].conn}
        /\ UNCHANGED <<ws, opened, timers, locked, audited>>
    BY <1>2 DEF TunnelOpened, Goto
  <2>2. /\ runs' \in [Runs -> Run] /\ runs'[r].pc = "native"
        /\ runs'[r].tab = runs[r].tab /\ runs'[r].clears = runs[r].clears
        /\ \A q \in Runs \ {r} : runs'[q] = runs[q]
    BY <2>1 DEF TypeOK, Run, Waiting, Settled
  <2>3. ports' \subseteq SshConns
    BY <2>1 DEF TypeOK, TunnelWait
  <2>4. TypeOK'
    BY <2>1, <2>2, <2>3 DEF TypeOK
  <2>5. TunnelWait'
    BY <2>2 DEF TunnelWait
  <2> QED BY <2>1, <2>2, <2>4, <2>5 DEF Progresses, Moves, SameTab, SameOpen, Waiting, IInv
<1>3. CASE TunnelFailed(r)
  <2> DEFINE g == [t \in OpenTabs(ws) |->
                     IF t = ws.active THEN [ws.tab[t] EXCEPT !.error = r] ELSE ws.tab[t]]
  <2>1. ws' = [ws EXCEPT !.tab = g]
    BY <1>3 DEF TunnelFailed, UpdateActiveTab, UpdateTab, OpenTabs
  <2>2. g \in [OpenTabs(ws) -> Tab]
    BY <1>1 DEF Tab
  <2>3. \A t \in OpenTabs(ws) : g[t].results = ws.tab[t].results /\ g[t].loading = ws.tab[t].loading
    BY <1>1 DEF Tab
  <2>4. /\ runs[r].pc = "tunnel" /\ Return(r, "stranded")
        /\ UNCHANGED <<opened, ports, timers, locked, audited>>
    BY <1>3 DEF TunnelFailed
  <2>5. /\ runs' \in [Runs -> Run] /\ runs'[r].pc = "stranded"
        /\ runs'[r].tab = runs[r].tab /\ runs'[r].clears = runs[r].clears
        /\ \A q \in Runs \ {r} : runs'[q] = runs[q]
    BY <2>4, ReturnType
  <2> HIDE DEF g
  <2>6. TypeOK' /\ SameOpen /\ ws'.tab = g
    BY <2>1, <2>2, <2>4, <2>5, InPlace DEF TypeOK
  <2>7. TunnelWait'
    BY <2>5 DEF TunnelWait
  <2> QED BY <2>3, <2>4, <2>5, <2>6, <2>7 DEF Progresses, Moves, SameTab, Waiting, IInv
<1> QED
  BY <1>2, <1>3 DEF Tunnel

\* A write addressed to the tab of run r, which need not be open any more.
LEMMA AddressedWrite ==
  ASSUME IInv, NEW r \in Runs, NEW g \in [OpenTabs(ws) -> Tab], ws' = [ws EXCEPT !.tab = g],
         \A t \in OpenTabs(ws) \ {runs[r].tab} : g[t] = ws.tab[t],
         UNCHANGED <<opened, ports, locked>>,
         runs' \in [Runs -> Run], timers' \subseteq Runs, audited' \subseteq Runs,
         runs'[r].pc # "tunnel" \/ runs' = runs,
         \A q \in Runs \ {r} : runs'[q] = runs[q]
  PROVE  IInv' /\ OthersSame(runs[r].tab) /\ ws'.tab = g
<1>1. TypeOK' /\ SameOpen /\ ws'.tab = g
  BY InPlace DEF TypeOK, IInv
<1>2. TunnelWait'
  BY DEF IInv, TunnelWait
<1> QED
  BY <1>1, <1>2 DEF OthersSame, SameTab, IInv

LEMMA FailStep ==
  ASSUME IInv, NEW r \in Runs, NativeThrew(r) \/ AnsweredInError(r)
  PROVE  IInv' /\ Fails(r)
<1>1. ws.tab \in [OpenTabs(ws) -> Tab] /\ TypeOK
  BY DEF TypeOK, IInv
<1>2. /\ runs[r].pc \in Waiting /\ Return(r, "done")
      /\ UNCHANGED <<opened, ports, timers, locked, audited>>
  BY DEF NativeThrew, AnsweredInError, LastAnswer, Waiting
<1>3. /\ runs' \in [Runs -> Run] /\ runs'[r].pc = "done" /\ runs'[r].tab = runs[r].tab
      /\ \A q \in Runs \ {r} : runs'[q] = runs[q]
  BY <1>1, <1>2, ReturnType
<1>4. CASE NativeThrew(r)
  <2> DEFINE g == [t \in OpenTabs(ws) |->
                     IF t = runs[r].tab THEN Refused(ws.tab[t], r) ELSE ws.tab[t]]
  <2>1. ws' = [ws EXCEPT !.tab = g]
    BY <1>4 DEF NativeThrew, WriteTab, UpdateTab, OpenTabs
  <2>2. /\ g \in [OpenTabs(ws) -> Tab]
        /\ \A t \in OpenTabs(ws) \ {runs[r].tab} : g[t] = ws.tab[t]
        /\ runs[r].tab \in OpenTabs(ws) =>
             /\ g[runs[r].tab].loading = FALSE
             /\ g[runs[r].tab].results = ws.tab[runs[r].tab].results
    BY <1>1 DEF Refused, Tab
  <2> HIDE DEF g
  <2>3. IInv' /\ OthersSame(runs[r].tab) /\ ws'.tab = g
    BY <1>1, <1>2, <1>3, <2>1, <2>2, AddressedWrite DEF TypeOK
  <2> QED BY <1>2, <1>3, <2>2, <2>3 DEF Fails, Moves, Blanked
<1>5. CASE AnsweredInError(r)
  <2> DEFINE g == [t \in OpenTabs(ws) |->
                     IF t = runs[r].tab THEN Failed(ws.tab[t], r) ELSE ws.tab[t]]
  <2>1. ws' = [ws EXCEPT !.tab = g]
    BY <1>5 DEF AnsweredInError, WriteTab, UpdateTab, OpenTabs
  <2>2. /\ g \in [OpenTabs(ws) -> Tab]
        /\ \A t \in OpenTabs(ws) \ {runs[r].tab} : g[t] = ws.tab[t]
        /\ runs[r].tab \in OpenTabs(ws) =>
             g[runs[r].tab].loading = FALSE /\ g[runs[r].tab].results = Null
    BY <1>1 DEF Failed, Tab
  <2> HIDE DEF g
  <2>3. IInv' /\ OthersSame(runs[r].tab) /\ ws'.tab = g
    BY <1>1, <1>2, <1>3, <2>1, <2>2, AddressedWrite DEF TypeOK
  <2> QED BY <1>2, <1>3, <2>2, <2>3 DEF Fails, Moves, Blanked
<1> QED
  BY <1>4, <1>5

LEMMA DeliverStep ==
  ASSUME IInv, NEW r \in Runs, ResultsArrived(r)
  PROVE  IInv' /\ Delivers(r)
<1>1. ws.tab \in [OpenTabs(ws) -> Tab] /\ TypeOK
  BY DEF TypeOK, IInv
<1>2. PICK err \in {Null, r}, clears \in BOOLEAN :
        /\ WriteTab(r, LAMBDA t : Answered(t, r, err))
        /\ timers' = IF clears THEN timers \cup {r} ELSE timers
        /\ Delivered(r, clears)
  BY DEF ResultsArrived
<1>3. runs[r].pc \in Waiting /\ UNCHANGED <<opened, ports, locked, audited>>
  BY DEF ResultsArrived, LastAnswer, Waiting
<1>4. /\ runs' \in [Runs -> Run] /\ runs'[r].pc \in {"saving", "done"}
      /\ runs'[r].tab = runs[r].tab /\ runs'[r].clears = clears
      /\ \A q \in Runs \ {r} : runs'[q] = runs[q]
  <2> DEFINE pc == IF runs[r].conn = Null THEN "done" ELSE "saving"
             run == [runs[r] EXCEPT !.pc = pc, !.conn = Null, !.explain = FALSE, !.clears = clears]
  <2>1. runs \in [Runs -> Run] /\ runs' = [runs EXCEPT ![r] = run]
    BY <1>1, <1>2 DEF Delivered, TypeOK
  <2>2. pc \in {"saving", "done"}
    OBVIOUS
  <2>3. run \in Run /\ run.pc = pc /\ run.tab = runs[r].tab /\ run.clears = clears
    <3> HIDE DEF pc
    <3> QED BY <2>1, <2>2, ZenonT(30) DEF Run, Settled
  <2> HIDE DEF pc, run
  <2> QED BY <2>1, <2>2, <2>3
<1> DEFINE g == [t \in OpenTabs(ws) |->
                   IF t = runs[r].tab THEN Answered(ws.tab[t], r, err) ELSE ws.tab[t]]
<1>5. ws' = [ws EXCEPT !.tab = g]
  BY <1>2 DEF WriteTab, UpdateTab, OpenTabs
<1>6. /\ g \in [OpenTabs(ws) -> Tab]
      /\ \A t \in OpenTabs(ws) \ {runs[r].tab} : g[t] = ws.tab[t]
      /\ runs[r].tab \in OpenTabs(ws) =>
           g[runs[r].tab].loading = FALSE /\ g[runs[r].tab].results = r
  BY <1>1, ZenonT(30) DEF Answered, Tab
<1> HIDE DEF g
<1>7. IInv' /\ OthersSame(runs[r].tab) /\ ws'.tab = g
  BY <1>1, <1>2, <1>3, <1>4, <1>5, <1>6, AddressedWrite DEF TypeOK
<1> QED
  BY <1>2, <1>3, <1>4, <1>6, <1>7 DEF Delivers, Moves

LEMMA NativeStep ==
  ASSUME IInv, NEW r \in Runs, Native(r)
  PROVE  IInv' /\ (Progresses(r) \/ Fails(r) \/ Delivers(r))
<1>1. TypeOK /\ TunnelWait
  BY DEF IInv
<1>2. CASE NativeThrew(r) \/ AnsweredInError(r)
  BY <1>2, FailStep
<1>3. CASE ResultsArrived(r)
  BY <1>3, DeliverStep
<1>4. CASE DataAnswered(r)
  <2>1. /\ runs[r].pc = "native" /\ runs' = [runs EXCEPT ![r].pc = "explain"]
        /\ UNCHANGED <<ws, opened, ports, timers, locked, audited>>
    BY <1>4 DEF DataAnswered, Goto
  <2>2. /\ runs' \in [Runs -> Run] /\ runs'[r].pc = "explain"
        /\ runs'[r].tab = runs[r].tab /\ runs'[r].clears = runs[r].clears
        /\ \A q \in Runs \ {r} : runs'[q] = runs[q]
    BY <1>1, <2>1 DEF TypeOK, Run, Waiting, Settled
  <2>3. TypeOK' /\ TunnelWait'
    BY <1>1, <2>1, <2>2 DEF TypeOK, TunnelWait
  <2> QED BY <2>1, <2>2, <2>3 DEF Progresses, Moves, SameTab, SameOpen, Waiting, IInv
<1>5. CASE Recorded(r)
  <2>1. /\ runs[r].pc = "saving" /\ Return(r, "done") /\ audited' \subseteq audited \cup {r}
        /\ UNCHANGED <<ws, opened, ports, timers, locked>>
    BY <1>5 DEF Recorded
  <2>2. /\ runs' \in [Runs -> Run] /\ runs'[r].pc = "done"
        /\ runs'[r].tab = runs[r].tab /\ runs'[r].clears = runs[r].clears
        /\ \A q \in Runs \ {r} : runs'[q] = runs[q]
    BY <1>1, <2>1, ReturnType
  <2>3. TypeOK' /\ TunnelWait'
    BY <1>1, <2>1, <2>2 DEF TypeOK, TunnelWait
  <2> QED BY <2>1, <2>2, <2>3 DEF Progresses, Moves, SameTab, SameOpen, IInv
<1> QED
  BY <1>2, <1>3, <1>4, <1>5 DEF Native

LEMMA ExpireStep ==
  ASSUME IInv, NEW r \in Runs, AutoClear(r)
  PROVE  IInv' /\ Expires(r)
<1>1. ws.tab \in [OpenTabs(ws) -> Tab] /\ TypeOK
  BY DEF TypeOK, IInv
<1>2. /\ r \in timers /\ timers' = timers \ {r} /\ runs' = runs
      /\ UNCHANGED <<opened, ports, locked, audited>>
  BY DEF AutoClear
<1> DEFINE g == [t \in OpenTabs(ws) |->
                   IF t = runs[r].tab THEN Cleared(ws.tab[t]) ELSE ws.tab[t]]
<1>3. ws' = [ws EXCEPT !.tab = g]
  BY DEF AutoClear, WriteTab, UpdateTab, OpenTabs
<1>4. /\ g \in [OpenTabs(ws) -> Tab]
      /\ \A t \in OpenTabs(ws) \ {runs[r].tab} : g[t] = ws.tab[t]
      /\ runs[r].tab \in OpenTabs(ws) =>
           /\ g[runs[r].tab].loading = ws.tab[runs[r].tab].loading
           /\ g[runs[r].tab].results = Null
  BY <1>1, ZenonT(30) DEF Cleared, Tab
<1> HIDE DEF g
<1>5. IInv' /\ OthersSame(runs[r].tab) /\ ws'.tab = g
  BY <1>1, <1>2, <1>3, <1>4, AddressedWrite DEF TypeOK
<1> QED
  BY <1>2, <1>4, <1>5 DEF Expires

\* A step of the user that rewrites tab records in place and touches no run.
LEMMA QuietWrite ==
  ASSUME IInv, NEW g \in [OpenTabs(ws) -> Tab], ws' = [ws EXCEPT !.tab = g],
         UNCHANGED <<opened, runs, ports, timers, locked, audited>>,
         \A t \in OpenTabs(ws) : /\ g[t].loading = ws.tab[t].loading
                                 /\ g[t].results \in {Null, ws.tab[t].results}
  PROVE  IInv' /\ Quiet
<1>1. TypeOK' /\ SameOpen /\ ws'.tab = g
  BY InPlace DEF TypeOK, IInv
<1>2. TunnelWait'
  BY DEF IInv, TunnelWait
<1> QED
  BY <1>1, <1>2 DEF Quiet, SameOpen, Blanked, IInv

StripStep ==
  \/ \E t \in TabIds : SwitchTab(t) \/ CloseTab(t)
  \/ \E t \in TabIds, c \in Conns \cup {Null} : OpenTab(t, c)

LEMMA StripQuiet ==
  ASSUME IInv, StripStep
  PROVE  IInv' /\ Quiet
<1>1. WellTyped(ws, Tab) /\ TypeOK /\ TunnelWait
  BY DEF IInv, TypeOK, WellTyped
<1>2. UNCHANGED <<runs, ports, timers, locked, audited>>
  BY DEF StripStep, SwitchTab, CloseTab, OpenTab
<1>3. TunnelWait'
  BY <1>1, <1>2 DEF TunnelWait
<1>4. ASSUME NEW t \in TabIds, SwitchTab(t)
      PROVE  IInv' /\ Quiet
  <2>1. t \in OpenTabs(ws) /\ ws' = SetActive(ws, t) /\ opened' = opened
    BY <1>4 DEF SwitchTab
  <2>2. WellTyped(ws', Tab) /\ ws'.tab = ws.tab /\ OpenTabs(ws') = OpenTabs(ws)
    BY <1>1, <2>1, ActivateOpen
  <2>3. TypeOK'
    BY <1>1, <1>2, <2>1, <2>2 DEF TypeOK, WellTyped
  <2> QED BY <1>2, <1>3, <2>2, <2>3 DEF IInv, Quiet, Blanked
<1>5. ASSUME NEW t \in TabIds, CloseTab(t)
      PROVE  IInv' /\ Quiet
  <2>1. t \in OpenTabs(ws) /\ Len(ws.order) > 1 /\ ws' = Close(ws, t) /\ opened' = opened
    BY <1>5 DEF CloseTab
  <2>2. /\ WellTyped(ws', Tab) /\ OpenTabs(ws') = OpenTabs(ws) \ {t}
        /\ \A u \in OpenTabs(ws') : ws'.tab[u] = ws.tab[u]
    BY <1>1, <2>1, CloseOpen
  <2>3. TypeOK'
    BY <1>1, <1>2, <2>1, <2>2 DEF TypeOK, WellTyped
  <2> QED BY <1>2, <1>3, <2>2, <2>3 DEF IInv, Quiet, Blanked
<1>6. ASSUME NEW t \in TabIds, NEW c \in Conns \cup {Null}, OpenTab(t, c)
      PROVE  IInv' /\ Quiet
  <2>1. /\ t \in TabIds \ OpenTabs(ws) /\ ws' = AppendActivate(ws, t, NewTab(c))
        /\ opened' = opened \cup {t}
    BY <1>1, <1>6 DEF OpenTab, TypeOK
  <2>2. NewTab(c) \in Tab /\ NewTab(c).results = Null /\ NewTab(c).loading = FALSE
    BY DEF NewTab, Tab
  <2>3. /\ WellTyped(ws', Tab) /\ OpenTabs(ws') = OpenTabs(ws) \cup {t}
        /\ \A u \in OpenTabs(ws) : ws'.tab[u] = ws.tab[u]
        /\ ws'.tab[t] = NewTab(c)
    BY <1>1, <2>1, <2>2, AppendFresh
  <2>4. TypeOK'
    BY <1>1, <1>2, <2>1, <2>3 DEF TypeOK, WellTyped
  <2> QED BY <1>2, <1>3, <2>1, <2>2, <2>3, <2>4 DEF IInv, Quiet, Blanked
<1> QED
  BY <1>4, <1>5, <1>6 DEF StripStep

TabStep ==
  \/ \E c \in Conns : SelectConnection(c) \/ PaletteConnection(c) \/ DeleteConnection(c)
  \/ OpenFile \/ TogglePlan

LEMMA TabQuiet ==
  ASSUME IInv, TabStep
  PROVE  IInv' /\ Quiet
<1>1. ws.tab \in [OpenTabs(ws) -> Tab]
  BY DEF TypeOK, IInv
<1>2. UNCHANGED <<opened, runs, ports, timers, locked, audited>>
  BY DEF TabStep, SelectConnection, PaletteConnection, DeleteConnection, OpenFile, TogglePlan
<1>3. ASSUME NEW c \in Conns, SelectConnection(c)
      PROVE  IInv' /\ Quiet
  <2> DEFINE g == [t \in OpenTabs(ws) |-> IF t = ws.active
                     THEN [ws.tab[t] EXCEPT !.connection = c, !.file = FALSE,
                                            !.results = Null, !.error = Null]
                     ELSE ws.tab[t]]
  <2>1. ws' = [ws EXCEPT !.tab = g]
    BY <1>3 DEF SelectConnection, UpdateActiveTab, UpdateTab, OpenTabs
  <2>2. /\ g \in [OpenTabs(ws) -> Tab]
        /\ \A t \in OpenTabs(ws) : /\ g[t].loading = ws.tab[t].loading
                                   /\ g[t].results \in {Null, ws.tab[t].results}
    BY <1>1, ZenonT(30) DEF Tab
  <2> HIDE DEF g
  <2> QED BY <1>2, <2>1, <2>2, QuietWrite
<1>4. ASSUME NEW c \in Conns, PaletteConnection(c)
      PROVE  IInv' /\ Quiet
  <2> DEFINE g == [t \in OpenTabs(ws) |-> IF t = ws.active
                     THEN [ws.tab[t] EXCEPT !.connection = c]
                     ELSE ws.tab[t]]
  <2>1. ws' = [ws EXCEPT !.tab = g]
    BY <1>4 DEF PaletteConnection, UpdateActiveTab, UpdateTab, OpenTabs
  <2>2. /\ g \in [OpenTabs(ws) -> Tab]
        /\ \A t \in OpenTabs(ws) : /\ g[t].loading = ws.tab[t].loading
                                   /\ g[t].results \in {Null, ws.tab[t].results}
    BY <1>1, SMTT(30) DEF Tab
  <2> HIDE DEF g
  <2> QED BY <1>2, <2>1, <2>2, QuietWrite
<1>5. CASE OpenFile
  <2> DEFINE g == [t \in OpenTabs(ws) |-> IF t = ws.active
                     THEN [ws.tab[t] EXCEPT !.file = TRUE, !.results = Null, !.error = Null]
                     ELSE ws.tab[t]]
  <2>1. ws' = [ws EXCEPT !.tab = g]
    BY <1>5 DEF OpenFile, UpdateActiveTab, UpdateTab, OpenTabs
  <2>2. /\ g \in [OpenTabs(ws) -> Tab]
        /\ \A t \in OpenTabs(ws) : /\ g[t].loading = ws.tab[t].loading
                                   /\ g[t].results \in {Null, ws.tab[t].results}
    BY <1>1, ZenonT(30) DEF Tab
  <2> HIDE DEF g
  <2> QED BY <1>2, <2>1, <2>2, QuietWrite
<1>6. CASE TogglePlan
  <2> DEFINE g == [t \in OpenTabs(ws) |-> IF t = ws.active
                     THEN [ws.tab[t] EXCEPT !.includePlan = ~@]
                     ELSE ws.tab[t]]
  <2>1. ws' = [ws EXCEPT !.tab = g]
    BY <1>6 DEF TogglePlan, UpdateActiveTab, UpdateTab, OpenTabs
  <2>2. /\ g \in [OpenTabs(ws) -> Tab]
        /\ \A t \in OpenTabs(ws) : /\ g[t].loading = ws.tab[t].loading
                                   /\ g[t].results \in {Null, ws.tab[t].results}
    <3>1. ASSUME NEW t \in OpenTabs(ws)
          PROVE  /\ [ws.tab[t] EXCEPT !.includePlan = ~@] \in Tab
                 /\ [ws.tab[t] EXCEPT !.includePlan = ~@].loading = ws.tab[t].loading
                 /\ [ws.tab[t] EXCEPT !.includePlan = ~@].results = ws.tab[t].results
      <4>1. ws.tab[t] \in Tab /\ (~ws.tab[t].includePlan) \in BOOLEAN
        BY <1>1 DEF Tab
      <4> QED BY <4>1, ZenonT(30) DEF Tab
    <3> QED BY <1>1, <3>1
  <2> HIDE DEF g
  <2> QED BY <1>2, <2>1, <2>2, QuietWrite
<1>7. ASSUME NEW c \in Conns, DeleteConnection(c)
      PROVE  IInv' /\ Quiet
  <2> DEFINE g == [t \in OpenTabs(ws) |-> IF ws.tab[t].connection = c
                     THEN [ws.tab[t] EXCEPT !.connection = Null]
                     ELSE ws.tab[t]]
  <2>1. ws' = [ws EXCEPT !.tab = g]
    BY <1>7 DEF DeleteConnection, ClearConnection, OpenTabs
  <2>2. /\ g \in [OpenTabs(ws) -> Tab]
        /\ \A t \in OpenTabs(ws) : /\ g[t].loading = ws.tab[t].loading
                                   /\ g[t].results \in {Null, ws.tab[t].results}
    BY <1>1, SMTT(30) DEF Tab
  <2> HIDE DEF g
  <2> QED BY <1>2, <2>1, <2>2, QuietWrite
<1> QED
  BY <1>3, <1>4, <1>5, <1>6, <1>7 DEF TabStep

LEMMA ReloadQuiet ==
  ASSUME IInv, NEW fresh \in SUBSET Conns, ReloadConnections(fresh)
  PROVE  IInv' /\ Quiet
<1> DEFINE refreshed == RefreshConnections(ws, fresh, Cleared)
           g == [t \in OpenTabs(ws) |->
                   IF ws.tab[t].connection \in fresh THEN Cleared(ws.tab[t]) ELSE ws.tab[t]]
<1>1. ws.tab \in [OpenTabs(ws) -> Tab] /\ WellTyped(ws, Tab)
  BY DEF TypeOK, IInv, WellTyped
<1>2. UNCHANGED <<opened, runs, ports, timers, locked, audited>>
  BY DEF ReloadConnections
<1>3. refreshed = [ws EXCEPT !.tab = g]
  BY DEF RefreshConnections, OpenTabs
<1>4. /\ g \in [OpenTabs(ws) -> Tab]
      /\ \A t \in OpenTabs(ws) : /\ g[t].loading = ws.tab[t].loading
                                 /\ g[t].results \in {Null, ws.tab[t].results}
  BY <1>1, ZenonT(30) DEF Tab, Cleared
<1>5. PICK first \in fresh :
        ws' = IF refreshed.tab[ws.active].connection = Null
              THEN UpdateActiveTab(refreshed, LAMBDA t : [t EXCEPT !.connection = first])
              ELSE refreshed
  BY DEF ReloadConnections
<1> HIDE DEF g
<1>6. refreshed.tab = g /\ refreshed.active = ws.active
  BY <1>1, <1>3, <1>4, Retab
<1>7. CASE ws' = refreshed
  BY <1>2, <1>3, <1>4, <1>7, QuietWrite
<1>8. CASE ws' = UpdateActiveTab(refreshed, LAMBDA t : [t EXCEPT !.connection = first])
  <2> DEFINE h == [t \in OpenTabs(ws) |->
                     IF t = ws.active THEN [g[t] EXCEPT !.connection = first] ELSE g[t]]
  <2>1. ws' = [refreshed EXCEPT !.tab = h]
    <3>1. DOMAIN refreshed.tab = OpenTabs(ws)
      BY <1>4, <1>6
    <3> HIDE DEF refreshed
    <3> QED BY <1>6, <1>8, <3>1 DEF UpdateActiveTab, UpdateTab
  <2>2. /\ h \in [OpenTabs(ws) -> Tab]
        /\ \A t \in OpenTabs(ws) : /\ h[t].loading = ws.tab[t].loading
                                   /\ h[t].results \in {Null, ws.tab[t].results}
    BY <1>4, <1>5 DEF Tab
  <2> HIDE DEF h
  <2>3. ws' = [ws EXCEPT !.tab = h]
    BY <1>3, <2>1
  <2> QED BY <1>2, <2>2, <2>3, QuietWrite
<1> QED
  BY <1>5, <1>7, <1>8

LEMMA LockQuiet ==
  ASSUME IInv, ToggleLock
  PROVE  IInv' /\ Quiet
BY DEF IInv, TypeOK, TunnelWait, ToggleLock, Quiet, Blanked, StripOK, OpenTabs

-----------------------------------------------------------------------------

\* Every step has one of the effects, and keeps the inductive invariant.
LEMMA StepEffect ==
  ASSUME IInv, [Next]_vars
  PROVE  /\ IInv'
         /\ \/ Quiet
            \/ \E r \in Runs : \/ Launches(r) \/ Progresses(r) \/ Fails(r)
                               \/ Delivers(r) \/ Expires(r)
<1>1. CASE UNCHANGED vars
  BY <1>1 DEF IInv, TypeOK, TunnelWait, vars, Quiet, Blanked, StripOK, OpenTabs
<1>2. ASSUME NEW r \in Runs, Launch(r) \/ Tunnel(r) \/ Native(r) \/ AutoClear(r)
      PROVE  /\ IInv'
             /\ \/ Launches(r) \/ Progresses(r) \/ Fails(r) \/ Delivers(r) \/ Expires(r)
  BY <1>2, LaunchStep, TunnelStep, NativeStep, ExpireStep
<1>3. CASE StripStep
  BY <1>3, StripQuiet
<1>4. CASE TabStep
  BY <1>4, TabQuiet
<1>5. ASSUME NEW fresh \in (SUBSET Conns) \ {{}}, ReloadConnections(fresh)
      PROVE  IInv' /\ Quiet
  BY <1>5, ReloadQuiet
<1>6. CASE ToggleLock
  BY <1>6, LockQuiet
<1> QED
  BY <1>1, <1>2, <1>3, <1>4, <1>5, <1>6 DEF Next, StripStep, TabStep

-----------------------------------------------------------------------------

LEMMA InitStrip ==
  ASSUME Init
  PROVE  /\ IInv
         /\ OpenTabs(ws) = {FirstTab} /\ ws.tab[FirstTab] = NewTab(Null)
<1> DEFINE f == [t \in {FirstTab} |-> NewTab(Null)]
<1>1. ws = [order |-> <<FirstTab>>, active |-> FirstTab, tab |-> f]
  BY DEF Init, InitTabs
<1>2. ws.order = <<FirstTab>> /\ ws.active = FirstTab /\ ws.tab = f
  BY <1>1
<1>3. OpenTabs(ws) = {FirstTab} /\ ws.tab[FirstTab] = NewTab(Null)
  BY <1>2 DEF OpenTabs
<1>4. f \in [{FirstTab} -> Tab]
  BY DEF NewTab, Tab
<1>5. StripOK(ws)
  BY <1>1, <1>2, <1>3, TabsAssumption DEF StripOK
<1>6. runs \in [Runs -> Run] /\ \A r \in Runs : runs[r].pc = "idle"
  BY TabsAssumption DEF Init, IdleRun, Run
<1>7. TypeOK
  <2>1. ws.tab \in [OpenTabs(ws) -> Tab]
    BY <1>2, <1>3, <1>4
  <2>2. opened = {FirstTab} /\ ports = {} /\ timers = {} /\ locked = FALSE /\ audited = {}
    BY DEF Init
  <2> QED BY <1>3, <1>5, <1>6, <2>1, <2>2, TabsAssumption DEF TypeOK
<1> QED
  BY <1>3, <1>6, <1>7 DEF IInv, TunnelWait

LEMMA Inductive == Spec => []IInv
<1>1. Init => IInv
  BY InitStrip
<1>2. IInv /\ [Next]_vars => IInv'
  BY StepEffect
<1> QED
  BY <1>1, <1>2, PTL DEF Spec

\* The strip is always well formed, with an active tab among the open ones,
\* and every record keeps its shape.
THEOREM TypeCorrect == Spec => []TypeOK
<1>1. IInv => TypeOK
  BY DEF IInv
<1> QED
  BY <1>1, Inductive, PTL

LEMMA OwnInitially == Init => ResultsFromOwnRun
BY InitStrip DEF ResultsFromOwnRun, NewTab

LEMMA OwnStep ==
  ASSUME IInv, ResultsFromOwnRun, [Next]_vars
  PROVE  ResultsFromOwnRun'
<1> SUFFICES ASSUME NEW t \in OpenTabs(ws'), ws'.tab[t].results # Null
             PROVE  LET q == ws'.tab[t].results IN
                    runs'[q].tab = t /\ runs'[q].pc \in {"saving", "done"}
  BY DEF ResultsFromOwnRun
<1>1. \A u \in OpenTabs(ws) : ws.tab[u].results \in Runs \cup {Null}
  BY DEF IInv, TypeOK, Tab
<1>2. CASE Quiet
  BY <1>2 DEF Quiet, Blanked, ResultsFromOwnRun
<1>3. ASSUME NEW r \in Runs, Launches(r)
      PROVE  LET q == ws'.tab[t].results IN
             runs'[q].tab = t /\ runs'[q].pc \in {"saving", "done"}
  BY <1>1, <1>3 DEF Launches, OthersSame, SameTab, SameOpen, Blanked, ResultsFromOwnRun
<1>4. ASSUME NEW r \in Runs, Progresses(r)
      PROVE  LET q == ws'.tab[t].results IN
             runs'[q].tab = t /\ runs'[q].pc \in {"saving", "done"}
  BY <1>1, <1>4 DEF Progresses, Moves, SameTab, SameOpen, ResultsFromOwnRun, Waiting
<1>5. ASSUME NEW r \in Runs, Fails(r)
      PROVE  LET q == ws'.tab[t].results IN
             runs'[q].tab = t /\ runs'[q].pc \in {"saving", "done"}
  BY <1>1, <1>5 DEF Fails, Moves, OthersSame, SameTab, SameOpen, Blanked, ResultsFromOwnRun, Waiting
<1>6. ASSUME NEW r \in Runs, Delivers(r)
      PROVE  LET q == ws'.tab[t].results IN
             runs'[q].tab = t /\ runs'[q].pc \in {"saving", "done"}
  BY <1>1, <1>6 DEF Delivers, Moves, OthersSame, SameTab, SameOpen, ResultsFromOwnRun, Waiting
<1>7. ASSUME NEW r \in Runs, Expires(r)
      PROVE  LET q == ws'.tab[t].results IN
             runs'[q].tab = t /\ runs'[q].pc \in {"saving", "done"}
  BY <1>1, <1>7 DEF Expires, OthersSame, SameTab, SameOpen, ResultsFromOwnRun
<1> QED
  BY <1>2, <1>3, <1>4, <1>5, <1>6, <1>7, StepEffect

\* The results on display are those of a run launched from the same tab, for
\* any number of tabs and runs.
THEOREM OwnResults == Spec => []ResultsFromOwnRun
<1>1. Init => ResultsFromOwnRun
  BY OwnInitially
<1>2. IInv /\ ResultsFromOwnRun /\ [Next]_vars => ResultsFromOwnRun'
  BY OwnStep
<1> QED
  BY <1>1, <1>2, Inductive, PTL DEF Spec

LEMMA SpinnerStep ==
  ASSUME IInv, SpinnerExplained, [Next]_vars
  PROVE  SpinnerExplained'
<1> DEFINE Explained(t) == \E r \in Runs : runs'[r].tab = t /\ runs'[r].pc \in Waiting \cup {"stranded"}
<1> SUFFICES ASSUME NEW t \in OpenTabs(ws'), ws'.tab[t].loading
             PROVE  Explained(t)
  BY DEF SpinnerExplained
<1>2. CASE Quiet
  BY <1>2 DEF Quiet, SpinnerExplained
<1>3. ASSUME NEW r \in Runs, Launches(r)
      PROVE  Explained(t)
  BY <1>3 DEF Launches, OthersSame, SameTab, SameOpen, SpinnerExplained, Waiting
<1>4. ASSUME NEW r \in Runs, Progresses(r)
      PROVE  Explained(t)
  BY <1>4 DEF Progresses, Moves, SameTab, SameOpen, SpinnerExplained, Waiting
<1>5. ASSUME NEW r \in Runs, Fails(r)
      PROVE  Explained(t)
  BY <1>5 DEF Fails, Moves, OthersSame, SameTab, SameOpen, SpinnerExplained, Waiting
<1>6. ASSUME NEW r \in Runs, Delivers(r)
      PROVE  Explained(t)
  BY <1>6 DEF Delivers, Moves, OthersSame, SameTab, SameOpen, SpinnerExplained, Waiting
<1>7. ASSUME NEW r \in Runs, Expires(r)
      PROVE  Explained(t)
  BY <1>7 DEF Expires, OthersSame, SameTab, SameOpen, SpinnerExplained
<1> QED
  BY <1>2, <1>3, <1>4, <1>5, <1>6, <1>7, StepEffect

\* A spinner always has a run to explain it: no exit of runQuery but the
\* failed tunnel leaves the flag up.
THEOREM ExplainedSpinner == Spec => []SpinnerExplained
<1>1. Init => SpinnerExplained
  BY InitStrip DEF SpinnerExplained, NewTab
<1>2. IInv /\ SpinnerExplained /\ [Next]_vars => SpinnerExplained'
  BY SpinnerStep
<1> QED
  BY <1>1, <1>2, Inductive, PTL DEF Spec

LEMMA ExpiryStep ==
  ASSUME IInv, ResultsFromOwnRun, DisplayedResultsExpire, [Next]_vars
  PROVE  DisplayedResultsExpire'
<1> DEFINE Expiring(t) == LET q == ws'.tab[t].results IN
                          q # Null => (runs'[q].clears => q \in timers')
<1> SUFFICES ASSUME NEW t \in OpenTabs(ws')
             PROVE  Expiring(t)
  BY DEF DisplayedResultsExpire
<1>1. /\ \A u \in OpenTabs(ws) : ws.tab[u].results \in Runs \cup {Null}
      /\ \A u \in OpenTabs(ws) : ws.tab[u].results # Null =>
           LET q == ws.tab[u].results IN runs[q].tab = u /\ runs[q].pc \in {"saving", "done"}
      /\ \A u \in OpenTabs(ws) : LET q == ws.tab[u].results IN
           q # Null => (runs[q].clears => q \in timers)
  BY DEF IInv, TypeOK, Tab, ResultsFromOwnRun, DisplayedResultsExpire
<1>2. CASE Quiet
  BY <1>1, <1>2 DEF Quiet, Blanked
<1>3. ASSUME NEW r \in Runs, Launches(r)
      PROVE  Expiring(t)
  BY <1>1, <1>3 DEF Launches, OthersSame, SameTab, SameOpen, Blanked
<1>4. ASSUME NEW r \in Runs, Progresses(r)
      PROVE  Expiring(t)
  BY <1>1, <1>4 DEF Progresses, Moves, SameTab, SameOpen, Waiting
<1>5. ASSUME NEW r \in Runs, Fails(r)
      PROVE  Expiring(t)
  BY <1>1, <1>5 DEF Fails, Moves, OthersSame, SameTab, SameOpen, Blanked, Waiting
<1>6. ASSUME NEW r \in Runs, Delivers(r)
      PROVE  Expiring(t)
  BY <1>1, <1>6 DEF Delivers, Moves, OthersSame, SameTab, SameOpen, Waiting
<1>7. ASSUME NEW r \in Runs, Expires(r)
      PROVE  Expiring(t)
  BY <1>1, <1>7 DEF Expires, OthersSame, SameTab, SameOpen
<1> QED
  BY <1>2, <1>3, <1>4, <1>5, <1>6, <1>7, StepEffect

\* With auto-clear on, no results stay on screen without a timer pending for
\* them: the proof needs that results sit in the tab their timer addresses.
THEOREM ResultsExpire == Spec => []DisplayedResultsExpire
<1>1. Init => DisplayedResultsExpire
  BY InitStrip DEF DisplayedResultsExpire, NewTab
<1>2. IInv /\ ResultsFromOwnRun /\ DisplayedResultsExpire /\ [Next]_vars
        => DisplayedResultsExpire'
  BY ExpiryStep
<1> QED
  BY <1>1, <1>2, Inductive, OwnResults, PTL DEF Spec

-----------------------------------------------------------------------------
(* Who writes to a tab in the background, action by action.                 *)

\* The strip is a record, so that a reducer that writes tabs writes them alone.
LEMMA TabsWritten ==
  ASSUME IInv, NEW g, ws' = [ws EXCEPT !.tab = g]
  PROVE  ws'.tab = g
<1>1. ws = [order |-> ws.order, active |-> ws.active, tab |-> ws.tab]
  BY DEF IInv, TypeOK, StripOK
<1> QED BY <1>1

LEMMA ActiveWritten ==
  ASSUME IInv, NEW t \in OpenTabs(ws) \ {ws.active},
         \/ \E r \in Runs : \/ LaunchRefused(r) \/ LaunchUnconnected(r)
                            \/ LaunchStarted(r) \/ TunnelFailed(r)
         \/ \E c \in Conns : SelectConnection(c) \/ PaletteConnection(c)
         \/ OpenFile \/ TogglePlan
  PROVE  ws'.tab[t] = ws.tab[t]
<1>1. PICK h : ws' = [ws EXCEPT !.tab = [u \in OpenTabs(ws) |->
                        IF u = ws.active THEN h ELSE ws.tab[u]]]
  <2> DEFINE Writes(h) == ws' = [ws EXCEPT !.tab = [u \in OpenTabs(ws) |->
                                   IF u = ws.active THEN h ELSE ws.tab[u]]]
             now == ws.tab[ws.active]
  <2>1. ASSUME NEW r \in Runs, LaunchRefused(r)
        PROVE  Writes(Refused(now, r))
    BY <2>1 DEF LaunchRefused, UpdateActiveTab, UpdateTab, OpenTabs
  <2>2. ASSUME NEW r \in Runs, LaunchUnconnected(r)
        PROVE  Writes(Failed(now, r))
    BY <2>2 DEF LaunchUnconnected, UpdateActiveTab, UpdateTab, OpenTabs
  <2>3. ASSUME NEW r \in Runs, LaunchStarted(r)
        PROVE  Writes(Started(now))
    BY <2>3 DEF LaunchStarted, UpdateActiveTab, UpdateTab, OpenTabs
  <2>4. ASSUME NEW r \in Runs, TunnelFailed(r)
        PROVE  Writes([now EXCEPT !.error = r])
    BY <2>4 DEF TunnelFailed, UpdateActiveTab, UpdateTab, OpenTabs
  <2>5. ASSUME NEW c \in Conns, SelectConnection(c)
        PROVE  Writes([now EXCEPT !.connection = c, !.file = FALSE,
                                  !.results = Null, !.error = Null])
    BY <2>5 DEF SelectConnection, UpdateActiveTab, UpdateTab, OpenTabs
  <2>6. ASSUME NEW c \in Conns, PaletteConnection(c)
        PROVE  Writes([now EXCEPT !.connection = c])
    BY <2>6 DEF PaletteConnection, UpdateActiveTab, UpdateTab, OpenTabs
  <2>7. ASSUME OpenFile
        PROVE  Writes([now EXCEPT !.file = TRUE, !.results = Null, !.error = Null])
    BY <2>7 DEF OpenFile, UpdateActiveTab, UpdateTab, OpenTabs
  <2>8. ASSUME TogglePlan
        PROVE  Writes([now EXCEPT !.includePlan = ~@])
    BY <2>8 DEF TogglePlan, UpdateActiveTab, UpdateTab, OpenTabs
  <2> HIDE DEF Writes, now
  <2>9. \E h : Writes(h)
    BY <2>1, <2>2, <2>3, <2>4, <2>5, <2>6, <2>7, <2>8
  <2> QED BY <2>9 DEF Writes
<1> QED BY <1>1, TabsWritten

\* A run writes to its own tab alone, and not without moving on itself, or
\* without the end of its timer.
LEMMA OwnWritten ==
  ASSUME IInv, NEW t \in OpenTabs(ws), NEW r \in Runs,
         NativeThrew(r) \/ AnsweredInError(r) \/ ResultsArrived(r) \/ AutoClear(r),
         ws'.tab[t] # ws.tab[t]
  PROVE  runs[r].tab = t /\ (runs'[r] # runs[r] \/ r \in timers \ timers')
<1>1. PICK h : ws' = [ws EXCEPT !.tab = [u \in OpenTabs(ws) |->
                        IF u = runs[r].tab THEN h ELSE ws.tab[u]]]
  <2> DEFINE Writes(h) == ws' = [ws EXCEPT !.tab = [u \in OpenTabs(ws) |->
                                   IF u = runs[r].tab THEN h ELSE ws.tab[u]]]
             now == ws.tab[runs[r].tab]
  <2>1. NativeThrew(r) => Writes(Refused(now, r))
    BY DEF NativeThrew, WriteTab, UpdateTab, OpenTabs
  <2>2. AnsweredInError(r) => Writes(Failed(now, r))
    BY DEF AnsweredInError, WriteTab, UpdateTab, OpenTabs
  <2>3. ASSUME ResultsArrived(r)
        PROVE  \E err \in {Null, r} : Writes(Answered(now, r, err))
    BY <2>3 DEF ResultsArrived, WriteTab, UpdateTab, OpenTabs
  <2>4. AutoClear(r) => Writes(Cleared(now))
    BY DEF AutoClear, WriteTab, UpdateTab, OpenTabs
  <2> HIDE DEF Writes, now
  <2>5. \E h : Writes(h)
    BY <2>1, <2>2, <2>3, <2>4
  <2> QED BY <2>5 DEF Writes
<1>2. runs[r].tab = t
  BY <1>1, TabsWritten
<1>3. CASE NativeThrew(r) \/ AnsweredInError(r)
  <2>1. Fails(r)
    BY <1>3, FailStep
  <2> QED BY <1>2, <2>1 DEF Fails, Waiting
<1>4. CASE ResultsArrived(r)
  <2>1. Delivers(r)
    BY <1>4, DeliverStep
  <2> QED BY <1>2, <2>1 DEF Delivers, Waiting
<1>5. CASE AutoClear(r)
  BY <1>2, <1>5 DEF AutoClear
<1> QED BY <1>3, <1>4, <1>5

\* Opening, closing and switching leave the records of the other tabs alone.
LEMMA StripUnwritten ==
  ASSUME IInv, StripStep, NEW t \in OpenTabs(ws) \cap OpenTabs(ws')
  PROVE  ws'.tab[t] = ws.tab[t]
<1>1. WellTyped(ws, Tab) /\ OpenTabs(ws) \subseteq opened
  BY DEF IInv, TypeOK, WellTyped
<1>2. ASSUME NEW u \in TabIds, SwitchTab(u)
      PROVE  ws'.tab[t] = ws.tab[t]
  BY <1>1, <1>2, ActivateOpen DEF SwitchTab
<1>3. ASSUME NEW u \in TabIds, CloseTab(u)
      PROVE  ws'.tab[t] = ws.tab[t]
  BY <1>1, <1>3, CloseOpen DEF CloseTab
<1>4. ASSUME NEW u \in TabIds, NEW c \in Conns \cup {Null}, OpenTab(u, c)
      PROVE  ws'.tab[t] = ws.tab[t]
  <2>1. u \in TabIds \ OpenTabs(ws) /\ NewTab(c) \in Tab
        /\ ws' = AppendActivate(ws, u, NewTab(c))
    BY <1>1, <1>4 DEF OpenTab, NewTab, Tab
  <2> QED BY <1>1, <2>1, AppendFresh
<1> QED BY <1>2, <1>3, <1>4 DEF StripStep

LEMMA DeletionWritten ==
  ASSUME IInv, NEW t \in OpenTabs(ws), NEW c \in Conns, DeleteConnection(c),
         ws'.tab[t] # ws.tab[t]
  PROVE  ws'.tab[t] = [ws.tab[t] EXCEPT !.connection = Null]
<1> DEFINE g == [u \in OpenTabs(ws) |-> IF ws.tab[u].connection = c
                   THEN [ws.tab[u] EXCEPT !.connection = Null]
                   ELSE ws.tab[u]]
<1>1. ws' = [ws EXCEPT !.tab = g]
  BY DEF DeleteConnection, ClearConnection, OpenTabs
<1>2. g[t] # ws.tab[t] => g[t] = [ws.tab[t] EXCEPT !.connection = Null]
  OBVIOUS
<1> HIDE DEF g
<1> QED BY <1>1, <1>2, TabsWritten

\* A reload resets the tabs of the connections it found, and gives one to the
\* active tab if it has none.
LEMMA ReloadWritten ==
  ASSUME IInv, NEW t \in OpenTabs(ws) \ {ws.active}, NEW fresh \in SUBSET Conns,
         ReloadConnections(fresh), ws'.tab[t] # ws.tab[t]
  PROVE  ws'.tab[t] = Cleared(ws.tab[t])
<1> DEFINE g == [u \in OpenTabs(ws) |->
                   IF ws.tab[u].connection \in fresh THEN Cleared(ws.tab[u]) ELSE ws.tab[u]]
           s == [ws EXCEPT !.tab = g]
<1>1. RefreshConnections(ws, fresh, Cleared) = s
  BY DEF RefreshConnections, OpenTabs
<1>2. s.tab = g /\ s.active = ws.active
  <2>1. ws = [order |-> ws.order, active |-> ws.active, tab |-> ws.tab]
    BY DEF IInv, TypeOK, StripOK
  <2> QED BY <2>1
<1>3. DOMAIN g = OpenTabs(ws)
  OBVIOUS
<1>4. g[t] # ws.tab[t] => g[t] = Cleared(ws.tab[t])
  OBVIOUS
<1>5. PICK first \in fresh :
        ws' = IF s.tab[ws.active].connection = Null
              THEN UpdateActiveTab(s, LAMBDA u : [u EXCEPT !.connection = first])
              ELSE s
  BY <1>1 DEF ReloadConnections
<1>6. CASE ws' = s
  BY <1>2, <1>4, <1>6
<1>7. CASE ws' = UpdateActiveTab(s, LAMBDA u : [u EXCEPT !.connection = first])
  <2> DEFINE h == [u \in OpenTabs(ws) |->
                     IF u = ws.active THEN [g[u] EXCEPT !.connection = first] ELSE g[u]]
  <2> HIDE DEF g
  <2>1. ws' = [s EXCEPT !.tab = h]
    <3> HIDE DEF s
    <3> QED BY <1>2, <1>3, <1>7 DEF UpdateActiveTab, UpdateTab
  <2>2. ws' = [ws EXCEPT !.tab = h]
    BY <2>1
  <2>3. h[t] = g[t]
    OBVIOUS
  <2> HIDE DEF h
  <2> QED BY <1>4, <2>2, <2>3, TabsWritten
<1> QED BY <1>5, <1>6, <1>7

LEMMA BackgroundStep ==
  ASSUME IInv, [Next]_vars, NEW t \in (OpenTabs(ws) \cap OpenTabs(ws')) \ {ws.active},
         ws'.tab[t] # ws.tab[t]
  PROVE  BackgroundWritten(t)
<1>1. ws' # ws
  OBVIOUS
<1>2. CASE UNCHANGED vars
  BY <1>1, <1>2 DEF vars
<1>3. ASSUME NEW r \in Runs, Launch(r) \/ Tunnel(r)
      PROVE  BackgroundWritten(t)
  BY <1>1, <1>3, ActiveWritten DEF Launch, Tunnel, TunnelOpened
<1>4. ASSUME NEW r \in Runs, Native(r) \/ AutoClear(r)
      PROVE  BackgroundWritten(t)
  BY <1>1, <1>4, OwnWritten DEF Native, DataAnswered, Recorded, BackgroundWritten
<1>5. CASE StripStep
  BY <1>5, StripUnwritten
<1>6. CASE TabStep
  BY <1>6, ActiveWritten, DeletionWritten DEF TabStep, BackgroundWritten
<1>7. ASSUME NEW fresh \in (SUBSET Conns) \ {{}}, ReloadConnections(fresh)
      PROVE  BackgroundWritten(t)
  BY <1>7, ReloadWritten DEF BackgroundWritten
<1>8. CASE ToggleLock
  BY <1>1, <1>8 DEF ToggleLock
<1> QED
  BY <1>2, <1>3, <1>4, <1>5, <1>6, <1>7, <1>8 DEF Next, StripStep, TabStep

\* Whatever the runs of the other tabs do, and wherever the user goes meanwhile:
\* a tab that is not the active one changes by the writeTab of one of its own
\* runs, by its timer, or by a reload or a deletion of its connection.
THEOREM BackgroundIsolated == Spec => BackgroundTabsIsolated
<1>1. IInv /\ [Next]_vars =>
        [\A t \in (OpenTabs(ws) \cap OpenTabs(ws')) \ {ws.active} :
           ws'.tab[t] # ws.tab[t] => BackgroundWritten(t)]_vars
  BY BackgroundStep
<1> QED
  BY <1>1, Inductive, PTL DEF Spec, BackgroundTabsIsolated

-----------------------------------------------------------------------------
(* QueryRun implements RunDelivery, under the mapping of the instance       *)
(* Delivery: an effect is a step of RunDelivery or leaves its state alone.  *)

Owner   == [r \in Runs |-> IF runs[r].pc = "idle" THEN Null ELSE runs[r].tab]
SettledRuns == {r \in Runs : runs[r].pc \in {"saving"} \cup Settled}
Shown   == [t \in TabIds |-> IF t \in OpenTabs(ws) THEN ws.tab[t].results ELSE Null]

LEMMA DeliveryInit == Init => Delivery!Init
<1> SUFFICES ASSUME Init
             PROVE  Owner = [r \in Runs |-> Null] /\ SettledRuns = {}
                    /\ Shown = [t \in TabIds |-> Null]
  BY DEF Delivery!Init, Owner, SettledRuns, Shown
<1>1. OpenTabs(ws) = {FirstTab} /\ ws.tab[FirstTab].results = Null
  BY InitStrip DEF NewTab
<1>2. \A r \in Runs : runs[r].pc = "idle"
  BY DEF Init, IdleRun
<1> QED
  BY <1>1, <1>2 DEF Owner, SettledRuns, Shown, Settled

\* Tabs are only blanked: some set of them is what RunDelivery blanks.
LEMMA BlankSome ==
  ASSUME \A t \in TabIds : Shown'[t] \in {Null, Shown[t]}
  PROVE  \E T \in SUBSET TabIds :
           Shown' = [t \in TabIds |-> IF t \in T THEN Null ELSE Shown[t]]
<1> DEFINE T == {t \in TabIds : Shown'[t] = Null}
<1>1. Shown' = [t \in TabIds |-> IF t \in T THEN Null ELSE Shown[t]]
  BY DEF Shown
<1> QED BY <1>1

LEMMA DeliveryStep ==
  ASSUME IInv, ResultsFromOwnRun, [Next]_vars
  PROVE  [Delivery!Next]_(Delivery!vars)
<1> DEFINE Blank(T) == Shown' = [t \in TabIds |-> IF t \in T THEN Null ELSE Shown[t]]
           Same == Owner' = Owner /\ SettledRuns' = SettledRuns
<1> USE DEF Settled
<1>1. /\ IInv' /\ OpenTabs(ws) \subseteq TabIds /\ OpenTabs(ws)' \subseteq TabIds
      /\ runs \in [Runs -> Run] /\ runs' \in [Runs -> Run] /\ Null \notin TabIds
      /\ ws.active \in OpenTabs(ws)
  BY StepEffect, TabsAssumption DEF IInv, TypeOK, StripOK
<1>2. CASE Quiet
  <2>1. Same
    BY <1>2 DEF Quiet, Owner, SettledRuns
  <2>2. \A t \in TabIds : Shown'[t] \in {Null, Shown[t]}
    BY <1>2 DEF Quiet, Blanked, Shown
  <2>3. \E T \in SUBSET TabIds : Blank(T)
    BY <2>2, BlankSome
  <2>4. Delivery!Forget
    BY <2>1, <2>3 DEF Delivery!Forget, Delivery!Blank, Owner, SettledRuns, Shown
  <2> QED BY <2>4 DEF Delivery!Next
<1>3. ASSUME NEW r \in Runs, Expires(r)
      PROVE  Delivery!Next
  <2>1. Same
    BY <1>3 DEF Expires, Owner, SettledRuns
  <2>2. \A t \in TabIds : Shown'[t] \in {Null, Shown[t]}
    BY <1>3 DEF Expires, OthersSame, SameTab, SameOpen, Shown
  <2>3. \E T \in SUBSET TabIds : Blank(T)
    BY <2>2, BlankSome
  <2>4. Delivery!Forget
    BY <2>1, <2>3 DEF Delivery!Forget, Delivery!Blank, Owner, SettledRuns, Shown
  <2> QED BY <2>4 DEF Delivery!Next
<1>4. ASSUME NEW r \in Runs, Launches(r)
      PROVE  Delivery!Next
  <2>1. Owner[r] = Null /\ Owner' = [Owner EXCEPT ![r] = ws.active]
    BY <1>1, <1>4 DEF Launches, Owner
  <2>2. SettledRuns' \in {SettledRuns, SettledRuns \cup {r}}
    BY <1>1, <1>4 DEF Launches, SettledRuns
  <2>3. Blank({}) \/ Blank({ws.active})
    BY <1>1, <1>4 DEF Launches, OthersSame, SameTab, SameOpen, Blanked, Shown
  <2>4. PICK t \in TabIds : t = ws.active
    BY <1>1
  <2>5. Delivery!Launch(r, t)
    BY <2>1, <2>2, <2>3, <2>4 DEF Delivery!Launch, Delivery!Blank, Owner, SettledRuns, Shown
  <2> QED BY <2>5 DEF Delivery!Next
<1>5. ASSUME NEW r \in Runs, runs[r].pc \in Waiting
      PROVE  Delivery!Unsettled(r) /\ Owner[r] = runs[r].tab
  BY <1>1, <1>5 DEF Delivery!Unsettled, Waiting, Run, Owner
<1>6. ASSUME NEW r \in Runs, Fails(r)
      PROVE  Delivery!Next
  <2>1. Owner' = Owner /\ SettledRuns' = SettledRuns \cup {r}
    BY <1>1, <1>6 DEF Fails, Moves, Waiting, Owner, SettledRuns
  <2>2. Blank({}) \/ Blank({runs[r].tab})
    BY <1>1, <1>6 DEF Fails, OthersSame, SameTab, SameOpen, Blanked, Shown
  <2>3. Delivery!Unsettled(r) /\ Owner[r] = runs[r].tab
    BY <1>5, <1>6 DEF Fails
  <2>4. Delivery!Fail(r)
    BY <2>1, <2>2, <2>3 DEF Delivery!Fail, Delivery!Blank, Owner, SettledRuns, Shown
  <2> QED BY <2>4 DEF Delivery!Next
<1>7. ASSUME NEW r \in Runs, Delivers(r)
      PROVE  Delivery!Next
  <2>1. Owner' = Owner /\ SettledRuns' = SettledRuns \cup {r}
    BY <1>1, <1>7 DEF Delivers, Moves, Waiting, Owner, SettledRuns
  <2>2. Delivery!Unsettled(r) /\ Owner[r] = runs[r].tab
    BY <1>5, <1>7 DEF Delivers
  <2>3. CASE runs[r].tab \in OpenTabs(ws)
    <3>1. Shown' = [Shown EXCEPT ![runs[r].tab] = r]
      BY <1>1, <1>7, <2>3 DEF Delivers, OthersSame, SameTab, SameOpen, Shown
    <3>2. Delivery!Deliver(r)
      BY <2>1, <2>2, <3>1 DEF Delivery!Deliver, Owner, SettledRuns, Shown
    <3> QED BY <3>2 DEF Delivery!Next
  <2>4. CASE runs[r].tab \notin OpenTabs(ws)
    <3>1. Blank({})
      BY <1>1, <1>7, <2>4 DEF Delivers, OthersSame, SameTab, SameOpen, Shown
    <3>2. Delivery!Fail(r)
      BY <2>1, <2>2, <3>1 DEF Delivery!Fail, Delivery!Blank, Owner, SettledRuns, Shown
    <3> QED BY <3>2 DEF Delivery!Next
  <2> QED BY <2>3, <2>4
<1>8. ASSUME NEW r \in Runs, Progresses(r)
      PROVE  [Delivery!Next]_(Delivery!vars)
  <2>1. Owner' = Owner /\ Blank({}) /\ Shown' = Shown
    BY <1>1, <1>8 DEF Progresses, Moves, Waiting, SameTab, SameOpen, Owner, Shown
  <2>2. CASE runs'[r].pc = "stranded"
    <3>1. SettledRuns' = SettledRuns \cup {r}
      BY <1>1, <1>8, <2>2 DEF Progresses, Moves, Waiting, SettledRuns
    <3>2. Delivery!Unsettled(r)
      BY <1>5, <1>8, <2>2 DEF Progresses
    <3>3. Delivery!Fail(r)
      BY <2>1, <3>1, <3>2 DEF Delivery!Fail, Delivery!Blank, Owner, SettledRuns, Shown
    <3> QED BY <3>3 DEF Delivery!Next
  <2>3. CASE runs'[r].pc # "stranded"
    <3>1. SettledRuns' = SettledRuns
      BY <1>1, <1>8, <2>3 DEF Progresses, Moves, Waiting, SettledRuns
    <3> QED BY <2>1, <3>1 DEF Delivery!vars, Owner, SettledRuns, Shown
  <2> QED BY <2>2, <2>3
<1> QED
  BY <1>2, <1>3, <1>4, <1>6, <1>7, <1>8, StepEffect

\* Whatever the user does meanwhile, a run delivers to the tab it was
\* launched from, once, and cleared results do not come back.
THEOREM Implements == Spec => DeliverySpec
<1>1. Init => Delivery!Init
  BY DeliveryInit
<1>2. IInv /\ ResultsFromOwnRun /\ [Next]_vars => [Delivery!Next]_(Delivery!vars)
  BY DeliveryStep
<1> QED
  BY <1>1, <1>2, Inductive, OwnResults, PTL DEF Spec, DeliverySpec, Delivery!Spec

=============================================================================
