---------------------------- MODULE TunnelProofs ----------------------------
(***************************************************************************)
(* Proofs about Tunnel, for any number of connections and calls.           *)
(***************************************************************************)
EXTENDS Tunnel, TLAPS

Pcs == {"idle"} \cup Phases \cup Settled

\* Who is in a registry, or in the cache, got there with its own connection.
OwnClient(c) ==
  clients[c] # Null => call[clients[c]].conn = c /\ call[clients[c]].pc \in {"half", "published", "done"}
OwnTunnel(c) ==
  tunnels[c] # Null => call[tunnels[c]].conn = c /\ call[tunnels[c]].pc \in {"published", "done"}
OwnPort(c) ==
  cache[c] # Null => call[cache[c]].conn = c /\ call[cache[c]].pc = "done"

Registered == \A c \in Conns : OwnClient(c) /\ OwnTunnel(c) /\ OwnPort(c)

\* Two calls in flight on a connection know of each other.
Noted ==
  \A j, k \in Calls : InFlight(j) /\ InFlight(k) /\ j # k /\ call[j].conn = call[k].conn => j \in overlapped

\* How far a call in flight has come, when it met no other.
Underway(k) ==
  /\ call[k].pc \in {"listening", "half", "published"} => line[k] \in {"live", "lost"}
  /\ call[k].pc \in {"half", "published"} => clients[call[k].conn] = k
  /\ call[k].pc = "published" => tunnels[call[k].conn] = k

\* A port that was opened alone keeps its place, and nothing is in flight that
\* could take it.
Kept(c) ==
  cache[c] # Null /\ cache[c] \notin overlapped =>
    /\ tunnels[c] = cache[c] /\ clients[c] = cache[c]
    /\ line[cache[c]] \in {"live", "lost"}
    /\ \A j \in Calls : InFlight(j) => call[j].conn # c

Sound == (\A k \in Calls \ overlapped : Underway(k)) /\ \A c \in Conns : Kept(c)

TunnelInv == TypeOK /\ Registered /\ Noted /\ Sound /\ LoadingExplained

LEMMA TunnelInitially == Init => TunnelInv
<1> SUFFICES ASSUME Init PROVE TunnelInv
  OBVIOUS
<1>1. \A k \in Calls : call[k] = [pc |-> "idle", conn |-> Null, answer |-> Null]
  BY DEF Init
<1>2. TypeOK
  BY <1>1 DEF Init, TypeOK, Phases, Settled
<1>3. Registered
  BY DEF Init, Registered, OwnClient, OwnTunnel, OwnPort
<1>4. Noted /\ LoadingExplained
  BY <1>1 DEF Init, Noted, InFlight, Phases, LoadingExplained
<1>5. Sound
  BY <1>1 DEF Init, Sound, Underway, Kept
<1> QED BY <1>2, <1>3, <1>4, <1>5 DEF TunnelInv

LEMMA GotoFields ==
  ASSUME TypeOK, NEW k \in Calls, NEW pc \in Pcs, Goto(k, pc)
  PROVE  /\ call' \in [Calls -> [pc : Pcs, conn : Conns \cup {Null}, answer : Calls \cup {Null}]]
         /\ call'[k].pc = pc /\ call'[k].conn = call[k].conn /\ call'[k].answer = call[k].answer
         /\ \A j \in Calls \ {k} : call'[j] = call[j]
  BY DEF TypeOK, Goto, Pcs

\* Before its client, a call is in no registry, and none but itself moves it on.
LEMMA NotYetRegistered ==
  ASSUME TunnelInv, NEW k \in Calls, call[k].pc \in Phases \ {"half", "published"}
  PROVE  \A c \in Conns : clients[c] # k /\ tunnels[c] # k /\ cache[c] # k
<1>1. call[k].pc \notin {"half", "published", "done"} /\ k # Null
  BY TunnelAssumption DEF Phases
<1> SUFFICES ASSUME NEW c \in Conns PROVE clients[c] # k /\ tunnels[c] # k /\ cache[c] # k
  OBVIOUS
<1>2. OwnClient(c) /\ OwnTunnel(c) /\ OwnPort(c)
  BY DEF TunnelInv, Registered
<1> QED BY <1>1, <1>2 DEF OwnClient, OwnTunnel, OwnPort

LEMMA AskStep ==
  ASSUME TunnelInv, NEW k \in Calls, NEW c \in Conns, AskCached(k, c) \/ AskOpen(k, c)
  PROVE  TunnelInv'
<1> USE DEF TunnelInv
<1>1. call[k].pc = "idle" /\ ~InFlight(k) /\ UNCHANGED <<cache, tunnels, clients, line>>
  BY DEF AskCached, AskOpen, InFlight, Phases
<1>2. PICK pc \in {"done", "asked"}, a \in Calls \cup {Null} :
        /\ call' = [call EXCEPT ![k] = [pc |-> pc, conn |-> c, answer |-> a]]
        /\ pc = "done" <=> a # Null
        /\ pc = "done" => UNCHANGED <<loading, overlapped>>
        /\ pc = "asked" => AskOpen(k, c)
  BY DEF AskCached, AskOpen, TypeOK
<1>3. /\ call'[k].pc = pc /\ call'[k].conn = c /\ call'[k].answer = a
      /\ \A j \in Calls \ {k} : call'[j] = call[j]
  BY <1>2 DEF TypeOK
<1>4. overlapped \subseteq overlapped' /\ overlapped' \subseteq Calls /\ loading' \in [Conns -> BOOLEAN]
  BY <1>2 DEF AskOpen, TypeOK
<1>5. \A d \in Conns : clients[d] # k /\ tunnels[d] # k /\ cache[d] # k
  BY <1>1, TunnelAssumption DEF Registered, OwnClient, OwnTunnel, OwnPort
<1>6. TypeOK'
  <2>1. call' \in [Calls -> [pc : {"idle"} \cup Phases \cup Settled,
                             conn : Conns \cup {Null}, answer : Calls \cup {Null}]]
    BY <1>2 DEF TypeOK, Phases, Settled
  <2>2. line[k] = "none" /\ c # Null
    BY <1>1, TunnelAssumption DEF TypeOK
  <2>3. \A j \in Calls :
          /\ call'[j].pc # "idle" <=> call'[j].conn # Null
          /\ call'[j].pc = "done" <=> call'[j].answer # Null
          /\ call'[j].pc \in {"idle", "asked", "removed", "closed"} => line[j] = "none"
    <3>1. ASSUME NEW j \in Calls \ {k}
          PROVE  /\ call'[j].pc # "idle" <=> call'[j].conn # Null
                 /\ call'[j].pc = "done" <=> call'[j].answer # Null
                 /\ call'[j].pc \in {"idle", "asked", "removed", "closed"} => line[j] = "none"
      BY <1>3 DEF TypeOK
    <3> QED BY <1>2, <1>3, <2>2, <3>1
  <2>4. /\ cache \in [Conns -> Calls \cup {Null}] /\ tunnels \in [Conns -> Calls \cup {Null}]
        /\ clients \in [Conns -> Calls \cup {Null}]
        /\ line \in [Calls -> {"none", "client", "live", "closed", "lost"}]
    BY DEF TypeOK
  <2> QED BY <1>1, <1>4, <2>1, <2>3, <2>4 DEF TypeOK
<1>7. Registered'
  <2> SUFFICES ASSUME NEW d \in Conns PROVE OwnClient(d)' /\ OwnTunnel(d)' /\ OwnPort(d)'
    BY DEF Registered
  <2>1. OwnClient(d) /\ OwnTunnel(d) /\ OwnPort(d)
    BY DEF Registered
  <2>2. {clients[d], tunnels[d], cache[d]} \subseteq Calls \cup {Null}
    BY DEF TypeOK
  <2> QED BY <1>1, <1>3, <1>5, <2>1, <2>2 DEF OwnClient, OwnTunnel, OwnPort
<1>8. \A j \in Calls : InFlight(j)' => (j # k /\ InFlight(j) /\ call'[j].conn = call[j].conn) \/ (j = k /\ pc = "asked")
  BY <1>3 DEF InFlight, Phases
<1>9. Noted'
  <2> SUFFICES ASSUME NEW i \in Calls, NEW j \in Calls, InFlight(i)', InFlight(j)', i # j,
                      call'[i].conn = call'[j].conn
               PROVE  i \in overlapped'
    BY DEF Noted
  <2>1. CASE i # k /\ j # k
    BY <1>3, <1>4, <1>8, <2>1 DEF Noted
  <2>2. CASE i = k \/ j = k
    <3>1. AskOpen(k, c)
      BY <1>2, <1>8, <2>2
    <3>2. PICK m \in Calls : m \in {i, j} /\ m # k /\ InFlight(m) /\ call[m].conn = c
      BY <1>3, <1>8, <2>2
    <3> QED BY <2>2, <3>1, <3>2 DEF AskOpen
  <2> QED BY <2>1, <2>2
<1>10. Sound'
  <2>1. \A j \in Calls \ overlapped' : Underway(j)'
    BY <1>1, <1>2, <1>3, <1>4 DEF Sound, Underway
  <2>2. ASSUME NEW d \in Conns PROVE Kept(d)'
    <3>1. Kept(d)
      BY DEF Sound
    <3>2. pc = "asked" => cache[c] = Null
      BY <1>2 DEF AskOpen
    <3> QED BY <1>1, <1>3, <1>4, <1>8, <3>1, <3>2 DEF Kept
  <2> QED BY <2>1, <2>2 DEF Sound
<1>11. LoadingExplained'
  <2> SUFFICES ASSUME NEW d \in Conns, loading'[d] PROVE \E j \in Calls : InFlight(j)' /\ call'[j].conn = d
    BY DEF LoadingExplained
  <2>1. \A j \in Calls : InFlight(j) => InFlight(j)' /\ call'[j].conn = call[j].conn
    BY <1>1, <1>3 DEF InFlight
  <2>2. CASE loading[d]
    BY <2>1, <2>2 DEF LoadingExplained
  <2>3. CASE ~loading[d]
    <3>1. pc = "asked" /\ d = c
      BY <1>2, <2>3 DEF AskOpen, TypeOK
    <3> QED BY <1>3, <3>1 DEF InFlight, Phases
  <2> QED BY <2>2, <2>3
<1> QED BY <1>6, <1>7, <1>9, <1>10, <1>11

\* A step that only moves a call along, with its own line perhaps: it connects,
\* or starts its port, or fails.
LEMMA OwnLineStep ==
  ASSUME TunnelInv, NEW k \in Calls,
         Reject(k) \/ Connect(k) \/ ConnectFails(k) \/ StartForward(k) \/ StartFails(k)
  PROVE  TunnelInv'
<1> USE DEF TunnelInv
<1>1. /\ call[k].pc \in {"asked", "closed", "connected"} /\ InFlight(k)
      /\ UNCHANGED <<cache, loading, tunnels, clients, overlapped>>
  BY DEF Reject, Connect, ConnectFails, StartForward, StartFails, InFlight, Phases
<1>2. PICK pc \in {"connected", "listening", "failed"}, l \in {"none", "client", "live", "closed", "lost"} :
        /\ Goto(k, pc) /\ line' = [line EXCEPT ![k] = l]
        /\ pc = "listening" => l = "live"
  <2>1. line' = line => line' = [line EXCEPT ![k] = line[k]] /\ line[k] \in {"none", "client", "live", "closed", "lost"}
    BY DEF TypeOK
  <2> QED BY <2>1 DEF Reject, Connect, ConnectFails, StartForward, StartFails
<1>3. /\ call' \in [Calls -> [pc : Pcs, conn : Conns \cup {Null}, answer : Calls \cup {Null}]]
      /\ call'[k].pc = pc /\ call'[k].conn = call[k].conn /\ call'[k].answer = call[k].answer
      /\ \A j \in Calls \ {k} : call'[j] = call[j]
  BY <1>2, GotoFields DEF Pcs, Phases
<1>4. line'[k] = l /\ \A j \in Calls \ {k} : line'[j] = line[j]
  BY <1>2 DEF TypeOK
<1>5. \A d \in Conns : clients[d] # k /\ tunnels[d] # k /\ cache[d] # k
  BY <1>1, NotYetRegistered DEF Phases
<1>6. \A j \in Calls : (InFlight(j)' <=> InFlight(j)) /\ call'[j].conn = call[j].conn
  BY <1>1, <1>3 DEF InFlight, Phases
<1>7. TypeOK'
  <2>1. line' \in [Calls -> {"none", "client", "live", "closed", "lost"}]
    BY <1>2 DEF TypeOK
  <2>2. \A j \in Calls :
          /\ call'[j].pc # "idle" <=> call'[j].conn # Null
          /\ call'[j].pc = "done" <=> call'[j].answer # Null
          /\ call'[j].pc \in {"idle", "asked", "removed", "closed"} => line'[j] = "none"
    BY <1>1, <1>3, <1>4 DEF TypeOK
  <2> QED BY <1>1, <1>3, <2>1, <2>2 DEF TypeOK, Pcs
<1>8. Registered'
  <2> SUFFICES ASSUME NEW d \in Conns PROVE OwnClient(d)' /\ OwnTunnel(d)' /\ OwnPort(d)'
    BY DEF Registered
  <2>1. OwnClient(d) /\ OwnTunnel(d) /\ OwnPort(d)
    BY DEF Registered
  <2>2. {clients[d], tunnels[d], cache[d]} \subseteq Calls \cup {Null}
    BY DEF TypeOK
  <2> QED BY <1>1, <1>3, <1>5, <2>1, <2>2 DEF OwnClient, OwnTunnel, OwnPort
<1>9. Noted'
  BY <1>1, <1>6 DEF Noted
<1>10. Sound'
  <2>1. ASSUME NEW j \in Calls \ overlapped' PROVE Underway(j)'
    <3>1. Underway(j)
      BY <1>1, <2>1 DEF Sound
    <3>2. CASE j = k
      BY <1>2, <1>3, <1>4, <3>2 DEF Underway
    <3>3. CASE j # k
      BY <1>1, <1>3, <1>4, <3>1, <3>3 DEF Underway
    <3> QED BY <3>2, <3>3
  <2>2. ASSUME NEW d \in Conns PROVE Kept(d)'
    <3>1. Kept(d) /\ cache[d] \in Calls \cup {Null}
      BY DEF Sound, TypeOK
    <3> QED BY <1>1, <1>4, <1>5, <1>6, <3>1 DEF Kept
  <2> QED BY <2>1, <2>2 DEF Sound
<1>11. LoadingExplained'
  BY <1>1, <1>6 DEF LoadingExplained
<1> QED BY <1>7, <1>8, <1>9, <1>10, <1>11

\* CloseTunnelInternal: what is registered under the connection goes.
LEMMA RemoveStep ==
  ASSUME TunnelInv, NEW k \in Calls, RemoveForward(k) \/ RemoveClient(k)
  PROVE  TunnelInv'
<1> USE DEF TunnelInv
<1> DEFINE c == call[k].conn
<1>1. call[k].pc \in {"asked", "removed"} /\ InFlight(k) /\ c \in Conns
  BY DEF RemoveForward, RemoveClient, InFlight, Phases, TypeOK
<1>2. UNCHANGED <<cache, loading, overlapped>>
  BY DEF RemoveForward, RemoveClient
<1>3. PICK pc \in {"removed", "closed"} : Goto(k, pc)
  BY DEF RemoveForward, RemoveClient
<1>4. /\ call' \in [Calls -> [pc : Pcs, conn : Conns \cup {Null}, answer : Calls \cup {Null}]]
      /\ call'[k].pc = pc /\ call'[k].conn = call[k].conn /\ call'[k].answer = call[k].answer
      /\ \A j \in Calls \ {k} : call'[j] = call[j]
  BY <1>3, GotoFields DEF Pcs, Phases
<1>5. \A j \in Calls : (InFlight(j)' <=> InFlight(j)) /\ call'[j].conn = call[j].conn
  BY <1>1, <1>4 DEF InFlight, Phases
<1>6. /\ tunnels' \in [Conns -> Calls \cup {Null}] /\ clients' \in [Conns -> Calls \cup {Null}]
      /\ \A d \in Conns : (d # c => tunnels'[d] = tunnels[d] /\ clients'[d] = clients[d])
                          /\ tunnels'[d] \in {tunnels[d], Null} /\ clients'[d] \in {clients[d], Null}
  BY <1>1 DEF RemoveForward, RemoveClient, TypeOK
<1>7. \A j \in Calls : line'[j] # line[j] =>
        /\ line'[j] \in {"client", "closed"}
        /\ call[j].conn = c /\ call[j].pc \in {"half", "published", "done"}
  <2> SUFFICES ASSUME NEW j \in Calls, line'[j] # line[j]
               PROVE  /\ line'[j] \in {"client", "closed"}
                      /\ call[j].conn = c /\ call[j].pc \in {"half", "published", "done"}
    OBVIOUS
  <2>1. CASE RemoveForward(k)
    <3>1. j = tunnels[c] /\ line'[j] = "client"
      BY <2>1 DEF RemoveForward, Stopped
    <3> QED BY <1>1, <3>1, TunnelAssumption DEF Registered, OwnTunnel
  <2>2. CASE RemoveClient(k)
    <3>1. j = clients[c] /\ line'[j] = "closed"
      BY <2>2 DEF RemoveClient
    <3> QED BY <1>1, <3>1, TunnelAssumption DEF Registered, OwnClient
  <2> QED BY <2>1, <2>2
<1>8. TypeOK'
  <2>1. line' \in [Calls -> {"none", "client", "live", "closed", "lost"}]
    <3>1. \E f \in [Calls -> {"none", "client", "live", "closed", "lost"}] : line' = f
      BY DEF RemoveForward, RemoveClient, Stopped, TypeOK
    <3> QED BY <3>1
  <2>2. \A j \in Calls :
          /\ call'[j].pc # "idle" <=> call'[j].conn # Null
          /\ call'[j].pc = "done" <=> call'[j].answer # Null
          /\ call'[j].pc \in {"idle", "asked", "removed", "closed"} => line'[j] = "none"
    BY <1>1, <1>4, <1>7 DEF TypeOK
  <2> QED BY <1>2, <1>4, <1>6, <2>1, <2>2 DEF TypeOK, Pcs
<1>9. Registered'
  <2> SUFFICES ASSUME NEW d \in Conns PROVE OwnClient(d)' /\ OwnTunnel(d)' /\ OwnPort(d)'
    BY DEF Registered
  <2>1. OwnClient(d) /\ OwnTunnel(d) /\ OwnPort(d)
    BY DEF Registered
  <2>2. {clients[d], tunnels[d], cache[d]} \subseteq Calls \cup {Null}
    BY DEF TypeOK
  <2>3. \A j \in Calls : call[j].pc \in {"half", "published", "done"} => call'[j] = call[j]
    BY <1>1, <1>4
  <2> QED BY <1>2, <1>6, <2>1, <2>2, <2>3 DEF OwnClient, OwnTunnel, OwnPort
<1>10. Noted'
  BY <1>2, <1>5 DEF Noted
<1>11. Sound'
  <2>1. ASSUME NEW j \in Calls \ overlapped' PROVE Underway(j)'
    <3>1. Underway(j) /\ j \notin overlapped
      BY <1>2, <2>1 DEF Sound
    <3>2. CASE j = k
      BY <1>4, <3>2 DEF Underway
    <3>3. CASE j # k
      <4>1. InFlight(j) => call[j].conn # c
        BY <1>1, <3>1, <3>3 DEF Noted
      <4>2. call[j].pc \in {"listening", "half", "published"} =>
              /\ call[j].conn \in Conns \ {c}
              /\ line'[j] = line[j]
        BY <1>7, <4>1 DEF InFlight, Phases, TypeOK
      <4> QED BY <1>4, <1>6, <3>1, <3>3, <4>2 DEF Underway
    <3> QED BY <3>2, <3>3
  <2>2. ASSUME NEW d \in Conns PROVE Kept(d)'
    <3>1. Kept(d) /\ cache[d] \in Calls \cup {Null}
      BY DEF Sound, TypeOK
    <3>2. cache[d] # Null => call[cache[d]].conn = d
      BY DEF Registered, OwnPort
    <3> QED BY <1>1, <1>2, <1>5, <1>6, <1>7, <3>1, <3>2 DEF Kept
  <2> QED BY <2>1, <2>2 DEF Sound
<1>12. LoadingExplained'
  BY <1>2, <1>5 DEF LoadingExplained
<1> QED BY <1>8, <1>9, <1>10, <1>11, <1>12

LEMMA PublishStep ==
  ASSUME TunnelInv, NEW k \in Calls, PublishClient(k) \/ PublishTunnel(k)
  PROVE  TunnelInv'
<1> USE DEF TunnelInv
<1> DEFINE c == call[k].conn
<1>1. call[k].pc \in {"listening", "half"} /\ InFlight(k) /\ c \in Conns
  BY DEF PublishClient, PublishTunnel, InFlight, Phases, TypeOK
<1>2. UNCHANGED <<cache, loading, line, overlapped>>
  BY DEF PublishClient, PublishTunnel
<1>3. PICK pc \in {"half", "published"} :
        /\ Goto(k, pc)
        /\ pc = "half" => call[k].pc = "listening" /\ clients' = [clients EXCEPT ![c] = k] /\ tunnels' = tunnels
        /\ pc = "published" => call[k].pc = "half" /\ tunnels' = [tunnels EXCEPT ![c] = k] /\ clients' = clients
  BY DEF PublishClient, PublishTunnel
<1>4. /\ call' \in [Calls -> [pc : Pcs, conn : Conns \cup {Null}, answer : Calls \cup {Null}]]
      /\ call'[k].pc = pc /\ call'[k].conn = call[k].conn /\ call'[k].answer = call[k].answer
      /\ \A j \in Calls \ {k} : call'[j] = call[j]
  BY <1>3, GotoFields DEF Pcs, Phases
<1>5. \A j \in Calls : (InFlight(j)' <=> InFlight(j)) /\ call'[j].conn = call[j].conn
  BY <1>1, <1>4 DEF InFlight, Phases
<1>6. /\ tunnels' \in [Conns -> Calls \cup {Null}] /\ clients' \in [Conns -> Calls \cup {Null}]
      /\ \A d \in Conns \ {c} : tunnels'[d] = tunnels[d] /\ clients'[d] = clients[d]
      /\ pc = "half" => clients'[c] = k /\ tunnels'[c] = tunnels[c]
      /\ pc = "published" => tunnels'[c] = k /\ clients'[c] = clients[c]
  BY <1>1, <1>3 DEF TypeOK
<1>7. TypeOK'
  <2>1. \A j \in Calls :
          /\ call'[j].pc # "idle" <=> call'[j].conn # Null
          /\ call'[j].pc = "done" <=> call'[j].answer # Null
          /\ call'[j].pc \in {"idle", "asked", "removed", "closed"} => line[j] = "none"
    BY <1>1, <1>4 DEF TypeOK
  <2> QED BY <1>2, <1>4, <1>6, <2>1 DEF TypeOK, Pcs
<1>8. Registered'
  <2> SUFFICES ASSUME NEW d \in Conns PROVE OwnClient(d)' /\ OwnTunnel(d)' /\ OwnPort(d)'
    BY DEF Registered
  <2>1. OwnClient(d) /\ OwnTunnel(d) /\ OwnPort(d)
    BY DEF Registered
  <2>2. {clients[d], tunnels[d], cache[d]} \subseteq Calls \cup {Null}
    BY DEF TypeOK
  <2>3. OwnClient(d)'
    BY <1>3, <1>4, <1>6, <2>1, <2>2 DEF OwnClient
  <2>4. OwnTunnel(d)'
    BY <1>1, <1>3, <1>4, <1>6, <2>1, <2>2 DEF OwnTunnel
  <2>5. OwnPort(d)'
    BY <1>1, <1>2, <1>4, <2>1, <2>2 DEF OwnPort
  <2> QED BY <2>3, <2>4, <2>5
<1>9. Noted'
  BY <1>2, <1>5 DEF Noted
<1>10. Sound'
  <2>1. ASSUME NEW j \in Calls \ overlapped' PROVE Underway(j)'
    <3>1. Underway(j) /\ j \notin overlapped
      BY <1>2, <2>1 DEF Sound
    <3>2. CASE j = k
      BY <1>2, <1>3, <1>4, <1>6, <3>1, <3>2 DEF Underway
    <3>3. CASE j # k
      <4>1. call[j].pc \in {"half", "published"} => call[j].conn \in Conns \ {c}
        BY <1>1, <3>1, <3>3 DEF Noted, InFlight, Phases, TypeOK
      <4> QED BY <1>2, <1>4, <1>6, <3>1, <3>3, <4>1 DEF Underway
    <3> QED BY <3>2, <3>3
  <2>2. ASSUME NEW d \in Conns PROVE Kept(d)'
    <3>1. Kept(d)
      BY DEF Sound
    <3> QED BY <1>1, <1>2, <1>5, <1>6, <3>1 DEF Kept
  <2> QED BY <2>1, <2>2 DEF Sound
<1>11. LoadingExplained'
  BY <1>2, <1>5 DEF LoadingExplained
<1> QED BY <1>7, <1>8, <1>9, <1>10, <1>11

\* The call is answered, and its connection shows "connecting" no more.
LEMMA ResumeStep ==
  ASSUME TunnelInv, NEW k \in Calls, Resume(k) \/ ResumeFailed(k)
  PROVE  TunnelInv'
<1> USE DEF TunnelInv
<1> DEFINE c == call[k].conn
<1>1. call[k].pc \in {"published", "failed"} /\ InFlight(k) /\ c \in Conns
  BY DEF Resume, ResumeFailed, InFlight, Phases, TypeOK
<1>2. UNCHANGED <<tunnels, clients, line, overlapped>> /\ loading' = [loading EXCEPT ![c] = FALSE]
  BY DEF Resume, ResumeFailed
<1>3. PICK pc \in {"done", "refused"} :
        /\ pc = "done" => /\ call[k].pc = "published" /\ cache' = [cache EXCEPT ![c] = k]
                          /\ call' = [call EXCEPT ![k].pc = "done", ![k].answer = k]
        /\ pc = "refused" => call[k].pc = "failed" /\ cache' = cache /\ Goto(k, "refused")
  BY DEF Resume, ResumeFailed
<1>4. /\ call' \in [Calls -> [pc : Pcs, conn : Conns \cup {Null}, answer : Calls \cup {Null}]]
      /\ call'[k].pc = pc /\ call'[k].conn = call[k].conn
      /\ pc = "done" => call'[k].answer = k
      /\ pc = "refused" => call'[k].answer = call[k].answer
      /\ \A j \in Calls \ {k} : call'[j] = call[j]
  <2>1. CASE pc = "done"
    BY <1>3, <2>1 DEF TypeOK, Pcs, Settled
  <2>2. CASE pc = "refused"
    BY <1>3, <2>2, GotoFields DEF Pcs, Settled
  <2> QED BY <2>1, <2>2
<1>5. \A j \in Calls : (InFlight(j)' <=> j # k /\ InFlight(j)) /\ call'[j].conn = call[j].conn
  BY <1>1, <1>4 DEF InFlight, Phases
<1>6. /\ cache' \in [Conns -> Calls \cup {Null}]
      /\ \A d \in Conns : cache'[d] = IF d = c /\ pc = "done" THEN k ELSE cache[d]
  BY <1>1, <1>3 DEF TypeOK
<1>7. TypeOK'
  <2>1. loading' \in [Conns -> BOOLEAN]
    BY <1>2 DEF TypeOK
  <2>2. \A j \in Calls :
          /\ call'[j].pc # "idle" <=> call'[j].conn # Null
          /\ call'[j].pc = "done" <=> call'[j].answer # Null
          /\ call'[j].pc \in {"idle", "asked", "removed", "closed"} => line[j] = "none"
    BY <1>1, <1>4, TunnelAssumption DEF TypeOK
  <2> QED BY <1>2, <1>4, <1>6, <2>1, <2>2 DEF TypeOK, Pcs
<1>8. Registered'
  <2> SUFFICES ASSUME NEW d \in Conns PROVE OwnClient(d)' /\ OwnTunnel(d)' /\ OwnPort(d)'
    BY DEF Registered
  <2>1. OwnClient(d) /\ OwnTunnel(d) /\ OwnPort(d)
    BY DEF Registered
  <2>2. {clients[d], tunnels[d], cache[d]} \subseteq Calls \cup {Null}
    BY DEF TypeOK
  <2>3. call[k].pc \in {"half", "published", "done"} => pc = "done"
    BY <1>3
  <2>4. OwnClient(d)' /\ OwnTunnel(d)'
    BY <1>2, <1>4, <2>1, <2>2, <2>3 DEF OwnClient, OwnTunnel
  <2>5. OwnPort(d)'
    BY <1>1, <1>4, <1>6, <2>1, <2>2 DEF OwnPort
  <2> QED BY <2>4, <2>5
<1>9. Noted'
  BY <1>2, <1>5 DEF Noted
<1>10. Sound'
  <2>1. ASSUME NEW j \in Calls \ overlapped' PROVE Underway(j)'
    <3>1. Underway(j)
      BY <1>2, <2>1 DEF Sound
    <3> QED BY <1>2, <1>4, <3>1 DEF Underway
  <2>2. ASSUME NEW d \in Conns PROVE Kept(d)'
    <3>1. Kept(d)
      BY DEF Sound
    <3>2. CASE d = c /\ pc = "done"
      <4>1. k \notin overlapped => Underway(k) /\ \A j \in Calls \ {k} : InFlight(j) => call[j].conn # c
        BY <1>1 DEF Sound, Noted
      <4>2. call[k].pc = "published" /\ cache'[d] = k
        BY <1>3, <1>6, <3>2
      <4> QED BY <1>2, <1>5, <3>2, <4>1, <4>2 DEF Kept, Underway
    <3>3. CASE ~(d = c /\ pc = "done")
      <4>1. cache'[d] = cache[d]
        BY <1>6, <3>3
      <4> QED BY <1>2, <1>5, <3>1, <4>1 DEF Kept
    <3> QED BY <3>2, <3>3
  <2> QED BY <2>1, <2>2 DEF Sound
<1>11. LoadingExplained'
  <2> SUFFICES ASSUME NEW d \in Conns, loading'[d] PROVE \E j \in Calls : InFlight(j)' /\ call'[j].conn = d
    BY DEF LoadingExplained
  <2>1. d # c /\ loading[d]
    BY <1>1, <1>2 DEF TypeOK
  <2> QED BY <1>5, <2>1 DEF LoadingExplained
<1> QED BY <1>7, <1>8, <1>9, <1>10, <1>11

LEMMA DropStep ==
  ASSUME TunnelInv, NEW k \in Calls, Drop(k)
  PROVE  TunnelInv'
<1> USE DEF TunnelInv
<1>1. line[k] \in {"client", "live"} /\ UNCHANGED <<cache, loading, call, tunnels, clients, overlapped>>
  BY DEF Drop
<1>2. /\ line' \in [Calls -> {"none", "client", "live", "closed", "lost"}]
      /\ line'[k] = "lost" /\ \A j \in Calls \ {k} : line'[j] = line[j]
  BY DEF Drop, TypeOK
<1>3. TypeOK'
  BY <1>1, <1>2 DEF TypeOK
<1>4. Registered' /\ Noted' /\ LoadingExplained'
  BY <1>1 DEF Registered, OwnClient, OwnTunnel, OwnPort, Noted, LoadingExplained, InFlight
<1>5. Sound'
  <2>1. ASSUME NEW j \in Calls \ overlapped' PROVE Underway(j)'
    <3>1. Underway(j)
      BY <1>1, <2>1 DEF Sound
    <3> QED BY <1>1, <1>2, <3>1 DEF Underway
  <2>2. ASSUME NEW d \in Conns PROVE Kept(d)'
    <3>1. Kept(d) /\ cache[d] \in Calls \cup {Null}
      BY DEF Sound, TypeOK
    <3> QED BY <1>1, <1>2, <3>1 DEF Kept, InFlight
  <2> QED BY <2>1, <2>2 DEF Sound
<1> QED BY <1>3, <1>4, <1>5

LEMMA TunnelPreserved == TunnelInv /\ [Next]_vars => TunnelInv'
<1> SUFFICES ASSUME TunnelInv, [Next]_vars PROVE TunnelInv'
  OBVIOUS
<1>1. CASE Next
  BY <1>1, AskStep, OwnLineStep, RemoveStep, PublishStep, ResumeStep, DropStep DEF Next, Step
<1>2. CASE UNCHANGED vars
  BY <1>2 DEF vars, TunnelInv, TypeOK, Registered, OwnClient, OwnTunnel, OwnPort, Noted, Sound, Underway, Kept,
              LoadingExplained, InFlight
<1> QED BY <1>1, <1>2

LEMMA TunnelAlways == Spec => []TunnelInv
  BY TunnelInitially, TunnelPreserved, PTL DEF Spec

\* The registries, the cache and the calls are typed, and a client exists only
\* once its call has connected.
THEOREM TunnelTypes == Spec => []TypeOK
<1>1. TunnelInv => TypeOK
  BY DEF TunnelInv
<1> QED BY <1>1, TunnelAlways, PTL

\* The indicator of a connection is on only while a call for it is in flight
\* (the finally block of openTunnel).
THEOREM IndicatorExplained == Spec => []LoadingExplained
<1>1. TunnelInv => LoadingExplained
  BY DEF TunnelInv
<1> QED BY <1>1, TunnelAlways, PTL

\* A tunnel opened alone stays in the cache and in both registries of
\* SshTunnel.cs, and its port listens until the network drops it.
THEOREM LoneOpens == Spec => []LoneOpenIsSound
<1>1. TunnelInv => LoneOpenIsSound
  BY DEF TunnelInv, Sound, Kept, LoneOpenIsSound
<1> QED BY <1>1, TunnelAlways, PTL

\* CloseTunnelInternal only ever takes down ports of its own connection.
THEOREM OwnReplacement == Spec => ReplacedByOwnId
<1> DEFINE Replaced ==
      \A k \in Calls : line[k] = "live" /\ line'[k] # "live" =>
        \/ line'[k] = "lost"
        \/ \E j \in Calls \ {k} : /\ call[j].conn = call[k].conn
                                 /\ call[j].pc \in {"asked", "removed"}
                                 /\ call'[j].pc # call[j].pc
<1>1. TunnelInv /\ [Next]_vars => [Replaced]_vars
  <2> SUFFICES ASSUME TunnelInv, Next, NEW k \in Calls, line[k] = "live", line'[k] # "live", line'[k] # "lost"
               PROVE  \E j \in Calls \ {k} : /\ call[j].conn = call[k].conn
                                            /\ call[j].pc \in {"asked", "removed"}
                                            /\ call'[j].pc # call[j].pc
    OBVIOUS
  <2>1. PICK j \in Calls : RemoveForward(j) \/ RemoveClient(j)
    <3>1. ASSUME NEW j \in Calls, NEW c \in Conns, AskCached(j, c) \/ AskOpen(j, c) PROVE FALSE
      BY <3>1 DEF AskCached, AskOpen
    <3>2. ASSUME NEW j \in Calls, Connect(j) \/ StartForward(j) \/ Drop(j) PROVE FALSE
      BY <3>2 DEF Connect, StartForward, Drop, TunnelInv, TypeOK
    <3>3. ASSUME NEW j \in Calls, Reject(j) \/ ConnectFails(j) \/ StartFails(j) \/ PublishClient(j) \/ PublishTunnel(j)
                                  \/ Resume(j) \/ ResumeFailed(j)
          PROVE  FALSE
      BY <3>3 DEF Reject, ConnectFails, StartFails, PublishClient, PublishTunnel, Resume, ResumeFailed
    <3> QED BY <3>1, <3>2, <3>3 DEF Next, Step
  <2>2. call[j].pc \in {"asked", "removed"} /\ call[j].conn \in Conns
    BY <2>1 DEF RemoveForward, RemoveClient, TunnelInv, TypeOK
  <2>3. call'[j].pc # call[j].pc
    BY <2>1 DEF RemoveForward, RemoveClient, Goto, TunnelInv, TypeOK
  <2>4. call[k].conn = call[j].conn /\ call[k].pc \in {"half", "published", "done"}
    <3>1. CASE RemoveForward(j)
      <4>1. k = tunnels[call[j].conn]
        BY <3>1 DEF RemoveForward
      <4> QED BY <2>2, <4>1, TunnelAssumption DEF TunnelInv, Registered, OwnTunnel
    <3>2. CASE RemoveClient(j)
      <4>1. k = clients[call[j].conn]
        BY <3>2 DEF RemoveClient
      <4> QED BY <2>2, <4>1, TunnelAssumption DEF TunnelInv, Registered, OwnClient
    <3> QED BY <2>1, <3>1, <3>2
  <2> QED BY <2>2, <2>3, <2>4
<1> QED
  BY <1>1, TunnelAlways, PTL DEF Spec, ReplacedByOwnId
=============================================================================
