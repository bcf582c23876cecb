------------------------------- MODULE Tunnel -------------------------------
(***************************************************************************)
(* SSH tunnels: openTunnel and its port cache in the frontend, the         *)
(* open_tunnel command, and the two registries of the native library.      *)
(*                                                                         *)
(* The command is async, so two calls run on two threads: the native code  *)
(* of one call interleaves with that of another between any two accesses   *)
(* to the shared dictionaries, and the cache is checked before the awaits  *)
(* and filled after them.  A local port, the SshClient that carries it and *)
(* the ForwardedPortLocal are named by the call that made them.            *)
(***************************************************************************)
CONSTANTS
  Conns,   \* connections with sshEnabled; a tunnel id is a connection id
  Calls,   \* invocations of openTunnel; each element is used once
  Null

ASSUME TunnelAssumption == Null \notin Calls /\ Null \notin Conns

VARIABLES
  cache,      \* tunnelPortsRef: the port of a connection, Null for no entry
  loading,    \* tunnelLoading, what the sidebar shows
  call,       \* where each call is, for which connection, and its answer
  tunnels,    \* ActiveTunnels
  clients,    \* ActiveClients
  line,       \* what became of the client and the port a call created
  overlapped  \* history: calls that were in flight together on a connection

vars == <<cache, loading, call, tunnels, clients, line, overlapped>>

\* From the request to the resumption of openTunnel.
Phases  == {"asked", "removed", "closed", "connected", "listening", "half", "published", "failed"}
Settled == {"done", "refused"}

InFlight(k) == call[k].pc \in Phases

Init ==
  /\ cache = [c \in Conns |-> Null]
  /\ loading = [c \in Conns |-> FALSE]
  /\ call = [k \in Calls |-> [pc |-> "idle", conn |-> Null, answer |-> Null]]
  /\ tunnels = [c \in Conns |-> Null]
  /\ clients = [c \in Conns |-> Null]
  /\ line = [k \in Calls |-> "none"]
  /\ overlapped = {}

Goto(k, pc) == call' = [call EXCEPT ![k].pc = pc]

-----------------------------------------------------------------------------
(* The frontend's half: openTunnel.                                        *)

AskCached(k, c) ==
  /\ call[k].pc = "idle" /\ cache[c] # Null
  /\ call' = [call EXCEPT ![k] = [pc |-> "done", conn |-> c, answer |-> cache[c]]]
  /\ UNCHANGED <<cache, loading, tunnels, clients, line, overlapped>>

\* No port is cached: the password is fetched and the native side called.
AskOpen(k, c) ==
  LET others == {j \in Calls : InFlight(j) /\ call[j].conn = c} IN
  /\ call[k].pc = "idle" /\ cache[c] = Null
  /\ call' = [call EXCEPT ![k] = [pc |-> "asked", conn |-> c, answer |-> Null]]
  /\ loading' = [loading EXCEPT ![c] = TRUE]
  /\ overlapped' = IF others = {} THEN overlapped ELSE overlapped \cup others \cup {k}
  /\ UNCHANGED <<cache, tunnels, clients, line>>

Resume(k) ==
  LET c == call[k].conn IN
  /\ call[k].pc = "published"
  /\ cache' = [cache EXCEPT ![c] = k]
  /\ loading' = [loading EXCEPT ![c] = FALSE]
  /\ call' = [call EXCEPT ![k].pc = "done", ![k].answer = k]
  /\ UNCHANGED <<tunnels, clients, line, overlapped>>

\* Mutant of ResumeFailed: the catch block returns and there is no finally.
FailedWithoutFinally(k) ==
  /\ call[k].pc = "failed"
  /\ Goto(k, "refused")
  /\ UNCHANGED <<cache, loading, tunnels, clients, line, overlapped>>

\* The error is reported and the caller gets null.
ResumeFailed(k) ==
  /\ call[k].pc = "failed"
  /\ Goto(k, "refused")
  /\ loading' = [loading EXCEPT ![call[k].conn] = FALSE]
  /\ UNCHANGED <<cache, tunnels, clients, line, overlapped>>

-----------------------------------------------------------------------------
(* The native half: open_tunnel, on a thread of its own.                   *)

\* The key path does not pass the command's validation.
Reject(k) ==
  /\ call[k].pc = "asked"
  /\ Goto(k, "failed")
  /\ UNCHANGED <<cache, loading, tunnels, clients, line, overlapped>>

Stopped(l) == IF l = "live" THEN "client" ELSE l

\* Mutant of RemoveForward: the whole registry is emptied.
RemoveEveryForward(k) ==
  /\ call[k].pc = "asked"
  /\ line' = [j \in Calls |-> IF \E c \in Conns : tunnels[c] = j THEN Stopped(line[j]) ELSE line[j]]
  /\ tunnels' = [c \in Conns |-> Null]
  /\ Goto(k, "removed")
  /\ UNCHANGED <<cache, loading, clients, overlapped>>

\* CloseTunnelInternal: the port registered under this id stops listening ...
RemoveForward(k) ==
  LET c == call[k].conn IN
  /\ call[k].pc = "asked"
  /\ line' = [j \in Calls |-> IF j = tunnels[c] THEN Stopped(line[j]) ELSE line[j]]
  /\ tunnels' = [tunnels EXCEPT ![c] = Null]
  /\ Goto(k, "removed")
  /\ UNCHANGED <<cache, loading, clients, overlapped>>

\* ... and the client registered under it disconnects, which stops its port.
RemoveClient(k) ==
  LET c == call[k].conn IN
  /\ call[k].pc = "removed"
  /\ line' = [j \in Calls |-> IF j = clients[c] THEN "closed" ELSE line[j]]
  /\ clients' = [clients EXCEPT ![c] = Null]
  /\ Goto(k, "closed")
  /\ UNCHANGED <<cache, loading, tunnels, overlapped>>

Connect(k) ==
  /\ call[k].pc = "closed"
  /\ line' = [line EXCEPT ![k] = "client"]
  /\ Goto(k, "connected")
  /\ UNCHANGED <<cache, loading, tunnels, clients, overlapped>>

\* Mutant of ConnectFails: the error is answered as if it held a port.
FailureAnswered(k) ==
  /\ call[k].pc = "closed"
  /\ Goto(k, "done")
  /\ UNCHANGED <<cache, loading, tunnels, clients, line, overlapped>>

\* No usable credentials, or no connection within 15 seconds.
ConnectFails(k) ==
  /\ call[k].pc = "closed"
  /\ Goto(k, "failed")
  /\ UNCHANGED <<cache, loading, tunnels, clients, line, overlapped>>

StartForward(k) ==
  /\ call[k].pc = "connected" /\ line[k] = "client"
  /\ line' = [line EXCEPT ![k] = "live"]
  /\ Goto(k, "listening")
  /\ UNCHANGED <<cache, loading, tunnels, clients, overlapped>>

\* Mutant of StartFails: a client lost before the port starts is waited for.
StartFailsWhileConnected(k) ==
  /\ call[k].pc = "connected" /\ line[k] = "client"
  /\ Goto(k, "failed")
  /\ UNCHANGED <<cache, loading, tunnels, clients, line, overlapped>>

\* The port does not listen within 3 seconds; the client is left as it is.
StartFails(k) ==
  /\ call[k].pc = "connected"
  /\ Goto(k, "failed")
  /\ UNCHANGED <<cache, loading, tunnels, clients, line, overlapped>>

PublishClient(k) ==
  /\ call[k].pc = "listening"
  /\ clients' = [clients EXCEPT ![call[k].conn] = k]
  /\ Goto(k, "half")
  /\ UNCHANGED <<cache, loading, tunnels, line, overlapped>>

\* Mutant of PublishTunnel: the second dictionary is forgotten.
PublishNothing(k) ==
  /\ call[k].pc = "half"
  /\ Goto(k, "published")
  /\ UNCHANGED <<cache, loading, tunnels, clients, line, overlapped>>

PublishTunnel(k) ==
  /\ call[k].pc = "half"
  /\ tunnels' = [tunnels EXCEPT ![call[k].conn] = k]
  /\ Goto(k, "published")
  /\ UNCHANGED <<cache, loading, clients, line, overlapped>>

\* The network or the bastion drops the connection of a client.
Drop(k) ==
  /\ line[k] \in {"client", "live"}
  /\ line' = [line EXCEPT ![k] = "lost"]
  /\ UNCHANGED <<cache, loading, call, tunnels, clients, overlapped>>

-----------------------------------------------------------------------------

Step(k) ==
  \/ Reject(k) \/ RemoveForward(k) \/ RemoveClient(k)
  \/ Connect(k) \/ ConnectFails(k) \/ StartForward(k) \/ StartFails(k)
  \/ PublishClient(k) \/ PublishTunnel(k)
  \/ Resume(k) \/ ResumeFailed(k)

Next ==
  \E k \in Calls :
    \/ \E c \in Conns : AskCached(k, c) \/ AskOpen(k, c)
    \/ Step(k)
    \/ Drop(k)

Spec == Init /\ [][Next]_vars

\* Each native step ends: connecting and waiting for the port have deadlines,
\* and the JavaScript thread gets round to every answer.
FairSpec == Spec /\ \A k \in Calls : WF_vars(Step(k))

-----------------------------------------------------------------------------
(* Properties                                                              *)

\* The shape of the state; a call that is done has a port, and a client exists
\* only once its call has connected.
TypeOK ==
  /\ cache \in [Conns -> Calls \cup {Null}]
  /\ loading \in [Conns -> BOOLEAN]
  /\ call \in [Calls -> [pc : {"idle"} \cup Phases \cup Settled,
                         conn : Conns \cup {Null}, answer : Calls \cup {Null}]]
  /\ tunnels \in [Conns -> Calls \cup {Null}]
  /\ clients \in [Conns -> Calls \cup {Null}]
  /\ line \in [Calls -> {"none", "client", "live", "closed", "lost"}]
  /\ overlapped \subseteq Calls
  /\ \A k \in Calls :
       /\ call[k].pc # "idle" <=> call[k].conn # Null
       /\ call[k].pc = "done" <=> call[k].answer # Null
       /\ call[k].pc \in {"idle", "asked", "removed", "closed"} => line[k] = "none"

\* A tunnel that was opened while no other open was in flight on its
\* connection is the one in the cache and in both registries from then on, and
\* its port listens until the network drops it: no later call takes it down.
LoneOpenIsSound ==
  \A c \in Conns : LET k == cache[c] IN
    k # Null /\ k \notin overlapped =>
      /\ tunnels[c] = k /\ clients[c] = k
      /\ line[k] \in {"live", "lost"}

\* A port in use stops listening only because the network dropped it or
\* because a call for the very same connection is replacing it.
ReplacedByOwnId ==
  [][\A k \in Calls : line[k] = "live" /\ line'[k] # "live" =>
       \/ line'[k] = "lost"
       \/ \E j \in Calls \ {k} : /\ call[j].conn = call[k].conn
                                /\ call[j].pc \in {"asked", "removed"}
                                /\ call'[j].pc # call[j].pc]_vars

\* The sidebar shows "connecting" only while a call is in flight: whatever the
\* overlap, no order of completions leaves the indicator on for good.
LoadingExplained ==
  \A c \in Conns : loading[c] => \E k \in Calls : InFlight(k) /\ call[k].conn = c

\* Every call is answered, with a port or with null.
EveryCallSettles == \A k \in Calls : InFlight(k) ~> call[k].pc \in Settled
=============================================================================
