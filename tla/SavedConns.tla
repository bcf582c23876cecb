----------------------------- MODULE SavedConns -----------------------------
(* The saved connections as the panels of the window know them: what they  *)
(* ask of a ConnectionConfig.                                              *)
EXTENDS Tabs

CONSTANTS
  Conns,
  Sqlite,      \* engine "sqlite": no list of databases, no server activity
  SshConns,    \* sshEnabled
  Databases,   \* the databases of each connection's server
  DefaultDb    \* the database a connection was saved with

ASSUME SavedConnsAssumption ==
  /\ Sqlite \subseteq Conns /\ SshConns \subseteq Conns
  /\ Null \notin Conns
  /\ \A c \in Conns : Null \notin Databases[c] /\ DefaultDb[c] \in Databases[c]

AllDatabases == UNION {Databases[c] : c \in Conns}
=============================================================================
