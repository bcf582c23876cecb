--------------------------- MODULE MCSchemaBrowser ---------------------------
(* Model values for SchemaBrowser: a server with two databases behind a       *)
(* tunnel, and a SQLite file.                                                 *)
EXTENDS SchemaBrowser, TLC

CONSTANTS server, file, main, other

MCDatabases == [c \in {server, file} |-> IF c = server THEN {main, other} ELSE {main}]
MCDefaultDb == [c \in {server, file} |-> main]

\* Once calls have overlapped, only the flags are claimed to make sense: that is
\* explored with one tab and without drops.  A tree that is adrift is explored
\* with one tab, or until an object is dropped.
SchemaBound ==
  /\ raced => /\ made = {FirstTab} /\ ~adrift /\ tables = {} /\ Len(cache) <= 1
              /\ gone = {} /\ dropping.pc = "closed"
  /\ adrift => made = {FirstTab} \/ gone = {}

LoadSymmetry == Permutations(Loads)
=============================================================================
