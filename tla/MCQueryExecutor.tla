---------------------------- MODULE MCQueryExecutor ----------------------------
(***************************************************************************)
(* What two overlapping calls of execute_query are made with.              *)
(***************************************************************************)
EXTENDS QueryExecutor

CONSTANTS e1, e2

\* Every text of one batch with up to two statements, or with another of one more
\* behind it, and beside that call one that has no limit of its own.
OneBatch == UNION {[1..n -> Statements] : n \in 0..2}
TwoBatches == {<<batch, <<last>>>> : batch \in OneBatch \ {<<>>}, last \in Statements}
MCRequests ==
  [k \in {e1, e2} |->
     IF k = e1
     THEN [engine : Engines, readOnly : BOOLEAN, limit : {1}, text : {<<batch>> : batch \in OneBatch}]
            \cup [engine : {"sqlserver"}, readOnly : BOOLEAN, limit : {1}, text : TwoBatches \cup {<<>>}]
     ELSE {[engine |-> "reader", readOnly |-> FALSE, limit |-> 0, text |-> <<<<"read">>>>]}]
=============================================================================
