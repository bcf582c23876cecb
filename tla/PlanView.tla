------------------------------ MODULE PlanView ------------------------------
(***************************************************************************)
(* From the answers of a run with "Include Plan" to the tree on display:   *)
(* query/planReshape.ts, plan/planParsers.ts and plan/PlanResult.tsx.      *)
(*                                                                         *)
(* Data: a result set is what it holds and its place in the answer; what   *)
(* it holds is "data", "message", "plan", or "markup", which is data with  *)
(* a cell that looks like a plan.  The first plan is the document of the   *)
(* run.  A document is a tree whose nodes are numbered in the order of the *)
(* text: `up` names the node around each one, 0 for none, and `kind` what  *)
(* it is; `cost` and `time` are its figures, in half units, the time -1    *)
(* where none was measured.  Labels, details and the key-value table of a  *)
(* node are left out.                                                      *)
(***************************************************************************)
EXTENDS Filters, FiniteSetsExt

CONSTANTS
  PlanNodes,   \* how many nodes a document has at most
  MaxAnswers   \* how many result sets a run answers with at most

ASSUME PlanAssumption == PlanNodes \in Nat \ {0} /\ MaxAnswers \in Nat

VARIABLES
  capture,   \* the answers and the document in them
  results,   \* the results of the tab: <<>> until reshaped
  plan       \* what the plan's tab draws: <<>> until rendered

planVars == <<capture, results, plan>>

-----------------------------------------------------------------------------
(* The documents of each engine.                                           *)

Uniform == {"postgres", "mysql v2", "sqlite"}    \* every node is an operator
Wrappers == {"union_result", "ordering_operation", "grouping_operation", "nested_loop", "table"}
Blocks == {"query_block", "ordering_operation", "grouping_operation"}
Kinds(engine) ==
  CASE engine \in Uniform    -> {"operator"}
    [] engine = "sqlserver"  -> {"RelOp", "element"}
    [] engine = "mysql"      -> Wrappers \cup {"query_block", "subqueries", "block-nl-join", "other"}

Within(d, n) == {i \in DOMAIN d.up : d.up[i] = n}

\* The nodes around each node, 0 for the document.
Around(d) ==
  LET around[n \in 0..Len(d.up)] == IF n = 0 THEN {} ELSE {d.up[n]} \cup around[d.up[n]] IN around

\* Which objects of a MySQL plan hold which: a block is of one shape, and may
\* have subqueries beside it; MariaDB joins through a buffer in a nested loop.
Holds(d, n, k) ==
  LET outer == IF n = 0 THEN "document" ELSE d.kind[n] IN
  CASE outer \in {"document", "union_result", "table", "subqueries"} -> k = "query_block"
    [] outer \in Blocks \cup {"other"} ->
         \/ k = "subqueries"
         \/ k \in Wrappers \cup {"other"} /\ \A m \in Within(d, n) : d.kind[m] = "subqueries"
    [] outer = "nested_loop"   -> k \in {"table", "block-nl-join"}
    [] outer = "block-nl-join" -> k = "table" /\ Within(d, n) = {}

\* A document grows at its end; only a row of SQLite may follow its parent late.
Grows(d, n, k) ==
  /\ d.engine # "sqlite" => n \in {Len(d.up)} \cup Around(d)[Len(d.up)]
  /\ d.engine \in {"mysql", "mysql v2"} => (n = 0 <=> d.up = <<>>)
  /\ d.engine = "mysql" => Holds(d, n, k)

Grown(d, n, k) ==
  [engine |-> d.engine, up |-> Append(d.up, n), kind |-> Append(d.kind, k),
   cost |-> Append(d.cost, 0), time |-> Append(d.time, -1)]

\* The documents with one node more.
Longer(d) ==
  {Grown(d, e[1], e[2]) : e \in {f \in (0..Len(d.up)) \X Kinds(d.engine) : Grows(d, f[1], f[2])}}

Trees(engine) ==
  LET trees[i \in 0..PlanNodes] ==
        IF i = 0
        THEN {[engine |-> engine, up |-> <<>>, kind |-> <<>>, cost |-> <<>>, time |-> <<>>]}
        ELSE trees[i - 1] \cup UNION {Longer(d) : d \in trees[i - 1]}
  IN  trees[PlanNodes]

\* A chain of five operators, with every combination of a few figures.
Chains ==
  {[engine |-> "postgres", up |-> [i \in 1..5 |-> i - 1], kind |-> [i \in 1..5 |-> "operator"],
    cost |-> [i \in 1..5 |-> f[i][1]], time |-> [i \in 1..5 |-> f[i][2]]] :
     f \in [1..5 -> {<<0, -1>>, <<1, -1>>, <<3, 1>>, <<6, -1>>, <<4, 5>>}]}

\* SQL Server answers data and plans in one call, a plan for each statement of
\* the text; for the others the plan, or its failure, is the answer of a second
\* call.
Held(engine) == {"data", "message"} \cup IF engine = "sqlserver" THEN {"plan", "markup"} ELSE {}

ResultSet(holds, place) == [is |-> holds, at |-> place, isPlan |-> FALSE]

Answers(engine) ==
  {[i \in DOMAIN a |-> ResultSet(a[i], i)] : a \in UNION {[1..n -> Held(engine)] : n \in 0..MaxAnswers}}

PlanInit ==
  /\ \E d \in Chains \cup UNION {Trees(e) : e \in Uniform \cup {"sqlserver", "mysql"}},
        failed \in BOOLEAN :
       \E a \in IF d.kind \in {<<"operator">>, <<"RelOp">>} THEN Answers(d.engine)
                ELSE {IF d.engine = "sqlserver" THEN <<ResultSet("plan", 1)>> ELSE <<>>} :
         /\ failed => d.up = <<>>
         /\ capture = [answers |-> a, doc |-> d, failed |-> failed]
  /\ results = <<>> /\ plan = <<>>

-----------------------------------------------------------------------------
(* planReshape.ts                                                          *)

\* A cell that begins with "<" and has "ShowPlanXML" or "<?xml" near it.
IsPlanXmlCell(result) == result.is \in {"plan", "markup"}

\* The first result set with such a cell is the plan, whatever it is; a second
\* one is data.  Without any the results stay as they are, messages included.
ReshapeSqlServerPlan(a) ==
  LET found == {i \in DOMAIN a : IsPlanXmlCell(a[i])}
      taken == a[Min(found)]
      rest  == {a[i] : i \in DOMAIN a} \ {taken}
  IN  IF found = {} THEN a
      ELSE Append(Only(a, {r \in rest : r.is # "message"}), [taken EXCEPT !.isPlan = TRUE])

AppendExplainPlan(a, failed) ==
  Append(a, [is |-> IF failed THEN "error" ELSE "plan", at |-> 0, isPlan |-> TRUE])

Reshape ==
  /\ results = <<>>
  /\ results' = IF capture.doc.engine = "sqlserver"
                THEN ReshapeSqlServerPlan(capture.answers)
                ELSE AppendExplainPlan(capture.answers, capture.failed)
  /\ UNCHANGED <<capture, plan>>

-----------------------------------------------------------------------------
(* planParsers.ts                                                          *)

\* Mutant of FindChildRelOps: only the elements right inside.
DirectRelOps(d, el) == {n \in Within(d, el) : d.kind[n] = "RelOp"}

\* Descends through other elements, and stops at a RelOp.
FindChildRelOps(d, el) ==
  LET inside == [n \in 0..Len(d.up) |-> Within(d, n)]
      walk[n \in 0..Len(d.up)] == UNION {IF d.kind[c] = "RelOp" THEN {c} ELSE walk[c] : c \in inside[n]}
  IN  walk[el]

\* The wrapper in the block, or a placeholder for the block itself; subqueries
\* beside it are not looked at.
ConvertMysqlBlock(d, block) ==
  LET known == {n \in Within(d, block) : d.kind[n] \in Wrappers} IN
  IF known = {} THEN -block ELSE Min(known)

\* A subquery in the FROM clause or attached to a table is below the table.
ConvertMysqlTable(d, n) == {ConvertMysqlBlock(d, b) : b \in Within(d, n)}

\* The members of a union likewise; a sort or a group is over what it holds; an
\* entry of a nested loop that is no table, and a block of unknown shape, are over
\* nothing.
ConvertMysqlNode(d, n) ==
  CASE d.kind[n] \in {"union_result", "table"}                      -> ConvertMysqlTable(d, n)
    [] d.kind[n] \in {"ordering_operation", "grouping_operation"}   -> {ConvertMysqlBlock(d, n)}
    [] d.kind[n] = "nested_loop"                                    -> Within(d, n)
    [] d.kind[n] \in {"query_block", "subqueries", "block-nl-join", "other"} -> {}

ConvertPostgresNode(d, n) == Within(d, n)
ConvertMysqlV2Node(d, n) == Within(d, n)
ConvertSqlServerNode(d, n) == FindChildRelOps(d, n)

\* The children of an operator.
Converted(d, n) ==
  CASE d.engine \in {"postgres", "sqlite"} -> ConvertPostgresNode(d, n)
    [] d.engine = "mysql v2"               -> ConvertMysqlV2Node(d, n)
    [] d.engine = "mysql"                  -> ConvertMysqlNode(d, n)
    [] d.engine = "sqlserver"              -> ConvertSqlServerNode(d, n)

\* The roots of the tree, none when there is no tree to draw.  SQLite has every
\* row without a parent, below a synthetic node when they are several.
ParseSqlitePlan(d) == Within(d, 0)
ParsePostgresPlan(d) == {1} \cap DOMAIN d.up
ParseMysqlPlan(d) ==
  IF d.engine = "mysql v2" THEN {1} \cap DOMAIN d.up
  ELSE {ConvertMysqlBlock(d, b) : b \in {1} \cap DOMAIN d.up}

\* The first RelOp of the text: the first statement's.
ParseSqlServerPlan(d) ==
  LET relOps == {n \in DOMAIN d.up : d.kind[n] = "RelOp"} IN
  {n \in relOps : n = Min(relOps)}

Roots(d) ==
  CASE d.engine = "sqlite"                 -> ParseSqlitePlan(d)
    [] d.engine = "postgres"               -> ParsePostgresPlan(d)
    [] d.engine \in {"mysql", "mysql v2"}  -> ParseMysqlPlan(d)
    [] d.engine = "sqlserver"              -> ParseSqlServerPlan(d)

\* The tree as its edges <<operator, child>>, 0 above the roots.
Below(d) ==
  LET below[n \in 1..Len(d.up)] ==
        UNION {{<<n, c>>} \cup (IF c > 0 THEN below[c] ELSE {}) : c \in Converted(d, n)}
  IN  below

Parsed(d) == UNION {{<<0, r>>} \cup (IF r > 0 THEN Below(d)[r] ELSE {}) : r \in Roots(d)}

Drawn(d) == DOMAIN d.up \cap {e[2] : e \in Parsed(d)}

\* Times where one node has one, else costs.
Value(d, n) ==
  IF \E m \in Drawn(d) : d.time[m] >= 0 THEN Max({d.time[n], 0}) ELSE d.cost[n]

\* The value a fifth down the list of the positive ones, and 1.0 at least.
HotNodeThreshold(d) ==
  LET costly == {n \in Drawn(d) : Value(d, n) > 0}
      sorted == SortedBy(costly, {p \in costly \X costly :
                  \/ Value(d, p[1]) > Value(d, p[2])
                  \/ Value(d, p[1]) = Value(d, p[2]) /\ p[1] < p[2]})
  IN  Max({Value(d, sorted[(Cardinality(costly) \div 5) + 1]), 2})

IsHotNode(d, n) == Value(d, n) > 0 /\ Value(d, n) >= HotNodeThreshold(d)

\* The tab of the plan: its tree, or the text as it came, or the error.  A cell of
\* the data shows as what it holds, which may be a plan somebody stored.
Render ==
  /\ results # <<>> /\ plan = <<>>
  /\ results[Len(results)].isPlan
  /\ LET shown == results[Len(results)].is
         d     == capture.doc
     IN
     \/ shown = "error" /\ plan' = <<"error">>
     \/ shown = "markup" /\ plan' \in {<<"raw">>, <<"stored">>}
     \/ shown = "plan" /\ Roots(d) = {} /\ plan' = <<"raw">>
     \/ /\ shown = "plan" /\ Roots(d) # {}
        /\ plan' = <<"tree", Parsed(d), {n \in Drawn(d) : IsHotNode(d, n)}>>
  /\ UNCHANGED <<capture, results>>

\* The statement is run again, and answered likewise.
RunAgain ==
  /\ results # <<>>
  /\ results' = <<>> /\ plan' = <<>>
  /\ UNCHANGED capture

PlanNext == Reshape \/ Render \/ RunAgain
PlanSpec == PlanInit /\ [][PlanNext]_planVars

-----------------------------------------------------------------------------
(* Properties                                                              *)

Operator(d, n) == d.engine \in Uniform \/ d.kind[n] \in Wrappers \cup {"RelOp", "block-nl-join"}

\* What the parsers do not look into.
Closed == {"subqueries", "block-nl-join", "other"}

\* What a document is to be drawn as, read off it node by node: an operator
\* of the first statement with nothing closed around it belongs to the
\* innermost operator around it.
Expected(d) ==
  LET around == Around(d)
      ops    == {n \in DOMAIN d.up : Operator(d, n)}
      first  == IF ops = {} THEN 0 ELSE Min(ops)
      known  == {n \in ops : \A m \in around[n] \ {0} : d.kind[m] \notin Closed}
      drawn  == IF d.engine = "sqlite" \/ d.engine = "mysql" THEN known
                ELSE {n \in known : first \in around[n] \cup {n}}
  IN  {<<Max((around[n] \cap ops) \cup {0}), n>> : n \in drawn}

\* What becomes of a run's answers: the result sets that stay are in their order,
\* and the last is the plan, for which no other is given up but the one it comes
\* from, and the messages; that is the first plan of the run, unless data look like
\* one.  Of its document every operator with nothing closed around it is drawn
\* once, below the innermost operator around it, however elements nest, and no
\* other is; the dearest operator is marked, and none is unmarked that is dearer
\* than a marked one, with at most a fifth of them strictly above the mark.
PlanAccountsForRun ==
  LET d     == capture.doc
      stay  == {results[i] : i \in {j \in DOMAIN results : ~results[j].isPlan}}
      shown == IF results = <<>> THEN ResultSet("none", 0) ELSE results[Len(results)]
  IN
  /\ results # <<>> =>
       /\ Only(results, stay) = Only(capture.answers, stay)
       /\ \A i \in DOMAIN results : results[i].isPlan => i = Len(results)
       /\ \A i \in DOMAIN capture.answers :
            \/ capture.answers[i] \in stay
            \/ shown.isPlan /\ (shown.at = i \/ capture.answers[i].is = "message")
       /\ \A i \in DOMAIN capture.answers : capture.answers[i].is = "plan" =>
            shown.isPlan /\ (shown.at <= i \/ shown.is = "markup")
  /\ plan # <<>> => results # <<>>
  /\ plan # <<>> /\ plan[1] = "tree" =>
       /\ {e \in plan[2] : e[2] > 0} = Expected(d)
       /\ \A n \in plan[3], m \in Drawn(d) \ plan[3] : Value(d, m) < Value(d, n)
       /\ plan[3] = {} => \A n \in Drawn(d) : Value(d, n) < 2
       /\ 5 * Cardinality({n \in plan[3] : \E m \in plan[3] : Value(d, m) < Value(d, n)})
            <= Cardinality({n \in Drawn(d) : Value(d, n) > 0})
  /\ plan = <<"raw">> => Expected(d) = {} \/ shown.is = "markup"
=============================================================================
