---------------------------- MODULE QueryExecutor ----------------------------
(***************************************************************************)
(* The native execute_query: QueryExecutor.cs and what its engines do with *)
(* a statement.                                                            *)
(*                                                                         *)
(* Every command of the frontend is a call of its own, and calls overlap.  *)
(* A call has its connection to itself; what it shares with the others is  *)
(* the row cap, a static field that each sets on the way in and reads anew *)
(* for every result set.                                                   *)
(*                                                                         *)
(* Data: a text is a sequence of batches, a batch a sequence of            *)
(* statements, and a statement "read" or "write", as the read-only guard   *)
(* takes it (how splitters and guard read SQL is left out).  A result set  *)
(* is how many rows were found and how many are in the answer.  The        *)
(* engines behind a DbDataReader are one, "reader".                        *)
(***************************************************************************)
EXTENDS Filters, SequencesExt

CONSTANTS
  ExecCalls,     \* calls of execute_query; each is used once
  Requests,      \* what each of them may be called with
  DefaultLimit,  \* 10_000
  Sizes          \* how many rows a result set may have

Engines == {"sqlserver", "reader", "sqlite"}
Statements == {"read", "write"}

\* Only T-SQL has a batch separator.
ASSUME RequestsAssumption ==
  /\ DefaultLimit \in Nat \ {0} /\ Sizes \subseteq Nat
  /\ \A k \in ExecCalls : \A r \in Requests[k] :
       /\ r = [engine |-> r.engine, readOnly |-> r.readOnly, limit |-> r.limit, text |-> r.text]
       /\ r.engine \in Engines /\ r.readOnly \in BOOLEAN /\ r.limit \in Nat
       /\ r.text \in Seq(Seq(Statements)) /\ (r.engine = "sqlserver" \/ Len(r.text) = 1)

VARIABLES
  cap,     \* ActiveRowLimit
  request, \* what each call was made with, or NoRequest
  exec     \* where each call is

execVars == <<cap, request, exec>>

NoRequest == [engine |-> "none", readOnly |-> FALSE, limit |-> 0, text |-> <<>>]

\* `units` is what is left to execute, `begun` that its first one is under way,
\* `got` the result sets of that one.  History: `met`, another call was in
\* flight meanwhile; `ran`, the statements executed, and whether each was "done",
\* "cut" short among its rows, or "failed" with nothing to give.
NoCall == [pc |-> "idle", units |-> <<>>, begun |-> FALSE, got |-> <<>>, answer |-> <<>>,
           met |-> FALSE, ran |-> <<>>]

ExecInit ==
  /\ cap = DefaultLimit
  /\ request = [k \in ExecCalls |-> NoRequest]
  /\ exec = [k \in ExecCalls |-> NoCall]

\* Beside what is returned, `size` is how many rows the loop found, and `clipped`
\* that a value was longer than its buffer.
NoRows == [what |-> "rows", size |-> 0, shown |-> 0, clipped |-> FALSE, truncated |-> FALSE]
Error   == [NoRows EXCEPT !.what = "error"]
Refusal == [NoRows EXCEPT !.what = "refusal"]
Message == [NoRows EXCEPT !.what = "message"]

-----------------------------------------------------------------------------
(* The call.                                                               *)

\* Zero, and what is not a number, are taken for the default.
Clamped(limit) == IF limit > 0 THEN limit ELSE DefaultLimit

\* What is executed at once: a statement for SQLite, a batch for SQL Server,
\* the whole text for the others.
Units(r) ==
  LET all == Head(r.text) IN
  CASE r.engine = "sqlserver" -> r.text
    [] r.engine = "sqlite"    -> [i \in DOMAIN all |-> <<all[i]>>]
    [] r.engine = "reader"    -> <<all>>

\* Mutant of Permitted: the guard looks at how the batch starts.
PermittedByStart(unit) == \A i \in DOMAIN unit : i = 1 => unit[i] = "read"

Permitted(unit) == \A i \in DOMAIN unit : unit[i] = "read"

InFlight == {k \in ExecCalls : exec[k].pc = "running"}

\* The cap is that of this call from here on, for the others too.
Enters(k, r, pc, answer) ==
  /\ exec[k].pc = "idle"
  /\ cap' = Clamped(r.limit)
  /\ request' = [request EXCEPT ![k] = r]
  /\ exec' = [j \in ExecCalls |->
       IF j = k THEN [NoCall EXCEPT !.pc = pc, !.units = Units(r), !.answer = answer, !.met = InFlight # {}]
       ELSE [exec[j] EXCEPT !.met = @ \/ j \in InFlight]]

\* SQLite looks at every statement before it executes one.
Barred(r) == r.engine = "sqlite" /\ r.readOnly /\ \E i \in DOMAIN Units(r) : ~Permitted(Units(r)[i])

ExecuteQuery(k, r) == Units(r) # <<>> /\ ~Barred(r) /\ Enters(k, r, "running", <<>>)
RefuseQuery(k, r) == Barred(r) /\ Enters(k, r, "answered", <<Refusal>>)

\* "No statements found", or no results.
NothingToExecute(k, r) ==
  Units(r) = <<>> /\ Enters(k, r, "answered", IF r.engine = "sqlite" THEN <<Refusal>> ELSE <<>>)

-----------------------------------------------------------------------------
(* RunBatches and ExecuteBatch; the loop over the statements for SQLite.   *)

\* The other engines look at a batch when its turn comes.
Admitted(k) ==
  exec[k].begun \/ request[k].engine = "sqlite" \/ (request[k].readOnly => Permitted(Head(exec[k].units)))

RefuseBatch(k) ==
  /\ exec[k].pc = "running" /\ ~Admitted(k)
  /\ exec' = [exec EXCEPT ![k].pc = "answered", ![k].answer = Append(@, Refusal)]
  /\ UNCHANGED <<cap, request>>

Executing(k) == exec[k].pc = "running" /\ Admitted(k) /\ Head(exec[k].units) # <<>>
Statement(k) == Head(Head(exec[k].units))
Unit(k) == Len(Units(request[k])) - Len(exec[k].units)
Rest(k) == <<Tail(Head(exec[k].units))>> \o Tail(exec[k].units)
Cut(k) == <<<<>>>> \o Tail(exec[k].units)
Ran(k, end, size) == Append(exec[k].ran, [unit |-> Unit(k), statement |-> Statement(k), end |-> end, size |-> size])

\* The rows kept of a result set, and whether there was one more, or a value
\* whose length the driver cannot tell.
Harvested(size, clipped) ==
  [what |-> "rows", size |-> size, shown |-> IF size > cap THEN cap ELSE size,
   clipped |-> clipped, truncated |-> clipped \/ size > cap]

\* Only ODBC clips a value.
Clips(k, size, clipped) == clipped => request[k].engine = "sqlserver" /\ size > 0

ReadExecuted(k, size, clipped) ==
  /\ Executing(k) /\ Statement(k) = "read" /\ Clips(k, size, clipped)
  /\ exec' = [exec EXCEPT ![k].units = Rest(k), ![k].begun = TRUE, ![k].ran = Ran(k, "done", size),
                          ![k].got = Append(@, Harvested(size, clipped))]
  /\ UNCHANGED <<cap, request>>

\* SQLFetch or sqlite3_step fails after `size` rows, before the cap is met: the
\* loop ends as it does after the last row.  The ODBC batch may go on to its next
\* result, or end there.  A statement that SQLite cannot prepare has no rows.
ReadCutShort(k, size, clipped) ==
  /\ Executing(k) /\ Statement(k) = "read" /\ Clips(k, size, clipped)
  /\ request[k].engine \in {"sqlserver", "sqlite"} /\ size <= cap
  /\ \E left \in {Rest(k), Cut(k)} :
       exec' = [exec EXCEPT ![k].units = left, ![k].begun = TRUE, ![k].ran = Ran(k, "cut", size),
                            ![k].got = Append(@, Harvested(size, clipped))]
  /\ UNCHANGED <<cap, request>>

WriteExecuted(k) ==
  /\ Executing(k) /\ Statement(k) = "write"
  /\ exec' = [exec EXCEPT ![k].units = Rest(k), ![k].begun = TRUE, ![k].ran = Ran(k, "done", 0)]
  /\ UNCHANGED <<cap, request>>

\* An exception of a reader, whichever statement or row it is about, or a batch
\* that SQL Server does not begin: the batch is answered by the error alone.
BatchFailed(k) ==
  /\ Executing(k)
  /\ \/ request[k].engine = "reader"
     \/ request[k].engine = "sqlserver" /\ ~exec[k].begun
  /\ exec' = [exec EXCEPT ![k].pc = "answered", ![k].answer = Append(@, Error), ![k].got = <<>>,
                          ![k].begun = TRUE, ![k].ran = Ran(k, "failed", 0)]
  /\ UNCHANGED <<cap, request>>

\* SQLMoreResults fails: the batch ends as one that has no more results.
LaterStatementFailed(k) ==
  /\ Executing(k) /\ request[k].engine = "sqlserver" /\ exec[k].begun
  /\ exec' = [exec EXCEPT ![k].units = Cut(k), ![k].ran = Ran(k, "failed", 0)]
  /\ UNCHANGED <<cap, request>>

\* A file that cannot be opened is an error of a read; a write that fails, for
\* whatever reason, is said to be completed.
SqliteFailed(k) ==
  /\ Executing(k) /\ request[k].engine = "sqlite"
  /\ \/ /\ Statement(k) = "read"
        /\ exec' = [exec EXCEPT ![k].pc = "answered", ![k].answer = Append(@, Error),
                                ![k].begun = TRUE, ![k].ran = Ran(k, "failed", 0)]
     \/ /\ Statement(k) = "write"
        /\ exec' = [exec EXCEPT ![k].units = Cut(k), ![k].begun = TRUE, ![k].ran = Ran(k, "failed", 0)]
  /\ UNCHANGED <<cap, request>>

\* A batch without a result set is answered by how many rows it affected.
BatchDone(k) ==
  /\ exec[k].pc = "running" /\ Admitted(k) /\ Head(exec[k].units) = <<>>
  /\ exec' = [exec EXCEPT ![k].units = Tail(@), ![k].begun = FALSE, ![k].got = <<>>,
                          ![k].answer = @ \o IF exec[k].got = <<>> THEN <<Message>> ELSE exec[k].got,
                          ![k].pc = IF Len(exec[k].units) = 1 THEN "answered" ELSE @]
  /\ UNCHANGED <<cap, request>>

-----------------------------------------------------------------------------

ExecNext ==
  \E k \in ExecCalls :
    \/ \E r \in Requests[k] : ExecuteQuery(k, r) \/ RefuseQuery(k, r) \/ NothingToExecute(k, r)
    \/ \E size \in Sizes, clipped \in BOOLEAN : ReadExecuted(k, size, clipped)
    \/ \E size \in Sizes \cup {0}, clipped \in BOOLEAN : ReadCutShort(k, size, clipped)
    \/ WriteExecuted(k)
    \/ RefuseBatch(k) \/ BatchFailed(k) \/ LaterStatementFailed(k) \/ SqliteFailed(k) \/ BatchDone(k)

ExecSpec == ExecInit /\ [][ExecNext]_execVars

-----------------------------------------------------------------------------
(* Properties                                                              *)

ExecTypeOK ==
  /\ cap \in Nat \ {0}
  /\ \A k \in ExecCalls :
       /\ request[k] \in Requests[k] \cup {NoRequest}
       /\ exec[k].pc \in {"idle", "running", "answered"} /\ exec[k].begun \in BOOLEAN
       /\ exec[k].units \in Seq(Seq(Statements))

Erred(k) == exec[k].answer # <<>> /\ Last(exec[k].answer) = Error

\* What an answer says of its run, for every engine, wherever a batch is refused
\* or a statement fails, and whatever runs beside it: on a read-only connection
\* only reads were executed, and by SQLite none when one statement was refused;
\* nothing follows a refusal or an error; the result sets are those of the reads
\* that gave one, whole or cut short, with the rows found and in their order, but
\* for the batch an error stands for; and a call that met no other is cut by its
\* own limit, neither sooner nor later, and says so.
AnswerAccountsForRun ==
  \A k \in ExecCalls :
    LET c      == exec[k]
        failed == IF Erred(k) THEN {Last(c.ran).unit} ELSE {}
        reads  == Only(c.ran, {e \in Range(c.ran) :
                                 e.statement = "read" /\ e.end # "failed" /\ e.unit \notin failed})
        rows   == Only(c.answer, {a \in Range(c.answer) : a.what = "rows"})
    IN
    /\ request[k].readOnly => \A i \in DOMAIN c.ran : c.ran[i].statement = "read"
    /\ request[k].engine = "sqlite" /\ Refusal \in Range(c.answer) => c.ran = <<>>
    /\ \A i \in DOMAIN c.answer : c.answer[i] \in {Refusal, Error} =>
         i = Len(c.answer) /\ c.pc = "answered"
    /\ c.pc = "answered" =>
         [i \in DOMAIN rows |-> rows[i].size] = [i \in DOMAIN reads |-> reads[i].size]
    /\ ~c.met => \A a \in Range(rows) :
         LET limit == Clamped(request[k].limit) IN
         /\ a.shown = IF a.size > limit THEN limit ELSE a.size
         /\ a.truncated = (a.clipped \/ a.size > limit)

-----------------------------------------------------------------------------
(* What the code says of itself, and does not keep.                        *)

\* "FFI calls are serialized one at a time, so there is no concurrent writer" of
\* the row cap: every answer is cut by the limit of its own call.
CutByOwnLimit ==
  \A k \in ExecCalls : \A i \in DOMAIN exec[k].answer :
    LET a     == exec[k].answer[i]
        limit == Clamped(request[k].limit)
    IN  a.truncated = (a.clipped \/ a.size > limit)
=============================================================================
