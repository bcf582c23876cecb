---------------------------- MODULE AnswerProofs ----------------------------
(***************************************************************************)
(* Proofs about what a query is answered with: first about QueryExecutor,  *)
(* for any number of overlapping calls, any texts and any limits, then     *)
(* about PlanView, for plans of any size and answers of any length.        *)
(***************************************************************************)
EXTENDS QueryExecutor, PlanView, ListProofs

Results == [what : {"error", "refusal", "message", "rows"},
            size : Nat, shown : Nat, clipped : BOOLEAN, truncated : BOOLEAN]
Ends == {"done", "cut", "failed"}
Executions == [unit : Int, statement : Statements, end : Ends, size : Nat]
Batches == Seq(Statements)

CallStates == [pc : {"idle", "running", "answered"}, units : Seq(Batches), begun : BOOLEAN,
               got : Seq(Results), answer : Seq(Results), met : BOOLEAN, ran : Seq(Executions)]

RowResults == {a \in Results : a.what = "rows"}
ReadsBut(failed) == {e \in Executions : e.statement = "read" /\ e.end # "failed" /\ e.unit \notin failed}

\* The sizes of those elements of s that are in V, in their order.
SizesOf(s, V) == [i \in DOMAIN Only(s, V) |-> Only(s, V)[i].size]

Stops(a) == a \in {Refusal, Error}
Fits(a, limit) ==
  a.what = "rows" =>
    a.shown = (IF a.size > limit THEN limit ELSE a.size) /\ a.truncated = (a.clipped \/ a.size > limit)

\* The first of the units left of c, counted from 0.
UnitOf(c, r) == Len(Units(r)) - Len(c.units)

\* While a call runs, what it has answered and got of the unit at hand accounts
\* for what it ran; without that unit, what it answered does alone.
Accounted(c, r) ==
  /\ \A i \in DOMAIN c.ran : c.ran[i].unit <= UnitOf(c, r)
  /\ SizesOf(c.answer, RowResults) = SizesOf(c.ran, ReadsBut({UnitOf(c, r)}))
  /\ SizesOf(c.answer \o c.got, RowResults) = SizesOf(c.ran, ReadsBut({}))
  /\ \A i \in DOMAIN c.answer : ~Stops(c.answer[i])
  /\ \A i \in DOMAIN c.got : ~Stops(c.got[i])
  /\ ~c.begun => c.got = <<>>

\* What is left of it is permitted, as far as it was looked at; SQLite is given
\* one statement at a time.
Guarded(c, r) ==
  /\ r.readOnly /\ r.engine = "sqlite" => \A i \in DOMAIN c.units : Permitted(c.units[i])
  /\ r.readOnly /\ c.begun => Permitted(Head(c.units))
  /\ r.engine = "sqlite" => \A i \in DOMAIN c.units : Len(c.units[i]) <= 1
  /\ r.engine = "sqlite" /\ c.begun => Head(c.units) = <<>>

FailedUnits(c) ==
  IF c.answer # <<>> /\ c.answer[Len(c.answer)] = Error THEN {c.ran[Len(c.ran)].unit} ELSE {}

Answered(c) ==
  /\ \A i \in DOMAIN c.answer : Stops(c.answer[i]) => i = Len(c.answer)
  /\ SizesOf(c.answer, RowResults) = SizesOf(c.ran, ReadsBut(FailedUnits(c)))

\* A call that met no other has the cap to itself.
Undisturbed(c, r, top) ==
  ~c.met =>
    /\ c.pc = "running" => top = Clamped(r.limit)
    /\ c.pc = "running" => \A i \in DOMAIN c.got : Fits(c.got[i], Clamped(r.limit))
    /\ \A i \in DOMAIN c.answer : Fits(c.answer[i], Clamped(r.limit))

OnlyReads(c, r) == r.readOnly => \A i \in DOMAIN c.ran : c.ran[i].statement = "read"
RefusedWhole(c, r) == r.engine = "sqlite" => \A i \in DOMAIN c.answer : c.answer[i] = Refusal => c.ran = <<>>

Running(c, r) ==
  /\ Units(r) \in Seq(Batches) /\ c.units # <<>>
  /\ Accounted(c, r) /\ Guarded(c, r)

\* A call c for the request r: what it returned so far accounts for what it ran and
\* is cut by its own cap, unless it met another call.
CallInv(c, r, top) ==
  /\ c \in CallStates
  /\ c.pc = "idle" => c = NoCall
  /\ c.pc = "running" => Running(c, r)
  /\ c.pc = "answered" => Answered(c)
  /\ Undisturbed(c, r, top) /\ OnlyReads(c, r) /\ RefusedWhole(c, r)

ExecInv ==
  /\ cap \in Nat \ {0}
  /\ DOMAIN request = ExecCalls /\ DOMAIN exec = ExecCalls
  /\ \A k \in ExecCalls : request[k] \in Requests[k] \cup {NoRequest}
  /\ \A k \in ExecCalls : CallInv(exec[k], request[k], cap)

-----------------------------------------------------------------------------
(* Lists of results.                                                       *)

LEMMA OnlyOfAgreeing ==
  ASSUME NEW s, NEW V, NEW W, \A i \in DOMAIN s : s[i] \in V <=> s[i] \in W
  PROVE  Only(s, V) = Only(s, W) /\ SizesOf(s, V) = SizesOf(s, W)
<1>1. At(s, V) = At(s, W)
  BY DEF At
<1> QED BY <1>1 DEF Only, SizesOf

LEMMA SizesAppend ==
  ASSUME NEW S, \A x \in S : x.size \in Nat, NEW s \in Seq(S), NEW e \in S, NEW V
  PROVE  SizesOf(Append(s, e), V) = IF e \in V THEN Append(SizesOf(s, V), e.size) ELSE SizesOf(s, V)
<1> DEFINE o == Only(s, V)
           p == Only(Append(s, e), V)
<1>1. p = IF e \in V THEN Append(o, e) ELSE o
  BY OnlyAppend
<1>2. o \in Seq(S)
  BY OnlyProperties
<1>3. SizesOf(s, V) = [i \in DOMAIN o |-> o[i].size] /\ SizesOf(Append(s, e), V) = [i \in DOMAIN p |-> p[i].size]
  BY DEF SizesOf
<1> HIDE DEF o, p
<1>4. CASE e \notin V
  BY <1>1, <1>3, <1>4
<1>5. CASE e \in V
  <2>1. p = Append(o, e)
    BY <1>1, <1>5
  <2>2. /\ DOMAIN o = 1..Len(o) /\ DOMAIN p = 1..(Len(o) + 1) /\ Len(o) \in Nat
        /\ p[Len(o) + 1] = e /\ \A i \in 1..Len(o) : p[i] = o[i]
    BY <1>2, <2>1
  <2> DEFINE a == [i \in 1..Len(o) |-> o[i].size]
             b == [i \in 1..(Len(o) + 1) |-> p[i].size]
  <2>3. \A i \in 1..Len(o) : o[i] \in S
    BY <1>2
  <2>4. a \in Seq(Nat) /\ Len(a) = Len(o)
    BY <2>2, <2>3
  <2>5. b \in Seq(Nat) /\ Len(b) = Len(o) + 1
    <3>1. \A i \in 1..(Len(o) + 1) : p[i].size \in Nat
      BY <2>2, <2>3
    <3> QED BY <2>2, <3>1
  <2>6. \A i \in 1..(Len(o) + 1) : b[i] = Append(a, e.size)[i]
    BY <2>2, <2>4
  <2>7. Append(a, e.size) \in Seq(Nat) /\ Len(Append(a, e.size)) = Len(o) + 1
    BY <2>4
  <2>8. b = Append(a, e.size)
    BY <2>5, <2>6, <2>7, SeqEqual
  <2> QED BY <1>3, <1>5, <2>2, <2>8
<1> QED BY <1>4, <1>5

LEMMA ResultSizes ==
  ASSUME NEW s \in Seq(Results), NEW a \in Results
  PROVE  SizesOf(Append(s, a), RowResults) =
           IF a.what = "rows" THEN Append(SizesOf(s, RowResults), a.size) ELSE SizesOf(s, RowResults)
<1>1. \A x \in Results : x.size \in Nat
  BY DEF Results
<1>2. a \in RowResults <=> a.what = "rows"
  BY DEF RowResults
<1> QED BY <1>1, <1>2, SizesAppend

LEMMA ReadSizes ==
  ASSUME NEW s \in Seq(Executions), NEW e \in Executions, NEW failed
  PROVE  SizesOf(Append(s, e), ReadsBut(failed)) =
           IF e.statement = "read" /\ e.end # "failed" /\ e.unit \notin failed
           THEN Append(SizesOf(s, ReadsBut(failed)), e.size) ELSE SizesOf(s, ReadsBut(failed))
<1>1. \A x \in Executions : x.size \in Nat
  BY DEF Executions
<1>2. e \in ReadsBut(failed) <=> e.statement = "read" /\ e.end # "failed" /\ e.unit \notin failed
  BY DEF ReadsBut
<1> QED BY <1>1, <1>2, SizesAppend

LEMMA NothingSized ==
  ASSUME NEW V
  PROVE  Only(<<>>, V) = <<>> /\ SizesOf(<<>>, V) = <<>>
<1>1. Only(<<>>, V) = <<>>
  BY OnlyEmpty
<1> QED BY <1>1 DEF SizesOf

-----------------------------------------------------------------------------
(* What a call is after each of its steps: c before, d after.              *)

\* The first unit is replaced by what is left of it.
LEMMA FirstReplaced ==
  ASSUME NEW us \in Seq(Batches), us # <<>>, NEW x \in Batches
  PROVE  LET n == <<x>> \o Tail(us) IN
         /\ n \in Seq(Batches) /\ n # <<>> /\ Len(n) = Len(us) /\ Head(n) = x
         /\ \A i \in DOMAIN n : i = 1 \/ (i \in DOMAIN us /\ n[i] = us[i])
         /\ Head(us) \in Batches /\ Head(us) = us[1] /\ 1 \in DOMAIN us
<1> DEFINE n == <<x>> \o Tail(us)
<1>1. <<x>> \in Seq(Batches) /\ Len(<<x>>) = 1 /\ <<x>>[1] = x
  OBVIOUS
<1>2. /\ Tail(us) \in Seq(Batches) /\ Len(Tail(us)) = Len(us) - 1 /\ Len(us) \in Nat \ {0}
      /\ \A i \in 1..Len(Tail(us)) : Tail(us)[i] = us[i + 1]
  BY HeadTailProperties, EmptySeq
<1>3. /\ n \in Seq(Batches) /\ Len(n) = Len(us)
      /\ \A i \in 1..Len(us) : n[i] = IF i <= 1 THEN <<x>>[i] ELSE Tail(us)[i - 1]
  BY <1>1, <1>2, ConcatProperties
<1> HIDE DEF n
<1>4. n # <<>> /\ Head(n) = x /\ DOMAIN n = 1..Len(us) /\ DOMAIN us = 1..Len(us)
  BY <1>1, <1>2, <1>3
<1>5. \A i \in 1..Len(us) : i = 1 \/ n[i] = us[i]
  <2> TAKE i \in 1..Len(us)
  <2>1. CASE i # 1
    <3>1. i - 1 \in 1..Len(Tail(us)) /\ (i - 1) + 1 = i /\ ~(i <= 1)
      BY <1>2, <2>1
    <3> QED BY <1>2, <1>3, <3>1
  <2> QED BY <2>1
<1>6. Head(us) \in Batches /\ Head(us) = us[1]
  BY HeadTailProperties
<1> QED BY <1>2, <1>3, <1>4, <1>5, <1>6 DEF n

Admits(c, r) == c.begun \/ r.engine = "sqlite" \/ (r.readOnly => Permitted(Head(c.units)))

LEMMA AdmittedReads ==
  ASSUME NEW c \in CallStates, NEW r, Running(c, r), Admits(c, r), r.readOnly
  PROVE  Permitted(Head(c.units))
<1>1. c.units \in Seq(Batches) /\ c.units # <<>> /\ Guarded(c, r)
  BY DEF CallStates, Running
<1>2. Head(c.units) = c.units[1] /\ 1 \in DOMAIN c.units
  BY <1>1, HeadTailProperties, EmptySeq
<1> QED BY <1>1, <1>2 DEF Guarded, Admits

\* A step of c that goes on with its unit, whether its statement succeeded or not.
Continues(c, d, r, e) ==
  /\ c \in CallStates /\ d \in CallStates /\ e \in Executions
  /\ c.pc = "running" /\ Head(c.units) # <<>> /\ Admits(c, r)
  /\ e.unit = UnitOf(c, r) /\ e.statement = Head(Head(c.units))
  /\ d.pc = "running" /\ d.begun /\ d.answer = c.answer /\ d.met = c.met /\ d.ran = Append(c.ran, e)
  /\ \E x \in {Tail(Head(c.units)), <<>>} : d.units = <<x>> \o Tail(c.units)

LEMMA ContinuesGuarded ==
  ASSUME NEW c, NEW d, NEW r, NEW e, Continues(c, d, r, e), Running(c, r)
  PROVE  /\ d.units # <<>> /\ Guarded(d, r) /\ UnitOf(d, r) = UnitOf(c, r)
         /\ r.readOnly => e.statement = "read"
         /\ r.engine = "sqlite" => c.got = <<>>
<1> DEFINE us == c.units
           first == Head(c.units)
<1>1. /\ us \in Seq(Batches) /\ us # <<>> /\ Guarded(c, r) /\ c \in CallStates
      /\ first \in Batches /\ first # <<>> /\ c.begun \in BOOLEAN
  BY HeadTailProperties DEF Continues, CallStates, Running
<1>2. PICK x \in {Tail(first), <<>>} : d.units = <<x>> \o Tail(us)
  BY DEF Continues
<1> HIDE DEF us, first
<1>3. /\ Tail(first) \in Batches /\ first[1] = Head(first) /\ 1 \in DOMAIN first
      /\ Len(Tail(first)) = Len(first) - 1 /\ Len(first) \in Nat \ {0}
      /\ \A i \in DOMAIN Tail(first) : Tail(first)[i] = first[i + 1] /\ i + 1 \in DOMAIN first
  <2>1. first \in Seq(Statements) /\ first # <<>>
    BY <1>1 DEF Batches
  <2>2. /\ Tail(first) \in Seq(Statements) /\ Len(Tail(first)) = Len(first) - 1 /\ Len(first) \in Nat \ {0}
        /\ \A i \in 1..Len(Tail(first)) : Tail(first)[i] = first[i + 1]
    BY <2>1, HeadTailProperties, EmptySeq
  <2>3. DOMAIN first = 1..Len(first) /\ DOMAIN Tail(first) = 1..Len(Tail(first)) /\ first[1] = Head(first)
    BY <2>1, <2>2
  <2> QED BY <2>2, <2>3 DEF Batches
<1>4. x \in Batches
  <2>1. <<>> \in Batches
    BY DEF Batches
  <2> QED BY <1>2, <1>3, <2>1 DEF first
<1>5. /\ d.units # <<>> /\ Len(d.units) = Len(us) /\ Head(d.units) = x
      /\ \A i \in DOMAIN d.units : i = 1 \/ (i \in DOMAIN us /\ d.units[i] = us[i])
      /\ first = us[1] /\ 1 \in DOMAIN us
      /\ d.units \in Seq(Batches)
  BY <1>1, <1>2, <1>4, FirstReplaced DEF first, us
<1>6. d.units[1] = x
  BY <1>5
<1>7. r.readOnly => Permitted(first)
  BY <1>1, AdmittedReads DEF Continues, first
<1>8. Permitted(first) => Permitted(x)
  BY <1>2, <1>3 DEF Permitted
<1>9. Len(first) <= 1 => x = <<>> /\ Len(x) <= 1
  BY <1>2, <1>3 DEF Batches
<1>10. r.engine = "sqlite" => Len(first) <= 1 /\ ~c.begun
  BY <1>1, <1>5 DEF Guarded, first, us
<1>11. Guarded(d, r)
  <2>1. r.readOnly /\ r.engine = "sqlite" => \A i \in DOMAIN d.units : Permitted(d.units[i])
    BY <1>1, <1>5, <1>6, <1>7, <1>8 DEF Guarded, us
  <2>2. r.engine = "sqlite" => \A i \in DOMAIN d.units : Len(d.units[i]) <= 1
    BY <1>1, <1>5, <1>6, <1>9, <1>10 DEF Guarded, us
  <2>3. r.readOnly /\ d.begun => Permitted(Head(d.units))
    BY <1>5, <1>7, <1>8
  <2>4. r.engine = "sqlite" /\ d.begun => Head(d.units) = <<>>
    BY <1>5, <1>9, <1>10
  <2> QED BY <2>1, <2>2, <2>3, <2>4 DEF Guarded
<1>12. r.readOnly => e.statement = "read"
  BY <1>3, <1>7 DEF Permitted, Continues, first
<1>13. r.engine = "sqlite" => c.got = <<>>
  BY <1>10 DEF Running, Accounted
<1>14. UnitOf(d, r) = UnitOf(c, r)
  BY <1>5 DEF UnitOf, us
<1> QED BY <1>5, <1>11, <1>12, <1>13, <1>14

LEMMA ReadTwice ==
  ASSUME NEW s \in Seq(Results), NEW t \in Seq(Results), NEW a \in Results
  PROVE  s \o Append(t, a) = Append(s \o t, a) /\ s \o t \in Seq(Results)
<1>1. <<a>> \in Seq(Results) /\ s \o t \in Seq(Results)
  BY ConcatProperties
<1>2. Append(t, a) = t \o <<a>> /\ Append(s \o t, a) = (s \o t) \o <<a>>
  BY <1>1, AppendIsConcat
<1> QED BY <1>1, <1>2, ConcatAssociative

\* What the step got of its statement: rows, if it is a read that succeeded.
Gets(c, d, e, top) ==
  \/ d.got = c.got /\ ~(e.statement = "read" /\ e.end # "failed")
  \/ \E a \in Results :
       /\ d.got = Append(c.got, a) /\ ~Stops(a) /\ Fits(a, top)
       /\ a.what = "rows" <=> e.statement = "read" /\ e.end # "failed"
       /\ a.what = "rows" => a.size = e.size

LEMMA ContinuesAccounted ==
  ASSUME NEW c, NEW d, NEW r, NEW e, NEW top, Continues(c, d, r, e), Gets(c, d, e, top), Running(c, r)
  PROVE  Accounted(d, r)
<1> DEFINE u == UnitOf(c, r)
<1>1. /\ c.answer \in Seq(Results) /\ c.got \in Seq(Results) /\ c.ran \in Seq(Executions)
      /\ e \in Executions /\ e.unit = u /\ u \in Int /\ Accounted(c, r)
      /\ d.answer = c.answer /\ d.ran = Append(c.ran, e) /\ d.begun
      /\ UnitOf(d, r) = u
  <2>1. c \in CallStates /\ e \in Executions /\ e.unit = u /\ d.answer = c.answer /\ d.ran = Append(c.ran, e) /\ d.begun
    BY DEF Continues
  <2>2. c.answer \in Seq(Results) /\ c.got \in Seq(Results) /\ c.ran \in Seq(Executions)
    BY <2>1 DEF CallStates
  <2>3. e.unit \in Int
    BY <2>1 DEF Executions
  <2>4. UnitOf(d, r) = u
    BY ContinuesGuarded
  <2> QED BY <2>1, <2>2, <2>3, <2>4 DEF Running
<1> HIDE DEF u
<1>2. \A i \in DOMAIN d.ran : d.ran[i].unit <= u
  <2>1. \A i \in DOMAIN d.ran : (i \in DOMAIN c.ran /\ d.ran[i] = c.ran[i]) \/ d.ran[i] = e
    BY <1>1
  <2>2. \A i \in DOMAIN c.ran : c.ran[i].unit <= u
    BY <1>1 DEF Accounted, u
  <2> QED BY <1>1, <2>1, <2>2
<1>3. SizesOf(d.ran, ReadsBut({u})) = SizesOf(c.ran, ReadsBut({u}))
  BY <1>1, ReadSizes
<1>4. SizesOf(d.ran, ReadsBut({})) =
        IF e.statement = "read" /\ e.end # "failed" THEN Append(SizesOf(c.ran, ReadsBut({})), e.size)
        ELSE SizesOf(c.ran, ReadsBut({}))
  <2>1. e.unit \notin {}
    OBVIOUS
  <2>2. SizesOf(Append(c.ran, e), ReadsBut({})) =
          IF e.statement = "read" /\ e.end # "failed" /\ e.unit \notin {}
          THEN Append(SizesOf(c.ran, ReadsBut({})), e.size) ELSE SizesOf(c.ran, ReadsBut({}))
    BY <1>1, ReadSizes
  <2> QED BY <1>1, <2>1, <2>2
<1>5. SizesOf(d.answer \o d.got, RowResults) = SizesOf(d.ran, ReadsBut({})) /\ \A i \in DOMAIN d.got : ~Stops(d.got[i])
  <2>1. CASE d.got = c.got /\ ~(e.statement = "read" /\ e.end # "failed")
    BY <1>1, <1>4, <2>1 DEF Accounted
  <2>2. ASSUME NEW a \in Results, d.got = Append(c.got, a), ~Stops(a),
               a.what = "rows" <=> e.statement = "read" /\ e.end # "failed",
               a.what = "rows" => a.size = e.size
        PROVE  SizesOf(d.answer \o d.got, RowResults) = SizesOf(d.ran, ReadsBut({}))
               /\ \A i \in DOMAIN d.got : ~Stops(d.got[i])
    <3>1. d.answer \o d.got = Append(c.answer \o c.got, a) /\ c.answer \o c.got \in Seq(Results)
      <4>1. c.answer \o Append(c.got, a) = Append(c.answer \o c.got, a) /\ c.answer \o c.got \in Seq(Results)
        BY <1>1, ReadTwice
      <4> QED BY <1>1, <2>2, <4>1
    <3>2. SizesOf(d.answer \o d.got, RowResults) =
            IF a.what = "rows" THEN Append(SizesOf(c.answer \o c.got, RowResults), a.size)
            ELSE SizesOf(c.answer \o c.got, RowResults)
      BY <3>1, ResultSizes
    <3>3. SizesOf(d.answer \o d.got, RowResults) = SizesOf(d.ran, ReadsBut({}))
      BY <1>1, <1>4, <2>2, <3>2 DEF Accounted
    <3>4. \A i \in DOMAIN d.got : (i \in DOMAIN c.got /\ d.got[i] = c.got[i]) \/ d.got[i] = a
      BY <1>1, <2>2
    <3> QED BY <1>1, <2>2, <3>3, <3>4 DEF Accounted
  <2> QED BY <2>1, <2>2 DEF Gets
<1> QED BY <1>1, <1>2, <1>3, <1>5 DEF Accounted, u

LEMMA Continued ==
  ASSUME NEW c, NEW d, NEW r, NEW e, NEW top, Continues(c, d, r, e), Gets(c, d, e, top), CallInv(c, r, top)
  PROVE  CallInv(d, r, top)
<1>1. /\ c \in CallStates /\ d \in CallStates /\ Running(c, r) /\ c.pc = "running" /\ d.pc = "running"
      /\ d.answer = c.answer /\ d.ran = Append(c.ran, e) /\ d.met = c.met /\ e \in Executions
  BY DEF Continues, CallInv
<1>2. Running(d, r)
  BY <1>1, ContinuesGuarded, ContinuesAccounted DEF Running
<1>3. Undisturbed(d, r, top)
  <2> SUFFICES ASSUME ~c.met
               PROVE  \A i \in DOMAIN d.got : Fits(d.got[i], top)
    BY <1>1 DEF Undisturbed, CallInv
  <2>1. \A i \in DOMAIN c.got : Fits(c.got[i], top)
    BY <1>1 DEF Undisturbed, CallInv
  <2>2. c.got \in Seq(Results)
    BY <1>1 DEF CallStates
  <2>3. ASSUME NEW a \in Results, d.got = Append(c.got, a), Fits(a, top)
        PROVE  \A i \in DOMAIN d.got : Fits(d.got[i], top)
    <3>1. \A i \in DOMAIN d.got : (i \in DOMAIN c.got /\ d.got[i] = c.got[i]) \/ d.got[i] = a
      BY <2>2, <2>3
    <3> QED BY <2>1, <2>3, <3>1
  <2> QED BY <2>1, <2>3 DEF Gets
<1>4. OnlyReads(d, r)
  <2>1. \A i \in DOMAIN d.ran : (i \in DOMAIN c.ran /\ d.ran[i] = c.ran[i]) \/ d.ran[i] = e
    BY <1>1 DEF CallStates
  <2>2. r.readOnly => e.statement = "read"
    BY <1>1, ContinuesGuarded
  <2> QED BY <2>1, <2>2 DEF OnlyReads, CallInv
<1>5. RefusedWhole(d, r)
  BY <1>1 DEF RefusedWhole, Running, Accounted, Stops
<1> QED BY <1>1, <1>2, <1>3, <1>4, <1>5 DEF CallInv

LEMMA Outcomes ==
  /\ {Error, Refusal, Message} \subseteq Results
  /\ Stops(Error) /\ Stops(Refusal) /\ ~Stops(Message) /\ Error # Refusal
  /\ \A limit : Fits(Error, limit) /\ Fits(Refusal, limit) /\ Fits(Message, limit)
  /\ Error.what # "rows" /\ Refusal.what # "rows" /\ Message.what # "rows"
<1>1. Error.what = "error" /\ Refusal.what = "refusal" /\ Message.what = "message"
  BY DEF Error, Refusal, Message, NoRows
<1>2. NoRows \in Results
  BY DEF NoRows, Results
<1>3. /\ [NoRows EXCEPT !.what = "error"] \in Results
      /\ [NoRows EXCEPT !.what = "refusal"] \in Results
      /\ [NoRows EXCEPT !.what = "message"] \in Results
  BY <1>2 DEF Results
<1>4. {Error, Refusal, Message} \subseteq Results
  BY <1>3 DEF Error, Refusal, Message
<1> QED BY <1>1, <1>4 DEF Stops, Fits

\* The last result is an error or a refusal, and nothing follows it.
LEMMA AnswerStopped ==
  ASSUME NEW c \in CallStates, NEW r, Running(c, r), NEW a \in {Error, Refusal}
  PROVE  LET s == Append(c.answer, a) IN
         /\ s # <<>> /\ s[Len(s)] = a
         /\ \A i \in DOMAIN s : Stops(s[i]) => i = Len(s)
         /\ \A i \in DOMAIN s : (i \in DOMAIN c.answer /\ s[i] = c.answer[i]) \/ s[i] = a
         /\ SizesOf(s, RowResults) = SizesOf(c.answer, RowResults)
<1> DEFINE s == Append(c.answer, a)
<1>1. c.answer \in Seq(Results) /\ a \in Results /\ a.what # "rows" /\ Stops(a)
  BY Outcomes DEF CallStates
<1>2. /\ Len(s) = Len(c.answer) + 1 /\ Len(c.answer) \in Nat /\ s # <<>> /\ s[Len(s)] = a
      /\ DOMAIN c.answer = 1..Len(c.answer) /\ DOMAIN s = 1..Len(s)
      /\ \A i \in 1..Len(c.answer) : s[i] = c.answer[i]
  BY <1>1
<1>3. \A i \in DOMAIN c.answer : ~Stops(c.answer[i])
  BY DEF Running, Accounted
<1>4. SizesOf(s, RowResults) = SizesOf(c.answer, RowResults)
  BY <1>1, ResultSizes
<1> HIDE DEF s
<1>5. \A i \in DOMAIN s : i = Len(s) \/ (i \in DOMAIN c.answer /\ s[i] = c.answer[i])
  BY <1>2
<1> QED BY <1>2, <1>3, <1>4, <1>5 DEF s

LEMMA Failed ==
  ASSUME NEW c \in CallStates, NEW d \in CallStates, NEW r, NEW top, CallInv(c, r, top), c.pc = "running",
         NEW e \in Executions, e.end = "failed", e.unit = UnitOf(c, r), r.readOnly => e.statement = "read",
         d.pc = "answered", d.answer = Append(c.answer, Error), d.ran = Append(c.ran, e), d.met = c.met
  PROVE  CallInv(d, r, top)
<1>1. Running(c, r) /\ Undisturbed(c, r, top) /\ OnlyReads(c, r) /\ Accounted(c, r)
  BY DEF CallInv, Running
<1>2. c.ran \in Seq(Executions) /\ c.answer \in Seq(Results)
  BY DEF CallStates
<1>3. /\ d.answer # <<>> /\ d.answer[Len(d.answer)] = Error
      /\ \A i \in DOMAIN d.answer : Stops(d.answer[i]) => i = Len(d.answer)
      /\ \A i \in DOMAIN d.answer : (i \in DOMAIN c.answer /\ d.answer[i] = c.answer[i]) \/ d.answer[i] = Error
      /\ SizesOf(d.answer, RowResults) = SizesOf(c.answer, RowResults)
  BY <1>1, AnswerStopped
<1>4. /\ d.ran[Len(d.ran)] = e
      /\ \A i \in DOMAIN d.ran : (i \in DOMAIN c.ran /\ d.ran[i] = c.ran[i]) \/ d.ran[i] = e
  BY <1>2
<1>5. SizesOf(d.ran, ReadsBut({e.unit})) = SizesOf(c.ran, ReadsBut({e.unit}))
  BY <1>2, ReadSizes
<1>6. FailedUnits(d) = {e.unit}
  BY <1>3, <1>4 DEF FailedUnits
<1>7. Answered(d)
  BY <1>1, <1>3, <1>5, <1>6 DEF Answered, Accounted
<1>8. Undisturbed(d, r, top)
  BY <1>1, <1>3, Outcomes DEF Undisturbed
<1>9. OnlyReads(d, r)
  BY <1>1, <1>4 DEF OnlyReads
<1>10. RefusedWhole(d, r)
  BY <1>1, <1>3, Outcomes DEF RefusedWhole, Accounted, Stops
<1> QED BY <1>7, <1>8, <1>9, <1>10 DEF CallInv

LEMMA Refused ==
  ASSUME NEW c \in CallStates, NEW d \in CallStates, NEW r, NEW top, CallInv(c, r, top), c.pc = "running",
         ~c.begun, r.engine # "sqlite",
         d.pc = "answered", d.answer = Append(c.answer, Refusal), d.ran = c.ran, d.met = c.met
  PROVE  CallInv(d, r, top)
<1>1. Running(c, r) /\ Undisturbed(c, r, top) /\ OnlyReads(c, r) /\ Accounted(c, r)
  BY DEF CallInv, Running
<1>2. c.answer \in Seq(Results) /\ c.got = <<>>
  BY <1>1 DEF CallStates, Accounted
<1>3. /\ d.answer # <<>> /\ d.answer[Len(d.answer)] = Refusal
      /\ \A i \in DOMAIN d.answer : Stops(d.answer[i]) => i = Len(d.answer)
      /\ \A i \in DOMAIN d.answer : (i \in DOMAIN c.answer /\ d.answer[i] = c.answer[i]) \/ d.answer[i] = Refusal
      /\ SizesOf(d.answer, RowResults) = SizesOf(c.answer, RowResults)
  BY <1>1, AnswerStopped
<1>4. c.answer \o c.got = c.answer
  BY <1>2, ConcatEmptySeq
<1>5. FailedUnits(d) = {}
  BY <1>3, Outcomes DEF FailedUnits
<1>6. Answered(d)
  BY <1>1, <1>3, <1>4, <1>5 DEF Answered, Accounted
<1>7. Undisturbed(d, r, top)
  BY <1>1, <1>3, Outcomes DEF Undisturbed
<1> QED BY <1>1, <1>6, <1>7 DEF CallInv, OnlyReads, RefusedWhole

\* What a unit is answered by when it is done.
Closing(got) == IF got = <<>> THEN <<Message>> ELSE got

LEMMA Joined ==
  ASSUME NEW S, NEW s \in Seq(S), NEW t \in Seq(S), NEW i \in DOMAIN (s \o t)
  PROVE  (\E j \in DOMAIN s : (s \o t)[i] = s[j]) \/ (\E j \in DOMAIN t : (s \o t)[i] = t[j])
<1>1. /\ Len(s) \in Nat /\ DOMAIN s = 1..Len(s) /\ Len(t) \in Nat /\ DOMAIN t = 1..Len(t)
      /\ s \o t \in Seq(S) /\ Len(s \o t) = Len(s) + Len(t)
      /\ \A n \in 1..(Len(s) + Len(t)) : (s \o t)[n] = IF n <= Len(s) THEN s[n] ELSE t[n - Len(s)]
  BY ConcatProperties, LenProperties
<1>2. i \in 1..(Len(s) + Len(t))
  BY <1>1, LenProperties
<1>3. CASE i <= Len(s)
  BY <1>1, <1>2, <1>3
<1>4. CASE ~(i <= Len(s))
  <2>1. i - Len(s) \in 1..Len(t)
    BY <1>1, <1>2, <1>4
  <2> QED BY <1>1, <1>2, <1>4, <2>1
<1> QED BY <1>3, <1>4

\* The elements of n are from s, from t or Message.
AllOf(n, s, t) ==
  \A i \in DOMAIN n :
    \/ \E j \in DOMAIN s : n[i] = s[j]
    \/ \E j \in DOMAIN t : n[i] = t[j]
    \/ n[i] = Message

LEMMA ClosedAnswer ==
  ASSUME NEW s \in Seq(Results), NEW t \in Seq(Results)
  PROVE  /\ s \o Closing(t) \in Seq(Results)
         /\ SizesOf(s \o Closing(t), RowResults) = SizesOf(s \o t, RowResults)
         /\ AllOf(s \o Closing(t), s, t)
<1>1. Message \in Results /\ Message.what # "rows"
  BY Outcomes
<1>2. CASE t = <<>>
  <2>1. s \o Closing(t) = Append(s, Message) /\ s \o t = s
    BY <1>1, <1>2, AppendIsConcat, ConcatEmptySeq DEF Closing
  <2>2. SizesOf(Append(s, Message), RowResults) = SizesOf(s, RowResults)
    BY <1>1, ResultSizes
  <2>3. Append(s, Message) \in Seq(Results)
    BY <1>1
  <2>4. \A i \in DOMAIN Append(s, Message) :
          (i \in DOMAIN s /\ Append(s, Message)[i] = s[i]) \/ Append(s, Message)[i] = Message
    BY <1>1
  <2> DEFINE n == Append(s, Message)
  <2>5. n \in Seq(Results) /\ SizesOf(n, RowResults) = SizesOf(s \o t, RowResults)
    BY <2>1, <2>2, <2>3
  <2>6. \A i \in DOMAIN n : (\E j \in DOMAIN s : n[i] = s[j]) \/ n[i] = Message
    BY <2>4
  <2> HIDE DEF n
  <2>7. s \o Closing(t) = n
    BY <2>1 DEF n
  <2>8. /\ s \o Closing(t) \in Seq(Results)
        /\ SizesOf(s \o Closing(t), RowResults) = SizesOf(s \o t, RowResults)
    BY <2>5, <2>7, Zenon
  <2>9. AllOf(n, s, t)
    BY <2>6 DEF AllOf
  <2> QED BY <2>7, <2>8, <2>9
<1>3. CASE t # <<>>
  <2>1. Closing(t) = t
    BY <1>3 DEF Closing
  <2>2. s \o t \in Seq(Results)
    BY ConcatProperties
  <2>3. \A i \in DOMAIN (s \o t) :
          (\E j \in DOMAIN s : (s \o t)[i] = s[j]) \/ (\E j \in DOMAIN t : (s \o t)[i] = t[j])
    BY Joined
  <2> QED BY <2>1, <2>2, <2>3 DEF AllOf
<1> QED BY <1>2, <1>3

LEMMA Finished ==
  ASSUME NEW c \in CallStates, NEW d \in CallStates, NEW r, NEW top, CallInv(c, r, top), c.pc = "running",
         d.units = Tail(c.units), d.begun = FALSE, d.got = <<>>, d.ran = c.ran, d.met = c.met,
         d.answer = c.answer \o Closing(c.got),
         Len(c.units) = 1 => d.pc = "answered", Len(c.units) # 1 => d.pc = "running"
  PROVE  CallInv(d, r, top)
<1> DEFINE u == UnitOf(c, r)
<1>1. /\ Running(c, r) /\ Undisturbed(c, r, top) /\ OnlyReads(c, r) /\ Accounted(c, r) /\ Guarded(c, r)
      /\ Units(r) \in Seq(Batches)
  BY DEF CallInv, Running
<1>2. /\ c.answer \in Seq(Results) /\ c.got \in Seq(Results) /\ c.ran \in Seq(Executions)
      /\ c.units \in Seq(Batches) /\ c.units # <<>>
  BY <1>1 DEF CallStates, Running
<1>0. /\ \A i \in DOMAIN c.ran : c.ran[i].unit <= u
      /\ SizesOf(c.answer \o c.got, RowResults) = SizesOf(c.ran, ReadsBut({}))
      /\ \A i \in DOMAIN c.answer : ~Stops(c.answer[i])
      /\ \A i \in DOMAIN c.got : ~Stops(c.got[i])
  BY <1>1 DEF Accounted
<1> HIDE DEF u
<1>3. /\ d.answer \in Seq(Results)
      /\ SizesOf(d.answer, RowResults) = SizesOf(c.answer \o c.got, RowResults)
      /\ AllOf(d.answer, c.answer, c.got)
  <2> DEFINE n == c.answer \o Closing(c.got)
  <2>1. d.answer = n
    OBVIOUS
  <2>2. c.answer \in Seq(Results) /\ c.got \in Seq(Results)
    BY <1>2
  <2>3. n \in Seq(Results) /\ SizesOf(n, RowResults) = SizesOf(c.answer \o c.got, RowResults)
    BY <2>2, ClosedAnswer, Zenon
  <2>4. AllOf(n, c.answer, c.got)
    BY <2>2, ClosedAnswer, Zenon
  <2> HIDE DEF n
  <2> QED BY <2>1, <2>3, <2>4
<1>4. \A i \in DOMAIN d.answer : ~Stops(d.answer[i])
  <2>1. ~Stops(Message)
    BY Outcomes
  <2> QED BY <1>0, <1>3, <2>1 DEF AllOf
<1>5. Undisturbed(d, r, top)
  <2>0. DOMAIN d.got = {}
    OBVIOUS
  <2> SUFFICES ASSUME ~c.met
               PROVE  /\ top = Clamped(r.limit)
                      /\ \A i \in DOMAIN d.answer : Fits(d.answer[i], Clamped(r.limit))
    BY <2>0 DEF Undisturbed
  <2>1. /\ top = Clamped(r.limit)
        /\ \A i \in DOMAIN c.got : Fits(c.got[i], Clamped(r.limit))
        /\ \A i \in DOMAIN c.answer : Fits(c.answer[i], Clamped(r.limit))
    BY <1>1 DEF Undisturbed
  <2> QED BY <1>3, <2>1, Outcomes DEF AllOf
<1>6. /\ Tail(c.units) \in Seq(Batches) /\ Len(Tail(c.units)) = Len(c.units) - 1 /\ Len(c.units) \in Nat \ {0}
      /\ \A i \in DOMAIN Tail(c.units) : i + 1 \in DOMAIN c.units /\ Tail(c.units)[i] = c.units[i + 1]
  <2>1. /\ Tail(c.units) \in Seq(Batches) /\ Len(Tail(c.units)) = Len(c.units) - 1 /\ Len(c.units) \in Nat \ {0}
        /\ \A i \in 1..Len(Tail(c.units)) : Tail(c.units)[i] = c.units[i + 1]
    BY <1>2, HeadTailProperties, EmptySeq
  <2>2. DOMAIN c.units = 1..Len(c.units) /\ DOMAIN Tail(c.units) = 1..Len(Tail(c.units))
    BY <1>2, <2>1
  <2> QED BY <2>1, <2>2
<1>7. CASE Len(c.units) = 1
  <2>1. \A i \in DOMAIN d.answer : d.answer[i] # Error
    BY <1>4 DEF Stops
  <2>2. d.answer # <<>> => Len(d.answer) \in DOMAIN d.answer
    <3>1. d.answer \in Seq(Results)
      BY <1>3
    <3> DEFINE n == d.answer
    <3>2. n \in Seq(Results)
      BY <3>1
    <3> HIDE DEF n
    <3>3. n # <<>> => Len(n) \in DOMAIN n
      BY <3>2
    <3> QED BY <3>3 DEF n
  <2>3. FailedUnits(d) = {}
    BY <2>1, <2>2 DEF FailedUnits
  <2>4. Answered(d)
    BY <1>0, <1>3, <1>4, <2>3 DEF Answered
  <2> QED BY <1>1, <1>4, <1>5, <1>7, <2>4 DEF CallInv, OnlyReads, RefusedWhole, Stops
<1>8. CASE Len(c.units) # 1
  <2>1. d.units # <<>> /\ UnitOf(d, r) = u + 1 /\ u \in Int
    <3>1. Len(Units(r)) \in Nat
      BY <1>1, LenProperties
    <3> DEFINE l == Len(c.units)
               m == Len(d.units)
               a == Len(Units(r))
    <3>2. m = l - 1 /\ l \in Nat \ {0} /\ l # 1
      BY <1>6, <1>8
    <3>3. d.units = <<>> => m = 0
      <4>1. Len(<<>>) = 0
        OBVIOUS
      <4> QED BY <4>1, Zenon
    <3>4. UnitOf(d, r) = a - m /\ u = a - l /\ a \in Nat
      BY <3>1 DEF UnitOf, u
    <3> HIDE DEF l, m, a
    <3>5. d.units # <<>>
      BY <3>2, <3>3
    <3>6. a - m = (a - l) + 1 /\ a - l \in Int
      BY <3>2, <3>4
    <3> QED BY <3>4, <3>5, <3>6
  <2>2. Guarded(d, r)
    BY <1>1, <1>6 DEF Guarded
  <2>3. \A i \in DOMAIN c.ran : c.ran[i] \in Executions /\ c.ran[i].unit \in Int /\ c.ran[i].unit <= u
    <3>1. \A i \in DOMAIN c.ran : c.ran[i] \in Executions
      BY <1>2
    <3>2. \A e \in Executions : e.unit \in Int
      BY DEF Executions
    <3> QED BY <1>0, <3>1, <3>2
  <2>4. \A i \in DOMAIN c.ran : c.ran[i].unit <= u + 1 /\ c.ran[i].unit # u + 1
    BY <2>1, <2>3
  <2>5. \A i \in DOMAIN c.ran : c.ran[i] \in ReadsBut({u + 1}) <=> c.ran[i] \in ReadsBut({})
    BY <2>4 DEF ReadsBut
  <2>6. SizesOf(c.ran, ReadsBut({u + 1})) = SizesOf(c.ran, ReadsBut({}))
    BY <2>5, OnlyOfAgreeing
  <2>7. d.answer \o d.got = d.answer
    BY <1>3, ConcatEmptySeq
  <2>8. DOMAIN d.got = {}
    OBVIOUS
  <2>9. SizesOf(d.answer, RowResults) = SizesOf(d.ran, ReadsBut({UnitOf(d, r)}))
        /\ SizesOf(d.answer \o d.got, RowResults) = SizesOf(d.ran, ReadsBut({}))
    BY <1>0, <1>3, <2>1, <2>6, <2>7
  <2>10. Accounted(d, r)
    BY <1>4, <2>1, <2>4, <2>8, <2>9 DEF Accounted
  <2>11. Running(d, r)
    BY <1>1, <2>1, <2>2, <2>10 DEF Running
  <2> QED BY <1>1, <1>4, <1>5, <1>8, <2>11 DEF CallInv, OnlyReads, RefusedWhole, Stops
<1> QED BY <1>7, <1>8

-----------------------------------------------------------------------------
(* A call enters.                                                          *)

LEMMA UnitsTyped ==
  ASSUME NEW k \in ExecCalls, NEW r \in Requests[k]
  PROVE  /\ Units(r) \in Seq(Batches)
         /\ r.engine = "sqlite" => \A i \in DOMAIN Units(r) : Len(Units(r)[i]) <= 1
<1>1. /\ r.engine \in Engines /\ r.text \in Seq(Batches)
      /\ r.engine = "sqlserver" \/ Len(r.text) = 1
  BY RequestsAssumption DEF Batches
<1>2. CASE r.engine = "sqlserver"
  <2>1. Units(r) = r.text
    BY <1>2 DEF Units
  <2> QED BY <1>1, <1>2, <2>1
<1> DEFINE all == Head(r.text)
<1>3. r.engine # "sqlserver" => all \in Seq(Statements)
  <2> SUFFICES ASSUME Len(r.text) = 1 PROVE all \in Seq(Statements)
    BY <1>1
  <2>1. r.text # <<>>
    <3>1. Len(<<>>) = 0
      OBVIOUS
    <3> QED BY <3>1
  <2> QED BY <1>1, <2>1, HeadTailProperties DEF Batches
<1> HIDE DEF all
<1>4. CASE r.engine = "sqlite"
  <2>1. Units(r) = [i \in DOMAIN all |-> <<all[i]>>]
    BY <1>4 DEF Units, all
  <2>2. DOMAIN all = 1..Len(all) /\ Len(all) \in Nat /\ \A i \in DOMAIN all : all[i] \in Statements
    BY <1>3, <1>4
  <2>3. \A i \in DOMAIN all : <<all[i]>> \in Batches /\ Len(<<all[i]>>) = 1
    BY <2>2 DEF Batches
  <2>4. Units(r) \in [1..Len(all) -> Batches]
    BY <2>1, <2>2, <2>3
  <2>5. Units(r) \in Seq(Batches)
    BY <2>2, <2>4
  <2> QED BY <2>1, <2>3, <2>5
<1>5. CASE r.engine = "reader"
  <2>1. Units(r) = <<all>> /\ all \in Batches
    BY <1>3, <1>5 DEF Units, all, Batches
  <2> QED BY <1>5, <2>1
<1> QED BY <1>1, <1>2, <1>4, <1>5 DEF Engines

Entering(r, pc, answer, met) ==
  [NoCall EXCEPT !.pc = pc, !.units = Units(r), !.answer = answer, !.met = met]

LEMMA NothingCalled == NoCall \in CallStates
<1>1. <<>> \in Seq(Batches) /\ <<>> \in Seq(Results) /\ <<>> \in Seq(Executions)
  OBVIOUS
<1> QED BY <1>1 DEF NoCall, CallStates

\* What is known of a call d that has just entered.
JustEntered(d, r, pc, answer, met) ==
  /\ d \in CallStates /\ d.pc = pc /\ d.units = Units(r) /\ d.begun = FALSE /\ d.got = <<>>
  /\ d.answer = answer /\ d.met = met /\ d.ran = <<>>

LEMMA EnteringIs ==
  ASSUME NEW k \in ExecCalls, NEW r \in Requests[k], NEW pc \in {"running", "answered"},
         NEW answer \in Seq(Results), NEW met \in BOOLEAN
  PROVE  JustEntered(Entering(r, pc, answer, met), r, pc, answer, met)
<1> DEFINE units == Units(r)
           none == NoCall
           d == Entering(r, pc, answer, met)
<1>1. units \in Seq(Batches)
  BY UnitsTyped
<1>2. none \in CallStates /\ none.begun = FALSE /\ none.got = <<>> /\ none.ran = <<>>
  BY NothingCalled DEF NoCall
<1>3. d = [none EXCEPT !.pc = pc, !.units = units, !.answer = answer, !.met = met]
  BY DEF Entering
<1> HIDE DEF units, none, d
<1>4. /\ d \in CallStates /\ d.pc = pc /\ d.units = units /\ d.begun = none.begun /\ d.got = none.got
      /\ d.answer = answer /\ d.met = met /\ d.ran = none.ran
  BY <1>1, <1>2, <1>3 DEF CallStates
<1> QED BY <1>2, <1>4 DEF units, JustEntered, d

LEMMA Entered ==
  ASSUME NEW k \in ExecCalls, NEW r \in Requests[k], NEW met \in BOOLEAN,
         Units(r) # <<>>, ~Barred(r)
  PROVE  CallInv(Entering(r, "running", <<>>, met), r, Clamped(r.limit))
<1> DEFINE d == Entering(r, "running", <<>>, met)
<1>1. <<>> \in Seq(Results) /\ DOMAIN <<>> = {} /\ <<>> \o <<>> = <<>>
  OBVIOUS
<1>2. /\ d \in CallStates /\ d.pc = "running" /\ d.units = Units(r) /\ d.begun = FALSE /\ d.got = <<>>
      /\ d.answer = <<>> /\ d.met = met /\ d.ran = <<>>
  <2>1. JustEntered(d, r, "running", <<>>, met)
    BY <1>1, EnteringIs
  <2> HIDE DEF d
  <2> QED BY <2>1 DEF JustEntered
<1> HIDE DEF d
<1>3. /\ Units(r) \in Seq(Batches)
      /\ r.engine = "sqlite" => \A i \in DOMAIN Units(r) : Len(Units(r)[i]) <= 1
  BY UnitsTyped
<1>4. Accounted(d, r)
  BY <1>1, <1>2, NothingSized DEF Accounted
<1>5. Guarded(d, r)
  BY <1>2, <1>3 DEF Guarded, Barred
<1>6. Running(d, r) /\ Undisturbed(d, r, Clamped(r.limit)) /\ OnlyReads(d, r) /\ RefusedWhole(d, r)
  BY <1>1, <1>2, <1>3, <1>4, <1>5 DEF Running, Undisturbed, OnlyReads, RefusedWhole
<1> QED BY <1>2, <1>6 DEF CallInv, d

LEMMA AnsweredAtOnce ==
  ASSUME NEW k \in ExecCalls, NEW r \in Requests[k], NEW met \in BOOLEAN,
         NEW answer \in {<<>>, <<Refusal>>}
  PROVE  CallInv(Entering(r, "answered", answer, met), r, Clamped(r.limit))
<1> DEFINE d == Entering(r, "answered", answer, met)
<1>1. /\ answer \in Seq(Results) /\ DOMAIN <<>> = {}
      /\ \A i \in DOMAIN answer : answer[i] = Refusal /\ i = Len(answer)
      /\ answer # <<>> => answer[Len(answer)] = Refusal
  <2>1. Refusal \in Results /\ DOMAIN <<>> = {} /\ <<>> \in Seq(Results)
    BY Outcomes
  <2>2. /\ <<Refusal>> \in Seq(Results) /\ DOMAIN <<Refusal>> = {1} /\ Len(<<Refusal>>) = 1
        /\ <<Refusal>>[1] = Refusal
    BY <2>1
  <2> QED BY <2>1, <2>2
<1>2. /\ d \in CallStates /\ d.pc = "answered" /\ d.answer = answer /\ d.met = met /\ d.ran = <<>>
  <2>1. JustEntered(d, r, "answered", answer, met)
    BY <1>1, EnteringIs
  <2> HIDE DEF d
  <2> QED BY <2>1 DEF JustEntered
<1> HIDE DEF d
<1>3. SizesOf(answer, RowResults) = <<>>
  <2>1. <<Refusal>> = Append(<<>>, Refusal) /\ <<>> \in Seq(Results) /\ Refusal \in Results
    BY Outcomes
  <2>2. SizesOf(Append(<<>>, Refusal), RowResults) = SizesOf(<<>>, RowResults)
    BY <2>1, Outcomes, ResultSizes
  <2> QED BY <2>1, <2>2, NothingSized
<1>4. FailedUnits(d) = {}
  BY <1>1, <1>2, Outcomes DEF FailedUnits
<1>5. Answered(d)
  BY <1>1, <1>2, <1>3, <1>4, NothingSized DEF Answered
<1>6. Undisturbed(d, r, Clamped(r.limit)) /\ OnlyReads(d, r) /\ RefusedWhole(d, r)
  BY <1>1, <1>2, Outcomes DEF Undisturbed, OnlyReads, RefusedWhole
<1> QED BY <1>2, <1>5, <1>6 DEF CallInv, d

\* For the others the cap changes under them.
LEMMA MetAnother ==
  ASSUME NEW c, NEW r, NEW top, CallInv(c, r, top), NEW new
  PROVE  CallInv([c EXCEPT !.met = c.met \/ c.pc = "running"], r, new)
<1> DEFINE d == [c EXCEPT !.met = c.met \/ c.pc = "running"]
<1>1. c \in CallStates
  BY DEF CallInv
<1>2. /\ d \in CallStates /\ d.pc = c.pc /\ d.units = c.units /\ d.begun = c.begun /\ d.got = c.got
      /\ d.answer = c.answer /\ d.ran = c.ran /\ (d.met <=> c.met \/ c.pc = "running")
  BY <1>1 DEF CallStates
<1>3. c.pc = "idle" => d = c
  <2> SUFFICES ASSUME c.pc = "idle" PROVE d = c
    OBVIOUS
  <2>1. c = NoCall /\ c.met = FALSE /\ c.pc # "running"
    BY DEF CallInv, NoCall
  <2>2. (c.met \/ c.pc = "running") = FALSE
    BY <2>1
  <2>3. [c EXCEPT !.met = FALSE] = c
    BY <2>1 DEF NoCall
  <2> QED BY <2>2, <2>3
<1> HIDE DEF d
<1>4. Running(c, r) => Running(d, r)
  BY <1>2 DEF Running, Accounted, Guarded, UnitOf
<1>5. Answered(c) => Answered(d)
  BY <1>2 DEF Answered, FailedUnits
<1>6. Undisturbed(d, r, new) /\ OnlyReads(d, r) /\ RefusedWhole(d, r)
  BY <1>2 DEF CallInv, Undisturbed, OnlyReads, RefusedWhole
<1> QED BY <1>2, <1>3, <1>4, <1>5, <1>6 DEF CallInv, d
LEMMA NotCalled == ASSUME NEW r, NEW top PROVE CallInv(NoCall, r, top)
<1> DEFINE none == NoCall
<1>1. none \in CallStates /\ none.pc = "idle" /\ none.answer = <<>> /\ none.ran = <<>> /\ none = NoCall
  BY NothingCalled DEF NoCall
<1> HIDE DEF none
<1>2. DOMAIN none.answer = {} /\ DOMAIN none.ran = {}
  BY <1>1
<1>3. Undisturbed(none, r, top) /\ OnlyReads(none, r) /\ RefusedWhole(none, r)
  BY <1>1, <1>2 DEF Undisturbed, OnlyReads, RefusedWhole
<1>4. CallInv(none, r, top)
  BY <1>1, <1>3 DEF CallInv
<1> QED BY <1>4 DEF none

-----------------------------------------------------------------------------
(* The steps of the state.                                                 *)

LEMMA ExecInitially == ExecInit => ExecInv
<1> SUFFICES ASSUME ExecInit PROVE ExecInv
  OBVIOUS
<1>1. cap \in Nat \ {0}
  BY RequestsAssumption DEF ExecInit
<1>2. \A k \in ExecCalls : CallInv(exec[k], request[k], cap)
  BY NotCalled DEF ExecInit
<1>3. DOMAIN request = ExecCalls /\ DOMAIN exec = ExecCalls
  BY DEF ExecInit
<1>4. \A k \in ExecCalls : request[k] \in Requests[k] \cup {NoRequest}
  BY DEF ExecInit
<1> QED BY <1>1, <1>2, <1>3, <1>4 DEF ExecInv

\* A call enters, and sets the cap of all.
LEMMA CallEnters ==
  ASSUME ExecInv, NEW k \in ExecCalls, NEW r \in Requests[k], NEW pc, NEW answer, Enters(k, r, pc, answer),
         \A met \in BOOLEAN : CallInv(Entering(r, pc, answer, met), r, Clamped(r.limit))
  PROVE  ExecInv'
<1> DEFINE new == Clamped(r.limit)
<1>1. new \in Nat \ {0}
  BY RequestsAssumption DEF Clamped
<1>2. /\ cap' = new /\ request' = [request EXCEPT ![k] = r]
      /\ DOMAIN exec' = ExecCalls
      /\ exec'[k] = Entering(r, pc, answer, InFlight # {})
      /\ \A j \in ExecCalls \ {k} : exec'[j] = [exec[j] EXCEPT !.met = exec[j].met \/ j \in InFlight]
  BY DEF Enters, Entering
<1>3. DOMAIN request' = ExecCalls /\ request'[k] = r /\ \A j \in ExecCalls \ {k} : request'[j] = request[j]
  BY <1>2 DEF ExecInv
<1> HIDE DEF new
<1>4. CallInv(exec'[k], r, new)
  <2>1. (InFlight # {}) \in BOOLEAN
    OBVIOUS
  <2> QED BY <1>2, <2>1 DEF new
<1>5. ASSUME NEW j \in ExecCalls \ {k} PROVE CallInv(exec'[j], request[j], new)
  <2> DEFINE c == exec[j]
  <2>1. CallInv(c, request[j], cap) /\ (j \in InFlight <=> c.pc = "running")
    BY DEF ExecInv, InFlight
  <2>2. exec'[j] = [c EXCEPT !.met = c.met \/ j \in InFlight]
    BY <1>2
  <2>3. (c.met \/ j \in InFlight) = (c.met \/ c.pc = "running")
    BY <2>1
  <2>4. exec'[j] = [c EXCEPT !.met = c.met \/ c.pc = "running"]
    BY <2>2, <2>3
  <2> HIDE DEF c
  <2> QED BY <2>1, <2>4, MetAnother
<1>6. \A j \in ExecCalls : CallInv(exec'[j], request'[j], new)
  BY <1>3, <1>4, <1>5
<1>7. \A j \in ExecCalls : request'[j] \in Requests[j] \cup {NoRequest}
  BY <1>3 DEF ExecInv
<1>8. DOMAIN exec' = ExecCalls /\ cap' = new
  BY <1>2
<1> QED BY <1>1, <1>3, <1>6, <1>7, <1>8 DEF ExecInv

\* A step of one call, of which the others notice nothing.
LEMMA CallGoesOn ==
  ASSUME ExecInv, NEW k \in ExecCalls, UNCHANGED <<cap, request>>, DOMAIN exec' = ExecCalls,
         \A j \in ExecCalls \ {k} : exec'[j] = exec[j],
         CallInv(exec'[k], request[k], cap)
  PROVE  ExecInv'
<1>1. \A j \in ExecCalls : CallInv(exec'[j], request'[j], cap')
  <2>1. \A j \in ExecCalls : CallInv(exec[j], request[j], cap)
    BY DEF ExecInv
  <2> QED BY <2>1
<1> QED BY <1>1 DEF ExecInv

\* The call that runs, its request and the record of what it executes next.
LEMMA OfRunning ==
  ASSUME ExecInv, NEW k \in ExecCalls, exec[k].pc = "running"
  PROVE  /\ exec[k] \in CallStates /\ CallInv(exec[k], request[k], cap) /\ Running(exec[k], request[k])
         /\ cap \in Nat \ {0}
         /\ Unit(k) = UnitOf(exec[k], request[k]) /\ Unit(k) \in Int
         /\ Head(exec[k].units) \in Batches /\ Tail(exec[k].units) \in Seq(Batches)
         /\ Admitted(k) <=> Admits(exec[k], request[k])
<1> DEFINE c == exec[k]
           r == request[k]
<1>1. CallInv(c, r, cap) /\ r \in Requests[k] \cup {NoRequest} /\ cap \in Nat \ {0}
  BY DEF ExecInv
<1>2. c \in CallStates /\ Running(c, r)
  BY <1>1 DEF CallInv
<1>3. c.units \in Seq(Batches) /\ c.units # <<>> /\ Units(r) \in Seq(Batches)
  BY <1>2 DEF CallStates, Running
<1>4. Unit(k) = UnitOf(c, r) /\ Unit(k) \in Int
  BY <1>3 DEF Unit, UnitOf
<1>5. Head(c.units) \in Batches /\ Tail(c.units) \in Seq(Batches)
  BY <1>3, HeadTailProperties
<1>6. Admitted(k) <=> Admits(c, r)
  BY DEF Admitted, Admits
<1> QED BY <1>1, <1>2, <1>4, <1>5, <1>6

\* What a statement that is executed adds to the record of its call.
LEMMA OfExecuting ==
  ASSUME ExecInv, NEW k \in ExecCalls, Executing(k), NEW end \in Ends, NEW size \in Nat
  PROVE  LET c == exec[k]
             e == [unit |-> Unit(k), statement |-> Statement(k), end |-> end, size |-> size]
         IN
         /\ e \in Executions /\ Ran(k, end, size) = Append(c.ran, e) /\ Ran(k, end, size) \in Seq(Executions)
         /\ Rest(k) \in Seq(Batches) /\ Rest(k) = <<Tail(Head(c.units))>> \o Tail(c.units)
         /\ Cut(k) \in Seq(Batches) /\ Cut(k) = <<<<>>>> \o Tail(c.units)
<1> DEFINE c == exec[k]
           e == [unit |-> Unit(k), statement |-> Statement(k), end |-> end, size |-> size]
<1>1. /\ c \in CallStates /\ Unit(k) \in Int
      /\ Head(c.units) \in Batches /\ Tail(c.units) \in Seq(Batches) /\ Head(c.units) # <<>>
  BY OfRunning DEF Executing
<1>2. Statement(k) \in Statements /\ Tail(Head(c.units)) \in Batches
  BY <1>1, HeadTailProperties DEF Statement, Batches
<1>3. e \in Executions
  BY <1>1, <1>2 DEF Executions
<1>4. c.ran \in Seq(Executions)
  BY <1>1 DEF CallStates
<1>5. Ran(k, end, size) = Append(c.ran, e)
  BY DEF Ran
<1>6. Append(c.ran, e) \in Seq(Executions)
  BY <1>3, <1>4
<1>7. <<>> \in Batches
  BY DEF Batches
<1>8. \A x \in Batches : <<x>> \in Seq(Batches) /\ <<x>> \o Tail(c.units) \in Seq(Batches)
  BY <1>1, ConcatProperties
<1>9. Rest(k) = <<Tail(Head(c.units))>> \o Tail(c.units) /\ Cut(k) = <<<<>>>> \o Tail(c.units)
  BY DEF Rest, Cut
<1> QED BY <1>2, <1>3, <1>5, <1>6, <1>7, <1>8, <1>9

\* What a statement of call k that ended so adds to the result sets.
Yields(k, end, size, got) ==
  \/ got = exec[k].got /\ ~(Statement(k) = "read" /\ end # "failed")
  \/ \E a \in Results :
       /\ got = Append(exec[k].got, a) /\ ~Stops(a) /\ Fits(a, cap)
       /\ a.what = "rows" <=> Statement(k) = "read" /\ end # "failed"
       /\ a.what = "rows" => a.size = size

\* A statement was executed, and its call goes on with the unit at hand.
LEMMA StatementExecuted ==
  ASSUME ExecInv, NEW k \in ExecCalls, Executing(k), UNCHANGED <<cap, request>>,
         NEW end \in Ends, NEW size \in Nat, NEW units \in {Rest(k), Cut(k)}, NEW got \in Seq(Results),
         exec' = [exec EXCEPT ![k] = [exec[k] EXCEPT !.units = units, !.begun = TRUE, !.ran = Ran(k, end, size),
                                                     !.got = got]],
         Yields(k, end, size, got)
  PROVE  ExecInv'
<1> DEFINE c == exec[k]
           r == request[k]
           e == [unit |-> Unit(k), statement |-> Statement(k), end |-> end, size |-> size]
           ran == Ran(k, end, size)
           d == [c EXCEPT !.units = units, !.begun = TRUE, !.ran = ran, !.got = got]
<1>1. /\ c \in CallStates /\ c.pc = "running" /\ CallInv(c, r, cap) /\ Admits(c, r)
      /\ Unit(k) = UnitOf(c, r) /\ Head(c.units) # <<>>
  BY OfRunning DEF Executing
<1>2. e \in Executions /\ ran = Append(c.ran, e) /\ ran \in Seq(Executions)
  BY OfExecuting
<1>3. units \in Seq(Batches) /\ \E x \in {Tail(Head(c.units)), <<>>} : units = <<x>> \o Tail(c.units)
  BY OfExecuting
<1>4. /\ e.unit = UnitOf(c, r) /\ e.statement = Head(Head(c.units)) /\ e.statement = Statement(k)
      /\ e.end = end /\ e.size = size
  BY <1>1 DEF Statement
<1>5. DOMAIN exec = ExecCalls /\ exec' = [exec EXCEPT ![k] = d]
  BY DEF ExecInv
<1> HIDE DEF e, ran, d
<1>6. DOMAIN exec' = ExecCalls /\ exec'[k] = d /\ \A j \in ExecCalls \ {k} : exec'[j] = exec[j]
  BY <1>5
<1>7. /\ d \in CallStates /\ d.pc = c.pc /\ d.units = units /\ d.begun = TRUE /\ d.got = got
      /\ d.answer = c.answer /\ d.met = c.met /\ d.ran = ran
  BY <1>1, <1>2, <1>3 DEF CallStates, d
<1> HIDE DEF c, r
<1>8. Continues(c, d, r, e)
  BY <1>1, <1>2, <1>3, <1>4, <1>7 DEF Continues
<1>9. Gets(c, d, e, cap)
  BY <1>4, <1>7 DEF Gets, Yields, c
<1>10. CallInv(d, r, cap)
  BY <1>1, <1>8, <1>9, Continued
<1> QED BY <1>6, <1>10, CallGoesOn DEF r

\* A statement failed, and its call is answered.
LEMMA CallFailed ==
  ASSUME ExecInv, NEW k \in ExecCalls, Executing(k), UNCHANGED <<cap, request>>, NEW got \in Seq(Results),
         exec' = [exec EXCEPT ![k] = [exec[k] EXCEPT !.pc = "answered", !.answer = Append(exec[k].answer, Error),
                                        !.got = got, !.begun = TRUE, !.ran = Ran(k, "failed", 0)]]
  PROVE  ExecInv'
<1> DEFINE c == exec[k]
           r == request[k]
           e == [unit |-> Unit(k), statement |-> Statement(k), end |-> "failed", size |-> 0]
           ran == Ran(k, "failed", 0)
           answer == Append(c.answer, Error)
           d == [c EXCEPT !.pc = "answered", !.answer = answer, !.got = got, !.begun = TRUE, !.ran = ran]
<1>1. /\ c \in CallStates /\ c.pc = "running" /\ CallInv(c, r, cap) /\ Admits(c, r) /\ Running(c, r)
      /\ Unit(k) = UnitOf(c, r) /\ Head(c.units) # <<>> /\ Head(c.units) \in Batches
  BY OfRunning DEF Executing
<1>2. e \in Executions /\ ran = Append(c.ran, e) /\ ran \in Seq(Executions)
  <2>1. "failed" \in Ends /\ 0 \in Nat
    BY DEF Ends
  <2> QED BY <2>1, OfExecuting
<1>3. e.unit = UnitOf(c, r) /\ e.statement = Head(Head(c.units)) /\ e.end = "failed"
  BY <1>1 DEF Statement
<1>4. answer \in Seq(Results)
  BY <1>1, Outcomes DEF CallStates
<1>5. DOMAIN exec = ExecCalls /\ exec' = [exec EXCEPT ![k] = d]
  BY DEF ExecInv
<1>6. answer = Append(c.answer, Error)
  OBVIOUS
<1> HIDE DEF e, ran, d, answer
<1>7. DOMAIN exec' = ExecCalls /\ exec'[k] = d /\ \A j \in ExecCalls \ {k} : exec'[j] = exec[j]
  BY <1>5
<1>8. d \in CallStates /\ d.pc = "answered" /\ d.answer = answer /\ d.met = c.met /\ d.ran = ran
  BY <1>1, <1>2, <1>4 DEF CallStates, d
<1> HIDE DEF c, r
<1>9. r.readOnly => e.statement = "read"
  <2> SUFFICES ASSUME r.readOnly PROVE e.statement = "read"
    OBVIOUS
  <2>1. Permitted(Head(c.units))
    BY <1>1, AdmittedReads
  <2>2. Head(c.units)[1] = Head(Head(c.units)) /\ 1 \in DOMAIN Head(c.units)
    <3>1. Head(c.units) \in Seq(Statements)
      BY <1>1 DEF Batches
    <3> QED BY <1>1, <3>1, HeadTailProperties, EmptySeq
  <2> QED BY <1>3, <2>1, <2>2 DEF Permitted
<1>10. CallInv(d, r, cap)
  BY <1>1, <1>2, <1>3, <1>6, <1>8, <1>9, Failed
<1> QED BY <1>7, <1>10, CallGoesOn DEF r

\* Several fields of one call assigned one after the other are assigned at once.
LEMMA GotAtOnce ==
  ASSUME NEW k \in ExecCalls, DOMAIN exec = ExecCalls, exec[k] \in CallStates,
         NEW units, NEW got, NEW ran
  PROVE  [exec EXCEPT ![k].units = units, ![k].begun = TRUE, ![k].ran = ran, ![k].got = got] =
         [exec EXCEPT ![k] = [exec[k] EXCEPT !.units = units, !.begun = TRUE, !.ran = ran, !.got = got]]
BY DEF CallStates

LEMMA RanAtOnce ==
  ASSUME NEW k \in ExecCalls, DOMAIN exec = ExecCalls, exec[k] \in CallStates,
         NEW units, NEW ran
  PROVE  [exec EXCEPT ![k].units = units, ![k].begun = TRUE, ![k].ran = ran] =
         [exec EXCEPT ![k] = [exec[k] EXCEPT !.units = units, !.begun = TRUE, !.ran = ran, !.got = exec[k].got]]
BY DEF CallStates

LEMMA ClearedAtOnce ==
  ASSUME NEW k \in ExecCalls, DOMAIN exec = ExecCalls, exec[k] \in CallStates,
         NEW answer, NEW got, NEW ran
  PROVE  [exec EXCEPT ![k].pc = "answered", ![k].answer = answer, ![k].got = got,
                      ![k].begun = TRUE, ![k].ran = ran] =
         [exec EXCEPT ![k] = [exec[k] EXCEPT !.pc = "answered", !.answer = answer, !.got = got,
                                             !.begun = TRUE, !.ran = ran]]
BY DEF CallStates

\* The rows of a read, whole or cut short.
LEMMA RowsHarvested ==
  ASSUME NEW size \in Nat, NEW clipped \in BOOLEAN, cap \in Nat
  PROVE  LET a == Harvested(size, clipped) IN
         a \in Results /\ a.what = "rows" /\ a.size = size /\ ~Stops(a) /\ Fits(a, cap)
<1> DEFINE a == Harvested(size, clipped)
<1>1. /\ a.what = "rows" /\ a.size = size /\ a.shown = (IF size > cap THEN cap ELSE size)
      /\ a.clipped = clipped /\ a.truncated = (clipped \/ size > cap)
  BY DEF Harvested
<1>2. (clipped \/ size > cap) \in BOOLEAN
  OBVIOUS
<1>3. a \in Results
  BY <1>2 DEF Harvested, Results
<1>4. ~Stops(a)
  BY <1>1 DEF Stops, Refusal, Error, NoRows
<1> HIDE DEF a
<1>5. Fits(a, cap)
  BY <1>1 DEF Fits
<1> QED BY <1>1, <1>3, <1>4, <1>5 DEF a

LEMMA ReadEnds ==
  ASSUME ExecInv, NEW k \in ExecCalls, Executing(k), Statement(k) = "read", UNCHANGED <<cap, request>>,
         NEW size \in Nat, NEW clipped \in BOOLEAN, NEW end \in {"done", "cut"}, NEW units \in {Rest(k), Cut(k)},
         NEW got \in Seq(Results), got = Append(exec[k].got, Harvested(size, clipped)),
         exec' = [exec EXCEPT ![k] = [exec[k] EXCEPT !.units = units, !.begun = TRUE, !.ran = Ran(k, end, size),
                                                     !.got = got]]
  PROVE  ExecInv'
<1> DEFINE a == Harvested(size, clipped)
<1>1. a \in Results /\ a.what = "rows" /\ a.size = size /\ ~Stops(a) /\ Fits(a, cap)
  BY RowsHarvested DEF ExecInv
<1>2. got = Append(exec[k].got, a)
  OBVIOUS
<1> HIDE DEF a
<1>3. end \in Ends /\ end # "failed"
  BY DEF Ends
<1>4. Yields(k, end, size, got)
  BY <1>1, <1>2, <1>3 DEF Yields
<1> QED BY <1>3, <1>4, StatementExecuted

LEMMA ReadStep ==
  ASSUME ExecInv, NEW k \in ExecCalls, NEW size \in Nat, NEW clipped \in BOOLEAN,
         ReadExecuted(k, size, clipped) \/ ReadCutShort(k, size, clipped)
  PROVE  ExecInv'
<1> DEFINE got == Append(exec[k].got, Harvested(size, clipped))
<1>1. Executing(k) /\ Statement(k) = "read" /\ UNCHANGED <<cap, request>>
  BY DEF ReadExecuted, ReadCutShort
<1>2. exec[k].got \in Seq(Results) /\ exec[k] \in CallStates /\ DOMAIN exec = ExecCalls
  BY <1>1, OfRunning DEF Executing, CallStates, ExecInv
<1>3. got \in Seq(Results)
  BY <1>2, RowsHarvested DEF ExecInv
<1>4. PICK end \in {"done", "cut"}, units \in {Rest(k), Cut(k)} :
        exec' = [exec EXCEPT ![k].units = units, ![k].begun = TRUE, ![k].ran = Ran(k, end, size), ![k].got = got]
  <2>1. CASE ReadExecuted(k, size, clipped)
    <3>1. exec' = [exec EXCEPT ![k].units = Rest(k), ![k].begun = TRUE, ![k].ran = Ran(k, "done", size),
                               ![k].got = got]
      BY <2>1, Zenon DEF ReadExecuted
    <3> HIDE DEF got
    <3> QED BY <3>1, Zenon
  <2>2. CASE ReadCutShort(k, size, clipped)
    <3>1. \E left \in {Rest(k), Cut(k)} :
            exec' = [exec EXCEPT ![k].units = left, ![k].begun = TRUE, ![k].ran = Ran(k, "cut", size),
                                 ![k].got = got]
      BY <2>2, Zenon DEF ReadCutShort
    <3> HIDE DEF got
    <3> QED BY <3>1, Zenon
  <2> QED BY <2>1, <2>2
<1> DEFINE ran == Ran(k, end, size)
<1>5. got = Append(exec[k].got, Harvested(size, clipped))
  OBVIOUS
<1>6. exec' = [exec EXCEPT ![k].units = units, ![k].begun = TRUE, ![k].ran = ran, ![k].got = got]
  BY <1>4
<1> HIDE DEF got, ran
<1>7. exec' = [exec EXCEPT ![k] = [exec[k] EXCEPT !.units = units, !.begun = TRUE, !.ran = ran, !.got = got]]
  BY <1>2, <1>6, GotAtOnce
<1>8. exec' = [exec EXCEPT ![k] = [exec[k] EXCEPT !.units = units, !.begun = TRUE, !.ran = Ran(k, end, size),
                                                  !.got = got]]
  BY <1>7, Zenon DEF ran
<1> QED BY <1>1, <1>3, <1>5, <1>8, ReadEnds

LEMMA WriteStep ==
  ASSUME ExecInv, NEW k \in ExecCalls, WriteExecuted(k)
  PROVE  ExecInv'
<1> DEFINE got == exec[k].got
<1>1. Executing(k) /\ Statement(k) = "write" /\ UNCHANGED <<cap, request>>
  BY DEF WriteExecuted
<1>2. got \in Seq(Results) /\ exec[k] \in CallStates /\ DOMAIN exec = ExecCalls
  BY <1>1, OfRunning DEF Executing, CallStates, ExecInv
<1>3. exec' = [exec EXCEPT ![k].units = Rest(k), ![k].begun = TRUE, ![k].ran = Ran(k, "done", 0)]
  BY DEF WriteExecuted
<1>4. exec' = [exec EXCEPT ![k] = [exec[k] EXCEPT !.units = Rest(k), !.begun = TRUE, !.ran = Ran(k, "done", 0),
                                                  !.got = got]]
  <2> DEFINE units == Rest(k)
             ran == Ran(k, "done", 0)
  <2>1. exec' = [exec EXCEPT ![k].units = units, ![k].begun = TRUE, ![k].ran = ran]
    BY <1>3
  <2> HIDE DEF units, ran
  <2>2. exec' = [exec EXCEPT ![k] = [exec[k] EXCEPT !.units = units, !.begun = TRUE, !.ran = ran, !.got = exec[k].got]]
    BY <1>2, <2>1, RanAtOnce
  <2> QED BY <2>2 DEF units, ran
<1> HIDE DEF got
<1>5. 0 \in Nat /\ "done" \in Ends
  BY DEF Ends
<1>6. Yields(k, "done", 0, got)
  BY <1>1 DEF got, Yields
<1> QED BY <1>1, <1>2, <1>4, <1>5, <1>6, StatementExecuted

LEMMA LaterFailureStep ==
  ASSUME ExecInv, NEW k \in ExecCalls, LaterStatementFailed(k)
  PROVE  ExecInv'
<1> DEFINE got == exec[k].got
           cut == Cut(k)
           ran == Ran(k, "failed", 0)
<1>1. Executing(k) /\ exec[k].begun /\ UNCHANGED <<cap, request>>
  BY DEF LaterStatementFailed
<1>2. got \in Seq(Results) /\ exec[k] \in CallStates /\ DOMAIN exec = ExecCalls
  BY <1>1, OfRunning DEF Executing, CallStates, ExecInv
<1>3. exec' = [exec EXCEPT ![k].units = cut, ![k].ran = ran]
  BY DEF LaterStatementFailed
<1> HIDE DEF cut, ran
<1>4. exec' = [exec EXCEPT ![k] = [exec[k] EXCEPT !.units = cut, !.begun = TRUE, !.ran = ran, !.got = got]]
  BY <1>1, <1>2, <1>3 DEF CallStates
<1> HIDE DEF got
<1>5. 0 \in Nat /\ "failed" \in Ends /\ cut = Cut(k) /\ ran = Ran(k, "failed", 0)
  BY DEF cut, ran, Ends
<1>6. Yields(k, "failed", 0, got)
  BY DEF got, Yields
<1> QED BY <1>1, <1>2, <1>4, <1>5, <1>6, StatementExecuted

LEMMA BatchFailedStep ==
  ASSUME ExecInv, NEW k \in ExecCalls, BatchFailed(k)
  PROVE  ExecInv'
<1> DEFINE got == <<>>
           answer == Append(exec[k].answer, Error)
<1>1. Executing(k) /\ UNCHANGED <<cap, request>>
  BY DEF BatchFailed
<1>2. got \in Seq(Results) /\ exec[k] \in CallStates /\ DOMAIN exec = ExecCalls
  BY <1>1, OfRunning DEF Executing, ExecInv
<1>3. exec' = [exec EXCEPT ![k].pc = "answered", ![k].answer = answer, ![k].got = got,
                           ![k].begun = TRUE, ![k].ran = Ran(k, "failed", 0)]
  BY DEF BatchFailed
<1> HIDE DEF got
<1>4. exec' = [exec EXCEPT ![k] = [exec[k] EXCEPT !.pc = "answered", !.answer = answer, !.got = got,
                                                  !.begun = TRUE, !.ran = Ran(k, "failed", 0)]]
  BY <1>2, <1>3, ClearedAtOnce
<1> QED BY <1>1, <1>2, <1>4, CallFailed

LEMMA SqliteFailedStep ==
  ASSUME ExecInv, NEW k \in ExecCalls, SqliteFailed(k)
  PROVE  ExecInv'
<1> DEFINE got == exec[k].got
           answer == Append(exec[k].answer, Error)
           ran == Ran(k, "failed", 0)
           cut == Cut(k)
<1>1. Executing(k) /\ UNCHANGED <<cap, request>>
  BY DEF SqliteFailed
<1>2. got \in Seq(Results) /\ exec[k] \in CallStates /\ DOMAIN exec = ExecCalls
  BY <1>1, OfRunning DEF Executing, ExecInv, CallStates
<1>3. \/ exec' = [exec EXCEPT ![k].pc = "answered", ![k].answer = answer, ![k].begun = TRUE, ![k].ran = ran]
      \/ /\ Statement(k) = "write"
         /\ exec' = [exec EXCEPT ![k].units = cut, ![k].begun = TRUE, ![k].ran = ran]
  BY DEF SqliteFailed
<1>4. ran = Ran(k, "failed", 0) /\ answer = Append(exec[k].answer, Error) /\ cut = Cut(k)
      /\ 0 \in Nat /\ "failed" \in Ends
  BY DEF Ends
<1> HIDE DEF ran, answer, cut
<1>5. CASE exec' = [exec EXCEPT ![k].pc = "answered", ![k].answer = answer, ![k].begun = TRUE, ![k].ran = ran]
  <2>1. exec' = [exec EXCEPT ![k] = [exec[k] EXCEPT !.pc = "answered", !.answer = answer, !.got = got,
                                                    !.begun = TRUE, !.ran = ran]]
    BY <1>2, <1>5 DEF CallStates
  <2> HIDE DEF got
  <2> QED BY <1>1, <1>2, <1>4, <2>1, CallFailed
<1>6. CASE exec' = [exec EXCEPT ![k].units = cut, ![k].begun = TRUE, ![k].ran = ran]
  <2>1. exec' = [exec EXCEPT ![k] = [exec[k] EXCEPT !.units = cut, !.begun = TRUE, !.ran = ran, !.got = got]]
    BY <1>2, <1>6, RanAtOnce
  <2>2. Yields(k, "failed", 0, got)
    BY DEF Yields
  <2> HIDE DEF got
  <2> QED BY <1>1, <1>2, <1>4, <2>1, <2>2, StatementExecuted
<1> QED BY <1>3, <1>5, <1>6

LEMMA RefusalStep ==
  ASSUME ExecInv, NEW k \in ExecCalls, RefuseBatch(k)
  PROVE  ExecInv'
<1> DEFINE c == exec[k]
           r == request[k]
           answer == Append(c.answer, Refusal)
           d == [c EXCEPT !.pc = "answered", !.answer = answer]
<1>1. /\ c \in CallStates /\ c.pc = "running" /\ CallInv(c, r, cap) /\ ~c.begun /\ r.engine # "sqlite"
      /\ UNCHANGED <<cap, request>> /\ DOMAIN exec = ExecCalls
  BY OfRunning DEF RefuseBatch, Admitted, ExecInv
<1>2. answer \in Seq(Results) /\ answer = Append(c.answer, Refusal)
  BY <1>1, Outcomes DEF CallStates
<1>3. exec' = [exec EXCEPT ![k].pc = "answered", ![k].answer = answer]
  BY DEF RefuseBatch
<1> HIDE DEF answer
<1>4. exec' = [exec EXCEPT ![k] = d]
  BY <1>1, <1>3 DEF CallStates
<1> HIDE DEF d
<1>5. DOMAIN exec' = ExecCalls /\ exec'[k] = d /\ \A j \in ExecCalls \ {k} : exec'[j] = exec[j]
  BY <1>1, <1>4
<1>6. d \in CallStates /\ d.pc = "answered" /\ d.answer = answer /\ d.met = c.met /\ d.ran = c.ran
  BY <1>1, <1>2 DEF CallStates, d
<1> HIDE DEF c, r
<1>7. CallInv(d, r, cap)
  BY <1>1, <1>2, <1>6, Refused
<1> QED BY <1>1, <1>5, <1>7, CallGoesOn DEF r

LEMMA DoneStep ==
  ASSUME ExecInv, NEW k \in ExecCalls, BatchDone(k)
  PROVE  ExecInv'
<1> DEFINE c == exec[k]
           r == request[k]
           units == Tail(c.units)
           answer == c.answer \o Closing(c.got)
           pc == IF Len(c.units) = 1 THEN "answered" ELSE "running"
           d == [c EXCEPT !.units = units, !.begun = FALSE, !.got = <<>>, !.answer = answer, !.pc = pc]
<1>1. /\ c \in CallStates /\ c.pc = "running" /\ CallInv(c, r, cap)
      /\ UNCHANGED <<cap, request>> /\ DOMAIN exec = ExecCalls /\ units \in Seq(Batches)
  BY OfRunning DEF BatchDone, ExecInv
<1>2. answer \in Seq(Results) /\ answer = c.answer \o Closing(c.got)
  BY <1>1, ClosedAnswer DEF CallStates
<1>3. exec' = [exec EXCEPT ![k].units = units, ![k].begun = FALSE, ![k].got = <<>>, ![k].answer = answer, ![k].pc = pc]
  BY <1>1 DEF BatchDone, Closing
<1>4. /\ pc \in {"answered", "running"}
      /\ Len(c.units) = 1 => pc = "answered"
      /\ Len(c.units) # 1 => pc = "running"
  OBVIOUS
<1> HIDE DEF answer, units, pc
<1>5. exec' = [exec EXCEPT ![k] = d]
  BY <1>1, <1>3 DEF CallStates
<1> HIDE DEF d
<1>6. DOMAIN exec' = ExecCalls /\ exec'[k] = d /\ \A j \in ExecCalls \ {k} : exec'[j] = exec[j]
  BY <1>1, <1>5
<1>7. /\ d \in CallStates /\ d.units = units /\ d.begun = FALSE /\ d.got = <<>> /\ d.answer = answer
      /\ d.pc = pc /\ d.met = c.met /\ d.ran = c.ran
  <2>1. <<>> \in Seq(Results) /\ FALSE \in BOOLEAN
    OBVIOUS
  <2> QED BY <1>1, <1>2, <1>4, <2>1 DEF CallStates, d
<1>8. /\ d.units = Tail(c.units) /\ d.answer = c.answer \o Closing(c.got)
      /\ Len(c.units) = 1 => d.pc = "answered"
      /\ Len(c.units) # 1 => d.pc = "running"
  BY <1>2, <1>4, <1>7 DEF units
<1> HIDE DEF c, r
<1>9. CallInv(d, r, cap)
  BY <1>1, <1>7, <1>8, Finished
<1> QED BY <1>1, <1>6, <1>9, CallGoesOn DEF r

LEMMA ExecStep == ExecInv /\ [ExecNext]_execVars => ExecInv'
<1> SUFFICES ASSUME ExecInv, [ExecNext]_execVars PROVE ExecInv'
  OBVIOUS
<1>1. CASE UNCHANGED execVars
  BY <1>1 DEF execVars, ExecInv
<1>2. ASSUME NEW k \in ExecCalls, NEW r \in Requests[k], ExecuteQuery(k, r) PROVE ExecInv'
  <2>1. Units(r) # <<>> /\ ~Barred(r) /\ Enters(k, r, "running", <<>>)
    BY <1>2 DEF ExecuteQuery
  <2>2. \A met \in BOOLEAN : CallInv(Entering(r, "running", <<>>, met), r, Clamped(r.limit))
    BY <2>1, Entered
  <2> QED BY <2>1, <2>2, CallEnters
<1>3. ASSUME NEW k \in ExecCalls, NEW r \in Requests[k], NEW answer \in {<<>>, <<Refusal>>},
             Enters(k, r, "answered", answer)
      PROVE  ExecInv'
  <2>1. \A met \in BOOLEAN : CallInv(Entering(r, "answered", answer, met), r, Clamped(r.limit))
    BY AnsweredAtOnce
  <2> QED BY <1>3, <2>1, CallEnters
<1>4. ASSUME NEW k \in ExecCalls, NEW r \in Requests[k], RefuseQuery(k, r) PROVE ExecInv'
  BY <1>3, <1>4 DEF RefuseQuery
<1>5. ASSUME NEW k \in ExecCalls, NEW r \in Requests[k], NothingToExecute(k, r) PROVE ExecInv'
  BY <1>3, <1>5 DEF NothingToExecute
<1>6. ASSUME NEW k \in ExecCalls, NEW size \in Sizes \cup {0}, NEW clipped \in BOOLEAN,
             ReadExecuted(k, size, clipped) \/ ReadCutShort(k, size, clipped)
      PROVE  ExecInv'
  <2>1. size \in Nat
    BY RequestsAssumption
  <2> QED BY <1>6, <2>1, ReadStep
<1>7. ASSUME NEW k \in ExecCalls, WriteExecuted(k) PROVE ExecInv'
  BY <1>7, WriteStep
<1>8. ASSUME NEW k \in ExecCalls, RefuseBatch(k) PROVE ExecInv'
  BY <1>8, RefusalStep
<1>9. ASSUME NEW k \in ExecCalls, BatchFailed(k) PROVE ExecInv'
  BY <1>9, BatchFailedStep
<1>10. ASSUME NEW k \in ExecCalls, LaterStatementFailed(k) PROVE ExecInv'
  BY <1>10, LaterFailureStep
<1>11. ASSUME NEW k \in ExecCalls, SqliteFailed(k) PROVE ExecInv'
  BY <1>11, SqliteFailedStep
<1>12. ASSUME NEW k \in ExecCalls, BatchDone(k) PROVE ExecInv'
  BY <1>12, DoneStep
<1> QED BY <1>1, <1>2, <1>4, <1>5, <1>6, <1>7, <1>8, <1>9, <1>10, <1>11, <1>12 DEF ExecNext

LEMMA ExecInductive == ExecSpec => []ExecInv
<1>1. ExecInit => ExecInv
  BY ExecInitially
<1>2. ExecInv /\ [ExecNext]_execVars => ExecInv'
  BY ExecStep
<1> QED BY <1>1, <1>2, PTL DEF ExecSpec

-----------------------------------------------------------------------------
(* The theorems.                                                           *)

\* The row cap is a positive number, and what is left of a call to execute is
\* batches of statements, however the calls of execute_query overlap.
THEOREM ExecTypeCorrect == ExecSpec => []ExecTypeOK
<1>1. ExecInv => ExecTypeOK
  <2> SUFFICES ASSUME ExecInv PROVE ExecTypeOK
    OBVIOUS
  <2>1. \A k \in ExecCalls : exec[k] \in CallStates
    BY DEF ExecInv, CallInv
  <2>2. \A k \in ExecCalls : /\ exec[k].pc \in {"idle", "running", "answered"}
                             /\ exec[k].begun \in BOOLEAN
                             /\ exec[k].units \in Seq(Seq(Statements))
    BY <2>1 DEF CallStates, Batches
  <2> QED BY <2>2 DEF ExecInv, ExecTypeOK
<1> QED BY <1>1, ExecInductive, PTL

\* The lists of rows and of reads that the property speaks of.
LEMMA AsInvariant ==
  ASSUME NEW c \in CallStates, NEW failed
  PROVE  /\ Only(c.answer, {a \in Range(c.answer) : a.what = "rows"}) = Only(c.answer, RowResults)
         /\ Only(c.ran, {e \in Range(c.ran) : e.statement = "read" /\ e.end # "failed" /\ e.unit \notin failed}) =
            Only(c.ran, ReadsBut(failed))
<1>1. c.answer \in Seq(Results) /\ c.ran \in Seq(Executions)
  BY DEF CallStates
<1>2. \A i \in DOMAIN c.answer : c.answer[i] \in Range(c.answer) /\ c.answer[i] \in Results
  BY <1>1 DEF Range
<1>3. \A i \in DOMAIN c.ran : c.ran[i] \in Range(c.ran) /\ c.ran[i] \in Executions
  BY <1>1 DEF Range
<1> DEFINE V == {a \in Range(c.answer) : a.what = "rows"}
           W == {e \in Range(c.ran) : e.statement = "read" /\ e.end # "failed" /\ e.unit \notin failed}
<1>4. \A i \in DOMAIN c.answer : c.answer[i] \in V <=> c.answer[i] \in RowResults
  BY <1>2 DEF RowResults
<1>5. \A i \in DOMAIN c.ran : c.ran[i] \in W <=> c.ran[i] \in ReadsBut(failed)
  BY <1>3 DEF ReadsBut
<1> HIDE DEF V, W
<1>6. Only(c.answer, V) = Only(c.answer, RowResults)
  BY <1>4, OnlyOfAgreeing
<1>7. Only(c.ran, W) = Only(c.ran, ReadsBut(failed))
  BY <1>5, OnlyOfAgreeing
<1> QED BY <1>6, <1>7 DEF V, W

\* Of execute_query, for any statements, limits and overlapping calls: a read-only
\* connection executes reads alone (SQLite none when one statement is refused),
\* nothing follows a refusal or an error, the result sets answered are those of the
\* reads that gave one, whole or cut short by the driver, with the rows found and in
\* their order, and a call that met no other is cut by its own limit and says so.
THEOREM AnswerAccountsForRunAlways == ExecSpec => []AnswerAccountsForRun
<1>1. ExecInv => AnswerAccountsForRun
  <2> SUFFICES ASSUME ExecInv, NEW k \in ExecCalls
               PROVE  LET c      == exec[k]
                          failed == IF Erred(k) THEN {Last(c.ran).unit} ELSE {}
                          reads  == Only(c.ran, {e \in Range(c.ran) :
                                                   e.statement = "read" /\ e.end # "failed" /\ e.unit \notin failed})
                          rows   == Only(c.answer, {a \in Range(c.answer) : a.what = "rows"})
                      IN
                      /\ request[k].readOnly => \A i \in DOMAIN c.ran : c.ran[i].statement = "read"
                      /\ request[k].engine = "sqlite" /\ Refusal \in Range(c.answer) => c.ran = <<>>
                      /\ \A i \in DOMAIN c.answer : c.answer[i] \in {Refusal, Error} =>
                           i = Len(c.answer) /\ c.pc = "answered"
                      /\ c.pc = "answered" =>
                           [i \in DOMAIN rows |-> rows[i].size] = [i \in DOMAIN reads |-> reads[i].size]
                      /\ ~c.met => \A a \in Range(rows) :
                           LET limit == Clamped(request[k].limit) IN
                           a.shown = (IF a.size > limit THEN limit ELSE a.size) /\ a.truncated = (a.clipped \/ a.size > limit)
    BY Zenon DEF AnswerAccountsForRun
  <2> DEFINE c == exec[k]
             r == request[k]
             failed == IF Erred(k) THEN {Last(c.ran).unit} ELSE {}
             reads  == Only(c.ran, {e \in Range(c.ran) : e.statement = "read" /\ e.end # "failed" /\ e.unit \notin failed})
             rows   == Only(c.answer, {a \in Range(c.answer) : a.what = "rows"})
             limit  == Clamped(r.limit)
  <2>1. CallInv(c, r, cap) /\ c \in CallStates
    BY DEF ExecInv, CallInv
  <2>2. c.answer \in Seq(Results) /\ c.ran \in Seq(Executions)
    BY <2>1 DEF CallStates
  <2>3. rows = Only(c.answer, RowResults) /\ reads = Only(c.ran, ReadsBut(failed))
    <3> DEFINE f == failed
    <3>1. f = failed
      OBVIOUS
    <3> HIDE DEF f
    <3>2. Only(c.ran, {e \in Range(c.ran) : e.statement = "read" /\ e.end # "failed" /\ e.unit \notin f}) = Only(c.ran, ReadsBut(f))
      BY <2>1, AsInvariant, Zenon
    <3>3. rows = Only(c.answer, RowResults)
      BY <2>1, AsInvariant, Zenon
    <3> QED BY <3>2, <3>3 DEF f
  <2>4. failed = FailedUnits(c)
    BY DEF Erred, Last, FailedUnits
  <2>5. r.readOnly => \A i \in DOMAIN c.ran : c.ran[i].statement = "read"
    BY <2>1 DEF CallInv, OnlyReads
  <2>6. r.engine = "sqlite" /\ Refusal \in Range(c.answer) => c.ran = <<>>
    BY <2>1 DEF CallInv, RefusedWhole, Range
  <2>7. \A i \in DOMAIN c.answer : c.answer[i] \in {Refusal, Error} => i = Len(c.answer) /\ c.pc = "answered"
    <3>1. CASE c.pc = "idle"
      BY <2>1, <3>1 DEF CallInv, NoCall
    <3>2. CASE c.pc = "running"
      BY <2>1, <3>2 DEF CallInv, Running, Accounted, Stops
    <3>3. CASE c.pc = "answered"
      BY <2>1, <3>3 DEF CallInv, Answered, Stops
    <3> QED BY <2>1, <3>1, <3>2, <3>3 DEF CallStates
  <2> HIDE DEF c, r, failed, reads, rows
  <2>8. c.pc = "answered" => [i \in DOMAIN rows |-> rows[i].size] = [i \in DOMAIN reads |-> reads[i].size]
    <3>1. [i \in DOMAIN rows |-> rows[i].size] = SizesOf(c.answer, RowResults)
      BY <2>3 DEF SizesOf
    <3>2. [i \in DOMAIN reads |-> reads[i].size] = SizesOf(c.ran, ReadsBut(FailedUnits(c)))
      BY <2>3, <2>4 DEF SizesOf
    <3>3. c.pc = "answered" => SizesOf(c.answer, RowResults) = SizesOf(c.ran, ReadsBut(FailedUnits(c)))
      BY <2>1 DEF CallInv, Answered
    <3> QED BY <3>1, <3>2, <3>3
  <2>9. ASSUME ~c.met, NEW a \in Range(rows)
        PROVE  a.shown = (IF a.size > limit THEN limit ELSE a.size) /\ a.truncated = (a.clipped \/ a.size > limit)
    <3>1. PICK i \in DOMAIN c.answer : a = c.answer[i] /\ a \in RowResults
      <4>1. PICK j \in DOMAIN rows : a = rows[j]
        BY <2>9 DEF Range
      <4>2. \A n \in DOMAIN rows : rows[n] \in RowResults /\ \E i \in DOMAIN c.answer : rows[n] = c.answer[i]
        <5> DEFINE o == Only(c.answer, RowResults)
        <5>1. c.answer \in Seq(Results)
          BY <2>2
        <5>2. /\ o \in Seq(Results)
              /\ \A n \in 1..Len(o) : o[n] \in RowResults
          BY <5>1, OnlyProperties
        <5>3. PICK f \in [1..Len(o) -> 1..Len(c.answer)] : \A n \in 1..Len(o) : o[n] = c.answer[f[n]]
          BY <5>1, OnlyProperties
        <5> HIDE DEF o
        <5>4. DOMAIN o = 1..Len(o) /\ DOMAIN c.answer = 1..Len(c.answer)
          BY <2>2, <5>2
        <5>5. rows = o
          BY <2>3 DEF o
        <5> QED BY <5>2, <5>3, <5>4, <5>5
      <4> QED BY <4>1, <4>2
    <3>2. Fits(a, limit)
      BY <2>1, <2>9, <3>1 DEF CallInv, Undisturbed
    <3>3. a.what = "rows"
      BY <3>1 DEF RowResults
    <3> QED BY <3>2, <3>3, Zenon DEF Fits
  <2> QED BY <2>5, <2>6, <2>7, <2>8, <2>9, Zenon DEF c, r, failed, reads, rows, limit
<1> QED BY <1>1, ExecInductive, PTL

-----------------------------------------------------------------------------
(* Plans: what lies around a node.                                         *)

\* What lies around a node is what lies around the one that holds it, and that one.
Nested(up) == up \in Seq(Nat) /\ \A n \in 1..Len(up) : up[n] < n

LEMMA AroundEquation ==
  ASSUME NEW d, Nested(d.up)
  PROVE  /\ Around(d)[0] = {}
         /\ \A n \in 1..Len(d.up) : Around(d)[n] = {d.up[n]} \cup Around(d)[d.up[n]]
<1> DEFINE l == Len(d.up)
           D == 0..l
           V == SUBSET Nat
           G == [f \in [D -> V] |-> [n \in D |-> IF n = 0 THEN {} ELSE {d.up[n]} \cup f[d.up[n]]]]
           mu == [n \in D |-> n]
<1>1. l \in Nat /\ \A n \in D : n # 0 => d.up[n] \in D /\ d.up[n] < n
  BY DEF Nested
<1> HIDE DEF l
<1>2. G \in [[D -> V] -> [D -> V]]
  BY <1>1
<1>3. mu \in [D -> 0..l]
  OBVIOUS
<1>4. \A f, g \in [D -> V] : \A n \in D :
        (\A m \in D : mu[m] < mu[n] => f[m] = g[m]) => G[f][n] = G[g][n]
  BY <1>1
<1>5. {} \in V
  OBVIOUS
<1>6. \E f \in [D -> V] : f = G[f]
  <2>1. Recursive(D, V, G, mu)
    <3> HIDE DEF D, V, G, mu
    <3> QED BY <1>2, <1>4, <1>5 DEF Recursive
  <2> HIDE DEF D, V, G, mu
  <2> QED BY <1>1, <1>3, <2>1, FixedPoint
<1>7. \E f : f = [n \in D |-> IF n = 0 THEN {} ELSE {d.up[n]} \cup f[d.up[n]]]
  BY <1>6
<1>8. Around(d) = CHOOSE f : f = [n \in D |-> IF n = 0 THEN {} ELSE {d.up[n]} \cup f[d.up[n]]]
  BY DEF Around, l
<1>9. Around(d) = [n \in D |-> IF n = 0 THEN {} ELSE {d.up[n]} \cup Around(d)[d.up[n]]]
  BY <1>7, <1>8
<1> HIDE DEF D
<1>10. 0 \in D /\ \A n \in 1..Len(d.up) : n \in D /\ n # 0
  BY <1>1 DEF D, l
<1> QED BY <1>9, <1>10

\* The nodes around a node are a chain that starts at the document: each of them
\* has around it those that are less.
LEMMA AroundChain ==
  ASSUME NEW d, Nested(d.up)
  PROVE  /\ \A n \in 1..Len(d.up) : 0 \in Around(d)[n] /\ \A m \in Around(d)[n] : m \in Nat /\ m < n
         /\ \A n \in 1..Len(d.up) : \A m \in Around(d)[n] : Around(d)[m] \subseteq Around(d)[n]
         /\ \A n \in 1..Len(d.up) : \A m, k \in Around(d)[n] : k < m => k \in Around(d)[m]
         /\ \A n \in 1..Len(d.up) : \A m \in Around(d)[n] :
              \E c \in Around(d)[n] \cup {n} : c \in 1..Len(d.up) /\ d.up[c] = m
<1> DEFINE l == Len(d.up)
           A == Around(d)
           P(n) == /\ 0 \in A[n] /\ \A m \in A[n] : m \in Nat /\ m < n
                   /\ \A m \in A[n] : A[m] \subseteq A[n]
                   /\ \A m, k \in A[n] : k < m => k \in A[m]
                   /\ \A m \in A[n] : \E c \in A[n] \cup {n} : c \in 1..l /\ d.up[c] = m
           T == {n \in Nat : n \in 1..l => P(n)}
<1>1. /\ l \in Nat /\ A[0] = {}
      /\ \A n \in 1..l : d.up[n] \in Nat /\ d.up[n] < n /\ A[n] = {d.up[n]} \cup A[d.up[n]]
  BY AroundEquation DEF Nested
<1> HIDE DEF l, A
<1>2. ASSUME NEW n \in Nat, \A m \in Nat : m < n => m \in T
      PROVE  n \in T
  <2> SUFFICES ASSUME n \in 1..l PROVE P(n)
    OBVIOUS
  <2> DEFINE u == d.up[n]
  <2>1. u \in Nat /\ u < n /\ A[n] = {u} \cup A[u]
    BY <1>1
  <2> HIDE DEF u
  <2>2. CASE u = 0
    <3>1. A[n] = {0} /\ n \in 1..l /\ d.up[n] = 0
      BY <1>1, <2>1, <2>2 DEF u
    <3> QED BY <1>1, <3>1
  <2>3. CASE u # 0
    <3>1. u \in 1..l /\ u \in T
      BY <1>1, <1>2, <2>1, <2>3
    <3>2. P(u)
      BY <3>1
    <3>3. 0 \in A[n] /\ \A m \in A[n] : m \in Nat /\ m < n
      BY <2>1, <3>2
    <3>4. \A m \in A[n] : A[m] \subseteq A[n]
      BY <2>1, <3>2
    <3>5. \A m, k \in A[n] : k < m => k \in A[m]
      BY <2>1, <3>2
    <3>6. \A m \in A[n] : \E c \in A[n] \cup {n} : c \in 1..l /\ d.up[c] = m
      <4> TAKE m \in A[n]
      <4>1. CASE m = u
        BY <4>1 DEF u
      <4>2. CASE m # u
        <5>1. m \in A[u]
          BY <2>1, <4>2
        <5>2. PICK c \in A[u] \cup {u} : c \in 1..l /\ d.up[c] = m
          BY <3>2, <5>1
        <5> QED BY <2>1, <5>2
      <4> QED BY <4>1, <4>2
    <3> QED BY <3>3, <3>4, <3>5, <3>6
  <2> QED BY <2>2, <2>3
<1>3. \A n \in Nat : n \in T
  <2> HIDE DEF T
  <2> QED BY <1>2, StrongInduction
<1>4. ASSUME NEW n \in 1..l PROVE P(n)
  <2>1. n \in T
    BY <1>3
  <2> QED BY <2>1
<1> QED BY <1>4 DEF A, l

-----------------------------------------------------------------------------
(* The tree of a plan.                                                     *)

Ops(d) == {n \in DOMAIN d.up : Operator(d, n)}
Known(d) == {n \in Ops(d) : \A m \in Around(d)[n] \ {0} : d.kind[m] \notin Closed}
Inner(d, n) == Max((Around(d)[n] \cap Ops(d)) \cup {0})
Kids(d, n) == {c \in Known(d) : Inner(d, c) = n}

\* The innermost operator around a node.
LEMMA InnerMost ==
  ASSUME NEW d, Nested(d.up), NEW n \in 1..Len(d.up)
  PROVE  /\ Inner(d, n) \in (Around(d)[n] \cap Ops(d)) \cup {0}
         /\ Inner(d, n) \in Nat /\ Inner(d, n) < n /\ Inner(d, n) \in Around(d)[n]
         /\ \A m \in Around(d)[n] \cap Ops(d) : m <= Inner(d, n)
<1> DEFINE S == (Around(d)[n] \cap Ops(d)) \cup {0}
<1>1. /\ n \in Nat /\ 0 < n /\ 0 \in Around(d)[n]
      /\ \A m \in Around(d)[n] : m \in Nat /\ m < n
  BY AroundChain DEF Nested
<1>2. S \in SUBSET (0..n) /\ S # {}
  BY <1>1
<1> HIDE DEF S
<1>3. Max(S) \in S /\ \A x \in S : Max(S) >= x
  BY <1>1, <1>2, GreatestNumber
<1>4. Inner(d, n) = Max(S)
  BY DEF Inner, S
<1>5. Max(S) \in Nat
  <2>1. \A x \in S : x \in Nat
    BY <1>1, <1>2
  <2> QED BY <1>3, <2>1
<1> QED BY <1>1, <1>3, <1>4, <1>5 DEF S

\* On the way in from an operator, or from the document, to another, the next one
\* is below the first.
LEMMA KidToward ==
  ASSUME NEW d, Nested(d.up), NEW n \in Known(d) \cup {0}, NEW c \in Known(d), n \in Around(d)[c]
  PROVE  \E k \in Kids(d, n) : k = c \/ k \in Around(d)[c]
<1> DEFINE A == Around(d)
           K == {m \in (A[c] \cap Ops(d)) \cup {c} : m > n}
           k == Min(K)
<1>1. /\ c \in 1..Len(d.up) /\ Len(d.up) \in Nat
      /\ \A m \in Ops(d) : m \in 1..Len(d.up)
  BY DEF Known, Ops, Nested
<1>2. n \in Nat /\ n < c /\ \A m \in A[c] : m \in Nat /\ m < c
  BY <1>1, AroundChain
<1>3. K \in SUBSET Nat /\ c \in K
  BY <1>1, <1>2
<1> HIDE DEF K
<1>4. k \in K /\ \A x \in K : k <= x
  BY <1>3, LeastNumber
<1> HIDE DEF k, A
<1>5. k \in Ops(d) /\ k > n /\ (k = c \/ k \in A[c])
  BY <1>4 DEF K, Known
<1>6. k \in 1..Len(d.up) /\ k \in Nat
  BY <1>1, <1>5
<1>7. A[k] \subseteq A[c] /\ n \in A[k]
  BY <1>1, <1>5, AroundChain DEF A
<1>8. k \in Known(d)
  <2>1. \A m \in A[k] \ {0} : d.kind[m] \notin Closed
    BY <1>7 DEF Known, A
  <2> QED BY <1>5, <2>1 DEF Known, A
<1>9. Inner(d, k) = n
  <2>1. \A m \in A[k] : m \in Nat /\ m < k
    BY <1>6, AroundChain DEF A
  <2>2. \A m \in A[k] \cap Ops(d) : m <= n
    <3> SUFFICES ASSUME NEW m \in A[k] \cap Ops(d), ~(m <= n) PROVE FALSE
      OBVIOUS
    <3>1. m \in A[c] /\ m \in Nat /\ m < k /\ m > n
      BY <1>2, <1>7, <2>1
    <3>2. m \in K
      BY <3>1 DEF K
    <3> QED BY <1>4, <1>6, <3>1, <3>2
  <2>3. n = 0 \/ n \in A[k] \cap Ops(d)
    BY <1>7 DEF Known
  <2>4. /\ Inner(d, k) \in (A[k] \cap Ops(d)) \cup {0} /\ Inner(d, k) \in Nat
        /\ \A m \in A[k] \cap Ops(d) : m <= Inner(d, k)
    BY <1>6, InnerMost DEF A
  <2> QED BY <1>2, <2>2, <2>3, <2>4
<1> QED BY <1>5, <1>8, <1>9 DEF Kids, A

\* What is drawn below an operator when the code finds its children.
Sound(d) ==
  /\ Nested(d.up)
  /\ \A n \in 1..Len(d.up) : \A c \in Converted(d, n) :
       c \in Int /\ (c > 0 => c \in 1..Len(d.up) /\ n < c)
  /\ \A n \in Known(d) : {c \in Converted(d, n) : c > 0} = Kids(d, n)

LEMMA BelowEquation ==
  ASSUME NEW d, Sound(d), NEW n \in 1..Len(d.up)
  PROVE  Below(d)[n] = UNION {{<<n, c>>} \cup (IF c > 0 THEN Below(d)[c] ELSE {}) : c \in Converted(d, n)}
<1> DEFINE l == Len(d.up)
           D == 1..l
           V == SUBSET (Int \X Int)
           E(f, m) == UNION {{<<m, c>>} \cup (IF c > 0 THEN f[c] ELSE {}) : c \in Converted(d, m)}
           G == [f \in [D -> V] |-> [m \in D |-> E(f, m)]]
           mu == [m \in D |-> l - m]
<1>1. /\ l \in Nat
      /\ \A m \in D : \A c \in Converted(d, m) : c \in Int /\ (c > 0 => c \in D /\ m < c)
  BY DEF Sound, Nested
<1> HIDE DEF l
<1>2. G \in [[D -> V] -> [D -> V]]
  <2>1. ASSUME NEW f \in [D -> V], NEW m \in D, NEW c \in Converted(d, m)
        PROVE  {<<m, c>>} \cup (IF c > 0 THEN f[c] ELSE {}) \in V
    <3>1. <<m, c>> \in Int \X Int
      BY <1>1
    <3>2. c > 0 => f[c] \in V
      BY <1>1
    <3> QED BY <3>1, <3>2
  <2>2. ASSUME NEW f \in [D -> V], NEW m \in D PROVE E(f, m) \in V
    <3>1. SUFFICES ASSUME NEW e \in E(f, m) PROVE e \in Int \X Int
      OBVIOUS
    <3>2. PICK c \in Converted(d, m) : e \in {<<m, c>>} \cup (IF c > 0 THEN f[c] ELSE {})
      OBVIOUS
    <3> QED BY <2>1, <3>2
  <2> HIDE DEF V, D, E
  <2> QED BY <2>2
<1>3. mu \in [D -> 0..l]
  BY <1>1
<1>4. \A f, g \in [D -> V] : \A m \in D :
        (\A k \in D : mu[k] < mu[m] => f[k] = g[k]) => G[f][m] = G[g][m]
  <2> SUFFICES ASSUME NEW f \in [D -> V], NEW g \in [D -> V], NEW m \in D,
                      \A k \in D : mu[k] < mu[m] => f[k] = g[k]
               PROVE  E(f, m) = E(g, m)
    <3>1. \A f \in [D -> V] : \A m \in D : G[f][m] = E(f, m)
      <4> HIDE DEF D, V, E
      <4> QED OBVIOUS
    <3> HIDE DEF D, V, E, G, mu
    <3> QED BY <3>1
  <2>1. ASSUME NEW c \in Converted(d, m), c > 0 PROVE f[c] = g[c]
    <3>1. c \in D /\ m < c
      BY <1>1, <2>1
    <3>2. mu[c] < mu[m]
      BY <1>1, <3>1
    <3> QED BY <3>1, <3>2
  <2> QED BY <2>1
<1>5. V # {}
  OBVIOUS
<1>6. \E f \in [D -> V] : f = G[f]
  <2>1. Recursive(D, V, G, mu)
    <3> HIDE DEF D, V, G, mu
    <3> QED BY <1>2, <1>4, <1>5 DEF Recursive
  <2> HIDE DEF D, V, G, mu
  <2> QED BY <1>1, <1>3, <2>1, FixedPoint
<1>7. \E f : f = [m \in D |-> E(f, m)]
  BY <1>6
<1>8. Below(d) = CHOOSE f : f = [m \in D |-> E(f, m)]
  BY DEF Below, l
<1>9. Below(d) = [m \in D |-> E(Below(d), m)]
  <2> HIDE DEF E
  <2> QED BY <1>7, <1>8
<1> HIDE DEF D
<1>10. n \in D
  BY <1>1 DEF D, l
<1>11. Below(d)[n] = E(Below(d), n)
  <2> HIDE DEF E
  <2> QED BY <1>9, <1>10
<1> QED BY <1>11

\* Every operator that is known is drawn once below each that is around it.
Edges(d, n) == {<<Inner(d, c), c>> : c \in {k \in Known(d) : n \in Around(d)[k]}}

LEMMA DrawnBelow ==
  ASSUME NEW d, Sound(d), NEW n \in Known(d)
  PROVE  {e \in Below(d)[n] : e[2] > 0} = Edges(d, n)
<1> DEFINE l == Len(d.up)
           A == Around(d)
           B == Below(d)
           Q(m) == {e \in B[m] : e[2] > 0} = Edges(d, m)
           T == {k \in Nat : \A m \in Known(d) : l - m = k => Q(m)}
<1>1. /\ l \in Nat /\ Nested(d.up)
      /\ \A m \in Known(d) : m \in 1..l
  BY DEF Sound, Nested, Known, Ops
<1>2. \A m \in Known(d) : \A c \in Kids(d, m) :
        c \in Known(d) /\ c \in 1..l /\ m < c /\ Inner(d, c) = m /\ m \in A[c] /\ c \in Converted(d, m)
  <2> TAKE m \in Known(d)
  <2> TAKE c \in Kids(d, m)
  <2>1. c \in Known(d) /\ Inner(d, c) = m /\ c \in 1..l
    BY <1>1 DEF Kids
  <2>2. m < c /\ m \in A[c]
    BY <1>1, <2>1, InnerMost
  <2>3. c \in Converted(d, m)
    BY DEF Sound
  <2> QED BY <2>1, <2>2, <2>3
<1>3. ASSUME NEW k \in Nat, \A j \in Nat : j < k => j \in T
      PROVE  k \in T
  <2> SUFFICES ASSUME NEW m \in Known(d), l - m = k PROVE Q(m)
    OBVIOUS
  <2>1. \A c \in Kids(d, m) : Q(c)
    <3> TAKE c \in Kids(d, m)
    <3>1. c \in Known(d) /\ c \in 1..l /\ m < c /\ m \in 1..l
      BY <1>1, <1>2
    <3>2. l - c \in Nat /\ l - c < k
      BY <1>1, <3>1
    <3>3. l - c \in T
      BY <1>3, <3>2
    <3> QED BY <3>1, <3>3
  <2>2. B[m] = UNION {{<<m, c>>} \cup (IF c > 0 THEN B[c] ELSE {}) : c \in Converted(d, m)}
    BY <1>1, BelowEquation
  <2> HIDE DEF B, A, l
  <2>3. ASSUME NEW e \in B[m], e[2] > 0 PROVE e \in Edges(d, m)
    <3>1. PICK c \in Converted(d, m) : e = <<m, c>> \/ (c > 0 /\ e \in B[c])
      BY <2>2
    <3>2. c > 0
      BY <2>3, <3>1
    <3>3. c \in Kids(d, m)
      BY <3>1, <3>2 DEF Sound
    <3>4. c \in Known(d) /\ Inner(d, c) = m /\ m \in A[c]
      BY <1>2, <3>3
    <3>5. CASE e = <<m, c>>
      BY <3>4, <3>5 DEF Edges, A
    <3>6. CASE e \in B[c]
      <4>1. e \in Edges(d, c)
        BY <2>1, <2>3, <3>3, <3>6
      <4>2. PICK j \in Known(d) : c \in A[j] /\ e = <<Inner(d, j), j>>
        BY <4>1 DEF Edges, A
      <4>3. m \in A[j]
        BY <1>1, <3>4, <4>2, AroundChain DEF A, l
      <4> QED BY <4>2, <4>3 DEF Edges, A
    <3> QED BY <3>1, <3>5, <3>6
  <2>4. ASSUME NEW j \in Known(d), m \in A[j]
        PROVE  <<Inner(d, j), j>> \in B[m] /\ j > 0
    <3>1. PICK c \in Kids(d, m) : c = j \/ c \in A[j]
      BY <1>1, <2>4, KidToward DEF A
    <3>2. c \in Known(d) /\ c \in 1..l /\ Inner(d, c) = m /\ c \in Converted(d, m) /\ c > 0 /\ j > 0
      BY <1>1, <1>2
    <3>3. CASE c = j
      BY <2>2, <3>2, <3>3
    <3>4. CASE c \in A[j]
      <4>1. <<Inner(d, j), j>> \in Edges(d, c)
        BY <3>4 DEF Edges, A
      <4>2. <<Inner(d, j), j>> \in B[c]
        BY <2>1, <4>1
      <4> QED BY <2>2, <3>2, <4>2
    <3> QED BY <3>1, <3>3, <3>4
  <2>5. Edges(d, m) = {<<Inner(d, j), j>> : j \in {i \in Known(d) : m \in A[i]}}
    BY DEF Edges, A
  <2>6. ASSUME NEW e \in Edges(d, m) PROVE e \in B[m] /\ e[2] > 0
    <3>1. PICK j \in Known(d) : m \in A[j] /\ e = <<Inner(d, j), j>>
      BY <2>5
    <3> QED BY <2>4, <3>1
  <2> QED BY <2>3, <2>6
<1>4. \A k \in Nat : k \in T
  <2> HIDE DEF T
  <2> QED BY <1>3, StrongInduction
<1>5. l - n \in Nat
  BY <1>1
<1> QED BY <1>4, <1>5

\* And so from the roots down.
LEMMA DrawnFromRoots ==
  ASSUME NEW d, Sound(d),
         \A r \in Roots(d) : r > 0 => r \in Known(d) /\ Inner(d, r) = 0
  PROVE  {e \in Parsed(d) : e[2] > 0}
           = {<<Inner(d, c), c>> : c \in {k \in Known(d) : \E r \in Roots(d) :
                                           r > 0 /\ r \in Around(d)[k] \cup {k}}}
<1> DEFINE S == {<<Inner(d, c), c>> : c \in {k \in Known(d) : \E r \in Roots(d) :
                                              r > 0 /\ r \in Around(d)[k] \cup {k}}}
<1>1. \A c \in Known(d) : c \in Nat /\ c > 0
  BY DEF Known, Ops, Sound, Nested
<1>2. ASSUME NEW e \in Parsed(d), e[2] > 0 PROVE e \in S
  <2>1. PICK r \in Roots(d) : e = <<0, r>> \/ (r > 0 /\ e \in Below(d)[r])
    BY DEF Parsed
  <2>2. r > 0 /\ r \in Known(d) /\ Inner(d, r) = 0
    BY <1>2, <2>1
  <2>3. CASE e = <<0, r>>
    BY <2>2, <2>3
  <2>4. CASE e \in Below(d)[r]
    <3>1. e \in Edges(d, r)
      BY <1>2, <2>2, <2>4, DrawnBelow
    <3> QED BY <2>2, <3>1 DEF Edges
  <2> QED BY <2>1, <2>3, <2>4
<1>3. ASSUME NEW e \in S PROVE e \in Parsed(d) /\ e[2] > 0
  <2>1. PICK c \in Known(d), r \in Roots(d) :
          e = <<Inner(d, c), c>> /\ r > 0 /\ r \in Around(d)[c] \cup {c}
    OBVIOUS
  <2>2. r \in Known(d) /\ Inner(d, r) = 0
    BY <2>1
  <2>3. CASE r = c
    BY <1>1, <2>1, <2>2, <2>3 DEF Parsed
  <2>4. CASE r \in Around(d)[c]
    <3>1. e \in Edges(d, r)
      BY <2>1, <2>4 DEF Edges
    <3>2. e \in Below(d)[r]
      BY <2>2, <3>1, DrawnBelow
    <3> QED BY <1>1, <2>1, <3>2 DEF Parsed
  <2> QED BY <2>1, <2>3, <2>4
<1> QED BY <1>2, <1>3

-----------------------------------------------------------------------------
(* The documents.                                                          *)

PlanEngines == Uniform \cup {"sqlserver", "mysql"}
PlanDocs(engine) == [engine : {engine}, up : Seq(Nat), kind : Seq(Kinds(engine)), cost : Seq(Int), time : Seq(Int)]

\* What the kind of a node of MySQL says of those in it.
Housed(d, n) ==
  LET outer == IF d.up[n] = 0 THEN "document" ELSE d.kind[d.up[n]] IN
  /\ d.up[n] = 0 => n = 1
  /\ outer \in {"document", "union_result", "table", "subqueries"} => d.kind[n] = "query_block"
  /\ outer \in Blocks \cup {"other"} =>
       /\ d.kind[n] \in Wrappers \cup {"other", "subqueries"}
       /\ d.kind[n] # "subqueries" => \A m \in Within(d, d.up[n]) : d.kind[m] # "subqueries" => m = n
  /\ outer = "nested_loop" => d.kind[n] \in {"table", "block-nl-join"}
  /\ outer = "block-nl-join" => d.kind[n] = "table"

Document(d) ==
  /\ d.engine \in PlanEngines /\ d \in PlanDocs(d.engine)
  /\ Len(d.kind) = Len(d.up) /\ Len(d.cost) = Len(d.up) /\ Len(d.time) = Len(d.up)
  /\ \A n \in 1..Len(d.up) : d.up[n] < n
  /\ \A n \in 1..Len(d.up) : d.cost[n] >= 0
  /\ d.engine = "mysql" => \A n \in 1..Len(d.up) : Housed(d, n)

LEMMA GrownTyped ==
  ASSUME NEW engine \in PlanEngines, NEW d \in PlanDocs(engine), NEW e \in (0..Len(d.up)) \X Kinds(engine)
  PROVE  /\ Grown(d, e[1], e[2]) \in PlanDocs(engine)
         /\ Grown(d, e[1], e[2]).engine = engine
         /\ Grown(d, e[1], e[2]).up = Append(d.up, e[1]) /\ Grown(d, e[1], e[2]).kind = Append(d.kind, e[2])
         /\ Grown(d, e[1], e[2]).cost = Append(d.cost, 0) /\ Grown(d, e[1], e[2]).time = Append(d.time, -1)
<1>1. d.engine = engine
  BY DEF PlanDocs
<1>3. /\ d.up \in Seq(Nat) /\ d.kind \in Seq(Kinds(engine)) /\ d.cost \in Seq(Int) /\ d.time \in Seq(Int)
      /\ e[1] \in Nat /\ e[2] \in Kinds(engine) /\ Len(d.up) \in Nat
  BY DEF PlanDocs
<1>4. /\ Append(d.up, e[1]) \in Seq(Nat) /\ Append(d.kind, e[2]) \in Seq(Kinds(engine))
      /\ Append(d.cost, 0) \in Seq(Int) /\ Append(d.time, -1) \in Seq(Int)
  BY <1>3
<1> QED BY <1>1, <1>4 DEF PlanDocs, Grown

LEMMA OneLonger ==
  ASSUME NEW S, NEW s \in Seq(S), NEW x \in S, NEW l, Len(s) = l, NEW t, t = Append(s, x)
  PROVE  Len(t) = l + 1 /\ t[l + 1] = x /\ \A n \in 1..l : t[n] = s[n]
  BY AppendProperties

\* A document that grows stays one.
LEMMA GrownDocument ==
  ASSUME NEW d, Document(d), NEW e \in (0..Len(d.up)) \X Kinds(d.engine), Grows(d, e[1], e[2])
  PROVE  Document(Grown(d, e[1], e[2]))
<1> DEFINE g == Grown(d, e[1], e[2])
           l == Len(d.up)
<1>1. /\ g \in PlanDocs(d.engine) /\ g.engine = d.engine /\ d.engine \in PlanEngines
      /\ g.up = Append(d.up, e[1]) /\ g.kind = Append(d.kind, e[2])
      /\ g.cost = Append(d.cost, 0) /\ g.time = Append(d.time, -1)
  <2>1. d.engine \in PlanEngines /\ d \in PlanDocs(d.engine)
    BY DEF Document
  <2> QED BY <2>1, GrownTyped
<1>2. /\ d.up \in Seq(Nat) /\ d.kind \in Seq(Kinds(d.engine)) /\ d.cost \in Seq(Int) /\ d.time \in Seq(Int)
      /\ l \in Nat /\ Len(d.kind) = l /\ Len(d.cost) = l /\ Len(d.time) = l
      /\ e[1] \in 0..l /\ e[2] \in Kinds(d.engine)
  BY DEF Document, PlanDocs
<1> HIDE DEF l, g
<1>3. /\ Len(g.up) = l + 1 /\ Len(g.kind) = l + 1 /\ Len(g.cost) = l + 1 /\ Len(g.time) = l + 1
      /\ g.up[l + 1] = e[1] /\ g.kind[l + 1] = e[2] /\ g.cost[l + 1] = 0
      /\ \A n \in 1..l : g.up[n] = d.up[n] /\ g.kind[n] = d.kind[n] /\ g.cost[n] = d.cost[n]
  <2>1. Len(g.up) = l + 1 /\ g.up[l + 1] = e[1] /\ \A n \in 1..l : g.up[n] = d.up[n]
    <3>1. d.up \in Seq(Nat) /\ Len(d.up) = l /\ e[1] \in Nat /\ g.up = Append(d.up, e[1])
      BY <1>1, <1>2 DEF l
    <3> QED BY <3>1, OneLonger
  <2>2. Len(g.kind) = l + 1 /\ g.kind[l + 1] = e[2] /\ \A n \in 1..l : g.kind[n] = d.kind[n]
    <3>1. d.kind \in Seq(Kinds(d.engine)) /\ Len(d.kind) = l /\ e[2] \in Kinds(d.engine)
          /\ g.kind = Append(d.kind, e[2])
      BY <1>1, <1>2
    <3> QED BY <3>1, OneLonger
  <2>3. Len(g.cost) = l + 1 /\ g.cost[l + 1] = 0 /\ \A n \in 1..l : g.cost[n] = d.cost[n]
    <3>1. d.cost \in Seq(Int) /\ Len(d.cost) = l /\ 0 \in Int /\ g.cost = Append(d.cost, 0)
      BY <1>1, <1>2
    <3> QED BY <3>1, OneLonger
  <2>4. Len(g.time) = l + 1
    <3>1. d.time \in Seq(Int) /\ Len(d.time) = l /\ -1 \in Int /\ g.time = Append(d.time, -1)
      BY <1>1, <1>2
    <3> QED BY <3>1, OneLonger
  <2> QED BY <2>1, <2>2, <2>3, <2>4
<1>4. \A n \in 1..(l + 1) : g.up[n] < n
  <2> TAKE n \in 1..(l + 1)
  <2>1. CASE n = l + 1
    BY <1>2, <1>3, <2>1
  <2>2. CASE n # l + 1
    <3>1. n \in 1..l
      BY <1>2, <2>2
    <3> QED BY <1>3, <3>1 DEF Document, l
  <2> QED BY <2>1, <2>2
<1>5. \A n \in 1..(l + 1) : g.cost[n] >= 0
  <2> TAKE n \in 1..(l + 1)
  <2>1. CASE n = l + 1
    BY <1>3, <2>1
  <2>2. CASE n # l + 1
    <3>1. n \in 1..l
      BY <1>2, <2>2
    <3> QED BY <1>3, <3>1 DEF Document, l
  <2> QED BY <2>1, <2>2
<1>6. ASSUME d.engine = "mysql", NEW n \in 1..(l + 1)
      PROVE  Housed(g, n)
  <2>1. Holds(d, e[1], e[2]) /\ (e[1] = 0 <=> l = 0)
    <3>1. e[1] = 0 <=> d.up = <<>>
      BY <1>6 DEF Grows
    <3>2. d.up = <<>> <=> l = 0
      BY <1>2 DEF l
    <3> QED BY <1>6, <3>1, <3>2 DEF Grows
  <2>2. /\ DOMAIN d.up = 1..l /\ DOMAIN g.up = 1..(l + 1)
        /\ \A m \in 1..l : d.up[m] \in Nat /\ d.up[m] < m
    <3>1. DOMAIN d.up = 1..l /\ \A m \in 1..l : d.up[m] \in Nat
      BY <1>2, LenProperties DEF l
    <3>2. g.up \in Seq(Nat)
      BY <1>1, <1>2
    <3>3. DOMAIN g.up = 1..(l + 1)
      BY <1>3, <3>2
    <3> QED BY <3>1, <3>3 DEF l, Document
  <2>3. \A p : Within(g, p) = Within(d, p) \cup (IF p = e[1] THEN {l + 1} ELSE {})
    <3> TAKE p
    <3>1. \A m : m \in 1..(l + 1) <=> m \in 1..l \/ m = l + 1
      <4>1. l \in Nat
        BY <1>2
      <4> QED BY <4>1
    <3>2. /\ Within(g, p) = {m \in 1..(l + 1) : g.up[m] = p}
          /\ Within(d, p) = {m \in 1..l : d.up[m] = p}
      BY <2>2 DEF Within
    <3>3. g.up[l + 1] = e[1] /\ \A m \in 1..l : g.up[m] = d.up[m]
      BY <1>3
    <3> QED BY <3>1, <3>2, <3>3
  <2>4. CASE n = l + 1
    <3> DEFINE outer == IF e[1] = 0 THEN "document" ELSE d.kind[e[1]]
    <3>1. outer = IF g.up[n] = 0 THEN "document" ELSE g.kind[g.up[n]]
      <4>1. e[1] # 0 => e[1] \in 1..l
        BY <1>2
      <4>2. e[1] # 0 => g.kind[e[1]] = d.kind[e[1]]
        BY <1>3, <4>1
      <4> QED BY <1>3, <2>4, <4>2
    <3>2. g.up[n] = 0 => n = 1
      BY <1>3, <2>1, <2>4
    <3>3. outer \in {"document", "union_result", "table", "subqueries"} => e[2] = "query_block"
      BY <2>1 DEF Holds, Blocks
    <3>4. outer \in Blocks \cup {"other"} =>
            /\ e[2] \in Wrappers \cup {"other", "subqueries"}
            /\ e[2] # "subqueries" => \A m \in Within(d, e[1]) : d.kind[m] = "subqueries"
      BY <2>1 DEF Holds, Blocks
    <3>5. /\ outer = "nested_loop" => e[2] \in {"table", "block-nl-join"}
          /\ outer = "block-nl-join" => e[2] = "table"
      BY <2>1 DEF Holds, Blocks
    <3>6. \A m \in Within(d, e[1]) : g.kind[m] = d.kind[m]
      BY <1>3, <2>2 DEF Within
    <3> HIDE DEF outer
    <3>7. outer \in Blocks \cup {"other"} /\ e[2] # "subqueries" =>
            \A m \in Within(g, e[1]) : g.kind[m] # "subqueries" => m = l + 1
      BY <2>3, <3>4, <3>6
    <3> QED BY <1>3, <2>4, <3>1, <3>2, <3>3, <3>4, <3>5, <3>7 DEF Housed
  <2>5. CASE n # l + 1
    <3>1. n \in 1..l
      BY <1>2, <2>5
    <3>2. Housed(d, n)
      BY <1>6, <3>1 DEF Document, l
    <3>3. g.up[n] = d.up[n] /\ g.kind[n] = d.kind[n] /\ d.up[n] \in Nat /\ d.up[n] < n
      BY <1>3, <2>2, <3>1
    <3>4. d.up[n] # 0 => g.kind[d.up[n]] = d.kind[d.up[n]]
      <4>1. ASSUME d.up[n] # 0 PROVE d.up[n] \in 1..l
        <5>1. d.up[n] \in Nat /\ d.up[n] < n /\ n \in 1..l /\ l \in Nat
          BY <1>2, <3>1, <3>3
        <5> QED BY <4>1, <5>1
      <4> QED BY <1>3, <4>1
    <3> DEFINE outer == IF d.up[n] = 0 THEN "document" ELSE d.kind[d.up[n]]
    <3>5. outer = IF g.up[n] = 0 THEN "document" ELSE g.kind[g.up[n]]
      BY <3>3, <3>4
    <3>6. ASSUME outer \in Blocks \cup {"other"}, d.kind[n] # "subqueries", d.up[n] = e[1]
          PROVE  g.kind[l + 1] = "subqueries"
      <4>1. e[1] # 0 /\ d.kind[e[1]] \in Blocks \cup {"other"}
        BY <3>6 DEF Blocks
      <4>2. e[2] = "subqueries" \/ \A m \in Within(d, e[1]) : d.kind[m] = "subqueries"
        BY <2>1, <4>1 DEF Holds, Blocks
      <4>3. n \in Within(d, e[1])
        BY <2>2, <3>1, <3>6 DEF Within
      <4> QED BY <1>3, <3>6, <4>2, <4>3
    <3>7. ASSUME outer \in Blocks \cup {"other"}, d.kind[n] # "subqueries",
                 NEW m \in Within(g, d.up[n]), g.kind[m] # "subqueries"
          PROVE  m = n
      <4>1. m \in Within(d, d.up[n])
        BY <2>3, <3>6, <3>7
      <4>2. g.kind[m] = d.kind[m]
        BY <1>3, <2>2, <4>1 DEF Within
      <4> QED BY <3>2, <3>7, <4>1, <4>2 DEF Housed
    <3> QED BY <3>2, <3>3, <3>5, <3>7 DEF Housed
  <2> QED BY <2>4, <2>5
<1>7. Document(g)
  BY <1>1, <1>3, <1>4, <1>5, <1>6 DEF Document
<1> QED BY <1>7 DEF g

\* Every tree that is explored is a document.
LEMMA TreesAreDocuments ==
  ASSUME NEW engine \in PlanEngines
  PROVE  \A d \in Trees(engine) : Document(d) /\ d.engine = engine
<1> DEFINE D == 0..PlanNodes
           X == PlanDocs(engine)
           V == SUBSET X
           None == [engine |-> engine, up |-> <<>>, kind |-> <<>>, cost |-> <<>>, time |-> <<>>]
           Next1(S) == S \cup UNION {Longer(d) : d \in S}
           G == [f \in [D -> V] |-> [i \in D |-> IF i = 0 THEN {None} ELSE Next1(f[i - 1])]]
           mu == [i \in D |-> i]
<1>1. PlanNodes \in Nat /\ \A i \in D : i # 0 => i - 1 \in D
  BY PlanAssumption
<1>2. None \in X
  BY DEF PlanDocs
<1>3. ASSUME NEW S, NEW g \in Next1(S), g \notin S
       PROVE  \E d \in S : \E e \in (0..Len(d.up)) \X Kinds(d.engine) :
                Grows(d, e[1], e[2]) /\ g = Grown(d, e[1], e[2])
  <2> DEFINE Y == {Longer(d) : d \in S}
  <2>1. PICK d \in S : g \in Longer(d)
    <3>1. g \in UNION Y
      BY <1>3
    <3>2. PICK z \in Y : g \in z
      <4> HIDE DEF Y
      <4> QED BY <3>1
    <3> QED BY <3>2
  <2>2. PICK e \in {f \in (0..Len(d.up)) \X Kinds(d.engine) : Grows(d, f[1], f[2])} : g = Grown(d, e[1], e[2])
    BY <2>1 DEF Longer
  <2> QED BY <2>2
<1>4. ASSUME NEW S \in V PROVE Next1(S) \in V
  <2>1. SUFFICES ASSUME NEW g \in Next1(S) PROVE g \in X
    OBVIOUS
  <2>2. CASE g \in S
    BY <2>2
  <2>3. CASE g \notin S
    <3>1. PICK d \in S : \E e \in (0..Len(d.up)) \X Kinds(d.engine) : g = Grown(d, e[1], e[2])
      <4> HIDE DEF Next1
      <4> QED BY <2>3, <1>3
    <3>2. d \in PlanDocs(engine) /\ d.engine = engine
      BY DEF PlanDocs
    <3> QED BY <3>1, <3>2, GrownTyped
  <2> QED BY <2>2, <2>3
<1>5. G \in [[D -> V] -> [D -> V]]
  <2> HIDE DEF D, V, Next1, None
  <2>1. {None} \in V
    BY <1>2 DEF V
  <2> QED BY <1>1, <1>4, <2>1
<1>6. mu \in [D -> 0..PlanNodes]
  OBVIOUS
<1>7. \A f, g \in [D -> V] : \A i \in D :
        (\A m \in D : mu[m] < mu[i] => f[m] = g[m]) => G[f][i] = G[g][i]
  <2> HIDE DEF V, Next1, None
  <2> QED BY <1>1
<1>8. \E f : f = [i \in D |-> IF i = 0 THEN {None} ELSE Next1(f[i - 1])]
  <2>1. Recursive(D, V, G, mu)
    <3>1. V # {}
      OBVIOUS
    <3> HIDE DEF D, V, G, mu
    <3> QED BY <1>5, <1>7, <3>1 DEF Recursive
  <2>2. \E f \in [D -> V] : f = G[f]
    <3> HIDE DEF D, V, G, mu
    <3> QED BY <1>1, <1>6, <2>1, FixedPoint
  <2> HIDE DEF V, Next1, None
  <2> QED BY <2>2
<1> DEFINE t == CHOOSE f : f = [i \in D |-> IF i = 0 THEN {None} ELSE Next1(f[i - 1])]
<1>9. t = [i \in D |-> IF i = 0 THEN {None} ELSE Next1(t[i - 1])]
  <2> HIDE DEF D, Next1, None
  <2> QED BY <1>8
<1>10. Trees(engine) = t[PlanNodes]
  BY DEF Trees
<1> HIDE DEF t
<1> DEFINE U == {i \in Nat : i \in D => \A d \in t[i] : Document(d) /\ d.engine = engine}
<1>11. 0 \in U
  <2>1. Document(None) /\ None.engine = engine
    <3>1. \A i : i \notin 1..0
      OBVIOUS
    <3> QED BY <1>2, <3>1 DEF Document
  <2>2. t[0] = {None}
    <3>1. 0 \in D
      BY <1>1
    <3> HIDE DEF D, Next1, None
    <3> QED BY <1>9, <3>1
  <2> HIDE DEF None
  <2> QED BY <2>1, <2>2
<1>12. ASSUME NEW i \in U PROVE i + 1 \in U
  <2> SUFFICES ASSUME i + 1 \in D, NEW g \in t[i + 1] PROVE Document(g) /\ g.engine = engine
    OBVIOUS
  <2>1. i \in D /\ i \in Nat /\ i + 1 # 0 /\ (i + 1) - 1 = i
    BY <1>1
  <2>2. g \in Next1(t[i])
    <3> HIDE DEF D, Next1, None
    <3> QED BY <1>9, <2>1
  <2>3. \A d \in t[i] : Document(d) /\ d.engine = engine
    BY <2>1
  <2>4. CASE g \in t[i]
    BY <2>3, <2>4
  <2>5. CASE g \notin t[i]
    <3>1. PICK d \in t[i] : \E e \in (0..Len(d.up)) \X Kinds(d.engine) :
                               Grows(d, e[1], e[2]) /\ g = Grown(d, e[1], e[2])
      <4> HIDE DEF Next1
      <4> QED BY <2>2, <2>5, <1>3
    <3>2. Document(d) /\ d.engine = engine
      BY <2>3
    <3>3. Document(g)
      BY <3>1, <3>2, GrownDocument
    <3> QED BY <3>1, <3>2, <3>3 DEF Grown
  <2> QED BY <2>4, <2>5
<1>13. U = Nat
  <2>1. U \in SUBSET Nat
    OBVIOUS
  <2> HIDE DEF U
  <2> QED BY <1>11, <1>12, <2>1, SetInduction
<1>14. PlanNodes \in U
  BY <1>1, <1>13
<1> QED BY <1>1, <1>10, <1>14

LEMMA ChainsAreDocuments ==
  ASSUME NEW d \in Chains
  PROVE  Document(d) /\ d.engine = "postgres"
<1> DEFINE F == {<<0, -1>>, <<1, -1>>, <<3, 1>>, <<6, -1>>, <<4, 5>>}
<1>1. PICK f \in [1..5 -> F] :
        d = [engine |-> "postgres", up |-> [i \in 1..5 |-> i - 1], kind |-> [i \in 1..5 |-> "operator"],
             cost |-> [i \in 1..5 |-> f[i][1]], time |-> [i \in 1..5 |-> f[i][2]]]
  BY DEF Chains
<1>2. /\ d.engine = "postgres" /\ d.up = [i \in 1..5 |-> i - 1] /\ d.kind = [i \in 1..5 |-> "operator"]
      /\ d.cost = [i \in 1..5 |-> f[i][1]] /\ d.time = [i \in 1..5 |-> f[i][2]]
  BY <1>1
<1>3. \A i \in 1..5 : f[i] \in F
  OBVIOUS
<1>4. \A x \in F : x[1] \in Int /\ x[1] >= 0 /\ x[2] \in Int
  OBVIOUS
<1> HIDE DEF F
<1>5. d.up \in [1..5 -> Nat] /\ \A i \in 1..5 : d.up[i] < i
  BY <1>2
<1>6. d.cost \in [1..5 -> Int] /\ d.time \in [1..5 -> Int] /\ \A i \in 1..5 : d.cost[i] >= 0
  BY <1>2, <1>3, <1>4
<1>7. d.kind \in [1..5 -> Kinds("postgres")]
  BY <1>2 DEF Kinds, Uniform
<1>8. /\ d.up \in Seq(Nat) /\ Len(d.up) = 5 /\ d.kind \in Seq(Kinds("postgres")) /\ Len(d.kind) = 5
      /\ d.cost \in Seq(Int) /\ Len(d.cost) = 5 /\ d.time \in Seq(Int) /\ Len(d.time) = 5
  <2>1. 5 \in Nat
    OBVIOUS
  <2> QED BY <1>5, <1>6, <1>7, <2>1, OnInterval
<1>9. d \in PlanDocs("postgres")
  BY <1>1, <1>2, <1>8 DEF PlanDocs
<1> QED BY <1>2, <1>5, <1>6, <1>8, <1>9 DEF Document, PlanEngines, Uniform

-----------------------------------------------------------------------------
(* The parsers.                                                            *)

LEMMA ElementsOf ==
  ASSUME NEW S, NEW s \in Seq(S), NEW l, Len(s) = l
  PROVE  \A n \in 1..l : s[n] \in S
  OBVIOUS

LEMMA DocumentFacts ==
  ASSUME NEW d, Document(d)
  PROVE  /\ Len(d.up) \in Nat /\ DOMAIN d.up = 1..Len(d.up) /\ Nested(d.up)
         /\ \A n \in 1..Len(d.up) : /\ d.up[n] \in 0..Len(d.up) /\ d.up[n] < n
                                    /\ d.kind[n] \in Kinds(d.engine)
                                    /\ d.cost[n] \in Nat /\ d.time[n] \in Int
<1>1. /\ d.up \in Seq(Nat) /\ d.kind \in Seq(Kinds(d.engine)) /\ d.cost \in Seq(Int) /\ d.time \in Seq(Int)
      /\ Len(d.kind) = Len(d.up) /\ Len(d.cost) = Len(d.up) /\ Len(d.time) = Len(d.up)
      /\ \A n \in 1..Len(d.up) : d.up[n] < n /\ d.cost[n] >= 0
  BY DEF Document, PlanDocs
<1>2. Len(d.up) \in Nat /\ DOMAIN d.up = 1..Len(d.up)
  BY <1>1
<1>3. \A n \in 1..Len(d.up) : d.up[n] \in Nat
  BY <1>1, ElementsOf
<1>4. \A n \in 1..Len(d.up) : d.cost[n] \in Int
  BY <1>1, ElementsOf
<1>5. \A n \in 1..Len(d.up) : d.kind[n] \in Kinds(d.engine)
  <2>1. d.kind \in Seq(Kinds(d.engine)) /\ Len(d.kind) = Len(d.up)
    BY <1>1
  <2> QED BY <2>1, ElementsOf
<1>6. \A n \in 1..Len(d.up) : d.time[n] \in Int
  BY <1>1, ElementsOf
<1>7. \A n \in 1..Len(d.up) : d.up[n] \in 0..Len(d.up) /\ d.cost[n] \in Nat
  <2> TAKE n \in 1..Len(d.up)
  <2>1. d.up[n] \in Nat /\ d.up[n] < n /\ n \in Nat /\ n <= Len(d.up)
    BY <1>1, <1>2, <1>3
  <2>2. d.cost[n] \in Int /\ d.cost[n] >= 0
    BY <1>1, <1>4
  <2> QED BY <1>2, <2>1, <2>2
<1>8. Nested(d.up)
  BY <1>1 DEF Nested
<1> QED BY <1>1, <1>2, <1>5, <1>6, <1>7, <1>8

\* The node that holds another is the innermost around it.
LEMMA ParentIsInnermost ==
  ASSUME NEW d, Document(d), NEW n \in 1..Len(d.up)
  PROVE  /\ d.up[n] \in Around(d)[n] /\ \A m \in Around(d)[n] : m <= d.up[n]
         /\ d.up[n] \in Ops(d) \cup {0} => Inner(d, n) = d.up[n]
<1>1. /\ Nested(d.up) /\ Len(d.up) \in Nat /\ d.up[n] \in 0..Len(d.up)
  BY DocumentFacts
<1>2. Around(d)[0] = {} /\ Around(d)[n] = {d.up[n]} \cup Around(d)[d.up[n]]
  BY <1>1, AroundEquation
<1>3. \A m \in Around(d)[n] : m <= d.up[n]
  <2>1. d.up[n] # 0 => \A m \in Around(d)[d.up[n]] : m \in Nat /\ m < d.up[n]
    BY <1>1, AroundChain
  <2> QED BY <1>1, <1>2, <2>1
<1>4. ASSUME d.up[n] \in Ops(d) \cup {0} PROVE Inner(d, n) = d.up[n]
  <2>1. /\ Inner(d, n) \in Nat /\ Inner(d, n) \in Around(d)[n]
        /\ \A m \in Around(d)[n] \cap Ops(d) : m <= Inner(d, n)
    BY <1>1, InnerMost
  <2>2. Inner(d, n) <= d.up[n] /\ d.up[n] <= Inner(d, n)
    BY <1>1, <1>2, <1>3, <1>4, <2>1
  <2> QED BY <1>1, <2>1, <2>2
<1> QED BY <1>2, <1>3, <1>4

LEMMA UniformSound ==
  ASSUME NEW d, Document(d), d.engine \in Uniform
  PROVE  Sound(d) /\ Known(d) = 1..Len(d.up) /\ Ops(d) = 1..Len(d.up)
<1> DEFINE l == Len(d.up)
<1>1. /\ l \in Nat /\ DOMAIN d.up = 1..l /\ Nested(d.up)
      /\ \A n \in 1..l : d.up[n] \in 0..l /\ d.up[n] < n /\ d.kind[n] \in Kinds(d.engine)
  BY DocumentFacts
<1>2. Ops(d) = 1..l
  BY <1>1 DEF Ops, Operator
<1>3. \A n \in 1..l : d.kind[n] = "operator"
  BY <1>1 DEF Kinds, Uniform
<1>4. Known(d) = 1..l
  <2>1. \A n \in 1..l : \A m \in Around(d)[n] \ {0} : m \in 1..l
    BY <1>1, AroundChain
  <2> QED BY <1>2, <1>3, <2>1 DEF Known, Closed
<1>5. \A n \in 1..l : Inner(d, n) = d.up[n]
  <2> TAKE n \in 1..l
  <2>1. d.up[n] \in Ops(d) \cup {0}
    BY <1>1, <1>2
  <2> QED BY <2>1, ParentIsInnermost
<1>6. \A n : Converted(d, n) = {c \in 1..l : d.up[c] = n}
  BY <1>1 DEF Uniform, Converted, ConvertPostgresNode, ConvertMysqlV2Node, Within
<1>7. \A n \in 1..l : \A c \in Converted(d, n) : c \in Int /\ c > 0 /\ c \in 1..l /\ n < c
  BY <1>1, <1>6
<1>8. \A n \in 1..l : {c \in Converted(d, n) : c > 0} = Kids(d, n)
  <2> TAKE n \in 1..l
  <2>1. Kids(d, n) = {c \in 1..l : d.up[c] = n}
    BY <1>4, <1>5 DEF Kids
  <2> QED BY <1>6, <1>7, <2>1
<1> QED BY <1>1, <1>2, <1>4, <1>7, <1>8 DEF Sound

\* What the walk of findChildRelOps finds.
Nearest(d, n) ==
  {c \in Ops(d) : n \in Around(d)[c] /\ \A m \in Around(d)[c] \cap Ops(d) : m <= n}

LEMMA WalkFindsNearest ==
  ASSUME NEW d, Document(d), d.engine = "sqlserver", NEW el \in 0..Len(d.up)
  PROVE  FindChildRelOps(d, el) = Nearest(d, el)
<1> DEFINE l == Len(d.up)
           D == 0..l
           A == Around(d)
           V == SUBSET (1..l)
           inside == [n \in D |-> Within(d, n)]
           E(f, n) == UNION {IF d.kind[c] = "RelOp" THEN {c} ELSE f[c] : c \in inside[n]}
           G == [f \in [D -> V] |-> [n \in D |-> E(f, n)]]
           mu == [n \in D |-> l - n]
           w == CHOOSE f : f = [n \in D |-> E(f, n)]
<1>1. /\ l \in Nat /\ DOMAIN d.up = 1..l /\ Nested(d.up)
      /\ \A n \in 1..l : d.up[n] \in 0..l /\ d.up[n] < n
  BY DocumentFacts
<1>2. \A n \in D : inside[n] = {c \in 1..l : d.up[c] = n}
  BY <1>1 DEF Within
<1>3. FindChildRelOps(d, el) = w[el]
  BY DEF FindChildRelOps
<1> HIDE DEF l, inside, w
<1>4. \A n \in D : \A c \in inside[n] : c \in 1..l /\ c \in D /\ n < c /\ d.up[c] = n
  BY <1>1, <1>2
<1>5. G \in [[D -> V] -> [D -> V]]
  <2>1. ASSUME NEW f \in [D -> V], NEW n \in D PROVE E(f, n) \in V
    <3>1. \A c \in inside[n] : f[c] \in V /\ {c} \in V
      BY <1>4
    <3> QED BY <3>1
  <2> HIDE DEF V, D, E
  <2> QED BY <2>1
<1>6. mu \in [D -> 0..l]
  BY <1>1
<1>7. \A f, g \in [D -> V] : \A n \in D :
        (\A k \in D : mu[k] < mu[n] => f[k] = g[k]) => G[f][n] = G[g][n]
  <2> SUFFICES ASSUME NEW f \in [D -> V], NEW g \in [D -> V], NEW n \in D,
                      \A k \in D : mu[k] < mu[n] => f[k] = g[k]
               PROVE  E(f, n) = E(g, n)
    <3>1. \A f \in [D -> V] : \A n \in D : G[f][n] = E(f, n)
      <4> HIDE DEF D, V, E
      <4> QED OBVIOUS
    <3> HIDE DEF D, V, E, G, mu
    <3> QED BY <3>1
  <2>1. ASSUME NEW c \in inside[n] PROVE f[c] = g[c]
    <3>1. c \in D /\ n < c
      BY <1>4
    <3>2. mu[c] < mu[n]
      BY <1>1, <3>1
    <3> QED BY <3>1, <3>2
  <2> QED BY <2>1
<1>8. \E f : f = [n \in D |-> E(f, n)]
  <2>1. Recursive(D, V, G, mu)
    <3>1. V # {}
      OBVIOUS
    <3> HIDE DEF D, V, G, mu
    <3> QED BY <1>5, <1>7, <3>1 DEF Recursive
  <2>2. \E f \in [D -> V] : f = G[f]
    <3> HIDE DEF D, V, G, mu
    <3> QED BY <1>1, <1>6, <2>1, FixedPoint
  <2> HIDE DEF E
  <2> QED BY <2>2
<1>9. w = [n \in D |-> E(w, n)]
  <2> HIDE DEF D, E
  <2> QED BY <1>8 DEF w
<1>10. \A n \in D : w[n] = E(w, n)
  <2> HIDE DEF D, E
  <2> QED BY <1>9
<1>11. \A m \in Ops(d) : m \in 1..l
  BY <1>1 DEF Ops
<1>12. \A n \in 1..l : n \in Ops(d) <=> d.kind[n] = "RelOp"
  <2> TAKE n \in 1..l
  <2>1. d.kind[n] \in {"RelOp", "element"}
    BY DocumentFacts DEF Kinds, Uniform, l
  <2> QED BY <1>1, <2>1 DEF Ops, Operator, Uniform, Wrappers
<1>13. \A n \in 1..l : /\ \A m \in A[n] : m \in Nat /\ m < n
                       /\ \A m \in A[n] : A[m] \subseteq A[n]
                       /\ \A m, k \in A[n] : k < m => k \in A[m]
                       /\ \A m \in A[n] : \E c \in A[n] \cup {n} : c \in 1..l /\ d.up[c] = m
                       /\ d.up[n] \in A[n] /\ \A m \in A[n] : m <= d.up[n]
  BY <1>1, AroundChain, ParentIsInnermost DEF l
<1> HIDE DEF A
<1> DEFINE T == {k \in Nat : \A n \in D : l - n = k => w[n] = Nearest(d, n)}
<1>14. ASSUME NEW k \in Nat, \A j \in Nat : j < k => j \in T
       PROVE  k \in T
  <2> SUFFICES ASSUME NEW n \in D, l - n = k PROVE w[n] = Nearest(d, n)
    OBVIOUS
  <2>1. \A c \in inside[n] : w[c] = Nearest(d, c)
    <3> TAKE c \in inside[n]
    <3>1. c \in D /\ n < c
      BY <1>4
    <3>2. l - c \in Nat /\ l - c < k
      BY <1>1, <3>1
    <3>3. l - c \in T
      BY <1>14, <3>2
    <3> QED BY <3>1, <3>3
  <2>2. ASSUME NEW c \in w[n] PROVE c \in Nearest(d, n)
    <3>1. PICK b \in inside[n] : c \in IF d.kind[b] = "RelOp" THEN {b} ELSE w[b]
      BY <1>10
    <3>2. b \in 1..l /\ d.up[b] = n
      BY <1>4
    <3>3. CASE d.kind[b] = "RelOp"
      <4>1. c = b /\ c \in Ops(d)
        BY <1>12, <3>1, <3>2, <3>3
      <4>2. n \in A[c] /\ \A m \in A[c] : m <= n
        BY <1>13, <3>2, <4>1
      <4> QED BY <4>1, <4>2 DEF Nearest, A
    <3>4. CASE d.kind[b] # "RelOp"
      <4>1. c \in Ops(d) /\ b \in A[c] /\ \A m \in A[c] \cap Ops(d) : m <= b
        BY <2>1, <3>1, <3>4 DEF Nearest, A
      <4>2. b \notin Ops(d) /\ c \in 1..l
        BY <1>11, <1>12, <3>2, <3>4, <4>1
      <4>3. n \in A[c]
        BY <1>13, <3>2, <4>1, <4>2
      <4>4. ASSUME NEW m \in A[c] \cap Ops(d) PROVE m <= n
        <5>1. m <= b /\ m # b /\ m \in Nat /\ b \in Nat
          BY <1>13, <4>1, <4>2
        <5>2. m \in A[b]
          BY <1>13, <4>1, <4>2, <5>1
        <5> QED BY <1>13, <3>2, <5>2
      <4> QED BY <4>1, <4>3, <4>4 DEF Nearest, A
    <3> QED BY <3>3, <3>4
  <2>3. ASSUME NEW c \in Nearest(d, n) PROVE c \in w[n]
    <3>1. c \in Ops(d) /\ n \in A[c] /\ \A m \in A[c] \cap Ops(d) : m <= n
      BY DEF Nearest, A
    <3>2. c \in 1..l /\ d.kind[c] = "RelOp"
      BY <1>11, <1>12, <3>1
    <3>3. PICK b \in A[c] \cup {c} : b \in 1..l /\ d.up[b] = n
      BY <1>13, <3>1, <3>2
    <3>4. b \in inside[n] /\ n < b
      BY <1>1, <1>2, <3>3
    <3>5. SUFFICES c \in IF d.kind[b] = "RelOp" THEN {b} ELSE w[b]
      BY <1>10, <3>4
    <3>6. CASE b = c
      BY <3>2, <3>6
    <3>7. CASE b # c
      <4>1. b \in A[c] /\ b \notin Ops(d)
        BY <1>1, <3>1, <3>3, <3>4, <3>7
      <4>2. \A m \in A[c] \cap Ops(d) : m <= b
        <5> TAKE m \in A[c] \cap Ops(d)
        <5>1. m <= n /\ m \in Nat
          BY <1>13, <3>1, <3>2
        <5> QED BY <1>1, <3>3, <3>4, <5>1
      <4>3. c \in Nearest(d, b)
        BY <3>1, <4>1, <4>2 DEF Nearest, A
      <4> QED BY <1>12, <2>1, <3>3, <3>4, <4>1, <4>3
    <3> QED BY <3>6, <3>7
  <2> QED BY <2>2, <2>3
<1>15. \A k \in Nat : k \in T
  <2> HIDE DEF T
  <2> QED BY <1>14, StrongInduction
<1>16. el \in D /\ l - el \in Nat
  BY <1>1 DEF l
<1>17. l - el \in T
  BY <1>15, <1>16
<1> QED BY <1>3, <1>16, <1>17

LEMMA SqlServerSound ==
  ASSUME NEW d, Document(d), d.engine = "sqlserver"
  PROVE  Sound(d) /\ Known(d) = Ops(d) /\ Ops(d) = {n \in DOMAIN d.up : d.kind[n] = "RelOp"}
<1> DEFINE l == Len(d.up)
<1>1. /\ l \in Nat /\ DOMAIN d.up = 1..l /\ Nested(d.up)
      /\ \A n \in 1..l : d.kind[n] \in {"RelOp", "element"}
  BY DocumentFacts DEF Kinds, Uniform
<1>2. Ops(d) = {n \in 1..l : d.kind[n] = "RelOp"}
  BY <1>1 DEF Ops, Operator, Uniform, Wrappers
<1>3. Known(d) = Ops(d)
  <2>1. \A n \in 1..l : \A m \in Around(d)[n] \ {0} : m \in 1..l
    BY <1>1, AroundChain
  <2>2. \A n \in 1..l : \A m \in Around(d)[n] \ {0} : d.kind[m] \notin Closed
    BY <1>1, <2>1 DEF Closed
  <2> QED BY <1>2, <2>2 DEF Known
<1>4. \A n \in 1..l : Converted(d, n) = Nearest(d, n)
  <2> TAKE n \in 1..l
  <2>1. n \in 0..l
    OBVIOUS
  <2>2. FindChildRelOps(d, n) = Nearest(d, n)
    BY <2>1, WalkFindsNearest
  <2> QED BY <2>2 DEF Converted, ConvertSqlServerNode
<1>5. \A n \in 1..l : \A c \in Nearest(d, n) : c \in 1..l /\ n < c
  BY <1>1, <1>2, AroundChain DEF Nearest
<1>6. ASSUME NEW n \in Ops(d), NEW c \in Ops(d)
      PROVE  c \in Nearest(d, n) <=> Inner(d, c) = n
  <2>1. c \in 1..l /\ n \in 1..l
    BY <1>2
  <2>2. /\ Inner(d, c) \in (Around(d)[c] \cap Ops(d)) \cup {0} /\ Inner(d, c) \in Nat
        /\ \A m \in Around(d)[c] \cap Ops(d) : m <= Inner(d, c)
    BY <1>1, <2>1, InnerMost
  <2>3. ASSUME c \in Nearest(d, n) PROVE Inner(d, c) = n
    <3>1. n \in Around(d)[c] \cap Ops(d) /\ \A m \in Around(d)[c] \cap Ops(d) : m <= n
      BY <2>3 DEF Nearest
    <3>2. n <= Inner(d, c) /\ Inner(d, c) # 0
      BY <2>1, <2>2, <3>1
    <3>3. Inner(d, c) <= n
      BY <2>2, <3>1, <3>2
    <3> QED BY <2>1, <2>2, <3>2, <3>3
  <2>4. ASSUME Inner(d, c) = n PROVE c \in Nearest(d, n)
    <3>1. n \in Around(d)[c] /\ \A m \in Around(d)[c] \cap Ops(d) : m <= n
      BY <2>1, <2>2, <2>4
    <3> QED BY <3>1 DEF Nearest
  <2> QED BY <2>3, <2>4
<1>7. \A n \in Known(d) : {c \in Converted(d, n) : c > 0} = Kids(d, n)
  <2> TAKE n \in Known(d)
  <2>1. n \in Ops(d) /\ n \in 1..l
    BY <1>2, <1>3
  <2>2. Nearest(d, n) = Kids(d, n)
    <3>1. \A c \in Nearest(d, n) : c \in Ops(d)
      BY DEF Nearest
    <3> QED BY <1>3, <1>6, <2>1, <3>1 DEF Kids
  <2>3. \A c \in Nearest(d, n) : c > 0
    BY <1>5, <2>1
  <2> QED BY <1>4, <2>1, <2>2, <2>3
<1>8. Sound(d)
  BY <1>1, <1>4, <1>5, <1>7 DEF Sound
<1> QED BY <1>1, <1>2, <1>3, <1>8

\* The objects of a MySQL document: only the document, a union, a table and
\* subqueries hold blocks; a block holds one object beside its subqueries.
MysqlOps == Wrappers \cup {"block-nl-join"}
MysqlKinds == MysqlOps \cup {"query_block", "subqueries", "other"}
HoldBlocks == {"union_result", "table", "subqueries"}

LEMMA MysqlShape ==
  ASSUME NEW d, Document(d), d.engine = "mysql"
  PROVE  /\ Ops(d) = {n \in 1..Len(d.up) : d.kind[n] \in MysqlOps}
         /\ \A n \in 1..Len(d.up) : d.kind[n] \in MysqlKinds
         /\ \A n \in 1..Len(d.up) : d.up[n] = 0 => n = 1 /\ d.kind[n] = "query_block"
         /\ \A n \in 1..Len(d.up) : d.up[n] # 0 =>
              /\ d.up[n] \in 1..Len(d.up)
              /\ d.kind[n] = "query_block" <=> d.kind[d.up[n]] \in HoldBlocks
              /\ d.kind[n] = "block-nl-join" => d.kind[d.up[n]] = "nested_loop"
              /\ d.kind[d.up[n]] \in Blocks \cup {"other"} /\ d.kind[n] # "subqueries" =>
                   \A m \in Within(d, d.up[n]) : d.kind[m] # "subqueries" => m = n
<1> DEFINE l == Len(d.up)
<1>1. /\ l \in Nat /\ DOMAIN d.up = 1..l
      /\ \A n \in 1..l : d.up[n] \in 0..l /\ d.kind[n] \in MysqlKinds
  BY DocumentFacts DEF Kinds, Uniform, MysqlKinds, MysqlOps
<1>2. \A n \in 1..l : Housed(d, n)
  BY DEF Document
<1>3. Ops(d) = {n \in 1..l : d.kind[n] \in MysqlOps}
  <2>1. "RelOp" \notin MysqlKinds
    BY DEF MysqlKinds, MysqlOps, Wrappers
  <2>2. \A n \in 1..l : d.kind[n] # "RelOp"
    BY <1>1, <2>1
  <2> QED BY <1>1, <2>2 DEF Ops, Operator, Uniform, MysqlOps
<1>4. \A n \in 1..l : d.up[n] = 0 => n = 1 /\ d.kind[n] = "query_block"
  BY <1>2 DEF Housed
<1>5. ASSUME NEW n \in 1..l, d.up[n] # 0
      PROVE  /\ d.up[n] \in 1..l
             /\ d.kind[n] = "query_block" <=> d.kind[d.up[n]] \in HoldBlocks
             /\ d.kind[n] = "block-nl-join" => d.kind[d.up[n]] = "nested_loop"
             /\ d.kind[d.up[n]] \in Blocks \cup {"other"} /\ d.kind[n] # "subqueries" =>
                  \A m \in Within(d, d.up[n]) : d.kind[m] # "subqueries" => m = n
  <2> DEFINE outer == d.kind[d.up[n]]
  <2>1. d.up[n] \in 1..l
    BY <1>1, <1>5
  <2>2. outer \in MysqlKinds
    BY <1>1, <2>1
  <2>3. /\ outer \in HoldBlocks => d.kind[n] = "query_block"
        /\ outer \in Blocks \cup {"other"} =>
             /\ d.kind[n] \in Wrappers \cup {"other", "subqueries"}
             /\ d.kind[n] # "subqueries" => \A m \in Within(d, d.up[n]) : d.kind[m] # "subqueries" => m = n
        /\ outer = "nested_loop" => d.kind[n] \in {"table", "block-nl-join"}
        /\ outer = "block-nl-join" => d.kind[n] = "table"
    BY <1>2, <1>5 DEF Housed, HoldBlocks
  <2>4. outer \in MysqlKinds => outer \in HoldBlocks \cup Blocks \cup {"other", "nested_loop", "block-nl-join"}
    BY DEF MysqlKinds, MysqlOps, Wrappers, Blocks, HoldBlocks
  <2>5. /\ "query_block" \notin Wrappers \cup {"other", "subqueries"}
        /\ "block-nl-join" \notin Wrappers \cup {"other", "subqueries"}
    BY DEF Wrappers
  <2> HIDE DEF outer
  <2>6. d.kind[n] = "query_block" <=> outer \in HoldBlocks
    BY <2>2, <2>3, <2>4, <2>5
  <2>7. d.kind[n] = "block-nl-join" => outer = "nested_loop"
    BY <2>2, <2>3, <2>4, <2>5
  <2> QED BY <2>1, <2>3, <2>6, <2>7 DEF outer
<1> QED BY <1>1, <1>3, <1>4, <1>5

\* What convertMysqlBlock makes of a block.
LEMMA BlockConverted ==
  ASSUME NEW d, Document(d), d.engine = "mysql", NEW b \in 1..Len(d.up), d.kind[b] \in Blocks
  PROVE  /\ ConvertMysqlBlock(d, b) \in Int
         /\ \A c : c = ConvertMysqlBlock(d, b) /\ c > 0 <=>
              c \in 1..Len(d.up) /\ d.up[c] = b /\ d.kind[c] \in Wrappers
<1> DEFINE known == {n \in Within(d, b) : d.kind[n] \in Wrappers}
           x == ConvertMysqlBlock(d, b)
<1>1. Len(d.up) \in Nat /\ DOMAIN d.up = 1..Len(d.up)
  BY DocumentFacts
<1>2. known = {c \in 1..Len(d.up) : d.up[c] = b /\ d.kind[c] \in Wrappers}
  BY <1>1 DEF Within
<1>3. x = IF known = {} THEN -b ELSE Min(known)
  BY DEF ConvertMysqlBlock
<1>4. \A m, n \in known : m = n
  <2> TAKE m, n \in known
  <2>1. m \in 1..Len(d.up) /\ d.up[m] = b /\ n \in Within(d, b)
    BY <1>1, <1>2 DEF Within
  <2>2. d.up[m] # 0
    BY <2>1
  <2>3. d.kind[m] # "subqueries" /\ d.kind[n] # "subqueries"
    BY DEF Wrappers
  <2>4. \A k \in Within(d, d.up[m]) : d.kind[k] # "subqueries" => k = m
    BY <2>1, <2>2, <2>3, MysqlShape
  <2> QED BY <2>1, <2>3, <2>4
<1> HIDE DEF known, x
<1>5. CASE known = {}
  <2>1. x = -b
    BY <1>3, <1>5
  <2> QED BY <1>2, <1>5, <2>1 DEF x
<1>6. CASE known # {}
  <2>1. known \in SUBSET Nat
    BY <1>1, <1>2
  <2>2. x \in known
    BY <1>3, <1>6, <2>1, LeastNumber
  <2>3. known = {x} /\ x \in 1..Len(d.up)
    BY <1>2, <1>4, <2>2
  <2>4. \A c : c \in known <=> c = x /\ c > 0
    BY <1>1, <2>3
  <2> QED BY <1>2, <2>3, <2>4 DEF x
<1> QED BY <1>5, <1>6

\* An operator of MySQL is a member of the innermost one around it, or it is in a
\* block that is such a member; the block may also be that of the document.
LEMMA MysqlKids ==
  ASSUME NEW d, Document(d), d.engine = "mysql", NEW c \in Known(d)
  PROVE  /\ c \in 1..Len(d.up) /\ d.up[c] \in 1..Len(d.up)
         /\ d.kind[d.up[c]] \notin Closed
         /\ d.kind[d.up[c]] \in Wrappers => Inner(d, c) = d.up[c]
         /\ d.kind[d.up[c]] \notin Wrappers =>
              /\ d.kind[d.up[c]] = "query_block" /\ Inner(d, c) = d.up[d.up[c]]
              /\ Inner(d, c) = 0 => d.up[c] = 1
              /\ Inner(d, c) # 0 => d.kind[Inner(d, c)] \in {"union_result", "table"}
<1> DEFINE l == Len(d.up)
           A == Around(d)
           u == d.up[c]
<1>1. /\ l \in Nat /\ Nested(d.up)
      /\ \A n \in 1..l : d.up[n] \in 0..l /\ d.up[n] < n
  BY DocumentFacts
<1>2. /\ Ops(d) = {n \in 1..l : d.kind[n] \in MysqlOps}
      /\ \A n \in 1..l : d.kind[n] \in MysqlKinds
      /\ \A n \in 1..l : d.up[n] = 0 => n = 1 /\ d.kind[n] = "query_block"
      /\ \A n \in 1..l : d.up[n] # 0 =>
           d.up[n] \in 1..l /\ (d.kind[n] = "query_block" <=> d.kind[d.up[n]] \in HoldBlocks)
  BY MysqlShape
<1>3. c \in 1..l /\ d.kind[c] \in MysqlOps /\ \A m \in A[c] \ {0} : d.kind[m] \notin Closed
  BY <1>2 DEF Known
<1>4. u \in 1..l
  BY <1>2, <1>3 DEF MysqlOps, Wrappers
<1>5. u \in A[c] /\ d.kind[u] \notin Closed
  BY <1>1, <1>3, <1>4, ParentIsInnermost
<1>6. d.kind[u] \in Wrappers => Inner(d, c) = u
  BY <1>2, <1>3, <1>4, ParentIsInnermost DEF MysqlOps
<1>7. ASSUME d.kind[u] \notin Wrappers
      PROVE  /\ d.kind[u] = "query_block" /\ Inner(d, c) = d.up[u]
             /\ Inner(d, c) = 0 => u = 1
             /\ Inner(d, c) # 0 => d.kind[Inner(d, c)] \in {"union_result", "table"}
  <2>1. d.kind[u] = "query_block"
    BY <1>2, <1>4, <1>5, <1>7 DEF MysqlKinds, MysqlOps, Closed
  <2>5. A[c] = {u} \cup A[u]
    BY <1>1, <1>3, AroundEquation
  <2>2. d.up[u] # 0 => d.up[u] \in 1..l /\ d.kind[d.up[u]] \in {"union_result", "table"}
    <3>1. ASSUME d.up[u] # 0 PROVE d.up[u] \in 1..l /\ d.kind[d.up[u]] \in HoldBlocks
      BY <1>2, <1>4, <2>1, <3>1
    <3>2. d.up[u] \in A[c]
      BY <1>4, <2>5, ParentIsInnermost
    <3>3. d.up[u] # 0 => d.kind[d.up[u]] # "subqueries"
      BY <1>3, <3>2 DEF Closed
    <3> QED BY <3>1, <3>3 DEF HoldBlocks
  <2>3. d.up[u] \in Ops(d) \cup {0} /\ (d.up[u] = 0 => u = 1)
    BY <1>2, <1>4, <2>2 DEF Wrappers, MysqlOps
  <2>4. d.up[u] \in A[u] /\ Inner(d, u) = d.up[u] /\ \A m \in A[u] : m <= d.up[u]
    BY <1>4, <2>3, ParentIsInnermost
  <2>6. u \notin Ops(d)
    BY <1>2, <2>1 DEF MysqlOps, Wrappers
  <2>7. /\ Inner(d, c) \in (A[c] \cap Ops(d)) \cup {0} /\ Inner(d, c) \in Nat
        /\ \A m \in A[c] \cap Ops(d) : m <= Inner(d, c)
    BY <1>1, <1>3, InnerMost
  <2>8. d.up[u] <= Inner(d, c)
    BY <1>1, <2>3, <2>4, <2>5, <2>7
  <2>9. Inner(d, c) <= d.up[u]
    <3>1. Inner(d, c) \in A[u] \cup {0}
      BY <2>5, <2>6, <2>7
    <3>2. 0 <= d.up[u]
      BY <1>1, <1>4
    <3> QED BY <2>4, <3>1, <3>2
  <2>10. d.up[u] \in Nat
    BY <1>1, <1>4
  <2>11. Inner(d, c) = d.up[u]
    BY <2>7, <2>8, <2>9, <2>10
  <2> QED BY <2>1, <2>2, <2>3, <2>11
<1> QED BY <1>3, <1>4, <1>5, <1>6, <1>7

\* Where the node that holds an operator is known, the operator is.
LEMMA KnownInKnown ==
  ASSUME NEW d, Document(d), d.engine = "mysql", NEW c \in 1..Len(d.up), d.kind[c] \in MysqlOps,
         \A m \in (Around(d)[d.up[c]] \cup {d.up[c]}) \ {0} : d.kind[m] \notin Closed
  PROVE  c \in Known(d)
<1>1. Nested(d.up)
  BY DocumentFacts
<1>2. Around(d)[c] = {d.up[c]} \cup Around(d)[d.up[c]]
  BY <1>1, AroundEquation
<1>3. c \in Ops(d)
  BY MysqlShape
<1> QED BY <1>2, <1>3 DEF Known

LEMMA MysqlSound ==
  ASSUME NEW d, Document(d), d.engine = "mysql"
  PROVE  Sound(d)
<1> DEFINE l == Len(d.up)
           A == Around(d)
<1>1. /\ l \in Nat /\ DOMAIN d.up = 1..l /\ Nested(d.up)
      /\ \A n \in 1..l : d.up[n] \in 0..l /\ d.up[n] < n
  BY DocumentFacts
<1>2. /\ Ops(d) = {n \in 1..l : d.kind[n] \in MysqlOps}
      /\ \A n \in 1..l : d.kind[n] \in MysqlKinds
      /\ \A n \in 1..l : d.up[n] = 0 => n = 1 /\ d.kind[n] = "query_block"
      /\ \A n \in 1..l : d.up[n] # 0 =>
           /\ d.up[n] \in 1..l
           /\ d.kind[n] = "query_block" <=> d.kind[d.up[n]] \in HoldBlocks
           /\ d.kind[n] = "block-nl-join" => d.kind[d.up[n]] = "nested_loop"
  BY MysqlShape
<1>3. \A n : Within(d, n) = {c \in 1..l : d.up[c] = n}
  BY <1>1 DEF Within
<1>4. \A n : Converted(d, n) = ConvertMysqlNode(d, n)
  BY DEF Converted
<1> HIDE DEF l
\* The positive ones that a node is converted over: in the node or in a block of it.
<1>5. ASSUME NEW n \in 1..l
      PROVE  /\ \A c \in Converted(d, n) : c \in Int
             /\ \A c : c \in Converted(d, n) /\ c > 0 <=>
                  /\ c \in 1..l
                  /\ d.kind[n] \in {"union_result", "table"} =>
                       d.up[c] \in 1..l /\ d.up[d.up[c]] = n /\ d.kind[c] \in Wrappers
                  /\ d.kind[n] \in {"ordering_operation", "grouping_operation"} =>
                       d.up[c] = n /\ d.kind[c] \in Wrappers
                  /\ d.kind[n] = "nested_loop" => d.up[c] = n
                  /\ d.kind[n] \notin {"query_block", "subqueries", "block-nl-join", "other"}
  <2>1. CASE d.kind[n] \in {"union_result", "table"}
    <3>1. Converted(d, n) = {ConvertMysqlBlock(d, b) : b \in Within(d, n)}
      BY <1>4, <2>1 DEF ConvertMysqlNode, ConvertMysqlTable
    <3>2. \A b \in Within(d, n) : b \in 1..l /\ d.up[b] = n /\ d.kind[b] \in Blocks
      <4> TAKE b \in Within(d, n)
      <4>1. b \in 1..l /\ d.up[b] = n /\ d.up[b] # 0
        BY <1>3
      <4> QED BY <1>2, <2>1, <4>1 DEF Blocks, HoldBlocks
    <3>3. \A b \in Within(d, n) :
            /\ ConvertMysqlBlock(d, b) \in Int
            /\ \A c : c = ConvertMysqlBlock(d, b) /\ c > 0 <=>
                 c \in 1..l /\ d.up[c] = b /\ d.kind[c] \in Wrappers
      BY <3>2, BlockConverted DEF l
    <3>4. \A c : c \in Converted(d, n) /\ c > 0 <=>
                 \E b \in Within(d, n) : c \in 1..l /\ d.up[c] = b /\ d.kind[c] \in Wrappers
      BY <3>1, <3>3
    <3>5. \A c : c \in Converted(d, n) /\ c > 0 <=>
                 c \in 1..l /\ d.up[c] \in 1..l /\ d.up[d.up[c]] = n /\ d.kind[c] \in Wrappers
      BY <1>3, <3>4
    <3>6. d.kind[n] \notin {"ordering_operation", "grouping_operation", "nested_loop", "query_block",
                           "subqueries", "block-nl-join", "other"}
      BY <2>1
    <3>7. \A c \in Converted(d, n) : c \in Int
      BY <3>1, <3>3
    <3> QED BY <2>1, <3>5, <3>6, <3>7
  <2>2. CASE d.kind[n] \in {"ordering_operation", "grouping_operation"}
    <3>1. Converted(d, n) = {ConvertMysqlBlock(d, n)}
      BY <1>4, <2>2 DEF ConvertMysqlNode
    <3>2. /\ ConvertMysqlBlock(d, n) \in Int
          /\ \A c : c = ConvertMysqlBlock(d, n) /\ c > 0 <=>
               c \in 1..l /\ d.up[c] = n /\ d.kind[c] \in Wrappers
      BY <2>2, BlockConverted DEF l, Blocks
    <3>3. d.kind[n] \notin {"union_result", "table", "nested_loop", "query_block",
                           "subqueries", "block-nl-join", "other"}
      BY <2>2
    <3> QED BY <2>2, <3>1, <3>2, <3>3
  <2>3. CASE d.kind[n] = "nested_loop"
    <3>1. Converted(d, n) = {c \in 1..l : d.up[c] = n}
      BY <1>3, <1>4, <2>3 DEF ConvertMysqlNode
    <3>2. \A c \in 1..l : c \in Int /\ c > 0
      BY <1>1
    <3> QED BY <2>3, <3>1, <3>2
  <2>4. CASE d.kind[n] \in {"query_block", "subqueries", "block-nl-join", "other"}
    BY <1>4, <2>4 DEF ConvertMysqlNode
  <2>5. \/ d.kind[n] \in {"union_result", "table"} \/ d.kind[n] \in {"ordering_operation", "grouping_operation"}
        \/ d.kind[n] = "nested_loop"
        \/ d.kind[n] \in {"query_block", "subqueries", "block-nl-join", "other"}
    BY <1>2 DEF MysqlKinds, MysqlOps, Wrappers
  <2> QED BY <2>1, <2>2, <2>3, <2>4, <2>5
<1>6. ASSUME NEW n \in 1..l, NEW c \in Converted(d, n), c > 0
      PROVE  c \in 1..l /\ n < c
  <2>1. c \in 1..l /\ (d.up[c] = n \/ (d.up[c] \in 1..l /\ d.up[d.up[c]] = n))
    BY <1>2, <1>5, <1>6 DEF MysqlKinds, MysqlOps, Wrappers
  <2> QED BY <1>1, <2>1
<1>7. ASSUME NEW n \in Known(d), NEW c \in Kids(d, n)
      PROVE  c \in Converted(d, n) /\ c > 0
  <2>1. n \in 1..l /\ d.kind[n] \in MysqlOps /\ c \in Known(d) /\ Inner(d, c) = n
    BY <1>2 DEF Known, Kids
  <2>2. /\ c \in 1..l /\ d.up[c] \in 1..l /\ d.kind[d.up[c]] \notin Closed
        /\ d.kind[d.up[c]] \in Wrappers => n = d.up[c]
        /\ d.kind[d.up[c]] \notin Wrappers =>
             n = d.up[d.up[c]] /\ (n # 0 => d.kind[n] \in {"union_result", "table"})
    BY <2>1, MysqlKids DEF l
  <2>3. d.kind[c] \in MysqlOps /\ n # 0 /\ d.up[c] # 0
    BY <1>1, <1>2, <2>1, <2>2 DEF Known
  <2>4. CASE n = d.up[c]
    <3>1. d.kind[n] \notin {"union_result", "table"}
      <4>1. d.kind[c] # "query_block"
        BY <2>3 DEF MysqlOps, Wrappers
      <4> QED BY <1>2, <2>2, <2>3, <2>4, <4>1 DEF HoldBlocks
    <3>2. d.kind[n] \notin {"query_block", "subqueries", "block-nl-join", "other"}
      BY <2>1, <2>2, <2>4 DEF MysqlOps, Wrappers, Closed
    <3>3. d.kind[n] # "nested_loop" => d.kind[c] \in Wrappers
      BY <1>2, <2>2, <2>3, <2>4 DEF MysqlOps
    <3> QED BY <1>5, <2>1, <2>2, <2>3, <2>4, <3>1, <3>2, <3>3
  <2>5. CASE n # d.up[c]
    <3>1. n = d.up[d.up[c]] /\ d.kind[n] \in {"union_result", "table"}
      BY <2>2, <2>3, <2>5
    <3>2. d.kind[n] \notin {"ordering_operation", "grouping_operation", "nested_loop", "query_block",
                           "subqueries", "block-nl-join", "other"}
      BY <3>1
    <3>3. d.kind[c] \in Wrappers
      <4>1. d.kind[d.up[c]] # "nested_loop"
        BY <2>2, <2>5 DEF Wrappers
      <4> QED BY <1>2, <2>2, <2>3, <4>1 DEF MysqlOps
    <3> QED BY <1>5, <2>1, <2>2, <2>3, <3>1, <3>2, <3>3
  <2> QED BY <2>4, <2>5
<1>8. ASSUME NEW n \in Known(d), NEW c \in Converted(d, n), c > 0
      PROVE  c \in Kids(d, n)
  <2>1. /\ n \in 1..l /\ d.kind[n] \in MysqlOps
        /\ \A m \in (A[n] \cup {n}) \ {0} : d.kind[m] \notin Closed
    <3>1. n \in 1..l /\ d.kind[n] \in MysqlOps /\ \A m \in A[n] \ {0} : d.kind[m] \notin Closed
      BY <1>2 DEF Known
    <3>2. d.kind[n] # "block-nl-join"
      BY <1>5, <1>8, <3>1
    <3>3. d.kind[n] \notin Closed
      BY <3>1, <3>2 DEF Closed, MysqlOps, Wrappers
    <3> QED BY <3>1, <3>3
  <2>2. CASE d.kind[n] \in {"union_result", "table"}
    <3>1. c \in 1..l /\ d.up[c] \in 1..l /\ d.up[d.up[c]] = n /\ d.kind[c] \in Wrappers
      BY <1>5, <1>8, <2>1, <2>2
    <3>2. d.kind[d.up[c]] = "query_block"
      BY <1>1, <1>2, <2>1, <2>2, <3>1 DEF HoldBlocks
    <3>3. A[d.up[c]] = {n} \cup A[n]
      BY <1>1, <3>1, AroundEquation DEF l
    <3>4. c \in Known(d)
      <4>1. \A m \in (A[d.up[c]] \cup {d.up[c]}) \ {0} : d.kind[m] \notin Closed
        BY <2>1, <3>2, <3>3 DEF Closed
      <4> QED BY <3>1, <4>1, KnownInKnown DEF l, MysqlOps
    <3>5. Inner(d, c) = n
      BY <3>1, <3>2, <3>4, MysqlKids DEF Wrappers
    <3> QED BY <3>4, <3>5 DEF Kids
  <2>3. CASE d.kind[n] \notin {"union_result", "table"}
    <3>1. c \in 1..l /\ d.up[c] = n
      BY <1>5, <1>8, <2>1, <2>3 DEF MysqlOps, Wrappers
    <3>2. d.kind[c] \in MysqlOps
      <4>1. CASE d.kind[n] = "nested_loop"
        <5>1. Housed(d, c) /\ n # 0
          BY <1>1, <2>1, <3>1 DEF Document, l
        <5>2. d.kind[c] \in {"table", "block-nl-join"}
          BY <3>1, <4>1, <5>1 DEF Housed
        <5> QED BY <5>2 DEF MysqlOps, Wrappers
      <4>2. CASE d.kind[n] # "nested_loop"
        BY <1>5, <1>8, <2>1, <2>3, <4>2 DEF MysqlOps, Wrappers
      <4> QED BY <4>1, <4>2
    <3>3. c \in Known(d)
      BY <2>1, <3>1, <3>2, KnownInKnown DEF l
    <3>4. Inner(d, c) = n
      <4>1. d.kind[n] \in Wrappers
        BY <2>1 DEF MysqlOps, Closed
      <4> QED BY <3>1, <3>3, <4>1, MysqlKids DEF l
    <3> QED BY <3>3, <3>4 DEF Kids
  <2> QED BY <2>2, <2>3
<1>9. \A n \in Known(d) : {c \in Converted(d, n) : c > 0} = Kids(d, n)
  BY <1>7, <1>8
<1>10. \A n \in 1..l : \A c \in Converted(d, n) : c \in Int /\ (c > 0 => c \in 1..l /\ n < c)
  BY <1>5, <1>6
<1> QED BY <1>1, <1>9, <1>10 DEF Sound, l

LEMMA EveryDocumentSound ==
  ASSUME NEW d, Document(d)
  PROVE  Sound(d)
  BY UniformSound, SqlServerSound, MysqlSound DEF Document, PlanEngines

-----------------------------------------------------------------------------
(* The whole tree.                                                         *)

\* The roots of SQLite and of MySQL are the operators inside no other.
LEMMA RootsAreKids ==
  ASSUME NEW d, Document(d), d.engine \in {"sqlite", "mysql"}
  PROVE  {r \in Roots(d) : r > 0} = Kids(d, 0)
<1> DEFINE l == Len(d.up)
           A == Around(d)
<1>1. /\ l \in Nat /\ DOMAIN d.up = 1..l /\ Nested(d.up)
      /\ \A n \in 1..l : d.up[n] \in 0..l /\ d.up[n] < n
  BY DocumentFacts
<1>2. CASE d.engine = "sqlite"
  <2>1. Ops(d) = 1..l /\ Known(d) = 1..l
    BY <1>2, UniformSound DEF Uniform
  <2>2. \A n \in 1..l : Inner(d, n) = d.up[n]
    <3> TAKE n \in 1..l
    <3>1. d.up[n] \in Ops(d) \cup {0}
      BY <1>1, <2>1
    <3> QED BY <3>1, ParentIsInnermost
  <2>3. Roots(d) = {r \in 1..l : d.up[r] = 0}
    BY <1>1, <1>2 DEF Roots, ParseSqlitePlan, Within
  <2>4. \A r \in 1..l : r > 0
    BY <1>1
  <2> QED BY <2>1, <2>2, <2>3, <2>4 DEF Kids
<1>3. CASE d.engine = "mysql"
  <2>1. Roots(d) = {ConvertMysqlBlock(d, b) : b \in {1} \cap 1..l}
    BY <1>1, <1>3 DEF Roots, ParseMysqlPlan
  <2>2. \A n \in 1..l : d.up[n] = 0 => n = 1 /\ d.kind[n] = "query_block"
    BY <1>3, MysqlShape
  <2>3. 1 \in 1..l => d.up[1] = 0 /\ d.kind[1] = "query_block"
    <3>1. 1 \in 1..l => d.up[1] = 0
      BY <1>1
    <3> QED BY <2>2, <3>1
  <2>4. /\ Ops(d) = {n \in 1..l : d.kind[n] \in MysqlOps}
        /\ \A n \in 1..l : d.up[n] # 0 /\ d.kind[n] = "block-nl-join" => d.kind[d.up[n]] = "nested_loop"
    BY <1>3, MysqlShape
  <2>5. \A c : c \in Roots(d) /\ c > 0 <=> c \in 1..l /\ d.up[c] = 1 /\ d.kind[c] \in Wrappers
    <3>1. CASE l = 0
      BY <1>1, <2>1, <3>1
    <3>2. CASE l # 0
      <4>1. 1 \in 1..l /\ Roots(d) = {ConvertMysqlBlock(d, 1)} /\ d.kind[1] \in Blocks
        BY <1>1, <2>1, <2>3, <3>2 DEF Blocks
      <4>2. \A c : c = ConvertMysqlBlock(d, 1) /\ c > 0 <=>
              c \in 1..l /\ d.up[c] = 1 /\ d.kind[c] \in Wrappers
        BY <1>3, <4>1, BlockConverted
      <4> QED BY <4>1, <4>2
    <3> QED BY <3>1, <3>2
  <2>6. ASSUME NEW c \in Kids(d, 0) PROVE c \in 1..l /\ d.up[c] = 1 /\ d.kind[c] \in Wrappers
    <3>1. c \in Known(d) /\ Inner(d, c) = 0 /\ c \in 1..l /\ d.kind[c] \in MysqlOps
      BY <2>4 DEF Kids, Known
    <3>2. d.up[c] = 1
      BY <1>1, <1>3, <3>1, MysqlKids
    <3>3. d.kind[c] # "block-nl-join"
      BY <1>1, <2>3, <2>4, <3>1, <3>2
    <3> QED BY <3>1, <3>2, <3>3 DEF MysqlOps
  <2>7. ASSUME NEW c \in 1..l, d.up[c] = 1, d.kind[c] \in Wrappers PROVE c \in Kids(d, 0)
    <3>1. 1 \in 1..l
      BY <1>1, <2>7
    <3>2. A[1] = {0}
      <4>1. A[0] = {} /\ A[1] = {d.up[1]} \cup A[d.up[1]]
        BY <1>1, <3>1, AroundEquation
      <4> QED BY <2>3, <3>1, <4>1
    <3>3. c \in Known(d)
      <4>1. \A m \in (A[d.up[c]] \cup {d.up[c]}) \ {0} : d.kind[m] \notin Closed
        BY <2>3, <2>7, <3>1, <3>2 DEF Closed
      <4> QED BY <1>3, <2>7, <4>1, KnownInKnown DEF MysqlOps
    <3>4. Inner(d, c) = 0
      BY <1>3, <2>3, <2>7, <3>1, <3>3, MysqlKids DEF Wrappers
    <3> QED BY <3>3, <3>4 DEF Kids
  <2> QED BY <2>5, <2>6, <2>7
<1> QED BY <1>2, <1>3

\* The root of the others is the first operator of the text.
LEMMA RootIsFirst ==
  ASSUME NEW d, Document(d), d.engine \notin {"sqlite", "mysql"}
  PROVE  /\ Known(d) = Ops(d) /\ \A n \in Ops(d) : n \in Nat /\ n > 0
         /\ Roots(d) = {n \in Ops(d) : n = Min(Ops(d))}
         /\ Ops(d) # {} => Min(Ops(d)) \in Ops(d) /\ Inner(d, Min(Ops(d))) = 0
<1> DEFINE l == Len(d.up)
           first == Min(Ops(d))
<1>1. /\ l \in Nat /\ DOMAIN d.up = 1..l /\ Nested(d.up)
  BY DocumentFacts
<1>2. d.engine \in {"postgres", "mysql v2", "sqlserver"}
  BY DEF Document, PlanEngines, Uniform
<1>3. \A n \in Ops(d) : n \in 1..l /\ n \in Nat /\ n > 0
  BY <1>1 DEF Ops
<1>4. ASSUME Ops(d) # {} PROVE first \in Ops(d) /\ \A n \in Ops(d) : first <= n
  <2>1. Ops(d) \in SUBSET Nat
    BY <1>3
  <2> QED BY <1>4, <2>1, LeastNumber
<1>5. ASSUME Ops(d) # {} PROVE Inner(d, first) = 0
  <2>1. first \in 1..l
    BY <1>3, <1>4, <1>5
  <2>2. Inner(d, first) \in Ops(d) \cup {0} /\ Inner(d, first) \in Nat /\ Inner(d, first) < first
    BY <1>1, <2>1, InnerMost
  <2> QED BY <1>4, <1>5, <2>1, <2>2
<1> HIDE DEF first
<1>6. CASE d.engine = "sqlserver"
  <2>1. Known(d) = Ops(d) /\ Ops(d) = {n \in DOMAIN d.up : d.kind[n] = "RelOp"}
    BY <1>6, SqlServerSound
  <2>2. Roots(d) = {n \in Ops(d) : n = first}
    BY <1>6, <2>1 DEF Roots, ParseSqlServerPlan, first
  <2> QED BY <1>3, <1>4, <1>5, <2>1, <2>2 DEF first
<1>7. CASE d.engine \in {"postgres", "mysql v2"}
  <2>1. Known(d) = 1..l /\ Ops(d) = 1..l
    BY <1>7, UniformSound DEF Uniform
  <2>2. Roots(d) = {1} \cap 1..l
    BY <1>1, <1>7 DEF Roots, ParsePostgresPlan, ParseMysqlPlan
  <2>3. l # 0 => first = 1
    <3>1. l # 0 => 1 \in 1..l
      BY <1>1
    <3> QED BY <1>1, <1>4, <2>1, <3>1
  <2>4. Roots(d) = {n \in Ops(d) : n = first}
    <3>1. CASE l = 0
      BY <1>1, <2>1, <2>2, <3>1
    <3>2. CASE l # 0
      BY <1>1, <2>1, <2>2, <2>3, <3>2
    <3> QED BY <3>1, <3>2
  <2> QED BY <1>3, <1>4, <1>5, <2>1, <2>4 DEF first
<1> QED BY <1>2, <1>6, <1>7

\* What is drawn is what is expected.
LEMMA TreeWhole ==
  ASSUME NEW d, Document(d)
  PROVE  {e \in Parsed(d) : e[2] > 0} = Expected(d)
<1> DEFINE A == Around(d)
           first == IF Ops(d) = {} THEN 0 ELSE Min(Ops(d))
           S == {k \in Known(d) : \E r \in Roots(d) : r > 0 /\ r \in A[k] \cup {k}}
           drawn == IF d.engine = "sqlite" \/ d.engine = "mysql" THEN Known(d)
                    ELSE {n \in Known(d) : first \in A[n] \cup {n}}
<1>1. Nested(d.up) /\ Sound(d)
  BY DocumentFacts, EveryDocumentSound
<1>2. Expected(d) = {<<Inner(d, n), n>> : n \in drawn}
  BY DEF Expected, Ops, Known, Inner
<1> HIDE DEF A
<1>3. CASE d.engine \in {"sqlite", "mysql"}
  <2>1. {r \in Roots(d) : r > 0} = Kids(d, 0)
    BY <1>3, RootsAreKids
  <2>2. \A r \in Roots(d) : r > 0 => r \in Known(d) /\ Inner(d, r) = 0
    BY <2>1 DEF Kids
  <2>3. \A k \in Known(d) : k \in S
    <3> TAKE k \in Known(d)
    <3>1. k \in 1..Len(d.up)
      BY DocumentFacts DEF Known, Ops
    <3>2. 0 \in A[k]
      BY <1>1, <3>1, AroundChain DEF A
    <3>3. PICK r \in Kids(d, 0) : r = k \/ r \in A[k]
      BY <1>1, <3>2, KidToward DEF A
    <3> QED BY <2>1, <3>3
  <2>4. S = drawn
    BY <1>3, <2>3
  <2> QED BY <1>1, <1>2, <2>2, <2>4, DrawnFromRoots DEF A
<1>4. CASE d.engine \notin {"sqlite", "mysql"}
  <2>1. /\ Known(d) = Ops(d) /\ \A n \in Ops(d) : n \in Nat /\ n > 0
        /\ Roots(d) = {n \in Ops(d) : n = Min(Ops(d))}
        /\ Ops(d) # {} => Min(Ops(d)) \in Ops(d) /\ Inner(d, Min(Ops(d))) = 0
    BY <1>4, RootIsFirst
  <2>2. \A r \in Roots(d) : r > 0 => r \in Known(d) /\ Inner(d, r) = 0
    BY <2>1
  <2>3. S = drawn
    <3>1. CASE Ops(d) = {}
      BY <1>4, <2>1, <3>1
    <3>2. CASE Ops(d) # {}
      <4>1. Roots(d) = {first} /\ first > 0
        BY <2>1, <3>2
      <4> HIDE DEF first
      <4> QED BY <1>4, <4>1
    <3> QED BY <3>1, <3>2
  <2> QED BY <1>1, <1>2, <2>2, <2>3, DrawnFromRoots DEF A
<1> QED BY <1>3, <1>4

LEMMA RawIsNone ==
  ASSUME NEW d, Document(d), Roots(d) = {}
  PROVE  Expected(d) = {}
<1>1. Parsed(d) = {}
  BY DEF Parsed
<1> QED BY <1>1, TreeWhole

-----------------------------------------------------------------------------
(* The marks.                                                              *)

Hot(d) == {n \in Drawn(d) : IsHotNode(d, n)}

LEMMA ValueTyped ==
  ASSUME NEW d, Document(d)
  PROVE  IsFiniteSet(Drawn(d)) /\ \A n \in Drawn(d) : Value(d, n) \in Nat
<1>1. /\ Len(d.up) \in Nat /\ DOMAIN d.up = 1..Len(d.up)
      /\ \A n \in 1..Len(d.up) : d.cost[n] \in Nat /\ d.time[n] \in Int
  BY DocumentFacts
<1>2. Drawn(d) \subseteq 1..Len(d.up)
  BY <1>1 DEF Drawn
<1>3. IsFiniteSet(Drawn(d))
  <2>1. IsFiniteSet(1..Len(d.up))
    BY <1>1, FS_Interval
  <2> QED BY <1>2, <2>1, FS_Subset
<1>4. \A n \in Drawn(d) : Value(d, n) \in Nat
  <2> TAKE n \in Drawn(d)
  <2>1. d.cost[n] \in Nat /\ d.time[n] \in Int
    BY <1>1, <1>2
  <2>2. Max({d.time[n], 0}) = IF d.time[n] >= 0 THEN d.time[n] ELSE 0
    BY <2>1, PairBounds
  <2> QED BY <2>1, <2>2 DEF Value
<1> QED BY <1>3, <1>4

\* The marked operators are the dearest ones, few of them above the mark.
LEMMA HotNodes ==
  ASSUME NEW d, Document(d)
  PROVE  /\ \A n \in Hot(d), m \in Drawn(d) \ Hot(d) : Value(d, m) < Value(d, n)
         /\ Hot(d) = {} => \A n \in Drawn(d) : Value(d, n) < 2
         /\ 5 * Cardinality({n \in Hot(d) : \E m \in Hot(d) : Value(d, m) < Value(d, n)})
              <= Cardinality({n \in Drawn(d) : Value(d, n) > 0})
<1> DEFINE V(n) == Value(d, n)
           C == {n \in Drawn(d) : V(n) > 0}
           c == Cardinality(C)
           R == {p \in C \X C : V(p[1]) > V(p[2]) \/ (V(p[1]) = V(p[2]) /\ p[1] < p[2])}
           k == (c \div 5) + 1
           pivot == SortedBy(C, R)[k]
           T == HotNodeThreshold(d)
           H == {n \in Hot(d) : \E m \in Hot(d) : V(m) < V(n)}
<1>1. /\ IsFiniteSet(Drawn(d)) /\ \A n \in Drawn(d) : V(n) \in Nat
      /\ \A n \in Drawn(d) : n \in Nat
  BY ValueTyped, DocumentFacts DEF Drawn
<1>2. IsFiniteSet(C) /\ c \in Nat
  BY <1>1, FS_Subset, FS_CardinalityType
<1>3. T = Max({V(pivot), 2})
  BY DEF HotNodeThreshold
<1>4. Hot(d) = {n \in Drawn(d) : V(n) > 0 /\ V(n) >= T}
  BY DEF Hot, IsHotNode
<1> HIDE DEF V, T
<1>5. CASE C = {}
  <2>1. Hot(d) = {}
    BY <1>4, <1>5
  <2>2. H = {} /\ Cardinality(H) = 0 /\ c = 0
    BY <1>5, <2>1, FS_EmptySet
  <2>3. \A n \in Drawn(d) : V(n) < 2
    BY <1>1, <1>5
  <2> QED BY <2>1, <2>2, <2>3 DEF V
<1>6. CASE C # {}
  <2>1. c # 0
    BY <1>2, <1>6, FS_EmptySet
  <2> HIDE DEF c
  <2>2. k \in 1..c /\ 5 * (k - 1) <= c
    BY <1>2, <2>1
  <2>3. Orders(R, C)
    <3>1. \A i \in C : V(i) \in Nat /\ i \in Nat
      BY <1>1
    <3> DEFINE over(i, j) == V(i) > V(j) \/ (V(i) = V(j) /\ i < j)
    <3>2. \A i, j \in C : <<i, j>> \in R <=> over(i, j)
      OBVIOUS
    <3>3. \A i, j, m \in C : ~over(i, i) /\ (over(i, j) /\ over(j, m) => over(i, m))
                             /\ (i = j \/ over(i, j) \/ over(j, i))
      BY <3>1
    <3> HIDE DEF C, R, over
    <3> QED BY <3>2, <3>3 DEF Orders
  <2>4. pivot \in C
    <3> HIDE DEF C, R, k
    <3>1. SortedBy(C, R) \in [1..c -> C]
      BY <1>2, <2>3, SortedByProperties DEF c
    <3> QED BY <2>2, <3>1
  <2> HIDE DEF pivot
  <2>5. /\ V(pivot) \in Nat /\ pivot \in Drawn(d) /\ V(pivot) > 0
        /\ T = IF V(pivot) >= 2 THEN V(pivot) ELSE 2
    <3>1. V(pivot) \in Nat /\ pivot \in Drawn(d) /\ V(pivot) > 0
      BY <1>1, <2>4
    <3> QED BY <1>3, <3>1, PairBounds
  <2>6. \A n \in Hot(d), m \in Drawn(d) \ Hot(d) : V(m) < V(n)
    BY <1>1, <1>4, <2>5
  <2>7. Hot(d) = {} => \A n \in Drawn(d) : V(n) < 2
    <3> SUFFICES ASSUME Hot(d) = {}, NEW n \in Drawn(d) PROVE V(n) < 2
      OBVIOUS
    <3>1. ~(V(pivot) >= T)
      BY <1>4, <2>5
    <3>2. T = 2
      BY <2>5, <3>1
    <3>3. V(n) \in Nat /\ ~(V(n) > 0 /\ V(n) >= 2)
      BY <1>1, <1>4, <3>2
    <3> QED BY <3>3
  <2>8. H \subseteq C /\ \A n \in H : <<n, pivot>> \in R
    <3> SUFFICES ASSUME NEW n \in H PROVE n \in C /\ <<n, pivot>> \in R
      OBVIOUS
    <3>1. n \in C
      BY <1>4
    <3>2. PICK m \in Hot(d) : V(m) < V(n)
      OBVIOUS
    <3>3. V(m) >= T /\ V(m) \in Nat /\ V(n) \in Nat
      BY <1>1, <1>4, <3>1
    <3>4. V(n) > V(pivot)
      BY <2>5, <3>2, <3>3
    <3> QED BY <2>4, <3>1, <3>4
  <2>9. Cardinality(H) \in Nat /\ Cardinality(H) <= k - 1
    <3> HIDE DEF C, R, H, k
    <3> QED BY <1>2, <2>2, <2>3, <2>8, FewBefore DEF pivot, c
  <2>10. 5 * Cardinality(H) <= c
    <3> HIDE DEF H
    <3> QED BY <1>2, <2>2, <2>9
  <2> QED BY <2>6, <2>7, <2>10 DEF V, c
<1> QED BY <1>5, <1>6

-----------------------------------------------------------------------------
(* The result sets.                                                        *)

ResultSets == [is : {"data", "message", "plan", "markup", "error"}, at : Nat, isPlan : BOOLEAN]

\* The result sets that are not shown as the plan.
Staying(res) == {res[i] : i \in {j \in DOMAIN res : ~res[j].isPlan}}

\* What the server of an engine answers with.
Answering(a, engine) ==
  /\ a \in Seq(ResultSets)
  /\ \A i \in DOMAIN a : a[i].at = i /\ ~a[i].isPlan /\ a[i].is \in Held(engine)

Reshaped(c) ==
  IF c.doc.engine = "sqlserver" THEN ReshapeSqlServerPlan(c.answers)
  ELSE AppendExplainPlan(c.answers, c.failed)

\* What becomes of the answers a when r is made of them.
Accounts(a, r) ==
  /\ Only(r, Staying(r)) = Only(a, Staying(r))
  /\ \A i \in DOMAIN r : r[i].isPlan => i = Len(r)
  /\ r # <<>> =>
       /\ \A i \in DOMAIN a :
            \/ a[i] \in Staying(r)
            \/ r[Len(r)].isPlan /\ (r[Len(r)].at = i \/ a[i].is = "message")
       /\ \A i \in DOMAIN a : a[i].is = "plan" =>
            r[Len(r)].isPlan /\ (r[Len(r)].at <= i \/ r[Len(r)].is = "markup")

\* A plan behind result sets that are none.
LEMMA PlanAppended ==
  ASSUME NEW s \in Seq(ResultSets), \A i \in DOMAIN s : ~s[i].isPlan,
         NEW e \in ResultSets, e.isPlan, NEW r, r = Append(s, e)
  PROVE  /\ r # <<>> /\ r[Len(r)] = e /\ Staying(r) = {s[i] : i \in DOMAIN s}
         /\ Only(r, Staying(r)) = s
         /\ \A i \in DOMAIN r : r[i].isPlan => i = Len(r)
<1> DEFINE l == Len(s)
           V == {s[i] : i \in DOMAIN s}
<1>1. l \in Nat /\ DOMAIN s = 1..l
  BY LenProperties
<1>2. Len(r) = l + 1 /\ r[l + 1] = e /\ \A n \in 1..l : r[n] = s[n]
  BY OneLonger
<1>3. r \in Seq(ResultSets)
  OBVIOUS
<1>4. DOMAIN r = 1..(l + 1)
  BY <1>2, <1>3, LenProperties
<1> HIDE DEF l
<1>5. \A i \in DOMAIN r : ~r[i].isPlan <=> i \in 1..l
  <2> TAKE i \in DOMAIN r
  <2>1. CASE i = l + 1
    BY <1>1, <1>2, <2>1
  <2>2. CASE i # l + 1
    <3>1. i \in 1..l
      BY <1>1, <1>4, <2>2
    <3>2. r[i] = s[i] /\ ~s[i].isPlan
      BY <1>1, <1>2, <3>1
    <3> QED BY <3>1, <3>2
  <2> QED BY <2>1, <2>2
<1>6. {j \in DOMAIN r : ~r[j].isPlan} = 1..l
  <2>1. 1..l \subseteq DOMAIN r
    BY <1>1, <1>4
  <2> QED BY <1>5, <2>1
<1>7. Staying(r) = V
  <2>1. Staying(r) = {r[i] : i \in 1..l}
    BY <1>6, Zenon DEF Staying
  <2> QED BY <1>1, <1>2, <2>1
<1>8. e \notin V
  BY DEF V
<1>9. Only(r, V) = s
  <2>1. \A i \in 1..Len(s) : s[i] \in V
    BY <1>1 DEF l
  <2> HIDE DEF V
  <2>2. Only(s, V) = s
    BY <2>1, OnlyWhole
  <2> QED BY <1>8, <2>2, OnlyAppend
<1>10. \A i \in DOMAIN r : r[i].isPlan => i = Len(r)
  <2> TAKE i \in DOMAIN r
  <2>1. i \notin 1..l => i = l + 1
    BY <1>1, <1>4
  <2> QED BY <1>2, <1>5, <2>1
<1>11. r # <<>>
  <2>1. Len(r) # 0
    BY <1>1, <1>2
  <2> QED BY <2>1
<1> QED BY <1>2, <1>7, <1>9, <1>10, <1>11 DEF l

\* The result sets that stay are in their order, and the plan is last.
LEMMA ReshapedKeeps ==
  ASSUME NEW c, Answering(c.answers, c.doc.engine)
  PROVE  Accounts(c.answers, Reshaped(c))
<1> DEFINE a == c.answers
           r == Reshaped(c)
           found == {i \in DOMAIN a : IsPlanXmlCell(a[i])}
<1>1. /\ a \in Seq(ResultSets) /\ Len(a) \in Nat /\ DOMAIN a = 1..Len(a)
      /\ \A i \in DOMAIN a : a[i] \in ResultSets /\ a[i].at = i /\ ~a[i].isPlan /\ a[i].is \in Held(c.doc.engine)
  BY LenProperties, ElementsOf DEF Answering
<1>2. CASE c.doc.engine # "sqlserver"
  <2> DEFINE e == [is |-> IF c.failed THEN "error" ELSE "plan", at |-> 0, isPlan |-> TRUE]
  <2>1. r = Append(a, e)
    BY <1>2 DEF Reshaped, AppendExplainPlan
  <2>2. e \in ResultSets /\ e.isPlan
    BY DEF ResultSets
  <2>3. \A i \in DOMAIN a : a[i].is # "plan"
    BY <1>1, <1>2 DEF Held
  <2> HIDE DEF e, a, r
  <2>4. /\ r # <<>> /\ r[Len(r)] = e /\ Staying(r) = {a[i] : i \in DOMAIN a}
        /\ Only(r, Staying(r)) = a /\ \A i \in DOMAIN r : r[i].isPlan => i = Len(r)
    <3>1. a \in Seq(ResultSets) /\ \A i \in DOMAIN a : ~a[i].isPlan
      BY <1>1
    <3> QED BY <2>1, <2>2, <3>1, PlanAppended
  <2>5. Only(a, Staying(r)) = a
    BY <1>1, <2>4, OnlyWhole
  <2>6. \A i \in DOMAIN a : a[i] \in Staying(r)
    BY <2>4
  <2>7. Accounts(a, r)
    BY <2>3, <2>4, <2>5, <2>6 DEF Accounts
  <2> QED BY <2>7 DEF a, r
<1>3. CASE c.doc.engine = "sqlserver" /\ found = {}
  <2>1. r = a
    BY <1>3 DEF Reshaped, ReshapeSqlServerPlan
  <2>2. \A i \in DOMAIN a : a[i].is # "plan"
    BY <1>3 DEF IsPlanXmlCell
  <2>3. \A i \in DOMAIN a : a[i] \in Staying(a)
    BY <1>1 DEF Staying
  <2>4. Accounts(a, a)
    BY <1>1, <2>2, <2>3 DEF Accounts
  <2> QED BY <2>1, <2>4
<1>4. CASE c.doc.engine = "sqlserver" /\ found # {}
  <2> DEFINE m == Min(found)
             taken == a[m]
             W == {x \in {a[i] : i \in DOMAIN a} \ {taken} : x.is # "message"}
             o == Only(a, W)
             e == [taken EXCEPT !.isPlan = TRUE]
  <2>1. r = Append(o, e)
    BY <1>4 DEF Reshaped, ReshapeSqlServerPlan
  <2>2. m \in DOMAIN a /\ \A i \in found : m <= i
    <3>1. found \in SUBSET Nat
      BY <1>1
    <3>2. m \in found /\ \A i \in found : m <= i
      BY <1>4, <3>1, LeastNumber
    <3> QED BY <3>2
  <2>3. /\ e \in ResultSets /\ e.isPlan /\ e.at = m /\ e.is = taken.is
        /\ IsPlanXmlCell(taken)
    <3>1. m \in found
      <4>1. found \in SUBSET Nat
        BY <1>1
      <4> QED BY <1>4, <4>1, LeastNumber
    <3>2. taken \in ResultSets /\ taken.at = m
      BY <1>1, <2>2
    <3>3. IsPlanXmlCell(taken)
      BY <3>1
    <3> HIDE DEF taken
    <3> QED BY <3>2, <3>3 DEF ResultSets
  <2>4. o \in Seq(ResultSets) /\ \A n \in 1..Len(o) : o[n] \in W
    <3> HIDE DEF W, a
    <3> QED BY <1>1, OnlyProperties
  <2>5. \A i \in DOMAIN a : a[i] \in W => \E n \in 1..Len(o) : o[n] = a[i]
    <3> HIDE DEF W, a
    <3> QED BY <1>1, OnlyComplete
  <2>6. DOMAIN o = 1..Len(o)
    BY <2>4, LenProperties
  <2>7. \A i \in DOMAIN o : ~o[i].isPlan
    <3>1. \A x \in W : ~x.isPlan
      BY <1>1
    <3> HIDE DEF W, o
    <3> QED BY <2>4, <2>6, <3>1
  <2>8. {o[i] : i \in DOMAIN o} = W
    <3>1. \A x \in W : \E i \in DOMAIN a : x = a[i]
      OBVIOUS
    <3> HIDE DEF W, o, a
    <3> QED BY <2>4, <2>5, <2>6, <3>1
  <2>9. \A i \in DOMAIN a : a[i] \in W \/ a[i] = taken \/ a[i].is = "message"
    OBVIOUS
  <2>10. \A i \in DOMAIN a : a[i] = taken => i = m
    <3>1. \A i \in DOMAIN a : a[i].at = i
      BY <1>1
    <3> HIDE DEF a, m
    <3> QED BY <2>2, <3>1
  <2>11. \A i \in DOMAIN a : a[i].is = "plan" => m <= i
    BY <2>2 DEF IsPlanXmlCell
  <2> HIDE DEF o, e, W, taken, m, a, r
  <2>12. /\ r # <<>> /\ r[Len(r)] = e /\ Staying(r) = W
         /\ Only(r, Staying(r)) = o /\ \A i \in DOMAIN r : r[i].isPlan => i = Len(r)
    BY <2>1, <2>3, <2>4, <2>7, <2>8, PlanAppended
  <2>13. Only(a, Staying(r)) = o
    BY <2>12 DEF o
  <2>14. Accounts(a, r)
    <3>1. \A i \in DOMAIN a : a[i] \in Staying(r) \/ (e.isPlan /\ (e.at = i \/ a[i].is = "message"))
      BY <2>3, <2>9, <2>10, <2>12
    <3>2. \A i \in DOMAIN a : a[i].is = "plan" => e.isPlan /\ e.at <= i
      BY <2>3, <2>11
    <3> QED BY <2>12, <2>13, <3>1, <3>2 DEF Accounts
  <2> QED BY <2>14 DEF a, r
<1> QED BY <1>2, <1>3, <1>4

-----------------------------------------------------------------------------
(* The invariant.                                                          *)

\* A run's answers and its document stay; what is shown is made of them, and of
\* nothing but a plan.
PlanInv ==
  /\ Document(capture.doc)
  /\ Answering(capture.answers, capture.doc.engine)
  /\ results # <<>> => results = Reshaped(capture)
  /\ plan # <<>> =>
       /\ results # <<>>
       /\ \/ plan = <<"error">>
          \/ plan = <<"raw">> /\ (Roots(capture.doc) = {} \/ results[Len(results)].is = "markup")
          \/ plan = <<"stored">>
          \/ plan = <<"tree", Parsed(capture.doc), Hot(capture.doc)>>

LEMMA PlanInitially ==
  ASSUME PlanInit
  PROVE  PlanInv
<1>1. PICK d \in Chains \cup UNION {Trees(e) : e \in Uniform \cup {"sqlserver", "mysql"}}, failed \in BOOLEAN :
        \E a \in IF d.kind \in {<<"operator">>, <<"RelOp">>} THEN Answers(d.engine)
                 ELSE {IF d.engine = "sqlserver" THEN <<ResultSet("plan", 1)>> ELSE <<>>} :
          capture = [answers |-> a, doc |-> d, failed |-> failed]
  BY DEF PlanInit
<1>2. PICK a \in IF d.kind \in {<<"operator">>, <<"RelOp">>} THEN Answers(d.engine)
                 ELSE {IF d.engine = "sqlserver" THEN <<ResultSet("plan", 1)>> ELSE <<>>} :
        capture = [answers |-> a, doc |-> d, failed |-> failed]
  BY <1>1
<1>3. Document(d)
  <2>1. CASE d \in Chains
    BY <2>1, ChainsAreDocuments
  <2>2. CASE d \notin Chains
    <3> DEFINE Y == {Trees(e) : e \in PlanEngines}
    <3>1. d \in UNION Y
      BY <2>2 DEF PlanEngines
    <3>2. PICK t \in Y : d \in t
      <4> HIDE DEF Y
      <4> QED BY <3>1
    <3>3. PICK e \in PlanEngines : t = Trees(e)
      OBVIOUS
    <3> QED BY <3>2, <3>3, TreesAreDocuments
  <2> QED BY <2>1, <2>2
<1>4. ASSUME NEW is \in Held(d.engine), NEW place \in Nat
      PROVE  /\ ResultSet(is, place) \in ResultSets /\ ResultSet(is, place).at = place
             /\ ~ResultSet(is, place).isPlan /\ ResultSet(is, place).is = is
  <2>1. is \in {"data", "message", "plan", "markup", "error"}
    BY DEF Held
  <2> QED BY <2>1 DEF ResultSet, ResultSets
<1>5. Answering(a, d.engine)
  <2>1. CASE a \in Answers(d.engine)
    <3> DEFINE Y == {[1..n -> Held(d.engine)] : n \in 0..MaxAnswers}
    <3>1. PICK h \in UNION Y : a = [i \in DOMAIN h |-> ResultSet(h[i], i)]
      BY <2>1 DEF Answers
    <3>2. PICK y \in Y : h \in y
      <4> HIDE DEF Y
      <4> QED OBVIOUS
    <3>3. PICK n \in 0..MaxAnswers : y = [1..n -> Held(d.engine)]
      OBVIOUS
    <3>4. n \in Nat /\ DOMAIN h = 1..n /\ \A i \in 1..n : h[i] \in Held(d.engine)
      BY <3>2, <3>3, PlanAssumption
    <3>5. /\ DOMAIN a = 1..n
          /\ \A i \in 1..n : a[i] \in ResultSets /\ a[i].at = i /\ ~a[i].isPlan /\ a[i].is \in Held(d.engine)
      BY <1>4, <3>1, <3>4
    <3>6. a = [i \in 1..n |-> a[i]]
      BY <3>1, <3>4
    <3>7. a \in [1..n -> ResultSets]
      BY <3>5, <3>6
    <3>8. a \in Seq(ResultSets)
      BY <3>4, <3>7, OnInterval
    <3> QED BY <3>5, <3>8 DEF Answering
  <2>2. CASE a = <<ResultSet("plan", 1)>> /\ d.engine = "sqlserver"
    <3>1. /\ ResultSet("plan", 1) \in ResultSets /\ ResultSet("plan", 1).at = 1
          /\ ~ResultSet("plan", 1).isPlan /\ ResultSet("plan", 1).is = "plan" /\ "plan" \in Held(d.engine)
      BY <1>4, <2>2 DEF Held
    <3> QED BY <2>2, <3>1 DEF Answering
  <2>3. CASE a = <<>>
    BY <2>3 DEF Answering
  <2> QED BY <1>2, <2>1, <2>2, <2>3
<1>6. capture.doc = d /\ capture.answers = a
  BY <1>2
<1>7. results = <<>> /\ plan = <<>>
  BY DEF PlanInit
<1> QED BY <1>3, <1>5, <1>6, <1>7 DEF PlanInv

LEMMA PlanStep ==
  ASSUME PlanInv, [PlanNext]_planVars
  PROVE  PlanInv'
<1>1. CASE Reshape
  <2>1. results = <<>> /\ results' = Reshaped(capture) /\ capture' = capture /\ plan' = plan
    BY <1>1 DEF Reshape, Reshaped
  <2>2. plan = <<>>
    BY <2>1 DEF PlanInv
  <2> QED BY <2>1, <2>2 DEF PlanInv
<1>2. CASE Render
  <2>1. capture' = capture /\ results' = results /\ results # <<>>
    BY <1>2 DEF Render
  <2>2. \/ plan' = <<"error">>
        \/ plan' = <<"raw">> /\ (Roots(capture.doc) = {} \/ results[Len(results)].is = "markup")
        \/ plan' = <<"stored">>
        \/ plan' = <<"tree", Parsed(capture.doc), Hot(capture.doc)>>
    BY <1>2 DEF Render, Hot
  <2> QED BY <2>1, <2>2 DEF PlanInv
<1>3. CASE RunAgain
  BY <1>3 DEF RunAgain, PlanInv
<1>4. CASE UNCHANGED planVars
  BY <1>4 DEF planVars, PlanInv
<1> QED BY <1>1, <1>2, <1>3, <1>4 DEF PlanNext

LEMMA PlanSuffices ==
  ASSUME PlanInv
  PROVE  PlanAccountsForRun
<1> DEFINE d == capture.doc
           shown == IF results = <<>> THEN ResultSet("none", 0) ELSE results[Len(results)]
<1>1. Document(d) /\ Answering(capture.answers, d.engine)
  BY DEF PlanInv
<1>2. results # <<>> => Accounts(capture.answers, results)
  BY <1>1, ReshapedKeeps DEF PlanInv
<1>3. results # <<>> =>
        /\ Only(results, Staying(results)) = Only(capture.answers, Staying(results))
        /\ \A i \in DOMAIN results : results[i].isPlan => i = Len(results)
        /\ \A i \in DOMAIN capture.answers :
             \/ capture.answers[i] \in Staying(results)
             \/ shown.isPlan /\ (shown.at = i \/ capture.answers[i].is = "message")
        /\ \A i \in DOMAIN capture.answers : capture.answers[i].is = "plan" =>
             shown.isPlan /\ (shown.at <= i \/ shown.is = "markup")
  BY <1>2, Zenon DEF Accounts
<1>4. plan # <<>> => results # <<>>
  BY DEF PlanInv
<1>5. ASSUME plan # <<>>, plan[1] = "tree"
      PROVE  plan[2] = Parsed(d) /\ plan[3] = Hot(d)
  BY <1>5 DEF PlanInv
<1>6. plan = <<"raw">> => Expected(d) = {} \/ shown.is = "markup"
  <2>1. plan = <<"raw">> => results # <<>> /\ (Roots(d) = {} \/ results[Len(results)].is = "markup")
    BY DEF PlanInv
  <2> QED BY <1>1, <2>1, RawIsNone
<1>7. {e \in Parsed(d) : e[2] > 0} = Expected(d)
  BY <1>1, TreeWhole
<1>8. plan # <<>> /\ plan[1] = "tree" =>
        /\ {e \in plan[2] : e[2] > 0} = Expected(d)
        /\ \A n \in plan[3], m \in Drawn(d) \ plan[3] : Value(d, m) < Value(d, n)
        /\ plan[3] = {} => \A n \in Drawn(d) : Value(d, n) < 2
        /\ 5 * Cardinality({n \in plan[3] : \E m \in plan[3] : Value(d, m) < Value(d, n)})
             <= Cardinality({n \in Drawn(d) : Value(d, n) > 0})
  BY <1>1, <1>5, <1>7, HotNodes
<1> HIDE DEF d, shown
<1> QED BY <1>3, <1>4, <1>6, <1>8, Zenon DEF PlanAccountsForRun, Staying, d, shown

\* The result sets that stay are in their order behind no plan, the first plan is
\* the one on display unless data look like one, and its tree has every operator
\* that nothing closed is around, below the innermost around it, with the dearest
\* marked: planReshape.ts and planParsers.ts.
THEOREM PlanAccountsForRunAlways == PlanSpec => []PlanAccountsForRun
<1>1. PlanInit => PlanInv
  BY PlanInitially
<1>2. PlanInv /\ [PlanNext]_planVars => PlanInv'
  BY PlanStep
<1>3. PlanInv => PlanAccountsForRun
  BY PlanSuffices
<1> QED BY <1>1, <1>2, <1>3, PTL DEF PlanSpec
=============================================================================
