----------------------------- MODULE ListProofs -----------------------------
(***************************************************************************)
(* Lemmas that several components need: induction over numbers, and that a *)
(* recursive function has its equation; lists, filtered and sorted ones,   *)
(* of any elements; and the strip of tabs, for any set T of tab records.   *)
(***************************************************************************)
EXTENDS Tabs, Filters, SequenceTheorems, FiniteSetTheorems, WellFoundedInduction, TLAPS

\* Induction over the natural numbers, for a set in the place of a predicate.
LEMMA SetInduction ==
  ASSUME NEW T \in SUBSET Nat, 0 \in T, \A n \in T : n + 1 \in T
  PROVE  T = Nat
<1> DEFINE R == OpToRel(<, Nat)
<1>1. SUFFICES ASSUME Nat \ T # {} PROVE FALSE
  OBVIOUS
<1>2. IsWellFoundedOn(R, Nat)
  BY NatLessThanWellFounded
<1>3. PICK n \in Nat \ T : \A m \in Nat \ T : <<m, n>> \notin R
  <2> HIDE DEF R
  <2> QED BY <1>1, <1>2, WFMin
<1>4. \A m \in Nat \ T : ~(m < n)
  BY <1>3 DEF OpToRel
<1>5. n # 0 /\ n - 1 \in Nat /\ n - 1 < n
  OBVIOUS
<1> QED BY <1>4, <1>5

\* A number is in T when all that are less are.
LEMMA StrongInduction ==
  ASSUME NEW T, \A n \in Nat : (\A m \in Nat : m < n => m \in T) => n \in T
  PROVE  \A n \in Nat : n \in T
<1> DEFINE U == {n \in Nat : \A m \in Nat : m <= n => m \in T}
<1>1. 0 \in U
  BY SMT
<1>2. \A n \in U : n + 1 \in U
  <2> TAKE n \in U
  <2>1. \A m \in Nat : m < n + 1 => m \in T
    BY SMT
  <2>2. n + 1 \in T
    BY <2>1
  <2> QED BY <2>1, <2>2
<1>3. U = Nat
  <2> HIDE DEF U
  <2>1. U \in SUBSET Nat
    BY DEF U
  <2> QED BY <1>1, <1>2, <2>1, SetInduction
<1> QED BY <1>3

\* A function is defined by its equation when each value depends on those at
\* arguments of lesser measure.
Recursive(D, V, G, mu) ==
  /\ V # {} /\ G \in [[D -> V] -> [D -> V]]
  /\ \A f, g \in [D -> V] : \A n \in D :
       (\A m \in D : mu[m] < mu[n] => f[m] = g[m]) => G[f][n] = G[g][n]

LEMMA FixedPoint ==
  ASSUME NEW D, NEW V, NEW G, NEW N \in Nat, NEW mu \in [D -> 0..N], Recursive(D, V, G, mu)
  PROVE  \E f \in [D -> V] : f = G[f]
<1> USE DEF Recursive
<1> DEFINE Right(f, k) == \A n \in D : mu[n] < k => f[n] = G[f][n]
           T == {k \in Nat : \E f \in [D -> V] : Right(f, k)}
<1>1. 0 \in T
  <2>0. PICK v \in V : TRUE
    OBVIOUS
  <2> DEFINE f == [n \in D |-> v]
  <2>1. f \in [D -> V]
    OBVIOUS
  <2> HIDE DEF f
  <2>2. Right(f, 0)
    <3> TAKE n \in D
    <3>1. mu[n] \in 0..N
      OBVIOUS
    <3> QED BY <3>1
  <2> QED BY <2>1, <2>2
<1>2. ASSUME NEW k \in T PROVE k + 1 \in T
  <2>1. PICK f \in [D -> V] : Right(f, k)
    OBVIOUS
  <2> DEFINE h == G[f]
  <2>2. h \in [D -> V]
    OBVIOUS
  <2> HIDE DEF h
  <2>3. Right(h, k + 1)
    <3> SUFFICES ASSUME NEW n \in D, mu[n] < k + 1 PROVE h[n] = G[h][n]
      OBVIOUS
    <3>1. \A m \in D : mu[m] < mu[n] => mu[m] < k
      <4> TAKE m \in D
      <4>1. mu[m] \in 0..N /\ mu[n] \in 0..N /\ k \in Nat
        OBVIOUS
      <4> QED BY <4>1
    <3>2. \A m \in D : mu[m] < mu[n] => h[m] = f[m]
      BY <2>1, <3>1 DEF h
    <3>3. G[h][n] = G[f][n]
      BY <2>2, <3>2
    <3> QED BY <3>3 DEF h
  <2> QED BY <2>2, <2>3
<1>3. T = Nat
  <2>1. T \in SUBSET Nat
    OBVIOUS
  <2> HIDE DEF T
  <2> QED BY <1>1, <1>2, <2>1, SetInduction
<1>4. PICK f \in [D -> V] : Right(f, N + 1)
  <2>1. N + 1 \in T
    <3> HIDE DEF T
    <3> QED BY <1>3
  <2> QED BY <2>1
<1>5. \A n \in D : f[n] = G[f][n]
  <2> TAKE n \in D
  <2>1. mu[n] \in 0..N
    OBVIOUS
  <2> QED BY <1>4, <2>1
<1>6. G[f] \in [D -> V]
  OBVIOUS
<1> QED BY <1>5, <1>6

\* Numbers have a least one, and a greatest one when they are bounded.
LEMMA LeastNumber ==
  ASSUME NEW S \in SUBSET Nat, S # {}
  PROVE  Min(S) \in S /\ \A x \in S : Min(S) <= x
<1>1. \E x \in S : \A y \in S : x <= y
  <2> SUFFICES ASSUME \A x \in S : \E y \in S : ~(x <= y) PROVE FALSE
    OBVIOUS
  <2> DEFINE T == Nat \ S
  <2>1. \A n \in Nat : (\A m \in Nat : m < n => m \in T) => n \in T
    OBVIOUS
  <2> HIDE DEF T
  <2>2. \A n \in Nat : n \in T
    BY <2>1, StrongInduction
  <2> QED BY <2>2 DEF T
<1> QED BY <1>1 DEF Min

LEMMA GreatestNumber ==
  ASSUME NEW N \in Nat, NEW S \in SUBSET (0..N), S # {}
  PROVE  Max(S) \in S /\ \A x \in S : Max(S) >= x
<1> DEFINE R == {N - x : x \in S}
<1>1. R \in SUBSET Nat /\ R # {}
  <2>1. \A x \in S : N - x \in Nat
    OBVIOUS
  <2>2. PICK x \in S : TRUE
    OBVIOUS
  <2>3. N - x \in R
    OBVIOUS
  <2> QED BY <2>1, <2>3
<1> HIDE DEF R
<1>2. Min(R) \in R /\ \A y \in R : Min(R) <= y
  BY <1>1, LeastNumber
<1>3. PICK x \in S : Min(R) = N - x
  BY <1>2 DEF R
<1>4. \A y \in S : x >= y
  <2> TAKE y \in S
  <2>1. N - x <= N - y
    BY <1>2, <1>3 DEF R
  <2>2. x \in 0..N /\ y \in 0..N
    OBVIOUS
  <2> QED BY <2>1, <2>2
<1> QED BY <1>4 DEF Max

\* The larger of two, and the smaller.
LEMMA PairBounds ==
  ASSUME NEW a \in Int, NEW b \in Int
  PROVE  /\ Max({a, b}) = IF a >= b THEN a ELSE b
         /\ Min({a, b}) = IF a <= b THEN a ELSE b
<1>1. \E x \in {a, b} : \A y \in {a, b} : x >= y
  <2>1. CASE a >= b
    BY <2>1
  <2>2. CASE ~(a >= b)
    BY <2>2
  <2> QED BY <2>1, <2>2
<1>2. \E x \in {a, b} : \A y \in {a, b} : x <= y
  <2>1. CASE a <= b
    BY <2>1
  <2>2. CASE ~(a <= b)
    BY <2>2
  <2> QED BY <2>1, <2>2
<1>3. Max({a, b}) \in {a, b} /\ \A y \in {a, b} : Max({a, b}) >= y
  BY <1>1 DEF Max
<1>4. Min({a, b}) \in {a, b} /\ \A y \in {a, b} : Min({a, b}) <= y
  BY <1>2 DEF Min
<1> QED BY <1>3, <1>4

-----------------------------------------------------------------------------
(* Filtering.                                                              *)

\* The positions that are kept are numbered in their order, without a gap.
LEMMA Ranks ==
  ASSUME NEW K \in SUBSET (Nat \ {0}), IsFiniteSet(K)
  PROVE  /\ Cardinality(K) \in Nat
         /\ \A i \in K : Rank(K, i) \in 1..Cardinality(K)
         /\ \A i, j \in K : i < j => Rank(K, i) < Rank(K, j)
         /\ \A n \in 1..Cardinality(K) : \E i \in K : Rank(K, i) = n
<1> DEFINE below(i) == {j \in K : j <= i}
           rank == [i \in K |-> Rank(K, i)]
           c == Cardinality(K)
<1>1. c \in Nat
  BY FS_CardinalityType
<1>2. \A i \in K : IsFiniteSet(below(i)) /\ Cardinality(below(i)) \in Nat /\ Cardinality(below(i)) <= c
  <2> TAKE i \in K
  <2>1. below(i) \in SUBSET K
    OBVIOUS
  <2> QED BY <2>1, FS_Subset, FS_CardinalityType
<1>3. \A i \in K : Rank(K, i) \in 1..c
  <2> TAKE i \in K
  <2>1. below(i) # {}
    OBVIOUS
  <2>2. Cardinality(below(i)) # 0
    BY <1>2, <2>1, FS_EmptySet
  <2> QED BY <1>1, <1>2, <2>2 DEF Rank
<1>4. ASSUME NEW i \in K, NEW j \in K, i < j
      PROVE  Rank(K, i) < Rank(K, j)
  <2>1. below(i) \in SUBSET below(j) /\ below(i) # below(j)
    <3>1. j \in below(j) /\ j \notin below(i)
      BY <1>4
    <3>2. \A k \in K : k <= i => k <= j
      BY <1>4
    <3>3. below(i) \subseteq below(j)
      BY <3>2
    <3> HIDE DEF below
    <3> QED BY <3>1, <3>3
  <2>2. Cardinality(below(i)) <= Cardinality(below(j)) /\ Cardinality(below(i)) # Cardinality(below(j))
    BY <1>2, <2>1, FS_Subset
  <2> QED BY <1>2, <2>2 DEF Rank
<1>5. rank \in Injection(K, 1..c)
  <2>1. rank \in [K -> 1..c]
    BY <1>3
  <2>2. \A i, j \in K : i # j => rank[i] # rank[j]
    BY <1>3, <1>4
  <2> QED BY <2>1, <2>2 DEF Injection, IsInjective
<1>6. IsFiniteSet(1..c) /\ Cardinality(1..c) = c
  BY <1>1, FS_Interval
<1>7. rank \in Surjection(K, 1..c)
  BY <1>5, <1>6, FS_Injection
<1>8. \A n \in 1..c : \E i \in K : rank[i] = n
  BY <1>7 DEF Surjection
<1> QED BY <1>1, <1>3, <1>4, <1>8

\* The place in s of the n-th element that is kept.
Nth(s, V, n) == CHOOSE i \in At(s, V) : Rank(At(s, V), i) = n

LEMMA Placed ==
  ASSUME NEW S, NEW s \in Seq(S), NEW V
  PROVE  LET c == Cardinality(At(s, V)) IN
         /\ c \in Nat /\ c <= Len(s)
         /\ Only(s, V) = [n \in 1..c |-> s[Nth(s, V, n)]]
         /\ \A n \in 1..c : Nth(s, V, n) \in At(s, V) /\ Rank(At(s, V), Nth(s, V, n)) = n
         /\ \A m, n \in 1..c : m < n => Nth(s, V, m) < Nth(s, V, n)
         /\ \A i \in At(s, V) : Rank(At(s, V), i) \in 1..c /\ Nth(s, V, Rank(At(s, V), i)) = i
<1> DEFINE K == At(s, V)
           c == Cardinality(K)
<1>1. DOMAIN s = 1..Len(s) /\ Len(s) \in Nat
  BY LenProperties
<1>2. K \subseteq 1..Len(s)
  BY <1>1 DEF At
<1>3. IsFiniteSet(1..Len(s)) /\ Cardinality(1..Len(s)) = Len(s)
  BY <1>1, FS_Interval
<1>4. IsFiniteSet(K) /\ c <= Len(s)
  BY <1>2, <1>3, FS_Subset
<1>5. K \in SUBSET (Nat \ {0})
  BY <1>1, <1>2
<1> HIDE DEF K
<1>6. /\ c \in Nat
      /\ \A i \in K : Rank(K, i) \in 1..c
      /\ \A i, j \in K : i < j => Rank(K, i) < Rank(K, j)
      /\ \A n \in 1..c : \E i \in K : Rank(K, i) = n
  BY <1>4, <1>5, Ranks
<1>7. \A i, j \in K : Rank(K, i) = Rank(K, j) => i = j
  BY <1>5, <1>6
<1>8. \A n \in 1..c : Nth(s, V, n) \in K /\ Rank(K, Nth(s, V, n)) = n
  BY <1>6 DEF Nth, K
<1>9. \A i \in K : Nth(s, V, Rank(K, i)) = i
  BY <1>6, <1>7, <1>8
<1>10. \A m, n \in 1..c : m < n => Nth(s, V, m) < Nth(s, V, n)
  <2> SUFFICES ASSUME NEW m \in 1..c, NEW n \in 1..c, m < n, ~(Nth(s, V, m) < Nth(s, V, n)) PROVE FALSE
    OBVIOUS
  <2>1. Nth(s, V, m) \in Nat /\ Nth(s, V, n) \in Nat
    BY <1>5, <1>8
  <2>2. Nth(s, V, m) = Nth(s, V, n) \/ Nth(s, V, n) < Nth(s, V, m)
    BY <2>1
  <2> QED BY <1>6, <1>8, <2>2
<1>11. Only(s, V) = [n \in 1..c |-> s[Nth(s, V, n)]]
  BY DEF Only, K, Nth
<1> QED BY <1>4, <1>6, <1>8, <1>9, <1>10, <1>11 DEF K

\* What remains is of the list, in V and each place of it once.
LEMMA OnlyProperties ==
  ASSUME NEW S, NEW s \in Seq(S), NEW V
  PROVE  /\ Only(s, V) \in Seq(S) /\ Len(Only(s, V)) <= Len(s)
         /\ \A n \in 1..Len(Only(s, V)) : Only(s, V)[n] \in V
         /\ \E f \in [1..Len(Only(s, V)) -> 1..Len(s)] :
              /\ \A n \in 1..Len(Only(s, V)) : Only(s, V)[n] = s[f[n]]
              /\ \A m, n \in 1..Len(Only(s, V)) : m < n => f[m] < f[n]
<1> DEFINE K == At(s, V)
           c == Cardinality(K)
           f == [n \in 1..c |-> Nth(s, V, n)]
<1>1. /\ c \in Nat /\ c <= Len(s)
      /\ Only(s, V) = [n \in 1..c |-> s[Nth(s, V, n)]]
      /\ \A n \in 1..c : Nth(s, V, n) \in K
      /\ \A m, n \in 1..c : m < n => Nth(s, V, m) < Nth(s, V, n)
  BY Placed
<1>2. /\ DOMAIN s = 1..Len(s) /\ Len(s) \in Nat
      /\ K \subseteq 1..Len(s) /\ \A i \in K : s[i] \in V /\ s[i] \in S
  BY LenProperties DEF At
<1> HIDE DEF K
<1>3. Only(s, V) \in [1..c -> S]
  BY <1>1, <1>2
<1>4. Only(s, V) \in Seq(S) /\ Len(Only(s, V)) = c
  BY <1>1, <1>3
<1>5. f \in [1..c -> 1..Len(s)] /\ \A m, n \in 1..c : m < n => f[m] < f[n]
  BY <1>1, <1>2
<1>6. \A n \in 1..c : Only(s, V)[n] = s[f[n]] /\ Only(s, V)[n] \in V
  BY <1>1, <1>2
<1> QED BY <1>1, <1>4, <1>5, <1>6

\* And nothing of V is left out.
LEMMA OnlyComplete ==
  ASSUME NEW S, NEW s \in Seq(S), NEW V, NEW i \in DOMAIN s, s[i] \in V
  PROVE  \E n \in 1..Len(Only(s, V)) : Only(s, V)[n] = s[i]
<1> DEFINE K == At(s, V)
           c == Cardinality(K)
           n == Rank(K, i)
<1>1. /\ c \in Nat /\ Only(s, V) = [m \in 1..c |-> s[Nth(s, V, m)]]
      /\ i \in K => n \in 1..c /\ Nth(s, V, n) = i
  BY Placed
<1>2. i \in K
  BY DEF At
<1> HIDE DEF n, c
<1>3. n \in 1..c /\ Only(s, V)[n] = s[i]
  BY <1>1, <1>2
<1>4. Only(s, V) \in Seq(S)
  BY OnlyProperties
<1>5. Len(Only(s, V)) = c
  BY <1>1, <1>4
<1> QED BY <1>3, <1>5

LEMMA OnlyEmpty ==
  ASSUME NEW V
  PROVE  Only(<<>>, V) = <<>>
<1>1. <<>> \in Seq({}) /\ Len(<<>>) = 0
  OBVIOUS
<1>2. Only(<<>>, V) \in Seq({}) /\ Len(Only(<<>>, V)) <= 0
  BY <1>1, OnlyProperties
<1> QED BY <1>2

LEMMA OnlyAppend ==
  ASSUME NEW S, NEW s \in Seq(S), NEW e \in S, NEW V
  PROVE  Only(Append(s, e), V) = IF e \in V THEN Append(Only(s, V), e) ELSE Only(s, V)
<1> DEFINE l == Len(s)
           t == Append(s, e)
           K == At(s, V)
           L == At(t, V)
           c == Cardinality(K)
<1>1. /\ t \in Seq(S) /\ DOMAIN s = 1..l /\ DOMAIN t = 1..(l + 1) /\ l \in Nat
      /\ t[l + 1] = e /\ \A i \in 1..l : t[i] = s[i]
  OBVIOUS
<1>2. K \subseteq 1..l /\ L = IF e \in V THEN K \cup {l + 1} ELSE K
  BY <1>1 DEF At
<1>3. IsFiniteSet(K)
  <2>1. IsFiniteSet(1..l)
    BY <1>1, FS_Interval
  <2> HIDE DEF K, L, t
  <2> QED BY <1>2, <2>1, FS_Subset
<1>4. /\ c \in Nat
      /\ Only(s, V) = [n \in 1..c |-> s[Nth(s, V, n)]]
      /\ \A n \in 1..c : Nth(s, V, n) \in K
      /\ \A i \in K : Rank(K, i) \in 1..c /\ Nth(s, V, Rank(K, i)) = i
  BY Placed
<1>5. /\ Only(t, V) = [n \in 1..Cardinality(L) |-> t[Nth(t, V, n)]]
      /\ \A i \in L : Nth(t, V, Rank(L, i)) = i
  BY <1>1, Placed
<1> HIDE DEF K, L, t, l
<1>6. CASE e \notin V
  <2>1. L = K /\ Cardinality(L) = c
    BY <1>2, <1>6
  <2>2. \A n \in 1..c : Nth(t, V, n) = Nth(s, V, n)
    BY <2>1 DEF Nth, K, L
  <2>3. \A n \in 1..c : t[Nth(t, V, n)] = s[Nth(s, V, n)]
    BY <1>1, <1>2, <1>4, <2>2
  <2>4. Only(t, V) = Only(s, V)
    BY <1>4, <1>5, <2>1, <2>3
  <2> QED BY <1>6, <2>4 DEF t
<1>7. CASE e \in V
  <2>1. L = K \cup {l + 1} /\ Cardinality(L) = c + 1
    <3>1. L = K \cup {l + 1} /\ l + 1 \notin K
      BY <1>1, <1>2, <1>7
    <3> QED BY <1>3, <3>1, FS_AddElement
  <2>2. \A i \in K : Rank(L, i) = Rank(K, i)
    <3> TAKE i \in K
    <3>1. {j \in L : j <= i} = {j \in K : j <= i}
      BY <1>1, <1>2, <2>1
    <3> QED BY <3>1 DEF Rank
  <2>3. Rank(L, l + 1) = c + 1
    <3>1. \A j \in L : j \in Int /\ j <= l + 1
      BY <1>1, <1>2, <2>1
    <3>2. {j \in L : j <= l + 1} = L
      BY <3>1
    <3> QED BY <2>1, <3>2 DEF Rank
  <2>4. \A n \in 1..c : Nth(t, V, n) = Nth(s, V, n)
    <3> TAKE n \in 1..c
    <3>1. Nth(s, V, n) \in K /\ Nth(s, V, n) \in L /\ Rank(K, Nth(s, V, n)) = n
      BY <1>4, <2>1, Placed DEF K
    <3> QED BY <1>5, <2>2, <3>1
  <2>5. Nth(t, V, c + 1) = l + 1
    BY <1>5, <2>1, <2>3
  <2>6. Only(s, V) \in [1..c -> S]
    <3>1. \A i \in 1..l : s[i] \in S
      BY <1>1
    <3>2. \A n \in 1..c : s[Nth(s, V, n)] \in S
      BY <1>2, <1>4, <3>1
    <3> HIDE DEF c
    <3> QED BY <1>4, <3>2
  <2>7. Only(s, V) \in Seq(S) /\ Len(Only(s, V)) = c
    BY <1>4, <2>6
  <2>8. \A n \in 1..c : Only(t, V)[n] = Only(s, V)[n]
    <3>1. \A n \in 1..c : n \in 1..Cardinality(L) /\ t[Nth(t, V, n)] = s[Nth(s, V, n)]
      <4> HIDE DEF c
      <4> TAKE n \in 1..c
      <4>1. n \in 1..Cardinality(L)
        BY <1>4, <2>1
      <4>2. Nth(s, V, n) \in 1..l
        BY <1>2, <1>4
      <4>3. t[Nth(s, V, n)] = s[Nth(s, V, n)]
        BY <1>1, <4>2
      <4> QED BY <2>4, <4>1, <4>3
    <3> HIDE DEF c
    <3> QED BY <1>4, <1>5, <3>1
  <2>9. Only(t, V)[c + 1] = e
    BY <1>1, <1>4, <1>5, <2>1, <2>5
  <2>10. Only(t, V) \in Seq(S) /\ Len(Only(t, V)) = c + 1
    <3>1. DOMAIN Only(t, V) = 1..(c + 1)
      BY <1>5, <2>1
    <3>2. Only(t, V) \in Seq(S)
      BY <1>1, OnlyProperties
    <3> QED BY <1>4, <3>1, <3>2
  <2>11. Append(Only(s, V), e) \in Seq(S) /\ Len(Append(Only(s, V), e)) = c + 1
         /\ Append(Only(s, V), e)[c + 1] = e
         /\ \A n \in 1..c : Append(Only(s, V), e)[n] = Only(s, V)[n]
    BY <2>7
  <2>12. Only(t, V) = Append(Only(s, V), e)
    <3>1. \A n \in 1..(c + 1) : Only(t, V)[n] = Append(Only(s, V), e)[n]
      BY <1>4, <2>8, <2>9, <2>11
    <3> QED BY <2>10, <2>11, <3>1, SeqEqual
  <2> QED BY <1>7, <2>12 DEF t
<1> QED BY <1>6, <1>7

\* A list with nothing to leave out remains as it is.
LEMMA OnlyWhole ==
  ASSUME NEW S, NEW s \in Seq(S), NEW V, \A i \in 1..Len(s) : s[i] \in V
  PROVE  Only(s, V) = s
<1> DEFINE l == Len(s)
           K == At(s, V)
           c == Cardinality(K)
<1>1. l \in Nat /\ DOMAIN s = 1..l
  OBVIOUS
<1>2. K = 1..l
  BY <1>1 DEF At
<1>3. \A i \in 0..l : Cardinality(1..i) = i
  <2> TAKE i \in 0..l
  <2>1. Cardinality(1..i) = IF 1 > i THEN 0 ELSE i - 1 + 1
    BY <1>1, FS_Interval
  <2> QED BY <1>1, <2>1
<1>4. c = l
  BY <1>1, <1>2, <1>3
<1>5. \A i \in 1..l : Rank(K, i) = i
  <2> TAKE i \in 1..l
  <2>1. {j \in K : j <= i} = 1..i
    BY <1>1, <1>2
  <2>2. Cardinality(1..i) = i
    BY <1>1, <1>3
  <2> HIDE DEF K
  <2> QED BY <2>1, <2>2 DEF Rank
<1>6. /\ Only(s, V) = [n \in 1..l |-> s[Nth(s, V, n)]]
      /\ \A n \in 1..l : Nth(s, V, n) \in K /\ Rank(K, Nth(s, V, n)) = n
  BY <1>4, Placed
<1>7. \A n \in 1..l : Nth(s, V, n) = n
  BY <1>2, <1>5, <1>6
<1>8. Only(s, V) = [n \in 1..l |-> s[n]]
  BY <1>6, <1>7
<1> QED BY <1>1, <1>8

LEMMA OnInterval ==
  ASSUME NEW n \in Nat, NEW S, NEW g \in [1..n -> S]
  PROVE  g \in Seq(S) /\ Len(g) = n
  OBVIOUS

\* What is added to a list with none of V is the last of V, if it is of V.
LEMMA LastOfKind ==
  ASSUME NEW S, NEW s \in Seq(S), NEW e \in S, NEW V, \A i \in DOMAIN s : s[i] \notin V
  PROVE  \A i \in DOMAIN Append(s, e) : Append(s, e)[i] \in V => i = Len(Append(s, e))
<1>1. /\ Append(s, e) \in Seq(S) /\ Len(Append(s, e)) = Len(s) + 1
      /\ \A n \in 1..Len(s) : Append(s, e)[n] = s[n]
  BY AppendProperties
<1>2. /\ Len(s) \in Nat /\ DOMAIN s = 1..Len(s)
      /\ DOMAIN Append(s, e) = 1..Len(Append(s, e))
  BY <1>1, LenProperties
<1> QED BY <1>1, <1>2

-----------------------------------------------------------------------------
(* Sorting.                                                                *)

\* A strict total order of S.
Orders(R, S) ==
  /\ \A i \in S : <<i, i>> \notin R
  /\ \A i, j, k \in S : <<i, j>> \in R /\ <<j, k>> \in R => <<i, k>> \in R
  /\ \A i, j \in S : i = j \/ <<i, j>> \in R \/ <<j, i>> \in R

\* A list that is sorted has each member once, and earlier the one that is less.
LEMMA SortedByProperties ==
  ASSUME NEW S, IsFiniteSet(S), NEW R, Orders(R, S)
  PROVE  /\ Cardinality(S) \in Nat
         /\ SortedBy(S, R) \in [1..Cardinality(S) -> S]
         /\ \A p, q \in 1..Cardinality(S) : p < q => <<SortedBy(S, R)[p], SortedBy(S, R)[q]>> \in R
         /\ \A i \in S : \E n \in 1..Cardinality(S) : SortedBy(S, R)[n] = i
<1> DEFINE c == Cardinality(S)
           before(i) == Before(S, R, i)
           place == [i \in S |-> Cardinality(before(i)) + 1]
           v == SortedBy(S, R)
<1>1. c \in Nat
  BY FS_CardinalityType
<1>2. \A i \in S : /\ IsFiniteSet(before(i)) /\ Cardinality(before(i)) \in Nat
                   /\ before(i) \in SUBSET S /\ i \notin before(i)
  <2> TAKE i \in S
  <2>1. before(i) \in SUBSET S /\ i \notin before(i)
    BY DEF Before, Orders
  <2> QED BY <2>1, FS_Subset, FS_CardinalityType
<1>3. \A i \in S : Cardinality(before(i)) + 1 \in 1..c
  <2> TAKE i \in S
  <2>1. Cardinality(before(i)) <= c /\ Cardinality(before(i)) # c
    <3> DEFINE b == before(i)
    <3>1. b \in SUBSET S /\ i \notin b
      BY <1>2
    <3> HIDE DEF b
    <3>2. Cardinality(b) <= c /\ (c = Cardinality(b) => S = b)
      BY <3>1, FS_Subset
    <3> QED BY <3>1, <3>2 DEF b
  <2> QED BY <1>1, <1>2, <2>1
<1>4. ASSUME NEW i \in S, NEW j \in S, <<i, j>> \in R
      PROVE  Cardinality(before(i)) < Cardinality(before(j))
  <2> DEFINE a == before(i)
             b == before(j)
  <2>1. a \in SUBSET b /\ i \in b /\ i \notin a /\ IsFiniteSet(b)
    <3>1. \A k \in S : <<k, i>> \in R => <<k, j>> \in R
      BY <1>4 DEF Orders
    <3> QED BY <1>2, <1>4, <3>1 DEF Before
  <2>2. Cardinality(a) \in Nat /\ Cardinality(b) \in Nat
    BY <1>2
  <2> HIDE DEF a, b
  <2>3. Cardinality(a) <= Cardinality(b) /\ Cardinality(a) # Cardinality(b)
    BY <2>1, FS_Subset
  <2>4. Cardinality(a) < Cardinality(b)
    BY <2>2, <2>3
  <2> QED BY <2>4 DEF a, b
<1> HIDE DEF before, c
<1>5. \A i, j \in S : place[i] = place[j] => i = j
  <2> SUFFICES ASSUME NEW i \in S, NEW j \in S, i # j PROVE place[i] # place[j]
    OBVIOUS
  <2>1. <<i, j>> \in R \/ <<j, i>> \in R
    BY DEF Orders
  <2>2. Cardinality(before(i)) \in Nat /\ Cardinality(before(j)) \in Nat
    BY <1>2
  <2>3. Cardinality(before(i)) # Cardinality(before(j))
    BY <1>4, <2>1, <2>2
  <2> QED BY <2>2, <2>3
<1>6. place \in Injection(S, 1..c)
  <2>1. place \in [S -> 1..c]
    BY <1>3
  <2> HIDE DEF place
  <2> QED BY <1>5, <2>1 DEF Injection, IsInjective
<1>7. \A n \in 1..c : \E i \in S : place[i] = n
  <2>1. IsFiniteSet(1..c) /\ Cardinality(1..c) = c
    BY <1>1, FS_Interval
  <2>2. Cardinality(S) = c
    BY DEF c
  <2> HIDE DEF place
  <2>3. place \in Surjection(S, 1..c)
    BY <1>6, <2>1, <2>2, FS_Injection
  <2> QED BY <2>3 DEF Surjection
<1>8. v = [n \in 1..c |-> CHOOSE i \in S : Cardinality(before(i)) = n - 1]
  BY DEF SortedBy, before, c
<1>9. \A n \in 1..c : v[n] \in S /\ place[v[n]] = n
  <2> TAKE n \in 1..c
  <2>1. PICK i \in S : place[i] = n
    BY <1>7
  <2>2. Cardinality(before(i)) = n - 1
    BY <1>2, <2>1
  <2>3. v[n] \in S /\ Cardinality(before(v[n])) = n - 1
    BY <1>8, <2>2
  <2> QED BY <2>3
<1>10. \A i \in S : place[i] \in 1..c /\ v[place[i]] = i
  BY <1>3, <1>5, <1>9
<1>11. ASSUME NEW p \in 1..c, NEW q \in 1..c, p < q
       PROVE  <<v[p], v[q]>> \in R
  <2> DEFINE i == v[p]
             j == v[q]
  <2>1. i \in S /\ j \in S /\ place[i] = p /\ place[j] = q
    BY <1>9
  <2> HIDE DEF i, j
  <2>2. /\ Cardinality(before(i)) \in Nat /\ Cardinality(before(j)) \in Nat
        /\ Cardinality(before(i)) + 1 = p /\ Cardinality(before(j)) + 1 = q
    BY <1>2, <2>1
  <2>3. <<j, i>> \notin R /\ i # j
    BY <1>4, <1>11, <2>1, <2>2
  <2>4. <<i, j>> \in R
    BY <2>1, <2>3 DEF Orders
  <2> QED BY <2>4 DEF i, j
<1>12. v \in [1..c -> S]
  BY <1>8, <1>9
<1> HIDE DEF place, v
<1> QED BY <1>1, <1>10, <1>11, <1>12 DEF c, v

\* Those that come before the k-th of a sorted list are fewer than k.
LEMMA FewBefore ==
  ASSUME NEW S, IsFiniteSet(S), NEW R, Orders(R, S), NEW k \in 1..Cardinality(S),
         NEW H \in SUBSET S, \A n \in H : <<n, SortedBy(S, R)[k]>> \in R
  PROVE  IsFiniteSet(H) /\ Cardinality(H) \in Nat /\ Cardinality(H) <= k - 1
<1> DEFINE c == Cardinality(S)
           v == SortedBy(S, R)
           I == {v[j] : j \in 1..(k - 1)}
           f == [j \in 1..(k - 1) |-> v[j]]
<1>1. /\ c \in Nat /\ v \in [1..c -> S]
      /\ \A p, q \in 1..c : p < q => <<v[p], v[q]>> \in R
      /\ \A i \in S : \E n \in 1..c : v[n] = i
  BY SortedByProperties
<1> HIDE DEF v, c
<1>2. k \in 1..c /\ k - 1 \in Nat
  BY <1>1 DEF c
<1>3. H \subseteq I
  <2> SUFFICES ASSUME NEW n \in H PROVE n \in I
    OBVIOUS
  <2>1. <<n, v[k]>> \in R /\ n \in S /\ v[k] \in S
    BY <1>1, <1>2 DEF v
  <2>2. PICK j \in 1..c : v[j] = n
    BY <1>1, <2>1
  <2>3. j # k
    BY <2>1, <2>2 DEF Orders
  <2>4. ~(k < j)
    <3> SUFFICES ASSUME k < j PROVE FALSE
      OBVIOUS
    <3>1. <<v[k], n>> \in R
      BY <1>1, <1>2, <2>2
    <3>2. <<n, n>> \in R
      BY <2>1, <3>1 DEF Orders
    <3> QED BY <2>1, <3>2 DEF Orders
  <2>5. j \in 1..(k - 1)
    BY <1>1, <1>2, <2>3, <2>4
  <2> QED BY <2>2, <2>5
<1>4. f \in Surjection(1..(k - 1), I)
  <2>1. f \in [1..(k - 1) -> I]
    OBVIOUS
  <2>2. \A t \in I : \E j \in 1..(k - 1) : f[j] = t
    OBVIOUS
  <2> QED BY <2>1, <2>2 DEF Surjection
<1>5. IsFiniteSet(1..(k - 1)) /\ Cardinality(1..(k - 1)) = k - 1
  <2>1. Cardinality(1..(k - 1)) = IF 1 > k - 1 THEN 0 ELSE (k - 1) - 1 + 1
    BY <1>2, FS_Interval
  <2> QED BY <1>2, <2>1, FS_Interval
<1>6. IsFiniteSet(I) /\ Cardinality(I) <= k - 1
  <2> HIDE DEF I, f
  <2> QED BY <1>4, <1>5, FS_Surjection
<1>7. IsFiniteSet(H) /\ Cardinality(H) <= Cardinality(I)
  <2> HIDE DEF I
  <2> QED BY <1>3, <1>6, FS_Subset
<1>8. Cardinality(H) \in Nat /\ Cardinality(I) \in Nat
  <2> HIDE DEF I
  <2> QED BY <1>6, <1>7, FS_CardinalityType
<1> QED BY <1>2, <1>6, <1>7, <1>8

-----------------------------------------------------------------------------
(* The strip: what each reducer case keeps of a well-formed one.           *)

WellTyped(s, T) == StripOK(s) /\ s.tab \in [OpenTabs(s) -> T]

\* The records are rewritten in place.
LEMMA Retab ==
  ASSUME NEW T, NEW s, WellTyped(s, T), NEW g \in [OpenTabs(s) -> T]
  PROVE  /\ WellTyped([s EXCEPT !.tab = g], T)
         /\ OpenTabs([s EXCEPT !.tab = g]) = OpenTabs(s)
         /\ [s EXCEPT !.tab = g].active = s.active /\ [s EXCEPT !.tab = g].order = s.order
         /\ [s EXCEPT !.tab = g].tab = g
<1> DEFINE n == [s EXCEPT !.tab = g]
<1>1. s = [order |-> s.order, active |-> s.active, tab |-> s.tab]
  BY DEF WellTyped, StripOK
<1>2. n = [order |-> s.order, active |-> s.active, tab |-> g]
  BY <1>1
<1>3. n.order = s.order /\ n.active = s.active /\ n.tab = g
  BY <1>2
<1>4. DOMAIN n.tab = DOMAIN s.tab
  BY <1>3 DEF WellTyped, OpenTabs
<1> QED
  BY <1>2, <1>3, <1>4 DEF WellTyped, StripOK, OpenTabs

\* Another open tab becomes active.
LEMMA ActivateOpen ==
  ASSUME NEW T, NEW s, WellTyped(s, T), NEW t \in OpenTabs(s)
  PROVE  /\ WellTyped(SetActive(s, t), T)
         /\ SetActive(s, t).tab = s.tab
         /\ OpenTabs(SetActive(s, t)) = OpenTabs(s)
         /\ SetActive(s, t).active = t
<1> DEFINE n == SetActive(s, t)
<1>1. s = [order |-> s.order, active |-> s.active, tab |-> s.tab]
  BY DEF WellTyped, StripOK
<1>2. n = [order |-> s.order, active |-> t, tab |-> s.tab]
  BY <1>1 DEF SetActive
<1>3. n.order = s.order /\ n.active = t /\ n.tab = s.tab
  BY <1>2
<1> QED
  BY <1>2, <1>3 DEF WellTyped, StripOK, OpenTabs

\* A tab opens at the right end, and is active.
LEMMA AppendFresh ==
  ASSUME NEW T, NEW s, WellTyped(s, T), NEW t \in TabIds \ OpenTabs(s), NEW new \in T
  PROVE  /\ WellTyped(AppendActivate(s, t, new), T)
         /\ OpenTabs(AppendActivate(s, t, new)) = OpenTabs(s) \cup {t}
         /\ \A u \in OpenTabs(s) : AppendActivate(s, t, new).tab[u] = s.tab[u]
         /\ AppendActivate(s, t, new).tab[t] = new
         /\ AppendActivate(s, t, new).active = t
<1> DEFINE n == AppendActivate(s, t, new)
           o == Append(s.order, t)
           f == [u \in OpenTabs(s) \cup {t} |-> IF u = t THEN new ELSE s.tab[u]]
<1>1. n = [order |-> o, active |-> t, tab |-> f]
  BY DEF AppendActivate
<1>2. n.order = o /\ n.active = t /\ n.tab = f
  BY <1>1
<1>3. s.order \in Seq(TabIds) /\ OpenTabs(s) = {s.order[i] : i \in 1..Len(s.order)}
  BY DEF WellTyped, StripOK
<1>4. /\ o \in Seq(TabIds) /\ Len(o) = Len(s.order) + 1
      /\ \A i \in 1..Len(s.order) : o[i] = s.order[i]
      /\ o[Len(s.order) + 1] = t
  BY <1>3
<1>5. {o[i] : i \in 1..Len(o)} = OpenTabs(s) \cup {t}
  BY <1>3, <1>4
<1>6. \A i, j \in 1..Len(o) : o[i] = o[j] => i = j
  <2>1. \A i, j \in 1..Len(s.order) : s.order[i] = s.order[j] => i = j
    BY DEF WellTyped, StripOK
  <2>2. \A i \in 1..Len(s.order) : s.order[i] # t
    BY <1>3
  <2> QED BY <1>3, <1>4, <2>1, <2>2
<1>7. f \in [OpenTabs(s) \cup {t} -> T]
  BY DEF WellTyped
<1>8. OpenTabs(n) = OpenTabs(s) \cup {t}
  BY <1>2 DEF OpenTabs
<1>9. f[t] = new /\ \A u \in OpenTabs(s) : f[u] = s.tab[u]
  <2>1. t \notin OpenTabs(s)
    OBVIOUS
  <2> QED BY <2>1
<1> HIDE DEF n, f, o
<1>10. n.tab[t] = new /\ \A u \in OpenTabs(s) : n.tab[u] = s.tab[u]
  BY <1>2, <1>9
<1>11. StripOK(n)
  <2>1. n = [order |-> n.order, active |-> n.active, tab |-> n.tab]
    BY <1>1, <1>2
  <2>2. n.order \in Seq(TabIds) /\ Len(n.order) >= 1
    BY <1>2, <1>3, <1>4
  <2> QED BY <1>2, <1>5, <1>6, <1>8, <2>1, <2>2 DEF StripOK
<1>12. n.tab \in [OpenTabs(n) -> T]
  BY <1>2, <1>7, <1>8
<1> QED
  BY <1>2, <1>8, <1>10, <1>11, <1>12 DEF n, WellTyped

\* A tab closes that is not the only one; its neighbour takes over.
LEMMA CloseOpen ==
  ASSUME NEW T, NEW s, WellTyped(s, T), NEW id \in OpenTabs(s), Len(s.order) > 1
  PROVE  /\ WellTyped(Close(s, id), T)
         /\ OpenTabs(Close(s, id)) = OpenTabs(s) \ {id}
         /\ \A u \in OpenTabs(s) \ {id} : Close(s, id).tab[u] = s.tab[u]
         /\ Close(s, id).active \in OpenTabs(s) \ {id}
         /\ id # s.active => Close(s, id).active = s.active
<1> DEFINE i == IndexOf(s, id)
           rest == RemoveAt(s.order, i)
           successor == rest[IF i <= Len(rest) THEN i ELSE Len(rest)]
           a == IF id = s.active THEN successor ELSE s.active
           f == [u \in OpenTabs(s) \ {id} |-> s.tab[u]]
           n == Close(s, id)
<1>1. /\ s.order \in Seq(TabIds) /\ OpenTabs(s) = {s.order[k] : k \in 1..Len(s.order)}
      /\ \A j, k \in 1..Len(s.order) : s.order[j] = s.order[k] => j = k
      /\ s.active \in OpenTabs(s)
      /\ Len(s.order) \in Nat
  BY DEF WellTyped, StripOK
<1>2. i \in 1..Len(s.order) /\ s.order[i] = id
  <2>1. \E k \in 1..Len(s.order) : s.order[k] = id
    BY <1>1
  <2> QED BY <2>1 DEF IndexOf
<1>3. n = [order |-> rest, active |-> a, tab |-> f]
  BY DEF Close
<1> HIDE DEF i, n, f, a
<1>4. /\ rest \in Seq(TabIds) /\ Len(rest) = Len(s.order) - 1
      /\ \A k \in 1..Len(rest) : rest[k] = IF k < i THEN s.order[k] ELSE s.order[k + 1]
  <2> DEFINE u == SubSeq(s.order, 1, i - 1)
             v == SubSeq(s.order, i + 1, Len(s.order))
  <2>1. /\ u \in Seq(TabIds) /\ Len(u) = i - 1
        /\ \A k \in 1..(i - 1) : u[k] = s.order[k]
    BY <1>1, <1>2
  <2>2. /\ v \in Seq(TabIds) /\ Len(v) = Len(s.order) - i
        /\ \A k \in 1..(Len(s.order) - i) : v[k] = s.order[k + i]
    BY <1>1, <1>2
  <2>3. /\ u \o v \in Seq(TabIds) /\ Len(u \o v) = Len(u) + Len(v)
        /\ \A k \in 1..(Len(u) + Len(v)) :
             (u \o v)[k] = IF k <= Len(u) THEN u[k] ELSE v[k - Len(u)]
    BY <2>1, <2>2, ConcatProperties
  <2>4. /\ rest \in Seq(TabIds) /\ Len(rest) = Len(s.order) - 1
        /\ \A k \in 1..Len(rest) :
             rest[k] = IF k <= i - 1 THEN u[k] ELSE v[k - (i - 1)]
    <3>1. rest = u \o v
      BY DEF RemoveAt, u, v
    <3> HIDE DEF rest, u, v
    <3> QED BY <1>1, <1>2, <2>1, <2>2, <2>3, <3>1
  <2> HIDE DEF rest, u, v
  <2>5. ASSUME NEW k \in 1..Len(rest)
        PROVE  rest[k] = IF k < i THEN s.order[k] ELSE s.order[k + 1]
    <3>1. CASE k < i
      <4>1. rest[k] = u[k]
        BY <1>2, <2>4, <3>1
      <4>2. k \in 1..(i - 1)
        BY <1>2, <2>4, <3>1
      <4> QED BY <2>1, <3>1, <4>1, <4>2
    <3>2. CASE k >= i
      <4>1. rest[k] = v[k - (i - 1)]
        BY <1>1, <1>2, <2>1, <2>2, <2>4, <3>2
      <4>2. k - (i - 1) \in 1..(Len(s.order) - i) /\ (k - (i - 1)) + i = k + 1
        BY <1>1, <1>2, <2>4, <3>2
      <4>3. v[k - (i - 1)] = s.order[(k - (i - 1)) + i]
        BY <2>2, <4>2
      <4> QED BY <1>2, <3>2, <4>1, <4>2, <4>3
    <3> QED BY <1>2, <3>1, <3>2
  <2> QED BY <2>4, <2>5
<1> HIDE DEF rest
<1>5. {rest[k] : k \in 1..Len(rest)} = OpenTabs(s) \ {id}
  <2>1. ASSUME NEW k \in 1..Len(rest)
        PROVE  rest[k] \in OpenTabs(s) \ {id}
    <3>1. PICK j \in 1..Len(s.order) : rest[k] = s.order[j] /\ j # i
      <4>1. CASE k < i
        BY <1>2, <1>4, <4>1
      <4>2. CASE ~(k < i)
        <5>1. k + 1 \in 1..Len(s.order) /\ k + 1 # i
          BY <1>2, <1>4, <4>2
        <5> QED BY <1>4, <4>2, <5>1
      <4> QED BY <4>1, <4>2
    <3> QED BY <1>1, <1>2, <3>1
  <2>2. ASSUME NEW t \in OpenTabs(s) \ {id}
        PROVE  \E k \in 1..Len(rest) : rest[k] = t
    <3>1. PICK k \in 1..Len(s.order) : s.order[k] = t
      BY <1>1
    <3>2. CASE k < i
      BY <1>1, <1>2, <1>4, <3>1, <3>2, SMTT(30)
    <3>3. CASE k > i
      <4>1. k - 1 \in 1..Len(rest) /\ ~(k - 1 < i) /\ (k - 1) + 1 = k
        BY <1>1, <1>2, <1>4, <3>1, <3>3
      <4> QED BY <1>4, <3>1, <4>1
    <3>4. k # i
      BY <1>2, <3>1
    <3> QED BY <1>1, <1>2, <3>2, <3>3, <3>4
  <2> QED BY <2>1, <2>2
<1>6. \A j, k \in 1..Len(rest) : rest[j] = rest[k] => j = k
  BY <1>1, <1>2, <1>4, SMTT(30)
<1>7. a \in OpenTabs(s) \ {id}
  <2>1. (IF i <= Len(rest) THEN i ELSE Len(rest)) \in 1..Len(rest)
    BY <1>1, <1>2, <1>4
  <2>2. successor \in OpenTabs(s) \ {id}
    BY <1>5, <2>1
  <2> QED BY <1>1, <2>2 DEF a
<1>8. f \in [OpenTabs(s) \ {id} -> T]
  BY DEF WellTyped, f
<1>9. n.order = rest /\ n.active = a /\ n.tab = f
  BY <1>3
<1>10. OpenTabs(n) = OpenTabs(s) \ {id}
  BY <1>9 DEF OpenTabs, f
<1>11. StripOK(n)
  <2>1. n = [order |-> n.order, active |-> n.active, tab |-> n.tab]
    BY <1>3, <1>9
  <2>2. n.order \in Seq(TabIds) /\ Len(n.order) >= 1
    BY <1>1, <1>4, <1>9
  <2> QED BY <1>5, <1>6, <1>7, <1>9, <1>10, <2>1, <2>2 DEF StripOK
<1>12. n.tab \in [OpenTabs(n) -> T]
  BY <1>8, <1>9, <1>10
<1> QED
  <2>1. id # s.active => n.active = s.active
    BY <1>9 DEF a
  <2>2. \A u \in OpenTabs(s) \ {id} : n.tab[u] = s.tab[u]
    BY <1>9 DEF f
  <2> QED BY <1>7, <1>9, <1>10, <1>11, <1>12, <2>1, <2>2 DEF n, WellTyped
=============================================================================
