------------------------------- MODULE Filters -------------------------------
(***************************************************************************)
(* JavaScript's Array.prototype.filter, and what the code writes as a loop *)
(* that skips: the elements of a sequence that are in a set, in their      *)
(* order.  And its Array.prototype.sort.  They are defined by positions    *)
(* and not by recursion, so that proofs can expand them.                   *)
(***************************************************************************)
EXTENDS Integers, Sequences, FiniteSets

\* The positions of s with a member of V, and how many of them are up to i.
At(s, V) == {i \in DOMAIN s : s[i] \in V}
Rank(K, i) == Cardinality({j \in K : j <= i})

Only(s, V) ==
  LET K == At(s, V) IN [n \in 1..Cardinality(K) |-> s[CHOOSE i \in K : Rank(K, i) = n]]

\* The members of S in the order R, a set of pairs: each has as many before it as
\* its place says.
Before(S, R, i) == {j \in S : <<j, i>> \in R}
SortedBy(S, R) == [n \in 1..Cardinality(S) |-> CHOOSE i \in S : Cardinality(Before(S, R, i)) = n - 1]
=============================================================================
