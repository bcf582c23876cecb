----------------------------- MODULE MCQueryRun -----------------------------
(* Model values and bounds for QueryRun: runs are interchangeable, tabs are *)
(* not (FirstTab is one of them).                                           *)
EXTENDS QueryRun, TLC

RunSymmetry == Permutations(Runs)
=============================================================================
