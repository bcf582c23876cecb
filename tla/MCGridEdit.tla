----------------------------- MODULE MCGridEdit -----------------------------
(* Model values and bounds for GridEdit.                                    *)
EXTENDS GridEdit, TLC

Unsorted == [r \in Rows |-> r]
Reversed == [r \in Rows |-> 3 - r]

OneOrder  == {Unsorted}
TwoOrders == {Unsorted, Reversed}

RunSymmetry == Permutations(Answers)
=============================================================================
