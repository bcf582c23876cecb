------------------------------ MODULE MCTunnel ------------------------------
(* Model values and bounds for Tunnel.                                      *)
EXTENDS Tunnel, TLC

Symmetry == Permutations(Calls) \cup Permutations(Conns)
=============================================================================
