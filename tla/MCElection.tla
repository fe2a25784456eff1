----------------------------- MODULE MCElection -----------------------------
(* Small instances of Election for TLC. *)
EXTENDS ElectionInv, TLC

\* Nodes are interchangeable; no liveness is checked under symmetry.
Symmetry == Permutations(Node)
=============================================================================
