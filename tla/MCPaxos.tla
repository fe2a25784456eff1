------------------------------ MODULE MCPaxos ------------------------------
(* Small instances of Paxos for TLC. *)
EXTENDS PaxosInv, TLC

\* Goroutines and values are interchangeable; peers are not (ballots order them).
Symmetry == Permutations(Goroutine) \cup Permutations(Value)
=============================================================================
