----------------------------- MODULE Consensus -----------------------------
(***************************************************************************)
(* What paxos/paxos.go promises its callers: for each instance, every peer *)
(* that learns a decision learns the same one, it was proposed by a Start, *)
(* and it never changes.                                                   *)
(***************************************************************************)
CONSTANTS Node, Seqs, Value, Nil

VARIABLES
    proposed,  \* the pairs <<seq, v>> given to Start
    decided    \* decided[i][s]: what Status(s) reports at i, Nil while pending

vars == <<proposed, decided>>

Init ==
    /\ proposed = {}
    /\ decided = [i \in Node |-> [s \in Seqs |-> Nil]]

Propose(s, v) ==
    /\ proposed' = proposed \cup {<<s, v>>}
    /\ UNCHANGED decided

Learn(i, s, v) ==
    /\ decided[i][s] = Nil
    /\ <<s, v>> \in proposed
    /\ \A j \in Node : decided[j][s] \in {Nil, v}
    /\ decided' = [decided EXCEPT ![i][s] = v]
    /\ UNCHANGED proposed

Next == \E s \in Seqs, v \in Value :
            Propose(s, v) \/ \E i \in Node : Learn(i, s, v)

Spec == Init /\ [][Next]_vars
=============================================================================
