------------------------------- MODULE Model -------------------------------
(***************************************************************************)
(* What the epoch loop promises of the model it trains, while the servers  *)
(* that hold it do not all fail: an update is added to all the earlier     *)
(* ones, and an epoch completes only when the model has its update.        *)
(***************************************************************************)
EXTENDS Naturals, Sequences

CONSTANTS MaxEpochs, Lost

VARIABLES
    model,  \* the epochs whose updates the model has, in order, or Lost
    epoch   \* the epochs completed

vars == <<model, epoch>>

Init == model = <<>> /\ epoch = 0

Update == model # Lost /\ model' = Append(model, epoch) /\ UNCHANGED epoch

Complete ==
    /\ epoch < MaxEpochs
    /\ model = Lost \/ \E i \in DOMAIN model : model[i] = epoch
    /\ epoch' = epoch + 1
    /\ UNCHANGED model

\* Every server that has the model has failed.
Lose == model' = Lost /\ UNCHANGED epoch

Next == Update \/ Complete \/ Lose

Spec == Init /\ [][Next]_vars
=============================================================================
