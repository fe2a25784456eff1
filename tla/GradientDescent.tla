--------------------------- MODULE GradientDescent ---------------------------
(***************************************************************************)
(* What synchronous training is: every update is the mean gradient over    *)
(* all rows of the data set at the parameters that all earlier updates     *)
(* have led to.                                                            *)
(***************************************************************************)
EXTENDS Naturals, Sequences

CONSTANT Unit  \* weights are in units of 1/Unit

VARIABLES size, model

FullGradient ==
    [on |-> {Len(model)}, weight |-> [row \in 0 .. size-1 |-> Unit \div size]]

Init == size \in Nat /\ model = <<>>

Step == size > 0 /\ model' = Append(model, FullGradient) /\ UNCHANGED size

Spec == Init /\ [][Step]_<<size, model>>
=============================================================================
