------------------------------ MODULE FanOutInv ------------------------------
(***************************************************************************)
(* What a leader's rounds, the data stores and the workers must guarantee. *)
(***************************************************************************)
EXTENDS FanOut

Result == [round : Round, from : Node, ok : BOOLEAN, on : Nat]

\* Every variable keeps its type.
TypeOK ==
    /\ size \in Sizes
    /\ store \in [Node -> {"off", "push", "made"}]
    /\ replica \in [Node -> (SUBSET Row) \cup {NoShard}]
    /\ worker \in [Node -> {"starting", "ready", "dead"}]
    /\ sidecar \in [Node -> {"empty", "loaded", "hung", "down"}]
    /\ faults \in 0 .. MaxFaults
    /\ phase \in {"follower", "fetch", "collect", "write", "evaluate", "done"}
    /\ round \in 0 .. MaxRounds /\ epoch \in 0 .. MaxEpochs
    /\ Len(model) \in 0 .. MaxRounds
    /\ given \in [Round -> Nat]
    /\ pending \subseteq Round \X Node
    /\ results \subseteq Result /\ collected \subseteq Result
    /\ failed \subseteq Node /\ evaluating \subseteq Node

\* What is about to be written is made of exactly one answer from every worker,
\* computed in this round and at the parameters that are the latest now.
FullRound ==
    phase = "write" =>
        collected = {[round |-> round, from |-> w, ok |-> TRUE, on |-> Len(model)] : w \in Node}

\* A ring of replication factor two: a store has its left neighbour's shard beside
\* its own.
Replicated == \A n \in Node : replica[(n + 1) % N] = Shard(n)

\* By the time training begins, all replicas have converged.
ConvergedBeforeTraining == phase # "follower" => Replicated

\* delegateAll returns although workers hang.
RoundEnds == phase = "collect" ~> phase # "collect"

\* No goroutine is left in the end but those whose call hangs: no result waits
\* for a collector that has left.
GoroutinesEnd == <>[](\A p \in pending : sidecar[p[2]] = "hung")

\* The loop gets past an evaluation, unless a worker hangs.
EvaluationEnds ==
    phase = "evaluate" ~> phase # "evaluate" \/ \E w \in Node : sidecar[w] = "hung"

\* Every store comes up, although each waits for one that starts only after it.
StoresStart == <>StoresMade

-----------------------------------------------------------------------------
(* The inductive invariant *)

\* Answers are sent by goroutines of rounds that have begun, and computed at the
\* parameters these were given.
AnswersInv ==
    /\ \A p \in pending : p[1] <= round
    /\ \A x \in results : x.round <= round /\ x.on = given[x.round]

\* A leader that collects has its model where this round found it, and has
\* collected only this round's answers; elsewhere it has none left over.
CollectInv ==
    /\ phase \in {"collect", "write"} => round > 0 /\ given[round] = Len(model)
    /\ \A x \in collected : x.ok /\ x.round = round /\ x.on = given[round]
    /\ phase \notin {"collect", "write"} => collected = {}
    /\ phase # "collect" => failed = {}
    /\ phase = "write" => {x.from : x \in collected} = Node

\* Every epoch that counts has an update in the model, and every update a round.
CountInv ==
    /\ IF phase = "evaluate" THEN epoch < Len(model) ELSE epoch <= Len(model)
    /\ IF phase \in {"collect", "write"} THEN Len(model) < round ELSE Len(model) <= round
    /\ phase # "done" => epoch < MaxEpochs

IInv == TypeOK /\ AnswersInv /\ CollectInv /\ CountInv

-----------------------------------------------------------------------------
\* Training is gradient descent on the whole data set.
G == INSTANCE GradientDescent

DescentSpec == G!Spec
=============================================================================
