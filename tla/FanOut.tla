------------------------------- MODULE FanOut -------------------------------
(***************************************************************************)
(* The synchronous rounds of a leader (coordinator/coordinator.go): it has *)
(* every worker compute a gradient at the present parameters, collects the *)
(* answers until all are there or time is up, and writes their weighted    *)
(* mean, or starts the epoch over.  Then every worker evaluates the result.*)
(*                                                                         *)
(* Each call of a round is a goroutine with a result to send: a pair       *)
(* <<round, worker>> in `pending' until it has sent it on the channel of   *)
(* its round, however long after the round.                                *)
(*                                                                         *)
(* A gradient is abstracted to the weight it gives the gradient of each    *)
(* row, in units of 1/Unit, and to the parameters it was computed at; the  *)
(* parameters are the gradients they come from.  Training has what may     *)
(* happen to the parameters; here a write succeeds or fails.               *)
(***************************************************************************)
EXTENDS Worker, Sequences, FiniteSetsExt

CONSTANTS
    Me,         \* the leader
    MaxRounds,  \* bound: calls of delegateAll
    MaxEpochs,  \* config.MaxEpochs
    Unit,       \* a multiple of every number of rows
    NaN         \* not a number

ASSUME MeAssumption == Me \in Node
ASSUME RoundsAssumption == MaxRounds \in Nat /\ MaxEpochs \in Nat \ {0}
ASSUME UnitAssumption == Unit \in Nat \ {0} /\ \A n \in Sizes : \A k \in 1 .. n : Unit % k = 0

Round == 1 .. MaxRounds

VARIABLES
    phase,      \* where the epoch loop is
    round,      \* the calls of delegateAll so far
    epoch,      \* currentEpoch
    model,      \* the gradients behind the parameters, in order
    given,      \* given[r]: how many of them the parameters of round r have
    pending,    \* the goroutines that have yet to send
    results,    \* the results sent and not received
    collected,  \* the gradients received in this round
    failed,     \* failedIDs
    evaluating  \* the workers whose evaluation is awaited

roundVars == <<round, given, pending, results, collected, failed>>
loopVars == <<phase, epoch, model, evaluating>>
vars == <<storeVars, workerVars, roundVars, loopVars>>

Init ==
    /\ StoreInit /\ WorkerInit
    /\ phase = "follower"
    /\ round = 0 /\ epoch = 0
    /\ model = <<>>
    /\ given = [r \in Round |-> 0]
    /\ pending = {} /\ results = {} /\ collected = {} /\ failed = {}
    /\ evaluating = {}

\* Coordinators start once the data stores are made; a leader trains as soon as
\* it has its two parameter servers, whether workers are ready or not.
Lead ==
    /\ phase = "follower" /\ StoresMade
    /\ phase' = "fetch"
    /\ UNCHANGED <<storeVars, workerVars, roundVars, epoch, model, evaluating>>

-----------------------------------------------------------------------------
(* delegateAll *)

\* One channel for all rounds.
FaultyChannel(r) == 0
\* Every call has a channel of its own.
Channel(r) == r

Sent(r) == {x \in results : Channel(x.round) = Channel(r)}

\* No buffer: somebody must be receiving.
FaultyRoom(r) == r = round /\ phase = "collect"
\* The buffer takes a result of every worker.
Room(r) == Cardinality(Sent(r)) < N

\* fetchParams, then one goroutine per worker.
Delegate ==
    /\ phase = "fetch" /\ round < MaxRounds
    /\ phase' = "collect"
    /\ round' = round + 1
    /\ given' = [given EXCEPT ![round + 1] = Len(model)]
    /\ pending' = pending \cup {<<round + 1, w>> : w \in Node}
    /\ UNCHANGED <<storeVars, workerVars, results, collected, failed, epoch, model, evaluating>>

\* How the call to worker w may end.  The leader posts to its own sidecar.
Answers(w) ==
    LET there == w = Me \/ Reached(w) IN
    {ok \in BOOLEAN : IF ok THEN there /\ Computes(w)
                            ELSE ~there \/ sidecar[w] \in {"empty", "down"}}

Send(r, w, ok) ==
    /\ <<r, w>> \in pending
    /\ Room(r)
    /\ pending' = pending \ {<<r, w>>}
    /\ results' = results \cup {[round |-> r, from |-> w, ok |-> ok, on |-> given[r]]}
    /\ UNCHANGED <<storeVars, worker, sidecar, round, given, collected, failed, loopVars>>

Answer(r, w) == (\E ok \in Answers(w) : Send(r, w, ok)) /\ UNCHANGED faults

\* The connection breaks.
LoseAnswer(r, w) == w \in Fragile /\ Send(r, w, FALSE) /\ Fault

Responded(answers, failures) == {x.from : x \in answers} \cup failures

\* The end of delegateAll.  After failures the epoch starts over with the next
\* round: runWorkerRecovery does nothing.
Return(answers, failures) ==
    /\ failed' = {}
    /\ IF failures = {} THEN phase' = "write" /\ collected' = answers
                        ELSE phase' = "fetch" /\ collected' = {}

Collect ==
    /\ phase = "collect"
    /\ \E x \in Sent(round) :
        LET answers == IF x.ok THEN collected \cup {x} ELSE collected
            failures == IF x.ok THEN failed ELSE failed \cup {x.from} IN
        /\ results' = results \ {x}
        /\ IF Responded(answers, failures) = Node THEN Return(answers, failures)
           ELSE collected' = answers /\ failed' = failures /\ UNCHANGED phase
    /\ UNCHANGED <<storeVars, workerVars, round, given, pending, epoch, model, evaluating>>

\* Goes on with the gradients it has.
FaultyStragglers == {}
Stragglers == Node \ Responded(collected, failed)

\* Takes any answer for a sign of life.
FaultyTimeoutDue == collected = {} /\ failed = {}
\* GradientTimeout is long enough for all but Fragile nodes.
TimeoutDue == \A w \in Node \ Fragile : <<round, w>> \notin pending

\* Time is up, and whoever has not been heard has failed.
Timeout ==
    /\ phase = "collect" /\ TimeoutDue
    /\ Return(collected, failed \cup Stragglers)
    /\ UNCHANGED <<storeVars, workerVars, round, given, pending, results,
                   epoch, model, evaluating>>

-----------------------------------------------------------------------------
(* The gradient *)

RowCount(x) == Cardinality(Shard(x.from))

\* What a sidecar computes: the mean over the rows of its shard.
Gradient(x) == [row \in Row |-> IF row \in Shard(x.from) THEN Unit \div RowCount(x) ELSE 0]

\* The mean of the means.
FaultyAggregate(answers) ==
    [row \in Row |->
        MapThenSumSet(LAMBDA x : Gradient(x)[row], answers) \div Cardinality(answers)]

\* aggregateGradients; without any row, 0/0.
Aggregate(answers) ==
    LET totalRows == MapThenSumSet(RowCount, answers) IN
    IF totalRows = 0 THEN NaN
    ELSE [row \in Row |->
            MapThenSumSet(LAMBDA x : Gradient(x)[row] * RowCount(x), answers) \div totalRows]

Update == [on |-> {x.on : x \in collected}, weight |-> Aggregate(collected)]

\* writeParams.  A write that fails may have taken effect.  After one that
\* succeeds, nothing is evaluated when the parameters cannot be fetched.
Write ==
    /\ phase = "write"
    /\ \/ /\ model' = Append(model, Update)
          /\ phase' = "evaluate"
          /\ \/ evaluating' = Node /\ UNCHANGED faults
             \/ evaluating' = {} /\ Fault
       \/ /\ model' \in {model, Append(model, Update)}
          /\ phase' = "fetch" /\ UNCHANGED evaluating
          /\ Fault
    /\ collected' = {}
    /\ UNCHANGED <<storeVars, worker, sidecar, round, given, pending, results, failed, epoch>>

-----------------------------------------------------------------------------
(* evaluateAccuracy *)

\* Answers only when it has something to report.
FaultyEvaluates(w) == w = Me \/ (Reached(w) /\ Computes(w))
\* The goroutine for w sends its result, or an empty one for a call that failed.
\* Only the post to the leader's own sidecar has a timeout.
Evaluates(w) == w = Me \/ ~Reached(w) \/ sidecar[w] # "hung"

Evaluated(w) ==
    /\ w \in evaluating /\ Evaluates(w)
    /\ evaluating' = evaluating \ {w}
    /\ UNCHANGED <<storeVars, workerVars, roundVars, phase, epoch, model>>

\* Training ends on a plateau of the loss or at MaxEpochs.
Complete(converged) ==
    /\ phase = "evaluate" /\ evaluating = {}
    /\ epoch' = epoch + 1
    /\ phase' = IF converged \/ epoch + 1 >= MaxEpochs THEN "done" ELSE "fetch"
    /\ UNCHANGED <<storeVars, workerVars, roundVars, model, evaluating>>

-----------------------------------------------------------------------------
EpochLoop ==
    \/ Lead \/ Delegate \/ Collect \/ Timeout \/ Write
    \/ \E converged \in BOOLEAN : Complete(converged)

\* What node n does beside an epoch loop: it starts, and its worker and sidecar
\* answer the leader.
Serve(n) ==
    \/ MakeStore(n) /\ UNCHANGED <<workerVars, roundVars, loopVars>>
    \/ MakeWorker(n) /\ UNCHANGED <<storeVars, roundVars, loopVars>>
    \/ \E r \in Round : Answer(r, n)
    \/ Evaluated(n)

Failure(n) ==
    \/ /\ KillWorker(n) \/ FailSidecar(n)
       /\ UNCHANGED <<storeVars, roundVars, loopVars>>
    \/ \E r \in Round : LoseAnswer(r, n)

Next == EpochLoop \/ \E n \in Node : Serve(n) \/ Failure(n)

Spec == Init /\ [][Next]_vars

\* The loop goes on, and calls to what neither hangs nor is cut off return.
FairSpec == Spec /\ WF_vars(EpochLoop) /\ \A n \in Node : WF_vars(Serve(n))
=============================================================================
