------------------------------- MODULE Worker -------------------------------
(***************************************************************************)
(* The workers of worker/worker.go and the Python sidecars that compute    *)
(* for them: a worker answers calls as soon as it listens, and brings its  *)
(* data store's shard to its sidecar before it is ready.  A sidecar refuses *)
(* to compute before it has a shard, and nobody brings it one again when   *)
(* it is restarted.                                                        *)
(***************************************************************************)
EXTENDS DataStore

CONSTANTS
    Fragile,   \* bound: the nodes whose worker and sidecar may fail
    MaxFaults  \* bound: sidecars and workers that fail, calls lost

ASSUME MaxFaultsAssumption == MaxFaults \in Nat

VARIABLES
    worker,   \* worker[n]: "starting", "ready" or "dead"
    sidecar,  \* sidecar[n]: "empty", "loaded", "hung" or "down"
    faults    \* faults so far

workerVars == <<worker, sidecar, faults>>

WorkerInit ==
    /\ worker = [n \in Node |-> "starting"]
    /\ sidecar = [n \in Node |-> "empty"]
    /\ faults = 0

Fault == faults < MaxFaults /\ faults' = faults + 1

\* /load_shard succeeds; it fails on an empty shard, which it gets as null.
Loads(n) == sidecar[n] \in {"empty", "loaded"} /\ Shard(n) # {}

LoadShard(n) ==
    /\ StoresMade /\ worker[n] = "starting" /\ Loads(n)
    /\ worker' = [worker EXCEPT ![n] = "ready"]
    /\ sidecar' = [sidecar EXCEPT ![n] = "loaded"]
    /\ UNCHANGED faults

\* No sidecar for 30 seconds, or one that refuses the shard: log.Fatal.
FailToStart(n) ==
    /\ StoresMade /\ worker[n] = "starting" /\ ~Loads(n) /\ sidecar[n] # "hung"
    /\ worker' = [worker EXCEPT ![n] = "dead"]
    /\ UNCHANGED <<sidecar, faults>>

MakeWorker(n) == LoadShard(n) \/ FailToStart(n)

\* Calls to worker n reach a listener.
Reached(n) == worker[n] \in {"starting", "ready"}

\* /gradient and /evaluate answer with 200.
Computes(n) == sidecar[n] = "loaded"

KillWorker(n) ==
    /\ n \in Fragile /\ Reached(n) /\ Fault
    /\ worker' = [worker EXCEPT ![n] = "dead"]
    /\ UNCHANGED sidecar

\* A sidecar dies, is restarted, or stops answering.
FailSidecar(n) ==
    /\ n \in Fragile
    /\ \/ sidecar[n] \in {"empty", "loaded", "hung"} /\ Fault
          /\ sidecar' = [sidecar EXCEPT ![n] = "down"]
       \/ sidecar[n] \in {"empty", "loaded"} /\ Fault
          /\ sidecar' = [sidecar EXCEPT ![n] = "hung"]
       \/ sidecar[n] = "down" /\ UNCHANGED faults
          /\ sidecar' = [sidecar EXCEPT ![n] = "empty"]
    /\ UNCHANGED worker
=============================================================================
