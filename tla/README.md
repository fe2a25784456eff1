# Verification of the distributed training cluster

TLA+ specifications of the Go program in `src/`: a cluster of N peer nodes that
trains a model by synchronous SGD, elects its coordinator by Paxos and keeps the
parameters on two parameter servers. TLC checks the specifications on small
instances; TLAPS proves theorems about consensus, elections, the parameter
servers, recovery from their loss, and the rounds of gradients for every size.

## 1. The system

Every node runs the same four Go components in one process (started by
`simulation/main.go`), plus a Python sidecar.

| component | state | operations | hard behaviour | what makes it correct |
|---|---|---|---|---|
| Paxos library, `paxos/` | per instance: promise, accepted ballot and value, decision; ballot counter; Done watermarks | `Start`, `Status`, `Done`, `Min`, `Kill`; handlers Prepare, Accept, Inform; `propose` goroutines | any number of goroutines on any number of peers; calls lost or handled late; killed peers | one decision per instance, proposed by somebody, never changed; distinct ballots; a lone proposer finishes |
| Coordinator: election, `coordinator.go` | `electionInstance`, `isLeader`, `lastHeartbeat`, `lastReElectionTrigger` | `startNode`, `runElection`, `becomeLeader`, `becomeFollower`, heartbeats, `coordinatorWatchdog`, `RequestElection`, `triggerReElection` | goroutines that outlive the role that started them; watchdogs of coordinators and of workers racing each other; false suspicion | one leader per election; followers agree on it; stale results are not acted on; a dead leader is replaced |
| Coordinator: epoch loop | `currentEpoch`, `paramPrimaryID`, `paramBackupID`, patience | `epochLoop`, `fetchParams`, `initParams`, `delegateAll`, `writeParams`, `runParamRecovery`, checkpoints | a parameter server, the leader or a single call failing between any two calls; a deposed leader that goes on | no completed epoch is lost; checkpoints are recent; an epoch's update is applied once and in order; training ends |
| Coordinator: fan-out and aggregation | results channel of `delegateAll` | `delegateAll`, `aggregateGradients`, `averageLoss`, `gradNorm` | timeouts, late answers, answers of a round given up, zero rows, workers that hang | an update is the mean gradient over all rows of the data set at the latest parameters; a round ends; no goroutine is left behind |
| Parameter server, `paramserver/` | role, backup address, parameters, checkpoint file | `SetRole`, `ReadParams`, `WriteParams`, `ReplicateParams`, `Checkpoint`, `LoadCheckpoint` | `WriteParams` gives up its lock while it calls the backup; checkpoint files outlive the run | a confirmed write is on both servers |
| Data store, `datastore/` | own shard, the left neighbour's replica | `GetShard`, `GetRescuedShard`, push to the right neighbour at start | neighbours that do not run yet, a push repeated after a lost answer | every shard has two holders before training begins; every store comes up |
| Worker, `worker/` | shard (in its sidecar), `lastHeartbeat` | `Make`, `ComputeGradient`, `Evaluate`, heartbeats, `coordinatorWatchdog` | called before it is ready; a sidecar that restarts empty or hangs; asks coordinators for an election | no answer without the shard; see election |
| Simulation, configuration, sidecars, monitor, scripts | processes, constants | start, kill | order of start | - |

They interact by synchronous RPC over TCP. A coordinator calls its own Paxos
peer in process and other peers' through the library; the leader calls
parameter servers, workers and its sidecar one after another or from one
goroutine each; workers send heartbeats to all coordinators and ask them for
elections; the leader sends heartbeats to workers and coordinators. A failed
call can mean a dead callee, a lost request or a lost reply, and the code cannot
tell these apart. `PROJECT.json` lists, under "hazards", where that is hard to test.

## 2. The modules

    Consensus   <--implements--  Paxos, PaxosInv        (proofs: PaxosProofs)
        ^ instantiated by
    Election, ElectionInv        who leads   (proofs: ElectionProofs, TimelyProofs)
    ParamServer --extended by--> Training, TrainingInv --implements--> Model
             what a leader does (proofs: TrainingProofs, RecoveryProofs, ModelProofs)
    DataStore --extended by--> Worker --extended by--> FanOut, FanOutInv
                               --implements--> GradientDescent
                                             the rounds         (proofs: FanOutProofs)

`MCPaxos` and `MCElection` add what TLC needs, which is the symmetry of values,
goroutines and nodes.

The definitions named `Faulty...` are plausible mistakes in the definition below
each of them. No action uses them; a property is kept only when TLC finds it
violated with one of them put in.

### Paxos

A step is one critical section of `px.mu` or one call. `instances[i][s]` is the
`instance` struct of peer i (the map entry: an absent, a freed and a new instance
behave alike, see `Fresh`). `prop[g]` holds the locals of one `propose`
goroutine, `pc[g]` its place: `loop` (the test at the head), `draw`, `prepare`,
`accept`, `inform`. Calls go to the peers one by one, in the order of
`px.peers`, as in the code; `CallPrepare`, `CallAccept`, `CallInform` run the
handler and count the reply in one step. `CallFails` is `call` returning false;
the request is lost for good or stays in `late`, from where `RunLate` may run its
handler at any later time. A peer answers its own requests directly, even once
killed. `Retry` is the failure of a phase with the `setPropCounter` hint.
Sleeps only delay and are left out. `Done` has no caller in this program and is
left out: nothing is ever forgotten, although `Status` and the handlers are
ready for it.

### Consensus

What callers may rely on: `Propose` a value for an instance, `Learn` a proposed
value that nobody's decision contradicts. `PaxosInv!ConsensusSpec` is the
refinement; `Election` uses Consensus in the place of Paxos.

### Election

A coordinator's goroutines that elect, lead or watch are *threads*:
`Propose` (`px.Start` in the current instance), `TakeRole` (the poll of `Status`,
then `becomeLeader` or `becomeFollower`), `StartLoops` or `GiveUp` (two healthy
nodes found, or `log.Fatal` after `recoveryTimeout`), `Suspect` (the follower's
watchdog). `WorkerSuspects` and `RequestElection` are the worker's watchdog and
the handler that answers it. `Raise` is the critical section of
`triggerReElection`; the instance is read again in `Propose`, as in the code, so
that two threads may meet there. The heartbeats received are `heard` (a set per
coordinator) and `workerHeard`; that nothing sends them any more is what makes
them stale. The requests of several workers are merged into one set of
coordinators about to be asked, since which worker asks has no effect.

Time. With `Timely` a heartbeat is found stale only when no goroutine sends it
any more and no node still waits for the result of the election whose winner
fell silent (`Concluded`); the deduplication window passes only once nobody
elects and no request is on its way (`Settled`). This is what the durations in
`config.go` intend: heartbeats every second, a timeout after three of them, and
elections that take milliseconds. Without `Timely` both may happen at any time. A lost
request is one that is never handled; giving up although candidates are there
counts against `MaxDown`.

### ParamServer, Training, Model

`ParamServer` has the handlers. Parameters are the sequence of SGD updates that
produced them, each `[by, epoch]`; `<<>>` is a server that holds none, and the
randomly initialised parameters of the sidecar are not told apart from it.
`WriteParams` is three steps, because the handler gives up its lock while it
replicates: accepted (`BeginWrite`), replicated or not (`Replicated`,
`ReplicationFails`), applied (`Apply`). A write whose caller has gone stays in
`writes` and goes on.

A run does not begin with empty disks. Checkpoint files have fixed names in the
directory for temporary files (`simulation/main.go:72`, `:98`), `Make` does not
remove them and `LoadCheckpoint` serves what is there, so that the nodes of
`Leftover` offer the checkpoint of an earlier run from the start: `OldRun`, a
single update by nobody. The earlier run is taken to have trained the same kind
of model; its file has the right shape.

`Training` is the leader: `pc[l]` is the call it makes next. `SetPrimary` and
`SetBackup` are the calls in `becomeLeader` and in `runParamRecovery`;
`FetchPrimary`, `FetchBackup` and `FetchCheckpoint` are `fetchParams` and
`initParams`; `Delegate` is `delegateAll` in synchronous mode; `CallWrite` to
`RunApply` are the write; `Save` the two checkpoint calls; `Complete` the end of
the epoch with early stopping (`improved` is any Boolean: losses are not
modelled); `ProbePrimary` to `Seed` are `runParamRecovery`. `FetchCheckpoint` takes the
first file on offer, of whatever run. A call fails when the
callee is down or when it is one of the at most `MaxLost` lost ones, with or
without effect at the server where that matters (writes, replication). Any leader
of `Leader` may start at any time, so several loops can compete, as they do after
an election whose loser goes on leading.

`Model` is the promise: there is one model, an update is appended to all
the earlier ones, an epoch completes only with its update in the model, and all
is lost only when every server that holds it has failed. `TrainingInv!modelBar`
says where the model is.

Simplifications: writing the checkpoint file is one step; `SetRole` and `ReplicateParams` called
by a leader take effect before it learns of a broken connection or not at all;
`evaluateAccuracy` and posts to the monitor only read; a leader has one epoch loop.

### DataStore, Worker, FanOut, GradientDescent

These are the other half of an epoch. Training treats a round as one call,
`Delegate`, and follows the parameters; FanOut opens the round and treats
`writeParams` as one step that succeeds or fails.

`DataStore` has the start of the stores: `LoadStore` is `Make` up to the push
(shard read, connections accepted), `PushReplica` one call of `ReceiveReplica`,
whose answer may be lost so that it is repeated, `AbandonPush` the five seconds
being over, which may happen to every push: its neighbour does not listen, or the
calls to it keep failing. Stores are started as `simulation/main.go` does, each
when `Make` of the one before it has returned. A shard is the set of its rows.

`Worker` is `worker.Make` and its sidecar. The worker listens before its sidecar
has the shard, so it may be called while it is "starting". `LoadShard` and `FailToStart`
are the end of the start; an empty shard, which arrives as `null`, is refused.
`FailSidecar` lets a sidecar die, come back empty, or hang. Nothing reloads a
shard (`reloadShard` has no caller).

`FanOut` is the leader. A goroutine of `delegateAll` is a pair in `pending` until
it has sent its result (`Answer`, `LoseAnswer`) on the channel of its round,
whose buffer has `Room`; `Collect` receives one result, `Timeout` is the timer,
`Return` the end of `delegateAll` with the choice made from it in `epochLoop`.
`Write` is `aggregateGradients` and `writeParams`, with the choice of what
happens to the fetch before the evaluation; `Evaluated` and `Complete` are `evaluateAccuracy` and
the end of the epoch. A gradient is the weight it gives to each row and the parameters it was
computed at, and the parameters are the gradients that have gone into them:
that is what tells a full round, a stale answer and a wrong mean apart, and no number is
needed. `GradientDescent` is the promise: an update is the mean over all rows at
the parameters before it. `FanOutInv!DescentSpec` is the refinement.

Simplifications: the synchronous mode only (`SGDMode` is a constant of
`config.go`); one leader and one loop; `log.Fatal` of a worker ends that worker,
although in the simulation all nodes share the process it ends; weights are integers in units of
1/`Unit`, with `Unit` a multiple of every shard's rows, so nothing is rounded.

## 3. The runs

| run | module | bounds | shows |
|---|---|---|---|
| paxos_duel | MCPaxos | 3 peers, 2 goroutines and values, 1 instance, 2 draws per peer, calls lost, 1 killed | types, agreement, ballots distinct, a loser retries above the winner, refinement of Consensus |
| paxos_late | MCPaxos | the same with a late request, none killed | a learned decision stays with a majority |
| paxos_alone | MCPaxos | 3 peers, 2 instances, 3 draws, 1 killed, no lost call, `FairSpec` | a proposer alone on its instance finishes; the inductive invariant of the proofs |
| training_crash | TrainingInv | 4 nodes, 2 with an old checkpoint, 1 leader, 4 epochs, any 3 servers, the leader and a worker fail, no lost call | completed epochs kept, this run's checkpoints recent, old ones never trained on, `AloneSafe` (the inductive invariant behind all three), refinement of Model |
| training_ends | TrainingInv | 4 nodes, 2 with an old checkpoint, 3 epochs, 1 server and the leader fail, all workers stay up, 1 lost call, `FairSpec` | training ends; updates stay in order |
| training_twice, _seed, _failover | TrainingInv | as few faults as the finding needs | findings 1 to 3 |
| election_failover | MCElection | 3 nodes, 3 instances, timely, 1 coordinator killed or 1 node crashed, `FairSpec` | types, `IInv` and `TimelyInv` (the invariants of the proofs); one epoch loop before a failure; a leader emerges, and is found again; no two threads lead by one election; one leader per election; followers agree; results are acted on in order |
| election_deposed | MCElection | a coordinator killed, timely | finding 4 |
| gradient_rounds | FanOutInv | 3 nodes, 5 rows or none, 2 rounds, 1 fault at node 1, `FairSpec` | types and the invariant of the proofs; a full round behind every update; refinement of GradientDescent; rounds and evaluations end; no goroutine is left behind; the stores come up |
| data_ring | FanOutInv | the same with 5 rows | finding 5 |

Why the bounds are enough. Paxos: two goroutines on different peers with two draws each
are enough for one to overtake the other in either phase and for the first to
come back above it; three peers are the smallest number in which two majorities
share one peer only; that `IInv` survives lost and late requests is left to its
proof, since its run has neither. Training: with an interval of 2, four epochs contain two checkpoints
and epochs between them; four nodes leave a spare after a recovery, three
server failures exhaust it; old checkpoints at two nodes, one of them the
leader's own, are found at a server in use, at a spare or at neither. Leaders that compete are left to the proof of
`UpdatesOrdered`, which holds for any number of them, and untimely elections with
lost requests to that of `OneLeaderPerElection` and `FollowersAgree`. FanOut: with two rounds the second may
repeat the epoch of the first or follow it, while goroutines of the first still
have to send; five rows over three nodes make shards of different sizes, so that the mean of
means is wrong, and none makes every shard empty; one fault is a worker or a
sidecar that fails, restarts, hangs, or an answer, write or fetch that is lost. Only
node 1 (`Fragile`) has faults at its worker, since workers differ only in
whether they are the leader's own, whose sidecar the leader posts to itself. Election: three instances give a first election, one that replaces its
winner, and one that deposes a live leader.

No run checks for deadlock: every instance ends, by the end of training, by
a dead majority, or at a bound (draws, instances, rounds).

The mutants in `PROJECT.json` show of each property that some plausible mistake
in the code breaks it.

## 4. Fairness

* `Paxos!FairSpec`: each `propose` goroutine is weakly fair. The Go scheduler
  runs a goroutine that can run, and calls return (with an error at the latest
  when the connection breaks). Two proposers can still refuse each other for
  ever, as the code's fixed sleep allows; hence the condition `Alone`.
* `Training!FairSpec`: the epoch loop and the handlers of writes are weakly fair.
  Nothing has to fail or be lost, and no leader has to come.
* `FanOut!FairSpec`: the epoch loop is weakly fair, and so is what each node does
  for it: its store and worker start, its answers are sent. Calls to a sidecar
  that hangs are not enabled, so nothing is assumed of them; a sidecar that is down need not come
  back. The deadline of a push may pass at any time and passes in the end; the
  timer of a round fires once all nodes that do not fail have sent:
  `GradientTimeout` is meant to be longer than a gradient takes.
* `Election!FairSpec`: each coordinator, each worker's requests and the
  passing of time are weakly fair, and heartbeats arrive. Liveness also needs
  `Timely`; without it no election need ever be the last. `LeaderEmerges` and
  `LeaderReturns` exempt the failures after which the code cannot go on: in a
  cluster of three a crashed node leaves no two nodes for the parameter roles.

## 5. What is proved

Paxos. `PaxosProofs` proves for any number of peers, goroutines, instances and
values and any bounds, with lost and late calls and killed peers: `TypeCorrect`,
`Invariance`, `AgreementCorrect`, `DecisionHeldCorrect`, `BallotsDistinctCorrect`,
`RetryBeatsWinnerCorrect` and `Refinement` (Spec => ConsensusSpec). The
assumptions are those on the constants in `Paxos`.

Agreement is not inductive: two decisions are equal because of what the
ballots before them could still decide. `PaxosInv!IInv` adds

* `BallotInv`: a ballot belongs to the goroutine that drew it, and every value
  in the system as a proposal of a ballot comes from a drawn one;
* `AcceptorInv`, `LateInv`: nothing is accepted above a promise, and late
  requests carry what their goroutine proposed;
* `PrepareInv`: what a goroutine has collected of promises is still true of the
  acceptors: no vote of theirs between the highest ballot reported and its own
  was or will be counted;
* `AcceptInv`, `LearnInv`: counted votes were cast, and what is learned was chosen;
* `ProposalInv`: one value per ballot, proposed by someone, and `SafeAt`: every
  lower ballot proposes the same value, is closed, or is blocked by a majority.

The step that makes a value safe is `OpenAcceptSafe`: a majority of
promises blocks every ballot above the highest they report, and below that the
adopted value was safe already. The code's particular point is that a proposer
counts votes in `oks` while requests it has given up on may still be handled: a
vote that is cast and never counted must do no harm, which is why `Blocked`
speaks of both promises and counted votes. `NoneDone` records that this program
never calls `Done`: freeing an instance that a late request still reaches is outside the theorem.

Election. `ElectionProofs` proves for any number of nodes and elections, timely or
not: `TypeCorrect`, `Invariance`, `OneLeaderPerElectionCorrect` and
`FollowersAgreeCorrect`. `ElectionInv!IInv` says that no two nodes know
different winners of an election (what Consensus promises), and that the role of
a thread is the result of the election it took part in, although its node may
have raised the instance since.

Timely elections. `TimelyProofs` proves, for any number of nodes, elections and
failures, and assuming `Timely`: `TimelyInvCorrect`, `OneThreadPerElectionCorrect`,
`OneEpochLoopCorrect` and `NoStaleResultCorrect`. None of the three properties
says anything about time, and none is inductive; what makes them true is that
two goroutines of a node are never at work on an election at once, although
`Raise` and `Propose` are separate critical sections. `ElectionInv!TimelyInv` says why:

* `TriggersDistinct`: a node that a watchdog or a request could still trigger,
  because its deduplication window has passed, is not electing;
* `ElectionsInTurn`: at most one thread of a node elects (`Electing`), in an
  election later than all those that other threads have acted on (`Acted`), and
  no two have acted on the same one;
* `FirstElection`, `NothingRaised`: before the winner of the first election has
  led, nobody is triggered (the deduplication does not protect an instance that
  was never raised), and until a coordinator fails nobody is at all.

`Timely` is a hypothesis of these theorems and a constant of the model; the
same run with `Timely = FALSE` violates all three.

Training. `TrainingProofs` proves for any number of nodes, leaders that compete,
epochs, failures and lost calls: `TypeCorrect`, `Invariance` and
`UpdatesOrderedCorrect`. The type invariant alone is not inductive: that a write
in flight has somewhere to replicate to needs `RolesInv` (a primary has a
backup address), which needs what `LeadersInv` says of the servers a leader
holds at each place of its loop. `UpdatesOrdered` needs more: an update waits in
a write of a leader that may have gone on, so `Fine` says that no value holds an
update of an epoch its leader has yet to begin, wherever it is (a server, a
checkpoint, a leader, a write), and `WritesInv` that a leader waits for one
write only. Since `Fine` is a set, copying a value preserves it at once; only appending
and completing an epoch need an argument.

Recovery. `RecoveryProofs` proves for any number of nodes, epochs and failures of
servers, workers and leaders, and whatever checkpoints earlier runs have left:
`AloneSafeCorrect`, `CompletedKeptCorrect`, `CheckpointFreshCorrect` and
`OldNeverTrainedCorrect`. The last three say that the property holds *until* a second
node leads or a call is lost (`Alone`); findings 2 and 3 and the last paragraph
of section 6 are what happens then, so the condition cannot be dropped. It is a condition on the state, not on the
constants: in a system with several leaders and lossy calls the theorems cover
every behaviour up to the first such event. `TrainingInv!AloneSafe` is inductive together with
the invariant of `TrainingProofs`; for each place of the loop it says

* `RolesKept`: the two servers are two, and a primary that answers replicates
  to the other one, also while a recovery changes them;
* `FailuresReal`: a leader that looks for parameters elsewhere, or recovers,
  does so because a server is down and stays so; it never comes back to a
  server it has passed over;
* `ServersAgree`: servers that answer hold the same, but for the one write
  under way, which is the leader's, or was when the leader died; what the
  leader has in hand is what those of its servers hold that answer;
* `EpochsKept`: what answers, and what the leader has from a server, has all
  completed epochs, and after its write the present one;
* `OldUnused`: nothing a server holds or is to hold comes from an earlier run;
* `CheckpointsKept`: only servers in use have a checkpoint of this run to offer,
  and it has every epoch that was due.

While no call is lost, a leader looks for checkpoints only when both of its
servers are down (`FailuresReal`), so this run has none left to offer. What it
may find is a file of an earlier run; the epoch then goes on with that file's
parameters as far as the write, for which there is no server, and the recovery
that follows finds no survivor. So it goes for ever: the file does no harm, and
no good.

The step that uses most of it is `Seed`: the new pair may be used at once
because the spare either has what the survivor had (`ServersAgree`) or is
down (`FailuresReal`), and the survivor's checkpoint is the only one of this run
left on offer.

`ModelProofs` goes on from there to the refinement: `ModelCorrect`, that
Training implements Model while one node leads and no call is lost
(`Spec /\ []Alone(TheLeader) => ModelSpec`), and `ModelCorrectAlone`, its case of a single leader
and a network that loses nothing. Each action maps to a step of Model or to
none. `Replicated` is the update when the primary has already been killed and
its handler goes on; otherwise `Apply` is. The death of the primary can be the
update, when the backup is one write ahead. `Seed` is never a step, since the new servers hold what the
old ones or the leader's hands held. The assumption `LostAssumption` only says that the value standing for
a lost model is not itself a model.

FanOut. `FanOutProofs` proves for any number of nodes, sizes of the data set,
rounds and faults: `TypeCorrect`, `IInvCorrect` and `FullRoundCorrect`. `FullRound` follows from `AnswersInv` (a result was
computed at what its round was given) and `CollectInv` (what a leader has collected is
of this round, and its model has not moved since); the proof is where the channel per call of
`delegateAll` matters, because answers of earlier rounds are still being sent.

Only model-checked:
* liveness (`AloneFinishes`, `TrainingEnds`, `LeaderEmerges`, `LeaderReturns`,
  `RoundEnds`, `GoroutinesEnd`, `EvaluationEnds`, `StoresStart`), which is out of
  the prover's reach;
* `DescentSpec`: that the weighted mean of the shards' means is the mean over all
  rows is a fact about sums over sets, which needs induction over data;
  `FullRound` is the part of it that can be proved.

## 6. Findings

1. **An epoch can be applied twice** (`paramserver.go:110`; README "idempotent").
   The primary dies between replicating a write and confirming it.
2. **A recovered backup can be empty** (`coordinator.go:759`). The result of the
   call that seeds it is ignored.
3. **A new leader can start from nothing** (`coordinator.go:260`; README
   "restart from the last completed checkpoint"). It draws parameter servers at
   random and looks for a checkpoint only when neither answers.
4. **A deposed leader goes on leading** (`coordinator.go:300`). `becomeFollower`
   stops none of the goroutines that leading has started.
5. **Training begins without replicas** (`simulation/main.go:99`; README
   "all replicas have already converged"). Each store but the last gives up its
   push before its right neighbour is started, and no push is repeated later.

Each is a run that expects a violation; `PROJECT.json` quotes what the code or
the README says. Seen while modelling and not the subject of a run: a worker
that dies stops training for good, since `runWorkerRecovery`
(`coordinator.go:777`) does nothing and the worker stays in `workerList`
(`TrainingEnds` fails as soon as `MaxWorkersDown` is 1); and followers of a
coordinator that dies before its first heartbeat to the workers never suspect
it while its own worker lives, because they do not tell the worker's heartbeats
from the coordinator's (`coordinator.go:326`).
A sidecar that is restarted has no shard, and nobody loads it again: its worker refuses every gradient and the rounds end
without progress. A sidecar that hangs during `evaluateAccuracy` stops the loop
for good, since only the leader's own post has a timeout (`EvaluationEnds`
excepts it). A leader that finds no two healthy nodes ends its process
(`coordinator.go:250`), which `LeaderEmerges` accepts.

A checkpoint of an earlier run can take the place of the model. When the calls
to read the primary and the backup both fail although the servers run, which
`config.go:64-66` says happens to a loop without pacing, the first file on offer
is taken, even if it is an old one and this run's are next in line
(`coordinator.go:563`). `TrainingInv` with the constants of `training_seed.cfg`
but `Leftover = {0}`, `MaxLost = 2` and `MaxServersDown = 0` violates
`RestartsFromCheckpoint` that way, and satisfies it with `Leftover = {}`.

## 7. What is left, in order

1. Two epoch loops on one node: a live leader that wins again shares
   `currentEpoch`, `workerList` and the servers' identities between two loops. It
   takes the place of `epoch[l]` and `view[l]` in Training by variables of the
   node that several loops read and write between calls.
2. `CountInv` as a property of its own: the number of epochs and of updates.

## 8. Not modelled

* `Done` and the watermark `Min` of the Paxos library, `ActivateReplica`,
  `GetRescuedShard` and the hash ring of the data store (`buildRing`),
  `reloadShard` of the worker, and the asynchronous SGD mode: nothing in the
  program calls or selects them, so there is no behaviour of the system to check.
* `averageLoss` and `gradNorm`: floating point that decides only when early
  stopping counts an epoch as improved (a free choice) and what is logged.
* The numerical code of the sidecars, the monitor, data preparation, shell
  scripts, logging and JSON: no state the cluster relies on. What a sidecar
  answers, and when, is part of `Worker`.
* `config.go` other than through CONSTANTS and the assumptions about time
  (`Timely`, `TimeoutDue`).
