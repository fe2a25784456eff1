------------------------------ MODULE Election ------------------------------
(***************************************************************************)
(* Leader election (coordinator/coordinator.go) on top of Paxos, with the  *)
(* worker's part in it (worker/worker.go): who proposes itself in which    *)
(* instance, what a node does with the result, and how the watchdogs of    *)
(* coordinators and workers start the next election.                       *)
(*                                                                         *)
(* Paxos is taken by its specification, Consensus: the winner of election  *)
(* s is the value decided for instance s.  A goroutine of a coordinator    *)
(* that elects, leads or watches is a thread; it is one from startNode or  *)
(* from a RequestElection to its end.                                      *)
(*                                                                         *)
(* Time enters only by what may be found stale.  A heartbeat that was once *)
(* heard may be found stale when nobody sends it any more or, unless       *)
(* Timely, at any time; a window of heartbeatTimeout may be over once      *)
(* elections and the requests for them have come to rest or, unless        *)
(* Timely, at any time.                                                    *)
(***************************************************************************)
EXTENDS Integers, FiniteSets

CONSTANTS
    Node,         \* the peers
    Nil,          \* nothing decided yet
    MaxInstance,  \* bound: the last election
    Timely,       \* heartbeats and elections stay within heartbeatTimeout
    MaxDown,      \* bound: coordinators that are killed, crash or give up too early
    MaxCrashed    \* bound: nodes that crash

ASSUME NodeAssumption == IsFiniteSet(Node) /\ Nil \notin Node
ASSUME BoundsAssumption == MaxInstance \in Nat /\ MaxDown \in Nat /\ MaxCrashed \in Nat
ASSUME TimelyAssumption == Timely \in BOOLEAN

Seqs == 0 .. MaxInstance

\* Every thread a node ever has was started by startNode or by raising its instance.
Thread == 0 .. MaxInstance

VARIABLES
    proposed,     \* the pairs <<instance, node>> proposed to Paxos
    decided,      \* decided[i][s]: the winner of election s, as i knows it
    coordUp,      \* coordUp[i]: i's coordinator and Paxos peer run
    nodeUp,       \* nodeUp[i]: i's worker runs
    instance,     \* instance[i]: electionInstance
    isLeader,     \* isLeader[i]
    recent,       \* recent[i]: lastReElectionTrigger is within heartbeatTimeout
    thread,       \* thread[i][t]: what thread t of coordinator i is doing
    heard,        \* heard[i]: the nodes lastHeartbeat has an entry for
    workerHeard,  \* the workers whose lastHeartbeat is not zero
    requests      \* the coordinators some worker is about to ask for an election

paxosVars == <<proposed, decided>>
upVars == <<coordUp, nodeUp>>
nodeVars == <<instance, isLeader, recent>>
beatVars == <<heard, workerHeard>>
vars == <<paxosVars, upVars, nodeVars, thread, beatVars, requests>>

Paxos == INSTANCE Consensus WITH Value <- Node

Free == [pc |-> "free", seq |-> 0, coord |-> Nil]

(* Each definition named Faulty... is a plausible mistake in the one below  *)
(* it; no action uses it, and a property must fail with it in its place.   *)

Init ==
    /\ Paxos!Init
    /\ coordUp = [i \in Node |-> TRUE]
    /\ nodeUp = [i \in Node |-> TRUE]
    /\ instance = [i \in Node |-> 0]
    /\ isLeader = [i \in Node |-> FALSE]
    /\ recent = [i \in Node |-> FALSE]
    /\ thread = [i \in Node |-> [t \in Thread |->
                   IF t = 0 THEN [Free EXCEPT !.pc = "propose"] ELSE Free]]
    /\ heard = [i \in Node |-> {}]
    /\ workerHeard = {}
    /\ requests = {}

Is(i, t, where) == coordUp[i] /\ thread[i][t].pc = where

MayFail(i) == coordUp[i] /\ Cardinality({j \in Node : ~coordUp[j]}) < MaxDown

\* A thread whose coordinator leads sends heartbeats until it is killed.
Leading(i) == \E t \in Thread : Is(i, t, "lead")

\* Some goroutine sends coordinator i heartbeats of node j: j's worker, j as a
\* leader, or j as a watcher of i.
Sends(j, i) ==
    \/ nodeUp[j]
    \/ j # i /\ Leading(j)
    \/ \E t \in Thread : Is(j, t, "watch") /\ thread[j][t].coord = i

\* The same for j's worker; a leader leaves its own worker out.
SentToWorker(j) == \E i \in Node \ {j} : Leading(i)

-----------------------------------------------------------------------------
(* Paxos, while a majority of the peers runs. *)

Decide(i) ==
    /\ coordUp[i] /\ 2 * Cardinality({j \in Node : coordUp[j]}) > Cardinality(Node)
    /\ \E s \in Seqs, v \in Node : Paxos!Learn(i, s, v)
    /\ UNCHANGED <<upVars, nodeVars, thread, beatVars, requests>>

-----------------------------------------------------------------------------
(* runElection, becomeLeader, becomeFollower *)

FaultyElectionSeq(i) == instance[i] + 1
ElectionSeq(i) == instance[i]

Propose(i, t) ==
    /\ Is(i, t, "propose")
    /\ Paxos!Propose(ElectionSeq(i), i)
    /\ thread' = [thread EXCEPT ![i][t] = [@ EXCEPT !.pc = "poll", !.seq = ElectionSeq(i)]]
    /\ UNCHANGED <<upVars, nodeVars, beatVars, requests>>

Winner(i, t) == decided[i][thread[i][t].seq]

\* Leads as soon as anybody is elected.
FaultyRole(i, winner) == IF winner # Nil THEN "candidates" ELSE "watch"
\* Follows itself.
FaultyFollow(i, winner) == "watch"
\* Leads in the place of a winner it has not heard yet.
FaultyUnheard(i, winner) ==
    IF winner = i \/ winner \notin heard[i] THEN "candidates" ELSE "watch"
Role(i, winner) == IF winner = i THEN "candidates" ELSE "watch"

TakeRole(i, t) ==
    LET winner == Winner(i, t) IN
    /\ Is(i, t, "poll") /\ winner # Nil
    /\ isLeader' = [isLeader EXCEPT ![i] = winner = i]
    /\ thread' = [thread EXCEPT ![i][t] = [@ EXCEPT !.pc = Role(i, winner), !.coord = winner]]
    /\ UNCHANGED <<paxosVars, upVars, instance, recent, beatVars, requests>>

Enough(candidates) == Cardinality(candidates) >= 2

\* Two healthy nodes found for the parameter roles: the loops start.  A node
\* that went silent counts as healthy for a while, so any heartbeat heard may do.
StartLoops(i, t) ==
    /\ Is(i, t, "candidates") /\ Enough(heard[i])
    /\ thread' = [thread EXCEPT ![i][t].pc = "lead"]
    /\ UNCHANGED <<paxosVars, upVars, nodeVars, beatVars, requests>>

\* recoveryTimeout is over without them: log.Fatal.
GiveUp(i, t) ==
    /\ Is(i, t, "candidates")
    /\ IF Timely THEN ~Enough({j \in Node \ {i} : Sends(j, i)}) ELSE MayFail(i)
    /\ coordUp' = [coordUp EXCEPT ![i] = FALSE]
    /\ nodeUp' = [nodeUp EXCEPT ![i] = FALSE]
    /\ UNCHANGED <<paxosVars, nodeVars, thread, beatVars, requests>>

-----------------------------------------------------------------------------
(* Heartbeats *)

\* (A coordinator has no use for the heartbeats of its own node.)
Heartbeat(j, i) ==
    /\ coordUp[i] /\ j # i /\ j \notin heard[i] /\ Sends(j, i)
    /\ heard' = [heard EXCEPT ![i] = @ \cup {j}]
    /\ UNCHANGED <<paxosVars, upVars, nodeVars, thread, workerHeard, requests>>

WorkerHeartbeat(j) ==
    /\ nodeUp[j] /\ j \notin workerHeard /\ SentToWorker(j)
    /\ workerHeard' = workerHeard \cup {j}
    /\ UNCHANGED <<paxosVars, upVars, nodeVars, thread, heard, requests>>

-----------------------------------------------------------------------------
(* Re-election *)

\* Does not deduplicate triggers.
FaultyMayTrigger(i) == instance[i] < MaxInstance
\* Turns the test for a recent trigger round.
FaultyOnlyAgain(i) == recent[i] /\ instance[i] < MaxInstance
MayTrigger(i) == ~recent[i] /\ instance[i] < MaxInstance

\* triggerReElection up to its runElection.
Raise(i) ==
    /\ recent' = [recent EXCEPT ![i] = TRUE]
    /\ instance' = [instance EXCEPT ![i] = @ + 1]

\* Nobody still waits for the result of an election whose winner has led: an
\* election is over long before the heartbeats of its winner can go stale.
Concluded ==
    \A i, j \in Node, t, u \in Thread :
        thread[j][u].pc = "lead" =>
            /\ Is(i, t, "propose") => thread[j][u].seq < instance[i]
            /\ Is(i, t, "poll") => thread[j][u].seq < thread[i][t].seq

\* coordinatorWatchdog finds its coordinator's heartbeat stale: it triggers an
\* election, or ends because somebody else just has.
Suspect(i, t) ==
    LET c == thread[i][t].coord IN
    /\ Is(i, t, "watch") /\ c \in heard[i]
    /\ Timely => ~Sends(c, i) /\ Concluded
    /\ \/ MayTrigger(i) /\ Raise(i)
          /\ thread' = [thread EXCEPT ![i][t] = [Free EXCEPT !.pc = "propose"]]
       \/ recent[i] /\ UNCHANGED <<recent, instance>>
          /\ thread' = [thread EXCEPT ![i][t] = [Free EXCEPT !.pc = "ended"]]
    /\ UNCHANGED <<paxosVars, upVars, isLeader, beatVars, requests>>

\* A worker's watchdog finds the leader's heartbeat stale and asks every
\* coordinator, one after another.  What several workers ask at once is one set:
\* which worker asks makes no difference.  A coordinator that would ignore the
\* request is left out of it.
WorkerSuspects ==
    /\ \E j \in workerHeard : nodeUp[j] /\ (Timely => ~SentToWorker(j) /\ Concluded)
    /\ requests' = requests \cup {i \in Node : coordUp[i] /\ MayTrigger(i)}
    /\ requests' # requests
    /\ UNCHANGED <<paxosVars, upVars, nodeVars, thread, beatVars>>

RequestElection(i) ==
    /\ i \in requests
    /\ requests' = requests \ {i}
    /\ \/ /\ coordUp[i] /\ MayTrigger(i) /\ Raise(i)
          /\ \E t \in Thread :
                /\ thread[i][t].pc = "free"
                /\ \A u \in Thread : u < t => thread[i][u].pc # "free"
                /\ thread' = [thread EXCEPT ![i][t].pc = "propose"]
       \/ /\ ~coordUp[i] \/ ~MayTrigger(i)
          /\ UNCHANGED <<recent, instance, thread>>
    /\ UNCHANGED <<paxosVars, upVars, isLeader, beatVars>>

\* No election, no search for candidates and no round of requests is under way.
Settled ==
    /\ \A i \in Node, t \in Thread :
          coordUp[i] => thread[i][t].pc \notin {"propose", "poll", "candidates"}
    /\ requests = {}

\* heartbeatTimeout has passed since i's last trigger.
WindowPasses(i) ==
    /\ recent[i] /\ instance[i] < MaxInstance
    /\ Timely => Settled
    /\ recent' = [recent EXCEPT ![i] = FALSE]
    /\ UNCHANGED <<paxosVars, upVars, instance, isLeader, thread, beatVars, requests>>

-----------------------------------------------------------------------------
(* Failures *)

\* The coordinator is killed; the worker of its node goes on.
KillCoord(i) ==
    /\ MayFail(i)
    /\ coordUp' = [coordUp EXCEPT ![i] = FALSE]
    /\ UNCHANGED <<paxosVars, nodeUp, nodeVars, thread, beatVars, requests>>

\* The whole node dies, and with it what its worker had yet to ask.
CrashNode(i) ==
    /\ MayFail(i) /\ Cardinality({j \in Node : ~nodeUp[j]}) < MaxCrashed
    /\ coordUp' = [coordUp EXCEPT ![i] = FALSE]
    /\ nodeUp' = [nodeUp EXCEPT ![i] = FALSE]
    /\ requests' \in {requests, {}}
    /\ UNCHANGED <<paxosVars, nodeVars, thread, beatVars>>

-----------------------------------------------------------------------------
Coordinate(i) ==
    \/ Decide(i)
    \/ \E t \in Thread :
          Propose(i, t) \/ TakeRole(i, t) \/ StartLoops(i, t) \/ GiveUp(i, t) \/ Suspect(i, t)

Beat == (\E i, j \in Node : Heartbeat(j, i)) \/ (\E j \in Node : WorkerHeartbeat(j))

Request == WorkerSuspects \/ \E i \in Node : RequestElection(i)

Next ==
    \/ \E i \in Node :
          Coordinate(i) \/ WindowPasses(i) \/ KillCoord(i) \/ CrashNode(i)
    \/ Beat \/ Request

Spec == Init /\ [][Next]_vars

\* Everything that runs goes on, and heartbeats arrive; nothing need fail.
FairSpec ==
    /\ Spec /\ WF_vars(Beat) /\ WF_vars(Request)
    /\ \A i \in Node : WF_vars(Coordinate(i)) /\ WF_vars(WindowPasses(i))
=============================================================================
