------------------------------- MODULE Paxos -------------------------------
(***************************************************************************)
(* The consensus library of paxos/paxos.go: every peer is an acceptor      *)
(* (Prepare, Accept, Inform handlers under px.mu) and may run any number   *)
(* of propose goroutines, each calling the peers one after another over a  *)
(* synchronous RPC.                                                        *)
(*                                                                         *)
(* One TLA+ step is one critical section of px.mu, or one call.  A call    *)
(* runs the handler at the peer and counts its reply in the same step:     *)
(* the counters are locals of the calling goroutine, so nobody can see the *)
(* difference.  A call that returns an error either never reached the peer *)
(* or left its request behind in `late', where the peer's handler          *)
(* goroutine may still run it at any later time.                           *)
(***************************************************************************)
EXTENDS Integers, FiniteSets

CONSTANTS
    N,          \* len(px.peers)
    Seqs,       \* the instance numbers in use
    Value,      \* the values Start is called with
    Goroutine,  \* the propose goroutines, over all peers
    Nil,        \* Go's nil: no value
    MaxCounter, \* bound: a peer draws at most this many ballots
    Lossy,      \* whether a call to a peer that is up may fail
    MaxLate,    \* bound: requests that have outlived their call, at once
    MaxKilled   \* bound: peers killed

ASSUME NAssumption == N \in Nat \ {0}
ASSUME SeqsAssumption == Seqs # {} /\ Seqs \subseteq Nat
ASSUME NilAssumption == Nil \notin Value
ASSUME LossyAssumption == Lossy \in BOOLEAN
ASSUME BoundsAssumption ==
    MaxCounter \in Nat \ {0} /\ MaxLate \in Nat /\ MaxKilled \in Nat

Node == 0 .. N-1

VARIABLES
    instances,   \* instances[i][s]: peer i's acceptor and learner state
    doneValues,  \* doneValues[i][j]: what i last heard of j's Done
    propCounter, \* propCounter[i]: the ballots i has drawn
    maxSeen,     \* maxSeen[i]: the largest seq started at i
    dead,        \* dead[i]: Kill was called at i
    pc,          \* pc[g]: where goroutine g stands in propose
    prop,        \* prop[g]: the locals of goroutine g
    late         \* requests whose caller has given up on them

vars == <<instances, doneValues, propCounter, maxSeen, dead, pc, prop, late>>

(* Each definition named Faulty... is a plausible mistake in the one below  *)
(* it; no action uses it, and a property must fail with it in its place.   *)

FaultyMajorityHalf == N \div 2
FaultyMajorityAll == N
Majority == N \div 2 + 1
LargerOf(a, b) == IF a > b THEN a ELSE b

\* getInstance creates an instance on first use and minLocked deletes it: a
\* deleted or absent instance and a newly created one answer alike.
Fresh == [n_p |-> 0, n_a |-> 0, v_a |-> Nil, fate |-> "Pending", v_decided |-> Nil]

Blank == [node |-> 0, seq |-> CHOOSE s \in Seqs : TRUE, v |-> Nil, n |-> 0,
          peer |-> 0, oks |-> {}, highestN_a |-> 0, v_adopted |-> Nil,
          maxNpSeen |-> 0, v_prime |-> Nil, done |-> -1]

Init ==
    /\ instances = [i \in Node |-> [s \in Seqs |-> Fresh]]
    /\ doneValues = [i \in Node |-> [j \in Node |-> -1]]
    /\ propCounter = [i \in Node |-> 0]
    /\ maxSeen = [i \in Node |-> 0]
    /\ dead = [i \in Node |-> FALSE]
    /\ pc = [g \in Goroutine |-> "idle"]
    /\ prop = [g \in Goroutine |-> Blank]
    /\ late = {}

-----------------------------------------------------------------------------
(* Acceptor: the three RPC handlers, each one critical section. *)

Hear(q, a) == doneValues' = [doneValues EXCEPT ![q][a.peer] = a.done]

FaultyGrants(i, n) == n >= i.n_p
Grants(i, n) == n > i.n_p

Prepare(q, a) ==
    /\ Hear(q, a)
    /\ instances' = IF Grants(instances[q][a.seq], a.n)
                    THEN [instances EXCEPT ![q][a.seq].n_p = a.n]
                    ELSE instances

FaultyVotes(i, n) == n >= i.n_a
Votes(i, n) == n >= i.n_p

Accept(q, a) ==
    /\ Hear(q, a)
    /\ instances' = IF Votes(instances[q][a.seq], a.n)
                    THEN [instances EXCEPT ![q][a.seq] =
                            [@ EXCEPT !.n_p = a.n, !.n_a = a.n, !.v_a = a.value]]
                    ELSE instances

Inform(q, a) ==
    /\ Hear(q, a)
    /\ instances' = [instances EXCEPT ![q][a.seq] =
                       [@ EXCEPT !.v_decided = a.value, !.fate = "Decided"]]

-----------------------------------------------------------------------------
(* Status and Min.  (Done, which would advance doneValues, and Min on its own *)
(* are never called by the program and left out.)                          *)

\* seq < Min() at i: everyone i has heard of is done with s.
Forgotten(i, s) == \A j \in Node : doneValues[i][j] >= s

\* minLocked frees what is forgotten.
FreeForgotten(i) ==
    instances' = [instances EXCEPT ![i] =
                    [s \in Seqs |-> IF Forgotten(i, s) THEN Fresh ELSE @[s]]]

Status(i, s) == IF Forgotten(i, s) THEN "Forgotten" ELSE instances[i][s].fate

-----------------------------------------------------------------------------
(* Proposer. *)

FaultyBallot(k, i) == k + i
Ballot(k, i) == k * N + i

Start(g, i, s, v) ==
    /\ pc[g] = "idle"
    /\ pc' = [pc EXCEPT ![g] = "loop"]
    /\ prop' = [prop EXCEPT ![g] = [Blank EXCEPT !.node = i, !.seq = s, !.v = v]]
    /\ maxSeen' = [maxSeen EXCEPT ![i] = LargerOf(@, s)]
    /\ UNCHANGED <<instances, doneValues, propCounter, dead, late>>

\* The test at the head of the loop: leave once decided, forgotten or killed.
CheckStatus(g) ==
    LET p == prop[g] IN
    /\ pc[g] = "loop"
    /\ FreeForgotten(p.node)
    /\ pc' = [pc EXCEPT ![g] = IF Status(p.node, p.seq) = "Pending" /\ ~dead[p.node]
                               THEN "draw" ELSE "stopped"]
    /\ UNCHANGED <<doneValues, propCounter, maxSeen, dead, prop, late>>

\* Phase 1 opens: draw a ballot no one has used and capture this peer's Done.
DrawBallot(g) ==
    LET p == prop[g] IN
    /\ pc[g] = "draw"
    /\ propCounter[p.node] < MaxCounter
    /\ propCounter' = [propCounter EXCEPT ![p.node] = @ + 1]
    /\ prop' = [prop EXCEPT ![g] =
                  [Blank EXCEPT !.node = p.node, !.seq = p.seq, !.v = p.v,
                                !.n = Ballot(propCounter[p.node], p.node),
                                !.done = doneValues[p.node][p.node]]]
    /\ pc' = [pc EXCEPT ![g] = "prepare"]
    /\ UNCHANGED <<instances, doneValues, maxSeen, dead, late>>

\* The request g is about to make of peer q; pc[g] names the phase.
Request(g, q) ==
    [kind |-> pc[g], to |-> q, seq |-> prop[g].seq, n |-> prop[g].n,
     value |-> prop[g].v_prime, peer |-> prop[g].node, done |-> prop[g].done]

\* A peer answers its own requests by a direct call, others while not killed.
Reachable(i, q) == i = q \/ ~dead[q]

\* Adopts what was reported last instead of highest.
FaultyPromised(p, q, i) ==
    [p EXCEPT !.peer = @ + 1, !.oks = @ \cup {q},
              !.highestN_a = LargerOf(i.n_a, @),
              !.v_adopted = IF i.n_a > 0 THEN i.v_a ELSE @]

Promised(p, q, i) ==
    [p EXCEPT !.peer = @ + 1, !.oks = @ \cup {q},
              !.highestN_a = LargerOf(i.n_a, @),
              !.v_adopted = IF i.n_a > p.highestN_a THEN i.v_a ELSE @]

Voted(p, q) == [p EXCEPT !.peer = @ + 1, !.oks = @ \cup {q}]

Refused(p, i) == [p EXCEPT !.peer = @ + 1, !.maxNpSeen = LargerOf(i.n_p, @)]

Calling(g) == pc[g] \in {"prepare", "accept", "inform"} /\ prop[g].peer \in Node

CallPrepare(g) ==
    LET p == prop[g]
        q == p.peer
        i == instances[q][p.seq] IN
    /\ pc[g] = "prepare" /\ Calling(g) /\ Reachable(p.node, q)
    /\ Prepare(q, Request(g, q))
    /\ prop' = [prop EXCEPT ![g] = IF Grants(i, p.n) THEN Promised(p, q, i) ELSE Refused(p, i)]
    /\ UNCHANGED <<propCounter, maxSeen, dead, pc, late>>

CallAccept(g) ==
    LET p == prop[g]
        q == p.peer
        i == instances[q][p.seq] IN
    /\ pc[g] = "accept" /\ Calling(g) /\ Reachable(p.node, q)
    /\ Accept(q, Request(g, q))
    /\ prop' = [prop EXCEPT ![g] = IF Votes(i, p.n) THEN Voted(p, q) ELSE Refused(p, i)]
    /\ UNCHANGED <<propCounter, maxSeen, dead, pc, late>>

CallInform(g) ==
    LET p == prop[g]
        q == p.peer IN
    /\ pc[g] = "inform" /\ Calling(g) /\ Reachable(p.node, q)
    /\ Inform(q, Request(g, q))
    /\ prop' = [prop EXCEPT ![g].peer = @ + 1]
    /\ UNCHANGED <<propCounter, maxSeen, dead, pc, late>>

\* call returned false: the zero reply counts for nothing.  Either the peer
\* never got the request, or it has it and has yet to run the handler.
CallFails(g) ==
    LET p == prop[g]
        q == p.peer IN
    /\ Calling(g) /\ q # p.node
    /\ Lossy \/ dead[q]
    /\ prop' = [prop EXCEPT ![g].peer = @ + 1]
    /\ \/ UNCHANGED late
       \/ /\ ~dead[q] /\ Cardinality(late) < MaxLate
          /\ late' = late \cup {Request(g, q)}
    /\ UNCHANGED <<instances, doneValues, propCounter, maxSeen, dead, pc>>

\* The handler of an abandoned request runs at last.
RunLate(m) ==
    /\ \/ m.kind = "prepare" /\ Prepare(m.to, m)
       \/ m.kind = "accept" /\ Accept(m.to, m)
       \/ m.kind = "inform" /\ Inform(m.to, m)
    /\ late' = late \ {m}
    /\ UNCHANGED <<propCounter, maxSeen, dead, pc, prop>>

AllCalled(g) == prop[g].peer = N
HasMajority(g) == Cardinality(prop[g].oks) >= Majority

\* A majority promised: adopt the value of the highest ballot they reported.
OpenAccept(g) ==
    LET p == prop[g] IN
    /\ pc[g] = "prepare" /\ AllCalled(g) /\ HasMajority(g)
    /\ prop' = [prop EXCEPT ![g] =
                  [p EXCEPT !.v_prime = IF p.v_adopted # Nil THEN p.v_adopted ELSE p.v,
                            !.peer = 0, !.oks = {}, !.maxNpSeen = 0,
                            !.highestN_a = 0, !.v_adopted = Nil,
                            !.done = doneValues[p.node][p.node]]]
    /\ pc' = [pc EXCEPT ![g] = "accept"]
    /\ UNCHANGED <<instances, doneValues, propCounter, maxSeen, dead, late>>

\* A majority accepted: the value is chosen.  The accepted set oks stays.
OpenInform(g) ==
    LET p == prop[g] IN
    /\ pc[g] = "accept" /\ AllCalled(g) /\ HasMajority(g)
    /\ prop' = [prop EXCEPT ![g] =
                  [p EXCEPT !.peer = 0, !.done = doneValues[p.node][p.node]]]
    /\ pc' = [pc EXCEPT ![g] = "inform"]
    /\ UNCHANGED <<instances, doneValues, propCounter, maxSeen, dead, late>>

FaultyHintUndivided(maxNpSeen) == maxNpSeen + 1
FaultyHintTie(maxNpSeen) == maxNpSeen \div N

\* setPropCounter's hint: the first counter whose ballots beat maxNpSeen.
Hint(maxNpSeen) == maxNpSeen \div N + 1

\* No majority in phase 1 or 2: jump past the ballot that won and start over.
Retry(g) ==
    LET p == prop[g] IN
    /\ pc[g] \in {"prepare", "accept"} /\ AllCalled(g) /\ ~HasMajority(g)
    /\ propCounter' = [propCounter EXCEPT ![p.node] = LargerOf(Hint(p.maxNpSeen), @)]
    /\ prop' = [prop EXCEPT ![g] = [Blank EXCEPT !.node = p.node, !.seq = p.seq,
                                                 !.v = p.v, !.maxNpSeen = p.maxNpSeen]]
    /\ pc' = [pc EXCEPT ![g] = "loop"]
    /\ UNCHANGED <<instances, doneValues, maxSeen, dead, late>>

Return(g) ==
    /\ pc[g] = "inform" /\ AllCalled(g)
    /\ pc' = [pc EXCEPT ![g] = "informed"]
    /\ UNCHANGED <<instances, doneValues, propCounter, maxSeen, dead, prop, late>>

Kill(i) ==
    /\ ~dead[i] /\ Cardinality({j \in Node : dead[j]}) < MaxKilled
    /\ dead' = [dead EXCEPT ![i] = TRUE]
    /\ UNCHANGED <<instances, doneValues, propCounter, maxSeen, pc, prop, late>>

Propose(g) ==
    \/ CheckStatus(g) \/ DrawBallot(g)
    \/ CallPrepare(g) \/ CallAccept(g) \/ CallInform(g) \/ CallFails(g)
    \/ OpenAccept(g) \/ OpenInform(g) \/ Retry(g) \/ Return(g)

Next ==
    \/ \E g \in Goroutine :
          \/ Propose(g)
          \/ \E i \in Node, s \in Seqs, v \in Value : Start(g, i, s, v)
    \/ \E m \in late : RunLate(m)
    \/ \E i \in Node : Kill(i)

Spec == Init /\ [][Next]_vars

\* A goroutine that can take a step eventually takes one.
FairSpec == Spec /\ \A g \in Goroutine : WF_vars(Propose(g))
=============================================================================
