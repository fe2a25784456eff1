---------------------------- MODULE ElectionInv ----------------------------
(***************************************************************************)
(* What elections must guarantee the program that acts on them.            *)
(***************************************************************************)
EXTENDS Election

ThreadState ==
    [pc : {"free", "propose", "poll", "candidates", "lead", "watch", "ended"},
     seq : Seqs, coord : Node \cup {Nil}]

\* Every variable keeps its type.
TypeOK ==
    /\ proposed \subseteq Seqs \X Node
    /\ decided \in [Node -> [Seqs -> Node \cup {Nil}]]
    /\ coordUp \in [Node -> BOOLEAN] /\ nodeUp \in [Node -> BOOLEAN]
    /\ instance \in [Node -> Seqs]
    /\ isLeader \in [Node -> BOOLEAN] /\ recent \in [Node -> BOOLEAN]
    /\ thread \in [Node -> [Thread -> ThreadState]]
    /\ heard \in [Node -> SUBSET Node] /\ workerHeard \subseteq Node
    /\ requests \subseteq Node

Elected(i, s) ==
    \E t \in Thread : thread[i][t].pc \in {"candidates", "lead"} /\ thread[i][t].seq = s

\* No two nodes, dead ones included, lead by the same election.
OneLeaderPerElection ==
    \A i, j \in Node, s \in Seqs : Elected(i, s) /\ Elected(j, s) => i = j

\* A node that follows in an election follows the node that leads by it.
FollowersAgree ==
    \A i, j \in Node, t \in Thread :
        thread[i][t].pc = "watch" /\ Elected(j, thread[i][t].seq) => thread[i][t].coord = j

\* Only a node that takes itself for the leader sends the leader's heartbeats
\* and runs an epoch loop.
OnlyLeaderSends == \A i \in Node : Leading(i) => isLeader[i]

\* Until a coordinator fails, one epoch loop runs in the cluster.
OneEpochLoop ==
    (\A i \in Node : coordUp[i]) =>
        \A i, j \in Node, t, u \in Thread :
            Is(i, t, "lead") /\ Is(j, u, "lead") => i = j /\ t = u

\* Not even on one node do two threads lead by the same election: a trigger that
\* raises the instance between another's raise and its proposal is kept out.
OneThreadPerElection ==
    \A i, j \in Node, t, u \in Thread :
        Is(i, t, "lead") /\ Is(j, u, "lead") /\ thread[i][t].seq = thread[j][u].seq
            => i = j /\ t = u

\* The result of an election is not acted on after that of a later one.
NoStaleResult ==
    [][\A i \in Node, t, u \in Thread :
          /\ thread[i][t].pc = "poll" /\ thread'[i][t].pc \in {"candidates", "watch"}
          /\ thread[i][u].pc \in {"candidates", "lead", "watch"}
          => thread[i][u].seq <= thread[i][t].seq]_vars

\* A leader comes to be, unless a coordinator fails before.
LeaderEmerges == <>((\E i \in Node : Leading(i)) \/ (\E i \in Node : ~coordUp[i]))

\* Once a worker has heard a leader, coordinators may fail and a leader is found
\* again.  When a whole node fails, three nodes are one too few for the roles.
LeaderReturns ==
    workerHeard # {} ~> (\E i \in Node : Leading(i)) \/ (\E i \in Node : ~nodeUp[i])

-----------------------------------------------------------------------------
(* The inductive invariant *)

\* Consensus: no two nodes know different winners.
WinnersAgree ==
    \A i, j \in Node, s \in Seqs : decided[i][s] = Nil \/ decided[j][s] \in {Nil, decided[i][s]}

\* What a thread has become is the result of the election it took part in, and
\* stays so, whatever elections its node has raised since.
RolesDecided ==
    \A i \in Node, t \in Thread :
        thread[i][t].pc \in {"candidates", "lead", "watch"} =>
            /\ thread[i][t].coord = decided[i][thread[i][t].seq]
            /\ thread[i][t].coord # Nil
            /\ thread[i][t].pc = "watch" <=> thread[i][t].coord # i

\* The invariant that is inductive.
IInv == TypeOK /\ WinnersAgree /\ RolesDecided
(* When heartbeats and elections are timely, more is. *)

\* Thread t of node i takes part in an election that is not over for it.
Electing(i, t) == thread[i][t].pc \in {"propose", "poll", "candidates"}

\* Thread t of node i has acted on the result of an election.
Acted(i, t) == thread[i][t].pc \in {"candidates", "lead", "watch"}

\* One thread of a node elects at a time, in an election later than those the
\* others have acted on; and no two have acted on the same one.
ElectionsInTurn ==
    \A i \in Node, t, u \in Thread :
        /\ thread[i][t].pc \in {"poll", "candidates"} => thread[i][t].seq = instance[i]
        /\ Acted(i, t) => thread[i][t].seq <= instance[i]
        /\ instance[i] = 0 /\ t # 0 => thread[i][t].pc = "free"
        /\ t # u /\ Electing(i, t) =>
               ~Electing(i, u) /\ (Acted(i, u) => thread[i][u].seq < instance[i])
        /\ t # u /\ Acted(i, t) /\ Acted(i, u) => thread[i][t].seq # thread[i][u].seq

\* A node that could be triggered is not electing.
TriggersDistinct ==
    \A i \in Node, t \in Thread :
        coordUp[i] /\ ~recent[i] /\ (instance[i] > 0 \/ i \in requests) => ~Electing(i, t)

SomeLeader == \E i \in Node, t \in Thread : thread[i][t].pc = "lead"

\* The winner of the first election has led, or its node is gone.
FirstOver ==
    \E c \in Node :
        /\ \E k \in Node : decided[k][0] = c
        /\ nodeUp[c] => \E u \in Thread : thread[c][u].pc = "lead" /\ thread[c][u].seq = 0

\* Before that nobody leads, and nobody starts or asks for another election.
FirstElection ==
    /\ SomeLeader \/ (\E i \in Node : instance[i] > 0) => FirstOver
    /\ workerHeard # {} \/ requests # {} => SomeLeader
    /\ \A i \in Node : coordUp[i] => nodeUp[i]

\* Until a coordinator fails, nobody does so at all.
NothingRaised ==
    (\A i \in Node : coordUp[i]) =>
        /\ requests = {}
        /\ \A i \in Node : instance[i] = 0
        /\ \A j \in workerHeard : SentToWorker(j)

TimelyInv == ElectionsInTurn /\ TriggersDistinct /\ FirstElection /\ NothingRaised
=============================================================================
