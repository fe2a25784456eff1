------------------------------ MODULE PaxosInv ------------------------------
(***************************************************************************)
(* What Paxos must guarantee, and the inductive invariant that shows it.   *)
(***************************************************************************)
EXTENDS Paxos

Quorum == {Q \in SUBSET Node : Cardinality(Q) >= Majority}

Decided(i, s) == instances[i][s].fate = "Decided"

-----------------------------------------------------------------------------
(* Properties *)

\* The ballots that at most MaxCounter draws per peer can produce.
Ballots == 0 .. MaxCounter * N - 1

Instance == [n_p : Ballots, n_a : Ballots, v_a : Value \cup {Nil},
             fate : {"Pending", "Decided"}, v_decided : Value \cup {Nil}]

Locals == [node : Node, seq : Seqs, v : Value \cup {Nil}, n : Ballots, peer : 0 .. N,
           oks : SUBSET Node, highestN_a : Ballots, v_adopted : Value \cup {Nil},
           maxNpSeen : Ballots, v_prime : Value \cup {Nil}, done : Seqs \cup {-1}]

Message == [kind : {"prepare", "accept", "inform"}, to : Node, seq : Seqs, n : Ballots,
            value : Value \cup {Nil}, peer : Node, done : Seqs \cup {-1}]

\* Every variable keeps its type; above all, setPropCounter never jumps past
\* the ballots the peers have really drawn.
TypeOK ==
    /\ instances \in [Node -> [Seqs -> Instance]]
    /\ doneValues \in [Node -> [Node -> Seqs \cup {-1}]]
    /\ propCounter \in [Node -> 0 .. MaxCounter]
    /\ maxSeen \in [Node -> Nat]
    /\ dead \in [Node -> BOOLEAN]
    /\ pc \in [Goroutine -> {"idle", "loop", "draw", "prepare", "accept", "inform",
                             "informed", "stopped"}]
    /\ prop \in [Goroutine -> Locals]
    /\ late \subseteq Message

\* No two peers report different decisions for an instance.
Agreement ==
    \A i, j \in Node, s \in Seqs :
        Decided(i, s) /\ Decided(j, s)
            => instances[i][s].v_decided = instances[j][s].v_decided

\* A decision any peer has learned is held by a majority of the acceptors, so
\* every later majority of promises reports it.
DecisionHeld ==
    \A i \in Node, s \in Seqs :
        Decided(i, s) =>
            \E Q \in Quorum : \A q \in Q :
                instances[q][s].v_a = instances[i][s].v_decided

\* No two goroutines, on one peer or on two, work with the same ballot.
BallotsDistinct ==
    \A g, h \in Goroutine :
        g # h /\ {pc[g], pc[h]} \subseteq {"prepare", "accept", "inform"}
            => prop[g].n # prop[h].n

\* A goroutine that lost a round to ballot maxNpSeen retries above it, whatever
\* the other goroutines of its peer have drawn in the meantime.
RetryBeatsWinner ==
    \A g \in Goroutine :
        pc[g] \in {"loop", "draw"} /\ prop[g].maxNpSeen > 0
            => Ballot(propCounter[prop[g].node], prop[g].node) > prop[g].maxNpSeen

\* No other goroutine works on the instance of g.
Alone(g) == \A h \in Goroutine \ {g} : pc[h] # "idle" => prop[h].seq # prop[g].seq

\* A proposer that stays alone on its instance, among peers of which a majority
\* stays up, gets its value decided and announced unless its own peer is killed:
\* neither the ballots drawn for other instances nor dead peers can hang propose.
AloneFinishes ==
    \A g \in Goroutine :
        [](pc[g] # "idle" => Alone(g)) =>
            (pc[g] = "loop" ~> \/ pc[g] = "informed"
                               \/ pc[g] = "stopped" /\ dead[prop[g].node])

-----------------------------------------------------------------------------
(* Refinement of Consensus *)

proposedBar == {<<prop[g].seq, prop[g].v>> : g \in {h \in Goroutine : pc[h] # "idle"}}

decidedBar == [i \in Node |-> [s \in Seqs |->
                 IF Decided(i, s) THEN instances[i][s].v_decided ELSE Nil]]

C == INSTANCE Consensus WITH proposed <- proposedBar, decided <- decidedBar

ConsensusSpec == C!Spec

-----------------------------------------------------------------------------
(* The inductive invariant *)

\* g works with a ballot it has drawn and not given up,
InRound(g) == pc[g] \in {"prepare", "accept", "inform", "informed"}

\* has fixed the value it proposes in it,
Proposing(g) == pc[g] \in {"accept", "inform", "informed"}

\* and a majority has accepted that value.
Chose(g) == pc[g] \in {"inform", "informed"}

At(g, s, b) == InRound(g) /\ prop[g].seq = s /\ prop[g].n = b

Proposes(g, s, b) == Proposing(g) /\ prop[g].seq = s /\ prop[g].n = b

DrawnBy(i, b) == \E k \in 0 .. propCounter[i] - 1 : b = Ballot(k, i)

Used(b) == \E i \in Node : DrawnBy(i, b)

\* v is somewhere in the system as the proposal of ballot b: accepted, in a
\* late request, held by its proposer, or reported to a proposer by a promise.
Proposal(s, b, v) ==
    \/ \E q \in Node : b # 0 /\ instances[q][s].n_a = b /\ instances[q][s].v_a = v
    \/ \E m \in late : m.kind = "accept" /\ m.seq = s /\ m.n = b /\ m.value = v
    \/ \E g \in Goroutine : Proposes(g, s, b) /\ prop[g].v_prime = v
    \/ \E g \in Goroutine : /\ pc[g] = "prepare" /\ prop[g].seq = s
                            /\ b # 0 /\ prop[g].highestN_a = b /\ prop[g].v_adopted = v

\* No vote of q is or will be counted in ballot b.
Blocked(q, s, b) ==
    /\ instances[q][s].n_p > b
    /\ \A g \in Goroutine : Proposes(g, s, b) => q \notin prop[g].oks

\* Ballot b was drawn, and whoever drew it has given it up or spent it elsewhere.
Closed(s, b) == Used(b) /\ \A g \in Goroutine : ~At(g, s, b)

\* No value but v was or will be chosen below ballot b.
SafeAt(s, b, v) ==
    \A c \in 0 .. b-1 :
        \/ \E g \in Goroutine : Proposes(g, s, c) /\ prop[g].v_prime = v
        \/ Closed(s, c)
        \/ \E Q \in Quorum : \A q \in Q : Blocked(q, s, c)

\* Nobody calls Done, so nothing is ever forgotten.
NoneDone ==
    /\ \A i, j \in Node : doneValues[i][j] = -1
    /\ \A g \in Goroutine : prop[g].done = -1
    /\ \A m \in late : m.done = -1

\* A goroutine that has started has a value.
StartInv == \A g \in Goroutine : pc[g] # "idle" => prop[g].v \in Value

\* A ballot belongs to the one goroutine that drew it.
BallotInv ==
    /\ \A g \in Goroutine : InRound(g) => DrawnBy(prop[g].node, prop[g].n)
    /\ \A g, h \in Goroutine : InRound(g) /\ InRound(h) /\ prop[g].n = prop[h].n => g = h
    /\ \A s \in Seqs, b \in Ballots, v \in Value : Proposal(s, b, v) => Used(b)

AcceptorInv ==
    \A q \in Node, s \in Seqs :
        /\ instances[q][s].n_a <= instances[q][s].n_p
        /\ instances[q][s].n_a # 0 => instances[q][s].v_a \in Value

\* What the promises g has collected say: between the highest ballot they
\* report and its own, no vote of theirs was or will be counted.
Collected(g) ==
    LET p == prop[g] IN
    /\ p.highestN_a = 0 => p.v_adopted = Nil
    /\ p.highestN_a # 0 => p.v_adopted \in Value /\ p.highestN_a < p.n
    /\ p.oks # {} => p.n > 0
    /\ \A q \in p.oks :
          /\ instances[q][p.seq].n_p >= p.n
          /\ \A h \in Goroutine :
                Proposing(h) /\ prop[h].seq = p.seq
                    /\ p.highestN_a < prop[h].n /\ prop[h].n < p.n
                => q \notin prop[h].oks

PrepareInv ==
    \A g \in Goroutine : pc[g] = "prepare" =>
        /\ Collected(g)
        /\ \A v \in Value : ~Proposal(prop[g].seq, prop[g].n, v)

AcceptInv ==
    \A g \in Goroutine : Proposing(g) =>
        LET p == prop[g] IN
        /\ p.n > 0 /\ p.v_prime \in Value
        /\ \A q \in p.oks : instances[q][p.seq].n_a >= p.n
        /\ Chose(g) => p.oks \in Quorum

LateInv == \A m \in late : m.kind = "accept" => m.n > 0 /\ m.value \in Value

\* One value per ballot, proposed by someone, and safe.
ProposalInv ==
    \A s \in Seqs, b \in Ballots, v \in Value : Proposal(s, b, v) =>
        /\ SafeAt(s, b, v)
        /\ \A w \in Value : Proposal(s, b, w) => w = v
        /\ <<s, v>> \in proposedBar

\* What is learned, or about to be, was chosen.
LearnInv ==
    /\ \A i \in Node, s \in Seqs : Decided(i, s) =>
          \E g \in Goroutine :
              Chose(g) /\ prop[g].seq = s /\ prop[g].v_prime = instances[i][s].v_decided
    /\ \A m \in late : m.kind = "inform" =>
          \E g \in Goroutine :
              Chose(g) /\ prop[g].seq = m.seq /\ prop[g].v_prime = m.value

\* The invariant that is inductive.
IInv ==
    /\ TypeOK /\ NoneDone /\ StartInv /\ BallotInv /\ AcceptorInv /\ PrepareInv
    /\ AcceptInv /\ LateInv /\ ProposalInv /\ LearnInv
=============================================================================
