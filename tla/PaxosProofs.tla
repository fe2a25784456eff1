---------------------------- MODULE PaxosProofs ----------------------------
(***************************************************************************)
(* Proofs, for every number of peers, goroutines, values and instances, of *)
(* the properties of PaxosInv.                                             *)
(***************************************************************************)
EXTENDS PaxosInv, FiniteSetTheorems, TLAPS

-----------------------------------------------------------------------------
(* Arithmetic of ballots *)

\* Multiplication by a natural number preserves the order.
LEMMA MulMonotone ==
    ASSUME NEW a \in Nat, NEW b \in Nat, NEW c \in Nat, a <= b
    PROVE  a * c <= b * c
<1>1. (b - a) * c >= 0
    BY SMT
<1>2. (b - a) * c = b * c - a * c
    BY SMT
<1> QED BY <1>1, <1>2, SMT

\* The first MaxCounter ballots of every peer are in Ballots.
LEMMA BallotType ==
    ASSUME NEW k \in 0 .. MaxCounter - 1, NEW i \in Node
    PROVE  Ballot(k, i) \in Ballots /\ Ballot(k, i) < (k + 1) * N
<1>1. k * N \in Nat /\ (k + 1) * N = k * N + N /\ MaxCounter * N \in Nat
    BY NAssumption, BoundsAssumption, SMT
<1>2. (k + 1) * N <= MaxCounter * N
    BY MulMonotone, NAssumption, BoundsAssumption, SMT
<1> QED BY <1>1, <1>2, NAssumption, SMT DEF Ballot, Ballots, Node

\* Ballots name the peer and the draw that made them.
LEMMA BallotUnique ==
    ASSUME NEW k \in Nat, NEW l \in Nat, NEW i \in Node, NEW j \in Node,
           Ballot(k, i) = Ballot(l, j)
    PROVE  k = l /\ i = j
<1>1. ASSUME NEW x \in Nat, NEW y \in Nat, NEW a \in Node, NEW b \in Node, x < y
      PROVE  Ballot(x, a) < Ballot(y, b)
    <2>1. (x + 1) * N <= y * N
        BY <1>1, MulMonotone, NAssumption, SMT
    <2>2. (x + 1) * N = x * N + N /\ x * N \in Nat /\ y * N \in Nat
        BY <1>1, NAssumption, SMT
    <2> QED BY <2>1, <2>2, NAssumption, SMT DEF Ballot, Node
<1>2. Ballot(k, i) \in Nat /\ Ballot(l, j) \in Nat
    <2>1. k * N \in Nat /\ l * N \in Nat
        BY NAssumption, SMT
    <2> QED BY <2>1, NAssumption, SMT DEF Ballot, Node
<1>3. k = l
    BY <1>1, <1>2, SMT
<1>4. k * N \in Nat
    BY NAssumption, SMT
<1> QED BY <1>3, <1>4, NAssumption, SMT DEF Ballot, Node

\* setPropCounter's hint is in range, and its ballots beat the one that won.
LEMMA HintBeats ==
    ASSUME NEW m \in Ballots
    PROVE  Hint(m) \in 1 .. MaxCounter /\ Hint(m) * N > m
<1>1. m \in Nat /\ N \in Nat \ {0} /\ MaxCounter \in Nat /\ m < MaxCounter * N
    <2>1. MaxCounter * N \in Nat
        BY NAssumption, BoundsAssumption, SMT
    <2> QED BY <2>1, NAssumption, BoundsAssumption, SMT DEF Ballots
<1> DEFINE d == m \div N
<1>2. d \in Nat /\ d * N <= m /\ m < d * N + N
    BY <1>1, SMT
<1>3. (d + 1) * N = d * N + N
    BY <1>1, <1>2, SMT
<1>4. d < MaxCounter
    <2> SUFFICES ASSUME MaxCounter <= d PROVE FALSE
        BY <1>1, <1>2, SMT
    <2> QED BY <1>1, <1>2, MulMonotone, SMT
<1> QED BY <1>1, <1>2, <1>3, <1>4, SMT DEF Hint

-----------------------------------------------------------------------------
(* Quorums *)

\* The peers are N many.
LEMMA NodeFinite == IsFiniteSet(Node) /\ Cardinality(Node) = N /\ 0 \in Node
    BY FS_Interval, NAssumption, SMT DEF Node

\* Two majorities share a peer.
LEMMA QuorumsMeet ==
    ASSUME NEW P \in Quorum, NEW Q \in Quorum
    PROVE  \E q \in Node : q \in P /\ q \in Q
<1>1. P \subseteq Node /\ Q \subseteq Node
    BY DEF Quorum
<1>2. Cardinality(P) + Cardinality(Q) > Cardinality(Node)
    <2>1. Cardinality(P) \in Nat /\ Cardinality(Q) \in Nat
        BY <1>1, NodeFinite, FS_Subset, FS_CardinalityType
    <2> QED BY <2>1, NodeFinite, NAssumption, SMT DEF Quorum, Majority
<1> QED BY <1>1, <1>2, NodeFinite, FS_MajoritiesIntersect

-----------------------------------------------------------------------------
(* Type correctness *)

\* Ballot 0 stands for "none yet" in the fields of an acceptor.
LEMMA ZeroBallot == 0 \in Ballots /\ Ballots \subseteq Nat
<1>1. MaxCounter * N \in Nat \ {0}
    BY NAssumption, BoundsAssumption, SMT
<1> QED BY <1>1, SMT DEF Ballots

\* The locals of a goroutine start out typed.
LEMMA BlankType == Blank \in Locals
<1>1. (CHOOSE s \in Seqs : TRUE) \in Seqs
    BY SeqsAssumption
<1> QED BY <1>1, ZeroBallot, NodeFinite, NAssumption DEF Blank, Locals

\* The initial state is typed.
LEMMA InitType == Init => TypeOK
<1> SUFFICES ASSUME Init PROVE TypeOK
    OBVIOUS
<1>1. Fresh \in Instance
    BY ZeroBallot DEF Fresh, Instance
<1> QED BY <1>1, BlankType, BoundsAssumption DEF Init, TypeOK

\* The three handlers keep the acceptor's state typed.
LEMMA HandlerType ==
    ASSUME TypeOK, NEW q \in Node, NEW a \in Message,
           \/ Prepare(q, a)
           \/ Accept(q, a)
           \/ Inform(q, a)
    PROVE  /\ instances' \in [Node -> [Seqs -> Instance]]
           /\ doneValues' \in [Node -> [Node -> Seqs \cup {-1}]]
<1>1. a.seq \in Seqs /\ a.n \in Ballots /\ a.peer \in Node /\ a.done \in Seqs \cup {-1}
        /\ a.value \in Value \cup {Nil}
    BY DEF Message
<1>2. instances[q][a.seq] \in Instance
    BY <1>1 DEF TypeOK
<1>3. doneValues' \in [Node -> [Node -> Seqs \cup {-1}]]
    <2>1. Hear(q, a)
        BY DEF Prepare, Accept, Inform
    <2>2. doneValues \in [Node -> [Node -> Seqs \cup {-1}]]
        BY DEF TypeOK
    <2> QED BY <1>1, <2>1, <2>2 DEF Hear
<1>4. CASE Prepare(q, a)
    BY <1>1, <1>2, <1>3, <1>4 DEF TypeOK, Prepare, Instance
<1>5. CASE Accept(q, a)
    BY <1>1, <1>2, <1>3, <1>5 DEF TypeOK, Accept, Instance
<1>6. CASE Inform(q, a)
    BY <1>1, <1>2, <1>3, <1>6 DEF TypeOK, Inform, Instance
<1> QED BY <1>4, <1>5, <1>6

\* A call carries a typed request.
LEMMA RequestType ==
    ASSUME TypeOK, NEW g \in Goroutine, Calling(g)
    PROVE  /\ Request(g, prop[g].peer) \in Message
           /\ prop[g].peer \in Node /\ prop[g].peer + 1 \in 0 .. N
<1>1. prop[g] \in Locals
    BY DEF TypeOK
<1> QED BY <1>1, NAssumption DEF Calling, Request, Message, Locals, Node

\* Every action of the library keeps the types.
LEMMA NextType == TypeOK /\ [Next]_vars => TypeOK'
<1> SUFFICES ASSUME TypeOK, [Next]_vars PROVE TypeOK'
    OBVIOUS
<1> USE DEF TypeOK
<1>1. ASSUME NEW g \in Goroutine, NEW i \in Node, NEW s \in Seqs, NEW v \in Value,
             Start(g, i, s, v)
      PROVE  TypeOK'
    <2>1. [Blank EXCEPT !.node = i, !.seq = s, !.v = v] \in Locals
        BY BlankType DEF Locals
    <2>2. LargerOf(maxSeen[i], s) \in Nat
        BY SeqsAssumption DEF LargerOf
    <2> QED BY <1>1, <2>1, <2>2 DEF Start
<1>2. ASSUME NEW g \in Goroutine, CheckStatus(g)
      PROVE  TypeOK'
    <2>1. Fresh \in Instance
        BY ZeroBallot DEF Fresh, Instance
    <2>2. prop[g].node \in Node
        BY DEF Locals
    <2>3. instances' \in [Node -> [Seqs -> Instance]]
        BY <1>2, <2>1, <2>2 DEF CheckStatus, FreeForgotten
    <2> QED BY <1>2, <2>3 DEF CheckStatus
<1>3. ASSUME NEW g \in Goroutine, DrawBallot(g)
      PROVE  TypeOK'
    <2>1. prop[g] \in Locals /\ prop[g].node \in Node
        BY DEF Locals
    <2>2. propCounter[prop[g].node] \in 0 .. MaxCounter - 1
        BY <1>3, <2>1, BoundsAssumption DEF DrawBallot
    <2>3. Ballot(propCounter[prop[g].node], prop[g].node) \in Ballots
        BY <2>1, <2>2, BallotType
    <2>4. prop' \in [Goroutine -> Locals]
        <3>1. doneValues[prop[g].node][prop[g].node] \in Seqs \cup {-1}
            BY <2>1
        <3>2. [Blank EXCEPT !.node = prop[g].node, !.seq = prop[g].seq, !.v = prop[g].v,
                            !.n = Ballot(propCounter[prop[g].node], prop[g].node),
                            !.done = doneValues[prop[g].node][prop[g].node]] \in Locals
            BY <2>1, <2>3, <3>1, BlankType DEF Locals
        <3> QED BY <1>3, <3>2 DEF DrawBallot
    <2>5. propCounter' \in [Node -> 0 .. MaxCounter]
        BY <1>3, <2>1, <2>2, BoundsAssumption DEF DrawBallot
    <2> QED BY <1>3, <2>4, <2>5 DEF DrawBallot
<1>4. ASSUME NEW g \in Goroutine, CallPrepare(g) \/ CallAccept(g) \/ CallInform(g)
      PROVE  TypeOK'
    <2> DEFINE p == prop[g]
               q == p.peer
               i == instances[q][p.seq]
    <2>1. Calling(g)
        BY <1>4 DEF CallPrepare, CallAccept, CallInform
    <2>2. Request(g, q) \in Message /\ q \in Node /\ q + 1 \in 0 .. N
        BY <2>1, RequestType
    <2>3. /\ instances' \in [Node -> [Seqs -> Instance]]
          /\ doneValues' \in [Node -> [Node -> Seqs \cup {-1}]]
        BY <1>4, <2>2, HandlerType DEF CallPrepare, CallAccept, CallInform
    <2>4. p \in Locals /\ i \in Instance
        BY <2>2 DEF Locals
    <2>5. /\ Promised(p, q, i) \in Locals
          /\ Voted(p, q) \in Locals
          /\ Refused(p, i) \in Locals
          /\ [p EXCEPT !.peer = @ + 1] \in Locals
        BY <2>2, <2>4 DEF Promised, Voted, Refused, LargerOf, Locals, Instance
    <2>6. prop' \in [Goroutine -> Locals]
        BY <1>4, <2>5 DEF CallPrepare, CallAccept, CallInform
    <2> QED BY <1>4, <2>3, <2>6 DEF CallPrepare, CallAccept, CallInform
<1>5. ASSUME NEW g \in Goroutine, CallFails(g)
      PROVE  TypeOK'
    <2>1. Request(g, prop[g].peer) \in Message /\ prop[g].peer + 1 \in 0 .. N
        BY <1>5, RequestType DEF CallFails
    <2>2. [prop[g] EXCEPT !.peer = @ + 1] \in Locals
        BY <2>1 DEF Locals
    <2> QED BY <1>5, <2>1, <2>2 DEF CallFails
<1>6. ASSUME NEW m \in late, RunLate(m)
      PROVE  TypeOK'
    <2>1. m \in Message /\ m.to \in Node
        BY DEF Message
    <2> QED BY <1>6, <2>1, HandlerType DEF RunLate
<1>7. ASSUME NEW g \in Goroutine, OpenAccept(g) \/ OpenInform(g) \/ Return(g)
      PROVE  TypeOK'
    <2> DEFINE p == prop[g]
               done == doneValues[p.node][p.node]
               v_prime == IF p.v_adopted # Nil THEN p.v_adopted ELSE p.v
    <2>1. p \in Locals /\ p.node \in Node
        BY DEF Locals
    <2>2. done \in Seqs \cup {-1} /\ v_prime \in Value \cup {Nil} /\ 0 \in 0 .. N
        BY <2>1, NAssumption DEF Locals
    <2>3. /\ [p EXCEPT !.peer = 0, !.done = done] \in Locals
          /\ [p EXCEPT !.v_prime = v_prime, !.peer = 0, !.oks = {}, !.maxNpSeen = 0,
                       !.highestN_a = 0, !.v_adopted = Nil, !.done = done] \in Locals
        <3> HIDE DEF done, v_prime
        <3> QED BY <2>1, <2>2, ZeroBallot DEF Locals
    <2>4. prop' \in [Goroutine -> Locals]
        BY <1>7, <2>3 DEF OpenAccept, OpenInform, Return
    <2> QED BY <1>7, <2>4 DEF OpenAccept, OpenInform, Return
<1>8. ASSUME NEW g \in Goroutine, Retry(g)
      PROVE  TypeOK'
    <2>1. prop[g] \in Locals
        OBVIOUS
    <2>2. prop'[g] \in Locals
        BY <1>8, <2>1, BlankType DEF Retry, Locals
    <2>3. Hint(prop[g].maxNpSeen) \in 0 .. MaxCounter
        BY <2>1, HintBeats, BoundsAssumption DEF Locals
    <2>4. propCounter' \in [Node -> 0 .. MaxCounter]
        BY <1>8, <2>1, <2>3 DEF Retry, LargerOf, Locals
    <2> QED BY <1>8, <2>2, <2>4 DEF Retry
<1>9. ASSUME NEW i \in Node, Kill(i)
      PROVE  TypeOK'
    BY <1>9 DEF Kill
<1>10. CASE UNCHANGED vars
    BY <1>10 DEF vars
<1> QED BY <1>1, <1>2, <1>3, <1>4, <1>5, <1>6, <1>7, <1>8, <1>9, <1>10 DEF Next, Propose

\* The types hold in every reachable state.
THEOREM TypeCorrect == Spec => []TypeOK
    BY InitType, NextType, PTL DEF Spec

-----------------------------------------------------------------------------
(* What a step can do *)

\* Without a Done no instance is forgotten or freed.
LEMMA NothingForgotten ==
    ASSUME TypeOK, NoneDone, NEW i \in Node
    PROVE  /\ \A s \in Seqs : ~Forgotten(i, s)
           /\ FreeForgotten(i) => instances' = instances
<1>1. \A s \in Seqs : ~Forgotten(i, s)
    BY NodeFinite, SeqsAssumption DEF Forgotten, NoneDone
<1>2. ASSUME FreeForgotten(i) PROVE instances' = instances
    <2>1. instances[i] = [s \in Seqs |-> instances[i][s]]
        BY DEF TypeOK
    <2>2. instances' = [instances EXCEPT ![i] = [s \in Seqs |-> instances[i][s]]]
        BY <1>1, <1>2 DEF FreeForgotten
    <2> QED BY <2>1, <2>2 DEF TypeOK
<1> QED BY <1>1, <1>2

\* Every step either leaves the acceptors alone or runs one handler.
LEMMA AcceptorStep ==
    ASSUME TypeOK, NoneDone, [Next]_vars
    PROVE  \/ UNCHANGED <<instances, doneValues>>
           \/ \E g \in Goroutine :
                 /\ Calling(g)
                 /\ LET q == prop[g].peer IN
                    \/ pc[g] = "prepare" /\ Prepare(q, Request(g, q))
                    \/ pc[g] = "accept" /\ Accept(q, Request(g, q))
                    \/ pc[g] = "inform" /\ Inform(q, Request(g, q))
           \/ \E m \in late :
                 \/ m.kind = "prepare" /\ Prepare(m.to, m)
                 \/ m.kind = "accept" /\ Accept(m.to, m)
                 \/ m.kind = "inform" /\ Inform(m.to, m)
<1>1. ASSUME NEW g \in Goroutine, CheckStatus(g)
      PROVE  UNCHANGED <<instances, doneValues>>
    <2>1. prop[g].node \in Node
        BY DEF TypeOK, Locals
    <2> QED BY <1>1, <2>1, NothingForgotten DEF CheckStatus
<1>2. ASSUME NEW g \in Goroutine, CallPrepare(g) \/ CallAccept(g) \/ CallInform(g)
      PROVE  /\ Calling(g)
             /\ LET q == prop[g].peer IN
                \/ pc[g] = "prepare" /\ Prepare(q, Request(g, q))
                \/ pc[g] = "accept" /\ Accept(q, Request(g, q))
                \/ pc[g] = "inform" /\ Inform(q, Request(g, q))
    BY <1>2 DEF CallPrepare, CallAccept, CallInform
<1>3. ASSUME NEW m \in late, RunLate(m)
      PROVE  \/ m.kind = "prepare" /\ Prepare(m.to, m)
             \/ m.kind = "accept" /\ Accept(m.to, m)
             \/ m.kind = "inform" /\ Inform(m.to, m)
    BY <1>3 DEF RunLate
<1>4. ASSUME NEW g \in Goroutine,
             \/ \E i \in Node, s \in Seqs, v \in Value : Start(g, i, s, v)
             \/ DrawBallot(g) \/ CallFails(g)
             \/ OpenAccept(g) \/ OpenInform(g) \/ Retry(g) \/ Return(g)
      PROVE  UNCHANGED <<instances, doneValues>>
    BY <1>4 DEF Start, DrawBallot, CallFails, OpenAccept, OpenInform, Retry, Return
<1>5. ASSUME NEW i \in Node, Kill(i)
      PROVE  UNCHANGED <<instances, doneValues>>
    BY <1>5 DEF Kill
<1>6. ASSUME UNCHANGED vars
      PROVE  UNCHANGED <<instances, doneValues>>
    BY <1>6 DEF vars
<1> QED BY <1>1, <1>2, <1>3, <1>4, <1>5, <1>6 DEF Next, Propose

\* Promises and votes only ever go up, and so do the counters.
Grows ==
    /\ \A q \in Node, s \in Seqs :
          /\ instances[q][s].n_p <= instances'[q][s].n_p
          /\ instances[q][s].n_a <= instances'[q][s].n_a
    /\ \A i \in Node : propCounter[i] <= propCounter'[i]

\* A handler never lowers a promise or an accepted ballot.
LEMMA HandlerGrows ==
    ASSUME TypeOK, AcceptorInv, NEW r \in Node, NEW a \in Message,
           Prepare(r, a) \/ Accept(r, a) \/ Inform(r, a),
           NEW q \in Node, NEW s \in Seqs
    PROVE  /\ instances[q][s].n_p <= instances'[q][s].n_p
           /\ instances[q][s].n_a <= instances'[q][s].n_a
<1>1. /\ instances[q][s] \in Instance /\ instances[r][a.seq] \in Instance
      /\ a.seq \in Seqs /\ a.n \in Ballots
    BY DEF TypeOK, Message
<1>2. instances[r][a.seq].n_a <= instances[r][a.seq].n_p
    BY <1>1 DEF AcceptorInv
<1>3. CASE Prepare(r, a)
    BY <1>1, <1>3, ZeroBallot DEF Prepare, Grants, TypeOK, Instance
<1>4. CASE Accept(r, a)
    BY <1>1, <1>2, <1>4, ZeroBallot DEF Accept, Votes, TypeOK, Instance
<1>5. CASE Inform(r, a)
    BY <1>1, <1>5, ZeroBallot DEF Inform, TypeOK, Instance
<1> QED BY <1>3, <1>4, <1>5

\* Neither does any step of the system.
LEMMA StepGrows ==
    ASSUME TypeOK, NoneDone, AcceptorInv, [Next]_vars
    PROVE  Grows
<1>1. ASSUME NEW q \in Node, NEW s \in Seqs
      PROVE  /\ instances[q][s].n_p <= instances'[q][s].n_p
             /\ instances[q][s].n_a <= instances'[q][s].n_a
    <2>1. CASE UNCHANGED instances
        <3>1. instances[q][s] \in Instance
            BY DEF TypeOK
        <3>2. instances[q][s].n_p \in Nat /\ instances[q][s].n_a \in Nat
            BY <3>1, ZeroBallot DEF Instance
        <3> QED BY <2>1, <3>2
    <2>2. ASSUME NEW r \in Node, NEW a \in Message, Prepare(r, a) \/ Accept(r, a) \/ Inform(r, a)
          PROVE  /\ instances[q][s].n_p <= instances'[q][s].n_p
                 /\ instances[q][s].n_a <= instances'[q][s].n_a
        BY <2>2, HandlerGrows
    <2>3. ASSUME NEW m \in late PROVE m \in Message /\ m.to \in Node
        BY DEF TypeOK, Message
    <2> QED BY <2>1, <2>2, <2>3, AcceptorStep, RequestType
<1>2. ASSUME NEW i \in Node
      PROVE  propCounter[i] <= propCounter'[i]
    <2>1. propCounter[i] \in Nat
        BY BoundsAssumption DEF TypeOK
    <2>2. ASSUME NEW g \in Goroutine, DrawBallot(g) PROVE propCounter[i] <= propCounter'[i]
        BY <2>1, <2>2 DEF DrawBallot, TypeOK
    <2>3. ASSUME NEW g \in Goroutine, Retry(g) PROVE propCounter[i] <= propCounter'[i]
        <3>1. prop[g].maxNpSeen \in Ballots
            BY DEF TypeOK, Locals
        <3>2. Hint(prop[g].maxNpSeen) \in Nat
            BY <3>1, HintBeats, BoundsAssumption
        <3> QED BY <2>1, <2>3, <3>2 DEF Retry, LargerOf, TypeOK
    <2>4. ASSUME UNCHANGED propCounter PROVE propCounter[i] <= propCounter'[i]
        BY <2>1, <2>4
    <2> QED BY <2>2, <2>3, <2>4 DEF Next, Propose, vars, Start, CheckStatus, CallPrepare,
               CallAccept, CallInform, CallFails, OpenAccept, OpenInform, Return, RunLate, Kill
<1> QED BY <1>1, <1>2 DEF Grows

\* A goroutine moves only by its own steps.
LEMMA GoroutineMoves ==
    ASSUME TypeOK, [Next]_vars, NEW g \in Goroutine
    PROVE  \/ Propose(g)
           \/ \E i \in Node, s \in Seqs, v \in Value : Start(g, i, s, v)
           \/ pc'[g] = pc[g] /\ prop'[g] = prop[g]
<1>1. ASSUME NEW h \in Goroutine, h # g,
             \/ Propose(h)
             \/ \E i \in Node, s \in Seqs, v \in Value : Start(h, i, s, v)
      PROVE  pc'[g] = pc[g] /\ prop'[g] = prop[g]
    BY <1>1 DEF TypeOK, Propose, Start, CheckStatus, DrawBallot, CallPrepare, CallAccept,
                CallInform, CallFails, OpenAccept, OpenInform, Retry, Return
<1>2. ASSUME \/ \E m \in late : RunLate(m)
             \/ \E i \in Node : Kill(i)
             \/ UNCHANGED vars
      PROVE  pc'[g] = pc[g] /\ prop'[g] = prop[g]
    BY <1>2 DEF RunLate, Kill, vars
<1> QED BY <1>1, <1>2 DEF Next

\* A goroutine stays in its round, and once it has a value it keeps it.
Continues(g) ==
    /\ InRound(g) /\ InRound(g)'
    /\ prop'[g].node = prop[g].node /\ prop'[g].seq = prop[g].seq
    /\ prop'[g].n = prop[g].n /\ prop'[g].v = prop[g].v
    /\ Proposing(g) => Proposing(g)' /\ prop'[g].v_prime = prop[g].v_prime
    /\ Chose(g) => Chose(g)'

\* A goroutine enters a round by a draw, leaves it by a retry and otherwise
\* continues it.
LEMMA RoundStep ==
    ASSUME TypeOK, [Next]_vars, NEW g \in Goroutine
    PROVE  \/ ~InRound(g) /\ ~InRound(g)'
           \/ Continues(g)
           \/ DrawBallot(g)
           \/ Retry(g)
<1> USE DEF InRound, Proposing, Chose, Continues
<1>1. prop[g] \in Locals
    BY DEF TypeOK
<1>2. ASSUME pc'[g] = pc[g], prop'[g] = prop[g]
      PROVE  (~InRound(g) /\ ~InRound(g)') \/ Continues(g)
    BY <1>2
<1>3. \/ Propose(g)
      \/ \E j \in Node, s \in Seqs, v \in Value : Start(g, j, s, v)
      \/ pc'[g] = pc[g] /\ prop'[g] = prop[g]
    BY GoroutineMoves
<1>4. ASSUME NEW i \in Node, NEW s \in Seqs, NEW v \in Value, Start(g, i, s, v)
      PROVE  ~InRound(g) /\ ~InRound(g)'
    BY <1>4 DEF TypeOK, Start
<1>5. ASSUME CheckStatus(g)
      PROVE  ~InRound(g) /\ ~InRound(g)'
    BY <1>5 DEF TypeOK, CheckStatus
<1>6. ASSUME CallPrepare(g) PROVE Continues(g)
    BY <1>1, <1>6 DEF TypeOK, CallPrepare, Promised, Refused, Locals
<1>7. ASSUME CallAccept(g) PROVE Continues(g)
    BY <1>1, <1>7 DEF TypeOK, CallAccept, Voted, Refused, Locals
<1>8. ASSUME CallInform(g) PROVE Continues(g)
    BY <1>1, <1>8 DEF TypeOK, CallInform, Locals
<1>9. ASSUME CallFails(g) PROVE Continues(g)
    BY <1>1, <1>9 DEF TypeOK, CallFails, Calling, Locals
<1>10. ASSUME OpenAccept(g) PROVE Continues(g)
    BY <1>1, <1>10 DEF TypeOK, OpenAccept, Locals
<1>11. ASSUME OpenInform(g) PROVE Continues(g)
    BY <1>1, <1>11 DEF TypeOK, OpenInform, Locals
<1>12. ASSUME Return(g) PROVE Continues(g)
    BY <1>1, <1>12 DEF TypeOK, Return, Locals
<1> QED BY <1>2, <1>3, <1>4, <1>5, <1>6, <1>7, <1>8, <1>9, <1>10, <1>11, <1>12
        DEF Propose

\* A started goroutine keeps its instance and its value; only Start starts one.
LEMMA StartedStep ==
    ASSUME TypeOK, [Next]_vars, NEW g \in Goroutine
    PROVE  \/ pc[g] = "idle" /\ pc'[g] = "idle"
           \/ pc[g] = "idle" /\ \E i \in Node, s \in Seqs, v \in Value : Start(g, i, s, v)
           \/ /\ pc[g] # "idle" /\ pc'[g] # "idle"
              /\ prop'[g].seq = prop[g].seq /\ prop'[g].v = prop[g].v
<1>1. prop[g] \in Locals
    BY DEF TypeOK
<1>2. \/ Propose(g)
      \/ \E j \in Node, s \in Seqs, v \in Value : Start(g, j, s, v)
      \/ pc'[g] = pc[g] /\ prop'[g] = prop[g]
    BY GoroutineMoves
<1>4. ASSUME \E i \in Node, s \in Seqs, v \in Value : Start(g, i, s, v)
      PROVE  pc[g] = "idle"
    BY <1>4 DEF Start
<1>5. CASE Continues(g)
    BY <1>5 DEF Continues, InRound
<1>6. CASE DrawBallot(g)
    BY <1>1, <1>6 DEF DrawBallot, TypeOK, Blank
<1>7. CASE Retry(g)
    BY <1>1, <1>7 DEF Retry, TypeOK, Blank
<1>8. CASE CheckStatus(g)
    BY <1>1, <1>8 DEF CheckStatus, TypeOK
<1>9. CASE ~InRound(g) /\ ~InRound(g)'
    <2>1. ASSUME \/ CallPrepare(g) \/ CallAccept(g) \/ CallInform(g) \/ CallFails(g)
                 \/ OpenAccept(g) \/ OpenInform(g) \/ Return(g)
          PROVE  FALSE
        BY <1>9, <2>1 DEF InRound, CallPrepare, CallAccept, CallInform, CallFails, Calling,
                          OpenAccept, OpenInform, Return
    <2> QED BY <1>2, <1>4, <1>6, <1>7, <1>8, <2>1 DEF Propose
<1> QED BY <1>5, <1>6, <1>7, <1>9, RoundStep

\* A ballot that was drawn stays drawn.
LEMMA UsedStays ==
    ASSUME TypeOK, TypeOK', Grows, NEW b \in Ballots
    PROVE  /\ \A i \in Node : DrawnBy(i, b) => DrawnBy(i, b)'
           /\ Used(b) => Used(b)'
<1>1. ASSUME NEW i \in Node, DrawnBy(i, b)
      PROVE  DrawnBy(i, b)'
    <2>1. PICK k \in 0 .. propCounter[i] - 1 : b = Ballot(k, i)
        BY <1>1 DEF DrawnBy
    <2>2. k \in 0 .. propCounter'[i] - 1
        <3>1. propCounter[i] \in 0 .. MaxCounter /\ propCounter'[i] \in 0 .. MaxCounter
            BY DEF TypeOK
        <3> QED BY <3>1, BoundsAssumption DEF Grows
    <2> QED BY <2>1, <2>2 DEF DrawnBy
<1> QED BY <1>1 DEF Used

\* A drawn ballot is new, and the round starts with nothing collected.
LEMMA DrawFresh ==
    ASSUME TypeOK, NEW g \in Goroutine, DrawBallot(g)
    PROVE  /\ pc[g] = "draw" /\ pc'[g] = "prepare"
           /\ prop'[g].n \in Ballots
           /\ ~Used(prop'[g].n)
           /\ DrawnBy(prop[g].node, prop[g].n)'
           /\ prop'[g].oks = {} /\ prop'[g].highestN_a = 0 /\ prop'[g].v_adopted = Nil
           /\ \A h \in Goroutine : h # g => pc'[h] = pc[h] /\ prop'[h] = prop[h]
<1> DEFINE i == prop[g].node
           k == propCounter[i]
<1>1. prop[g] \in Locals /\ i \in Node /\ k \in 0 .. MaxCounter - 1
    <2>1. prop[g] \in Locals /\ i \in Node
        BY DEF TypeOK, Locals
    <2> QED BY <2>1, BoundsAssumption DEF TypeOK, DrawBallot
<1>2. /\ prop'[g].n = Ballot(k, i) /\ prop'[g].node = i
      /\ prop'[g].oks = {} /\ prop'[g].highestN_a = 0 /\ prop'[g].v_adopted = Nil
    BY <1>1 DEF TypeOK, DrawBallot, Blank
<1>3. /\ pc[g] = "draw" /\ pc'[g] = "prepare"
      /\ \A h \in Goroutine : h # g => pc'[h] = pc[h] /\ prop'[h] = prop[h]
    BY DEF TypeOK, DrawBallot
<1>4. Ballot(k, i) \in Ballots
    BY <1>1, BallotType
<1>5. ~Used(Ballot(k, i))
    <2> SUFFICES ASSUME NEW j \in Node, NEW l \in 0 .. propCounter[j] - 1,
                        Ballot(k, i) = Ballot(l, j)
                 PROVE  FALSE
        BY DEF Used, DrawnBy
    <2>1. l \in Nat /\ k \in Nat /\ l < propCounter[j]
        BY <1>1, BoundsAssumption DEF TypeOK
    <2> QED BY <1>1, <2>1, BallotUnique
<1>6. \E x \in 0 .. propCounter'[i] - 1 : prop'[g].n = Ballot(x, i)
    <2>1. propCounter'[i] = k + 1
        BY <1>1 DEF TypeOK, DrawBallot
    <2>2. k \in 0 .. propCounter'[i] - 1
        BY <1>1, <2>1, BoundsAssumption
    <2> QED BY <1>2, <2>2
<1>7. DrawnBy(prop[g].node, prop[g].n)'
    <2> HIDE DEF i
    <2> QED BY <1>2, <1>6 DEF DrawnBy
<1> QED BY <1>2, <1>3, <1>4, <1>5, <1>7

\* The vote of q counted in this step, if any, was given in this step.
LEMMA VoteStep ==
    ASSUME TypeOK, [Next]_vars, NEW g \in Goroutine, Proposing(g)',
           NEW q \in prop'[g].oks
    PROVE  /\ Continues(g)
           /\ \/ Proposing(g) /\ q \in prop[g].oks
              \/ /\ pc[g] = "accept" /\ q \in Node
                 /\ instances[q][prop[g].seq].n_p <= prop[g].n
                 /\ instances'[q][prop[g].seq].n_a = prop[g].n
<1>1. prop[g] \in Locals
    BY DEF TypeOK
<1>2. Continues(g)
    BY RoundStep DEF DrawBallot, Retry, Proposing, InRound, TypeOK
<1>3. ASSUME CallAccept(g)
      PROVE  \/ q \in prop[g].oks
             \/ /\ pc[g] = "accept" /\ q \in Node
                /\ instances[q][prop[g].seq].n_p <= prop[g].n
                /\ instances'[q][prop[g].seq].n_a = prop[g].n
    <2> DEFINE r == prop[g].peer
               i == instances[r][prop[g].seq]
    <2>1. pc[g] = "accept" /\ r \in Node /\ prop[g].seq \in Seqs
        BY <1>1, <1>3 DEF CallAccept, Calling, Locals
    <2>2. i \in Instance
        BY <2>1 DEF TypeOK
    <2>3. CASE ~Votes(i, prop[g].n)
        <3>1. prop'[g] = Refused(prop[g], i)
            BY <1>3, <2>3 DEF CallAccept, TypeOK
        <3> QED BY <1>1, <3>1 DEF Refused, Locals
    <2>4. CASE Votes(i, prop[g].n)
        <3>1. prop'[g] = Voted(prop[g], r)
            BY <1>3, <2>4 DEF CallAccept, TypeOK
        <3>2. q \in prop[g].oks \/ q = r
            BY <1>1, <3>1 DEF Voted, Locals
        <3>3. instances' = [instances EXCEPT ![r][prop[g].seq] =
                              [@ EXCEPT !.n_p = prop[g].n, !.n_a = prop[g].n,
                                        !.v_a = prop[g].v_prime]]
            BY <1>3, <2>4 DEF CallAccept, Accept, Request
        <3>4. instances'[r][prop[g].seq].n_a = prop[g].n
            BY <2>1, <2>2, <3>3 DEF TypeOK, Instance
        <3>5. i.n_p <= prop[g].n
            BY <1>1, <2>2, <2>4, ZeroBallot DEF Votes, Instance, Locals
        <3> QED BY <2>1, <3>2, <3>4, <3>5
    <2> QED BY <2>3, <2>4
<1>4. ASSUME OpenAccept(g) PROVE prop'[g].oks = {}
    BY <1>1, <1>4 DEF OpenAccept, TypeOK, Locals
<1>5. ASSUME CallInform(g) \/ CallFails(g) \/ OpenInform(g) \/ Return(g)
      PROVE  q \in prop[g].oks /\ (pc[g] = pc'[g] \/ pc[g] \in {"accept", "inform"})
    <2>1. prop'[g].oks = prop[g].oks
        <3>1. CASE CallInform(g)
            BY <1>1, <3>1 DEF CallInform, TypeOK, Locals
        <3>2. CASE CallFails(g)
            BY <1>1, <3>2 DEF CallFails, TypeOK, Locals
        <3>3. CASE OpenInform(g)
            BY <1>1, <3>3 DEF OpenInform, TypeOK, Locals
        <3>4. CASE Return(g)
            BY <1>1, <3>4 DEF Return, TypeOK, Locals
        <3> QED BY <1>5, <3>1, <3>2, <3>3, <3>4
    <2>2. pc[g] = pc'[g] \/ pc[g] \in {"accept", "inform"}
        BY <1>5 DEF CallInform, CallFails, OpenInform, Return
    <2> QED BY <2>1, <2>2
<1>6. ASSUME prop'[g] = prop[g], pc'[g] = pc[g]
      PROVE  q \in prop[g].oks /\ Proposing(g)
    BY <1>6 DEF Proposing
<1>7. \/ Propose(g)
      \/ \E j \in Node, s \in Seqs, v \in Value : Start(g, j, s, v)
      \/ pc'[g] = pc[g] /\ prop'[g] = prop[g]
    BY GoroutineMoves
<1>9. ASSUME \/ CheckStatus(g) \/ DrawBallot(g) \/ CallPrepare(g) \/ Retry(g)
             \/ \E i \in Node, s \in Seqs, v \in Value : Start(g, i, s, v)
      PROVE  FALSE
    BY <1>9 DEF TypeOK, CheckStatus, DrawBallot, CallPrepare, Retry, Start, Proposing
<1>10. ASSUME CallAccept(g) PROVE Proposing(g)
    BY <1>10 DEF CallAccept, Proposing
<1>11. ASSUME pc[g] = pc'[g] \/ pc[g] \in {"accept", "inform"} PROVE Proposing(g)
    BY <1>11 DEF Proposing
<1> QED BY <1>2, <1>3, <1>4, <1>5, <1>6, <1>7, <1>9, <1>10, <1>11 DEF Propose

\* What a goroutine in phase 1 has collected changes only by a promise.
Promises(g, q) ==
    LET p == prop[g]
        i == instances[q][p.seq] IN
    /\ i.n_p < p.n
    /\ instances'[q][p.seq].n_p = p.n
    /\ prop'[g].oks = p.oks \cup {q}
    /\ prop'[g].highestN_a = LargerOf(i.n_a, p.highestN_a)
    /\ prop'[g].v_adopted = IF i.n_a > p.highestN_a THEN i.v_a ELSE p.v_adopted

\* What a step of phase 1 can do to what its goroutine has collected.
LEMMA PrepareStep ==
    ASSUME TypeOK, [Next]_vars, NEW g \in Goroutine, pc'[g] = "prepare"
    PROVE  \/ DrawBallot(g)
           \/ /\ pc[g] = "prepare" /\ Continues(g)
              /\ \/ /\ prop'[g].oks = prop[g].oks
                    /\ prop'[g].highestN_a = prop[g].highestN_a
                    /\ prop'[g].v_adopted = prop[g].v_adopted
                 \/ /\ \A h \in Goroutine : h # g => pc'[h] = pc[h] /\ prop'[h] = prop[h]
                    /\ \E q \in Node : Promises(g, q)
<1>1. prop[g] \in Locals
    BY DEF TypeOK
<1>2. DrawBallot(g) \/ Continues(g)
    BY RoundStep DEF Retry, InRound, TypeOK
<1>3. ASSUME CallPrepare(g)
      PROVE  /\ pc[g] = "prepare"
             /\ \/ /\ prop'[g].oks = prop[g].oks
                   /\ prop'[g].highestN_a = prop[g].highestN_a
                   /\ prop'[g].v_adopted = prop[g].v_adopted
                \/ /\ \A h \in Goroutine : h # g => pc'[h] = pc[h] /\ prop'[h] = prop[h]
                   /\ \E q \in Node : Promises(g, q)
    <2> DEFINE q == prop[g].peer
               i == instances[q][prop[g].seq]
    <2>1. pc[g] = "prepare" /\ q \in Node /\ prop[g].seq \in Seqs
        BY <1>1, <1>3 DEF CallPrepare, Calling, Locals
    <2>2. i \in Instance
        BY <2>1 DEF TypeOK
    <2>3. CASE ~Grants(i, prop[g].n)
        <3>1. prop'[g] = Refused(prop[g], i)
            BY <1>3, <2>3 DEF CallPrepare, TypeOK
        <3> QED BY <1>1, <2>1, <3>1 DEF Refused, Locals
    <2>4. CASE Grants(i, prop[g].n)
        <3>1. prop' = [prop EXCEPT ![g] = Promised(prop[g], q, i)] /\ pc' = pc
            BY <1>3, <2>4 DEF CallPrepare
        <3>2. instances' = [instances EXCEPT ![q][prop[g].seq].n_p = prop[g].n]
            BY <1>3, <2>4 DEF CallPrepare, Prepare, Request
        <3>3. instances'[q][prop[g].seq].n_p = prop[g].n
            BY <2>1, <2>2, <3>2 DEF TypeOK, Instance
        <3>4. i.n_p < prop[g].n
            BY <1>1, <2>2, <2>4, ZeroBallot DEF Grants, Instance, Locals
        <3>5. prop'[g] = Promised(prop[g], q, i)
            BY <3>1 DEF TypeOK
        <3>6. /\ prop'[g].oks = prop[g].oks \cup {q}
              /\ prop'[g].highestN_a = LargerOf(i.n_a, prop[g].highestN_a)
              /\ prop'[g].v_adopted = IF i.n_a > prop[g].highestN_a THEN i.v_a
                                      ELSE prop[g].v_adopted
            BY <1>1, <3>5 DEF Promised, Locals
        <3>7. \A h \in Goroutine : h # g => pc'[h] = pc[h] /\ prop'[h] = prop[h]
            BY <3>1 DEF TypeOK
        <3>8. Promises(g, q)
            BY <3>3, <3>4, <3>6 DEF Promises
        <3> QED BY <2>1, <3>7, <3>8
    <2> QED BY <2>3, <2>4
<1>4. ASSUME CallFails(g)
      PROVE  /\ pc[g] = "prepare"
             /\ prop'[g].oks = prop[g].oks
             /\ prop'[g].highestN_a = prop[g].highestN_a
             /\ prop'[g].v_adopted = prop[g].v_adopted
    BY <1>1, <1>4 DEF CallFails, TypeOK, Locals
<1>5. \/ Propose(g)
      \/ \E j \in Node, s \in Seqs, v \in Value : Start(g, j, s, v)
      \/ pc'[g] = pc[g] /\ prop'[g] = prop[g]
    BY GoroutineMoves
<1>7. ASSUME \/ CheckStatus(g) \/ CallAccept(g) \/ CallInform(g) \/ OpenAccept(g)
             \/ OpenInform(g) \/ Retry(g) \/ Return(g)
             \/ \E i \in Node, s \in Seqs, v \in Value : Start(g, i, s, v)
      PROVE  FALSE
    BY <1>7 DEF TypeOK, CheckStatus, CallAccept, CallInform, OpenAccept, OpenInform, Retry,
                Return, Start
<1> QED BY <1>2, <1>3, <1>4, <1>5, <1>7 DEF Propose

\* A phase-1 goroutine that comes out with a value has just run OpenAccept.
LEMMA OpenAcceptOnly ==
    ASSUME TypeOK, [Next]_vars, NEW g \in Goroutine, ~Proposing(g), Proposing(g)'
    PROVE  OpenAccept(g)
<1>1. Continues(g) /\ pc[g] = "prepare"
    BY RoundStep DEF DrawBallot, Retry, InRound, Proposing, Continues, TypeOK
<1>2. \/ Propose(g)
      \/ \E j \in Node, s \in Seqs, v \in Value : Start(g, j, s, v)
      \/ pc'[g] = pc[g] /\ prop'[g] = prop[g]
    BY GoroutineMoves
<1>3. ASSUME CallPrepare(g) \/ CallAccept(g) \/ CallInform(g) \/ CallFails(g)
      PROVE  pc'[g] = pc[g]
    BY <1>3 DEF CallPrepare, CallAccept, CallInform, CallFails
<1>4. pc'[g] # pc[g]
    BY DEF Proposing
<1>5. ASSUME \/ CheckStatus(g) \/ DrawBallot(g) \/ OpenInform(g) \/ Retry(g) \/ Return(g)
             \/ \E i \in Node, s \in Seqs, v \in Value : Start(g, i, s, v)
      PROVE  FALSE
    BY <1>1, <1>5 DEF TypeOK, CheckStatus, DrawBallot, OpenInform, Retry, Return, Start,
                      Proposing
<1> QED BY <1>2, <1>3, <1>4, <1>5 DEF Propose

\* An acceptor's vote changes only to that of an Accept it runs.
LEMMA HandlerVote ==
    ASSUME TypeOK, NEW r \in Node, NEW a \in Message,
           Prepare(r, a) \/ Accept(r, a) \/ Inform(r, a),
           NEW q \in Node, NEW s \in Seqs
    PROVE  \/ /\ instances'[q][s].n_a = instances[q][s].n_a
              /\ instances'[q][s].v_a = instances[q][s].v_a
           \/ /\ Accept(r, a) /\ q = r /\ s = a.seq
              /\ instances'[q][s].n_a = a.n
              /\ instances'[q][s].v_a = a.value
              /\ instances'[q][s].n_p = a.n
<1>1. /\ instances[q][s] \in Instance /\ instances[r][a.seq] \in Instance
      /\ a.seq \in Seqs /\ a.n \in Ballots
    BY DEF TypeOK, Message
<1>3. CASE Prepare(r, a)
    BY <1>1, <1>3 DEF Prepare, TypeOK, Instance
<1>4. CASE Accept(r, a)
    BY <1>1, <1>4 DEF Accept, TypeOK, Instance
<1>5. CASE Inform(r, a)
    BY <1>1, <1>5 DEF Inform, TypeOK, Instance
<1> QED BY <1>3, <1>4, <1>5

\* No step changes an acceptor's vote but to that of an accept request.
LEMMA OnlyAcceptVotes ==
    ASSUME TypeOK, NEW r \in Node, NEW a \in Message, Prepare(r, a) \/ Inform(r, a),
           NEW q \in Node, NEW s \in Seqs
    PROVE  /\ instances'[q][s].n_a = instances[q][s].n_a
           /\ instances'[q][s].v_a = instances[q][s].v_a
<1>1. /\ instances[q][s] \in Instance /\ instances[r][a.seq] \in Instance
      /\ a.seq \in Seqs
    BY DEF TypeOK, Message
<1>2. CASE Prepare(r, a)
    BY <1>1, <1>2 DEF Prepare, TypeOK, Instance
<1>3. CASE Inform(r, a)
    BY <1>1, <1>3 DEF Inform, TypeOK, Instance
<1> QED BY <1>2, <1>3

\* A request that is late after a step was late before or is g's own.
LEMMA LateStep ==
    ASSUME [Next]_vars, NEW m, m \in late'
    PROVE  \/ m \in late
           \/ \E g \in Goroutine : Calling(g) /\ m = Request(g, prop[g].peer)
<1>1. ASSUME NEW g \in Goroutine, CallFails(g)
      PROVE  m \in late \/ (Calling(g) /\ m = Request(g, prop[g].peer))
    <2>1. Calling(g) /\ (late' = late \/ late' = late \cup {Request(g, prop[g].peer)})
        BY <1>1 DEF CallFails
    <2> QED BY <2>1
<1>2. ASSUME NEW x \in late, RunLate(x)
      PROVE  m \in late
    BY <1>2 DEF RunLate
<1> QED BY <1>1, <1>2 DEF Next, Propose, vars, Start, CheckStatus, DrawBallot, CallPrepare,
           CallAccept, CallInform, OpenAccept, OpenInform, Retry, Return, Kill

\* Proposals come from OpenAccept only: accepting, losing, reporting or
\* replaying one makes no new one.
LEMMA ProposalStep ==
    ASSUME TypeOK, NoneDone, AcceptInv, LateInv, [Next]_vars,
           NEW s \in Seqs, NEW b \in Ballots, NEW v \in Value, Proposal(s, b, v)'
    PROVE  \/ Proposal(s, b, v)
           \/ \E g \in Goroutine : /\ OpenAccept(g) /\ prop[g].seq = s /\ prop[g].n = b
                                   /\ prop'[g].v_prime = v
<1>1. ASSUME NEW g \in Goroutine, Calling(g), pc[g] = "accept", NEW q,
             LET a == Request(g, q) IN a.seq = s /\ a.n = b /\ a.value = v
      PROVE  Proposal(s, b, v)
    BY <1>1 DEF Proposal, Proposes, Proposing, Request
<1>2. ASSUME NEW q \in Node, b # 0, instances'[q][s].n_a = b, instances'[q][s].v_a = v
      PROVE  Proposal(s, b, v)
    <2>1. CASE instances'[q][s].n_a = instances[q][s].n_a /\ instances'[q][s].v_a = instances[q][s].v_a
        BY <1>2, <2>1 DEF Proposal
    <2>2. ASSUME NEW g \in Goroutine, Calling(g),
                 LET r == prop[g].peer IN
                    \/ pc[g] = "prepare" /\ Prepare(r, Request(g, r))
                    \/ pc[g] = "accept" /\ Accept(r, Request(g, r))
                    \/ pc[g] = "inform" /\ Inform(r, Request(g, r))
          PROVE  Proposal(s, b, v)
        <3> DEFINE r == prop[g].peer
                   a == Request(g, r)
        <3>1. a \in Message /\ r \in Node
            BY <2>2, RequestType
        <3>2. Prepare(r, a) \/ Accept(r, a) \/ Inform(r, a)
            BY <2>2
        <3>3. CASE pc[g] = "accept"
            <4>1. \/ /\ instances'[q][s].n_a = instances[q][s].n_a
                     /\ instances'[q][s].v_a = instances[q][s].v_a
                  \/ a.seq = s /\ a.n = b /\ a.value = v
                BY <1>2, <3>1, <3>2, HandlerVote
            <4> QED BY <1>1, <2>1, <2>2, <3>3, <4>1
        <3>4. CASE pc[g] # "accept"
            <4>1. Prepare(r, a) \/ Inform(r, a)
                BY <2>2, <3>4
            <4> QED BY <2>1, <3>1, <4>1, OnlyAcceptVotes
        <3> QED BY <3>3, <3>4
    <2>3. ASSUME NEW m \in late,
                 \/ m.kind = "prepare" /\ Prepare(m.to, m)
                 \/ m.kind = "accept" /\ Accept(m.to, m)
                 \/ m.kind = "inform" /\ Inform(m.to, m)
          PROVE  Proposal(s, b, v)
        <3>1. m \in Message /\ m.to \in Node
            BY DEF TypeOK, Message
        <3>2. CASE m.kind = "accept"
            <4>1. \/ /\ instances'[q][s].n_a = instances[q][s].n_a
                     /\ instances'[q][s].v_a = instances[q][s].v_a
                  \/ m.seq = s /\ m.n = b /\ m.value = v
                BY <1>2, <2>3, <3>1, HandlerVote
            <4> QED BY <2>1, <3>2, <4>1 DEF Proposal
        <3>3. CASE m.kind # "accept"
            <4>1. Prepare(m.to, m) \/ Inform(m.to, m)
                BY <2>3, <3>3
            <4> QED BY <2>1, <3>1, <4>1, OnlyAcceptVotes
        <3> QED BY <3>2, <3>3
    <2> QED BY <2>1, <2>2, <2>3, AcceptorStep
<1>3. ASSUME NEW m \in late', m.kind = "accept", m.seq = s, m.n = b, m.value = v
      PROVE  Proposal(s, b, v)
    <2>1. CASE m \in late
        BY <1>3, <2>1 DEF Proposal
    <2>2. ASSUME NEW g \in Goroutine, Calling(g), m = Request(g, prop[g].peer)
          PROVE  Proposal(s, b, v)
        <3>1. pc[g] = "accept"
            BY <1>3, <2>2 DEF Request
        <3> QED BY <1>1, <1>3, <2>2, <3>1
    <2> QED BY <2>1, <2>2, LateStep
<1>4. ASSUME NEW g \in Goroutine, Proposes(g, s, b)', prop'[g].v_prime = v
      PROVE  \/ Proposal(s, b, v)
             \/ OpenAccept(g) /\ prop[g].seq = s /\ prop[g].n = b
    <2>1. Continues(g)
        BY <1>4, RoundStep DEF DrawBallot, Retry, Proposes, Proposing, InRound, TypeOK
    <2>2. prop[g].seq = s /\ prop[g].n = b
        BY <1>4, <2>1 DEF Continues, Proposes
    <2>3. CASE Proposing(g)
        BY <1>4, <2>1, <2>2, <2>3 DEF Continues, Proposes, Proposal
    <2>4. CASE ~Proposing(g)
        BY <1>4, <2>2, <2>4, OpenAcceptOnly DEF Proposes
    <2> QED BY <2>3, <2>4
<1>5. ASSUME NEW g \in Goroutine, pc'[g] = "prepare", prop'[g].seq = s, b # 0,
             prop'[g].highestN_a = b, prop'[g].v_adopted = v
      PROVE  Proposal(s, b, v)
    <2>1. ~DrawBallot(g)
        BY <1>5, DrawFresh
    <2>2. pc[g] = "prepare" /\ Continues(g) /\ prop[g].seq = s
        BY <1>5, <2>1, PrepareStep DEF Continues
    <2>3. CASE prop[g].highestN_a = b /\ prop[g].v_adopted = v
        BY <1>5, <2>2, <2>3 DEF Proposal
    <2>4. ASSUME NEW q \in Node, Promises(g, q)
          PROVE  Proposal(s, b, v)
        <3>1. prop[g].highestN_a \in Nat /\ instances[q][s].n_a \in Nat
            <4>1. prop[g] \in Locals /\ instances[q][s] \in Instance
                BY DEF TypeOK
            <4> QED BY <4>1, ZeroBallot DEF Locals, Instance
        <3>2. \/ prop[g].highestN_a = b /\ prop[g].v_adopted = v
              \/ instances[q][s].n_a = b /\ instances[q][s].v_a = v
            BY <1>5, <2>2, <2>4, <3>1 DEF Promises, LargerOf
        <3> QED BY <1>5, <2>3, <3>2 DEF Proposal
    <2> QED BY <1>5, <2>1, <2>3, <2>4, PrepareStep
<1> QED BY <1>2, <1>3, <1>4, <1>5 DEF Proposal

-----------------------------------------------------------------------------
(* The inductive invariant: one lemma per part *)

\* A step from a state that satisfies the invariant is typed on both sides and
\* lowers no promise.
LEMMA StepFacts ==
    ASSUME IInv, [Next]_vars
    PROVE  TypeOK' /\ Grows
    BY NextType, StepGrows DEF IInv

\* A goroutine in a round was in it before, or has just drawn its ballot.
LEMMA RoundEnters ==
    ASSUME TypeOK, [Next]_vars, NEW g \in Goroutine, InRound(g)'
    PROVE  Continues(g) \/ DrawBallot(g)
    BY RoundStep DEF Retry, InRound, TypeOK

\* Handlers spread no Done value, since there is none.
LEMMA NoneDoneStep ==
    ASSUME IInv, [Next]_vars
    PROVE  NoneDone'
<1> USE DEF NoneDone
<1>1. TypeOK /\ NoneDone
    BY DEF IInv
<1>2. ASSUME NEW r \in Node, NEW a \in Message, a.done = -1,
             Prepare(r, a) \/ Accept(r, a) \/ Inform(r, a)
      PROVE  \A i, j \in Node : doneValues'[i][j] = -1
    <2>1. Hear(r, a)
        BY <1>2 DEF Prepare, Accept, Inform
    <2>2. a.peer \in Node
        BY DEF Message
    <2> QED BY <1>1, <1>2, <2>1, <2>2 DEF Hear, TypeOK
<1>3. \A i, j \in Node : doneValues'[i][j] = -1
    <2>1. ASSUME NEW g \in Goroutine, Calling(g)
          PROVE  LET a == Request(g, prop[g].peer) IN
                 a \in Message /\ prop[g].peer \in Node /\ a.done = -1
        BY <1>1, <2>1, RequestType DEF Request
    <2>2. ASSUME NEW m \in late PROVE m \in Message /\ m.to \in Node /\ m.done = -1
        BY <1>1 DEF TypeOK, Message
    <2> QED BY <1>1, <1>2, <2>1, <2>2, AcceptorStep
<1>4. ASSUME NEW g \in Goroutine
      PROVE  prop'[g].done = -1
    <2>1. prop[g] \in Locals /\ prop[g].node \in Node /\ prop[g].done = -1
        BY <1>1 DEF TypeOK, Locals
    <2>2. doneValues[prop[g].node][prop[g].node] = -1
        BY <1>1, <2>1
    <2>3. CASE prop'[g] = prop[g]
        BY <2>1, <2>3
    <2>4. \/ Propose(g)
          \/ \E j \in Node, s \in Seqs, v \in Value : Start(g, j, s, v)
          \/ pc'[g] = pc[g] /\ prop'[g] = prop[g]
        BY <1>1, GoroutineMoves
    <2>5. ASSUME NEW i \in Node, NEW s \in Seqs, NEW v \in Value, Start(g, i, s, v)
          PROVE  prop'[g].done = -1
        BY <1>1, <2>5 DEF Start, Blank, TypeOK
    <2>6. ASSUME DrawBallot(g) \/ Retry(g)
          PROVE  prop'[g].done = -1
        <3>1. CASE DrawBallot(g)
            BY <1>1, <2>2, <3>1 DEF DrawBallot, Blank, TypeOK
        <3>2. CASE Retry(g)
            BY <1>1, <3>2 DEF Retry, Blank, TypeOK
        <3> QED BY <2>6, <3>1, <3>2
    <2>7. ASSUME CallPrepare(g) PROVE prop'[g].done = -1
        BY <1>1, <2>1, <2>7 DEF CallPrepare, Promised, Refused, TypeOK, Locals
    <2>8. ASSUME CallAccept(g) PROVE prop'[g].done = -1
        BY <1>1, <2>1, <2>8 DEF CallAccept, Voted, Refused, TypeOK, Locals
    <2>9. ASSUME CallInform(g) PROVE prop'[g].done = -1
        BY <1>1, <2>1, <2>9 DEF CallInform, TypeOK, Locals
    <2>10. ASSUME CallFails(g) PROVE prop'[g].done = -1
        BY <1>1, <2>1, <2>10 DEF CallFails, TypeOK, Locals
    <2>11. ASSUME OpenAccept(g) PROVE prop'[g].done = -1
        BY <1>1, <2>1, <2>2, <2>11 DEF OpenAccept, TypeOK, Locals
    <2>12. ASSUME OpenInform(g) PROVE prop'[g].done = -1
        BY <1>1, <2>1, <2>2, <2>12 DEF OpenInform, TypeOK, Locals
    <2>13. ASSUME CheckStatus(g) \/ Return(g) PROVE prop'[g] = prop[g]
        BY <2>13 DEF CheckStatus, Return
    <2> QED BY <2>3, <2>4, <2>5, <2>6, <2>7, <2>8, <2>9, <2>10, <2>11, <2>12, <2>13
            DEF Propose
<1>5. ASSUME NEW m, m \in late'
      PROVE  m.done = -1
    BY <1>1, <1>5, LateStep DEF Request
<1> QED BY <1>3, <1>4, <1>5

\* A started goroutine keeps a value.
LEMMA StartStep ==
    ASSUME IInv, [Next]_vars
    PROVE  StartInv'
<1>1. TypeOK /\ StartInv
    BY DEF IInv
<1> SUFFICES ASSUME NEW g \in Goroutine, pc'[g] # "idle"
             PROVE  prop'[g].v \in Value
    BY DEF StartInv
<1>2. ASSUME NEW i \in Node, NEW s \in Seqs, NEW v \in Value, Start(g, i, s, v)
      PROVE  prop'[g].v \in Value
    BY <1>1, <1>2 DEF Start, TypeOK, Blank
<1> QED BY <1>1, <1>2, StartedStep DEF StartInv

\* An accept request is left behind only by a goroutine that has a value.
LEMMA LateInvStep ==
    ASSUME IInv, [Next]_vars
    PROVE  LateInv'
<1> SUFFICES ASSUME NEW m, m \in late', m.kind = "accept"
             PROVE  m.n > 0 /\ m.value \in Value
    BY DEF LateInv
<1>1. CASE m \in late
    BY <1>1 DEF IInv, LateInv
<1>2. ASSUME NEW g \in Goroutine, Calling(g), m = Request(g, prop[g].peer)
      PROVE  m.n > 0 /\ m.value \in Value
    <2>1. Proposing(g) /\ m.n = prop[g].n /\ m.value = prop[g].v_prime
        BY <1>2 DEF Request, Proposing
    <2> QED BY <2>1 DEF IInv, AcceptInv
<1> QED BY <1>1, <1>2, LateStep

\* An acceptor never accepts above its promise.
LEMMA AcceptorInvStep ==
    ASSUME IInv, [Next]_vars
    PROVE  AcceptorInv'
<1>1. TypeOK /\ NoneDone /\ AcceptorInv /\ AcceptInv /\ LateInv
    BY DEF IInv
<1> SUFFICES ASSUME NEW q \in Node, NEW s \in Seqs
             PROVE  /\ instances'[q][s].n_a <= instances'[q][s].n_p
                    /\ instances'[q][s].n_a # 0 => instances'[q][s].v_a \in Value
    BY DEF AcceptorInv
<1>2. instances[q][s] \in Instance /\ instances'[q][s] \in Instance
    BY <1>1, StepFacts DEF TypeOK
<1>3. /\ instances[q][s].n_a \in Nat /\ instances[q][s].n_p \in Nat
      /\ instances'[q][s].n_p \in Nat
    BY <1>2, ZeroBallot DEF Instance
<1>4. CASE /\ instances'[q][s].n_a = instances[q][s].n_a
           /\ instances'[q][s].v_a = instances[q][s].v_a
    BY <1>1, <1>3, <1>4, StepFacts DEF AcceptorInv, Grows
<1>5. ASSUME NEW r \in Node, NEW a \in Message, a.value \in Value,
             Accept(r, a)
      PROVE  /\ instances'[q][s].n_a <= instances'[q][s].n_p
             /\ instances'[q][s].n_a # 0 => instances'[q][s].v_a \in Value
    <2>1. a.n \in Nat
        BY ZeroBallot DEF Message
    <2> QED BY <1>1, <1>4, <1>5, <2>1, HandlerVote
<1>6. ASSUME NEW g \in Goroutine, Calling(g)
      PROVE  LET a == Request(g, prop[g].peer) IN
             /\ a \in Message /\ prop[g].peer \in Node
             /\ pc[g] = "accept" => a.value \in Value
    BY <1>1, <1>6, RequestType DEF Request, AcceptInv, Proposing
<1>7. ASSUME NEW m \in late
      PROVE  m \in Message /\ m.to \in Node /\ (m.kind = "accept" => m.value \in Value)
    BY <1>1 DEF TypeOK, Message, LateInv
<1>8. ASSUME NEW r \in Node, NEW a \in Message, Prepare(r, a) \/ Inform(r, a)
      PROVE  /\ instances'[q][s].n_a <= instances'[q][s].n_p
             /\ instances'[q][s].n_a # 0 => instances'[q][s].v_a \in Value
    BY <1>1, <1>4, <1>8, OnlyAcceptVotes
<1> QED BY <1>1, <1>4, <1>5, <1>6, <1>7, <1>8, AcceptorStep

\* A drawn ballot stays with the goroutine that drew it.
LEMMA BallotInvStep ==
    ASSUME IInv, [Next]_vars
    PROVE  BallotInv'
<1>1. TypeOK /\ NoneDone /\ BallotInv /\ AcceptInv /\ LateInv /\ TypeOK' /\ Grows
    BY StepFacts DEF IInv
<1>2. ASSUME NEW g \in Goroutine, InRound(g)
      PROVE  prop[g].n \in Ballots /\ prop[g].node \in Node /\ Used(prop[g].n)
    BY <1>1, <1>2 DEF BallotInv, Used, TypeOK, Locals
<1>3. ASSUME NEW g \in Goroutine, InRound(g)'
      PROVE  DrawnBy(prop[g].node, prop[g].n)'
    <2>1. CASE Continues(g)
        <3> DEFINE i == prop[g].node
                   b == prop[g].n
        <3>1. i \in Node /\ b \in Ballots /\ DrawnBy(i, b)
            BY <1>1, <1>2, <2>1 DEF Continues, BallotInv
        <3>2. PICK k \in 0 .. propCounter[i] - 1 : b = Ballot(k, i)
            BY <3>1 DEF DrawnBy
        <3>3. k \in 0 .. propCounter'[i] - 1
            <4>1. propCounter[i] \in 0 .. MaxCounter /\ propCounter'[i] \in 0 .. MaxCounter
                BY <1>1, <3>1 DEF TypeOK
            <4>2. propCounter[i] <= propCounter'[i]
                BY <1>1, <3>1 DEF Grows
            <4> QED BY <4>1, <4>2, BoundsAssumption
        <3>4. prop'[g].node = i /\ prop'[g].n = b
            BY <2>1 DEF Continues
        <3> HIDE DEF i, b
        <3> QED BY <3>2, <3>3, <3>4 DEF DrawnBy
    <2>2. CASE DrawBallot(g)
        BY <1>1, <2>2, DrawFresh
    <2> QED BY <1>1, <1>3, <2>1, <2>2, RoundEnters
<1>4. ASSUME NEW g \in Goroutine, NEW h \in Goroutine, InRound(g)', InRound(h)',
             prop'[g].n = prop'[h].n
      PROVE  g = h
    <2>1. CASE Continues(g) /\ Continues(h)
        BY <1>1, <1>4, <2>1 DEF Continues, BallotInv
    <2>2. ASSUME NEW x \in Goroutine, NEW y \in Goroutine, DrawBallot(x), Continues(y)
          PROVE  prop'[x].n # prop'[y].n
        <3>1. ~Used(prop'[x].n)
            BY <1>1, <2>2, DrawFresh
        <3>2. Used(prop'[y].n)
            BY <1>2, <2>2 DEF Continues
        <3> QED BY <3>1, <3>2
    <2>4. CASE DrawBallot(g) /\ DrawBallot(h)
        BY <1>1, <2>4, DrawFresh
    <2> QED BY <1>1, <1>4, <2>1, <2>2, <2>4, RoundEnters
<1>5. ASSUME NEW s \in Seqs, NEW b \in Ballots, NEW v \in Value, Proposal(s, b, v)'
      PROVE  Used(b)'
    <2>1. CASE Proposal(s, b, v)
        BY <1>1, <2>1, UsedStays DEF BallotInv
    <2>2. ASSUME NEW g \in Goroutine, OpenAccept(g), prop[g].n = b
          PROVE  Used(b)'
        <3>1. InRound(g)
            BY <2>2 DEF OpenAccept, InRound
        <3> QED BY <1>1, <1>2, <2>2, <3>1, UsedStays
    <2> QED BY <1>1, <1>5, <2>1, <2>2, ProposalStep
<1> QED BY <1>3, <1>4, <1>5 DEF BallotInv

\* What was safe to propose stays safe.
LEMMA SafeAtStays ==
    ASSUME IInv, [Next]_vars,
           NEW s \in Seqs, NEW b \in Ballots, NEW v \in Value, SafeAt(s, b, v)
    PROVE  SafeAt(s, b, v)'
<1>1. TypeOK /\ BallotInv /\ TypeOK' /\ Grows
    BY StepFacts DEF IInv
<1> SUFFICES ASSUME NEW c \in 0 .. b-1
             PROVE  \/ \E g \in Goroutine : Proposes(g, s, c)' /\ prop'[g].v_prime = v
                    \/ Closed(s, c)'
                    \/ \E Q \in Quorum : \A q \in Q : Blocked(q, s, c)'
    BY DEF SafeAt
<1>2. c \in Ballots
    <2>1. MaxCounter * N \in Nat
        BY NAssumption, BoundsAssumption
    <2> QED BY <2>1 DEF Ballots
<1>3. ASSUME NEW h \in Goroutine, At(h, s, c)', Used(c)
      PROVE  At(h, s, c)
    BY <1>1, <1>3, RoundEnters, DrawFresh DEF At, Continues
<1>4. ASSUME NEW g \in Goroutine, Proposes(g, s, c), prop[g].v_prime = v
      PROVE  \/ Proposes(g, s, c)' /\ prop'[g].v_prime = v
             \/ Closed(s, c)'
    <2>1. InRound(g) /\ prop[g].n = c /\ prop[g].seq = s /\ Proposing(g)
        BY <1>4 DEF Proposes, Proposing, InRound
    <2>2. Used(c)
        BY <1>1, <2>1 DEF BallotInv, Used, TypeOK, Locals
    <2>3. CASE Continues(g)
        BY <1>4, <2>1, <2>3 DEF Continues, Proposes
    <2>4. CASE Retry(g)
        <3>1. ~InRound(g)'
            BY <1>1, <2>4 DEF Retry, InRound, TypeOK
        <3>2. \A h \in Goroutine : ~At(h, s, c)'
            <4> SUFFICES ASSUME NEW h \in Goroutine, At(h, s, c)' PROVE FALSE
                OBVIOUS
            <4>1. At(h, s, c) /\ h # g
                BY <1>3, <2>2, <3>1 DEF At
            <4> QED BY <1>1, <2>1, <4>1 DEF At, BallotInv
        <3> QED BY <1>1, <1>2, <2>2, <3>2, UsedStays DEF Closed
    <2>5. ~DrawBallot(g)
        BY <2>1 DEF DrawBallot, Proposing
    <2> QED BY <1>1, <2>1, <2>3, <2>4, <2>5, RoundStep
<1>5. ASSUME Closed(s, c)
      PROVE  Closed(s, c)'
    BY <1>1, <1>2, <1>3, <1>5, UsedStays DEF Closed
<1>6. ASSUME NEW q \in Node, Blocked(q, s, c)
      PROVE  Blocked(q, s, c)'
    <2>1. instances[q][s].n_p \in Nat /\ instances'[q][s].n_p \in Nat
        <3>1. instances[q][s] \in Instance /\ instances'[q][s] \in Instance
            BY <1>1 DEF TypeOK
        <3> QED BY <3>1, ZeroBallot DEF Instance
    <2>2. instances'[q][s].n_p > c
        BY <1>1, <1>6, <2>1 DEF Blocked, Grows
    <2>3. ASSUME NEW h \in Goroutine, Proposes(h, s, c)', q \in prop'[h].oks
          PROVE  FALSE
        <3>1. Proposing(h)'
            BY <2>3 DEF Proposes
        <3>2. /\ Continues(h)
              /\ \/ Proposing(h) /\ q \in prop[h].oks
                 \/ instances[q][prop[h].seq].n_p <= prop[h].n
            BY <1>1, <2>3, <3>1, VoteStep
        <3>3. prop[h].seq = s /\ prop[h].n = c
            BY <2>3, <3>2 DEF Proposes, Continues
        <3> QED BY <1>6, <2>1, <3>2, <3>3 DEF Blocked, Proposes
    <2> QED BY <2>2, <2>3 DEF Blocked
<1> QED BY <1>4, <1>5, <1>6 DEF SafeAt, Quorum

\* Counted votes stay cast, and only a majority opens the informing phase.
LEMMA AcceptInvStep ==
    ASSUME IInv, [Next]_vars
    PROVE  AcceptInv'
<1>1. /\ TypeOK /\ StartInv /\ PrepareInv /\ AcceptInv /\ TypeOK' /\ Grows
    BY StepFacts DEF IInv
<1> SUFFICES ASSUME NEW g \in Goroutine, Proposing(g)'
             PROVE  /\ prop'[g].n > 0 /\ prop'[g].v_prime \in Value
                    /\ \A q \in prop'[g].oks : instances'[q][prop'[g].seq].n_a >= prop'[g].n
                    /\ Chose(g)' => prop'[g].oks \in Quorum
    BY DEF AcceptInv
<1>2. prop[g] \in Locals /\ prop'[g] \in Locals
    BY <1>1 DEF TypeOK
<1>3. Continues(g)
    BY <1>1, RoundStep DEF DrawBallot, Retry, Proposing, InRound, TypeOK
<1>4. prop'[g].n = prop[g].n /\ prop'[g].seq = prop[g].seq /\ prop[g].n \in Nat
      /\ prop[g].seq \in Seqs
    BY <1>2, <1>3, ZeroBallot DEF Continues, Locals
<1>5. prop'[g].n > 0 /\ prop'[g].v_prime \in Value
    <2>1. CASE Proposing(g)
        BY <1>1, <1>3, <2>1 DEF AcceptInv, Continues
    <2>2. CASE OpenAccept(g)
        <3>1. prop'[g].v_prime = IF prop[g].v_adopted # Nil THEN prop[g].v_adopted
                                 ELSE prop[g].v
            BY <1>1, <1>2, <2>2 DEF OpenAccept, TypeOK, Locals
        <3>2. pc[g] = "prepare" /\ prop[g].oks # {}
            <4>1. Cardinality({}) = 0 /\ Majority \in Nat /\ Majority > 0
                BY FS_EmptySet, NAssumption DEF Majority
            <4>2. pc[g] = "prepare" /\ Cardinality(prop[g].oks) >= Majority
                BY <2>2 DEF OpenAccept, HasMajority
            <4> QED BY <4>1, <4>2
        <3>3. prop[g].n > 0
            BY <1>1, <3>2 DEF PrepareInv, Collected
        <3>4. prop[g].v \in Value
            BY <1>1, <3>2 DEF StartInv
        <3>5. prop[g].v_adopted \in Value \cup {Nil}
            BY <1>2 DEF Locals
        <3> QED BY <1>4, <3>1, <3>3, <3>4, <3>5
    <2> QED BY <1>1, <2>1, <2>2, OpenAcceptOnly
<1>6. ASSUME NEW q \in prop'[g].oks
      PROVE  instances'[q][prop'[g].seq].n_a >= prop'[g].n
    <2>1. q \in Node
        BY <1>2 DEF Locals
    <2>2. instances[q][prop[g].seq].n_a \in Nat /\ instances'[q][prop[g].seq].n_a \in Nat
        <3>1. instances[q][prop[g].seq] \in Instance /\ instances'[q][prop[g].seq] \in Instance
            BY <1>1, <1>4, <2>1 DEF TypeOK
        <3> QED BY <3>1, ZeroBallot DEF Instance
    <2>3. CASE Proposing(g) /\ q \in prop[g].oks
        <3>1. instances[q][prop[g].seq].n_a >= prop[g].n
            BY <1>1, <2>3 DEF AcceptInv
        <3>2. instances[q][prop[g].seq].n_a <= instances'[q][prop[g].seq].n_a
            BY <1>1, <1>4, <2>1 DEF Grows
        <3> QED BY <1>4, <2>2, <3>1, <3>2
    <2>4. CASE instances'[q][prop[g].seq].n_a = prop[g].n
        BY <1>4, <2>2, <2>4
    <2> QED BY <1>1, <1>6, <2>3, <2>4, VoteStep
<1>7. ASSUME Chose(g)' PROVE prop'[g].oks \in Quorum
    <2>1. ASSUME pc'[g] = pc[g], prop'[g].oks = prop[g].oks
          PROVE  prop'[g].oks \in Quorum
        BY <1>1, <1>7, <2>1 DEF AcceptInv, Chose, Proposing
    <2>2. \/ Propose(g)
          \/ \E j \in Node, s \in Seqs, v \in Value : Start(g, j, s, v)
          \/ pc'[g] = pc[g] /\ prop'[g] = prop[g]
        BY <1>1, GoroutineMoves
    <2>4. CASE OpenInform(g)
        <3>1. prop'[g].oks = prop[g].oks
            BY <1>1, <1>2, <2>4 DEF OpenInform, TypeOK, Locals
        <3> QED BY <1>2, <2>4, <3>1 DEF OpenInform, HasMajority, Quorum, Locals
    <2>5. CASE Return(g)
        BY <1>1, <2>5 DEF Return, AcceptInv, Chose, Proposing
    <2>6. CASE CallInform(g)
        BY <1>1, <1>2, <2>1, <2>6 DEF CallInform, TypeOK, Locals
    <2>7. CASE CallFails(g)
        BY <1>1, <1>2, <2>1, <2>7 DEF CallFails, TypeOK, Locals
    <2>8. ASSUME \/ CheckStatus(g) \/ DrawBallot(g) \/ CallPrepare(g) \/ CallAccept(g)
                 \/ OpenAccept(g) \/ Retry(g)
                 \/ \E i \in Node, s \in Seqs, v \in Value : Start(g, i, s, v)
          PROVE  FALSE
        BY <1>1, <1>7, <2>8 DEF TypeOK, Chose, CheckStatus, DrawBallot, CallPrepare,
                CallAccept, OpenAccept, Retry, Start
    <2> QED BY <2>1, <2>2, <2>4, <2>5, <2>6, <2>7, <2>8 DEF Propose
<1> QED BY <1>5, <1>6, <1>7

\* What the promises say stays true until the round ends.
LEMMA PrepareInvStep ==
    ASSUME IInv, [Next]_vars
    PROVE  PrepareInv'
<1>1. /\ TypeOK /\ NoneDone /\ StartInv /\ BallotInv /\ AcceptorInv /\ PrepareInv /\ AcceptInv
      /\ LateInv /\ TypeOK' /\ Grows
    BY StepFacts DEF IInv
<1> SUFFICES ASSUME NEW g \in Goroutine, pc'[g] = "prepare"
             PROVE  /\ Collected(g)'
                    /\ \A v \in Value : ~Proposal(prop[g].seq, prop[g].n, v)'
    BY DEF PrepareInv
<1> DEFINE s == prop[g].seq
           n == prop[g].n
<1>2. prop[g] \in Locals /\ prop'[g] \in Locals
    BY <1>1 DEF TypeOK
<1>3. /\ n \in Ballots /\ n \in Nat /\ s \in Seqs
      /\ prop'[g].n \in Ballots /\ prop'[g].seq \in Seqs
    BY <1>2, ZeroBallot DEF Locals
\* Nobody else can propose in g's ballot.
<1>4. ASSUME NEW v \in Value
      PROVE  ~Proposal(prop[g].seq, prop[g].n, v)'
    <2> DEFINE t == prop'[g].seq
               m == prop'[g].n
    <2>1. ~Proposal(t, m, v)
        <3>1. CASE DrawBallot(g)
            BY <1>1, <1>3, <3>1, DrawFresh DEF BallotInv
        <3>2. CASE pc[g] = "prepare" /\ Continues(g)
            BY <1>1, <3>2 DEF PrepareInv, Continues
        <3> QED BY <1>1, <3>1, <3>2, PrepareStep
    <2>2. ASSUME NEW h \in Goroutine, OpenAccept(h), prop[h].n = m
          PROVE  FALSE
        <3>1. h # g /\ InRound(h)
            BY <1>1, <2>2 DEF OpenAccept, InRound, TypeOK
        <3>2. Used(prop[h].n)
            BY <1>1, <3>1 DEF BallotInv, Used, TypeOK, Locals
        <3>3. CASE DrawBallot(g)
            BY <1>1, <2>2, <3>2, <3>3, DrawFresh
        <3>4. CASE Continues(g)
            BY <1>1, <2>2, <3>1, <3>4 DEF Continues, BallotInv
        <3> QED BY <1>1, <3>3, <3>4, PrepareStep
    <2>3. \A x \in Seqs, b \in Ballots :
             x = t /\ b = m => ~Proposal(x, b, v)'
        BY <1>1, <2>1, <2>2, ProposalStep
    <2>4. \A x, b : x = t /\ b = m =>
                    (Proposal(x, b, v)' <=> Proposal(prop[g].seq, prop[g].n, v)')
        OBVIOUS
    <2> QED BY <1>3, <2>3, <2>4
<1>5. CASE DrawBallot(g)
    <2>1. prop'[g].oks = {} /\ prop'[g].highestN_a = 0 /\ prop'[g].v_adopted = Nil
        BY <1>1, <1>5, DrawFresh
    <2>2. Collected(g)'
        BY <2>1 DEF Collected
    <2> QED BY <1>4, <2>2
\* A vote counted in this step for a ballot below n was not given by a peer
\* that promised n.
<1>6. ASSUME NEW h \in Goroutine, Proposing(h)', prop'[h].n < n, prop'[h].seq = s,
             NEW q \in Node, instances[q][s].n_p >= n, q \in prop'[h].oks
      PROVE  /\ Proposing(h) /\ q \in prop[h].oks
             /\ prop[h].seq = s /\ prop[h].n = prop'[h].n
    <2>1. Continues(h)
        BY <1>1, <1>6, VoteStep
    <2>2. instances[q][s].n_p \in Nat /\ prop[h].n \in Nat
        <3>1. instances[q][s] \in Instance /\ prop[h] \in Locals
            BY <1>1, <1>3, <1>6 DEF TypeOK
        <3> QED BY <3>1, ZeroBallot DEF Instance, Locals
    <2> QED BY <1>1, <1>3, <1>6, <2>1, <2>2, VoteStep DEF Continues
<1>7. ASSUME pc[g] = "prepare", Continues(g), NEW q \in prop[g].oks
      PROVE  instances'[q][s].n_p >= n /\ instances[q][s].n_p >= n
    <2>1. q \in Node /\ instances[q][s].n_p >= n
        BY <1>1, <1>2, <1>7 DEF PrepareInv, Collected, Locals
    <2>2. instances[q][s].n_p \in Nat /\ instances'[q][s].n_p \in Nat
        <3>1. instances[q][s] \in Instance /\ instances'[q][s] \in Instance
            BY <1>1, <1>3, <2>1 DEF TypeOK
        <3> QED BY <3>1, ZeroBallot DEF Instance
    <2> QED BY <1>1, <1>3, <2>1, <2>2 DEF Grows
<1>8. CASE /\ pc[g] = "prepare" /\ Continues(g)
           /\ prop'[g].oks = prop[g].oks
           /\ prop'[g].highestN_a = prop[g].highestN_a
           /\ prop'[g].v_adopted = prop[g].v_adopted
    <2>1. prop'[g].seq = s /\ prop'[g].n = n
        BY <1>8 DEF Continues
    <2>2. /\ prop'[g].highestN_a = 0 => prop'[g].v_adopted = Nil
          /\ prop'[g].highestN_a # 0 => prop'[g].v_adopted \in Value /\ prop'[g].highestN_a < n
          /\ prop'[g].oks # {} => n > 0
        BY <1>1, <1>8 DEF PrepareInv, Collected
    <2>3. ASSUME NEW q \in prop[g].oks, NEW h \in Goroutine, Proposing(h)', prop'[h].seq = s,
                 prop[g].highestN_a < prop'[h].n, prop'[h].n < n, q \in prop'[h].oks
          PROVE  FALSE
        <3>1. q \in Node
            BY <1>2 DEF Locals
        <3>2. Proposing(h) /\ q \in prop[h].oks /\ prop[h].seq = s /\ prop[h].n = prop'[h].n
            BY <1>6, <1>7, <1>8, <2>3, <3>1
        <3> QED BY <1>1, <1>8, <2>3, <3>2 DEF PrepareInv, Collected
    <2>4. Collected(g)'
        BY <1>7, <1>8, <2>1, <2>2, <2>3 DEF Collected
    <2> QED BY <1>4, <2>4
<1>9. ASSUME pc[g] = "prepare", Continues(g), NEW r \in Node, Promises(g, r),
             \A h \in Goroutine : h # g => pc'[h] = pc[h] /\ prop'[h] = prop[h]
      PROVE  Collected(g)'
    <2> DEFINE i == instances[r][s]
    <2>1. prop'[g].seq = s /\ prop'[g].n = n
        BY <1>9 DEF Continues
    <2>2. /\ i \in Instance /\ i.n_a \in Nat /\ i.n_p \in Nat
          /\ prop[g].highestN_a \in Nat
        <3>1. i \in Instance
            BY <1>1, <1>3 DEF TypeOK
        <3> QED BY <1>2, <3>1, ZeroBallot DEF Instance, Locals
    <2>3. /\ i.n_p < n /\ i.n_a <= i.n_p
          /\ i.n_a # 0 => i.v_a \in Value
          /\ instances'[r][s].n_p = n
          /\ prop'[g].oks = prop[g].oks \cup {r}
          /\ prop'[g].highestN_a = LargerOf(i.n_a, prop[g].highestN_a)
          /\ prop'[g].v_adopted = IF i.n_a > prop[g].highestN_a THEN i.v_a
                                  ELSE prop[g].v_adopted
        BY <1>1, <1>3, <1>9 DEF Promises, AcceptorInv
    <2>4. /\ prop[g].highestN_a = 0 => prop[g].v_adopted = Nil
          /\ prop[g].highestN_a # 0 => prop[g].v_adopted \in Value /\ prop[g].highestN_a < n
        BY <1>1, <1>9 DEF PrepareInv, Collected
    <2>5. /\ prop'[g].highestN_a = 0 => prop'[g].v_adopted = Nil
          /\ prop'[g].highestN_a # 0 => prop'[g].v_adopted \in Value /\ prop'[g].highestN_a < n
          /\ n > 0
          /\ prop[g].highestN_a <= prop'[g].highestN_a /\ i.n_a <= prop'[g].highestN_a
          /\ prop'[g].highestN_a \in Nat
        BY <1>3, <2>2, <2>3, <2>4 DEF LargerOf
    <2>6. ASSUME NEW q \in prop'[g].oks
          PROVE  instances'[q][s].n_p >= n
        BY <1>3, <1>7, <1>9, <2>3
    <2>7. ASSUME NEW q \in prop'[g].oks, NEW h \in Goroutine, Proposing(h)', prop'[h].seq = s,
                 prop'[g].highestN_a < prop'[h].n, prop'[h].n < n, q \in prop'[h].oks
          PROVE  FALSE
        <3>1. h # g
            BY <2>1, <2>7, <1>3
        <3>2. Proposing(h) /\ prop[h] = prop'[h] /\ prop[h].n \in Nat
            BY <1>1, <1>9, <2>7, <3>1, ZeroBallot DEF Proposing, TypeOK, Locals
        <3>3. CASE q = r
            <4>1. i.n_a >= prop[h].n
                BY <1>1, <2>7, <3>2, <3>3 DEF AcceptInv
            <4> QED BY <2>2, <2>5, <2>7, <3>2, <4>1
        <3>4. CASE q \in prop[g].oks
            <4>1. prop[g].highestN_a < prop[h].n
                BY <2>2, <2>5, <2>7, <3>2
            <4> QED BY <1>1, <1>9, <2>7, <3>2, <3>4, <4>1 DEF PrepareInv, Collected
        <3> QED BY <2>3, <2>7, <3>3, <3>4
    <2> QED BY <2>1, <2>5, <2>6, <2>7 DEF Collected
<1> QED BY <1>1, <1>4, <1>5, <1>8, <1>9, PrepareStep

\* A majority of promises makes the value they impose safe.
LEMMA OpenAcceptSafe ==
    ASSUME IInv, [Next]_vars, NEW g \in Goroutine, OpenAccept(g)
    PROVE  /\ SafeAt(prop[g].seq, prop[g].n, prop'[g].v_prime)
           /\ <<prop[g].seq, prop'[g].v_prime>> \in proposedBar
<1>1. TypeOK /\ StartInv /\ BallotInv /\ PrepareInv /\ AcceptInv /\ ProposalInv
    BY DEF IInv
<1> DEFINE s == prop[g].seq
           n == prop[g].n
           x == prop[g].highestN_a
           w == prop'[g].v_prime
           R == prop[g].oks
<1>2. prop[g] \in Locals /\ pc[g] = "prepare"
    BY <1>1 DEF TypeOK, OpenAccept
<1>3. /\ s \in Seqs /\ n \in Nat /\ x \in Nat /\ x \in Ballots /\ R \subseteq Node
      /\ prop[g].v_adopted \in Value \cup {Nil} /\ prop[g].v \in Value
    BY <1>1, <1>2, ZeroBallot DEF Locals, StartInv
<1>4. w = IF prop[g].v_adopted # Nil THEN prop[g].v_adopted ELSE prop[g].v
    BY <1>1, <1>2 DEF OpenAccept, TypeOK, Locals
<1>5. R \in Quorum
    BY <1>3 DEF OpenAccept, HasMajority, Quorum
<1>6. Collected(g) /\ \A v \in Value : ~Proposal(s, n, v)
    BY <1>1, <1>2 DEF PrepareInv
<1>7. ASSUME x # 0
      PROVE  w \in Value /\ Proposal(s, x, w)
    <2>1. w = prop[g].v_adopted /\ w \in Value
        BY <1>4, <1>6, <1>7, NilAssumption DEF Collected
    <2> QED BY <1>2, <1>7, <2>1 DEF Proposal
<1>8. ASSUME NEW c \in 0 .. n-1
      PROVE  \/ \E h \in Goroutine : Proposes(h, s, c) /\ prop[h].v_prime = w
             \/ Closed(s, c)
             \/ \E Q \in Quorum : \A q \in Q : Blocked(q, s, c)
    <2>1. CASE x < c \/ c = 0
        <3> SUFFICES ASSUME NEW q \in R PROVE Blocked(q, s, c)
            BY <1>5
        <3>1. q \in Node /\ instances[q][s].n_p >= n
            BY <1>3, <1>6 DEF Collected
        <3>2. instances[q][s].n_p \in Nat
            <4>1. instances[q][s] \in Instance
                BY <1>1, <1>3, <3>1 DEF TypeOK
            <4> QED BY <4>1, ZeroBallot DEF Instance
        <3>3. instances[q][s].n_p > c
            BY <1>3, <3>1, <3>2
        <3>4. ASSUME NEW h \in Goroutine, Proposes(h, s, c), q \in prop[h].oks
              PROVE  FALSE
            <4>1. c > 0
                BY <1>1, <3>4 DEF Proposes, AcceptInv
            <4>2. x < c /\ c < n
                BY <1>3, <2>1, <4>1
            <4> QED BY <1>6, <3>4, <4>2 DEF Collected, Proposes
        <3> QED BY <3>3, <3>4 DEF Blocked
    <2>2. CASE c = x /\ x # 0
        <3>1. Used(c)
            BY <1>1, <1>3, <1>7, <2>2 DEF BallotInv
        <3>2. ASSUME NEW h \in Goroutine, At(h, s, c)
              PROVE  Proposes(h, s, c) /\ prop[h].v_prime = w
            <4>1. Proposing(h)
                <5> SUFFICES ASSUME pc[h] = "prepare" PROVE FALSE
                    BY <3>2 DEF At, InRound, Proposing
                <5> QED BY <1>1, <1>7, <2>2, <3>2 DEF PrepareInv, At
            <4>2. Proposes(h, s, c) /\ prop[h].v_prime \in Value
                BY <1>1, <3>2, <4>1 DEF At, Proposes, AcceptInv
            <4>3. Proposal(s, c, prop[h].v_prime)
                BY <4>2 DEF Proposal
            <4> QED BY <1>1, <1>3, <1>7, <2>2, <4>2, <4>3 DEF ProposalInv
        <3> QED BY <3>1, <3>2 DEF Closed
    <2>3. CASE c < x
        <3>1. x # 0
            BY <1>3, <2>3
        <3>2. SafeAt(s, x, w)
            BY <1>1, <1>3, <1>7, <3>1 DEF ProposalInv
        <3>3. c \in 0 .. x-1
            BY <1>3, <2>3
        <3> QED BY <3>2, <3>3 DEF SafeAt
    <2> QED BY <1>3, <2>1, <2>2, <2>3
<1>9. <<s, w>> \in proposedBar
    <2>1. CASE x = 0
        <3>1. w = prop[g].v
            BY <1>4, <1>6, <2>1 DEF Collected
        <3> QED BY <1>2, <3>1 DEF proposedBar
    <2>2. CASE x # 0
        BY <1>1, <1>3, <1>7, <2>2 DEF ProposalInv
    <2> QED BY <2>1, <2>2
<1> QED BY <1>8, <1>9 DEF SafeAt

\* A ballot keeps one value, and it stays safe.
LEMMA ProposalInvStep ==
    ASSUME IInv, [Next]_vars
    PROVE  ProposalInv'
<1>1. /\ TypeOK /\ NoneDone /\ BallotInv /\ PrepareInv /\ AcceptInv /\ LateInv /\ ProposalInv
      /\ TypeOK'
    BY StepFacts DEF IInv
<1>2. ASSUME NEW s, NEW v, <<s, v>> \in proposedBar
      PROVE  <<s, v>> \in proposedBar'
    <2>1. PICK g \in Goroutine : pc[g] # "idle" /\ prop[g].seq = s /\ prop[g].v = v
        BY <1>2 DEF proposedBar
    <2>2. pc'[g] # "idle" /\ prop'[g].seq = s /\ prop'[g].v = v
        BY <1>1, <2>1, StartedStep
    <2> QED BY <2>2 DEF proposedBar
<1> SUFFICES ASSUME NEW s \in Seqs, NEW b \in Ballots, NEW v \in Value, Proposal(s, b, v)'
             PROVE  /\ SafeAt(s, b, v)'
                    /\ \A w \in Value : Proposal(s, b, w)' => w = v
                    /\ <<s, v>> \in proposedBar'
    BY DEF ProposalInv
<1>3. CASE Proposal(s, b, v)
    <2>1. SafeAt(s, b, v)' /\ <<s, v>> \in proposedBar'
        BY <1>1, <1>2, <1>3, SafeAtStays DEF ProposalInv
    <2>2. ASSUME NEW w \in Value, Proposal(s, b, w)'
          PROVE  w = v
        <3>1. ASSUME NEW g \in Goroutine, OpenAccept(g), prop[g].seq = s, prop[g].n = b
              PROVE  FALSE
            BY <1>1, <1>3, <3>1 DEF OpenAccept, PrepareInv
        <3>2. Proposal(s, b, w)
            BY <1>1, <2>2, <3>1, ProposalStep
        <3> QED BY <1>1, <1>3, <3>2 DEF ProposalInv
    <2> QED BY <2>1, <2>2
<1>4. ASSUME NEW g \in Goroutine, OpenAccept(g), prop[g].seq = s, prop[g].n = b,
             prop'[g].v_prime = v
      PROVE  /\ SafeAt(s, b, v)'
             /\ \A w \in Value : Proposal(s, b, w)' => w = v
             /\ <<s, v>> \in proposedBar'
    <2>1. SafeAt(s, b, v) /\ <<s, v>> \in proposedBar
        BY <1>4, OpenAcceptSafe
    <2>2. SafeAt(s, b, v)' /\ <<s, v>> \in proposedBar'
        BY <1>2, <2>1, SafeAtStays
    <2>3. ASSUME NEW w \in Value, Proposal(s, b, w)'
          PROVE  w = v
        <3>1. ~Proposal(s, b, w)
            BY <1>1, <1>4 DEF OpenAccept, PrepareInv
        <3>2. PICK h \in Goroutine : OpenAccept(h) /\ prop[h].n = b /\ prop'[h].v_prime = w
            BY <1>1, <2>3, <3>1, ProposalStep
        <3>3. InRound(g) /\ InRound(h)
            BY <1>4, <3>2 DEF OpenAccept, InRound
        <3>4. g = h
            BY <1>1, <1>4, <3>2, <3>3 DEF BallotInv
        <3> QED BY <1>4, <3>2, <3>4
    <2> QED BY <2>2, <2>3
<1> QED BY <1>1, <1>3, <1>4, ProposalStep

\* What a peer has learned changes only by an Inform it runs.
LEMMA HandlerLearns ==
    ASSUME TypeOK, NEW r \in Node, NEW a \in Message,
           Prepare(r, a) \/ Accept(r, a) \/ Inform(r, a),
           NEW q \in Node, NEW s \in Seqs
    PROVE  \/ /\ instances'[q][s].fate = instances[q][s].fate
              /\ instances'[q][s].v_decided = instances[q][s].v_decided
           \/ /\ Inform(r, a) /\ q = r /\ s = a.seq
              /\ instances'[q][s].fate = "Decided"
              /\ instances'[q][s].v_decided = a.value
<1>1. /\ instances[q][s] \in Instance /\ instances[r][a.seq] \in Instance
      /\ a.seq \in Seqs
    BY DEF TypeOK, Message
<1>2. CASE Prepare(r, a)
    BY <1>1, <1>2 DEF Prepare, TypeOK, Instance
<1>3. CASE Accept(r, a)
    BY <1>1, <1>3 DEF Accept, TypeOK, Instance
<1>4. CASE Inform(r, a)
    BY <1>1, <1>4 DEF Inform, TypeOK, Instance
<1> QED BY <1>2, <1>3, <1>4

\* A handler that informs of nothing leaves what was learned alone.
LEMMA HandlerKeepsLearned ==
    ASSUME TypeOK, NEW r \in Node, NEW a \in Message, Prepare(r, a) \/ Accept(r, a),
           NEW q \in Node, NEW s \in Seqs
    PROVE  /\ instances'[q][s].fate = instances[q][s].fate
           /\ instances'[q][s].v_decided = instances[q][s].v_decided
<1>1. /\ instances[q][s] \in Instance /\ instances[r][a.seq] \in Instance
      /\ a.seq \in Seqs
    BY DEF TypeOK, Message
<1>2. CASE Prepare(r, a)
    BY <1>1, <1>2 DEF Prepare, TypeOK, Instance
<1>3. CASE Accept(r, a)
    BY <1>1, <1>3 DEF Accept, TypeOK, Instance
<1> QED BY <1>2, <1>3

\* A step teaches a peer nothing, or the value some goroutine is informing.
LEMMA LearnStep ==
    ASSUME IInv, [Next]_vars, NEW i \in Node, NEW s \in Seqs
    PROVE  \/ /\ instances'[i][s].fate = instances[i][s].fate
              /\ instances'[i][s].v_decided = instances[i][s].v_decided
           \/ /\ instances'[i][s].fate = "Decided"
              /\ \E g \in Goroutine : /\ Chose(g) /\ prop[g].seq = s
                                      /\ prop[g].v_prime = instances'[i][s].v_decided
<1>1. TypeOK /\ NoneDone /\ LearnInv
    BY DEF IInv
<1> DEFINE Keeps == /\ instances'[i][s].fate = instances[i][s].fate
                    /\ instances'[i][s].v_decided = instances[i][s].v_decided
           Learns == /\ instances'[i][s].fate = "Decided"
                     /\ \E g \in Goroutine : /\ Chose(g) /\ prop[g].seq = s
                                             /\ prop[g].v_prime = instances'[i][s].v_decided
<1>2. ASSUME NEW g \in Goroutine, Calling(g),
             LET r == prop[g].peer IN
                \/ pc[g] = "prepare" /\ Prepare(r, Request(g, r))
                \/ pc[g] = "accept" /\ Accept(r, Request(g, r))
                \/ pc[g] = "inform" /\ Inform(r, Request(g, r))
      PROVE  Keeps \/ Learns
    <2> DEFINE r == prop[g].peer
               a == Request(g, r)
    <2>1. a \in Message /\ r \in Node
        BY <1>1, <1>2, RequestType
    <2>2. CASE Prepare(r, a) \/ Accept(r, a)
        BY <1>1, <2>1, <2>2, HandlerKeepsLearned
    <2>3. CASE pc[g] = "inform" /\ Inform(r, a)
        <3>1. Chose(g) /\ prop[g].seq = a.seq /\ prop[g].v_prime = a.value
            BY <2>3 DEF Chose, Request
        <3> QED BY <1>1, <2>1, <2>3, <3>1, HandlerLearns
    <2> QED BY <1>2, <2>2, <2>3
<1>3. ASSUME NEW m \in late,
             \/ m.kind = "prepare" /\ Prepare(m.to, m)
             \/ m.kind = "accept" /\ Accept(m.to, m)
             \/ m.kind = "inform" /\ Inform(m.to, m)
      PROVE  Keeps \/ Learns
    <2>1. m \in Message /\ m.to \in Node
        BY <1>1 DEF TypeOK, Message
    <2>2. CASE Prepare(m.to, m) \/ Accept(m.to, m)
        BY <1>1, <2>1, <2>2, HandlerKeepsLearned
    <2>3. CASE m.kind = "inform" /\ Inform(m.to, m)
        <3>1. PICK g \in Goroutine : Chose(g) /\ prop[g].seq = m.seq /\ prop[g].v_prime = m.value
            BY <1>1, <2>3 DEF LearnInv
        <3> QED BY <1>1, <2>1, <2>3, <3>1, HandlerLearns
    <2> QED BY <1>3, <2>2, <2>3
<1>4. CASE UNCHANGED <<instances, doneValues>>
    BY <1>4
<1> QED BY <1>1, <1>2, <1>3, <1>4, AcceptorStep

\* What is learned was chosen.
LEMMA LearnInvStep ==
    ASSUME IInv, [Next]_vars
    PROVE  LearnInv'
<1>1. TypeOK /\ LearnInv
    BY DEF IInv
<1>2. ASSUME NEW g \in Goroutine, Chose(g)
      PROVE  Chose(g)' /\ prop'[g].seq = prop[g].seq /\ prop'[g].v_prime = prop[g].v_prime
    <2>1. Proposing(g) /\ InRound(g) /\ ~DrawBallot(g) /\ ~Retry(g)
        BY <1>2 DEF Chose, Proposing, InRound, DrawBallot, Retry
    <2> QED BY <1>1, <1>2, <2>1, RoundStep DEF Continues
<1>3. ASSUME NEW i \in Node, NEW s \in Seqs, Decided(i, s)'
      PROVE  \E g \in Goroutine :
                 /\ Chose(g)' /\ prop'[g].seq = s
                 /\ prop'[g].v_prime = instances'[i][s].v_decided
    <2>1. PICK g \in Goroutine : /\ Chose(g) /\ prop[g].seq = s
                                 /\ prop[g].v_prime = instances'[i][s].v_decided
        BY <1>1, <1>3, LearnStep DEF LearnInv, Decided
    <2> QED BY <1>2, <2>1
<1>4. ASSUME NEW m, m \in late', m.kind = "inform"
      PROVE  \E g \in Goroutine : Chose(g)' /\ prop'[g].seq = m.seq /\ prop'[g].v_prime = m.value
    <2>1. \E g \in Goroutine : Chose(g) /\ prop[g].seq = m.seq /\ prop[g].v_prime = m.value
        <3>1. CASE m \in late
            BY <1>1, <1>4, <3>1 DEF LearnInv
        <3>2. ASSUME NEW g \in Goroutine, Calling(g), m = Request(g, prop[g].peer)
              PROVE  Chose(g) /\ prop[g].seq = m.seq /\ prop[g].v_prime = m.value
            BY <1>4, <3>2 DEF Request, Chose
        <3> QED BY <1>4, <3>1, <3>2, LateStep
    <2> QED BY <1>2, <2>1
<1> QED BY <1>3, <1>4 DEF LearnInv

\* The initial state satisfies the inductive invariant.
LEMMA InitInv == Init => IInv
<1> SUFFICES ASSUME Init PROVE IInv
    OBVIOUS
<1>1. TypeOK
    BY InitType
<1>2. /\ \A q \in Node, s \in Seqs : instances[q][s] = Fresh
      /\ \A i, j \in Node : doneValues[i][j] = -1
      /\ \A g \in Goroutine : pc[g] = "idle" /\ prop[g] = Blank
      /\ late = {}
    BY DEF Init
<1>3. /\ Fresh.n_a = 0 /\ Fresh.n_p = 0 /\ Fresh.fate = "Pending" /\ Blank.done = -1
    BY DEF Fresh, Blank
<1>4. \A g \in Goroutine : ~InRound(g) /\ ~Proposing(g) /\ pc[g] # "prepare"
    BY <1>2 DEF InRound, Proposing
<1>5. \A s \in Seqs, b \in Ballots, v \in Value : ~Proposal(s, b, v)
    BY <1>2, <1>3, <1>4 DEF Proposal, Proposes
<1>6. NoneDone /\ StartInv /\ AcceptorInv /\ LateInv
    BY <1>2, <1>3 DEF NoneDone, StartInv, AcceptorInv, LateInv
<1>7. BallotInv /\ PrepareInv /\ AcceptInv /\ ProposalInv
    BY <1>4, <1>5 DEF BallotInv, PrepareInv, AcceptInv, ProposalInv
<1>8. LearnInv
    BY <1>2, <1>3 DEF LearnInv, Decided
<1> QED BY <1>1, <1>6, <1>7, <1>8 DEF IInv

\* Every step preserves the inductive invariant.
LEMMA NextInv == IInv /\ [Next]_vars => IInv'
<1> SUFFICES ASSUME IInv, [Next]_vars PROVE IInv'
    OBVIOUS
<1>1. TypeOK'
    BY StepFacts
<1>2. NoneDone' /\ StartInv' /\ BallotInv' /\ AcceptorInv' /\ PrepareInv'
    BY NoneDoneStep, StartStep, BallotInvStep, AcceptorInvStep, PrepareInvStep
<1>3. AcceptInv' /\ LateInv' /\ ProposalInv' /\ LearnInv'
    BY AcceptInvStep, LateInvStep, ProposalInvStep, LearnInvStep
<1> QED BY <1>1, <1>2, <1>3 DEF IInv

\* The strengthened invariant holds in every reachable state.
THEOREM Invariance == Spec => []IInv
    BY InitInv, NextInv, PTL DEF Spec

-----------------------------------------------------------------------------
(* What follows from the invariant *)

\* A value proposed above a chosen ballot is the chosen value.
LEMMA ChosenAbove ==
    ASSUME IInv, NEW g \in Goroutine, Chose(g),
           NEW b \in Ballots, NEW v \in Value, Proposal(prop[g].seq, b, v), prop[g].n <= b
    PROVE  prop[g].v_prime = v
<1>1. TypeOK /\ BallotInv /\ AcceptInv /\ ProposalInv
    BY DEF IInv
<1> DEFINE s == prop[g].seq
           n == prop[g].n
<1>2. prop[g] \in Locals
    BY <1>1 DEF TypeOK
<1>3. s \in Seqs /\ n \in Ballots /\ n \in Nat /\ b \in Nat
    BY <1>2, ZeroBallot DEF Locals
<1>4. Proposing(g) /\ InRound(g) /\ At(g, s, n) /\ Proposes(g, s, n)
    BY DEF Chose, Proposing, InRound, At, Proposes
<1>5. prop[g].v_prime \in Value /\ prop[g].oks \in Quorum
    BY <1>1, <1>4 DEF AcceptInv
<1>6. CASE b = n
    <2>1. Proposal(s, n, prop[g].v_prime)
        BY <1>4 DEF Proposal
    <2> QED BY <1>1, <1>3, <1>5, <1>6, <2>1 DEF ProposalInv
<1>7. CASE n < b
    <2>1. SafeAt(s, b, v) /\ n \in 0 .. b-1
        <3>1. SafeAt(s, b, v)
            BY <1>1, <1>3 DEF ProposalInv
        <3>2. n \in 0 .. b-1
            BY <1>3, <1>7
        <3> QED BY <3>1, <3>2
    <2>2. ~Closed(s, n)
        BY <1>4 DEF Closed
    <2>3. ASSUME NEW Q \in Quorum, \A q \in Q : Blocked(q, s, n)
          PROVE  FALSE
        <3>1. PICK q \in Node : q \in Q /\ q \in prop[g].oks
            BY <1>5, QuorumsMeet
        <3> QED BY <1>4, <2>3, <3>1 DEF Blocked
    <2>4. PICK h \in Goroutine : Proposes(h, s, n) /\ prop[h].v_prime = v
        BY <2>1, <2>2, <2>3 DEF SafeAt
    <2>5. InRound(h) /\ prop[h].n = n
        BY <2>4 DEF Proposes, Proposing, InRound
    <2>6. h = g
        BY <1>1, <1>4, <2>5 DEF BallotInv
    <2> QED BY <2>4, <2>6
<1> QED BY <1>3, <1>6, <1>7

\* Two chosen values are the same.
LEMMA ChosenAgree ==
    ASSUME IInv, NEW g \in Goroutine, NEW h \in Goroutine, Chose(g), Chose(h),
           prop[g].seq = prop[h].seq
    PROVE  prop[g].v_prime = prop[h].v_prime
<1>1. ASSUME NEW x \in Goroutine, Chose(x)
      PROVE  /\ prop[x].n \in Ballots /\ prop[x].n \in Nat /\ prop[x].v_prime \in Value
             /\ Proposal(prop[x].seq, prop[x].n, prop[x].v_prime)
    <2>1. Proposing(x)
        BY <1>1 DEF Chose, Proposing
    <2> QED BY <2>1, ZeroBallot DEF IInv, TypeOK, Locals, AcceptInv, Proposal, Proposes
<1>2. prop[g].n <= prop[h].n \/ prop[h].n <= prop[g].n
    BY <1>1
<1> QED BY <1>1, <1>2, ChosenAbove

\* Two peers that learned, learned from goroutines that chose.
LEMMA IInvAgreement == IInv => Agreement
    BY ChosenAgree DEF IInv, LearnInv, Agreement

\* No two peers ever report different decisions.
THEOREM AgreementCorrect == Spec => []Agreement
    BY Invariance, IInvAgreement, PTL

\* The majority that accepted a chosen value holds it ever after.
LEMMA IInvDecisionHeld == IInv => DecisionHeld
<1> SUFFICES ASSUME IInv, NEW i \in Node, NEW s \in Seqs, Decided(i, s)
             PROVE  \E Q \in Quorum : \A q \in Q :
                        instances[q][s].v_a = instances[i][s].v_decided
    BY DEF DecisionHeld
<1>1. TypeOK /\ AcceptInv /\ AcceptorInv /\ LearnInv
    BY DEF IInv
<1>2. PICK g \in Goroutine : /\ Chose(g) /\ prop[g].seq = s
                             /\ prop[g].v_prime = instances[i][s].v_decided
    BY <1>1 DEF LearnInv
<1>3. Proposing(g)
    BY <1>2 DEF Chose, Proposing
<1>4. prop[g].oks \in Quorum /\ prop[g].n > 0 /\ prop[g].n \in Nat
    BY <1>1, <1>2, <1>3, ZeroBallot DEF AcceptInv, TypeOK, Locals
<1>5. ASSUME NEW q \in prop[g].oks
      PROVE  instances[q][s].v_a = prop[g].v_prime
    <2> DEFINE n_a == instances[q][s].n_a
               v_a == instances[q][s].v_a
    <2>1. q \in Node /\ n_a >= prop[g].n
        BY <1>1, <1>2, <1>3, <1>4 DEF AcceptInv, Quorum
    <2>2. n_a \in Ballots /\ n_a \in Nat
        <3>1. instances[q][s] \in Instance
            BY <1>1, <2>1 DEF TypeOK
        <3> QED BY <3>1, ZeroBallot DEF Instance
    <2>3. n_a # 0 /\ v_a \in Value
        BY <1>1, <1>4, <2>1, <2>2 DEF AcceptorInv
    <2>4. Proposal(s, n_a, v_a)
        BY <2>1, <2>3 DEF Proposal
    <2> QED BY <1>2, <1>4, <2>1, <2>2, <2>3, <2>4, ChosenAbove
<1> QED BY <1>2, <1>4, <1>5

\* A learned decision stays with a majority of the acceptors.
THEOREM DecisionHeldCorrect == Spec => []DecisionHeld
    BY Invariance, IInvDecisionHeld, PTL

\* Ballots differ between rounds under way.
LEMMA IInvBallots == IInv => BallotsDistinct
    BY DEF IInv, BallotInv, BallotsDistinct, InRound

\* No two rounds share a ballot.
THEOREM BallotsDistinctCorrect == Spec => []BallotsDistinct
    BY Invariance, IInvBallots, PTL

-----------------------------------------------------------------------------
(* Refinement *)

\* The initial states of Paxos are initial states of Consensus.
LEMMA RefinementInit == Init => C!Init
<1> SUFFICES ASSUME Init PROVE C!Init
    OBVIOUS
<1>1. proposedBar = {}
    BY DEF Init, proposedBar
<1>2. \A i \in Node, s \in Seqs : ~Decided(i, s)
    BY DEF Init, Fresh, Decided
<1>3. decidedBar = [i \in Node |-> [s \in Seqs |-> Nil]]
    BY <1>2 DEF decidedBar
<1> QED BY <1>1, <1>3 DEF C!Init

\* A step that starts a goroutine proposes its value.
LEMMA StartRefines ==
    ASSUME IInv, NEW g \in Goroutine, NEW i \in Node, NEW s \in Seqs, NEW v \in Value,
           Start(g, i, s, v)
    PROVE  C!Propose(s, v)
<1>1. TypeOK
    BY DEF IInv
<1>2. /\ pc[g] = "idle" /\ pc'[g] # "idle" /\ prop'[g].seq = s /\ prop'[g].v = v
      /\ \A h \in Goroutine : h # g => pc'[h] = pc[h] /\ prop'[h] = prop[h]
    BY <1>1 DEF Start, TypeOK, Blank
<1>3. proposedBar' = proposedBar \cup {<<s, v>>}
    BY <1>2 DEF proposedBar
<1>4. decidedBar' = decidedBar
    BY DEF Start, decidedBar, Decided
<1> QED BY <1>3, <1>4 DEF C!Propose

\* Any other step leaves the proposals alone.
LEMMA ProposedStays ==
    ASSUME IInv, [Next]_vars,
           \A g \in Goroutine : ~\E i \in Node, s \in Seqs, v \in Value : Start(g, i, s, v)
    PROVE  proposedBar' = proposedBar
<1>1. ASSUME NEW g \in Goroutine
      PROVE  \/ pc[g] = "idle" /\ pc'[g] = "idle"
             \/ /\ pc[g] # "idle" /\ pc'[g] # "idle"
                /\ prop'[g].seq = prop[g].seq /\ prop'[g].v = prop[g].v
    BY StartedStep DEF IInv
<1> QED BY <1>1 DEF proposedBar

\* A peer that learns a decision learns a proposed value, and the one the
\* others hold.
LEMMA LearnRefines ==
    ASSUME IInv, [Next]_vars, NEW i \in Node, NEW s \in Seqs,
           decidedBar'[i][s] # decidedBar[i][s]
    PROVE  /\ decidedBar[i][s] = Nil
           /\ decidedBar'[i][s] \in Value
           /\ <<s, decidedBar'[i][s]>> \in proposedBar
           /\ \A j \in Node : decidedBar[j][s] \in {Nil, decidedBar'[i][s]}
<1>1. TypeOK /\ AcceptInv /\ LearnInv /\ ProposalInv
    BY DEF IInv
<1>2. /\ \A j \in Node : decidedBar[j][s] = IF Decided(j, s) THEN instances[j][s].v_decided
                                            ELSE Nil
      /\ decidedBar'[i][s] = IF Decided(i, s)' THEN instances'[i][s].v_decided ELSE Nil
    BY DEF decidedBar
<1>3. /\ Decided(i, s)'
      /\ \E g \in Goroutine : /\ Chose(g) /\ prop[g].seq = s
                              /\ prop[g].v_prime = instances'[i][s].v_decided
    BY <1>2, LearnStep DEF Decided
<1>4. PICK g \in Goroutine : /\ Chose(g) /\ prop[g].seq = s
                             /\ prop[g].v_prime = instances'[i][s].v_decided
    BY <1>3
<1>5. decidedBar'[i][s] = prop[g].v_prime
    BY <1>2, <1>3, <1>4
<1>6. ASSUME NEW j \in Node
      PROVE  decidedBar[j][s] \in {Nil, prop[g].v_prime}
    <2>1. CASE Decided(j, s)
        <3>1. PICK h \in Goroutine : /\ Chose(h) /\ prop[h].seq = s
                                     /\ prop[h].v_prime = instances[j][s].v_decided
            BY <1>1, <2>1 DEF LearnInv
        <3> QED BY <1>2, <1>4, <2>1, <3>1, ChosenAgree
    <2>2. CASE ~Decided(j, s)
        BY <1>2, <2>2
    <2> QED BY <2>1, <2>2
<1>7. prop[g].v_prime \in Value /\ <<s, prop[g].v_prime>> \in proposedBar
    <2>1. Proposing(g)
        BY <1>4 DEF Chose, Proposing
    <2>2. prop[g].v_prime \in Value /\ prop[g].n \in Ballots
        BY <1>1, <2>1 DEF AcceptInv, TypeOK, Locals
    <2>3. Proposal(s, prop[g].n, prop[g].v_prime)
        BY <1>4, <2>1 DEF Proposal, Proposes
    <2> QED BY <1>1, <2>2, <2>3 DEF ProposalInv
<1> QED BY <1>5, <1>6, <1>7

\* No step teaches two peers, or one peer two instances.
LEMMA OneLearns ==
    ASSUME IInv, [Next]_vars, NEW i \in Node, NEW s \in Seqs,
           decidedBar'[i][s] # decidedBar[i][s]
    PROVE  decidedBar' = [decidedBar EXCEPT ![i][s] = decidedBar'[i][s]]
<1>1. TypeOK /\ NoneDone
    BY DEF IInv
<1>2. ASSUME NEW j \in Node, NEW t \in Seqs, decidedBar'[j][t] # decidedBar[j][t]
      PROVE  /\ ~UNCHANGED instances
             /\ ~(/\ instances'[j][t].fate = instances[j][t].fate
                  /\ instances'[j][t].v_decided = instances[j][t].v_decided)
    BY <1>2 DEF decidedBar, Decided
<1>3. ASSUME NEW r \in Node, NEW a \in Message,
             Prepare(r, a) \/ Accept(r, a) \/ Inform(r, a),
             NEW j \in Node, NEW t \in Seqs, decidedBar'[j][t] # decidedBar[j][t]
      PROVE  j = r /\ t = a.seq
    BY <1>1, <1>2, <1>3, HandlerLearns
<1>4. ASSUME NEW j \in Node, NEW t \in Seqs, j # i \/ t # s
      PROVE  decidedBar'[j][t] = decidedBar[j][t]
    <2>1. ASSUME NEW m \in late PROVE m \in Message /\ m.to \in Node
        BY <1>1 DEF TypeOK, Message
    <2>2. \E r \in Node, a \in Message : Prepare(r, a) \/ Accept(r, a) \/ Inform(r, a)
        BY <1>1, <1>2, <2>1, AcceptorStep, RequestType
    <2> QED BY <1>3, <1>4, <2>2
<1>5. /\ decidedBar = [j \in Node |-> [t \in Seqs |-> decidedBar[j][t]]]
      /\ decidedBar' = [j \in Node |-> [t \in Seqs |-> decidedBar'[j][t]]]
    BY DEF decidedBar
<1> DEFINE old == decidedBar
           new == decidedBar'
<1> HIDE DEF old, new
<1>6. /\ old = [j \in Node |-> [t \in Seqs |-> old[j][t]]]
      /\ new = [j \in Node |-> [t \in Seqs |-> new[j][t]]]
      /\ \A j \in Node, t \in Seqs : j # i \/ t # s => new[j][t] = old[j][t]
    BY <1>4, <1>5 DEF old, new
<1>7. new = [old EXCEPT ![i][s] = new[i][s]]
    <2>1. ASSUME NEW j \in Node
          PROVE  /\ old[j] = [t \in Seqs |-> old[j][t]]
                 /\ new[j] = [t \in Seqs |-> new[j][t]]
        BY <1>6
    <2>2. ASSUME NEW j \in Node, j # i PROVE new[j] = old[j]
        <3>1. \A t \in Seqs : new[j][t] = old[j][t]
            BY <1>6, <2>2
        <3>2. [t \in Seqs |-> new[j][t]] = [t \in Seqs |-> old[j][t]]
            BY <3>1
        <3> QED BY <2>1, <3>2
    <2>3. new[i] = [old[i] EXCEPT ![s] = new[i][s]]
        BY <1>6, <2>1
    <2>4. new = [j \in Node |-> new[j]] /\ old = [j \in Node |-> old[j]]
        BY <1>6
    <2>5. new = [old EXCEPT ![i] = [old[i] EXCEPT ![s] = new[i][s]]]
        BY <2>2, <2>3, <2>4
    <2> QED BY <2>5
<1> QED BY <1>7 DEF old, new

\* Paxos implements Consensus.
THEOREM Refinement == Spec => ConsensusSpec
<1>1. IInv /\ [Next]_vars => [C!Next]_C!vars
    <2> SUFFICES ASSUME IInv, [Next]_vars PROVE [C!Next]_C!vars
        OBVIOUS
    <2>1. CASE \E g \in Goroutine, i \in Node, s \in Seqs, v \in Value : Start(g, i, s, v)
        BY <2>1, StartRefines DEF C!Next
    <2>2. CASE \A g \in Goroutine : ~\E i \in Node, s \in Seqs, v \in Value : Start(g, i, s, v)
        <3>1. proposedBar' = proposedBar
            BY <2>2, ProposedStays
        <3>2. CASE \E i \in Node, s \in Seqs : decidedBar'[i][s] # decidedBar[i][s]
            <4>1. PICK i \in Node, s \in Seqs : decidedBar'[i][s] # decidedBar[i][s]
                BY <3>2
            <4>2. C!Learn(i, s, decidedBar'[i][s])
                BY <3>1, <4>1, LearnRefines, OneLearns DEF C!Learn
            <4> QED BY <4>1, <4>2, LearnRefines DEF C!Next
        <3>3. CASE \A i \in Node, s \in Seqs : decidedBar'[i][s] = decidedBar[i][s]
            <4>1. decidedBar' = decidedBar
                BY <3>3 DEF decidedBar
            <4> QED BY <3>1, <4>1 DEF C!vars
        <3> QED BY <3>2, <3>3
    <2> QED BY <2>1, <2>2
<1> QED BY RefinementInit, Invariance, <1>1, PTL DEF Spec, ConsensusSpec, C!Spec

-----------------------------------------------------------------------------
(* Retrying *)

\* A loser raises its counter above the winner, and counters never fall.
LEMMA RetryStep == IInv /\ RetryBeatsWinner /\ [Next]_vars => RetryBeatsWinner'
<1> SUFFICES ASSUME IInv, RetryBeatsWinner, [Next]_vars,
                    NEW g \in Goroutine, pc'[g] \in {"loop", "draw"}, prop'[g].maxNpSeen > 0
             PROVE  Ballot(propCounter'[prop'[g].node], prop'[g].node) > prop'[g].maxNpSeen
    BY DEF RetryBeatsWinner, Ballot
<1>1. TypeOK /\ TypeOK' /\ Grows
    BY StepFacts DEF IInv
<1>2. prop[g] \in Locals /\ prop[g].node \in Node /\ prop[g].maxNpSeen \in Ballots
      /\ prop[g].maxNpSeen \in Nat
    BY <1>1, ZeroBallot DEF TypeOK, Locals
<1> DEFINE i == prop[g].node
<1>3. propCounter[i] \in Nat /\ propCounter'[i] \in Nat /\ i \in Nat
    BY <1>1, <1>2, BoundsAssumption, NAssumption DEF TypeOK, Node
<1>4. ASSUME pc[g] \in {"loop", "draw"}, prop'[g] = prop[g]
      PROVE  Ballot(propCounter'[prop'[g].node], prop'[g].node) > prop'[g].maxNpSeen
    <2>1. Ballot(propCounter[i], i) > prop[g].maxNpSeen
        BY <1>4 DEF RetryBeatsWinner
    <2>2. propCounter[i] * N <= propCounter'[i] * N
        BY <1>1, <1>2, <1>3, MulMonotone, NAssumption DEF Grows
    <2>3. propCounter[i] * N \in Nat /\ propCounter'[i] * N \in Nat
        BY <1>3, NAssumption
    <2> QED BY <1>2, <1>3, <1>4, <2>1, <2>2, <2>3 DEF Ballot
<1>5. CASE Retry(g)
    <2> DEFINE m == prop[g].maxNpSeen
    <2>1. prop'[g].node = i /\ prop'[g].maxNpSeen = m
        BY <1>1, <1>2, <1>5 DEF Retry, TypeOK, Blank
    <2>2. Hint(m) \in Nat /\ Hint(m) * N > m
        BY <1>2, HintBeats, BoundsAssumption
    <2>3. propCounter'[i] >= Hint(m)
        BY <1>1, <1>2, <1>3, <1>5, <2>2 DEF Retry, LargerOf, TypeOK
    <2>4. Hint(m) * N <= propCounter'[i] * N
        BY <1>3, <2>2, <2>3, MulMonotone, NAssumption
    <2>5. Hint(m) * N \in Nat /\ propCounter'[i] * N \in Nat
        BY <1>3, <2>2, NAssumption
    <2> QED BY <1>2, <1>3, <2>1, <2>2, <2>4, <2>5 DEF Ballot
<1>6. ASSUME NEW j \in Node, NEW s \in Seqs, NEW v \in Value, Start(g, j, s, v)
      PROVE  prop'[g].maxNpSeen = 0
    BY <1>1, <1>6 DEF Start, TypeOK, Blank
<1>7. CASE CheckStatus(g)
    BY <1>4, <1>7 DEF CheckStatus
<1>8. \/ Propose(g)
      \/ \E j \in Node, s \in Seqs, v \in Value : Start(g, j, s, v)
      \/ pc'[g] = pc[g] /\ prop'[g] = prop[g]
    BY <1>1, GoroutineMoves
<1>10. ASSUME \/ DrawBallot(g) \/ CallPrepare(g) \/ CallAccept(g) \/ CallInform(g)
              \/ CallFails(g) \/ OpenAccept(g) \/ OpenInform(g) \/ Return(g)
       PROVE  FALSE
    BY <1>1, <1>10 DEF TypeOK, DrawBallot, CallPrepare, CallAccept, CallInform, CallFails,
                       Calling, OpenAccept, OpenInform, Return
<1> QED BY <1>4, <1>5, <1>6, <1>7, <1>8, <1>10 DEF Propose

\* A retry draws above the ballot it lost to.
THEOREM RetryBeatsWinnerCorrect == Spec => []RetryBeatsWinner
<1>1. Init => RetryBeatsWinner
    BY DEF Init, RetryBeatsWinner
<1> QED BY <1>1, RetryStep, Invariance, PTL DEF Spec
=============================================================================
