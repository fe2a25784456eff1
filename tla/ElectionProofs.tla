--------------------------- MODULE ElectionProofs ---------------------------
(***************************************************************************)
(* Proofs about Election, for any number of nodes and of elections: leader *)
(* and followers of an election agree, however heartbeats are suspected,   *)
(* requests are lost and coordinators die.                                 *)
(***************************************************************************)
EXTENDS ElectionInv, TLAPS

\* A function of two arguments stays one when it is changed in one place.
LEMMA UpdateType ==
    ASSUME NEW A, NEW B, NEW C, NEW f \in [A -> [B -> C]], NEW a \in A, NEW b \in B, NEW c \in C
    PROVE  [f EXCEPT ![a][b] = c] \in [A -> [B -> C]]
    OBVIOUS

\* The same for the threads of a node.
LEMMA ThreadType ==
    ASSUME TypeOK, NEW i \in Node, NEW t \in Thread, NEW r \in ThreadState,
           thread' = [thread EXCEPT ![i][t] = r]
    PROVE  thread' \in [Node -> [Thread -> ThreadState]]
    BY UpdateType, Zenon DEF TypeOK

\* A thread may be at any of these places,
LEMMA PlaceType ==
    ASSUME NEW r \in ThreadState, NEW where \in {"propose", "poll", "candidates", "lead", "watch"}
    PROVE  [r EXCEPT !.pc = where] \in ThreadState
    BY DEF ThreadState

\* in any election,
LEMMA SeqType ==
    ASSUME NEW r \in ThreadState, NEW s \in Seqs
    PROVE  [r EXCEPT !.pc = "poll", !.seq = s] \in ThreadState
    BY DEF ThreadState

\* under any coordinator.
LEMMA RoleType ==
    ASSUME NEW r \in ThreadState, NEW where \in {"candidates", "watch"}, NEW c \in Node \cup {Nil}
    PROVE  [r EXCEPT !.pc = where, !.coord = c] \in ThreadState
    BY DEF ThreadState

\* The thread that moves is typed.
LEMMA OneThreadType ==
    ASSUME TypeOK, NEW i \in Node, NEW t \in Thread
    PROVE  thread[i][t] \in ThreadState
    BY DEF TypeOK

\* Threads are born free.
LEMMA FreeType == Free \in ThreadState
    BY BoundsAssumption DEF Free, Seqs, ThreadState

\* The initial state satisfies the invariant.
LEMMA InitInv == Init => IInv
<1> SUFFICES ASSUME Init PROVE IInv
    OBVIOUS
<1> USE DEF Init, Paxos!Init
<1>1. TypeOK
    BY FreeType, BoundsAssumption DEF TypeOK, Seqs, Free, Thread, ThreadState
<1>2. WinnersAgree
    BY DEF WinnersAgree
<1>3. RolesDecided
    BY DEF RolesDecided, Free
<1> QED BY <1>1, <1>2, <1>3 DEF IInv

\* A step of one thread leaves its instance or leads to one that is in use.
LEMMA RaiseType ==
    ASSUME TypeOK, NEW i \in Node, MayTrigger(i), Raise(i)
    PROVE  instance' \in [Node -> Seqs] /\ recent' \in [Node -> BOOLEAN]
    BY BoundsAssumption DEF TypeOK, MayTrigger, Raise, Seqs

\* Every action keeps the types.
LEMMA NextType == TypeOK /\ [Next]_vars => TypeOK'
<1> SUFFICES ASSUME TypeOK, [Next]_vars PROVE TypeOK'
    OBVIOUS
<1> USE DEF TypeOK
<1>1. ASSUME NEW i \in Node, Decide(i) PROVE TypeOK'
    <2>1. PICK s \in Seqs, v \in Node : Paxos!Learn(i, s, v)
        BY <1>1 DEF Decide
    <2>2. decided' \in [Node -> [Seqs -> Node \cup {Nil}]]
        BY <2>1, UpdateType, Zenon DEF Paxos!Learn
    <2> QED BY <1>1, <2>1, <2>2 DEF Decide, Paxos!Learn, upVars, nodeVars, beatVars
<1>2. ASSUME NEW i \in Node, NEW t \in Thread, Propose(i, t) PROVE TypeOK'
    <2>1. [thread[i][t] EXCEPT !.pc = "poll", !.seq = ElectionSeq(i)] \in ThreadState
        BY OneThreadType, SeqType, Zenon DEF ElectionSeq
    <2>2. thread' \in [Node -> [Thread -> ThreadState]]
        BY <1>2, <2>1, ThreadType, Zenon DEF Propose
    <2> QED BY <1>2, <2>2 DEF Propose, Paxos!Propose, ElectionSeq, upVars, nodeVars, beatVars
<1>3. ASSUME NEW i \in Node, NEW t \in Thread, TakeRole(i, t) PROVE TypeOK'
    <2> DEFINE r == [thread[i][t] EXCEPT !.pc = Role(i, Winner(i, t)), !.coord = Winner(i, t)]
    <2>1. r \in ThreadState
        <3>1. thread[i][t].seq \in Seqs
            BY OneThreadType DEF ThreadState
        <3>2. Winner(i, t) \in Node \cup {Nil}
            BY <3>1 DEF Winner
        <3>3. Role(i, Winner(i, t)) \in {"candidates", "watch"}
            BY DEF Role
        <3> QED BY <3>2, <3>3, OneThreadType, RoleType, Zenon
    <2>2. thread' = [thread EXCEPT ![i][t] = r]
        BY <1>3, Zenon DEF TakeRole
    <2>3. thread' \in [Node -> [Thread -> ThreadState]]
        BY <2>1, <2>2, ThreadType, Zenon
    <2> QED BY <1>3, <2>3 DEF TakeRole, paxosVars, upVars, beatVars
<1>4. ASSUME NEW i \in Node, NEW t \in Thread, StartLoops(i, t) PROVE TypeOK'
    <2>1. [thread[i][t] EXCEPT !.pc = "lead"] \in ThreadState
        BY OneThreadType, PlaceType, Zenon
    <2>2. thread' = [thread EXCEPT ![i][t] = [thread[i][t] EXCEPT !.pc = "lead"]]
        BY <1>4 DEF StartLoops
    <2>3. thread' \in [Node -> [Thread -> ThreadState]]
        BY <2>1, <2>2, ThreadType, Zenon
    <2> QED BY <1>4, <2>3 DEF StartLoops, paxosVars, upVars, nodeVars, beatVars
<1>5. ASSUME NEW i \in Node, NEW t \in Thread, GiveUp(i, t) PROVE TypeOK'
    BY <1>5 DEF GiveUp, paxosVars, nodeVars, beatVars
<1>6. ASSUME NEW i \in Node, NEW t \in Thread, Suspect(i, t) PROVE TypeOK'
    <2>1. [Free EXCEPT !.pc = "propose"] \in ThreadState
          /\ [Free EXCEPT !.pc = "ended"] \in ThreadState
        BY FreeType DEF ThreadState
    <2>2. thread' \in [Node -> [Thread -> ThreadState]]
        BY <1>6, <2>1, ThreadType, Zenon DEF Suspect
    <2>3. instance' \in [Node -> Seqs] /\ recent' \in [Node -> BOOLEAN]
        BY <1>6, RaiseType DEF Suspect
    <2> QED BY <1>6, <2>2, <2>3 DEF Suspect, paxosVars, upVars, beatVars
<1>7. ASSUME NEW i \in Node, NEW j \in Node, Heartbeat(j, i) PROVE TypeOK'
    BY <1>7 DEF Heartbeat, paxosVars, upVars, nodeVars
<1>8. ASSUME NEW j \in Node, WorkerHeartbeat(j) PROVE TypeOK'
    BY <1>8 DEF WorkerHeartbeat, paxosVars, upVars, nodeVars
<1>9. ASSUME WorkerSuspects PROVE TypeOK'
    BY <1>9 DEF WorkerSuspects, paxosVars, upVars, nodeVars, beatVars
<1>10. ASSUME NEW i \in Node, RequestElection(i) PROVE TypeOK'
    <2>1. thread' \in [Node -> [Thread -> ThreadState]]
        <3>1. CASE UNCHANGED thread
            BY <3>1
        <3>2. ASSUME NEW t \in Thread, thread' = [thread EXCEPT ![i][t].pc = "propose"]
              PROVE  thread' \in [Node -> [Thread -> ThreadState]]
            <4>1. [thread[i][t] EXCEPT !.pc = "propose"] \in ThreadState
                BY OneThreadType, PlaceType, Zenon
            <4>2. thread' = [thread EXCEPT ![i][t] = [thread[i][t] EXCEPT !.pc = "propose"]]
                BY <3>2
            <4> QED BY <4>1, <4>2, ThreadType, Zenon
        <3> QED BY <1>10, <3>1, <3>2 DEF RequestElection
    <2>2. instance' \in [Node -> Seqs] /\ recent' \in [Node -> BOOLEAN]
        BY <1>10, RaiseType DEF RequestElection
    <2> QED BY <1>10, <2>1, <2>2 DEF RequestElection, paxosVars, upVars, beatVars
<1>11. ASSUME NEW i \in Node, WindowPasses(i) PROVE TypeOK'
    BY <1>11 DEF WindowPasses, paxosVars, upVars, beatVars
<1>12. ASSUME NEW i \in Node, KillCoord(i) PROVE TypeOK'
    BY <1>12 DEF KillCoord, paxosVars, nodeVars, beatVars
<1>13. ASSUME NEW i \in Node, CrashNode(i) PROVE TypeOK'
    BY <1>13 DEF CrashNode, paxosVars, nodeVars, beatVars
<1>14. CASE UNCHANGED vars
    BY <1>14 DEF vars, paxosVars, upVars, nodeVars, beatVars
<1> QED BY <1>1, <1>2, <1>3, <1>4, <1>5, <1>6, <1>7, <1>8, <1>9, <1>10, <1>11, <1>12,
           <1>13, <1>14 DEF Next, Coordinate, Beat, Request

\* The types hold in every reachable state.
THEOREM TypeCorrect == Spec => []TypeOK
<1>1. Init => TypeOK
    BY InitInv DEF IInv
<1> QED BY <1>1, NextType, PTL DEF Spec

\* A winner, once known, is known for good.
LEMMA DecidedStays ==
    ASSUME TypeOK, [Next]_vars, NEW i \in Node, NEW s \in Seqs, decided[i][s] # Nil
    PROVE  decided'[i][s] = decided[i][s]
<1>1. ASSUME NEW j \in Node, Decide(j) PROVE decided'[i][s] = decided[i][s]
    <2>1. PICK u \in Seqs, v \in Node : Paxos!Learn(j, u, v)
        BY <1>1 DEF Decide
    <2> QED BY <2>1 DEF Paxos!Learn, TypeOK
<1>2. CASE UNCHANGED decided
    BY <1>2
<1> QED BY <1>1, <1>2 DEF Next, Coordinate, Beat, Request, Propose, Paxos!Propose, TakeRole,
        StartLoops, GiveUp, Suspect, Heartbeat, WorkerHeartbeat, WorkerSuspects,
        RequestElection, WindowPasses, KillCoord, CrashNode, vars, paxosVars

\* The winners a step makes known contradict none.
LEMMA WinnersAgreeStep == TypeOK /\ WinnersAgree /\ [Next]_vars => WinnersAgree'
<1> SUFFICES ASSUME TypeOK, WinnersAgree, [Next]_vars PROVE WinnersAgree'
    OBVIOUS
<1>1. ASSUME NEW k \in Node, Decide(k) PROVE WinnersAgree'
    <2>1. PICK u \in Seqs, v \in Node : Paxos!Learn(k, u, v)
        BY <1>1 DEF Decide
    <2>2. \A j \in Node : decided'[j][u] \in {Nil, v}
        BY <2>1 DEF Paxos!Learn, TypeOK
    <2>3. \A j \in Node, s \in Seqs : s # u => decided'[j][s] = decided[j][s]
        BY <2>1 DEF Paxos!Learn, TypeOK
    <2> SUFFICES ASSUME NEW i \in Node, NEW j \in Node, NEW s \in Seqs
                 PROVE  decided'[i][s] = Nil \/ decided'[j][s] \in {Nil, decided'[i][s]}
        BY DEF WinnersAgree
    <2>4. CASE s = u
        BY <2>2, <2>4
    <2>5. CASE s # u
        BY <2>3, <2>5 DEF WinnersAgree
    <2> QED BY <2>4, <2>5
<1>2. CASE UNCHANGED decided
    BY <1>2 DEF WinnersAgree
<1> QED BY <1>1, <1>2 DEF Next, Coordinate, Beat, Request, Propose, Paxos!Propose, TakeRole,
        StartLoops, GiveUp, Suspect, Heartbeat, WorkerHeartbeat, WorkerSuspects,
        RequestElection, WindowPasses, KillCoord, CrashNode, vars, paxosVars

\* The places of a thread whose election is over.
Roles == {"candidates", "lead", "watch"}

\* A thread comes into a role only by the result of its election, and keeps it
\* until it gives it up.
LEMMA RoleStep ==
    ASSUME TypeOK, [Next]_vars, NEW i \in Node, NEW t \in Thread, thread'[i][t].pc \in Roles
    PROVE  \/ TakeRole(i, t)
           \/ /\ thread[i][t].pc \in Roles
              /\ thread'[i][t].seq = thread[i][t].seq
              /\ thread'[i][t].coord = thread[i][t].coord
              /\ thread'[i][t].pc = "watch" <=> thread[i][t].pc = "watch"
<1> DEFINE Stays == /\ thread[i][t].pc \in Roles
                    /\ thread'[i][t].seq = thread[i][t].seq
                    /\ thread'[i][t].coord = thread[i][t].coord
                    /\ thread'[i][t].pc = "watch" <=> thread[i][t].pc = "watch"
<1> USE DEF Roles
<1>1. thread[i][t] \in ThreadState
    BY OneThreadType
<1>2. ASSUME NEW j \in Node, NEW u \in Thread, Propose(j, u) PROVE Stays
    BY <1>1, <1>2 DEF Propose, Is, TypeOK, ThreadState
<1>3. ASSUME NEW j \in Node, NEW u \in Thread, TakeRole(j, u) PROVE TakeRole(i, t) \/ Stays
    BY <1>1, <1>3 DEF TakeRole, Is, TypeOK, ThreadState
<1>4. ASSUME NEW j \in Node, NEW u \in Thread, StartLoops(j, u) PROVE Stays
    BY <1>1, <1>4 DEF StartLoops, Is, TypeOK, ThreadState
<1>5. ASSUME NEW j \in Node, NEW u \in Thread, Suspect(j, u) PROVE Stays
    <2>1. PICK r \in {[Free EXCEPT !.pc = "propose"], [Free EXCEPT !.pc = "ended"]} :
              thread' = [thread EXCEPT ![j][u] = r]
        BY <1>5, Zenon DEF Suspect
    <2>2. r.pc \notin Roles
        BY DEF Free
    <2> QED BY <1>1, <2>1, <2>2 DEF TypeOK
<1>6. ASSUME NEW j \in Node, RequestElection(j) PROVE Stays
    <2>1. CASE UNCHANGED thread
        BY <2>1
    <2>2. ASSUME NEW u \in Thread, thread' = [thread EXCEPT ![j][u].pc = "propose"]
          PROVE  Stays
        BY <1>1, <2>2 DEF TypeOK, ThreadState
    <2> QED BY <1>6, <2>1, <2>2 DEF RequestElection
<1>7. CASE UNCHANGED thread
    BY <1>7
<1> QED BY <1>2, <1>3, <1>4, <1>5, <1>6, <1>7
        DEF Next, Coordinate, Beat, Request, Decide, GiveUp, Heartbeat, WorkerHeartbeat,
            WorkerSuspects, WindowPasses, KillCoord, CrashNode, vars

\* Roles stay what the elections decided.
LEMMA RolesDecidedStep == TypeOK /\ RolesDecided /\ [Next]_vars => RolesDecided'
<1> SUFFICES ASSUME TypeOK, RolesDecided, [Next]_vars,
                    NEW i \in Node, NEW t \in Thread, thread'[i][t].pc \in Roles
             PROVE  /\ thread'[i][t].coord = decided'[i][thread'[i][t].seq]
                    /\ thread'[i][t].coord # Nil
                    /\ thread'[i][t].pc = "watch" <=> thread'[i][t].coord # i
    BY DEF RolesDecided, Roles
<1>1. thread[i][t] \in ThreadState
    BY OneThreadType
<1>2. CASE TakeRole(i, t)
    BY <1>1, <1>2 DEF TakeRole, Is, Winner, Role, TypeOK, ThreadState, paxosVars
<1>3. CASE /\ thread[i][t].pc \in Roles
           /\ thread'[i][t].seq = thread[i][t].seq
           /\ thread'[i][t].coord = thread[i][t].coord
           /\ thread'[i][t].pc = "watch" <=> thread[i][t].pc = "watch"
    <2>1. thread[i][t].seq \in Seqs
        BY <1>1 DEF ThreadState
    <2>2. /\ thread[i][t].coord = decided[i][thread[i][t].seq]
          /\ thread[i][t].coord # Nil
          /\ thread[i][t].pc = "watch" <=> thread[i][t].coord # i
        BY <1>3 DEF RolesDecided, Roles
    <2>3. decided'[i][thread[i][t].seq] = decided[i][thread[i][t].seq]
        BY <2>1, <2>2, DecidedStays
    <2> QED BY <1>3, <2>2, <2>3
<1> QED BY <1>2, <1>3, RoleStep

\* The invariant holds in every reachable state.
THEOREM Invariance == Spec => []IInv
<1>1. IInv /\ [Next]_vars => IInv'
    BY NextType, WinnersAgreeStep, RolesDecidedStep DEF IInv
<1> QED BY <1>1, InitInv, PTL DEF Spec

\* A node that leads by an election has won it.
LEMMA ElectedWon ==
    ASSUME IInv, NEW i \in Node, NEW s \in Seqs, Elected(i, s)
    PROVE  decided[i][s] = i
    BY DEF IInv, RolesDecided, Elected

\* No two nodes lead by the same election.
THEOREM OneLeaderPerElectionCorrect == Spec => []OneLeaderPerElection
<1>1. IInv => OneLeaderPerElection
    <2> SUFFICES ASSUME IInv, NEW i \in Node, NEW j \in Node, NEW s \in Seqs,
                        Elected(i, s), Elected(j, s)
                 PROVE  i = j
        BY DEF OneLeaderPerElection
    <2>1. decided[i][s] = i /\ decided[j][s] = j
        BY ElectedWon
    <2> QED BY <2>1, NodeAssumption DEF IInv, WinnersAgree
<1> QED BY <1>1, Invariance, PTL

\* A node that follows in an election follows the node that leads by it.
THEOREM FollowersAgreeCorrect == Spec => []FollowersAgree
<1>1. IInv => FollowersAgree
    <2> SUFFICES ASSUME IInv, NEW i \in Node, NEW j \in Node, NEW t \in Thread,
                        thread[i][t].pc = "watch", Elected(j, thread[i][t].seq)
                 PROVE  thread[i][t].coord = j
        BY DEF FollowersAgree
    <2>1. thread[i][t].seq \in Seqs
        BY OneThreadType DEF IInv, ThreadState
    <2>2. decided[j][thread[i][t].seq] = j
        BY <2>1, ElectedWon
    <2>3. thread[i][t].coord = decided[i][thread[i][t].seq] /\ thread[i][t].coord # Nil
        BY DEF IInv, RolesDecided
    <2> QED BY <2>1, <2>2, <2>3, NodeAssumption DEF IInv, WinnersAgree
<1> QED BY <1>1, Invariance, PTL
=============================================================================
