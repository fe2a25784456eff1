---------------------------- MODULE TimelyProofs ----------------------------
(***************************************************************************)
(* Proofs about Election when heartbeats and elections are timely, for any *)
(* number of nodes, elections and failures: a node takes part in one       *)
(* election at a time, in order, and no second epoch loop starts before a  *)
(* coordinator has failed.                                                 *)
(*                                                                         *)
(* What is shown rests on one argument: a trigger is accepted only where   *)
(* no thread of the node elects.  After the first trigger that is what     *)
(* `recent' is for; before it, nobody can be triggered until the first     *)
(* election is over for all who wait for its result.                       *)
(***************************************************************************)
EXTENDS ElectionProofs

\* ElectionsInTurn, of one node.
InTurn(i) ==
    \A t, u \in Thread :
        /\ thread[i][t].pc \in {"poll", "candidates"} => thread[i][t].seq = instance[i]
        /\ Acted(i, t) => thread[i][t].seq <= instance[i]
        /\ instance[i] = 0 /\ t # 0 => thread[i][t].pc = "free"
        /\ t # u /\ Electing(i, t) =>
               ~Electing(i, u) /\ (Acted(i, u) => thread[i][u].seq < instance[i])
        /\ t # u /\ Acted(i, t) /\ Acted(i, u) => thread[i][t].seq # thread[i][u].seq

\* TriggersDistinct, of one node.
Idle(i) == \A t \in Thread : ~Electing(i, t)

Triggerable(i) == coordUp[i] /\ ~recent[i] /\ (instance[i] > 0 \/ i \in requests)

Inv == IInv /\ TimelyInv

LEMMA Integers ==
    ASSUME TypeOK, NEW i \in Node, NEW t \in Thread
    PROVE  /\ instance[i] \in Nat /\ thread[i][t].seq \in Nat
           /\ thread[i][t] \in ThreadState /\ 0 \in Thread /\ 0 \in Seqs
           /\ t \in Nat
<1>1. thread[i][t] \in ThreadState
  BY OneThreadType
<1>2. instance[i] \in Seqs /\ thread[i][t].seq \in Seqs
  BY <1>1 DEF TypeOK, ThreadState
<1> QED
  BY <1>1, <1>2, BoundsAssumption DEF Seqs, Thread

\* A step of one thread changes no other.
LEMMA OneMoves ==
    ASSUME TypeOK, NEW i \in Node, NEW t \in Thread, NEW r,
           thread' = [thread EXCEPT ![i][t] = r]
    PROVE  /\ thread'[i][t] = r
           /\ \A u \in Thread : u # t => thread'[i][u] = thread[i][u]
           /\ \A k \in Node : k # i => thread'[k] = thread[k]
BY DEF TypeOK

\* The threads of a node that does nothing stay in turn.
LEMMA InTurnStays ==
    ASSUME NEW k \in Node, InTurn(k), thread'[k] = thread[k], instance'[k] = instance[k]
    PROVE  InTurn(k)'
BY DEF InTurn, Electing, Acted

\* How a thread goes through its election.
Onward(old, new, current) ==
    \/ old.pc = "propose" /\ new.pc = "poll" /\ new.seq = current
    \/ old.pc = "poll" /\ new.pc \in {"candidates", "watch"} /\ new.seq = old.seq
    \/ old.pc = "candidates" /\ new.pc = "lead" /\ new.seq = old.seq
    \/ old.pc = "watch" /\ new.pc = "ended"

LEMMA InTurnOnward ==
    ASSUME TypeOK, NEW i \in Node, NEW t \in Thread, NEW r, InTurn(i),
           thread' = [thread EXCEPT ![i][t] = r], instance'[i] = instance[i],
           Onward(thread[i][t], r, instance[i])
    PROVE  /\ InTurn(i)'
           /\ \A u \in Thread : Electing(i, u)' => Electing(i, u)
<1>1. /\ thread'[i][t] = r
      /\ \A u \in Thread : u # t => thread'[i][u] = thread[i][u]
  BY DEF TypeOK
<1>2. \A u \in Thread : instance[i] \in Nat /\ thread[i][u].seq \in Nat
  BY Integers
<1>3. \A u \in Thread : Electing(i, u)' => Electing(i, u)
  BY <1>1 DEF Electing, Onward
<1>4. ASSUME NEW u \in Thread
      PROVE  /\ thread'[i][u].pc \in {"poll", "candidates"} => thread'[i][u].seq = instance[i]
             /\ Acted(i, u)' => thread'[i][u].seq <= instance[i]
             /\ instance[i] = 0 /\ u # 0 => thread'[i][u].pc = "free"
  BY <1>1, <1>2 DEF InTurn, Acted, Onward
<1>5. ASSUME NEW u \in Thread, NEW v \in Thread, u # v
      PROVE  /\ Electing(i, u)' =>
                    ~Electing(i, v)' /\ (Acted(i, v)' => thread'[i][v].seq < instance[i])
             /\ Acted(i, u)' /\ Acted(i, v)' => thread'[i][u].seq # thread'[i][v].seq
  <2>1. CASE u # t /\ v # t
    BY <1>1, <1>5, <2>1 DEF InTurn, Electing, Acted
  <2>2. CASE u = t
    BY <1>1, <1>2, <1>5, <2>2 DEF InTurn, Electing, Acted, Onward
  <2>3. CASE v = t
    BY <1>1, <1>2, <1>5, <2>3 DEF InTurn, Electing, Acted, Onward
  <2> QED
    BY <2>1, <2>2, <2>3
<1> QED
  BY <1>3, <1>4, <1>5 DEF InTurn

\* A node that is idle raises its instance, and one of its threads proposes.
LEMMA InTurnRaise ==
    ASSUME TypeOK, NEW i \in Node, NEW t \in Thread, NEW r, InTurn(i), Idle(i),
           thread' = [thread EXCEPT ![i][t] = r], r.pc = "propose", Raise(i)
    PROVE  InTurn(i)'
<1>1. /\ thread'[i][t] = r
      /\ \A u \in Thread : u # t => thread'[i][u] = thread[i][u]
  BY OneMoves, Zenon
<1>2. \A u \in Thread : instance[i] \in Nat /\ thread[i][u].seq \in Nat
  BY Integers
<1>3. instance'[i] = instance[i] + 1
  BY DEF Raise, TypeOK
<1> QED
  BY <1>1, <1>2, <1>3 DEF InTurn, Idle, Electing, Acted

-----------------------------------------------------------------------------
(* The steps *)

\* A thread goes on in its election, or ends.
OnwardStep(i, t, r) ==
    /\ thread' = [thread EXCEPT ![i][t] = r]
    /\ Onward(thread[i][t], r, instance[i])
    /\ UNCHANGED <<upVars, instance, recent, beatVars, requests>>

\* A coordinator that is idle raises its instance: its thread t has found its
\* leader silent, or is new, since a worker has asked for it.
RaiseStep(i, t, r) ==
    /\ thread' = [thread EXCEPT ![i][t] = r]
    /\ r.pc = "propose" /\ Raise(i)
    /\ coordUp[i] /\ ~recent[i] /\ Idle(i)
    /\ \/ thread[i][t].pc = "watch" /\ (Timely => ~Sends(thread[i][t].coord, i))
       \/ thread[i][t].pc = "free" /\ i \in requests
    /\ requests' \subseteq requests
    /\ UNCHANGED <<upVars, beatVars>>

\* Something else, which leaves threads and instances alone.
OtherStep ==
    \/ \E i \in Node :
          \/ Decide(i) \/ WindowPasses(i) \/ KillCoord(i) \/ CrashNode(i)
          \/ \E t \in Thread : GiveUp(i, t)
          \/ RequestElection(i) /\ UNCHANGED <<recent, instance, thread>>
    \/ Beat \/ WorkerSuspects \/ UNCHANGED vars

LEMMA SuspectRaises ==
    ASSUME IInv, ElectionsInTurn, TriggersDistinct, NEW i \in Node, NEW t \in Thread,
           Suspect(i, t)
    PROVE  \E r \in ThreadState : OnwardStep(i, t, r) \/ RaiseStep(i, t, r)
<1>1. /\ thread[i][t].pc = "watch" /\ coordUp[i]
      /\ Timely => ~Sends(thread[i][t].coord, i)
      /\ UNCHANGED <<upVars, beatVars, requests>>
  BY DEF Suspect, Is
<1>2. CASE /\ MayTrigger(i) /\ Raise(i)
           /\ thread' = [thread EXCEPT ![i][t] = [Free EXCEPT !.pc = "propose"]]
  <2>1. [Free EXCEPT !.pc = "propose"] \in ThreadState
        /\ [Free EXCEPT !.pc = "propose"].pc = "propose"
    BY FreeType DEF Free, ThreadState
  <2>2. ~recent[i] /\ instance[i] \in Nat
    BY <1>2, Integers DEF MayTrigger, IInv
  <2>3. CASE instance[i] > 0
    BY <1>1, <1>2, <2>1, <2>2, <2>3 DEF TriggersDistinct, RaiseStep, Idle
  <2>4. CASE instance[i] = 0
    <3>1. \A u \in Thread : u # t => thread[i][u].pc = "free"
      BY <1>1, <2>4 DEF ElectionsInTurn
    <3>2. Idle(i)
      BY <1>1, <3>1 DEF Idle, Electing
    <3> QED
      BY <1>1, <1>2, <2>1, <2>2, <3>2 DEF RaiseStep
  <2> QED
    BY <2>2, <2>3, <2>4
<1>3. CASE /\ UNCHANGED <<recent, instance>>
           /\ thread' = [thread EXCEPT ![i][t] = [Free EXCEPT !.pc = "ended"]]
  <2>1. [Free EXCEPT !.pc = "ended"] \in ThreadState
        /\ [Free EXCEPT !.pc = "ended"].pc = "ended"
    BY FreeType DEF Free, ThreadState
  <2> QED
    BY <1>1, <1>3, <2>1 DEF OnwardStep, Onward
<1> QED
  BY <1>2, <1>3 DEF Suspect

LEMMA RequestRaises ==
    ASSUME IInv, TriggersDistinct, NEW i \in Node, RequestElection(i)
    PROVE  OtherStep \/ \E t \in Thread, r \in ThreadState : RaiseStep(i, t, r)
<1>1. CASE UNCHANGED <<recent, instance, thread>>
  BY <1>1 DEF OtherStep
<1>2. ASSUME coordUp[i], MayTrigger(i), Raise(i),
             NEW t \in Thread, thread[i][t].pc = "free",
             thread' = [thread EXCEPT ![i][t].pc = "propose"]
      PROVE  \E r \in ThreadState : RaiseStep(i, t, r)
  <2> DEFINE r == [thread[i][t] EXCEPT !.pc = "propose"]
  <2>1. r \in ThreadState /\ r.pc = "propose"
    BY OneThreadType DEF IInv, ThreadState
  <2>2. thread' = [thread EXCEPT ![i][t] = r]
    BY <1>2
  <2>3. Idle(i) /\ ~recent[i] /\ i \in requests /\ requests' \subseteq requests
    BY <1>2 DEF TriggersDistinct, Idle, MayTrigger, RequestElection
  <2>4. UNCHANGED <<upVars, beatVars>>
    BY DEF RequestElection
  <2> QED
    BY <1>2, <2>1, <2>2, <2>3, <2>4 DEF RaiseStep
<1> QED
  BY <1>1, <1>2 DEF RequestElection

\* Every step is one of the three.
LEMMA Steps ==
    ASSUME IInv, ElectionsInTurn, TriggersDistinct, [Next]_vars
    PROVE  OtherStep \/ \E i \in Node, t \in Thread, r \in ThreadState :
                            OnwardStep(i, t, r) \/ RaiseStep(i, t, r)
<1>1. ASSUME NEW i \in Node, NEW t \in Thread, Propose(i, t)
      PROVE  \E r \in ThreadState : OnwardStep(i, t, r)
  <2> DEFINE r == [thread[i][t] EXCEPT !.pc = "poll", !.seq = instance[i]]
  <2>1. thread[i][t] \in ThreadState /\ thread[i][t].pc = "propose"
    BY <1>1, OneThreadType DEF IInv, Propose, Is
  <2>2. r \in ThreadState /\ r.pc = "poll" /\ r.seq = instance[i]
    BY <2>1 DEF IInv, TypeOK, ThreadState
  <2>3. thread' = [thread EXCEPT ![i][t] = r]
    BY <1>1, Zenon DEF Propose, ElectionSeq
  <2> QED
    BY <1>1, <2>1, <2>2, <2>3 DEF Propose, OnwardStep, Onward, nodeVars
<1>2. ASSUME NEW i \in Node, NEW t \in Thread, TakeRole(i, t)
      PROVE  \E r \in ThreadState : OnwardStep(i, t, r)
  <2> DEFINE w == Winner(i, t)
             r == [thread[i][t] EXCEPT !.pc = Role(i, w), !.coord = w]
  <2>1. thread[i][t] \in ThreadState /\ thread[i][t].pc = "poll"
    BY <1>2, OneThreadType DEF IInv, TakeRole, Is
  <2>2. w \in Node \cup {Nil} /\ Role(i, w) \in {"candidates", "watch"}
    BY <2>1 DEF Winner, Role, IInv, TypeOK, ThreadState
  <2>3. r \in ThreadState /\ r.pc = Role(i, w) /\ r.seq = thread[i][t].seq
    BY <2>1, <2>2 DEF ThreadState
  <2>4. thread' = [thread EXCEPT ![i][t] = r]
    BY <1>2, Zenon DEF TakeRole
  <2> HIDE DEF r, w
  <2> QED
    BY <1>2, <2>1, <2>2, <2>3, <2>4 DEF TakeRole, OnwardStep, Onward
<1>3. ASSUME NEW i \in Node, NEW t \in Thread, StartLoops(i, t)
      PROVE  \E r \in ThreadState : OnwardStep(i, t, r)
  <2> DEFINE r == [thread[i][t] EXCEPT !.pc = "lead"]
  <2>1. thread[i][t] \in ThreadState /\ thread[i][t].pc = "candidates"
    BY <1>3, OneThreadType DEF IInv, StartLoops, Is
  <2>2. r \in ThreadState /\ r.pc = "lead" /\ r.seq = thread[i][t].seq
    BY <2>1 DEF ThreadState
  <2>3. thread' = [thread EXCEPT ![i][t] = r]
    BY <1>3 DEF StartLoops
  <2> QED
    BY <1>3, <2>1, <2>2, <2>3 DEF StartLoops, OnwardStep, Onward, nodeVars
<1> QED
  BY <1>1, <1>2, <1>3, SuspectRaises, RequestRaises
     DEF Next, Coordinate, Request, OtherStep


-----------------------------------------------------------------------------
(* Elections in turn *)

LEMMA OtherLeaves ==
    ASSUME OtherStep
    PROVE  UNCHANGED <<thread, instance>>
BY DEF OtherStep, Beat, Decide, WindowPasses, KillCoord, CrashNode, GiveUp, Heartbeat,
       WorkerHeartbeat, WorkerSuspects, RequestElection, vars, nodeVars, upVars

LEMMA InTurnStep ==
    ASSUME IInv, ElectionsInTurn, TriggersDistinct, [Next]_vars
    PROVE  ElectionsInTurn'
<1>1. \A k \in Node : InTurn(k)
  BY DEF ElectionsInTurn, InTurn
<1>2. TypeOK
  BY DEF IInv
<1>3. SUFFICES ASSUME NEW k \in Node PROVE InTurn(k)'
  BY DEF ElectionsInTurn, InTurn, Electing, Acted
<1>4. CASE OtherStep
  BY <1>1, <1>4, OtherLeaves, InTurnStays
<1>5. ASSUME NEW i \in Node, NEW t \in Thread, NEW r \in ThreadState, OnwardStep(i, t, r)
      PROVE  InTurn(k)'
  <2>1. CASE k = i
    BY <1>1, <1>2, <1>5, <2>1, InTurnOnward DEF OnwardStep
  <2>2. CASE k # i
    BY <1>1, <1>2, <1>5, <2>2, InTurnStays DEF OnwardStep, TypeOK
  <2> QED
    BY <2>1, <2>2
<1>6. ASSUME NEW i \in Node, NEW t \in Thread, NEW r \in ThreadState, RaiseStep(i, t, r)
      PROVE  InTurn(k)'
  <2>1. CASE k = i
    BY <1>1, <1>2, <1>6, <2>1, InTurnRaise DEF RaiseStep
  <2>2. CASE k # i
    <3>1. thread'[k] = thread[k] /\ instance'[k] = instance[k]
      BY <1>2, <1>6, <2>2 DEF RaiseStep, Raise, TypeOK
    <3> QED
      BY <1>1, <3>1, InTurnStays
  <2> QED
    BY <2>1, <2>2
<1> QED
  BY <1>4, <1>5, <1>6, Steps

-----------------------------------------------------------------------------
(* The first election *)

\* A leader leads for good.
LEMMA LeadStays ==
    ASSUME IInv, ElectionsInTurn, TriggersDistinct, [Next]_vars,
           NEW i \in Node, NEW t \in Thread, thread[i][t].pc = "lead"
    PROVE  thread'[i][t] = thread[i][t]
<1>1. CASE OtherStep
  BY <1>1, OtherLeaves
<1>2. ASSUME NEW j \in Node, NEW u \in Thread, NEW r \in ThreadState,
             OnwardStep(j, u, r) \/ RaiseStep(j, u, r)
      PROVE  thread'[i][t] = thread[i][t]
  <2>1. thread[j][u].pc # "lead" /\ thread' = [thread EXCEPT ![j][u] = r]
    BY <1>2 DEF OnwardStep, Onward, RaiseStep
  <2> QED
    BY <2>1 DEF IInv, TypeOK
<1> QED
  BY <1>1, <1>2, Steps

LEMMA NodesStayDown ==
    ASSUME IInv, [Next]_vars, NEW i \in Node
    PROVE  /\ nodeUp'[i] => nodeUp[i]
           /\ coordUp'[i] => coordUp[i]
BY DEF Next, Coordinate, Beat, Request, Decide, Propose, TakeRole, StartLoops, GiveUp, Suspect,
       Heartbeat, WorkerHeartbeat, WorkerSuspects, RequestElection, WindowPasses, KillCoord,
       CrashNode, vars, upVars, IInv, TypeOK

LEMMA FirstStaysOver ==
    ASSUME IInv, ElectionsInTurn, TriggersDistinct, [Next]_vars, FirstOver
    PROVE  FirstOver'
<1>1. PICK c \in Node :
        /\ \E k \in Node : decided[k][0] = c
        /\ nodeUp[c] => \E u \in Thread : thread[c][u].pc = "lead" /\ thread[c][u].seq = 0
  BY DEF FirstOver
<1>2. PICK k \in Node : decided[k][0] = c
  BY <1>1
<1>3. decided'[k][0] = c
  BY <1>2, DecidedStays, NodeAssumption, BoundsAssumption DEF IInv, Seqs
<1>4. nodeUp'[c] => \E u \in Thread : thread'[c][u].pc = "lead" /\ thread'[c][u].seq = 0
  BY <1>1, LeadStays, NodesStayDown
<1> QED
  BY <1>3, <1>4 DEF FirstOver

\* Nobody leads or raises an instance before the first election is over.
LEMMA FirstStep ==
    ASSUME Timely, Inv, [Next]_vars,
           SomeLeader' \/ \E i \in Node : instance'[i] > 0
    PROVE  FirstOver'
<1> USE DEF Inv, TimelyInv
<1>1. CASE SomeLeader \/ \E i \in Node : instance[i] > 0
  BY <1>1, FirstStaysOver DEF FirstElection
<1>2. CASE ~SomeLeader /\ \A i \in Node : ~(instance[i] > 0)
  <2>1. \A i \in Node : instance[i] = 0
    BY <1>2, BoundsAssumption DEF IInv, TypeOK, Seqs
  <2>2. CASE OtherStep
    BY <1>2, <2>2, OtherLeaves DEF SomeLeader
  <2>3. ASSUME NEW i \in Node, NEW t \in Thread, NEW r \in ThreadState, OnwardStep(i, t, r)
        PROVE  FirstOver'
    <3>1. thread[i][t].pc = "candidates" /\ r.pc = "lead" /\ r.seq = thread[i][t].seq
      <4>1. \A k \in Node, u \in Thread : thread[k][u].pc # "lead"
        BY <1>2 DEF SomeLeader
      <4>2. SomeLeader'
        BY <1>2, <2>3 DEF OnwardStep
      <4>3. PICK k \in Node, u \in Thread : thread'[k][u].pc = "lead"
        BY <4>2 DEF SomeLeader
      <4>4. k = i /\ u = t /\ r.pc = "lead"
        BY <2>3, <4>1, <4>3 DEF OnwardStep, IInv, TypeOK
      <4> QED
        BY <2>3, <4>4 DEF OnwardStep, Onward
    <3>2. thread[i][t].seq = 0
      BY <2>1, <3>1 DEF ElectionsInTurn
    <3>3. decided[i][0] = i
      BY <3>1, <3>2 DEF IInv, RolesDecided
    <3>4. decided'[i][0] = i
      BY <3>3, DecidedStays, NodeAssumption, BoundsAssumption DEF IInv, Seqs
    <3>5. thread'[i][t] = r
      BY <2>3 DEF OnwardStep, IInv, TypeOK
    <3> QED
      BY <3>1, <3>2, <3>4, <3>5 DEF FirstOver
  <2>4. ASSUME NEW i \in Node, NEW t \in Thread, NEW r \in ThreadState, RaiseStep(i, t, r)
        PROVE  FirstOver'
    <3>1. requests = {}
      BY <1>2 DEF FirstElection
    <3>2. /\ thread[i][t].pc = "watch" /\ ~Sends(thread[i][t].coord, i)
          /\ UNCHANGED upVars
      BY <2>4, <3>1 DEF RaiseStep
    <3>3. thread[i][t].seq = 0
      BY <2>1, <3>2, Integers DEF ElectionsInTurn, Acted, IInv
    <3>4. thread[i][t].coord = decided[i][0] /\ thread[i][t].coord # Nil
      BY <3>2, <3>3 DEF IInv, RolesDecided
    <3>5. PICK c \in Node : c = thread[i][t].coord
      BY <3>4, OneThreadType DEF IInv, ThreadState
    <3>6. decided'[i][0] = c
      BY <3>4, <3>5, DecidedStays, BoundsAssumption DEF IInv, Seqs
    <3>7. ~nodeUp'[c]
      BY <3>2, <3>5 DEF Sends, upVars
    <3> QED
      BY <3>6, <3>7 DEF FirstOver
  <2> QED
    BY <2>2, <2>3, <2>4, Steps
<1> QED
  BY <1>1, <1>2


\* What a worker hears, or asks for, tells of a leader.
LEMMA HearsayStep ==
    ASSUME Inv, [Next]_vars, workerHeard' # {} \/ requests' # {}
    PROVE  SomeLeader'
<1> USE DEF Inv, TimelyInv
<1>1. SomeLeader => SomeLeader'
  BY LeadStays DEF SomeLeader
<1>2. CASE workerHeard # {} \/ requests # {}
  BY <1>1, <1>2 DEF FirstElection
<1>3. CASE workerHeard = {} /\ requests = {}
  <2>1. ASSUME NEW j \in Node, WorkerHeartbeat(j) PROVE SomeLeader
    BY <2>1 DEF WorkerHeartbeat, SentToWorker, Leading, Is, SomeLeader
  <2>2. ~WorkerSuspects
    BY <1>3 DEF WorkerSuspects
  <2>3. CASE workerHeard' = {}
    <3>1. requests' = {}
      BY <1>3, <2>2 DEF Next, Coordinate, Beat, Request, Decide, Propose, TakeRole, StartLoops,
            GiveUp, Suspect, Heartbeat, WorkerHeartbeat, RequestElection, WindowPasses,
            KillCoord, CrashNode, vars
    <3> QED
      BY <2>3, <3>1
  <2>4. CASE workerHeard' # {}
    <3>1. \E j \in Node : WorkerHeartbeat(j)
      BY <1>3, <2>2, <2>4 DEF Next, Coordinate, Beat, Request, Decide, Propose, TakeRole,
            StartLoops, GiveUp, Suspect, Heartbeat, RequestElection, WindowPasses,
            KillCoord, CrashNode, vars, beatVars
    <3> QED
      BY <1>1, <2>1, <3>1
  <2> QED
    BY <2>3, <2>4
<1> QED
  BY <1>2, <1>3

LEMMA RunningStep ==
    ASSUME IInv, FirstElection, [Next]_vars, NEW i \in Node, coordUp'[i]
    PROVE  nodeUp'[i]
<1>1. coordUp[i] /\ nodeUp[i]
  BY NodesStayDown DEF FirstElection
<1> QED
  BY <1>1 DEF Next, Coordinate, Beat, Request, Decide, Propose, TakeRole, StartLoops, GiveUp,
       Suspect, Heartbeat, WorkerHeartbeat, WorkerSuspects, RequestElection, WindowPasses,
       KillCoord, CrashNode, vars, upVars, IInv, TypeOK

LEMMA FirstElectionStep ==
    ASSUME Timely, Inv, [Next]_vars
    PROVE  FirstElection'
<1>1. SomeLeader' \/ (\E i \in Node : instance'[i] > 0) => FirstOver'
  BY FirstStep
<1>2. workerHeard' # {} \/ requests' # {} => SomeLeader'
  BY HearsayStep
<1>3. \A i \in Node : coordUp'[i] => nodeUp'[i]
  BY RunningStep DEF Inv, TimelyInv
<1> QED
  BY <1>1, <1>2, <1>3 DEF FirstElection

-----------------------------------------------------------------------------
(* Triggers *)

\* When a worker asks, nobody still takes part in the first election.
LEMMA SuspectedAfterFirst ==
    ASSUME Timely, Inv, WorkerSuspects, NEW i \in Node, coordUp[i], instance[i] = 0
    PROVE  Idle(i)
<1> USE DEF Inv, TimelyInv
<1>1. SomeLeader /\ Concluded
  BY DEF WorkerSuspects, FirstElection
<1>2. PICK j \in Node, u \in Thread : thread[j][u].pc = "lead"
  BY <1>1 DEF SomeLeader
<1>3. thread[j][u].seq \in Nat
  BY <1>2, Integers DEF IInv
<1>4. SUFFICES ASSUME NEW t \in Thread, Electing(i, t) PROVE FALSE
  BY DEF Idle
<1>5. CASE thread[i][t].pc = "propose"
  <2>1. thread[j][u].seq < instance[i]
    BY <1>1, <1>2, <1>5 DEF Concluded, Is
  <2> QED
    BY <1>3, <2>1
<1>6. CASE thread[i][t].pc = "poll"
  <2>1. thread[j][u].seq < thread[i][t].seq /\ thread[i][t].seq = 0
    BY <1>1, <1>2, <1>6 DEF Concluded, Is, ElectionsInTurn
  <2> QED
    BY <1>3, <2>1
<1>7. CASE thread[i][t].pc = "candidates"
  <2>1. PICK c \in Node :
          /\ \E k \in Node : decided[k][0] = c
          /\ nodeUp[c] => \E v \in Thread : thread[c][v].pc = "lead" /\ thread[c][v].seq = 0
    BY <1>1 DEF FirstElection, FirstOver
  <2>2. decided[i][0] = i
    BY <1>7 DEF ElectionsInTurn, IInv, RolesDecided
  <2>3. c = i
    BY <2>1, <2>2, NodeAssumption, BoundsAssumption DEF IInv, WinnersAgree, Seqs
  <2>4. PICK v \in Thread : thread[i][v].pc = "lead"
    BY <2>1, <2>3 DEF FirstElection
  <2>5. t # 0 => thread[i][t].pc = "free"
    BY DEF ElectionsInTurn
  <2>6. v # 0 => thread[i][v].pc = "free"
    BY DEF ElectionsInTurn
  <2> QED
    BY <1>7, <2>4, <2>5, <2>6
<1> QED
  BY <1>4, <1>5, <1>6, <1>7 DEF Electing

LEMMA TriggersStep ==
    ASSUME Timely, Inv, [Next]_vars
    PROVE  TriggersDistinct'
<1> USE DEF Inv, TimelyInv
<1>1. SUFFICES ASSUME NEW i \in Node, Triggerable(i)' PROVE Idle(i)'
  BY DEF TriggersDistinct, Triggerable, Idle
<1>2. coordUp[i]
  BY <1>1, NodesStayDown DEF Triggerable
<1>3. Triggerable(i) => Idle(i)
  BY DEF TriggersDistinct, Triggerable, Idle
<1>4. ASSUME NEW j \in Node, NEW t \in Thread, NEW r \in ThreadState, OnwardStep(j, t, r)
      PROVE  Idle(i)'
  <2>1. Idle(i)
    BY <1>1, <1>2, <1>3, <1>4 DEF Triggerable, OnwardStep
  <2>2. \A u \in Thread : Electing(i, u)' => Electing(i, u)
    BY <1>4 DEF OnwardStep, Onward, Electing, IInv, TypeOK
  <2> QED
    BY <2>1, <2>2 DEF Idle
<1>5. ASSUME NEW j \in Node, NEW t \in Thread, NEW r \in ThreadState, RaiseStep(j, t, r)
      PROVE  Idle(i)'
  <2>1. recent'[j] = TRUE /\ i # j
    BY <1>1, <1>5 DEF RaiseStep, Raise, Triggerable, IInv, TypeOK
  <2>2. /\ recent'[i] = recent[i] /\ instance'[i] = instance[i] /\ thread'[i] = thread[i]
        /\ requests' \subseteq requests
    BY <1>5, <2>1 DEF RaiseStep, Raise, IInv, TypeOK
  <2>3. Idle(i)
    BY <1>1, <1>2, <1>3, <2>2 DEF Triggerable
  <2> QED
    BY <2>2, <2>3 DEF Idle, Electing
<1>6. CASE OtherStep
  <2>1. UNCHANGED <<thread, instance>>
    BY <1>6, OtherLeaves
  <2>2. SUFFICES Idle(i)
    BY <2>1 DEF Idle, Electing
  <2>3. CASE WorkerSuspects
    <3>1. CASE instance[i] = 0
      BY <1>2, <2>3, <3>1, SuspectedAfterFirst
    <3>2. CASE instance[i] # 0
      BY <1>1, <1>2, <1>3, <2>1, <2>3, <3>2, BoundsAssumption
         DEF Triggerable, WorkerSuspects, nodeVars, TypeOK, IInv, Seqs
    <3> QED
      BY <3>1, <3>2
  <2>4. ASSUME NEW j \in Node, WindowPasses(j)
        PROVE  Idle(i)
    BY <1>2, <2>4 DEF WindowPasses, Settled, Idle, Electing
  <2>5. CASE recent' = recent /\ requests' \subseteq requests
    BY <1>1, <1>2, <1>3, <2>1, <2>5 DEF Triggerable
  <2> QED
    BY <1>6, <2>3, <2>4, <2>5 DEF OtherStep, Beat, Decide, KillCoord, CrashNode, GiveUp,
       Heartbeat, WorkerHeartbeat, RequestElection, vars, nodeVars
<1> QED
  BY <1>4, <1>5, <1>6, Steps


-----------------------------------------------------------------------------
(* Before a coordinator has failed *)

LEMMA NothingRaisedStep ==
    ASSUME Timely, Inv, [Next]_vars
    PROVE  NothingRaised'
<1> USE DEF Inv, TimelyInv
<1> SUFFICES ASSUME \A i \in Node : coordUp'[i]
             PROVE  /\ requests' = {}
                    /\ \A i \in Node : instance'[i] = 0
                    /\ \A j \in workerHeard' : SentToWorker(j)'
  BY DEF NothingRaised
<1>1. /\ \A i \in Node : coordUp[i] /\ nodeUp[i] /\ instance[i] = 0
      /\ requests = {}
      /\ \A j \in workerHeard : SentToWorker(j)
  BY NodesStayDown DEF NothingRaised, FirstElection
<1>2. ~WorkerSuspects
  BY <1>1 DEF WorkerSuspects
<1>3. ASSUME NEW i \in Node, NEW t \in Thread, NEW r \in ThreadState PROVE ~RaiseStep(i, t, r)
  <2>1. SUFFICES ASSUME RaiseStep(i, t, r) PROVE FALSE
    OBVIOUS
  <2>2. thread[i][t].pc = "watch" /\ ~Sends(thread[i][t].coord, i)
    BY <1>1, <2>1 DEF RaiseStep
  <2>3. thread[i][t].coord \in Node
    BY <2>2, OneThreadType DEF IInv, RolesDecided, ThreadState
  <2> QED
    BY <1>1, <2>2, <2>3 DEF Sends
<1>4. ASSUME NEW j \in Node, SentToWorker(j) PROVE SentToWorker(j)'
  <2>1. PICK i \in Node \ {j}, t \in Thread : thread[i][t].pc = "lead"
    BY <1>4 DEF SentToWorker, Leading, Is
  <2>2. thread'[i][t].pc = "lead"
    BY <2>1, LeadStays
  <2> QED
    BY <2>1, <2>2 DEF SentToWorker, Leading, Is
<1>5. requests' = {} /\ \A i \in Node : instance'[i] = 0
  <2>1. CASE OtherStep
    <3>1. UNCHANGED instance
      BY <2>1, OtherLeaves
    <3>2. requests' = {}
      BY <1>1, <1>2, <2>1 DEF OtherStep, Beat, Decide, WindowPasses, KillCoord, CrashNode, GiveUp,
         Heartbeat, WorkerHeartbeat, RequestElection, vars
    <3> QED
      BY <1>1, <3>1, <3>2
  <2>2. ASSUME NEW i \in Node, NEW t \in Thread, NEW r \in ThreadState, OnwardStep(i, t, r)
        PROVE  requests' = {} /\ \A k \in Node : instance'[k] = 0
    BY <1>1, <2>2 DEF OnwardStep
  <2> QED
    BY <1>3, <2>1, <2>2, Steps
<1>6. ASSUME NEW j \in workerHeard' PROVE SentToWorker(j)'
  <2>1. workerHeard \subseteq Node
    BY DEF IInv, TypeOK
  <2>2. CASE j \in workerHeard
    BY <1>1, <1>4, <2>1, <2>2
  <2>3. CASE j \notin workerHeard
    <3>1. WorkerHeartbeat(j) /\ j \in Node
      BY <1>6, <2>3 DEF Next, Coordinate, Beat, Request, Decide, Propose, TakeRole,
            StartLoops, GiveUp, Suspect, Heartbeat, WorkerHeartbeat, WorkerSuspects,
            RequestElection, WindowPasses, KillCoord, CrashNode, vars, beatVars
    <3> QED
      BY <1>4, <3>1 DEF WorkerHeartbeat
  <2> QED
    BY <2>2, <2>3
<1> QED
  BY <1>5, <1>6

-----------------------------------------------------------------------------
(* The theorems *)

LEMMA TimelyInit ==
    ASSUME Init
    PROVE  TimelyInv
<1> USE DEF Init, Free
<1>1. ElectionsInTurn
  BY DEF ElectionsInTurn, Electing, Acted
<1>2. TriggersDistinct
  BY DEF TriggersDistinct
<1>3. FirstElection
  BY DEF FirstElection, SomeLeader
<1>4. NothingRaised
  BY DEF NothingRaised
<1> QED
  BY <1>1, <1>2, <1>3, <1>4 DEF TimelyInv

\* Where heartbeats and elections are timely, elections take place in turn,
\* triggers do not meet them, and before a coordinator fails there is but one.
THEOREM TimelyInvCorrect ==
    ASSUME Timely
    PROVE  Spec => []TimelyInv
<1>1. Init => Inv
  BY InitInv, TimelyInit DEF Inv
<1>2. Inv /\ [Next]_vars => Inv'
  <2> SUFFICES ASSUME Inv, [Next]_vars PROVE Inv'
    OBVIOUS
  <2>1. IInv'
    BY NextType, WinnersAgreeStep, RolesDecidedStep DEF Inv, IInv
  <2>2. ElectionsInTurn'
    BY InTurnStep DEF Inv, TimelyInv
  <2> QED
    BY <2>1, <2>2, TriggersStep, FirstElectionStep, NothingRaisedStep DEF Inv, TimelyInv
<1>3. Inv => TimelyInv
  BY DEF Inv
<1> QED
  BY <1>1, <1>2, <1>3, PTL DEF Spec

\* No two threads that run, not even of one node, lead by the same election.
THEOREM OneThreadPerElectionCorrect ==
    ASSUME Timely
    PROVE  Spec => []OneThreadPerElection
<1>1. IInv /\ OneLeaderPerElection /\ TimelyInv => OneThreadPerElection
  <2> SUFFICES ASSUME IInv, OneLeaderPerElection, ElectionsInTurn,
                      NEW i \in Node, NEW j \in Node, NEW t \in Thread, NEW u \in Thread,
                      thread[i][t].pc = "lead", thread[j][u].pc = "lead",
                      thread[i][t].seq = thread[j][u].seq
               PROVE  i = j /\ t = u
    BY DEF OneThreadPerElection, TimelyInv, Is
  <2>1. thread[i][t].seq \in Seqs
    BY OneThreadType DEF IInv, ThreadState
  <2>2. i = j
    BY <2>1 DEF OneLeaderPerElection, Elected
  <2> QED
    BY <2>2 DEF ElectionsInTurn, Acted
<1> QED
  BY <1>1, Invariance, OneLeaderPerElectionCorrect, TimelyInvCorrect, PTL

\* Until a coordinator fails, one epoch loop runs in the cluster.
THEOREM OneEpochLoopCorrect ==
    ASSUME Timely
    PROVE  Spec => []OneEpochLoop
<1>1. IInv /\ OneLeaderPerElection /\ TimelyInv => OneEpochLoop
  <2> SUFFICES ASSUME IInv, OneLeaderPerElection, TimelyInv, \A i \in Node : coordUp[i],
                      NEW i \in Node, NEW j \in Node, NEW t \in Thread, NEW u \in Thread,
                      thread[i][t].pc = "lead", thread[j][u].pc = "lead"
               PROVE  i = j /\ t = u
    BY DEF OneEpochLoop, Is
  <2>1. instance[i] = 0 /\ instance[j] = 0
    BY DEF TimelyInv, NothingRaised
  <2>2. t = 0 /\ u = 0
    BY <2>1 DEF TimelyInv, ElectionsInTurn
  <2>3. thread[i][t].seq <= 0 /\ thread[j][u].seq <= 0
    BY <2>1 DEF TimelyInv, ElectionsInTurn, Acted
  <2>4. thread[i][t].seq = 0 /\ thread[j][u].seq = 0
    BY <2>3, Integers DEF IInv
  <2>5. i = j
    BY <2>4, BoundsAssumption DEF OneLeaderPerElection, Elected, Seqs
  <2> QED
    BY <2>2, <2>5
<1> QED
  BY <1>1, Invariance, OneLeaderPerElectionCorrect, TimelyInvCorrect, PTL

\* The result of an election is not acted on after that of a later one.
THEOREM NoStaleResultCorrect ==
    ASSUME Timely
    PROVE  Spec => NoStaleResult
<1> DEFINE A == \A i \in Node, t, u \in Thread :
                    /\ thread[i][t].pc = "poll" /\ thread'[i][t].pc \in {"candidates", "watch"}
                    /\ thread[i][u].pc \in {"candidates", "lead", "watch"}
                    => thread[i][u].seq <= thread[i][t].seq
<1>1. TimelyInv /\ [Next]_vars => [A]_vars
  BY DEF TimelyInv, ElectionsInTurn, Acted
<1> HIDE DEF A
<1>2. Spec => [][A]_vars
  BY <1>1, TimelyInvCorrect, PTL DEF Spec
<1> QED
  BY <1>2 DEF NoStaleResult, A

=============================================================================
