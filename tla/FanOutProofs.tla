---------------------------- MODULE FanOutProofs ----------------------------
(***************************************************************************)
(* What is written after a round is one gradient of every worker, computed *)
(* in that round at the parameters that are still the latest, for any      *)
(* number of nodes, rounds, failures and calls that hang.                  *)
(*                                                                         *)
(* The invariant is proved for the stores, the workers and the loop apart: *)
(* what a step of one leaves unchanged it preserves at once.               *)
(***************************************************************************)
EXTENDS FanOutInv, TLAPS

StoreType ==
    /\ size \in Sizes
    /\ store \in [Node -> {"off", "push", "made"}]
    /\ replica \in [Node -> (SUBSET Row) \cup {NoShard}]

WorkerType ==
    /\ worker \in [Node -> {"starting", "ready", "dead"}]
    /\ sidecar \in [Node -> {"empty", "loaded", "hung", "down"}]

FaultsType == faults \in 0 .. MaxFaults

LoopType ==
    /\ phase \in {"follower", "fetch", "collect", "write", "evaluate", "done"}
    /\ round \in 0 .. MaxRounds /\ epoch \in 0 .. MaxEpochs
    /\ Len(model) \in 0 .. MaxRounds
    /\ given \in [Round -> Nat]
    /\ pending \subseteq Round \X Node
    /\ results \subseteq Result /\ collected \subseteq Result
    /\ failed \subseteq Node /\ evaluating \subseteq Node

\* The model is a sequence, of whatever updates.
Modelled == \E S : model \in Seq(S)

LoopInv == LoopType /\ Modelled /\ AnswersInv /\ CollectInv /\ CountInv

Inv == IInv /\ Modelled

LEMMA Parts == Inv <=> StoreType /\ WorkerType /\ FaultsType /\ LoopInv
BY DEF Inv, IInv, TypeOK, StoreType, WorkerType, FaultsType, LoopType, LoopInv

LEMMA Constants ==
    /\ N \in Nat \ {0} /\ Me \in Node /\ MaxFaults \in Nat
    /\ MaxRounds \in Nat /\ MaxEpochs \in Nat \ {0}
BY NAssumption, MeAssumption, MaxFaultsAssumption, RoundsAssumption

-----------------------------------------------------------------------------
(* The stores *)

LEMMA StoresStay ==
    ASSUME StoreType, UNCHANGED storeVars
    PROVE  StoreType'
BY DEF StoreType, storeVars, Row

LEMMA StoreStep ==
    ASSUME StoreType, NEW n \in Node, MakeStore(n)
    PROVE  StoreType'
<1>1. Shard(n) \in SUBSET Row
  BY DEF Shard
<1>2. CASE LoadStore(n)
  BY <1>2 DEF LoadStore, StoreType, Row
<1>3. CASE PushReplica(n)
  BY <1>1, <1>3 DEF PushReplica, ReceiveReplica, StoreType, Row
<1>4. CASE AbandonPush(n)
  BY <1>4 DEF AbandonPush, StoreType, Row
<1> QED
  BY <1>2, <1>3, <1>4 DEF MakeStore

-----------------------------------------------------------------------------
(* The workers *)

LEMMA FaultCounts ==
    ASSUME FaultsType, Fault
    PROVE  FaultsType'
BY Constants DEF FaultsType, Fault

LEMMA WorkerStep ==
    ASSUME WorkerType, FaultsType, NEW n \in Node,
           MakeWorker(n) \/ KillWorker(n) \/ FailSidecar(n)
    PROVE  WorkerType' /\ FaultsType'
<1>1. WorkerType'
  BY DEF WorkerType, MakeWorker, LoadShard, FailToStart, KillWorker, FailSidecar
<1>2. Fault \/ UNCHANGED faults
  BY DEF MakeWorker, LoadShard, FailToStart, KillWorker, FailSidecar
<1> QED
  BY <1>1, <1>2, FaultCounts DEF FaultsType

-----------------------------------------------------------------------------
(* The loop *)

LEMMA LoopStays ==
    ASSUME LoopInv, UNCHANGED <<roundVars, loopVars>>
    PROVE  LoopInv'
BY DEF LoopInv, LoopType, Modelled, AnswersInv, CollectInv, CountInv, roundVars, loopVars

\* A step of the loop alone, that neither has a round begin nor a model grow.
LEMMA LeadStep ==
    ASSUME LoopInv, Lead \/ (\E c \in BOOLEAN : Complete(c)) \/ (\E w \in Node : Evaluated(w))
    PROVE  LoopInv'
<1>1. CASE Lead
  BY <1>1 DEF Lead, LoopInv, LoopType, Modelled, AnswersInv, CollectInv, CountInv, roundVars
<1>2. ASSUME NEW c \in BOOLEAN, Complete(c)
      PROVE  LoopInv'
  <2> USE Constants
  <2>1. /\ phase = "evaluate" /\ epoch' = epoch + 1
        /\ phase' = "done" \/ (phase' = "fetch" /\ epoch + 1 < MaxEpochs)
        /\ UNCHANGED <<round, given, pending, results, collected, failed, model, evaluating>>
    BY <1>2 DEF Complete, LoopInv, LoopType, roundVars
  <2>2. LoopType' /\ CountInv'
    BY <2>1 DEF LoopInv, LoopType, CountInv
  <2> QED
    BY <2>1, <2>2 DEF LoopInv, LoopType, Modelled, AnswersInv, CollectInv
<1>3. ASSUME NEW w \in Node, Evaluated(w)
      PROVE  LoopInv'
  BY <1>3 DEF Evaluated, LoopInv, LoopType, Modelled, AnswersInv, CollectInv, CountInv, roundVars
<1> QED
  BY <1>1, <1>2, <1>3

LEMMA DelegateStep ==
    ASSUME LoopInv, Delegate
    PROVE  LoopInv'
<1> USE Constants
<1>1. /\ phase = "fetch" /\ phase' = "collect"
      /\ round' = round + 1 /\ round + 1 \in Round
      /\ given' = [given EXCEPT ![round + 1] = Len(model)]
      /\ pending' = pending \cup {<<round + 1, w>> : w \in Node}
      /\ UNCHANGED <<results, collected, failed, epoch, model, evaluating>>
  BY DEF Delegate, LoopInv, LoopType, Round
<1>2. LoopType'
  BY <1>1 DEF LoopInv, LoopType, Round
<1>3. AnswersInv'
  <2>1. ASSUME NEW p \in pending' PROVE p[1] <= round'
    BY <1>1, <2>1 DEF LoopInv, LoopType, AnswersInv, Round
  <2>2. ASSUME NEW x \in results' PROVE x.round <= round' /\ x.on = given'[x.round]
    BY <1>1, <2>2 DEF LoopInv, LoopType, AnswersInv, Round, Result
  <2> QED
    BY <2>1, <2>2 DEF AnswersInv
<1>4. CollectInv' /\ CountInv'
  BY <1>1 DEF LoopInv, LoopType, CollectInv, CountInv, Round
<1> QED
  BY <1>1, <1>2, <1>3, <1>4 DEF LoopInv, Modelled

LEMMA SendStep ==
    ASSUME LoopInv, NEW r \in Round, NEW w \in Node, NEW ok \in BOOLEAN, Send(r, w, ok)
    PROVE  LoopInv'
<1> DEFINE x == [round |-> r, from |-> w, ok |-> ok, on |-> given[r]]
<1>1. /\ <<r, w>> \in pending
      /\ pending' = pending \ {<<r, w>>}
      /\ results' = results \cup {x}
      /\ UNCHANGED <<round, given, collected, failed, phase, epoch, model, evaluating>>
  BY DEF Send, loopVars
<1>2. x \in Result /\ x.round <= round /\ x.on = given[x.round]
  BY <1>1 DEF LoopInv, LoopType, AnswersInv, Result
<1>3. LoopType' /\ AnswersInv'
  BY <1>1, <1>2 DEF LoopInv, LoopType, AnswersInv
<1> QED
  BY <1>1, <1>3 DEF LoopInv, CollectInv, CountInv, Modelled

\* Return ends a round in which everybody responded as it should: a round that
\* is to be written has an answer of everybody.
LEMMA ReturnStep ==
    ASSUME LoopInv, phase = "collect",
           NEW answers \in SUBSET Result, NEW failures \in SUBSET Node,
           \A x \in answers : x.ok /\ x.round = round /\ x.on = given[round],
           Responded(answers, failures) = Node,
           Return(answers, failures),
           results' \subseteq results,
           UNCHANGED <<round, given, pending, epoch, model, evaluating>>
    PROVE  LoopInv'
<1>1. LoopType' /\ AnswersInv'
  BY DEF LoopInv, LoopType, AnswersInv, Return
<1>2. CollectInv'
  <2>1. CASE failures = {}
    <3>1. phase' = "write" /\ collected' = answers /\ failed' = {}
      BY <2>1 DEF Return
    <3>2. {x.from : x \in answers} = Node
      BY <2>1 DEF Responded
    <3> QED
      BY <3>1, <3>2 DEF LoopInv, CollectInv
  <2>2. CASE failures # {}
    BY <2>2 DEF Return, CollectInv
  <2> QED
    BY <2>1, <2>2
<1>3. CountInv'
  BY DEF LoopInv, LoopType, CountInv, Return
<1> QED
  BY <1>1, <1>2, <1>3 DEF LoopInv, Modelled

LEMMA CollectStep ==
    ASSUME LoopInv, Collect
    PROVE  LoopInv'
<1>1. PICK x \in Sent(round) :
        LET answers == IF x.ok THEN collected \cup {x} ELSE collected
            failures == IF x.ok THEN failed ELSE failed \cup {x.from} IN
        /\ results' = results \ {x}
        /\ IF Responded(answers, failures) = Node THEN Return(answers, failures)
           ELSE collected' = answers /\ failed' = failures /\ UNCHANGED phase
  BY DEF Collect
<1> DEFINE answers == IF x.ok THEN collected \cup {x} ELSE collected
           failures == IF x.ok THEN failed ELSE failed \cup {x.from}
<1>2. /\ phase = "collect"
      /\ results' \subseteq results
      /\ UNCHANGED <<round, given, pending, epoch, model, evaluating>>
  BY <1>1 DEF Collect
<1>3. x \in results /\ x.round = round /\ x \in Result /\ x.on = given[round]
  BY DEF Sent, Channel, LoopInv, LoopType, AnswersInv
<1>4. answers \in SUBSET Result /\ failures \in SUBSET Node
  BY <1>3 DEF LoopInv, LoopType, Result
<1>5. \A y \in answers : y.ok /\ y.round = round /\ y.on = given[round]
  BY <1>3 DEF LoopInv, CollectInv
<1>6. CASE Responded(answers, failures) = Node
  <2>1. Return(answers, failures)
    BY <1>1, <1>6
  <2> HIDE DEF answers, failures
  <2> QED
    BY <1>2, <1>4, <1>5, <1>6, <2>1, ReturnStep
<1>7. CASE Responded(answers, failures) # Node
  <2>1. collected' = answers /\ failed' = failures /\ phase' = phase
    BY <1>1, <1>7
  <2> HIDE DEF answers, failures
  <2>2. LoopType' /\ AnswersInv'
    BY <1>2, <1>4, <2>1 DEF LoopInv, LoopType, AnswersInv
  <2>3. CollectInv' /\ CountInv'
    BY <1>2, <1>5, <2>1 DEF LoopInv, CollectInv, CountInv
  <2> QED
    BY <1>2, <2>2, <2>3 DEF LoopInv, Modelled
<1> QED
  BY <1>6, <1>7

LEMMA TimeoutStep ==
    ASSUME LoopInv, Timeout
    PROVE  LoopInv'
<1> DEFINE failures == failed \cup Stragglers
<1>1. /\ phase = "collect" /\ Return(collected, failures)
      /\ UNCHANGED <<round, given, pending, results, epoch, model, evaluating>>
  BY DEF Timeout
<1>2. collected \in SUBSET Result /\ failures \in SUBSET Node
  BY DEF LoopInv, LoopType, Stragglers
<1>3. Responded(collected, failures) = Node
  BY DEF Responded, Stragglers, LoopInv, LoopType, Result
<1>4. \A x \in collected : x.ok /\ x.round = round /\ x.on = given[round]
  BY DEF LoopInv, CollectInv
<1> HIDE DEF failures
<1> QED
  BY <1>1, <1>2, <1>3, <1>4, ReturnStep

LEMMA WriteStep ==
    ASSUME LoopInv, Write
    PROVE  LoopInv'
<1>1. /\ phase = "write" /\ collected' = {}
      /\ UNCHANGED <<round, given, pending, results, failed, epoch>>
      /\ \/ /\ phase' = "evaluate" /\ evaluating' \in {Node, {}}
            /\ model' = Append(model, Update)
         \/ /\ phase' = "fetch" /\ evaluating' = evaluating
            /\ model' = model \/ model' = Append(model, Update)
  BY DEF Write
<1>2. /\ Len(Append(model, Update)) = Len(model) + 1
      /\ \E S : Append(model, Update) \in Seq(S)
  <2>1. PICK S : model \in Seq(S)
    BY DEF LoopInv, Modelled
  <2>2. model \in Seq(S \cup {Update})
    BY <2>1
  <2> QED
    BY <2>2
<1>3. Modelled'
  BY <1>1, <1>2 DEF LoopInv, Modelled
<1>4. /\ Len(model) \in Nat /\ Len(model) < round /\ round \in 0 .. MaxRounds
      /\ epoch <= Len(model) /\ epoch \in Nat
  BY <1>1, Constants DEF LoopInv, LoopType, CountInv
<1>5. LoopType' /\ CountInv'
  BY <1>1, <1>2, <1>4, Constants DEF LoopInv, LoopType, CountInv
<1>6. AnswersInv' /\ CollectInv'
  BY <1>1 DEF LoopInv, AnswersInv, CollectInv
<1> QED
  BY <1>3, <1>5, <1>6 DEF LoopInv

-----------------------------------------------------------------------------
(* The system *)

LEMMA InitInv == Init => Inv
<1> SUFFICES ASSUME Init PROVE Inv
  OBVIOUS
<1>1. StoreType
  <2>1. size \in Sizes /\ store = [n \in Node |-> "off"] /\ replica = [n \in Node |-> NoShard]
    BY DEF Init, StoreInit
  <2> QED
    BY <2>1 DEF StoreType
<1>2. WorkerType /\ FaultsType
  BY Constants DEF Init, WorkerInit, WorkerType, FaultsType
<1>3. Modelled /\ Len(model) = 0
  <2>1. model = <<>> /\ <<>> \in Seq({}) /\ Len(<<>>) = 0
    BY DEF Init
  <2> QED
    BY <2>1 DEF Modelled
<1>4. LoopType /\ AnswersInv /\ CollectInv /\ CountInv
  BY <1>3, Constants DEF Init, LoopType, AnswersInv, CollectInv, CountInv
<1> QED
  BY <1>1, <1>2, <1>3, <1>4, Parts DEF LoopInv

LEMMA NextInv == Inv /\ [Next]_vars => Inv'
<1> SUFFICES ASSUME Inv, [Next]_vars PROVE Inv'
  OBVIOUS
<1> USE Parts
<1>1. StoreType /\ WorkerType /\ FaultsType /\ LoopInv
  OBVIOUS
<1>a. UNCHANGED storeVars => StoreType'
  BY <1>1, StoresStay
<1>b. UNCHANGED <<worker, sidecar>> => WorkerType'
  BY <1>1 DEF WorkerType
<1>c. UNCHANGED faults \/ Fault => FaultsType'
  BY <1>1, FaultCounts DEF FaultsType
<1>d. UNCHANGED <<roundVars, loopVars>> => LoopInv'
  BY <1>1, LoopStays
<1>p. StoreType' /\ WorkerType' /\ FaultsType' /\ LoopInv' => Inv'
  BY DEF Inv, IInv, TypeOK, StoreType, WorkerType, FaultsType, LoopType, LoopInv
<1>2. CASE Lead
  BY <1>1, <1>2, <1>a, <1>b, <1>c, <1>p, LeadStep DEF Lead, workerVars
<1>3. CASE Delegate
  BY <1>1, <1>3, <1>a, <1>b, <1>c, <1>p, DelegateStep DEF Delegate, workerVars
<1>4. CASE Collect
  BY <1>1, <1>4, <1>a, <1>b, <1>c, <1>p, CollectStep DEF Collect, workerVars
<1>5. CASE Timeout
  BY <1>1, <1>5, <1>a, <1>b, <1>c, <1>p, TimeoutStep DEF Timeout, workerVars
<1>6. CASE Write
  BY <1>1, <1>6, <1>a, <1>b, <1>c, <1>p, WriteStep DEF Write
<1>7. ASSUME NEW c \in BOOLEAN, Complete(c)
      PROVE  Inv'
  BY <1>1, <1>7, <1>a, <1>b, <1>c, <1>p, LeadStep DEF Complete, workerVars
<1>8. ASSUME NEW n \in Node, MakeStore(n), UNCHANGED <<workerVars, roundVars, loopVars>>
      PROVE  Inv'
  BY <1>1, <1>8, <1>b, <1>c, <1>d, <1>p, StoreStep DEF workerVars
<1>9. ASSUME NEW n \in Node, UNCHANGED <<storeVars, roundVars, loopVars>>,
             MakeWorker(n) \/ KillWorker(n) \/ FailSidecar(n)
      PROVE  Inv'
  BY <1>1, <1>9, <1>a, <1>d, <1>p, WorkerStep
<1>10. ASSUME NEW n \in Node, NEW r \in Round, Answer(r, n) \/ LoseAnswer(r, n)
       PROVE  Inv'
  <2>1. PICK ok \in BOOLEAN : Send(r, n, ok) /\ (UNCHANGED faults \/ Fault)
    BY <1>10 DEF Answer, LoseAnswer, Answers
  <2>2. LoopInv'
    BY <1>1, <2>1, SendStep
  <2> QED
    BY <2>1, <2>2, <1>a, <1>b, <1>c, <1>p DEF Send
<1>11. ASSUME NEW n \in Node, Evaluated(n)
       PROVE  Inv'
  BY <1>1, <1>11, <1>a, <1>b, <1>c, <1>p, LeadStep DEF Evaluated, workerVars
<1>12. CASE UNCHANGED vars
  BY <1>1, <1>12, <1>a, <1>b, <1>c, <1>d, <1>p DEF vars, workerVars
<1> QED
  BY <1>2, <1>3, <1>4, <1>5, <1>6, <1>7, <1>8, <1>9, <1>10, <1>11, <1>12
     DEF Next, EpochLoop, Serve, Failure

\* The inductive invariant holds: answers, the collected gradients, the count of
\* updates and the ring are as the code of the rounds assumes them to be.
THEOREM Invariance == Spec => []Inv
BY InitInv, NextInv, PTL DEF Spec

\* Every variable keeps its type, whatever the cluster's size.
THEOREM TypeCorrect == Spec => []TypeOK
<1>1. Inv => TypeOK
  BY DEF Inv, IInv
<1> QED
  BY <1>1, Invariance, PTL

\* Everything the runs check of the rounds' inner state holds for any cluster.
THEOREM IInvCorrect == Spec => []IInv
<1>1. Inv => IInv
  BY DEF Inv
<1> QED
  BY <1>1, Invariance, PTL

\* Late, lost, failed and hanging answers never get into an update: what
\* delegateAll hands to aggregateGradients is one answer of every worker, of
\* this round, computed at the parameters that are still the latest.
THEOREM FullRoundCorrect == Spec => []FullRound
<1>1. Inv => FullRound
  <2> SUFFICES ASSUME Inv, phase = "write"
               PROVE  collected = {[round |-> round, from |-> w, ok |-> TRUE,
                                    on |-> Len(model)] : w \in Node}
    BY DEF FullRound
  <2>1. /\ collected \subseteq Result
        /\ given[round] = Len(model)
        /\ \A x \in collected : x.ok /\ x.round = round /\ x.on = given[round]
        /\ {x.from : x \in collected} = Node
    BY DEF Inv, IInv, TypeOK, CollectInv
  <2>2. ASSUME NEW x \in collected
        PROVE  x = [round |-> round, from |-> x.from, ok |-> TRUE, on |-> Len(model)]
    BY <2>1, <2>2 DEF Result
  <2>3. \A x \in collected : x.from \in Node
    BY <2>1 DEF Result
  <2>4. ASSUME NEW w \in Node
        PROVE  [round |-> round, from |-> w, ok |-> TRUE, on |-> Len(model)] \in collected
    <3>1. PICK x \in collected : x.from = w
      BY <2>1
    <3> QED
      BY <3>1, <2>2
  <2> QED
    BY <2>2, <2>3, <2>4
<1> QED
  BY <1>1, Invariance, PTL
=============================================================================
