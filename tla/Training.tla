------------------------------ MODULE Training ------------------------------
(***************************************************************************)
(* The epoch loop of a coordinator that leads (coordinator/coordinator.go) *)
(* and the parameter servers it trains through: it assigns their roles,    *)
(* fetches the parameters, has every worker compute a gradient, writes the *)
(* updated parameters, checkpoints them, and recovers from the loss of a   *)
(* parameter server.                                                       *)
(*                                                                         *)
(* One step is one call of the loop, or one critical section of a server.  *)
(* A call fails when the callee is down or, at most MaxLost times, because *)
(* the network loses it or its reply.                                      *)
(***************************************************************************)
EXTENDS ParamServer

CONSTANTS
    Leader,              \* the nodes that win an election during the run
    MaxEpochs,           \* config.MaxEpochs
    CheckpointInterval,  \* config.CheckpointInterval
    Patience,            \* config.Patience
    MaxServersDown,      \* bound: parameter servers killed or crashed
    MaxWorkersDown,      \* bound: workers down
    MaxLeadersDown,      \* bound: leaders killed or crashed
    MaxLost              \* bound: calls lost by the network

ASSUME LeaderAssumption == Leader \subseteq Node /\ Leader # {}
ASSUME EpochsAssumption ==
    /\ MaxEpochs \in Nat \ {0} /\ CheckpointInterval \in Nat \ {0}
    /\ Patience \in Nat \ {0}
ASSUME FaultsAssumption ==
    /\ MaxServersDown \in Nat /\ MaxWorkersDown \in Nat
    /\ MaxLeadersDown \in Nat /\ MaxLost \in Nat

VARIABLES
    pc,        \* pc[l]: the call leader l is about to make
    view,      \* view[l]: paramPrimaryID and paramBackupID
    epoch,     \* epoch[l]: currentEpoch
    read,      \* read[l]: the parameters l fetched or probed last
    chosen,    \* chosen[l]: the survivor and the spare of a recovery
    patience,  \* patience[l]: epochs without improvement
    killed,    \* killed[l]: Kill was called at coordinator l
    workerUp,  \* workerUp[n]: n's worker answers
    lost       \* calls lost so far

loopVars == <<view, epoch, read, chosen, patience, killed, workerUp, lost>>
vars == <<serverVars, pc, loopVars>>

NoPair == [primary |-> NoNode, backup |-> NoNode]

Init ==
    /\ ServerInit
    /\ pc = [l \in Leader |-> "follower"]
    /\ view = [l \in Leader |-> NoPair]
    /\ epoch = [l \in Leader |-> 0]
    /\ read = [l \in Leader |-> <<>>]
    /\ chosen = [l \in Leader |-> NoPair]
    /\ patience = [l \in Leader |-> 0]
    /\ killed = [l \in Leader |-> FALSE]
    /\ workerUp = [n \in Node |-> TRUE]
    /\ lost = 0

Goto(l, where) == pc' = [pc EXCEPT ![l] = where]

\* The network loses one more call.
Lose == lost < MaxLost /\ lost' = lost + 1

\* Or several, one after the other.
LoseCalls(k) == lost + k <= MaxLost /\ lost' = lost + k

\* A call to server n returns an error without having had an effect there.
Unreached(n) ==
    \/ ~paramUp[n] /\ UNCHANGED lost
    \/ paramUp[n] /\ Lose

Reached(n) == paramUp[n] /\ UNCHANGED lost

-----------------------------------------------------------------------------
(* Roles: becomeLeader picks two nodes it believes healthy, which may be    *)
(* down by now, and starts the loop whatever its calls return.             *)

BecomeLeader(l, p, b) ==
    /\ pc[l] = "follower" /\ ~killed[l]
    /\ p # b /\ l \notin {p, b}
    /\ view' = [view EXCEPT ![l] = [primary |-> p, backup |-> b]]
    /\ chosen' = [chosen EXCEPT ![l] = [primary |-> p, backup |-> b]]
    /\ Goto(l, "assignPrimary")
    /\ UNCHANGED <<serverVars, epoch, read, patience, killed, workerUp, lost>>

Call(l, n, r, b, where) ==
    /\ \/ Reached(n) /\ SetRole(n, r, b)
       \/ Unreached(n) /\ UNCHANGED serverVars
    /\ Goto(l, where)
    /\ UNCHANGED <<view, epoch, read, chosen, patience, killed, workerUp>>

\* The two SetRole calls, in becomeLeader and again in runParamRecovery.
SetPrimary(l) ==
    \/ pc[l] = "assignPrimary"
       /\ Call(l, chosen[l].primary, "primary", chosen[l].backup, "assignBackup")
    \/ pc[l] = "promotePrimary"
       /\ Call(l, chosen[l].primary, "primary", chosen[l].backup, "promoteBackup")

SetBackup(l) ==
    \/ pc[l] = "assignBackup"
       /\ Call(l, chosen[l].backup, "backup", NoNode, "fetch")
    \/ pc[l] = "promoteBackup"
       /\ Call(l, chosen[l].backup, "backup", NoNode, "seed")

-----------------------------------------------------------------------------
(* The epoch loop. *)

\* The test at the head of the loop.
StopLoop(l) ==
    /\ pc[l] = "fetch" /\ killed[l]
    /\ Goto(l, "stopped")
    /\ UNCHANGED <<serverVars, loopVars>>

\* initParams, after calls that were lost: parameters in hand, or seeded by the
\* local sidecar, which may fail.
Obtain(l, value, missed) ==
    /\ read' = [read EXCEPT ![l] = value]
    /\ \/ Goto(l, "delegate") /\ LoseCalls(missed)
       \/ value = <<>> /\ Goto(l, "recover") /\ LoseCalls(missed + 1)

FetchPrimary(l) ==
    LET p == view[l].primary IN
    /\ pc[l] = "fetch" /\ ~killed[l]
    /\ \/ paramUp[p] /\ Obtain(l, params[p], 0)
       \/ Unreached(p) /\ Goto(l, "fetchBackup") /\ UNCHANGED read
    /\ UNCHANGED <<serverVars, view, epoch, chosen, patience, killed, workerUp>>

FetchBackup(l) ==
    LET b == view[l].backup IN
    /\ pc[l] = "fetchBackup"
    /\ \/ paramUp[b] /\ Obtain(l, params[b], 0)
       \/ Unreached(b) /\ Goto(l, "fetchCheckpoint") /\ UNCHANGED read
    /\ UNCHANGED <<serverVars, view, epoch, chosen, patience, killed, workerUp>>

\* The first peer in order that delivers a checkpoint; those before it have
\* none or are down, or the calls to them are lost.
FetchCheckpoint(l) ==
    LET Offers(n) == paramUp[n] /\ checkpoint[n] # NoFile
        Skipped(n) == Cardinality({m \in 0 .. n-1 : Offers(m)}) IN
    /\ pc[l] = "fetchCheckpoint"
    /\ \/ \E n \in Node : Offers(n) /\ Obtain(l, checkpoint[n], Skipped(n))
       \/ LoseCalls(Skipped(N)) /\ Goto(l, "recover") /\ UNCHANGED read
    /\ UNCHANGED <<serverVars, view, epoch, chosen, patience, killed, workerUp>>

\* delegateAll in synchronous mode: every worker answers within the timeout, or
\* the epoch starts over (runWorkerRecovery always says so).
Delegate(l) ==
    /\ pc[l] = "delegate"
    /\ \/ /\ \A n \in Node : workerUp[n]
          /\ Goto(l, "write") /\ UNCHANGED lost
       \/ /\ \E n \in Node : ~workerUp[n]
          /\ Goto(l, "fetch") /\ UNCHANGED lost
       \/ Goto(l, "fetch") /\ Lose
    /\ UNCHANGED <<serverVars, view, epoch, read, chosen, patience, killed, workerUp>>

\* The updates behind the parameters l writes.
Updated(l) == Append(read[l], [by |-> l, epoch |-> epoch[l]])

CallWrite(l) ==
    LET p == view[l].primary IN
    /\ pc[l] = "write"
    /\ \/ /\ Reached(p) /\ Accepts(p)
          /\ BeginWrite(Write(l, p, Updated(l), lost)) /\ Goto(l, "writing")
       \/ /\ Reached(p) /\ ~Accepts(p)
          /\ UNCHANGED serverVars /\ Goto(l, "recover")
       \/ Unreached(p) /\ UNCHANGED serverVars /\ Goto(l, "recover")
    /\ UNCHANGED <<view, epoch, read, chosen, patience, killed, workerUp>>

\* The answer of handler w reaches the leader that waits for it.
Answer(w, where) ==
    pc' = IF w.awaited THEN [pc EXCEPT ![w.from] = where] ELSE pc

RunReplicate(w) ==
    /\ w.stage = "replicate"
    /\ \/ Reached(w.backup) /\ Replicated(w) /\ UNCHANGED pc
       \/ Unreached(w.backup) /\ ReplicationFails(w, FALSE) /\ Answer(w, "recover")
       \/ paramUp[w.backup] /\ Lose /\ ReplicationFails(w, TRUE) /\ Answer(w, "recover")
    /\ UNCHANGED <<view, epoch, read, chosen, patience, killed, workerUp>>

RunApply(w) ==
    /\ w.stage = "apply"
    /\ Apply(w)
    /\ Answer(w, "save")
    /\ UNCHANGED loopVars

\* The connection breaks under a write: its handler goes on without the leader.
AbandonWrite(l) ==
    /\ pc[l] = "writing"
    /\ Lose
    /\ writes' = {IF w.from = l THEN [w EXCEPT !.awaited = FALSE] ELSE w : w \in writes}
    /\ Goto(l, "recover")
    /\ UNCHANGED <<role, backupAddr, params, checkpoint, paramUp,
                   view, epoch, read, chosen, patience, killed, workerUp>>

FaultyDue(e) == e = 0
Due(e) == e % CheckpointInterval = 0

SaveAt(l, n, where) ==
    /\ \/ Due(epoch[l]) /\ Reached(n) /\ Checkpoint(n)
       \/ Due(epoch[l]) /\ Unreached(n) /\ UNCHANGED serverVars
       \/ ~Due(epoch[l]) /\ UNCHANGED <<serverVars, lost>>
    /\ Goto(l, where)
    /\ UNCHANGED <<view, epoch, read, chosen, patience, killed, workerUp>>

Save(l) ==
    \/ pc[l] = "save" /\ SaveAt(l, view[l].primary, "saveBackup")
    \/ pc[l] = "saveBackup" /\ SaveAt(l, view[l].backup, "complete")

\* The epoch counts; training ends on a plateau of the loss or at MaxEpochs.
Complete(l, improved) ==
    LET p == IF improved THEN 0 ELSE patience[l] + 1 IN
    /\ pc[l] = "complete"
    /\ epoch' = [epoch EXCEPT ![l] = @ + 1]
    /\ patience' = [patience EXCEPT ![l] = p]
    /\ Goto(l, IF p >= Patience \/ epoch[l] + 1 >= MaxEpochs THEN "done" ELSE "fetch")
    /\ UNCHANGED <<serverVars, view, read, chosen, killed, workerUp, lost>>

-----------------------------------------------------------------------------
(* runParamRecovery *)

ProbePrimary(l) ==
    LET p == view[l].primary IN
    /\ pc[l] = "recover"
    /\ \/ /\ Reached(p)
          /\ read' = [read EXCEPT ![l] = params[p]]
          /\ chosen' = [chosen EXCEPT ![l].primary = p]
          /\ Goto(l, "findSpare")
       \/ Unreached(p) /\ Goto(l, "probeBackup") /\ UNCHANGED <<read, chosen>>
    /\ UNCHANGED <<serverVars, view, epoch, patience, killed, workerUp>>

\* Without a survivor, goes on with the parameters it has in hand.
FaultyProbeBackup(l) ==
    LET b == view[l].backup IN
    /\ pc[l] = "probeBackup"
    /\ \/ /\ Reached(b)
          /\ read' = [read EXCEPT ![l] = params[b]]
          /\ chosen' = [chosen EXCEPT ![l].primary = b]
       \/ Unreached(b) /\ UNCHANGED <<read, chosen>>
    /\ Goto(l, "findSpare")
    /\ UNCHANGED <<serverVars, view, epoch, patience, killed, workerUp>>

ProbeBackup(l) ==
    LET b == view[l].backup IN
    /\ pc[l] = "probeBackup"
    /\ \/ /\ Reached(b)
          /\ read' = [read EXCEPT ![l] = params[b]]
          /\ chosen' = [chosen EXCEPT ![l].primary = b]
          /\ Goto(l, "findSpare")
       \/ Unreached(b) /\ Goto(l, "fetch") /\ UNCHANGED <<read, chosen>>
    /\ UNCHANGED <<serverVars, view, epoch, patience, killed, workerUp>>

\* The first server that answers, other than the survivor and the leader's own.
FindSpare(l) ==
    LET Spare(n) == paramUp[n] /\ n \notin {chosen[l].primary, l}
        Skipped(n) == Cardinality({m \in 0 .. n-1 : Spare(m)}) IN
    /\ pc[l] = "findSpare"
    /\ \/ \E n \in Node :
             /\ Spare(n) /\ LoseCalls(Skipped(n))
             /\ chosen' = [chosen EXCEPT ![l].backup = n]
             /\ Goto(l, "promotePrimary")
       \/ LoseCalls(Skipped(N)) /\ Goto(l, "fetch") /\ UNCHANGED chosen
    /\ UNCHANGED <<serverVars, view, epoch, read, patience, killed, workerUp>>

\* Sends the new backup nothing.
FaultySeedNothing(l) ==
    /\ pc[l] = "seed"
    /\ view' = [view EXCEPT ![l] = chosen[l]]
    /\ Goto(l, "fetch")
    /\ UNCHANGED <<serverVars, lost, epoch, read, chosen, patience, killed, workerUp>>

\* Starts over at epoch 0, on parameters that are further.
FaultySeedRestarts(l) ==
    /\ pc[l] = "seed"
    /\ Reached(chosen[l].backup) /\ ReplicateParams(chosen[l].backup, read[l])
    /\ view' = [view EXCEPT ![l] = chosen[l]]
    /\ epoch' = [epoch EXCEPT ![l] = 0]
    /\ Goto(l, "fetch")
    /\ UNCHANGED <<writes, read, chosen, patience, killed, workerUp>>

\* The new backup gets the survivor's parameters, or never hears of them; the
\* leader takes the new roles into use either way.
Seed(l) ==
    LET b == chosen[l].backup IN
    /\ pc[l] = "seed"
    /\ \/ Reached(b) /\ ReplicateParams(b, read[l]) /\ UNCHANGED writes
       \/ Unreached(b) /\ UNCHANGED serverVars
    /\ view' = [view EXCEPT ![l] = chosen[l]]
    /\ Goto(l, "fetch")
    /\ UNCHANGED <<epoch, read, chosen, patience, killed, workerUp>>

-----------------------------------------------------------------------------
(* Failures *)

KillLeader(l) ==
    /\ ~killed[l] /\ Cardinality({k \in Leader : killed[k]}) < MaxLeadersDown
    /\ killed' = [killed EXCEPT ![l] = TRUE]
    /\ UNCHANGED <<serverVars, pc, view, epoch, read, chosen, patience, workerUp, lost>>

\* The process dies wherever the loop stands; a write it waits for goes on.
CrashLeader(l) ==
    /\ ~killed[l] /\ Cardinality({k \in Leader : killed[k]}) < MaxLeadersDown
    /\ killed' = [killed EXCEPT ![l] = TRUE]
    /\ Goto(l, "stopped")
    /\ writes' = {IF w.from = l THEN [w EXCEPT !.awaited = FALSE] ELSE w : w \in writes}
    /\ UNCHANGED <<role, backupAddr, params, checkpoint, paramUp,
                   view, epoch, read, chosen, patience, workerUp, lost>>

MayFail(n) ==
    paramUp[n] /\ Cardinality({m \in Node : ~paramUp[m]}) < MaxServersDown

KillParam(n) == MayFail(n) /\ KillServer(n) /\ UNCHANGED <<pc, loopVars>>

\* A leader waiting for a write at n sees its connection break.
CrashParam(n) ==
    /\ MayFail(n) /\ CrashServer(n)
    /\ pc' = [l \in Leader |->
                IF \E w \in writes : w.from = l /\ w.awaited /\ w.at = n
                THEN "recover" ELSE pc[l]]
    /\ UNCHANGED loopVars

KillWorker(n) ==
    /\ workerUp[n] /\ Cardinality({m \in Node : ~workerUp[m]}) < MaxWorkersDown
    /\ workerUp' = [workerUp EXCEPT ![n] = FALSE]
    /\ UNCHANGED <<serverVars, pc, view, epoch, read, chosen, patience, killed, lost>>

-----------------------------------------------------------------------------
EpochLoop(l) ==
    \/ SetPrimary(l) \/ SetBackup(l) \/ StopLoop(l)
    \/ FetchPrimary(l) \/ FetchBackup(l) \/ FetchCheckpoint(l)
    \/ Delegate(l) \/ CallWrite(l) \/ Save(l)
    \/ \E improved \in BOOLEAN : Complete(l, improved)
    \/ ProbePrimary(l) \/ ProbeBackup(l) \/ FindSpare(l) \/ Seed(l)

WriteParams == \E w \in writes : RunReplicate(w) \/ RunApply(w)

Failure ==
    \/ \E l \in Leader : AbandonWrite(l) \/ KillLeader(l) \/ CrashLeader(l)
    \/ \E n \in Node : KillParam(n) \/ CrashParam(n) \/ KillWorker(n)

Next ==
    \/ \E l \in Leader :
          EpochLoop(l) \/ \E p, b \in Node : BecomeLeader(l, p, b)
    \/ WriteParams
    \/ Failure

Spec == Init /\ [][Next]_vars

\* A loop that can go on does, and so does a handler.
FairSpec ==
    Spec /\ WF_vars(WriteParams) /\ \A l \in Leader : WF_vars(EpochLoop(l))
=============================================================================
