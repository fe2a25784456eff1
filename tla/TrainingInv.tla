---------------------------- MODULE TrainingInv ----------------------------
(***************************************************************************)
(* What the epoch loop and the parameter servers must guarantee.           *)
(***************************************************************************)
EXTENDS Training

Update == [by : Leader, epoch : 0 .. MaxEpochs - 1] \cup {OldUpdate}

WriteInFlight ==
    [from : Leader, at : Node, backup : Node, value : Seq(Update), try : 0 .. MaxLost,
     stage : {"replicate", "apply"}, awaited : BOOLEAN]

Assigning == {"assignPrimary", "assignBackup"}
Recovering == {"recover", "probeBackup", "findSpare", "promotePrimary", "promoteBackup", "seed"}
Finished == {"done", "stopped"}
InEpoch == {"fetch", "fetchBackup", "fetchCheckpoint", "delegate", "write", "writing",
             "save", "saveBackup", "complete"}

Pair == [primary : Node \cup {NoNode}, backup : Node \cup {NoNode}]

\* Every variable keeps its type.  A write in flight has a node to replicate
\* to: no primary is without a backup address.
TypeOK ==
    /\ role \in [Node -> {"none", "primary", "backup"}]
    /\ backupAddr \in [Node -> Node \cup {NoNode}]
    /\ params \in [Node -> Seq(Update)]
    /\ checkpoint \in [Node -> Seq(Update) \cup {NoFile}]
    /\ paramUp \in [Node -> BOOLEAN]
    /\ writes \subseteq WriteInFlight
    /\ pc \in [Leader -> {"follower"} \cup Assigning \cup InEpoch \cup Recovering \cup Finished]
    /\ view \in [Leader -> Pair] /\ chosen \in [Leader -> Pair]
    /\ epoch \in [Leader -> 0 .. MaxEpochs]
    /\ read \in [Leader -> Seq(Update)]
    /\ patience \in [Leader -> 0 .. Patience]
    /\ killed \in [Leader -> BOOLEAN]
    /\ workerUp \in [Node -> BOOLEAN]
    /\ lost \in 0 .. MaxLost

Has(value, l, e) == \E i \in DOMAIN value : value[i] = [by |-> l, epoch |-> e]

HasCompleted(value, l) == \A e \in 0 .. epoch[l]-1 : Has(value, l, e)

\* Whichever of the two servers a leader trains through still answers, it holds
\* the update of every epoch the leader has completed.
CompletedKept ==
    \A l \in Leader : \A n \in {view[l].primary, view[l].backup} \ {NoNode} :
        paramUp[n] => HasCompleted(params[n], l)

\* Whichever checkpoint of this run could be loaded lacks none of the epochs
\* completed up to the last one that was due for a checkpoint.
CheckpointFresh ==
    \A l \in Leader, n \in Node :
        paramUp[n] /\ checkpoint[n] \notin {NoFile, OldRun} =>
            \A e \in 0 .. epoch[l]-1 :
                e % CheckpointInterval = 0 => Has(checkpoint[n], l, e)

Old(value) == \E i \in DOMAIN value : value[i] = OldUpdate

\* A checkpoint of an earlier run may be found and loaded, but what a server
\* holds and what a leader has it write never comes from one.
OldNeverTrained ==
    /\ \A n \in Node : ~Old(params[n])
    /\ \A w \in writes : ~Old(w.value)

\* However calls fail and leaders compete, a leader's updates are never applied
\* out of the order of its epochs.
UpdatesOrdered ==
    \A n \in Node : \A i, j \in DOMAIN params[n] :
        i < j /\ params[n][i].by = params[n][j].by
            => params[n][i].epoch <= params[n][j].epoch

\* A loop that has fetched its first parameters ends, unless its leader dies.
TrainingEnds == \A l \in Leader : pc[l] = "fetch" ~> pc[l] \in Finished

\* Running an epoch again gives the same update, not a second one.
EpochIdempotent ==
    \A n \in Node : \A i, j \in DOMAIN params[n] : i # j => params[n][i] # params[n][j]

\* After any failure, that of a leader included, training restarts from the last
\* checkpoint at the latest: the parameters a leader starts an epoch from have
\* its own checkpointed epochs and those of every leader that has stopped.
RestartsFromCheckpoint ==
    [][\A k, l \in Leader :
          (k = l \/ pc[l] = "stopped") /\ pc[k] # "delegate" /\ pc'[k] = "delegate" =>
              \A e \in 0 .. epoch[l]-1 :
                  e % CheckpointInterval = 0 => Has(read'[k], l, e)]_vars

-----------------------------------------------------------------------------
(* CompletedKept, CheckpointFresh and OldNeverTrained hold until a second node *)
(* leads or a call is lost.  Their inductive invariant, part by part.          *)

\* Nobody but l has led, and no call has been lost.
Alone(l) == lost = 0 /\ \A k \in Leader \ {l} : view[k] = NoPair

Servers(l) == {view[l].primary, view[l].backup}

Replacing == {"promotePrimary", "promoteBackup", "seed"}

\* A server pair is two servers, and a primary that answers replicates to the
\* other one.
RolesKept(l) ==
    LET v == IF pc[l] \in {"promoteBackup", "seed"} THEN chosen[l] ELSE view[l] IN
    /\ pc[l] = "follower" => view[l] = NoPair
    /\ view[l] # NoPair => view[l].primary # view[l].backup /\ Servers(l) \subseteq Node
    /\ pc[l] \in Assigning \cup Replacing => chosen[l].primary # chosen[l].backup
    /\ pc[l] \in Assigning => chosen[l] = view[l]
    /\ pc[l] \in {"assignBackup"} \cup InEpoch \cup (Recovering \ {"promotePrimary"})
       /\ paramUp[v.primary]
          => role[v.primary] = "primary" /\ backupAddr[v.primary] = v.backup

\* A leader gives a server up only when it is down, and never one that answers.
FailuresReal(l) ==
    /\ pc[l] \in {"fetchBackup", "fetchCheckpoint", "probeBackup"} =>
           ~paramUp[view[l].primary]
    /\ pc[l] = "fetchCheckpoint" => ~paramUp[view[l].backup]
    /\ pc[l] = "recover" => \E n \in Servers(l) : ~paramUp[n]
    /\ pc[l] \in {"findSpare"} \cup Replacing =>
           /\ chosen[l].primary \in Servers(l)
           /\ \A n \in Servers(l) \ {chosen[l].primary} : ~paramUp[n]

\* Between its calls a leader has in hand what its servers have.
Holding == {"delegate", "write", "findSpare"} \cup Replacing

\* Servers that answer agree; only a write under way may have reached one of them
\* and not yet the other.
ServersAgree(l) ==
    /\ view[l] = NoPair => writes = {} /\ \A n \in Node : params[n] = <<>>
    /\ view[l] # NoPair /\ writes = {} =>
           \A m, n \in Servers(l) : paramUp[m] /\ paramUp[n] => params[m] = params[n]
    /\ pc[l] \in Holding => \A n \in Servers(l) : paramUp[n] => params[n] = read[l]
    /\ \A w \in writes :
           /\ pc[l] \in {"writing", "stopped"} /\ \A x \in writes : x = w
           /\ w.from = l /\ w.at = view[l].primary /\ w.backup = view[l].backup
           /\ w.value = Updated(l)
           /\ paramUp[w.at] => params[w.at] = read[l]
           /\ paramUp[w.backup] =>
                  params[w.backup] = IF w.stage = "replicate" THEN read[l] ELSE w.value

\* What a leader has in hand, it has from a server and not from a checkpoint.
FromServer == {"findSpare"} \cup Replacing

\* What answers, and what a leader has from a server, has all completed epochs,
\* and after its write the present one.
EpochsKept(l) ==
    /\ \A n \in Servers(l) \ {NoNode} : paramUp[n] => HasCompleted(params[n], l)
    /\ pc[l] \in FromServer \/ writes # {} => HasCompleted(read[l], l)
    /\ pc[l] \in {"save", "saveBackup", "complete"} =>
           \A n \in Servers(l) : paramUp[n] => Has(params[n], l, epoch[l])
    /\ \A k \in Leader : view[k] = NoPair \/ pc[k] \in Assigning => epoch[k] = 0

\* A checkpoint of an earlier run never gets further than the leader's hands: to
\* look for one, it must have found both servers down, and they stay so.
OldUnused(l) ==
    /\ \A n \in Node : ~Old(params[n])
    /\ pc[l] \in FromServer \/ writes # {} => ~Old(read[l])

Saved(l, n) ==
    paramUp[n] /\ Due(epoch[l]) => Has(checkpoint[n], l, epoch[l])

\* Only the servers of a leader have checkpoints of this run to offer.
CheckpointsKept(l) ==
    /\ \A n \in Node : paramUp[n] /\ checkpoint[n] \notin {NoFile, OldRun} =>
           /\ n \in Servers(l)
           /\ \A e \in 0 .. epoch[l]-1 : Due(e) => Has(checkpoint[n], l, e)
    /\ pc[l] \in {"saveBackup", "complete"} => Saved(l, view[l].primary)
    /\ pc[l] = "complete" => Saved(l, view[l].backup)

Safe(l) ==
    /\ RolesKept(l) /\ FailuresReal(l) /\ ServersAgree(l) /\ EpochsKept(l)
    /\ OldUnused(l) /\ CheckpointsKept(l)

AloneSafe == \A l \in Leader : Alone(l) => Safe(l)

-----------------------------------------------------------------------------
(* Refinement of Model, for a single leader and a network that loses no call *)

TheLeader == CHOOSE l \in Leader : TRUE

Epochs(value) == [i \in DOMAIN value |-> value[i].epoch]

\* The lost model is none of those that epochs of training make.
ASSUME LostAssumption == NoFile \notin Seq(Nat)

\* The leader holds what a survivor had and will hand it on, if it can.
InHand(l) ==
    \/ pc[l] = "findSpare"
    \/ pc[l] \in Replacing /\ paramUp[chosen[l].backup]

\* Where the model is: at the primary while that answers, else at the backup,
\* else in the hands of a leader that has probed a survivor before it failed.
modelBar ==
    LET l == TheLeader
        v == view[l] IN
    CASE v = NoPair -> <<>>
      [] v # NoPair /\ paramUp[v.primary] -> Epochs(params[v.primary])
      [] v # NoPair /\ ~paramUp[v.primary] /\ paramUp[v.backup] -> Epochs(params[v.backup])
      [] OTHER -> IF InHand(l) THEN Epochs(read[l]) ELSE NoFile

M == INSTANCE Model WITH model <- modelBar, epoch <- epoch[TheLeader], Lost <- NoFile

ModelSpec == M!Spec
=============================================================================
