---------------------------- MODULE ModelProofs ----------------------------
(***************************************************************************)
(* Training implements Model, for any number of nodes, epochs, failing     *)
(* servers and workers: as long as one node leads and no call is lost,     *)
(* every step of the epoch loop, of a write handler or of a failure adds   *)
(* an update to the model, completes an epoch whose update the model has,  *)
(* loses the model with the last server that had it, or leaves it alone.   *)
(***************************************************************************)
EXTENDS RecoveryProofs

LEMMA TheLeaderLeads == TheLeader \in Leader
BY LeaderAssumption DEF TheLeader

-----------------------------------------------------------------------------
(* Epochs *)

LEMMA EpochIsNat ==
    ASSUME NEW u \in Update
    PROVE  u.epoch \in Nat
BY UpdateIs, Constants DEF OldUpdate

LEMMA EpochsType ==
    ASSUME NEW v \in Seq(Update)
    PROVE  Epochs(v) \in Seq(Nat) /\ Epochs(v) # NoFile
<1>1. Len(v) \in Nat /\ DOMAIN v = 1 .. Len(v)
  OBVIOUS
<1>2. \A i \in 1 .. Len(v) : v[i].epoch \in Nat
  <2>1. \A i \in 1 .. Len(v) : v[i] \in Update
    OBVIOUS
  <2> QED
    BY <2>1, EpochIsNat
<1>3. Epochs(v) \in [1 .. Len(v) -> Nat]
  BY <1>1, <1>2 DEF Epochs
<1>4. Epochs(v) \in Seq(Nat)
  BY <1>1, <1>3
<1> QED
  BY <1>4, LostAssumption

LEMMA EpochsAppend ==
    ASSUME NEW v \in Seq(Update), NEW u \in Update
    PROVE  Epochs(Append(v, u)) = Append(Epochs(v), u.epoch)
<1>1. /\ Append(v, u) \in Seq(Update) /\ DOMAIN Append(v, u) = 1 .. Len(v) + 1 /\ Len(v) \in Nat
      /\ DOMAIN v = 1 .. Len(v)
      /\ \A i \in 1 .. Len(v) : Append(v, u)[i] = v[i]
      /\ Append(v, u)[Len(v) + 1] = u
  OBVIOUS
<1>2. Epochs(v) \in Seq(Nat) /\ u.epoch \in Nat
  BY EpochsType, EpochIsNat
<1>3. DOMAIN Epochs(v) = 1 .. Len(v) /\ Len(Epochs(v)) = Len(v)
  BY <1>1, <1>2 DEF Epochs
<1>4. /\ Append(Epochs(v), u.epoch) \in Seq(Nat)
      /\ DOMAIN Append(Epochs(v), u.epoch) = 1 .. Len(v) + 1
      /\ \A i \in 1 .. Len(v) : Append(Epochs(v), u.epoch)[i] = Epochs(v)[i]
      /\ Append(Epochs(v), u.epoch)[Len(v) + 1] = u.epoch
  BY <1>2, <1>3
<1>5. Epochs(Append(v, u)) \in Seq(Nat) /\ DOMAIN Epochs(Append(v, u)) = 1 .. Len(v) + 1
  BY <1>1, EpochsType DEF Epochs
<1>6. ASSUME NEW i \in 1 .. Len(v) + 1
      PROVE  Epochs(Append(v, u))[i] = Append(Epochs(v), u.epoch)[i]
  <2>1. Epochs(Append(v, u))[i] = Append(v, u)[i].epoch
    BY <1>1 DEF Epochs
  <2>2. CASE i \in 1 .. Len(v)
    BY <1>1, <1>4, <2>1, <2>2 DEF Epochs
  <2>3. CASE i = Len(v) + 1
    BY <1>1, <1>4, <2>1, <2>3
  <2>4. i \in 1 .. Len(v) \/ i = Len(v) + 1
    <3>1. Len(v) \in Nat
      BY <1>1
    <3> QED
      BY <3>1
  <2> QED
    BY <2>2, <2>3, <2>4
<1> QED
  BY <1>4, <1>5, <1>6

LEMMA EpochsHas ==
    ASSUME NEW v, NEW l, NEW e, Has(v, l, e)
    PROVE  \E i \in DOMAIN Epochs(v) : Epochs(v)[i] = e
BY DEF Has, Epochs

-----------------------------------------------------------------------------
(* The model, before and after a step *)

LEMMA ModelBefore ==
    LET l == TheLeader
        v == view[l] IN
    /\ v = NoPair => modelBar = <<>>
    /\ v # NoPair /\ paramUp[v.primary] => modelBar = Epochs(params[v.primary])
    /\ v # NoPair /\ ~paramUp[v.primary] /\ paramUp[v.backup] =>
           modelBar = Epochs(params[v.backup])
    /\ v # NoPair /\ ~paramUp[v.primary] /\ ~paramUp[v.backup] =>
           modelBar = IF InHand(l) THEN Epochs(read[l]) ELSE NoFile
BY DEF modelBar

LEMMA ModelAfter ==
    LET l == TheLeader
        v == view'[l] IN
    /\ v = NoPair => modelBar' = <<>>
    /\ v # NoPair /\ paramUp'[v.primary] => modelBar' = Epochs(params'[v.primary])
    /\ v # NoPair /\ ~paramUp'[v.primary] /\ paramUp'[v.backup] =>
           modelBar' = Epochs(params'[v.backup])
    /\ v # NoPair /\ ~paramUp'[v.primary] /\ ~paramUp'[v.backup] =>
           modelBar' = IF InHand(l)' THEN Epochs(read'[l]) ELSE NoFile
BY DEF modelBar, Epochs

LEMMA ModelStays ==
    ASSUME UNCHANGED <<view, params, paramUp>>,
           epoch'[TheLeader] = epoch[TheLeader],
           \/ InHand(TheLeader)' = InHand(TheLeader)
              /\ (InHand(TheLeader) => UNCHANGED read)
           \/ paramUp[view[TheLeader].primary]
           \/ paramUp[view[TheLeader].backup]
    PROVE  UNCHANGED M!vars
<1>1. modelBar' = modelBar
  BY ModelBefore, ModelAfter
<1> QED
  BY <1>1 DEF M!vars

-----------------------------------------------------------------------------
(* Steps *)

\* A leader that has begun has two servers, and hands the model on only in a
\* recovery.
LEMMA InLoopBefore ==
    ASSUME NEW l \in Leader, Quiet(l)
    PROVE  /\ pc[l] \notin {"follower"} \cup Finished =>
                  /\ view[l].primary \in Node /\ view[l].backup \in Node /\ view[l] # NoPair
           /\ InHand(l) => pc[l] \in {"findSpare"} \cup Replacing
BY TwoServers DEF Quiet, InHand

\* The leader moves on, and no server changes.
LEMMA MovesModel ==
    ASSUME NEW l \in Leader, l = TheLeader, Quiet(l), NEW where \in Place, Goto(l, where),
           pc[l] \notin {"findSpare"} \cup Replacing, where \notin {"findSpare"} \cup Replacing,
           UNCHANGED <<params, paramUp, view>>, epoch'[l] = epoch[l]
    PROVE  UNCHANGED M!vars
<1>1. pc'[l] = where
  BY DEF Goto, Quiet, Inv, LeadersInv
<1>2. InHand(l)' = InHand(l) /\ ~InHand(l)
  BY <1>1 DEF InHand
<1> QED
  BY <1>2, ModelStays

LEMMA BecomeLeaderModel ==
    ASSUME NEW l \in Leader, l = TheLeader, Quiet(l), NEW p \in Node, NEW b \in Node,
           BecomeLeader(l, p, b)
    PROVE  [M!Next]_(M!vars)
<1> DEFINE v == [primary |-> p, backup |-> b]
<1>1. /\ pc[l] = "follower" /\ pc'[l] = "assignPrimary" /\ view'[l] = v
      /\ UNCHANGED <<serverVars, epoch>>
  BY DEF BecomeLeader, Goto, Quiet, Inv, LeadersInv
<1>2. view[l] = NoPair /\ \A n \in Node : params[n] = <<>>
  BY <1>1 DEF Quiet, Safe, RolesKept, ServersAgree
<1>3. v # NoPair /\ v.primary = p /\ v.backup = b
  BY Constants DEF NoPair
<1>4. Epochs(<<>>) = <<>>
  BY DEF Epochs
<1> HIDE DEF v
<1>5. modelBar = <<>> /\ modelBar' \in {<<>>, NoFile}
  BY <1>1, <1>2, <1>3, <1>4, ModelBefore, ModelAfter DEF InHand, Replacing, serverVars
<1> QED
  BY <1>1, <1>5 DEF M!Next, M!Lose, M!vars

LEMMA SetModel ==
    ASSUME NEW l \in Leader, l = TheLeader, Quiet(l), SetPrimary(l) \/ SetBackup(l)
    PROVE  UNCHANGED M!vars
<1>1. UNCHANGED <<params, paramUp, view, epoch, chosen, read>>
  BY DEF SetPrimary, SetBackup, Call, SetRole, serverVars
<1>2. \/ pc[l] \in Assigning /\ pc'[l] \in {"assignBackup", "fetch"}
      \/ pc[l] = "promotePrimary" /\ pc'[l] = "promoteBackup"
      \/ pc[l] = "promoteBackup" /\ pc'[l] = "seed"
  BY DEF SetPrimary, SetBackup, Call, Goto, Quiet, Inv, LeadersInv, Assigning
<1>3. InHand(l)' = InHand(l)
  BY <1>1, <1>2 DEF InHand, Replacing, Assigning
<1> QED
  BY <1>1, <1>3, ModelStays

LEMMA EpochModel ==
    ASSUME NEW l \in Leader, l = TheLeader, Quiet(l),
           \/ StopLoop(l) \/ FetchPrimary(l) \/ FetchBackup(l) \/ FetchCheckpoint(l)
           \/ Delegate(l) \/ CallWrite(l) \/ Save(l)
    PROVE  UNCHANGED M!vars
<1>1. /\ pc[l] \in InEpoch
      /\ UNCHANGED <<params, paramUp, view, epoch>>
  BY DEF StopLoop, FetchPrimary, FetchBackup, FetchCheckpoint, Delegate, CallWrite, Save, SaveAt,
     BeginWrite, Checkpoint, InEpoch, serverVars, loopVars
<1>2. PICK where \in InEpoch \cup {"stopped", "recover"} : Goto(l, where)
  BY DEF StopLoop, FetchPrimary, FetchBackup, FetchCheckpoint, Obtain, Delegate, CallWrite, Save,
     SaveAt, InEpoch
<1>3. where \in Place /\ where \notin {"findSpare"} \cup Replacing
      /\ pc[l] \notin {"findSpare"} \cup Replacing
  BY <1>1 DEF Place, InEpoch, Finished, Recovering, Replacing
<1> QED
  BY <1>1, <1>2, <1>3, MovesModel

\* An epoch completes only when the model has its update.
LEMMA CompleteModel ==
    ASSUME NEW l \in Leader, l = TheLeader, Quiet(l), NEW improved \in BOOLEAN,
           Complete(l, improved)
    PROVE  M!Next
<1>1. /\ pc[l] = "complete" /\ pc'[l] \in {"done", "fetch"}
      /\ epoch'[l] = epoch[l] + 1 /\ epoch[l] \in Nat
      /\ UNCHANGED <<params, paramUp, view>>
  BY DEF Complete, Goto, Quiet, Inv, LeadersInv, serverVars
<1>2. epoch[l] < MaxEpochs
  BY <1>1 DEF Quiet, Inv, LeadersInv, Consistent, Finished
<1>3. \A n \in Servers(l) : paramUp[n] => Has(params[n], l, epoch[l])
  BY <1>1 DEF Quiet, Safe, EpochsKept
<1>4. ~InHand(l) /\ ~InHand(l)'
  BY <1>1 DEF InHand, Replacing
<1>5. modelBar' = modelBar
  BY <1>1, <1>4, ModelBefore, ModelAfter
<1>6. modelBar = NoFile \/ \E i \in DOMAIN modelBar : modelBar[i] = epoch[l]
  <2>1. view[l] # NoPair
    BY <1>1, InLoopBefore DEF Finished
  <2>2. CASE \E n \in Servers(l) : paramUp[n] /\ modelBar = Epochs(params[n])
    BY <1>3, <2>2, EpochsHas
  <2>3. CASE modelBar = NoFile
    BY <2>3
  <2> QED
    BY <1>4, <2>1, <2>2, <2>3, ModelBefore DEF Servers
<1> QED
  BY <1>1, <1>2, <1>5, <1>6 DEF M!Next, M!Complete

LEMMA ProbeModel ==
    ASSUME NEW l \in Leader, l = TheLeader, Quiet(l), ProbePrimary(l) \/ ProbeBackup(l)
    PROVE  UNCHANGED M!vars
<1>1. /\ pc[l] \in {"recover", "probeBackup"} /\ pc'[l] \in {"probeBackup", "findSpare", "fetch"}
      /\ UNCHANGED <<params, paramUp, view, epoch>>
      /\ pc'[l] = "findSpare" => paramUp[view[l].primary] \/ paramUp[view[l].backup]
  BY DEF ProbePrimary, ProbeBackup, Goto, Reached, Quiet, Inv, LeadersInv, serverVars
<1>2. /\ ~InHand(l)
      /\ InHand(l)' = InHand(l) \/ paramUp[view[l].primary] \/ paramUp[view[l].backup]
  BY <1>1 DEF InHand, Replacing
<1> QED
  BY <1>1, <1>2, ModelStays

\* The survivor may fail before there is a spare.
LEMMA FindSpareModel ==
    ASSUME NEW l \in Leader, l = TheLeader, Quiet(l), FindSpare(l)
    PROVE  [M!Next]_(M!vars)
<1>1. pc[l] = "findSpare" /\ UNCHANGED <<params, paramUp, view, epoch, read>>
  BY DEF FindSpare, serverVars
<1>2. InHand(l)
  BY <1>1 DEF InHand
<1>3. CASE \E n \in Node : /\ paramUp[n] /\ Goto(l, "promotePrimary")
                           /\ chosen' = [chosen EXCEPT ![l].backup = n]
  <2>1. InHand(l)' = InHand(l)
    BY <1>1, <1>2, <1>3 DEF InHand, Goto, Replacing, Quiet, Inv, LeadersInv, Pair
  <2> QED
    BY <1>1, <1>2, <2>1, ModelStays
<1>4. CASE Goto(l, "fetch")
  <2>1. ~InHand(l)'
    BY <1>4 DEF InHand, Goto, Replacing, Quiet, Inv, LeadersInv
  <2>2. modelBar' \in {modelBar, NoFile}
    BY <1>1, <1>2, <2>1, ModelBefore, ModelAfter
  <2> QED
    BY <1>1, <2>2 DEF M!Next, M!Lose, M!vars
<1> QED
  BY <1>3, <1>4 DEF FindSpare

LEMMA SeedModel ==
    ASSUME NEW l \in Leader, l = TheLeader, Quiet(l), Seed(l)
    PROVE  UNCHANGED M!vars
<1> DEFINE p == chosen[l].primary
           b == chosen[l].backup
<1>1. /\ pc[l] = "seed" /\ pc'[l] = "fetch" /\ view'[l] = chosen[l]
      /\ UNCHANGED <<paramUp, epoch, read>>
  BY DEF Seed, ReplicateParams, Goto, Quiet, Inv, LeadersInv, serverVars
<1>2. p \in Node /\ b \in Node /\ p # b /\ view[l] # NoPair
  BY <1>1, InLoopBefore DEF Quiet, Inv, LeadersInv, Consistent, Whole, Safe, RolesKept,
     Assigning, Replacing, Finished
<1>3. p \in Servers(l) /\ \A n \in Servers(l) \ {p} : ~paramUp[n]
  BY <1>1 DEF Quiet, Safe, FailuresReal, Replacing
<1>4. paramUp[p] => params[p] = read[l]
  BY <1>1, <1>3 DEF Quiet, Safe, ServersAgree, Holding, Replacing
<1>5. \A n \in {p, b} : paramUp[n] => params'[n] = read[l]
  <2>1. CASE Reached(b) /\ ReplicateParams(b, read[l])
    BY <1>2, <1>4, <2>1 DEF ReplicateParams, Quiet, Inv, ValuesInv
  <2>2. CASE Unreached(b) /\ UNCHANGED serverVars
    BY <1>2, <1>4, <2>2, CallsFailOnlyWhenDown DEF Quiet, serverVars
  <2> QED
    BY <2>1, <2>2 DEF Seed
<1>6. /\ InHand(l) <=> paramUp[b]
      /\ ~InHand(l)'
  BY <1>1 DEF InHand, Replacing
<1>7. chosen[l] # NoPair
  BY <1>2, Constants DEF NoPair
<1>8. modelBar = IF paramUp[p] \/ paramUp[b] THEN Epochs(read[l]) ELSE NoFile
  BY <1>2, <1>3, <1>4, <1>6, ModelBefore DEF Servers
<1>9. modelBar' = IF paramUp[p] \/ paramUp[b] THEN Epochs(read[l]) ELSE NoFile
  BY <1>1, <1>5, <1>6, <1>7, ModelAfter
<1> QED
  BY <1>1, <1>8, <1>9 DEF M!vars

\* What a leader writes adds its present epoch to what it has read.
LEMMA UpdatedEpochs ==
    ASSUME NEW l \in Leader, Quiet(l), epoch[l] < MaxEpochs
    PROVE  /\ Epochs(Updated(l)) = Append(Epochs(read[l]), epoch[l])
           /\ Epochs(read[l]) # NoFile
<1> DEFINE u == [by |-> l, epoch |-> epoch[l]]
<1>1. read[l] \in Seq(Update)
  BY FineIsSeq DEF Quiet, Inv, ValuesInv
<1>2. epoch[l] \in 0 .. MaxEpochs - 1
  BY Constants DEF Quiet, Inv, LeadersInv
<1>3. u \in Update /\ u.epoch = epoch[l]
  BY <1>2 DEF Update
<1> HIDE DEF u
<1>4. Updated(l) = Append(read[l], u)
  BY DEF Updated, u
<1> QED
  BY <1>1, <1>3, <1>4, EpochsAppend, EpochsType

\* A write under way is of an epoch that is to be trained.
LEMMA WriteEpoch ==
    ASSUME NEW l \in Leader, Quiet(l), writes # {}
    PROVE  epoch[l] < MaxEpochs
<1>1. PICK w \in writes : TRUE
  OBVIOUS
<1>2. w.value \in Seq(Update) /\ Has(w.value, l, epoch[l])
  BY OneWrite, FineIsSeq DEF Quiet, Inv, ValuesInv
<1>3. [by |-> l, epoch |-> epoch[l]] \in Update
  <2>1. PICK i \in DOMAIN w.value : w.value[i] = [by |-> l, epoch |-> epoch[l]]
    BY <1>2 DEF Has
  <2> HIDE DEF Update
  <2>2. w.value[i] \in Update
    BY <1>2
  <2> QED
    BY <2>1, <2>2
<1>4. epoch[l] \in 0 .. MaxEpochs - 1
  BY <1>3, UpdateIs, Constants DEF OldUpdate
<1> QED
  BY <1>4, Constants

\* The update is in the model once the server it is read from has it.
LEMMA HandlerModel ==
    ASSUME NEW l \in Leader, l = TheLeader, Quiet(l), NEW w \in writes,
           RunReplicate(w) \/ RunApply(w)
    PROVE  [M!Next]_(M!vars)
<1>1. /\ UNCHANGED <<paramUp, view, epoch>>
      /\ params \in [Node -> Fine] /\ pc \in [Leader -> Place]
  BY DEF RunReplicate, RunApply, Replicated, ReplicationFails, ReplicateParams, Apply, loopVars,
         Quiet, Inv, ValuesInv, LeadersInv
<1>2. /\ w.from = l /\ w.at = view[l].primary /\ w.backup = view[l].backup
      /\ w.value = Updated(l) /\ w.at # w.backup /\ w.at \in Node /\ w.backup \in Node
      /\ pc[l] \in {"writing", "stopped"} /\ view[l] # NoPair
  BY OneWrite
<1>3. /\ paramUp[w.at] => params[w.at] = read[l]
      /\ paramUp[w.backup] =>
            params[w.backup] = IF w.stage = "replicate" THEN read[l] ELSE w.value
  BY DEF Quiet, Safe, ServersAgree
<1>4. /\ Epochs(w.value) = Append(Epochs(read[l]), epoch[l])
      /\ Epochs(read[l]) # NoFile
  BY <1>2, WriteEpoch, UpdatedEpochs
<1>5. pc'[l] \in {pc[l], "save", "recover"}
  BY <1>1, <1>2 DEF RunReplicate, RunApply, Answer
<1>6. InHand(l)' = InHand(l) /\ ~InHand(l)
  BY <1>2, <1>5 DEF InHand, Replacing
<1>7. CASE UNCHANGED params
  BY <1>1, <1>6, <1>7, ModelStays
<1>8. CASE w.stage = "replicate" /\ params' = [params EXCEPT ![w.backup] = w.value] /\ paramUp[w.backup]
  <2>1. params'[w.backup] = w.value /\ params'[w.at] = params[w.at]
    BY <1>1, <1>2, <1>8
  <2>2. CASE paramUp[w.at]
    BY <1>1, <1>2, <2>1, <2>2, ModelBefore, ModelAfter DEF M!vars
  <2>3. CASE ~paramUp[w.at]
    <3>1. modelBar = Epochs(read[l]) /\ modelBar' = Epochs(w.value)
      BY <1>1, <1>2, <1>3, <1>8, <2>1, <2>3, ModelBefore, ModelAfter
    <3> QED
      BY <1>1, <1>4, <3>1 DEF M!Next, M!Update
  <2> QED
    BY <2>2, <2>3
<1>9. CASE w.stage = "apply" /\ params' = [params EXCEPT ![w.at] = w.value]
  <2>1. params'[w.at] = w.value /\ params'[w.backup] = params[w.backup]
    BY <1>1, <1>2, <1>9
  <2>2. CASE paramUp[w.at]
    <3>1. modelBar = Epochs(read[l]) /\ modelBar' = Epochs(w.value)
      BY <1>1, <1>2, <1>3, <2>1, <2>2, ModelBefore, ModelAfter
    <3> QED
      BY <1>1, <1>4, <3>1 DEF M!Next, M!Update
  <2>3. CASE ~paramUp[w.at]
    BY <1>1, <1>2, <1>6, <2>1, <2>3, ModelBefore, ModelAfter DEF M!vars
  <2> QED
    BY <2>2, <2>3
<1>10. ~Lose
  BY CallsFailOnlyWhenDown DEF Quiet
<1> QED
  BY <1>7, <1>8, <1>9, <1>10 DEF RunReplicate, RunApply, Replicated, ReplicationFails, ReplicateParams,
     Apply, Reached

\* When the primary dies the model is where the backup is, further than the
\* primary by the write under way at most.
LEMMA ServerDiesModel ==
    ASSUME NEW l \in Leader, l = TheLeader, Quiet(l), NEW n \in Node, KillParam(n) \/ CrashParam(n)
    PROVE  [M!Next]_(M!vars)
<1>1. /\ UNCHANGED <<params, view, epoch, read, chosen>>
      /\ paramUp' = [paramUp EXCEPT ![n] = FALSE] /\ paramUp \in [Node -> BOOLEAN]
  BY DEF KillParam, CrashParam, KillServer, CrashServer, loopVars, Quiet, Inv, RolesInv
<1>2. paramUp[n] /\ ~paramUp'[n] /\ \A m \in Node \ {n} : paramUp'[m] = paramUp[m]
  BY <1>1 DEF KillParam, CrashParam, MayFail
<1> DEFINE p == view[l].primary
           b == view[l].backup
<1>3. view[l] # NoPair => p \in Node /\ b \in Node /\ p # b
  BY DEF Quiet, Safe, RolesKept, Servers
<1>4. InHand(l)' => InHand(l)
  <2>1. pc'[l] \in {pc[l], "recover"}
    <3>1. CASE KillParam(n)
      BY <3>1 DEF KillParam
    <3>2. CASE CrashParam(n)
      BY <3>2 DEF CrashParam
    <3> QED
      BY <3>1, <3>2
  <2>2. pc[l] \in Replacing => chosen[l].backup \in Node
    BY DEF Quiet, Inv, LeadersInv, Consistent, Whole, Replacing
  <2> QED
    BY <1>1, <1>2, <2>1, <2>2 DEF InHand, Replacing
<1>5. InHand(l) => \A m \in Servers(l) : paramUp[m] => params[m] = read[l]
  BY DEF Quiet, Safe, ServersAgree, InHand, Holding
<1>6. CASE view[l] = NoPair \/ n \notin Servers(l)
  <2>1. CASE paramUp[p] \/ paramUp[b] \/ view[l] = NoPair
    BY <1>1, <1>2, <1>3, <1>6, <2>1, ModelBefore, ModelAfter DEF Servers, M!vars
  <2>2. CASE ~paramUp[p] /\ ~paramUp[b] /\ view[l] # NoPair
    <3>1. modelBar' \in {modelBar, NoFile}
      BY <1>1, <1>2, <1>3, <1>4, <1>6, <2>2, ModelBefore, ModelAfter DEF Servers
    <3> QED
      BY <1>1, <3>1 DEF M!Next, M!Lose, M!vars
  <2> QED
    BY <2>1, <2>2
<1>7. CASE view[l] # NoPair /\ n = p /\ paramUp[b]
  <2>1. modelBar = Epochs(params[p]) /\ modelBar' = Epochs(params[b])
    BY <1>1, <1>2, <1>3, <1>7, ModelBefore, ModelAfter
  <2>2. CASE params[p] = params[b]
    BY <1>1, <2>1, <2>2 DEF M!vars
  <2>3. ASSUME NEW w \in writes, params[p] # params[b]
        PROVE  M!Next
    <3>1. /\ w.at = p /\ w.backup = b /\ w.value = Updated(l)
          /\ params[w.at] = read[l]
          /\ params[w.backup] = IF w.stage = "replicate" THEN read[l] ELSE w.value
      BY <1>2, <1>7 DEF Quiet, Safe, ServersAgree
    <3>2. modelBar' = Append(modelBar, epoch[l]) /\ modelBar # NoFile
      BY <2>1, <2>3, <3>1, WriteEpoch, UpdatedEpochs
    <3> QED
      BY <1>1, <3>2 DEF M!Next, M!Update
  <2> QED
    BY <1>2, <1>7, <2>2, <2>3 DEF Quiet, Safe, ServersAgree, Servers
<1>8. CASE view[l] # NoPair /\ n \in Servers(l) /\ (n = p => ~paramUp[b])
  <2>1. CASE n = b /\ paramUp[p]
    BY <1>1, <1>2, <1>3, <1>8, <2>1, ModelBefore, ModelAfter DEF M!vars
  <2>2. CASE ~paramUp'[p] /\ ~paramUp'[b]
    <3>1. modelBar = Epochs(params[n])
      BY <1>1, <1>2, <1>3, <1>8, <2>2, ModelBefore DEF Servers
    <3>2. modelBar' = IF InHand(l)' THEN Epochs(read[l]) ELSE NoFile
      BY <1>1, <1>8, <2>2, ModelAfter
    <3>3. modelBar' \in {modelBar, NoFile}
      BY <1>2, <1>4, <1>5, <1>8, <3>1, <3>2
    <3> QED
      BY <1>1, <3>3 DEF M!Next, M!Lose, M!vars
  <2> QED
    BY <1>2, <1>3, <1>8, <2>1, <2>2 DEF Servers
<1> QED
  BY <1>6, <1>7, <1>8 DEF Servers

\* A model in the hands of a leader dies with it.
LEMMA CrashLeaderModel ==
    ASSUME NEW l \in Leader, l = TheLeader, Quiet(l), CrashLeader(l)
    PROVE  [M!Next]_(M!vars)
<1>1. pc'[l] = "stopped" /\ UNCHANGED <<params, paramUp, view, epoch, read>>
  BY DEF CrashLeader, Goto, Quiet, Inv, LeadersInv
<1>2. ~InHand(l)'
  BY <1>1 DEF InHand, Replacing
<1>3. modelBar' \in {modelBar, NoFile}
  BY <1>1, <1>2, ModelBefore, ModelAfter
<1> QED
  BY <1>1, <1>3 DEF M!Next, M!Lose, M!vars

LEMMA OthersModel ==
    ASSUME NEW l \in Leader, l = TheLeader, Quiet(l),
           \/ \E k \in Leader : KillLeader(k)
           \/ \E n \in Node : KillWorker(n)
           \/ \E k \in Leader \ {l} : CrashLeader(k)
           \/ UNCHANGED vars
    PROVE  UNCHANGED M!vars
<1>1. UNCHANGED <<params, paramUp, view, epoch, read, chosen>>
  BY DEF KillLeader, KillWorker, CrashLeader, vars, serverVars, loopVars
<1>2. pc'[l] = pc[l]
  BY DEF KillLeader, KillWorker, CrashLeader, Goto, vars, Quiet, Inv, LeadersInv
<1>3. InHand(l)' = InHand(l)
  BY <1>1, <1>2 DEF InHand
<1> QED
  BY <1>1, <1>3, ModelStays

\* Every step of the system is one of the model, or leaves it alone.
LEMMA StepModel ==
    ASSUME NEW l \in Leader, l = TheLeader, Quiet(l), [Next]_vars
    PROVE  [M!Next]_(M!vars)
<1>1. CASE EpochLoop(l)
  BY <1>1, SetModel, EpochModel, CompleteModel, ProbeModel, FindSpareModel, SeedModel DEF EpochLoop
<1>2. CASE \E p, b \in Node : BecomeLeader(l, p, b)
  BY <1>2, BecomeLeaderModel
<1>3. CASE WriteParams
  BY <1>3, HandlerModel DEF WriteParams
<1>4. CASE Failure
  <2>1. ~AbandonWrite(l)
    BY CallsFailOnlyWhenDown DEF AbandonWrite, Quiet
  <2> QED
    BY <1>4, <2>1, OnlyOneLoops, OthersModel, CrashLeaderModel, ServerDiesModel DEF Failure
<1>5. CASE UNCHANGED vars
  BY <1>5, OthersModel
<1> QED
  BY <1>1, <1>2, <1>3, <1>4, <1>5, OnlyOneLoops DEF Next

LEMMA InitModel == Init => M!Init
BY TheLeaderLeads DEF Init, ServerInit, M!Init, modelBar

LEMMA NextModel ==
    Inv /\ AloneSafe /\ Alone(TheLeader) /\ Alone(TheLeader)' /\ [Next]_vars
        => [M!Next]_(M!vars)
<1> SUFFICES ASSUME Inv, AloneSafe, Alone(TheLeader), Alone(TheLeader)', [Next]_vars
             PROVE  [M!Next]_(M!vars)
  OBVIOUS
<1>1. Quiet(TheLeader)
  BY TheLeaderLeads DEF Quiet, AloneSafe, Alone
<1> QED
  BY <1>1, TheLeaderLeads, StepModel

\* While one node leads and no call is lost, the epoch loop keeps its promise: an
\* update is added to all the earlier ones, an epoch completes only when the
\* model has its update, and the model is lost only with the servers.
THEOREM ModelCorrect == Spec /\ []Alone(TheLeader) => ModelSpec
<1>1. Spec => []Inv /\ []AloneSafe
  BY Invariance, AloneSafeCorrect, PTL
<1>2. ModelSpec <=> M!Init /\ [][M!Next]_(M!vars)
  BY DEF ModelSpec, M!Spec
<1> QED
  BY <1>1, <1>2, InitModel, NextModel, PTL DEF Spec

\* In particular in a system with one leader and a network that loses no call.
THEOREM ModelCorrectAlone ==
    ASSUME Leader = {TheLeader}, MaxLost = 0
    PROVE  Spec => ModelSpec
<1>1. Inv => Alone(TheLeader)
  BY DEF Inv, OthersInv, Alone
<1> QED
  BY <1>1, Invariance, ModelCorrect, PTL
=============================================================================
