--------------------------- MODULE RecoveryProofs ---------------------------
(***************************************************************************)
(* Proofs about Training while one node leads and no call is lost: however *)
(* servers, workers and the leader fail, for any number of nodes and of    *)
(* epochs, no completed epoch is lost by a server that still answers, no   *)
(* checkpoint of this run lacks an epoch it should have, and the           *)
(* checkpoints of earlier runs, which the disks may hold, are never        *)
(* trained on.                                                             *)
(*                                                                         *)
(* The heart of it is that a call then fails only when the server is down: *)
(* a leader never gives up a server that could answer later with less, and *)
(* of two servers that answer neither has what the other lacks, but for    *)
(* the one write under way.                                                *)
(***************************************************************************)
EXTENDS TrainingProofs

\* A step while l is the only one that leads.
Quiet(l) ==
    /\ Inv /\ Safe(l)
    /\ lost = 0 /\ lost' = 0
    /\ \A k \in Leader \ {l} : view[k] = NoPair /\ view'[k] = NoPair

LEMMA CallsFailOnlyWhenDown ==
    ASSUME lost = 0, lost' = 0
    PROVE  /\ ~Lose
           /\ \A n \in Node : (Unreached(n) => ~paramUp[n]) /\ (Reached(n) => paramUp[n])
BY DEF Lose, Unreached, Reached

\* A leader in its loop, or assigning roles, trains through two servers.
LEMMA TwoServers ==
    ASSUME Inv, NEW l \in Leader, pc[l] \notin {"follower"} \cup Finished
    PROVE  /\ view[l].primary \in Node /\ view[l].backup \in Node
           /\ Servers(l) \subseteq Node /\ NoNode \notin Servers(l) /\ view[l] # NoPair
<1>1. Whole(view[l])
  BY DEF Inv, LeadersInv, Consistent
<1> QED
  BY <1>1, Constants DEF Whole, Servers, NoPair

\* What a leader writes comes from an earlier run only if what it has read does.
LEMMA UpdatedNotOld ==
    ASSUME NEW l \in Leader, Inv, ~Old(read[l])
    PROVE  ~Old(Updated(l))
<1> DEFINE u == [by |-> l, epoch |-> epoch[l]]
           v == read[l]
<1>1. v \in Seq(Update) /\ Updated(l) = Append(v, u)
  BY FineIsSeq DEF Inv, ValuesInv, Updated
<1>2. /\ DOMAIN Append(v, u) = 1 .. Len(v) + 1 /\ Len(v) \in Nat /\ DOMAIN v = 1 .. Len(v)
      /\ \A i \in 1 .. Len(v) : Append(v, u)[i] = v[i]
      /\ Append(v, u)[Len(v) + 1] = u
  BY <1>1
<1>3. u # OldUpdate
  BY Constants DEF OldUpdate
<1> HIDE DEF u, v
<1>4. ~Old(v)
  BY DEF v
<1> QED
  BY <1>1, <1>2, <1>3, <1>4 DEF Old

\* The leader moves on, perhaps with what it has just read or chosen; nothing
\* else changes.
LEMMA GoesOn ==
    ASSUME NEW l \in Leader, Quiet(l), NEW where \in Place, Goto(l, where),
           pc[l] \in Assigning \cup InEpoch \cup Recovering, pc[l] # "writing",
           UNCHANGED <<params, checkpoint, paramUp, writes, view, epoch>>,
           RolesKept(l)', FailuresReal(l)',
           where \in FromServer => HasCompleted(read'[l], l) /\ ~Old(read'[l]),
           where \in Holding => \A n \in Servers(l) : paramUp[n] => params[n] = read'[l],
           where \notin {"save", "saveBackup", "complete"},
           where \in Assigning => pc[l] \in Assigning
    PROVE  Safe(l)'
<1>1. pc' = [pc EXCEPT ![l] = where] /\ pc'[l] = where /\ writes = {}
  BY DEF Goto, Quiet, Inv, LeadersInv, Safe, ServersAgree, Place, Assigning, InEpoch, Recovering
<1>2. ServersAgree(l)'
  BY <1>1 DEF Quiet, Safe, ServersAgree, Servers
<1>3. EpochsKept(l)'
  BY <1>1 DEF Quiet, Safe, EpochsKept, HasCompleted, Servers
<1>4. CheckpointsKept(l)'
  BY <1>1 DEF Quiet, Safe, CheckpointsKept, Servers
<1>5. OldUnused(l)'
  BY <1>1 DEF Quiet, Safe, OldUnused
<1> QED
  BY <1>2, <1>3, <1>4, <1>5 DEF Safe

\* A server that answers has all completed epochs, of this run.
LEMMA ServersHave ==
    ASSUME NEW l \in Leader, Quiet(l), pc[l] \notin {"follower"} \cup Finished,
           NEW n \in Servers(l), paramUp[n]
    PROVE  HasCompleted(params[n], l) /\ ~Old(params[n])
BY TwoServers DEF Quiet, Safe, EpochsKept, OldUnused

LEMMA StopSafe ==
    ASSUME NEW l \in Leader, Quiet(l), StopLoop(l)
    PROVE  Safe(l)'
<1>1. pc[l] = "fetch" /\ Goto(l, "stopped") /\ UNCHANGED <<serverVars, loopVars>>
  BY DEF StopLoop
<1>2. pc' = [pc EXCEPT ![l] = "stopped"] /\ pc'[l] = "stopped"
  BY <1>1 DEF Goto, Quiet, Inv, LeadersInv
<1>3. RolesKept(l)' /\ FailuresReal(l)'
  BY <1>1, <1>2 DEF Quiet, Safe, RolesKept, FailuresReal, loopVars, serverVars, Servers,
     Assigning, Replacing, InEpoch, Recovering
<1> QED
  BY <1>1, <1>3, GoesOn DEF serverVars, loopVars, Place, Finished, InEpoch, Holding, FromServer, Replacing, Assigning

LEMMA FetchSafe ==
    ASSUME NEW l \in Leader, Quiet(l), FetchPrimary(l) \/ FetchBackup(l)
    PROVE  Safe(l)'
<1>1. /\ pc[l] \in {"fetch", "fetchBackup"}
      /\ UNCHANGED <<serverVars, view, epoch, chosen>>
  BY DEF FetchPrimary, FetchBackup
<1>2. /\ view[l].primary \in Node /\ view[l].backup \in Node /\ Servers(l) \subseteq Node
      /\ writes = {} /\ view[l] # NoPair
  BY <1>1, TwoServers DEF Quiet, Finished, Safe, ServersAgree
<1>3. ASSUME NEW n \in Servers(l), paramUp[n], read' = [read EXCEPT ![l] = params[n]],
             Goto(l, "delegate")
      PROVE  Safe(l)'
  <2>1. read'[l] = params[n] /\ pc'[l] = "delegate"
    BY <1>3 DEF Quiet, Inv, ValuesInv, LeadersInv, Goto
  <2>2. HasCompleted(params[n], l) /\ ~Old(params[n])
    BY <1>1, <1>3, ServersHave DEF Finished
  <2>3. \A m \in Servers(l) : paramUp[m] => params[m] = params[n]
    BY <1>2, <1>3 DEF Quiet, Safe, ServersAgree
  <2>4. RolesKept(l)' /\ FailuresReal(l)'
    BY <1>1, <2>1 DEF Quiet, Safe, RolesKept, FailuresReal, serverVars, Servers,
       Assigning, Replacing, InEpoch, Recovering
  <2> QED
    BY <1>1, <1>3, <2>1, <2>2, <2>3, <2>4, GoesOn
    DEF serverVars, Place, InEpoch, Assigning, FromServer, Replacing
<1>4. ASSUME NEW where \in {"fetchBackup", "fetchCheckpoint"}, Goto(l, where),
             ~paramUp[view[l].primary],
             where = "fetchCheckpoint" => ~paramUp[view[l].backup]
      PROVE  Safe(l)'
  <2>1. pc'[l] = where
    BY <1>4 DEF Quiet, Inv, LeadersInv, Goto
  <2>2. RolesKept(l)' /\ FailuresReal(l)'
    BY <1>1, <1>4, <2>1 DEF Quiet, Safe, RolesKept, FailuresReal, serverVars, Servers,
       Assigning, Replacing, InEpoch, Recovering
  <2> QED
    BY <1>1, <1>4, <2>2, GoesOn DEF serverVars, Place, InEpoch, Assigning, Holding, FromServer, Replacing
<1>5. CASE FetchPrimary(l)
  <2>1. CASE paramUp[view[l].primary] /\ Obtain(l, params[view[l].primary], 0)
    BY <1>3, <2>1, CallsFailOnlyWhenDown DEF Obtain, LoseCalls, Servers, Quiet
  <2>2. CASE Unreached(view[l].primary) /\ Goto(l, "fetchBackup")
    BY <1>2, <1>4, <2>2, CallsFailOnlyWhenDown DEF Quiet
  <2> QED
    BY <1>5, <2>1, <2>2 DEF FetchPrimary
<1>6. CASE FetchBackup(l)
  <2>1. CASE paramUp[view[l].backup] /\ Obtain(l, params[view[l].backup], 0)
    BY <1>3, <2>1, CallsFailOnlyWhenDown DEF Obtain, LoseCalls, Servers, Quiet
  <2>2. CASE Unreached(view[l].backup) /\ Goto(l, "fetchCheckpoint")
    <3>1. ~paramUp[view[l].primary] /\ ~paramUp[view[l].backup]
      BY <1>2, <1>6, <2>2, CallsFailOnlyWhenDown DEF Quiet, Safe, FailuresReal, FetchBackup
    <3> QED
      BY <1>4, <2>2, <3>1
  <2> QED
    BY <1>6, <2>1, <2>2 DEF FetchBackup
<1> QED
  BY <1>5, <1>6

\* A leader that looks for a checkpoint has found both servers down: it may find
\* one of an earlier run, but nobody to write to.
LEMMA FetchCheckpointSafe ==
    ASSUME NEW l \in Leader, Quiet(l), FetchCheckpoint(l)
    PROVE  Safe(l)'
<1>1. /\ pc[l] = "fetchCheckpoint"
      /\ UNCHANGED <<serverVars, view, epoch, chosen>>
  BY DEF FetchCheckpoint
<1>2. PICK where \in {"delegate", "recover"} : Goto(l, where)
  BY DEF FetchCheckpoint, Obtain
<1>3. Servers(l) \subseteq Node /\ \A n \in Servers(l) : ~paramUp[n]
  BY <1>1, TwoServers DEF Quiet, Safe, FailuresReal, Finished, Servers
<1>4. pc'[l] = where
  BY <1>2 DEF Quiet, Inv, LeadersInv, Goto
<1>5. RolesKept(l)' /\ FailuresReal(l)'
  BY <1>1, <1>3, <1>4 DEF Quiet, Safe, RolesKept, FailuresReal, serverVars, Servers,
     Assigning, Replacing, InEpoch, Recovering
<1> QED
  BY <1>1, <1>2, <1>3, <1>5, GoesOn
  DEF serverVars, Place, InEpoch, Recovering, Assigning, FromServer, Replacing

LEMMA DelegateSafe ==
    ASSUME NEW l \in Leader, Quiet(l), Delegate(l)
    PROVE  Safe(l)'
<1>1. /\ pc[l] = "delegate"
      /\ UNCHANGED <<serverVars, view, epoch, chosen, read>>
  BY DEF Delegate
<1>2. PICK where \in {"write", "fetch"} : Goto(l, where)
  BY DEF Delegate
<1>3. pc'[l] = where
  BY <1>2 DEF Quiet, Inv, LeadersInv, Goto
<1>4. RolesKept(l)' /\ FailuresReal(l)'
  BY <1>1, <1>3 DEF Quiet, Safe, RolesKept, FailuresReal, serverVars, Servers,
     Assigning, Replacing, InEpoch, Recovering
<1>5. \A n \in Servers(l) : paramUp[n] => params[n] = read[l]
  BY <1>1 DEF Quiet, Safe, ServersAgree, Holding
<1> QED
  BY <1>1, <1>2, <1>4, <1>5, GoesOn DEF serverVars, Place, InEpoch, Assigning, FromServer, Replacing

LEMMA ProbeSafe ==
    ASSUME NEW l \in Leader, Quiet(l), ProbePrimary(l) \/ ProbeBackup(l)
    PROVE  Safe(l)'
<1>1. /\ pc[l] \in {"recover", "probeBackup"}
      /\ UNCHANGED <<serverVars, view, epoch>>
  BY DEF ProbePrimary, ProbeBackup
<1>2. /\ view[l].primary \in Node /\ view[l].backup \in Node /\ Servers(l) \subseteq Node
      /\ writes = {} /\ view[l] # NoPair
  BY <1>1, TwoServers DEF Quiet, Finished, Safe, ServersAgree
<1>3. ASSUME NEW n \in Servers(l), paramUp[n], \A m \in Servers(l) \ {n} : ~paramUp[m],
             read' = [read EXCEPT ![l] = params[n]],
             chosen' = [chosen EXCEPT ![l].primary = n], Goto(l, "findSpare")
      PROVE  Safe(l)'
  <2>1. read'[l] = params[n] /\ pc'[l] = "findSpare" /\ chosen'[l].primary = n
    BY <1>3 DEF Quiet, Inv, ValuesInv, LeadersInv, Goto, Pair
  <2>2. HasCompleted(params[n], l) /\ ~Old(params[n])
    BY <1>1, <1>3, ServersHave DEF Finished
  <2>3. RolesKept(l)' /\ FailuresReal(l)'
    BY <1>1, <1>3, <2>1 DEF Quiet, Safe, RolesKept, FailuresReal, serverVars, Servers,
       Assigning, Replacing, InEpoch, Recovering
  <2> QED
    BY <1>1, <1>3, <2>1, <2>2, <2>3, GoesOn DEF serverVars, Place, Recovering, Assigning
<1>4. ASSUME NEW where \in {"probeBackup", "fetch"}, Goto(l, where),
             UNCHANGED chosen, where = "probeBackup" => ~paramUp[view[l].primary]
      PROVE  Safe(l)'
  <2>1. pc'[l] = where
    BY <1>4 DEF Quiet, Inv, LeadersInv, Goto
  <2>2. RolesKept(l)' /\ FailuresReal(l)'
    BY <1>1, <1>4, <2>1 DEF Quiet, Safe, RolesKept, FailuresReal, serverVars, Servers,
       Assigning, Replacing, InEpoch, Recovering
  <2> QED
    BY <1>1, <1>4, <2>2, GoesOn DEF serverVars, Place, InEpoch, Recovering, Assigning, Holding, FromServer, Replacing
<1>5. CASE ProbePrimary(l)
  <2>1. CASE Unreached(view[l].primary)
    BY <1>2, <1>4, <1>5, <2>1, CallsFailOnlyWhenDown DEF Quiet, ProbePrimary
  <2>2. CASE Reached(view[l].primary)
    <3>1. paramUp[view[l].primary] /\ \A m \in Servers(l) \ {view[l].primary} : ~paramUp[m]
      BY <1>2, <1>5, <2>2 DEF Reached, Quiet, Safe, FailuresReal, ProbePrimary, Servers
    <3> QED
      BY <1>2, <1>3, <1>5, <2>2, <3>1, CallsFailOnlyWhenDown DEF Quiet, ProbePrimary, Servers
  <2> QED
    BY <1>5, <2>1, <2>2 DEF ProbePrimary
<1>6. CASE ProbeBackup(l)
  <2>1. CASE Unreached(view[l].backup)
    BY <1>4, <1>6, <2>1, CallsFailOnlyWhenDown, <1>2 DEF Quiet, ProbeBackup
  <2>2. CASE Reached(view[l].backup)
    <3>1. paramUp[view[l].backup] /\ \A m \in Servers(l) \ {view[l].backup} : ~paramUp[m]
      BY <1>6, <2>2 DEF Reached, Quiet, Safe, FailuresReal, ProbeBackup, Servers
    <3> QED
      BY <1>2, <1>3, <1>6, <2>2, <3>1, CallsFailOnlyWhenDown DEF Quiet, ProbeBackup, Servers
  <2> QED
    BY <1>6, <2>1, <2>2 DEF ProbeBackup
<1> QED
  BY <1>5, <1>6

LEMMA FindSpareSafe ==
    ASSUME NEW l \in Leader, Quiet(l), FindSpare(l)
    PROVE  Safe(l)'
<1>1. /\ pc[l] = "findSpare"
      /\ UNCHANGED <<serverVars, view, epoch, read>>
  BY DEF FindSpare
<1>2. /\ HasCompleted(read[l], l) /\ ~Old(read[l])
      /\ \A n \in Servers(l) : paramUp[n] => params[n] = read[l]
  BY <1>1 DEF Quiet, Safe, EpochsKept, OldUnused, ServersAgree, Holding, FromServer
<1>3. ASSUME NEW n \in Node, n # chosen[l].primary,
             chosen' = [chosen EXCEPT ![l].backup = n], Goto(l, "promotePrimary")
      PROVE  Safe(l)'
  <2>1. /\ pc'[l] = "promotePrimary" /\ chosen'[l].primary = chosen[l].primary
        /\ chosen'[l].backup = n
    BY <1>3 DEF Quiet, Inv, LeadersInv, Goto, Pair
  <2>2. RolesKept(l)' /\ FailuresReal(l)'
    BY <1>1, <1>3, <2>1 DEF Quiet, Safe, RolesKept, FailuresReal, serverVars, Servers,
       Assigning, Replacing, InEpoch, Recovering
  <2> QED
    BY <1>1, <1>2, <1>3, <2>2, GoesOn DEF serverVars, Place, Recovering, Assigning
<1>4. ASSUME UNCHANGED chosen, Goto(l, "fetch")
      PROVE  Safe(l)'
  <2>1. pc'[l] = "fetch"
    BY <1>4 DEF Quiet, Inv, LeadersInv, Goto
  <2>2. RolesKept(l)' /\ FailuresReal(l)'
    BY <1>1, <1>4, <2>1 DEF Quiet, Safe, RolesKept, FailuresReal, serverVars, Servers,
       Assigning, Replacing, InEpoch, Recovering
  <2> QED
    BY <1>1, <1>4, <2>2, GoesOn DEF serverVars, Place, InEpoch, Recovering, Assigning, Holding, FromServer, Replacing
<1> QED
  BY <1>3, <1>4 DEF FindSpare

\* A node that leads first gives their roles to two servers that hold nothing.
LEMMA BecomeLeaderSafe ==
    ASSUME NEW l \in Leader, Quiet(l), NEW p \in Node, NEW b \in Node, BecomeLeader(l, p, b)
    PROVE  Safe(l)'
<1> DEFINE v == [primary |-> p, backup |-> b]
<1>1. /\ pc[l] = "follower" /\ pc'[l] = "assignPrimary" /\ pc' = [pc EXCEPT ![l] = "assignPrimary"]
      /\ view'[l] = v /\ chosen'[l] = v /\ view' = [view EXCEPT ![l] = v]
      /\ UNCHANGED <<serverVars, epoch, read>> /\ p # b
  BY DEF BecomeLeader, Goto, Quiet, Inv, LeadersInv
<1>2. view[l] = NoPair /\ writes = {} /\ \A n \in Node : params[n] = <<>>
  BY <1>1 DEF Quiet, Safe, RolesKept, ServersAgree
<1>3. v # NoPair /\ v.primary = p /\ v.backup = b
  BY Constants DEF NoPair
<1>4. \A n \in Node : ~(paramUp[n] /\ checkpoint[n] \notin {NoFile, OldRun})
  BY <1>2, Constants DEF Quiet, Safe, CheckpointsKept, Servers, NoPair
<1>5. \A k \in Leader : view[k] = NoPair => epoch[k] = 0
  BY DEF Quiet, Safe, EpochsKept
<1> HIDE DEF v
<1>6. RolesKept(l)' /\ FailuresReal(l)'
  BY <1>1, <1>3 DEF RolesKept, FailuresReal, Servers, Assigning, Replacing, InEpoch, Recovering
<1>7. ServersAgree(l)'
  BY <1>1, <1>2, <1>3 DEF ServersAgree, serverVars, Servers, Holding, Replacing
<1>8. EpochsKept(l)'
  <2>1. epoch'[l] = 0 /\ \A value : HasCompleted(value, l)'
    BY <1>1, <1>2, <1>5 DEF HasCompleted
  <2>2. \A k \in Leader : view'[k] = NoPair \/ pc'[k] \in Assigning => epoch'[k] = 0
    BY <1>1, <1>2, <1>5 DEF Quiet, Safe, EpochsKept, Inv, LeadersInv
  <2> QED
    BY <1>1, <2>1, <2>2 DEF EpochsKept, FromServer, Replacing
<1>9. CheckpointsKept(l)'
  BY <1>1, <1>4 DEF CheckpointsKept, serverVars
<1>10. OldUnused(l)'
  BY <1>1, <1>2 DEF Quiet, Safe, OldUnused, FromServer, Replacing, serverVars
<1> QED
  BY <1>6, <1>7, <1>8, <1>9, <1>10 DEF Safe

\* The roles are set, first and in a recovery; calls fail only at servers that
\* are down.
LEMMA SetSafe ==
    ASSUME NEW l \in Leader, Quiet(l), SetPrimary(l) \/ SetBackup(l)
    PROVE  Safe(l)'
<1>1. /\ pc[l] \in {"assignPrimary", "assignBackup", "promotePrimary", "promoteBackup"}
      /\ UNCHANGED <<params, checkpoint, paramUp, writes, view, epoch, chosen, read>>
  BY DEF SetPrimary, SetBackup, Call, SetRole, serverVars
<1>2. PICK where \in {"assignBackup", "promoteBackup", "fetch", "seed"} : Goto(l, where)
  BY DEF SetPrimary, SetBackup, Call
<1>3. /\ pc'[l] = where
      /\ where = "assignBackup" => pc[l] = "assignPrimary"
      /\ where = "promoteBackup" => pc[l] = "promotePrimary"
      /\ where = "fetch" => pc[l] = "assignBackup"
      /\ where = "seed" => pc[l] = "promoteBackup"
  BY <1>2 DEF SetPrimary, SetBackup, Call, Goto, Quiet, Inv, LeadersInv
<1>4. chosen[l].primary \in Node /\ chosen[l].backup \in Node
  BY <1>1 DEF Quiet, Inv, LeadersInv, Consistent, Whole, Assigning
<1>5. chosen[l].primary # chosen[l].backup /\ role \in [Node -> {"none", "primary", "backup"}]
      /\ backupAddr \in [Node -> Node \cup {NoNode}]
  BY <1>1 DEF Quiet, Safe, RolesKept, Assigning, Replacing, Inv, RolesInv
<1>6. ASSUME paramUp[chosen[l].primary]
      PROVE  role'[chosen[l].primary] = "primary" /\ backupAddr'[chosen[l].primary] = chosen[l].backup
  <2>1. CASE SetPrimary(l)
    BY <1>4, <1>5, <1>6, <2>1, CallsFailOnlyWhenDown DEF SetPrimary, Call, SetRole, Quiet
  <2>2. CASE SetBackup(l)
    <3>1. role[chosen[l].primary] = "primary" /\ backupAddr[chosen[l].primary] = chosen[l].backup
      BY <1>6, <2>2 DEF SetBackup, Quiet, Safe, RolesKept, Assigning, InEpoch, Recovering
    <3> QED
      BY <1>4, <1>5, <2>2, <3>1 DEF SetBackup, Call, SetRole, serverVars
  <2> QED
    BY <2>1, <2>2
<1>7. RolesKept(l)'
  BY <1>1, <1>3, <1>6 DEF Quiet, Safe, RolesKept, Servers, Assigning, Replacing, InEpoch, Recovering
<1>8. FailuresReal(l)'
  BY <1>1, <1>3 DEF Quiet, Safe, FailuresReal, Assigning, Replacing, InEpoch, Recovering, Servers
<1>9. /\ where \in FromServer => HasCompleted(read'[l], l) /\ ~Old(read'[l])
      /\ where \in Holding => \A n \in Servers(l) : paramUp[n] => params[n] = read'[l]
  BY <1>1, <1>3 DEF Quiet, Safe, EpochsKept, OldUnused, ServersAgree, Holding, FromServer, Replacing
<1> QED
  BY <1>1, <1>2, <1>3, <1>7, <1>8, <1>9, GoesOn
  DEF Place, Assigning, InEpoch, Recovering

-----------------------------------------------------------------------------
(* Writes *)

\* What a leader writes has what it has read, and its present epoch.
LEMMA UpdatedHas ==
    ASSUME NEW l \in Leader, LeadersInv, ValuesInv
    PROVE  /\ Has(Updated(l), l, epoch[l])
           /\ HasCompleted(read[l], l) => HasCompleted(Updated(l), l)
<1> DEFINE u == [by |-> l, epoch |-> epoch[l]]
           v == read[l]
<1>1. v \in Seq(Update) /\ Updated(l) = Append(v, u)
  BY FineIsSeq DEF ValuesInv, Updated
<1>2. /\ DOMAIN Append(v, u) = 1 .. Len(v) + 1 /\ Len(v) \in Nat /\ DOMAIN v = 1 .. Len(v)
      /\ \A i \in 1 .. Len(v) : Append(v, u)[i] = v[i]
      /\ Append(v, u)[Len(v) + 1] = u
  BY <1>1
<1>3. \A e : Has(v, l, e) => Has(Append(v, u), l, e)
  <2> HIDE DEF u, v
  <2> QED
    BY <1>2 DEF Has
<1>4. Has(Append(v, u), l, epoch[l])
  <2>1. Len(v) + 1 \in DOMAIN Append(v, u)
    BY <1>2
  <2> QED
    BY <1>2, <2>1 DEF Has
<1> QED
  BY <1>1, <1>3, <1>4 DEF HasCompleted

LEMMA CallWriteSafe ==
    ASSUME NEW l \in Leader, Quiet(l), CallWrite(l)
    PROVE  Safe(l)'
<1> DEFINE p == view[l].primary
           w == Write(l, p, Updated(l), lost)
<1>1. pc[l] = "write" /\ UNCHANGED <<view, epoch, read, chosen>>
  BY DEF CallWrite
<1>2. /\ p \in Node /\ view[l].backup \in Node /\ Servers(l) \subseteq Node
      /\ writes = {} /\ view[l] # NoPair /\ p # view[l].backup
  BY <1>1, TwoServers DEF Quiet, Finished, Safe, ServersAgree, RolesKept
<1>3. \A n \in Servers(l) : paramUp[n] => params[n] = read[l]
  BY <1>1 DEF Quiet, Safe, ServersAgree, Holding
<1>4. paramUp[p] => role[p] = "primary" /\ backupAddr[p] = view[l].backup
  BY <1>1 DEF Quiet, Safe, RolesKept, InEpoch
<1>5. CASE Unreached(p) /\ Goto(l, "recover") /\ UNCHANGED serverVars
  <2>1. pc'[l] = "recover" /\ ~paramUp[p]
    BY <1>2, <1>5, CallsFailOnlyWhenDown DEF Quiet, Inv, LeadersInv, Goto
  <2>2. RolesKept(l)' /\ FailuresReal(l)'
    BY <1>1, <1>5, <2>1 DEF Quiet, Safe, RolesKept, FailuresReal, serverVars, Servers,
       Assigning, Replacing, InEpoch, Recovering
  <2> QED
    BY <1>1, <1>5, <2>2, GoesOn
    DEF serverVars, Place, InEpoch, Recovering, Assigning, Holding, FromServer, Replacing
<1>6. CASE Reached(p) /\ Accepts(p) /\ BeginWrite(w) /\ Goto(l, "writing")
  <2>1. /\ pc'[l] = "writing" /\ pc' = [pc EXCEPT ![l] = "writing"] /\ writes' = {w}
        /\ UNCHANGED <<role, backupAddr, params, checkpoint, paramUp>>
    BY <1>2, <1>6 DEF BeginWrite, Quiet, Inv, LeadersInv, Goto
  <2>2. /\ w.from = l /\ w.at = p /\ w.backup = view[l].backup /\ w.value = Updated(l)
        /\ w.stage = "replicate"
    BY <1>4, <1>6 DEF Write, Reached
  <2> HIDE DEF w
  <2>3. RolesKept(l)' /\ FailuresReal(l)'
    BY <1>1, <2>1 DEF Quiet, Safe, RolesKept, FailuresReal, Servers,
       Assigning, Replacing, InEpoch, Recovering
  <2>4. ServersAgree(l)'
    <3>1. Updated(l)' = Updated(l)
      BY <1>1 DEF Updated
    <3> QED
      BY <1>1, <1>2, <1>3, <2>1, <2>2, <3>1 DEF ServersAgree, Servers, Holding, Replacing
  <2>5. HasCompleted(read[l], l) /\ ~Old(read[l])
    BY <1>1, <1>3, <1>6, ServersHave DEF Reached, Servers, Finished
  <2>6. EpochsKept(l)'
    BY <1>1, <2>1, <2>5 DEF Quiet, Safe, EpochsKept, HasCompleted, Servers, Assigning
  <2>7. OldUnused(l)'
    BY <1>1, <2>1, <2>5 DEF Quiet, Safe, OldUnused
  <2>8. CheckpointsKept(l)'
    BY <1>1, <2>1 DEF Quiet, Safe, CheckpointsKept, Servers
  <2> QED
    BY <2>3, <2>4, <2>6, <2>7, <2>8 DEF Safe
<1> QED
  BY <1>4, <1>5, <1>6 DEF CallWrite, Accepts, Reached

\* Only the leader's one write is under way.
LEMMA OneWrite ==
    ASSUME NEW l \in Leader, Quiet(l), NEW w \in writes
    PROVE  /\ writes = {w} /\ w.from = l /\ w.at = view[l].primary /\ w.backup = view[l].backup
           /\ w.value = Updated(l) /\ w.at # w.backup /\ w.at \in Node /\ w.backup \in Node
           /\ pc[l] \in {"writing", "stopped"} /\ (w.awaited => pc[l] = "writing")
           /\ w.stage \in {"replicate", "apply"} /\ view[l] # NoPair
           /\ HasCompleted(read[l], l) /\ Servers(l) = {w.at, w.backup}
           /\ Has(w.value, l, epoch[l]) /\ HasCompleted(w.value, l)
           /\ ~Old(read[l]) /\ ~Old(w.value)
<1>1. w \in WriteInFlight
  BY DEF Quiet, Inv, WritesInv
<1>2. /\ w.stage \in {"replicate", "apply"} /\ w.at \in Node /\ w.backup \in Node
  BY <1>1 DEF WriteInFlight
<1>3. /\ writes = {w} /\ w.from = l /\ w.at = view[l].primary /\ w.backup = view[l].backup
      /\ w.value = Updated(l) /\ pc[l] \in {"writing", "stopped"} /\ view[l] # NoPair
  BY DEF Quiet, Safe, ServersAgree
<1>4. w.awaited => pc[l] = "writing"
  BY <1>3 DEF Quiet, Inv, WritesInv
<1>5. w.at # w.backup
  BY <1>3 DEF Quiet, Safe, RolesKept
<1>6. HasCompleted(read[l], l) /\ ~Old(read[l])
  BY DEF Quiet, Safe, EpochsKept, OldUnused
<1>7. /\ Has(w.value, l, epoch[l]) /\ HasCompleted(w.value, l) /\ ~Old(w.value)
  BY <1>3, <1>6, UpdatedHas, UpdatedNotOld DEF Quiet, Inv
<1> QED
  BY <1>2, <1>3, <1>4, <1>5, <1>6, <1>7 DEF Servers

LEMMA HandlerSafe ==
    ASSUME NEW l \in Leader, Quiet(l), NEW w \in writes, RunReplicate(w) \/ RunApply(w)
    PROVE  Safe(l)'
<1>1. /\ UNCHANGED <<role, backupAddr, paramUp, checkpoint, view, epoch, read, chosen>>
      /\ params \in [Node -> Fine] /\ pc \in [Leader -> Place]
  BY DEF RunReplicate, RunApply, Replicated, ReplicationFails, ReplicateParams, Apply, loopVars,
         Quiet, Inv, ValuesInv, LeadersInv
<1>2. /\ writes = {w} /\ w.from = l /\ w.at = view[l].primary /\ w.backup = view[l].backup
      /\ w.value = Updated(l) /\ w.at # w.backup /\ w.at \in Node /\ w.backup \in Node
      /\ pc[l] \in {"writing", "stopped"} /\ (w.awaited => pc[l] = "writing")
      /\ w.stage \in {"replicate", "apply"} /\ view[l] # NoPair
      /\ HasCompleted(read[l], l) /\ Servers(l) = {w.at, w.backup}
      /\ Has(w.value, l, epoch[l]) /\ HasCompleted(w.value, l)
      /\ ~Old(read[l]) /\ ~Old(w.value) /\ \A n \in Node : ~Old(params[n])
  BY OneWrite DEF Quiet, Safe, OldUnused
<1>3. Updated(l)' = Updated(l) /\ Servers(l)' = Servers(l)
  BY <1>1 DEF Updated, Servers
<1>4. \A value : HasCompleted(value, l)' = HasCompleted(value, l)
  BY <1>1 DEF HasCompleted
<1>5. /\ paramUp[w.at] => params[w.at] = read[l]
      /\ paramUp[w.backup] =>
            params[w.backup] = IF w.stage = "replicate" THEN read[l] ELSE w.value
  BY DEF Quiet, Safe, ServersAgree
<1>6. \A k \in Leader : view[k] = NoPair \/ pc[k] \in Assigning => epoch[k] = 0
  BY DEF Quiet, Safe, EpochsKept
<1>7. CASE Reached(w.backup) /\ Replicated(w) /\ UNCHANGED pc /\ w.stage = "replicate"
  <2> DEFINE x == [w EXCEPT !.stage = "apply"]
  <2>1. /\ params' = [params EXCEPT ![w.backup] = w.value] /\ writes' = {x}
    BY <1>2, <1>7 DEF Replicated, ReplicateParams
  <2>2. /\ x.from = w.from /\ x.at = w.at /\ x.backup = w.backup /\ x.value = w.value
        /\ x.stage = "apply"
    BY DEF Quiet, Inv, WritesInv, WriteInFlight
  <2>3. /\ params'[w.backup] = w.value /\ params'[w.at] = params[w.at]
    BY <1>1, <1>2, <2>1
  <2> HIDE DEF x
  <2>4. RolesKept(l)' /\ FailuresReal(l)' /\ CheckpointsKept(l)'
    BY <1>1, <1>2, <1>3, <1>7 DEF Quiet, Safe, RolesKept, FailuresReal, CheckpointsKept, Saved
  <2>5. ServersAgree(l)'
    BY <1>1, <1>2, <1>3, <1>5, <1>7, <2>1, <2>2, <2>3 DEF ServersAgree, Holding, Replacing
  <2>6. EpochsKept(l)'
    BY <1>1, <1>2, <1>3, <1>4, <1>5, <1>6, <1>7, <2>1, <2>2, <2>3 DEF EpochsKept, FromServer, Replacing
  <2>7. OldUnused(l)'
    BY <1>1, <1>2, <2>1 DEF OldUnused
  <2> QED
    BY <2>4, <2>5, <2>6, <2>7 DEF Safe
<1>8. ASSUME NEW where \in {"save", "recover"}, Answer(w, where), writes' = {},
             where = "recover" => UNCHANGED params /\ ~paramUp[w.backup] /\ w.stage = "replicate",
             where = "save" => params' = [params EXCEPT ![w.at] = w.value] /\ w.stage = "apply"
      PROVE  Safe(l)'
  <2>1. /\ pc'[l] \in {where, pc[l]}
        /\ \A k \in Leader : pc'[k] \in Assigning => pc[k] \in Assigning
    BY <1>1, <1>2, <1>8 DEF Answer, Assigning
  <2>2. RolesKept(l)' /\ FailuresReal(l)'
    BY <1>1, <1>2, <1>3, <1>8, <2>1 DEF Answer, Quiet, Safe, RolesKept, FailuresReal,
       Assigning, Replacing, InEpoch, Recovering
  <2>3. /\ where = "save" => params'[w.at] = w.value /\ params'[w.backup] = params[w.backup]
        /\ where = "recover" => params'[w.at] = params[w.at] /\ ~paramUp[w.backup]
    BY <1>1, <1>2, <1>8
  <2>4. ServersAgree(l)'
    BY <1>1, <1>2, <1>3, <1>5, <1>8, <2>1, <2>3 DEF ServersAgree, Holding, Replacing
  <2>5. EpochsKept(l)'
    BY <1>1, <1>2, <1>3, <1>4, <1>5, <1>6, <1>8, <2>1, <2>3 DEF EpochsKept, FromServer, Replacing
  <2>6. CheckpointsKept(l)'
    BY <1>1, <1>2, <1>3, <1>8, <2>1 DEF Quiet, Safe, CheckpointsKept, Saved
  <2>7. OldUnused(l)'
    BY <1>1, <1>2, <1>8, <2>1 DEF OldUnused, FromServer, Replacing
  <2> QED
    BY <2>2, <2>4, <2>5, <2>6, <2>7 DEF Safe
<1>9. CASE RunReplicate(w)
  <2>1. CASE Unreached(w.backup) /\ ReplicationFails(w, FALSE) /\ Answer(w, "recover")
    <3>1. ~paramUp[w.backup]
      BY <1>2, <2>1, CallsFailOnlyWhenDown DEF Quiet
    <3> QED
      BY <1>2, <1>8, <1>9, <2>1, <3>1 DEF ReplicationFails, RunReplicate
  <2> QED
    BY <1>7, <1>9, <2>1, CallsFailOnlyWhenDown DEF RunReplicate, Quiet
<1>10. CASE RunApply(w)
  BY <1>2, <1>8, <1>10 DEF RunApply, Apply
<1> QED
  BY <1>9, <1>10

-----------------------------------------------------------------------------
(* The end of an epoch, and of a recovery *)

LEMMA SaveSafe ==
    ASSUME NEW l \in Leader, Quiet(l), Save(l)
    PROVE  Safe(l)'
<1> DEFINE n == IF pc[l] = "save" THEN view[l].primary ELSE view[l].backup
           where == IF pc[l] = "save" THEN "saveBackup" ELSE "complete"
<1>1. /\ pc[l] \in {"save", "saveBackup"} /\ SaveAt(l, n, where)
      /\ UNCHANGED <<role, backupAddr, params, paramUp, writes, view, epoch, read, chosen>>
  BY DEF Save, SaveAt, Checkpoint, serverVars
<1>2. /\ pc'[l] = where /\ pc' = [pc EXCEPT ![l] = where]
  BY <1>1 DEF SaveAt, Goto, Quiet, Inv, LeadersInv
<1>3. /\ n \in Node /\ n \in Servers(l) /\ view[l] # NoPair /\ view[l].primary # view[l].backup
      /\ Servers(l) = {view[l].primary, view[l].backup}
  BY <1>1, TwoServers DEF Finished, Servers, Quiet, Safe, RolesKept
<1>4. /\ Due(epoch[l]) /\ paramUp[n] => checkpoint' = [checkpoint EXCEPT ![n] = params[n]]
      /\ ~Due(epoch[l]) \/ ~paramUp[n] => UNCHANGED checkpoint
  BY <1>1, <1>3, CallsFailOnlyWhenDown DEF SaveAt, Checkpoint, Quiet, serverVars
<1>5. /\ \A m \in Servers(l) : paramUp[m] => HasCompleted(params[m], l) /\ Has(params[m], l, epoch[l])
  BY <1>1, ServersHave DEF Finished, Quiet, Safe, EpochsKept
<1>6. \A m \in Node : m # n => checkpoint'[m] = checkpoint[m]
  BY <1>4 DEF Quiet, Inv, ValuesInv
<1>7. Due(epoch[l]) /\ paramUp[n] => checkpoint'[n] = params[n]
  BY <1>3, <1>4 DEF Quiet, Inv, ValuesInv
<1> HIDE DEF n
<1>8. RolesKept(l)' /\ FailuresReal(l)'
  BY <1>1, <1>2 DEF Quiet, Safe, RolesKept, FailuresReal, Servers,
     Assigning, Replacing, InEpoch, Recovering
<1>9. ServersAgree(l)'
  BY <1>1, <1>2 DEF Quiet, Safe, ServersAgree, Servers, Holding, Replacing
<1>10. EpochsKept(l)'
  BY <1>1, <1>2 DEF Quiet, Safe, EpochsKept, HasCompleted, Servers, FromServer, Replacing, Assigning
<1>11. CheckpointsKept(l)'
  <2>1. ASSUME NEW m \in Node, paramUp[m], checkpoint'[m] \notin {NoFile, OldRun}
        PROVE  m \in Servers(l) /\ \A e \in 0 .. epoch[l]-1 : Due(e) => Has(checkpoint'[m], l, e)
    <3>1. CASE checkpoint'[m] = checkpoint[m]
      BY <2>1, <3>1 DEF Quiet, Safe, CheckpointsKept
    <3>2. CASE checkpoint'[m] # checkpoint[m]
      BY <1>3, <1>4, <1>5, <1>6, <1>7, <2>1, <3>2 DEF HasCompleted
    <3> QED
      BY <3>1, <3>2
  <2>2. Due(epoch[l]) /\ paramUp[n] => Has(checkpoint'[n], l, epoch[l])
    BY <1>3, <1>5, <1>7
  <2>3. /\ pc[l] = "saveBackup" => n = view[l].backup /\ pc'[l] = "complete"
        /\ pc[l] = "save" => n = view[l].primary /\ pc'[l] = "saveBackup"
    BY <1>2 DEF n
  <2>4. ASSUME pc[l] = "saveBackup", paramUp[view[l].primary], Due(epoch[l])
        PROVE  Has(checkpoint'[view[l].primary], l, epoch[l])
    BY <1>1, <1>3, <1>6, <2>3, <2>4, TwoServers DEF Quiet, Safe, CheckpointsKept, Saved, Finished
  <2> QED
    BY <1>1, <2>1, <2>2, <2>3, <2>4 DEF CheckpointsKept, Saved, Servers
<1>12. OldUnused(l)'
  BY <1>1, <1>2 DEF Quiet, Safe, OldUnused, FromServer, Replacing
<1> QED
  BY <1>8, <1>9, <1>10, <1>11, <1>12 DEF Safe

LEMMA CompleteSafe ==
    ASSUME NEW l \in Leader, Quiet(l), NEW improved \in BOOLEAN, Complete(l, improved)
    PROVE  Safe(l)'
<1>1. /\ pc[l] = "complete" /\ pc'[l] \in {"done", "fetch"}
      /\ \A k \in Leader : k # l => pc'[k] = pc[k] /\ epoch'[k] = epoch[k]
      /\ epoch'[l] = epoch[l] + 1 /\ epoch[l] \in Nat
      /\ UNCHANGED <<serverVars, view, read, chosen>>
  BY DEF Complete, Goto, Quiet, Inv, LeadersInv
<1>2. /\ view[l].primary \in Node /\ view[l].backup \in Node /\ view[l] # NoPair /\ writes = {}
      /\ NoNode \notin Servers(l)
  BY <1>1, TwoServers DEF Finished, Quiet, Safe, ServersAgree
<1>3. \A e \in 0 .. epoch'[l]-1 : e \in 0 .. epoch[l]-1 \/ e = epoch[l]
  BY <1>1
<1>4. RolesKept(l)' /\ FailuresReal(l)'
  BY <1>1 DEF Quiet, Safe, RolesKept, FailuresReal, Servers, serverVars,
     Assigning, Replacing, InEpoch, Recovering
<1>5. ServersAgree(l)'
  BY <1>1, <1>2 DEF Quiet, Safe, ServersAgree, Servers, Holding, Replacing, serverVars
<1>6. EpochsKept(l)'
  <2>1. ASSUME NEW n \in Servers(l), paramUp[n]
        PROVE  HasCompleted(params[n], l)'
    <3>1. HasCompleted(params[n], l) /\ Has(params[n], l, epoch[l])
      BY <1>1, <2>1, ServersHave DEF Finished, Quiet, Safe, EpochsKept
    <3>2. \A e \in 0 .. epoch'[l]-1 : Has(params[n], l, e)
      BY <1>3, <3>1 DEF HasCompleted
    <3> QED
      BY <1>1, <3>2 DEF HasCompleted, serverVars
  <2> QED
    BY <1>1, <1>2, <2>1 DEF Quiet, Safe, EpochsKept, Servers, FromServer, Replacing, Assigning, serverVars
<1>7. CheckpointsKept(l)'
  <2>1. ASSUME NEW n \in Node, paramUp[n], checkpoint[n] \notin {NoFile, OldRun}
        PROVE  /\ n \in Servers(l)
               /\ \A e \in 0 .. epoch'[l]-1 : Due(e) => Has(checkpoint[n], l, e)
    <3>1. /\ n \in Servers(l)
          /\ \A e \in 0 .. epoch[l]-1 : Due(e) => Has(checkpoint[n], l, e)
      BY <2>1 DEF Quiet, Safe, CheckpointsKept
    <3>2. Due(epoch[l]) => Has(checkpoint[n], l, epoch[l])
      BY <1>1, <2>1, <3>1 DEF Quiet, Safe, CheckpointsKept, Saved, Servers
    <3> QED
      BY <1>3, <3>1, <3>2
  <2> QED
    BY <1>1, <2>1 DEF CheckpointsKept, Servers, serverVars
<1>8. OldUnused(l)'
  BY <1>1, <1>2 DEF Quiet, Safe, OldUnused, FromServer, Replacing, serverVars
<1> QED
  BY <1>4, <1>5, <1>6, <1>7, <1>8 DEF Safe

\* The survivor and the spare take over: what either of them has is what the
\* leader read from the survivor.
LEMMA SeedSafe ==
    ASSUME NEW l \in Leader, Quiet(l), Seed(l)
    PROVE  Safe(l)'
<1> DEFINE p == chosen[l].primary
           b == chosen[l].backup
<1>1. /\ pc[l] = "seed" /\ pc'[l] = "fetch" /\ pc' = [pc EXCEPT ![l] = "fetch"]
      /\ view'[l] = chosen[l] /\ view' = [view EXCEPT ![l] = chosen[l]]
      /\ UNCHANGED <<role, backupAddr, checkpoint, paramUp, writes, epoch, read, chosen>>
  BY DEF Seed, ReplicateParams, Goto, Quiet, Inv, LeadersInv, serverVars
<1>2. p \in Node /\ b \in Node /\ p # b /\ view[l] # NoPair /\ writes = {}
  BY <1>1, TwoServers DEF Quiet, Inv, LeadersInv, Consistent, Whole, Safe, RolesKept, ServersAgree,
     Assigning, Replacing, Finished
<1>3. p \in Servers(l) /\ \A n \in Servers(l) \ {p} : ~paramUp[n]
  BY <1>1 DEF Quiet, Safe, FailuresReal, Replacing
<1>4. HasCompleted(read[l], l) /\ ~Old(read[l]) /\ (paramUp[p] => params[p] = read[l])
  BY <1>1, <1>3
  DEF Quiet, Safe, EpochsKept, OldUnused, ServersAgree, Holding, FromServer, Replacing
<1>5. Servers(l)' = {p, b} /\ chosen[l] # NoPair
  BY <1>1, <1>2, Constants DEF Servers, NoPair
<1>6. \A n \in {p, b} : paramUp[n] => params'[n] = read[l]
  <2>1. CASE Reached(b) /\ ReplicateParams(b, read[l])
    BY <1>2, <1>4, <2>1 DEF ReplicateParams, Quiet, Inv, ValuesInv
  <2>2. CASE Unreached(b) /\ UNCHANGED serverVars
    BY <1>2, <1>4, <2>2, CallsFailOnlyWhenDown DEF Quiet, serverVars
  <2> QED
    BY <2>1, <2>2 DEF Seed
<1>7. RolesKept(l)' /\ FailuresReal(l)'
  BY <1>1, <1>2, <1>5 DEF Quiet, Safe, RolesKept, FailuresReal, Assigning, Replacing, InEpoch,
     Recovering
<1> HIDE DEF p, b
<1>8. ServersAgree(l)'
  BY <1>1, <1>2, <1>5, <1>6 DEF ServersAgree, Holding, Replacing
<1>9. EpochsKept(l)'
  <2>1. HasCompleted(read[l], l)'
    BY <1>1, <1>4 DEF HasCompleted
  <2>2. \A n \in {p, b} : paramUp'[n] => HasCompleted(params[n], l)'
    BY <1>1, <1>4, <1>6 DEF HasCompleted
  <2>3. \A k \in Leader : view'[k] = NoPair \/ pc'[k] \in Assigning => epoch'[k] = 0
    BY <1>1, <1>5 DEF Quiet, Safe, EpochsKept, Inv, LeadersInv, Assigning
  <2> QED
    BY <1>1, <1>2, <1>5, <2>2, <2>3 DEF EpochsKept, FromServer, Replacing
<1>10. CheckpointsKept(l)'
  BY <1>1, <1>3, <1>5 DEF Quiet, Safe, CheckpointsKept
<1>11. OldUnused(l)'
  <2>1. \A n \in Node : params'[n] \in {params[n], read[l]}
    BY DEF Seed, ReplicateParams, serverVars, Quiet, Inv, ValuesInv
  <2> QED
    BY <1>1, <1>2, <1>4, <2>1 DEF Quiet, Safe, OldUnused, FromServer, Replacing
<1> QED
  BY <1>7, <1>8, <1>9, <1>10, <1>11 DEF Safe

-----------------------------------------------------------------------------
(* Failures, and the others *)

\* Nothing the invariant speaks of changes.
LEMMA SafeStays ==
    ASSUME NEW l \in Leader, Quiet(l), pc'[l] = pc[l],
           \A k \in Leader : pc'[k] \in Assigning => pc[k] \in Assigning,
           UNCHANGED <<serverVars, view, epoch, read, chosen>>
    PROVE  Safe(l)'
<1>1. Updated(l)' = Updated(l) /\ Servers(l)' = Servers(l)
  BY DEF Updated, Servers
<1>2. \A value : HasCompleted(value, l)' = HasCompleted(value, l)
  BY DEF HasCompleted
<1>3. RolesKept(l)' /\ FailuresReal(l)'
  BY <1>1 DEF Quiet, Safe, RolesKept, FailuresReal, serverVars
<1>4. ServersAgree(l)'
  BY <1>1 DEF Quiet, Safe, ServersAgree, serverVars
<1>5. EpochsKept(l)'
  BY <1>1, <1>2 DEF Quiet, Safe, EpochsKept, serverVars
<1>6. CheckpointsKept(l)'
  BY <1>1 DEF Quiet, Safe, CheckpointsKept, Saved, serverVars
<1>7. OldUnused(l)'
  BY DEF Quiet, Safe, OldUnused, serverVars
<1> QED
  BY <1>3, <1>4, <1>5, <1>6, <1>7 DEF Safe

\* A write under way outlives the leader.
LEMMA CrashLeaderSafe ==
    ASSUME NEW l \in Leader, Quiet(l), CrashLeader(l)
    PROVE  Safe(l)'
<1>1. /\ pc'[l] = "stopped" /\ pc' = [pc EXCEPT ![l] = "stopped"]
      /\ writes' = {IF w.from = l THEN [w EXCEPT !.awaited = FALSE] ELSE w : w \in writes}
      /\ UNCHANGED <<role, backupAddr, params, checkpoint, paramUp, view, epoch, read, chosen>>
  BY DEF CrashLeader, Goto, Quiet, Inv, LeadersInv
<1>2. Updated(l)' = Updated(l) /\ Servers(l)' = Servers(l)
  BY <1>1 DEF Updated, Servers
<1>3. \A value : HasCompleted(value, l)' = HasCompleted(value, l)
  BY <1>1 DEF HasCompleted
<1>4. RolesKept(l)' /\ FailuresReal(l)'
  BY <1>1, <1>2 DEF Quiet, Safe, RolesKept, FailuresReal, Assigning, Replacing, InEpoch, Recovering
<1>5. writes = {} <=> writes' = {}
  BY <1>1
<1>6. ServersAgree(l)'
  <2>1. /\ view[l] = NoPair => writes = {} /\ \A n \in Node : params[n] = <<>>
        /\ view[l] # NoPair /\ writes = {} =>
               \A m, n \in Servers(l) : paramUp[m] /\ paramUp[n] => params[m] = params[n]
    BY DEF Quiet, Safe, ServersAgree
  <2>2. ASSUME NEW w \in writes
        PROVE  LET x == [w EXCEPT !.awaited = FALSE] IN
               /\ writes' = {x} /\ x.from = l /\ x.at = view[l].primary
               /\ x.backup = view[l].backup /\ x.value = Updated(l)
               /\ paramUp[x.at] => params[x.at] = read[l]
               /\ paramUp[x.backup] =>
                      params[x.backup] = IF x.stage = "replicate" THEN read[l] ELSE x.value
    <3>1. w \in WriteInFlight
      BY DEF Quiet, Inv, WritesInv
    <3>2. [w EXCEPT !.awaited = FALSE].from = w.from /\ [w EXCEPT !.awaited = FALSE].at = w.at
          /\ [w EXCEPT !.awaited = FALSE].backup = w.backup
          /\ [w EXCEPT !.awaited = FALSE].value = w.value
          /\ [w EXCEPT !.awaited = FALSE].stage = w.stage
      BY <3>1 DEF WriteInFlight
    <3>3. writes = {w} /\ w.from = l /\ w.at = view[l].primary /\ w.backup = view[l].backup
          /\ w.value = Updated(l)
      BY OneWrite
    <3>4. writes' = {[w EXCEPT !.awaited = FALSE]}
      BY <1>1, <3>3
    <3>5. /\ paramUp[w.at] => params[w.at] = read[l]
          /\ paramUp[w.backup] =>
                params[w.backup] = IF w.stage = "replicate" THEN read[l] ELSE w.value
      BY DEF Quiet, Safe, ServersAgree
    <3> QED
      BY <3>2, <3>3, <3>4, <3>5
  <2>3. CASE writes = {}
    BY <1>1, <1>2, <1>5, <2>1, <2>3 DEF ServersAgree, Holding, Replacing
  <2>4. CASE writes # {}
    <3>1. PICK w \in writes : TRUE
      BY <2>4
    <3> DEFINE x == [w EXCEPT !.awaited = FALSE]
    <3>2. /\ writes' = {x} /\ x.from = l /\ x.at = view[l].primary
          /\ x.backup = view[l].backup /\ x.value = Updated(l)
          /\ paramUp[x.at] => params[x.at] = read[l]
          /\ paramUp[x.backup] =>
                 params[x.backup] = IF x.stage = "replicate" THEN read[l] ELSE x.value
      BY <2>2
    <3>3. view[l] # NoPair
      BY <2>1, <2>4
    <3> HIDE DEF x
    <3> QED
      BY <1>1, <1>2, <3>2, <3>3 DEF ServersAgree, Holding, Replacing
  <2> QED
    BY <2>3, <2>4
<1>7. EpochsKept(l)'
  <2>1. \A k \in Leader : pc'[k] \in Assigning => pc[k] \in Assigning
    BY <1>1 DEF Assigning, Quiet, Inv, LeadersInv
  <2> QED
    BY <1>1, <1>2, <1>3, <1>5, <2>1 DEF Quiet, Safe, EpochsKept, FromServer, Replacing
<1>8. CheckpointsKept(l)'
  BY <1>1, <1>2 DEF Quiet, Safe, CheckpointsKept
<1>9. OldUnused(l)'
  BY <1>1, <1>5 DEF Quiet, Safe, OldUnused, FromServer, Replacing
<1> QED
  BY <1>4, <1>6, <1>7, <1>8, <1>9 DEF Safe

LEMMA ServerDiesSafe ==
    ASSUME NEW l \in Leader, Quiet(l), NEW n \in Node, KillParam(n) \/ CrashParam(n)
    PROVE  Safe(l)'
<1>1. /\ UNCHANGED <<role, backupAddr, params, checkpoint, view, epoch, read, chosen>>
      /\ paramUp' = [paramUp EXCEPT ![n] = FALSE] /\ paramUp \in [Node -> BOOLEAN]
      /\ pc \in [Leader -> Place]
  BY DEF KillParam, CrashParam, KillServer, CrashServer, loopVars, Quiet, Inv, RolesInv, LeadersInv
<1>2. /\ \A m \in Node : paramUp'[m] => paramUp[m] /\ m # n
      /\ \A m \in Node : ~paramUp[m] => ~paramUp'[m]
  BY <1>1
<1>3. Updated(l)' = Updated(l) /\ Servers(l)' = Servers(l)
  BY <1>1 DEF Updated, Servers
<1>4. \A value : HasCompleted(value, l)' = HasCompleted(value, l)
  BY <1>1 DEF HasCompleted
<1>5. view[l] # NoPair => /\ Servers(l) \subseteq Node /\ view[l].primary # view[l].backup
                          /\ view[l].primary \in Node /\ view[l].backup \in Node
  BY DEF Quiet, Safe, RolesKept, Servers
<1>6. view[l] = NoPair => Servers(l) = {NoNode}
  BY DEF Servers, NoPair
<1>7. pc[l] \in Replacing => chosen[l].primary \in Node /\ chosen[l].backup \in Node
  BY DEF Quiet, Inv, LeadersInv, Consistent, Whole, Replacing
<1>8. pc[l] \notin {"follower"} \cup Finished => view[l] # NoPair
  BY TwoServers DEF Quiet
<1>9. ASSUME pc'[l] \in {pc[l], "recover"},
             pc'[l] # pc[l] => pc[l] = "writing" /\ n = view[l].primary,
             \A k \in Leader : pc'[k] \in Assigning => pc[k] \in Assigning,
             writes' \in {writes, {}},
             writes' # writes => n = view[l].primary,
             writes' # {} => pc'[l] = pc[l]
      PROVE  Safe(l)'
  <2>1. RolesKept(l)'
    BY <1>1, <1>2, <1>3, <1>5, <1>7, <1>8, <1>9 DEF Quiet, Safe, RolesKept, Assigning, Replacing,
       InEpoch, Recovering, Finished
  <2>2. FailuresReal(l)'
    BY <1>1, <1>2, <1>3, <1>5, <1>8, <1>9 DEF Quiet, Safe, FailuresReal, Replacing, Finished, Servers
  <2>3. ServersAgree(l)'
    BY <1>1, <1>2, <1>3, <1>5, <1>6, <1>8, <1>9 DEF Quiet, Safe, ServersAgree, Holding, Replacing, Finished, Servers
  <2>4. EpochsKept(l)'
    BY <1>1, <1>2, <1>3, <1>4, <1>5, <1>6, <1>8, <1>9 DEF Quiet, Safe, EpochsKept, FromServer, Replacing, Finished
  <2>5. CheckpointsKept(l)'
    BY <1>1, <1>2, <1>3, <1>5, <1>8, <1>9 DEF Quiet, Safe, CheckpointsKept, Saved, Finished
  <2>6. OldUnused(l)'
    BY <1>1, <1>9 DEF Quiet, Safe, OldUnused, FromServer, Replacing
  <2> QED
    BY <2>1, <2>2, <2>3, <2>4, <2>5, <2>6 DEF Safe
<1>10. CASE KillParam(n)
  BY <1>9, <1>10 DEF KillParam, KillServer
<1>11. CASE CrashParam(n)
  <2>1. /\ \A k \in Leader : pc'[k] = IF \E w \in writes : w.from = k /\ w.awaited /\ w.at = n
                                    THEN "recover" ELSE pc[k]
        /\ writes' = {w \in writes : w.at # n}
    BY <1>11 DEF CrashParam, CrashServer
  <2>2. \A w \in writes : /\ writes = {w} /\ w.from = l /\ w.at = view[l].primary
                          /\ (w.awaited => pc[l] = "writing")
    BY OneWrite
  <2> QED
    BY <1>9, <2>1, <2>2 DEF Assigning
<1> QED
  BY <1>10, <1>11

\* A step of a node that does not lead, or of a worker.
LEMMA OthersSafe ==
    ASSUME NEW l \in Leader, Quiet(l),
           \/ \E k \in Leader : KillLeader(k)
           \/ \E n \in Node : KillWorker(n)
           \/ \E k \in Leader \ {l} : CrashLeader(k)
           \/ UNCHANGED vars
    PROVE  Safe(l)'
<1>1. CASE (\E k \in Leader : KillLeader(k)) \/ (\E n \in Node : KillWorker(n)) \/ UNCHANGED vars
  <2>1. UNCHANGED <<serverVars, pc, view, epoch, read, chosen>>
    BY <1>1 DEF KillLeader, KillWorker, vars, loopVars
  <2> QED
    BY <2>1, SafeStays
<1>2. ASSUME NEW k \in Leader \ {l}, CrashLeader(k)
      PROVE  Safe(l)'
  <2>1. /\ pc' = [pc EXCEPT ![k] = "stopped"] /\ pc \in [Leader -> Place]
        /\ writes' = {IF w.from = k THEN [w EXCEPT !.awaited = FALSE] ELSE w : w \in writes}
        /\ UNCHANGED <<role, backupAddr, params, checkpoint, paramUp, view, epoch, read, chosen>>
    BY <1>2 DEF CrashLeader, Goto, Quiet, Inv, LeadersInv
  <2>2. \A w \in writes : w.from # k
    BY DEF Quiet, Safe, ServersAgree
  <2>3. writes' = writes
    BY <2>1, <2>2
  <2>4. pc'[l] = pc[l] /\ \A j \in Leader : pc'[j] \in Assigning => pc[j] \in Assigning
    BY <2>1 DEF Assigning
  <2> QED
    BY <2>1, <2>3, <2>4, SafeStays DEF serverVars
<1> QED
  BY <1>1, <1>2

\* Nobody else is in its loop.
LEMMA OnlyOneLoops ==
    ASSUME NEW l \in Leader, Quiet(l), NEW k \in Leader \ {l}
    PROVE  /\ ~EpochLoop(k) /\ ~AbandonWrite(k)
           /\ \A p, b \in Node : ~BecomeLeader(k, p, b)
<1>1. pc[k] \in {"follower"} \cup Finished
  BY TwoServers DEF Quiet, Inv, LeadersInv, Place, Finished, Assigning, InEpoch, Recovering
<1>2. ~EpochLoop(k)
  BY <1>1 DEF EpochLoop, SetPrimary, SetBackup, StopLoop, FetchPrimary, FetchBackup,
     FetchCheckpoint, Delegate, CallWrite, Save, Complete, ProbePrimary, ProbeBackup, FindSpare,
     Seed, Finished
<1>3. ~AbandonWrite(k)
  BY <1>1 DEF AbandonWrite, Finished
<1>4. ASSUME NEW p \in Node, NEW b \in Node, BecomeLeader(k, p, b)
      PROVE  FALSE
  <2>1. view'[k] = [primary |-> p, backup |-> b]
    BY <1>4 DEF BecomeLeader, Quiet, Inv, LeadersInv
  <2> QED
    BY <2>1, Constants DEF Quiet, NoPair
<1> QED
  BY <1>2, <1>3, <1>4

LEMMA StepSafe ==
    ASSUME NEW l \in Leader, Quiet(l), [Next]_vars
    PROVE  Safe(l)'
<1>1. CASE EpochLoop(l)
  BY <1>1, SetSafe, StopSafe, FetchSafe, FetchCheckpointSafe, DelegateSafe, CallWriteSafe,
     SaveSafe, CompleteSafe, ProbeSafe, FindSpareSafe, SeedSafe DEF EpochLoop
<1>2. CASE \E p, b \in Node : BecomeLeader(l, p, b)
  BY <1>2, BecomeLeaderSafe
<1>3. CASE WriteParams
  BY <1>3, HandlerSafe DEF WriteParams
<1>4. CASE Failure
  <2>1. ~AbandonWrite(l)
    BY CallsFailOnlyWhenDown DEF AbandonWrite, Quiet
  <2> QED
    BY <1>4, <2>1, OnlyOneLoops, OthersSafe, CrashLeaderSafe, ServerDiesSafe DEF Failure
<1>5. CASE UNCHANGED vars
  BY <1>5, OthersSafe
<1> QED
  BY <1>1, <1>2, <1>3, <1>4, <1>5, OnlyOneLoops DEF Next

-----------------------------------------------------------------------------
(* The system *)

\* A call once lost, and a second leader, are never undone.
LEMMA LostGrows ==
    ASSUME Inv, [Next]_vars
    PROVE  lost <= lost'
<1>1. lost \in Nat
  BY DEF Inv, OthersInv
<1>2. CASE Lose \/ UNCHANGED lost
  BY <1>1, <1>2 DEF Lose
<1>3. ASSUME NEW k \in Nat, LoseCalls(k)
      PROVE  lost <= lost'
  BY <1>1, <1>3 DEF LoseCalls
<1>4. Node \subseteq Nat /\ N \in Nat
  BY Constants DEF Node
<1>5. ASSUME NEW l \in Leader, FetchCheckpoint(l)
      PROVE  lost <= lost'
  <2> DEFINE Skipped(n) == {m \in 0 .. n-1 : paramUp[m] /\ checkpoint[m] # NoFile}
  <2>1. \E n \in Nat : LoseCalls(Cardinality(Skipped(n))) \/ LoseCalls(Cardinality(Skipped(n)) + 1)
    BY <1>4, <1>5 DEF FetchCheckpoint, Obtain
  <2>2. \A n \in Nat : Cardinality(Skipped(n)) \in Nat
    BY SkippedCounts
  <2> HIDE DEF Skipped
  <2>3. \E k \in Nat : LoseCalls(k)
    BY <2>1, <2>2
  <2> QED
    BY <1>3, <2>3
<1>6. ASSUME NEW l \in Leader, FindSpare(l)
      PROVE  lost <= lost'
  <2> DEFINE Skipped(n) == {m \in 0 .. n-1 : paramUp[m] /\ m \notin {chosen[l].primary, l}}
  <2>1. \E n \in Nat : LoseCalls(Cardinality(Skipped(n)))
    BY <1>4, <1>6 DEF FindSpare
  <2>2. \A n \in Nat : Cardinality(Skipped(n)) \in Nat
    BY SkippedCounts
  <2> HIDE DEF Skipped
  <2> QED
    BY <1>3, <2>1, <2>2
<1>7. ASSUME NEW l \in Leader, EpochLoop(l)
      PROVE  lost <= lost'
  <2>1. CASE FetchCheckpoint(l) \/ FindSpare(l)
    BY <1>5, <1>6, <2>1
  <2>2. CASE SetPrimary(l) \/ SetBackup(l) \/ StopLoop(l) \/ FetchPrimary(l) \/ FetchBackup(l)
             \/ Delegate(l)
    BY <1>2, <1>3, <2>2 DEF SetPrimary, SetBackup, Call, StopLoop, FetchPrimary, FetchBackup,
       Obtain, Delegate, Reached, Unreached, loopVars
  <2>3. CASE CallWrite(l) \/ Save(l) \/ (\E improved \in BOOLEAN : Complete(l, improved))
             \/ ProbePrimary(l) \/ ProbeBackup(l) \/ Seed(l)
    BY <1>2, <2>3 DEF CallWrite, Save, SaveAt, Complete, ProbePrimary, ProbeBackup, Seed,
       Reached, Unreached
  <2> QED
    BY <1>7, <2>1, <2>2, <2>3 DEF EpochLoop
<1>8. CASE WriteParams
  BY <1>2, <1>8 DEF WriteParams, RunReplicate, RunApply, Reached, Unreached, loopVars
<1>9. CASE Failure
  BY <1>2, <1>9 DEF Failure, AbandonWrite, KillLeader, CrashLeader, KillParam, CrashParam,
     KillWorker, loopVars
<1>10. CASE UNCHANGED vars
  BY <1>2, <1>10 DEF vars, loopVars
<1> QED
  BY <1>2, <1>7, <1>8, <1>9, <1>10 DEF Next, BecomeLeader

LEMMA ViewStays ==
    ASSUME Inv, [Next]_vars, NEW k \in Leader, view'[k] = NoPair
    PROVE  view[k] = NoPair
<1>1. view \in [Leader -> Pair]
  BY DEF Inv, LeadersInv
<1>2. CASE UNCHANGED view
  BY <1>2
<1>3. ASSUME NEW l \in Leader, Seed(l)
      PROVE  view[k] = NoPair
  <2>1. chosen[l].primary \in Node /\ view' = [view EXCEPT ![l] = chosen[l]]
    BY <1>3 DEF Seed, Inv, LeadersInv, Consistent, Whole, Assigning
  <2>2. chosen[l] # NoPair
    BY <2>1, Constants DEF NoPair
  <2> QED
    BY <1>1, <2>1, <2>2
<1>4. ASSUME NEW l \in Leader, NEW p \in Node, NEW b \in Node, BecomeLeader(l, p, b)
      PROVE  view[k] = NoPair
  <2>1. /\ view' = [view EXCEPT ![l] = [primary |-> p, backup |-> b]]
        /\ [primary |-> p, backup |-> b] # NoPair
    BY <1>4, Constants DEF BecomeLeader, NoPair
  <2> QED
    BY <1>1, <2>1
<1>5. ASSUME NEW l \in Leader, EpochLoop(l), ~Seed(l)
      PROVE  UNCHANGED view
  BY <1>5 DEF EpochLoop, SetPrimary, SetBackup, Call, StopLoop, FetchPrimary, FetchBackup,
     FetchCheckpoint, Delegate, CallWrite, Save, SaveAt, Complete, ProbePrimary, ProbeBackup,
     FindSpare, loopVars
<1>6. WriteParams => UNCHANGED view
  BY DEF WriteParams, RunReplicate, RunApply, loopVars
<1>7. Failure => UNCHANGED view
  BY DEF Failure, AbandonWrite, KillLeader, CrashLeader, KillParam, CrashParam, KillWorker,
     loopVars
<1>8. UNCHANGED vars => UNCHANGED view
  BY DEF vars, loopVars
<1> QED
  BY <1>2, <1>3, <1>4, <1>5, <1>6, <1>7, <1>8 DEF Next

LEMMA InitSafe == Init => AloneSafe
<1> SUFFICES ASSUME Init, NEW l \in Leader PROVE Safe(l)
  BY DEF AloneSafe
<1>1. /\ pc[l] = "follower" /\ view[l] = NoPair /\ writes = {} /\ Servers(l) = {NoNode}
      /\ \A n \in Node : params[n] = <<>> /\ checkpoint[n] \in {NoFile, OldRun}
      /\ \A k \in Leader : epoch[k] = 0
  BY DEF Init, ServerInit, Servers, NoPair
<1>2. RolesKept(l) /\ FailuresReal(l)
  BY <1>1 DEF RolesKept, FailuresReal, Assigning, Replacing, InEpoch, Recovering
<1>3. ServersAgree(l) /\ EpochsKept(l) /\ OldUnused(l) /\ CheckpointsKept(l)
  BY <1>1
  DEF ServersAgree, EpochsKept, OldUnused, Old, CheckpointsKept, Holding, FromServer, Replacing
<1> QED
  BY <1>2, <1>3 DEF Safe

LEMMA NextSafe == Inv /\ Inv' /\ AloneSafe /\ [Next]_vars => AloneSafe'
<1> SUFFICES ASSUME Inv, Inv', AloneSafe, [Next]_vars, NEW l \in Leader, Alone(l)'
             PROVE  Safe(l)'
  BY DEF AloneSafe
<1>1. lost = 0 /\ lost' = 0
  BY LostGrows DEF Alone, Inv, OthersInv
<1>2. \A k \in Leader \ {l} : view[k] = NoPair /\ view'[k] = NoPair
  BY ViewStays DEF Alone
<1>3. Quiet(l)
  BY <1>1, <1>2 DEF AloneSafe, Alone, Quiet
<1> QED
  BY <1>3, StepSafe

\* Until a second node leads or a call is lost, whatever fails: server pairs are
\* two servers, a leader gives up a server only when it is down, servers that
\* answer agree, they and this run's checkpoints have every epoch they should,
\* and a checkpoint of an earlier run, though it may be found, is not trained on.
THEOREM AloneSafeCorrect == Spec => []AloneSafe
BY InitSafe, NextSafe, InitInv, NextInv, PTL DEF Spec

\* Until a second node leads or a call is lost, a parameter server a leader
\* trains through and that answers has the update of every epoch it completed.
THEOREM CompletedKeptCorrect == Spec => []((\E l \in Leader : Alone(l)) => CompletedKept)
<1>1. Inv /\ AloneSafe => ((\E l \in Leader : Alone(l)) => CompletedKept)
  <2> SUFFICES ASSUME Inv, AloneSafe, NEW l \in Leader, Alone(l),
                      NEW k \in Leader, NEW n \in Servers(k) \ {NoNode}, paramUp[n]
               PROVE  HasCompleted(params[n], k)
    BY DEF CompletedKept, Servers
  <2>1. CASE k = l
    BY <2>1 DEF AloneSafe, Safe, EpochsKept
  <2>2. CASE k # l
    BY <2>2 DEF Alone, Servers, NoPair
  <2> QED
    BY <2>1, <2>2
<1> QED
  BY <1>1, Invariance, AloneSafeCorrect, PTL

\* Until a second node leads or a call is lost, no checkpoint of this run
\* lacks an epoch that was completed by the last one due for a checkpoint.
THEOREM CheckpointFreshCorrect == Spec => []((\E l \in Leader : Alone(l)) => CheckpointFresh)
<1>1. Inv /\ AloneSafe => ((\E l \in Leader : Alone(l)) => CheckpointFresh)
  <2> SUFFICES ASSUME Inv, AloneSafe, NEW l \in Leader, Alone(l),
                      NEW k \in Leader, NEW n \in Node, paramUp[n],
                      checkpoint[n] \notin {NoFile, OldRun},
                      NEW e \in 0 .. epoch[k]-1, e % CheckpointInterval = 0
               PROVE  Has(checkpoint[n], k, e)
    BY DEF CheckpointFresh
  <2>1. CASE k = l
    BY <2>1 DEF AloneSafe, Safe, CheckpointsKept, Due
  <2>2. CASE k # l
    <3>1. epoch[k] = 0
      BY <2>2 DEF AloneSafe, Alone, Safe, EpochsKept
    <3> QED
      BY <3>1
  <2> QED
    BY <2>1, <2>2
<1> QED
  BY <1>1, Invariance, AloneSafeCorrect, PTL

\* Until a second node leads or a call is lost, what a leader has written never
\* comes from a checkpoint of an earlier run, though its loop may load one.
THEOREM OldNeverTrainedCorrect == Spec => []((\E l \in Leader : Alone(l)) => OldNeverTrained)
<1>1. Inv /\ AloneSafe => ((\E l \in Leader : Alone(l)) => OldNeverTrained)
  <2> SUFFICES ASSUME Inv, AloneSafe, NEW l \in Leader, Alone(l)
               PROVE  OldNeverTrained
    OBVIOUS
  <2>1. Safe(l)
    BY DEF AloneSafe
  <2>2. \A n \in Node : ~Old(params[n])
    BY <2>1 DEF Safe, OldUnused
  <2>3. ASSUME NEW w \in writes
        PROVE  ~Old(w.value)
    BY <2>1, UpdatedNotOld DEF Safe, OldUnused, ServersAgree
  <2> QED
    BY <2>2, <2>3 DEF OldNeverTrained
<1> QED
  BY <1>1, Invariance, AloneSafeCorrect, PTL
=============================================================================
