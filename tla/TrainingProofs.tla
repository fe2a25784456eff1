--------------------------- MODULE TrainingProofs ---------------------------
(***************************************************************************)
(* Proofs about Training, for any number of nodes, of leaders that compete *)
(* for the parameter servers, of epochs, failures and lost calls: every    *)
(* variable keeps its type, so that no write is ever accepted by a primary *)
(* without a backup address, and the updates of a leader keep the order of *)
(* its epochs wherever they are copied to.                                 *)
(*                                                                         *)
(* The invariant is proved for the servers' roles, the writes in flight,   *)
(* the leaders and the values they all hold apart: what a step leaves      *)
(* unchanged it preserves at once.                                         *)
(***************************************************************************)
EXTENDS TrainingInv, TLAPS, FiniteSetTheorems

\* A primary has an address to replicate to.
RolesInv ==
    /\ role \in [Node -> {"none", "primary", "backup"}]
    /\ backupAddr \in [Node -> Node \cup {NoNode}]
    /\ paramUp \in [Node -> BOOLEAN]
    /\ \A n \in Node : role[n] = "primary" => backupAddr[n] \in Node

\* A leader waits for the one write it has begun last.
WritesInv ==
    /\ writes \subseteq WriteInFlight
    /\ \A w \in writes : w.awaited =>
          /\ pc[w.from] = "writing"
          /\ \A x \in writes : x.awaited /\ x.from = w.from => x = w

Place == {"follower"} \cup Assigning \cup InEpoch \cup Recovering \cup Finished

Whole(pair) == pair.primary \in Node /\ pair.backup \in Node

\* What holds of a leader at a place of its loop.
Consistent(where, v, c, e, p) ==
    /\ where \notin Finished => e < MaxEpochs /\ p < Patience
    /\ where \notin {"follower"} \cup Finished => Whole(v)
    /\ where \in Assigning \cup {"promotePrimary", "promoteBackup", "seed"} => Whole(c)
    /\ where = "findSpare" => c.primary \in Node

LeadersInv ==
    /\ pc \in [Leader -> Place]
    /\ view \in [Leader -> Pair] /\ chosen \in [Leader -> Pair]
    /\ epoch \in [Leader -> 0 .. MaxEpochs]
    /\ patience \in [Leader -> 0 .. Patience]
    /\ killed \in [Leader -> BOOLEAN]
    /\ \A l \in Leader : Consistent(pc[l], view[l], chosen[l], epoch[l], patience[l])

OthersInv == workerUp \in [Node -> BOOLEAN] /\ lost \in 0 .. MaxLost

\* The updates of every leader are in order, and none is of an epoch that its
\* leader has yet to begin; those of an earlier run are of no leader.
Fine ==
    {v \in Seq(Update) :
        /\ \A i, j \in DOMAIN v : i < j /\ v[i].by = v[j].by => v[i].epoch <= v[j].epoch
        /\ \A i \in DOMAIN v : v[i].by \in Leader => v[i].epoch <= epoch[v[i].by]}

ValuesInv ==
    /\ params \in [Node -> Fine]
    /\ checkpoint \in [Node -> Fine \cup {NoFile}]
    /\ read \in [Leader -> Fine]
    /\ \A w \in writes : w.value \in Fine

Inv == RolesInv /\ WritesInv /\ LeadersInv /\ OthersInv /\ ValuesInv

LEMMA Constants ==
    /\ N \in Nat /\ N >= 3 /\ MaxEpochs \in Nat \ {0} /\ Patience \in Nat \ {0}
    /\ MaxLost \in Nat /\ Leader \subseteq Node /\ NoNode \notin Node
BY NAssumption, NoNodeAssumption, LeaderAssumption, EpochsAssumption, FaultsAssumption DEF Node

LEMMA UpdateIs ==
    \A u \in Update :
        \/ u.by \in Leader /\ u.epoch \in 0 .. MaxEpochs - 1
        \/ u = OldUpdate /\ u.by \notin Leader
BY Constants DEF Update, OldUpdate

LEMMA FineIsSeq == Fine \subseteq Seq(Update)
BY DEF Fine

-----------------------------------------------------------------------------
(* Values *)

LEMMA FineStays ==
    ASSUME epoch \in [Leader -> 0 .. MaxEpochs], epoch' \in [Leader -> 0 .. MaxEpochs],
           \A l \in Leader : epoch[l] <= epoch'[l]
    PROVE  Fine \subseteq Fine'
<1> SUFFICES ASSUME NEW v \in Fine PROVE v \in Fine'
  OBVIOUS
<1>1. /\ v \in Seq(Update)
      /\ \A i, j \in DOMAIN v : i < j /\ v[i].by = v[j].by => v[i].epoch <= v[j].epoch
      /\ \A i \in DOMAIN v : v[i].by \in Leader => v[i].epoch <= epoch[v[i].by]
  BY DEF Fine
<1>2. ASSUME NEW i \in DOMAIN v, v[i].by \in Leader PROVE v[i].epoch <= epoch'[v[i].by]
  <2>1. v[i] \in Update
    BY <1>1
  <2>2. v[i].epoch \in 0 .. MaxEpochs - 1
    BY <1>2, <2>1, UpdateIs
  <2>3. v[i].epoch <= epoch[v[i].by] /\ epoch[v[i].by] <= epoch'[v[i].by]
    BY <1>1, <1>2, <2>2
  <2> QED
    BY <1>2, <2>2, <2>3, Constants
<1> QED
  BY <1>1, <1>2 DEF Fine

LEMMA FineUnchanged ==
    ASSUME LeadersInv, UNCHANGED epoch
    PROVE  Fine \subseteq Fine'
<1>1. epoch \in [Leader -> 0 .. MaxEpochs]
  BY DEF LeadersInv
<1>2. \A l \in Leader : epoch[l] <= epoch'[l]
  BY <1>1, Constants
<1> QED
  BY <1>1, <1>2, FineStays

\* The update of the present epoch comes after all that the leader has read.
LEMMA FineUpdated ==
    ASSUME LeadersInv, ValuesInv, NEW l \in Leader, epoch[l] < MaxEpochs
    PROVE  Updated(l) \in Fine
<1> DEFINE u == [by |-> l, epoch |-> epoch[l]]
           v == read[l]
<1>1. v \in Fine /\ v \in Seq(Update)
  BY FineIsSeq DEF ValuesInv
<1>2. epoch[l] \in 0 .. MaxEpochs - 1 /\ u \in Update
  BY Constants DEF LeadersInv, Update
<1>3. /\ Updated(l) = Append(v, u) /\ Append(v, u) \in Seq(Update)
      /\ DOMAIN Append(v, u) = 1 .. Len(v) + 1 /\ Len(v) \in Nat
      /\ DOMAIN v = 1 .. Len(v)
      /\ \A i \in 1 .. Len(v) : Append(v, u)[i] = v[i]
      /\ Append(v, u)[Len(v) + 1] = u
  BY <1>1, <1>2 DEF Updated
<1>4. /\ \A i, j \in 1 .. Len(v) : i < j /\ v[i].by = v[j].by => v[i].epoch <= v[j].epoch
      /\ \A i \in 1 .. Len(v) : v[i].by \in Leader => v[i].epoch <= epoch[v[i].by]
  BY <1>1, <1>3 DEF Fine
<1>5. u.by = l /\ u.epoch = epoch[l]
  OBVIOUS
<1>6. ASSUME NEW i \in 1 .. Len(v) + 1, Append(v, u)[i].by \in Leader
      PROVE  Append(v, u)[i].epoch <= epoch[Append(v, u)[i].by]
  <2>1. CASE i \in 1 .. Len(v)
    BY <1>3, <1>4, <1>6, <2>1
  <2>2. CASE i = Len(v) + 1
    BY <1>2, <1>3, <1>5, <2>2, Constants
  <2> QED
    BY <1>3, <2>1, <2>2
<1>7. ASSUME NEW i \in 1 .. Len(v) + 1, NEW j \in 1 .. Len(v) + 1, i < j,
             Append(v, u)[i].by = Append(v, u)[j].by
      PROVE  Append(v, u)[i].epoch <= Append(v, u)[j].epoch
  <2>1. i \in 1 .. Len(v)
    BY <1>3, <1>7
  <2>2. CASE j \in 1 .. Len(v)
    BY <1>3, <1>4, <1>7, <2>1, <2>2
  <2>3. CASE j = Len(v) + 1
    BY <1>3, <1>4, <1>5, <1>7, <2>1, <2>3
  <2> QED
    BY <1>3, <2>2, <2>3
<1> HIDE DEF u, v
<1> QED
  BY <1>3, <1>6, <1>7 DEF Fine

LEMMA ValuesStay ==
    ASSUME LeadersInv, ValuesInv, UNCHANGED <<params, checkpoint, read, epoch>>,
           \A w \in writes' : w.value \in Fine
    PROVE  ValuesInv'
BY FineUnchanged DEF ValuesInv

-----------------------------------------------------------------------------
(* Leaders and the writes they wait for *)

\* One leader moves on in its loop.
LEMMA LeaderMoves ==
    ASSUME LeadersInv, NEW l \in Leader,
           NEW where \in Place, NEW v \in Pair, NEW c \in Pair,
           NEW e \in 0 .. MaxEpochs, NEW p \in 0 .. Patience,
           Consistent(where, v, c, e, p),
           pc' = [pc EXCEPT ![l] = where],
           view' = [view EXCEPT ![l] = v], chosen' = [chosen EXCEPT ![l] = c],
           epoch' = [epoch EXCEPT ![l] = e], patience' = [patience EXCEPT ![l] = p],
           killed' \in [Leader -> BOOLEAN]
    PROVE  LeadersInv'
<1>1. ASSUME NEW k \in Leader
      PROVE  Consistent(pc'[k], view'[k], chosen'[k], epoch'[k], patience'[k])
  <2>1. CASE k = l
    BY <2>1 DEF LeadersInv
  <2>2. CASE k # l
    BY <2>2 DEF LeadersInv
  <2> QED
    BY <2>1, <2>2
<1> QED
  BY <1>1 DEF LeadersInv

\* The same, when only the place changes.
LEMMA LeaderGoes ==
    ASSUME LeadersInv, NEW l \in Leader, NEW where \in Place,
           Consistent(where, view[l], chosen[l], epoch[l], patience[l]),
           Goto(l, where), UNCHANGED <<view, chosen, epoch, patience, killed>>
    PROVE  LeadersInv'
<1>1. ASSUME NEW k \in Leader
      PROVE  Consistent(pc'[k], view'[k], chosen'[k], epoch'[k], patience'[k])
  BY DEF LeadersInv, Goto
<1> QED
  BY <1>1 DEF LeadersInv, Goto

\* A leader that waits for no write goes where it waits for none.
LEMMA WritesStay ==
    ASSUME WritesInv, LeadersInv, NEW l \in Leader, NEW where, pc[l] # "writing",
           Goto(l, where), UNCHANGED writes
    PROVE  WritesInv'
BY DEF WritesInv, LeadersInv, Goto, WriteInFlight

\* Nobody waits for the writes of a leader that has moved on.
LEMMA WritesAbandoned ==
    ASSUME WritesInv, LeadersInv, NEW l \in Leader, NEW where, Goto(l, where),
           writes' = {IF w.from = l THEN [w EXCEPT !.awaited = FALSE] ELSE w : w \in writes}
    PROVE  /\ WritesInv'
           /\ \A x \in writes' : \E w \in writes : x.value = w.value
<1>1. ASSUME NEW x \in writes'
      PROVE  /\ x \in WriteInFlight
             /\ x.awaited => x \in writes /\ x.from # l
             /\ \E w \in writes : x.value = w.value
  <2>1. PICK w \in writes : x = IF w.from = l THEN [w EXCEPT !.awaited = FALSE] ELSE w
    BY <1>1
  <2>2. w \in WriteInFlight
    BY DEF WritesInv
  <2>3. CASE w.from = l
    <3>1. x = [w EXCEPT !.awaited = FALSE]
      BY <2>1, <2>3
    <3>2. x \in WriteInFlight /\ x.awaited = FALSE /\ x.value = w.value
      BY <2>2, <3>1 DEF WriteInFlight
    <3> QED
      BY <3>2
  <2>4. CASE w.from # l
    BY <2>1, <2>2, <2>4
  <2> QED
    BY <2>3, <2>4
<1>2. ASSUME NEW x \in writes', x.awaited
      PROVE  pc'[x.from] = "writing"
  <2>1. x \in writes /\ x.from # l /\ x.from \in Leader
    BY <1>1, <1>2 DEF WriteInFlight
  <2> QED
    BY <2>1, <1>2 DEF WritesInv, Goto, LeadersInv
<1>3. ASSUME NEW w \in writes', w.awaited, NEW x \in writes', x.awaited, x.from = w.from
      PROVE  x = w
  BY <1>1, <1>3 DEF WritesInv
<1> QED
  BY <1>1, <1>2, <1>3 DEF WritesInv

\* The handler of write w ends, and its leader, if it waits, moves on.
LEMMA WriteEnds ==
    ASSUME WritesInv, LeadersInv, NEW w \in writes, NEW where \in {"save", "recover"},
           Answer(w, where), writes' = writes \ {w},
           UNCHANGED <<view, chosen, epoch, patience, killed>>
    PROVE  WritesInv' /\ LeadersInv'
<1>1. w \in WriteInFlight /\ w.from \in Leader /\ w.awaited \in BOOLEAN
  BY DEF WritesInv, WriteInFlight
<1>2. CASE ~w.awaited
  <2>1. pc' = pc
    BY <1>2 DEF Answer
  <2> QED
    BY <2>1 DEF WritesInv, LeadersInv
<1>3. CASE w.awaited
  <2>1. Goto(w.from, where)
    BY <1>3 DEF Answer, Goto
  <2>2. \A x \in writes' : x.awaited => x.from # w.from
    BY <1>1, <1>3 DEF WritesInv
  <2>3. WritesInv'
    BY <1>1, <2>1, <2>2 DEF WritesInv, Goto, LeadersInv, WriteInFlight
  <2>4. pc[w.from] = "writing"
    BY <1>3 DEF WritesInv
  <2>5. Consistent(where, view[w.from], chosen[w.from], epoch[w.from], patience[w.from])
    BY <1>1, <2>4 DEF LeadersInv, Consistent, InEpoch, Assigning, Recovering, Finished
  <2>6. where \in Place
    BY DEF Place, InEpoch, Recovering
  <2> QED
    BY <1>1, <2>1, <2>3, <2>5, <2>6, LeaderGoes
<1> QED
  BY <1>1, <1>2, <1>3

-----------------------------------------------------------------------------
(* Steps *)

LEMMA RolesStay ==
    ASSUME RolesInv, UNCHANGED <<role, backupAddr>>,
           paramUp' \in [Node -> BOOLEAN]
    PROVE  RolesInv'
BY DEF RolesInv

LEMMA RoleSet ==
    ASSUME RolesInv, NEW n \in Node, NEW r \in {"primary", "backup"},
           NEW b \in Node \cup {NoNode}, r = "primary" => b \in Node,
           SetRole(n, r, b)
    PROVE  RolesInv'
BY DEF RolesInv, SetRole

LEMMA LostCounts ==
    ASSUME OthersInv, Lose \/ UNCHANGED lost
    PROVE  lost' \in 0 .. MaxLost
BY Constants DEF OthersInv, Lose

LEMMA MoreLostCounts ==
    ASSUME OthersInv, NEW k \in Nat, LoseCalls(k)
    PROVE  lost' \in 0 .. MaxLost
BY Constants DEF OthersInv, LoseCalls

\* What a search skips can be counted.
LEMMA SkippedCounts ==
    ASSUME NEW n \in Nat, NEW S \in SUBSET (0 .. n-1)
    PROVE  Cardinality(S) \in Nat
<1>1. IsFiniteSet(0 .. n-1)
  BY FS_Interval
<1> QED
  BY <1>1, FS_Subset, FS_CardinalityType

\* A leader that waits for no write takes a step that leaves the servers alone.
LEMMA LoopStep ==
    ASSUME Inv, NEW l \in Leader, NEW where, Goto(l, where), pc[l] # "writing",
           LeadersInv', Fine \subseteq Fine', read' \in [Leader -> Fine],
           lost' \in 0 .. MaxLost, UNCHANGED <<serverVars, workerUp>>
    PROVE  Inv'
<1>1. RolesInv'
  BY RolesStay DEF Inv, RolesInv, serverVars
<1>2. WritesInv'
  BY WritesStay DEF Inv, serverVars
<1>3. ValuesInv'
  BY DEF Inv, ValuesInv, serverVars
<1> QED
  BY <1>1, <1>2, <1>3 DEF Inv, OthersInv

LEMMA BecomeLeaderStep ==
    ASSUME Inv, NEW l \in Leader, NEW p \in Node, NEW b \in Node, BecomeLeader(l, p, b)
    PROVE  Inv'
<1> DEFINE v == [primary |-> p, backup |-> b]
<1>1. /\ pc[l] = "follower" /\ Goto(l, "assignPrimary")
      /\ view' = [view EXCEPT ![l] = v] /\ chosen' = [chosen EXCEPT ![l] = v]
      /\ UNCHANGED <<serverVars, epoch, read, patience, killed, workerUp, lost>>
  BY DEF BecomeLeader
<1>2. v \in Pair /\ Whole(v)
  BY DEF Pair, Whole
<1>3. Consistent("assignPrimary", v, v, epoch[l], patience[l])
  BY <1>1, <1>2 DEF Inv, LeadersInv, Consistent, Finished, Assigning
<1>4. epoch[l] \in 0 .. MaxEpochs /\ patience[l] \in 0 .. Patience /\ "assignPrimary" \in Place
  BY DEF Inv, LeadersInv, Place, Assigning
<1>5. /\ pc' = [pc EXCEPT ![l] = "assignPrimary"]
      /\ epoch' = [epoch EXCEPT ![l] = epoch[l]] /\ patience' = [patience EXCEPT ![l] = patience[l]]
      /\ killed' \in [Leader -> BOOLEAN]
  BY <1>1 DEF Inv, LeadersInv, Goto
<1> HIDE DEF v
<1>6. LeadersInv /\ OthersInv /\ ValuesInv
  BY DEF Inv
<1>7. LeadersInv'
  BY <1>1, <1>2, <1>3, <1>4, <1>5, <1>6, LeaderMoves
<1>8. Fine \subseteq Fine' /\ read' \in [Leader -> Fine] /\ lost' \in 0 .. MaxLost
  BY <1>1, <1>6, FineUnchanged DEF ValuesInv, OthersInv
<1> QED
  BY <1>1, <1>7, <1>8, LoopStep

\* The two roles are set, at the start and in a recovery.
LEMMA CallStep ==
    ASSUME Inv, NEW l \in Leader, NEW n \in Node, NEW r \in {"primary", "backup"},
           NEW b \in Node \cup {NoNode}, r = "primary" => b \in Node,
           NEW where \in Place, pc[l] # "writing",
           Consistent(where, view[l], chosen[l], epoch[l], patience[l]),
           Call(l, n, r, b, where)
    PROVE  Inv'
<1>1. /\ SetRole(n, r, b) \/ UNCHANGED serverVars
      /\ Goto(l, where)
      /\ Lose \/ UNCHANGED lost
      /\ UNCHANGED <<view, epoch, read, chosen, patience, killed, workerUp>>
  BY DEF Call, Reached, Unreached
<1>2. RolesInv /\ WritesInv /\ LeadersInv /\ OthersInv /\ ValuesInv
  BY DEF Inv
<1>3. UNCHANGED <<params, checkpoint, writes>>
  BY <1>1 DEF SetRole, serverVars
<1>4. RolesInv'
  BY <1>1, <1>2, RoleSet, RolesStay DEF serverVars, RolesInv
<1>5. WritesInv'
  BY <1>1, <1>2, <1>3, WritesStay
<1>6. LeadersInv'
  BY <1>1, <1>2, LeaderGoes
<1>7. OthersInv'
  BY <1>1, <1>2, LostCounts DEF OthersInv
<1>8. ValuesInv'
  BY <1>1, <1>2, <1>3, ValuesStay DEF ValuesInv
<1> QED
  BY <1>4, <1>5, <1>6, <1>7, <1>8 DEF Inv

LEMMA SetStep ==
    ASSUME Inv, NEW l \in Leader, SetPrimary(l) \/ SetBackup(l)
    PROVE  Inv'
<1> USE DEF Place, Assigning, Recovering, InEpoch, Finished
<1>1. /\ pc[l] \in {"assignPrimary", "assignBackup", "promotePrimary", "promoteBackup"}
      /\ Consistent(pc[l], view[l], chosen[l], epoch[l], patience[l])
  BY DEF SetPrimary, SetBackup, Inv, LeadersInv
<1>2. chosen[l].primary \in Node /\ chosen[l].backup \in Node
  BY <1>1 DEF Consistent, Whole
<1>3. \A where \in {"assignBackup", "promoteBackup", "fetch", "seed"} :
        where \in Place /\ Consistent(where, view[l], chosen[l], epoch[l], patience[l])
  BY <1>1, <1>2 DEF Consistent, Whole
<1> QED
  BY <1>1, <1>2, <1>3, CallStep DEF SetPrimary, SetBackup

\* A step of the loop that changes its place, and what it has read at most.
LEMMA ReadStep ==
    ASSUME Inv, NEW l \in Leader, NEW where \in Place, Goto(l, where), pc[l] # "writing",
           Consistent(where, view[l], chosen[l], epoch[l], patience[l]),
           NEW r \in Fine, read' = [read EXCEPT ![l] = r] \/ UNCHANGED read,
           lost' \in 0 .. MaxLost,
           UNCHANGED <<serverVars, view, chosen, epoch, patience, killed, workerUp>>
    PROVE  Inv'
<1>1. LeadersInv /\ ValuesInv
  BY DEF Inv
<1>2. LeadersInv'
  BY <1>1, LeaderGoes
<1>3. Fine \subseteq Fine'
  BY <1>1, FineUnchanged
<1>4. read' \in [Leader -> Fine]
  BY <1>1 DEF ValuesInv
<1> QED
  BY <1>2, <1>3, <1>4, LoopStep

\* Wherever a loop is in an epoch or in a recovery, it may begin an epoch or a
\* recovery.
LEMMA InLoop ==
    ASSUME Inv, NEW l \in Leader, pc[l] \in InEpoch \cup Recovering
    PROVE  /\ view[l].primary \in Node /\ view[l].backup \in Node
           /\ epoch[l] < MaxEpochs /\ patience[l] < Patience
           /\ \A where \in InEpoch \cup {"recover", "probeBackup", "stopped"} :
                 where \in Place /\ Consistent(where, view[l], chosen[l], epoch[l], patience[l])
<1>1. Consistent(pc[l], view[l], chosen[l], epoch[l], patience[l])
  BY DEF Inv, LeadersInv
<1>2. Whole(view[l]) /\ epoch[l] < MaxEpochs /\ patience[l] < Patience
  BY <1>1 DEF Consistent, InEpoch, Recovering, Finished
<1> QED
  BY <1>2 DEF Consistent, Whole, Place, InEpoch, Recovering, Finished, Assigning

LEMMA FetchStep ==
    ASSUME Inv, NEW l \in Leader, StopLoop(l) \/ FetchPrimary(l) \/ FetchBackup(l)
    PROVE  Inv'
<1>1. /\ pc[l] \in InEpoch /\ pc[l] # "writing"
      /\ UNCHANGED <<serverVars, view, chosen, epoch, patience, killed, workerUp>>
  BY DEF StopLoop, FetchPrimary, FetchBackup, InEpoch, loopVars
<1>2. /\ view[l].primary \in Node /\ view[l].backup \in Node
      /\ \A where \in InEpoch \cup {"recover", "probeBackup", "stopped"} :
            where \in Place /\ Consistent(where, view[l], chosen[l], epoch[l], patience[l])
  BY <1>1, InLoop
<1>3. params[view[l].primary] \in Fine /\ params[view[l].backup] \in Fine
  BY <1>2 DEF Inv, ValuesInv
<1>4. PICK r \in Fine, where \in {"stopped", "delegate", "recover", "fetchBackup", "fetchCheckpoint"} :
        Goto(l, where) /\ (read' = [read EXCEPT ![l] = r] \/ UNCHANGED read)
  BY <1>3 DEF StopLoop, FetchPrimary, FetchBackup, Obtain, loopVars
<1>5. lost' \in 0 .. MaxLost
  <2>1. Lose \/ UNCHANGED lost \/ LoseCalls(0) \/ LoseCalls(0 + 1)
    BY DEF StopLoop, FetchPrimary, FetchBackup, Obtain, Unreached, loopVars
  <2> QED
    BY <2>1, LostCounts, MoreLostCounts DEF Inv
<1>6. where \in Place /\ Consistent(where, view[l], chosen[l], epoch[l], patience[l])
  BY <1>2, <1>4 DEF InEpoch
<1> QED
  BY <1>1, <1>4, <1>5, <1>6, ReadStep

LEMMA FetchCheckpointStep ==
    ASSUME Inv, NEW l \in Leader, FetchCheckpoint(l)
    PROVE  Inv'
<1> DEFINE Offers(n) == paramUp[n] /\ checkpoint[n] # NoFile
           Skipped(n) == {m \in 0 .. n-1 : Offers(m)}
<1>1. /\ pc[l] = "fetchCheckpoint"
      /\ UNCHANGED <<serverVars, view, chosen, epoch, patience, killed, workerUp>>
      /\ \/ \E n \in Node : Offers(n) /\ Obtain(l, checkpoint[n], Cardinality(Skipped(n)))
         \/ /\ LoseCalls(Cardinality(Skipped(N)))
            /\ Goto(l, "recover")
            /\ UNCHANGED read
  BY DEF FetchCheckpoint
<1>2. PICK n \in Nat : \/ LoseCalls(Cardinality(Skipped(n)))
                       \/ LoseCalls(Cardinality(Skipped(n)) + 1)
  <2>1. Node \subseteq Nat /\ N \in Nat
    BY Constants DEF Node
  <2> HIDE DEF Offers, Skipped
  <2> QED
    BY <1>1, <2>1 DEF Obtain
<1>3. lost' \in 0 .. MaxLost
  <2>1. Skipped(n) \in SUBSET (0 .. n-1)
    OBVIOUS
  <2> HIDE DEF Skipped
  <2>2. Cardinality(Skipped(n)) \in Nat
    BY <2>1, SkippedCounts
  <2> QED
    BY <1>2, <2>2, MoreLostCounts DEF Inv
<1>4. PICK r \in Fine, where \in {"delegate", "recover"} :
        Goto(l, where) /\ (read' = [read EXCEPT ![l] = r] \/ UNCHANGED read)
  <2>1. \A m \in Node : checkpoint[m] # NoFile => checkpoint[m] \in Fine
    BY DEF Inv, ValuesInv
  <2>2. read[l] \in Fine
    BY DEF Inv, ValuesInv
  <2> QED
    BY <1>1, <2>1, <2>2 DEF Obtain
<1>5. where \in Place /\ Consistent(where, view[l], chosen[l], epoch[l], patience[l])
  BY <1>1, <1>4, InLoop DEF InEpoch
<1> HIDE DEF Skipped
<1> QED
  BY <1>1, <1>3, <1>4, <1>5, ReadStep

LEMMA DelegateStep ==
    ASSUME Inv, NEW l \in Leader, Delegate(l)
    PROVE  Inv'
<1>1. /\ pc[l] = "delegate"
      /\ Lose \/ UNCHANGED lost
      /\ UNCHANGED <<serverVars, view, chosen, epoch, read, patience, killed, workerUp>>
  BY DEF Delegate
<1>2. PICK where \in {"write", "fetch"} : Goto(l, where)
  BY DEF Delegate
<1>3. where \in Place /\ Consistent(where, view[l], chosen[l], epoch[l], patience[l])
  BY <1>1, <1>2, InLoop DEF InEpoch
<1>4. lost' \in 0 .. MaxLost /\ read[l] \in Fine
  BY <1>1, LostCounts DEF Inv, ValuesInv
<1> QED
  BY <1>1, <1>2, <1>3, <1>4, ReadStep

\* A step of a recovery that chooses a server.
LEMMA ChooseStep ==
    ASSUME Inv, NEW l \in Leader, NEW where \in Place, Goto(l, where), pc[l] # "writing",
           NEW c \in Pair, chosen' = [chosen EXCEPT ![l] = c],
           Consistent(where, view[l], c, epoch[l], patience[l]),
           NEW r \in Fine, read' = [read EXCEPT ![l] = r],
           lost' \in 0 .. MaxLost,
           UNCHANGED <<serverVars, view, epoch, patience, killed, workerUp>>
    PROVE  Inv'
<1>1. LeadersInv /\ ValuesInv
  BY DEF Inv
<1>2. ASSUME NEW k \in Leader
      PROVE  Consistent(pc'[k], view'[k], chosen'[k], epoch'[k], patience'[k])
  BY <1>1 DEF LeadersInv, Goto
<1>3. LeadersInv'
  BY <1>1, <1>2 DEF LeadersInv, Goto
<1>4. Fine \subseteq Fine'
  BY <1>1, FineUnchanged
<1>5. read' \in [Leader -> Fine]
  BY <1>1 DEF ValuesInv
<1> QED
  BY <1>3, <1>4, <1>5, LoopStep

LEMMA ProbeStep ==
    ASSUME Inv, NEW l \in Leader, ProbePrimary(l) \/ ProbeBackup(l)
    PROVE  Inv'
<1>1. /\ pc[l] \in Recovering /\ pc[l] # "writing"
      /\ Lose \/ UNCHANGED lost
      /\ UNCHANGED <<serverVars, view, epoch, patience, killed, workerUp>>
  BY DEF ProbePrimary, ProbeBackup, Recovering, Reached, Unreached
<1>2. /\ view[l].primary \in Node /\ view[l].backup \in Node
      /\ epoch[l] < MaxEpochs /\ patience[l] < Patience
      /\ \A where \in InEpoch \cup {"recover", "probeBackup", "stopped"} :
            where \in Place /\ Consistent(where, view[l], chosen[l], epoch[l], patience[l])
  BY <1>1, InLoop
<1>3. lost' \in 0 .. MaxLost
  BY <1>1, LostCounts DEF Inv
<1>4. ASSUME NEW n \in Node, read' = [read EXCEPT ![l] = params[n]],
             chosen' = [chosen EXCEPT ![l].primary = n], Goto(l, "findSpare")
      PROVE  Inv'
  <2> DEFINE c == [chosen[l] EXCEPT !.primary = n]
  <2>1. c \in Pair /\ c.primary = n
    BY DEF Inv, LeadersInv, Pair
  <2>2. chosen' = [chosen EXCEPT ![l] = c] /\ params[n] \in Fine
    BY <1>4 DEF Inv, ValuesInv
  <2>3. Consistent("findSpare", view[l], c, epoch[l], patience[l]) /\ "findSpare" \in Place
    BY <1>2, <2>1 DEF Consistent, Whole, Assigning, Place, Recovering
  <2> HIDE DEF c
  <2> QED
    BY <1>1, <1>3, <1>4, <2>1, <2>2, <2>3, ChooseStep
<1>5. ASSUME NEW where \in {"probeBackup", "fetch"}, Goto(l, where), UNCHANGED <<read, chosen>>
      PROVE  Inv'
  <2>1. where \in Place /\ Consistent(where, view[l], chosen[l], epoch[l], patience[l])
    BY <1>2 DEF InEpoch
  <2>2. read[l] \in Fine
    BY DEF Inv, ValuesInv
  <2> QED
    BY <1>1, <1>3, <1>5, <2>1, <2>2, ReadStep
<1>6. CASE ProbePrimary(l)
  BY <1>2, <1>4, <1>5, <1>6 DEF ProbePrimary
<1>7. CASE ProbeBackup(l)
  BY <1>2, <1>4, <1>5, <1>7 DEF ProbeBackup
<1> QED
  BY <1>6, <1>7

LEMMA FindSpareStep ==
    ASSUME Inv, NEW l \in Leader, FindSpare(l)
    PROVE  Inv'
<1> DEFINE Spare(n) == paramUp[n] /\ n \notin {chosen[l].primary, l}
           Skipped(n) == {m \in 0 .. n-1 : Spare(m)}
<1>1. /\ pc[l] = "findSpare"
      /\ UNCHANGED <<serverVars, view, epoch, read, patience, killed, workerUp>>
      /\ \/ \E n \in Node :
               /\ Spare(n) /\ LoseCalls(Cardinality(Skipped(n)))
               /\ chosen' = [chosen EXCEPT ![l].backup = n]
               /\ Goto(l, "promotePrimary")
         \/ /\ LoseCalls(Cardinality(Skipped(N)))
            /\ Goto(l, "fetch")
            /\ UNCHANGED chosen
  BY DEF FindSpare
<1>2. PICK n \in Nat : LoseCalls(Cardinality(Skipped(n)))
  <2>1. Node \subseteq Nat /\ N \in Nat
    BY Constants DEF Node
  <2> HIDE DEF Spare, Skipped
  <2> QED
    BY <1>1, <2>1
<1>3. lost' \in 0 .. MaxLost
  <2>1. Skipped(n) \in SUBSET (0 .. n-1)
    OBVIOUS
  <2> HIDE DEF Skipped
  <2>2. Cardinality(Skipped(n)) \in Nat
    BY <2>1, SkippedCounts
  <2> QED
    BY <1>2, <2>2, MoreLostCounts DEF Inv
<1>4. /\ Consistent("findSpare", view[l], chosen[l], epoch[l], patience[l])
      /\ chosen[l] \in Pair /\ read[l] \in Fine /\ read' = [read EXCEPT ![l] = read[l]]
  BY <1>1 DEF Inv, LeadersInv, ValuesInv
<1>5. ASSUME NEW m \in Node, chosen' = [chosen EXCEPT ![l].backup = m], Goto(l, "promotePrimary")
      PROVE  Inv'
  <2> DEFINE c == [chosen[l] EXCEPT !.backup = m]
  <2>1. c \in Pair /\ c.primary = chosen[l].primary /\ c.backup = m
    BY <1>4 DEF Pair
  <2>2. chosen' = [chosen EXCEPT ![l] = c]
    BY <1>5 DEF Inv, LeadersInv
  <2>3. /\ Consistent("promotePrimary", view[l], c, epoch[l], patience[l])
        /\ "promotePrimary" \in Place
    BY <1>4, <2>1 DEF Consistent, Whole, Assigning, Finished, Place, Recovering
  <2> HIDE DEF c, Skipped
  <2> QED
    BY <1>1, <1>3, <1>4, <1>5, <2>1, <2>2, <2>3, ChooseStep
<1>6. ASSUME Goto(l, "fetch"), UNCHANGED chosen
      PROVE  Inv'
  <2>1. "fetch" \in Place /\ Consistent("fetch", view[l], chosen[l], epoch[l], patience[l])
    BY <1>1, InLoop DEF InEpoch, Recovering
  <2> HIDE DEF Skipped
  <2> QED
    BY <1>1, <1>3, <1>4, <1>6, <2>1, ReadStep
<1> HIDE DEF Spare, Skipped
<1> QED
  BY <1>1, <1>5, <1>6

\* The write a leader begins is the only one it waits for.
LEMMA CallWriteStep ==
    ASSUME Inv, NEW l \in Leader, CallWrite(l)
    PROVE  Inv'
<1> DEFINE p == view[l].primary
           w == Write(l, p, Updated(l), lost)
<1>1. /\ pc[l] = "write"
      /\ Lose \/ UNCHANGED lost
      /\ UNCHANGED <<view, epoch, read, chosen, patience, killed, workerUp>>
  BY DEF CallWrite, Reached, Unreached
<1>2. /\ p \in Node /\ epoch[l] < MaxEpochs
      /\ \A where \in InEpoch \cup {"recover", "probeBackup", "stopped"} :
            where \in Place /\ Consistent(where, view[l], chosen[l], epoch[l], patience[l])
  BY <1>1, InLoop DEF InEpoch
<1>3. lost' \in 0 .. MaxLost
  BY <1>1, LostCounts DEF Inv
<1>4. CASE Goto(l, "recover") /\ UNCHANGED serverVars
  <2>1. read[l] \in Fine
    BY DEF Inv, ValuesInv
  <2> QED
    BY <1>1, <1>2, <1>3, <1>4, <2>1, ReadStep
<1>5. CASE Goto(l, "writing") /\ Accepts(p) /\ BeginWrite(w)
  <2>1. /\ writes' = writes \cup {w}
        /\ UNCHANGED <<role, backupAddr, params, checkpoint, paramUp>>
    BY <1>5 DEF BeginWrite
  <2>2. Updated(l) \in Fine /\ Updated(l) \in Seq(Update)
    BY <1>2, FineUpdated, FineIsSeq DEF Inv
  <2>3. /\ w = [from |-> l, at |-> p, backup |-> backupAddr[p], value |-> Updated(l),
                try |-> lost, stage |-> "replicate", awaited |-> TRUE]
        /\ backupAddr[p] \in Node /\ lost \in 0 .. MaxLost
    BY <1>2, <1>5 DEF Write, Accepts, Inv, RolesInv, OthersInv
  <2>4. w \in WriteInFlight /\ w.from = l /\ w.value = Updated(l)
    BY <1>2, <2>2, <2>3 DEF WriteInFlight
  <2> HIDE DEF w, p
  <2>5. RolesInv'
    BY <2>1, RolesStay DEF Inv, RolesInv
  <2>6. \A x \in writes : x.awaited => x.from # l
    BY <1>1 DEF Inv, WritesInv
  <2>7. WritesInv'
    BY <1>5, <2>1, <2>4, <2>6 DEF Inv, WritesInv, LeadersInv, Goto, WriteInFlight
  <2>8. "writing" \in InEpoch
    BY DEF InEpoch
  <2>9. LeadersInv'
    BY <1>1, <1>2, <1>5, <2>8, LeaderGoes DEF Inv
  <2>10. ValuesInv'
    <3>1. \A x \in writes' : x.value \in Fine
      BY <2>1, <2>2, <2>4 DEF Inv, ValuesInv
    <3> QED
      BY <1>1, <2>1, <3>1, ValuesStay DEF Inv
  <2> QED
    BY <1>1, <1>3, <2>5, <2>7, <2>9, <2>10 DEF Inv, OthersInv
<1> QED
  BY <1>4, <1>5 DEF CallWrite

\* A handler hands its value to the backup, or ends, or applies its value.
LEMMA HandlerStep ==
    ASSUME Inv, NEW w \in writes, RunReplicate(w) \/ RunApply(w)
    PROVE  Inv'
<1>1. w \in WriteInFlight /\ w.value \in Fine /\ w.at \in Node /\ w.backup \in Node
  BY DEF Inv, WritesInv, ValuesInv, WriteInFlight
<1>2. /\ UNCHANGED <<role, backupAddr, paramUp, checkpoint,
                     view, epoch, read, chosen, patience, killed, workerUp>>
      /\ Lose \/ UNCHANGED lost
  BY DEF RunReplicate, RunApply, Replicated, ReplicationFails, ReplicateParams, Apply,
         Reached, Unreached, loopVars
<1>3. \/ params' = [params EXCEPT ![w.backup] = w.value]
      \/ params' = [params EXCEPT ![w.at] = w.value]
      \/ params' = params
  BY DEF RunReplicate, RunApply, Replicated, ReplicationFails, ReplicateParams, Apply
<1>4. params' \in [Node -> Fine]
  BY <1>1, <1>3 DEF Inv, ValuesInv
<1>5. WritesInv' /\ LeadersInv' /\ \A x \in writes' : x.value \in Fine
  <2>1. CASE Replicated(w) /\ UNCHANGED pc
    <3> DEFINE v == [w EXCEPT !.stage = "apply"]
    <3>1. v \in WriteInFlight /\ v.from = w.from /\ v.awaited = w.awaited /\ v.value = w.value
      BY <1>1 DEF WriteInFlight
    <3>2. writes' = (writes \ {w}) \cup {v}
      BY <2>1 DEF Replicated
    <3> HIDE DEF v
    <3>3. WritesInv'
      BY <2>1, <3>1, <3>2 DEF Inv, WritesInv
    <3>4. LeadersInv'
      BY <1>2, <2>1 DEF Inv, LeadersInv
    <3> QED
      BY <1>1, <3>1, <3>2, <3>3, <3>4 DEF Inv, ValuesInv
  <2>2. ASSUME NEW where \in {"save", "recover"}, Answer(w, where), writes' = writes \ {w}
        PROVE  WritesInv' /\ LeadersInv' /\ \A x \in writes' : x.value \in Fine
    BY <1>2, <2>2, WriteEnds DEF Inv, ValuesInv
  <2> QED
    BY <2>1, <2>2 DEF RunReplicate, RunApply, ReplicationFails, Apply
<1>6. RolesInv' /\ OthersInv'
  BY <1>2, RolesStay, LostCounts DEF Inv, RolesInv, OthersInv
<1>7. ValuesInv'
  BY <1>2, <1>4, <1>5, FineUnchanged DEF Inv, ValuesInv
<1> QED
  BY <1>5, <1>6, <1>7 DEF Inv

\* Whatever ends a leader's wait leaves its write to go on alone.
LEMMA AbandonStep ==
    ASSUME Inv, NEW l \in Leader, AbandonWrite(l) \/ CrashLeader(l)
    PROVE  Inv'
<1>1. PICK where \in {"recover", "stopped"} :
        /\ Goto(l, where)
        /\ where = "recover" => pc[l] = "writing"
  BY DEF AbandonWrite, CrashLeader
<1>2. /\ writes' = {IF w.from = l THEN [w EXCEPT !.awaited = FALSE] ELSE w : w \in writes}
      /\ UNCHANGED <<role, backupAddr, params, checkpoint, paramUp,
                     view, epoch, read, chosen, patience, workerUp>>
      /\ Lose \/ UNCHANGED lost
      /\ killed' \in [Leader -> BOOLEAN]
  BY DEF AbandonWrite, CrashLeader, Inv, LeadersInv
<1>3. WritesInv' /\ \A x \in writes' : \E w \in writes : x.value = w.value
  BY <1>1, <1>2, WritesAbandoned DEF Inv
<1>4. Consistent(where, view[l], chosen[l], epoch[l], patience[l]) /\ where \in Place
  <2>1. Consistent(pc[l], view[l], chosen[l], epoch[l], patience[l])
    BY DEF Inv, LeadersInv
  <2> QED
    BY <1>1, <2>1 DEF Consistent, Place, Finished, Recovering, Assigning, InEpoch
<1>5. LeadersInv'
  <2>1. ASSUME NEW k \in Leader
        PROVE  Consistent(pc'[k], view'[k], chosen'[k], epoch'[k], patience'[k])
    BY <1>1, <1>2, <1>4 DEF Inv, LeadersInv, Goto
  <2> QED
    BY <1>1, <1>2, <1>4, <2>1 DEF Inv, LeadersInv, Goto
<1>6. RolesInv' /\ OthersInv'
  BY <1>2, RolesStay, LostCounts DEF Inv, RolesInv, OthersInv
<1>7. ValuesInv'
  BY <1>2, <1>3, ValuesStay DEF Inv, ValuesInv
<1> QED
  BY <1>3, <1>5, <1>6, <1>7 DEF Inv

\* Checkpoints and seeds copy values that are held already.
LEMMA SaveStep ==
    ASSUME Inv, NEW l \in Leader, Save(l)
    PROVE  Inv'
<1>1. PICK n \in Node, where \in {"saveBackup", "complete"} : SaveAt(l, n, where)
  <2>1. pc[l] \in InEpoch
    BY DEF Save, InEpoch
  <2> QED
    BY <2>1, InLoop DEF Save
<1>2. /\ pc[l] \in InEpoch /\ pc[l] # "writing" /\ Goto(l, where)
      /\ UNCHANGED <<view, epoch, read, chosen, patience, killed, workerUp>>
      /\ Lose \/ UNCHANGED lost
  BY <1>1 DEF Save, SaveAt, InEpoch, Reached, Unreached
<1>3. /\ UNCHANGED <<role, backupAddr, params, paramUp, writes>>
      /\ checkpoint' = [checkpoint EXCEPT ![n] = params[n]] \/ UNCHANGED checkpoint
  BY <1>1 DEF SaveAt, Checkpoint, serverVars
<1>4. where \in Place /\ Consistent(where, view[l], chosen[l], epoch[l], patience[l])
  BY <1>2, InLoop DEF InEpoch
<1>5. RolesInv' /\ OthersInv'
  BY <1>2, <1>3, RolesStay, LostCounts DEF Inv, RolesInv, OthersInv
<1>6. WritesInv' /\ LeadersInv'
  BY <1>2, <1>3, <1>4, WritesStay, LeaderGoes DEF Inv
<1>7. checkpoint' \in [Node -> Fine \cup {NoFile}]
  BY <1>3 DEF Inv, ValuesInv
<1>8. ValuesInv'
  BY <1>2, <1>3, <1>7, FineUnchanged DEF Inv, ValuesInv
<1> QED
  BY <1>5, <1>6, <1>8 DEF Inv

LEMMA SeedStep ==
    ASSUME Inv, NEW l \in Leader, Seed(l)
    PROVE  Inv'
<1> DEFINE b == chosen[l].backup
<1>1. /\ pc[l] = "seed" /\ Goto(l, "fetch")
      /\ view' = [view EXCEPT ![l] = chosen[l]]
      /\ UNCHANGED <<writes, epoch, read, chosen, patience, killed, workerUp>>
      /\ Lose \/ UNCHANGED lost
      /\ UNCHANGED <<role, backupAddr, checkpoint, paramUp>>
      /\ params' = [params EXCEPT ![b] = read[l]] \/ params' = params
  BY DEF Seed, Reached, Unreached, ReplicateParams, serverVars
<1>2. /\ Consistent("seed", view[l], chosen[l], epoch[l], patience[l])
      /\ chosen[l] \in Pair /\ read[l] \in Fine
  BY <1>1 DEF Inv, LeadersInv, ValuesInv
<1>3. b \in Node /\ Consistent("fetch", chosen[l], chosen[l], epoch[l], patience[l])
  BY <1>2 DEF Consistent, Whole, Assigning, Finished
<1>4. LeadersInv'
  <2>1. "fetch" \in Place
    BY DEF Place, InEpoch
  <2>2. ASSUME NEW k \in Leader
        PROVE  Consistent(pc'[k], view'[k], chosen'[k], epoch'[k], patience'[k])
    BY <1>1, <1>3 DEF Inv, LeadersInv, Goto
  <2> QED
    BY <1>1, <1>2, <2>1, <2>2 DEF Inv, LeadersInv, Goto
<1>5. WritesInv'
  BY <1>1, WritesStay DEF Inv
<1>6. RolesInv' /\ OthersInv'
  BY <1>1, RolesStay, LostCounts DEF Inv, RolesInv, OthersInv
<1>7. params' \in [Node -> Fine]
  BY <1>1, <1>2, <1>3 DEF Inv, ValuesInv
<1>8. ValuesInv'
  BY <1>1, <1>7, FineUnchanged DEF Inv, ValuesInv
<1> QED
  BY <1>4, <1>5, <1>6, <1>8 DEF Inv

\* The epochs of a leader only grow.
LEMMA CompleteStep ==
    ASSUME Inv, NEW l \in Leader, NEW improved \in BOOLEAN, Complete(l, improved)
    PROVE  Inv'
<1> DEFINE p == IF improved THEN 0 ELSE patience[l] + 1
           e == epoch[l] + 1
           where == IF p >= Patience \/ e >= MaxEpochs THEN "done" ELSE "fetch"
<1>1. /\ pc[l] = "complete" /\ Goto(l, where)
      /\ epoch' = [epoch EXCEPT ![l] = e] /\ patience' = [patience EXCEPT ![l] = p]
      /\ UNCHANGED <<serverVars, view, read, chosen, killed, workerUp, lost>>
  BY DEF Complete, Inv, LeadersInv
<1>2. /\ Whole(view[l]) /\ epoch[l] < MaxEpochs /\ patience[l] < Patience
      /\ epoch[l] \in 0 .. MaxEpochs /\ patience[l] \in 0 .. Patience
      /\ view[l] \in Pair /\ chosen[l] \in Pair
  BY <1>1, InLoop DEF InEpoch, Whole, Inv, LeadersInv
<1>3. p \in 0 .. Patience /\ e \in 0 .. MaxEpochs /\ where \in Place
  BY <1>2, Constants DEF Place, InEpoch, Finished
<1>4. Consistent(where, view[l], chosen[l], e, p)
  BY <1>2, <1>3, Constants DEF Consistent, Finished, Assigning
<1> HIDE DEF p, where
<1>5. LeadersInv'
  <2>1. ASSUME NEW k \in Leader
        PROVE  Consistent(pc'[k], view'[k], chosen'[k], epoch'[k], patience'[k])
    BY <1>1, <1>4 DEF Inv, LeadersInv, Goto
  <2> QED
    BY <1>1, <1>3, <2>1 DEF Inv, LeadersInv, Goto
<1>6. Fine \subseteq Fine'
  <2>1. epoch \in [Leader -> 0 .. MaxEpochs] /\ epoch' \in [Leader -> 0 .. MaxEpochs]
    BY <1>5 DEF Inv, LeadersInv
  <2>2. \A k \in Leader : epoch[k] <= epoch'[k]
    BY <1>1, <2>1, Constants
  <2> QED
    BY <2>1, <2>2, FineStays
<1>7. read' \in [Leader -> Fine] /\ lost' \in 0 .. MaxLost
  BY <1>1 DEF Inv, ValuesInv, OthersInv
<1> QED
  BY <1>1, <1>5, <1>6, <1>7, LoopStep

\* A server that dies fails the write its leader waits for.
LEMMA ServerDies ==
    ASSUME Inv, NEW n \in Node, KillParam(n) \/ CrashParam(n)
    PROVE  Inv'
<1>1. /\ paramUp' = [paramUp EXCEPT ![n] = FALSE]
      /\ UNCHANGED <<role, backupAddr, params, checkpoint, loopVars>>
      /\ writes' \subseteq writes
  BY DEF KillParam, CrashParam, KillServer, CrashServer
<1>2. RolesInv' /\ OthersInv'
  BY <1>1, RolesStay DEF Inv, RolesInv, OthersInv, loopVars
<1>3. ValuesInv'
  BY <1>1, ValuesStay DEF Inv, ValuesInv, loopVars
<1>4. CASE KillParam(n)
  BY <1>1, <1>2, <1>3, <1>4 DEF KillParam, KillServer, Inv, WritesInv, LeadersInv, loopVars
<1>5. CASE CrashParam(n)
  <2> DEFINE Broken(l) == \E w \in writes : w.from = l /\ w.awaited /\ w.at = n
  <2>1. /\ pc' = [l \in Leader |-> IF Broken(l) THEN "recover" ELSE pc[l]]
        /\ writes' = {w \in writes : w.at # n}
    BY <1>5 DEF CrashParam, CrashServer
  <2>2. \A l \in Leader : Broken(l) => pc[l] = "writing"
    BY DEF Inv, WritesInv
  <2>3. ASSUME NEW l \in Leader
        PROVE  /\ Consistent(pc'[l], view'[l], chosen'[l], epoch'[l], patience'[l])
               /\ pc'[l] \in Place
    <3>1. CASE Broken(l)
      <4>1. pc[l] \in InEpoch /\ pc'[l] = "recover"
        BY <2>1, <2>2, <3>1 DEF InEpoch
      <4>2. "recover" \in Place /\ Consistent("recover", view[l], chosen[l], epoch[l], patience[l])
        BY <4>1, InLoop
      <4> QED
        BY <1>1, <4>1, <4>2 DEF loopVars
    <3>2. CASE ~Broken(l)
      <4>1. pc'[l] = pc[l]
        BY <2>1, <3>2
      <4> QED
        BY <1>1, <4>1 DEF Inv, LeadersInv, loopVars
    <3> QED
      BY <3>1, <3>2
  <2>4. LeadersInv'
    <3>1. pc' \in [Leader -> Place]
      BY <2>1, <2>3
    <3> QED
      BY <1>1, <2>3, <3>1 DEF Inv, LeadersInv, loopVars
  <2>5. ASSUME NEW w \in writes', w.awaited
        PROVE  pc'[w.from] = "writing"
    <3>1. w \in writes /\ w.at # n /\ w.from \in Leader /\ pc[w.from] = "writing"
      BY <2>1, <2>5 DEF Inv, WritesInv, WriteInFlight
    <3>2. ~Broken(w.from)
      BY <2>5, <3>1 DEF Inv, WritesInv
    <3> QED
      BY <2>1, <3>1, <3>2
  <2>6. WritesInv'
    BY <1>1, <2>5 DEF Inv, WritesInv
  <2> QED
    BY <1>2, <1>3, <2>4, <2>6 DEF Inv
<1> QED
  BY <1>4, <1>5

LEMMA KillStep ==
    ASSUME Inv, (\E l \in Leader : KillLeader(l)) \/ (\E n \in Node : KillWorker(n))
    PROVE  Inv'
<1>1. /\ UNCHANGED <<serverVars, pc, view, epoch, read, chosen, patience, lost>>
      /\ killed' \in [Leader -> BOOLEAN] /\ workerUp' \in [Node -> BOOLEAN]
  BY DEF KillLeader, KillWorker, Inv, LeadersInv, OthersInv
<1>2. RolesInv' /\ WritesInv' /\ LeadersInv' /\ OthersInv'
  BY <1>1 DEF Inv, RolesInv, WritesInv, LeadersInv, OthersInv, serverVars
<1>3. ValuesInv'
  BY <1>1, ValuesStay DEF Inv, ValuesInv, serverVars
<1> QED
  BY <1>2, <1>3 DEF Inv

-----------------------------------------------------------------------------
(* The system *)

LEMMA InitInv == Init => Inv
<1> SUFFICES ASSUME Init PROVE Inv
  OBVIOUS
<1> USE Constants DEF Init, ServerInit
<1>1. RolesInv
  BY DEF RolesInv
<1>2. WritesInv
  BY DEF WritesInv
<1>3. LeadersInv
  <2>1. NoPair \in Pair
    BY DEF NoPair, Pair
  <2>2. "follower" \in Place
    BY DEF Place
  <2>3. \A l \in Leader : Consistent("follower", NoPair, NoPair, 0, 0)
    BY DEF Consistent, Finished, Assigning
  <2> QED
    BY <2>1, <2>2, <2>3 DEF LeadersInv
<1>4. OthersInv
  BY DEF OthersInv
<1>5. ValuesInv
  <2>1. <<>> \in Fine
    BY DEF Fine
  <2>2. OldRun \in Fine
    <3>1. OldUpdate \in Update /\ OldUpdate.by \notin Leader
      BY DEF Update, OldUpdate
    <3> QED
      BY <3>1 DEF OldRun, Fine
  <2> QED
    BY <2>1, <2>2 DEF ValuesInv
<1> QED
  BY <1>1, <1>2, <1>3, <1>4, <1>5 DEF Inv

LEMMA NextInv == Inv /\ [Next]_vars => Inv'
<1> SUFFICES ASSUME Inv, [Next]_vars PROVE Inv'
  OBVIOUS
<1>1. ASSUME NEW l \in Leader, EpochLoop(l) PROVE Inv'
  <2>1. CASE SetPrimary(l) \/ SetBackup(l)
    BY <2>1, SetStep
  <2>2. CASE StopLoop(l) \/ FetchPrimary(l) \/ FetchBackup(l)
    BY <2>2, FetchStep
  <2>3. CASE FetchCheckpoint(l)
    BY <2>3, FetchCheckpointStep
  <2>4. CASE Delegate(l)
    BY <2>4, DelegateStep
  <2>5. CASE CallWrite(l)
    BY <2>5, CallWriteStep
  <2>6. CASE Save(l)
    BY <2>6, SaveStep
  <2>7. CASE \E improved \in BOOLEAN : Complete(l, improved)
    BY <2>7, CompleteStep
  <2>8. CASE ProbePrimary(l) \/ ProbeBackup(l)
    BY <2>8, ProbeStep
  <2>9. CASE FindSpare(l)
    BY <2>9, FindSpareStep
  <2>10. CASE Seed(l)
    BY <2>10, SeedStep
  <2> QED
    BY <1>1, <2>1, <2>2, <2>3, <2>4, <2>5, <2>6, <2>7, <2>8, <2>9, <2>10 DEF EpochLoop
<1>2. ASSUME NEW l \in Leader, NEW p \in Node, NEW b \in Node, BecomeLeader(l, p, b)
      PROVE  Inv'
  BY <1>2, BecomeLeaderStep
<1>3. CASE WriteParams
  BY <1>3, HandlerStep DEF WriteParams
<1>4. CASE Failure
  <2>1. CASE \E l \in Leader : AbandonWrite(l) \/ CrashLeader(l)
    BY <2>1, AbandonStep
  <2>2. CASE \E n \in Node : KillParam(n) \/ CrashParam(n)
    BY <2>2, ServerDies
  <2>3. CASE (\E l \in Leader : KillLeader(l)) \/ (\E n \in Node : KillWorker(n))
    BY <2>3, KillStep
  <2> QED
    BY <1>4, <2>1, <2>2, <2>3 DEF Failure
<1>5. CASE UNCHANGED vars
  <2>1. RolesInv' /\ WritesInv' /\ LeadersInv' /\ OthersInv'
    BY <1>5 DEF Inv, RolesInv, WritesInv, LeadersInv, OthersInv, vars, serverVars, loopVars
  <2>2. ValuesInv'
    BY <1>5, ValuesStay DEF Inv, ValuesInv, vars, serverVars, loopVars
  <2> QED
    BY <2>1, <2>2 DEF Inv
<1> QED
  BY <1>1, <1>2, <1>3, <1>4, <1>5 DEF Next

\* The inductive invariant: who waits for which write, what is known of a leader
\* at each place of its loop, and what values may be held anywhere.
THEOREM Invariance == Spec => []Inv
BY InitInv, NextInv, PTL DEF Spec

\* Every variable keeps its type: in particular, no write is accepted by a
\* primary that has nobody to replicate to.
THEOREM TypeCorrect == Spec => []TypeOK
<1>1. Inv => TypeOK
  <2> SUFFICES ASSUME Inv PROVE TypeOK
    OBVIOUS
  <2>1. /\ params \in [Node -> Seq(Update)] /\ read \in [Leader -> Seq(Update)]
        /\ checkpoint \in [Node -> Seq(Update) \cup {NoFile}]
    BY FineIsSeq DEF Inv, ValuesInv
  <2> QED
    BY <2>1 DEF TypeOK, Inv, RolesInv, WritesInv, LeadersInv, OthersInv, Place
<1> QED
  BY <1>1, Invariance, PTL

\* However calls fail, and however many leaders compete for the same servers, a
\* server never holds a leader's updates out of the order of its epochs.
THEOREM UpdatesOrderedCorrect == Spec => []UpdatesOrdered
<1>1. Inv => UpdatesOrdered
  BY DEF Inv, ValuesInv, Fine, UpdatesOrdered
<1> QED
  BY <1>1, Invariance, PTL
=============================================================================
