---------------------------- MODULE ParamServer ----------------------------
(***************************************************************************)
(* The parameter servers of paramserver/paramserver.go, one per node: the  *)
(* role a coordinator gave them, the parameters they hold in memory and    *)
(* the checkpoint on their disk.                                           *)
(*                                                                         *)
(* Parameters are abstracted to the SGD updates that produced them, in     *)
(* order; <<>> stands for a server that holds none.  Every handler is one  *)
(* critical section of ps.mu but WriteParams, which gives the lock up      *)
(* while it replicates: a write under way is a member of `writes'.         *)
(***************************************************************************)
EXTENDS Integers, Sequences, FiniteSets

CONSTANTS
    N,         \* the nodes of the cluster
    Leftover,  \* the nodes whose disks hold the checkpoint of an earlier run
    NoNode,    \* the backup address of a server that has none
    NoFile     \* the checkpoint of a server whose disk holds none

ASSUME NAssumption == N \in Nat /\ N >= 3
ASSUME NoNodeAssumption == NoNode \notin 0 .. N-1
ASSUME LeftoverAssumption == Leftover \subseteq 0 .. N-1

Node == 0 .. N-1

\* What training came to in an earlier run: no leader of this one had a part in it.
OldUpdate == [by |-> NoNode, epoch |-> 0]
OldRun == <<OldUpdate>>

VARIABLES
    role,        \* role[n]: "none", "primary" or "backup"
    backupAddr,  \* backupAddr[n]: where a primary replicates to
    params,      \* params[n]: the updates in n's memory
    checkpoint,  \* checkpoint[n]: the updates in n's checkpoint file
    paramUp,     \* paramUp[n]: n's listener accepts connections
    writes       \* the WriteParams handlers under way

serverVars == <<role, backupAddr, params, checkpoint, paramUp, writes>>

\* The checkpoints have the same paths in every run, and nobody removes them.
ServerInit ==
    /\ role = [n \in Node |-> "none"]
    /\ backupAddr = [n \in Node |-> NoNode]
    /\ params = [n \in Node |-> <<>>]
    /\ checkpoint = [n \in Node |-> IF n \in Leftover THEN OldRun ELSE NoFile]
    /\ paramUp = [n \in Node |-> TRUE]
    /\ writes = {}

(* Each definition named Faulty... is a plausible mistake in the one below  *)
(* it; no action uses it, and a property must fail with it in its place.   *)

\* Forgets the address of the backup.
FaultyRoleOnly(n, r, b) ==
    /\ role' = [role EXCEPT ![n] = r]
    /\ UNCHANGED <<backupAddr, params, checkpoint, paramUp, writes>>

\* Keeps the first role it is given.
FaultyFirstRole(n, r, b) ==
    /\ role' = [role EXCEPT ![n] = IF @ = "none" THEN r ELSE @]
    /\ backupAddr' = [backupAddr EXCEPT ![n] = b]
    /\ UNCHANGED <<params, checkpoint, paramUp, writes>>

SetRole(n, r, b) ==
    /\ role' = [role EXCEPT ![n] = r]
    /\ backupAddr' = [backupAddr EXCEPT ![n] = b]
    /\ UNCHANGED <<params, checkpoint, paramUp, writes>>

ReplicateParams(n, value) ==
    /\ params' = [params EXCEPT ![n] = value]
    /\ UNCHANGED <<role, backupAddr, checkpoint, paramUp>>

Checkpoint(n) ==
    /\ checkpoint' = [checkpoint EXCEPT ![n] = params[n]]
    /\ UNCHANGED <<role, backupAddr, params, paramUp, writes>>

Accepts(n) == role[n] = "primary"

\* The record of a write that leader l waits for, once n has accepted it; try
\* tells it from an earlier one with the same content.
Write(l, n, value, try) ==
    [from |-> l, at |-> n, backup |-> backupAddr[n], value |-> value, try |-> try,
     stage |-> "replicate", awaited |-> TRUE]

BeginWrite(w) ==
    /\ writes' = writes \cup {w}
    /\ UNCHANGED <<role, backupAddr, params, checkpoint, paramUp>>

\* Confirms without replicating.
FaultyUnreplicated(w) ==
    /\ writes' = (writes \ {w}) \cup {[w EXCEPT !.stage = "apply"]}
    /\ UNCHANGED <<role, backupAddr, params, checkpoint, paramUp>>

\* The backup has the parameters: the primary may take them over.
Replicated(w) ==
    /\ ReplicateParams(w.backup, w.value)
    /\ writes' = (writes \ {w}) \cup {[w EXCEPT !.stage = "apply"]}

\* The call to the backup failed, with or without effect there: the handler
\* returns an error and leaves the primary as it was.
ReplicationFails(w, reached) ==
    /\ IF reached THEN ReplicateParams(w.backup, w.value)
                  ELSE UNCHANGED <<role, backupAddr, params, checkpoint, paramUp>>
    /\ writes' = writes \ {w}

Apply(w) ==
    /\ params' = [params EXCEPT ![w.at] = w.value]
    /\ writes' = writes \ {w}
    /\ UNCHANGED <<role, backupAddr, checkpoint, paramUp>>

\* The listener closes.  Handlers that run go on and still answer.
KillServer(n) ==
    /\ paramUp' = [paramUp EXCEPT ![n] = FALSE]
    /\ UNCHANGED <<role, backupAddr, params, checkpoint, writes>>

\* The process dies, and the handlers it ran with it.
CrashServer(n) ==
    /\ paramUp' = [paramUp EXCEPT ![n] = FALSE]
    /\ writes' = {w \in writes : w.at # n}
    /\ UNCHANGED <<role, backupAddr, params, checkpoint>>
=============================================================================
