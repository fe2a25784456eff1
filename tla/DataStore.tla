------------------------------ MODULE DataStore ------------------------------
(***************************************************************************)
(* The data stores of datastore/datastore.go, one per node: each loads its *)
(* shard of the data set, serves it, and pushes a replica of it to its     *)
(* right neighbour on the ring.                                            *)
(*                                                                         *)
(* A store is "off", then "push" while Make repeats the push to a          *)
(* neighbour, then "made" when Make has returned.                          *)
(***************************************************************************)
EXTENDS Integers, FiniteSets

CONSTANTS
    N,        \* the nodes of the cluster
    Sizes,    \* the numbers of rows the data set may have
    NoShard   \* replicaShard of a store that has received none

ASSUME NAssumption == N \in Nat \ {0}
ASSUME SizesAssumption == Sizes \subseteq Nat

Node == 0 .. N-1

VARIABLES
    size,     \* the rows of the data set
    store,    \* store[n]: how far Make of store n is
    replica   \* replica[n]: replicaShard

storeVars == <<size, store, replica>>

Row == 0 .. size-1

StoreInit ==
    /\ size \in Sizes
    /\ store = [n \in Node |-> "off"]
    /\ replica = [n \in Node |-> NoShard]

(* Each definition named Faulty... is a plausible mistake in the one below  *)
(* it; no action uses it, and a property must fail with it in its place.   *)

OwnerOf(row) == row % N

\* Takes the header of the file for a row.
FaultyShard(n) == {row \in 0 .. size : OwnerOf(row) = n}
Shard(n) == {row \in Row : OwnerOf(row) = n}

\* The left one.
FaultyRightNeighbor(n) == (n + N - 1) % N
RightNeighbor(n) == (n + 1) % N

\* The simulation starts a store when Make of the one before it has returned.
MayStart(n) == \A m \in 0 .. n-1 : store[m] = "made"

StoresMade == \A n \in Node : store[n] = "made"

\* Make up to its push: the shard is loaded and served.
LoadStore(n) ==
    /\ store[n] = "off" /\ MayStart(n)
    /\ store' = [store EXCEPT ![n] = "push"]
    /\ UNCHANGED <<size, replica>>

ReceiveReplica(n, shard) == replica' = [replica EXCEPT ![n] = shard]

\* The right neighbour takes the replica.  When its answer is lost, the push is
\* repeated.
PushReplica(n) ==
    /\ store[n] = "push" /\ store[RightNeighbor(n)] # "off"
    /\ ReceiveReplica(RightNeighbor(n), Shard(n))
    /\ \E confirmed \in BOOLEAN :
          store' = IF confirmed THEN [store EXCEPT ![n] = "made"] ELSE store
    /\ UNCHANGED size

\* Waits for a neighbour that does not listen however long it takes.
FaultyAbandonPush(n) ==
    /\ store[n] = "push" /\ store[RightNeighbor(n)] # "off"
    /\ store' = [store EXCEPT ![n] = "made"]
    /\ UNCHANGED <<size, replica>>

\* Five seconds have passed, in which the neighbour did not listen or calls to it
\* failed, or their answers were lost.
AbandonPush(n) ==
    /\ store[n] = "push"
    /\ store' = [store EXCEPT ![n] = "made"]
    /\ UNCHANGED <<size, replica>>

MakeStore(n) == LoadStore(n) \/ PushReplica(n) \/ AbandonPush(n)
=============================================================================
