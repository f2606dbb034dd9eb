---------------------------- MODULE CounterNode ----------------------------
(***************************************************************************)
(* A counter node (internal/node): the memory of a Node and the operations *)
(* on it.  Every method runs under the node's mutex, and everything it     *)
(* reads or writes outside that mutex is its own database transaction, so  *)
(* each method is one step.                                                *)
(*                                                                         *)
(* localVal is an integer in the code.  Here localVal[n][u] is how many    *)
(* times the amount of operation u is contained in that integer, which is  *)
(* what "no operation contributes more than once" is about; Total in       *)
(* module Reconciler computes the integers.                                *)
(***************************************************************************)
EXTENDS Storage

VARIABLES epoch, nextSeq, localVal, alive

nodeVars == <<epoch, nextSeq, localVal, alive>>

NodeTypeOK ==
    /\ epoch \in [Nodes -> Nat]
    /\ nextSeq \in [Nodes -> Nat]
    /\ localVal \in [Nodes -> [Uuid -> Nat]]
    /\ alive \in [Nodes -> BOOLEAN]

\* What a sum over the rows of a table contains.
Once(table) == [u \in Uuid |-> IF u \in table THEN 1 ELSE 0]

\* (Faulty variant: the sum is added to the value.)
ReloadLocalValAdded(n) ==
    localVal' = [localVal EXCEPT ![n] = [u \in Uuid |-> @[u] + Once(nodeDB[n])[u]]]

ReloadLocalVal(n) == localVal' = [localVal EXCEPT ![n] = Once(nodeDB[n])]

SetAlive(n, b) == alive' = [alive EXCEPT ![n] = b]

\* (Faulty variant: the sequence restarts but the epoch stays.)
IncrementEpochKept(n, inserted) ==
    /\ nextSeq' = [nextSeq EXCEPT ![n] = 1]
    /\ UNCHANGED <<epoch, recorded>>

\* The memory moves to the new epoch before the row is inserted: it stays
\* there when the insert fails.
IncrementEpoch(n, inserted) ==
    /\ epoch' = [epoch EXCEPT ![n] = @ + 1]
    /\ nextSeq' = [nextSeq EXCEPT ![n] = 1]
    /\ IF inserted THEN InsertEpoch(n, epoch[n] + 1) ELSE UNCHANGED recorded

\* (Faulty variant: the counter moves twice.)
ApplyDeltaTwice(n, u, a) ==
    /\ alive[n]
    /\ u \notin Issued
    /\ info' = [info EXCEPT ![u] = [node |-> n, epoch |-> epoch[n],
                                    seq |-> nextSeq[n], amount |-> a]]
    /\ nodeDB' = [nodeDB EXCEPT ![n] = InsertOperation(@, u)]
    /\ outbox' = [outbox EXCEPT ![u] = "unsynced"]
    /\ nextSeq' = [nextSeq EXCEPT ![n] = @ + 2]
    /\ localVal' = [localVal EXCEPT ![n][u] = @ + 1]
    /\ UNCHANGED <<attempts, recorded, coord, dlq, faults, epoch, alive>>

\* A client's delta.  The operation and its outbox entry are one transaction;
\* one that fails is rolled back and leaves no trace.
ApplyDelta(n, u, a) ==
    /\ alive[n]
    /\ u \notin Issued
    /\ info' = [info EXCEPT ![u] = [node |-> n, epoch |-> epoch[n],
                                    seq |-> nextSeq[n], amount |-> a]]
    /\ nodeDB' = [nodeDB EXCEPT ![n] = InsertOperation(@, u)]
    /\ outbox' = [outbox EXCEPT ![u] = "unsynced"]
    /\ nextSeq' = [nextSeq EXCEPT ![n] = @ + 1]
    /\ localVal' = [localVal EXCEPT ![n][u] = @ + 1]
    /\ UNCHANGED <<attempts, recorded, coord, dlq, faults, epoch, alive>>

\* (Faulty variant: a restarted node resumes its latest epoch.)
NewNodesResumed ==
    /\ epoch' = [n \in Nodes |-> recorded[n]]
    /\ nextSeq' = [n \in Nodes |-> GetMaxSequence(n, recorded[n]) + 1]
    /\ localVal' = [n \in Nodes |-> Once(nodeDB[n])]
    /\ alive' = [n \in Nodes |-> TRUE]
    /\ UNCHANGED <<info, nodeDB, outbox, attempts, recorded, coord, dlq, faults>>

\* (Faulty variant: a restarted node starts in the first epoch again.)
NewNodesFirst ==
    /\ epoch' = [n \in Nodes |-> 1]
    /\ recorded' = recorded
    /\ nextSeq' = [n \in Nodes |-> GetMaxSequence(n, 1) + 1]
    /\ localVal' = [n \in Nodes |-> Once(nodeDB[n])]
    /\ alive' = [n \in Nodes |-> TRUE]
    /\ UNCHANGED <<info, nodeDB, outbox, attempts, coord, dlq, faults>>

\* NewNode for every node, as NewSimulation calls it on the databases a killed
\* process left.
NewNodes ==
    /\ epoch' = [n \in Nodes |-> recorded[n] + 1]
    /\ recorded' = [n \in Nodes |-> recorded[n] + 1]
    /\ nextSeq' = [n \in Nodes |-> GetMaxSequence(n, recorded[n] + 1) + 1]
    /\ localVal' = [n \in Nodes |-> Once(nodeDB[n])]
    /\ alive' = [n \in Nodes |-> TRUE]
    /\ UNCHANGED <<info, nodeDB, outbox, attempts, coord, dlq, faults>>

NodeInit ==
    /\ epoch = [n \in Nodes |-> 1]
    /\ nextSeq = [n \in Nodes |-> 1]
    /\ localVal = [n \in Nodes |-> Once({})]
    /\ alive = [n \in Nodes |-> TRUE]
=============================================================================
