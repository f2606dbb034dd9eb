------------------------------ MODULE Storage ------------------------------
(***************************************************************************)
(* The durable tables of CounterGhost and the statements of internal/db    *)
(* that read and write them.                                               *)
(*                                                                         *)
(*   node database (SQLite, one file per node)                             *)
(*     operations        nodeDB[n]   ids of the rows                       *)
(*     operation_outbox  outbox[u], attempts[u]                            *)
(*     epochs            recorded[n], the highest epoch row                *)
(*   coordinator database (SQLite or PostgreSQL)                           *)
(*     operations         coord      ids of the rows                       *)
(*     dead_letter_queue  dlq        ids of the rows                       *)
(*                                                                         *)
(* A row is never updated in place, so the columns of an operation are a   *)
(* function of its operation_id: info[u] is the operation that the id u    *)
(* was issued for, and a table is the set of the ids it holds.             *)
(***************************************************************************)
EXTENDS Integers, FiniteSets, FiniteSetsExt

CONSTANTS
    Nodes,        \* the node ids, "node-0", "node-1", ...
    Uuid,         \* the operation ids uuid.New can return
    Amounts,      \* the deltas clients apply
    MaxAttempts,  \* failed syncs that make an entry a poison pill (5)
    BatchLimit,   \* rows the outbox syncer fetches at a time (50)
    Backend,      \* the coordinator's database: "sqlite" or "postgres"
    Faulty,       \* the kinds of statements that may fail in this instance
    MaxFaults,    \* how many statements may fail in a behaviour
    NoOp          \* info[u] of an id that no operation carries yet

(* The kinds of failing statement:                                         *)
(*   coord   a statement on the coordinator's operations table             *)
(*   publish a message to Kafka                                            *)
(*   reply   a coordinator insert or a message to Kafka that takes effect  *)
(*           but whose answer is lost                                      *)
(*   node    a statement on a node's operations table                      *)
(*   mark    an update or a delete of an outbox row                        *)
(*   dlq     an insert into the dead letter queue                          *)
(*   reload  the sum that Reconcile, RebuildFromLog and ReplayDelayedOps   *)
(*           reload a node's value from                                    *)
(*   revive  the epoch row or the sum CrashNode brings a node back with    *)
FaultKinds == {"coord", "publish", "reply", "node", "mark", "dlq", "reload", "revive"}

Operation == [node : Nodes, epoch : Nat, seq : Nat, amount : Int]

ASSUME StorageAssumption ==
    /\ Amounts \subseteq Int
    /\ MaxAttempts \in Nat \ {0}
    /\ BatchLimit \in Nat \ {0}
    /\ Backend \in {"sqlite", "postgres"}
    /\ Faulty \subseteq FaultKinds
    /\ MaxFaults \in Nat
    /\ NoOp \notin Operation

VARIABLES info, nodeDB, outbox, attempts, recorded, coord, dlq,
          faults   \* how many statements have failed

storageVars == <<info, nodeDB, outbox, attempts, recorded, coord, dlq, faults>>

StorageTypeOK ==
    /\ info \in [Uuid -> Operation \cup {NoOp}]
    /\ nodeDB \in [Nodes -> SUBSET Uuid]
    /\ outbox \in [Uuid -> {"absent", "unsynced", "synced"}]
    /\ attempts \in [Uuid -> Nat]
    /\ recorded \in [Nodes -> Nat]
    /\ coord \subseteq Uuid
    /\ dlq \subseteq Uuid
    /\ faults \in Nat

---------------------------------------------------------------------------
(* Queries.                                                                *)

\* The operations some ApplyDelta has acknowledged.
Issued == {u \in Uuid : info[u] # NoOp}

\* (Faulty variant: the query forgets its WHERE.)
GetOperationsByNodeAll(table, n) == table

\* SELECT ... WHERE node_id = n
GetOperationsByNode(table, n) == {u \in table : info[u].node = n}

\* ORDER BY epoch, sequence
Before(u, v) ==
    \/ info[u].epoch < info[v].epoch
    \/ info[u].epoch = info[v].epoch /\ info[u].seq < info[v].seq

\* SELECT MAX(sequence) WHERE node_id = n AND epoch = e, and 0 for no row
GetMaxSequence(n, e) ==
    Max({0} \cup {info[u].seq : u \in {v \in GetOperationsByNode(nodeDB[n], n) :
                                          info[v].epoch = e}})

\* SELECT SUM(amount)
SumAmounts(table) == MapThenSumSet(LAMBDA u : info[u].amount, table)

Unsynced(n) == {u \in Issued : info[u].node = n /\ outbox[u] = "unsynced"}

\* (Faulty variant: the query joins the operations table and so loses the
\* entries whose operation a crash has deleted.)
PendingJoined(n) == {u \in Unsynced(n) : attempts[u] < MaxAttempts /\ u \in nodeDB[n]}

Pending(n) == {u \in Unsynced(n) : attempts[u] < MaxAttempts}

\* The fetch is ordered by the text of created_at, which is not the order of
\* the stamps: any full batch is possible.
GetUnsyncedOutboxOps(n) ==
    LET waiting == Pending(n)
        size == Cardinality(waiting)
    IN IF size <= BatchLimit THEN {waiting} ELSE kSubset(BatchLimit, waiting)

GetPoisonPillOps(n) == {u \in Unsynced(n) : attempts[u] >= MaxAttempts}

---------------------------------------------------------------------------
(* Statements.  Each is a fragment of the actions of the other modules.    *)

Works == UNCHANGED faults

Fails(kind) ==
    /\ kind \in Faulty
    /\ faults < MaxFaults
    /\ faults' = faults + 1

\* Only InsertOperationPG and SumAmountsPG speak PostgreSQL.  The statements
\* Reconcile, RebuildFromLog and ReplayDelayedOps send to the coordinator and
\* InsertDLQEntry are SQLite text, which PostgreSQL rejects every time.
CoordWorks == Backend = "sqlite" /\ Works
CoordFails ==
    \/ Backend = "postgres" /\ Works
    \/ Fails("coord")

\* INSERT OR IGNORE
InsertOperation(table, u) == table \cup {u}

DeleteOperations(n, S) == nodeDB' = [nodeDB EXCEPT ![n] = @ \ S]

DeleteAllOperations(n) == nodeDB' = [nodeDB EXCEPT ![n] = {}]

InsertEpoch(n, e) == recorded' = [recorded EXCEPT ![n] = e]

MarkOutboxSynced(u) == outbox' = [outbox EXCEPT ![u] = "synced"]

\* (Faulty variant: it counts down the attempts left from a zero default.)
MarkOutboxFailedDown(u) == attempts' = [attempts EXCEPT ![u] = @ - 1]

MarkOutboxFailed(u) == attempts' = [attempts EXCEPT ![u] = @ + 1]

DeleteOutboxEntry(u) == outbox' = [outbox EXCEPT ![u] = "absent"]

InsertDLQEntry(u) == dlq' = dlq \cup {u}

\* Empty tables, apart from the epoch row NewNode inserts.
StorageInit ==
    /\ info = [u \in Uuid |-> NoOp]
    /\ nodeDB = [n \in Nodes |-> {}]
    /\ outbox = [u \in Uuid |-> "absent"]
    /\ attempts = [u \in Uuid |-> 0]
    /\ recorded = [n \in Nodes |-> 1]
    /\ coord = {}
    /\ dlq = {}
    /\ faults = 0
=============================================================================
