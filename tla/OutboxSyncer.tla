---------------------------- MODULE OutboxSyncer ----------------------------
(***************************************************************************)
(* The outbox syncer (internal/agents/outbox_syncer.go) writing straight   *)
(* to the coordinator, with no Kafka producer attached.  syncAllNodes runs *)
(* without sim.mu: it shares the databases with clients and with the       *)
(* operation that holds the mutex, one statement at a time.                *)
(***************************************************************************)
EXTENDS CounterNode

VARIABLE sync   \* the syncer's goroutine

\* nodes is what remains of the loop over AllNodeDBs; at "write" and "mark"
\* batch is what remains of the fetched list, at "pills" of the poison list;
\* op is the operation that was written and is not marked yet.
Syncer == [pc : {"idle", "nodes", "write", "mark", "pills"},
           nodes : SUBSET Nodes,
           node : Nodes \cup {"none"},
           batch : SUBSET Uuid,
           op : Uuid \cup {"none"}]

IdleSyncer == [pc |-> "idle", nodes |-> {}, node |-> "none", batch |-> {}, op |-> "none"]

SyncTypeOK == sync \in Syncer

SyncInit == sync = IdleSyncer

\* On to the next operation of the list.
NextOp(u) == sync' = [sync EXCEPT !.pc = "write", !.batch = @ \ {u}, !.op = "none"]

\* On to the next node.
NextNode == sync' = [sync EXCEPT !.pc = "nodes", !.node = "none", !.batch = {}]

---------------------------------------------------------------------------
\* The ticker fires.  AllNodeDBs takes sim.mu for reading, which module
\* CounterGhost adds.
SyncTick ==
    /\ sync = IdleSyncer
    /\ sync' = [sync EXCEPT !.pc = "nodes", !.nodes = Nodes]
    /\ UNCHANGED <<storageVars, nodeVars>>

\* A node with nothing to fetch is left at once, its poison pills included.
SyncFetch(n) ==
    /\ sync.pc = "nodes"
    /\ n \in sync.nodes
    /\ \/ /\ Works
          /\ \E ops \in GetUnsyncedOutboxOps(n) :
                sync' = IF ops = {}
                        THEN [sync EXCEPT !.nodes = @ \ {n}]
                        ELSE [sync EXCEPT !.pc = "write", !.nodes = @ \ {n},
                                          !.node = n, !.batch = ops]
       \/ Fails("node") /\ sync' = [sync EXCEPT !.nodes = @ \ {n}]
    /\ UNCHANGED <<info, nodeDB, outbox, attempts, recorded, coord, dlq, nodeVars>>

\* InsertOperation or InsertOperationPG: this insert suits the backend.  The
\* table of PostgreSQL would also refuse a second operation with the stamp of
\* another; UniqueStamps in module CounterGhost says that there is none.
SyncWrite(u) ==
    /\ sync.pc = "write"
    /\ u \in sync.batch
    /\ coord' = InsertOperation(coord, u)
    /\ sync' = [sync EXCEPT !.pc = "mark", !.op = u]
    /\ Works
    /\ UNCHANGED <<info, nodeDB, outbox, attempts, recorded, dlq, nodeVars>>

\* The insert returned an error, whether or not it took effect.  That counting
\* the attempt fails as well is ignored.
SyncWriteFailed(u) ==
    /\ sync.pc = "write"
    /\ u \in sync.batch
    /\ \/ Fails("coord") /\ UNCHANGED coord
       \/ Fails("reply") /\ coord' = InsertOperation(coord, u)
    /\ \/ MarkOutboxFailed(u)
       \/ "mark" \in Faulty /\ UNCHANGED attempts
    /\ NextOp(u)
    /\ UNCHANGED <<info, nodeDB, outbox, recorded, dlq, nodeVars>>

\* (Faulty variant: only what the log has by now is marked.)
SyncMarkDelivered ==
    /\ sync.pc = "mark"
    /\ \/ Works /\ IF sync.op \in coord THEN MarkOutboxSynced(sync.op) ELSE UNCHANGED outbox
       \/ Fails("mark") /\ UNCHANGED outbox
    /\ NextOp(sync.op)
    /\ UNCHANGED <<info, nodeDB, attempts, recorded, coord, dlq, nodeVars>>

\* A failure to mark is logged only: the entry stays unsynced.
SyncMark ==
    /\ sync.pc = "mark"
    /\ \/ Works /\ MarkOutboxSynced(sync.op)
       \/ Fails("mark") /\ UNCHANGED outbox
    /\ NextOp(sync.op)
    /\ UNCHANGED <<info, nodeDB, attempts, recorded, coord, dlq, nodeVars>>

SyncFetchPills ==
    /\ sync.pc = "write"
    /\ sync.batch = {}
    /\ \/ Works /\ sync' = [sync EXCEPT !.pc = "pills", !.batch = GetPoisonPillOps(sync.node)]
       \/ Fails("node") /\ NextNode
    /\ UNCHANGED <<info, nodeDB, outbox, attempts, recorded, coord, dlq, nodeVars>>

\* The entry goes only once its dead letter is there; a failure to delete it is
\* ignored.
SyncDeadLetter(u) ==
    /\ sync.pc = "pills"
    /\ u \in sync.batch
    /\ Backend = "sqlite"
    /\ InsertDLQEntry(u)
    /\ \/ Works /\ DeleteOutboxEntry(u)
       \/ Fails("mark") /\ UNCHANGED outbox
    /\ sync' = [sync EXCEPT !.batch = @ \ {u}]
    /\ UNCHANGED <<info, nodeDB, attempts, recorded, coord, nodeVars>>

\* (Faulty variant: the entry goes although its dead letter was refused.)
SyncDeadLetterFailedDropped(u) ==
    /\ sync.pc = "pills"
    /\ u \in sync.batch
    /\ \/ Backend = "postgres" /\ Works
       \/ Fails("dlq")
    /\ DeleteOutboxEntry(u)
    /\ sync' = [sync EXCEPT !.batch = @ \ {u}]
    /\ UNCHANGED <<info, nodeDB, attempts, recorded, coord, dlq, nodeVars>>

\* The dead letter is refused, always so by PostgreSQL: the pill is skipped.
SyncDeadLetterFailed(u) ==
    /\ sync.pc = "pills"
    /\ u \in sync.batch
    /\ \/ Backend = "postgres" /\ Works
       \/ Fails("dlq")
    /\ sync' = [sync EXCEPT !.batch = @ \ {u}]
    /\ UNCHANGED <<info, nodeDB, outbox, attempts, recorded, coord, dlq, nodeVars>>

SyncNodeDone ==
    /\ sync.pc = "pills"
    /\ sync.batch = {}
    /\ NextNode
    /\ UNCHANGED <<storageVars, nodeVars>>

SyncReturn ==
    /\ sync.pc = "nodes"
    /\ sync.nodes = {}
    /\ sync' = IdleSyncer
    /\ UNCHANGED <<storageVars, nodeVars>>

\* A step of syncAllNodes, which needs no lock.
SyncStep ==
    \/ \E n \in Nodes : SyncFetch(n)
    \/ \E u \in Uuid : SyncWrite(u) \/ SyncWriteFailed(u)
    \/ SyncMark
    \/ SyncFetchPills
    \/ \E u \in Uuid : SyncDeadLetter(u) \/ SyncDeadLetterFailed(u)
    \/ SyncNodeDone
    \/ SyncReturn
=============================================================================
