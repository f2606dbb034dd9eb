---------------------------- MODULE CounterGhost ----------------------------
(***************************************************************************)
(* CounterGhost as one process runs it: clients that apply deltas, the     *)
(* HTTP handlers that crash, reconcile, rebuild and replay, the outbox     *)
(* syncer and the reconciler agent, and a kill of the process followed by  *)
(* a new start on the same databases.                                      *)
(***************************************************************************)
EXTENDS Reconciler, OutboxSyncer

CONSTANTS MaxCalls,     \* requests of the crash, reconcile, rebuild and replay handlers
          MaxRestarts   \* kills of the process

ASSUME BoundsAssumption == MaxCalls \in Nat /\ MaxRestarts \in Nat

VARIABLES calls, restarts

vars == <<storageVars, nodeVars, simVars, sync, rec, calls, restarts>>

TypeOK ==
    /\ StorageTypeOK
    /\ NodeTypeOK
    /\ SimTypeOK
    /\ SyncTypeOK
    /\ RecTypeOK
    /\ calls \in Nat
    /\ restarts \in Nat

Init ==
    /\ StorageInit
    /\ NodeInit
    /\ SimInit
    /\ SyncInit
    /\ RecInit
    /\ calls = 0
    /\ restarts = 0

---------------------------------------------------------------------------
\* POST /api/apply: ApplyN, one delta after the other.
Apply ==
    /\ \E n \in Nodes, u \in Uuid, a \in Amounts : ApplyDelta(n, u, a)
    /\ UNCHANGED <<simVars, sync, rec, calls, restarts>>

\* POST /api/crash, /api/reconcile, /api/rebuild, /api/replay
Request ==
    /\ calls < MaxCalls
    /\ calls' = calls + 1
    /\ \E n \in Nodes :
          \/ \E S \in SUBSET nodeDB[n] : CrashSelect(n, S)
          \/ ReconcileReadNode(n)
          \/ RebuildReadCoord(n)
          \/ LateReplayBegin(n)
    /\ UNCHANGED <<sync, rec, restarts>>

RunJob ==
    /\ JobStep
    /\ UNCHANGED <<sync, rec, calls, restarts>>

RunSyncer ==
    /\ \/ ~Locked /\ SyncTick
       \/ SyncStep
    /\ UNCHANGED <<simVars, rec, calls, restarts>>

RunReconciler ==
    /\ RecStep
    /\ UNCHANGED <<sync, calls, restarts>>

\* The process is killed between any two statements and started again without
\* -reset: memory is gone, the databases are what was committed.
Restart ==
    /\ restarts < MaxRestarts
    /\ restarts' = restarts + 1
    /\ NewNodes
    /\ job' = NoJob
    /\ crashed' = [n \in Nodes |-> {}]
    /\ sync' = IdleSyncer
    /\ rec' = IdleAgent
    /\ UNCHANGED calls

Next == Apply \/ Request \/ RunJob \/ RunSyncer \/ RunReconciler \/ Restart

Spec == Init /\ [][Next]_vars

(***************************************************************************)
(* An operation that holds the mutex keeps running, and so do the two      *)
(* agents.  Theirs is strong fairness: the calls that need sim.mu are      *)
(* enabled only while it is free, and a Go RWMutex starves no waiter       *)
(* (Unlock admits every waiting reader; a writer that waited 1 ms is       *)
(* handed the mutex).  Nobody has to send requests, and a running job,     *)
(* syncer or agent may meet a failing statement at every step as long as   *)
(* faults remain.                                                          *)
(***************************************************************************)
Fairness ==
    /\ WF_vars(RunJob)
    /\ SF_vars(RunSyncer)
    /\ SF_vars(RunReconciler)

FairSpec == Spec /\ Fairness

---------------------------------------------------------------------------
(* Safety.                                                                 *)

\* An acknowledged operation is never lost: through crashes,
\* rebuilds, kills and failing statements it is in the coordinator's log, or
\* still waits in an outbox, or is a dead letter.
Durable ==
    \A u \in Issued : u \in coord \/ outbox[u] = "unsynced" \/ u \in dlq

\* No operation contributes twice (README I1), and none to another node: the
\* integer a node keeps in memory contains each operation at most once,
\* whatever interleaving of deltas, replays and reloads produced it.
OneContribution ==
    \A n \in Nodes, u \in Uuid :
        /\ localVal[n][u] <= 1
        /\ localVal[n][u] = 1 => u \in Issued /\ info[u].node = n

\* The stamp (node, epoch, sequence) identifies an operation, although the
\* sequence starts again in every epoch and a crash deletes the rows it could
\* be recovered from.
UniqueStamps ==
    \A u, v \in Issued :
        /\ info[u].node = info[v].node
        /\ info[u].epoch = info[v].epoch
        /\ info[u].seq = info[v].seq
        => u = v

\* A live node that no running operation works on holds in memory exactly what
\* its table holds, unless a reload failed.
CoherentAtRest ==
    "reload" \notin Faulty =>
        \A n \in Nodes : alive[n] /\ job.node # n => localVal[n] = Once(nodeDB[n])

\* When Reconcile is about to reload, the node and the coordinator both hold
\* everything either of them held when Reconcile read it, although deltas and
\* the outbox syncer went on meanwhile.
RepairComplete ==
    /\ At("reconcile_replay")
    /\ job.todo = {}
    /\ Faulty \cap {"coord", "node"} = {}
    => job.nodeOps \cup job.coordOps \subseteq nodeDB[job.node] \cap coord

\* A node that was dead comes back in an epoch that is on disk and that no
\* operation has used (README G4): whoever saw its old stamps can tell.
FreshIncarnation ==
    [][\A n \in Nodes : ~alive[n] /\ alive'[n] =>
          /\ recorded'[n] = epoch'[n]
          /\ \A u \in Issued : info[u].node = n => info[u].epoch < epoch'[n]]_vars

\* The operations contained in what the nodes hold.
Contained(values) == {u \in Uuid : \E n \in Nodes : values[n][u] # 0}

OneSign ==
    \/ \A u \in Issued : info[u].amount > 0
    \/ \A u \in Issued : info[u].amount < 0

\* The reconciler compares two integers, and it can rely on them.  It starts no
\* repair if the nodes held, when it read them, what the log has now.  And with
\* amounts of one sign it overlooks no loss: if all they held is in the log by
\* now and it sees no difference, they held all the log has.  (With both signs
\* losses may cancel out; what is not delivered yet may stand in for a loss.)
DetectorExact ==
    [][RecCompare /\ Works =>
          /\ rec'.pc = "states" => Contained(rec.seen) # coord
          /\ rec'.pc = "idle" /\ OneSign /\ Contained(rec.seen) \subseteq coord =>
                Contained(rec.seen) = coord]_vars

---------------------------------------------------------------------------
(* The inductive invariant behind the safety properties.                   *)

\* The operations node n has acknowledged.
Own(n) == {u \in Issued : info[u].node = n}

\* Tables, and the lists read from them, hold acknowledged operations only,
\* and a node's hold the node's.
Tables ==
    /\ \A n \in Nodes : nodeDB[n] \subseteq Own(n) /\ crashed[n] \subseteq Own(n)
    /\ coord \subseteq Issued
    /\ Locked => /\ job.node \in Nodes
                 /\ job.nodeOps \cup job.coordOps \cup job.todo \subseteq Own(job.node)
    /\ sync.batch \subseteq Issued

\* No operation is stamped with an epoch that is not on disk, a live node is in
\* its latest recorded epoch, and a node about to be revived is in a new one.
Epochs ==
    /\ \A u \in Issued : info[u].epoch <= recorded[info[u].node]
    /\ \A n \in Nodes : recorded[n] <= epoch[n]
    /\ \A n \in Nodes : alive[n] => epoch[n] = recorded[n]
    /\ job.pc \in {"crash_delete", "crash_epoch"} => alive[job.node]
    /\ At("crash_revive") =>
          /\ ~alive[job.node]
          /\ epoch[job.node] = recorded[job.node]
          /\ \A u \in Own(job.node) : info[u].epoch < epoch[job.node]

\* The next sequence number of the current epoch has not been used in it.
Sequences ==
    \A u \in Issued : LET n == info[u].node
                      IN info[u].epoch = epoch[n] => info[u].seq < nextSeq[n]

\* An entry is marked only after the coordinator has the operation, and goes
\* only after the dead letter queue has it.
Outbox ==
    /\ \A u \in Issued : /\ outbox[u] = "synced" => u \in coord
                         /\ outbox[u] = "absent" => u \in dlq
    /\ sync.pc = "mark" => sync.op \in coord

\* Value and table of a live node agree also while a job that has not changed
\* the table yet works on it.
Coherence ==
    "reload" \notin Faulty =>
        \A n \in Nodes :
            /\ alive[n]
            /\ \/ job.node # n
               \/ job.pc \in {"idle", "crash_delete", "reconcile_coord",
                             "reconcile_syncup", "rebuild_wipe"}
               \/ At("late_replay") /\ ~job.dirty
            => localVal[n] = Once(nodeDB[n])

\* How far Reconcile has come, if its statements do not fail: what it read stays
\* where it read it, and todo is all that one side still lacks.
RepairProgress ==
    Faulty \cap {"coord", "node"} = {} =>
        /\ job.pc \in {"reconcile_coord", "reconcile_syncup", "reconcile_replay"} =>
              job.nodeOps \subseteq nodeDB[job.node]
        /\ job.pc \in {"reconcile_syncup", "reconcile_replay"} =>
              Backend = "sqlite" /\ job.coordOps \subseteq coord
        /\ At("reconcile_syncup") => job.nodeOps \subseteq coord \cup job.todo
        /\ At("reconcile_replay") =>
              /\ job.nodeOps \subseteq coord
              /\ job.coordOps \subseteq nodeDB[job.node] \cup job.todo

\* The poison pills the syncer has still to bury are unsynced entries: none is
\* buried twice, and none that was marked meanwhile.
PillsWait == sync.pc = "pills" => \A u \in sync.batch : outbox[u] = "unsynced"

\* What does not depend on the way from the outbox to the coordinator's log ...
CoreInv ==
    /\ TypeOK
    /\ Tables
    /\ Epochs
    /\ Sequences
    /\ UniqueStamps
    /\ OneContribution
    /\ Coherence
    /\ RepairProgress
    /\ PillsWait

\* ... and what does.
IndInv == CoreInv /\ Outbox

\* What the reconciler has read contains an operation once and on its own node.
SeenOnce ==
    \A n \in Nodes, u \in Uuid :
        /\ rec.seen[n][u] <= 1
        /\ rec.seen[n][u] = 1 => u \in Issued /\ info[u].node = n

DetectorInv == IndInv /\ SeenOnce

---------------------------------------------------------------------------
(* What the whole program promises: it is a ledger.  The coordinator's     *)
(* table is the log, the unsynced outbox entries wait, the dead letter     *)
(* queue holds the dead, and the nodes' values are what they contain.      *)

Waiting == {u \in Uuid : outbox[u] = "unsynced"}

LedgerOf == INSTANCE Ledger WITH accepted <- info, waiting <- Waiting,
                                 log <- coord, dead <- dlq, held <- localVal

\* Every step of the program is a step of the ledger or changes nothing in it:
\* no acknowledged operation leaves the log, stops waiting before it is in the
\* log or dead, is accepted under a used stamp or is counted twice, whatever
\* crashes, kills, retries and failing statements do.
ImplementsLedger == LedgerOf!Spec

---------------------------------------------------------------------------
(* Liveness.                                                               *)

\* Every acknowledged operation reaches the coordinator's log.
Delivery == \A u \in Uuid : (u \in Issued) ~> (u \in coord)

\* The naive total becomes the authoritative one and stays it.
Converge == <>[](NaiveGlobalValue = AuthoritativeGlobalValue)

\* Every node ends up with exactly the operations the coordinator has for it.
Complete ==
    <>[](\A n \in Nodes : nodeDB[n] = GetOperationsByNode(coord, n))

\* Every acknowledged operation reaches the coordinator's log unless it uses up
\* its attempts: kills, lost answers and failing marks only delay it.
DeliveredOrPoisoned ==
    \A u \in Uuid : (u \in Issued) ~> (u \in coord \/ attempts[u] >= MaxAttempts)

\* An entry that has used up its attempts leaves the outbox.
PillsLeave ==
    \A u \in Uuid :
        outbox[u] = "unsynced" /\ attempts[u] >= MaxAttempts ~> outbox[u] # "unsynced"

=============================================================================
