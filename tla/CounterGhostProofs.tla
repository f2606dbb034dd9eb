------------------------- MODULE CounterGhostProofs -------------------------
(***************************************************************************)
(* Proofs about module CounterGhost, for every value of its constants.     *)
(***************************************************************************)
EXTENDS CounterGhost, TLAPS

\* The epoch a restarted node takes is new: no row of its table has it, so the
\* sequence starts at 1.
LEMMA NewEpochUnused ==
    ASSUME TypeOK, Tables, Epochs, NEW n \in Nodes
    PROVE  GetMaxSequence(n, recorded[n] + 1) = 0
<1>1. {v \in GetOperationsByNode(nodeDB[n], n) : info[v].epoch = recorded[n] + 1} = {}
  BY DEF TypeOK, StorageTypeOK, NodeTypeOK, Tables, Epochs, Own, Issued,
         GetOperationsByNode, Operation
<1>2. Max({0}) = 0
  BY DEF Max
<1> QED BY <1>1, <1>2, Zenon DEF GetMaxSequence

---------------------------------------------------------------------------
(* Type correctness.                                                       *)

USE DEF Works, Fails, CoordWorks, CoordFails, InsertOperation, Return, At, Done,
        SetAlive, ReloadLocalVal

\* The record of the running operation keeps its type in every step of it.
LEMMA JobStepType == ASSUME TypeOK, JobStep PROVE job' \in Job
<1> USE DEF TypeOK, StorageTypeOK, SimTypeOK
<1>1. NoJob \in Job
  BY DEF NoJob, Job
<1>2. \A table, n : GetOperationsByNode(table, n) \subseteq table
  BY DEF GetOperationsByNode
<1>3. CASE CrashDelete
  BY <1>1, <1>3 DEF CrashDelete, Job
<1>4. CASE CrashIncrementEpoch
  BY <1>1, <1>4 DEF CrashIncrementEpoch, Job
<1>5. CASE CrashRevive
  BY <1>1, <1>5 DEF CrashRevive
<1>6. CASE ReconcileReadCoord
  <2> DEFINE ops == GetOperationsByNode(coord, job.node)
  <2>1. CASE job' = [job EXCEPT !.pc = "reconcile_syncup", !.coordOps = ops,
                                !.todo = job.nodeOps \ ops]
    BY <1>2, <2>1 DEF Job
  <2> QED BY <1>1, <1>6, <2>1 DEF ReconcileReadCoord
<1>7. ASSUME NEW u \in Uuid, ReconcileSyncUp(u) PROVE job' \in Job
  <2>1. CASE job' = [job EXCEPT !.todo = @ \ {u}, !.dirty = @ \/ u \notin coord]
    BY <2>1 DEF Job
  <2>2. CASE Done(u)
    BY <2>2 DEF Job
  <2> QED BY <1>7, <2>1, <2>2 DEF ReconcileSyncUp
<1>8. CASE ReconcileDetect
  <2>1. ASSUME NEW ops \in SUBSET Uuid,
               job' = [job EXCEPT !.pc = "reconcile_replay", !.coordOps = ops,
                                  !.todo = ops \ job.nodeOps]
        PROVE  job' \in Job
    BY <2>1 DEF Job
  <2>2. job.coordOps \subseteq Uuid /\ GetOperationsByNode(coord, job.node) \subseteq Uuid
    BY <1>2 DEF Job
  <2> QED BY <1>1, <1>8, <2>1, <2>2 DEF ReconcileDetect
<1>9. ASSUME NEW u \in Uuid, ReconcileReplay(u) \/ RebuildReplay(u) PROVE job' \in Job
  BY <1>9 DEF ReconcileReplay, RebuildReplay, InsertIntoNode, Job
<1>10. CASE ReconcileReload \/ RebuildReload
  BY <1>1, <1>10 DEF ReconcileReload, RebuildReload, ReloadAndReturn
<1>11. CASE RebuildWipe
  BY <1>1, <1>11 DEF RebuildWipe, Job
<1>12. ASSUME NEW u \in Uuid, LateReplay(u) PROVE job' \in Job
  <2>1. CASE job' = [job EXCEPT !.todo = @ \ {u},
                                !.dirty = @ \/ u \notin nodeDB[job.node]]
    BY <2>1 DEF Job
  <2>2. CASE Done(u)
    BY <2>2 DEF Job
  <2> QED BY <1>12, <2>1, <2>2 DEF LateReplay
<1>13. CASE LateReplayReload
  BY <1>1, <1>13 DEF LateReplayReload
<1> QED BY <1>3, <1>4, <1>5, <1>6, <1>7, <1>8, <1>9, <1>10, <1>11, <1>12, <1>13
        DEF JobStep

\* So does the syncer's.
LEMMA SyncStepType == ASSUME TypeOK, SyncTick \/ SyncStep PROVE sync' \in Syncer
<1> USE DEF TypeOK, StorageTypeOK, SyncTypeOK, IdleSyncer, NextOp, NextNode
<1>1. CASE SyncTick
  BY <1>1 DEF SyncTick, Syncer
<1>2. ASSUME NEW n \in Nodes, SyncFetch(n) PROVE sync' \in Syncer
  <2>1. \A ops \in GetUnsyncedOutboxOps(n) : ops \subseteq Uuid
    BY DEF GetUnsyncedOutboxOps, Pending, Unsynced, Issued, kSubset
  <2>2. CASE sync' = [sync EXCEPT !.nodes = @ \ {n}]
    BY <2>2 DEF Syncer
  <2>3. ASSUME NEW ops \in SUBSET Uuid,
               sync' = [sync EXCEPT !.pc = "write", !.nodes = @ \ {n},
                                    !.node = n, !.batch = ops]
        PROVE  sync' \in Syncer
    BY <2>3 DEF Syncer
  <2> QED BY <1>2, <2>1, <2>2, <2>3 DEF SyncFetch
<1>3. ASSUME NEW u \in Uuid, SyncWrite(u) \/ SyncWriteFailed(u) PROVE sync' \in Syncer
  <2>1. CASE sync' = [sync EXCEPT !.pc = "mark", !.op = u]
    BY <2>1 DEF Syncer
  <2>2. CASE NextOp(u)
    BY <2>2 DEF Syncer
  <2> QED BY <1>3, <2>1, <2>2 DEF SyncWrite, SyncWriteFailed
<1>4. CASE SyncMark
  BY <1>4 DEF SyncMark, Syncer
<1>5. CASE SyncFetchPills
  <2>1. GetPoisonPillOps(sync.node) \subseteq Uuid
    BY DEF GetPoisonPillOps, Unsynced, Issued
  <2>2. CASE sync' = [sync EXCEPT !.pc = "pills", !.batch = GetPoisonPillOps(sync.node)]
    BY <2>1, <2>2 DEF Syncer
  <2>3. CASE NextNode
    BY <2>3 DEF Syncer
  <2> QED BY <1>5, <2>2, <2>3 DEF SyncFetchPills
<1>6. ASSUME NEW u \in Uuid, SyncDeadLetter(u) \/ SyncDeadLetterFailed(u)
      PROVE sync' \in Syncer
  BY <1>6 DEF SyncDeadLetter, SyncDeadLetterFailed, Syncer
<1>7. CASE SyncNodeDone
  BY <1>7 DEF SyncNodeDone, Syncer
<1>8. CASE SyncReturn
  BY <1>8 DEF SyncReturn, Syncer
<1> QED BY <1>1, <1>2, <1>3, <1>4, <1>5, <1>6, <1>7, <1>8 DEF SyncStep

\* And the reconciler's.
LEMMA RecStepType == ASSUME TypeOK, RecStep PROVE rec' \in Agent
<1> USE DEF TypeOK, RecTypeOK, NodeTypeOK
<1>1. IdleAgent \in Agent /\ [IdleAgent EXCEPT !.pc = "states"] \in Agent
  BY DEF IdleAgent, Agent, Once
<1>2. CASE RecReadNaive
  BY <1>2 DEF RecReadNaive, Agent
<1>3. CASE RecCompare
  BY <1>1, <1>3 DEF RecCompare
<1>4. CASE RecAllStates
  BY <1>4 DEF RecAllStates, Agent
<1>5. ASSUME NEW n \in Nodes, RecReconcile(n) PROVE rec' \in Agent
  BY <1>5 DEF RecReconcile, Agent
<1>6. CASE RecReturn
  BY <1>1, <1>6 DEF RecReturn
<1> QED BY <1>2, <1>3, <1>4, <1>5, <1>6 DEF RecStep

\* A request starts an operation with lists from the tables.
LEMMA StartType ==
    ASSUME TypeOK, NEW n \in Nodes,
           \/ \E S \in SUBSET nodeDB[n] : CrashSelect(n, S)
           \/ ReconcileReadNode(n)
           \/ RebuildReadCoord(n)
           \/ LateReplayBegin(n)
    PROVE  job' \in Job
<1> USE DEF TypeOK, StorageTypeOK, SimTypeOK, NoJob, Job
<1>1. ASSUME NEW S \in SUBSET nodeDB[n], CrashSelect(n, S) PROVE job' \in Job
  BY <1>1 DEF CrashSelect
<1>2. CASE ReconcileReadNode(n)
  BY <1>2 DEF ReconcileReadNode, GetOperationsByNode
<1>3. CASE RebuildReadCoord(n)
  <2>1. GetOperationsByNode(coord, n) \subseteq Uuid
    BY DEF GetOperationsByNode
  <2>2. NoJob \in Job
    OBVIOUS
  <2> QED BY <1>3, <2>1, <2>2 DEF RebuildReadCoord
<1>4. CASE LateReplayBegin(n)
  <2>1. crashed[n] \subseteq Uuid
    OBVIOUS
  <2>2. NoJob \in Job
    OBVIOUS
  <2> QED BY <1>4, <2>1, <2>2 DEF LateReplayBegin
<1> QED BY <1>1, <1>2, <1>3, <1>4

\* The types hold in every reachable state.
LEMMA TypeStep == ASSUME CoreInv, [Next]_vars PROVE TypeOK'
<1> USE StorageAssumption
    DEF TypeOK, StorageTypeOK, NodeTypeOK, SimTypeOK, SyncTypeOK, RecTypeOK,
        storageVars, nodeVars, simVars
<1>0. TypeOK /\ Tables /\ Epochs
  BY DEF CoreInv
<1>1. \A table : Once(table) \in [Uuid -> Nat]
  BY DEF Once
<1>2. CASE Apply
  <2> PICK n \in Nodes, u \in Uuid, a \in Amounts : ApplyDelta(n, u, a)
    BY <1>2 DEF Apply
  <2>1. info' \in [Uuid -> Operation \cup {NoOp}]
    BY <1>0 DEF ApplyDelta, Operation
  <2>2. localVal' \in [Nodes -> [Uuid -> Nat]]
    BY <1>0 DEF ApplyDelta
  <2> QED BY <1>0, <1>2, <2>1, <2>2 DEF Apply, ApplyDelta
<1>3. CASE Request
  <2> PICK n \in Nodes : \/ \E S \in SUBSET nodeDB[n] : CrashSelect(n, S)
                         \/ ReconcileReadNode(n)
                         \/ RebuildReadCoord(n)
                         \/ LateReplayBegin(n)
    BY <1>3 DEF Request
  <2>1. job' \in Job
    BY <1>0, StartType
  <2>2. UNCHANGED <<sync, rec, restarts>> /\ calls' \in Nat
    BY <1>0, <1>3 DEF Request
  <2>3. ASSUME NEW S \in SUBSET nodeDB[n], CrashSelect(n, S) PROVE TypeOK'
    BY <1>0, <2>1, <2>2, <2>3 DEF CrashSelect
  <2>4. CASE ReconcileReadNode(n)
    BY <1>0, <2>1, <2>2, <2>4 DEF ReconcileReadNode
  <2>5. CASE RebuildReadCoord(n)
    BY <1>0, <2>1, <2>2, <2>5 DEF RebuildReadCoord
  <2>6. CASE LateReplayBegin(n)
    BY <1>0, <2>1, <2>2, <2>6 DEF LateReplayBegin
  <2> QED BY <2>3, <2>4, <2>5, <2>6
<1>4. CASE RunJob
  <2>0. job' \in Job /\ UNCHANGED <<sync, rec, calls, restarts>>
    BY <1>0, <1>4, JobStepType DEF RunJob
  <2>1. CASE CrashDelete
    <3>1. nodeDB' \in [Nodes -> SUBSET Uuid] /\ faults' \in Nat
      BY <1>0, <2>1 DEF CrashDelete, DeleteOperations
    <3> QED BY <1>0, <2>0, <2>1, <3>1 DEF CrashDelete
  <2>2. CASE CrashIncrementEpoch
    <3> DEFINE n == job.node
    <3>1. faults' \in {faults, faults + 1}
      BY <2>2 DEF CrashIncrementEpoch
    <3>2. /\ alive' = [alive EXCEPT ![n] = FALSE]
          /\ epoch' = [epoch EXCEPT ![n] = @ + 1]
          /\ nextSeq' = [nextSeq EXCEPT ![n] = 1]
          /\ recorded' \in {recorded, [recorded EXCEPT ![n] = epoch[n] + 1]}
      BY <2>2 DEF CrashIncrementEpoch, IncrementEpoch, InsertEpoch
    <3>3. UNCHANGED <<info, nodeDB, outbox, attempts, coord, dlq, localVal, crashed>>
      BY <2>2 DEF CrashIncrementEpoch
    <3>4. n \in Nodes
      BY <1>0, <2>2 DEF CrashIncrementEpoch, Tables, Locked, NoJob
    <3> HIDE DEF n
    <3>5. alive' \in [Nodes -> BOOLEAN] /\ nextSeq' \in [Nodes -> Nat]
      BY <1>0, <3>2
    <3>6. epoch' \in [Nodes -> Nat] /\ recorded' \in [Nodes -> Nat]
      BY <1>0, <3>2, <3>4
    <3> QED BY <1>0, <2>0, <3>1, <3>3, <3>5, <3>6
  <2>3. CASE CrashRevive
    <3>1. localVal' \in [Nodes -> [Uuid -> Nat]]
      BY <1>0, <1>1, <2>3 DEF CrashRevive
    <3>2. alive' \in {alive, [alive EXCEPT ![job.node] = TRUE]}
      BY <2>3 DEF CrashRevive
    <3>3. faults' \in {faults, faults + 1}
      BY <2>3 DEF CrashRevive
    <3>4. UNCHANGED <<info, nodeDB, outbox, attempts, recorded, coord, dlq,
                      epoch, nextSeq, crashed>>
      BY <2>3 DEF CrashRevive
    <3>5. alive' \in [Nodes -> BOOLEAN]
      BY <1>0, <3>2
    <3> QED BY <1>0, <2>0, <3>1, <3>3, <3>4, <3>5
  <2>4. CASE ReconcileReadCoord \/ ReconcileDetect
    BY <1>0, <2>0, <2>4 DEF ReconcileReadCoord, ReconcileDetect
  <2>5. ASSUME NEW u \in Uuid,
               ReconcileSyncUp(u) \/ ReconcileReplay(u) \/ RebuildReplay(u) \/ LateReplay(u)
        PROVE  TypeOK'
    <3>1. /\ coord' \in {coord, coord \cup {u}}
          /\ faults' \in {faults, faults + 1}
          /\ UNCHANGED <<info, outbox, attempts, recorded, dlq, nodeVars, crashed>>
      BY <2>5 DEF ReconcileSyncUp, ReconcileReplay, RebuildReplay, InsertIntoNode, LateReplay
    <3>2. \/ UNCHANGED nodeDB
          \/ nodeDB' = [nodeDB EXCEPT ![job.node] = @ \cup {u}]
      BY <2>5 DEF ReconcileSyncUp, ReconcileReplay, RebuildReplay, InsertIntoNode, LateReplay
    <3>3. nodeDB' \in [Nodes -> SUBSET Uuid]
      BY <1>0, <3>2
    <3> QED BY <1>0, <2>0, <3>1, <3>3
  <2>6. CASE ReconcileReload \/ RebuildReload \/ LateReplayReload
    <3>1. localVal' \in [Nodes -> [Uuid -> Nat]]
      BY <1>0, <1>1, <2>6 DEF ReconcileReload, RebuildReload, ReloadAndReturn,
                              LateReplayReload
    <3>2. faults' \in {faults, faults + 1}
      BY <2>6 DEF ReconcileReload, RebuildReload, ReloadAndReturn, LateReplayReload
    <3>3. UNCHANGED <<info, nodeDB, outbox, attempts, recorded, coord, dlq,
                      epoch, nextSeq, alive, crashed>>
      BY <2>6 DEF ReconcileReload, RebuildReload, ReloadAndReturn, LateReplayReload
    <3> QED BY <1>0, <2>0, <3>1, <3>2, <3>3
  <2>7. CASE RebuildWipe
    <3>1. /\ faults' \in {faults, faults + 1}
          /\ UNCHANGED <<info, outbox, attempts, recorded, coord, dlq, nodeVars, crashed>>
      BY <2>7 DEF RebuildWipe
    <3>2. nodeDB' \in {nodeDB, [nodeDB EXCEPT ![job.node] = {}]}
      BY <2>7 DEF RebuildWipe, DeleteAllOperations
    <3>3. nodeDB' \in [Nodes -> SUBSET Uuid]
      BY <1>0, <3>2
    <3> QED BY <1>0, <2>0, <3>1, <3>3
  <2> QED BY <1>4, <2>1, <2>2, <2>3, <2>4, <2>5, <2>6, <2>7 DEF RunJob, JobStep
<1>5. CASE RunSyncer
  <2>0. sync' \in Syncer /\ UNCHANGED <<simVars, rec, calls, restarts>>
    BY <1>0, <1>5, SyncStepType DEF RunSyncer
  <2>1. ASSUME NEW n \in Nodes, SyncFetch(n) PROVE TypeOK'
    <3>1. faults' \in {faults, faults + 1}
      BY <2>1 DEF SyncFetch
    <3>2. UNCHANGED <<info, nodeDB, outbox, attempts, recorded, coord, dlq, nodeVars>>
      BY <2>1 DEF SyncFetch
    <3> QED BY <1>0, <2>0, <3>1, <3>2
  <2>2. ASSUME NEW u \in Uuid, SyncWrite(u) \/ SyncWriteFailed(u) PROVE TypeOK'
    <3>1. /\ coord' \in {coord, coord \cup {u}}
          /\ faults' \in {faults, faults + 1}
          /\ UNCHANGED <<info, nodeDB, outbox, recorded, dlq, nodeVars>>
      BY <2>2 DEF SyncWrite, SyncWriteFailed
    <3>2. attempts' \in {attempts, [attempts EXCEPT ![u] = @ + 1]}
      BY <2>2 DEF SyncWrite, SyncWriteFailed, MarkOutboxFailed
    <3>3. attempts' \in [Uuid -> Nat]
      BY <1>0, <3>2
    <3> QED BY <1>0, <2>0, <3>1, <3>3
  <2>3. ASSUME NEW u \in Uuid, SyncDeadLetter(u) \/ SyncDeadLetterFailed(u) PROVE TypeOK'
    BY <1>0, <2>0, <2>3 DEF SyncDeadLetter, SyncDeadLetterFailed, InsertDLQEntry,
                            DeleteOutboxEntry
  <2>4. CASE SyncMark
    BY <1>0, <2>0, <2>4 DEF SyncMark, MarkOutboxSynced
  <2>5. CASE SyncTick \/ SyncFetchPills \/ SyncNodeDone \/ SyncReturn
    BY <1>0, <2>0, <2>5 DEF SyncTick, SyncFetchPills, SyncNodeDone, SyncReturn
  <2> QED BY <1>5, <2>1, <2>2, <2>3, <2>4, <2>5 DEF RunSyncer, SyncStep
<1>6. CASE RunReconciler
  <2>0. rec' \in Agent /\ UNCHANGED <<sync, calls, restarts>>
    BY <1>0, <1>6, RecStepType DEF RunReconciler
  <2>1. ASSUME NEW n \in Nodes, RecReconcile(n) PROVE TypeOK'
    <3>1. job' \in Job
      BY <1>0, <2>1, StartType DEF RecReconcile
    <3> QED BY <1>0, <2>0, <2>1, <3>1 DEF RecReconcile, ReconcileReadNode
  <2>2. CASE RecReadNaive \/ RecCompare \/ RecAllStates \/ RecReturn
    BY <1>0, <2>0, <2>2 DEF RecReadNaive, RecCompare, RecAllStates, RecReturn
  <2> QED BY <1>6, <2>1, <2>2 DEF RunReconciler, RecStep
<1>7. CASE Restart
  <2>1. NoJob \in Job /\ IdleSyncer \in Syncer /\ IdleAgent \in Agent
    BY DEF NoJob, Job, IdleSyncer, Syncer, IdleAgent, Agent, Once
  <2>2. \A n \in Nodes : GetMaxSequence(n, recorded[n] + 1) = 0
    BY <1>0, NewEpochUnused
  <2> QED BY <1>0, <1>1, <1>7, <2>1, <2>2 DEF Restart, NewNodes
<1>8. CASE UNCHANGED vars
  BY <1>0, <1>8 DEF vars
<1> QED BY <1>2, <1>3, <1>4, <1>5, <1>6, <1>7, <1>8 DEF Next

---------------------------------------------------------------------------
(* What no step does.                                                      *)

\* An operation is stamped once, by the ApplyDelta that acknowledges it; the
\* outbox is left to ApplyDelta and the syncer; rows of the coordinator's tables
\* are never deleted.
LEMMA Frame ==
    ASSUME [Next]_vars
    PROVE  /\ ~Apply => UNCHANGED info
           /\ ~Apply /\ ~RunSyncer => UNCHANGED outbox
           /\ coord \subseteq coord' /\ dlq \subseteq dlq'
<1> DEFINE Kept == UNCHANGED <<info, outbox>> /\ coord \subseteq coord' /\ dlq \subseteq dlq'
<1> USE DEF storageVars
<1>1. CASE Apply
  BY <1>1 DEF Apply, ApplyDelta
<1>2. CASE Request
  <2>1. Kept
    BY <1>2 DEF Request, CrashSelect, ReconcileReadNode, RebuildReadCoord, LateReplayBegin
  <2> QED BY <2>1
<1>3. CASE RunJob
  <2>1. CASE CrashDelete \/ CrashIncrementEpoch \/ CrashRevive
    BY <2>1 DEF CrashDelete, CrashIncrementEpoch, CrashRevive
  <2>2. CASE ReconcileReadCoord \/ ReconcileDetect \/ ReconcileReload
    BY <2>2 DEF ReconcileReadCoord, ReconcileDetect, ReconcileReload, ReloadAndReturn
  <2>3. ASSUME NEW u \in Uuid,
               ReconcileSyncUp(u) \/ ReconcileReplay(u) \/ RebuildReplay(u) \/ LateReplay(u)
        PROVE  Kept
    BY <2>3 DEF ReconcileSyncUp, ReconcileReplay, RebuildReplay, InsertIntoNode, LateReplay
  <2>4. CASE RebuildWipe \/ RebuildReload \/ LateReplayReload
    BY <2>4 DEF RebuildWipe, RebuildReload, ReloadAndReturn, LateReplayReload
  <2> QED BY <1>3, <2>1, <2>2, <2>3, <2>4 DEF RunJob, JobStep
<1>4. CASE RunSyncer
  BY <1>4 DEF RunSyncer, SyncTick, SyncStep, SyncFetch, SyncWrite, SyncWriteFailed, SyncMark,
              SyncFetchPills, SyncDeadLetter, SyncDeadLetterFailed, SyncNodeDone, SyncReturn,
              InsertDLQEntry
<1>5. CASE RunReconciler
  <2>1. Kept
    BY <1>5 DEF RunReconciler, RecStep, RecReadNaive, RecCompare, RecAllStates, RecReconcile,
                ReconcileReadNode, RecReturn
  <2> QED BY <2>1
<1>6. CASE Restart
  BY <1>6 DEF Restart, NewNodes
<1>7. CASE UNCHANGED vars
  BY <1>7 DEF vars
<1> QED BY <1>1, <1>2, <1>3, <1>4, <1>5, <1>6, <1>7 DEF Next

\* So acknowledged operations stay acknowledged, with the stamp they have.
LEMMA OwnKept ==
    ASSUME TypeOK, [Next]_vars
    PROVE  /\ \A u \in Issued : u \in Issued' /\ info'[u] = info[u]
           /\ \A n : Own(n) \subseteq Own(n)'
<1>1. \A u \in Issued : u \in Issued' /\ info'[u] = info[u]
  <2>1. CASE Apply
    <3> PICK n \in Nodes, u \in Uuid, a \in Amounts : ApplyDelta(n, u, a)
      BY <2>1 DEF Apply
    <3> QED BY DEF ApplyDelta, Issued, TypeOK, StorageTypeOK
  <2>2. CASE ~Apply
    BY <2>2, Frame DEF Issued
  <2> QED BY <2>1, <2>2
<1> QED BY <1>1 DEF Own

---------------------------------------------------------------------------
(* The outbox.                                                             *)

LEMMA OutboxStep == ASSUME IndInv, [Next]_vars PROVE Outbox'
<1> USE DEF IndInv, CoreInv, TypeOK, StorageTypeOK, SyncTypeOK, Outbox, Issued, storageVars
<1>0. coord \subseteq coord' /\ dlq \subseteq dlq'
  BY Frame
<1>1. CASE Apply
  <2> PICK n \in Nodes, u \in Uuid, a \in Amounts : ApplyDelta(n, u, a)
    BY <1>1 DEF Apply
  <2> QED BY <1>1 DEF Apply, ApplyDelta
<1>2. CASE RunSyncer
  <2>1. CASE Apply
    BY <1>1, <2>1
  <2>2. CASE ~Apply
    <3>0. info' = info
      BY <2>2, Frame
    <3>1. CASE SyncMark
      BY <1>0, <3>0, <3>1 DEF SyncMark, MarkOutboxSynced, NextOp, Syncer
    <3>2. ASSUME NEW u \in Uuid, SyncDeadLetter(u) PROVE Outbox'
      BY <1>0, <3>0, <3>2 DEF SyncDeadLetter, InsertDLQEntry, DeleteOutboxEntry, Syncer
    <3>3. ASSUME NEW u \in Uuid, SyncWrite(u) PROVE Outbox'
      BY <1>0, <3>0, <3>3 DEF SyncWrite, Syncer
    <3>4. ASSUME NEW u \in Uuid, SyncWriteFailed(u) \/ SyncDeadLetterFailed(u) PROVE Outbox'
      BY <1>0, <3>0, <3>4 DEF SyncWriteFailed, SyncDeadLetterFailed, NextOp, Syncer
    <3>5. ASSUME NEW n \in Nodes, SyncFetch(n) PROVE Outbox'
      <4>1. UNCHANGED <<outbox, coord, dlq>> /\ sync'.pc # "mark"
        BY <3>5 DEF SyncFetch, Syncer
      <4> QED BY <3>0, <4>1
    <3>6. CASE SyncTick \/ SyncFetchPills \/ SyncNodeDone \/ SyncReturn
      <4>1. UNCHANGED <<outbox, coord, dlq>>
        BY <3>6 DEF SyncTick, SyncFetchPills, SyncNodeDone, SyncReturn
      <4>2. ASSUME SyncTick PROVE sync'.pc = "nodes"
        BY <4>2 DEF SyncTick, Syncer
      <4>3. ASSUME SyncFetchPills PROVE sync'.pc \in {"nodes", "pills"}
        BY <4>3 DEF SyncFetchPills, NextNode, Syncer
      <4>4. ASSUME SyncNodeDone PROVE sync'.pc = "nodes"
        BY <4>4 DEF SyncNodeDone, NextNode, Syncer
      <4>5. ASSUME SyncReturn PROVE sync'.pc = "idle"
        BY <4>5 DEF SyncReturn, IdleSyncer
      <4>6. sync'.pc \in {"nodes", "pills", "idle"}
        BY <3>6, <4>2, <4>3, <4>4, <4>5
      <4> QED BY <3>0, <4>1, <4>6
    <3> QED BY <1>2, <3>1, <3>2, <3>3, <3>4, <3>5, <3>6 DEF RunSyncer, SyncStep
  <2> QED BY <2>1, <2>2
<1>3. CASE Restart
  BY <1>3 DEF Restart, NewNodes, IdleSyncer
<1>4. CASE ~Apply /\ ~RunSyncer /\ ~Restart
  <2>1. UNCHANGED <<info, outbox>>
    BY <1>4, Frame
  <2>2. UNCHANGED sync
    BY <1>4 DEF Next, Request, RunJob, RunReconciler, vars
  <2> QED BY <1>0, <2>1, <2>2
<1> QED BY <1>1, <1>2, <1>3, <1>4

---------------------------------------------------------------------------
(* The tables.                                                             *)

\* What is read for a node from the coordinator or from its own table are
\* operations of the node.
LEMMA ReadOwn ==
    ASSUME Tables, NEW n \in Nodes
    PROVE  /\ GetOperationsByNode(coord, n) \subseteq Own(n)
           /\ GetOperationsByNode(nodeDB[n], n) \subseteq Own(n)
BY DEF Tables, GetOperationsByNode, Own

LEMMA JobListsStep ==
    ASSUME TypeOK, Tables, JobStep
    PROVE  job' = NoJob \/ /\ job'.node \in Nodes
                           /\ job'.nodeOps \cup job'.coordOps \cup job'.todo \subseteq Own(job'.node)
<1> DEFINE Lists(j) == /\ j.node \in Nodes
                       /\ j.nodeOps \cup j.coordOps \cup j.todo \subseteq Own(j.node)
           OfJob(j) == j = NoJob \/ Lists(j)
<1> USE DEF TypeOK, SimTypeOK
<1>0. job \in Job
  OBVIOUS
<1>1. job.pc # "idle" => Lists(job)
  BY DEF Tables, Locked, NoJob
<1> HIDE DEF TypeOK, SimTypeOK
<1>2. CASE CrashDelete \/ CrashIncrementEpoch \/ CrashRevive \/ RebuildWipe
  BY <1>0, <1>1, <1>2 DEF CrashDelete, CrashIncrementEpoch, CrashRevive, RebuildWipe, Job
<1>3. CASE ReconcileReadCoord
  <2>1. GetOperationsByNode(coord, job.node) \subseteq Own(job.node)
    BY <1>1, <1>3, ReadOwn DEF ReconcileReadCoord
  <2>2. CASE job' = [job EXCEPT !.pc = "reconcile_syncup",
                                !.coordOps = GetOperationsByNode(coord, job.node),
                                !.todo = job.nodeOps \ GetOperationsByNode(coord, job.node)]
    <3>1. Lists(job)
      BY <1>1, <1>3 DEF ReconcileReadCoord
    <3> QED BY <1>0, <2>1, <2>2, <3>1 DEF Job
  <2> QED BY <1>3, <2>2 DEF ReconcileReadCoord
<1>4. CASE ReconcileDetect
  <2>1. GetOperationsByNode(coord, job.node) \subseteq Own(job.node)
    BY <1>1, <1>4, ReadOwn DEF ReconcileDetect
  <2>2. Lists(job)
    BY <1>1, <1>4 DEF ReconcileDetect
  <2>3. ASSUME NEW ops \in SUBSET Own(job.node),
               job' = [job EXCEPT !.pc = "reconcile_replay", !.coordOps = ops,
                                  !.todo = ops \ job.nodeOps]
        PROVE  OfJob(job')
    BY <1>0, <2>2, <2>3 DEF Job
  <2>4. job.coordOps \in SUBSET Own(job.node)
    BY <2>2
  <2> QED BY <1>4, <2>1, <2>3, <2>4 DEF ReconcileDetect
<1>5. ASSUME NEW u \in Uuid,
             ReconcileSyncUp(u) \/ ReconcileReplay(u) \/ RebuildReplay(u) \/ LateReplay(u)
      PROVE  OfJob(job')
  <2>1. Lists(job)
    BY <1>1, <1>5 DEF ReconcileSyncUp, ReconcileReplay, RebuildReplay, LateReplay
  <2>2. \E b : \/ job' = [job EXCEPT !.todo = @ \ {u}]
              \/ job' = [job EXCEPT !.todo = @ \ {u}, !.dirty = b]
    BY <1>5 DEF ReconcileSyncUp, ReconcileReplay, RebuildReplay, InsertIntoNode, LateReplay
  <2>3. /\ job'.node = job.node /\ job'.nodeOps = job.nodeOps
        /\ job'.coordOps = job.coordOps /\ job'.todo = job.todo \ {u}
    BY <1>0, <2>2 DEF Job
  <2> QED BY <2>1, <2>3
<1>6. CASE ReconcileReload \/ RebuildReload \/ LateReplayReload
  BY <1>6 DEF ReconcileReload, RebuildReload, ReloadAndReturn, LateReplayReload
<1> QED BY <1>2, <1>3, <1>4, <1>5, <1>6 DEF JobStep

LEMMA TablesStep == ASSUME CoreInv, [Next]_vars PROVE Tables'
<1> DEFINE Rows == /\ \A n \in Nodes : nodeDB'[n] \subseteq Own(n) /\ crashed'[n] \subseteq Own(n)
                   /\ coord' \subseteq Issued
           OfJob(j) == j = NoJob \/ /\ j.node \in Nodes
                                    /\ j.nodeOps \cup j.coordOps \cup j.todo \subseteq Own(j.node)
<1> USE DEF storageVars, simVars
<1>0. TypeOK /\ Tables
  BY DEF CoreInv
<1>1. OfJob(job) /\ sync.batch \subseteq Issued
  BY <1>0 DEF Tables, Locked
<1>2. CASE Apply
  <2>1. \A m : Own(m) \subseteq Own(m)' /\ Issued \subseteq Issued'
    BY <1>0, OwnKept
  <2> PICK n \in Nodes, u \in Uuid, a \in Amounts : ApplyDelta(n, u, a)
    BY <1>2 DEF Apply
  <2>2. u \in Own(n)'
    BY <1>0, StorageAssumption DEF ApplyDelta, Own, Issued, TypeOK, StorageTypeOK,
                                        NodeTypeOK, Operation
  <2>3. \A m \in Nodes : nodeDB'[m] \subseteq nodeDB[m] \cup (IF m = n THEN {u} ELSE {})
    BY <1>0 DEF ApplyDelta, TypeOK, StorageTypeOK
  <2>4. UNCHANGED <<coord, job, crashed, sync>>
    BY <1>2 DEF Apply, ApplyDelta
  <2>5. \A m \in Nodes : nodeDB'[m] \subseteq Own(m)' /\ crashed'[m] \subseteq Own(m)'
    BY <1>0, <2>1, <2>2, <2>3, <2>4 DEF Tables
  <2>6. coord' \subseteq Issued' /\ sync'.batch \subseteq Issued'
    BY <1>0, <1>1, <2>1, <2>4 DEF Tables
  <2>7. OfJob(job)'
    BY <1>1, <2>1, <2>4
  <2> QED BY <2>5, <2>6, <2>7 DEF Tables, Locked, NoJob
<1>3. CASE ~Apply
  <2>0. info' = info
    BY <1>3, Frame
  <2>1. SUFFICES Rows /\ OfJob(job') /\ sync'.batch \subseteq Issued
    BY <2>0 DEF Tables, Locked, Own, Issued, NoJob
  <2>2. CASE Request
    <3> PICK n \in Nodes : \/ \E S \in SUBSET nodeDB[n] : CrashSelect(n, S)
                           \/ ReconcileReadNode(n)
                           \/ RebuildReadCoord(n)
                           \/ LateReplayBegin(n)
      BY <2>2 DEF Request
    <3>1. sync' = sync
      BY <2>2 DEF Request
    <3>2. ASSUME NEW S \in SUBSET nodeDB[n], CrashSelect(n, S) PROVE Rows /\ OfJob(job')
      BY <1>0, <3>2 DEF CrashSelect, Tables, NoJob, TypeOK, SimTypeOK
    <3>3. ASSUME ReconcileReadNode(n) PROVE Rows /\ OfJob(job')
      <4>1. Rows
        BY <1>0, <3>3 DEF ReconcileReadNode, Tables
      <4>2. OfJob(job')
        BY <1>0, <3>3, ReadOwn DEF ReconcileReadNode, NoJob
      <4> QED BY <4>1, <4>2
    <3>4. ASSUME RebuildReadCoord(n) PROVE Rows /\ OfJob(job')
      <4>1. Rows
        BY <1>0, <3>4 DEF RebuildReadCoord, Tables
      <4>2. OfJob(job')
        BY <1>0, <3>4, ReadOwn DEF RebuildReadCoord, NoJob
      <4> QED BY <4>1, <4>2
    <3>5. ASSUME LateReplayBegin(n) PROVE Rows /\ OfJob(job')
      <4>1. Rows
        BY <1>0, <3>5 DEF LateReplayBegin, Tables
      <4>2. OfJob(job')
        BY <1>0, <3>5 DEF LateReplayBegin, Tables, NoJob
      <4> QED BY <4>1, <4>2
    <3> QED BY <1>1, <3>1, <3>2, <3>3, <3>4, <3>5
  <2>3. CASE RunJob
    <3>1. OfJob(job') /\ sync' = sync
      BY <1>0, <2>3, JobListsStep DEF RunJob
    <3>2. \A u \in job.todo : job.pc # "idle" => u \in Own(job.node) /\ u \in Issued
      BY <1>1 DEF NoJob, Own
    <3>3. ASSUME NEW u \in Uuid,
                 ReconcileSyncUp(u) \/ ReconcileReplay(u) \/ RebuildReplay(u) \/ LateReplay(u)
          PROVE  Rows
      <4>1. u \in Own(job.node) /\ u \in Issued
        BY <3>2, <3>3 DEF ReconcileSyncUp, ReconcileReplay, RebuildReplay, InsertIntoNode,
                          LateReplay
      <4>2. nodeDB' \in {nodeDB, [nodeDB EXCEPT ![job.node] = @ \cup {u}]}
        BY <3>3 DEF ReconcileSyncUp, ReconcileReplay, RebuildReplay, InsertIntoNode, LateReplay
      <4>3. coord' \in {coord, coord \cup {u}} /\ crashed' = crashed
        BY <3>3 DEF ReconcileSyncUp, ReconcileReplay, RebuildReplay, InsertIntoNode, LateReplay
      <4> QED BY <1>0, <4>1, <4>2, <4>3 DEF Tables, TypeOK, StorageTypeOK
    <3>4. ASSUME CrashDelete PROVE Rows
      BY <1>0, <3>4 DEF CrashDelete, DeleteOperations, Tables, TypeOK, StorageTypeOK
    <3>5. ASSUME RebuildWipe PROVE Rows
      BY <1>0, <3>5 DEF RebuildWipe, DeleteAllOperations, Tables, TypeOK, StorageTypeOK
    <3>6. ASSUME CrashIncrementEpoch \/ CrashRevive \/ ReconcileReadCoord \/ ReconcileDetect PROVE Rows
      BY <1>0, <3>6 DEF CrashIncrementEpoch, CrashRevive, ReconcileReadCoord,
                        ReconcileDetect, Tables
    <3>7. ASSUME ReconcileReload \/ RebuildReload \/ LateReplayReload PROVE Rows
      BY <1>0, <3>7 DEF ReconcileReload, RebuildReload, ReloadAndReturn, LateReplayReload, Tables
    <3>8. Rows
      BY <2>3, <3>3, <3>4, <3>5, <3>6, <3>7 DEF RunJob, JobStep
    <3> QED BY <1>1, <3>1, <3>8
  <2>4. CASE RunSyncer
    <3>1. UNCHANGED <<job, crashed>>
      BY <2>4 DEF RunSyncer
    <3>2. nodeDB' = nodeDB
      BY <2>4 DEF RunSyncer, SyncTick, SyncStep, SyncFetch, SyncWrite, SyncWriteFailed,
                  SyncMark, SyncFetchPills, SyncDeadLetter, SyncDeadLetterFailed,
                  SyncNodeDone, SyncReturn
    <3>3. coord' \subseteq coord \cup sync.batch
      BY <2>4 DEF RunSyncer, SyncTick, SyncStep, SyncFetch, SyncWrite, SyncWriteFailed,
                  SyncMark, SyncFetchPills, SyncDeadLetter, SyncDeadLetterFailed,
                  SyncNodeDone, SyncReturn
    <3>4. sync'.batch \subseteq Issued
      <4>0. sync \in Syncer
        BY <1>0 DEF TypeOK, SyncTypeOK
      <4>1. ASSUME NEW n \in Nodes, SyncFetch(n) PROVE sync'.batch \subseteq Issued
        <5>1. \A ops \in GetUnsyncedOutboxOps(n) : ops \subseteq Issued
          BY DEF GetUnsyncedOutboxOps, Pending, Unsynced, kSubset
        <5> QED BY <1>1, <4>0, <4>1, <5>1 DEF SyncFetch, Syncer
      <4>2. ASSUME NEW u \in Uuid, SyncWrite(u) PROVE sync'.batch \subseteq Issued
        BY <1>1, <4>0, <4>2 DEF SyncWrite, Syncer
      <4>3. ASSUME NEW u \in Uuid, SyncWriteFailed(u) PROVE sync'.batch \subseteq Issued
        BY <1>1, <4>0, <4>3 DEF SyncWriteFailed, NextOp, Syncer
      <4>4. ASSUME SyncMark PROVE sync'.batch \subseteq Issued
        BY <1>1, <4>0, <4>4 DEF SyncMark, NextOp, Syncer
      <4>5. ASSUME SyncFetchPills PROVE sync'.batch \subseteq Issued
        <5>1. GetPoisonPillOps(sync.node) \subseteq Issued
          BY DEF GetPoisonPillOps, Unsynced
        <5> QED BY <4>0, <4>5, <5>1 DEF SyncFetchPills, NextNode, Syncer
      <4>6. ASSUME NEW u \in Uuid, SyncDeadLetter(u) PROVE sync'.batch \subseteq Issued
        BY <1>1, <4>0, <4>6 DEF SyncDeadLetter, Syncer
      <4>7. ASSUME NEW u \in Uuid, SyncDeadLetterFailed(u) PROVE sync'.batch \subseteq Issued
        BY <1>1, <4>0, <4>7 DEF SyncDeadLetterFailed, Syncer
      <4>8. ASSUME SyncTick PROVE sync'.batch \subseteq Issued
        BY <1>1, <4>0, <4>8 DEF SyncTick, Syncer
      <4>9. ASSUME SyncNodeDone PROVE sync'.batch \subseteq Issued
        BY <4>0, <4>9 DEF SyncNodeDone, NextNode, Syncer
      <4>10. ASSUME SyncReturn PROVE sync'.batch \subseteq Issued
        BY <4>10 DEF SyncReturn, IdleSyncer
      <4> QED BY <2>4, <4>1, <4>2, <4>3, <4>4, <4>5, <4>6, <4>7, <4>8, <4>9, <4>10
              DEF RunSyncer, SyncStep
    <3> QED BY <1>0, <1>1, <3>1, <3>2, <3>3, <3>4 DEF Tables
  <2>5. CASE RunReconciler
    <3>1. UNCHANGED <<nodeDB, coord, crashed, sync>>
      BY <2>5 DEF RunReconciler, RecStep, RecReadNaive, RecCompare, RecAllStates,
                  RecReconcile, ReconcileReadNode, RecReturn
    <3>2. ASSUME NEW n \in Nodes, RecReconcile(n) PROVE OfJob(job')
      BY <1>0, <3>2, ReadOwn DEF RecReconcile, ReconcileReadNode, NoJob
    <3>3. ASSUME RecReadNaive \/ RecCompare \/ RecAllStates \/ RecReturn
          PROVE  OfJob(job')
      BY <1>1, <3>3 DEF RecReadNaive, RecCompare, RecAllStates, RecReturn
    <3>4. OfJob(job')
      BY <2>5, <3>2, <3>3 DEF RunReconciler, RecStep
    <3> QED BY <1>0, <1>1, <3>1, <3>4 DEF Tables
  <2>6. CASE Restart
    BY <1>0, <2>6 DEF Restart, NewNodes, Tables, IdleSyncer
  <2>7. CASE UNCHANGED vars
    BY <1>0, <1>1, <2>7 DEF vars, Tables
  <2> QED BY <1>3, <2>2, <2>3, <2>4, <2>5, <2>6, <2>7 DEF Next
<1> QED BY <1>2, <1>3

---------------------------------------------------------------------------
(* Epochs, sequence numbers and stamps.                                    *)

\* The memory of a node is left alone by every step but a delta, a crash, a
\* reload and a restart.
LEMMA NodeFrame ==
    ASSUME [Next]_vars, ~Restart
    PROVE  /\ ~CrashIncrementEpoch => UNCHANGED <<recorded, epoch>>
           /\ ~Apply /\ ~CrashIncrementEpoch => UNCHANGED nextSeq
           /\ ~CrashIncrementEpoch /\ ~CrashRevive => UNCHANGED alive
           /\ ~Apply => localVal' \in {localVal, [localVal EXCEPT ![job.node] = Once(nodeDB[job.node])]}
<1> DEFINE Kept == UNCHANGED <<recorded, epoch, nextSeq, alive, localVal>>
           Loaded == localVal' \in {localVal, [localVal EXCEPT ![job.node] = Once(nodeDB[job.node])]}
<1> USE DEF storageVars, nodeVars
<1>1. CASE Apply
  BY <1>1 DEF Apply, ApplyDelta
<1>2. ASSUME Request PROVE Kept
  BY <1>2 DEF Request, CrashSelect, ReconcileReadNode, RebuildReadCoord, LateReplayBegin
<1>3. CASE CrashIncrementEpoch
  BY <1>3 DEF CrashIncrementEpoch
<1>4. CASE CrashRevive
  BY <1>4 DEF CrashRevive
<1>5. ASSUME CrashDelete \/ ReconcileReadCoord \/ ReconcileDetect \/ RebuildWipe PROVE Kept
  BY <1>5 DEF CrashDelete, ReconcileReadCoord, ReconcileDetect, RebuildWipe
<1>6. ASSUME NEW u \in Uuid,
             ReconcileSyncUp(u) \/ ReconcileReplay(u) \/ RebuildReplay(u) \/ LateReplay(u)
      PROVE  Kept
  BY <1>6 DEF ReconcileSyncUp, ReconcileReplay, RebuildReplay, InsertIntoNode, LateReplay
<1>7. ASSUME ReconcileReload \/ RebuildReload \/ LateReplayReload
      PROVE  UNCHANGED <<recorded, epoch, nextSeq, alive>> /\ Loaded
  BY <1>7 DEF ReconcileReload, RebuildReload, ReloadAndReturn, LateReplayReload
<1>8. CASE RunJob
  BY <1>3, <1>4, <1>5, <1>6, <1>7, <1>8 DEF RunJob, JobStep
<1>9. ASSUME RunSyncer PROVE Kept
  BY <1>9 DEF RunSyncer, SyncTick, SyncStep, SyncFetch, SyncWrite, SyncWriteFailed, SyncMark,
              SyncFetchPills, SyncDeadLetter, SyncDeadLetterFailed, SyncNodeDone, SyncReturn
<1>10. ASSUME RunReconciler PROVE Kept
  BY <1>10 DEF RunReconciler, RecStep, RecReadNaive, RecCompare, RecAllStates, RecReconcile,
               ReconcileReadNode, RecReturn
<1>11. ASSUME UNCHANGED vars PROVE Kept
  BY <1>11 DEF vars
<1> QED BY <1>1, <1>2, <1>8, <1>9, <1>10, <1>11 DEF Next

LEMMA EpochsStep == ASSUME CoreInv, [Next]_vars PROVE Epochs'
<1> DEFINE Live == job.pc \in {"crash_delete", "crash_epoch"} => alive[job.node]
           Revived == At("crash_revive") =>
                         /\ ~alive[job.node]
                         /\ epoch[job.node] = recorded[job.node]
                         /\ \A u \in Own(job.node) : info[u].epoch < epoch[job.node]
<1>0. TypeOK /\ Tables /\ Epochs
  BY DEF CoreInv
<1>1. \A u \in Issued : info[u] \in Operation
  BY <1>0 DEF TypeOK, StorageTypeOK, Issued
<1>2. CASE Apply
  <2> PICK n \in Nodes, u \in Uuid, a \in Amounts : ApplyDelta(n, u, a)
    BY <1>2 DEF Apply
  <2>1. UNCHANGED <<recorded, epoch, alive, job>>
    BY <1>2 DEF Apply, ApplyDelta, simVars
  <2>2. \A v \in Issued' : \/ v \in Issued /\ info'[v] = info[v]
                           \/ info'[v].node = n /\ info'[v].epoch = epoch[n]
    BY <1>0 DEF ApplyDelta, Issued, TypeOK, StorageTypeOK
  <2>3. alive[n]
    BY DEF ApplyDelta
  <2>4. \A v \in Issued' : info'[v].epoch <= recorded[info'[v].node]
    <3> SUFFICES ASSUME NEW v \in Issued' PROVE info'[v].epoch <= recorded[info'[v].node]
      OBVIOUS
    <3>1. CASE v \in Issued /\ info'[v] = info[v]
      BY <1>0, <3>1 DEF Epochs
    <3>2. CASE info'[v].node = n /\ info'[v].epoch = epoch[n]
      BY <1>0, <2>3, <3>2 DEF Epochs, TypeOK, NodeTypeOK, StorageTypeOK
    <3> QED BY <2>2, <3>1, <3>2
  <2>5. Revived'
    <3> SUFFICES ASSUME At("crash_revive")
                 PROVE  Revived'
      BY <2>1
    <3>1. job.node # n
      BY <1>0, <2>3 DEF Epochs
    <3>2. \A v \in Own(job.node)' : v \in Own(job.node) /\ info'[v] = info[v]
      BY <2>1, <2>2, <3>1 DEF Own
    <3> QED BY <1>0, <2>1, <3>2 DEF Epochs
  <2> QED BY <1>0, <2>1, <2>4, <2>5 DEF Epochs
<1>3. CASE ~Apply
  <2>0. info' = info /\ Issued' = Issued /\ \A n : Own(n)' = Own(n)
    BY <1>3, Frame DEF Issued, Own
  <2>1. CASE CrashIncrementEpoch
    <3> DEFINE n == job.node
    <3>0. n \in Nodes
      BY <1>0, <2>1 DEF CrashIncrementEpoch, Tables, Locked, NoJob
    <3>1. epoch[n] = recorded[n] /\ epoch[n] \in Nat
      BY <1>0, <2>1, <3>0 DEF Epochs, CrashIncrementEpoch, TypeOK, NodeTypeOK
    <3>2. /\ epoch' = [epoch EXCEPT ![n] = @ + 1]
          /\ alive' = [alive EXCEPT ![n] = FALSE]
      BY <2>1 DEF CrashIncrementEpoch, IncrementEpoch
    <3>3. \/ recorded' = [recorded EXCEPT ![n] = epoch[n] + 1] /\ job' = [job EXCEPT !.pc = "crash_revive"]
          \/ recorded' = recorded /\ job' = NoJob
      BY <2>1 DEF CrashIncrementEpoch, IncrementEpoch, InsertEpoch
    <3>4. \A u \in Issued : info[u].epoch \in Nat /\ info[u].node \in Nodes
      BY <1>1 DEF Operation
    <3>5. job \in Job /\ epoch \in [Nodes -> Nat] /\ recorded \in [Nodes -> Nat] /\ alive \in [Nodes -> BOOLEAN]
      BY <1>0 DEF TypeOK, SimTypeOK, NodeTypeOK, StorageTypeOK
    <3>6. job'.pc \in {"idle", "crash_revive"} /\ (job'.pc = "crash_revive" => job'.node = n)
      BY <3>3, <3>5 DEF NoJob, Job
    <3>7. job'.pc = "crash_revive" => recorded' = [recorded EXCEPT ![n] = epoch[n] + 1]
      BY <3>3 DEF NoJob
    <3> HIDE DEF n
    <3>8. \A u \in Issued : info[u].epoch <= recorded'[info[u].node]
      BY <1>0, <3>0, <3>1, <3>3, <3>4, <3>5 DEF Epochs
    <3>9. /\ \A m \in Nodes : recorded'[m] <= epoch'[m]
          /\ \A m \in Nodes : alive'[m] => epoch'[m] = recorded'[m]
      BY <1>0, <3>0, <3>1, <3>2, <3>3, <3>5 DEF Epochs
    <3>10. \A u \in Own(n) : info[u].epoch < epoch'[n]
      BY <1>0, <3>0, <3>1, <3>2, <3>4, <3>5 DEF Epochs, Own
    <3>11. ~alive'[n] /\ (job'.pc = "crash_revive" => epoch'[n] = recorded'[n])
      BY <3>0, <3>2, <3>5, <3>7
    <3>12. Revived'
      BY <2>0, <3>6, <3>10, <3>11
    <3> QED BY <2>0, <3>6, <3>8, <3>9, <3>12 DEF Epochs
  <2>2. CASE CrashRevive
    <3>1. UNCHANGED <<recorded, epoch>> /\ job' = NoJob
      BY <2>2 DEF CrashRevive
    <3>2. alive' \in {alive, [alive EXCEPT ![job.node] = TRUE]}
      BY <2>2 DEF CrashRevive
    <3>3. epoch[job.node] = recorded[job.node]
      BY <1>0, <2>2 DEF CrashRevive, Epochs
    <3>4. \A m \in Nodes : alive'[m] => epoch[m] = recorded[m]
      BY <1>0, <3>2, <3>3 DEF Epochs, TypeOK, NodeTypeOK
    <3> QED BY <1>0, <2>0, <3>1, <3>4 DEF Epochs, NoJob
  <2>3. CASE Restart
    <3>1. job' = NoJob /\ \A m \in Nodes : epoch'[m] = recorded[m] + 1 /\ recorded'[m] = recorded[m] + 1
      BY <2>3 DEF Restart, NewNodes
    <3>2. \A u \in Issued : info[u].epoch \in Nat /\ info[u].node \in Nodes
      BY <1>1 DEF Operation
    <3>3. \A m \in Nodes : recorded[m] \in Nat
      BY <1>0 DEF TypeOK, StorageTypeOK
    <3>4. \A u \in Issued : info[u].epoch <= recorded'[info[u].node]
      BY <1>0, <3>1, <3>2, <3>3 DEF Epochs
    <3> QED BY <2>0, <3>1, <3>3, <3>4 DEF Epochs, NoJob
  <2>4. CASE ~CrashIncrementEpoch /\ ~CrashRevive /\ ~Restart
    <3>1. UNCHANGED <<recorded, epoch, alive>>
      BY <2>4, NodeFrame
    <3>2. \/ job' = job
          \/ job'.pc \notin {"crash_delete", "crash_epoch", "crash_revive"}
          \/ job'.pc \in {"crash_delete", "crash_epoch"} /\ alive[job'.node]
      <4> DEFINE Quiet == \/ job' = job
                          \/ job'.pc \notin {"crash_delete", "crash_epoch", "crash_revive"}
                          \/ job'.pc \in {"crash_delete", "crash_epoch"} /\ alive[job'.node]
      <4>0. job \in Job /\ (job.pc = "crash_delete" => alive[job.node])
        BY <1>0 DEF TypeOK, SimTypeOK, Epochs
      <4>1. ASSUME Request PROVE Quiet
        <5> PICK n \in Nodes : \/ \E S \in SUBSET nodeDB[n] : CrashSelect(n, S)
                               \/ ReconcileReadNode(n)
                               \/ RebuildReadCoord(n)
                               \/ LateReplayBegin(n)
          BY <4>1 DEF Request
        <5>1. ASSUME NEW S \in SUBSET nodeDB[n], CrashSelect(n, S) PROVE Quiet
          BY <5>1 DEF CrashSelect, NoJob
        <5>2. ASSUME ReconcileReadNode(n) PROVE Quiet
          BY <5>2 DEF ReconcileReadNode, NoJob
        <5>3. ASSUME RebuildReadCoord(n) PROVE Quiet
          <6>1. CASE job' = NoJob
            BY <6>1 DEF NoJob
          <6>2. CASE job' = [NoJob EXCEPT !.pc = "rebuild_wipe", !.node = n,
                                          !.coordOps = GetOperationsByNode(coord, n)]
            BY <6>2 DEF NoJob
          <6> QED BY <5>3, <6>1, <6>2 DEF RebuildReadCoord
        <5>4. ASSUME LateReplayBegin(n) PROVE Quiet
          BY <5>4 DEF LateReplayBegin, NoJob
        <5> QED BY <5>1, <5>2, <5>3, <5>4
      <4>2. ASSUME CrashDelete PROVE Quiet
        <5>1. job' = NoJob \/ job' = [job EXCEPT !.pc = "crash_epoch", !.todo = {}]
          BY <4>2 DEF CrashDelete
        <5>2. alive[job.node]
          BY <4>0, <4>2 DEF CrashDelete
        <5>3. CASE job' = [job EXCEPT !.pc = "crash_epoch", !.todo = {}]
          <6>1. job'.pc = "crash_epoch" /\ job'.node = job.node
            BY <4>0, <5>3 DEF Job
          <6> QED BY <5>2, <6>1
        <5> QED BY <5>1, <5>3 DEF NoJob
      <4>3. ASSUME ReconcileReadCoord \/ RebuildWipe \/ ReconcileDetect PROVE Quiet
        <5>1. CASE job' = NoJob
          BY <5>1 DEF NoJob
        <5>2. ASSUME NEW pc \in {"reconcile_syncup", "reconcile_replay", "rebuild_replay"},
                     job'.pc = pc
              PROVE  Quiet
          BY <5>2
        <5>3. ASSUME NEW ops, NEW left,
                     \/ job' = [job EXCEPT !.pc = "reconcile_syncup", !.coordOps = ops,
                                           !.todo = left]
                     \/ job' = [job EXCEPT !.pc = "reconcile_replay", !.coordOps = ops,
                                           !.todo = left]
                     \/ job' = [job EXCEPT !.pc = "rebuild_replay", !.todo = left]
              PROVE  job'.pc \in {"reconcile_syncup", "reconcile_replay", "rebuild_replay"}
          BY <4>0, <5>3 DEF Job
        <5>4. CASE ReconcileReadCoord
          <6>1. ASSUME job' # NoJob
                PROVE  \E ops, left : job' = [job EXCEPT !.pc = "reconcile_syncup",
                                                         !.coordOps = ops, !.todo = left]
            BY <5>4, <6>1 DEF ReconcileReadCoord
          <6> QED BY <5>1, <5>2, <5>3, <6>1
        <5>5. CASE RebuildWipe
          BY <5>1, <5>2, <5>3, <5>5 DEF RebuildWipe
        <5>6. CASE ReconcileDetect
          <6>1. ASSUME job' # NoJob
                PROVE  \E ops, left : job' = [job EXCEPT !.pc = "reconcile_replay",
                                                         !.coordOps = ops, !.todo = left]
            BY <5>6, <6>1 DEF ReconcileDetect
          <6> QED BY <5>1, <5>2, <5>3, <6>1
        <5> QED BY <4>3, <5>4, <5>5, <5>6
      <4>5. ASSUME NEW u \in Uuid,
                   ReconcileSyncUp(u) \/ ReconcileReplay(u) \/ RebuildReplay(u) \/ LateReplay(u)
            PROVE  Quiet
        BY <4>0, <4>5 DEF ReconcileSyncUp, ReconcileReplay, RebuildReplay, InsertIntoNode,
                          LateReplay, Job
      <4>6. ASSUME ReconcileReload \/ RebuildReload \/ LateReplayReload PROVE Quiet
        BY <4>6 DEF ReconcileReload, RebuildReload, ReloadAndReturn, LateReplayReload, NoJob
      <4>7. ASSUME RunJob PROVE Quiet
        BY <2>4, <4>2, <4>3, <4>5, <4>6, <4>7 DEF RunJob, JobStep
      <4>8. ASSUME RunReconciler PROVE Quiet
        BY <4>8 DEF RunReconciler, RecStep, RecReadNaive, RecCompare, RecAllStates,
                    RecReconcile, ReconcileReadNode, RecReturn, simVars, NoJob
      <4>9. ASSUME RunSyncer \/ UNCHANGED vars PROVE Quiet
        BY <4>9 DEF RunSyncer, simVars, vars
      <4> QED BY <1>3, <2>4, <4>1, <4>7, <4>8, <4>9 DEF Next
    <3> QED BY <1>0, <2>0, <3>1, <3>2 DEF Epochs
  <2> QED BY <2>1, <2>2, <2>3, <2>4
<1> QED BY <1>2, <1>3

\* The stamp of a delta is new: its epoch is the node's current one, in which
\* no operation has the next sequence number.
LEMMA StampsStep == ASSUME CoreInv, [Next]_vars PROVE Sequences' /\ UniqueStamps'
<1>0. TypeOK /\ Epochs /\ Sequences /\ UniqueStamps
  BY DEF CoreInv
<1>1. \A u \in Issued : info[u] \in Operation
  BY <1>0 DEF TypeOK, StorageTypeOK, Issued
<1>2. nextSeq \in [Nodes -> Nat] /\ epoch \in [Nodes -> Nat] /\ recorded \in [Nodes -> Nat]
  BY <1>0 DEF TypeOK, NodeTypeOK, StorageTypeOK
<1>3. CASE Apply
  <2> PICK n \in Nodes, u \in Uuid, a \in Amounts : ApplyDelta(n, u, a)
    BY <1>3 DEF Apply
  <2>1. epoch' = epoch /\ nextSeq' = [nextSeq EXCEPT ![n] = @ + 1]
    BY DEF ApplyDelta
  <2>2. /\ \A v \in Issued' : v # u => v \in Issued /\ info'[v] = info[v]
        /\ info'[u].node = n /\ info'[u].epoch = epoch[n] /\ info'[u].seq = nextSeq[n]
    BY <1>0 DEF ApplyDelta, Issued, TypeOK, StorageTypeOK
  <2>3. \A v \in Issued : info[v].node \in Nodes /\ info[v].seq \in Nat
    BY <1>1 DEF Operation
  <2>4. \A v \in Issued : info[v].node = n /\ info[v].epoch = epoch[n] => info[v].seq < nextSeq[n]
    BY <1>0 DEF Sequences
  <2>5. Sequences'
    <3> SUFFICES ASSUME NEW v \in Issued', info'[v].epoch = epoch[info'[v].node]
                 PROVE  info'[v].seq < nextSeq'[info'[v].node]
      BY <2>1 DEF Sequences
    <3>1. CASE v = u
      BY <1>2, <2>1, <2>2, <3>1
    <3>2. CASE v # u
      <4>1. v \in Issued /\ info'[v] = info[v]
        BY <2>2, <3>2
      <4>2. info[v].seq < nextSeq[info[v].node]
        BY <1>0, <4>1 DEF Sequences
      <4> QED BY <1>2, <2>1, <2>3, <4>1, <4>2
    <3> QED BY <3>1, <3>2
  <2>6. UniqueStamps'
    <3> SUFFICES ASSUME NEW v \in Issued', NEW w \in Issued', v # w,
                        info'[v].node = info'[w].node,
                        info'[v].epoch = info'[w].epoch,
                        info'[v].seq = info'[w].seq
                 PROVE  FALSE
      BY DEF UniqueStamps
    <3>1. CASE v # u /\ w # u
      BY <1>0, <2>2, <3>1 DEF UniqueStamps
    <3>2. CASE v = u
      BY <1>2, <2>2, <2>3, <2>4, <3>2
    <3>3. CASE w = u
      BY <1>2, <2>2, <2>3, <2>4, <3>3
    <3> QED BY <3>1, <3>2, <3>3
  <2> QED BY <2>5, <2>6
<1>4. CASE ~Apply
  <2>1. info' = info /\ Issued' = Issued
    BY <1>4, Frame DEF Issued
  <2>2. UniqueStamps'
    BY <1>0, <2>1 DEF UniqueStamps
  <2>3. \A v \in Issued : info[v].node \in Nodes /\ info[v].epoch \in Nat
    BY <1>1 DEF Operation
  <2>4. \A v \in Issued : info[v].epoch <= recorded[info[v].node] /\ recorded[info[v].node] <= epoch[info[v].node]
    BY <1>0, <2>3 DEF Epochs
  <2>5. CASE CrashIncrementEpoch
    <3> DEFINE n == job.node
    <3>1. /\ epoch' = [epoch EXCEPT ![n] = @ + 1]
          /\ nextSeq' = [nextSeq EXCEPT ![n] = 1]
      BY <2>5 DEF CrashIncrementEpoch, IncrementEpoch
    <3> HIDE DEF n
    <3>2. \A v \in Issued : info[v].node = n => info[v].epoch # epoch'[n]
      BY <1>2, <2>3, <2>4, <3>1
    <3> QED BY <1>0, <1>2, <2>1, <2>2, <2>3, <3>1, <3>2 DEF Sequences
  <2>6. CASE Restart
    <3>1. \A m \in Nodes : epoch'[m] = recorded[m] + 1
      BY <2>6 DEF Restart, NewNodes
    <3>2. \A v \in Issued : info[v].epoch # epoch'[info[v].node]
      BY <1>2, <2>3, <2>4, <3>1
    <3> QED BY <2>1, <2>2, <3>2 DEF Sequences
  <2>7. CASE ~CrashIncrementEpoch /\ ~Restart
    <3>1. UNCHANGED <<epoch, nextSeq>>
      BY <1>4, <2>7, NodeFrame
    <3> QED BY <1>0, <2>1, <2>2, <3>1 DEF Sequences
  <2> QED BY <2>5, <2>6, <2>7
<1> QED BY <1>3, <1>4

---------------------------------------------------------------------------
(* The values.                                                             *)

LEMMA ContributionStep == ASSUME CoreInv, [Next]_vars PROVE OneContribution'
<1>0. TypeOK /\ Tables /\ OneContribution
  BY DEF CoreInv
<1>1. localVal \in [Nodes -> [Uuid -> Nat]]
  BY <1>0 DEF TypeOK, NodeTypeOK
<1>2. \A n \in Nodes, u \in Uuid : /\ Once(nodeDB[n])[u] \in {0, 1}
                                   /\ Once(nodeDB[n])[u] = 1 => u \in Own(n)
  BY <1>0 DEF Once, Tables
<1>3. CASE Apply
  <2> PICK n \in Nodes, u \in Uuid, a \in Amounts : ApplyDelta(n, u, a)
    BY <1>3 DEF Apply
  <2>1. u \notin Issued /\ localVal' = [localVal EXCEPT ![n][u] = @ + 1]
    BY DEF ApplyDelta
  <2>2. \A m \in Nodes : localVal[m][u] = 0
    <3> TAKE m \in Nodes
    <3>1. localVal[m][u] \in Nat
      BY <1>1
    <3>2. localVal[m][u] <= 1 /\ localVal[m][u] # 1
      BY <1>0, <2>1 DEF OneContribution
    <3> QED BY <3>1, <3>2
  <2>3. /\ \A v \in Issued : v \in Issued' /\ info'[v] = info[v]
        /\ u \in Issued' /\ info'[u].node = n
    BY <1>0, OwnKept, StorageAssumption
       DEF ApplyDelta, Issued, TypeOK, StorageTypeOK, NodeTypeOK, Operation
  <2>4. \A m \in Nodes, v \in Uuid :
           localVal'[m][v] = IF m = n /\ v = u THEN 1 ELSE localVal[m][v]
    BY <1>1, <2>1, <2>2
  <2> QED BY <1>0, <1>1, <2>3, <2>4 DEF OneContribution
<1>4. CASE ~Apply
  <2>1. info' = info /\ Issued' = Issued
    BY <1>4, Frame DEF Issued
  <2>2. \A n \in Nodes : localVal'[n] = localVal[n] \/ localVal'[n] = Once(nodeDB[n])
    <3>1. CASE Restart
      BY <3>1 DEF Restart, NewNodes
    <3>2. CASE ~Restart
      BY <1>1, <1>4, <3>2, NodeFrame
    <3> QED BY <3>1, <3>2
  <2> QED BY <1>0, <1>2, <2>1, <2>2 DEF OneContribution, Own
<1> QED BY <1>3, <1>4

---------------------------------------------------------------------------
(* The poison pills.                                                       *)

LEMMA PillsStep == ASSUME CoreInv, [Next]_vars PROVE PillsWait'
<1> USE DEF TypeOK, StorageTypeOK, SyncTypeOK
<1>0. TypeOK /\ PillsWait
  BY DEF CoreInv
<1>1. CASE Apply
  <2> PICK n \in Nodes, u \in Uuid, a \in Amounts : ApplyDelta(n, u, a)
    BY <1>1 DEF Apply
  <2> QED BY <1>0, <1>1 DEF Apply, ApplyDelta, PillsWait
<1>2. CASE RunSyncer
  <2>1. ASSUME NEW u \in Uuid, SyncDeadLetter(u) PROVE PillsWait'
    <3>1. /\ outbox' \in {outbox, [outbox EXCEPT ![u] = "absent"]}
          /\ sync' = [sync EXCEPT !.batch = @ \ {u}]
          /\ sync.pc = "pills"
      BY <2>1 DEF SyncDeadLetter, DeleteOutboxEntry
    <3>2. sync'.batch = sync.batch \ {u} /\ sync.batch \subseteq Uuid
      BY <1>0, <3>1 DEF Syncer
    <3> QED BY <1>0, <3>1, <3>2 DEF PillsWait
  <2>2. ASSUME NEW u \in Uuid, SyncDeadLetterFailed(u) PROVE PillsWait'
    <3>1. outbox' = outbox /\ sync'.batch = sync.batch \ {u} /\ sync.pc = "pills"
      BY <1>0, <2>2 DEF SyncDeadLetterFailed, Syncer
    <3> QED BY <1>0, <3>1 DEF PillsWait
  <2>3. CASE SyncFetchPills
    <3>1. outbox' = outbox
      BY <2>3 DEF SyncFetchPills
    <3>2. CASE sync' = [sync EXCEPT !.pc = "pills", !.batch = GetPoisonPillOps(sync.node)]
      <4>1. sync'.batch = GetPoisonPillOps(sync.node)
        BY <1>0, <3>2 DEF Syncer
      <4> QED BY <3>1, <4>1 DEF PillsWait, GetPoisonPillOps, Unsynced
    <3>3. CASE NextNode
      <4>1. sync'.pc = "nodes"
        BY <1>0, <3>3 DEF NextNode, Syncer
      <4> QED BY <4>1 DEF PillsWait
    <3> QED BY <2>3, <3>2, <3>3 DEF SyncFetchPills
  <2>4. ASSUME NEW u \in Uuid, SyncWrite(u) \/ SyncWriteFailed(u) PROVE PillsWait'
    <3>1. sync'.pc \in {"mark", "write"}
      BY <1>0, <2>4 DEF SyncWrite, SyncWriteFailed, NextOp, Syncer
    <3> QED BY <3>1 DEF PillsWait
  <2>5. ASSUME NEW n \in Nodes, SyncFetch(n) PROVE PillsWait'
    <3>1. sync'.pc # "pills"
      BY <1>0, <2>5 DEF SyncFetch, Syncer
    <3> QED BY <3>1 DEF PillsWait
  <2>6. CASE SyncTick \/ SyncMark \/ SyncNodeDone \/ SyncReturn
    <3>1. ASSUME SyncTick \/ SyncNodeDone PROVE sync'.pc = "nodes"
      BY <1>0, <3>1 DEF SyncTick, SyncNodeDone, NextNode, Syncer
    <3>2. ASSUME SyncMark PROVE sync'.pc = "write"
      BY <1>0, <3>2 DEF SyncMark, NextOp, Syncer
    <3>3. ASSUME SyncReturn PROVE sync'.pc = "idle"
      BY <3>3 DEF SyncReturn, IdleSyncer
    <3>4. sync'.pc # "pills"
      BY <2>6, <3>1, <3>2, <3>3
    <3> QED BY <3>4 DEF PillsWait
  <2> QED BY <1>2, <2>1, <2>2, <2>3, <2>4, <2>5, <2>6 DEF RunSyncer, SyncStep
<1>3. CASE Restart
  BY <1>3 DEF Restart, IdleSyncer, PillsWait
<1>4. CASE ~Apply /\ ~RunSyncer /\ ~Restart
  <2>1. UNCHANGED <<outbox, sync>>
    BY <1>4, Frame DEF Next, Request, RunJob, RunReconciler, vars
  <2> QED BY <1>0, <2>1 DEF PillsWait
<1> QED BY <1>1, <1>2, <1>3, <1>4

---------------------------------------------------------------------------
(* Coherence and the progress of Reconcile.                                *)

\* Only a job and a restart take rows from a node's table, and only a request,
\* the reconciler agent, a job and a restart change the running job.
LEMMA JobFrame ==
    ASSUME [Next]_vars, TypeOK
    PROVE  \/ RunJob
           \/ Restart
           \/ /\ ~Locked
              /\ UNCHANGED <<nodeDB, coord, nodeVars>>
              /\ \/ job' = NoJob
                 \/ job'.pc \in {"crash_delete", "rebuild_wipe"}
                 \/ job'.pc = "late_replay" /\ ~job'.dirty
                 \/ /\ job'.pc = "reconcile_coord"
                    /\ job'.node \in Nodes
                    /\ job'.nodeOps \subseteq nodeDB[job'.node]
           \/ Apply /\ UNCHANGED job
           \/ UNCHANGED <<nodeDB, nodeVars, job>>
<1> USE DEF storageVars, nodeVars, simVars
<1> DEFINE Started == /\ ~Locked
                      /\ UNCHANGED <<nodeDB, coord, nodeVars>>
                      /\ \/ job' = NoJob
                         \/ job'.pc \in {"crash_delete", "rebuild_wipe"}
                         \/ job'.pc = "late_replay" /\ ~job'.dirty
                         \/ /\ job'.pc = "reconcile_coord"
                            /\ job'.node \in Nodes
                            /\ job'.nodeOps \subseteq nodeDB[job'.node]
<1>1. ASSUME NEW n \in Nodes, ReconcileReadNode(n) PROVE Started
  BY <1>1 DEF ReconcileReadNode, NoJob, GetOperationsByNode
<1>2. ASSUME NEW n \in Nodes, NEW S \in SUBSET nodeDB[n], CrashSelect(n, S) PROVE Started
  BY <1>2 DEF CrashSelect, NoJob
<1>3. ASSUME NEW n \in Nodes, LateReplayBegin(n) PROVE Started
  BY <1>3 DEF LateReplayBegin, NoJob
<1>4. ASSUME NEW n \in Nodes, RebuildReadCoord(n) PROVE Started
  <2>1. CASE job' = NoJob
    BY <1>4, <2>1 DEF RebuildReadCoord
  <2>2. CASE CoordWorks /\ job' = [NoJob EXCEPT !.pc = "rebuild_wipe", !.node = n,
                                       !.coordOps = GetOperationsByNode(coord, n)]
    BY <1>4, <2>2 DEF RebuildReadCoord, NoJob
  <2> QED BY <1>4, <2>1, <2>2 DEF RebuildReadCoord
<1>5. ASSUME Request PROVE Started
  BY <1>1, <1>2, <1>3, <1>4, <1>5 DEF Request
<1>6. CASE RunSyncer
  BY <1>6 DEF RunSyncer, SyncTick, SyncStep, SyncFetch, SyncWrite, SyncWriteFailed, SyncMark,
              SyncFetchPills, SyncDeadLetter, SyncDeadLetterFailed, SyncNodeDone, SyncReturn
<1>7. CASE RunReconciler
  <2>1. CASE RecReadNaive \/ RecCompare \/ RecAllStates \/ RecReturn
    BY <2>1 DEF RecReadNaive, RecCompare, RecAllStates, RecReturn
  <2>2. ASSUME NEW n \in Nodes, RecReconcile(n) PROVE Started
    BY <1>1, <2>2 DEF RecReconcile
  <2> QED BY <1>7, <2>1, <2>2 DEF RunReconciler, RecStep
<1>8. CASE UNCHANGED vars
  BY <1>8 DEF vars
<1> QED BY <1>5, <1>6, <1>7, <1>8 DEF Next, Apply

LEMMA CoherenceStep == ASSUME CoreInv, [Next]_vars PROVE Coherence'
<1> DEFINE Quiet(j, n) == \/ j.node # n
                          \/ j.pc \in {"idle", "crash_delete", "reconcile_coord",
                                       "reconcile_syncup", "rebuild_wipe"}
                          \/ j.pc = "late_replay" /\ ~j.dirty
<1> SUFFICES ASSUME "reload" \notin Faulty, NEW n \in Nodes, alive'[n], Quiet(job', n)
             PROVE  localVal'[n] = Once(nodeDB'[n])
  BY DEF Coherence, At
<1>0. TypeOK /\ Tables /\ Epochs
  BY DEF CoreInv
<1>1. alive[n] /\ Quiet(job, n) => localVal[n] = Once(nodeDB[n])
  BY DEF CoreInv, Coherence, At
<1>2. Quiet(NoJob, n) /\ (~Locked => job = NoJob)
  BY DEF NoJob, Locked
<1>3. /\ nodeDB \in [Nodes -> SUBSET Uuid]
      /\ localVal \in [Nodes -> [Uuid -> Nat]]
      /\ alive \in [Nodes -> BOOLEAN]
      /\ job \in Job
  BY <1>0 DEF TypeOK, StorageTypeOK, NodeTypeOK, SimTypeOK
<1>4. CASE RunJob
  <2>1. CASE CrashDelete
    <3>1. UNCHANGED <<localVal, alive>> /\ job.pc = "crash_delete"
      BY <2>1 DEF CrashDelete, nodeVars
    <3>2. CASE UNCHANGED nodeDB
      BY <1>1, <3>1, <3>2
    <3>3. CASE job' = [job EXCEPT !.pc = "crash_epoch", !.todo = {}]
               /\ nodeDB' = [nodeDB EXCEPT ![job.node] = @ \ job.todo]
      <4>1. job'.node = job.node /\ job'.pc = "crash_epoch"
        BY <1>3, <3>3 DEF Job
      <4> QED BY <1>1, <1>3, <3>1, <3>3, <4>1
    <3> QED BY <2>1, <3>2, <3>3 DEF CrashDelete, DeleteOperations
  <2>2. CASE CrashIncrementEpoch
    <3>1. UNCHANGED <<nodeDB, localVal>> /\ alive' = [alive EXCEPT ![job.node] = FALSE]
      BY <2>2 DEF CrashIncrementEpoch
    <3> QED BY <1>1, <1>3, <3>1
  <2>3. CASE CrashRevive
    <3>1. nodeDB' = nodeDB /\ ~alive[job.node]
      BY <1>0, <2>3 DEF CrashRevive, Epochs
    <3>2. CASE UNCHANGED <<localVal, alive>>
      BY <1>1, <3>1, <3>2
    <3>3. CASE /\ localVal' = [localVal EXCEPT ![job.node] = Once(nodeDB[job.node])]
               /\ alive' = [alive EXCEPT ![job.node] = TRUE]
      BY <1>1, <1>3, <3>1, <3>3
    <3> QED BY <2>3, <3>2, <3>3 DEF CrashRevive
  <2>4. CASE ReconcileReadCoord \/ ReconcileDetect
    <3>1. UNCHANGED <<nodeDB, localVal, alive>>
          /\ job.pc \in {"reconcile_coord", "reconcile_syncup"}
      BY <2>4 DEF ReconcileReadCoord, ReconcileDetect, nodeVars
    <3> QED BY <1>1, <3>1
  <2>5. ASSUME NEW u \in Uuid, ReconcileSyncUp(u) PROVE localVal'[n] = Once(nodeDB'[n])
    <3>1. UNCHANGED <<nodeDB, localVal, alive>> /\ job.pc = "reconcile_syncup"
      BY <2>5 DEF ReconcileSyncUp, nodeVars
    <3> QED BY <1>1, <3>1
  <2>6. ASSUME NEW u \in Uuid, ReconcileReplay(u) \/ RebuildReplay(u)
        PROVE  localVal'[n] = Once(nodeDB'[n])
    <3>1. /\ UNCHANGED <<localVal, alive>>
          /\ job.pc \in {"reconcile_replay", "rebuild_replay"}
          /\ job' = [job EXCEPT !.todo = @ \ {u}]
          /\ nodeDB' \in {nodeDB, [nodeDB EXCEPT ![job.node] = @ \cup {u}]}
      BY <2>6 DEF ReconcileReplay, RebuildReplay, InsertIntoNode, nodeVars
    <3>2. job'.pc = job.pc /\ job'.node = job.node
      BY <1>3, <3>1 DEF Job
    <3> QED BY <1>1, <1>3, <3>1, <3>2
  <2>7. CASE ReconcileReload \/ RebuildReload
    <3>1. /\ UNCHANGED <<nodeDB, alive>>
          /\ localVal' = [localVal EXCEPT ![job.node] = Once(nodeDB[job.node])]
      BY <2>7 DEF ReconcileReload, RebuildReload, ReloadAndReturn
    <3> QED BY <1>1, <1>3, <3>1
  <2>8. CASE RebuildWipe
    <3>1. UNCHANGED <<localVal, alive>> /\ job.pc = "rebuild_wipe"
      BY <2>8 DEF RebuildWipe, nodeVars
    <3>2. CASE UNCHANGED nodeDB
      BY <1>1, <3>1, <3>2
    <3>3. CASE job' = [job EXCEPT !.pc = "rebuild_replay", !.todo = job.coordOps]
               /\ nodeDB' = [nodeDB EXCEPT ![job.node] = {}]
      <4>1. job'.node = job.node /\ job'.pc = "rebuild_replay"
        BY <1>3, <3>3 DEF Job
      <4> QED BY <1>1, <1>3, <3>1, <3>3, <4>1
    <3> QED BY <2>8, <3>2, <3>3 DEF RebuildWipe, DeleteAllOperations
  <2>9. ASSUME NEW u \in Uuid, LateReplay(u) PROVE localVal'[n] = Once(nodeDB'[n])
    <3>1. UNCHANGED <<localVal, alive>> /\ job.pc = "late_replay"
      BY <2>9 DEF LateReplay, nodeVars
    <3>2. CASE job' = [job EXCEPT !.todo = @ \ {u}] /\ nodeDB' = nodeDB
      <4>1. job'.node = job.node /\ job'.pc = job.pc /\ job'.dirty = job.dirty
        BY <1>3, <3>2 DEF Job
      <4> QED BY <1>1, <3>1, <3>2, <4>1
    <3>3. CASE /\ nodeDB' = [nodeDB EXCEPT ![job.node] = @ \cup {u}]
               /\ job' = [job EXCEPT !.todo = @ \ {u},
                                     !.dirty = @ \/ u \notin nodeDB[job.node]]
      <4>1. /\ job'.node = job.node /\ job'.pc = job.pc
            /\ job'.dirty = (job.dirty \/ u \notin nodeDB[job.node])
        BY <1>3, <3>3 DEF Job
      <4>2. nodeDB'[n] = nodeDB[n] /\ Quiet(job, n)
        BY <1>3, <3>1, <3>3, <4>1
      <4> QED BY <1>1, <3>1, <4>2
    <3> QED BY <2>9, <3>2, <3>3 DEF LateReplay
  <2>10. CASE LateReplayReload
    <3>1. UNCHANGED <<nodeDB, alive>> /\ job.pc = "late_replay"
      BY <2>10 DEF LateReplayReload
    <3>2. CASE job.dirty /\ localVal' = [localVal EXCEPT ![job.node] = Once(nodeDB[job.node])]
      BY <1>1, <1>3, <3>1, <3>2
    <3>3. CASE ~job.dirty /\ UNCHANGED localVal
      BY <1>1, <3>1, <3>3
    <3> QED BY <2>10, <3>2, <3>3 DEF LateReplayReload
  <2> QED BY <1>4, <2>1, <2>2, <2>3, <2>4, <2>5, <2>6, <2>7, <2>8, <2>9, <2>10
          DEF RunJob, JobStep
<1>5. CASE Restart
  BY <1>5 DEF Restart, NewNodes
<1>6. CASE Apply /\ UNCHANGED job
  <2> PICK m \in Nodes, u \in Uuid, a \in Amounts : ApplyDelta(m, u, a)
    BY <1>6 DEF Apply
  <2>1. /\ alive' = alive
        /\ nodeDB' = [nodeDB EXCEPT ![m] = @ \cup {u}]
        /\ localVal' = [localVal EXCEPT ![m][u] = @ + 1]
        /\ u \notin Issued
    BY DEF ApplyDelta
  <2>2. u \notin nodeDB[m]
    BY <1>0, <2>1 DEF Tables, Own
  <2>3. localVal[n] = Once(nodeDB[n])
    BY <1>1, <1>6, <2>1
  <2>4. CASE n # m
    BY <1>3, <2>1, <2>3, <2>4
  <2>5. CASE n = m
    <3>1. localVal'[n] = [localVal[n] EXCEPT ![u] = @ + 1] /\ nodeDB'[n] = nodeDB[n] \cup {u}
      BY <1>3, <2>1, <2>5
    <3>2. \A v \in Uuid : localVal'[n][v] = IF v \in nodeDB[n] \cup {u} THEN 1 ELSE 0
      BY <2>2, <2>3, <2>5, <3>1 DEF Once
    <3>3. localVal'[n] = [v \in Uuid |-> localVal'[n][v]]
      BY <2>3, <3>1 DEF Once
    <3>4. Once(nodeDB'[n]) = [v \in Uuid |-> IF v \in nodeDB[n] \cup {u} THEN 1 ELSE 0]
      BY <3>1 DEF Once
    <3> QED BY <3>2, <3>3, <3>4
  <2> QED BY <2>4, <2>5
<1>7. CASE ~Locked /\ UNCHANGED <<nodeDB, nodeVars>>
  BY <1>1, <1>2, <1>7 DEF nodeVars
<1>8. CASE UNCHANGED <<nodeDB, nodeVars, job>>
  BY <1>1, <1>8 DEF nodeVars
<1> QED BY <1>0, <1>4, <1>5, <1>6, <1>7, <1>8, JobFrame DEF storageVars

LEMMA RepairStep == ASSUME CoreInv, [Next]_vars PROVE RepairProgress'
<1> DEFINE Progress(j, db, log) ==
              /\ j.pc \in {"reconcile_coord", "reconcile_syncup", "reconcile_replay"} =>
                    j.nodeOps \subseteq db[j.node]
              /\ j.pc \in {"reconcile_syncup", "reconcile_replay"} =>
                    Backend = "sqlite" /\ j.coordOps \subseteq log
              /\ j.pc = "reconcile_syncup" => j.nodeOps \subseteq log \cup j.todo
              /\ j.pc = "reconcile_replay" =>
                    /\ j.nodeOps \subseteq log
                    /\ j.coordOps \subseteq db[j.node] \cup j.todo
<1> SUFFICES ASSUME Faulty \cap {"coord", "node"} = {}
             PROVE  Progress(job', nodeDB', coord')
  BY DEF RepairProgress, At
<1>0. TypeOK /\ Tables
  BY DEF CoreInv
<1>1. Progress(job, nodeDB, coord)
  BY DEF CoreInv, RepairProgress, At
<1>2. /\ nodeDB \in [Nodes -> SUBSET Uuid]
      /\ job \in Job
      /\ job.pc # "idle" => job.node \in Nodes
      /\ coord \subseteq coord'
      /\ NoJob.pc = "idle"
  BY <1>0, Frame DEF TypeOK, StorageTypeOK, SimTypeOK, Tables, Locked, NoJob
<1>3. \A S, m : GetOperationsByNode(S, m) \subseteq S
  BY DEF GetOperationsByNode
<1>4. CASE RunJob
  <2>1. CASE CrashDelete \/ CrashIncrementEpoch \/ CrashRevive \/ RebuildWipe
    <3>1. job'.pc \in {"idle", "crash_epoch", "crash_revive", "rebuild_replay"}
      BY <1>2, <2>1 DEF CrashDelete, CrashIncrementEpoch, CrashRevive, RebuildWipe, Job
    <3> QED BY <3>1
  <2>2. CASE ReconcileReload \/ RebuildReload \/ LateReplayReload
    <3>1. job'.pc = "idle"
      BY <1>2, <2>2 DEF ReconcileReload, RebuildReload, ReloadAndReturn, LateReplayReload
    <3> QED BY <3>1
  <2>3. ASSUME NEW u \in Uuid, RebuildReplay(u) \/ LateReplay(u)
        PROVE  Progress(job', nodeDB', coord')
    <3>1. job'.pc \in {"rebuild_replay", "late_replay"}
      BY <1>2, <2>3 DEF RebuildReplay, InsertIntoNode, LateReplay, Job
    <3> QED BY <3>1
  <2>4. CASE ReconcileReadCoord
    <3> DEFINE ops == GetOperationsByNode(coord, job.node)
    <3>1. UNCHANGED <<nodeDB, coord>> /\ job.pc = "reconcile_coord"
      BY <2>4 DEF ReconcileReadCoord
    <3>2. CASE job' = NoJob
      BY <1>2, <3>2
    <3>3. CASE Backend = "sqlite" /\ job' = [job EXCEPT !.pc = "reconcile_syncup", !.coordOps = ops,
                                                        !.todo = job.nodeOps \ ops]
      <4>1. /\ job'.pc = "reconcile_syncup" /\ job'.node = job.node
            /\ job'.nodeOps = job.nodeOps /\ job'.coordOps = ops
            /\ job'.todo = job.nodeOps \ ops
        BY <1>2, <3>3 DEF Job
      <4> HIDE DEF ops
      <4>2. ops \subseteq coord
        BY <1>3 DEF ops
      <4> QED BY <1>1, <3>1, <3>3, <4>1, <4>2
    <3> QED BY <2>4, <3>2, <3>3 DEF ReconcileReadCoord
  <2>5. ASSUME NEW u \in Uuid, ReconcileSyncUp(u) PROVE Progress(job', nodeDB', coord')
    <3>0. UNCHANGED nodeDB /\ job.pc = "reconcile_syncup"
      BY <2>5 DEF ReconcileSyncUp
    <3>1. coord' = coord \cup {u} /\ job' = [job EXCEPT !.todo = @ \ {u}, !.dirty = @ \/ u \notin coord]
      <4>1. ~CoordFails
        BY <1>1, <3>0
      <4> QED BY <2>5, <4>1 DEF ReconcileSyncUp
    <3>2. /\ job'.pc = "reconcile_syncup" /\ job'.node = job.node
          /\ job'.nodeOps = job.nodeOps /\ job'.coordOps = job.coordOps
          /\ job'.todo = job.todo \ {u}
      BY <1>2, <3>0, <3>1 DEF Job
    <3> QED BY <1>1, <3>0, <3>1, <3>2
  <2>6. CASE ReconcileDetect
    <3>0. UNCHANGED <<nodeDB, coord>> /\ job.pc = "reconcile_syncup" /\ job.todo = {}
      BY <2>6 DEF ReconcileDetect
    <3>1. ASSUME NEW ops \in SUBSET coord,
                 job' = [job EXCEPT !.pc = "reconcile_replay", !.coordOps = ops,
                                    !.todo = ops \ job.nodeOps]
          PROVE  Progress(job', nodeDB', coord')
      <4>1. /\ job'.pc = "reconcile_replay" /\ job'.node = job.node
            /\ job'.nodeOps = job.nodeOps /\ job'.coordOps = ops
            /\ job'.todo = ops \ job.nodeOps
        BY <1>2, <3>1 DEF Job
      <4> QED BY <1>1, <3>0, <4>1
    <3>2. CASE job' = NoJob
      BY <1>2, <3>2
    <3>3. job.coordOps \subseteq coord /\ GetOperationsByNode(coord, job.node) \subseteq coord
      BY <1>1, <1>3, <3>0
    <3> QED BY <2>6, <3>1, <3>2, <3>3 DEF ReconcileDetect
  <2>7. ASSUME NEW u \in Uuid, ReconcileReplay(u) PROVE Progress(job', nodeDB', coord')
    <3>1. /\ job.pc = "reconcile_replay"
          /\ coord' = coord
          /\ nodeDB' = [nodeDB EXCEPT ![job.node] = @ \cup {u}]
          /\ job' = [job EXCEPT !.todo = @ \ {u}]
      BY <2>7 DEF ReconcileReplay, InsertIntoNode
    <3>2. /\ job'.pc = "reconcile_replay" /\ job'.node = job.node
          /\ job'.nodeOps = job.nodeOps /\ job'.coordOps = job.coordOps
          /\ job'.todo = job.todo \ {u}
      BY <1>2, <3>1 DEF Job
    <3>3. nodeDB'[job.node] = nodeDB[job.node] \cup {u}
      BY <1>2, <3>1
    <3> QED BY <1>1, <3>1, <3>2, <3>3
  <2> QED BY <1>4, <2>1, <2>2, <2>3, <2>4, <2>5, <2>6, <2>7 DEF RunJob, JobStep
<1>5. CASE Restart
  BY <1>2, <1>5 DEF Restart
<1>6. CASE Apply /\ UNCHANGED job
  <2> PICK m \in Nodes, u \in Uuid, a \in Amounts : ApplyDelta(m, u, a)
    BY <1>6 DEF Apply
  <2>1. \A k \in Nodes : nodeDB[k] \subseteq nodeDB'[k]
    BY <1>2 DEF ApplyDelta
  <2> QED BY <1>1, <1>2, <1>6, <2>1
<1>7. CASE UNCHANGED <<nodeDB, nodeVars, job>>
  BY <1>1, <1>2, <1>7
<1>8. CASE /\ UNCHANGED nodeDB
           /\ \/ job' = NoJob
              \/ job'.pc \in {"crash_delete", "rebuild_wipe", "late_replay"}
              \/ job'.pc = "reconcile_coord" /\ job'.nodeOps \subseteq nodeDB[job'.node]
  BY <1>2, <1>8
<1> QED BY <1>0, <1>4, <1>5, <1>6, <1>7, <1>8, JobFrame DEF storageVars

---------------------------------------------------------------------------
(* The theorems.                                                           *)

LEMMA InitInv == ASSUME Init PROVE IndInv
<1> USE StorageAssumption
    DEF Init, StorageInit, NodeInit, SimInit, SyncInit, RecInit
<1>1. Issued = {}
  BY DEF Issued
<1>2. TypeOK
  BY DEF TypeOK, StorageTypeOK, NodeTypeOK, SimTypeOK, SyncTypeOK, RecTypeOK, NoJob, Job,
         IdleSyncer, Syncer, IdleAgent, Agent, Once
<1>3. Tables /\ Epochs /\ Outbox
  BY <1>1 DEF Tables, Epochs, Outbox, Locked, Own, NoJob, IdleSyncer
<1>4. Sequences /\ UniqueStamps /\ OneContribution
  BY <1>1 DEF Sequences, UniqueStamps, OneContribution, Once
<1>5. Coherence /\ RepairProgress /\ PillsWait
  BY DEF Coherence, RepairProgress, PillsWait, NoJob, IdleSyncer
<1> QED BY <1>2, <1>3, <1>4, <1>5 DEF IndInv, CoreInv

LEMMA CoreStep == ASSUME CoreInv, [Next]_vars PROVE CoreInv'
BY TypeStep, TablesStep, EpochsStep, StampsStep, ContributionStep, CoherenceStep, RepairStep,
   PillsStep
   DEF CoreInv

\* The inductive invariant holds in every state, under every interleaving of
\* deltas, requests, agents, failing statements and kills.
THEOREM Invariance == Spec => []IndInv
<1>1. Init => IndInv
  BY InitInv
<1>2. IndInv /\ [Next]_vars => IndInv'
  BY CoreStep, OutboxStep DEF IndInv
<1> QED BY <1>1, <1>2, PTL DEF Spec

\* Every variable keeps its type.
THEOREM TypeCorrect == Spec => []TypeOK
<1>1. IndInv => TypeOK
  BY DEF IndInv, CoreInv
<1> QED BY <1>1, Invariance, PTL

\* No acknowledged operation is lost: Durable for any number of nodes,
\* operations, faults, requests and restarts, with either backend.
THEOREM NothingLost == Spec => []Durable
<1>1. IndInv => Durable
  BY DEF IndInv, CoreInv, Outbox, Durable, TypeOK, StorageTypeOK, Issued
<1> QED BY <1>1, Invariance, PTL

\* No operation is counted twice, nor by two nodes: README I1.
THEOREM CountedOnce == Spec => []OneContribution
<1>1. IndInv => OneContribution
  BY DEF IndInv, CoreInv
<1> QED BY <1>1, Invariance, PTL

\* (node, epoch, sequence) identifies an operation across crashes and restarts.
THEOREM StampsAreUnique == Spec => []UniqueStamps
<1>1. IndInv => UniqueStamps
  BY DEF IndInv, CoreInv
<1> QED BY <1>1, Invariance, PTL

\* A live node at rest has in memory exactly what is in its table.
THEOREM MemoryAgrees == Spec => []CoherentAtRest
<1>1. IndInv => CoherentAtRest
  BY DEF IndInv, CoreInv, Coherence, CoherentAtRest
<1> QED BY <1>1, Invariance, PTL

\* A reconciliation leaves both sides with what either had when it was read.
THEOREM RepairIsComplete == Spec => []RepairComplete
<1>1. IndInv => RepairComplete
  BY DEF IndInv, CoreInv, RepairProgress, RepairComplete
<1> QED BY <1>1, Invariance, PTL

\* A dead node comes back in an epoch that is recorded and unused: README G4.
THEOREM ComesBackFresh == Spec => FreshIncarnation
<1> DEFINE Fresh == \A n \in Nodes : ~alive[n] /\ alive'[n] =>
                       /\ recorded'[n] = epoch'[n]
                       /\ \A u \in Issued : info[u].node = n => info[u].epoch < epoch'[n]
<1>1. ASSUME IndInv, [Next]_vars PROVE [Fresh]_vars
  <2> SUFFICES ASSUME NEW n \in Nodes, ~alive[n], alive'[n]
               PROVE  /\ recorded'[n] = epoch'[n]
                      /\ \A u \in Issued : info[u].node = n => info[u].epoch < epoch'[n]
    OBVIOUS
  <2>0. TypeOK /\ Epochs
    BY <1>1 DEF IndInv, CoreInv
  <2>1. CASE CrashRevive
    <3>1. UNCHANGED <<recorded, epoch>> /\ alive' \in {alive, [alive EXCEPT ![job.node] = TRUE]}
      BY <2>1 DEF CrashRevive
    <3>2. n = job.node
      BY <2>0, <3>1 DEF TypeOK, NodeTypeOK
    <3> QED BY <2>0, <2>1, <3>1, <3>2 DEF CrashRevive, Epochs, Own
  <2>2. CASE Restart
    <3>1. epoch'[n] = recorded[n] + 1 /\ recorded'[n] = recorded[n] + 1
      BY <2>2 DEF Restart, NewNodes
    <3>2. \A u \in Issued : info[u].epoch \in Nat /\ info[u].epoch <= recorded[info[u].node]
      BY <2>0 DEF TypeOK, StorageTypeOK, Operation, Issued, Epochs
    <3> QED BY <2>0, <3>1, <3>2 DEF TypeOK, StorageTypeOK
  <2>3. CASE CrashIncrementEpoch
    BY <2>0, <2>3 DEF CrashIncrementEpoch, TypeOK, NodeTypeOK
  <2>4. CASE ~CrashRevive /\ ~Restart /\ ~CrashIncrementEpoch
    BY <1>1, <2>4, NodeFrame
  <2> QED BY <2>1, <2>2, <2>3, <2>4
<1> QED BY <1>1, Invariance, PTL DEF Spec, FreshIncarnation
=============================================================================
