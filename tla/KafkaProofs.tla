---------------------------- MODULE KafkaProofs ----------------------------
(***************************************************************************)
(* Proofs about module KafkaPipeline, for every value of its constants.    *)
(***************************************************************************)
EXTENDS LedgerProofs, KafkaPipeline, FiniteSetTheorems

USE DEF Works, Fails, InsertOperation

---------------------------------------------------------------------------
(* Steps that are the same with and without Kafka.                         *)

Shared == Apply \/ Request \/ RunJob \/ RunReconciler \/ RunSyncerAround

LEMMA SharedStep == ASSUME Shared PROVE Next /\ UNCHANGED restarts
BY DEF Shared, Next, Apply, Request, RunJob, RunReconciler, RunSyncerAround, RunSyncer, SyncStep

\* Failing statements are only ever counted.
LEMMA FaultsGrow ==
    ASSUME TypeOK, [Next]_vars
    PROVE  faults' \in Nat /\ faults <= faults'
<1>1. faults \in Nat
  BY DEF TypeOK, StorageTypeOK
<1> DEFINE Grown == faults' \in {faults, faults + 1}
<1> USE DEF storageVars, CoordWorks, CoordFails
<1>2. ASSUME Apply \/ Request PROVE Grown
  BY <1>2 DEF Apply, ApplyDelta, Request, CrashSelect, ReconcileReadNode, RebuildReadCoord,
              LateReplayBegin
<1>3. ASSUME RunJob PROVE Grown
  <2>1. ASSUME CrashDelete \/ CrashIncrementEpoch \/ CrashRevive PROVE Grown
    BY <2>1 DEF CrashDelete, CrashIncrementEpoch, CrashRevive
  <2>2. ASSUME ReconcileReadCoord \/ ReconcileDetect \/ ReconcileReload PROVE Grown
    BY <2>2 DEF ReconcileReadCoord, ReconcileDetect, ReconcileReload, ReloadAndReturn
  <2>3. ASSUME NEW u \in Uuid,
               ReconcileSyncUp(u) \/ ReconcileReplay(u) \/ RebuildReplay(u) \/ LateReplay(u)
        PROVE  Grown
    BY <2>3 DEF ReconcileSyncUp, ReconcileReplay, RebuildReplay, InsertIntoNode, LateReplay
  <2>4. ASSUME RebuildWipe \/ RebuildReload \/ LateReplayReload PROVE Grown
    BY <2>4 DEF RebuildWipe, RebuildReload, ReloadAndReturn, LateReplayReload
  <2> QED BY <1>3, <2>1, <2>2, <2>3, <2>4 DEF RunJob, JobStep
<1>4. ASSUME RunSyncer PROVE Grown
  BY <1>4 DEF RunSyncer, SyncTick, SyncStep, SyncFetch, SyncWrite, SyncWriteFailed, SyncMark,
              SyncFetchPills, SyncDeadLetter, SyncDeadLetterFailed, SyncNodeDone, SyncReturn
<1>5. ASSUME RunReconciler PROVE Grown
  BY <1>5 DEF RunReconciler, RecStep, RecReadNaive, RecCompare, RecAllStates, RecReconcile,
              ReconcileReadNode, RecReturn
<1>6. ASSUME Restart \/ UNCHANGED vars PROVE Grown
  BY <1>6 DEF Restart, NewNodes, vars
<1> QED BY <1>1, <1>2, <1>3, <1>4, <1>5, <1>6 DEF Next

\* A step of the syncer changes its state, a restart is neither a delta nor a
\* step of the syncer.
LEMMA SyncMoves == ASSUME TypeOK, RunSyncer PROVE sync' # sync
<1> USE DEF TypeOK, SyncTypeOK
<1>0. sync \in Syncer
  OBVIOUS
<1>1. ASSUME NEW u \in Uuid, SyncWrite(u) \/ SyncWriteFailed(u) PROVE sync' # sync
  BY <1>1 DEF SyncWrite, SyncWriteFailed, NextOp, Syncer
<1>2. ASSUME NEW u \in Uuid, SyncDeadLetter(u) \/ SyncDeadLetterFailed(u) PROVE sync' # sync
  BY <1>2 DEF SyncDeadLetter, SyncDeadLetterFailed, Syncer
<1>3. ASSUME NEW n \in Nodes, SyncFetch(n) PROVE sync' # sync
  BY <1>3 DEF SyncFetch, Syncer
<1>4. ASSUME SyncTick \/ SyncMark \/ SyncNodeDone \/ SyncFetchPills \/ SyncReturn
      PROVE sync'.pc # sync.pc
  <2>1. ASSUME SyncTick PROVE sync'.pc = "nodes" /\ sync.pc = "idle"
    BY <2>1 DEF SyncTick, IdleSyncer, Syncer
  <2>2. ASSUME SyncMark PROVE sync'.pc = "write" /\ sync.pc = "mark"
    BY <1>0, <2>2 DEF SyncMark, NextOp, Syncer
  <2>3. ASSUME SyncNodeDone PROVE sync'.pc = "nodes" /\ sync.pc = "pills"
    BY <1>0, <2>3 DEF SyncNodeDone, NextNode, Syncer
  <2>4. ASSUME SyncFetchPills PROVE sync'.pc \in {"nodes", "pills"} /\ sync.pc = "write"
    <3>1. CASE sync' = [sync EXCEPT !.pc = "pills", !.batch = GetPoisonPillOps(sync.node)]
      BY <1>0, <2>4, <3>1 DEF SyncFetchPills, Syncer
    <3>2. CASE NextNode
      BY <1>0, <2>4, <3>2 DEF SyncFetchPills, NextNode, Syncer
    <3> QED BY <2>4, <3>1, <3>2 DEF SyncFetchPills
  <2>5. ASSUME SyncReturn PROVE sync'.pc = "idle" /\ sync.pc = "nodes"
    BY <2>5 DEF SyncReturn, IdleSyncer
  <2> QED BY <1>4, <2>1, <2>2, <2>3, <2>4, <2>5
<1> QED BY <1>1, <1>2, <1>3, <1>4 DEF RunSyncer, SyncStep

LEMMA RestartApart == ASSUME TypeOK, Restart PROVE ~Apply /\ ~RunSyncer
BY DEF TypeOK, Restart, Apply, RunSyncer

---------------------------------------------------------------------------
(* The invariant of CounterGhost without its outbox part.                  *)

LEMMA PublisherCore == ASSUME CoreInv, RunPublisher PROVE CoreInv'
<1> PICK u \in Uuid : SyncPublish(u) \/ SyncPublishFailed(u)
  BY DEF RunPublisher
<1>0. TypeOK /\ Tables /\ StorageTypeOK
  BY DEF CoreInv, TypeOK
<1>1. /\ UNCHANGED <<info, nodeDB, outbox, recorded, coord, dlq, nodeVars, simVars, rec,
                     calls, restarts>>
      /\ faults' \in {faults, faults + 1}
      /\ attempts' \in {attempts, [attempts EXCEPT ![u] = @ + 1]}
  BY DEF RunPublisher, SyncPublish, SyncPublishFailed, MarkOutboxFailed, storageVars
<1>2. sync' \in Syncer /\ sync'.pc \in {"write", "mark"} /\ sync'.batch \subseteq sync.batch
  BY <1>0 DEF SyncPublish, SyncPublishFailed, NextOp, TypeOK, SyncTypeOK, Syncer
<1>3. TypeOK'
  <2>1. attempts' \in [Uuid -> Nat]
    BY <1>0, <1>1 DEF StorageTypeOK
  <2> QED BY <1>0, <1>1, <1>2, <2>1
          DEF TypeOK, StorageTypeOK, NodeTypeOK, SimTypeOK, SyncTypeOK, RecTypeOK, nodeVars, simVars
<1>4. Tables'
  BY <1>0, <1>1, <1>2 DEF Tables, Own, Issued, Locked, simVars
<1>5. Epochs' /\ Sequences' /\ UniqueStamps' /\ OneContribution'
  BY <1>1 DEF CoreInv, Epochs, Sequences, UniqueStamps, OneContribution, Own, Issued, At,
              nodeVars, simVars
<1>6. Coherence' /\ RepairProgress'
  BY <1>1 DEF CoreInv, Coherence, RepairProgress, At, nodeVars, simVars
<1>7. PillsWait'
  BY <1>2 DEF PillsWait
<1> QED BY <1>3, <1>4, <1>5, <1>6, <1>7 DEF CoreInv

LEMMA ConsumerCore == ASSUME PipelineInv, RunConsumer PROVE CoreInv'
<1>1. ASSUME NEW p \in Partitions, ReadMessage(p) PROVE CoreInv'
  <2>1. UNCHANGED vars
    BY <1>1 DEF RunConsumer, ReadMessage, vars
  <2> QED BY <2>1, CoreStep DEF PipelineInv
<1>2. CASE InsertMessage
  <2>0. CoreInv /\ TypeOK /\ Tables
    BY DEF PipelineInv, CoreInv
  <2>1. hand \in Issued
    BY <1>2 DEF InsertMessage, PipelineInv
  <2>2. /\ UNCHANGED <<info, nodeDB, outbox, attempts, recorded, dlq, nodeVars, simVars,
                       sync, rec, calls, restarts>>
        /\ faults' \in {faults, faults + 1}
        /\ coord' \in {coord, coord \cup {hand}}
    BY <1>2 DEF InsertMessage, RunConsumer
  <2>3. TypeOK'
    BY <2>0, <2>1, <2>2
       DEF TypeOK, StorageTypeOK, NodeTypeOK, SimTypeOK, SyncTypeOK, RecTypeOK, nodeVars,
           simVars, Issued
  <2>4. Tables'
    BY <2>0, <2>1, <2>2 DEF Tables, Own, Issued, Locked, simVars
  <2>5. Epochs' /\ Sequences' /\ UniqueStamps' /\ OneContribution'
    BY <2>0, <2>2 DEF CoreInv, Epochs, Sequences, UniqueStamps, OneContribution, Own, Issued,
                      At, nodeVars, simVars
  <2>6. Coherence' /\ PillsWait'
    BY <2>0, <2>2 DEF CoreInv, Coherence, PillsWait, At, nodeVars, simVars
  <2>7. RepairProgress'
    BY <2>0, <2>2 DEF CoreInv, RepairProgress, At, simVars
  <2> QED BY <2>3, <2>4, <2>5, <2>6, <2>7 DEF CoreInv
<1> QED BY <1>1, <1>2 DEF RunConsumer

LEMMA PipelineCore == ASSUME PipelineInv, [PipelineNext]_pipelineVars PROVE CoreInv'
<1>0. CoreInv
  BY DEF PipelineInv
<1>1. CASE Shared
  BY <1>0, <1>1, SharedStep, CoreStep
<1>2. CASE RunPublisher
  BY <1>0, <1>2, PublisherCore
<1>3. CASE RunConsumer
  BY <1>3, ConsumerCore
<1>4. CASE RunCommits
  BY <1>0, <1>4, CoreStep DEF RunCommits, CommitOffsets, vars
<1>5. CASE RestartPipeline
  BY <1>0, <1>5, CoreStep DEF RestartPipeline, Next
<1>6. CASE UNCHANGED pipelineVars
  BY <1>0, <1>6, CoreStep DEF pipelineVars
<1> QED BY <1>1, <1>2, <1>3, <1>4, <1>5, <1>6 DEF PipelineNext, Shared

---------------------------------------------------------------------------
(* The topic.                                                              *)

\* A published operation is unread until the reader comes to it.
LEMMA AppendFacts ==
    ASSUME KafkaTypeOK, CommitsFollow, NEW p \in Partitions, NEW u \in Uuid, Append1(p, u),
           UNCHANGED position
    PROVE  /\ topic' \in [Partitions -> Seq(Uuid)]
           /\ \A q \in Partitions : Len(topic[q]) <= Len(topic'[q])
           /\ Published' = Published \cup {u}
           /\ Unread \subseteq Unread' /\ u \in Unread'
<1> USE DEF KafkaTypeOK, CommitsFollow
<1>1. topic' = [topic EXCEPT ![p] = Append(topic[p], u)]
  BY DEF Append1
<1>2. topic' \in [Partitions -> Seq(Uuid)]
  BY <1>1
<1>3. \A q \in Partitions \ {p} : topic'[q] = topic[q]
  BY <1>1
<1>4. /\ Len(topic'[p]) = Len(topic[p]) + 1
      /\ \A i \in 1 .. Len(topic[p]) : topic'[p][i] = topic[p][i]
      /\ topic'[p][Len(topic[p]) + 1] = u
      /\ topic[p] \in Seq(Uuid) /\ topic'[p] \in Seq(Uuid)
  BY <1>1
<1>5. Published \subseteq Published'
  <2>1. ASSUME NEW q \in Partitions, NEW i \in 1 .. Len(topic[q])
        PROVE  i \in 1 .. Len(topic'[q]) /\ topic'[q][i] = topic[q][i]
    <3>1. CASE q = p
      BY <1>4, <2>1, <3>1
    <3> QED BY <1>3, <2>1, <3>1
  <2> QED BY <2>1 DEF Published
<1>6. Published' = Published \cup {u}
  <2>1. ASSUME NEW q \in Partitions, NEW i \in 1 .. Len(topic'[q]), topic'[q][i] # u
        PROVE  i \in 1 .. Len(topic[q]) /\ topic'[q][i] = topic[q][i]
    <3>1. CASE q = p
      <4>1. i # Len(topic[p]) + 1 /\ i \in 1 .. Len(topic[p]) + 1 /\ Len(topic[p]) \in Nat
        BY <1>4, <2>1, <3>1
      <4>2. i \in 1 .. Len(topic[p])
        BY <4>1
      <4> QED BY <1>4, <3>1, <4>2
    <3> QED BY <1>3, <2>1, <3>1
  <2>2. Published' \subseteq Published \cup {u}
    BY <2>1 DEF Published
  <2>3. u \in Published'
    <3>1. Len(topic[p]) + 1 \in 1 .. Len(topic'[p])
      BY <1>4
    <3> QED BY <1>4, <3>1 DEF Published
  <2> QED BY <1>5, <2>2, <2>3
<1>7. ASSUME NEW q \in Partitions, NEW i \in position[q] + 1 .. Len(topic[q])
      PROVE  i \in position[q] + 1 .. Len(topic'[q]) /\ topic'[q][i] = topic[q][i]
  <2>1. position[q] \in Nat /\ Len(topic[q]) \in Nat
    OBVIOUS
  <2>2. CASE q = p
    <3>1. i \in 1 .. Len(topic[p])
      BY <1>7, <2>1, <2>2
    <3>2. i \in position[p] + 1 .. Len(topic[p]) + 1
      BY <1>7, <2>1, <2>2
    <3> QED BY <1>4, <2>2, <3>1, <3>2
  <2>3. CASE q # p
    BY <1>3, <1>7, <2>3
  <2> QED BY <2>2, <2>3
<1>8. Unread \subseteq Unread'
  <2> SUFFICES ASSUME NEW v \in Unread PROVE v \in Unread'
    OBVIOUS
  <2> PICK q \in Partitions : \E i \in position[q] + 1 .. Len(topic[q]) : topic[q][i] = v
    BY DEF Unread
  <2> PICK i \in position[q] + 1 .. Len(topic[q]) : topic[q][i] = v
    OBVIOUS
  <2>1. i \in position'[q] + 1 .. Len(topic'[q]) /\ topic'[q][i] = v
    BY <1>7
  <2> QED BY <2>1 DEF Unread
<1>9. u \in Unread'
  <2>0. position[p] \in Nat /\ Len(topic[p]) \in Nat /\ position[p] <= Len(topic[p])
    OBVIOUS
  <2>1. Len(topic[p]) + 1 \in position[p] + 1 .. Len(topic'[p])
    BY <1>4, <2>0
  <2> QED BY <1>4, <2>1 DEF Unread
<1>10. \A q \in Partitions : Len(topic[q]) <= Len(topic'[q])
  <2> TAKE q \in Partitions
  <2>1. Len(topic[q]) \in Nat
    OBVIOUS
  <2>2. CASE q = p
    BY <1>4, <2>1, <2>2
  <2>3. CASE q # p
    BY <1>3, <2>1, <2>3
  <2> QED BY <2>2, <2>3
<1> QED BY <1>2, <1>6, <1>8, <1>9, <1>10

\* What the reader returns is the first unread message of a partition.
LEMMA ReadFacts ==
    ASSUME KafkaTypeOK, NEW p \in Partitions, ReadMessage(p)
    PROVE  /\ hand' \in Uuid /\ hand' \in Published
           /\ Published' = Published
           /\ Unread \subseteq Unread' \cup {hand'}
<1> USE DEF KafkaTypeOK
<1>1. /\ topic' = topic
      /\ position' = [position EXCEPT ![p] = position[p] + 1]
      /\ position[p] < Len(topic[p])
      /\ hand' = topic[p][position[p] + 1]
  BY DEF ReadMessage
<1>2. position[p] + 1 \in 1 .. Len(topic[p]) /\ topic[p] \in Seq(Uuid)
  BY <1>1
<1>3. hand' \in Uuid /\ hand' \in Published
  BY <1>1, <1>2 DEF Published
<1>4. ASSUME NEW q \in Partitions, NEW i \in position[q] + 1 .. Len(topic[q]),
             topic[q][i] # hand'
      PROVE  i \in position'[q] + 1 .. Len(topic'[q])
  <2>1. CASE q # p
    BY <1>1, <2>1
  <2>2. CASE q = p
    <3>1. i # position[p] + 1 /\ position'[p] = position[p] + 1
      BY <1>1, <1>4, <2>2
    <3> QED BY <1>1, <2>2, <3>1
  <2> QED BY <2>1, <2>2
<1>5. Unread \subseteq Unread' \cup {hand'}
  BY <1>1, <1>4 DEF Unread
<1> QED BY <1>1, <1>3, <1>5 DEF Published

LEMMA TopicStep ==
    ASSUME PipelineInv, [PipelineNext]_pipelineVars
    PROVE  /\ KafkaTypeOK'
           /\ CommitsFollow'
           /\ Published \subseteq Published'
           /\ Published' \subseteq Issued'
           /\ hand' # "none" => hand' \in Published'
<1>0. KafkaTypeOK /\ CommitsFollow /\ TypeOK /\ Tables /\ Published \subseteq Issued
  BY DEF PipelineInv, CoreInv
<1>1. hand # "none" => hand \in Published
  BY DEF PipelineInv
<1>2. CASE UNCHANGED kafkaVars /\ [Next]_vars
  <2>1. Issued \subseteq Issued'
    BY <1>0, <1>2, OwnKept
  <2> QED BY <1>0, <1>1, <1>2, <2>1 DEF kafkaVars, KafkaTypeOK, CommitsFollow, Published
<1>3. CASE RunPublisher
  <2> PICK u \in Uuid : SyncPublish(u) \/ SyncPublishFailed(u)
    BY <1>3 DEF RunPublisher
  <2>1. Issued' = Issued /\ UNCHANGED <<position, committed, hand>> /\ u \in Issued
    BY <1>0 DEF SyncPublish, SyncPublishFailed, Issued, storageVars, Tables
  <2>2. CASE topic' = topic
    BY <1>0, <1>1, <2>1, <2>2 DEF KafkaTypeOK, CommitsFollow, Published
  <2>3. ASSUME NEW p \in Partitions, Append1(p, u)
        PROVE  /\ KafkaTypeOK' /\ CommitsFollow' /\ Published \subseteq Published'
               /\ Published' \subseteq Issued' /\ (hand' # "none" => hand' \in Published')
    <3>1. /\ topic' \in [Partitions -> Seq(Uuid)]
          /\ \A q \in Partitions : Len(topic[q]) <= Len(topic'[q])
          /\ Published' = Published \cup {u}
      BY <1>0, <2>1, <2>3, AppendFacts
    <3>2. KafkaTypeOK' /\ CommitsFollow'
      BY <1>0, <2>1, <3>1 DEF KafkaTypeOK, CommitsFollow
    <3> QED BY <1>0, <1>1, <2>1, <3>1, <3>2
  <2> QED BY <2>2, <2>3 DEF SyncPublish, SyncPublishFailed
<1>4. CASE RunConsumer
  <2>1. Issued' = Issued
    BY <1>4 DEF RunConsumer, InsertMessage, ReadMessage, Issued, storageVars
  <2>2. CASE InsertMessage
    BY <1>0, <2>1, <2>2 DEF InsertMessage, KafkaTypeOK, CommitsFollow, Published
  <2>3. ASSUME NEW p \in Partitions, ReadMessage(p)
        PROVE  /\ KafkaTypeOK' /\ CommitsFollow' /\ Published \subseteq Published'
               /\ Published' \subseteq Issued' /\ (hand' # "none" => hand' \in Published')
    <3>1. hand' \in Uuid /\ hand' \in Published /\ Published' = Published
      BY <1>0, <2>3, ReadFacts
    <3>2. UNCHANGED <<topic, committed>> /\ position' = [position EXCEPT ![p] = position[p] + 1]
          /\ position[p] < Len(topic[p])
      BY <2>3 DEF ReadMessage
    <3>3. KafkaTypeOK' /\ CommitsFollow'
      BY <1>0, <3>1, <3>2 DEF KafkaTypeOK, CommitsFollow
    <3> QED BY <1>0, <2>1, <3>1, <3>3
  <2> QED BY <1>4, <2>2, <2>3 DEF RunConsumer
<1>5. CASE RunCommits
  <2> PICK p \in Partitions : CommitOffsets(p)
    BY <1>5 DEF RunCommits
  <2>1. UNCHANGED <<info, topic, position, hand>>
        /\ committed' = [committed EXCEPT ![p] = position[p]]
    BY DEF CommitOffsets, storageVars
  <2> QED BY <1>0, <1>1, <2>1 DEF KafkaTypeOK, CommitsFollow, Published, Issued
<1>6. CASE RestartPipeline
  <2>1. UNCHANGED <<info, topic, committed>> /\ position' = committed /\ hand' = "none"
    BY <1>6 DEF RestartPipeline, Restart, NewNodes
  <2>2. \A p \in Partitions : Len(topic[p]) \in Nat
    BY <1>0 DEF KafkaTypeOK
  <2> QED BY <1>0, <2>1, <2>2 DEF KafkaTypeOK, CommitsFollow, Published, Issued
<1>7. CASE Shared /\ UNCHANGED kafkaVars
  BY <1>2, <1>7, SharedStep
<1>8. CASE UNCHANGED pipelineVars
  BY <1>2, <1>8 DEF pipelineVars
<1> QED BY <1>3, <1>4, <1>5, <1>6, <1>7, <1>8 DEF PipelineNext, Shared, RunSyncerAround

---------------------------------------------------------------------------
(* The outbox and the topic.                                               *)

LEMMA TopicOutboxStep ==
    ASSUME PipelineInv, [PipelineNext]_pipelineVars
    PROVE  TopicOutbox'
<1> USE DEF TypeOK, StorageTypeOK, SyncTypeOK, TopicOutbox, Issued, storageVars
<1>0. TypeOK /\ TopicOutbox /\ Published \subseteq Issued
  BY DEF PipelineInv, CoreInv
<1>1. Published \subseteq Published'
  BY TopicStep
<1>2. CASE Apply
  <2> PICK n \in Nodes, u \in Uuid, a \in Amounts : ApplyDelta(n, u, a)
    BY <1>2 DEF Apply
  <2> QED BY <1>0, <1>1, <1>2 DEF Apply, ApplyDelta
<1>3. CASE (Request \/ RunJob \/ RunReconciler) /\ ~Apply
  <2>1. UNCHANGED sync /\ ~RunSyncer
    BY <1>0, <1>3, SyncMoves DEF Request, RunJob, RunReconciler
  <2>2. UNCHANGED <<info, outbox, sync>> /\ dlq \subseteq dlq'
    BY <1>3, <2>1, Frame DEF Next
  <2> QED BY <1>0, <1>1, <2>2
<1>4. CASE RunPublisher
  <2> PICK u \in Uuid : SyncPublish(u) \/ SyncPublishFailed(u)
    BY <1>4 DEF RunPublisher
  <2>1. UNCHANGED <<info, outbox, dlq>>
    BY DEF SyncPublish, SyncPublishFailed
  <2>2. CASE SyncPublish(u)
    <3> PICK p \in Partitions : Append1(p, u)
      BY <2>2 DEF SyncPublish
    <3>1. u \in Published'
      BY <2>2, AppendFacts DEF SyncPublish, PipelineInv
    <3>2. sync'.op = u
      BY <1>0, <2>2 DEF SyncPublish, Syncer
    <3> QED BY <1>0, <1>1, <2>1, <3>1, <3>2
  <2>3. CASE SyncPublishFailed(u)
    <3>1. sync'.pc = "write"
      BY <1>0, <2>3 DEF SyncPublishFailed, NextOp, Syncer
    <3> QED BY <1>0, <1>1, <2>1, <3>1
  <2> QED BY <2>2, <2>3
<1>5. CASE RunSyncerAround
  <2>1. CASE SyncMark
    <3>1. /\ UNCHANGED <<info, dlq>>
          /\ outbox' \in {outbox, [outbox EXCEPT ![sync.op] = "synced"]}
          /\ sync.op \in Published
      BY <1>0, <2>1 DEF SyncMark, MarkOutboxSynced
    <3>2. sync'.pc = "write"
      BY <1>0, <2>1 DEF SyncMark, NextOp, Syncer
    <3> QED BY <1>0, <1>1, <3>1, <3>2
  <2>2. ASSUME NEW u \in Uuid, SyncDeadLetter(u) PROVE TopicOutbox'
    <3>1. /\ UNCHANGED info
          /\ outbox' \in {outbox, [outbox EXCEPT ![u] = "absent"]}
          /\ dlq' = dlq \cup {u}
      BY <2>2 DEF SyncDeadLetter, DeleteOutboxEntry, InsertDLQEntry
    <3>2. sync'.pc = "pills"
      BY <1>0, <2>2 DEF SyncDeadLetter, Syncer
    <3> QED BY <1>0, <1>1, <3>1, <3>2
  <2>3. ASSUME \/ \E n \in Nodes : SyncFetch(n)
               \/ \E u \in Uuid : SyncDeadLetterFailed(u)
        PROVE  UNCHANGED <<info, outbox, dlq>> /\ sync'.pc # "mark"
    BY <1>0, <2>3 DEF SyncFetch, SyncDeadLetterFailed, Syncer
  <2>4. ASSUME SyncTick \/ SyncNodeDone \/ SyncReturn
        PROVE  UNCHANGED <<info, outbox, dlq>> /\ sync'.pc # "mark"
    <3>1. UNCHANGED <<info, outbox, dlq>>
      BY <2>4 DEF SyncTick, SyncNodeDone, SyncReturn
    <3>2. ASSUME SyncTick \/ SyncNodeDone PROVE sync'.pc = "nodes"
      BY <1>0, <3>2 DEF SyncTick, SyncNodeDone, NextNode, Syncer
    <3>3. ASSUME SyncReturn PROVE sync'.pc = "idle"
      BY <3>3 DEF SyncReturn, IdleSyncer
    <3> QED BY <2>4, <3>1, <3>2, <3>3
  <2>5. ASSUME SyncFetchPills PROVE UNCHANGED <<info, outbox, dlq>> /\ sync'.pc # "mark"
    BY <1>0, <2>5 DEF SyncFetchPills, NextNode, Syncer
  <2>6. ASSUME UNCHANGED <<info, outbox, dlq>> /\ sync'.pc # "mark" PROVE TopicOutbox'
    BY <1>0, <1>1, <2>6
  <2> QED BY <1>5, <2>1, <2>2, <2>3, <2>4, <2>5, <2>6 DEF RunSyncerAround
<1>6. CASE RunConsumer \/ RunCommits
  <2>1. UNCHANGED <<info, outbox, dlq, sync>>
    BY <1>6 DEF RunConsumer, RunCommits, InsertMessage, ReadMessage, CommitOffsets
  <2> QED BY <1>0, <1>1, <2>1
<1>7. CASE RestartPipeline
  BY <1>0, <1>1, <1>7 DEF RestartPipeline, Restart, NewNodes, IdleSyncer
<1>8. CASE UNCHANGED pipelineVars
  BY <1>0, <1>1, <1>8 DEF pipelineVars, vars
<1> QED BY <1>2, <1>3, <1>4, <1>5, <1>6, <1>7, <1>8 DEF PipelineNext

---------------------------------------------------------------------------
(* Losses.                                                                 *)

\* A set that grows by one element at most.
LEMMA OneMore ==
    ASSUME NEW A, NEW B, NEW x, IsFiniteSet(A)
    PROVE  /\ B \subseteq A => IsFiniteSet(B) /\ Cardinality(B) <= Cardinality(A)
           /\ B \subseteq A \cup {x} => IsFiniteSet(B) /\ Cardinality(B) <= Cardinality(A) + 1
<1>1. B \subseteq A => IsFiniteSet(B) /\ Cardinality(B) <= Cardinality(A)
  BY FS_Subset
<1>2. /\ IsFiniteSet(A \cup {x})
      /\ Cardinality(A \cup {x}) \in Nat /\ Cardinality(A) \in Nat
      /\ Cardinality(A \cup {x}) \in {Cardinality(A), Cardinality(A) + 1}
  BY FS_AddElement, FS_CardinalityType
<1>3. B \subseteq A \cup {x} =>
         IsFiniteSet(B) /\ Cardinality(B) \in Nat /\ Cardinality(B) <= Cardinality(A \cup {x})
  BY <1>2, FS_Subset, FS_CardinalityType
<1> QED BY <1>1, <1>2, <1>3

\* Only a kill and a failing insert lose the message in hand.
LEMMA LossStep ==
    ASSUME PipelineInv, [PipelineNext]_pipelineVars
    PROVE  \/ /\ Lost' \subseteq Lost
              /\ faults <= faults' /\ restarts <= restarts'
           \/ /\ Lost' \subseteq Lost \cup {hand}
              /\ \/ faults' = faults + 1 /\ restarts' = restarts
                 \/ faults' = faults /\ restarts' = restarts + 1
<1>0. /\ KafkaTypeOK /\ CommitsFollow /\ TypeOK /\ Published \subseteq Issued
      /\ faults \in Nat /\ restarts \in Nat
  BY DEF PipelineInv, CoreInv, TypeOK, StorageTypeOK
<1>1. CASE UNCHANGED kafkaVars /\ [Next]_vars /\ UNCHANGED restarts
  <2>1. coord \subseteq coord' /\ faults <= faults'
    BY <1>0, <1>1, Frame, FaultsGrow
  <2> QED BY <1>0, <1>1, <2>1 DEF Lost, Published, Unread, kafkaVars
<1>2. CASE RunPublisher
  <2> PICK u \in Uuid : SyncPublish(u) \/ SyncPublishFailed(u)
    BY <1>2 DEF RunPublisher
  <2>1. /\ UNCHANGED <<coord, position, hand, restarts>>
        /\ faults' \in {faults, faults + 1}
    BY <1>2 DEF RunPublisher, SyncPublish, SyncPublishFailed, storageVars
  <2>2. CASE topic' = topic
    BY <1>0, <2>1, <2>2 DEF Lost, Published, Unread
  <2>3. ASSUME NEW p \in Partitions, Append1(p, u) PROVE Lost' \subseteq Lost
    <3>1. Published' = Published \cup {u} /\ Unread \subseteq Unread' /\ u \in Unread'
      BY <1>0, <2>1, <2>3, AppendFacts
    <3> QED BY <2>1, <3>1 DEF Lost
  <2> QED BY <1>0, <2>1, <2>2, <2>3 DEF SyncPublish, SyncPublishFailed
<1>3. CASE RunConsumer
  <2>0. restarts' = restarts
    BY <1>3 DEF RunConsumer
  <2>1. CASE InsertMessage
    <3>1. UNCHANGED <<Published, Unread>> /\ hand' = "none"
      BY <2>1 DEF InsertMessage, Published, Unread
    <3>2. CASE faults' = faults /\ coord' = coord \cup {hand}
      BY <1>0, <2>0, <3>1, <3>2 DEF Lost
    <3>3. CASE faults' = faults + 1 /\ coord' = coord
      BY <2>0, <3>1, <3>3 DEF Lost
    <3> QED BY <2>1, <3>2, <3>3 DEF InsertMessage
  <2>2. ASSUME NEW p \in Partitions, ReadMessage(p)
        PROVE  Lost' \subseteq Lost /\ faults' = faults
    <3>1. hand = "none" /\ UNCHANGED <<coord, faults>>
      BY <2>2 DEF ReadMessage, storageVars
    <3>2. Published' = Published /\ Unread \subseteq Unread' \cup {hand'}
      BY <1>0, <2>2, ReadFacts
    <3>3. hand \notin Published
      BY <3>1, PipelineAssumption DEF Published
    <3> QED BY <3>1, <3>2, <3>3 DEF Lost
  <2> QED BY <1>0, <1>3, <2>0, <2>1, <2>2 DEF RunConsumer
<1>4. CASE RunCommits
  <2>1. UNCHANGED <<coord, faults, restarts, topic, position, hand>>
    BY <1>4 DEF RunCommits, CommitOffsets, storageVars
  <2> QED BY <1>0, <2>1 DEF Lost, Published, Unread
<1>5. CASE RestartPipeline
  <2>1. /\ UNCHANGED <<coord, faults, topic>>
        /\ restarts' = restarts + 1 /\ position' = committed
    BY <1>5 DEF RestartPipeline, Restart, NewNodes
  <2>2. Unread \subseteq Unread'
    <3> SUFFICES ASSUME NEW v \in Unread PROVE v \in Unread'
      OBVIOUS
    <3> PICK q \in Partitions : \E i \in position[q] + 1 .. Len(topic[q]) : topic[q][i] = v
      BY DEF Unread
    <3> PICK i \in position[q] + 1 .. Len(topic[q]) : topic[q][i] = v
      OBVIOUS
    <3>1. committed[q] \in Nat /\ position[q] \in Nat /\ Len(topic[q]) \in Nat
          /\ committed[q] <= position[q]
      BY <1>0 DEF KafkaTypeOK, CommitsFollow
    <3>2. i \in position'[q] + 1 .. Len(topic'[q])
      BY <2>1, <3>1
    <3> QED BY <2>1, <3>2 DEF Unread
  <2>3. Published' = Published
    BY <2>1 DEF Published
  <2> QED BY <2>1, <2>2, <2>3 DEF Lost
<1>6. CASE Shared /\ UNCHANGED kafkaVars
  BY <1>1, <1>6, SharedStep
<1>7. CASE UNCHANGED pipelineVars
  BY <1>1, <1>7 DEF pipelineVars, vars
<1> QED BY <1>2, <1>3, <1>4, <1>5, <1>6, <1>7 DEF PipelineNext, Shared, RunSyncerAround

\* One more loss is paid for by one more failure.
LEMMA CountsAdd ==
    ASSUME NEW c \in Nat, NEW c2 \in Nat, NEW r \in Nat, NEW r2 \in Nat,
           NEW f \in Nat, NEW f2 \in Nat,
           c <= r + f, c2 <= c + 1, f2 + r2 = f + r + 1
    PROVE  c2 <= r2 + f2
  OBVIOUS

LEMMA BoundedLossStep ==
    ASSUME PipelineInv, [PipelineNext]_pipelineVars
    PROVE  IsFiniteSet(Lost)' /\ OneLossPerFailure'
<1>0. /\ IsFiniteSet(Lost) /\ Cardinality(Lost) <= restarts + faults
      /\ Cardinality(Lost) \in Nat /\ restarts \in Nat /\ faults \in Nat
  BY FS_CardinalityType DEF PipelineInv, OneLossPerFailure, CoreInv, TypeOK, StorageTypeOK
<1>1. restarts' \in Nat /\ faults' \in Nat
  BY PipelineCore DEF CoreInv, TypeOK, StorageTypeOK
<1>2. CASE Lost' \subseteq Lost /\ faults <= faults' /\ restarts <= restarts'
  <2>1. IsFiniteSet(Lost') /\ Cardinality(Lost') <= Cardinality(Lost) /\ Cardinality(Lost') \in Nat
    BY <1>0, <1>2, OneMore, FS_CardinalityType
  <2> QED BY <1>0, <1>1, <1>2, <2>1 DEF OneLossPerFailure
<1>3. CASE Lost' \subseteq Lost \cup {hand} /\ faults' + restarts' = faults + restarts + 1
  <2>1. /\ IsFiniteSet(Lost') /\ Cardinality(Lost') <= Cardinality(Lost) + 1
        /\ Cardinality(Lost') \in Nat
    BY <1>0, <1>3, OneMore, FS_CardinalityType
  <2>2. PICK c \in Nat : c = Cardinality(Lost)
    BY <1>0
  <2>3. PICK d \in Nat : d = Cardinality(Lost')
    BY <2>1
  <2>4. c <= restarts + faults /\ d <= c + 1 /\ faults' + restarts' = faults + restarts + 1
    BY <1>0, <1>3, <2>1, <2>2, <2>3
  <2>5. restarts \in Nat /\ faults \in Nat
    BY <1>0
  <2>6. d <= restarts' + faults'
    BY ONLY <1>1, <2>4, <2>5, c \in Nat, d \in Nat, CountsAdd
  <2> QED BY <2>1, <2>3, <2>6 DEF OneLossPerFailure
<1> QED BY <1>0, <1>2, <1>3, LossStep

---------------------------------------------------------------------------
(* Copies.                                                                 *)

\* Batches hold what waits in the outbox, until the syncer has marked it.
LEMMA BatchWaitsStep ==
    ASSUME PipelineInv, [PipelineNext]_pipelineVars
    PROVE  BatchWaits'
<1> USE DEF TypeOK, StorageTypeOK, SyncTypeOK
<1>0. TypeOK /\ BatchWaits /\ Tables
  BY DEF PipelineInv, CoreInv
<1>1. sync \in Syncer /\ sync.batch \subseteq Issued
  BY <1>0 DEF Tables
<1>2. CASE Apply
  <2>1. PICK n \in Nodes, u \in Uuid, a \in Amounts : ApplyDelta(n, u, a)
    BY <1>2 DEF Apply
  <2> QED BY <1>0, <1>2, <2>1 DEF Apply, ApplyDelta, BatchWaits
<1>3. CASE (Request \/ RunJob \/ RunReconciler) /\ ~Apply
  <2>1. UNCHANGED sync /\ ~RunSyncer
    BY <1>0, <1>3, SyncMoves DEF Request, RunJob, RunReconciler
  <2>2. UNCHANGED <<outbox, sync>>
    BY <1>3, <2>1, Frame DEF Next
  <2> QED BY <1>0, <2>2 DEF BatchWaits
<1>4. CASE RunPublisher
  <2>1. PICK u \in Uuid : SyncPublish(u) \/ SyncPublishFailed(u)
    BY <1>4 DEF RunPublisher
  <2>2. UNCHANGED outbox /\ sync.pc = "write" /\ u \in sync.batch
    BY <2>1 DEF SyncPublish, SyncPublishFailed, storageVars
  <2>3. /\ sync'.batch \subseteq sync.batch
        /\ sync'.pc = "mark" => sync'.op \in sync'.batch
    BY <1>1, <2>1, <2>2 DEF SyncPublish, SyncPublishFailed, NextOp, Syncer
  <2> QED BY <1>0, <2>2, <2>3 DEF BatchWaits
<1>5. CASE RunSyncerAround
  <2>1. ASSUME SyncMark PROVE BatchWaits'
    <3>1. sync'.pc = "write" /\ sync'.batch = sync.batch \ {sync.op} /\ sync.pc = "mark"
      BY <1>1, <2>1 DEF SyncMark, NextOp, Syncer
    <3>2. outbox' \in {outbox, [outbox EXCEPT ![sync.op] = "synced"]}
      BY <2>1 DEF SyncMark, MarkOutboxSynced
    <3>3. ASSUME NEW u \in sync'.batch PROVE outbox'[u] = "unsynced"
      <4>1. u \in sync.batch /\ u # sync.op
        BY <3>1, <3>3
      <4>2. outbox[u] = "unsynced" /\ u \in Uuid
        BY <1>0, <1>1, <3>1, <4>1 DEF BatchWaits, Issued
      <4> QED BY <1>0, <3>2, <4>1, <4>2
    <3> QED BY <3>1, <3>3 DEF BatchWaits
  <2>2. ASSUME NEW n \in Nodes, SyncFetch(n) PROVE BatchWaits'
    <3>1. outbox' = outbox
      BY <2>2 DEF SyncFetch
    <3>2. ASSUME NEW ops \in GetUnsyncedOutboxOps(n), NEW u \in ops PROVE outbox[u] = "unsynced"
      BY <3>2 DEF GetUnsyncedOutboxOps, kSubset, Pending, Unsynced
    <3>3. \/ sync'.pc = "nodes"
          \/ sync'.pc = "write" /\ sync'.batch \in GetUnsyncedOutboxOps(n)
      BY <1>1, <2>2 DEF SyncFetch, Syncer
    <3> QED BY <3>1, <3>2, <3>3 DEF BatchWaits
  <2>3. ASSUME NEW u \in Uuid, SyncDeadLetter(u) \/ SyncDeadLetterFailed(u)
        PROVE  sync'.pc = "pills"
    BY <1>1, <2>3 DEF SyncDeadLetter, SyncDeadLetterFailed, Syncer
  <2>4. ASSUME SyncTick \/ SyncNodeDone PROVE sync'.pc = "nodes"
    BY <1>1, <2>4 DEF SyncTick, SyncNodeDone, NextNode, Syncer
  <2>5. ASSUME SyncReturn PROVE sync'.pc = "idle"
    BY <2>5 DEF SyncReturn, IdleSyncer
  <2>6. ASSUME SyncFetchPills PROVE sync'.pc \in {"nodes", "pills"}
    BY <1>1, <2>6 DEF SyncFetchPills, NextNode, Syncer
  <2>7. ASSUME sync'.pc \in {"idle", "nodes", "pills"} PROVE BatchWaits'
    BY <2>7 DEF BatchWaits
  <2> QED BY <1>5, <2>1, <2>2, <2>3, <2>4, <2>5, <2>6, <2>7 DEF RunSyncerAround
<1>6. CASE RunConsumer \/ RunCommits
  <2>1. UNCHANGED <<outbox, sync>>
    BY <1>6 DEF RunConsumer, RunCommits, InsertMessage, ReadMessage, CommitOffsets, storageVars
  <2> QED BY <1>0, <2>1 DEF BatchWaits
<1>7. CASE RestartPipeline
  BY <1>7 DEF RestartPipeline, Restart, IdleSyncer, BatchWaits
<1>8. CASE UNCHANGED pipelineVars
  BY <1>0, <1>8 DEF pipelineVars, vars, BatchWaits, storageVars
<1> QED BY <1>2, <1>3, <1>4, <1>5, <1>6, <1>7, <1>8 DEF PipelineNext

\* A publish adds one message.
LEMMA MessageAdded ==
    ASSUME KafkaTypeOK, NEW p \in Partitions, NEW u \in Uuid, Append1(p, u)
    PROVE  /\ <<p, Len(topic[p]) + 1>> \notin Messages
           /\ Messages' = Messages \cup {<<p, Len(topic[p]) + 1>>}
<1>1. /\ Len(topic[p]) \in Nat
      /\ Len(topic'[p]) = Len(topic[p]) + 1
      /\ \A q \in Partitions \ {p} : topic'[q] = topic[q]
  BY DEF KafkaTypeOK, Append1
<1>2. 1 .. Len(topic'[p]) = (1 .. Len(topic[p])) \cup {Len(topic[p]) + 1}
  BY <1>1
<1>3. \A q, i : <<q, i>> \in Messages <=> q \in Partitions /\ i \in 1 .. Len(topic[q])
  BY DEF Messages
<1>4. \A q, i : <<q, i>> \in Messages' <=> q \in Partitions /\ i \in 1 .. Len(topic'[q])
  BY DEF Messages
<1>5. <<p, Len(topic[p]) + 1>> \notin Messages
  BY <1>1, <1>3
<1>6. ASSUME NEW m \in Messages \cup Messages' PROVE \E q, i : m = <<q, i>>
  BY <1>6 DEF Messages
<1>7. ASSUME NEW q, NEW i
      PROVE  <<q, i>> \in Messages' <=>
                <<q, i>> \in Messages \/ <<q, i>> = <<p, Len(topic[p]) + 1>>
  BY <1>1, <1>2, <1>3, <1>4
<1>8. Messages' = Messages \cup {<<p, Len(topic[p]) + 1>>}
  BY <1>6, <1>7
<1> QED BY <1>5, <1>8

\* A message more is an operation handed over, or has a failure of its own; an
\* operation is handed back to the outbox only by a failure.
LEMMA CopyStep ==
    ASSUME PipelineInv, [PipelineNext]_pipelineVars
    PROVE  \/ /\ Messages' = Messages /\ Handed \subseteq Handed'
              /\ faults <= faults' /\ restarts <= restarts'
           \/ /\ \E m : m \notin Messages /\ Messages' = Messages \cup {m}
              /\ \E u : u \notin Handed /\ Handed \cup {u} \subseteq Handed'
              /\ faults' = faults /\ restarts' = restarts
           \/ /\ \E m : Messages' \subseteq Messages \cup {m}
              /\ Handed \subseteq Handed'
              /\ faults' = faults + 1 /\ restarts' = restarts
           \/ /\ Messages' = Messages
              /\ \E u : Handed \subseteq Handed' \cup {u}
              /\ faults' + restarts' = faults + restarts + 1
<1> USE DEF TypeOK, StorageTypeOK, SyncTypeOK
<1>0. /\ KafkaTypeOK /\ CommitsFollow /\ TypeOK /\ Tables /\ BatchWaits /\ TopicOutbox
      /\ Published \subseteq Issued /\ faults \in Nat /\ restarts \in Nat /\ sync \in Syncer
  BY DEF PipelineInv, CoreInv
<1>1. ASSUME UNCHANGED <<topic, restarts>>, [Next]_vars, Handed \subseteq Handed'
      PROVE  /\ Messages' = Messages /\ Handed \subseteq Handed'
             /\ faults <= faults' /\ restarts <= restarts'
  BY <1>0, <1>1, FaultsGrow DEF Messages
<1>2. CASE Apply /\ UNCHANGED kafkaVars
  <2>1. PICK n \in Nodes, u \in Uuid, a \in Amounts : ApplyDelta(n, u, a)
    BY <1>2 DEF Apply
  <2>2. UNCHANGED <<topic, sync, restarts>> /\ u \notin Issued
        /\ outbox' = [outbox EXCEPT ![u] = "unsynced"]
    BY <1>2, <2>1 DEF Apply, ApplyDelta, kafkaVars, Issued
  <2>3. Handed \subseteq Handed'
    BY <1>0, <2>2 DEF Handed, Published
  <2> QED BY <1>1, <1>2, <2>2, <2>3 DEF Next
<1>3. ASSUME Request \/ RunJob \/ RunReconciler, UNCHANGED kafkaVars, ~Apply
      PROVE  UNCHANGED <<topic, restarts>> /\ [Next]_vars /\ Handed \subseteq Handed'
  <2>1. UNCHANGED <<sync, restarts>> /\ ~RunSyncer
    BY <1>0, <1>3, SyncMoves DEF Request, RunJob, RunReconciler
  <2>2. UNCHANGED <<outbox, sync, topic>> /\ Next
    BY <1>3, <2>1, Frame DEF Next, kafkaVars
  <2> QED BY <2>1, <2>2 DEF Handed, Published
<1>4. CASE RunPublisher
  <2>1. PICK u \in Uuid : SyncPublish(u) \/ SyncPublishFailed(u)
    BY <1>4 DEF RunPublisher
  <2>2. /\ UNCHANGED <<outbox, position, restarts>>
        /\ sync.pc = "write" /\ u \in sync.batch /\ outbox[u] = "unsynced"
    BY <1>0, <1>4, <2>1 DEF RunPublisher, SyncPublish, SyncPublishFailed, storageVars, BatchWaits
  <2>3. Published \subseteq Published'
    BY TopicStep
  <2>4. Handed = {v \in Published : outbox[v] # "unsynced"} /\ Handed \subseteq Handed'
    BY <2>2, <2>3 DEF Handed
  <2>5. CASE SyncPublish(u)
    <3>1. PICK p \in Partitions : Append1(p, u)
      BY <2>5 DEF SyncPublish
    <3>2. u \in Published'
      BY <1>0, <2>2, <3>1, AppendFacts
    <3>3. sync'.pc = "mark" /\ sync'.op = u /\ faults' = faults
      BY <1>0, <2>5 DEF SyncPublish, Syncer, storageVars
    <3>4. u \notin Handed /\ Handed \cup {u} \subseteq Handed'
      BY <2>2, <2>4, <3>2, <3>3 DEF Handed
    <3> QED BY <1>0, <2>2, <3>1, <3>3, <3>4, MessageAdded
  <2>6. CASE SyncPublishFailed(u)
    <3>1. faults' = faults + 1
      BY <2>6 DEF SyncPublishFailed
    <3>2. CASE topic' = topic
      <4>1. Messages' = Messages
        BY <3>2 DEF Messages
      <4> QED BY <2>2, <2>4, <3>1, <4>1
    <3>3. ASSUME NEW p \in Partitions, Append1(p, u) PROVE \E m : Messages' \subseteq Messages \cup {m}
      BY <1>0, <3>3, MessageAdded
    <3> QED BY <2>2, <2>4, <2>6, <3>1, <3>2, <3>3 DEF SyncPublishFailed
  <2> QED BY <2>1, <2>5, <2>6
<1>5. CASE RunSyncerAround
  <2>0. UNCHANGED <<topic, Published, Messages, restarts>> /\ [Next]_vars
    BY <1>5, SharedStep DEF RunSyncerAround, Shared, kafkaVars, Published, Messages
  <2>1. CASE SyncMark
    <3>0. sync.pc = "mark" /\ sync.op \in Uuid /\ sync'.pc = "write"
      BY <1>0, <2>1 DEF SyncMark, NextOp, Syncer, BatchWaits
    <3>1. CASE faults' = faults /\ outbox' = [outbox EXCEPT ![sync.op] = "synced"]
      <4>1. Handed \subseteq Handed'
        BY <1>0, <2>0, <3>0, <3>1 DEF Handed
      <4> QED BY <1>1, <2>0, <4>1
    <3>2. CASE faults' = faults + 1 /\ outbox' = outbox
      <4>1. Handed \subseteq Handed' \cup {sync.op}
        BY <2>0, <3>0, <3>2 DEF Handed
      <4> QED BY <1>0, <2>0, <3>2, <4>1
    <3> QED BY <2>1, <3>1, <3>2 DEF SyncMark, MarkOutboxSynced
  <2>2. ASSUME sync.pc # "mark", \A v \in Uuid : outbox[v] # "unsynced" => outbox'[v] # "unsynced"
        PROVE  Handed \subseteq Handed'
    BY <2>0, <2>2 DEF Handed, Published
  <2>3. ASSUME NEW u \in Uuid, SyncDeadLetter(u)
        PROVE  sync.pc # "mark" /\ outbox' \in {outbox, [outbox EXCEPT ![u] = "absent"]}
    BY <2>3 DEF SyncDeadLetter, DeleteOutboxEntry
  <2>4. ASSUME \/ SyncTick \/ SyncFetchPills \/ SyncNodeDone \/ SyncReturn
               \/ \E n \in Nodes : SyncFetch(n)
               \/ \E u \in Uuid : SyncDeadLetterFailed(u)
        PROVE  sync.pc # "mark" /\ outbox' = outbox
    <3>1. ASSUME SyncTick PROVE sync.pc # "mark" /\ outbox' = outbox
      BY <3>1 DEF SyncTick, storageVars, IdleSyncer
    <3>2. ASSUME SyncFetchPills \/ SyncNodeDone \/ SyncReturn
          PROVE  sync.pc # "mark" /\ outbox' = outbox
      BY <3>2 DEF SyncFetchPills, SyncNodeDone, SyncReturn, storageVars
    <3>3. ASSUME (\E n \in Nodes : SyncFetch(n)) \/ \E u \in Uuid : SyncDeadLetterFailed(u)
          PROVE  sync.pc # "mark" /\ outbox' = outbox
      BY <3>3 DEF SyncFetch, SyncDeadLetterFailed
    <3> QED BY <2>4, <3>1, <3>2, <3>3
  <2>5. ASSUME ~SyncMark PROVE Handed \subseteq Handed'
    BY <1>0, <1>5, <2>2, <2>3, <2>4, <2>5 DEF RunSyncerAround
  <2> QED BY <1>1, <2>0, <2>1, <2>5
<1>6. CASE RunConsumer \/ RunCommits
  <2>1. UNCHANGED <<outbox, sync, topic, restarts>> /\ faults' \in {faults, faults + 1}
    BY <1>6 DEF RunConsumer, RunCommits, InsertMessage, ReadMessage, CommitOffsets, storageVars
  <2>2. UNCHANGED <<Handed, Messages>>
    BY <2>1 DEF Handed, Published, Messages
  <2>3. faults <= faults' /\ restarts <= restarts'
    BY <1>0, <2>1
  <2> QED BY <2>2, <2>3
<1>7. CASE RestartPipeline
  <2>1. UNCHANGED <<outbox, faults, topic>> /\ restarts' = restarts + 1
    BY <1>7 DEF RestartPipeline, Restart, NewNodes
  <2>2. Messages' = Messages /\ Handed \subseteq Handed' \cup {sync.op}
    BY <2>1 DEF Handed, Published, Messages
  <2> QED BY <1>0, <2>1, <2>2
<1>8. CASE UNCHANGED pipelineVars
  <2>1. UNCHANGED <<outbox, sync, topic, restarts, faults>>
    BY <1>8 DEF pipelineVars, vars, kafkaVars, storageVars
  <2>2. UNCHANGED <<Handed, Messages>>
    BY <2>1 DEF Handed, Published, Messages
  <2> QED BY <1>0, <2>1, <2>2
<1> QED BY <1>1, <1>2, <1>3, <1>4, <1>5, <1>6, <1>7, <1>8 DEF PipelineNext

\* At most one operation is published by a step.
LEMMA PublishedGrows ==
    ASSUME PipelineInv, [PipelineNext]_pipelineVars
    PROVE  \E u : Published' \subseteq Published \cup {u}
<1>1. CASE RunPublisher
  <2>1. PICK u \in Uuid : SyncPublish(u) \/ SyncPublishFailed(u)
    BY <1>1 DEF RunPublisher
  <2>2. UNCHANGED position /\ (topic' = topic \/ \E p \in Partitions : Append1(p, u))
    BY <2>1 DEF SyncPublish, SyncPublishFailed
  <2>3. CASE topic' = topic
    BY <2>3 DEF Published
  <2>4. ASSUME NEW p \in Partitions, Append1(p, u) PROVE Published' = Published \cup {u}
    BY <2>2, <2>4, AppendFacts DEF PipelineInv
  <2> QED BY <2>2, <2>3, <2>4
<1>2. CASE UNCHANGED topic
  BY <1>2 DEF Published
<1>3. ASSUME ~RunPublisher PROVE UNCHANGED topic
  BY <1>3 DEF PipelineNext, RunSyncerAround, RunConsumer, InsertMessage, ReadMessage, RunCommits,
              CommitOffsets, RestartPipeline, pipelineVars, kafkaVars
<1> QED BY <1>1, <1>2, <1>3

\* So the copies stay paid for.
LEMMA CopiesPaidStep ==
    ASSUME PipelineInv, [PipelineNext]_pipelineVars
    PROVE  CopiesPaid'
<1>0. /\ IsFiniteSet(Messages) /\ IsFiniteSet(Published)
      /\ Cardinality(Messages) <= Cardinality(Handed) + restarts + faults
      /\ restarts \in Nat /\ faults \in Nat
  BY DEF PipelineInv, CopiesPaid, CoreInv, TypeOK, StorageTypeOK
<1>1. restarts' \in Nat /\ faults' \in Nat
  BY PipelineCore DEF CoreInv, TypeOK, StorageTypeOK
<1>2. IsFiniteSet(Published')
  BY <1>0, PublishedGrows, OneMore
<1>3. IsFiniteSet(Handed) /\ IsFiniteSet(Handed')
  <2>1. Handed \subseteq Published /\ Handed' \subseteq Published'
    BY DEF Handed
  <2> QED BY <1>0, <1>2, <2>1, FS_Subset
<1>4. IsFiniteSet(Messages')
  <2>1. \E m : Messages' \subseteq Messages \cup {m}
    BY CopyStep
  <2> QED BY <1>0, <2>1, OneMore
<1> DEFINE m == Cardinality(Messages)
           n == Cardinality(Messages')
           h == Cardinality(Handed)
           k == Cardinality(Handed')
<1>5. m \in Nat /\ n \in Nat /\ h \in Nat /\ k \in Nat
  BY <1>0, <1>3, <1>4, FS_CardinalityType
<1>6. Handed \subseteq Handed' => h <= k
  BY <1>3, FS_Subset
<1>7. ASSUME NEW u, Messages' \subseteq Messages \cup {u} PROVE n <= m + 1
  BY <1>0, <1>7, OneMore
<1>8. ASSUME NEW u, u \notin Handed, Handed \cup {u} \subseteq Handed' PROVE h + 1 <= k
  <2>1. Cardinality(Handed \cup {u}) = h + 1
    BY <1>3, <1>8, FS_AddElement
  <2>2. Cardinality(Handed \cup {u}) <= k
    BY <1>3, <1>8, FS_Subset
  <2> QED BY <2>1, <2>2
<1>9. ASSUME NEW u, Handed \subseteq Handed' \cup {u} PROVE h <= k + 1
  BY <1>3, <1>9, OneMore
<1>10. \/ n = m /\ h <= k /\ faults <= faults' /\ restarts <= restarts'
       \/ n <= m + 1 /\ h + 1 <= k /\ faults' = faults /\ restarts' = restarts
       \/ n <= m + 1 /\ h <= k /\ faults' + restarts' = faults + restarts + 1
       \/ n = m /\ h <= k + 1 /\ faults' + restarts' = faults + restarts + 1
  <2>1. CASE /\ Messages' = Messages /\ Handed \subseteq Handed'
             /\ faults <= faults' /\ restarts <= restarts'
    BY <1>6, <2>1
  <2>2. CASE /\ \E u : u \notin Messages /\ Messages' = Messages \cup {u}
             /\ \E u : u \notin Handed /\ Handed \cup {u} \subseteq Handed'
             /\ faults' = faults /\ restarts' = restarts
    BY <1>7, <1>8, <2>2
  <2>3. CASE /\ \E u : Messages' \subseteq Messages \cup {u}
             /\ Handed \subseteq Handed'
             /\ faults' = faults + 1 /\ restarts' = restarts
    <3>1. n <= m + 1 /\ h <= k
      BY <1>6, <1>7, <2>3
    <3>2. faults' + restarts' = faults + restarts + 1
      BY <1>0, <2>3
    <3> QED BY <3>1, <3>2
  <2>4. CASE /\ Messages' = Messages
             /\ \E u : Handed \subseteq Handed' \cup {u}
             /\ faults' + restarts' = faults + restarts + 1
    BY <1>9, <2>4
  <2> QED BY <2>1, <2>2, <2>3, <2>4, CopyStep
<1>11. n <= k + restarts' + faults'
  <2>1. PICK a \in Nat, b \in Nat, c \in Nat, d \in Nat : a = m /\ b = n /\ c = h /\ d = k
    BY <1>5
  <2>2. PICK r \in Nat, f \in Nat, s \in Nat, g \in Nat :
                r = restarts /\ f = faults /\ s = restarts' /\ g = faults'
    BY <1>0, <1>1
  <2>3. a <= c + r + f
    BY <1>0, <2>1, <2>2
  <2>4. \/ b = a /\ c <= d /\ f <= g /\ r <= s
        \/ b <= a + 1 /\ c + 1 <= d /\ g = f /\ s = r
        \/ b <= a + 1 /\ c <= d /\ g + s = f + r + 1
        \/ b = a /\ c <= d + 1 /\ g + s = f + r + 1
    BY <1>10, <2>1, <2>2
  <2>5. b <= d + s + g
    BY ONLY <2>3, <2>4, a \in Nat, b \in Nat, c \in Nat, d \in Nat, r \in Nat, f \in Nat,
            s \in Nat, g \in Nat
  <2> QED BY <2>1, <2>2, <2>5
<1> QED BY <1>2, <1>4, <1>11 DEF CopiesPaid

---------------------------------------------------------------------------
(* The theorems.                                                           *)

LEMMA PipelineStart == ASSUME PipelineInit PROVE PipelineInv
<1>1. CoreInv /\ Issued = {} /\ outbox = [u \in Uuid |-> "absent"] /\ restarts = 0 /\ faults = 0
  BY InitInv DEF PipelineInit, IndInv, Init, StorageInit, Issued
<1>2. Published = {} /\ Lost = {}
  BY DEF PipelineInit, Published, Lost
<1>3. IsFiniteSet(Lost) /\ Cardinality(Lost) = 0
  BY <1>2, FS_EmptySet
<1>4. KafkaTypeOK /\ CommitsFollow
  BY DEF PipelineInit, KafkaTypeOK, CommitsFollow
<1>5. TopicOutbox
  BY <1>1 DEF TopicOutbox, PipelineInit, Init, SyncInit, IdleSyncer
<1>6. BatchWaits /\ Messages = {}
  BY DEF BatchWaits, Messages, PipelineInit, Init, SyncInit, IdleSyncer
<1>7. Handed = {}
  BY <1>2 DEF Handed
<1>8. CopiesPaid
  BY <1>1, <1>2, <1>6, <1>7, FS_EmptySet DEF CopiesPaid
<1> QED BY <1>1, <1>2, <1>3, <1>4, <1>5, <1>6, <1>8
        DEF PipelineInv, PipelineInit, OneLossPerFailure

\* The invariant of the pipeline holds in every state, for any number of
\* partitions, nodes, operations, duplicates, kills and failing statements.
THEOREM PipelineInvariance == PipelineSpec => []PipelineInv
<1>1. PipelineInit => PipelineInv
  BY PipelineStart
<1>2. PipelineInv /\ [PipelineNext]_pipelineVars => PipelineInv'
  BY PipelineCore, TopicStep, TopicOutboxStep, BoundedLossStep, BatchWaitsStep, CopiesPaidStep
  DEF PipelineInv
<1> QED BY <1>1, <1>2, PTL DEF PipelineSpec

\* A kill or a failing insert costs at most one operation.
THEOREM LossIsBounded == PipelineSpec => []OneLossPerFailure
<1>1. PipelineInv => OneLossPerFailure
  BY DEF PipelineInv
<1> QED BY <1>1, PipelineInvariance, PTL

\* An operation is on the topic once, but for a copy for each kill and each
\* failing statement.
THEOREM CopiesAreBounded == PipelineSpec => []OneCopyPerFailure
<1>1. ASSUME PipelineInv PROVE OneCopyPerFailure
  <2>1. /\ IsFiniteSet(Published) /\ restarts \in Nat /\ faults \in Nat
        /\ IsFiniteSet(Messages)
        /\ Cardinality(Messages) <= Cardinality(Handed) + restarts + faults
    BY <1>1 DEF PipelineInv, CopiesPaid, CoreInv, TypeOK, StorageTypeOK
  <2>2. Cardinality(Handed) <= Cardinality(Published) /\ IsFiniteSet(Handed)
    BY <2>1, FS_Subset DEF Handed
  <2>3. /\ Cardinality(Handed) \in Nat /\ Cardinality(Published) \in Nat
        /\ Cardinality(Messages) \in Nat
    BY <2>1, <2>2, FS_CardinalityType
  <2> QED BY <2>1, <2>2, <2>3 DEF OneCopyPerFailure
<1> QED BY <1>1, PipelineInvariance, PTL

\* Steps of the pipeline as steps of the ledger.
LEMMA TopicLedgerStep ==
    ASSUME PipelineInv, PipelineInv', [PipelineNext]_pipelineVars
    PROVE  [TopicLedger!Next]_(TopicLedger!ledgerVars)
<1> DEFINE log == coord \cup Published
<1>0. CoreInv /\ CoreInv' /\ TypeOK /\ TopicLedger!Accepted = Issued
  BY DEF PipelineInv, CoreInv, TopicLedger!Accepted, Issued
<1>1. ASSUME NEW u \in Issued, UNCHANGED <<info, outbox, dlq, localVal>>, log' = log \cup {u}
      PROVE  TopicLedger!Next
  <2>1. TopicLedger!Record(u)
    BY <1>0, <1>1 DEF TopicLedger!Record, Waiting
  <2> QED BY <2>1 DEF TopicLedger!Next, Issued
<1>2. ASSUME UNCHANGED <<info, outbox, dlq, localVal, log>>
      PROVE  UNCHANGED TopicLedger!ledgerVars
  BY <1>2 DEF TopicLedger!ledgerVars, Waiting
<1>3. ASSUME UNCHANGED kafkaVars PROVE Published' = Published
  BY <1>3 DEF kafkaVars, Published
<1>4. CASE Apply /\ UNCHANGED kafkaVars
  <2> PICK u \in Uuid :
              /\ info[u] = NoOp
              /\ info'[u] \in Operation
              /\ \A v \in Issued : LedgerOf!Stamp(info[v]) # LedgerOf!Stamp(info'[u])
              /\ info' = [info EXCEPT ![u] = info'[u]]
              /\ Waiting' = Waiting \cup {u}
              /\ localVal' = [localVal EXCEPT ![info'[u].node] = [@ EXCEPT ![u] = 1]]
              /\ UNCHANGED <<coord, dlq, attempts>>
    BY <1>0, <1>4, ApplyAccepts
  <2>1. TopicLedger!Accept(u)
    BY <1>0, <1>3, <1>4 DEF TopicLedger!Accept, TopicLedger!Stamp, LedgerOf!Stamp
  <2> QED BY <2>1 DEF TopicLedger!Next
<1>5. CASE RunPublisher
  <2> PICK u \in Uuid : SyncPublish(u) \/ SyncPublishFailed(u)
    BY <1>5 DEF RunPublisher
  <2>1. UNCHANGED <<info, outbox, coord, dlq, localVal, position>> /\ u \in Issued
    BY <1>0 DEF SyncPublish, SyncPublishFailed, storageVars, nodeVars, CoreInv, Tables
  <2>2. CASE topic' = topic
    BY <1>2, <2>1, <2>2 DEF Published
  <2>3. ASSUME NEW p \in Partitions, Append1(p, u) PROVE log' = log \cup {u}
    BY <2>1, <2>3, AppendFacts DEF PipelineInv
  <2> QED BY <1>1, <2>1, <2>2, <2>3 DEF SyncPublish, SyncPublishFailed
<1>6. CASE RunSyncerAround
  <2>0. Published' = Published
    BY <1>3, <1>6 DEF RunSyncerAround
  <2>1. CASE SyncMark
    <3>1. /\ UNCHANGED <<info, coord, dlq, localVal>>
          /\ outbox' \in {outbox, [outbox EXCEPT ![sync.op] = "synced"]}
          /\ sync.op \in Published
      BY <2>1 DEF SyncMark, MarkOutboxSynced, nodeVars, PipelineInv, TopicOutbox
    <3>2. Waiting' = Waiting \/ Waiting' = Waiting \ {sync.op}
      BY <1>0, <3>1 DEF Waiting, TypeOK, StorageTypeOK
    <3>3. ASSUME sync.op \in Waiting, Waiting' = Waiting \ {sync.op} PROVE TopicLedger!Next
      <4>1. TopicLedger!Settle(sync.op)
        BY <2>0, <3>1, <3>3 DEF TopicLedger!Settle
      <4>2. sync.op \in Uuid
        BY <3>3 DEF Waiting
      <4> QED BY <4>1, <4>2 DEF TopicLedger!Next
    <3> QED BY <2>0, <3>1, <3>2, <3>3 DEF TopicLedger!ledgerVars
  <2>2. ASSUME NEW u \in Uuid, SyncDeadLetter(u)
        PROVE  [TopicLedger!Next]_(TopicLedger!ledgerVars)
    <3>1. /\ UNCHANGED <<info, coord, localVal>>
          /\ outbox' \in {outbox, [outbox EXCEPT ![u] = "absent"]}
          /\ dlq' = dlq \cup {u}
          /\ u \in Waiting
      BY <1>0, <2>2 DEF SyncDeadLetter, DeleteOutboxEntry, InsertDLQEntry, nodeVars, Waiting,
                        CoreInv, PillsWait
    <3>2. Waiting' \in {Waiting, Waiting \ {u}}
      BY <1>0, <3>1 DEF Waiting, TypeOK, StorageTypeOK
    <3>3. TopicLedger!Bury(u)
      BY <2>0, <3>1, <3>2 DEF TopicLedger!Bury
    <3> QED BY <3>3 DEF TopicLedger!Next
  <2>3. ASSUME \/ SyncTick \/ SyncFetchPills \/ SyncNodeDone \/ SyncReturn
               \/ \E n \in Nodes : SyncFetch(n)
               \/ \E u \in Uuid : SyncDeadLetterFailed(u)
        PROVE  UNCHANGED <<info, outbox, dlq, localVal, coord>>
    BY <2>3 DEF SyncTick, SyncFetchPills, SyncNodeDone, SyncReturn, SyncFetch,
                SyncDeadLetterFailed, storageVars, nodeVars
  <2> QED BY <1>2, <1>6, <2>0, <2>1, <2>2, <2>3 DEF RunSyncerAround
<1>7. CASE RunConsumer
  <2>1. CASE InsertMessage
    <3>1. /\ UNCHANGED <<info, outbox, dlq, localVal, topic>>
          /\ coord' \in {coord, coord \cup {hand}}
          /\ hand \in Published
      BY <2>1 DEF InsertMessage, nodeVars, PipelineInv
    <3>2. log' = log
      BY <3>1 DEF Published
    <3> QED BY <1>2, <3>1, <3>2
  <2>2. ASSUME NEW p \in Partitions, ReadMessage(p)
        PROVE  UNCHANGED <<info, outbox, dlq, localVal, log>>
    BY <2>2 DEF ReadMessage, storageVars, nodeVars, Published
  <2> QED BY <1>2, <1>7, <2>1, <2>2 DEF RunConsumer
<1>8. CASE RunCommits
  <2>1. UNCHANGED <<info, outbox, dlq, localVal, log>>
    BY <1>8 DEF RunCommits, CommitOffsets, storageVars, nodeVars, Published
  <2> QED BY <1>2, <2>1
<1>9. ASSUME [Next]_vars, ~Apply, ~RunSyncer, Published' = Published
      PROVE  [TopicLedger!Next]_(TopicLedger!ledgerVars)
  <2>1. UNCHANGED <<info, outbox, dlq, Waiting>>
    BY <1>0, <1>9, RepairFrame DEF Waiting
  <2>2. CASE UNCHANGED coord
    <3>1. TopicLedger!Revise
      BY <1>0, <1>9, <2>1, <2>2, ValuesRevised DEF TopicLedger!Revise
    <3> QED BY <3>1 DEF TopicLedger!Next
  <2>3. ASSUME NEW u \in Issued, UNCHANGED localVal, coord' = coord \cup {u}
        PROVE  TopicLedger!Next
    BY <1>1, <1>9, <2>1, <2>3
  <2> QED BY <1>0, <1>9, <2>2, <2>3, RepairFrame
<1>10. CASE (Request \/ RunJob \/ RunReconciler) /\ UNCHANGED kafkaVars /\ ~Apply
  <2>1. ~RunSyncer
    BY <1>0, <1>10, SyncMoves DEF Request, RunJob, RunReconciler
  <2> QED BY <1>3, <1>9, <1>10, <2>1 DEF Next
<1>11. CASE RestartPipeline
  <2>1. Published' = Published
    BY <1>11 DEF RestartPipeline, Published
  <2>2. ~Apply /\ ~RunSyncer
    BY <1>0, <1>11, RestartApart DEF RestartPipeline
  <2> QED BY <1>9, <1>11, <2>1, <2>2 DEF RestartPipeline, Next
<1>12. CASE UNCHANGED pipelineVars
  BY <1>2, <1>3, <1>12 DEF pipelineVars, vars, storageVars, nodeVars
<1> QED BY <1>4, <1>5, <1>6, <1>7, <1>8, <1>10, <1>11, <1>12 DEF PipelineNext

\* With Kafka the program is a ledger as well, the topic being part of the log.
THEOREM PipelineIsLedger == PipelineSpec => ImplementsTopicLedger
<1>1. PipelineInit => TopicLedger!Init
  BY DEF PipelineInit, Init, StorageInit, NodeInit, TopicLedger!Init, Waiting, Once, Published
<1>2. PipelineInv /\ PipelineInv' /\ [PipelineNext]_pipelineVars
         => [TopicLedger!Next]_(TopicLedger!ledgerVars)
  BY TopicLedgerStep
<1> QED BY <1>1, <1>2, PipelineInvariance, PTL
        DEF PipelineSpec, ImplementsTopicLedger, TopicLedger!Spec
=============================================================================
