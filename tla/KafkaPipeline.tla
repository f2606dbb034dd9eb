--------------------------- MODULE KafkaPipeline ---------------------------
(***************************************************************************)
(* CounterGhost with Kafka between the outbox and the coordinator: the     *)
(* syncer publishes to the topic counter.operations and marks the entry    *)
(* when the broker has acknowledged; a consumer in the same process reads  *)
(* the topic and inserts what it reads at the coordinator.                 *)
(*                                                                         *)
(* The broker keeps every acknowledged message and the offsets the         *)
(* consumer group has committed; both outlive a kill of the process.       *)
(***************************************************************************)
EXTENDS CounterGhost, Sequences

CONSTANT Partitions   \* of the topic (3)

ASSUME PipelineAssumption == "none" \notin Uuid

VARIABLES topic,       \* the messages of each partition
          position,    \* how many of them the reader has returned
          committed,   \* how many of them the group has committed
          hand         \* the operation the consumer has read and not inserted yet

kafkaVars == <<topic, position, committed, hand>>

KafkaTypeOK ==
    /\ topic \in [Partitions -> Seq(Uuid)]
    /\ position \in [Partitions -> Nat]
    /\ committed \in [Partitions -> Nat]
    /\ hand \in Uuid \cup {"none"}

Published == {u \in Uuid : \E p \in Partitions : \E i \in 1 .. Len(topic[p]) : topic[p][i] = u}

\* Operations in a message the reader has not returned yet.
Unread ==
    {u \in Uuid : \E p \in Partitions :
                     \E i \in position[p] + 1 .. Len(topic[p]) : topic[p][i] = u}

---------------------------------------------------------------------------
(* The producer.                                                           *)

\* LeastBytes picks the partition by what was sent before, not by the key.
Append1(p, u) == topic' = [topic EXCEPT ![p] = Append(@, u)]

SyncPublish(u) ==
    /\ sync.pc = "write"
    /\ u \in sync.batch
    /\ \E p \in Partitions : Append1(p, u)
    /\ sync' = [sync EXCEPT !.pc = "mark", !.op = u]
    /\ UNCHANGED <<storageVars, nodeVars, position, committed, hand>>

\* (Faulty variant: an unanswered message counts as published.)
SyncPublishFailedMarked(u) ==
    /\ sync.pc = "write"
    /\ u \in sync.batch
    /\ \/ Fails("publish") /\ UNCHANGED topic
       \/ Fails("reply") /\ \E p \in Partitions : Append1(p, u)
    /\ sync' = [sync EXCEPT !.pc = "mark", !.op = u]
    /\ UNCHANGED <<info, nodeDB, outbox, attempts, recorded, coord, dlq, nodeVars,
                   position, committed, hand>>

\* WriteMessages returned an error, whether or not the broker has the message.
SyncPublishFailed(u) ==
    /\ sync.pc = "write"
    /\ u \in sync.batch
    /\ \/ Fails("publish") /\ UNCHANGED topic
       \/ Fails("reply") /\ \E p \in Partitions : Append1(p, u)
    /\ \/ MarkOutboxFailed(u)
       \/ "mark" \in Faulty /\ UNCHANGED attempts
    /\ NextOp(u)
    /\ UNCHANGED <<info, nodeDB, outbox, recorded, coord, dlq, nodeVars,
                   position, committed, hand>>

---------------------------------------------------------------------------
(* The consumer.                                                           *)

\* (Faulty variant: it waits for the message after the next.)
ReadMessageBehind(p) ==
    /\ hand = "none"
    /\ position[p] + 1 < Len(topic[p])
    /\ hand' = topic[p][position[p] + 1]
    /\ position' = [position EXCEPT ![p] = @ + 1]
    /\ UNCHANGED <<storageVars, nodeVars, topic, committed>>

\* ReadMessage: it also queues the offset for the next timed commit, before the
\* message is processed.
ReadMessage(p) ==
    /\ hand = "none"
    /\ position[p] < Len(topic[p])
    /\ hand' = topic[p][position[p] + 1]
    /\ position' = [position EXCEPT ![p] = @ + 1]
    /\ UNCHANGED <<storageVars, nodeVars, topic, committed>>

\* The statement suits the backend.  An error is logged and the message skipped.
InsertMessage ==
    /\ hand # "none"
    /\ \/ Works /\ coord' = InsertOperation(coord, hand)
       \/ Fails("coord") /\ UNCHANGED coord
    /\ hand' = "none"
    /\ UNCHANGED <<info, nodeDB, outbox, attempts, recorded, dlq, nodeVars,
                   topic, position, committed>>

\* (Faulty variant: it commits to the end of the partition.)
CommitOffsetsEnd(p) ==
    /\ committed[p] # Len(topic[p])
    /\ committed' = [committed EXCEPT ![p] = Len(topic[p])]
    /\ UNCHANGED <<storageVars, nodeVars, topic, position, hand>>

\* The commit timer, every second.
CommitOffsets(p) ==
    /\ committed[p] # position[p]
    /\ committed' = [committed EXCEPT ![p] = position[p]]
    /\ UNCHANGED <<storageVars, nodeVars, topic, position, hand>>

---------------------------------------------------------------------------
(* The program with the pipeline.                                          *)

pipelineVars == <<vars, kafkaVars>>

PipelineInit ==
    /\ Init
    /\ topic = [p \in Partitions |-> <<>>]
    /\ position = [p \in Partitions |-> 0]
    /\ committed = [p \in Partitions |-> 0]
    /\ hand = "none"

RunPublisher ==
    /\ \E u \in Uuid : SyncPublish(u) \/ SyncPublishFailed(u)
    /\ UNCHANGED <<simVars, rec, calls, restarts>>

\* The rest of the syncer, which is the same with and without Kafka.
RunSyncerAround ==
    /\ \/ ~Locked /\ SyncTick
       \/ \E n \in Nodes : SyncFetch(n)
       \/ SyncMark
       \/ SyncFetchPills
       \/ \E u \in Uuid : SyncDeadLetter(u) \/ SyncDeadLetterFailed(u)
       \/ SyncNodeDone
       \/ SyncReturn
    /\ UNCHANGED <<simVars, rec, calls, restarts, kafkaVars>>

RunConsumer ==
    /\ InsertMessage \/ \E p \in Partitions : ReadMessage(p)
    /\ UNCHANGED <<simVars, sync, rec, calls, restarts>>

RunCommits ==
    /\ \E p \in Partitions : CommitOffsets(p)
    /\ UNCHANGED <<simVars, sync, rec, calls, restarts>>

\* The reader of the new process starts at the committed offsets.
RestartPipeline ==
    /\ Restart
    /\ position' = committed
    /\ hand' = "none"
    /\ UNCHANGED <<topic, committed>>

PipelineNext ==
    \/ (Apply \/ Request \/ RunJob \/ RunReconciler) /\ UNCHANGED kafkaVars
    \/ RunPublisher
    \/ RunSyncerAround
    \/ RunConsumer
    \/ RunCommits
    \/ RestartPipeline

PipelineSpec == PipelineInit /\ [][PipelineNext]_pipelineVars

\* The goroutines keep running, as in module CounterGhost; the consumer needs
\* no lock.  Commits need not happen.
FairPipeline ==
    /\ PipelineSpec
    /\ WF_pipelineVars(RunJob /\ UNCHANGED kafkaVars)
    /\ SF_pipelineVars(RunPublisher \/ RunSyncerAround)
    /\ WF_pipelineVars(RunConsumer)
    /\ SF_pipelineVars(RunReconciler /\ UNCHANGED kafkaVars)

---------------------------------------------------------------------------
(* Properties.                                                             *)

\* Operations the pipeline has let slip: published, so that the outbox has
\* forgotten them, read or skipped by the consumer and not in the log.
Lost == Published \ (coord \cup Unread \cup {hand})

\* The pipeline loses at most the message in hand, and only to a kill or to a
\* failing insert: whatever the timing of the commits, of duplicates and of
\* restarts, each of these costs one operation at most.
OneLossPerFailure == Cardinality(Lost) <= restarts + faults

\* What the topic holds, an operation as often as it was published.
Messages == UNION {{p} \X (1 .. Len(topic[p])) : p \in Partitions}

\* Published operations the syncer has no reason to publish again: their entry
\* does not wait any more, or is the one it is about to mark.
Handed ==
    {u \in Published : outbox[u] # "unsynced" \/ (sync.pc = "mark" /\ sync.op = u)}

\* An operation is on the topic once, but for one more copy for each kill and
\* each failing statement: an acknowledgement or a mark is lost in no other way,
\* whatever the timing of the consumer, of its commits and of the batches.  (When
\* the Kafka writer tries again by itself within one Publish, each lost
\* acknowledgement is one failing statement.)
OneCopyPerFailure == Cardinality(Messages) <= Cardinality(Published) + restarts + faults

\* Why: what the syncer is about to publish or has just published waits in the
\* outbox, and every message beyond the first for an operation that is handed
\* over has its failure.
BatchWaits ==
    /\ sync.pc \in {"write", "mark"} => \A u \in sync.batch : outbox[u] = "unsynced"
    /\ sync.pc = "mark" => sync.op \in sync.batch

CopiesPaid ==
    /\ IsFiniteSet(Messages)
    /\ IsFiniteSet(Published)
    /\ Cardinality(Messages) <= Cardinality(Handed) + restarts + faults

\* A committed offset is never ahead of the reader: no message is skipped.
CommitsFollow == \A p \in Partitions : committed[p] <= position[p] /\ position[p] <= Len(topic[p])

\* The outbox relies on the broker: an entry is marked only when the topic has
\* the operation, and goes only when the dead letter queue has it.
TopicOutbox ==
    /\ \A u \in Issued : /\ outbox[u] = "synced" => u \in Published
                         /\ outbox[u] = "absent" => u \in dlq
    /\ sync.pc = "mark" => sync.op \in Published

PipelineInv ==
    /\ CoreInv
    /\ KafkaTypeOK
    /\ Published \subseteq Issued
    /\ hand # "none" => hand \in Published
    /\ CommitsFollow
    /\ TopicOutbox
    /\ IsFiniteSet(Lost)
    /\ OneLossPerFailure
    /\ BatchWaits
    /\ CopiesPaid

\* With Kafka the program is a ledger as well, if the topic counts as part of
\* the log: no acknowledged operation leaves both, is accepted under a used
\* stamp or is counted twice.
TopicLedger == INSTANCE Ledger WITH accepted <- info, waiting <- Waiting,
                                    log <- coord \cup Published,
                                    dead <- dlq, held <- localVal

ImplementsTopicLedger == TopicLedger!Spec

\* The pipeline drains: in the end every acknowledged operation is in the
\* coordinator's log, was lost to a kill or a failing insert, or has used up its
\* attempts.
Drains ==
    <>[](\A u \in Issued : u \in coord \cup Lost \/ attempts[u] >= MaxAttempts)
=============================================================================
