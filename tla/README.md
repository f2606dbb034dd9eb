# CounterGhost: a TLA+ verification project

CounterGhost is a Go service that keeps one counter on several simulated nodes.
Every change of the counter is a durable *operation* with a unique id; the
program crashes nodes on request (it deletes some of their operations), detects
that the naive total (the sum of the nodes' values) no longer equals the
authoritative total (the sum over the coordinator's log), and repairs the nodes
from the log. This directory models the part of the program that moves
operations between tables, memory and log, directly or through Kafka, and the
parts that watch it: the manifest of a node, the sentinel, the auto streamer, the
event bus and the WebSocket hub. TLC checks the models on small instances; TLAPS
proves their safety properties for instances of any size.

Paths below are relative to the repository.

## The system

| Component | State | Operations | Talks to |
|---|---|---|---|
| Storage (`internal/db`) | per node: tables `operations`, `operation_outbox`, `epochs`; coordinator: `operations`, `dead_letter_queue` | inserts (idempotent by id), deletes, sums, outbox queries and marks | everyone, one statement at a time |
| Counter node (`internal/node`) | epoch, next sequence, value, alive flag, under the node's mutex | `ApplyDelta`, `IncrementEpoch`, `ReloadLocalVal`, `SetAlive`, `NewNode` | its database |
| Simulation (`internal/simulation`) | `sim.mu`, `lastCrashedOps` | `CrashNode`, `Reconcile`, `RebuildFromLog`, `ReplayDelayedOps`; totals | nodes, node databases, coordinator |
| Outbox syncer (`internal/agents/outbox_syncer.go`) | its position in the loop | every 3 s: fetch, insert at the coordinator, mark; poison pills to the dead letter queue | node databases, coordinator; takes `sim.mu` only to list the databases |
| Reconciler agent (`internal/agents/reconciler.go`) | its position, the total it read | every 10 s: compare totals, on a difference reconcile every live node | `sim`'s methods |
| Sentinel (`internal/agents/sentinel.go`) | last known status of each node | every 5 s: report transitions | `AllStates`, event bus |
| Auto streamer (`internal/simulation/autostream.go`) | configuration | random deltas, random crashes | nodes, `CrashNode`, event bus |
| Event bus, WebSocket hub (`internal/events`, `internal/server/websocket.go`) | subscribers, history, clients | publish, subscribe, broadcast | everyone publishes |
| Kafka (`internal/kafka`) | a topic, the consumer group's offsets | publish; read and insert at the coordinator | outbox syncer, coordinator |
| Manifest, temporal queries (`crash.go`, `temporal.go`) | none | ranges of sequence numbers, sums up to a time | tables, read only |
| HTTP API, `main.go` | none | handlers; start, agents | all of the above |

What is hard about it:

- **Interleaving.** Clients' `ApplyDelta` and the outbox syncer do not take
  `sim.mu`. They run between any two statements of `CrashNode`, `Reconcile`,
  `RebuildFromLog` and `ReplayDelayedOps`, which work on lists they have read
  earlier.
- **Failing statements.** Every statement may return an error, and most errors
  are logged and skipped. The coordinator's database is opened without a busy
  timeout and its pool has several connections (`db.go:96`), so that being busy is
  an ordinary cause; a node's has one (`db.go:79`), and fails when the disk does.
- **Kill and restart.** All agents and `lastCrashedOps` are memory; a restart
  recovers epoch, sequence and value from the tables, which a crash or a
  rebuild may have emptied.
- **Retries and the dead letter queue.** An entry that failed five times leaves
  the outbox for a queue that nothing reads back.
- **Kafka.** An acknowledgement or a mark may be lost, so that the topic has an
  operation twice; the consumer's offsets are committed on a timer, apart from
  the inserts they stand for; the operations of a node are spread over the
  partitions.
- **Snapshots.** The sentinel, the streamer and the manifest read some state,
  let the mutex go (or never take it) and act on what they have read.
- **Channels.** Events go through two bounded channels that drop what does not
  fit; four goroutines share a client's channel and end in any order.

What makes the components correct: an acknowledged operation is never lost; no
operation is counted twice; the stamp (node, epoch, sequence) is unique; memory
agrees with the table; a repair leaves both sides with what either had; and in
the end the totals agree and every node has its operations. Kafka must not lose
more than it is bound to; a manifest must list what the node has and show what it
lacks; what the sentinel reports must be true; the streamer must leave a node
alive; a connected client must miss nothing. `PROJECT.json` lists
the hazards at their lines with the properties that cover them.

## Modules

`Storage` <- `CounterNode` <- `Simulation` <- `Reconciler`;
`CounterNode` <- `OutboxSyncer`; `CounterGhost` extends `Reconciler` and
`OutboxSyncer` and is extended by `KafkaPipeline`, `Manifest` and, with `Sentinel`
and `AutoStreamer`, by `Watch`. `Ledger` stands alone: `CounterGhost` and
`KafkaPipeline` implement it. `EventBus` <- `WsHub` is separate: nothing in the
counter depends on an event; `WsHub` implements `Feed`, which stands alone. The `MC` modules and the `Proofs` modules extend what
they are named after.

**Storage.** The tables as sets of operation ids, and one operator per statement
or query. Rows are never updated in place, so `info[u]` gives the columns of the
operation that id `u` was issued for; `info[u] = NoOp` before it is issued.
`outbox[u]`, `attempts[u]` are the entry's `synced` and `sync_attempts`
columns. `Works` and `Fails(kind)` are the outcomes of a statement: at most
`MaxFaults` fail in a behaviour, of the kinds in `Faulty`. `CoordWorks` and
`CoordFails` are the outcomes of the statements that are SQLite text whatever
the backend: with PostgreSQL they always fail.

**CounterNode.** `epoch`, `nextSeq`, `localVal`, `alive`. Each method is one step,
because it holds the node's mutex and sends at most one transaction.
`localVal[n][u]` counts how many times the amount of `u` is in the value of
node `n`; `Total` in `Reconciler` computes the integers the code keeps.

**Simulation.** `job` is the operation that holds `sim.mu` with its local
variables; the mutex is free iff `job = NoJob`. One action per statement:

| Code | Actions |
|---|---|
| `CrashNode` | `CrashSelect`, `CrashDelete`, `CrashIncrementEpoch`, `CrashRevive` |
| `Reconcile` | `ReconcileReadNode`, `ReconcileReadCoord`, `ReconcileSyncUp`, `ReconcileDetect`, `ReconcileReplay`, `ReconcileReload` |
| `RebuildFromLog` | `RebuildReadCoord`, `RebuildWipe`, `RebuildReplay`, `RebuildReload` |
| `ReplayDelayedOps` | `LateReplayBegin`, `LateReplay`, `LateReplayReload` |

Loops over operations take them in any order (their steps commute). The block a
crash deletes is any contiguous block of the node's list, which covers every
`deleteCount` and every seed. `LateReplay` joins the two inserts of one
iteration: only the coordinator's insert of the same operation lies between
them, which nothing else in the iteration reads. `CrashSelect` joins the read of
the list and `StoreCrashedOps`.

**OutboxSyncer.** `sync` is the syncer's goroutine; fetch, insert, mark, dead
letter are separate steps, so that everything else may happen between them. A
kill between insert and mark is `Restart` at `pc = "mark"`. The dead letter's
insert and the delete of its entry are one step: the insert is idempotent, and a
delete that never happens is a disjunct.

**Reconciler.** The naive total is read in one step and compared with an
authoritative total read in a later one. The values of the nodes are in the code
read one after the other in a microsecond's loop; a delta between two of them
gives a total that the model reads a step earlier or later, up to a sum that is
stale anyway.

**CounterGhost.** Composes the actors: `Apply` (clients), `Request` (the four
handlers), `RunJob`, `RunSyncer`, `RunReconciler`, `Restart` (kill between any
two statements and start on the same databases). The properties are here.

**Ledger.** What the program promises without saying how: it accepts each
operation once, under a stamp of its own; the operation then waits until it is
recorded in the log or buried, and never leaves either; the nodes' values may be
revised at any time, but count an operation at most once and only for its node.
`LedgerOf` in `CounterGhost` maps `waiting` to the unsynced outbox entries, `log`
to the coordinator's table and `dead` to the dead letter queue; `TopicLedger` in
`KafkaPipeline` takes the topic and the table together for the log.

**KafkaPipeline.** The same program with a producer attached: `SyncPublish` and
`SyncPublishFailed` replace the syncer's insert, everything else in the syncer is
`OutboxSyncer`'s. A message goes to any partition, because `LeastBytes` ignores
the key. `ReadMessage` returns a message and with it queues its offset;
`CommitOffsets` is the reader's timer, which may fire between the read and the
insert; `RestartPipeline` kills the process and starts the reader at the
committed offsets. The broker keeps what it has acknowledged; partitions are not
rebalanced, there being one consumer.

**Manifest.** `BuildManifest` runs without any lock, so its steps (read the rows,
the loop of `computeProcessedRanges`, read the epoch) interleave with everything
`CounterGhost` does. The loop is one step per iteration, so that its invariant can
be stated and proved.

**Sentinel, AutoStreamer, Watch.** The sentinel's snapshot is one step under
`sim.mu` and its comparison another without it. The streamer's goroutine reads a
flag, takes a snapshot, and applies or crashes in a later step; during the crash
it waits for `CrashNode` (`chaos_wait`), whose steps are `Simulation`'s. `Watch`
composes both with clients, handlers and running jobs. It leaves out the outbox
syncer, which touches nothing these two read; the reconciler, which only
reconciles as a request does; and a kill, after which both start afresh with
every node alive.

**EventBus, WsHub.** `Publish` is two steps: the history under the mutex
(`PublishRecord`) and the non-blocking send after it (`PublishSend`), so that
concurrent sends may overtake each other. A connection is its handler, writer
and reader. The hub's mutex is held for reading during a whole broadcast
(`hub.event # 0`), which is what keeps `removeClient` from closing a channel
between the loop's look at the table and its send.

**Feed.** What a client is promised: of the events posted after it has joined it
gets each at most once, and one it has missed never comes after all. `FeedOf` in
`WsHub` maps `posted` to the events published, `since` to how many there were when
the handler read the history, `got` to what is written to the connection, and
`missed` to what the hub's channel or the client's has dropped. Neither the order
of events nor that they come is promised.

Definitions marked *faulty variant* are never part of `Next`. Each is the
definition that follows it with a plausible bug, and breaks the property it is
paired with in `PROJECT.json` ("mutants") when put in its place.

## Properties

Safety, in module `CounterGhost`:

- `Durable`: an acknowledged operation is in the log, waits in an outbox, or is a
  dead letter. This is what README I2 comes to once the coordinator write is
  deferred.
- `OneContribution`: a value contains an operation at most once and only on its
  own node (README I1), under every interleaving of deltas, replays and reloads.
- `UniqueStamps`: (node, epoch, sequence) identifies an operation. PostgreSQL's
  table relies on it.
- `CoherentAtRest`: a live node no handler works on has in memory exactly what is
  in its table, unless a reload failed.
- `RepairComplete`: when `Reconcile` is about to reload, node and coordinator
  both have everything either had when it read them.
- `FreshIncarnation` (action property): a dead node comes back only in an epoch
  that is on disk and unused (`CounterGhost_PRD.md` G4).
- `DetectorExact` (action property): the reconciler reads the two totals at
  different times and compares two integers. If the nodes held, when it read them,
  what the log has when it compares, it repairs nothing. If it sees no difference,
  all amounts so far have one sign, and all the nodes held is in the log by now,
  the nodes held all the log has.
- `IndInv`: the inductive invariant of the proofs.
- `DetectorInv`: the same with what the reconciler has read (`SeenOnce`).
- `ImplementsLedger`: every step of the program is a step of `Ledger` or leaves
  it unchanged. This adds to the invariants what a step may never do: an
  operation never leaves the log or the dead letter queue, and never stops
  waiting before it is in one of them.

In `KafkaPipeline`:

- `OneLossPerFailure`: the operations that are published and will not reach the
  log are at most as many as kills plus failing statements. Redelivery, duplicates and the
  commit timer cost nothing more. A stronger property (no loss) is false, see
  below.
- `OneCopyPerFailure`: the topic holds each published operation once, but for one
  more copy for each kill and each failing statement. At least once is all that
  is promised, but nothing else makes a duplicate. The Kafka writer of
  `producer.go:53` may also try again by itself within one `Publish` and then
  report success: each acknowledgement it loses on the way counts as a failing
  statement here.
- `ImplementsTopicLedger`: the ledger, with the topic as part of the log.
- `PipelineInv`: the inductive invariant.

In `Manifest`:

- `RangesExact`: the ranges hold exactly the numbers that were read.
- `GapIsEvidence`: a number missing below a number in the ranges is that of an
  operation the node has acknowledged and lacks (`model.go:24`).
- `OneEpochExact`: with operations of one epoch the ranges are maximal and
  `HighestContiguousSeq` is the last number before the first gap.
- `EpochCovers`: the epoch, read last, is at least that of every operation listed.
- `ManifestInv`: the inductive invariant.

In `Watch`:

- `ReportsTrue`: the sentinel's latest word on a node is true whenever it is read,
  although it was decided on a snapshot taken earlier.
- `LastNodeKept`: the streamer alone never kills the last live node ("keep 1
  always alive"), although the crash comes after the count and any revival may
  fail. Once a handler crashes nodes as well (`calls > 0`) this is lost: the node
  that was counted may die in between.
- `OneLateCrash`: at most one crash begins after chaos has been switched off.
- `WatchInv`: the inductive invariant.

In `WsHub`:

- `NoPanic`: nobody sends to a closed channel or closes one twice.
- `NoGap`: what is published after a client has read the history reaches it, or
  a full buffer has cost it the event.
- `OnceAfterJoin`: and reaches it once. (Events from between the registration and
  the read of the history come twice.)
- `ImplementsFeed`: every step is a step of `Feed` or leaves it unchanged. Beyond
  `OnceAfterJoin` this says that what a full buffer has cost a client never comes
  after all, and what has been written stays.
- `HubInv`: the inductive invariant.

Liveness, under `FairSpec` and its counterparts:

- `Delivery`: every acknowledged operation reaches the log.
- `DeliveredOrPoisoned`: with failing statements and kills, it does unless it has
  used up its attempts.
- `Converge`: the totals become equal and stay equal.
- `Complete`: every node ends up with exactly the operations the log has for it.
- `Drains` (`KafkaPipeline`): in the end every acknowledged operation is in the
  log, was lost, or has used up its attempts.
- `DeathReported` (`Watch`): a node that is dead while the mutex is free is
  reported, unless it was dead when the sentinel started.
- `HandlerReturns` (`WsHub`): a handler gets through the history, unless more
  events have been broadcast to its client since it was registered than the send
  buffer has room for besides the history (78 in the code). Those before, those the
  bus has dropped and those still on their way do not count. If the limit is
  passed, the handler may block for good: the writer starts only after it.
- `Served` (`WsHub`): an event due to a connected client is handed to it or a full
  buffer drops it, unless the connection breaks first; nothing is forgotten on the
  way.
- `CleanedUp` (`WsHub`): a connection that is down leaves neither an entry nor a
  reader or writer behind, although the writer may be waiting for an event. (The
  ping goroutine, which is left out, ends at its next failed write.)
- `PillsLeave`, `CrashReported`: violated, see below.

**Fairness.** `WF(RunJob)`: an HTTP handler that has the mutex keeps running.
`SF(RunSyncer)` and `SF(RunReconciler)`: the agents' goroutines keep running, and
their calls that need `sim.mu` are enabled only while it is free; strong fairness
is what Go's `RWMutex` gives a waiter (an unlock admits all waiting readers, and a
writer that has waited is handed the lock). No fairness on requests, deltas or
restarts, and none on statements succeeding: faults stop only because `MaxFaults`
bounds them. `FairPipeline` adds weak fairness of the consumer, which needs no
lock, and none of the commits. `FairWatch` has the job and the sentinel only; the
streamer owes nothing. `WsHub!FairSpec` has weak fairness for each goroutine:
that of a reader asks no more than that `ReadMessage` returns once the connection
is down. Its steps that wait for the hub's mutex stay enabled or are enabled
again only while broadcasts end, and those are finitely many with `MaxEvents`.

## Runs

Bounds: `MaxAttempts` is 2 for the code's 5 (1 in
`faults`, so that two faults make a dead letter and refuse it) and `BatchLimit`
1 or 2 for the code's 50, so that the limit and a full batch are reached with
two operations; `MaxCalls` requests of the four handlers; `MaxRestarts` kills;
`MaxFaults` failing statements; operation ids are the bound on deltas. Two
operations are enough for a contiguous block with survivors, a batch with a
remainder, an interleaved delta, and two stamps that could be equal; handlers on
different nodes only share the mutex, so two nodes occur in the runs about the
agents' loops over nodes and in `watch`, where the streamer needs a spare one.
`manifest` has three operations, which two epochs and a gap need. `kafka` has two partitions, so
that an operation and its duplicate can be read in either order. `bus` has a
history of 2 (code: 200), a channel of 1 (64) and a send buffer of 3 (128) for 3
events, so that every buffer overflows; clients do not interact but through the
hub's mutex, which one client and the hub already contend for, and the proofs
cover any number. `SYMMETRY` is used only in runs without liveness. `bus` may
stop (all published and gone), so deadlock is not checked there.

| Run | Instance | Result |
|---|---|---|
| `faults` | 1 node, 2 operations, 2 calls, 1 restart, any 2 of six kinds of faults | all safety properties and `ImplementsLedger` hold |
| `repair` | 2 nodes, 2 operations, 1 call, both agents, no faults | `DetectorInv`, `RepairComplete`, `DetectorExact`, `Complete`, `Delivery` hold |
| `restart` | 1 node, 1 operation, 2 calls, 1 restart, 3 faults of six kinds (reloads too) | `Converge`, `DeliveredOrPoisoned` hold |
| `kafka` | 1 node, 2 operations, 2 partitions, PostgreSQL, 1 restart, 1 fault | `PipelineInv`, `OneLossPerFailure`, `OneCopyPerFailure`, `ImplementsTopicLedger`, `Drains` hold |
| `bus` | 1 client, 3 events | all eight properties hold |
| `manifest` | 1 node, 3 operations, 1 call, 1 restart, 1 fault | `ManifestInv`, `RangesExact`, `GapIsEvidence`, `OneEpochExact`, `EpochCovers` hold |
| `watch` | 2 nodes, 2 operations, 1 call, 1 switch, 2 failing revivals | `WatchInv`, `ReportsTrue`, `LastNodeKept`, `OneLateCrash`, `DeathReported` hold |
| `stuck_pill` | 1 node, 1 operation, 2 failing inserts and 1 failing dead letter | `PillsLeave` violated |
| `postgres_repair` | 1 node, 1 operation, 1 call, PostgreSQL | `Converge` violated |
| `kafka_loss` | 1 node, 1 operation, 1 partition, 1 restart | `Delivery` violated |
| `manifest_gap` | 1 node, 2 operations, 2 calls | `CompleteShowsNoGap` violated |
| `sentinel_blind` | 1 node, 1 operation, 1 call | `CrashReported` violated |

### What the violated runs show

- `stuck_pill`: `outbox_syncer.go:87` leaves a node with nothing to fetch before
  its poison pills are looked at. If the dead letter of the last pill failed
  once, it is stuck until the node applies another delta.
- `postgres_repair`: `Reconcile`, `RebuildFromLog` and `ReplayDelayedOps` use the
  SQLite functions on the coordinator, also with `UsePostgres`: nothing is
  repaired. `InsertDLQEntry` is SQLite text as well.
- `kafka_loss`: `ReadMessage` with a consumer group queues the offset for the next
  timed commit before the operation is inserted (`consumer.go:56`). A commit and a
  kill before the insert lose the operation, which the outbox has long marked:
  README:494 says "exactly-once delivery". `OneLossPerFailure` is what holds.
- `manifest_gap`: sequence numbers start again in every epoch and
  `computeProcessedRanges` mixes them without removing duplicates, so a node that
  has everything may show several ranges (`reconcile_test.go:177` expects one).
  `GapIsEvidence` and `OneEpochExact` are what holds.
- `sentinel_blind`: `CrashNode` holds `sim.mu` from before the death of the node to
  its revival, and the sentinel's snapshot needs it: an ordinary crash is never
  reported. Only a node whose revival failed is (`DeathReported`), and since
  nothing but a restart revives that one, `node_up` is never published
  (`NeverUp`, proved).

`Durable` is also the answer to README I2 and `crash.go:37`, which say that the
coordinator keeps what a crash deletes: the write to the coordinator is deferred
to the syncer, and a crash may come first; then only the outbox has the operation.

Only totals are compared (`reconciler.go:80`). `DetectorExact` says what that is
good for: a difference is never an error, and with amounts of one sign no
difference means that nothing of the log was missing, provided that all the nodes
held has reached it. With amounts of both signs, which `POST /api/apply` accepts,
two losses may cancel out and stay for ever, so `Complete` is checked with
amounts of one sign, and `DetectorExact` with it; what it says of other amounts
is proved (`ComparisonIsExact`).

`LastNodeKept` is about the streamer alone for the like reason: with crashes by
requests the count it acts on may be stale, and the last live node can die.

`Complete` also needs reloads that succeed, so `repair` has no faults:
a rebuild wipes an undelivered operation, the reload fails, and the stale value
equals the authoritative total once the syncer has delivered it. `Converge`,
which is about totals only, holds with failing reloads (`restart`).

## Proofs

For every value of the constants that satisfies the modules' assumptions (sizes
are natural numbers, limits are positive, ids are not model-internal values; for
the totals finite sets of nodes and ids, for `Manifest` a finite set of ids, for
`Watch` at least one node):

| Module | Theorems |
|---|---|
| `CounterGhostProofs` | `Invariance` (`IndInv`), `TypeCorrect`, `NothingLost` (`Durable`), `CountedOnce`, `StampsAreUnique`, `MemoryAgrees` (`CoherentAtRest`), `RepairIsComplete`, `ComesBackFresh` |
| `DetectorProofs` | `DetectorInvariance`, `ComparisonIsExact` (`DetectorExact`) |
| `LedgerProofs` | `ProgramIsLedger` (`Spec => ImplementsLedger`) |
| `KafkaProofs` | `PipelineInvariance`, `LossIsBounded`, `CopiesAreBounded`, `PipelineIsLedger` |
| `HubProofs` | `HubInvariance`, `HubNeverPanics`, `NoEventMissed`, `NoEventTwice` (`OnceAfterJoin`) |
| `FeedProofs` | `HubIsFeed` (`Spec => ImplementsFeed`) |
| `ManifestProofs` | `ManifestInvariance`, `RangesAreExact`, `GapsAreEvidence`, `OneEpochIsExact`, `EpochIsLast` |
| `WatchProofs` | `WatchInvariance`, `ReportsStayTrue`, `StreamerSparesOne`, `AtMostOneLateCrash` |

The properties are not inductive by themselves. `IndInv` adds:

- `Tables`: tables, and the lists a job or the syncer has read from them, hold
  only issued operations, a node's only its own. Without it a stale list could
  bring a foreign operation into a node (`OneContribution`), or an unissued one
  into the log.
- `Epochs`: no stamp has an epoch beyond the recorded one, memory is never behind
  the table, a live node is exactly in its recorded epoch, and a node about to be
  revived is in an epoch no operation has. This carries uniqueness across crashes
  and restarts, and is `FreshIncarnation`'s reason. It covers the step where the
  memory is ahead because the epoch row failed: the node is dead then.
- `Sequences`: within the current epoch the next sequence number is unused.
- `Outbox`: an entry is marked only when the log has the operation and goes only
  when the dead letter queue has it; between insert and mark the log has it.

- `Coherence`: value and table of a live node agree except while a job that has
  changed the table works on it; it names the places in the jobs.
- `RepairProgress`: what `Reconcile` has read stays where it was read, and what one
  side still lacks is on its list. The coordinator's table only grows, and what
  deletes from a node holds the mutex, too.

`CoreInv` is the part that does not depend on the way from the outbox to the log;
`Outbox` is the rest. `KafkaProofs` and `ManifestProofs` reuse the lemmas about
`CoreInv`. One lemma per conjunct shows that every step preserves it. They
rest on frame lemmas: `Frame` (only a delta issues operations, only a delta and
the syncer touch the outbox, the coordinator's tables only grow), `OwnKept`,
`NodeFrame` (which steps touch a node's memory), `ReadOwn`, `JobListsStep`, and
`NewEpochUnused` (the epoch a restart takes has no rows, so the sequence starts
at 1 whatever was deleted).

`ProgramIsLedger` shows step by step which action of `Ledger` each step is, under
`IndInv`: `Outbox` is what makes a mark a `Settle` and a deleted entry a `Bury`,
`UniqueStamps` what makes a delta an `Accept`, `OneContribution` what makes every
reload a `Revise`.

`ComparisonIsExact` is about two sums. `MapThenSumSet` is a recursive function
inside a `CHOOSE`, so the lemmas first show that such a function exists on the
subsets of a finite set (`SumExists`), level by level, and then that any element
may be taken first (`SumPeel`), that sums over disjoint sets add up (`SumUnion`)
and that numbers of one sign do not cancel out (`SumNotZero`). The induction is
over sets of sets (`SmallerSets`), not over a property given as an operator.
`SeenOnce` then makes the naive total the sum over the operations the nodes
contained (`TotalIsSum`), and `Tables` says that the log has no others.

`LossIsBounded` needs that committed offsets never pass the reader
(`CommitsFollow`): then a restart rewinds, so it can only take from `Lost`, except
for the message in hand; a failing insert lets go of that one message, too. Each
adds one operation to `Lost` and one to `restarts + faults`.

`CopiesAreBounded` counts messages against the operations `Handed` over, those
published whose entry waits no more or is about to be marked
(`CopiesPaid`). What the syncer publishes waits (`BatchWaits`), so a publish
adds one to both; a lost acknowledgement adds only a message, a lost mark or a
kill before the mark takes only an operation from `Handed`, and each adds one to
`restarts + faults`.

`HubInv` adds `Registration` to `NoPanic` and `NoGap`: a client is
closed when it leaves the table, a broadcast keeps the table as it is, and only a
returned handler has goroutines that can remove its client. `Flow` adds that an
event is on one way at a time: on the bus it is to be sent, in the hub's channel,
dropped or being broadcast; and what a client has handled (in its channel, written
or skipped) of the events after its join it has handled in one way, once, and the
bus and the broadcast have no more of it for this client. The history brings only events from
before the join, since `joined` is read with it. `OnceAfterJoin` follows: a broadcast appends an event
that the client has not handled, and its writer moves the oldest one over.
`HubIsFeed` uses the same invariant step by step: a step that hands over or drops
an event finds it among those `Owed`.

`ManifestInv` contains `Dense` (the numbers a node gives in an epoch are 1, 2, 3
and so on, with no hole among the acknowledged ones), from which a gap is
evidence, and the loop invariant `ManifestLoop`: the closed ranges together with
the open one are those of the prefix of the list already scanned.

`WatchInv` contains `Deaths`: what the sentinel takes for dead, or is about to, is
dead, and no crash that would revive it is under way. Crashes start on live
nodes, so it stays dead. `Spare` carries another live node from the streamer's
count to the end of its crash.

The runs `faults`, `repair`, `kafka`, `bus`, `manifest` and `watch` check the
inductive invariants with TLC. Every safety property of the passing runs is
proved; only model-checked is liveness, which is beyond the prover (fairness and
`ENABLED`).

## Not modelled

- **Temporal queries, audit log, the other read-only handlers, dashboard**: they
  read or append what no state depends on. Temporal queries compare the text of
  times, whose formatting is out of the models' reach; the audit log gets a row
  after an apply or a crash has taken effect, and nothing reads it back.
- **`Unsubscribe`** of the event bus has no caller in the repository; the ping
  goroutine of a connection only keeps it open (that it writes beside the writer
  is listed as a hazard: what happens then is the library's).
- **The start of the hub**: `run` subscribes in its own goroutine (`server.go:104`),
  so that an event published before that reaches no client live; the models start
  with the hub subscribed.
- **The streamer's speed**: its ticks may come at any time. The dropped change of
  speed (`autostream.go:217`) and the `node_down` event it publishes after the node
  is back (`autostream.go:173`) are listed as hazards.
- **`-reset`, configuration, containers, migration**; number widths; the text of
  timestamps, except that a full batch of the outbox may be any.
- `SetEnabled` of the agents and `SetLocalVal` of nodes are never called.

At this commit `main.go:153` calls `StartWithInfra` with five arguments and
`server.go:61` declares six, the sixth being the auto streamer, which `main.go`
never creates; the models follow the packages.

## What is left

The value of the manifest; the widths of the integers; the concurrent writes to a connection once the library's side is modelled.
