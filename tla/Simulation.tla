----------------------------- MODULE Simulation -----------------------------
(***************************************************************************)
(* The four operations of internal/simulation that change state: CrashNode,*)
(* Reconcile, RebuildFromLog and ReplayDelayedOps.  Each holds sim.mu from *)
(* its first step to its return, so at most one runs at a time: job is the *)
(* running one, and holding the mutex is job # NoJob.  ApplyDelta and the  *)
(* outbox syncer do not take sim.mu: they run between any two steps here.  *)
(*                                                                         *)
(* A job's steps are the statements it sends to the databases.  Loops over *)
(* operations take them in any order: the steps of one loop commute.       *)
(***************************************************************************)
EXTENDS CounterNode

VARIABLES job,      \* the operation that holds sim.mu, with its local variables
          crashed   \* lastCrashedOps: what the latest crash of a node deleted

simVars == <<job, crashed>>

\* pc names the next statement.  nodeOps and coordOps are the lists the job
\* has read, todo is what remains of the loop it is in, and dirty is
\* syncedToCoord > 0 in Reconcile and newInserts > 0 in ReplayDelayedOps.
Job == [pc : {"idle",
              "crash_delete", "crash_epoch", "crash_revive",
              "reconcile_coord", "reconcile_syncup", "reconcile_replay",
              "rebuild_wipe", "rebuild_replay",
              "late_replay"},
        node : Nodes \cup {"none"},
        nodeOps : SUBSET Uuid, coordOps : SUBSET Uuid, todo : SUBSET Uuid,
        dirty : BOOLEAN]

NoJob == [pc |-> "idle", node |-> "none", nodeOps |-> {}, coordOps |-> {},
          todo |-> {}, dirty |-> FALSE]

Locked == job # NoJob

Return == job' = NoJob

At(pc) == job.pc = pc

Done(u) == job' = [job EXCEPT !.todo = @ \ {u}]

SimTypeOK ==
    /\ job \in Job
    /\ crashed \in [Nodes -> SUBSET Uuid]

SimInit ==
    /\ job = NoJob
    /\ crashed = [n \in Nodes |-> {}]

---------------------------------------------------------------------------
(* CrashNode.                                                              *)

\* A block of the list GetOperationsByNode returns.
ContiguousBlock(table, S) ==
    /\ S # {}
    /\ S \subseteq table
    /\ \A u, w \in S, v \in table : Before(u, v) /\ Before(v, w) => v \in S

\* deleteCount and the seeded generator can select any block.
CrashSelect(n, S) ==
    /\ alive[n]
    /\ ContiguousBlock(GetOperationsByNode(nodeDB[n], n), S)
    /\ ~Locked
    /\ job' = [NoJob EXCEPT !.pc = "crash_delete", !.node = n, !.todo = S]
    /\ crashed' = [crashed EXCEPT ![n] = S]
    /\ UNCHANGED <<storageVars, nodeVars>>

\* (Faulty variant: the operations are deleted from both databases.)
CrashDeleteEverywhere ==
    /\ At("crash_delete")
    /\ Works
    /\ DeleteOperations(job.node, job.todo)
    /\ coord' = coord \ job.todo
    /\ job' = [job EXCEPT !.pc = "crash_epoch", !.todo = {}]
    /\ UNCHANGED <<info, outbox, attempts, recorded, dlq, nodeVars, crashed>>

CrashDelete ==
    /\ At("crash_delete")
    /\ \/ /\ Works
          /\ DeleteOperations(job.node, job.todo)
          /\ job' = [job EXCEPT !.pc = "crash_epoch", !.todo = {}]
       \/ /\ Fails("node")
          /\ Return
          /\ UNCHANGED nodeDB
    /\ UNCHANGED <<info, outbox, attempts, recorded, coord, dlq, nodeVars, crashed>>

\* (Faulty variant: the error of the epoch row is ignored.)
CrashIncrementEpochUnchecked ==
    /\ At("crash_epoch")
    /\ SetAlive(job.node, FALSE)
    /\ \/ Works /\ IncrementEpoch(job.node, TRUE)
       \/ Fails("revive") /\ IncrementEpoch(job.node, FALSE)
    /\ job' = [job EXCEPT !.pc = "crash_revive"]
    /\ UNCHANGED <<info, nodeDB, outbox, attempts, coord, dlq, localVal, crashed>>

\* An epoch row that cannot be inserted leaves the node dead, with the memory
\* one epoch ahead of the table.
CrashIncrementEpoch ==
    /\ At("crash_epoch")
    /\ SetAlive(job.node, FALSE)
    /\ \/ /\ Works
          /\ IncrementEpoch(job.node, TRUE)
          /\ job' = [job EXCEPT !.pc = "crash_revive"]
       \/ /\ Fails("revive")
          /\ IncrementEpoch(job.node, FALSE)
          /\ Return
    /\ UNCHANGED <<info, nodeDB, outbox, attempts, coord, dlq, localVal, crashed>>

CrashRevive ==
    /\ At("crash_revive")
    /\ \/ /\ Works
          /\ ReloadLocalVal(job.node)
          /\ SetAlive(job.node, TRUE)
       \/ Fails("revive") /\ UNCHANGED <<localVal, alive>>
    /\ Return
    /\ UNCHANGED <<info, nodeDB, outbox, attempts, recorded, coord, dlq,
                   epoch, nextSeq, crashed>>

---------------------------------------------------------------------------
(* Reconcile.                                                              *)

\* It does not ask whether the node is alive.
ReconcileReadNode(n) ==
    /\ ~Locked
    /\ job' = [NoJob EXCEPT !.pc = "reconcile_coord", !.node = n,
                            !.nodeOps = GetOperationsByNode(nodeDB[n], n)]
    /\ UNCHANGED <<storageVars, nodeVars, crashed>>

\* (Faulty variant: without Phase 1.)
ReconcileReadCoordOneWay ==
    /\ At("reconcile_coord")
    /\ \/ /\ CoordWorks
          /\ job' = [job EXCEPT !.pc = "reconcile_syncup",
                                !.coordOps = GetOperationsByNode(coord, job.node)]
       \/ CoordFails /\ Return
    /\ UNCHANGED <<info, nodeDB, outbox, attempts, recorded, coord, dlq,
                   nodeVars, crashed>>

ReconcileReadCoord ==
    /\ At("reconcile_coord")
    /\ \/ /\ CoordWorks
          /\ LET ops == GetOperationsByNode(coord, job.node)
             IN job' = [job EXCEPT !.pc = "reconcile_syncup", !.coordOps = ops,
                                   !.todo = job.nodeOps \ ops]
       \/ CoordFails /\ Return
    /\ UNCHANGED <<info, nodeDB, outbox, attempts, recorded, coord, dlq,
                   nodeVars, crashed>>

\* Phase 1.  A failed insert is logged and skipped; one that finds the row
\* already there, written by the outbox syncer meanwhile, does not count.
ReconcileSyncUp(u) ==
    /\ At("reconcile_syncup")
    /\ u \in job.todo
    /\ \/ /\ CoordWorks
          /\ coord' = InsertOperation(coord, u)
          /\ job' = [job EXCEPT !.todo = @ \ {u}, !.dirty = @ \/ u \notin coord]
       \/ CoordFails /\ Done(u) /\ UNCHANGED coord
    /\ UNCHANGED <<info, nodeDB, outbox, attempts, recorded, dlq, nodeVars, crashed>>

\* Phase 2.  The coordinator's list is read again only if Phase 1 inserted a
\* row, the node's list never is.
ReconcileDetect ==
    /\ At("reconcile_syncup")
    /\ job.todo = {}
    /\ LET Detect(ops) == job' = [job EXCEPT !.pc = "reconcile_replay", !.coordOps = ops,
                                             !.todo = ops \ job.nodeOps]
       IN \/ ~job.dirty /\ Works /\ Detect(job.coordOps)
          \/ job.dirty /\ CoordWorks /\ Detect(GetOperationsByNode(coord, job.node))
          \/ job.dirty /\ CoordFails /\ Return
    /\ UNCHANGED <<info, nodeDB, outbox, attempts, recorded, coord, dlq,
                   nodeVars, crashed>>

\* An insert into the node's table inside the loops of Reconcile (Phase 3) and
\* RebuildFromLog: an error is logged and the operation skipped.
InsertIntoNode(u) ==
    /\ u \in job.todo
    /\ \/ Works /\ nodeDB' = [nodeDB EXCEPT ![job.node] = InsertOperation(@, u)]
       \/ Fails("node") /\ UNCHANGED nodeDB
    /\ Done(u)
    /\ UNCHANGED <<info, outbox, attempts, recorded, coord, dlq, nodeVars, crashed>>

\* The reload that ends both, after the loop.
ReloadAndReturn ==
    /\ job.todo = {}
    /\ \/ Works /\ ReloadLocalVal(job.node)
       \/ Fails("reload") /\ UNCHANGED localVal
    /\ Return
    /\ UNCHANGED <<info, nodeDB, outbox, attempts, recorded, coord, dlq,
                   epoch, nextSeq, alive, crashed>>

ReconcileReplay(u) == At("reconcile_replay") /\ InsertIntoNode(u)

ReconcileReload == At("reconcile_replay") /\ ReloadAndReturn

---------------------------------------------------------------------------
(* RebuildFromLog: the coordinator's list is read before the wipe, and the *)
(* node's own list never is.                                               *)

RebuildReadCoord(n) ==
    /\ alive[n]
    /\ ~Locked
    /\ \/ /\ CoordWorks
          /\ job' = [NoJob EXCEPT !.pc = "rebuild_wipe", !.node = n,
                                  !.coordOps = GetOperationsByNode(coord, n)]
       \/ CoordFails /\ Return
    /\ UNCHANGED <<info, nodeDB, outbox, attempts, recorded, coord, dlq,
                   nodeVars, crashed>>

RebuildWipe ==
    /\ At("rebuild_wipe")
    /\ \/ /\ Works
          /\ DeleteAllOperations(job.node)
          /\ job' = [job EXCEPT !.pc = "rebuild_replay", !.todo = job.coordOps]
       \/ Fails("node") /\ Return /\ UNCHANGED nodeDB
    /\ UNCHANGED <<info, outbox, attempts, recorded, coord, dlq, nodeVars, crashed>>

RebuildReplay(u) == At("rebuild_replay") /\ InsertIntoNode(u)

RebuildReload == At("rebuild_replay") /\ ReloadAndReturn

---------------------------------------------------------------------------
(* ReplayDelayedOps: late delivery of what the latest crash deleted.       *)

LateReplayBegin(n) ==
    /\ crashed[n] # {}
    /\ ~Locked
    /\ job' = [NoJob EXCEPT !.pc = "late_replay", !.node = n, !.todo = crashed[n]]
    /\ UNCHANGED <<storageVars, nodeVars, crashed>>

\* A failed insert into the node skips the coordinator's; a failed insert into
\* the coordinator is not even noticed.
LateReplay(u) ==
    /\ At("late_replay")
    /\ u \in job.todo
    /\ \/ /\ Fails("node")
          /\ Done(u)
          /\ UNCHANGED <<nodeDB, coord>>
       \/ /\ nodeDB' = [nodeDB EXCEPT ![job.node] = InsertOperation(@, u)]
          /\ job' = [job EXCEPT !.todo = @ \ {u},
                                !.dirty = @ \/ u \notin nodeDB[job.node]]
          /\ \/ CoordWorks /\ coord' = InsertOperation(coord, u)
             \/ CoordFails /\ UNCHANGED coord
    /\ UNCHANGED <<info, outbox, attempts, recorded, dlq, nodeVars, crashed>>

\* (Faulty variant: the value is left to the next reload.)
LateReplayReloadSkipped ==
    /\ At("late_replay")
    /\ job.todo = {}
    /\ Works
    /\ Return
    /\ UNCHANGED <<info, nodeDB, outbox, attempts, recorded, coord, dlq, nodeVars, crashed>>

\* The value is reloaded only if some insert was new, and a failure is ignored.
LateReplayReload ==
    /\ At("late_replay")
    /\ job.todo = {}
    /\ \/ job.dirty /\ Works /\ ReloadLocalVal(job.node)
       \/ job.dirty /\ Fails("reload") /\ UNCHANGED localVal
       \/ ~job.dirty /\ Works /\ UNCHANGED localVal
    /\ Return
    /\ UNCHANGED <<info, nodeDB, outbox, attempts, recorded, coord, dlq,
                   epoch, nextSeq, alive, crashed>>

---------------------------------------------------------------------------
\* A step of the operation that holds sim.mu.
JobStep ==
    \/ CrashDelete
    \/ CrashIncrementEpoch
    \/ CrashRevive
    \/ ReconcileReadCoord
    \/ \E u \in Uuid : ReconcileSyncUp(u)
    \/ ReconcileDetect
    \/ \E u \in Uuid : ReconcileReplay(u)
    \/ ReconcileReload
    \/ RebuildWipe
    \/ \E u \in Uuid : RebuildReplay(u)
    \/ RebuildReload
    \/ \E u \in Uuid : LateReplay(u)
    \/ LateReplayReload
=============================================================================
