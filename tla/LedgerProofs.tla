---------------------------- MODULE LedgerProofs ----------------------------
(***************************************************************************)
(* CounterGhost implements the ledger of module Ledger, for every value of *)
(* its constants.                                                          *)
(***************************************************************************)
EXTENDS CounterGhostProofs

USE DEF Works, Fails, CoordWorks, CoordFails, InsertOperation, Return, At, Done,
        SetAlive, ReloadLocalVal

\* Requests, jobs, the reconciler agent and restarts leave the outbox and the
\* dead letter queue alone; a step of theirs records at most one operation, and
\* then changes no value.
LEMMA RepairFrame ==
    ASSUME CoreInv, [Next]_vars, ~Apply, ~RunSyncer
    PROVE  /\ UNCHANGED <<info, outbox, dlq>>
           /\ \/ UNCHANGED coord
              \/ UNCHANGED localVal /\ \E u \in Issued : coord' = coord \cup {u}
<1> DEFINE Kept == UNCHANGED <<info, outbox, coord, dlq>>
           Recorded == /\ UNCHANGED <<info, outbox, dlq, localVal>>
                       /\ \/ UNCHANGED coord
                          \/ \E u \in Issued : coord' = coord \cup {u}
<1> USE DEF storageVars, nodeVars
<1>1. ASSUME Request PROVE Kept
  BY <1>1 DEF Request, CrashSelect, ReconcileReadNode, RebuildReadCoord, LateReplayBegin
<1>2. CASE RunJob
  <2>1. ASSUME CrashDelete \/ CrashIncrementEpoch \/ CrashRevive \/ ReconcileReadCoord
               \/ ReconcileDetect \/ ReconcileReload \/ RebuildWipe \/ RebuildReload
               \/ LateReplayReload
        PROVE  Kept
    BY <2>1 DEF CrashDelete, CrashIncrementEpoch, CrashRevive, ReconcileReadCoord,
                ReconcileDetect, ReconcileReload, RebuildWipe, RebuildReload,
                ReloadAndReturn, LateReplayReload
  <2>2. ASSUME NEW u \in Uuid, ReconcileReplay(u) \/ RebuildReplay(u) PROVE Kept
    BY <2>2 DEF ReconcileReplay, RebuildReplay, InsertIntoNode
  <2>3. ASSUME NEW u \in Uuid, ReconcileSyncUp(u) \/ LateReplay(u) PROVE Recorded
    <3>1. u \in Issued
      BY <2>3 DEF ReconcileSyncUp, LateReplay, CoreInv, Tables, Locked, NoJob, Own
    <3> QED BY <2>3, <3>1 DEF ReconcileSyncUp, LateReplay
  <2> QED BY <1>2, <2>1, <2>2, <2>3 DEF RunJob, JobStep
<1>3. ASSUME RunReconciler PROVE Kept
  BY <1>3 DEF RunReconciler, RecStep, RecReadNaive, RecCompare, RecAllStates, RecReconcile,
              ReconcileReadNode, RecReturn
<1>4. ASSUME Restart PROVE Kept
  BY <1>4 DEF Restart, NewNodes
<1>5. ASSUME UNCHANGED vars PROVE Kept
  BY <1>5 DEF vars
<1> QED BY <1>1, <1>2, <1>3, <1>4, <1>5 DEF Next

---------------------------------------------------------------------------
(* The steps of the ledger.                                                *)

\* A delta is accepted.
LEMMA ApplyAccepts ==
    ASSUME CoreInv, CoreInv', Apply
    PROVE  \E u \in Uuid :
              /\ info[u] = NoOp
              /\ info'[u] \in Operation
              /\ \A v \in Issued : LedgerOf!Stamp(info[v]) # LedgerOf!Stamp(info'[u])
              /\ info' = [info EXCEPT ![u] = info'[u]]
              /\ Waiting' = Waiting \cup {u}
              /\ localVal' = [localVal EXCEPT ![info'[u].node] = [@ EXCEPT ![u] = 1]]
              /\ UNCHANGED <<coord, dlq, attempts>>
<1> PICK n \in Nodes, u \in Uuid, a \in Amounts : ApplyDelta(n, u, a)
  BY DEF Apply
<1>0. TypeOK /\ TypeOK' /\ OneContribution /\ UniqueStamps'
  BY DEF CoreInv
<1> USE StorageAssumption DEF TypeOK, StorageTypeOK, NodeTypeOK
<1>1. info[u] = NoOp /\ u \notin Issued
  BY DEF ApplyDelta, Issued
<1>2. /\ info' = [info EXCEPT ![u] = info'[u]]
      /\ info'[u] \in Operation
      /\ info'[u].node = n
  BY <1>0 DEF ApplyDelta, Operation
<1>3. \A v \in Issued : v # u /\ v \in Issued' /\ info'[v] = info[v] /\ u \in Issued'
  BY <1>0, <1>1, <1>2 DEF Issued
<1>4. \A v \in Issued : LedgerOf!Stamp(info[v]) # LedgerOf!Stamp(info'[u])
  BY <1>0, <1>3 DEF UniqueStamps, LedgerOf!Stamp
<1>5. Waiting' = Waiting \cup {u}
  BY <1>0 DEF ApplyDelta, Waiting
<1>6. localVal[n][u] = 0
  <2>1. localVal[n][u] \in Nat
    BY <1>0
  <2>2. localVal[n][u] <= 1 /\ localVal[n][u] # 1
    BY <1>0, <1>1 DEF OneContribution
  <2> QED BY <2>1, <2>2
<1>7. localVal' = [localVal EXCEPT ![n] = [@ EXCEPT ![u] = 1]]
  BY <1>0, <1>6 DEF ApplyDelta
<1> QED BY <1>1, <1>2, <1>4, <1>5, <1>7 DEF ApplyDelta

\* What a step that changes no table of the ledger leaves in the values.
LEMMA ValuesRevised ==
    ASSUME CoreInv', UNCHANGED info
    PROVE  /\ localVal' \in [Nodes -> [Uuid -> {0, 1}]]
           /\ \A n \in Nodes, u \in Uuid :
                 localVal'[n][u] = 1 => u \in Issued /\ info[u].node = n
<1>1. TypeOK' /\ OneContribution' /\ Issued' = Issued
  BY DEF CoreInv, Issued
<1>2. localVal' \in [Nodes -> [Uuid -> Nat]]
  BY <1>1 DEF TypeOK, NodeTypeOK
<1>3. \A n \in Nodes, u \in Uuid : localVal'[n][u] \in {0, 1}
  <2> TAKE n \in Nodes, u \in Uuid
  <2>1. localVal'[n][u] \in Nat /\ localVal'[n][u] <= 1
    BY <1>1, <1>2 DEF OneContribution
  <2> QED BY <2>1
<1> QED BY <1>1, <1>2, <1>3 DEF OneContribution

\* Steps of the program as steps of the ledger.
LEMMA LedgerStep ==
    ASSUME IndInv, IndInv', [Next]_vars
    PROVE  [LedgerOf!Next]_(LedgerOf!ledgerVars)
<1>0. CoreInv /\ CoreInv' /\ TypeOK /\ LedgerOf!Accepted = Issued
  BY DEF IndInv, CoreInv, LedgerOf!Accepted, Issued
<1>1. ASSUME NEW u \in Issued, UNCHANGED <<info, outbox, dlq, localVal>>, coord' = coord \cup {u}
      PROVE  LedgerOf!Next
  <2>1. LedgerOf!Record(u)
    BY <1>0, <1>1 DEF LedgerOf!Record, Waiting
  <2> QED BY <2>1 DEF LedgerOf!Next, Issued
<1>2. CASE Apply
  <2> PICK u \in Uuid : LedgerOf!Accept(u)
    BY <1>0, <1>2, ApplyAccepts DEF LedgerOf!Accept
  <2> QED BY DEF LedgerOf!Next
<1>3. CASE RunSyncer /\ ~Apply
  <2>0. info' = info
    BY <1>3, Frame
  <2>1. ASSUME NEW u \in Uuid, SyncWrite(u) \/ SyncWriteFailed(u)
        PROVE  [LedgerOf!Next]_(LedgerOf!ledgerVars)
    <3>1. u \in Issued
      BY <1>0, <2>1 DEF SyncWrite, SyncWriteFailed, CoreInv, Tables
    <3>2. /\ UNCHANGED <<outbox, dlq, localVal>>
          /\ coord' = coord \/ coord' = coord \cup {u}
      BY <2>1 DEF SyncWrite, SyncWriteFailed, nodeVars
    <3> QED BY <1>1, <2>0, <3>1, <3>2 DEF LedgerOf!ledgerVars, Waiting
  <2>2. CASE SyncMark
    <3>1. /\ UNCHANGED <<coord, dlq, localVal>>
          /\ outbox' \in {outbox, [outbox EXCEPT ![sync.op] = "synced"]}
          /\ sync.op \in coord
      BY <2>2 DEF SyncMark, MarkOutboxSynced, nodeVars, IndInv, Outbox
    <3>2. Waiting' = Waiting \/ Waiting' = Waiting \ {sync.op}
      BY <1>0, <3>1 DEF Waiting, TypeOK, StorageTypeOK
    <3>3. ASSUME sync.op \in Waiting, Waiting' = Waiting \ {sync.op} PROVE LedgerOf!Next
      <4>1. LedgerOf!Settle(sync.op)
        BY <2>0, <3>1, <3>3 DEF LedgerOf!Settle
      <4>2. sync.op \in Uuid
        BY <3>3 DEF Waiting
      <4> QED BY <4>1, <4>2 DEF LedgerOf!Next
    <3> QED BY <2>0, <3>1, <3>2, <3>3 DEF LedgerOf!ledgerVars
  <2>3. ASSUME NEW u \in Uuid, SyncDeadLetter(u)
        PROVE  [LedgerOf!Next]_(LedgerOf!ledgerVars)
    <3>1. /\ UNCHANGED <<coord, localVal>>
          /\ outbox' \in {outbox, [outbox EXCEPT ![u] = "absent"]}
          /\ dlq' = dlq \cup {u}
      BY <2>3 DEF SyncDeadLetter, DeleteOutboxEntry, InsertDLQEntry, nodeVars
    <3>2. Waiting' \in {Waiting, Waiting \ {u}}
      BY <1>0, <3>1 DEF Waiting, TypeOK, StorageTypeOK
    <3>3. CASE u \in Waiting
      <4>1. LedgerOf!Bury(u)
        BY <2>0, <3>1, <3>2, <3>3 DEF LedgerOf!Bury
      <4> QED BY <4>1 DEF LedgerOf!Next
    <3>4. CASE u \notin Waiting
      BY <1>0, <2>3, <3>4 DEF Waiting, CoreInv, PillsWait, SyncDeadLetter
    <3> QED BY <3>3, <3>4
  <2>4. CASE SyncTick \/ SyncMark \/ SyncFetchPills \/ SyncNodeDone \/ SyncReturn
             \/ (\E n \in Nodes : SyncFetch(n)) \/ (\E u \in Uuid : SyncDeadLetterFailed(u))
    <3>1. CASE SyncMark
      BY <2>2, <3>1
    <3>2. CASE ~SyncMark
      BY <2>0, <2>4, <3>2
         DEF SyncTick, SyncFetchPills, SyncNodeDone, SyncReturn, SyncFetch,
             SyncDeadLetterFailed, storageVars, nodeVars, LedgerOf!ledgerVars, Waiting
    <3> QED BY <3>1, <3>2
  <2> QED BY <1>3, <2>1, <2>2, <2>3, <2>4 DEF RunSyncer, SyncStep
<1>4. CASE ~Apply /\ ~RunSyncer
  <2>1. UNCHANGED <<info, outbox, dlq, Waiting>>
    BY <1>0, <1>4, RepairFrame DEF Waiting
  <2>2. CASE UNCHANGED coord
    <3>1. LedgerOf!Revise
      BY <1>0, <2>1, <2>2, ValuesRevised DEF LedgerOf!Revise
    <3> QED BY <3>1 DEF LedgerOf!Next
  <2>3. ASSUME NEW u \in Issued, UNCHANGED localVal, coord' = coord \cup {u}
        PROVE  LedgerOf!Next
    BY <1>1, <2>1, <2>3
  <2> QED BY <1>0, <1>4, <2>2, <2>3, RepairFrame
<1> QED BY <1>2, <1>3, <1>4

\* The program implements the ledger: README I1, what I2 comes to with the
\* outbox (Durable), and the uniqueness of stamps, in every behaviour, step by
\* step.
THEOREM ProgramIsLedger == Spec => ImplementsLedger
<1>1. Init => LedgerOf!Init
  BY DEF Init, StorageInit, NodeInit, LedgerOf!Init, Waiting, Once
<1>2. IndInv /\ IndInv' /\ [Next]_vars => [LedgerOf!Next]_(LedgerOf!ledgerVars)
  BY LedgerStep
<1> QED BY <1>1, <1>2, Invariance, PTL DEF Spec, ImplementsLedger, LedgerOf!Spec
=============================================================================
