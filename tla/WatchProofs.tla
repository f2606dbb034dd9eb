---------------------------- MODULE WatchProofs ----------------------------
(***************************************************************************)
(* Proofs about module Watch, for any number of nodes, operations, crashes,*)
(* switches and failing statements.                                        *)
(***************************************************************************)
EXTENDS Watch, FiniteSetTheorems, TLAPS

\* Without a job no crash is under way.
LEMMA Unlocked == ASSUME ~Locked PROVE job.pc = "idle" /\ ~Crashing
BY DEF Locked, NoJob, Crashing

LEMMA NoJobFields == /\ DOMAIN NoJob = {"pc", "node", "nodeOps", "coordOps", "todo", "dirty"}
                     /\ NoJob.pc = "idle"
BY DEF NoJob

\* What a step of a job does to job.
LEMMA JobMoves ==
    ASSUME WatchTypes, JobStep
    PROVE  \/ job' = NoJob
           \/ /\ DOMAIN job' = DOMAIN job
              /\ job'.node = job.node
              /\ \/ job'.pc = job.pc /\ ~Crashing
                 \/ job'.pc \in {"reconcile_syncup", "reconcile_replay", "rebuild_replay"}
                 \/ CrashDelete /\ job'.pc = "crash_epoch"
                 \/ CrashIncrementEpoch /\ job'.pc = "crash_revive"
<1> USE DEF WatchTypes, At, Return
<1>1. CASE CrashDelete
  BY <1>1 DEF CrashDelete
<1>2. CASE CrashIncrementEpoch
  BY <1>2 DEF CrashIncrementEpoch
<1>3. CASE CrashRevive
  BY <1>3 DEF CrashRevive
<1>4. CASE ReconcileReadCoord
  BY <1>4 DEF ReconcileReadCoord
<1>5. ASSUME NEW u \in Uuid, ReconcileSyncUp(u)
      PROVE  /\ DOMAIN job' = DOMAIN job /\ job'.node = job.node
             /\ job'.pc = job.pc /\ ~Crashing
  BY <1>5 DEF ReconcileSyncUp, Done, Crashing
<1>6. CASE ReconcileDetect
  BY <1>6 DEF ReconcileDetect
<1>7. ASSUME NEW u \in Uuid, ReconcileReplay(u) \/ RebuildReplay(u)
      PROVE  /\ DOMAIN job' = DOMAIN job /\ job'.node = job.node
             /\ job'.pc = job.pc /\ ~Crashing
  BY <1>7 DEF ReconcileReplay, RebuildReplay, InsertIntoNode, Done, Crashing
<1>8. CASE ReconcileReload \/ RebuildReload \/ LateReplayReload
  BY <1>8 DEF ReconcileReload, RebuildReload, ReloadAndReturn, LateReplayReload
<1>9. CASE RebuildWipe
  BY <1>9 DEF RebuildWipe
<1>10. ASSUME NEW u \in Uuid, LateReplay(u)
       PROVE  /\ DOMAIN job' = DOMAIN job /\ job'.node = job.node
              /\ job'.pc = job.pc /\ ~Crashing
  BY <1>10 DEF LateReplay, Done, Crashing
<1> QED BY <1>1, <1>2, <1>3, <1>4, <1>5, <1>6, <1>7, <1>8, <1>9, <1>10 DEF JobStep

\* What it does to alive.
LEMMA AliveMoves ==
    ASSUME JobStep
    PROVE  \/ alive' = alive /\ ~CrashIncrementEpoch
           \/ CrashIncrementEpoch /\ alive' = [alive EXCEPT ![job.node] = FALSE]
           \/ /\ At("crash_revive") /\ job' = NoJob
              /\ alive' = [alive EXCEPT ![job.node] = TRUE]
<1> USE DEF nodeVars, At
<1>1. CASE CrashIncrementEpoch
  BY <1>1 DEF CrashIncrementEpoch, SetAlive
<1>2. CASE CrashRevive
  <2>1. ~CrashIncrementEpoch
    BY <1>2 DEF CrashRevive, CrashIncrementEpoch
  <2> QED BY <1>2, <2>1 DEF CrashRevive, SetAlive, Return
<1>3. CASE ~CrashIncrementEpoch /\ ~CrashRevive
  BY <1>3 DEF JobStep, CrashDelete, ReconcileReadCoord, ReconcileSyncUp, ReconcileDetect,
     ReconcileReplay, RebuildReplay, InsertIntoNode, ReconcileReload, RebuildReload,
     ReloadAndReturn, LateReplayReload, RebuildWipe, LateReplay
<1> QED BY <1>1, <1>2, <1>3

---------------------------------------------------------------------------
\* A crash starts on a live node while no operation holds the mutex.
LEMMA Started ==
    ASSUME NEW n \in Nodes, NEW S, CrashSelect(n, S)
    PROVE  /\ ~Locked /\ alive[n] /\ alive' = alive
           /\ DOMAIN job' = {"pc", "node", "nodeOps", "coordOps", "todo", "dirty"}
           /\ job'.pc = "crash_delete" /\ job'.node = n
BY DEF CrashSelect, NoJob, nodeVars

LEMMA Requested ==
    ASSUME Request
    PROVE  /\ ~Locked /\ alive' = alive /\ calls' = calls + 1
           /\ DOMAIN job' = {"pc", "node", "nodeOps", "coordOps", "todo", "dirty"}
           /\ \/ job'.pc \notin {"crash_delete", "crash_epoch", "crash_revive"}
              \/ job'.pc = "crash_delete" /\ job'.node \in Nodes /\ alive[job'.node]
<1> PICK n \in Nodes :
       \/ \E S \in SUBSET nodeDB[n] : CrashSelect(n, S)
       \/ ReconcileReadNode(n)
       \/ RebuildReadCoord(n)
       \/ LateReplayBegin(n)
  BY DEF Request
<1>0. calls' = calls + 1
  BY DEF Request
<1>1. ASSUME NEW S, CrashSelect(n, S)
      PROVE  /\ ~Locked /\ alive' = alive
             /\ DOMAIN job' = {"pc", "node", "nodeOps", "coordOps", "todo", "dirty"}
             /\ job'.pc = "crash_delete" /\ job'.node \in Nodes /\ alive[job'.node]
  BY <1>1, Started
<1>2. CASE ReconcileReadNode(n) \/ LateReplayBegin(n)
  BY <1>0, <1>2 DEF ReconcileReadNode, LateReplayBegin, NoJob, nodeVars
<1>3. CASE RebuildReadCoord(n)
  <2>1. ~Locked /\ alive' = alive
    BY <1>3 DEF RebuildReadCoord, nodeVars
  <2>2. CASE job' = NoJob
    BY <1>0, <2>1, <2>2, NoJobFields
  <2>3. CASE job' # NoJob
    <3>1. PICK N, T : job' = [NoJob EXCEPT !.pc = "rebuild_wipe", !.node = N, !.coordOps = T]
      BY <1>3, <2>3 DEF RebuildReadCoord, Return
    <3>2. DOMAIN job' = {"pc", "node", "nodeOps", "coordOps", "todo", "dirty"} /\ job'.pc = "rebuild_wipe"
      BY <3>1, NoJobFields
    <3> QED BY <1>0, <2>1, <3>2
  <2> QED BY <2>2, <2>3
<1> QED BY <1>0, <1>1, <1>2, <1>3

\* Every step, seen from the nodes: it leaves them and the running operation
\* alone, or starts an operation, or is a statement of the running one.
LEMMA Moves ==
    ASSUME WatchTypes, [WatchNext]_watchVars
    PROVE  \/ UNCHANGED <<alive, job, calls>>
           \/ Request /\ UNCHANGED <<senVars, strVars>>
           \/ /\ ChaosCrash /\ UNCHANGED <<calls, senVars>>
              /\ StrAt("chaos_crash")
              /\ \E S : CrashSelect(str.node, S)
              /\ str' = [pc |-> "chaos_wait", node |-> str.node]
           \/ JobStep /\ UNCHANGED <<calls, senVars, strVars>>
<1> USE DEF vars, storageVars, nodeVars, simVars
<1>1. CASE Others
  <2>1. Apply => UNCHANGED <<alive, job, calls>>
    BY DEF Apply, ApplyDelta
  <2> QED BY <1>1, <2>1 DEF Others, RunJob
<1>2. CASE RunSentinel \/ Switch
  BY <1>2 DEF RunSentinel, Switch, SetStreamEnabled, SetChaosEnabled
<1>3. CASE RunStreamer
  <2>1. CASE ChaosCrash
    BY <1>3, <2>1 DEF RunStreamer, ChaosCrash, Goto
  <2>2. CASE ~ChaosCrash
    BY <1>3, <2>2 DEF RunStreamer, StrStep, StrOnly, OrderTick, OrderStates, OrderApply, ApplyDelta,
                      ChaosTick, ChaosStates, ChaosReturn
  <2> QED BY <2>1, <2>2
<1>4. CASE UNCHANGED watchVars
  BY <1>4 DEF watchVars
<1> QED BY <1>1, <1>2, <1>3, <1>4 DEF WatchNext

LEMMA WatchTypesStep == ASSUME WatchTypes, CrashStages, [WatchNext]_watchVars PROVE WatchTypes'
<1>1. /\ alive' \in [Nodes -> BOOLEAN] /\ DOMAIN job' = DOMAIN job /\ calls' \in Nat
  <2>1. CASE UNCHANGED <<alive, job, calls>>
    BY <2>1 DEF WatchTypes
  <2>2. CASE Request
    BY <2>2, Requested DEF WatchTypes
  <2>3. ASSUME NEW S, CrashSelect(str.node, S), StrAt("chaos_crash"), calls' = calls
        PROVE  alive' \in [Nodes -> BOOLEAN] /\ DOMAIN job' = DOMAIN job /\ calls' \in Nat
    BY <2>3 DEF CrashSelect, NoJob, nodeVars, WatchTypes
  <2>4. CASE JobStep /\ calls' = calls
    BY <2>4, JobMoves, AliveMoves, NoJobFields DEF WatchTypes
  <2> QED BY <2>1, <2>2, <2>3, <2>4, Moves
<1>2. SenTypeOK'
  <2> USE DEF SenTypeOK, Watcher, WatchTypes, senVars
  <2>1. CASE RunSentinel
    <3>1. CASE SenStart \/ SenPoll
      BY <3>1 DEF SenStart, SenPoll
    <3>2. CASE SenReport
      <4>1. \A n \in Nodes : Transition(sen.status[n], sen.seen[n], report[n]) \in {"none", "down", "up"}
        BY DEF Transition
      <4>2. report' = [n \in Nodes |-> Transition(sen.status[n], sen.seen[n], report[n])]
        BY <3>2 DEF SenReport, Report
      <4>3. sen' = [sen EXCEPT !.pc = "idle", !.status = [n \in Nodes |-> sen.seen[n]]]
        BY <3>2 DEF SenReport, Report
      <4>4. sen' \in Watcher
        BY <4>3
      <4> QED BY <4>1, <4>2, <4>4
    <3> QED BY <2>1, <3>1, <3>2 DEF RunSentinel, SenStep
  <2>2. CASE UNCHANGED senVars
    BY <2>2
  <2> QED BY <2>1, <2>2 DEF WatchNext, Others, RunStreamer, Switch, watchVars
<1>3. /\ StrTypeOK'
      /\ (str.pc \in {"order_apply", "chaos_crash", "chaos_wait"} => str.node \in Nodes)'
  <2> USE DEF StrTypeOK, Streamer, WatchTypes, strVars, Goto, StrOnly, Alive
  <2>1. CASE RunStreamer
    <3>1. CASE OrderTick \/ ChaosTick
      BY <3>1 DEF OrderTick, ChaosTick
    <3>2. CASE OrderStates \/ ChaosStates
      BY <3>2 DEF OrderStates, ChaosStates
    <3>3. CASE OrderApply \/ ChaosReturn
      BY <3>3 DEF OrderApply, ChaosReturn
    <3>4. CASE ChaosCrash
      BY <3>4 DEF ChaosCrash, StrAt
    <3> QED BY <2>1, <3>1, <3>2, <3>3, <3>4 DEF RunStreamer, StrStep
  <2>2. CASE Switch
    BY <2>2 DEF Switch, SetStreamEnabled, SetChaosEnabled
  <2>3. CASE UNCHANGED strVars
    BY <2>3
  <2> QED BY <2>1, <2>2, <2>3 DEF WatchNext, Others, RunSentinel, watchVars
<1> QED BY <1>1, <1>2, <1>3 DEF WatchTypes

LEMMA StagesStep == ASSUME WatchTypes, CrashStages, [WatchNext]_watchVars PROVE CrashStages'
<1> USE DEF CrashStages, Crashing, At
<1>1. CASE UNCHANGED <<alive, job, calls>>
  BY <1>1
<1>2. CASE Request
  BY <1>2, Requested
<1>3. ASSUME NEW S, CrashSelect(str.node, S), StrAt("chaos_crash") PROVE CrashStages'
  <2>1. job'.pc = "crash_delete" /\ job'.node = str.node /\ alive[str.node] /\ alive' = alive
    BY <1>3 DEF CrashSelect, NoJob, nodeVars
  <2>2. str.node \in Nodes
    BY <1>3 DEF WatchTypes, StrAt
  <2> QED BY <2>1, <2>2
<1>4. CASE JobStep
  <2>1. CASE job' = NoJob
    BY <2>1, NoJobFields
  <2>2. CASE CrashDelete /\ job'.pc = "crash_epoch" /\ job'.node = job.node
    <3>1. alive' = alive /\ alive[job.node] /\ job.node \in Nodes
      BY <2>2 DEF CrashDelete, nodeVars
    <3> QED BY <2>2, <3>1
  <2>3. CASE CrashIncrementEpoch /\ job'.pc = "crash_revive" /\ job'.node = job.node
    <3>1. alive' = [alive EXCEPT ![job.node] = FALSE] /\ job.node \in Nodes
      BY <2>3 DEF CrashIncrementEpoch, SetAlive
    <3> QED BY <2>3, <3>1 DEF WatchTypes
  <2> QED BY <1>4, <2>1, <2>2, <2>3, JobMoves
<1> QED BY <1>1, <1>2, <1>3, <1>4, Moves
---------------------------------------------------------------------------
\* What the sentinel takes for dead stays dead: a crash under way would have to
\* have started on it, and crashes start on live nodes.
LEMMA DeathsStep ==
    ASSUME WatchTypes, CrashStages, Deaths, [WatchNext]_watchVars
    PROVE  Deaths'
<1> USE DEF Deaths, Crashing
<1>1. CASE UNCHANGED senVars
  <2>1. \A n \in Nodes : Suspect(n)' = Suspect(n)
    BY <1>1 DEF Suspect, senVars
  <2>2. SUFFICES ASSUME NEW n \in Nodes, Suspect(n)
                 PROVE  (~alive[n] /\ ~(Crashing /\ job.node = n))'
    BY <2>1
  <2>3. ~alive[n] /\ ~(Crashing /\ job.node = n)
    BY <2>2
  <2>4. CASE UNCHANGED <<alive, job, calls>>
    BY <2>3, <2>4
  <2>5. CASE Request
    BY <2>3, <2>5, Requested
  <2>6. ASSUME NEW S, CrashSelect(str.node, S), StrAt("chaos_crash")
        PROVE  (~alive[n] /\ ~(Crashing /\ job.node = n))'
    <3>1. job'.node = str.node /\ alive[str.node] /\ alive' = alive
      BY <2>6, Started DEF WatchTypes, StrAt
    <3> QED BY <2>3, <3>1
  <2>7. CASE JobStep
    <3>1. (~alive[n])'
      BY <2>3, <2>7, AliveMoves DEF WatchTypes, At
    <3>2. (~(Crashing /\ job.node = n))'
      <4>1. CASE job' = NoJob
        BY <4>1, NoJobFields
      <4>2. CASE job'.pc = job.pc /\ ~Crashing
        BY <4>2
      <4>4. CASE job'.pc \in {"reconcile_syncup", "reconcile_replay", "rebuild_replay"}
        BY <4>4
      <4>3. CASE job'.node = job.node /\ (CrashDelete \/ CrashIncrementEpoch)
        <5>1. Crashing
          BY <4>3 DEF CrashDelete, CrashIncrementEpoch, At
        <5> QED BY <2>3, <4>3, <5>1
      <4> QED BY <2>3, <2>7, <4>1, <4>2, <4>3, <4>4, JobMoves
    <3> QED BY <3>1, <3>2
  <2> QED BY <2>4, <2>5, <2>6, <2>7, Moves
<1>2. CASE RunSentinel
  <2>1. alive' = alive /\ job' = job
    BY <1>2 DEF RunSentinel, vars, nodeVars, simVars
  <2>2. SUFFICES ASSUME NEW n \in Nodes, Suspect(n)', ~Suspect(n)
                 PROVE  ~alive[n] /\ ~(Crashing /\ job.node = n)
    BY <2>1
  <2>3. CASE SenStart \/ SenPoll
    <3>1. ~Locked /\ ~alive[n]
      BY <2>2, <2>3 DEF SenStart, SenPoll, Suspect, WatchTypes, SenTypeOK, Watcher
    <3> QED BY <3>1, Unlocked
  <2>4. CASE SenReport
    <3>1. /\ sen.pc = "report"
          /\ report' = [m \in Nodes |-> Transition(sen.status[m], sen.seen[m], report[m])]
          /\ sen' = [sen EXCEPT !.pc = "idle", !.status = [m \in Nodes |-> sen.seen[m]]]
      BY <2>4 DEF SenReport, Report
    <3>2. sen'.pc = "idle" /\ sen'.status[n] = sen.seen[n]
      BY <3>1 DEF WatchTypes, SenTypeOK, Watcher
    <3>3. sen.status[n] /\ sen.seen[n] /\ report[n] # "down"
      BY <2>2, <3>1 DEF Suspect
    <3>4. report'[n] = report[n]
      BY <3>1, <3>3 DEF Transition
    <3> QED BY <2>2, <3>2, <3>3, <3>4 DEF Suspect
  <2> QED BY <1>2, <2>3, <2>4 DEF RunSentinel, SenStep
<1> QED BY <1>1, <1>2 DEF WatchNext, Others, RunStreamer, Switch, watchVars

\* A node that has been seen dead is never seen alive.
LEMMA NeverUpStep ==
    ASSUME WatchTypes, CrashStages, Deaths, NeverUp, [WatchNext]_watchVars
    PROVE  NeverUp'
<1> USE DEF NeverUp
<1>1. CASE UNCHANGED senVars
  BY <1>1 DEF senVars
<1>2. CASE RunSentinel
  <2>1. SUFFICES ASSUME NEW n \in Nodes
                 PROVE  /\ report'[n] # "up"
                        /\ sen'.pc = "report" /\ ~sen'.status[n] => ~sen'.seen[n]
    OBVIOUS
  <2>2. CASE SenStart
    BY <2>2 DEF SenStart, WatchTypes, SenTypeOK, Watcher
  <2>3. CASE SenPoll
    <3>1. ~sen.status[n] => ~alive[n]
      BY DEF Deaths, Suspect
    <3> QED BY <2>3, <3>1 DEF SenPoll, WatchTypes, SenTypeOK, Watcher
  <2>4. CASE SenReport
    <3>1. /\ sen.pc = "report"
          /\ report' = [m \in Nodes |-> Transition(sen.status[m], sen.seen[m], report[m])]
          /\ sen' = [sen EXCEPT !.pc = "idle", !.status = [m \in Nodes |-> sen.seen[m]]]
      BY <2>4 DEF SenReport, Report
    <3>2. sen'.pc = "idle"
      BY <3>1 DEF WatchTypes, SenTypeOK, Watcher
    <3>3. report'[n] # "up"
      BY <3>1 DEF Transition
    <3> QED BY <3>2, <3>3
  <2> QED BY <1>2, <2>2, <2>3, <2>4 DEF RunSentinel, SenStep
<1> QED BY <1>1, <1>2 DEF WatchNext, Others, RunStreamer, Switch, watchVars

---------------------------------------------------------------------------
LEMMA OneOfTwo ==
    ASSUME NEW S, Cardinality(S) >= 2, NEW x PROVE S \ {x} # {}
<1> SUFFICES ASSUME S \ {x} = {} PROVE FALSE
  OBVIOUS
<1>1. CASE S = {}
  BY <1>1, FS_EmptySet
<1>2. CASE S = {x}
  <2>1. Cardinality({x}) = 1
    BY FS_Singleton
  <2> QED BY <1>2, <2>1
<1> QED BY <1>1, <1>2

\* The streamer's goroutine waits for the crash it has begun; the node it has
\* chosen was one of two.
LEMMA SpareStep ==
    ASSUME WatchTypes, CrashStages, Spare, [WatchNext]_watchVars
    PROVE  Spare'
<1> SUFFICES ASSUME calls' = 0
             PROVE  /\ Crashing' => StrAt("chaos_wait")' /\ job'.node = str'.node
                    /\ StrAt("chaos_crash")' \/ Crashing' => Alive' \ {str'.node} # {}
                    /\ Alive' # {}
  BY DEF Spare
<1>1. CASE UNCHANGED <<alive, job, calls>>
  <2>1. Alive' = Alive /\ Crashing' = Crashing
    BY <1>1 DEF Alive, Crashing
  <2>2. CASE UNCHANGED str
    BY <1>1, <2>1, <2>2 DEF Spare, StrAt
  <2>3. CASE RunStreamer
    <3>1. CASE OrderTick \/ OrderStates \/ OrderApply \/ ChaosTick
      <4>1. ~StrAt("chaos_crash")' /\ ~StrAt("chaos_wait")
        BY <3>1 DEF OrderTick, OrderStates, OrderApply, ChaosTick, StrAt, Goto
      <4> QED BY <1>1, <2>1, <4>1 DEF Spare
    <3>2. CASE ChaosStates
      <4>1. ~Crashing
        BY <3>2, Unlocked DEF ChaosStates
      <4>2. StrAt("chaos_crash")' => Cardinality(Alive) >= 2
        BY <3>2 DEF ChaosStates, StrAt, Goto
      <4> QED BY <1>1, <2>1, <4>1, <4>2, OneOfTwo DEF Spare
    <3>3. CASE ChaosCrash \/ ChaosReturn
      <4>1. ~Crashing /\ ~StrAt("chaos_crash")'
        BY <3>3, Unlocked DEF ChaosCrash, ChaosReturn, StrAt, Goto
      <4> QED BY <1>1, <2>1, <4>1 DEF Spare
    <3> QED BY <2>3, <3>1, <3>2, <3>3 DEF RunStreamer, StrStep
  <2> QED BY <2>2, <2>3 DEF WatchNext, Others, RunSentinel, Switch, SetStreamEnabled,
                            SetChaosEnabled, strVars, watchVars
<1>2. CASE Request
  BY <1>2, Requested DEF WatchTypes
<1>3. ASSUME NEW S, CrashSelect(str.node, S), StrAt("chaos_crash"), UNCHANGED calls,
             str' = [pc |-> "chaos_wait", node |-> str.node]
      PROVE  /\ Crashing' => StrAt("chaos_wait")' /\ job'.node = str'.node
             /\ StrAt("chaos_crash")' \/ Crashing' => Alive' \ {str'.node} # {}
             /\ Alive' # {}
  <2>1. alive' = alive /\ job'.node = str.node
    BY <1>3, Started DEF WatchTypes, StrAt
  <2>2. Alive' = Alive
    BY <2>1 DEF Alive
  <2> QED BY <1>3, <2>1, <2>2 DEF Spare, StrAt
<1>4. CASE JobStep /\ UNCHANGED <<calls, strVars>>
  <2>1. str' = str
    BY <1>4 DEF strVars
  <2>2. Alive # {} /\ Alive \ {job.node} \subseteq Alive'
    <3>1. Alive # {}
      BY <1>4 DEF Spare
    <3>2. \A n \in Nodes : alive[n] /\ n # job.node => alive'[n]
      BY <1>4, AliveMoves DEF WatchTypes
    <3> QED BY <3>1, <3>2 DEF Alive
  <2>3. CASE Crashing
    <3>1. StrAt("chaos_wait") /\ job.node = str.node /\ Alive \ {str.node} # {}
      BY <1>4, <2>3 DEF Spare
    <3>2. Crashing' => job'.node = job.node
      BY <1>4, JobMoves, NoJobFields DEF Crashing
    <3>3. Alive' \ {str.node} # {}
      BY <2>2, <3>1
    <3> QED BY <2>1, <3>1, <3>2, <3>3 DEF StrAt
  <2>4. CASE ~Crashing
    <3>1. ~Crashing'
      <4>1. ~CrashDelete /\ ~CrashIncrementEpoch
        BY <2>4 DEF Crashing, CrashDelete, CrashIncrementEpoch, At
      <4> QED BY <1>4, <2>4, <4>1, JobMoves, NoJobFields DEF Crashing
    <3>2. Alive' = Alive
      <4>1. ~CrashIncrementEpoch /\ ~At("crash_revive")
        BY <2>4 DEF Crashing, CrashIncrementEpoch, At
      <4> QED BY <1>4, <4>1, AliveMoves DEF Alive
    <3> QED BY <1>4, <2>1, <3>1, <3>2 DEF Spare, StrAt
  <2> QED BY <2>3, <2>4
<1> QED BY <1>1, <1>2, <1>3, <1>4, Moves

\* One crash at most is begun and not yet done when chaos is switched off.
LEMMA LateCrashStep ==
    ASSUME WatchTypes, LateCrash, [WatchNext]_watchVars
    PROVE  LateCrash'
<1> USE DEF LateCrash, WatchTypes, StrTypeOK, StrAt, Goto, StrOnly
<1>1. CASE RunStreamer
  <2>1. CASE OrderTick \/ OrderStates
    BY <2>1 DEF OrderTick, OrderStates
  <2>2. CASE OrderApply \/ ChaosReturn
    BY <2>2 DEF OrderApply, ChaosReturn
  <2>3. CASE ChaosTick \/ ChaosStates
    BY <2>3 DEF ChaosTick, ChaosStates
  <2>4. CASE ChaosCrash
    BY <2>4 DEF ChaosCrash
  <2> QED BY <1>1, <2>1, <2>2, <2>3, <2>4 DEF RunStreamer, StrStep
<1>2. CASE Switch
  BY <1>2 DEF Switch, SetStreamEnabled, SetChaosEnabled
<1>3. CASE UNCHANGED strVars
  BY <1>3 DEF strVars
<1> QED BY <1>1, <1>2, <1>3 DEF WatchNext, Others, RunSentinel, watchVars

---------------------------------------------------------------------------
LEMMA WatchStart == WatchInit => WatchInv
<1> SUFFICES ASSUME WatchInit PROVE WatchInv
  OBVIOUS
<1> USE DEF WatchInit
<1>1. alive = [n \in Nodes |-> TRUE] /\ job = NoJob /\ calls = 0
  BY DEF Init, NodeInit, SimInit
<1>2. WatchTypes /\ LateCrash
  <2>1. SenTypeOK
    BY DEF SenInit, NewSentinel, NoReport, SenTypeOK, Watcher
  <2>2. /\ StrTypeOK
        /\ str.pc = "idle"
    BY DEF StrInit, IdleStreamer, StrTypeOK, Streamer
  <2>3. LateCrash
    BY <2>2 DEF StrInit, LateCrash
  <2> QED BY <1>1, <2>1, <2>2, <2>3, NoJobFields DEF WatchTypes
<1>3. ~Crashing /\ job.pc = "idle"
  BY <1>1, NoJobFields DEF Crashing
<1>4. CrashStages /\ Spare
  <2>1. ~StrAt("chaos_crash")
    BY DEF StrInit, IdleStreamer, StrAt
  <2>2. Alive = Nodes /\ Nodes # {}
    BY <1>1, WatchAssumption DEF Alive
  <2> QED BY <1>3, <2>1, <2>2 DEF CrashStages, Spare, At
<1>5. Deaths /\ NeverUp
  <2>1. \A n \in Nodes : report[n] = "none" /\ sen.status[n] /\ sen.pc = "start"
    BY DEF SenInit, NewSentinel, NoReport
  <2> QED BY <2>1 DEF Deaths, Suspect, NeverUp
<1> QED BY <1>2, <1>4, <1>5 DEF WatchInv

\* The invariant of the two watchers, for any number of nodes, operations,
\* requests, switches and failing statements.
THEOREM WatchInvariance == WatchSpec => []WatchInv
<1>1. WatchInit => WatchInv
  BY WatchStart
<1>2. WatchInv /\ [WatchNext]_watchVars => WatchInv'
  BY WatchTypesStep, StagesStep, DeathsStep, NeverUpStep, SpareStep, LateCrashStep DEF WatchInv
<1> QED BY <1>1, <1>2, PTL DEF WatchSpec

\* A node the sentinel has reported as down is dead whenever the report is read.
THEOREM ReportsStayTrue == WatchSpec => []ReportsTrue
<1>1. WatchInv => ReportsTrue
  BY DEF WatchInv, Deaths, NeverUp, Suspect, ReportsTrue
<1> QED BY <1>1, WatchInvariance, PTL

\* The streamer's chaos alone always leaves a node alive.
THEOREM StreamerSparesOne == WatchSpec => []LastNodeKept
<1>1. WatchInv => LastNodeKept
  BY DEF WatchInv, Spare, LastNodeKept
<1> QED BY <1>1, WatchInvariance, PTL

\* After chaos is switched off one more crash is begun at most.
THEOREM AtMostOneLateCrash == WatchSpec => []OneLateCrash
<1>1. WatchInv => OneLateCrash
  BY DEF WatchInv, LateCrash, OneLateCrash
<1> QED BY <1>1, WatchInvariance, PTL
=============================================================================
