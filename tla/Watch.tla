------------------------------- MODULE Watch -------------------------------
(***************************************************************************)
(* The program with the two goroutines that act on a snapshot of which     *)
(* nodes are alive: the sentinel, which reports deaths, and the auto       *)
(* streamer, which causes them.  The outbox syncer and the reconciler are  *)
(* left out: the one touches nothing these two read, and the other only    *)
(* reconciles, as a request does.  So is a kill of the process: a new one  *)
(* starts with both afresh and every node alive.                           *)
(***************************************************************************)
EXTENDS CounterGhost, Sentinel, AutoStreamer

CONSTANT MaxSwitches   \* bound: changes of the streamer's two flags

ASSUME WatchAssumption == MaxSwitches \in Nat /\ 1 \in Amounts /\ Nodes # {}

VARIABLE switches

watchVars == <<vars, senVars, strVars, switches>>

WatchInit == Init /\ SenInit /\ StrInit /\ switches = 0

---------------------------------------------------------------------------
RunSentinel == SenStep /\ UNCHANGED <<vars, strVars, switches>>

RunStreamer ==
    /\ StrStep
    /\ UNCHANGED <<sync, rec, calls, restarts, senVars, switches>>

Switch ==
    /\ switches < MaxSwitches
    /\ switches' = switches + 1
    /\ \E on \in BOOLEAN : SetStreamEnabled(on) \/ SetChaosEnabled(on)
    /\ UNCHANGED <<sync, rec, calls, restarts, senVars>>

Others ==
    /\ Apply \/ Request \/ RunJob
    /\ UNCHANGED <<senVars, strVars, switches>>

WatchNext == Others \/ RunSentinel \/ RunStreamer \/ Switch

WatchSpec == WatchInit /\ [][WatchNext]_watchVars

\* What holds the mutex goes on, and so does the sentinel; a waiter for the
\* mutex is not starved (module CounterGhost).
FairWatch == WatchSpec /\ WF_watchVars(RunJob /\ UNCHANGED <<senVars, strVars, switches>>)
                       /\ SF_watchVars(RunSentinel)

---------------------------------------------------------------------------
(* Properties.                                                             *)

\* The sentinel's latest word on a node is true whenever it is read, not only
\* when the snapshot was taken: nothing revives a node that was dead while the
\* mutex was free, and the death CrashNode stages itself is never seen.
ReportsTrue ==
    \A n \in Nodes : /\ report[n] = "down" => ~alive[n]
                     /\ report[n] = "up" => alive[n]

\* The streamer alone never kills the last live node, although every crash it
\* causes may leave its node dead: "keep 1 always alive".
LastNodeKept == calls = 0 => Alive # {}

\* Whoever switches chaos off may still see one crash, and no more: the one the
\* streamer had begun.
OneLateCrash == late <= 1

\* The death of a node that is still dead when CrashNode lets the mutex go is
\* reported.
DeathReported ==
    \A n \in Nodes :
        ~alive[n] /\ ~Locked /\ sen.status[n] /\ sen.pc # "start" ~> report[n] = "down"

\* Every crash is reported.
CrashReported ==
    \A n \in Nodes : ~alive[n] /\ sen.status[n] /\ sen.pc # "start" ~> report[n] = "down"

---------------------------------------------------------------------------
(* The inductive invariant.                                                *)

WatchTypes ==
    /\ alive \in [Nodes -> BOOLEAN]
    /\ DOMAIN job = {"pc", "node", "nodeOps", "coordOps", "todo", "dirty"}
    /\ calls \in Nat
    /\ SenTypeOK
    /\ StrTypeOK
    /\ str.pc \in {"order_apply", "chaos_crash", "chaos_wait"} => str.node \in Nodes

Crashing == job.pc \in {"crash_delete", "crash_epoch", "crash_revive"}

\* CrashNode works on a live node until it stages the death.
CrashStages ==
    /\ Crashing => job.node \in Nodes
    /\ job.pc \in {"crash_delete", "crash_epoch"} => alive[job.node]
    /\ At("crash_revive") => ~alive[job.node]

\* What the sentinel takes for dead, or is about to.
Suspect(n) == report[n] = "down" \/ ~sen.status[n] \/ (sen.pc = "report" /\ ~sen.seen[n])

\* It is dead, and no crash that would revive it is under way.
Deaths == \A n \in Nodes : Suspect(n) => ~alive[n] /\ ~(Crashing /\ job.node = n)

NeverUp ==
    \A n \in Nodes : /\ report[n] # "up"
                     /\ sen.pc = "report" /\ ~sen.status[n] => ~sen.seen[n]

\* As long as the streamer alone crashes nodes, another node is alive from its
\* choice to the end of the crash.
Spare ==
    calls = 0 =>
        /\ Crashing => StrAt("chaos_wait") /\ job.node = str.node
        /\ StrAt("chaos_crash") \/ Crashing => Alive \ {str.node} # {}
        /\ Alive # {}

\* A crash that was begun with chaos switched on is the only one to come.
LateCrash ==
    /\ chaosOn => late = 0
    /\ late <= 1
    /\ late = 1 => str.pc \notin {"chaos_states", "chaos_crash"}

WatchInv == WatchTypes /\ CrashStages /\ Deaths /\ NeverUp /\ Spare /\ LateCrash
=============================================================================
