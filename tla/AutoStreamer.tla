---------------------------- MODULE AutoStreamer ----------------------------
(***************************************************************************)
(* The auto streamer (internal/simulation/autostream.go): one goroutine    *)
(* that applies an order to a live node on one ticker and crashes a live   *)
(* node on another.  Either way it reads a flag, then the nodes' states    *)
(* under sim.mu, and acts on them after it has let the mutex go.           *)
(*                                                                         *)
(* The speed of the tickers is left out: a tick may come at any time.      *)
(***************************************************************************)
EXTENDS Simulation

VARIABLES str,       \* the streamer's goroutine
          streamOn,  \* config.StreamEnabled
          chaosOn,   \* config.ChaosEnabled
          late       \* crashes it has begun since chaos was switched off

strVars == <<str, streamOn, chaosOn, late>>

\* node is the node it has picked.
Streamer == [pc : {"idle", "order_states", "order_apply",
                   "chaos_states", "chaos_crash", "chaos_wait"},
             node : Nodes \cup {"none"}]

IdleStreamer == [pc |-> "idle", node |-> "none"]

StrTypeOK ==
    /\ str \in Streamer
    /\ streamOn \in BOOLEAN
    /\ chaosOn \in BOOLEAN
    /\ late \in Nat

StrInit == str = IdleStreamer /\ streamOn = TRUE /\ chaosOn = TRUE /\ late = 0

Alive == {n \in Nodes : alive[n]}

StrAt(pc) == str.pc = pc

Goto(pc, n) == str' = [pc |-> pc, node |-> n]

\* The goroutine touches nothing but its own state.
StrOnly == UNCHANGED <<storageVars, nodeVars, simVars, streamOn, chaosOn, late>>

---------------------------------------------------------------------------
(* generateOrder.                                                          *)

OrderTick == StrAt("idle") /\ streamOn /\ Goto("order_states", "none") /\ StrOnly

OrderStates ==
    /\ StrAt("order_states")
    /\ ~Locked
    /\ \/ \E n \in Alive : Goto("order_apply", n)
       \/ Alive = {} /\ Goto("idle", "none")
    /\ StrOnly

\* The node may have died since.  (Without a fresh id the model gives up, too.)
OrderApply ==
    /\ StrAt("order_apply")
    /\ \/ \E u \in Uuid : ApplyDelta(str.node, u, 1)
       \/ /\ ~alive[str.node] \/ Issued = Uuid
          /\ UNCHANGED <<storageVars, nodeVars>>
    /\ Goto("idle", "none")
    /\ UNCHANGED <<simVars, streamOn, chaosOn, late>>

---------------------------------------------------------------------------
(* triggerChaos.                                                           *)

\* (Faulty variant: the flag is read once, when the streamer starts.)
ChaosTickStale == StrAt("idle") /\ Goto("chaos_states", "none") /\ StrOnly

ChaosTick == StrAt("idle") /\ chaosOn /\ Goto("chaos_states", "none") /\ StrOnly

\* (Faulty variant: any live node will do.)
ChaosStatesAny ==
    /\ StrAt("chaos_states")
    /\ ~Locked
    /\ \/ \E n \in Alive : Goto("chaos_crash", n)
       \/ Alive = {} /\ Goto("idle", "none")
    /\ StrOnly

\* "Need at least 2 alive nodes (keep 1 always alive)"
ChaosStates ==
    /\ StrAt("chaos_states")
    /\ ~Locked
    /\ \/ Cardinality(Alive) >= 2 /\ \E n \in Alive : Goto("chaos_crash", n)
       \/ Cardinality(Alive) < 2 /\ Goto("idle", "none")
    /\ StrOnly

\* CrashNode, which waits for sim.mu and then refuses a node that has died or
\* has no operations.
ChaosCrash ==
    /\ StrAt("chaos_crash")
    /\ ~Locked
    /\ \/ /\ \E S \in SUBSET nodeDB[str.node] : CrashSelect(str.node, S)
          /\ Goto("chaos_wait", str.node)
          /\ late' = IF chaosOn THEN late ELSE late + 1
       \/ /\ ~alive[str.node] \/ GetOperationsByNode(nodeDB[str.node], str.node) = {}
          /\ Goto("idle", "none")
          /\ UNCHANGED <<storageVars, nodeVars, simVars, late>>
    /\ UNCHANGED <<streamOn, chaosOn>>

\* CrashNode has returned.
ChaosReturn == StrAt("chaos_wait") /\ ~Locked /\ Goto("idle", "none") /\ StrOnly

StrStep ==
    \/ OrderTick
    \/ OrderStates
    \/ OrderApply
    \/ ChaosTick
    \/ ChaosStates
    \/ ChaosCrash
    \/ ChaosReturn

---------------------------------------------------------------------------
\* POST /api/streaming/toggle
SetStreamEnabled(enabled) ==
    /\ streamOn' = enabled
    /\ UNCHANGED <<storageVars, nodeVars, simVars, str, chaosOn, late>>

\* POST /api/streaming/chaos
SetChaosEnabled(enabled) ==
    /\ chaosOn' = enabled
    /\ late' = IF enabled THEN 0 ELSE late
    /\ UNCHANGED <<storageVars, nodeVars, simVars, str, streamOn>>
=============================================================================
