----------------------------- MODULE Reconciler -----------------------------
(***************************************************************************)
(* The reconciler agent (internal/agents/reconciler.go).  checkAndRepair   *)
(* compares two totals that are read at different times, and if they differ*)
(* reconciles one node after the other.  Every call it makes that takes    *)
(* sim.mu waits until no operation holds it; its own Reconcile is the job  *)
(* of module Simulation, and the mutex being free again is its return.     *)
(***************************************************************************)
EXTENDS Simulation

CONSTANT Enabled   \* the agent's enabled flag, which is set once at start

ASSUME EnabledAssumption == Enabled \in BOOLEAN

\* The totals are sums over a configured list of nodes and over finite tables.
ASSUME SumAssumption == IsFiniteSet(Nodes) /\ IsFiniteSet(Uuid)

VARIABLE rec   \* the reconciler's goroutine

\* seen is what the nodes held when it read the naive total, nodes the nodes it
\* has still to reconcile.
Agent == [pc : {"idle", "compare", "states", "repair"},
          seen : [Nodes -> [Uuid -> Nat]],
          nodes : SUBSET Nodes]

IdleAgent == [pc |-> "idle", seen |-> [n \in Nodes |-> Once({})], nodes |-> {}]

RecTypeOK == rec \in Agent

RecInit == rec = IdleAgent

\* The sum of the values the nodes hold, given what they contain.
Total(values) ==
    MapThenSumSet(LAMBDA n : MapThenSumSet(LAMBDA u : values[n][u] * info[u].amount,
                                           Issued),
                  Nodes)

NaiveGlobalValue == Total(localVal)

AuthoritativeGlobalValue == SumAmounts(coord)

---------------------------------------------------------------------------
\* The ticker fires: the naive total is read under sim.mu, in one step although
\* a delta may fall between two nodes ...
RecReadNaive ==
    /\ Enabled
    /\ rec = IdleAgent
    /\ ~Locked
    /\ rec' = [rec EXCEPT !.pc = "compare", !.seen = localVal]
    /\ UNCHANGED <<storageVars, nodeVars, simVars>>

\* (Faulty variant: the totals are subtracted the wrong way round.)
RecCompareSwapped ==
    /\ rec.pc = "compare"
    /\ \/ /\ Works
          /\ rec' = IF Total(rec.seen) - AuthoritativeGlobalValue <= 0
                    THEN IdleAgent
                    ELSE [IdleAgent EXCEPT !.pc = "states"]
       \/ Fails("coord") /\ rec' = IdleAgent
    /\ UNCHANGED <<info, nodeDB, outbox, attempts, recorded, coord, dlq,
                   nodeVars, simVars>>

\* ... and the authoritative total later, without it.
RecCompare ==
    /\ rec.pc = "compare"
    /\ \/ /\ Works
          /\ rec' = IF AuthoritativeGlobalValue = Total(rec.seen)
                    THEN IdleAgent
                    ELSE [IdleAgent EXCEPT !.pc = "states"]
       \/ Fails("coord") /\ rec' = IdleAgent
    /\ UNCHANGED <<info, nodeDB, outbox, attempts, recorded, coord, dlq,
                   nodeVars, simVars>>

\* (Faulty variant: the live nodes are left out.)
RecAllStatesDead ==
    /\ rec.pc = "states"
    /\ ~Locked
    /\ rec' = [rec EXCEPT !.pc = "repair", !.nodes = {n \in Nodes : ~alive[n]}]
    /\ UNCHANGED <<storageVars, nodeVars, simVars>>

\* AllStates: the dead nodes are left out.
RecAllStates ==
    /\ rec.pc = "states"
    /\ ~Locked
    /\ rec' = [rec EXCEPT !.pc = "repair", !.nodes = {n \in Nodes : alive[n]}]
    /\ UNCHANGED <<storageVars, nodeVars, simVars>>

\* (Faulty variant: it returns after the first node.)
RecReconcileFirst(n) ==
    /\ rec.pc = "repair"
    /\ n \in rec.nodes
    /\ ReconcileReadNode(n)
    /\ rec' = [rec EXCEPT !.nodes = {}]

\* The order of the nodes is theirs in the configuration; here it is any.
RecReconcile(n) ==
    /\ rec.pc = "repair"
    /\ n \in rec.nodes
    /\ ReconcileReadNode(n)
    /\ rec' = [rec EXCEPT !.nodes = @ \ {n}]

\* NaiveGlobalValue, once more under sim.mu, for the log.
RecReturn ==
    /\ rec.pc = "repair"
    /\ rec.nodes = {}
    /\ ~Locked
    /\ rec' = IdleAgent
    /\ UNCHANGED <<storageVars, nodeVars, simVars>>

RecStep ==
    \/ RecReadNaive
    \/ RecCompare
    \/ RecAllStates
    \/ \E n \in Nodes : RecReconcile(n)
    \/ RecReturn
=============================================================================
