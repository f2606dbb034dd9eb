------------------------------- MODULE Ledger -------------------------------
(***************************************************************************)
(* What CounterGhost promises about operations, without saying how: a      *)
(* ledger that accepts each operation once, under a stamp of its own, and  *)
(* never forgets one.  Crashes, repairs and restarts may change what the   *)
(* nodes' values contain, but an operation counts at most once, and only   *)
(* for its node.  Modules CounterGhost and KafkaPipeline implement it.     *)
(***************************************************************************)
CONSTANTS Nodes, Uuid,
          Operation,   \* records with fields node, epoch, seq and amount
          NoOp         \* accepted[u] of an id that no operation carries yet

VARIABLES accepted,   \* the operation an id was given to
          waiting,    \* operations still to be recorded or buried
          log,        \* the recorded operations
          dead,       \* the buried ones, kept for inspection
          held        \* how often a node's value contains an operation

ledgerVars == <<accepted, waiting, log, dead, held>>

Accepted == {u \in Uuid : accepted[u] # NoOp}

Stamp(o) == <<o.node, o.epoch, o.seq>>

Init ==
    /\ accepted = [u \in Uuid |-> NoOp]
    /\ waiting = {}
    /\ log = {}
    /\ dead = {}
    /\ held = [n \in Nodes |-> [u \in Uuid |-> 0]]

\* A client's operation is acknowledged: it counts from then on, and waits.
Accept(u) ==
    /\ accepted[u] = NoOp
    /\ accepted'[u] \in Operation
    /\ \A v \in Accepted : Stamp(accepted[v]) # Stamp(accepted'[u])
    /\ accepted' = [accepted EXCEPT ![u] = accepted'[u]]
    /\ waiting' = waiting \cup {u}
    /\ held' = [held EXCEPT ![accepted'[u].node] = [@ EXCEPT ![u] = 1]]
    /\ UNCHANGED <<log, dead>>

Record(u) ==
    /\ u \in Accepted
    /\ log' = log \cup {u}
    /\ UNCHANGED <<accepted, waiting, dead, held>>

\* It stops waiting only when it is recorded ...
Settle(u) ==
    /\ u \in waiting \cap log
    /\ waiting' = waiting \ {u}
    /\ UNCHANGED <<accepted, log, dead, held>>

\* ... or buried, now or in a later attempt.
Bury(u) ==
    /\ u \in waiting
    /\ dead' = dead \cup {u}
    /\ waiting' \in {waiting, waiting \ {u}}
    /\ UNCHANGED <<accepted, log, held>>

\* A crash, a repair or a restart sets what the nodes' values contain.
Revise ==
    /\ held' \in [Nodes -> [Uuid -> {0, 1}]]
    /\ \A n \in Nodes, u \in Uuid :
          held'[n][u] = 1 => u \in Accepted /\ accepted[u].node = n
    /\ UNCHANGED <<accepted, waiting, log, dead>>

Next ==
    \/ \E u \in Uuid : Accept(u) \/ Record(u) \/ Settle(u) \/ Bury(u)
    \/ Revise

Spec == Init /\ [][Next]_ledgerVars
=============================================================================
