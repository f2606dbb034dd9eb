------------------------------ MODULE Sentinel ------------------------------
(***************************************************************************)
(* The sentinel (internal/agents/sentinel.go): on every tick it takes one  *)
(* snapshot of the nodes under sim.mu and afterwards, without it, compares *)
(* the snapshot with what it remembers and publishes the transitions.  Its *)
(* enabled flag is set at start and never changes.                         *)
(***************************************************************************)
EXTENDS Simulation

VARIABLES sen,      \* the sentinel's goroutine
          report    \* the latest event it has published about each node

senVars == <<sen, report>>

\* status is statusMap, seen the snapshot.
Watcher == [pc : {"start", "idle", "report"},
            status : [Nodes -> BOOLEAN],
            seen : [Nodes -> BOOLEAN]]

NewSentinel == [pc |-> "start", status |-> [n \in Nodes |-> TRUE],
                seen |-> [n \in Nodes |-> TRUE]]

NoReport == [n \in Nodes |-> "none"]

SenTypeOK ==
    /\ sen \in Watcher
    /\ report \in [Nodes -> {"none", "down", "up"}]

SenInit == sen = NewSentinel /\ report = NoReport

---------------------------------------------------------------------------
\* Start: a node that is dead already is remembered as dead and not reported.
SenStart ==
    /\ sen.pc = "start"
    /\ ~Locked
    /\ sen' = [sen EXCEPT !.pc = "idle", !.status = alive]
    /\ UNCHANGED report

\* (Faulty variant: the snapshot is taken without the mutex.)
SenPollUnlocked ==
    /\ sen.pc = "idle"
    /\ sen' = [sen EXCEPT !.pc = "report", !.seen = alive]
    /\ UNCHANGED report

SenPoll ==
    /\ sen.pc = "idle"
    /\ ~Locked
    /\ sen' = [sen EXCEPT !.pc = "report", !.seen = alive]
    /\ UNCHANGED report

Transition(was, is, before) ==
    CASE was /\ ~is -> "down"
      [] ~was /\ is -> "up"
      [] OTHER -> before

\* The event bus never blocks, and nobody else looks at statusMap: the loop over
\* S is one step.
Report(S) ==
    /\ sen.pc = "report"
    /\ report' = [n \in Nodes |-> IF n \in S
                                  THEN Transition(sen.status[n], sen.seen[n], report[n])
                                  ELSE report[n]]
    /\ sen' = [sen EXCEPT !.pc = "idle",
                          !.status = [n \in Nodes |-> IF n \in S THEN sen.seen[n] ELSE @[n]]]

\* (Faulty variant: it returns after the first node.)
SenReportFirst == \E n \in Nodes : Report({n})

SenReport == Report(Nodes)

SenStep == SenStart \/ SenPoll \/ SenReport
=============================================================================
