------------------------------ MODULE EventBus ------------------------------
(***************************************************************************)
(* The event bus (internal/events/bus.go) with its one subscriber, the     *)
(* WebSocket hub, which subscribes at start and never leaves.  An event is *)
(* the number of its Publish in the order of the bus's mutex.              *)
(***************************************************************************)
EXTENDS Integers, Sequences, FiniteSets

CONSTANTS MaxHistory,   \* events the bus retains (200)
          ChanSize,     \* capacity of a subscriber's channel (64)
          MaxEvents     \* bound: events published

ASSUME BusAssumption ==
    /\ MaxHistory \in Nat \ {0}
    /\ ChanSize \in Nat \ {0}
    /\ MaxEvents \in Nat

VARIABLES published,  \* how many events the history has ever got
          history,    \* the latest of them
          pending,    \* events of a Publish that has released the mutex and not sent yet
          ch,         \* the hub's channel
          dropped     \* events a full channel has cost the hub

busVars == <<published, history, pending, ch, dropped>>

Events == Nat \ {0}

BusTypeOK ==
    /\ published \in Nat
    /\ history \in Seq(Events)
    /\ pending \subseteq Events
    /\ ch \in Seq(Events)
    /\ dropped \subseteq Events

BusInit ==
    /\ published = 0
    /\ history = <<>>
    /\ pending = {}
    /\ ch = <<>>
    /\ dropped = {}

\* The part of Publish under the mutex: the oldest event makes room.
PublishRecord ==
    /\ published < MaxEvents
    /\ published' = published + 1
    /\ history' = Append(IF Len(history) >= MaxHistory THEN Tail(history) ELSE history,
                         published + 1)
    /\ pending' = pending \cup {published + 1}
    /\ UNCHANGED <<ch, dropped>>

\* (Faulty variant: an event that finds the channel full is tried again, and so
\* is one that does not.)
PublishSendAgain(e) ==
    /\ e \in pending
    /\ \/ Len(ch) < ChanSize /\ ch' = Append(ch, e) /\ UNCHANGED <<pending, dropped>>
       \/ Len(ch) >= ChanSize /\ pending' = pending \ {e} /\ dropped' = dropped \cup {e}
                              /\ UNCHANGED ch
    /\ UNCHANGED <<published, history>>

\* The send after it, which does not block.  The sends of concurrent Publishes
\* come in any order.
PublishSend(e) ==
    /\ e \in pending
    /\ pending' = pending \ {e}
    /\ \/ Len(ch) < ChanSize /\ ch' = Append(ch, e) /\ UNCHANGED dropped
       \/ Len(ch) >= ChanSize /\ dropped' = dropped \cup {e} /\ UNCHANGED ch
    /\ UNCHANGED <<published, history>>

\* History(n): the latest n events, or all.
History(n) ==
    LET k == IF n <= 0 \/ n > Len(history) THEN Len(history) ELSE n
    IN SubSeq(history, Len(history) - k + 1, Len(history))
=============================================================================
