----------------------------- MODULE FeedProofs -----------------------------
(***************************************************************************)
(* The event bus and the WebSocket hub implement the feed of module Feed,  *)
(* for any number of clients and events and buffers of any size.           *)
(***************************************************************************)
EXTENDS HubProofs

USE DEF Joined

\* The elements of a sequence are its members.
LEMMA SameMembers == \A s : FeedOf!Elements(s) = Members(s)
  BY DEF FeedOf!Elements, Members

\* Nothing that the client variables of the feed are made of is changed.
LEMMA Stutter ==
    ASSUME UNCHANGED <<published, handler, joined, received, dropped, skipped>>
    PROVE  UNCHANGED FeedOf!feedVars
  BY DEF FeedOf!feedVars, Missed

\* A step of the program as a step of the feed.
LEMMA FeedStep ==
    ASSUME HubInv, HubInv', [Next]_allVars
    PROVE  [FeedOf!Next]_(FeedOf!feedVars)
<1> DEFINE Goal == [FeedOf!Next]_(FeedOf!feedVars)
<1>0. /\ HubTypeOK /\ BusTypeOK /\ Registration /\ BusFlow /\ published \in Nat
      /\ \A c \in Clients : ClientFlow(c) /\ joined[c] \in Nat
      /\ Events \subseteq Nat
  BY DEF HubInv, HubTypeOK, BusTypeOK, Flow, Events
<1>m. Missed \in [Clients -> SUBSET Nat] /\ Joined \subseteq Clients
  BY <1>0 DEF Missed, HubTypeOK, BusTypeOK
\* What has not come and was not missed is owed.
<1>o. ASSUME NEW c \in Joined, NEW e \in 1 .. published, e > joined[c],
             e \notin Members(received[c]), e \notin dropped \cup skipped[c]
      PROVE  e \in FeedOf!Owed(c)
  <2>1. e \in joined[c] + 1 .. published
    BY <1>0, <1>o
  <2>2. e \notin Missed[c]
    BY <1>o DEF Missed
  <2> QED BY <1>o, <2>1, <2>2, SameMembers DEF FeedOf!Owed
\* A loss of one event for the clients in C.
<1>l. ASSUME NEW e \in 1 .. published, NEW C \in SUBSET Joined,
             UNCHANGED <<published, handler, joined, received>>,
             \A c \in C : e \in FeedOf!Owed(c),
             \A c \in Clients : Missed'[c] = IF c \in C THEN Missed[c] \cup {e} ELSE Missed[c]
      PROVE  Goal
  <2>1. Missed' = [c \in Clients |-> IF c \in C THEN Missed[c] \cup {e} ELSE Missed[c]]
    <3>1. Missed' = [c \in Clients |-> Missed'[c]]
      BY DEF Missed
    <3> QED BY <1>l, <3>1
  <2>2. FeedOf!Miss(C, e)
    BY <1>l, <2>1 DEF FeedOf!Miss
  <2> QED BY <2>2 DEF FeedOf!Next
<1>1. CASE PublishRecord /\ UNCHANGED hubVars
  <2>1. FeedOf!Post
    BY <1>1 DEF PublishRecord, hubVars, FeedOf!Post, Missed
  <2> QED BY <2>1 DEF FeedOf!Next
<1>2. ASSUME NEW e \in pending, PublishSend(e), UNCHANGED hubVars PROVE Goal
  <2> DEFINE C == {c \in Joined : e > joined[c]}
  <2>1. /\ UNCHANGED <<published, handler, joined, received, skipped>>
        /\ dropped' \in {dropped, dropped \cup {e}}
    BY <1>2 DEF PublishSend, hubVars
  <2>2. CASE dropped' = dropped
    BY <2>1, <2>2, Stutter
  <2>3. CASE dropped' = dropped \cup {e}
    <3>1. e \in 1 .. published /\ e \notin dropped
      BY <1>0, <1>2 DEF BusFlow
    <3>2. ASSUME NEW c \in C PROVE e \in FeedOf!Owed(c)
      <4>1. e \notin Handled(c)
        BY <1>0, <1>2, <3>2 DEF ClientFlow
      <4> QED BY <1>o, <3>1, <3>2, <4>1 DEF Handled
    <3>3. ASSUME NEW c \in Clients
          PROVE  Missed'[c] = IF c \in C THEN Missed[c] \cup {e} ELSE Missed[c]
      BY <2>1, <2>3 DEF Missed
    <3>4. C \in SUBSET Joined
      OBVIOUS
    <3> HIDE DEF C
    <3> QED BY <1>l, <2>1, <3>1, <3>2, <3>3, <3>4
  <2> QED BY <2>1, <2>2, <2>3
<1>3. CASE HubReceive \/ HubDone
  <2>1. UNCHANGED <<published, handler, joined, received, dropped, skipped>>
    BY <1>3 DEF HubReceive, HubDone, busVars, handlerVars, pumpVars
  <2> QED BY <2>1, Stutter
<1>4. ASSUME NEW c \in Clients, HubSend(c) PROVE Goal
  <2> DEFINE e == hub.event
             C == IF c \in Joined /\ e > joined[c] THEN {c} ELSE {}
  <2>1. /\ UNCHANGED <<published, handler, joined, received, dropped>> /\ c \in hub.todo
        /\ skipped' \in {skipped, [skipped EXCEPT ![c] = @ \cup {e}]}
    BY <1>4 DEF HubSend, busVars, handlerVars, pumpVars
  <2>2. CASE skipped' = skipped
    BY <2>1, <2>2, Stutter
  <2>3. CASE skipped' = [skipped EXCEPT ![c] = @ \cup {e}]
    <3>1. e \in 1 .. published /\ e \notin dropped
      BY <1>0, <2>1 DEF BusFlow, Registration, NoReader, HubTypeOK
    <3>2. ASSUME NEW d \in C PROVE e \in FeedOf!Owed(d)
      <4>1. d = c /\ d \in Joined /\ e > joined[d]
        BY <3>2
      <4>2. e \notin Handled(d)
        BY <1>0, <2>1, <4>1 DEF ClientFlow
      <4> QED BY <1>o, <3>1, <4>1, <4>2 DEF Handled
    <3>3. ASSUME NEW d \in Clients
          PROVE  Missed'[d] = IF d \in C THEN Missed[d] \cup {e} ELSE Missed[d]
      <4>1. skipped'[d] = IF d = c THEN skipped[d] \cup {e} ELSE skipped[d]
        BY <1>0, <2>3 DEF HubTypeOK
      <4> QED BY <2>1, <4>1 DEF Missed
    <3>4. C \in SUBSET Joined
      OBVIOUS
    <3> HIDE DEF C, e
    <3> QED BY <1>l, <2>1, <3>1, <3>2, <3>3, <3>4
  <2> QED BY <2>1, <2>2, <2>3
<1>5. ASSUME NEW c \in Clients, ReadHistory(c) PROVE Goal
  <2>1. /\ UNCHANGED <<published, received, dropped, skipped>> /\ handler[c] = "added"
        /\ joined' = [joined EXCEPT ![c] = published]
        /\ handler' = [handler EXCEPT ![c] = "history"]
    BY <1>5 DEF ReadHistory, busVars, pumpVars
  <2>2. c \notin Joined /\ Joined' = Joined \cup {c}
    BY <1>0, <2>1 DEF HubTypeOK
  <2>3. dropped \cup skipped[c] \subseteq 1 .. published
    BY <1>0 DEF BusFlow, ClientFlow, Handled
  <2>4. \A e \in 1 .. published : ~(e > published)
    BY <1>0
  <2>5. ASSUME NEW d \in Clients PROVE Missed'[d] = Missed[d]
    <3>1. CASE d = c
      <4>1. joined'[c] = published
        BY <1>0, <2>1 DEF HubTypeOK
      <4>2. Missed[c] = {}
        BY <2>2 DEF Missed
      <4>3. Missed'[c] = {e \in dropped \cup skipped[c] : e > published}
        BY <2>1, <2>2, <4>1 DEF Missed
      <4>4. Missed'[c] = {}
        BY <2>3, <2>4, <4>3
      <4> QED BY <3>1, <4>2, <4>4
    <3>2. CASE d # c
      <4>1. joined'[d] = joined[d] /\ (d \in Joined' <=> d \in Joined)
        BY <1>0, <2>1, <2>2, <3>2 DEF HubTypeOK
      <4> HIDE DEF Joined
      <4> QED BY <2>1, <4>1 DEF Missed
    <3> QED BY <3>1, <3>2
  <2>6. Missed' = Missed
    <3>1. Missed' = [d \in Clients |-> Missed'[d]] /\ Missed = [d \in Clients |-> Missed[d]]
      BY DEF Missed
    <3> QED BY <2>5, <3>1
  <2>7. FeedOf!Join(c)
    BY <2>1, <2>2, <2>6 DEF FeedOf!Join
  <2> QED BY <2>7 DEF FeedOf!Next
<1>6. ASSUME NEW c \in Clients,
             AddClient(c) \/ SendHistory(c) \/ StartPumps(c) \/ WriterEnds(c) \/ WriterLeave(c)
             \/ ReaderFails(c) \/ ReaderLeave(c) \/ LinkBreaks(c)
      PROVE  Goal
  <2>1. UNCHANGED <<published, joined, received, dropped, skipped>>
    BY <1>6 DEF AddClient, SendHistory, StartPumps, WriterEnds, WriterLeave, ReaderFails,
                ReaderLeave, LinkBreaks, busVars, handlerVars, pumpVars
  <2>2. Joined' = Joined
    BY <1>0, <1>6 DEF AddClient, SendHistory, StartPumps, WriterEnds, WriterLeave, ReaderFails,
                ReaderLeave, LinkBreaks, handlerVars, HubTypeOK
  <2> HIDE DEF Joined
  <2> QED BY <2>1, <2>2 DEF FeedOf!feedVars, Missed
<1>7. ASSUME NEW c \in Clients, WriterWrite(c) PROVE Goal
  <2> DEFINE e == Head(send[c])
  <2>1. /\ UNCHANGED <<published, handler, joined, dropped, skipped>>
        /\ send[c] # <<>> /\ writer[c] = "running"
        /\ received' \in {received, [received EXCEPT ![c] = Append(@, e)]}
    BY <1>7 DEF WriterWrite, busVars, handlerVars
  <2>2. CASE received' = received
    BY <2>1, <2>2, Stutter
  <2>3. CASE received' = [received EXCEPT ![c] = Append(@, e)]
    <3>1. c \in Joined
      BY <1>0, <2>1 DEF Registration
    <3>2. e \in Members(send[c])
      BY <1>0, <2>1, MembersTail DEF HubTypeOK
    <3>3. e \in 1 .. published
      BY <1>0, <3>2 DEF ClientFlow, Handled
    <3>4. e > joined[c] => e \notin Members(received[c]) /\ e \notin dropped \cup skipped[c]
      BY <1>0, <3>2 DEF ClientFlow, Handled
    <3>5. ~(e > joined[c]) => e \in 1 .. joined[c]
      BY <1>0, <3>3
    <3>6. e \in FeedOf!Owed(c) \cup (1 .. joined[c])
      BY <1>o, <3>1, <3>3, <3>4, <3>5
    <3>7. FeedOf!Get(c, e)
      BY <2>1, <2>3, <3>1, <3>6 DEF FeedOf!Get, Missed
    <3> QED BY <3>1, <3>3, <3>7 DEF FeedOf!Next
  <2> QED BY <2>1, <2>2, <2>3
<1>8. CASE UNCHANGED allVars
  BY <1>8, Stutter DEF allVars, busVars, hubVars
<1> QED BY <1>1, <1>2, <1>3, <1>4, <1>5, <1>6, <1>7, <1>8
        DEF Next, RunHub, RunHandler, RunWriter, RunReader

\* The feed's promise to a client, in every behaviour, step by step: each later
\* event once at most, and none after it was given up.
THEOREM HubIsFeed == Spec => ImplementsFeed
<1>1. Init => FeedOf!Init
  BY DEF Init, BusInit, HubInit, FeedOf!Init, Missed
<1>2. HubInv /\ HubInv' /\ [Next]_allVars => [FeedOf!Next]_(FeedOf!feedVars)
  BY FeedStep
<1> QED BY <1>1, <1>2, HubInvariance, PTL DEF Spec, ImplementsFeed, FeedOf!Spec
=============================================================================
