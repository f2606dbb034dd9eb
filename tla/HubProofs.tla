----------------------------- MODULE HubProofs -----------------------------
(***************************************************************************)
(* Proofs about module WsHub: no panic, and no gap between the history and *)
(* the live events, for any number of clients, events and sizes of         *)
(* buffers.                                                                *)
(***************************************************************************)
EXTENDS WsHub, TLAPS

\* A message at the end of a channel is one of its messages.
LEMMA MembersAppend ==
    ASSUME NEW s \in Seq(Events), NEW e \in Events
    PROVE  /\ Append(s, e) \in Seq(Events)
           /\ Members(Append(s, e)) = Members(s) \cup {e}
<1>1. /\ Append(s, e) \in Seq(Events)
      /\ Len(Append(s, e)) = Len(s) + 1 /\ Len(s) \in Nat
      /\ \A i \in 1 .. Len(s) : Append(s, e)[i] = s[i]
      /\ Append(s, e)[Len(s) + 1] = e
  OBVIOUS
<1>2. \A i \in 1 .. Len(s) + 1 : i \in 1 .. Len(s) \/ i = Len(s) + 1
  BY <1>1
<1>3. Members(Append(s, e)) \subseteq Members(s) \cup {e}
  BY <1>1, <1>2 DEF Members
<1>4. Members(s) \cup {e} \subseteq Members(Append(s, e))
  <2>1. Len(s) + 1 \in 1 .. Len(s) + 1 /\ \A i \in 1 .. Len(s) : i \in 1 .. Len(s) + 1
    BY <1>1
  <2> QED BY <1>1, <2>1 DEF Members
<1> QED BY <1>1, <1>3, <1>4

\* The first message of a channel is one of them, the others come after it.
LEMMA MembersTail ==
    ASSUME NEW s \in Seq(Events), s # <<>>
    PROVE  /\ Tail(s) \in Seq(Events) /\ Head(s) \in Events
           /\ Members(s) = {Head(s)} \cup Members(Tail(s))
<1>1. /\ Tail(s) \in Seq(Events) /\ Head(s) = s[1] /\ Head(s) \in Events
      /\ Len(s) \in Nat \ {0} /\ Len(Tail(s)) = Len(s) - 1
      /\ \A i \in 1 .. Len(s) - 1 : Tail(s)[i] = s[i + 1]
  OBVIOUS
<1>2. Members(s) \subseteq {Head(s)} \cup Members(Tail(s))
  <2> SUFFICES ASSUME NEW i \in 1 .. Len(s), i # 1 PROVE s[i] \in Members(Tail(s))
    BY <1>1 DEF Members
  <2>1. i - 1 \in 1 .. Len(s) - 1 /\ (i - 1) + 1 = i
    BY <1>1
  <2>2. Tail(s)[i - 1] = s[i]
    BY <1>1, <2>1
  <2> QED BY <1>1, <2>1, <2>2 DEF Members
<1>3. {Head(s)} \cup Members(Tail(s)) \subseteq Members(s)
  <2>1. 1 \in 1 .. Len(s) /\ \A i \in 1 .. Len(s) - 1 : i + 1 \in 1 .. Len(s)
    BY <1>1
  <2> QED BY <1>1, <2>1 DEF Members
<1> QED BY <1>1, <1>2, <1>3

\* Every entry of the history that a client gets is an event.
LEMMA HistoryType ==
    ASSUME BusTypeOK
    PROVE  History(HistoryLimit) \in Seq(Events)
<1>1. history \in Seq(Events) /\ Len(history) \in Nat /\ HistoryLimit \in Nat \ {0}
  BY HubAssumption DEF BusTypeOK
<1> DEFINE k == IF HistoryLimit <= 0 \/ HistoryLimit > Len(history)
                THEN Len(history) ELSE HistoryLimit
<1>2. k \in 0 .. Len(history)
  BY <1>1
<1> HIDE DEF k
<1>3. \A m, n \in Nat : m \in 1 .. Len(history) + 1 /\ n <= Len(history) =>
         SubSeq(history, m, n) \in Seq(Events)
  BY <1>1
<1>4. Len(history) - k + 1 \in 1 .. Len(history) + 1
  BY <1>1, <1>2
<1>5. SubSeq(history, Len(history) - k + 1, Len(history)) \in Seq(Events)
  BY <1>1, <1>3, <1>4
<1> QED BY <1>5 DEF History, k

---------------------------------------------------------------------------
(* Types.                                                                  *)

LEMMA BusSteps ==
    ASSUME HubTypeOK, [PublishRecord \/ \E e \in pending : PublishSend(e)]_busVars
    PROVE  BusTypeOK'
<1> USE DEF HubTypeOK, BusTypeOK, Events
<1>1. CASE PublishRecord
  <2>1. published' \in Events /\ published' \in Nat
    BY <1>1 DEF PublishRecord
  <2>2. history # <<>> => Tail(history) \in Seq(Events)
    OBVIOUS
  <2>3. Len(history) >= MaxHistory => history # <<>>
    BY BusAssumption
  <2>4. (IF Len(history) >= MaxHistory THEN Tail(history) ELSE history) \in Seq(Events)
    BY <2>2, <2>3
  <2>5. history' \in Seq(Events)
    BY <1>1, <2>1, <2>4 DEF PublishRecord
  <2> QED BY <1>1, <2>1, <2>5 DEF PublishRecord
<1>2. ASSUME NEW e \in pending, PublishSend(e) PROVE BusTypeOK'
  <2>1. e \in Events /\ Append(ch, e) \in Seq(Events)
    BY <1>2, MembersAppend
  <2> QED BY <1>2, <2>1 DEF PublishSend
<1>3. CASE UNCHANGED busVars
  BY <1>3 DEF busVars
<1> QED BY <1>1, <1>2, <1>3

\* The conditions of Registration go with the types: only an event that is not 0
\* is broadcast.
LEMMA HubStep ==
    ASSUME HubTypeOK, Registration, NoPanic, [Next]_allVars
    PROVE  (HubTypeOK /\ Registration /\ NoPanic)'
<1> DEFINE Goal == (HubTypeOK /\ Registration /\ NoPanic)'
<1> USE DEF HubTypeOK, Registration, NoPanic, NoReader, handlerVars, pumpVars, Pumps
<1>1. CASE PublishRecord /\ UNCHANGED hubVars
  BY <1>1, BusSteps DEF hubVars
<1>2. ASSUME NEW e \in pending, PublishSend(e), UNCHANGED hubVars PROVE Goal
  BY <1>2, BusSteps DEF hubVars
<1>3. CASE HubReceive
  <2>1. Head(ch) \in Events /\ ch' \in Seq(Events)
    BY <1>3, MembersTail DEF HubReceive, BusTypeOK
  <2>2. BusTypeOK'
    BY <1>3, <2>1 DEF HubReceive, BusTypeOK
  <2>3. /\ hub' \in [event : Nat, todo : SUBSET Clients]
        /\ hub'.event # 0 /\ hub'.todo = clients'
    BY <1>3, <2>1 DEF HubReceive, Events
  <2> QED BY <1>3, <2>2, <2>3 DEF HubReceive
<1>4. ASSUME NEW c \in Clients, HubSend(c) PROVE Goal
  <2>1. BusTypeOK'
    BY <1>4 DEF HubSend, BusTypeOK, busVars
  <2>2. hub.event \in Events /\ c \notin closed
    BY <1>4 DEF HubSend, Events
  <2>3. /\ hub' \in [event : Nat, todo : SUBSET Clients]
        /\ hub'.event # 0 /\ hub'.todo \subseteq hub.todo /\ panicked' = FALSE
    BY <1>4, <2>2 DEF HubSend, Events
  <2> DEFINE newSend == [send EXCEPT ![c] = Append(@, hub.event)]
             newSkipped == [skipped EXCEPT ![c] = @ \cup {hub.event}]
  <2>6. newSend \in [Clients -> Seq(Events)]
    BY <2>2, MembersAppend
  <2>7. newSkipped \in [Clients -> SUBSET Events]
    BY <2>2
  <2>8. send' \in {send, newSend} /\ skipped' \in {skipped, newSkipped}
    BY <1>4 DEF HubSend
  <2> HIDE DEF newSend, newSkipped
  <2>4. send' \in [Clients -> Seq(Events)]
    BY <2>6, <2>8
  <2>5. skipped' \in [Clients -> SUBSET Events]
    BY <2>7, <2>8
  <2> QED BY <1>4, <2>1, <2>2, <2>3, <2>4, <2>5 DEF HubSend
<1>5. CASE HubDone
  <2>1. BusTypeOK'
    BY <1>5 DEF HubDone, BusTypeOK, busVars
  <2> QED BY <1>5, <2>1 DEF HubDone
<1>6. ASSUME NEW c \in Clients, AddClient(c) PROVE Goal
  <2>1. BusTypeOK'
    BY <1>6 DEF AddClient, BusTypeOK, busVars
  <2> QED BY <1>6, <2>1 DEF AddClient
<1>7. ASSUME NEW c \in Clients, ReadHistory(c) PROVE Goal
  <2>1. BusTypeOK'
    BY <1>7 DEF ReadHistory, BusTypeOK, busVars
  <2>2. backlog' \in [Clients -> Seq(Events)] /\ joined' \in [Clients -> Nat]
    BY <1>7, HistoryType DEF ReadHistory, BusTypeOK
  <2> QED BY <1>7, <2>1, <2>2 DEF ReadHistory
<1>8. ASSUME NEW c \in Clients, SendHistory(c) PROVE Goal
  <2>1. BusTypeOK'
    BY <1>8 DEF SendHistory, BusTypeOK, busVars
  <2>2. Head(backlog[c]) \in Events /\ Tail(backlog[c]) \in Seq(Events)
    BY <1>8, MembersTail DEF SendHistory
  <2>3. send' \in [Clients -> Seq(Events)] /\ backlog' \in [Clients -> Seq(Events)]
    BY <1>8, <2>2, MembersAppend DEF SendHistory
  <2>4. panicked' = FALSE
    BY <1>8 DEF SendHistory
  <2> QED BY <1>8, <2>1, <2>3, <2>4 DEF SendHistory
<1>9. ASSUME NEW c \in Clients, StartPumps(c) PROVE Goal
  <2>1. BusTypeOK'
    BY <1>9 DEF StartPumps, BusTypeOK, busVars
  <2> QED BY <1>9, <2>1 DEF StartPumps
<1>10. ASSUME NEW c \in Clients, WriterWrite(c) PROVE Goal
  <2>1. BusTypeOK'
    BY <1>10 DEF WriterWrite, BusTypeOK, busVars
  <2>2. Head(send[c]) \in Events /\ Tail(send[c]) \in Seq(Events)
    BY <1>10, MembersTail DEF WriterWrite
  <2>5. Append(received[c], Head(send[c])) \in Seq(Events)
    BY <2>2, MembersAppend
  <2>6. send' \in [Clients -> Seq(Events)]
    BY <1>10, <2>2 DEF WriterWrite
  <2>7. received' \in [Clients -> Seq(Events)]
    BY <1>10, <2>5 DEF WriterWrite
  <2>3. send' \in [Clients -> Seq(Events)] /\ received' \in [Clients -> Seq(Events)]
    BY <2>6, <2>7
  <2>4. writer' \in [Clients -> Pumps] /\ \A d \in Clients : writer[d] = "none" => writer'[d] = "none"
    BY <1>10 DEF WriterWrite
  <2> QED BY <1>10, <2>1, <2>3, <2>4 DEF WriterWrite
<1>11. ASSUME NEW c \in Clients, WriterEnds(c) PROVE Goal
  <2>1. BusTypeOK'
    BY <1>11 DEF WriterEnds, BusTypeOK, busVars
  <2> QED BY <1>11, <2>1 DEF WriterEnds
<1>12. ASSUME NEW c \in Clients, RemoveClient(c), handler[c] = "returned"
       PROVE  /\ clients' \subseteq Clients /\ closed' \subseteq Clients
              /\ clients' \cap closed' = {} /\ panicked' = FALSE
              /\ \A d \in Clients : handler[d] # "returned" => d \notin closed'
              /\ hub.event = 0 /\ hub.todo = {}
  BY <1>12 DEF RemoveClient
<1>13. ASSUME NEW c \in Clients, WriterLeave(c) PROVE Goal
  <2>1. BusTypeOK'
    BY <1>13 DEF WriterLeave, BusTypeOK, busVars
  <2>2. handler[c] = "returned" /\ RemoveClient(c)
    BY <1>13 DEF WriterLeave
  <2> QED BY <1>12, <1>13, <2>1, <2>2 DEF WriterLeave
<1>14. ASSUME NEW c \in Clients, ReaderFails(c) PROVE Goal
  <2>1. BusTypeOK'
    BY <1>14 DEF ReaderFails, BusTypeOK, busVars
  <2> QED BY <1>14, <2>1 DEF ReaderFails
<1>15. ASSUME NEW c \in Clients, ReaderLeave(c) PROVE Goal
  <2>1. BusTypeOK'
    BY <1>15 DEF ReaderLeave, BusTypeOK, busVars
  <2>2. handler[c] = "returned" /\ RemoveClient(c)
    BY <1>15 DEF ReaderLeave
  <2> QED BY <1>12, <1>15, <2>1, <2>2 DEF ReaderLeave
<1>16. ASSUME NEW c \in Clients, LinkBreaks(c) PROVE Goal
  <2>1. BusTypeOK'
    BY <1>16 DEF LinkBreaks, BusTypeOK, busVars
  <2> QED BY <1>16, <2>1 DEF LinkBreaks
<1>17. CASE UNCHANGED allVars
  <2>1. BusTypeOK'
    BY <1>17 DEF allVars, BusTypeOK, busVars
  <2> QED BY <1>17, <2>1 DEF allVars, hubVars
<1> QED BY <1>1, <1>2, <1>3, <1>4, <1>5, <1>6, <1>7, <1>8, <1>9, <1>10, <1>11, <1>13,
           <1>14, <1>15, <1>16, <1>17
           DEF Next, RunHub, RunHandler, RunWriter, RunReader

---------------------------------------------------------------------------
(* No gap.                                                                 *)

\* For every step and every client that stays connected: what was on its way
\* still is, and what is published meanwhile gets on its way.
LEMMA NoGapStep ==
    ASSUME HubInv, [Next]_allVars
    PROVE  NoGap'
<1> SUFFICES ASSUME NEW c \in clients', handler'[c] \in {"history", "returned"}, link'[c] = "up",
                    NEW e \in (joined'[c] + 1 .. published')
             PROVE  e \in Known(c)'
  BY DEF NoGap
<1>0. c \in Clients /\ HubTypeOK'
  BY HubStep DEF HubInv, HubTypeOK
<1> DEFINE Before == /\ c \in clients /\ handler[c] \in {"history", "returned"} /\ link[c] = "up"
                     /\ joined'[c] = joined[c]
           Same == UNCHANGED <<joined, published>>
<1>1. Before /\ published' = published => e \in Known(c)
  BY <1>0 DEF HubInv, NoGap
<1>2. UNCHANGED hubVars => Before
  BY DEF hubVars
<1> USE DEF handlerVars, pumpVars, NoReader
<1>3. CASE PublishRecord /\ UNCHANGED hubVars
  <2>1. e \in joined[c] + 1 .. published \/ e = published + 1
    BY <1>0, <1>2, <1>3 DEF PublishRecord, HubInv, HubTypeOK, BusTypeOK
  <2>2. CASE e = published + 1
    BY <1>3, <2>2 DEF PublishRecord, Known
  <2>3. CASE e \in joined[c] + 1 .. published
    <3>1. e \in Known(c)
      BY <1>2, <1>3, <2>3 DEF HubInv, NoGap
    <3> QED BY <1>3, <3>1 DEF PublishRecord, Known, hubVars
  <2> QED BY <2>1, <2>2, <2>3
<1>4. ASSUME NEW f \in pending, PublishSend(f), UNCHANGED hubVars PROVE e \in Known(c)'
  <2>1. e \in Known(c)
    BY <1>1, <1>2, <1>4 DEF PublishSend
  <2>2. Members(Append(ch, f)) = Members(ch) \cup {f}
    BY MembersAppend DEF HubInv, HubTypeOK, BusTypeOK
  <2>3. e = f \/ e \in pending' \/ e \notin pending
    BY <1>4 DEF PublishSend
  <2>4. Members(ch) \subseteq Members(ch') /\ dropped \subseteq dropped'
        /\ (f \in Members(ch') \/ f \in dropped')
    BY <1>4, <2>2 DEF PublishSend
  <2> QED BY <1>4, <2>1, <2>3, <2>4 DEF Known, hubVars
<1>5. CASE HubReceive
  <2>1. e \in Known(c) /\ c \in hub'.todo /\ hub'.event = Head(ch)
    BY <1>1, <1>5 DEF HubReceive
  <2>2. Members(ch) = {Head(ch)} \cup Members(ch')
    BY <1>5, MembersTail DEF HubReceive, HubInv, HubTypeOK, BusTypeOK
  <2>3. hub.todo = {}
    BY <1>5 DEF HubReceive, HubInv, Registration
  <2> QED BY <1>5, <2>1, <2>2, <2>3 DEF HubReceive, Known
<1>6. ASSUME NEW d \in Clients, HubSend(d) PROVE e \in Known(c)'
  <2>1. e \in Known(c) /\ hub'.event = hub.event /\ hub'.todo = hub.todo \ {d}
    BY <1>1, <1>6 DEF HubSend, busVars, HubInv, HubTypeOK
  <2>2. hub.event \in Events
    BY <1>6 DEF HubSend, HubInv, HubTypeOK, Registration, Events
  <2>3. Members(Append(send[d], hub.event)) = Members(send[d]) \cup {hub.event}
    BY <2>2, MembersAppend DEF HubInv, HubTypeOK
  <2>4. /\ Members(send[c]) \subseteq Members(send'[c]) /\ skipped[c] \subseteq skipped'[c]
        /\ d = c => hub.event \in Members(send'[c]) \cup skipped'[c]
    <3>1. CASE Len(send[d]) < SendBuffer
      <4>1. send' = [send EXCEPT ![d] = Append(@, hub.event)] /\ skipped' = skipped
        BY <1>6, <3>1 DEF HubSend
      <4> QED BY <1>0, <2>3, <4>1 DEF HubInv, HubTypeOK
    <3>2. CASE ~(Len(send[d]) < SendBuffer)
      <4>1. skipped' = [skipped EXCEPT ![d] = @ \cup {hub.event}] /\ send' = send
        BY <1>6, <3>2 DEF HubSend
      <4> QED BY <1>0, <4>1 DEF HubInv, HubTypeOK
    <3> QED BY <3>1, <3>2
  <2> QED BY <1>6, <2>1, <2>4 DEF HubSend, Known, busVars
<1>7. CASE HubDone
  <2>1. e \in Known(c)
    BY <1>1, <1>7 DEF HubDone, busVars
  <2> QED BY <1>7, <2>1 DEF HubDone, Known, busVars
<1>8. ASSUME NEW d \in Clients, AddClient(d) PROVE e \in Known(c)'
  <2>1. d # c
    BY <1>0, <1>8 DEF AddClient, HubInv, HubTypeOK
  <2>2. e \in Known(c)
    BY <1>0, <1>1, <1>8, <2>1 DEF AddClient, busVars, HubInv, HubTypeOK
  <2> QED BY <1>8, <2>2 DEF AddClient, Known, busVars
<1>9. ASSUME NEW d \in Clients, ReadHistory(d) PROVE e \in Known(c)'
  <2>1. d # c
    BY <1>0, <1>9 DEF ReadHistory, HubInv, HubTypeOK, BusTypeOK, busVars
  <2>2. e \in Known(c) /\ backlog'[c] = backlog[c]
    BY <1>0, <1>1, <1>9, <2>1 DEF ReadHistory, busVars, HubInv, HubTypeOK
  <2> QED BY <1>9, <2>2 DEF ReadHistory, Known, busVars
<1>10. ASSUME NEW d \in Clients, SendHistory(d) PROVE e \in Known(c)'
  <2>1. e \in Known(c)
    BY <1>1, <1>10 DEF SendHistory, busVars
  <2>2. /\ Members(backlog[d]) = {Head(backlog[d])} \cup Members(Tail(backlog[d]))
        /\ Members(Append(send[d], Head(backlog[d]))) = Members(send[d]) \cup {Head(backlog[d])}
    BY <1>10, MembersTail, MembersAppend DEF SendHistory, HubInv, HubTypeOK
  <2>3. Members(backlog[c]) \cup Members(send[c]) \subseteq Members(backlog'[c]) \cup Members(send'[c])
    BY <1>0, <1>10, <2>2 DEF SendHistory, HubInv, HubTypeOK
  <2> QED BY <1>10, <2>1, <2>3 DEF SendHistory, Known, busVars
<1>11. ASSUME NEW d \in Clients, StartPumps(d) PROVE e \in Known(c)'
  <2>1. e \in Known(c)
    BY <1>0, <1>1, <1>11 DEF StartPumps, busVars, HubInv, HubTypeOK
  <2> QED BY <1>11, <2>1 DEF StartPumps, Known, busVars
<1>12. ASSUME NEW d \in Clients, WriterWrite(d) PROVE e \in Known(c)'
  <2>1. e \in Known(c)
    BY <1>1, <1>12 DEF WriterWrite, busVars
  <2>2. /\ Members(send[d]) = {Head(send[d])} \cup Members(Tail(send[d]))
        /\ Members(Append(received[d], Head(send[d]))) = Members(received[d]) \cup {Head(send[d])}
    BY <1>12, MembersTail, MembersAppend DEF WriterWrite, HubInv, HubTypeOK
  <2>3. Members(received[c]) \cup Members(send[c]) \subseteq Members(received'[c]) \cup Members(send'[c])
    BY <1>0, <1>12, <2>2 DEF WriterWrite, HubInv, HubTypeOK
  <2> QED BY <1>12, <2>1, <2>3 DEF WriterWrite, Known, busVars
<1>13. ASSUME NEW d \in Clients, WriterEnds(d) \/ ReaderFails(d) PROVE e \in Known(c)'
  <2>1. e \in Known(c)
    BY <1>1, <1>13 DEF WriterEnds, ReaderFails, busVars
  <2> QED BY <1>13, <2>1 DEF WriterEnds, ReaderFails, Known, busVars
<1>14. ASSUME NEW d \in Clients, WriterLeave(d) \/ ReaderLeave(d) PROVE e \in Known(c)'
  <2>1. c \in clients /\ d # c
    BY <1>0, <1>14 DEF WriterLeave, ReaderLeave, RemoveClient
  <2>2. e \in Known(c)
    BY <1>0, <1>1, <1>14, <2>1
       DEF WriterLeave, ReaderLeave, busVars, HubInv, HubTypeOK
  <2> QED BY <1>14, <2>2 DEF WriterLeave, ReaderLeave, Known, busVars
<1>15. ASSUME NEW d \in Clients, LinkBreaks(d) PROVE e \in Known(c)'
  <2>1. e \in Known(c)
    BY <1>0, <1>1, <1>15 DEF LinkBreaks, busVars, HubInv, HubTypeOK
  <2> QED BY <1>15, <2>1 DEF LinkBreaks, Known, busVars
<1>16. CASE UNCHANGED allVars
  BY <1>1, <1>16 DEF allVars, hubVars, busVars, Known
<1> QED BY <1>3, <1>4, <1>5, <1>6, <1>7, <1>8, <1>9, <1>10, <1>11, <1>12, <1>13, <1>14,
           <1>15, <1>16 DEF Next, RunHub, RunHandler, RunWriter, RunReader

---------------------------------------------------------------------------
(* Every event has one way at a time.                                      *)

\* A channel that gets an event it does not hold stays without duplicates.
LEMMA DistinctAppend ==
    ASSUME NEW s \in Seq(Events), NEW e \in Events, NEW n \in Nat,
           Distinct(s, n), e \in Members(s) => e <= n
    PROVE  Distinct(Append(s, e), n)
<1> DEFINE t == Append(s, e)
<1>1. /\ Len(t) = Len(s) + 1 /\ Len(s) \in Nat /\ t[Len(s) + 1] = e
      /\ \A i \in 1 .. Len(s) : t[i] = s[i]
  OBVIOUS
<1>2. \A i \in 1 .. Len(t) : i \in 1 .. Len(s) \/ i = Len(s) + 1
  BY <1>1
<1> HIDE DEF t
<1>3. \A i \in 1 .. Len(s) : s[i] = e => ~(e > n)
  <2> SUFFICES ASSUME NEW i \in 1 .. Len(s), s[i] = e PROVE ~(e > n)
    OBVIOUS
  <2>1. e \in Members(s)
    BY DEF Members
  <2>2. e \in Nat
    BY DEF Events
  <2> QED BY <2>1, <2>2
<1>4. ASSUME NEW i \in 1 .. Len(t), NEW j \in 1 .. Len(t), t[i] = t[j], t[i] > n PROVE i = j
  <2>1. CASE i \in 1 .. Len(s) /\ j \in 1 .. Len(s)
    BY <1>1, <1>4, <2>1 DEF Distinct
  <2>2. CASE i = Len(s) + 1 \/ j = Len(s) + 1
    BY <1>1, <1>2, <1>3, <1>4, <2>2
  <2> QED BY <1>2, <2>1, <2>2
<1> QED BY <1>4 DEF Distinct, t

\* What is left of a channel has no duplicates either, nor the first event again.
LEMMA DistinctTail ==
    ASSUME NEW s \in Seq(Events), s # <<>>, NEW n \in Nat, Distinct(s, n)
    PROVE  /\ Distinct(Tail(s), n)
           /\ Head(s) > n => Head(s) \notin Members(Tail(s))
<1> DEFINE t == Tail(s)
<1>1. /\ Head(s) = s[1] /\ Len(s) \in Nat \ {0} /\ Len(t) = Len(s) - 1
      /\ \A i \in 1 .. Len(t) : t[i] = s[i + 1]
  OBVIOUS
<1>2. 1 \in 1 .. Len(s) /\ \A i \in 1 .. Len(t) : i + 1 \in 1 .. Len(s) /\ i + 1 # 1
  BY <1>1
<1> HIDE DEF t
<1>3. ASSUME NEW i \in 1 .. Len(t), NEW j \in 1 .. Len(t), t[i] = t[j], t[i] > n PROVE i = j
  <2>1. i + 1 = j + 1
    BY <1>1, <1>2, <1>3 DEF Distinct
  <2> QED BY <2>1
<1>4. ASSUME NEW i \in 1 .. Len(t), t[i] = Head(s) PROVE ~(Head(s) > n)
  BY <1>1, <1>2, <1>4 DEF Distinct
<1> QED BY <1>3, <1>4 DEF Distinct, Members, t

\* A client is only told of events the bus still has in its history.
LEMMA HistoryMembers ==
    ASSUME BusTypeOK
    PROVE  Members(History(HistoryLimit)) \subseteq Members(history)
<1>1. history \in Seq(Events) /\ Len(history) \in Nat /\ HistoryLimit \in Nat \ {0}
  BY HubAssumption DEF BusTypeOK
<1> DEFINE k == IF HistoryLimit <= 0 \/ HistoryLimit > Len(history)
                THEN Len(history) ELSE HistoryLimit
           m == Len(history) - k + 1
           t == SubSeq(history, m, Len(history))
<1>2. k \in 0 .. Len(history)
  BY <1>1
<1> HIDE DEF k
<1>3. m \in 1 .. Len(history) + 1
  BY <1>1, <1>2
<1> HIDE DEF m
<1>4. \A a, b \in Nat : a \in 1 .. Len(history) + 1 /\ b = Len(history) =>
         /\ Len(SubSeq(history, a, b)) = b - a + 1
         /\ \A i \in 1 .. b - a + 1 : SubSeq(history, a, b)[i] = history[a + i - 1]
  BY <1>1
<1>5. Len(t) = Len(history) - m + 1 /\ \A i \in 1 .. Len(t) : t[i] = history[m + i - 1]
  BY <1>1, <1>3, <1>4
<1>6. \A i \in 1 .. Len(history) - m + 1 : m + i - 1 \in 1 .. Len(history)
  BY <1>1, <1>3
<1> HIDE DEF t
<1>7. Members(t) \subseteq Members(history)
  BY <1>5, <1>6 DEF Members
<1> QED BY <1>7 DEF History, k, m, t

\* A client whose own variables stay, and to which the bus and the hub have
\* nothing more to hand than before or than was published just now.
LEMMA ClientKept ==
    ASSUME NEW c \in Clients, ClientFlow(c),
           /\ send'[c] = send[c] /\ received'[c] = received[c] /\ skipped'[c] = skipped[c]
           /\ backlog'[c] = backlog[c] /\ joined'[c] = joined[c],
           published \in Nat, published' \in Nat, published <= published',
           NEW Way, Way = pending \cup Members(ch) \cup dropped,
           \A e \in 1 .. published : e \in pending' \cup Members(ch') \cup dropped' => e \in Way,
           c \in hub'.todo /\ hub'.event \in 1 .. published =>
               hub'.event \in Way \/ (c \in hub.todo /\ hub'.event = hub.event),
           joined[c] \in Nat
    PROVE  ClientFlow(c)'
<1> DEFINE H == Handled(c)
<1>1. Handled(c)' = H
  BY DEF Handled
<1>2. H \cup Members(backlog[c]) \subseteq 1 .. published /\ joined[c] <= published
  BY DEF ClientFlow
<1>3. \A e \in 1 .. published : e \in 1 .. published'
  OBVIOUS
<1>4. joined[c] <= published'
  BY <1>2
<1>5. \A e \in H : e > joined[c] =>
         /\ e \notin Way
         /\ c \in hub.todo => e # hub.event
  BY DEF ClientFlow
<1> HIDE DEF H
<1>6. \A e \in H : e > joined[c] =>
         /\ e \notin pending' \cup Members(ch') \cup dropped'
         /\ c \in hub'.todo => e # hub'.event
  BY <1>2, <1>5
<1> QED BY <1>1, <1>2, <1>3, <1>4, <1>6 DEF ClientFlow, H

\* The way of an event through the bus.
LEMMA BusFlowStep ==
    ASSUME HubInv, [Next]_allVars
    PROVE  BusFlow'
<1>0. /\ BusTypeOK /\ published \in Nat /\ ch \in Seq(Events) /\ hub.event \in Nat
      /\ pending \subseteq Events /\ Events \subseteq Nat
  BY DEF HubInv, HubTypeOK, BusTypeOK, Events
<1>b. /\ Members(history) \cup pending \cup Members(ch) \cup dropped \subseteq 1 .. published
      /\ hub.event <= published
      /\ pending \cap (Members(ch) \cup dropped \cup {hub.event}) = {}
      /\ Members(ch) \cap (dropped \cup {hub.event}) = {}
      /\ hub.event \notin dropped
      /\ Distinct(ch, 0)
  BY DEF HubInv, Flow, BusFlow
<1>1. CASE PublishRecord /\ UNCHANGED hubVars
  <2> DEFINE e == published + 1
             kept == IF Len(history) >= MaxHistory THEN Tail(history) ELSE history
  <2>1. /\ published' = e /\ pending' = pending \cup {e} /\ ch' = ch /\ dropped' = dropped
        /\ hub' = hub /\ history' = Append(kept, e)
    BY <1>1 DEF PublishRecord, hubVars
  <2>2. e \in Events /\ e \notin 1 .. published /\ 1 .. published \subseteq 1 .. e /\ e \in 1 .. e
        /\ hub.event <= e /\ e # hub.event
    BY <1>0, <1>b DEF Events
  <2>3. kept \in Seq(Events) /\ Members(kept) \subseteq Members(history)
    <3>1. CASE Len(history) >= MaxHistory
      <4>1. history # <<>> /\ history \in Seq(Events)
        BY <1>0, <3>1, BusAssumption DEF BusTypeOK
      <4> QED BY <3>1, <4>1, MembersTail
    <3>2. CASE ~(Len(history) >= MaxHistory)
      BY <1>0, <3>2 DEF BusTypeOK
    <3> QED BY <3>1, <3>2
  <2> HIDE DEF e, kept
  <2>4. Members(history') \subseteq Members(history) \cup {e}
    BY <2>1, <2>2, <2>3, MembersAppend
  <2>5. e \notin Members(ch) \cup dropped
    BY <1>b, <2>2
  <2> QED BY <1>b, <2>1, <2>2, <2>4, <2>5 DEF BusFlow
<1>2. ASSUME NEW e \in pending, PublishSend(e), UNCHANGED hubVars PROVE BusFlow'
  <2>1. /\ pending' = pending \ {e} /\ UNCHANGED <<published, history, hub>> /\ e \in Events
        /\ e \notin Members(ch) \cup dropped \cup {hub.event} /\ e \in 1 .. published
    BY <1>0, <1>2, <1>b DEF PublishSend, hubVars
  <2>2. CASE Len(ch) < ChanSize
    <3>0. ~(Len(ch) >= ChanSize)
      <4>1. Len(ch) \in Nat /\ ChanSize \in Nat
        BY <1>0, BusAssumption
      <4> QED BY <2>2, <4>1
    <3>1. ch' = Append(ch, e) /\ dropped' = dropped
      BY <1>2, <3>0 DEF PublishSend
    <3>2. Members(ch') = Members(ch) \cup {e} /\ Distinct(ch', 0)
      BY <1>0, <1>b, <2>1, <3>1, MembersAppend, DistinctAppend
    <3> QED BY <1>b, <2>1, <3>1, <3>2 DEF BusFlow
  <2>3. CASE ~(Len(ch) < ChanSize)
    <3>1. ch' = ch /\ dropped' = dropped \cup {e}
      BY <1>2, <2>3 DEF PublishSend
    <3> QED BY <1>b, <2>1, <3>1 DEF BusFlow
  <2> QED BY <2>2, <2>3
<1>3. CASE HubReceive
  <2>1. /\ ch # <<>> /\ ch' = Tail(ch) /\ hub'.event = Head(ch)
        /\ UNCHANGED <<published, history, pending, dropped>>
    BY <1>3 DEF HubReceive
  <2>2. Members(ch) = {Head(ch)} \cup Members(ch') /\ Head(ch) \in Events
    BY <1>0, <2>1, MembersTail
  <2>3. Distinct(ch', 0) /\ Head(ch) \notin Members(ch')
    BY <1>0, <1>b, <2>1, <2>2, DistinctTail DEF Events
  <2>4. Head(ch) <= published
    BY <1>b, <2>2
  <2> QED BY <1>b, <2>1, <2>2, <2>3, <2>4 DEF BusFlow
<1>4. CASE HubDone
  <2>1. hub'.event = 0 /\ UNCHANGED busVars
    BY <1>4 DEF HubDone, HubInv, HubTypeOK
  <2>2. 0 \notin 1 .. published /\ 0 <= published
    BY <1>0
  <2> QED BY <1>b, <2>1, <2>2 DEF BusFlow, busVars
<1>5. CASE UNCHANGED busVars /\ hub'.event = hub.event
  BY <1>b, <1>5 DEF BusFlow, busVars
<1>6. ASSUME NEW c \in Clients, HubSend(c) PROVE UNCHANGED busVars /\ hub'.event = hub.event
  BY <1>6 DEF HubSend, HubInv, HubTypeOK
<1>7. ASSUME NEW c \in Clients,
             AddClient(c) \/ RunHandler(c) \/ RunWriter(c) \/ RunReader(c) \/ LinkBreaks(c)
      PROVE  UNCHANGED busVars /\ hub' = hub
  BY <1>7 DEF AddClient, RunHandler, ReadHistory, SendHistory, StartPumps, RunWriter,
              WriterWrite, WriterEnds, WriterLeave, RunReader, ReaderFails, ReaderLeave, LinkBreaks
<1> QED BY <1>1, <1>2, <1>3, <1>4, <1>5, <1>6, <1>7 DEF Next, RunHub, allVars, hubVars

\* The way of an event to a client.
LEMMA ClientFlowStep ==
    ASSUME HubInv, [Next]_allVars, NEW c \in Clients
    PROVE  ClientFlow(c)'
<1>0. /\ HubTypeOK /\ BusTypeOK /\ Registration /\ BusFlow /\ ClientFlow(c)
      /\ published \in Nat /\ joined[c] \in Nat /\ hub.event \in Nat
      /\ send[c] \in Seq(Events) /\ received[c] \in Seq(Events) /\ backlog[c] \in Seq(Events)
      /\ skipped[c] \subseteq Events /\ Events \subseteq Nat
  BY DEF HubInv, HubTypeOK, BusTypeOK, Flow, Events
<1> DEFINE Way == pending \cup Members(ch) \cup dropped
<1>f. /\ Handled(c) \cup Members(backlog[c]) \subseteq 1 .. published
      /\ joined[c] <= published
      /\ \A e \in Members(backlog[c]) : e <= joined[c]
      /\ Distinct(send[c], joined[c]) /\ Distinct(received[c], joined[c])
      /\ \A e \in Handled(c) : e > joined[c] =>
            /\ e \notin Way
            /\ c \in hub.todo => e # hub.event
      /\ \A e \in Members(send[c]) : e > joined[c] =>
            e \notin Members(received[c]) \cup skipped[c]
      /\ \A e \in Members(received[c]) : e > joined[c] => e \notin skipped[c]
  BY <1>0 DEF ClientFlow
<1>k. ASSUME /\ send'[c] = send[c] /\ received'[c] = received[c] /\ skipped'[c] = skipped[c]
             /\ backlog'[c] = backlog[c] /\ joined'[c] = joined[c],
             published' \in Nat, published <= published',
             \A e \in 1 .. published : e \in pending' \cup Members(ch') \cup dropped' => e \in Way,
             c \in hub'.todo /\ hub'.event \in 1 .. published =>
                 hub'.event \in Way \/ (c \in hub.todo /\ hub'.event = hub.event)
      PROVE  ClientFlow(c)'
  BY <1>0, <1>k, ClientKept
<1> DEFINE OwnSame == UNCHANGED <<send[c], received[c], skipped[c], backlog[c], joined[c]>>
<1>s. ASSUME OwnSame, UNCHANGED busVars, hub'.event = hub.event, hub'.todo \subseteq hub.todo
      PROVE  ClientFlow(c)'
  BY <1>0, <1>k, <1>s DEF busVars
<1>1. CASE PublishRecord /\ UNCHANGED hubVars
  <2>1. /\ published' = published + 1 /\ pending' = pending \cup {published + 1}
        /\ UNCHANGED <<ch, dropped, hub>> /\ OwnSame
    BY <1>1 DEF PublishRecord, hubVars
  <2> HIDE DEF Way
  <2>2. published' \in Nat /\ published <= published' /\ published + 1 \notin 1 .. published
    BY <1>0, <2>1
  <2>3. \A e \in 1 .. published : e \in pending' \cup Members(ch') \cup dropped' => e \in Way
    BY <2>1, <2>2 DEF Way
  <2>4. c \in hub'.todo => c \in hub.todo /\ hub'.event = hub.event
    BY <2>1
  <2> QED BY <1>k, <2>1, <2>2, <2>3, <2>4
<1>2. ASSUME NEW f \in pending, PublishSend(f), UNCHANGED hubVars PROVE ClientFlow(c)'
  <2>1. /\ pending' = pending \ {f} /\ UNCHANGED <<published, hub>> /\ OwnSame /\ f \in Events
        /\ ch' \in {ch, Append(ch, f)} /\ dropped' \subseteq dropped \cup {f}
    BY <1>0, <1>2 DEF PublishSend, hubVars, BusTypeOK
  <2>2. Members(ch') \subseteq Members(ch) \cup {f}
    BY <1>0, <2>1, MembersAppend DEF BusTypeOK
  <2>3. \A e \in 1 .. published : e \in pending' \cup Members(ch') \cup dropped' => e \in Way
    BY <2>1, <2>2
  <2> HIDE DEF Way
  <2>4. published' \in Nat /\ published <= published'
    BY <1>0, <2>1
  <2> QED BY <1>k, <2>1, <2>3, <2>4
<1>3. CASE HubReceive
  <2>1. /\ ch # <<>> /\ ch' = Tail(ch) /\ hub'.event = Head(ch)
        /\ UNCHANGED <<published, pending, dropped>> /\ OwnSame
    BY <1>3 DEF HubReceive, handlerVars, pumpVars
  <2>2. Members(ch) = {Head(ch)} \cup Members(ch')
    BY <1>0, <2>1, MembersTail DEF BusTypeOK
  <2>3. \A e \in 1 .. published : e \in pending' \cup Members(ch') \cup dropped' => e \in Way
    BY <2>1, <2>2
  <2>4. hub'.event \in Way
    BY <2>1, <2>2
  <2> HIDE DEF Way
  <2>5. published' \in Nat /\ published <= published'
    BY <1>0, <2>1
  <2>6. /\ send'[c] = send[c] /\ received'[c] = received[c] /\ skipped'[c] = skipped[c]
        /\ backlog'[c] = backlog[c] /\ joined'[c] = joined[c]
    BY <2>1
  <2> QED BY <1>k, <2>3, <2>4, <2>5, <2>6
<1>4. CASE HubDone
  <2>1. hub'.event = 0 /\ UNCHANGED busVars /\ OwnSame
    BY <1>0, <1>4 DEF HubDone, HubTypeOK, handlerVars, pumpVars
  <2>2. ~(hub'.event \in 1 .. published) /\ published' \in Nat /\ published <= published'
    BY <1>0, <2>1 DEF busVars
  <2>3. \A e \in 1 .. published : e \in pending' \cup Members(ch') \cup dropped' => e \in Way
    BY <2>1 DEF busVars
  <2> HIDE DEF Way
  <2> QED BY <1>k, <2>1, <2>2, <2>3
<1>5. ASSUME NEW d \in Clients, HubSend(d) PROVE ClientFlow(c)'
  <2>1. /\ UNCHANGED busVars /\ UNCHANGED <<received, backlog, joined>> /\ d \in hub.todo
        /\ hub'.event = hub.event /\ hub'.todo = hub.todo \ {d}
    BY <1>0, <1>5 DEF HubSend, HubTypeOK, handlerVars, pumpVars
  <2>2. CASE d # c
    <3>1. send'[c] = send[c] /\ skipped'[c] = skipped[c]
      BY <1>0, <1>5, <2>2 DEF HubSend, HubTypeOK
    <3> QED BY <1>s, <2>1, <3>1
  <2>3. CASE d = c
    <3> DEFINE e == hub.event
    <3>1. e \in Events /\ e \in 1 .. published /\ e \notin Way
      BY <1>0, <2>1 DEF Registration, NoReader, BusFlow, Events
    <3>2. e \in Handled(c) => e <= joined[c]
      BY <1>0, <1>f, <2>1, <2>3
    <3>3. \/ send'[c] = Append(send[c], e) /\ skipped'[c] = skipped[c]
          \/ send'[c] = send[c] /\ skipped'[c] = skipped[c] \cup {e}
      BY <1>0, <1>5, <2>3 DEF HubSend, HubTypeOK
    <3>4. CASE send'[c] = Append(send[c], e) /\ skipped'[c] = skipped[c]
      <4>1. Members(send'[c]) = Members(send[c]) \cup {e} /\ Distinct(send'[c], joined[c])
        BY <1>0, <1>f, <3>1, <3>2, <3>4, MembersAppend, DistinctAppend DEF Handled
      <4> HIDE DEF e, Way
      <4>2. Handled(c)' = Handled(c) \cup {e}
        BY <2>1, <3>4, <4>1 DEF Handled
      <4>3. c \notin hub'.todo
        BY <2>1, <2>3
      <4>4. e > joined[c] => e \notin Members(received[c]) \cup skipped[c]
        BY <1>0, <3>1, <3>2 DEF Handled
      <4> QED BY <1>f, <2>1, <3>1, <3>4, <4>1, <4>2, <4>3, <4>4 DEF ClientFlow, busVars, Way
    <3>5. CASE send'[c] = send[c] /\ skipped'[c] = skipped[c] \cup {e}
      <4> HIDE DEF e, Way
      <4>2. Handled(c)' = Handled(c) \cup {e}
        BY <2>1, <3>5 DEF Handled
      <4>3. c \notin hub'.todo
        BY <2>1, <2>3
      <4>4. e > joined[c] => e \notin Members(received[c]) \cup Members(send[c])
        BY <1>0, <3>1, <3>2 DEF Handled
      <4> QED BY <1>f, <2>1, <3>1, <3>5, <4>2, <4>3, <4>4 DEF ClientFlow, busVars, Way
    <3> QED BY <3>3, <3>4, <3>5
  <2> QED BY <2>2, <2>3
<1>6. ASSUME NEW d \in Clients, ReadHistory(d) PROVE ClientFlow(c)'
  <2>1. UNCHANGED busVars /\ UNCHANGED <<hub, send, received, skipped>>
    BY <1>6 DEF ReadHistory, pumpVars
  <2>2. CASE d # c
    <3>1. backlog'[c] = backlog[c] /\ joined'[c] = joined[c]
      BY <1>0, <1>6, <2>2 DEF ReadHistory, HubTypeOK
    <3> QED BY <1>s, <2>1, <3>1
  <2>3. CASE d = c
    <3>1. joined'[c] = published /\ backlog'[c] = History(HistoryLimit)
      BY <1>0, <1>6, <2>3 DEF ReadHistory, HubTypeOK
    <3>2. Members(backlog'[c]) \subseteq 1 .. published
      BY <1>0, <3>1, HistoryMembers DEF BusFlow
    <3>3. \A e \in 1 .. published : e <= published /\ ~(e > published)
      BY <1>0
    <3>4. Members(send[c]) \subseteq 1 .. published /\ Members(received[c]) \subseteq 1 .. published
      BY <1>f DEF Handled
    <3>5. Distinct(send[c], published) /\ Distinct(received[c], published)
      BY <3>3, <3>4 DEF Distinct, Members
    <3>6. Handled(c)' = Handled(c) /\ Handled(c) \subseteq 1 .. published /\ published' = published
          /\ published <= published
      BY <1>0, <1>f, <2>1 DEF Handled, busVars
    <3> QED BY <2>1, <3>1, <3>2, <3>3, <3>4, <3>5, <3>6 DEF ClientFlow
  <2> QED BY <2>2, <2>3
<1>7. ASSUME NEW d \in Clients, SendHistory(d) PROVE ClientFlow(c)'
  <2>1. UNCHANGED busVars /\ UNCHANGED <<hub, received, skipped, joined>>
    BY <1>7 DEF SendHistory, pumpVars
  <2>2. CASE d # c
    <3>1. backlog'[c] = backlog[c] /\ send'[c] = send[c]
      BY <1>0, <1>7, <2>2 DEF SendHistory, HubTypeOK
    <3> QED BY <1>s, <2>1, <3>1
  <2>3. CASE d = c
    <3> DEFINE e == Head(backlog[c])
    <3>1. backlog[c] # <<>> /\ backlog'[c] = Tail(backlog[c]) /\ send'[c] = Append(send[c], e)
      BY <1>0, <1>7, <2>3 DEF SendHistory, HubTypeOK
    <3>2. e \in Events /\ Members(backlog[c]) = {e} \cup Members(backlog'[c])
      BY <1>0, <3>1, MembersTail
    <3>3. e <= joined[c] /\ e \in 1 .. published
      BY <1>f, <3>2
    <3>4. Members(send'[c]) = Members(send[c]) \cup {e} /\ Distinct(send'[c], joined[c])
      BY <1>0, <1>f, <3>1, <3>2, <3>3, MembersAppend, DistinctAppend
    <3> HIDE DEF e, Way
    <3>5. Handled(c)' = Handled(c) \cup {e} /\ ~(e > joined[c])
      BY <1>0, <2>1, <3>2, <3>3, <3>4 DEF Handled
    <3> QED BY <1>f, <2>1, <3>2, <3>3, <3>4, <3>5 DEF ClientFlow, busVars, Way
  <2> QED BY <2>2, <2>3
<1>8. ASSUME NEW d \in Clients, WriterWrite(d) PROVE ClientFlow(c)'
  <2>1. UNCHANGED busVars /\ UNCHANGED <<hub, backlog, skipped, joined>>
    BY <1>8 DEF WriterWrite, handlerVars
  <2>2. CASE d # c
    <3>1. received'[c] = received[c] /\ send'[c] = send[c]
      BY <1>0, <1>8, <2>2 DEF WriterWrite, HubTypeOK
    <3> QED BY <1>s, <2>1, <3>1
  <2>3. CASE d = c
    <3> DEFINE e == Head(send[c])
    <3>1. send[c] # <<>> /\ send'[c] = Tail(send[c])
      BY <1>0, <1>8, <2>3 DEF WriterWrite, HubTypeOK
    <3>2. e \in Events /\ Members(send[c]) = {e} \cup Members(send'[c])
      BY <1>0, <3>1, MembersTail
    <3>3. Distinct(send'[c], joined[c]) /\ (e > joined[c] => e \notin Members(send'[c]))
      BY <1>0, <1>f, <3>1, DistinctTail
    <3>4. received'[c] = Append(received[c], e) \/ received'[c] = received[c]
      BY <1>0, <1>8, <2>3 DEF WriterWrite, HubTypeOK
    <3>a. e \in Members(send[c]) /\ e \in Nat /\ joined[c] \in Nat
      BY <1>0, <3>2
    <3>b. e > joined[c] => e \notin Members(received[c])
      BY <1>f, <3>a
    <3>5. e \in Members(received[c]) => e <= joined[c]
      BY <3>a, <3>b
    <3>6. /\ Members(received'[c]) \subseteq Members(received[c]) \cup {e}
          /\ Distinct(received'[c], joined[c])
      <4>1. Distinct(received[c], joined[c]) /\ received[c] \in Seq(Events)
        BY <1>0, <1>f
      <4>2. CASE received'[c] = received[c]
        BY <4>1, <4>2
      <4>3. CASE received'[c] = Append(received[c], e)
        <5> HIDE DEF e
        <5> QED BY <3>2, <3>5, <3>a, <4>1, <4>3, MembersAppend, DistinctAppend
      <4> QED BY <3>4, <4>2, <4>3
    <3> HIDE DEF e, Way
    <3>7. Handled(c)' \subseteq Handled(c)
      BY <2>1, <3>2, <3>6 DEF Handled
    <3>8. e > joined[c] => e \notin skipped[c]
      BY <1>f, <3>2
    <3>9. published' = published /\ joined' = joined /\ backlog' = backlog /\ skipped' = skipped
          /\ hub' = hub /\ pending' = pending /\ ch' = ch /\ dropped' = dropped
      BY <2>1 DEF busVars
    <3> QED BY <1>f, <3>2, <3>3, <3>6, <3>7, <3>8, <3>9 DEF ClientFlow, Way
  <2> QED BY <2>2, <2>3
<1>9. ASSUME NEW d \in Clients,
             AddClient(d) \/ StartPumps(d) \/ WriterEnds(d) \/ WriterLeave(d) \/ ReaderFails(d)
             \/ ReaderLeave(d) \/ LinkBreaks(d)
      PROVE  UNCHANGED busVars /\ hub' = hub /\ OwnSame
  BY <1>9 DEF AddClient, StartPumps, WriterEnds, WriterLeave, ReaderFails, ReaderLeave,
              LinkBreaks, handlerVars, pumpVars
<1>10. CASE UNCHANGED allVars
  <2>1. UNCHANGED busVars /\ hub' = hub /\ OwnSame
    BY <1>10 DEF allVars, hubVars
  <2> QED BY <1>s, <2>1
<1> QED BY <1>1, <1>2, <1>3, <1>4, <1>5, <1>6, <1>7, <1>8, <1>9, <1>10, <1>s
        DEF Next, RunHub, RunHandler, RunWriter, RunReader

---------------------------------------------------------------------------
(* The theorems.                                                           *)

LEMMA HubStart == ASSUME Init PROVE HubInv
<1>1. BusTypeOK /\ <<>> \in Seq(Events)
  BY DEF Init, BusInit, BusTypeOK
<1>2. HubTypeOK
  BY <1>1 DEF Init, HubInit, HubTypeOK, Pumps
<1>3. \A n : Members(<<>>) = {} /\ Distinct(<<>>, n)
  BY DEF Members, Distinct
<1>4. Flow
  BY <1>3 DEF Init, BusInit, HubInit, Flow, BusFlow, ClientFlow, Handled
<1> QED BY <1>2, <1>4 DEF Init, BusInit, HubInit, HubInv, Registration, NoPanic, NoGap, NoReader

\* The invariant of the hub, for any number of clients and events and for
\* channels of any size.
THEOREM HubInvariance == Spec => []HubInv
<1>1. Init => HubInv
  BY HubStart
<1>2. HubInv /\ [Next]_allVars => HubInv'
  BY HubStep, NoGapStep, BusFlowStep, ClientFlowStep DEF HubInv, Flow
<1> QED BY <1>1, <1>2, PTL DEF Spec

\* The hub, the handlers, the writers and the readers never panic on a channel.
THEOREM HubNeverPanics == Spec => []NoPanic
<1>1. HubInv => NoPanic
  BY DEF HubInv
<1> QED BY <1>1, HubInvariance, PTL

\* No client that stays connected misses an event, but for a full buffer.
THEOREM NoEventMissed == Spec => []NoGap
<1>1. HubInv => NoGap
  BY DEF HubInv
<1> QED BY <1>1, HubInvariance, PTL

\* What a connection has been sent and what waits in its channel have no event
\* after the join twice.
LEMMA FlowIsOnce == ASSUME HubTypeOK, Flow PROVE OnceAfterJoin
<1> SUFFICES ASSUME NEW c \in Clients
             PROVE  Distinct(received[c] \o send[c], joined[c])
  BY DEF OnceAfterJoin, Distinct
<1> DEFINE r == received[c]
           q == send[c]
           s == r \o q
           n == joined[c]
<1>1. r \in Seq(Events) /\ q \in Seq(Events) /\ n \in Nat
  BY DEF HubTypeOK
<1>2. /\ Distinct(q, n) /\ Distinct(r, n)
      /\ \A e \in Members(q) : e > n => e \notin Members(r)
  BY DEF Flow, ClientFlow
<1> HIDE DEF r, q, n
<1>3. /\ Len(r) \in Nat /\ Len(q) \in Nat /\ Len(s) = Len(r) + Len(q)
      /\ \A i \in 1 .. Len(r) : s[i] = r[i]
      /\ \A i \in Len(r) + 1 .. Len(r) + Len(q) : s[i] = q[i - Len(r)]
  BY <1>1
<1> HIDE DEF s
<1>4. ASSUME NEW i \in 1 .. Len(s)
      PROVE  \/ i \in 1 .. Len(r) /\ s[i] = r[i]
             \/ i - Len(r) \in 1 .. Len(q) /\ s[i] = q[i - Len(r)] /\ i \notin 1 .. Len(r)
  BY <1>3
<1>5. ASSUME NEW i \in 1 .. Len(s), NEW j \in 1 .. Len(s), s[i] = s[j], s[i] > n
      PROVE  i = j
  <2>1. CASE i \in 1 .. Len(r) /\ j \in 1 .. Len(r)
    BY <1>2, <1>3, <1>5, <2>1 DEF Distinct
  <2>2. CASE i \notin 1 .. Len(r) /\ j \notin 1 .. Len(r)
    <3>1. /\ i - Len(r) \in 1 .. Len(q) /\ j - Len(r) \in 1 .. Len(q)
          /\ s[i] = q[i - Len(r)] /\ s[j] = q[j - Len(r)]
      BY <1>4, <2>2
    <3>2. i - Len(r) = j - Len(r)
      BY <1>2, <1>5, <3>1 DEF Distinct
    <3> QED BY <1>3, <3>2
  <2>3. ASSUME NEW k \in 1 .. Len(s), NEW m \in 1 .. Len(s), s[k] = s[m], s[k] > n,
               k \in 1 .. Len(r), m \notin 1 .. Len(r)
        PROVE  FALSE
    <3>1. s[k] \in Members(r)
      BY <1>3, <2>3 DEF Members
    <3>2. s[m] \in Members(q)
      BY <1>4, <2>3 DEF Members
    <3> QED BY <1>2, <2>3, <3>1, <3>2
  <2> QED BY <1>5, <2>1, <2>2, <2>3
<1> QED BY <1>5 DEF Distinct, s, r, q, n

\* No client gets an event published after its join twice, although the sends of
\* concurrent Publishes overtake each other and the history is sent besides.
THEOREM NoEventTwice == Spec => []OnceAfterJoin
<1>1. HubInv => OnceAfterJoin
  BY FlowIsOnce DEF HubInv
<1> QED BY <1>1, HubInvariance, PTL
=============================================================================
