------------------------------- MODULE WsHub -------------------------------
(***************************************************************************)
(* The WebSocket hub (internal/server/websocket.go): one goroutine that    *)
(* broadcasts the events of the bus, and for each connection the HTTP      *)
(* handler that registers it and sends the history, then a writer and a    *)
(* reader.  The ping goroutine only keeps the connection open and is left  *)
(* out.                                                                    *)
(*                                                                         *)
(* The hub's mutex is held for reading during a whole broadcast, which is  *)
(* hub.event # 0; the sections that hold it for writing are single steps.  *)
(***************************************************************************)
EXTENDS EventBus

CONSTANTS Clients,       \* the connections
          SendBuffer,    \* capacity of a client's send channel (128)
          HistoryLimit   \* events the handler asks the bus for (50)

ASSUME HubAssumption ==
    /\ SendBuffer \in Nat \ {0}
    /\ HistoryLimit \in Nat \ {0}

VARIABLES hub,       \* the broadcast under way: its event, or 0, and the clients to come
          clients,   \* the registered clients
          send,      \* their send channels
          closed,    \* the clients whose channel is closed
          handler,   \* where the connection's HTTP handler is
          joined,    \* how many events there were when it read the history
          backlog,   \* the history it has still to send
          writer, reader,   \* the connection's goroutines
          link,      \* whether the connection is up
          received,  \* what has been written to the connection
          skipped,   \* events a full send channel has cost the client
          panicked   \* a closed channel was sent to or closed again

hubVars == <<hub, clients, send, closed, handler, joined, backlog, writer, reader,
             link, received, skipped, panicked>>

\* What only the handler of a connection changes, and what only its goroutines do.
handlerVars == <<handler, joined, backlog>>
pumpVars == <<writer, reader, link, received>>

allVars == <<busVars, hubVars>>

Pumps == {"none", "running", "leaving", "done"}

HubTypeOK ==
    /\ BusTypeOK
    /\ hub \in [event : Nat, todo : SUBSET Clients]
    /\ clients \subseteq Clients
    /\ send \in [Clients -> Seq(Events)]
    /\ closed \subseteq Clients
    /\ handler \in [Clients -> {"none", "added", "history", "returned"}]
    /\ joined \in [Clients -> Nat]
    /\ backlog \in [Clients -> Seq(Events)]
    /\ writer \in [Clients -> Pumps]
    /\ reader \in [Clients -> Pumps]
    /\ link \in [Clients -> {"up", "down"}]
    /\ received \in [Clients -> Seq(Events)]
    /\ skipped \in [Clients -> SUBSET Events]
    /\ panicked \in BOOLEAN

HubInit ==
    /\ hub = [event |-> 0, todo |-> {}]
    /\ clients = {}
    /\ send = [c \in Clients |-> <<>>]
    /\ closed = {}
    /\ handler = [c \in Clients |-> "none"]
    /\ joined = [c \in Clients |-> 0]
    /\ backlog = [c \in Clients |-> <<>>]
    /\ writer = [c \in Clients |-> "none"]
    /\ reader = [c \in Clients |-> "none"]
    /\ link = [c \in Clients |-> "up"]
    /\ received = [c \in Clients |-> <<>>]
    /\ skipped = [c \in Clients |-> {}]
    /\ panicked = FALSE

Init == BusInit /\ HubInit

\* The mutex can be taken for writing.
NoReader == hub.event = 0

---------------------------------------------------------------------------
(* The hub's goroutine.                                                    *)

\* (Faulty variant: only the clients whose handler has returned are served.)
HubReceiveStarted ==
    /\ NoReader
    /\ ch # <<>>
    /\ ch' = Tail(ch)
    /\ hub' = [event |-> Head(ch), todo |-> {c \in clients : handler[c] = "returned"}]
    /\ UNCHANGED <<published, history, pending, dropped, clients, send, closed,
                   handlerVars, pumpVars, skipped, panicked>>

HubReceive ==
    /\ NoReader
    /\ ch # <<>>
    /\ ch' = Tail(ch)
    /\ hub' = [event |-> Head(ch), todo |-> clients]
    /\ UNCHANGED <<published, history, pending, dropped, clients, send, closed,
                   handlerVars, pumpVars, skipped, panicked>>

\* (Faulty variant: a client with a full buffer is counted as skipped and tried
\* again.)
HubSendAgain(c) ==
    /\ c \in hub.todo
    /\ hub' = [hub EXCEPT !.todo = IF Len(send[c]) < SendBuffer THEN @ \ {c} ELSE @]
    /\ panicked' = (panicked \/ c \in closed)
    /\ IF Len(send[c]) < SendBuffer
       THEN send' = [send EXCEPT ![c] = Append(@, hub.event)] /\ UNCHANGED skipped
       ELSE skipped' = [skipped EXCEPT ![c] = @ \cup {hub.event}] /\ UNCHANGED send
    /\ UNCHANGED <<busVars, clients, closed, handlerVars, pumpVars>>

\* A full buffer skips the client.
HubSend(c) ==
    /\ c \in hub.todo
    /\ hub' = [hub EXCEPT !.todo = @ \ {c}]
    /\ panicked' = (panicked \/ c \in closed)
    /\ IF Len(send[c]) < SendBuffer
       THEN send' = [send EXCEPT ![c] = Append(@, hub.event)] /\ UNCHANGED skipped
       ELSE skipped' = [skipped EXCEPT ![c] = @ \cup {hub.event}] /\ UNCHANGED send
    /\ UNCHANGED <<busVars, clients, closed, handlerVars, pumpVars>>

HubDone ==
    /\ ~NoReader
    /\ hub.todo = {}
    /\ hub' = [hub EXCEPT !.event = 0]
    /\ UNCHANGED <<busVars, clients, send, closed, handlerVars, pumpVars, skipped, panicked>>

---------------------------------------------------------------------------
(* A connection's handler.                                                 *)

AddClient(c) ==
    /\ handler[c] = "none"
    /\ NoReader
    /\ clients' = clients \cup {c}
    /\ handler' = [handler EXCEPT ![c] = "added"]
    /\ UNCHANGED <<busVars, hub, send, closed, joined, backlog, pumpVars, skipped, panicked>>

\* (Faulty variant: the whole history is asked for.)
ReadHistoryAll(c) ==
    /\ handler[c] = "added"
    /\ backlog' = [backlog EXCEPT ![c] = History(0)]
    /\ joined' = [joined EXCEPT ![c] = published]
    /\ handler' = [handler EXCEPT ![c] = "history"]
    /\ UNCHANGED <<busVars, hub, clients, send, closed, pumpVars, skipped, panicked>>

ReadHistory(c) ==
    /\ handler[c] = "added"
    /\ backlog' = [backlog EXCEPT ![c] = History(HistoryLimit)]
    /\ joined' = [joined EXCEPT ![c] = published]
    /\ handler' = [handler EXCEPT ![c] = "history"]
    /\ UNCHANGED <<busVars, hub, clients, send, closed, pumpVars, skipped, panicked>>

\* This send blocks while the buffer is full, and nobody empties it yet.
SendHistory(c) ==
    /\ handler[c] = "history"
    /\ backlog[c] # <<>>
    /\ Len(send[c]) < SendBuffer
    /\ send' = [send EXCEPT ![c] = Append(@, Head(backlog[c]))]
    /\ backlog' = [backlog EXCEPT ![c] = Tail(@)]
    /\ panicked' = (panicked \/ c \in closed)
    /\ UNCHANGED <<busVars, hub, clients, closed, handler, joined, pumpVars, skipped>>

StartPumps(c) ==
    /\ handler[c] = "history"
    /\ backlog[c] = <<>>
    /\ handler' = [handler EXCEPT ![c] = "returned"]
    /\ writer' = [writer EXCEPT ![c] = "running"]
    /\ reader' = [reader EXCEPT ![c] = "running"]
    /\ UNCHANGED <<busVars, hub, clients, send, closed, joined, backlog, link, received,
                   skipped, panicked>>

---------------------------------------------------------------------------
(* Its two goroutines.                                                     *)

\* (Faulty variant: it does not ask whether the client is still registered.)
RemoveClientAgain(c) ==
    /\ NoReader
    /\ clients' = clients \ {c}
    /\ closed' = closed \cup {c}
    /\ panicked' = (panicked \/ c \in closed)

RemoveClient(c) ==
    /\ NoReader
    /\ clients' = clients \ {c}
    /\ closed' = IF c \in clients THEN closed \cup {c} ELSE closed
    /\ panicked' = (panicked \/ (c \in clients /\ c \in closed))

\* A message is written.  On a connection that is down the write fails, or it
\* reaches only the buffers of the kernel.
WriterWrite(c) ==
    /\ writer[c] = "running"
    /\ send[c] # <<>>
    /\ send' = [send EXCEPT ![c] = Tail(@)]
    /\ \/ link[c] = "up" /\ received' = [received EXCEPT ![c] = Append(@, Head(send[c]))]
                         /\ UNCHANGED writer
       \/ link[c] = "down" /\ writer' \in {writer, [writer EXCEPT ![c] = "leaving"]}
                           /\ UNCHANGED received
    /\ UNCHANGED <<busVars, hub, clients, closed, handlerVars, reader, link, skipped, panicked>>

\* The channel is closed and drained: the loop ends.
WriterEnds(c) ==
    /\ writer[c] = "running"
    /\ send[c] = <<>>
    /\ c \in closed
    /\ writer' = [writer EXCEPT ![c] = "leaving"]
    /\ UNCHANGED <<busVars, hub, clients, send, closed, handlerVars, reader, link, received,
                   skipped, panicked>>

\* conn.Close, then removeClient.
WriterLeave(c) ==
    /\ writer[c] = "leaving"
    /\ RemoveClient(c)
    /\ writer' = [writer EXCEPT ![c] = "done"]
    /\ link' = [link EXCEPT ![c] = "down"]
    /\ UNCHANGED <<busVars, hub, send, handlerVars, reader, received, skipped>>

\* ReadMessage returns an error when the connection is down.
ReaderFails(c) ==
    /\ reader[c] = "running"
    /\ link[c] = "down"
    /\ reader' = [reader EXCEPT ![c] = "leaving"]
    /\ UNCHANGED <<busVars, hub, clients, send, closed, handlerVars, writer, link, received,
                   skipped, panicked>>

\* (Faulty variant: it only closes the connection.)
ReaderLeaveClose(c) ==
    /\ reader[c] = "leaving"
    /\ reader' = [reader EXCEPT ![c] = "done"]
    /\ UNCHANGED <<busVars, hub, clients, send, closed, handlerVars, writer, link, received,
                   skipped, panicked>>

\* removeClient, then conn.Close.
ReaderLeave(c) ==
    /\ reader[c] = "leaving"
    /\ RemoveClient(c)
    /\ reader' = [reader EXCEPT ![c] = "done"]
    /\ UNCHANGED <<busVars, hub, send, handlerVars, writer, link, received, skipped>>

\* The browser goes away, or has answered no ping for a minute.
LinkBreaks(c) ==
    /\ handler[c] # "none"
    /\ link[c] = "up"
    /\ link' = [link EXCEPT ![c] = "down"]
    /\ UNCHANGED <<busVars, hub, clients, send, closed, handlerVars, writer, reader, received,
                   skipped, panicked>>

---------------------------------------------------------------------------
(* The bus and the hub.                                                    *)

RunHub == HubReceive \/ (\E c \in Clients : HubSend(c)) \/ HubDone

RunHandler(c) == ReadHistory(c) \/ SendHistory(c) \/ StartPumps(c)

RunWriter(c) == WriterWrite(c) \/ WriterEnds(c) \/ WriterLeave(c)

RunReader(c) == ReaderFails(c) \/ ReaderLeave(c)

Next ==
    \/ PublishRecord /\ UNCHANGED hubVars
    \/ \E e \in pending : PublishSend(e) /\ UNCHANGED hubVars
    \/ RunHub
    \/ \E c \in Clients : AddClient(c) \/ RunHandler(c) \/ RunWriter(c) \/ RunReader(c)
                          \/ LinkBreaks(c)

Spec == Init /\ [][Next]_allVars

\* Every goroutine that can run does; nobody has to publish, connect or leave.
FairSpec ==
    /\ Spec
    /\ WF_allVars(\E e \in pending : PublishSend(e) /\ UNCHANGED hubVars)
    /\ WF_allVars(RunHub)
    /\ \A c \in Clients : /\ WF_allVars(RunHandler(c))
                          /\ WF_allVars(RunWriter(c))
                          /\ WF_allVars(RunReader(c))

---------------------------------------------------------------------------
(* Properties.                                                             *)

\* No goroutine ever sends to a closed channel or closes one twice, which would
\* end the whole process: the hub, the handler, the writer and the reader of a
\* connection share its channel and end in any order.
NoPanic == ~panicked

Members(s) == {s[i] : i \in 1 .. Len(s)}

\* The events after the n-th are in s once at most.
Distinct(s, n) == \A i, j \in 1 .. Len(s) : s[i] = s[j] /\ s[i] > n => i = j

\* Where an event can be on its way to client c, or for a full buffer no more.
Known(c) ==
    pending \cup Members(ch) \cup dropped \cup skipped[c]
    \cup (IF c \in hub.todo THEN {hub.event} ELSE {})
    \cup Members(backlog[c]) \cup Members(send[c]) \cup Members(received[c])

\* There is no gap between the history a new client gets and the live events:
\* whatever is published while the client connects, it has got, or will get, or
\* a full buffer has cost it.
NoGap ==
    \A c \in clients :
        handler[c] \in {"history", "returned"} /\ link[c] = "up" =>
            (joined[c] + 1 .. published) \subseteq Known(c)

\* Why nobody panics: only the goroutines a returned handler has started remove
\* its client, a client is closed when it leaves the table, and a broadcast
\* keeps the table as it is.
Registration ==
    /\ \A c \in Clients : handler[c] # "returned" =>
          writer[c] = "none" /\ reader[c] = "none" /\ c \notin closed
    /\ clients \cap closed = {}
    /\ hub.todo \subseteq clients
    /\ NoReader => hub.todo = {}

\* Where the bus keeps an event that is on its way, it is on no other way, and
\* nobody knows of an event before it is published.
BusFlow ==
    /\ Members(history) \cup pending \cup Members(ch) \cup dropped \subseteq 1 .. published
    /\ hub.event <= published
    /\ pending \cap (Members(ch) \cup dropped \cup {hub.event}) = {}
    /\ Members(ch) \cap (dropped \cup {hub.event}) = {}
    /\ hub.event \notin dropped
    /\ Distinct(ch, 0)

\* What client c has got of an event, or will get from its own channel, or a
\* full buffer has cost it.
Handled(c) == Members(send[c]) \cup Members(received[c]) \cup skipped[c]

\* Of the events after its join a client handles each in one way and once, and
\* none that the bus or the hub has still to hand to it.
ClientFlow(c) ==
    /\ Handled(c) \cup Members(backlog[c]) \subseteq 1 .. published
    /\ joined[c] <= published
    /\ \A e \in Members(backlog[c]) : e <= joined[c]
    /\ Distinct(send[c], joined[c]) /\ Distinct(received[c], joined[c])
    /\ \A e \in Handled(c) : e > joined[c] =>
          /\ e \notin pending \cup Members(ch) \cup dropped
          /\ c \in hub.todo => e # hub.event
    /\ \A e \in Members(send[c]) : e > joined[c] => e \notin Members(received[c]) \cup skipped[c]
    /\ \A e \in Members(received[c]) : e > joined[c] => e \notin skipped[c]

Flow == BusFlow /\ \A c \in Clients : ClientFlow(c)

HubInv == HubTypeOK /\ Registration /\ NoPanic /\ NoGap /\ Flow

\* What is published after the client has read the history reaches it once at
\* most (earlier events may come twice, with the history and live).
OnceAfterJoin ==
    \A c \in Clients :
        LET s == received[c] \o send[c]
        IN \A i, j \in 1 .. Len(s) : s[i] = s[j] /\ s[i] > joined[c] => i = j

\* The clients that have read the history, and what full channels have cost them
\* since.
Joined == {c \in Clients : handler[c] \in {"history", "returned"}}

Missed ==
    [c \in Clients |-> IF c \in Joined
                       THEN {e \in dropped \cup skipped[c] : e > joined[c]}
                       ELSE {}]

FeedOf == INSTANCE Feed WITH posted <- published, members <- Joined, since <- joined,
                             got <- received, missed <- Missed

\* The bus, the hub and the goroutines of the connections implement the feed:
\* an event published after the join is written to the connection once at most,
\* and never after a full channel or buffer has cost the client this event.
ImplementsFeed == FeedOf!Spec

\* The events whose broadcast, had c been registered all the time, is behind it.
Broadcast(c) ==
    (1 .. published)
        \ (pending \cup Members(ch) \cup dropped
            \cup (IF c \in hub.todo THEN {hub.event} ELSE {}))

\* A handler gets through the history unless, since its client was registered,
\* more events have been broadcast to it than the send buffer has room for
\* besides the history; it makes no difference how many were before (early).
HandlerReturns ==
    \A c \in Clients : \A early \in SUBSET (1 .. MaxEvents) :
        handler[c] = "added" /\ Broadcast(c) \ Handled(c) = early ~>
            \/ handler[c] = "returned"
            \/ Cardinality(Broadcast(c) \ early) > SendBuffer - HistoryLimit

\* Nothing that a client may still expect is forgotten: it comes, or a full
\* buffer costs it, unless the connection breaks first.
Served ==
    \A c \in Clients : \A e \in 1 .. MaxEvents :
        handler[c] = "returned" /\ e \in FeedOf!Owed(c) ~>
            e \notin FeedOf!Owed(c) \/ link[c] = "down"

\* A connection that is down leaves nothing behind: the client is removed and
\* its writer and reader end, although the writer may wait for an event.  (The
\* ping goroutine ends at its next failed write.)
CleanedUp ==
    \A c \in Clients :
        handler[c] = "returned" /\ link[c] = "down" ~>
            c \notin clients /\ writer[c] = "done" /\ reader[c] = "done"

=============================================================================
