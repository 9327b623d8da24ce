---------------------------- MODULE DashboardHub ----------------------------
(***************************************************************************)
(* The dashboard WebSocket: how an event on the bus reaches the clients.   *)
(*                                                                         *)
(* Publish calls the handlers of an event in the publisher's goroutine,    *)
(* and the outbox consumer's handler broadcasts: the outbox worker, the    *)
(* market pipeline and an HTTP request may all be inside Broadcast at      *)
(* once.  Each client has a buffered channel, a read pump that unregisters *)
(* it, and a write pump.  The hub's RWMutex orders broadcasts (readers)    *)
(* and Register and Unregister (writers); as in Go, a waiting writer holds *)
(* new readers back.  A step is what happens between two points where      *)
(* another goroutine can come in.                                          *)
(***************************************************************************)
EXTENDS Naturals, FiniteSets, SequencesExt

CONSTANTS
    Clients,      \* dashboard connections
    Broadcasters, \* goroutines that publish on the bus
    Buffer,       \* the capacity of a send channel (32)
    MaxMessages   \* bound: how many messages are published in all

ASSUME HubAssumption ==
    /\ IsFiniteSet(Clients) /\ IsFiniteSet(Broadcasters)
    /\ Buffer \in Nat \ {0} /\ MaxMessages \in Nat

Messages == Broadcasters \X (1..MaxMessages)

VARIABLES
    clients,   \* hub.clients
    reader,    \* reader[c]: where the goroutine that serves and reads c stands
    writer,    \* writer[c]: the write pump of c
    closed,    \* connections whose closed and send channels are closed
    send,      \* send[c]: the contents of the send channel
    hand,      \* hand[c]: the message the write pump is writing, if any
    cast,      \* cast[b]: the broadcast b is in
    sent,      \* sent[b]: how many messages b has begun to broadcast
    received,  \* history: received[c]: the messages that reached the browser
    owed,      \* history: owed[c]: the messages whose broadcast began with c
    dropped,   \* history: dropped[c]: those that found the channel full
    panicked   \* history: a send on a closed channel, or a second close

vars == <<clients, reader, writer, closed, send, hand, cast, sent, received,
          owed, dropped, panicked>>
ends == <<received, owed, dropped, panicked>>

Idle == [pc |-> "idle"]
Casting == [pc : {"loop"}, left : SUBSET Clients]
           \cup [pc : {"send"}, left : SUBSET Clients, to : Clients]

TypeOK ==
    /\ clients \subseteq Clients
    /\ reader \in [Clients -> {"none", "register", "reading", "unregister", "gone"}]
    /\ writer \in [Clients -> {"none", "running", "gone"}]
    /\ closed \subseteq Clients
    /\ \A c \in Clients :
        /\ send[c] \in Seq(Messages) /\ Len(send[c]) <= Buffer
        /\ hand[c] \in Seq(Messages) /\ Len(hand[c]) <= 1
        /\ received[c] \in Seq(Messages)
    /\ cast \in [Broadcasters -> {Idle} \cup Casting]
    /\ sent \in [Broadcasters -> 0..MaxMessages]
    /\ owed \in [Clients -> SUBSET Messages]
    /\ dropped \in [Clients -> SUBSET Messages]
    /\ panicked \in BOOLEAN

Init ==
    /\ clients = {}
    /\ reader = [c \in Clients |-> "none"]
    /\ writer = [c \in Clients |-> "none"]
    /\ closed = {}
    /\ send = [c \in Clients |-> <<>>]
    /\ hand = [c \in Clients |-> <<>>]
    /\ cast = [b \in Broadcasters |-> Idle]
    /\ sent = [b \in Broadcasters |-> 0]
    /\ received = [c \in Clients |-> <<>>]
    /\ owed = [c \in Clients |-> {}]
    /\ dropped = [c \in Clients |-> {}]
    /\ panicked = FALSE

\* The write lock is free: no broadcast holds the read lock.
LockFree == \A b \in Broadcasters : cast[b] = Idle

\* A writer waits: RLock waits behind it.
WriterWaits == \E c \in Clients : reader[c] \in {"register", "unregister"}
-----------------------------------------------------------------------------
(* A connection. *)

\* ServeHTTP upgrades the request, and calls Register.
Upgrade(c) ==
    /\ reader[c] = "none"
    /\ reader' = [reader EXCEPT ![c] = "register"]
    /\ UNCHANGED <<clients, writer, closed, send, hand, cast, sent, ends>>

\* Register; then the two pumps start.
Register(c) ==
    /\ reader[c] = "register"
    /\ LockFree
    /\ clients' = clients \cup {c}
    /\ reader' = [reader EXCEPT ![c] = "reading"]
    /\ writer' = [writer EXCEPT ![c] = "running"]
    /\ UNCHANGED <<closed, send, hand, cast, sent, ends>>

\* ReadMessage fails because the browser leaves, sends too much, or answers no
\* ping for pongWait.
ReadError(c) ==
    /\ reader[c] = "reading"
    /\ reader' = [reader EXCEPT ![c] = "unregister"]
    /\ UNCHANGED <<clients, writer, closed, send, hand, cast, sent, ends>>

NoReadDeadline(c) == FALSE /\ ReadError(c)

\* Only a pong moves the read deadline, and only the ping of a running write
\* pump brings one: once the pump is gone, ReadMessage must fail.
ReadDeadline(c) == writer[c] = "gone" /\ ReadError(c)

UnregisterUnlocked(c) ==
    /\ reader[c] = "unregister"
    /\ clients' = clients \ {c}
    /\ closed' = closed \cup {c}
    /\ panicked' = (panicked \/ c \in closed)
    /\ reader' = [reader EXCEPT ![c] = "gone"]
    /\ UNCHANGED <<writer, send, hand, cast, sent, received, owed, dropped>>

\* Unregister deletes the client and closes it: both channels, the socket.
Unregister(c) ==
    /\ reader[c] = "unregister"
    /\ LockFree
    /\ clients' = clients \ {c}
    /\ closed' = closed \cup {c}
    /\ panicked' = (panicked \/ c \in closed)
    /\ reader' = [reader EXCEPT ![c] = "gone"]
    /\ UNCHANGED <<writer, send, hand, cast, sent, received, owed, dropped>>
-----------------------------------------------------------------------------
(* WritePump: a closed channel still yields what is in it. *)

Take(c) ==
    /\ writer[c] = "running" /\ hand[c] = <<>>
    /\ send[c] # <<>>
    /\ hand' = [hand EXCEPT ![c] = <<Head(send[c])>>]
    /\ send' = [send EXCEPT ![c] = Tail(@)]
    /\ UNCHANGED <<clients, reader, writer, closed, cast, sent, ends>>

\* WriteMessage succeeds.
Write(c) ==
    /\ writer[c] = "running" /\ hand[c] # <<>>
    /\ c \notin closed
    /\ received' = [received EXCEPT ![c] = @ \o hand[c]]
    /\ hand' = [hand EXCEPT ![c] = <<>>]
    /\ UNCHANGED <<clients, reader, writer, closed, send, cast, sent, owed, dropped,
                   panicked>>

WriteRetried(c, arrived) ==
    /\ writer[c] = "running" /\ hand[c] # <<>>
    /\ received' = IF arrived THEN [received EXCEPT ![c] = @ \o hand[c]] ELSE received
    /\ UNCHANGED <<clients, reader, writer, hand, closed, send, cast, sent, owed,
                   dropped, panicked>>

\* WriteMessage fails or meets writeWait, whether or not the browser has the
\* message: the pump returns and leaves the client registered.
WriteError(c, arrived) ==
    /\ writer[c] = "running" /\ hand[c] # <<>>
    /\ received' = IF arrived THEN [received EXCEPT ![c] = @ \o hand[c]] ELSE received
    /\ hand' = [hand EXCEPT ![c] = <<>>]
    /\ writer' = [writer EXCEPT ![c] = "gone"]
    /\ UNCHANGED <<clients, reader, closed, send, cast, sent, owed, dropped, panicked>>

\* The pump sees its channel closed and empty, or a ping fails: that can be at
\* any time.
WriterStops(c) ==
    /\ writer[c] = "running" /\ hand[c] = <<>>
    /\ writer' = [writer EXCEPT ![c] = "gone"]
    /\ UNCHANGED <<clients, reader, closed, send, hand, cast, sent, ends>>
-----------------------------------------------------------------------------
(* Publish, the consumer's handler and Broadcast. *)

RLock(b) ==
    /\ cast[b] = Idle
    /\ SumFunction(sent) < MaxMessages
    /\ ~ WriterWaits
    /\ sent' = [sent EXCEPT ![b] = @ + 1]
    /\ cast' = [cast EXCEPT ![b] = [pc |-> "loop", left |-> clients]]
    /\ owed' = [c \in Clients |-> IF c \in clients THEN owed[c] \cup {<<b, sent[b] + 1>>}
                                 ELSE owed[c]]
    /\ UNCHANGED <<clients, reader, writer, closed, send, hand, received, dropped,
                   panicked>>

Message(b) == <<b, sent[b]>>

\* Send looks at the closed channel first; the map has no order.
CheckClosed(b, c) ==
    /\ cast[b].pc = "loop" /\ c \in cast[b].left
    /\ cast' = [cast EXCEPT ![b] = IF c \in closed
                                   THEN [pc |-> "loop", left |-> cast[b].left \ {c}]
                                   ELSE [pc |-> "send", left |-> cast[b].left \ {c}, to |-> c]]
    /\ UNCHANGED <<clients, reader, writer, closed, send, hand, sent, ends>>

AfterSend(b) == cast' = [cast EXCEPT ![b] = [pc |-> "loop", left |-> cast[b].left]]
AbortLoop(b) == cast' = [cast EXCEPT ![b] = [pc |-> "loop", left |-> {}]]

EnqueueBeyondBuffer(b, c) ==
    /\ cast[b].pc = "send" /\ cast[b].to = c
    /\ c \notin closed
    /\ send' = [send EXCEPT ![c] = Append(@, Message(b))]
    /\ AfterSend(b)
    /\ UNCHANGED <<clients, reader, writer, closed, hand, sent, ends>>

\* Then it puts the message into the channel.
Enqueue(b, c) ==
    /\ cast[b].pc = "send" /\ cast[b].to = c
    /\ IF c \in closed
       THEN panicked' = TRUE /\ UNCHANGED send
       ELSE /\ Len(send[c]) < Buffer
            /\ send' = [send EXCEPT ![c] = Append(@, Message(b))]
            /\ UNCHANGED panicked
    /\ AfterSend(b)
    /\ UNCHANGED <<clients, reader, writer, closed, hand, sent, received, owed, dropped>>

FullChannelAborts(b, c) ==
    /\ cast[b].pc = "send" /\ cast[b].to = c
    /\ c \notin closed /\ Len(send[c]) >= Buffer
    /\ dropped' = [dropped EXCEPT ![c] = @ \cup {Message(b)}]
    /\ AbortLoop(b)
    /\ UNCHANGED <<clients, reader, writer, closed, send, hand, sent, received, owed,
                   panicked>>

FullChannelBlocks(b, c) == FALSE /\ UNCHANGED vars

\* Or the channel is full: the message is dropped, the client is not, whatever
\* the log line says.
FullChannel(b, c) ==
    /\ cast[b].pc = "send" /\ cast[b].to = c
    /\ c \notin closed /\ Len(send[c]) >= Buffer
    /\ dropped' = [dropped EXCEPT ![c] = @ \cup {Message(b)}]
    /\ AfterSend(b)
    /\ UNCHANGED <<clients, reader, writer, closed, send, hand, sent, received, owed,
                   panicked>>

RUnlock(b) ==
    /\ cast[b].pc = "loop" /\ cast[b].left = {}
    /\ cast' = [cast EXCEPT ![b] = Idle]
    /\ UNCHANGED <<clients, reader, writer, closed, send, hand, sent, ends>>

Broadcasting(b) ==
    \/ \E c \in Clients : CheckClosed(b, c) \/ Enqueue(b, c) \/ FullChannel(b, c)
    \/ RUnlock(b)

Next ==
    \/ \E c \in Clients :
        \/ Upgrade(c) \/ Register(c)
        \/ ReadError(c) \/ Unregister(c)
        \/ Take(c) \/ Write(c) \/ WriterStops(c)
        \/ \E arrived \in BOOLEAN : WriteError(c, arrived)
    \/ \E b \in Broadcasters : RLock(b) \/ Broadcasting(b)

Spec == Init /\ [][Next]_vars

\* A goroutine that can run does, the read deadline passes, and sync.RWMutex
\* lets a waiting writer in once the readers are out.  Nothing makes a browser
\* leave, a publisher publish or a write succeed.
FairSpec ==
    /\ Spec
    /\ \A c \in Clients : /\ WF_vars(ReadDeadline(c))
                          /\ WF_vars(Register(c))
                          /\ WF_vars(Unregister(c))
    /\ \A b \in Broadcasters : WF_vars(Broadcasting(b))
-----------------------------------------------------------------------------
\* Closing and sending are ordered by the hub's lock alone: whatever readers,
\* pumps and broadcasts do, nobody sends on a closed channel, and nobody closes
\* one twice.  (hub.go 42-71, connection.go 50-70.)
NeverPanics == ~ panicked

\* What a browser has, and then what is on its way to it: no message twice, and
\* the messages of one publisher in the order it published them.
InOrderOnce ==
    \A c \in Clients :
        LET way == received[c] \o hand[c] \o send[c]
        IN  \A i, j \in DOMAIN way :
                i < j /\ way[i][1] = way[j][1] => way[i][2] < way[j][2]

\* A message whose broadcast began while c was registered is, when that
\* broadcast is over and c is still served, with the browser or on its way;
\* only a full channel loses it.  One slow client costs the others nothing.
EveryoneIsTold ==
    \A c \in clients, m \in Messages :
        m \in owed[c] /\ (cast[m[1]] = Idle \/ sent[m[1]] > m[2]) /\ writer[c] = "running"
            => m \in Range(received[c] \o hand[c] \o send[c]) \cup dropped[c]

\* No client, slow or half dead, keeps a publisher inside Broadcast:
\* orders and mode changes are published from there.
BroadcastReturns == \A b \in Broadcasters : cast[b] # Idle ~> cast[b] = Idle

\* A write pump that returned does not unregister its client; the read pump's
\* deadline does, so the hub does not keep sending into a dead channel for ever.
DeadClientLeaves == \A c \in Clients : writer[c] = "gone" ~> c \notin clients
=============================================================================
