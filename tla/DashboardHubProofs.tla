------------------------- MODULE DashboardHubProofs -------------------------
(***************************************************************************)
(* Proofs about DashboardHub, for any number of clients and publishers and *)
(* any capacity of the channels.                                           *)
(*                                                                         *)
(* The invariant says whom a broadcast still has to serve, and with what:  *)
(* such a client is registered, so it is not closed, and it has nothing    *)
(* yet of the message that is on its way to it.                            *)
(***************************************************************************)
EXTENDS DashboardHub, ArithmeticLemmas, SequenceTheorems, TLAPS

Msg == Broadcasters \X Nat

\* What client c has, and then what is on its way to it.
Way(c) == received[c] \o hand[c] \o send[c]

\* The broadcast of b has not come to c, or is about to send to it.
Awaits(b, c) ==
    \/ cast[b].pc \in {"loop", "send"} /\ c \in cast[b].left
    \/ cast[b].pc = "send" /\ c = cast[b].to

HubTypes ==
    /\ reader \in [Clients -> {"none", "register", "reading", "unregister", "gone"}]
    /\ writer \in [Clients -> {"none", "running", "gone"}]
    /\ send \in [Clients -> Seq(Msg)]
    /\ hand \in [Clients -> Seq(Msg)]
    /\ received \in [Clients -> Seq(Msg)]
    /\ cast \in [Broadcasters -> {Idle} \cup Casting]
    /\ sent \in [Broadcasters -> Nat]
    /\ owed \in [Clients -> SUBSET Msg]
    /\ dropped \in [Clients -> SUBSET Msg]

\* A client is registered from Register to Unregister, and closed after it.
Served ==
    /\ \A c \in Clients : reader[c] \in {"reading", "unregister"} <=> c \in clients
    /\ \A c \in closed : c \in Clients /\ reader[c] = "gone"
    /\ clients \subseteq Clients

\* A broadcast serves registered clients, each of them once.
Targets ==
    \A b \in Broadcasters :
        /\ \A c \in Clients : Awaits(b, c) => c \in clients
        /\ cast[b].pc = "send" => cast[b].to \notin cast[b].left

\* No client has a message of the future, nor the one it is to be sent.
Behind ==
    \A c \in Clients : \A i \in DOMAIN Way(c) :
        /\ Way(c)[i][2] <= sent[Way(c)[i][1]]
        /\ Awaits(Way(c)[i][1], c) => Way(c)[i][2] < sent[Way(c)[i][1]]

\* What is owed is told, dropped, or the message of the current broadcast.
Told ==
    /\ \A c \in Clients : reader[c] \in {"none", "register"} => owed[c] = {}
    /\ \A c \in clients : writer[c] = "running" =>
           \A b \in Broadcasters, k \in Nat : <<b, k>> \in owed[c] =>
               \/ k = sent[b] /\ Awaits(b, c)
               \/ <<b, k>> \in Range(Way(c)) \cup dropped[c]

IInv == HubTypes /\ Served /\ Targets /\ NeverPanics /\ Behind /\ InOrderOnce /\ Told
-----------------------------------------------------------------------------
\* The write pump takes the next message off the channel: nothing changes on
\* the way.
LEMMA WayTake ==
    ASSUME NEW S, NEW r \in Seq(S), NEW s \in Seq(S), s # <<>>
    PROVE  /\ <<Head(s)>> \in Seq(S) /\ Tail(s) \in Seq(S)
           /\ (r \o <<Head(s)>>) \o Tail(s) = (r \o <<>>) \o s
<1>1. Head(s) \in S /\ Tail(s) \in Seq(S)
  BY HeadTailProperties
<1>2. <<Head(s)>> \in Seq(S)
  BY <1>1
<1>3. <<Head(s)>> \o Tail(s) = s
  <2>1. Len(s) \in Nat \ {0}
    BY EmptySeq
  <2>2. Len(<<Head(s)>> \o Tail(s)) = Len(s)
    BY <1>1, <1>2, <2>1, ConcatProperties, HeadTailProperties
  <2>3. \A i \in 1..Len(s) : (<<Head(s)>> \o Tail(s))[i] = s[i]
    BY <1>1, <1>2, <2>1, ConcatProperties, HeadTailProperties
  <2>4. <<Head(s)>> \o Tail(s) \in Seq(S)
    BY <1>1, <1>2, ConcatProperties
  <2>5. QED
    BY <2>2, <2>3, <2>4, SeqEqual
<1>4. (r \o <<Head(s)>>) \o Tail(s) = r \o s
  BY <1>1, <1>2, <1>3, ConcatAssociative
<1>5. r \o <<>> = r
  BY ConcatEmptySeq
<1>6. QED
  BY <1>1, <1>2, <1>4, <1>5

\* A message that has been written moves to the browser's end of the way.
LEMMA WayWrite ==
    ASSUME NEW S, NEW r \in Seq(S), NEW h \in Seq(S), NEW s \in Seq(S)
    PROVE  /\ r \o h \in Seq(S) /\ <<>> \in Seq(S)
           /\ ((r \o h) \o <<>>) \o s = (r \o h) \o s
<1>1. r \o h \in Seq(S) /\ <<>> \in Seq(S)
  BY ConcatProperties, EmptySeq
<1>2. (r \o h) \o <<>> = r \o h
  BY <1>1, ConcatEmptySeq
<1>3. QED
  BY <1>1, <1>2

\* A message that is put into the channel comes last.
LEMMA WayAppend ==
    \A S : \A r, h, s \in Seq(S) : \A e \in S :
        /\ Append(s, e) \in Seq(S)
        /\ (r \o h) \o Append(s, e) = Append((r \o h) \o s, e)
<1> SUFFICES ASSUME NEW S, NEW r \in Seq(S), NEW h \in Seq(S), NEW s \in Seq(S), NEW e \in S
             PROVE  /\ Append(s, e) \in Seq(S)
                    /\ (r \o h) \o Append(s, e) = Append((r \o h) \o s, e)
  OBVIOUS
<1>1. /\ r \o h \in Seq(S) /\ Append(s, e) \in Seq(S) /\ <<e>> \in Seq(S)
      /\ (r \o h) \o s \in Seq(S)
  BY ConcatProperties, AppendProperties
<1>2. Append(s, e) = s \o <<e>> /\ Append((r \o h) \o s, e) = ((r \o h) \o s) \o <<e>>
  BY <1>1, AppendIsConcat
<1>3. ((r \o h) \o s) \o <<e>> = (r \o h) \o (s \o <<e>>)
  <2> DEFINE q == r \o h
             u == <<e>>
  <2>1. q \in Seq(S) /\ u \in Seq(S)
    BY <1>1
  <2> HIDE DEF q, u
  <2>2. (q \o s) \o u = q \o (s \o u)
    BY <2>1, ConcatAssociative
  <2>3. QED
    BY <2>2 DEF q, u
<1>4. QED
  BY <1>1, <1>2, <1>3

\* A message that is lost leaves the others in their order.
LEMMA WayLoses ==
    ASSUME NEW S, NEW r \in Seq(S), NEW h \in Seq(S), NEW s \in Seq(S)
    PROVE  /\ (r \o <<>>) \o s = r \o s
           /\ \A i, j \in DOMAIN (r \o s) : \E k, l \in DOMAIN ((r \o h) \o s) :
                /\ (r \o s)[i] = ((r \o h) \o s)[k]
                /\ (r \o s)[j] = ((r \o h) \o s)[l]
                /\ i < j => k < l
<1> DEFINE w == (r \o h) \o s
<1>1. (r \o <<>>) \o s = r \o s
  BY ConcatEmptySeq
<1>2. /\ r \o h \in Seq(S) /\ w \in Seq(S) /\ r \o s \in Seq(S)
      /\ Len(r \o h) = Len(r) + Len(h) /\ Len(w) = Len(r) + Len(h) + Len(s)
      /\ Len(r \o s) = Len(r) + Len(s)
      /\ Len(r) \in Nat /\ Len(h) \in Nat /\ Len(s) \in Nat
  BY ConcatProperties, LenProperties
<1>3. DOMAIN w = 1..(Len(r) + Len(h) + Len(s)) /\ DOMAIN (r \o s) = 1..(Len(r) + Len(s))
  BY <1>2, LenProperties
<1>4. \A i \in 1..Len(r) : (r \o s)[i] = r[i] /\ w[i] = r[i]
  <2> TAKE i \in 1..Len(r)
  <2>1. (r \o s)[i] = r[i] /\ (r \o h)[i] = r[i]
    BY <1>2, ConcatProperties
  <2>2. w[i] = (r \o h)[i]
    BY <1>2, ConcatProperties
  <2>3. QED
    BY <2>1, <2>2
<1>5. \A i \in (Len(r) + 1)..(Len(r) + Len(s)) : (r \o s)[i] = w[i + Len(h)]
  <2> TAKE i \in (Len(r) + 1)..(Len(r) + Len(s))
  <2>1. (r \o s)[i] = s[i - Len(r)]
    BY <1>2, ConcatProperties
  <2>2. w[i + Len(h)] = s[i + Len(h) - Len(r \o h)]
    BY <1>2, ConcatProperties
  <2>3. i + Len(h) - Len(r \o h) = i - Len(r)
    BY <1>2
  <2>4. QED
    BY <2>1, <2>2, <2>3
<1> DEFINE f(i) == IF i <= Len(r) THEN i ELSE i + Len(h)
<1>6. \A i, j \in DOMAIN (r \o s) :
        /\ f(i) \in DOMAIN w /\ f(j) \in DOMAIN w
        /\ (r \o s)[i] = w[f(i)] /\ (r \o s)[j] = w[f(j)]
        /\ i < j => f(i) < f(j)
  <2> TAKE i, j \in DOMAIN (r \o s)
  <2>1. i \in 1..(Len(r) + Len(s)) /\ j \in 1..(Len(r) + Len(s))
    BY <1>3
  <2>2. f(i) \in DOMAIN w /\ f(j) \in DOMAIN w /\ (i < j => f(i) < f(j))
    BY <1>2, <1>3, <2>1
  <2>3. (r \o s)[i] = w[f(i)]
    <3>1. CASE i <= Len(r)
      BY <1>2, <1>4, <2>1, <3>1
    <3>2. CASE ~ (i <= Len(r))
      BY <1>2, <1>5, <2>1, <3>2
    <3>3. QED
      BY <3>1, <3>2
  <2>4. (r \o s)[j] = w[f(j)]
    <3>1. CASE j <= Len(r)
      BY <1>2, <1>4, <2>1, <3>1
    <3>2. CASE ~ (j <= Len(r))
      BY <1>2, <1>5, <2>1, <3>2
    <3>3. QED
      BY <3>1, <3>2
  <2>5. QED
    BY <2>2, <2>3, <2>4
<1>7. QED
  <2> HIDE DEF f
  <2>1. \A i, j \in DOMAIN (r \o s) : \E k, l \in DOMAIN w :
            (r \o s)[i] = w[k] /\ (r \o s)[j] = w[l] /\ (i < j => k < l)
    BY <1>6
  <2>2. QED
    BY <1>1, <2>1
-----------------------------------------------------------------------------
\* The three shapes of a broadcast.
LEMMA CastShape ==
    ASSUME HubTypes, NEW b \in Broadcasters
    PROVE  /\ cast[b].pc \in {"idle", "loop", "send"}
           /\ cast[b] = Idle <=> cast[b].pc = "idle"
           /\ cast[b].pc \in {"loop", "send"} => cast[b].left \subseteq Clients
           /\ cast[b].pc = "send" => cast[b].to \in Clients
<1>1. cast[b] \in {Idle} \cup Casting
  BY DEF HubTypes
<1>2. CASE cast[b] = Idle
  BY <1>2 DEF Idle
<1>3. CASE cast[b] \in Casting
  <2>1. CASE cast[b] \in [pc : {"loop"}, left : SUBSET Clients]
    BY <2>1 DEF Idle
  <2>2. CASE cast[b] \in [pc : {"send"}, left : SUBSET Clients, to : Clients]
    BY <2>2 DEF Idle
  <2>3. QED
    BY <1>3, <2>1, <2>2 DEF Casting
<1>4. QED
  BY <1>1, <1>2, <1>3

\* The way of a client is a sequence of messages.
LEMMA WayIsSeq ==
    ASSUME HubTypes, NEW c \in Clients
    PROVE  /\ received[c] \in Seq(Msg) /\ hand[c] \in Seq(Msg) /\ send[c] \in Seq(Msg)
           /\ Way(c) \in Seq(Msg)
           /\ DOMAIN Way(c) = 1..Len(Way(c)) /\ Len(Way(c)) \in Nat
           /\ \A i \in DOMAIN Way(c) : Way(c)[i] \in Msg
<1>1. received[c] \in Seq(Msg) /\ hand[c] \in Seq(Msg) /\ send[c] \in Seq(Msg)
  BY DEF HubTypes
<1>2. received[c] \o hand[c] \in Seq(Msg)
  BY <1>1, ConcatProperties
<1>3. Way(c) \in Seq(Msg)
  BY <1>1, <1>2, ConcatProperties DEF Way
<1>4. QED
  BY <1>1, <1>3, LenProperties, ElementOfSeq

\* The initial state.
LEMMA InitInv ==
    ASSUME Init
    PROVE  IInv
<1>1. HubTypes
  BY EmptySeq DEF Init, HubTypes
<1>2. Served /\ NeverPanics
  BY DEF Init, Served, NeverPanics
<1>3. \A b \in Broadcasters : cast[b].pc = "idle"
  BY DEF Init, Idle
<1>4. Targets
  BY <1>3 DEF Targets, Awaits
<1>5. \A c \in Clients : DOMAIN Way(c) = {}
  <2> TAKE c \in Clients
  <2>1. Way(c) = (<<>> \o <<>>) \o <<>>
    BY DEF Init, Way
  <2>2. Way(c) = <<>>
    BY <2>1, ConcatEmptySeq, EmptySeq
  <2>3. QED
    BY <2>2
<1>6. Behind /\ InOrderOnce
  BY <1>5 DEF Behind, InOrderOnce, Way
<1>7. Told
  BY DEF Init, Told
<1>8. QED
  BY <1>1, <1>2, <1>4, <1>6, <1>7 DEF IInv

\* A step that moves nothing on the ways and nothing in the broadcasts keeps
\* the order of the messages.
LEMMA SameWay ==
    ASSUME Behind, InOrderOnce, \A c \in Clients : Way(c)' = Way(c), UNCHANGED <<cast, sent>>
    PROVE  Behind' /\ InOrderOnce'
<1>1. \A b \in Broadcasters, c \in Clients : Awaits(b, c)' <=> Awaits(b, c)
  BY DEF Awaits
<1>2. Behind'
  <2> SUFFICES ASSUME NEW c \in Clients, NEW i \in DOMAIN Way(c)'
               PROVE  /\ Way(c)'[i][2] <= sent'[Way(c)'[i][1]]
                      /\ Awaits(Way(c)[i][1], c)' => Way(c)'[i][2] < sent'[Way(c)'[i][1]]
    BY DEF Behind
  <2>1. Way(c)' = Way(c) /\ sent' = sent /\ cast' = cast
    OBVIOUS
  <2>2. Awaits(Way(c)[i][1], c)' <=> Awaits(Way(c)[i][1], c)
    BY <2>1 DEF Awaits
  <2>3. QED
    BY <2>1, <2>2 DEF Behind
<1>3. InOrderOnce'
  BY DEF InOrderOnce, Way
<1>4. QED
  BY <1>2, <1>3

\* A step that moves nothing on the ways, nor in what is owed, keeps Told, if it
\* serves no more clients than before and restarts no write pump.
LEMMA SameTold ==
    ASSUME Told, \A c \in Clients : Way(c)' = Way(c), UNCHANGED <<cast, sent, owed, dropped>>,
           clients' \subseteq clients, clients \subseteq Clients,
           \A c \in Clients : writer'[c] = "running" => writer[c] = "running",
           \A c \in Clients : reader'[c] \in {"none", "register"} => reader[c] \in {"none", "register"}
    PROVE  Told'
<1>1. \A c \in Clients : reader'[c] \in {"none", "register"} => owed'[c] = {}
  BY DEF Told
<1>2. ASSUME NEW c \in clients', writer'[c] = "running",
             NEW b \in Broadcasters, NEW k \in Nat, <<b, k>> \in owed'[c]
      PROVE  \/ k = sent'[b] /\ Awaits(b, c)'
             \/ <<b, k>> \in Range(Way(c)') \cup dropped'[c]
  <2>1. c \in clients /\ c \in Clients /\ writer[c] = "running" /\ <<b, k>> \in owed[c]
    BY <1>2
  <2>2. Awaits(b, c)' <=> Awaits(b, c)
    BY DEF Awaits
  <2>3. QED
    BY <2>1, <2>2 DEF Told
<1>3. QED
  BY <1>1, <1>2 DEF Told
-----------------------------------------------------------------------------
\* A connection, from the upgrade to the end of the read pump.
LEMMA ReaderKeeps ==
    ASSUME IInv, NEW c \in Clients, Upgrade(c) \/ Register(c) \/ ReadError(c) \/ Unregister(c)
    PROVE  IInv'
<1> USE DEF IInv
<1>1. UNCHANGED <<send, hand, received, cast, sent, owed, dropped>>
  BY DEF Upgrade, Register, ReadError, Unregister, ends
<1>2. HubTypes'
  BY <1>1 DEF HubTypes, Upgrade, Register, ReadError, Unregister
<1>3. Behind' /\ InOrderOnce'
  <2>1. \A d \in Clients : Way(d)' = Way(d)
    BY <1>1 DEF Way
  <2>2. QED
    BY <1>1, <2>1, SameWay
<1>4. \A b \in Broadcasters, d \in Clients : Awaits(b, d)' <=> Awaits(b, d)
  BY <1>1 DEF Awaits
<1>5. ASSUME LockFree, NEW b \in Broadcasters, NEW d \in Clients
      PROVE  ~ Awaits(b, d)
  BY <1>5, CastShape DEF LockFree, Awaits
<1>6. CASE Upgrade(c) \/ ReadError(c)
  <2>1. /\ clients' = clients /\ closed' = closed /\ panicked' = panicked /\ writer' = writer
        /\ reader' \in [Clients -> {"none", "register", "reading", "unregister", "gone"}]
        /\ \A d \in Clients : d # c => reader'[d] = reader[d]
    BY <1>2, <1>6 DEF Upgrade, ReadError, ends, HubTypes
  <2>2. \/ reader[c] = "none" /\ reader'[c] = "register"
        \/ reader[c] = "reading" /\ reader'[c] = "unregister"
    BY <1>6 DEF Upgrade, ReadError, HubTypes
  <2>3. Served'
    BY <2>1, <2>2 DEF Served
  <2>4. Targets' /\ NeverPanics'
    BY <1>1, <1>4, <2>1 DEF Targets, NeverPanics
  <2>5. Told'
    <3>1. \A d \in Clients : Way(d)' = Way(d)
      BY <1>1 DEF Way
    <3>2. \A d \in Clients : reader'[d] \in {"none", "register"} => reader[d] \in {"none", "register"}
      BY <2>1, <2>2
    <3>3. QED
      BY <1>1, <2>1, <3>1, <3>2, SameTold DEF Served
  <2>6. QED
    BY <1>2, <1>3, <2>3, <2>4, <2>5
<1>7. CASE Register(c)
  <2>1. /\ clients' = clients \cup {c} /\ closed' = closed /\ panicked' = panicked
        /\ reader[c] = "register" /\ reader'[c] = "reading"
        /\ \A d \in Clients : d # c => reader'[d] = reader[d] /\ writer'[d] = writer[d]
    BY <1>7 DEF Register, ends, HubTypes
  <2>2. Served'
    BY <2>1 DEF Served
  <2>3. Targets' /\ NeverPanics'
    BY <1>1, <1>4, <2>1 DEF Targets, NeverPanics
  <2>4. owed[c] = {}
    BY <2>1 DEF Told
  <2>5. \A d \in Clients : reader'[d] \in {"none", "register"} => owed'[d] = {}
    BY <1>1, <2>1 DEF Told
  <2>6. ASSUME NEW d \in clients', writer'[d] = "running",
               NEW b \in Broadcasters, NEW k \in Nat, <<b, k>> \in owed'[d]
        PROVE  \/ k = sent'[b] /\ Awaits(b, d)'
               \/ <<b, k>> \in Range(Way(d)') \cup dropped'[d]
    <3>1. d # c /\ d \in clients /\ d \in Clients
      BY <1>1, <2>1, <2>4, <2>6 DEF Served
    <3>2. writer[d] = "running" /\ <<b, k>> \in owed[d] /\ Way(d)' = Way(d)
      BY <1>1, <2>1, <2>6, <3>1 DEF Way
    <3>3. QED
      BY <1>1, <1>4, <3>1, <3>2 DEF Told
  <2>7. Told'
    BY <2>5, <2>6 DEF Told
  <2>8. QED
    BY <1>2, <1>3, <2>2, <2>3, <2>7
<1>8. CASE Unregister(c)
  <2>1. /\ clients' = clients \ {c} /\ closed' = closed \cup {c} /\ writer' = writer
        /\ panicked' = (panicked \/ c \in closed) /\ LockFree
        /\ reader[c] = "unregister" /\ reader'[c] = "gone"
        /\ \A d \in Clients : d # c => reader'[d] = reader[d]
    BY <1>8 DEF Unregister, HubTypes
  <2>2. Served'
    BY <2>1 DEF Served
  <2>3. NeverPanics'
    BY <2>1 DEF NeverPanics, Served
  <2>4. Targets'
    <3>1. \A b \in Broadcasters, d \in Clients : ~ Awaits(b, d)'
      BY <1>4, <1>5, <2>1
    <3>2. \A b \in Broadcasters : cast'[b].pc = "send" => cast'[b].to \notin cast'[b].left
      BY <1>1 DEF Targets
    <3>3. QED
      BY <3>1, <3>2 DEF Targets
  <2>5. Told'
    <3>1. \A d \in Clients : Way(d)' = Way(d)
      BY <1>1 DEF Way
    <3>2. \A d \in Clients : reader'[d] \in {"none", "register"} => reader[d] \in {"none", "register"}
      BY <2>1
    <3>3. QED
      BY <1>1, <2>1, <3>1, <3>2, SameTold DEF Served
  <2>6. QED
    BY <1>2, <1>3, <2>2, <2>3, <2>4, <2>5
<1>9. QED
  BY <1>6, <1>7, <1>8

\* The write pump, as long as no message is lost.
LEMMA WriterKeeps ==
    ASSUME IInv, NEW c \in Clients,
           \/ Take(c) \/ Write(c) \/ WriterStops(c)
           \/ WriteError(c, TRUE)
    PROVE  IInv'
<1> USE DEF IInv
<1>1. UNCHANGED <<clients, reader, closed, cast, sent, owed, dropped, panicked>>
  BY DEF Take, Write, WriterStops, WriteError, ends
<1>2. /\ received[c] \in Seq(Msg) /\ hand[c] \in Seq(Msg) /\ send[c] \in Seq(Msg)
  BY WayIsSeq
<1>3. \A d \in Clients : d # c =>
        received'[d] = received[d] /\ hand'[d] = hand[d] /\ send'[d] = send[d]
  BY DEF Take, Write, WriterStops, WriteError, ends, HubTypes
<1>4. /\ received'[c] \in Seq(Msg) /\ hand'[c] \in Seq(Msg) /\ send'[c] \in Seq(Msg)
      /\ Way(c)' = Way(c)
  <2>1. CASE Take(c)
    <3>1. /\ send[c] # <<>> /\ hand[c] = <<>> /\ received'[c] = received[c]
          /\ hand'[c] = <<Head(send[c])>> /\ send'[c] = Tail(send[c])
      BY <2>1 DEF Take, ends, HubTypes
    <3>2. QED
      <4>1. send[c] # <<>>
        BY <3>1
      <4>2. /\ <<Head(send[c])>> \in Seq(Msg) /\ Tail(send[c]) \in Seq(Msg)
            /\ (received[c] \o <<Head(send[c])>>) \o Tail(send[c]) = (received[c] \o <<>>) \o send[c]
        BY <1>2, <4>1, WayTake, Zenon
      <4>3. Way(c)' = (received[c] \o <<Head(send[c])>>) \o Tail(send[c])
        BY <3>1, Zenon DEF Way
      <4>4. Way(c) = (received[c] \o <<>>) \o send[c]
        BY <3>1, Zenon DEF Way
      <4>5. QED
        BY <1>2, <3>1, <4>2, <4>3, <4>4
  <2>2. CASE Write(c) \/ WriteError(c, TRUE)
    <3>1. received'[c] = received[c] \o hand[c] /\ hand'[c] = <<>> /\ send'[c] = send[c]
      BY <2>2 DEF Write, WriteError, HubTypes
    <3>2. QED
      BY <1>2, <3>1, WayWrite DEF Way
  <2>3. CASE WriterStops(c)
    BY <1>2, <2>3 DEF WriterStops, ends, Way
  <2>4. QED
    BY <2>1, <2>2, <2>3
<1>5. \A d \in Clients : Way(d)' = Way(d)
  BY <1>3, <1>4 DEF Way
<1>6. HubTypes'
  <2>1. /\ \E f : received' = [received EXCEPT ![c] = f]
        /\ \E f : hand' = [hand EXCEPT ![c] = f]
        /\ \E f : send' = [send EXCEPT ![c] = f]
    <3>1. CASE Take(c)
      <4>1. received' = [received EXCEPT ![c] = received[c]]
        BY <3>1 DEF Take, ends, HubTypes
      <4>2. QED
        BY <3>1, <4>1 DEF Take
    <3>2. CASE Write(c) \/ WriteError(c, TRUE)
      <4>1. send' = [send EXCEPT ![c] = send[c]]
        BY <3>2 DEF Write, WriteError, HubTypes
      <4>2. QED
        BY <3>2, <4>1 DEF Write, WriteError
    <3>3. CASE WriterStops(c)
      <4>1. /\ received' = [received EXCEPT ![c] = received[c]]
            /\ hand' = [hand EXCEPT ![c] = hand[c]]
            /\ send' = [send EXCEPT ![c] = send[c]]
        BY <3>3 DEF WriterStops, ends, HubTypes
      <4>2. QED
        BY <4>1
    <3>4. QED
      BY <3>1, <3>2, <3>3
  <2>2. /\ received' \in [Clients -> Seq(Msg)] /\ hand' \in [Clients -> Seq(Msg)]
        /\ send' \in [Clients -> Seq(Msg)]
    BY <1>4, <2>1 DEF HubTypes
  <2>3. writer' \in [Clients -> {"none", "running", "gone"}]
    BY DEF Take, Write, WriterStops, WriteError, HubTypes
  <2>4. QED
    BY <1>1, <2>2, <2>3 DEF HubTypes
<1>7. Served' /\ Targets' /\ NeverPanics'
  BY <1>1 DEF Served, Targets, NeverPanics, Awaits
<1>8. Behind' /\ InOrderOnce'
  BY <1>1, <1>5, SameWay
<1>9. Told'
  <2>1. \A d \in Clients : writer'[d] = "running" => writer[d] = "running"
    BY DEF Take, Write, WriterStops, WriteError, HubTypes
  <2>2. QED
    BY <1>1, <1>5, <2>1, SameTold DEF Served
<1>10. QED
  BY <1>6, <1>7, <1>8, <1>9

\* A write that fails before the browser has the message: the one in hand is
\* lost, and with it the pump.
LEMMA LossKeeps ==
    ASSUME IInv, NEW c \in Clients, WriteError(c, FALSE)
    PROVE  IInv'
<1> USE DEF IInv
<1>1. /\ UNCHANGED <<clients, reader, closed, cast, sent, owed, dropped, panicked>>
      /\ received' = received /\ send' = send
      /\ hand' = [hand EXCEPT ![c] = <<>>] /\ writer' = [writer EXCEPT ![c] = "gone"]
  BY DEF WriteError
<1>2. HubTypes'
  BY <1>1, EmptySeq DEF HubTypes
<1>3. Served' /\ Targets' /\ NeverPanics'
  BY <1>1 DEF Served, Targets, NeverPanics, Awaits
<1>4. \A d \in Clients : d # c => Way(d)' = Way(d)
  BY <1>1 DEF Way, HubTypes
<1>5. \A i, j \in DOMAIN Way(c)' : \E k, l \in DOMAIN Way(c) :
        Way(c)'[i] = Way(c)[k] /\ Way(c)'[j] = Way(c)[l] /\ (i < j => k < l)
  <2>1. received[c] \in Seq(Msg) /\ hand[c] \in Seq(Msg) /\ send[c] \in Seq(Msg)
    BY WayIsSeq
  <2>2. Way(c)' = (received[c] \o <<>>) \o send[c]
    BY <1>1 DEF Way, HubTypes
  <2>3. Way(c)' = received[c] \o send[c]
    BY <2>1, <2>2, WayLoses
  <2>4. \A i, j \in DOMAIN (received[c] \o send[c]) :
          \E k, l \in DOMAIN ((received[c] \o hand[c]) \o send[c]) :
            /\ (received[c] \o send[c])[i] = ((received[c] \o hand[c]) \o send[c])[k]
            /\ (received[c] \o send[c])[j] = ((received[c] \o hand[c]) \o send[c])[l]
            /\ i < j => k < l
    BY <2>1, WayLoses, Zenon
  <2>5. Way(c) = (received[c] \o hand[c]) \o send[c]
    BY DEF Way
  <2>6. SUFFICES ASSUME NEW i \in DOMAIN Way(c)', NEW j \in DOMAIN Way(c)'
                 PROVE  \E k, l \in DOMAIN Way(c) :
                          /\ Way(c)'[i] = Way(c)[k] /\ Way(c)'[j] = Way(c)[l]
                          /\ i < j => k < l
    OBVIOUS
  <2>7. PICK k \in DOMAIN ((received[c] \o hand[c]) \o send[c]),
             l \in DOMAIN ((received[c] \o hand[c]) \o send[c]) :
            /\ (received[c] \o send[c])[i] = ((received[c] \o hand[c]) \o send[c])[k]
            /\ (received[c] \o send[c])[j] = ((received[c] \o hand[c]) \o send[c])[l]
            /\ i < j => k < l
    <3>1. i \in DOMAIN (received[c] \o send[c]) /\ j \in DOMAIN (received[c] \o send[c])
      BY <2>3
    <3>2. QED
      BY <2>4, <3>1
  <2>8. k \in DOMAIN Way(c) /\ l \in DOMAIN Way(c)
    BY <2>5, Zenon
  <2>9. Way(c)'[i] = Way(c)[k] /\ Way(c)'[j] = Way(c)[l]
    BY <2>3, <2>5, <2>7, Zenon
  <2>10. QED
    BY <2>7, <2>8, <2>9, Zenon
<1>6. Behind'
  <2> SUFFICES ASSUME NEW d \in Clients, NEW i \in DOMAIN Way(d)'
               PROVE  /\ Way(d)'[i][2] <= sent'[Way(d)'[i][1]]
                      /\ Awaits(Way(d)[i][1], d)' => Way(d)'[i][2] < sent'[Way(d)'[i][1]]
    BY DEF Behind
  <2>1. PICK k \in DOMAIN Way(d) : Way(d)'[i] = Way(d)[k]
    BY <1>4, <1>5
  <2>2. Awaits(Way(d)[i][1], d)' => Awaits(Way(d)[k][1], d)
    BY <1>1, <2>1 DEF Awaits
  <2>3. QED
    BY <1>1, <2>1, <2>2 DEF Behind
<1>7. InOrderOnce'
  <2> SUFFICES ASSUME NEW d \in Clients, NEW i \in DOMAIN Way(d)', NEW j \in DOMAIN Way(d)',
                      i < j, Way(d)'[i][1] = Way(d)'[j][1]
               PROVE  Way(d)'[i][2] < Way(d)'[j][2]
    BY DEF InOrderOnce, Way
  <2>1. PICK k \in DOMAIN Way(d), l \in DOMAIN Way(d) :
            Way(d)'[i] = Way(d)[k] /\ Way(d)'[j] = Way(d)[l] /\ k < l
    BY <1>4, <1>5
  <2>2. QED
    BY <2>1 DEF InOrderOnce, Way
<1>8. Told'
  <2>1. \A d \in Clients : reader'[d] \in {"none", "register"} => owed'[d] = {}
    BY <1>1 DEF Told
  <2>2. ASSUME NEW d \in clients', writer'[d] = "running",
               NEW b \in Broadcasters, NEW k \in Nat, <<b, k>> \in owed'[d]
        PROVE  \/ k = sent'[b] /\ Awaits(b, d)'
               \/ <<b, k>> \in Range(Way(d)') \cup dropped'[d]
    <3>1. d # c /\ d \in Clients /\ d \in clients /\ writer[d] = "running" /\ <<b, k>> \in owed[d]
      BY <1>1, <2>2 DEF HubTypes, Served
    <3>2. Way(d)' = Way(d) /\ (Awaits(b, d)' <=> Awaits(b, d))
      BY <1>1, <1>4, <3>1 DEF Awaits
    <3>3. QED
      BY <1>1, <3>1, <3>2 DEF Told
  <2>3. QED
    BY <2>1, <2>2 DEF Told
<1>9. QED
  BY <1>2, <1>3, <1>6, <1>7, <1>8
-----------------------------------------------------------------------------
\* A broadcast begins: it has all registered clients before it, and none of
\* them has its message.
LEMMA RLockKeeps ==
    ASSUME IInv, NEW b \in Broadcasters, RLock(b)
    PROVE  IInv'
<1> USE DEF IInv
<1>1. /\ UNCHANGED <<clients, reader, writer, closed, send, hand, received, dropped, panicked>>
      /\ cast[b] = Idle
      /\ sent' = [sent EXCEPT ![b] = sent[b] + 1]
      /\ cast' = [cast EXCEPT ![b] = [pc |-> "loop", left |-> clients]]
      /\ owed' = [c \in Clients |-> IF c \in clients THEN owed[c] \cup {<<b, sent[b] + 1>>}
                                    ELSE owed[c]]
  BY DEF RLock
<1>2. sent[b] \in Nat /\ sent'[b] = sent[b] + 1 /\ cast'[b] = [pc |-> "loop", left |-> clients]
  BY <1>1 DEF HubTypes
<1>3. \A a \in Broadcasters : a # b => sent'[a] = sent[a] /\ cast'[a] = cast[a]
  BY <1>1 DEF HubTypes
<1>4. HubTypes'
  <2>1. sent' \in [Broadcasters -> Nat]
    BY <1>1, <1>2 DEF HubTypes
  <2>2. cast' \in [Broadcasters -> {Idle} \cup Casting]
    <3>1. [pc |-> "loop", left |-> clients] \in Casting
      BY DEF Casting, Served
    <3>2. QED
      BY <1>1, <3>1 DEF HubTypes
  <2>3. owed' \in [Clients -> SUBSET Msg]
    <3>1. <<b, sent[b] + 1>> \in Msg
      BY <1>2 DEF Msg
    <3>2. QED
      BY <1>1, <3>1 DEF HubTypes
  <2>4. QED
    BY <1>1, <2>1, <2>2, <2>3 DEF HubTypes
<1>5. \A c \in Clients : Awaits(b, c)' <=> c \in clients
  BY <1>2 DEF Awaits
<1>6. \A c \in Clients : ~ Awaits(b, c)
  BY <1>1, CastShape DEF Awaits, Idle
<1>7. \A a \in Broadcasters, c \in Clients : a # b => (Awaits(a, c)' <=> Awaits(a, c))
  BY <1>3 DEF Awaits
<1>8. Served' /\ NeverPanics'
  BY <1>1 DEF Served, NeverPanics
<1>9. Targets'
  <2> SUFFICES ASSUME NEW a \in Broadcasters
               PROVE  /\ \A c \in Clients : Awaits(a, c)' => c \in clients'
                      /\ cast'[a].pc = "send" => cast'[a].to \notin cast'[a].left
    BY DEF Targets
  <2>1. CASE a = b
    BY <1>1, <1>2, <1>5, <2>1
  <2>2. CASE a # b
    BY <1>1, <1>3, <1>7, <2>2 DEF Targets
  <2>3. QED
    BY <2>1, <2>2
<1>10. \A c \in Clients : Way(c)' = Way(c)
  BY <1>1 DEF Way
<1>11. Behind'
  <2> SUFFICES ASSUME NEW c \in Clients, NEW i \in DOMAIN Way(c)
               PROVE  /\ Way(c)[i][2] <= sent'[Way(c)[i][1]]
                      /\ Awaits(Way(c)[i][1], c)' => Way(c)[i][2] < sent'[Way(c)[i][1]]
    BY <1>10 DEF Behind
  <2>1. Way(c)[i] \in Msg
    BY WayIsSeq
  <2>2. PICK a \in Broadcasters, k \in Nat : Way(c)[i] = <<a, k>>
    BY <2>1 DEF Msg
  <2>3. k <= sent[a] /\ (Awaits(a, c) => k < sent[a])
    BY <2>2 DEF Behind
  <2>4. CASE a = b
    BY <1>2, <2>2, <2>3, <2>4
  <2>5. CASE a # b
    <3>1. Awaits(Way(c)[i][1], c)' => Awaits(a, c)
      BY <1>7, <1>10, <2>2, <2>5
    <3>2. QED
      BY <1>3, <2>2, <2>3, <2>5, <3>1
  <2>6. QED
    BY <2>4, <2>5
<1>12. InOrderOnce'
  BY <1>10 DEF InOrderOnce, Way
<1>13. Told'
  <2>1. \A c \in Clients : reader'[c] \in {"none", "register"} => owed'[c] = {}
    BY <1>1 DEF Told, Served
  <2>2. ASSUME NEW c \in clients', writer'[c] = "running",
               NEW a \in Broadcasters, NEW k \in Nat, <<a, k>> \in owed'[c]
        PROVE  \/ k = sent'[a] /\ Awaits(a, c)'
               \/ <<a, k>> \in Range(Way(c)') \cup dropped'[c]
    <3>1. c \in clients /\ c \in Clients /\ writer[c] = "running" /\ Way(c)' = Way(c)
      BY <1>1, <1>10, <2>2 DEF Served
    <3>2. CASE <<a, k>> = <<b, sent[b] + 1>>
      BY <1>2, <1>5, <3>1, <3>2
    <3>3. CASE <<a, k>> # <<b, sent[b] + 1>>
      <4>1. <<a, k>> \in owed[c]
        BY <1>1, <2>2, <3>1, <3>3
      <4>2. (k = sent[a] /\ Awaits(a, c)) \/ <<a, k>> \in Range(Way(c)) \cup dropped[c]
        BY <3>1, <4>1 DEF Told
      <4>3. QED
        BY <1>1, <1>3, <1>6, <1>7, <3>1, <4>2
    <3>4. QED
      BY <3>2, <3>3
  <2>3. QED
    BY <2>1, <2>2 DEF Told
<1>14. QED
  BY <1>4, <1>8, <1>9, <1>11, <1>12, <1>13

\* What the steps of a broadcast that is under way have in common.
Moves(b, c) == CheckClosed(b, c) \/ Enqueue(b, c) \/ FullChannel(b, c)

\* A broadcast looks at a client, sends to it or passes it over.
LEMMA MovesKeeps ==
    ASSUME IInv, NEW b \in Broadcasters, NEW c \in Clients, Moves(b, c)
    PROVE  IInv'
<1> USE DEF IInv
<1>1. UNCHANGED <<clients, reader, writer, closed, hand, sent, received, owed>>
  BY DEF Moves, CheckClosed, Enqueue, FullChannel, ends
<1>2. Awaits(b, c) /\ c \in clients /\ c \notin closed /\ reader[c] # "gone"
  <2>1. Awaits(b, c)
    BY DEF Moves, CheckClosed, Enqueue, FullChannel, Awaits
  <2>2. QED
    BY <2>1 DEF Targets, Served
<1>3. /\ panicked' = panicked
      /\ \A a \in Broadcasters : a # b => cast'[a] = cast[a]
      /\ cast' \in [Broadcasters -> {Idle} \cup Casting]
      /\ cast'[b].pc = "send" => cast'[b].to \notin cast'[b].left
      /\ \A d \in Clients : Awaits(b, d)' => Awaits(b, d)
      /\ \A d \in Clients : d # c /\ Awaits(b, d) => Awaits(b, d)'
      /\ CheckClosed(b, c) => Awaits(b, c)'
      /\ ~ CheckClosed(b, c) => ~ Awaits(b, c)'
  <2>1. cast[b].pc \in {"loop", "send"} /\ cast[b].left \subseteq Clients
    BY CastShape DEF Moves, CheckClosed, Enqueue, FullChannel
  <2>2. CASE CheckClosed(b, c)
    <3>1. /\ cast' = [cast EXCEPT ![b] = [pc |-> "send", left |-> cast[b].left \ {c}, to |-> c]]
          /\ cast[b].pc = "loop" /\ c \in cast[b].left /\ panicked' = panicked
      BY <1>2, <2>2 DEF CheckClosed, ends
    <3>2. [pc |-> "send", left |-> cast[b].left \ {c}, to |-> c] \in Casting
      BY <2>1 DEF Casting
    <3>3. /\ cast' \in [Broadcasters -> {Idle} \cup Casting]
          /\ \A a \in Broadcasters : a # b => cast'[a] = cast[a]
          /\ cast'[b] = [pc |-> "send", left |-> cast[b].left \ {c}, to |-> c]
      BY <3>1, <3>2 DEF HubTypes
    <3>4. QED
      BY <2>2, <3>1, <3>3 DEF Awaits
  <2>3. CASE ~ CheckClosed(b, c)
    <3>1. /\ cast' = [cast EXCEPT ![b] = [pc |-> "loop", left |-> cast[b].left]]
          /\ cast[b].pc = "send" /\ cast[b].to = c /\ panicked' = panicked
      BY <1>2, <2>3 DEF Moves, Enqueue, FullChannel, AfterSend
    <3>2. [pc |-> "loop", left |-> cast[b].left] \in Casting
      BY <2>1 DEF Casting
    <3>3. /\ cast' \in [Broadcasters -> {Idle} \cup Casting]
          /\ \A a \in Broadcasters : a # b => cast'[a] = cast[a]
          /\ cast'[b] = [pc |-> "loop", left |-> cast[b].left]
      BY <3>1, <3>2 DEF HubTypes
    <3>4. c \notin cast[b].left
      BY <3>1 DEF Targets
    <3>5. QED
      BY <2>3, <3>1, <3>3, <3>4 DEF Awaits
  <2>4. QED
    BY <2>2, <2>3
<1>4. \A a \in Broadcasters, d \in Clients :
        /\ Awaits(a, d)' => Awaits(a, d)
        /\ ~ (a = b /\ d = c) /\ Awaits(a, d) => Awaits(a, d)'
  <2> TAKE a \in Broadcasters, d \in Clients
  <2>1. CASE a = b
    BY <1>3, <2>1
  <2>2. CASE a # b
    BY <1>3, <2>2 DEF Awaits
  <2>3. QED
    BY <2>1, <2>2
<1>5. Served' /\ NeverPanics'
  BY <1>1, <1>3 DEF Served, NeverPanics
<1>6. Targets'
  BY <1>1, <1>3, <1>4 DEF Targets
<1>7. \A a \in Broadcasters, d \in Clients : <<a, sent[a]>> \in Msg
  BY DEF Msg, HubTypes
<1>8. CASE ~ Enqueue(b, c)
  <2>1. send' = send
    BY <1>8 DEF Moves, CheckClosed, FullChannel
  <2>2. /\ dropped' \in [Clients -> SUBSET Msg] /\ \A d \in Clients : dropped[d] \subseteq dropped'[d]
        /\ ~ CheckClosed(b, c) => <<b, sent[b]>> \in dropped'[c]
    <3>1. CASE CheckClosed(b, c)
      BY <3>1 DEF CheckClosed, ends, HubTypes
    <3>2. CASE FullChannel(b, c)
      BY <1>7, <3>2 DEF FullChannel, HubTypes, Message
    <3>3. QED
      BY <1>8, <3>1, <3>2 DEF Moves
  <2>3. HubTypes'
    BY <1>1, <1>3, <2>1, <2>2 DEF HubTypes
  <2>4. \A d \in Clients : Way(d)' = Way(d)
    BY <1>1, <2>1 DEF Way
  <2>5. Behind'
    <3> SUFFICES ASSUME NEW d \in Clients, NEW i \in DOMAIN Way(d)
                 PROVE  /\ Way(d)[i][2] <= sent'[Way(d)[i][1]]
                        /\ Awaits(Way(d)[i][1], d)' => Way(d)[i][2] < sent'[Way(d)[i][1]]
      BY <2>4 DEF Behind
    <3>1. Way(d)[i] \in Msg
      BY WayIsSeq
    <3>2. PICK a \in Broadcasters, k \in Nat : Way(d)[i] = <<a, k>>
      BY <3>1 DEF Msg
    <3>3. Awaits(Way(d)[i][1], d)' => Awaits(a, d)
      BY <1>4, <2>4, <3>2
    <3>4. k <= sent[a] /\ (Awaits(a, d) => k < sent[a])
      BY <3>2 DEF Behind
    <3>5. QED
      BY <1>1, <3>2, <3>3, <3>4
  <2>6. InOrderOnce'
    BY <2>4 DEF InOrderOnce, Way
  <2>7. Told'
    <3>1. \A d \in Clients : reader'[d] \in {"none", "register"} => owed'[d] = {}
      BY <1>1 DEF Told
    <3>2. ASSUME NEW d \in clients', writer'[d] = "running",
                 NEW a \in Broadcasters, NEW k \in Nat, <<a, k>> \in owed'[d]
          PROVE  \/ k = sent'[a] /\ Awaits(a, d)'
                 \/ <<a, k>> \in Range(Way(d)') \cup dropped'[d]
      <4>1. d \in Clients /\ d \in clients /\ writer[d] = "running" /\ <<a, k>> \in owed[d]
        BY <1>1, <3>2 DEF Served
      <4>2. (k = sent[a] /\ Awaits(a, d)) \/ <<a, k>> \in Range(Way(d)) \cup dropped[d]
        BY <4>1 DEF Told
      <4>3. QED
        BY <1>1, <1>3, <1>4, <2>2, <2>4, <4>1, <4>2
    <3>3. QED
      BY <3>1, <3>2 DEF Told
  <2>8. QED
    BY <1>5, <1>6, <2>3, <2>5, <2>6, <2>7
<1>9. CASE Enqueue(b, c)
  <2> DEFINE m == <<b, sent[b]>>
  <2>1. /\ send' = [send EXCEPT ![c] = Append(send[c], m)] /\ dropped' = dropped
        /\ m \in Msg
    BY <1>2, <1>7, <1>9 DEF Enqueue, Message
  <2>2. /\ Append(send[c], m) \in Seq(Msg)
        /\ (received[c] \o hand[c]) \o Append(send[c], m)
            = Append((received[c] \o hand[c]) \o send[c], m)
    <3>1. received[c] \in Seq(Msg) /\ hand[c] \in Seq(Msg) /\ send[c] \in Seq(Msg) /\ m \in Msg
      BY <2>1, WayIsSeq
    <3>2. Append(send[c], m) \in Seq(Msg)
      BY <3>1, AppendProperties
    <3>3. ASSUME NEW r \in Seq(Msg), NEW h \in Seq(Msg), NEW s \in Seq(Msg), NEW e \in Msg
          PROVE  (r \o h) \o Append(s, e) = Append((r \o h) \o s, e)
      BY WayAppend
    <3>4. QED
      BY <3>1, <3>2, <3>3
  <2>3. Way(c)' = Append(Way(c), m)
    <3>1. Way(c) = (received[c] \o hand[c]) \o send[c]
      BY DEF Way
    <3>2. Way(c)' = (received[c] \o hand[c]) \o Append(send[c], m)
      BY <1>1, <2>1 DEF Way, HubTypes
    <3>3. QED
      BY <2>2, <3>1, <3>2
  <2>4. \A d \in Clients : d # c => Way(d)' = Way(d)
    BY <1>1, <2>1 DEF Way, HubTypes
  <2>5. HubTypes'
    BY <1>1, <1>3, <2>1, <2>2 DEF HubTypes
  <2> DEFINE n == Len(Way(c))
  <2>6. /\ n \in Nat /\ DOMAIN Way(c) = 1..n /\ DOMAIN Way(c)' = 1..(n + 1)
        /\ Way(c)'[n + 1] = m
        /\ \A i \in 1..n : Way(c)'[i] = Way(c)[i]
    <3>1. Way(c) \in Seq(Msg) /\ m \in Msg
      BY <2>1, WayIsSeq
    <3>2. QED
      BY <2>3, <3>1, AppendProperties, LenProperties
  <2>7. ~ Awaits(b, c)'
    <3>1. ~ CheckClosed(b, c)
      BY <1>9 DEF Enqueue, CheckClosed
    <3>2. QED
      BY <1>3, <3>1
  <2>8. \A d \in Clients : \A i \in DOMAIN Way(d) :
           /\ Way(d)[i] \in Msg
           /\ Way(d)[i][2] <= sent[Way(d)[i][1]]
           /\ Awaits(Way(d)[i][1], d) => Way(d)[i][2] < sent[Way(d)[i][1]]
    BY WayIsSeq DEF Behind
  <2>9. Behind'
    <3> SUFFICES ASSUME NEW d \in Clients, NEW i \in DOMAIN Way(d)'
                 PROVE  /\ Way(d)'[i][2] <= sent'[Way(d)'[i][1]]
                        /\ Awaits(Way(d)[i][1], d)' => Way(d)'[i][2] < sent'[Way(d)'[i][1]]
      BY DEF Behind
    <3>1. CASE d = c /\ i = n + 1
      <4>1. Way(d)'[i] = <<b, sent[b]>> /\ sent' = sent
        BY <1>1, <2>6, <3>1
      <4>2. sent[b] \in Nat
        BY DEF HubTypes
      <4>3. ~ Awaits(Way(d)[i][1], d)'
        BY <2>7, <3>1, <4>1
      <4>4. QED
        BY <4>1, <4>2, <4>3
    <3>2. CASE ~ (d = c /\ i = n + 1)
      <4>1. i \in DOMAIN Way(d) /\ Way(d)'[i] = Way(d)[i]
        BY <2>4, <2>6, <3>2
      <4>2. PICK a \in Broadcasters, k \in Nat : Way(d)[i] = <<a, k>>
        BY <2>8, <4>1 DEF Msg
      <4>3. Awaits(Way(d)[i][1], d)' => Awaits(a, d)
        BY <1>4, <4>1, <4>2
      <4>4. k <= sent[a] /\ (Awaits(a, d) => k < sent[a])
        BY <2>8, <4>1, <4>2
      <4>5. QED
        BY <1>1, <4>1, <4>2, <4>3, <4>4
    <3>3. QED
      BY <3>1, <3>2
  <2>10. InOrderOnce'
    <3> SUFFICES ASSUME NEW d \in Clients, NEW i \in DOMAIN Way(d)', NEW j \in DOMAIN Way(d)',
                        i < j, Way(d)'[i][1] = Way(d)'[j][1]
                 PROVE  Way(d)'[i][2] < Way(d)'[j][2]
      BY DEF InOrderOnce, Way
    <3>1. CASE d = c /\ j = n + 1
      <4>1. i \in 1..n /\ Way(d)'[j] = <<b, sent[b]>> /\ Way(d)'[i] = Way(d)[i]
        BY <2>6, <3>1
      <4>2. Way(d)[i][1] = b
        BY <4>1
      <4>3. Way(d)[i][2] < sent[b]
        BY <1>2, <2>6, <2>8, <3>1, <4>1, <4>2
      <4>4. QED
        BY <4>1, <4>3
    <3>2. CASE ~ (d = c /\ j = n + 1)
      <4>1. /\ i \in DOMAIN Way(d) /\ Way(d)'[i] = Way(d)[i]
            /\ j \in DOMAIN Way(d) /\ Way(d)'[j] = Way(d)[j]
        BY <2>4, <2>6, <3>2
      <4>2. QED
        BY <4>1 DEF InOrderOnce, Way
    <3>3. QED
      BY <3>1, <3>2
  <2>11. Told'
    <3>1. \A d \in Clients : reader'[d] \in {"none", "register"} => owed'[d] = {}
      BY <1>1 DEF Told
    <3>2. m \in Range(Way(c)') /\ Range(Way(c)) \subseteq Range(Way(c)')
      <4>1. n + 1 \in DOMAIN Way(c)'
        BY <2>6
      <4>2. \A i \in DOMAIN Way(c) : i \in DOMAIN Way(c)' /\ Way(c)'[i] = Way(c)[i]
        BY <2>6
      <4>3. Way(c)'[n + 1] = m
        BY <2>6
      <4>4. QED
        BY <4>1, <4>2, <4>3 DEF Range
    <3>3. ASSUME NEW d \in clients', writer'[d] = "running",
                 NEW a \in Broadcasters, NEW k \in Nat, <<a, k>> \in owed'[d]
          PROVE  \/ k = sent'[a] /\ Awaits(a, d)'
                 \/ <<a, k>> \in Range(Way(d)') \cup dropped'[d]
      <4>1. d \in Clients /\ d \in clients /\ writer[d] = "running" /\ <<a, k>> \in owed[d]
        BY <1>1, <3>3 DEF Served
      <4>2. (k = sent[a] /\ Awaits(a, d)) \/ <<a, k>> \in Range(Way(d)) \cup dropped[d]
        BY <4>1 DEF Told
      <4>3. Range(Way(d)) \subseteq Range(Way(d)')
        BY <2>4, <3>2, <4>1
      <4>4. QED
        BY <1>1, <1>4, <2>1, <3>2, <4>1, <4>2, <4>3
    <3>4. QED
      BY <3>1, <3>3 DEF Told
  <2>12. QED
    BY <1>5, <1>6, <2>5, <2>9, <2>10, <2>11
<1>10. QED
  BY <1>8, <1>9

\* A broadcast ends with nobody left before it.
LEMMA RUnlockKeeps ==
    ASSUME IInv, NEW b \in Broadcasters, RUnlock(b)
    PROVE  IInv'
<1> USE DEF IInv
<1>1. /\ UNCHANGED <<clients, reader, writer, closed, send, hand, sent, received, owed,
                     dropped, panicked>>
      /\ cast[b].pc = "loop" /\ cast[b].left = {}
      /\ cast' = [cast EXCEPT ![b] = Idle]
  BY DEF RUnlock, ends
<1>2. HubTypes'
  BY <1>1 DEF HubTypes
<1>3. cast'[b].pc = "idle" /\ \A a \in Broadcasters : a # b => cast'[a] = cast[a]
  BY <1>1 DEF HubTypes, Idle
<1>4. \A a \in Broadcasters, c \in Clients : Awaits(a, c)' <=> Awaits(a, c)
  <2> TAKE a \in Broadcasters, c \in Clients
  <2>1. CASE a = b
    BY <1>1, <1>3, <2>1 DEF Awaits
  <2>2. CASE a # b
    BY <1>3, <2>2 DEF Awaits
  <2>3. QED
    BY <2>1, <2>2
<1>5. Served' /\ NeverPanics'
  BY <1>1 DEF Served, NeverPanics
<1>6. Targets'
  BY <1>1, <1>3, <1>4 DEF Targets
<1>7. \A c \in Clients : Way(c)' = Way(c)
  BY <1>1 DEF Way
<1>8. Behind'
  <2> SUFFICES ASSUME NEW c \in Clients, NEW i \in DOMAIN Way(c)
               PROVE  /\ Way(c)[i][2] <= sent'[Way(c)[i][1]]
                      /\ Awaits(Way(c)[i][1], c)' => Way(c)[i][2] < sent'[Way(c)[i][1]]
    BY <1>7 DEF Behind
  <2>1. Way(c)[i][1] \in Broadcasters
    BY WayIsSeq DEF Msg
  <2>2. Awaits(Way(c)[i][1], c)' => Awaits(Way(c)[i][1], c)
    BY <1>4, <1>7, <2>1
  <2>3. QED
    BY <1>1, <2>2 DEF Behind
<1>9. InOrderOnce'
  BY <1>7 DEF InOrderOnce, Way
<1>10. Told'
  <2>1. \A c \in Clients : reader'[c] \in {"none", "register"} => owed'[c] = {}
    BY <1>1 DEF Told
  <2>2. ASSUME NEW c \in clients', writer'[c] = "running",
               NEW a \in Broadcasters, NEW k \in Nat, <<a, k>> \in owed'[c]
        PROVE  \/ k = sent'[a] /\ Awaits(a, c)'
               \/ <<a, k>> \in Range(Way(c)') \cup dropped'[c]
    <3>1. c \in Clients /\ c \in clients /\ writer[c] = "running" /\ <<a, k>> \in owed[c]
      BY <1>1, <2>2 DEF Served
    <3>2. QED
      BY <1>1, <1>4, <1>7, <3>1 DEF Told
  <2>3. QED
    BY <2>1, <2>2 DEF Told
<1>11. QED
  BY <1>2, <1>5, <1>6, <1>8, <1>9, <1>10

\* The invariant is inductive.
LEMMA NextKeeps ==
    ASSUME IInv, [Next]_vars
    PROVE  IInv'
<1>1. ASSUME NEW c \in Clients, Upgrade(c) \/ Register(c) \/ ReadError(c) \/ Unregister(c)
      PROVE  IInv'
  BY <1>1, ReaderKeeps
<1>2. ASSUME NEW c \in Clients, Take(c) \/ Write(c) \/ WriterStops(c)
      PROVE  IInv'
  BY <1>2, WriterKeeps
<1>3. ASSUME NEW c \in Clients, NEW arrived \in BOOLEAN, WriteError(c, arrived)
      PROVE  IInv'
  <2>1. CASE arrived = TRUE
    BY <1>3, <2>1, WriterKeeps
  <2>2. CASE arrived = FALSE
    BY <1>3, <2>2, LossKeeps
  <2>3. QED
    BY <2>1, <2>2
<1>4. ASSUME NEW b \in Broadcasters, RLock(b)
      PROVE  IInv'
  BY <1>4, RLockKeeps
<1>5. ASSUME NEW b \in Broadcasters, Broadcasting(b)
      PROVE  IInv'
  <2>1. CASE RUnlock(b)
    BY <2>1, RUnlockKeeps
  <2>2. CASE \E c \in Clients : Moves(b, c)
    BY <2>2, MovesKeeps
  <2>3. QED
    BY <1>5, <2>1, <2>2 DEF Broadcasting, Moves
<1>6. CASE UNCHANGED vars
  <2>1. UNCHANGED <<clients, reader, writer, closed, send, hand, cast, sent, received, owed,
                    dropped, panicked>>
    BY <1>6 DEF vars
  <2>2. HubTypes' /\ Served' /\ Targets' /\ NeverPanics'
    BY <2>1 DEF IInv, HubTypes, Served, Targets, NeverPanics, Awaits
  <2>3. \A c \in Clients : Way(c)' = Way(c)
    BY <2>1 DEF Way
  <2>4. Behind' /\ InOrderOnce'
    BY <2>1, <2>3, SameWay DEF IInv
  <2>5. Told'
    BY <2>1, <2>3, SameTold DEF IInv, Served
  <2>6. QED
    BY <2>2, <2>4, <2>5 DEF IInv
<1>7. QED
  BY <1>1, <1>2, <1>3, <1>4, <1>5, <1>6 DEF Next

\* The invariant, for every behaviour.
LEMMA Invariant == Spec => []IInv
<1>1. Init => IInv
  BY InitInv
<1>2. IInv /\ [Next]_vars => IInv'
  BY NextKeeps
<1>3. QED
  BY <1>1, <1>2, PTL DEF Spec

\* The hub's lock keeps Close and Send apart: no goroutine sends on a closed
\* channel or closes one twice (hub.go Unregister and Broadcast, connection.go
\* Send and Close), with any number of clients and publishers.
THEOREM HubNeverPanics == Spec => []NeverPanics
<1>1. IInv => NeverPanics
  BY DEF IInv
<1>2. QED
  BY <1>1, Invariant, PTL

\* A browser sees the messages of each publisher in order and none of them
\* twice (connection.go Send and WritePump), whatever fails or is dropped.
THEOREM DeliveryInOrder == Spec => []InOrderOnce
<1>1. IInv => InOrderOnce
  BY DEF IInv
<1>2. QED
  BY <1>1, Invariant, PTL

\* Every client that is served gets every message whose broadcast it was
\* registered for, or finds its own channel full: Broadcast passes over nobody
\* because of another client (hub.go Broadcast).
THEOREM BroadcastReachesAll == Spec => []EveryoneIsTold
<1>1. IInv => EveryoneIsTold
  <2> SUFFICES ASSUME IInv, NEW c \in clients, NEW m \in Messages,
                      m \in owed[c], cast[m[1]] = Idle \/ sent[m[1]] > m[2],
                      writer[c] = "running"
               PROVE  m \in Range(Way(c)) \cup dropped[c]
    BY DEF EveryoneIsTold, Way
  <2>1. PICK b \in Broadcasters, k \in Nat : m = <<b, k>>
    BY HubAssumption DEF Messages
  <2>2. (k = sent[b] /\ Awaits(b, c)) \/ <<b, k>> \in Range(Way(c)) \cup dropped[c]
    BY <2>1 DEF IInv, Told
  <2>3. sent[b] \in Nat
    BY DEF IInv, HubTypes
  <2>4. cast[b] = Idle => ~ Awaits(b, c)
    BY CastShape DEF IInv, Awaits
  <2>5. QED
    BY <2>1, <2>2, <2>3, <2>4
<1>2. QED
  BY <1>1, Invariant, PTL
-----------------------------------------------------------------------------
(* Types: the capacity of the channels and the numbers of the messages. *)

\* Only numbers that are in use go round, and a broadcast has one.
QueueTypes ==
    /\ send \in [Clients -> Seq(Messages)]
    /\ hand \in [Clients -> Seq(Messages)]
    /\ received \in [Clients -> Seq(Messages)]
    /\ \A c \in Clients : Len(send[c]) <= Buffer /\ Len(hand[c]) <= 1
    /\ sent \in [Broadcasters -> 0..MaxMessages]
    /\ \A b \in Broadcasters : cast[b] # Idle => sent[b] > 0
    /\ owed \in [Clients -> SUBSET Messages]
    /\ dropped \in [Clients -> SUBSET Messages]
    /\ panicked \in BOOLEAN

\* Connections and pumps: nothing is put into a channel.
LEMMA PumpTypes ==
    ASSUME IInv, QueueTypes, NEW c \in Clients,
           \/ Upgrade(c) \/ Register(c) \/ ReadError(c) \/ Unregister(c)
           \/ Take(c) \/ Write(c) \/ WriterStops(c)
           \/ \E arrived \in BOOLEAN : WriteError(c, arrived)
    PROVE  QueueTypes'
<1> USE DEF QueueTypes, ends
<1>1. UNCHANGED <<cast, sent, owed, dropped>>
  BY DEF Upgrade, Register, ReadError, Unregister, Take, Write, WriterStops, WriteError
<1>2. panicked' \in BOOLEAN
  BY DEF Upgrade, Register, ReadError, Unregister, Take, Write, WriterStops, WriteError
<1>3. send[c] \in Seq(Messages) /\ hand[c] \in Seq(Messages) /\ received[c] \in Seq(Messages)
  OBVIOUS
<1>4. received[c] \o hand[c] \in Seq(Messages) /\ <<>> \in Seq(Messages) /\ Len(<<>>) = 0
  BY <1>3, ConcatProperties, EmptySeq
<1>5. CASE Take(c)
  <2>1. /\ hand' = [hand EXCEPT ![c] = <<Head(send[c])>>] /\ send' = [send EXCEPT ![c] = Tail(send[c])]
        /\ received' = received /\ send[c] # <<>>
    BY <1>5 DEF Take
  <2>2. /\ Head(send[c]) \in Messages /\ Tail(send[c]) \in Seq(Messages)
        /\ Len(Tail(send[c])) = Len(send[c]) - 1
    BY <1>3, <2>1, HeadTailProperties
  <2>3. <<Head(send[c])>> \in Seq(Messages) /\ Len(<<Head(send[c])>>) = 1
    BY <2>2
  <2>4. Len(send[c]) \in Nat /\ Buffer \in Nat
    BY <1>3, LenProperties, HubAssumption
  <2>5. Len(Tail(send[c])) <= Buffer
    BY <2>2, <2>4
  <2> HIDE DEF QueueTypes
  <2>6. /\ hand' \in [Clients -> Seq(Messages)] /\ send' \in [Clients -> Seq(Messages)]
        /\ \A x \in Clients : Len(send'[x]) <= Buffer /\ Len(hand'[x]) <= 1
    BY <2>1, <2>2, <2>3, <2>5 DEF QueueTypes
  <2>7. QED
    BY <1>1, <1>2, <2>1, <2>6 DEF QueueTypes
<1>6. CASE ~ Take(c)
  <2>1. /\ send' = send
        /\ hand' = hand \/ hand' = [hand EXCEPT ![c] = <<>>]
        /\ received' = received \/ received' = [received EXCEPT ![c] = received[c] \o hand[c]]
    BY <1>6 DEF Upgrade, Register, ReadError, Unregister, Write, WriterStops, WriteError
  <2>2. received' \in [Clients -> Seq(Messages)]
    BY <1>4, <2>1
  <2>3. /\ hand' \in [Clients -> Seq(Messages)]
        /\ \A x \in Clients : Len(send'[x]) <= Buffer /\ Len(hand'[x]) <= 1
    <3>1. PICK e : e = <<>> /\ e \in Seq(Messages) /\ Len(e) = 0
      BY <1>4
    <3>2. hand' = hand \/ hand' = [hand EXCEPT ![c] = e]
      BY <2>1, <3>1
    <3>3. e \in Seq(Messages) /\ Len(e) <= 1
      BY <3>1
    <3>4. QED
      BY <2>1, <3>2, <3>3
  <2>4. QED
    BY <1>1, <1>2, <2>1, <2>2, <2>3
<1>7. QED
  BY <1>5, <1>6

\* A broadcast begins: the number it takes is within the bound, because the
\* numbers of all publishers add up to less.
LEMMA RLockTypes ==
    ASSUME IInv, QueueTypes, NEW b \in Broadcasters, RLock(b)
    PROVE  QueueTypes'
<1>1. /\ sent \in [Broadcasters -> 0..MaxMessages] /\ MaxMessages \in Nat
      /\ IsFiniteSet(Broadcasters) /\ \A x \in Broadcasters : sent[x] \in Nat
  BY HubAssumption DEF QueueTypes
<1>2. SumFunctionOnSet(sent, Broadcasters) < MaxMessages
  BY <1>1 DEF RLock, SumFunction
<1>3. SumFunctionOnSet(sent, Broadcasters)
          = sent[b] + SumFunctionOnSet(sent, Broadcasters \ {b})
  BY <1>1, SumRemove
<1>4. SumFunctionOnSet(sent, Broadcasters \ {b}) \in Nat
  <2>1. IsFiniteSet(Broadcasters \ {b})
    BY <1>1, FS_RemoveElement
  <2>2. QED
    BY <1>1, <2>1, SumType
<1>5. sent[b] \in Nat /\ sent[b] < MaxMessages
  BY <1>1, <1>2, <1>3, <1>4
<1>6. /\ sent' = [sent EXCEPT ![b] = sent[b] + 1]
      /\ cast' = [cast EXCEPT ![b] = [pc |-> "loop", left |-> clients]]
      /\ owed' = [c \in Clients |-> IF c \in clients THEN owed[c] \cup {<<b, sent[b] + 1>>}
                                    ELSE owed[c]]
      /\ UNCHANGED <<send, hand, received, dropped, panicked>>
  BY DEF RLock
<1>7. sent' \in [Broadcasters -> 0..MaxMessages] /\ sent[b] + 1 \in 1..MaxMessages
  BY <1>1, <1>5, <1>6
<1>8. owed' \in [Clients -> SUBSET Messages]
  BY <1>6, <1>7 DEF QueueTypes, Messages
<1>9. \A x \in Broadcasters : cast'[x] # Idle => sent'[x] > 0
  <2>1. cast \in [Broadcasters -> {Idle} \cup Casting]
    BY DEF IInv, HubTypes
  <2>2. QED
    BY <1>1, <1>5, <1>6, <2>1 DEF QueueTypes
<1>10. QED
  BY <1>6, <1>7, <1>8, <1>9 DEF QueueTypes

\* A broadcast goes on: what it puts into a channel finds room.
LEMMA BroadcastTypes ==
    ASSUME IInv, QueueTypes, NEW b \in Broadcasters, Broadcasting(b)
    PROVE  QueueTypes'
<1> USE DEF ends
<1>1. cast \in [Broadcasters -> {Idle} \cup Casting] /\ sent \in [Broadcasters -> 0..MaxMessages]
  BY DEF IInv, HubTypes, QueueTypes
<1>2. cast[b] # Idle /\ sent[b] > 0
  BY CastShape DEF Broadcasting, CheckClosed, Enqueue, FullChannel, RUnlock, IInv, QueueTypes
<1>3. Message(b) \in Messages
  BY <1>1, <1>2, HubAssumption DEF Message, Messages
<1>4. /\ UNCHANGED <<sent, hand, received, owed>>
      /\ \E to : cast' = [cast EXCEPT ![b] = to]
  BY DEF Broadcasting, CheckClosed, Enqueue, FullChannel, RUnlock, AfterSend
<1>5. \A x \in Broadcasters : cast'[x] # Idle => sent'[x] > 0
  BY <1>1, <1>2, <1>4 DEF QueueTypes
<1>6. /\ send' \in [Clients -> Seq(Messages)] /\ \A x \in Clients : Len(send'[x]) <= Buffer
      /\ dropped' \in [Clients -> SUBSET Messages] /\ panicked' \in BOOLEAN
  <2>1. ASSUME NEW c \in Clients, Enqueue(b, c), c \notin closed
        PROVE  /\ send' \in [Clients -> Seq(Messages)]
               /\ \A x \in Clients : Len(send'[x]) <= Buffer
    <3>1. Len(send[c]) < Buffer /\ send' = [send EXCEPT ![c] = Append(send[c], Message(b))]
      BY <2>1 DEF Enqueue
    <3>2. /\ Append(send[c], Message(b)) \in Seq(Messages)
          /\ Len(Append(send[c], Message(b))) = Len(send[c]) + 1
          /\ Len(send[c]) \in Nat
      BY <1>3, AppendProperties, LenProperties DEF QueueTypes
    <3>3. Len(Append(send[c], Message(b))) <= Buffer
      BY <3>1, <3>2, HubAssumption
    <3>4. QED
      BY <3>1, <3>2, <3>3 DEF QueueTypes
  <2>2. ASSUME NEW c \in Clients, Enqueue(b, c)
        PROVE  dropped' = dropped /\ panicked' \in BOOLEAN /\ (c \in closed => send' = send)
    BY <2>2 DEF Enqueue, QueueTypes
  <2>3. ASSUME NEW c \in Clients, FullChannel(b, c)
        PROVE  /\ dropped' \in [Clients -> SUBSET Messages]
               /\ send' = send /\ panicked' = panicked
    BY <1>3, <2>3 DEF FullChannel, QueueTypes
  <2>4. CASE RUnlock(b) \/ \E c \in Clients : CheckClosed(b, c)
    BY <2>4 DEF RUnlock, CheckClosed, QueueTypes
  <2>5. QED
    BY <2>1, <2>2, <2>3, <2>4 DEF Broadcasting, QueueTypes
<1>7. QED
  BY <1>1, <1>4, <1>5, <1>6 DEF QueueTypes

\* All of these, always.
LEMMA QueuesTyped == Spec => []QueueTypes
<1>1. Init => QueueTypes
  <2> SUFFICES ASSUME Init PROVE QueueTypes
    OBVIOUS
  <2>1. <<>> \in Seq(Messages) /\ Len(<<>>) = 0
    BY EmptySeq
  <2>2. 0 <= Buffer /\ 0 \in 0..MaxMessages
    BY HubAssumption
  <2>3. PICK e : e = <<>> /\ e \in Seq(Messages) /\ Len(e) = 0
    BY <2>1
  <2>4. /\ e \in Seq(Messages) /\ Len(e) = 0
        /\ send = [c \in Clients |-> e] /\ hand = [c \in Clients |-> e]
        /\ received = [c \in Clients |-> e]
    BY <2>3 DEF Init
  <2>5. /\ send \in [Clients -> Seq(Messages)] /\ hand \in [Clients -> Seq(Messages)]
        /\ received \in [Clients -> Seq(Messages)]
        /\ \A c \in Clients : Len(send[c]) <= Buffer /\ Len(hand[c]) <= 1
    BY <2>2, <2>4
  <2>6. QED
    BY <2>2, <2>5 DEF Init, QueueTypes
<1>2. IInv /\ QueueTypes /\ [Next]_vars => QueueTypes'
  <2> SUFFICES ASSUME IInv, QueueTypes, [Next]_vars PROVE QueueTypes'
    OBVIOUS
  <2>1. CASE UNCHANGED vars
    BY <2>1 DEF vars, QueueTypes
  <2>2. QED
    BY <2>1, PumpTypes, RLockTypes, BroadcastTypes DEF Next
<1>3. QED
  BY <1>1, <1>2, Invariant, PTL DEF Spec

\* Every variable keeps its type: no channel ever holds more than its capacity,
\* and a write pump never more than the one message it is writing.
THEOREM TypeCorrect == Spec => []TypeOK
<1>1. IInv /\ QueueTypes => TypeOK
  BY DEF IInv, HubTypes, Served, QueueTypes, TypeOK
<1>2. QED
  BY <1>1, Invariant, QueuesTyped, PTL
-----------------------------------------------------------------------------
(* Why every broadcast returns: the parts of BroadcastReturns that are not *)
(* about fairness.                                                         *)

\* How many steps a broadcast has before it, to RUnlock.
Remaining(b) ==
    IF cast[b] = Idle THEN 0
    ELSE 2 * Cardinality(cast[b].left) + (IF cast[b].pc = "loop" THEN 1 ELSE 2)

\* Nobody prolongs a broadcast: not a client that registers, falls behind, breaks
\* or leaves meanwhile, nor another publisher.
NoCastGoesBack ==
    \A b \in Broadcasters :
        cast[b] # Idle => cast'[b] = cast[b] \/ Remaining(b)' < Remaining(b)

\* What is left of a broadcast can be counted.
LEMMA CastFinite ==
    ASSUME HubTypes, NEW b \in Broadcasters, cast[b] # Idle
    PROVE  /\ cast[b].pc \in {"loop", "send"} /\ IsFiniteSet(cast[b].left)
           /\ Cardinality(cast[b].left) \in Nat
<1>1. cast[b].pc \in {"loop", "send"} /\ cast[b].left \subseteq Clients
  BY CastShape
<1>2. QED
  BY <1>1, HubAssumption, FS_Subset, FS_CardinalityType

\* Hub.Broadcast and Connection.Send, for any number of clients: a broadcast
\* has finitely many steps before it, and nobody adds to them.
THEOREM BroadcastsRunOut ==
    Spec => /\ [](\A b \in Broadcasters : Remaining(b) \in Nat)
            /\ [][NoCastGoesBack]_vars
<1>1. IInv => \A b \in Broadcasters : Remaining(b) \in Nat
  BY CastFinite DEF IInv, Remaining
<1>2. ASSUME IInv, [Next]_vars
      PROVE  [NoCastGoesBack]_vars
  <2>1. cast \in [Broadcasters -> {Idle} \cup Casting] /\ HubTypes
    BY <1>2 DEF IInv, HubTypes
  <2>2. ASSUME NEW b \in Broadcasters, \A a \in Broadcasters \ {b} : cast'[a] = cast[a],
               cast[b] # Idle => cast'[b] = cast[b] \/ Remaining(b)' < Remaining(b)
        PROVE  NoCastGoesBack
    BY <2>2 DEF NoCastGoesBack
  <2>3. ASSUME NEW b \in Broadcasters, RLock(b)
        PROVE  NoCastGoesBack
    BY <2>1, <2>2, <2>3 DEF RLock
  <2>4. ASSUME NEW b \in Broadcasters, NEW c \in Clients, CheckClosed(b, c)
        PROVE  NoCastGoesBack
    <3>1. PICK left : left = cast[b].left
      OBVIOUS
    <3>2. /\ cast[b].pc = "loop" /\ cast[b] # Idle /\ c \in left
          /\ cast'[b].pc \in {"loop", "send"} /\ cast'[b].left = left \ {c} /\ cast'[b] # Idle
          /\ \A a \in Broadcasters \ {b} : cast'[a] = cast[a]
      BY <2>1, <2>4, <3>1 DEF CheckClosed, Idle
    <3>3. IsFiniteSet(left) /\ Cardinality(left) \in Nat
      BY <2>1, <3>1, <3>2, CastFinite
    <3>4. Cardinality(left \ {c}) = Cardinality(left) - 1
      BY <3>2, <3>3, FS_RemoveElement
    <3>5. Remaining(b) = 2 * Cardinality(left) + 1
      BY <3>1, <3>2 DEF Remaining
    <3>6. \/ Remaining(b)' = 2 * Cardinality(left \ {c}) + 1
          \/ Remaining(b)' = 2 * Cardinality(left \ {c}) + 2
      BY <3>2 DEF Remaining
    <3>7. Remaining(b)' < Remaining(b)
      BY <3>3, <3>4, <3>5, <3>6
    <3>8. QED
      BY <2>2, <3>2, <3>7
  <2>5. ASSUME NEW b \in Broadcasters, NEW c \in Clients, Enqueue(b, c) \/ FullChannel(b, c)
        PROVE  NoCastGoesBack
    <3>1. PICK left : left = cast[b].left
      OBVIOUS
    <3>2. /\ cast[b].pc = "send" /\ cast[b] # Idle
          /\ cast'[b].pc = "loop" /\ cast'[b].left = left /\ cast'[b] # Idle
          /\ \A a \in Broadcasters \ {b} : cast'[a] = cast[a]
      BY <2>1, <2>5, <3>1 DEF Enqueue, FullChannel, AfterSend, Idle
    <3>3. Cardinality(left) \in Nat
      BY <2>1, <3>1, <3>2, CastFinite
    <3>4. Remaining(b) = 2 * Cardinality(left) + 2 /\ Remaining(b)' = 2 * Cardinality(left) + 1
      BY <3>1, <3>2 DEF Remaining
    <3>5. Remaining(b)' < Remaining(b)
      BY <3>3, <3>4
    <3>6. QED
      BY <2>2, <3>2, <3>5
  <2>6. ASSUME NEW b \in Broadcasters, RUnlock(b)
        PROVE  NoCastGoesBack
    <3>1. /\ cast[b].pc = "loop" /\ cast[b] # Idle /\ cast'[b] = Idle
          /\ \A a \in Broadcasters \ {b} : cast'[a] = cast[a]
      BY <2>1, <2>6 DEF RUnlock, Idle
    <3>2. Remaining(b)' = 0
      BY <3>1 DEF Remaining
    <3>3. Remaining(b) > 0
      BY <2>1, <3>1, CastFinite DEF Remaining
    <3>4. QED
      BY <2>2, <3>1, <3>2, <3>3
  <2>7. CASE UNCHANGED cast
    BY <2>7 DEF NoCastGoesBack
  <2>8. QED
    BY <1>2, <2>3, <2>4, <2>5, <2>6, <2>7
    DEF Next, Broadcasting, vars, Upgrade, Register, ReadError, Unregister, Take, Write,
        WriterStops, WriteError
<1>3. QED
  BY <1>1, <1>2, Invariant, PTL DEF Spec
=============================================================================
