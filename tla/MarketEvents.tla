---------------------------- MODULE MarketEvents ----------------------------
(***************************************************************************)
(* ProcessMarketEvent: a news item becomes, at most once in a while, a     *)
(* MarketEvent that risk evaluation consults.                              *)
(*                                                                         *)
(* Pollers hand items over through the event consumer, the same item again *)
(* and again while it stays in the feed, and several processes may poll.   *)
(* A step is one statement, one transaction or the call of the classifier; *)
(* each reads the clock where the code does.  Time is counted in units of  *)
(* the model: the two windows of the code are equal (48 h), and so are the *)
(* ones an instance should choose.                                         *)
(***************************************************************************)
EXTENDS MarketEvent

CONSTANTS
    Pollers,       \* handlers of news items that can be in flight together
    Items,         \* news items that pass the source, URL and size checks
    Published,     \* when each was published; "undated" where it does not say
    Payloads,      \* what the classifier may answer
    MaxNewsAge,    \* maxNewsAge: how old an item may be, how long an event lasts
    DedupTTL,      \* dedupTTL: how long a reserved key lasts
    MaxTime,       \* bound: the clock stops here
    MaxDeliveries  \* bound: how often items are handed over

Undated == "undated"

ASSUME MarketEventsAssumption ==
    /\ Items = DOMAIN Published
    /\ \A i \in Items : Published[i] = Undated \/ Published[i] \in Int
    /\ \A a \in Payloads : {"severity", "action", "assets", "sources"} \subseteq DOMAIN a
    /\ {MaxNewsAge, DedupTTL} \subseteq Nat \ {0}
    /\ {MaxTime, MaxDeliveries} \subseteq Nat

VARIABLES
    now,        \* the clock, which all processes share
    keys,       \* keys[i]: when the idempotency key of item i expires; -1: no row
    news,       \* news[p]: the item that poller p is handling
    events,     \* rows of market_events, all with status ACTIVE
    alerts,     \* items whose CriticalEventDetected is in the outbox
    deliveries  \* history: items handed over so far

newsVars == <<keys, news, events, alerts, deliveries>>

NoNews == [pc |-> "idle"]

\* A row, and when its key was reserved (history).
Event == [item : Items, severity : Severities, action : Actions,
          assets : SUBSET UNION {a.assets : a \in Payloads},
          expires : Nat, reserved : Nat]

NewsTypeOK ==
    /\ now \in 0..MaxTime
    /\ keys \in [Items -> Int]
    /\ \A p \in Pollers :
        \/ news[p] = NoNews
        \/ /\ news[p].pc = "reserve"
           /\ news[p].item \in Items /\ news[p].start \in 0..now
        \/ /\ news[p].pc = "analyze"
           /\ news[p].item \in Items /\ news[p].start \in 0..news[p].reserved
           /\ news[p].reserved \in 0..now
    /\ events \subseteq Event
    /\ alerts \subseteq Items
    /\ deliveries \in 0..MaxDeliveries

NewsInit ==
    /\ now = 0
    /\ keys = [i \in Items |-> -1]
    /\ news = [p \in Pollers |-> NoNews]
    /\ events = {} /\ alerts = {} /\ deliveries = 0

Handling(p, step) == news' = [news EXCEPT ![p] = step]
-----------------------------------------------------------------------------
\* Fetch dates an item that carries no date with the time of the fetch, and
\* HandleNewsItem hands it over at once: such an item is never too old.
PublishedAt(i, start) == IF Published[i] = Undated THEN start ELSE Published[i]

\* Execute reads the clock once, before anything else.
Deliver(p, i) ==
    /\ news[p] = NoNews
    /\ deliveries < MaxDeliveries
    /\ deliveries' = deliveries + 1
    /\ Handling(p, [pc |-> "reserve", item |-> i, start |-> now])
    /\ UNCHANGED <<keys, events, alerts>>

KeyFreeAtDeadline(i) == keys[i] <= now

\* reserveQuery: no row, or one that expired strictly before the new one.
KeyFree(i) == keys[i] < now

TooOld(i, start) == start - PublishedAt(i, start) > MaxNewsAge

\* Reserve reads the clock of its own.  The age is checked after it, so an
\* item that is too old keeps its key.
Reserve(p) ==
    /\ news[p].pc = "reserve"
    /\ LET i == news[p].item
       IN  IF KeyFree(i)
           THEN /\ keys' = [keys EXCEPT ![i] = now + DedupTTL]
                /\ Handling(p, IF TooOld(i, news[p].start) THEN NoNews
                               ELSE [pc |-> "analyze", item |-> i, start |-> news[p].start,
                                     reserved |-> now])
           ELSE Handling(p, NoNews) /\ UNCHANGED keys
    /\ UNCHANGED <<events, alerts, deliveries>>

\* The classifier answers and a valid answer is saved, as an event that counts
\* from when the handler began.  A critical one and its outbox row are one
\* transaction.  Nobody can tell the answer from the save: no step between.
Analyze(p, a) ==
    /\ news[p].pc = "analyze"
    /\ LET row == [item |-> news[p].item, severity |-> a.severity, action |-> a.action,
                   assets |-> a.assets, expires |-> news[p].start + MaxNewsAge,
                   reserved |-> news[p].reserved]
       IN  IF toEventAssessment(a) /\ New(a, news[p].start, row.expires)
           THEN /\ events' = events \cup {row}
                /\ alerts' = IF IsCritical(row) THEN alerts \cup {row.item} ELSE alerts
           ELSE UNCHANGED <<events, alerts>>
    /\ Handling(p, NoNews)
    /\ UNCHANGED <<keys, deliveries>>

\* The classifier cannot be reached, refuses, or answers what is no assessment:
\* the key stays reserved, and the item a duplicate until it expires.
AnalyzeFails(p) ==
    /\ news[p].pc = "analyze"
    /\ Handling(p, NoNews)
    /\ UNCHANGED <<keys, events, alerts, deliveries>>

\* A statement fails, or the process is gone: a key that was reserved stays.
NewsError(p) ==
    /\ news[p] # NoNews
    /\ Handling(p, NoNews)
    /\ UNCHANGED <<keys, events, alerts, deliveries>>
-----------------------------------------------------------------------------
\* However many pollers meet an item, and however often: two records of it
\* were reserved more than DedupTTL apart.  (process_market_event.go 83-89,
\* the WHERE of reserveQuery.)
OneRecordPerWindow ==
    \A e, f \in events :
        e.item = f.item /\ e # f => \/ e.reserved > f.reserved + DedupTTL
                                    \/ f.reserved > e.reserved + DedupTTL
=============================================================================
