------------------------------- MODULE Outbox -------------------------------
(***************************************************************************)
(* The outbox table and the workers that drain it, one in cmd/api and one  *)
(* in cmd/worker.  Every tick a worker claims the oldest pending rows in   *)
(* one statement, publishes each on its own in-memory bus and marks the    *)
(* row in a statement of its own.  Only cmd/api subscribes the consumers   *)
(* that feed the dashboard.                                                *)
(*                                                                         *)
(* Faults: a worker dies with a batch in hand (crash or shutdown), a claim *)
(* commits but its result is lost, or marking a row fails, which the       *)
(* worker logs and forgets.  A fetch that fails outright changes nothing.  *)
(***************************************************************************)
EXTENDS Naturals, FiniteSets

CONSTANTS
    Events,       \* events that use cases write to the outbox
    Undecodable,  \* those whose payload Publisher.decode cannot read back
    Workers,      \* processes that run the outbox worker
    Listening,    \* those that subscribed the consumers
    BatchSize,
    MaxAttempts   \* maxAttempts

ASSUME OutboxAssumption ==
    /\ IsFiniteSet(Events)
    /\ Undecodable \subseteq Events
    /\ Listening \subseteq Workers
    /\ BatchSize \in Nat \ {0}
    /\ MaxAttempts \in Nat \ {0}

VARIABLES
    rows,      \* rows[ev]: [status, attempts, created], status "NONE" if absent
    worker,    \* worker[w]: what w is doing with its batch
    published, \* history: published[ev], the times ev went onto a bus
    dashboard, \* events that reached the dashboard hub
    struck     \* history: events a fault hit while a worker had them

vars == <<rows, worker, published, dashboard, struck>>

Status == {"NONE", "PENDING", "PROCESSING", "PROCESSED", "FAILED"}
RowType == [status : Status, attempts : Nat, created : Nat]

\* A worker is idle, or about to publish the rest of its batch, or about to
\* mark the event it published or failed to publish.
Idle == [step |-> "idle"]
Worker ==
    {Idle}
    \cup [step : {"publish"}, batch : SUBSET Events]
    \cup [step : {"processed", "failed"}, batch : SUBSET Events, ev : Events]

TypeOK ==
    /\ rows \in [Events -> RowType]
    /\ worker \in [Workers -> Worker]
    /\ published \in [Events -> Nat]
    /\ dashboard \subseteq Events
    /\ struck \subseteq Events

Init ==
    /\ rows = [ev \in Events |-> [status |-> "NONE", attempts |-> 0, created |-> 0]]
    /\ worker = [w \in Workers |-> Idle]
    /\ published = [ev \in Events |-> 0]
    /\ dashboard = {}
    /\ struck = {}
-----------------------------------------------------------------------------
With(status) == {ev \in Events : rows[ev].status = status}

\* Repository.Insert, in the transaction of the use case.  created_at was read
\* from the clock before the transaction, so rows appear in any order of it.
Insert(ev) ==
    /\ rows[ev].status = "NONE"
    /\ \E t \in 1 .. Cardinality(Events) :
          /\ \A f \in Events : rows[f].created # t
          /\ rows' = [rows EXCEPT ![ev] =
                 [status |-> "PENDING", attempts |-> 0, created |-> t]]
    /\ UNCHANGED <<worker, published, dashboard, struck>>

\* fetchPendingBatchQuery: the oldest pending rows, BatchSize at most.
ClaimProcessingToo ==
    {ev \in Events : rows[ev].status \in {"PENDING", "PROCESSING"}}

Claimed ==
    {ev \in With("PENDING") :
        Cardinality({f \in With("PENDING") : rows[f].created < rows[ev].created})
            < BatchSize}

Claim ==
    /\ Claimed # {}
    /\ rows' = [ev \in Events |->
           IF ev \in Claimed
           THEN [status |-> "PROCESSING", attempts |-> rows[ev].attempts,
                 created |-> rows[ev].created]
           ELSE rows[ev]]

FetchPendingBatch(w) ==
    /\ worker[w] = Idle
    /\ Claim
    /\ worker' = [worker EXCEPT ![w] = [step |-> "publish", batch |-> Claimed]]
    /\ UNCHANGED <<published, dashboard, struck>>

\* The claim commits, and the worker gets an error instead of the rows.
FetchLost(w) ==
    /\ worker[w] = Idle
    /\ Claim
    /\ struck' = struck \cup Claimed
    /\ UNCHANGED <<worker, published, dashboard>>

\* Publisher.Publish: decode the payload, then call the bus's subscribers,
\* none of which returns an error.  RETURNING gives the rows in any order.
Publish(w, ev) ==
    /\ worker[w].step = "publish"
    /\ ev \in worker[w].batch
    /\ ev \notin Undecodable
    /\ published' = [published EXCEPT ![ev] = @ + 1]
    /\ dashboard' = IF w \in Listening THEN dashboard \cup {ev} ELSE dashboard
    /\ worker' = [worker EXCEPT ![w] = [step |-> "processed",
                                        batch |-> worker[w].batch \ {ev}, ev |-> ev]]
    /\ UNCHANGED <<rows, struck>>

PublishFails(w, ev) ==
    /\ worker[w].step = "publish"
    /\ ev \in worker[w].batch
    /\ ev \in Undecodable
    /\ worker' = [worker EXCEPT ![w] = [step |-> "failed",
                                        batch |-> worker[w].batch \ {ev}, ev |-> ev]]
    /\ UNCHANGED <<rows, published, dashboard, struck>>

\* The next event of the batch, or the end of DrainOnce.
RestDropped(batch) == Idle
Rest(batch) == IF batch = {} THEN Idle ELSE [step |-> "publish", batch |-> batch]

MarkProcessed(w) ==
    /\ worker[w].step = "processed"
    /\ LET ev == worker[w].ev
       IN  rows' = [rows EXCEPT ![ev] =
               [status |-> "PROCESSED", attempts |-> rows[ev].attempts,
                created |-> rows[ev].created]]
    /\ worker' = [worker EXCEPT ![w] = Rest(worker[w].batch)]
    /\ UNCHANGED <<published, dashboard, struck>>

\* The status MarkFailed leaves, after the attempt it counts.
AfterFailureOneMore(attempts) == IF attempts > MaxAttempts THEN "FAILED" ELSE "PENDING"
AfterFailure(attempts) == IF attempts >= MaxAttempts THEN "FAILED" ELSE "PENDING"

MarkFailed(w) ==
    /\ worker[w].step = "failed"
    /\ LET ev == worker[w].ev
           attempts == rows[ev].attempts + 1
       IN  rows' = [rows EXCEPT ![ev] =
               [status |-> AfterFailure(attempts), attempts |-> attempts,
                created |-> rows[ev].created]]
    /\ worker' = [worker EXCEPT ![w] = Rest(worker[w].batch)]
    /\ UNCHANGED <<published, dashboard, struck>>

\* MarkProcessed or MarkFailed returns an error: DrainOnce logs it and goes on.
MarkError(w) ==
    /\ worker[w].step \in {"processed", "failed"}
    /\ struck' = struck \cup {worker[w].ev}
    /\ worker' = [worker EXCEPT ![w] = Rest(worker[w].batch)]
    /\ UNCHANGED <<rows, published, dashboard>>

\* The events a worker has claimed and not finished.
InHand(w) ==
    IF worker[w].step = "idle" THEN {}
    ELSE IF worker[w].step = "publish" THEN worker[w].batch
    ELSE worker[w].batch \cup {worker[w].ev}

\* The process dies, or its context is cancelled, with a batch in hand.
Crash(w) ==
    /\ worker[w] # Idle
    /\ struck' = struck \cup InHand(w)
    /\ worker' = [worker EXCEPT ![w] = Idle]
    /\ UNCHANGED <<rows, published, dashboard>>

Next ==
    \/ \E ev \in Events : Insert(ev)
    \/ \E w \in Workers :
          \/ FetchPendingBatch(w) \/ FetchLost(w)
          \/ \E ev \in Events : Publish(w, ev) \/ PublishFails(w, ev)
          \/ MarkProcessed(w) \/ MarkFailed(w) \/ MarkError(w)
          \/ Crash(w)

Spec == Init /\ [][Next]_vars

\* Every worker's ticker goes on, and DrainOnce runs on to the end of its
\* batch unless the process dies.
DrainStep(w) ==
    \/ \E ev \in Events : Publish(w, ev) \/ PublishFails(w, ev)
    \/ MarkProcessed(w) \/ MarkFailed(w)

FairSpec ==
    /\ Spec
    /\ \A w \in Workers : WF_vars(FetchPendingBatch(w)) /\ WF_vars(DrainStep(w))
-----------------------------------------------------------------------------
\* Two workers never have the same event, and what a worker has is PROCESSING:
\* the claim is one statement, and no other step gives a claimed row back.
ClaimsAreExclusive ==
    \A w \in Workers :
        /\ \A ev \in InHand(w) : rows[ev].status = "PROCESSING"
        /\ \A v \in Workers \ {w} : InHand(v) \cap InHand(w) = {}

\* A row is parked after exactly MaxAttempts failures, and a row that is not
\* parked has an attempt left: retries are bounded, however the workers and
\* the faults interleave.
RetriesAreBounded ==
    \A ev \in Events :
        /\ rows[ev].attempts <= MaxAttempts
        /\ rows[ev].status = "FAILED" <=> rows[ev].attempts = MaxAttempts

\* A PROCESSING row that no worker has any more got there by a fault.
StrandedOnlyByFault ==
    \A ev \in With("PROCESSING") :
        (\A w \in Workers : ev \notin InHand(w)) => ev \in struck

\* Each event goes through the abstract delivery: published once at most,
\* never after it was parked, and never parked after it was published.
Phase(ev) ==
    IF rows[ev].status = "NONE" THEN "absent"
    ELSE IF rows[ev].status = "FAILED" THEN "parked"
    ELSE IF published[ev] > 0 THEN "published" ELSE "queued"
Delivery == INSTANCE OutboxDelivery WITH
                phase <- [ev \in Events |-> Phase(ev)], sent <- published
ImplementsDelivery == Delivery!Spec

\* Every event is in the end processed or parked, unless a fault hits it.
Settled(ev) == rows[ev].status \in {"PROCESSED", "FAILED"}
SettlesUnlessStruck ==
    \A ev \in Events : rows[ev].status = "PENDING" ~> Settled(ev) \/ ev \in struck

\* Events are "already durably persisted before being republished onto this
\* bus by the outbox worker, so nothing is silently lost": every event is in
\* the end processed or parked.
NothingIsLost ==
    \A ev \in Events : rows[ev].status = "PENDING" ~> Settled(ev)

\* Running a second outbox worker in cmd/worker is safe: a processed event has
\* reached the dashboard.
ProcessedReachesDashboard == With("PROCESSED") \subseteq dashboard
=============================================================================
