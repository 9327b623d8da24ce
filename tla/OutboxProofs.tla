---------------------------- MODULE OutboxProofs ----------------------------
(***************************************************************************)
(* Proofs about Outbox, for any finite set of events, any number of        *)
(* workers, any batch size and any number of attempts.                     *)
(*                                                                         *)
(* The inductive invariant adds to the stated ones where a publication can *)
(* be: an event nobody has finished has not been published, except the one *)
(* a worker is about to mark as processed.                                 *)
(***************************************************************************)
EXTENDS Outbox, ArithmeticLemmas, TLAPS

\* What a worker has, in detail.
HandOK(w) ==
    /\ worker[w].step \in {"publish", "processed", "failed"} =>
           \A ev \in worker[w].batch : published[ev] = 0
    /\ worker[w].step \in {"processed", "failed"} => worker[w].ev \notin worker[w].batch
    /\ worker[w].step = "processed" => published[worker[w].ev] > 0
    /\ worker[w].step = "failed" => published[worker[w].ev] = 0

\* A row that can still be published, or was parked, has not been.
UnpublishedRows ==
    \A ev \in Events : rows[ev].status \in {"NONE", "PENDING", "FAILED"} => published[ev] = 0

IInv ==
    /\ TypeOK
    /\ ClaimsAreExclusive
    /\ RetriesAreBounded
    /\ StrandedOnlyByFault
    /\ UnpublishedRows
    /\ \A w \in Workers : HandOK(w)

\* An empty table and idle workers.
LEMMA InitIInv == Init => IInv
  <1> SUFFICES ASSUME Init PROVE IInv
    OBVIOUS
  <1>1. TypeOK
    BY DEF Init, TypeOK, RowType, Status, Worker
  <1>2. ClaimsAreExclusive /\ StrandedOnlyByFault /\ UnpublishedRows
    BY DEF Init, ClaimsAreExclusive, StrandedOnlyByFault, UnpublishedRows, InHand, With, Idle
  <1>3. RetriesAreBounded
    BY OutboxAssumption DEF Init, RetriesAreBounded
  <1>4. QED
    BY <1>1, <1>2, <1>3 DEF IInv, Init, HandOK, Idle

\* The fields of a worker that is draining a batch.
LEMMA WorkerTypes ==
  ASSUME TypeOK, NEW w \in Workers
  PROVE  /\ worker[w].step \in {"idle", "publish", "processed", "failed"}
         /\ worker[w].step = "idle" => worker[w] = Idle
         /\ worker[w].step # "idle" => worker[w].batch \subseteq Events
         /\ worker[w].step \in {"processed", "failed"} => worker[w].ev \in Events
         /\ InHand(w) \subseteq Events
  <1>1. worker[w] \in Worker
    BY DEF TypeOK
  <1>2. QED
    BY <1>1 DEF Worker, Idle, InHand

\* What DrainOnce goes on with.
LEMMA RestType ==
  ASSUME NEW batch \in SUBSET Events
  PROVE  /\ Rest(batch) \in Worker
         /\ Rest(batch).step \in {"idle", "publish"}
         /\ Rest(batch).step = "idle" => batch = {}
         /\ Rest(batch).step = "publish" => Rest(batch).batch = batch
  BY DEF Rest, Worker, Idle

\* A use case inserts a row in its own transaction.
LEMMA InsertStep ==
  ASSUME IInv, NEW ev \in Events, Insert(ev)
  PROVE  IInv'
  <1>1. PICK t \in 1 .. Cardinality(Events) :
          rows' = [rows EXCEPT ![ev] =
                     [status |-> "PENDING", attempts |-> 0, created |-> t]]
    BY DEF Insert
  <1> DEFINE row == [status |-> "PENDING", attempts |-> 0, created |-> t]
  <1>2. row \in RowType
    BY OutboxAssumption, FS_CardinalityType DEF RowType, Status
  <1>3. /\ rows' = [rows EXCEPT ![ev] = row]
        /\ rows[ev].status = "NONE"
        /\ UNCHANGED <<worker, published, dashboard, struck>>
    BY <1>1 DEF Insert
  <1>4. TypeOK'
    BY <1>2, <1>3 DEF IInv, TypeOK
  <1>5. /\ rows'[ev].status = "PENDING" /\ rows'[ev].attempts = 0
        /\ \A f \in Events \ {ev} : rows'[f] = rows[f]
    BY <1>3 DEF IInv, TypeOK
  <1>6. \A w \in Workers : ev \notin InHand(w)
    BY <1>3 DEF IInv, ClaimsAreExclusive
  <1>7. \A w \in Workers : InHand(w)' = InHand(w) /\ InHand(w) \subseteq Events
    BY <1>3, WorkerTypes DEF IInv, InHand
  <1>8. ClaimsAreExclusive'
    BY <1>5, <1>6, <1>7 DEF IInv, ClaimsAreExclusive
  <1>9. RetriesAreBounded'
    BY <1>5, OutboxAssumption DEF IInv, RetriesAreBounded
  <1>10. StrandedOnlyByFault'
    BY <1>3, <1>5, <1>7 DEF IInv, StrandedOnlyByFault, With
  <1>11. UnpublishedRows' /\ \A w \in Workers : HandOK(w)'
    BY <1>3, <1>5 DEF IInv, UnpublishedRows, HandOK
  <1>12. QED
    BY <1>4, <1>8, <1>9, <1>10, <1>11 DEF IInv

\* The claim moves pending rows, which no worker has, to PROCESSING.
LEMMA ClaimResult ==
  ASSUME IInv, Claim
  PROVE  /\ Claimed \subseteq Events
         /\ rows' \in [Events -> RowType]
         /\ \A ev \in Claimed : /\ rows[ev].status = "PENDING"
                                /\ rows'[ev].status = "PROCESSING"
                                /\ rows'[ev].attempts = rows[ev].attempts
         /\ \A ev \in Events \ Claimed : rows'[ev] = rows[ev]
         /\ \A w \in Workers : InHand(w) \cap Claimed = {}
  <1>1. Claimed \subseteq Events /\ \A ev \in Claimed : rows[ev].status = "PENDING"
    BY DEF Claimed, With
  <1>2. \A ev \in Events : rows[ev] \in RowType
    BY DEF IInv, TypeOK
  <1>3. \A ev \in Events :
          [status |-> "PROCESSING", attempts |-> rows[ev].attempts,
           created |-> rows[ev].created] \in RowType
    BY <1>2 DEF RowType, Status
  <1>4. rows' = [ev \in Events |->
          IF ev \in Claimed
          THEN [status |-> "PROCESSING", attempts |-> rows[ev].attempts,
                created |-> rows[ev].created]
          ELSE rows[ev]]
    BY DEF Claim
  <1>5. rows' \in [Events -> RowType]
    BY <1>2, <1>3, <1>4
  <1>6. \A w \in Workers : InHand(w) \cap Claimed = {}
    BY <1>1 DEF IInv, ClaimsAreExclusive
  <1>7. QED
    BY <1>1, <1>4, <1>5, <1>6

\* A worker takes the hand x; the others keep theirs.
LEMMA WorkerUpdate ==
  ASSUME TypeOK, NEW w \in Workers, NEW x \in Worker, worker' = [worker EXCEPT ![w] = x]
  PROVE  /\ worker' \in [Workers -> Worker]
         /\ worker'[w] = x
         /\ \A v \in Workers \ {w} : worker'[v] = worker[v] /\ InHand(v)' = InHand(v)
  BY DEF TypeOK, InHand

\* The claim: one statement turns rows to PROCESSING and hands them over.
LEMMA FetchStep ==
  ASSUME IInv, NEW w \in Workers, FetchPendingBatch(w)
  PROVE  IInv'
  <1> DEFINE x == [step |-> "publish", batch |-> Claimed]
  <1>1. Claim /\ worker[w] = Idle /\ worker' = [worker EXCEPT ![w] = x]
        /\ UNCHANGED <<published, dashboard, struck>>
    BY DEF FetchPendingBatch
  <1>2. /\ Claimed \subseteq Events
        /\ rows' \in [Events -> RowType]
        /\ \A ev \in Claimed : /\ rows[ev].status = "PENDING"
                               /\ rows'[ev].status = "PROCESSING"
                               /\ rows'[ev].attempts = rows[ev].attempts
        /\ \A ev \in Events \ Claimed : rows'[ev] = rows[ev]
        /\ \A v \in Workers : InHand(v) \cap Claimed = {}
    BY <1>1, ClaimResult
  <1>3. x \in Worker
    BY <1>2 DEF Worker
  <1>4. /\ worker' \in [Workers -> Worker]
        /\ worker'[w] = x
        /\ \A v \in Workers \ {w} : worker'[v] = worker[v] /\ InHand(v)' = InHand(v)
    BY <1>1, <1>3, WorkerUpdate DEF IInv
  <1>5. InHand(w)' = Claimed /\ InHand(w) = {}
    BY <1>1, <1>4 DEF InHand, Idle
  <1>6. \A v \in Workers : InHand(v) \subseteq Events
    BY WorkerTypes DEF IInv
  <1>7. TypeOK'
    BY <1>1, <1>2, <1>4 DEF IInv, TypeOK
  <1>8. ClaimsAreExclusive'
    BY <1>2, <1>4, <1>5, <1>6 DEF IInv, ClaimsAreExclusive
  <1>9. RetriesAreBounded'
    BY <1>2 DEF IInv, RetriesAreBounded
  <1>10. StrandedOnlyByFault'
    BY <1>1, <1>2, <1>4, <1>5 DEF IInv, StrandedOnlyByFault, With
  <1>11. UnpublishedRows'
    BY <1>1, <1>2 DEF IInv, UnpublishedRows
  <1>12. \A v \in Workers : HandOK(v)'
    BY <1>1, <1>2, <1>4 DEF IInv, UnpublishedRows, HandOK
  <1>13. QED
    BY <1>7, <1>8, <1>9, <1>10, <1>11, <1>12 DEF IInv

\* The claim commits and its answer is lost.
LEMMA FetchLostStep ==
  ASSUME IInv, NEW w \in Workers, FetchLost(w)
  PROVE  IInv'
  <1>1. Claim /\ UNCHANGED <<worker, published, dashboard>> /\ struck' = struck \cup Claimed
    BY DEF FetchLost
  <1>2. /\ Claimed \subseteq Events
        /\ rows' \in [Events -> RowType]
        /\ \A ev \in Claimed : /\ rows[ev].status = "PENDING"
                               /\ rows'[ev].status = "PROCESSING"
                               /\ rows'[ev].attempts = rows[ev].attempts
        /\ \A ev \in Events \ Claimed : rows'[ev] = rows[ev]
        /\ \A v \in Workers : InHand(v) \cap Claimed = {}
    BY <1>1, ClaimResult
  <1>3. \A v \in Workers : InHand(v)' = InHand(v) /\ InHand(v) \subseteq Events
    BY <1>1, WorkerTypes DEF IInv, InHand
  <1>4. TypeOK'
    BY <1>1, <1>2 DEF IInv, TypeOK
  <1>5. ClaimsAreExclusive' /\ RetriesAreBounded'
    BY <1>2, <1>3 DEF IInv, ClaimsAreExclusive, RetriesAreBounded
  <1>6. StrandedOnlyByFault'
    BY <1>1, <1>2, <1>3 DEF IInv, StrandedOnlyByFault, With
  <1>7. UnpublishedRows' /\ \A v \in Workers : HandOK(v)'
    BY <1>1, <1>2 DEF IInv, UnpublishedRows, HandOK
  <1>8. QED
    BY <1>4, <1>5, <1>6, <1>7 DEF IInv

\* A published row was claimed by this worker and never published before.
LEMMA PublishStep ==
  ASSUME IInv, NEW w \in Workers, NEW ev \in Events, Publish(w, ev)
  PROVE  IInv' /\ rows[ev].status = "PROCESSING" /\ published[ev] = 0
  <1> DEFINE x == [step |-> "processed", batch |-> worker[w].batch \ {ev}, ev |-> ev]
  <1>1. /\ worker[w].step = "publish" /\ ev \in worker[w].batch
        /\ worker' = [worker EXCEPT ![w] = x]
        /\ published' = [published EXCEPT ![ev] = @ + 1]
        /\ dashboard' \subseteq dashboard \cup {ev}
        /\ UNCHANGED <<rows, struck>>
    BY DEF Publish
  <1>2. worker[w].batch \subseteq Events /\ InHand(w) = worker[w].batch
    BY <1>1, WorkerTypes DEF IInv, InHand
  <1>3. x \in Worker
    BY <1>2 DEF Worker
  <1>4. /\ worker' \in [Workers -> Worker]
        /\ worker'[w] = x
        /\ \A v \in Workers \ {w} : worker'[v] = worker[v] /\ InHand(v)' = InHand(v)
    BY <1>1, <1>3, WorkerUpdate DEF IInv
  <1>5. InHand(w)' = InHand(w)
    BY <1>1, <1>2, <1>4 DEF InHand
  <1>6. rows[ev].status = "PROCESSING" /\ published[ev] = 0
    BY <1>1, <1>2 DEF IInv, ClaimsAreExclusive, HandOK
  <1>7. TypeOK'
    BY <1>1, <1>4 DEF IInv, TypeOK
  <1>8. /\ published'[ev] = 1
        /\ \A f \in Events \ {ev} : published'[f] = published[f]
    BY <1>1, <1>6 DEF IInv, TypeOK
  <1>9. ClaimsAreExclusive' /\ RetriesAreBounded'
    BY <1>1, <1>4, <1>5 DEF IInv, ClaimsAreExclusive, RetriesAreBounded
  <1>10. StrandedOnlyByFault'
    BY <1>1, <1>4, <1>5 DEF IInv, StrandedOnlyByFault, With
  <1>11. UnpublishedRows'
    BY <1>1, <1>6, <1>8 DEF IInv, UnpublishedRows
  <1>12. \A v \in Workers : HandOK(v)'
    <2>1. HandOK(w)'
      BY <1>1, <1>2, <1>4, <1>8 DEF IInv, HandOK
    <2>2. ASSUME NEW v \in Workers \ {w} PROVE HandOK(v)'
      <3>1. InHand(v) \subseteq Events \ {ev}
        BY <1>1, <1>2, WorkerTypes DEF IInv, ClaimsAreExclusive
      <3>2. \A f \in InHand(v) : published'[f] = published[f]
        BY <1>8, <3>1
      <3>3. HandOK(v) /\ worker'[v] = worker[v]
        BY <1>4 DEF IInv
      <3>4. QED
        BY <3>2, <3>3 DEF HandOK, InHand
    <2>3. QED
      BY <2>1, <2>2
  <1>13. QED
    BY <1>6, <1>7, <1>9, <1>10, <1>11, <1>12 DEF IInv

\* The event cannot be published; the row is still in hand.
LEMMA PublishFailsStep ==
  ASSUME IInv, NEW w \in Workers, NEW ev \in Events, PublishFails(w, ev)
  PROVE  IInv'
  <1> DEFINE x == [step |-> "failed", batch |-> worker[w].batch \ {ev}, ev |-> ev]
  <1>1. /\ worker[w].step = "publish" /\ ev \in worker[w].batch
        /\ worker' = [worker EXCEPT ![w] = x]
        /\ UNCHANGED <<rows, published, dashboard, struck>>
    BY DEF PublishFails
  <1>2. worker[w].batch \subseteq Events /\ InHand(w) = worker[w].batch
    BY <1>1, WorkerTypes DEF IInv, InHand
  <1>3. x \in Worker
    BY <1>2 DEF Worker
  <1>4. /\ worker' \in [Workers -> Worker]
        /\ worker'[w] = x
        /\ \A v \in Workers \ {w} : worker'[v] = worker[v] /\ InHand(v)' = InHand(v)
    BY <1>1, <1>3, WorkerUpdate DEF IInv
  <1>5. InHand(w)' = InHand(w)
    BY <1>1, <1>2, <1>4 DEF InHand
  <1>6. TypeOK'
    BY <1>1, <1>4 DEF IInv, TypeOK
  <1>7. ClaimsAreExclusive' /\ RetriesAreBounded' /\ UnpublishedRows'
    BY <1>1, <1>4, <1>5 DEF IInv, ClaimsAreExclusive, RetriesAreBounded, UnpublishedRows
  <1>8. StrandedOnlyByFault'
    BY <1>1, <1>4, <1>5 DEF IInv, StrandedOnlyByFault, With
  <1>9. \A v \in Workers : HandOK(v)'
    BY <1>1, <1>4 DEF IInv, HandOK
  <1>10. QED
    BY <1>6, <1>7, <1>8, <1>9 DEF IInv

\* A worker that has marked its event goes on with the rest of its batch.
LEMMA Finished ==
  ASSUME IInv, NEW w \in Workers, worker[w].step \in {"processed", "failed"},
         worker' = [worker EXCEPT ![w] = Rest(worker[w].batch)], published' = published
  PROVE  /\ worker[w].ev \in Events
         /\ worker' \in [Workers -> Worker]
         /\ InHand(w)' = InHand(w) \ {worker[w].ev}
         /\ worker[w].ev \in InHand(w)
         /\ rows[worker[w].ev].status = "PROCESSING"
         /\ \A v \in Workers \ {w} : InHand(v)' = InHand(v) /\ worker[w].ev \notin InHand(v)
         /\ \A v \in Workers : InHand(v) \subseteq Events /\ HandOK(v)'
  <1> DEFINE ev == worker[w].ev
             batch == worker[w].batch
  <1>1. ev \in Events /\ batch \subseteq Events /\ ev \notin batch
        /\ \A f \in batch : published[f] = 0
    BY WorkerTypes DEF IInv, HandOK
  <1>2. InHand(w) = batch \cup {ev}
    BY DEF InHand
  <1>3. /\ Rest(batch) \in Worker
        /\ Rest(batch).step \in {"idle", "publish"}
        /\ Rest(batch).step = "idle" => batch = {}
        /\ Rest(batch).step = "publish" => Rest(batch).batch = batch
    BY <1>1, RestType
  <1>4. /\ worker' \in [Workers -> Worker]
        /\ worker'[w] = Rest(batch)
        /\ \A v \in Workers \ {w} : worker'[v] = worker[v] /\ InHand(v)' = InHand(v)
    BY <1>3, WorkerUpdate DEF IInv
  <1>5. InHand(w)' = batch
    BY <1>3, <1>4 DEF InHand
  <1>6. \A v \in Workers \ {w} : ev \notin InHand(v)
    BY <1>2 DEF IInv, ClaimsAreExclusive
  <1>7. rows[ev].status = "PROCESSING"
    BY <1>2 DEF IInv, ClaimsAreExclusive
  <1>8. HandOK(w)'
    BY <1>1, <1>3, <1>4 DEF HandOK
  <1>9. \A v \in Workers \ {w} : HandOK(v)'
    BY <1>4 DEF IInv, HandOK
  <1>10. \A v \in Workers : InHand(v) \subseteq Events
    BY WorkerTypes DEF IInv
  <1>11. QED
    BY <1>1, <1>2, <1>4, <1>5, <1>6, <1>7, <1>8, <1>9, <1>10

\* Marking replaces the row of an event that no worker has any more.
LEMMA MarkStep ==
  ASSUME IInv, NEW w \in Workers, worker[w].step \in {"processed", "failed"},
         worker' = [worker EXCEPT ![w] = Rest(worker[w].batch)],
         NEW row \in RowType, rows' = [rows EXCEPT ![worker[w].ev] = row],
         row.status # "PROCESSING",
         row.attempts <= MaxAttempts,
         row.status = "FAILED" <=> row.attempts = MaxAttempts,
         row.status \in {"NONE", "PENDING", "FAILED"} => worker[w].step = "failed",
         UNCHANGED <<published, dashboard, struck>>
  PROVE  IInv'
  <1> DEFINE ev == worker[w].ev
  <1>1. /\ ev \in Events
        /\ worker' \in [Workers -> Worker]
        /\ InHand(w)' = InHand(w) \ {ev}
        /\ \A v \in Workers \ {w} : InHand(v)' = InHand(v) /\ ev \notin InHand(v)
        /\ \A v \in Workers : InHand(v) \subseteq Events /\ HandOK(v)'
    BY Finished
  <1>2. TypeOK'
    BY <1>1 DEF IInv, TypeOK
  <1>3. rows'[ev] = row /\ \A f \in Events \ {ev} : rows'[f] = rows[f]
    BY <1>1 DEF IInv, TypeOK
  <1>4. ClaimsAreExclusive'
    BY <1>1, <1>3 DEF IInv, ClaimsAreExclusive
  <1>5. RetriesAreBounded'
    BY <1>1, <1>3 DEF IInv, RetriesAreBounded
  <1>6. StrandedOnlyByFault'
    BY <1>1, <1>3 DEF IInv, StrandedOnlyByFault, With
  <1>7. UnpublishedRows'
    BY <1>1, <1>3 DEF IInv, UnpublishedRows, HandOK
  <1>8. QED
    BY <1>1, <1>2, <1>4, <1>5, <1>6, <1>7 DEF IInv

\* The mark after a publication.
LEMMA MarkProcessedStep ==
  ASSUME IInv, NEW w \in Workers, MarkProcessed(w)
  PROVE  IInv'
  <1> DEFINE ev == worker[w].ev
             row == [status |-> "PROCESSED", attempts |-> rows[ev].attempts,
                     created |-> rows[ev].created]
  <1>1. /\ worker[w].step = "processed"
        /\ rows' = [rows EXCEPT ![ev] = row]
        /\ worker' = [worker EXCEPT ![w] = Rest(worker[w].batch)]
        /\ UNCHANGED <<published, dashboard, struck>>
    BY DEF MarkProcessed
  <1>2. ev \in Events /\ rows[ev].status = "PROCESSING"
    BY <1>1, Finished
  <1>3. rows[ev] \in RowType
    BY <1>2 DEF IInv, TypeOK
  <1>4. row \in RowType
    BY <1>3 DEF RowType, Status
  <1>5. row.attempts <= MaxAttempts /\ row.attempts # MaxAttempts
    BY <1>2 DEF IInv, RetriesAreBounded
  <1>6. QED
    BY <1>1, <1>4, <1>5, MarkStep

\* The mark after a failure: PENDING again, or FAILED at the last attempt.
LEMMA MarkFailedStep ==
  ASSUME IInv, NEW w \in Workers, MarkFailed(w)
  PROVE  IInv'
  <1> DEFINE ev == worker[w].ev
             attempts == rows[ev].attempts + 1
             row == [status |-> AfterFailure(attempts), attempts |-> attempts,
                     created |-> rows[ev].created]
  <1>1. /\ worker[w].step = "failed"
        /\ rows' = [rows EXCEPT ![ev] = row]
        /\ worker' = [worker EXCEPT ![w] = Rest(worker[w].batch)]
        /\ UNCHANGED <<published, dashboard, struck>>
    BY DEF MarkFailed
  <1>2. ev \in Events /\ rows[ev].status = "PROCESSING"
    BY <1>1, Finished
  <1>3. rows[ev] \in RowType
    BY <1>2 DEF IInv, TypeOK
  <1>4. row \in RowType
    BY <1>3 DEF RowType, Status, AfterFailure
  <1>5. rows[ev].attempts \in Nat /\ rows[ev].attempts < MaxAttempts
    BY <1>2, <1>3, OutboxAssumption DEF IInv, RetriesAreBounded, RowType
  <1>6. /\ row.attempts <= MaxAttempts
        /\ row.status = "FAILED" <=> row.attempts = MaxAttempts
        /\ row.status # "PROCESSING"
    BY <1>5, OutboxAssumption DEF AfterFailure
  <1>7. QED
    BY <1>1, <1>4, <1>6, MarkStep

\* A mark that fails is logged and forgotten.
LEMMA MarkErrorStep ==
  ASSUME IInv, NEW w \in Workers, MarkError(w)
  PROVE  IInv'
  <1> DEFINE ev == worker[w].ev
  <1>1. /\ worker[w].step \in {"processed", "failed"}
        /\ worker' = [worker EXCEPT ![w] = Rest(worker[w].batch)]
        /\ struck' = struck \cup {ev}
        /\ UNCHANGED <<rows, published, dashboard>>
    BY DEF MarkError
  <1>2. /\ ev \in Events
        /\ worker' \in [Workers -> Worker]
        /\ InHand(w)' = InHand(w) \ {ev}
        /\ \A v \in Workers \ {w} : InHand(v)' = InHand(v) /\ ev \notin InHand(v)
        /\ \A v \in Workers : HandOK(v)'
    BY <1>1, Finished
  <1>3. TypeOK'
    BY <1>1, <1>2 DEF IInv, TypeOK
  <1>4. ClaimsAreExclusive' /\ RetriesAreBounded' /\ UnpublishedRows'
    BY <1>1, <1>2 DEF IInv, ClaimsAreExclusive, RetriesAreBounded, UnpublishedRows
  <1>5. StrandedOnlyByFault'
    BY <1>1, <1>2 DEF IInv, StrandedOnlyByFault, With
  <1>6. QED
    BY <1>2, <1>3, <1>4, <1>5 DEF IInv

\* A worker dies with its batch in hand.
LEMMA CrashStep ==
  ASSUME IInv, NEW w \in Workers, Crash(w)
  PROVE  IInv'
  <1>1. /\ worker' = [worker EXCEPT ![w] = Idle]
        /\ struck' = struck \cup InHand(w)
        /\ UNCHANGED <<rows, published, dashboard>>
    BY DEF Crash
  <1>2. Idle \in Worker
    BY DEF Worker
  <1>3. /\ worker' \in [Workers -> Worker]
        /\ worker'[w] = Idle
        /\ \A v \in Workers \ {w} : worker'[v] = worker[v] /\ InHand(v)' = InHand(v)
    BY <1>1, <1>2, WorkerUpdate DEF IInv
  <1>4. InHand(w)' = {} /\ InHand(w) \subseteq Events
    BY <1>3, WorkerTypes DEF IInv, InHand, Idle
  <1>5. TypeOK'
    BY <1>1, <1>3, <1>4 DEF IInv, TypeOK
  <1>6. ClaimsAreExclusive' /\ RetriesAreBounded' /\ UnpublishedRows'
    BY <1>1, <1>3, <1>4 DEF IInv, ClaimsAreExclusive, RetriesAreBounded, UnpublishedRows
  <1>7. StrandedOnlyByFault'
    BY <1>1, <1>3, <1>4 DEF IInv, StrandedOnlyByFault, With
  <1>8. \A v \in Workers : HandOK(v)'
    BY <1>1, <1>3 DEF IInv, HandOK, Idle
  <1>9. QED
    BY <1>5, <1>6, <1>7, <1>8 DEF IInv

\* Every step of every worker keeps the invariant.
LEMMA InvStep == IInv /\ [Next]_vars => IInv'
  <1> SUFFICES ASSUME IInv, [Next]_vars PROVE IInv'
    OBVIOUS
  <1>1. ASSUME NEW ev \in Events, Insert(ev) PROVE IInv'
    BY <1>1, InsertStep
  <1>2. ASSUME NEW w \in Workers, FetchPendingBatch(w) \/ FetchLost(w) PROVE IInv'
    BY <1>2, FetchStep, FetchLostStep
  <1>3. ASSUME NEW w \in Workers, NEW ev \in Events, Publish(w, ev) \/ PublishFails(w, ev)
        PROVE  IInv'
    BY <1>3, PublishStep, PublishFailsStep
  <1>4. ASSUME NEW w \in Workers,
               MarkProcessed(w) \/ MarkFailed(w) \/ MarkError(w) \/ Crash(w)
        PROVE  IInv'
    BY <1>4, MarkProcessedStep, MarkFailedStep, MarkErrorStep, CrashStep
  <1>5. CASE UNCHANGED vars
    BY <1>5
    DEF vars, IInv, TypeOK, ClaimsAreExclusive, RetriesAreBounded, StrandedOnlyByFault,
        UnpublishedRows, HandOK, InHand, With
  <1>6. QED
    BY <1>1, <1>2, <1>3, <1>4, <1>5 DEF Next

\* The invariant holds always.
LEMMA Invariance == Spec => []IInv
  <1>1. Init => IInv
    BY InitIInv
  <1>2. IInv /\ [Next]_vars => IInv'
    BY InvStep
  <1>3. QED
    BY <1>1, <1>2, PTL DEF Spec
-----------------------------------------------------------------------------
\* Rows, batches and counters stay well formed.
THEOREM TypeCorrect == Spec => []TypeOK
  <1>1. IInv => TypeOK
    BY DEF IInv
  <1>2. QED
    BY <1>1, Invariance, PTL

\* No event is ever claimed by two workers, for any number of workers.
THEOREM ClaimIsExclusive == Spec => []ClaimsAreExclusive
  <1>1. IInv => ClaimsAreExclusive
    BY DEF IInv
  <1>2. QED
    BY <1>1, Invariance, PTL

\* An event is parked after exactly MaxAttempts failures.
THEOREM RetryBound == Spec => []RetriesAreBounded
  <1>1. IInv => RetriesAreBounded
    BY DEF IInv
  <1>2. QED
    BY <1>1, Invariance, PTL

\* Without a fault no event is stranded in PROCESSING.
THEOREM NoStrandingWithoutFault == Spec => []StrandedOnlyByFault
  <1>1. IInv => StrandedOnlyByFault
    BY DEF IInv
  <1>2. QED
    BY <1>1, Invariance, PTL

\* Outbox implements OutboxDelivery: at most one publication per event, none
\* of a parked one, across workers, retries and crashes.
THEOREM OutboxImplementsDelivery == Spec => ImplementsDelivery
  <1> DEFINE phase == [ev \in Events |-> Phase(ev)]
  <1>1. Init => Delivery!Init
    BY DEF Init, Delivery!Init, Phase
  <1>2. ASSUME IInv, [Next]_vars PROVE [Delivery!Next]_(Delivery!vars)
    <2>1. ASSUME NEW ev \in Events, Insert(ev) PROVE Delivery!Next
      <3>1. /\ rows'[ev].status = "PENDING" /\ rows[ev].status = "NONE"
            /\ \A f \in Events \ {ev} : rows'[f] = rows[f]
            /\ published' = published
        BY <1>2, <2>1 DEF IInv, TypeOK, Insert
      <3>2. published[ev] = 0
        BY <1>2, <3>1 DEF IInv, UnpublishedRows
      <3>3. phase' = [phase EXCEPT ![ev] = "queued"] /\ phase[ev] = "absent"
        <4>1. Phase(ev)' = "queued" /\ Phase(ev) = "absent"
          BY <3>1, <3>2 DEF Phase
        <4>2. \A f \in Events \ {ev} : Phase(f)' = Phase(f)
          BY <3>1, <3>2 DEF Phase
        <4>3. QED
          BY <4>1, <4>2
      <3>4. Delivery!Record(ev)
        BY <3>1, <3>3 DEF Delivery!Record
      <3>5. QED
        BY <3>4 DEF Delivery!Next
    <2>2. ASSUME NEW w \in Workers, FetchPendingBatch(w) \/ FetchLost(w)
          PROVE  UNCHANGED Delivery!vars
      <3>1. Claim /\ published' = published
        BY <2>2 DEF FetchPendingBatch, FetchLost
      <3>2. \A ev \in Events : Phase(ev)' = Phase(ev)
        BY <1>2, <3>1, ClaimResult DEF Phase
      <3>3. QED
        BY <3>1, <3>2 DEF Delivery!vars
    <2>3. ASSUME NEW w \in Workers, NEW ev \in Events, Publish(w, ev)
          PROVE  Delivery!Next
      <3>1. rows[ev].status = "PROCESSING" /\ published[ev] = 0
        BY <1>2, <2>3, PublishStep
      <3>2. rows' = rows /\ published' = [published EXCEPT ![ev] = @ + 1]
        BY <2>3 DEF Publish
      <3>3. /\ published'[ev] = 1
            /\ \A f \in Events \ {ev} : published'[f] = published[f]
        BY <1>2, <3>1, <3>2 DEF IInv, TypeOK
      <3>4. phase' = [phase EXCEPT ![ev] = "published"] /\ phase[ev] = "queued"
        <4>1. Phase(ev)' = "published" /\ Phase(ev) = "queued"
          BY <3>1, <3>2, <3>3 DEF Phase
        <4>2. \A f \in Events \ {ev} : Phase(f)' = Phase(f)
          BY <3>1, <3>2, <3>3 DEF Phase
        <4>3. QED
          BY <4>1, <4>2
      <3>5. Delivery!Publish(ev)
        BY <3>2, <3>4 DEF Delivery!Publish
      <3>6. QED
        BY <3>5 DEF Delivery!Next
    <2>4. ASSUME NEW w \in Workers,
                 MarkError(w) \/ Crash(w) \/ \E ev \in Events : PublishFails(w, ev)
          PROVE  UNCHANGED Delivery!vars
      BY <2>4 DEF MarkError, Crash, PublishFails, Delivery!vars, Phase
    <2>5. ASSUME NEW w \in Workers, MarkProcessed(w) PROVE UNCHANGED Delivery!vars
      <3> DEFINE ev == worker[w].ev
      <3>1. ev \in Events /\ rows[ev].status = "PROCESSING" /\ published[ev] > 0
        <4>1. /\ worker[w].step = "processed" /\ published' = published
              /\ worker' = [worker EXCEPT ![w] = Rest(worker[w].batch)]
          BY <2>5 DEF MarkProcessed
        <4>2. ev \in Events /\ rows[ev].status = "PROCESSING"
          BY <1>2, <4>1, Finished
        <4>3. HandOK(w)
          BY <1>2 DEF IInv
        <4>4. QED
          BY <4>1, <4>2, <4>3 DEF HandOK
      <3>2. /\ published' = published
            /\ rows'[ev].status = "PROCESSED"
            /\ \A f \in Events \ {ev} : rows'[f] = rows[f]
        BY <1>2, <2>5, <3>1 DEF IInv, TypeOK, MarkProcessed
      <3>3. \A f \in Events : Phase(f)' = Phase(f)
        BY <3>1, <3>2 DEF Phase
      <3>4. QED
        BY <3>2, <3>3 DEF Delivery!vars
    <2>6. ASSUME NEW w \in Workers, MarkFailed(w)
          PROVE  Delivery!Next \/ UNCHANGED Delivery!vars
      <3> DEFINE ev == worker[w].ev
      <3>1. ev \in Events /\ rows[ev].status = "PROCESSING" /\ published[ev] = 0
        <4>1. /\ worker[w].step = "failed" /\ published' = published
              /\ worker' = [worker EXCEPT ![w] = Rest(worker[w].batch)]
          BY <2>6 DEF MarkFailed
        <4>2. ev \in Events /\ rows[ev].status = "PROCESSING"
          BY <1>2, <4>1, Finished
        <4>3. HandOK(w)
          BY <1>2 DEF IInv
        <4>4. QED
          BY <4>1, <4>2, <4>3 DEF HandOK
      <3>2. /\ published' = published
            /\ rows'[ev].status \in {"PENDING", "FAILED"}
            /\ \A f \in Events \ {ev} : rows'[f] = rows[f]
        BY <1>2, <2>6, <3>1 DEF IInv, TypeOK, MarkFailed, AfterFailure
      <3>3. CASE rows'[ev].status = "PENDING"
        <4>1. \A f \in Events : Phase(f)' = Phase(f)
          BY <3>1, <3>2, <3>3 DEF Phase
        <4>2. QED
          BY <3>2, <4>1 DEF Delivery!vars
      <3>4. CASE rows'[ev].status = "FAILED"
        <4>1. phase' = [phase EXCEPT ![ev] = "parked"] /\ phase[ev] = "queued"
          BY <3>1, <3>2, <3>4 DEF Phase
        <4>2. Delivery!Park(ev)
          BY <3>2, <4>1 DEF Delivery!Park
        <4>3. QED
          BY <3>1, <4>2 DEF Delivery!Next
      <3>5. QED
        BY <3>2, <3>3, <3>4
    <2>7. CASE UNCHANGED vars
      BY <2>7 DEF vars, Delivery!vars, Phase
    <2>8. QED
      BY <1>2, <2>1, <2>2, <2>3, <2>4, <2>5, <2>6, <2>7 DEF Next
  <1>3. QED
    BY <1>1, <1>2, Invariance, PTL DEF Spec, ImplementsDelivery, Delivery!Spec
-----------------------------------------------------------------------------
(* Why every event settles: the parts of SettlesUnlessStruck that are not  *)
(* about fairness.                                                         *)

\* How many changes of its row an event has before it at most.
StepsLeft(ev) ==
    2 * (MaxAttempts - rows[ev].attempts)
      + (IF rows[ev].status = "PENDING" THEN 2
         ELSE IF rows[ev].status = "PROCESSING" THEN 1 ELSE 0)

\* No statement of any worker sets an event back: each one leaves its row alone
\* or brings it nearer to the end.
NoRowGoesBack ==
    \A ev \in Events :
        rows[ev].status # "NONE" => rows'[ev] = rows[ev] \/ StepsLeft(ev)' < StepsLeft(ev)

\* How many steps a worker has before it, to the end of its batch.
DrainLeft(w) ==
    IF worker[w] = Idle THEN 0
    ELSE 2 * Cardinality(worker[w].batch) + (IF worker[w].step = "publish" THEN 1 ELSE 2)

\* Nobody makes a worker's batch longer while it drains it.
NoDrainGoesBack ==
    \A w \in Workers :
        worker[w] # Idle => worker'[w] = worker[w] \/ DrainLeft(w)' < DrainLeft(w)

\* There is always something to do: the oldest pending row is within any batch,
\* and a worker that is to publish has something to publish.
NeverStuck ==
    /\ With("PENDING") # {} => Claimed # {}
    /\ \A w \in Workers : worker[w].step = "publish" => worker[w].batch # {}

\* The claim turns rows from PENDING to PROCESSING and touches no other.
LEMMA ClaimMoves ==
  ASSUME IInv, Claim
  PROVE  NoRowGoesBack
  <1> SUFFICES ASSUME NEW ev \in Events
               PROVE  rows'[ev] = rows[ev] \/ StepsLeft(ev)' < StepsLeft(ev)
    BY DEF NoRowGoesBack
  <1>1. rows[ev].attempts \in Nat /\ MaxAttempts \in Nat
    BY OutboxAssumption DEF IInv, TypeOK, RowType
  <1>2. CASE ev \in Claimed
    <2>1. rows[ev].status = "PENDING"
      BY <1>2 DEF Claimed, With
    <2>2. rows'[ev].status = "PROCESSING" /\ rows'[ev].attempts = rows[ev].attempts
      BY <1>2 DEF Claim
    <2>3. QED
      BY <1>1, <2>1, <2>2 DEF StepsLeft
  <1>3. CASE ev \notin Claimed
    BY <1>3 DEF Claim
  <1>4. QED
    BY <1>2, <1>3

\* fetchPendingBatchQuery, MarkProcessed and MarkFailed, for any number of
\* workers, attempts and faults: the row of an event changes finitely often, 2
\* times MaxAttempts and 2 more at most, and never back.
THEOREM RetriesRunOut ==
    Spec => [](\A ev \in Events : StepsLeft(ev) \in Nat) /\ [][NoRowGoesBack]_vars
  <1>1. IInv => \A ev \in Events : StepsLeft(ev) \in Nat
    <2> SUFFICES ASSUME IInv, NEW ev \in Events
                 PROVE  StepsLeft(ev) \in Nat
      OBVIOUS
    <2>1. rows[ev].attempts \in Nat /\ MaxAttempts \in Nat /\ rows[ev].attempts <= MaxAttempts
      BY OutboxAssumption DEF IInv, TypeOK, RowType, RetriesAreBounded
    <2>2. QED
      BY <2>1 DEF StepsLeft
  <1>2. ASSUME IInv, [Next]_vars
        PROVE  [NoRowGoesBack]_vars
    <2>1. MaxAttempts \in Nat /\ rows \in [Events -> RowType]
      BY <1>2, OutboxAssumption DEF IInv, TypeOK
    <2>2. ASSUME NEW ev \in Events, Insert(ev)
          PROVE  NoRowGoesBack
      BY <2>1, <2>2 DEF Insert, NoRowGoesBack
    <2>3. ASSUME NEW w \in Workers, FetchPendingBatch(w) \/ FetchLost(w)
          PROVE  NoRowGoesBack
      BY <1>2, <2>3, ClaimMoves DEF FetchPendingBatch, FetchLost
    <2>4. ASSUME NEW w \in Workers, MarkProcessed(w) \/ MarkFailed(w)
          PROVE  NoRowGoesBack
      <3>1. PICK ev \in Events : ev = worker[w].ev /\ ev \in InHand(w)
        BY <1>2, <2>4, WorkerTypes DEF IInv, MarkProcessed, MarkFailed, InHand
      <3>2. rows[ev].status = "PROCESSING" /\ rows[ev].attempts \in Nat
        BY <1>2, <2>1, <3>1 DEF IInv, ClaimsAreExclusive, RowType
      <3>3. \A f \in Events \ {ev} : rows'[f] = rows[f]
        BY <2>1, <2>4, <3>1 DEF MarkProcessed, MarkFailed
      <3>4. StepsLeft(ev)' < StepsLeft(ev)
        <4>1. CASE MarkProcessed(w)
          <5>1. rows'[ev].status = "PROCESSED" /\ rows'[ev].attempts = rows[ev].attempts
            BY <2>1, <3>1, <4>1 DEF MarkProcessed
          <5>2. QED
            BY <2>1, <3>2, <5>1 DEF StepsLeft
        <4>2. CASE MarkFailed(w)
          <5>1. /\ rows'[ev].status \in {"PENDING", "FAILED"}
                /\ rows'[ev].attempts = rows[ev].attempts + 1
            BY <2>1, <3>1, <4>2 DEF MarkFailed, AfterFailure
          <5>2. QED
            BY <2>1, <3>2, <5>1 DEF StepsLeft
        <4>3. QED
          BY <2>4, <4>1, <4>2
      <3>5. QED
        BY <3>1, <3>3, <3>4 DEF NoRowGoesBack
    <2>5. CASE UNCHANGED rows
      BY <2>5 DEF NoRowGoesBack
    <2>6. QED
      BY <1>2, <2>2, <2>3, <2>4, <2>5 DEF Next, vars, Publish, PublishFails, MarkError, Crash
  <1>3. QED
    BY <1>1, <1>2, Invariance, PTL DEF Spec
\* What DrainOnce goes on with is nearer to the end.
LEMMA RestLess ==
  ASSUME NEW batch, IsFiniteSet(batch), NEW w \in Workers, worker \in [Workers -> Worker],
         worker' = [worker EXCEPT ![w] = Rest(batch)]
  PROVE  DrainLeft(w)' \in Nat /\ DrainLeft(w)' < 2 * Cardinality(batch) + 2
  <1>1. Cardinality(batch) \in Nat
    BY FS_CardinalityType
  <1>2. worker'[w] = Rest(batch)
    OBVIOUS
  <1>3. CASE batch = {}
    BY <1>1, <1>2, <1>3 DEF Rest, DrainLeft
  <1>4. CASE batch # {}
    <2>1. worker'[w].step = "publish" /\ worker'[w].batch = batch /\ worker'[w] # Idle
      BY <1>2, <1>4 DEF Rest, Idle
    <2>2. QED
      BY <1>1, <2>1 DEF DrainLeft
  <1>5. QED
    BY <1>3, <1>4

\* DrainOnce, for any batch size: it runs through what it has claimed, and
\* neither a failed publication nor a failed mark starts it over.
THEOREM DrainsRunOut ==
    Spec => [](\A w \in Workers : DrainLeft(w) \in Nat) /\ [][NoDrainGoesBack]_vars
  <1>1. ASSUME IInv, NEW w \in Workers
        PROVE  /\ worker[w] = Idle \/ IsFiniteSet(worker[w].batch)
               /\ worker[w] = Idle \/ Cardinality(worker[w].batch) \in Nat
    <2>1. worker[w].step # "idle" => worker[w].batch \subseteq Events
      BY <1>1, WorkerTypes DEF IInv
    <2>2. worker[w].step = "idle" => worker[w] = Idle
      BY <1>1, WorkerTypes DEF IInv
    <2>3. QED
      BY <2>1, <2>2, OutboxAssumption, FS_Subset, FS_CardinalityType
  <1>2. IInv => \A w \in Workers : DrainLeft(w) \in Nat
    BY <1>1 DEF DrainLeft
  <1>3. ASSUME IInv, [Next]_vars
        PROVE  [NoDrainGoesBack]_vars
    <2>1. worker \in [Workers -> Worker]
      BY <1>3 DEF IInv, TypeOK
    <2>2. ASSUME NEW w \in Workers, \A v \in Workers \ {w} : worker'[v] = worker[v],
                 worker[w] # Idle => worker'[w] = worker[w] \/ DrainLeft(w)' < DrainLeft(w)
          PROVE  NoDrainGoesBack
      BY <2>2 DEF NoDrainGoesBack
    <2>3. ASSUME NEW w \in Workers, FetchPendingBatch(w)
          PROVE  NoDrainGoesBack
      BY <2>1, <2>2, <2>3 DEF FetchPendingBatch
    <2>4. ASSUME NEW w \in Workers, NEW ev \in Events, Publish(w, ev) \/ PublishFails(w, ev)
          PROVE  NoDrainGoesBack
      <3>1. PICK batch : batch = worker[w].batch
        OBVIOUS
      <3>2. /\ worker[w].step = "publish" /\ worker[w] # Idle /\ ev \in batch
            /\ worker'[w].step \in {"processed", "failed"} /\ worker'[w].batch = batch \ {ev}
            /\ worker'[w] # Idle /\ \A v \in Workers \ {w} : worker'[v] = worker[v]
        BY <2>1, <2>4, <3>1 DEF Publish, PublishFails, Idle
      <3>3. IsFiniteSet(batch) /\ Cardinality(batch) \in Nat
        BY <1>1, <1>3, <3>1, <3>2
      <3>4. Cardinality(batch \ {ev}) = Cardinality(batch) - 1
        BY <3>2, <3>3, FS_RemoveElement
      <3>5. DrainLeft(w) = 2 * Cardinality(batch) + 1
        BY <3>1, <3>2 DEF DrainLeft
      <3>6. DrainLeft(w)' = 2 * Cardinality(batch \ {ev}) + 2
        BY <3>2 DEF DrainLeft
      <3>7. DrainLeft(w)' < DrainLeft(w)
        BY <3>3, <3>4, <3>5, <3>6
      <3>8. QED
        BY <2>2, <3>2, <3>7
    <2>5. ASSUME NEW w \in Workers, MarkProcessed(w) \/ MarkFailed(w) \/ MarkError(w)
          PROVE  NoDrainGoesBack
      <3>1. PICK batch : batch = worker[w].batch
        OBVIOUS
      <3>2. /\ worker[w].step \in {"processed", "failed"} /\ worker[w] # Idle
            /\ worker' = [worker EXCEPT ![w] = Rest(batch)]
            /\ \A v \in Workers \ {w} : worker'[v] = worker[v]
        BY <2>1, <2>5, <3>1 DEF MarkProcessed, MarkFailed, MarkError, Idle
      <3>3. IsFiniteSet(batch)
        BY <1>1, <1>3, <3>1, <3>2
      <3>4. DrainLeft(w) = 2 * Cardinality(batch) + 2
        BY <3>1, <3>2 DEF DrainLeft
      <3>5. DrainLeft(w)' < 2 * Cardinality(batch) + 2
        BY <2>1, <3>2, <3>3, RestLess
      <3>6. QED
        BY <2>2, <3>2, <3>4, <3>5
    <2>6. ASSUME NEW w \in Workers, Crash(w)
          PROVE  NoDrainGoesBack
      <3>1. worker[w] # Idle /\ worker'[w] = Idle /\ \A v \in Workers \ {w} : worker'[v] = worker[v]
        BY <2>1, <2>6 DEF Crash
      <3>2. DrainLeft(w)' = 0
        BY <3>1 DEF DrainLeft
      <3>3. DrainLeft(w) > 0
        BY <1>1, <1>3, <3>1 DEF DrainLeft
      <3>4. QED
        BY <2>2, <3>1, <3>2, <3>3
    <2>7. CASE UNCHANGED worker
      BY <2>7 DEF NoDrainGoesBack
    <2>8. QED
      BY <1>3, <2>3, <2>4, <2>5, <2>6, <2>7 DEF Next, vars, Insert, FetchLost
  <1>4. QED
    BY <1>2, <1>3, Invariance, PTL DEF Spec

\* Among finitely many rows one is the oldest.
LEMMA OldestExists ==
  ASSUME NEW S, S # {}, S \subseteq Events, rows \in [Events -> RowType]
  PROVE  \E ev \in S : \A f \in S : ~ (rows[f].created < rows[ev].created)
  <1> DEFINE Younger(T) == T # {} => \E ev \in T : \A f \in T : ~ (rows[f].created < rows[ev].created)
             Good == {T \in SUBSET Events : Younger(T)}
  <1>1. ASSUME NEW T \in SUBSET Events, \A U \in SUBSET T : U # T => U \in Good
        PROVE  T \in Good
    <2> SUFFICES ASSUME NEW x \in T PROVE Younger(T)
      OBVIOUS
    <2>1. \A f \in T : rows[f].created \in Nat
      BY DEF RowType
    <2>2. CASE T = {x}
      BY <2>1, <2>2
    <2>3. CASE T # {x}
      <3>1. T \ {x} \in Good /\ T \ {x} # {}
        BY <1>1, <2>3
      <3>2. PICK y \in T \ {x} : \A f \in T \ {x} : ~ (rows[f].created < rows[y].created)
        BY <3>1
      <3>3. CASE rows[x].created < rows[y].created
        <4>1. \A f \in T : ~ (rows[f].created < rows[x].created)
          BY <2>1, <3>2, <3>3
        <4>2. QED
          BY <4>1
      <3>4. CASE ~ (rows[x].created < rows[y].created)
        <4>1. \A f \in T : ~ (rows[f].created < rows[y].created)
          BY <3>2, <3>4
        <4>2. QED
          BY <4>1
      <3>5. QED
        BY <3>3, <3>4
    <2>4. QED
      BY <2>2, <2>3
  <1>2. S \in Good
    <2> HIDE DEF Good
    <2>1. QED
      BY <1>1, OutboxAssumption, SubsetInduction
  <1>3. QED
    BY <1>2

\* The worker's loop, for any batch size of at least one: as long as a row is
\* PENDING the claim finds rows, and a batch in hand is never empty.
THEOREM OutboxNeverStuck == Spec => []NeverStuck
  <1> DEFINE Busy == \A w \in Workers : worker[w].step = "publish" => worker[w].batch # {}
  <1>1. ASSUME IInv, With("PENDING") # {}
        PROVE  Claimed # {}
    <2>1. PICK ev \in With("PENDING") :
              \A f \in With("PENDING") : ~ (rows[f].created < rows[ev].created)
      BY <1>1, OldestExists DEF IInv, TypeOK, With
    <2>2. {f \in With("PENDING") : rows[f].created < rows[ev].created} = {}
      BY <2>1
    <2>3. Cardinality({}) < BatchSize
      BY FS_EmptySet, OutboxAssumption
    <2>4. QED
      BY <2>1, <2>2, <2>3 DEF Claimed
  <1>2. Init => Busy
    BY DEF Init, Idle
  <1>3. ASSUME IInv, Busy, [Next]_vars
        PROVE  Busy'
    <2>1. worker \in [Workers -> Worker]
      BY <1>3 DEF IInv, TypeOK
    <2>2. ASSUME NEW w \in Workers, NEW to, worker' = [worker EXCEPT ![w] = to],
                 to.step = "publish" => to.batch # {}
          PROVE  Busy'
      <3>1. worker'[w] = to /\ \A v \in Workers \ {w} : worker'[v] = worker[v]
        BY <2>1, <2>2
      <3>2. QED
        BY <1>3, <2>2, <3>1
    <2>3. \A batch : Rest(batch).step = "publish" => Rest(batch).batch # {}
      BY DEF Rest, Idle
    <2>4. CASE UNCHANGED worker
      BY <1>3, <2>4
    <2>5. ASSUME NEW w \in Workers, FetchPendingBatch(w)
          PROVE  Busy'
      BY <2>2, <2>5 DEF FetchPendingBatch, Claim
    <2>6. ASSUME NEW w \in Workers, NEW ev \in Events, Publish(w, ev) \/ PublishFails(w, ev)
          PROVE  Busy'
      BY <2>2, <2>6 DEF Publish, PublishFails
    <2>7. ASSUME NEW w \in Workers, MarkProcessed(w) \/ MarkFailed(w) \/ MarkError(w)
          PROVE  Busy'
      BY <2>2, <2>3, <2>7 DEF MarkProcessed, MarkFailed, MarkError
    <2>8. ASSUME NEW w \in Workers, Crash(w)
          PROVE  Busy'
      BY <2>2, <2>8 DEF Crash, Idle
    <2>9. QED
      BY <1>3, <2>4, <2>5, <2>6, <2>7, <2>8 DEF Next, vars, Insert, FetchLost
  <1>4. IInv /\ Busy => NeverStuck
    BY <1>1 DEF NeverStuck
  <1>5. QED
    BY <1>2, <1>3, <1>4, Invariance, PTL DEF Spec
=============================================================================
