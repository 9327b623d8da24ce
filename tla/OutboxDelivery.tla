--------------------------- MODULE OutboxDelivery ---------------------------
(***************************************************************************)
(* What the transactional outbox promises about one event: once recorded   *)
(* it is published at most once, or parked after its last attempt, and a   *)
(* parked event was never published.  Outbox implements it with claimed    *)
(* batches, retries and several worker processes that can crash.           *)
(***************************************************************************)
EXTENDS Naturals

CONSTANT Events

VARIABLES
    phase, \* phase[ev]: where the event stands
    sent   \* sent[ev]: how many times it went onto the bus

vars == <<phase, sent>>

Init ==
    /\ phase = [ev \in Events |-> "absent"]
    /\ sent = [ev \in Events |-> 0]

Record(ev) ==
    /\ phase[ev] = "absent"
    /\ phase' = [phase EXCEPT ![ev] = "queued"]
    /\ UNCHANGED sent

Publish(ev) ==
    /\ phase[ev] = "queued"
    /\ phase' = [phase EXCEPT ![ev] = "published"]
    /\ sent' = [sent EXCEPT ![ev] = @ + 1]

Park(ev) ==
    /\ phase[ev] = "queued"
    /\ phase' = [phase EXCEPT ![ev] = "parked"]
    /\ UNCHANGED sent

Next == \E ev \in Events : Record(ev) \/ Publish(ev) \/ Park(ev)

Spec == Init /\ [][Next]_vars
=============================================================================
