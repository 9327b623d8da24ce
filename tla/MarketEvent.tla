---------------------------- MODULE MarketEvent ----------------------------
(***************************************************************************)
(* The MarketEvent aggregate: what makes a valid one, and what the risk    *)
(* policy asks of it (internal/domain/event/market_event.go).              *)
(***************************************************************************)
EXTENDS Integers

Severities == {"LOW", "MEDIUM", "HIGH", "CRITICAL"}
Actions == {"NORMAL", "REDUCE", "BLOCK_NEW_ENTRIES", "REVIEW_REQUIRED", "KILL_SWITCH"}

\* Whether the Gemini adapter passes the classifier's answer on ...
toEventAssessment(a) ==
    /\ a.action \in Actions
    /\ a.severity \in Severities
    /\ a.assets # {}

\* ... and event.New makes an event of it.
New(a, detected, expires) ==
    /\ a.action \in Actions
    /\ a.assets # {}
    /\ a.sources >= 1
    /\ detected < expires

IsExpiredAtDeadline(event, now) == now >= event.expires
IsExpired(event, now) == now > event.expires

AffectsSymbol(event, symbol) == symbol \in event.assets

\* The severity alone, or the action alone, makes an event a hard block.
IsCritical(event) ==
    event.severity = "CRITICAL" \/ event.action \in {"BLOCK_NEW_ENTRIES", "KILL_SWITCH"}
=============================================================================
