----------------------------- MODULE EntryBook -----------------------------
(***************************************************************************)
(* What ExecuteApprovedOrder and ResetPaperState promise about the book of *)
(* positions, whatever runs concurrently: an entry is booked in one atomic *)
(* step, once, only while the mode allows new entries, only on a symbol    *)
(* without an open position and only out of available balance; a reset     *)
(* closes every open position and restores the whole balance in one step.  *)
(* OrderExecution implements it with stale copies and optimistic locking.  *)
(***************************************************************************)
EXTENDS Modes, Naturals

CONSTANTS Decisions, SymbolOf, Notional, StartingBalance

VARIABLES
    mode,       \* the operational mode
    available,  \* available balance
    positions   \* positions[d]: "NONE", "OPEN" or "CLOSED"

vars == <<mode, available, positions>>

Init ==
    /\ mode = "PAPER"
    /\ available = StartingBalance
    /\ positions = [d \in Decisions |-> "NONE"]

Move(target) ==
    /\ target # "REAL"
    /\ CanTransition(mode, target)
    /\ mode' = target
    /\ UNCHANGED <<available, positions>>

Book(d) ==
    /\ AllowsNewEntries(mode)
    /\ positions[d] = "NONE"
    /\ \A c \in Decisions : SymbolOf[c] = SymbolOf[d] => positions[c] # "OPEN"
    /\ Notional[d] <= available
    /\ positions' = [positions EXCEPT ![d] = "OPEN"]
    /\ available' = available - Notional[d]
    /\ UNCHANGED mode

Clear ==
    /\ mode = "PAPER"
    /\ available' = StartingBalance
    /\ positions' = [d \in Decisions |->
           IF positions[d] = "OPEN" THEN "CLOSED" ELSE positions[d]]
    /\ UNCHANGED mode

Next ==
    \/ \E target \in Mode : Move(target)
    \/ \E d \in Decisions : Book(d)
    \/ Clear

Spec == Init /\ [][Next]_vars
=============================================================================
