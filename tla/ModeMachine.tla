---------------------------- MODULE ModeMachine ----------------------------
(***************************************************************************)
(* What the operational mode promises to the rest of the system: one value *)
(* that moves atomically along the safety matrix, starts in PAPER and is   *)
(* never REAL, because no caller of the mode change presents the           *)
(* confirmation token that entering REAL requires.  OperationalMode        *)
(* implements it with two database rows, concurrent requests and           *)
(* optimistic locking.                                                     *)
(***************************************************************************)
EXTENDS Modes

VARIABLE mode

Init == mode = "PAPER"

Move(target) ==
    /\ target # "REAL"
    /\ CanTransition(mode, target)
    /\ mode' = target

Next == \E target \in Mode : Move(target)

Spec == Init /\ [][Next]_mode
=============================================================================
