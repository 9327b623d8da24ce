------------------------------- MODULE Modes -------------------------------
(***************************************************************************)
(* The operational modes of the trading engine and the safety matrix that  *)
(* says which mode may follow which: internal/domain/operation/mode.go.    *)
(***************************************************************************)

Mode == {"PAPER", "TESTNET", "REAL", "PAUSED", "CLOSE_ONLY", "KILL_SWITCH"}

\* Mode.AllowsNewEntries: the modes in which a new position may be opened.
AllowsNewEntries(m) == m \in {"PAPER", "TESTNET", "REAL"}

\* allowedTransitions, as a relation.
allowedTransitions ==
    {"PAPER"}       \X {"TESTNET", "REAL", "PAUSED", "CLOSE_ONLY", "KILL_SWITCH"}
    \cup {"TESTNET"}     \X {"PAPER", "REAL", "PAUSED", "CLOSE_ONLY", "KILL_SWITCH"}
    \cup {"REAL"}        \X {"PAUSED", "CLOSE_ONLY", "KILL_SWITCH"}
    \cup {"PAUSED"}      \X {"PAPER", "TESTNET", "REAL", "CLOSE_ONLY", "KILL_SWITCH"}
    \cup {"CLOSE_ONLY"}  \X {"PAUSED", "KILL_SWITCH"}
    \cup {"KILL_SWITCH"} \X {"PAUSED"}

\* Mode.CanTransition: staying in a mode is always allowed.
CanTransition(m, target) == m = target \/ <<m, target>> \in allowedTransitions
=============================================================================
