-------------------------- MODULE MCSignalPipeline --------------------------
EXTENDS SignalPipeline, TLC

CONSTANTS i1, p1, p2

\* One item of the feed, which carries no date: it can come back for ever.
Dates == i1 :> Undated

\* What the no-op classifier answers; a block of the feed's symbol; and an
\* answer that event.New turns down.
Answers ==
    {[severity |-> "LOW", action |-> "NORMAL", assets |-> {"GLOBAL"}, sources |-> 1],
     [severity |-> "HIGH", action |-> "BLOCK_NEW_ENTRIES", assets |-> {"BTCUSDT"}, sources |-> 1],
     [severity |-> "CRITICAL", action |-> "KILL_SWITCH", assets |-> {"BTCUSDT"}, sources |-> 0]}

Symmetry == Permutations(Pollers)
=============================================================================
