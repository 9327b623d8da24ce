-------------------------- MODULE MCOrderExecution --------------------------
EXTENDS OrderExecution, TLC

CONSTANTS d1, d2, s1, s2

\* Two decisions that trade the same symbol.
OneSymbol == [d \in Decisions |-> s1]

\* Two decisions on symbols of their own.
OwnSymbol == d1 :> s1 @@ d2 :> s2

\* Both fit the starting balance one by one, not together.
Margins == d1 :> 2 @@ d2 :> 3

ExecutorSymmetry == Permutations(Executors)
=============================================================================
