-------------------------- MODULE MCReconciliation --------------------------
EXTENDS Reconciliation, TLC

CONSTANTS d1, d2, d3, s1

\* Two buys and a sell on one symbol: in the six orders they can fill, the
\* simulator opens, adds, reduces, closes exactly and flips, both ways.
OneSymbol  == d1 :> s1 @@ d2 :> s1 @@ d3 :> s1
Sides      == d1 :> "BUY" @@ d2 :> "BUY" @@ d3 :> "SELL"
Quantities == d1 :> 1 @@ d2 :> 2 @@ d3 :> 2
Prices     == d1 :> 3 @@ d2 :> 5 @@ d3 :> 6
=============================================================================
