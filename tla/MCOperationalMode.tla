------------------------- MODULE MCOperationalMode -------------------------
EXTENDS OperationalMode, TLC

\* Clients are interchangeable.
ClientSymmetry == Permutations(Clients)
=============================================================================
