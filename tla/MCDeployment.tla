---------------------------- MODULE MCDeployment ----------------------------
EXTENDS Deployment

\* Four of the twelve migrations: both tables that bootstrap needs and the
\* pair with a foreign key.
MCSteps == <<
    [version |-> 1, table |-> "accounts", refs |-> {}],
    [version |-> 5, table |-> "trade_signals", refs |-> {}],
    [version |-> 6, table |-> "risk_decisions", refs |-> {"trade_signals"}],
    [version |-> 9, table |-> "operational_modes", refs |-> {}]>>

Sets(overrides) == [set |-> overrides, malformed |-> {}]
Keys == [apiKey |-> "key", apiSecret |-> "secret"]

\* The default; an engine that the api needs and nobody has; and two that
\* Load refuses: a real venue without its phrase, and text that is no number.
MCEnvironments == {
    Sets(<<>>),
    Sets([quantMode |-> "grpc"]),
    Sets(Keys @@ [brokerMode |-> "REAL", realEnabled |-> TRUE]),
    [set |-> <<>>, malformed |-> {"maxSlippage"}]}
=============================================================================
