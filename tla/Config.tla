------------------------------- MODULE Config -------------------------------
(***************************************************************************)
(* config.Load and the factories of internal/app: which environments a     *)
(* process accepts, and what it is built with.                             *)
(*                                                                         *)
(* An environment sets some variables, under the names of the fields they  *)
(* fill, and some of them to text that does not parse.  An empty variable  *)
(* counts as unset.  Percentages are whole, a URL is what url.Parse makes  *)
(* of it, a secret its length, and one field stands for all durations.     *)
(***************************************************************************)
EXTENDS Integers, TLC

\* What loadServerConfig ... loadSecurityConfig fall back to.
server == [port |-> 8080, bodyBytes |-> 1048576, rps |-> 20, durations |-> 10]
database == [host |-> "localhost", name |-> "trading_core", maxConns |-> 10, minConns |-> 2]
broker == [brokerMode |-> "PAPER", startingBalance |-> 10000, apiKey |-> "", apiSecret |-> "",
           testnetURL |-> "absolute", realURL |-> "absolute",
           realEnabled |-> FALSE, confirmation |-> ""]
risk == [perTrade |-> 3, maxDailyLoss |-> 9, maxWeeklyLoss |-> 15, maxDrawdown |-> 25,
         maxOpenPositions |-> 1, maxLeverage |-> 1, maxSignalAge |-> 30,
         maxMarketDataAge |-> 10, maxSlippage |-> 30]
llm == [llmProvider |-> "noop", geminiKey |-> "", geminiURL |-> "absolute",
        maxPayload |-> 16384]
quant == [quantMode |-> "fake", grpcTarget |-> "localhost:50051"]
observability == [logLevel |-> "info", logFormat |-> "json", tracing |-> TRUE]
security == [secret |-> 0]

Defaults ==
    server @@ database @@ broker @@ risk @@ llm @@ quant @@ observability @@ security

\* getEnv takes any text; the others parse, and fail where they cannot.
Parsed == DOMAIN server \cup DOMAIN risk \cup
          {"maxConns", "minConns", "startingBalance", "realEnabled", "maxPayload", "tracing"}

\* The built-in secret has 50 characters; it replaces one that is not set.
Loaded(env) ==
    LET cfg == env.set @@ Defaults
    IN  [cfg EXCEPT !.secret = IF cfg.secret = 0 THEN 50 ELSE cfg.secret]
-----------------------------------------------------------------------------
(* Validate *)

validatePercentage(v) == v \in 0..100

validateServer(c) == c.port \in 1..65535 /\ c.bodyBytes > 0 /\ c.rps > 0

validateDatabase(c) ==
    c.host # "" /\ c.name # "" /\ c.maxConns >= c.minConns /\ c.minConns >= 1

\* An exchange needs credentials and its own URL; REAL needs the flag and some
\* phrase as well.
validateBroker(c) ==
    /\ c.brokerMode \in {"PAPER", "TESTNET", "REAL"}
    /\ c.brokerMode # "PAPER" => c.apiKey # "" /\ c.apiSecret # ""
    /\ c.brokerMode = "TESTNET" => c.testnetURL = "absolute"
    /\ c.brokerMode = "REAL" => c.realURL = "absolute" /\ c.realEnabled /\ c.confirmation # ""
    /\ c.startingBalance > 0

validateRisk(c) ==
    /\ \A v \in {c.perTrade, c.maxDailyLoss, c.maxWeeklyLoss, c.maxDrawdown} :
        validatePercentage(v)
    /\ c.maxOpenPositions >= 1
    /\ c.maxLeverage >= 1
    /\ c.maxSignalAge > 0 /\ c.maxMarketDataAge > 0
    /\ c.maxSlippage >= 0

validateAdapters(c) ==
    /\ c.llmProvider \in {"noop", "gemini"}
    /\ c.llmProvider = "gemini" => c.geminiKey # "" /\ c.geminiURL = "absolute"
    /\ c.maxPayload > 0
    /\ c.quantMode \in {"fake", "grpc"}
    /\ c.quantMode = "grpc" => c.grpcTarget # ""
    /\ c.logLevel \in {"debug", "info", "warn", "error"}
    /\ c.logFormat \in {"json", "text"}
    /\ c.secret >= 32

Validate(c) ==
    /\ validateServer(c)
    /\ validateDatabase(c)
    /\ validateBroker(c)
    /\ validateRisk(c)
    /\ validateAdapters(c)

Load(env) == env.malformed \cap Parsed = {} /\ Validate(Loaded(env))
-----------------------------------------------------------------------------
(* The factories.  Fx calls only those that the invoked functions need: the *)
(* worker builds no engine, no classifier and no risk policy.               *)

\* realbroker.NewBroker checks the flag and the phrase once more.
provideBroker(c) ==
    \/ c.brokerMode \in {"PAPER", "TESTNET"}
    \/ c.brokerMode = "REAL" /\ c.realEnabled /\ c.confirmation # ""

\* grpc passes Validate and is not implemented.
provideQuantEngine(c) == c.quantMode = "fake"

\* The value objects have bounds of their own, wider for a percentage.
provideRiskThresholds(c) ==
    /\ {c.perTrade, c.maxDailyLoss, c.maxWeeklyLoss} \subseteq -1000..1000
    /\ c.maxDrawdown \in 0..100
    /\ c.maxLeverage >= 1
    /\ c.maxSlippage >= 0

Builds(process, c) ==
    /\ provideBroker(c)
    /\ process = "api" => provideQuantEngine(c) /\ provideRiskThresholds(c)
=============================================================================
