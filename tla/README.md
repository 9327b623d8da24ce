# Trading-core: a TLA+ verification project

Trading-core turns market candles into trade signals, signals into risk
decisions and approved decisions into orders at a broker (an in-process
simulator, Binance testnet or Binance), keeps the resulting orders, positions
and account in Postgres, and publishes what happened to a dashboard through a
transactional outbox. This directory models it from the feed to the dashboard
and from the migrations to the mode changes, checks the models with TLC and
proves theorems about them with TLAPS.

    tlc -workers 2 -config MCExecPaper.cfg MCOrderExecution    # a run
    tlapm OrderExecutionProofs.tla                              # the proofs

`PROJECT.json` lists components, runs, mutants (a deliberate bug for every
property, which the property must catch), the map from definitions to source
lines, findings, hazards and theorems.

## 1. Inventory

Two processes share one Postgres database:

* `cmd/api`: HTTP server, market data feed, outbox worker, reconciliation
  scheduler, and the consumers that feed the WebSocket dashboard;
* `cmd/worker`: outbox worker and reconciliation scheduler only.

Each process has its own event bus, its own broker adapter and, in PAPER mode,
its own simulator. `cmd/migrate` changes the schema.

| Component | State | Operations | Hard because |
|---|---|---|---|
| Operational mode (`domain/operation`, `ChangeOperationalMode`, `ActivateKillSwitch`) | row `operational_modes` (mode, version), a copy of the mode in the account row | pause, resume, close-only, kill switch, forced CLOSE_ONLY | concurrent writers in two processes, two rows, stale copies |
| Order execution (`ExecuteApprovedOrder`) | orders, positions, account, idempotency keys, outbox, incidents; per execution: old copies of account and order | load, check, reserve key, persist, place, look up, submit, book, stop | races and retries of one decision, lost replies, crashes between any two steps, mode changes in flight |
| Paper reset (`ResetPaperState`) | the same rows and the simulator | three reads, one transaction, wipe of the simulator | races with executions and mode changes |
| Account, positions | available balance, version; status | reserve margin, open, close | booked from copies read long before |
| Paper broker | orders and stops by client id, book, balance, in memory | place, stop, find, cancel, reset | lost at restart; wiped by a reset |
| Exchange adapter | symbol cache by client id, circuit breaker | place, stop, find, list | replies lost, duplicates accepted, lookups that cannot be made |
| Outbox | rows PENDING / PROCESSING / PROCESSED / FAILED, attempts | insert, claim a batch, publish, mark | two workers, crashes with a batch in hand, marks that fail |
| Event bus and consumers | subscribers, per process | publish, subscribe | only one process subscribes |
| Reconciliation | none of its own | compare account, positions and orders with the broker, raise an incident, force CLOSE_ONLY | reads of different ages, one simulator per process, unreachable broker |
| Signal evaluation | signals; the feed's last candles | read a candle, check its age, run the momentum rule | two clocks, restarts |
| Risk evaluation and sizing | decisions | snapshot, twelve specifications, size with rounding | limits checked on a snapshot, rounding, expiry at the boundary |
| Market events | events, deduplication keys | deduplicate, check the age, analyse, record, alert | several pollers, a key burned by a failed analysis, undated items |
| Dashboard hub | clients, bounded buffers, one lock | upgrade, register, broadcast, read and write pumps, unregister | close races with send, full buffers, half-dead clients |
| Configuration | none | load, validate, build | two gates with different bounds |
| Bootstrap | account and mode rows | create if absent | two processes at once, a start that fails half way |
| Migrations | schema, `schema_migrations` | up, down, force | several invocations at once, failures between steps, forced histories |

Components interact by direct calls inside a use case, by the database (every
use case reads rows, changes them in memory and saves them in one transaction
under optimistic locks) and by outbox rows that a worker later publishes on
its process's bus. The feed calls signal, risk and execution one after the
other for each candle; HTTP requests and schedulers run beside it.

What makes the core correct:

* a decision becomes at most one order at the broker, and what the broker has
  is on record;
* a position is booked only under a mode that allows it, on a free symbol and
  out of available balance, whatever the execution read before;
* margin, positions, order rows and outbox rows agree;
* the mode that gates entries is the operational mode and follows the safety
  matrix;
* an event is claimed by one worker, published once at most, retried a bounded
  number of times, and settles unless a fault hits it;
* the simulated book is the sum of its fills, a local position stands on a
  fill, what reconciliation calls missing is missing (with two exceptions that
  the code has, section 3), and it keeps stopping entries while a divergence
  lasts;
* an order is sized within the risk per trade, a stop-out of what it filled at
  costs that and the slippage, it is made of fresh data, and not against a
  critical event; a news item is recorded once per window;
* no client makes a publisher wait or panic, and every client gets each message
  once and in order, or loses it to its own full buffer;
* the history of migrations is the schema, racing starts do not all fail on it,
  and no start undoes a mode.

The hazards behind these, each at its line, are in `PROJECT.json`.

## 2. Modules

| Module | Models | Refines |
|---|---|---|
| `Modes` | the modes, the safety matrix (`mode.go`) | |
| `ModeMachine` | abstract: one mode moving along the matrix | |
| `OperationalMode` | the two rows and every writer of them | `ModeMachine` |
| `EntryBook` | abstract: atomic booking and clearing of positions | |
| `OrderExecution` | `ExecuteApprovedOrder`, `ResetPaperState`, both brokers, restarts | `EntryBook` |
| `OutboxDelivery` | abstract: at-most-once publication of an event | |
| `Outbox` | the outbox table and its workers | `OutboxDelivery` |
| `Decimals` | the rounding division of the decimal library | |
| `PaperBook` | the simulator's book as functions, and the reference ledger | |
| `Reconciliation` | `ReconcileBrokerState` beside executions, resets, both brokers, restarts; extends `PaperBook`, `Modes` | |
| `Sizing` | both position sizers, and their limits said without dividing | |
| `MarketEvent` | the aggregate: validity, expiry, criticality | |
| `RiskPolicy` | the twelve specifications, the policy, the decision; extends `Sizing`, `MarketEvent` | |
| `MarketEvents` | `ProcessMarketEvent` and its pollers; extends `MarketEvent` | |
| `SignalPipeline` | `HandleCandle` from candle to position; composes `RiskPolicy`, `MarketEvents`, `Modes` | |
| `DashboardHub` | hub, connections, publishers | |
| `Config` | loading, validation and the factories | |
| `Migrations` | the migration runner | |
| `Deployment` | `cmd/migrate`, `cmd/api` and `cmd/worker` on one database; composes `Config`, `Migrations`, `Modes` | |
| `MC...` | constants and symmetry for TLC | |
| `OperationalModeProofs`, `OrderExecutionProofs`, `OutboxProofs`, `ReconciliationProofs`, `SignalPipelineProofs`, `DashboardHubProofs`, `DeploymentProofs` | inductive invariants, lemmas, theorems of the module they are named after | |
| `ArithmeticLemmas` | what several of them use: rounding division, products, sums over finite sets | |

### Conventions

A step is one database statement or transaction, or one call of a broker; the
Go code between two of them touches only the request's own memory. A
transaction commits or rolls back as a whole (`Manager.WithinTransaction`).
`Saves(row, obj)` is the optimistic lock of every repository: the row is
replaced iff its version is one less than the object's. A database error ends
the request with the rows unchanged, or with its write done and only the
acknowledgement lost. Money is counted in units of margin.

### OperationalMode

`modes` and `account` are the rows, `incidents` the versions at which a kill
switch incident (and its outbox row) was written, `client[c]` the request that
`c` serves with the copies it holds. A mode change is `LoadState` (read and
`TransitionTo`), `LoadAccount` (read and `SetOperationalMode`), then `Commit` or
`CommitConflict`; a fill is `LoadForFill`, `SaveFill`; a reset `LoadForReset`,
`SaveReset`; `Abandon` is a crash, a database error or a disconnected client.
REAL cannot be entered: `SystemHandler` is the only caller of the mode change
and never passes the token. `ChangeOperationalMode` also publishes on the bus
and `ActivateKillSwitch` notifies: no state, left out.

### OrderExecution

`exec[e]` is an execution: the call it makes next, the account copy it read
first, its copy of the order and the broker's answer. An order row is named by
its decision, because the client order id is the decision id and
`orders_client_order_id_idx` makes it unique. `Persist` fails on that index,
`RecordFill` on `positions_open_symbol_idx` or on either optimistic lock, and
then `RollbackFill` leaves the broker's fill without a position. `venue`,
`stops` and `seen` are the broker's side: the simulator deduplicates by client
id, always answers and forgets everything at `Restart` and `ResetBroker`; the
exchange may fill at once or later (`VenueFills`), lose its reply and accept
the same client id again; the REST adapter can look an order up only if this
process has seen its symbol (`seen`), which is why most lookups after a lost
reply end in `LookupError`. A reply without an average price counts as not
filled, as in the code. `Unknown` is the code's dead end: `MarkUnknown` is not a
legal transition from PENDING, and both errors are dropped.

The mode moves atomically here (`ChangeMode`); that it may is what
`OperationalMode` shows. `placements` is a history variable.

### Outbox

`rows[ev]` is the row, `worker[w]` the batch a worker has in hand. The claim is
one statement; rows come back in any order; `created` is the rank of
`created_at`, which use cases read from the clock before their transaction, so
rows appear in any order of it. Each mark is a statement of its own, and
`MarkError` is the failed mark that the worker logs and forgets. Events whose
payload cannot be decoded fail every attempt; no subscriber returns an error,
so nothing else does. `published` and `struck` are history variables.

### PaperBook and Reconciliation

A book is a balance, one position per symbol and the orders by client id; since
`paper.Broker` holds its mutex throughout, `Filled` is a function. Prices are
hundredths of a tick and money hundredths of a step times that, so slippage and
fees in percent are exact; the average entry price is the only division, and
rounds half away from zero. The reference (`NetQuantity`, `Cash`, `CostOf`)
adds up the fills without folding them.

`books[p]` is the broker as process `p` sees it: two simulators in PAPER, one
exchange otherwise (`SetBook`). The execution is reduced to what the broker and
a pass can see (`Load`, `Place`, `Refuse`, `Submit`, `Book`). A pass is
`CompareAccounts`, `ReadPositions`, `ComparePositions`, `CompareOrders`, `Raise`
and `ForceCloseOnly`, each with the data it read earlier; `stale` names the
requests whose account copy is outdated, which is all that the optimistic lock
asks. `AccountUnreachable` ends a pass as the code does, before `forceCloseOnly`.
The local balance and equity never change outside bootstrap and reset, because
no use case writes P&L: so every fee shows up as a (medium) divergence. Nothing
updates a SUBMITTED order: the comment at `execute_approved_order.go:214` that a
pass will pick up the fill has no code behind it. Two history variables tell why
a simulator no longer has a fill: `lost` at a restart, `overtaken` at a reset that
had closed no position for it, because the fill came, or was booked, after the
reset's transaction.

### Sizing, RiskPolicy, MarketEvents and SignalPipeline

`run` is the candle in the pipeline. A step ends where the code reads the clock
or rows that others write: `ReadCandle`, `EvaluateSignal`, `LoadAccount`,
`LoadPositions`, `EvaluateRisk`, `Place`, then `Book` or `Orphan`. The decision
is `Decide` of `RiskPolicy` on the `Context` built of those reads. Three facts of
the code are kept as they are: `DailyPnL`, `WeeklyPnL` and the drawdown are
written by nobody, the expected fill price is the entry price, and the requested
leverage is the maximum, so five of the twelve specifications cannot fire. A
position is opened at the price of its fill (`Place`, `FillPrice`), which the
slippage makes worse than the entry it was sized on; `slip` remembers by how many
percent. The
sizers work on integers: `Precision` stands for the sixteenth digit of
`decimal.Div`, far coarser, so that rounding matters in the instance. The ATR
sizer is not wired; it is checked with the other one, over a range of balances,
by `SizersKeepLimits`.

`news[p]` is a poller's item. `Reserve` takes the key before the age check, as
the code does; a failed analysis leaves the key (`AnalyzeFails`); an undated item
is dated by its fetch. Nothing in the repository schedules the pollers yet; the
model allows any delivery. Time is in units of the model: only the order of the
limits matters, and the two 48-hour windows are equal. The reset is one step
here; its reads are in `OrderExecution`.

### DashboardHub

`reader[c]` and `writer[c]` are the pumps, `send[c]` the channel, `cast[b]` the
broadcast a publisher is in. The lock is not a variable: a broadcast in progress
holds it shared (`LockFree`), and a waiting writer keeps new readers out
(`WriterWaits`), as `sync.RWMutex` does. `Send` is two steps, the look at
`closed` and the send, because that is where a close could come in. The log line
of `hub.go` says that a slow client is dropped; only the message is. `received`,
`owed`, `dropped` and `panicked` are history variables.

### Config, Migrations and Deployment

An environment overrides defaults or fails to parse; `Load` and `Builds` are the
two gates. What they let through is within what `Sizing` and `RiskPolicy` assume
(a risk per trade of 0 and any slippage limit included), so the theorems of the
pipeline hold of every configuration, in whole percents, that starts. A migration
is the table it creates and those it refers to. `cmd[r]` is an invocation with
the version it read at its start. Every migration is a transaction at READ
COMMITTED of two statements, the SQL and the row of `schema_migrations`. A CREATE,
and a DROP that finds its table, lock the table until the commit, so there the two
are one step (`UpStep`, `DownStep`). `DROP TABLE IF EXISTS` of a table that is not
there, or not committed, locks nothing: `DownSkips` and `DownDeletes` are two steps
and an up can commit between them, which leaves a table without a row.
`CommandError` ends a command between any two steps. `forced` and `clash` are
history variables: after a force, or after an up and a down ran at once, an up
that works from an old version can also leave a gap that `Version` (the maximum)
hides, and the properties say so.

`proc[p]` is a process: `Start` (configuration and ping), `LoadAccount`,
`SaveAccount`, `LoadMode`, `SaveMode`, running. A process whose start fails is down
until somebody starts it again, which nobody has to; the environment is forgotten
once bootstrap begins. Dropping a table takes its row along (`Migration`).

## 3. Runs

| Run | Checks | Instance | Distinct states |
|---|---|---|---|
| `operational_mode` | `ModeMirror`, `KillSwitchAudited`, `GateFollowsMatrix` | 3 requests, home mode TESTNET, account versions up to 4 | 510 thousand |
| `exec_paper` | `MarginMatchesPositions`, `EventsMatchRows`, `OrderHistoryLegal`, `ImplementsEntryBook` | simulator; 2 decisions on 2 symbols, margins 2 and 3 of 4; 2 executions; PAUSED and PAPER | 3.4 million |
| `exec_binance` | `AtMostOnePlacement`, `PlacedIsOnRecord` | exchange; 2 decisions on 1 symbol, both fit; 2 executions; PAUSED, TESTNET, KILL_SWITCH | 900 thousand |
| `outbox` | `ClaimsAreExclusive`, `RetriesAreBounded`, `StrandedOnlyByFault`, `ImplementsDelivery`, `SettlesUnlessStruck` | 3 events, 1 undecodable; 2 workers, 1 listening; batches of 2; 5 attempts | 21 thousand |
| `reconciliation` | `TypeOK`, `BookMatchesFills`, `OpenIsBacked`, `AlarmHasCause`, `DivergenceStopsEntries` | either broker; 2 of 3 decisions on 1 symbol, two buys and a sell; api and worker; 1 fault | 778 thousand |
| `pipeline` | `TypeOK`, `SizedWithinRisk`, `StopLossBounded`, `FreshEnough`, `CriticalEventHonoured`, `OneRecordPerWindow`, `OrphanHasCause` | 3 candles, 2 closes, 4 instants, 1 undated item delivered twice to 2 pollers, 3 answers, 1 fault | 2.6 million |
| `dashboard` | `TypeOK`, `NeverPanics`, `InOrderOnce`, `EveryoneIsTold`, `BroadcastReturns`, `DeadClientLeaves` | 2 clients, 2 publishers, 2 messages, buffers of 1 | 76 thousand |
| `deployment` | `TypeOK`, `HistoryMatchesTables`, `AppliedIsPrefix`, `UpMeansComplete`, `RunningIsBootstrapped`, `ModeSurvivesRestarts`, `BootstrapSucceeds` | 4 migrations, 2 runners, 4 commands; 2 processes, 4 environments; 1 fault | 753 thousand |
| `kill_switch_in_flight` | `KillSwitchBlocksEntries`, violated | as `exec_binance` | |
| `unknown_outcome` | `UnknownIsRecorded`, violated | as `exec_binance` | |
| `outbox_loss` | `NothingIsLost`, violated | as `outbox`, with fairness | |
| `outbox_listeners` | `ProcessedReachesDashboard`, violated | as `outbox` | |

`TypeOK` of the first three modules is proved (section 4) and not model-checked
again.

`AlarmHasCause` says of a pass that found positions missing, without a fault, what
each of them is. Either it is open and not at the broker that trades, because a
restart lost the fill, a reset overtook it, or it was netted to nothing by other
fills on the symbol. Or the alarm is false, in one of two ways, each of which the
run reaches: the pass is the worker's and its simulator is not the one that trades
(`application.go` 36-38 counts reconciliation among what is safe to duplicate), or
a reset closed the position after the pass had read it
(`reconcile_broker_state.go` 81-101 against `reset_paper_state.go` 76-107). Both
force CLOSE_ONLY with nothing wrong. What the property excludes is a third way:
entries that fill, are booked or are refused between the two reads.

`StopLossBounded` reckons from the price of the fill. A position is sized so that
the way from entry to stop costs the risk per trade; every percent of slippage
adds one percent of its notional, which leverage bounds by `MaxLeverage` times the
balance. Nothing in the code bounds the slippage of a fill, so the bound grows
with it.

`HistoryMatchesTables` claims that a row has its table through every overlap of
commands, and that a table has its row while no up and no down overlapped.
`BootstrapSucceeds` says that of the starts that race somebody comes to run, and
that one which finds both rows does itself; the loser of the race for a row fails
and may stay down.

**Bounds.** `MaxVersion` caps the mode changes and resets (not the fills) of a
behaviour. In `exec_paper` it leaves two of them, enough to pause and resume, or
to reset and pause, under an execution that holds a copy from before both; in
`operational_mode` it leaves three commits, enough for a kill switch, its
recovery and a third writer that lost to both. Two executions of two decisions
include two of one decision; the margins are chosen so that each fits and both
do not (`exec_paper`), or that both fit and the symbol collides
(`exec_binance`). Batches of 2 and 3 events make a worker hold part of the
queue while the other claims the rest. The theorems drop all of these bounds
but `MaxVersion`, which they leave arbitrary.

In `reconciliation` any two of the three decisions are executed, in either order:
the simulator opens, adds, reduces, closes exactly and flips, on both sides, with
slippage and fees, and the balance refuses the dearest pair. In `pipeline` the
limits are small multiples of the tick (signal age 2, data age and news windows
1), so both sides of every limit happen within four instants; the balance and
the percentages are chosen so that the risk limits one size and the leverage
another, and that a fill 12% worse than expected no longer fits. In `dashboard`
one message fills a buffer. In `deployment` the four migrations are the two
tables of bootstrap with a referring pair between them; two runners and four
commands give two ups, two downs, an up and a down, and a force in any overlap.
Four are needed for the row that a down deletes under an up: an up, a down, and
then the two that meet. The four environments are one that starts, one that a
factory refuses, one that validation refuses and one that does not parse.

**Deadlock** is checked in `operational_mode`, `exec_paper`, `exec_binance`,
`reconciliation` and the violated runs of order execution. The outbox stops once
every event has settled; the other instances stop when their bounded candles,
messages or commands are used up.

**Fairness**, only of what the code drives by itself:

* outbox: `WF` of the claim and of the next step of a drain, for each worker. The
  ticker in `Worker.Run` and the loop in `DrainOnce` justify both: a worker is a
  goroutine that nothing blocks. A worker of a process that died takes part again
  only if somebody starts the process; one that lives is enough for the property.
* reconciliation: `WF` of a pass going on and `SF` of a pass starting, for each
  process: the scheduler's ticker starts one every 30 seconds in every mode. The
  fairness is strong because the model runs one pass at a time and the code runs
  one per process.
* dashboard: `WF` of the broadcast's loop, of `Register` and `Unregister` (the
  read-write lock lets a waiting writer in) and of the read deadline once no ping
  goes out. Nothing makes a browser leave or a write succeed.
* deployment: `WF` of a bootstrap that has begun, since nothing in it waits. A start
  is not fair: `docker-compose.yml` has no restart policy and `main` exits.

Faults, operators, inserts and publishers are never fair.

### What the violated properties show

Each states what the repository's documentation says and is refuted by what the
code does; `PROJECT.json` quotes the lines.

* `KillSwitchBlocksEntries`: an execution reads the mode once and may place its
  order after the kill switch is on. `ImplementsEntryBook` shows the other half:
  no *position* is booked then, so what remains is a fill at the broker without a
  local position or a stop.
* `UnknownIsRecorded`: an order whose placement has an unknown outcome stays
  PENDING.
* `NothingIsLost`: rows a worker had in hand when it died stay PROCESSING.
  `StrandedOnlyByFault` and `SettlesUnlessStruck` show that only faults do this.
* `ProcessedReachesDashboard`: what `cmd/worker` claims, nobody hears.

## 4. Proofs

Each component's theorems hold for every value of its constants that satisfies
the named assumptions of its modules: types of the constants, and a finite set of
events, a batch size and an attempt limit of at least one (`OutboxAssumption`),
finite sets of clients and publishers and channels with room for a message
(`HubAssumption`), migrations in ascending order that create distinct tables
(`MigrationsAssumption`), environments that set fields the configuration has
(`DeploymentAssumption`), percentages within what validation accepts and a fill
within all of the price (`SizingAssumption`, `RiskPolicyAssumption`,
`PipelineAssumption`), and finitely many symbols
(`PaperBookAssumption`). Decisions may be infinitely many: that the positions and
fills which are added up are finitely many is part of the invariants. TLC evaluates
every assumption on its instance.

**ArithmeticLemmas.** The library's induction theorems take an operator for a
parameter, which the installed provers cannot instantiate. `SubsetInduction`
says the same about a *set* `Good` of the subsets of a finite set, and follows
from the well-foundedness of the strict subset ordering. On it rest the equation
of `SumFunctionOnSet` (a recursive function in the community modules), its type,
that any element may be taken out first (`SumRemove`), and what a change of one
value does to a sum (`SumUpdate`).

**OperationalModeProofs.** `ModeMirror` is not inductive: a writer of the account
row alone saves a mode it read earlier. The invariant adds what ties a copy to
the row: a copy is never newer than the row, and a copy with the row's current
version *is* the row, so a save that the optimistic lock admits cannot bring an
old mode back; and a request about to commit holds the mode and the account at
the same new mode. From it: `TypeCorrect`, `MirrorHolds`, `AuditHolds`, and
`GateImplementsModeMachine`, the refinement of `ModeMachine`.

**OrderExecutionProofs.** `AtMostOnePlacement` needs to know who may still place:
`SoleOwner` says that at most one execution of a decision is past `Persist`, and
`Holds` ties the step an execution is at to the row, the placements and its copy
of the order (about to place: the row is PENDING at version 1 and nothing was
placed). `AccountCopy` says that the account copy is no newer than the row, equal
to it at the same version, and was read under a mode that allowed entries: so the
account save of a fill succeeds only while that mode is still in force.
`VenueKeeps` and `ResetHolds` do the same for the broker's side and the reset.
From it: `TypeCorrect`, `PlacementIsUnique`, `PlacementIsRecorded`,
`EventsFollowRows`, `OrderHistory` (an action property) and
`ExecutionImplementsEntryBook` (the refinement of `EntryBook`). The refinement is
then used: `BookStep` says that a step of `OrderExecution` books one position out
of the available balance, clears the whole book or leaves it, so the sum of the
margins moves with the balance, and `MarginIsPositions` follows.

**OutboxProofs.** `ClaimsAreExclusive` together with what is in a worker's hand
(`HandOK`: the rest of a batch is unpublished, the event being marked was
published iff it is to be marked so) and `UnpublishedRows` (a row that can be
claimed again was never published) is inductive. From it: `TypeCorrect`,
`ClaimIsExclusive`, `RetryBound`, `NoStrandingWithoutFault` and
`OutboxImplementsDelivery`. Three more theorems are the safety half of
`SettlesUnlessStruck`: `RetriesRunOut` (a rank of an event's row that every
statement lowers or leaves), `DrainsRunOut` (the same of a worker's batch) and
`OutboxNeverStuck` (the oldest pending row is within any batch, so the claim finds
rows while there are any). What they leave to TLC is that fairness makes the steps
happen.

**ReconciliationProofs.** `BookMatchesFills` is arithmetic. `FillIsSound` says of
`applyFillLocked`, branch by branch (open, add, reduce, close, flip), that the
position moves by the quantity of the fill, and that what is realized plus the
cost of what is held follows the cash of the fill, to half a unit of price for
every step held after it (`Slip`): only the rounded average of an addition is
inexact. `BookOK` adds that no position is larger than all that was filled, which
bounds the next average's error, and `Drift` adds those errors up: `FilledOK`
makes one fill a step of the invariant, `BookIsItsFills` follows for any orders,
symbols, prices, slippage and fee. `OpenIsBacked` and `AlarmHasCause` are about
time. `RowsFirst`: the row of an order goes in before the broker hears of it, and
an execution about to place is the first to. `ReportsBacked`: what an execution
was told stands on a fill that the broker has, or had until it was `lost` or
`overtaken`. `PositionsLast`: a position comes after its row, at the end of its
execution, so a reset that empties the simulator has closed none for an execution
in flight, whose fill is then `overtaken`; and what a pass has read as open is open
or was closed since. `BooksKept` says that no step takes a fill away otherwise,
unless its position is closed. From them `PositionsAreBacked` and the action
property `AlarmsHaveCauses`, whose case of a position that is open follows from the
first, applied at the time of the alarm and not of the read. TLC checked this
invariant on the run before it was proved.

**SignalPipelineProofs.** Both sizers cut the smaller of two rounded quotients to
a step. `CutBounds` does the arithmetic once, with the division said by products;
`SizeForKeepsLimits` and `ATRSizeKeepsLimits` follow for every balance, price,
distance, limit and precision of the division. A run decides on rows it read earlier, so its invariant
says what of them still holds. `ReadOK`: the balance it was sized on is no more
than the one now, because only `Book` lowers it and only the run books.
`DecidedOK`: the ages, the absence of a blocking event and, where one position is
allowed, the free symbol. `BookInv`: the account lacks the margin of the open
position and nothing else. `NewsInv`: whoever holds a reservation, as a row or in
hand, holds it against the key and against every other holder. From it:
`RecordsKeepApart`, `OrdersAreFresh`, `CriticalEventsBlock`, `SizesKeepLimits`,
`StopLossStaysBounded` (`LossAtStop` carries the bound from the fill to the
booking, and `LossBound` adds the slippage up) and the action property `OrphansHaveACause`, the last one
only where `MaxOpenPositions` is one, as its text says. `TypeCorrect` adds what
the types need: the order of a handler's start, its reservation and the clock, and
the known severity and action of every row (`NewsTypes`), and that a run which has
ended is idle (`RunTypes`).

**DashboardHubProofs.** `Awaits` says whom a broadcast still has to serve. Such a
client is registered, hence not closed (`Served`, `Targets`), which gives
`HubNeverPanics`; it has nothing yet of the message under way (`Behind`), which
gives `DeliveryInOrder`; and what is owed to it and not told or dropped is that
message (`Told`), which gives `BroadcastReachesAll`. `TypeCorrect` holds the
channels to their capacity; the bound on the messages needs a sum over the
publishers. `BroadcastsRunOut` is the safety half of `BroadcastReturns`: a
broadcast has finitely many steps left, and no client or publisher adds to them.

**DeploymentProofs.** `CopiesAreTrue` says what an invocation's copy of the version
still tells about the rows: what an up has passed is applied, nothing is applied
beyond where a down stands. It holds until a force or an overlap of up and down,
and gives `AppliedPrefix` and `UpCompletes`. `HistoryIsTheSchema` needs no copy for
its first half, that a row has its table: a drop deletes the row in the same step,
and a lone DELETE only takes rows away. For the second half it uses `CopiesAreTrue`:
without an overlap a down that found no table meets no row to delete either.
`BootInv` says how far each starting process has brought the rows, for
`RunningFindsItsRows`; `RestartsKeepMode` holds of every step.

Only model-checked, because the prover has no rule for fairness: the liveness
properties `SettlesUnlessStruck`, `DivergenceStopsEntries`, `BroadcastReturns`,
`DeadClientLeaves` and `BootstrapSucceeds`. For the first and the third the theorems
above prove the ranking that a pen-and-paper proof would combine with fairness.
Every invariant and every action property of the runs is proved.

## 5. Not modelled

* **HTTP routing, authentication, rate limiting, queries, mappers, DTOs,
  persistence mappers**: translations without state that a property could relate
  to another (the rate limiter's map of clients is only ever added to).
* **Metrics, logging, tracing, notification, storage, snapshots**: output; their
  errors are ignored by their callers, or nobody calls them.
* **REST market data, the gRPC quant engine, partial fills, order rejection,
  marking to market**: code without a caller.
* **Graceful shutdown**: every stop is a crash here, which allows more.
* **The circuit breaker's counter**: its effect, a call that fails, may happen at
  any time.
* **Triggering of stops**: the simulator never triggers one, and a trigger at the
  exchange is a fill that no use case books, like `VenueFills`.

## 6. Plan

Done: `OperationalMode`, `OrderExecution`, `Outbox`, their abstract
specifications, runs and proofs; then `PaperBook` with `Reconciliation`, the
signal and risk pipeline with the market events, `DashboardHub`, and `Deployment`
with `Config` and `Migrations`; and the proofs of section 4, which now state every
safety property of the runs.

Next, by importance:

1. the comment at `execute_approved_order.go:214` as a run on `Reconciliation`: a
   late fill is never booked;
2. an abstract specification of the pipeline (a position is opened at most at
   the risk per trade, of fresh data, while no critical event is on) that
   `SignalPipeline` refines;
3. rankings for `DeadClientLeaves`, `BootstrapSucceeds` and `DivergenceStopsEntries`,
   as for the outbox and the broadcast.
