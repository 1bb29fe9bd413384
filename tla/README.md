# A TLA+ model of the crypto accounting engine

The specifications in this directory model the services that keep the
books: `ledger-service`, which takes trades over HTTP, `pnl-consumer`,
which turns the trade events of a Kafka topic into positions, lots and realized
profit in PostgreSQL, and `pnl-grpc`, which answers from there; each alone, and the whole way of a trade. TLC checks them on small instances, and TLAPS proves the
safety properties for every instance.

## 1. Inventory of the system

| Part (source) | State | Operations | What makes it correct |
|---|---|---|---|
| **ledger-service domain** (`domain/portfolio.rs`, `trade.rs`, `pnl.rs`) | per asset a queue of lots and `total_quantity`; `total_realized_pnl` | `Trade::new`, `apply_trade` (`add_lot`, `consume_fifo`), `unrealized_pnl`, `average_cost`, `total_unrealized_pnl` | FIFO cost basis; the total in step with the lots; P&L equal to the money moved |
| **ledger-service requests** (`create_trade.rs`, `repository.rs`, `producer.rs`, `router.rs`, `main.rs`) | the portfolio in memory (RwLock), table `trades`, publish tasks | `POST /trades`: validate, apply to memory, `save_trade`, answer, spawn `publish_trade_created` | answers, table, memory and topic agree; no oversell; bounded duplicates; no event given up without a trace; everything ends |
| **pnl-consumer transaction** (`processor.rs`, `repository.rs`, migration) | tables `processed_events`, `portfolio_state`, `pnl_snapshots` | `process`: `claim_event`, `load_portfolio` (insert, `FOR UPDATE`), `apply`, `save_portfolio`, `save_pnl_snapshot`, commit | each event has its effect once, whole, on the current row |
| **pnl-consumer loop** (`consumer.rs`) | offsets of the consumer group | `run`: receive, skip poison pills, process, commit asynchronously | no offset passes what nobody finished with; offsets advance; every record is looked at |
| **pnl-consumer domain** (`domain/portfolio.rs`) | one asset's portfolio | `apply`, `consume_fifo` | as the ledger's; the loop never finds the queue empty |
| **NUMERIC columns** (migration) | totals rounded to ten decimals, lots exact in JSONB | save and load | how far the rounded totals drift |
| **pnl-grpc** (`service.rs`) | none | `list_assets`, `get_pnl_summary`: one SELECT each | what was listed is found; an answer is of one moment |
| HTTP envelope | - | status of an answer | as far as it decides between "refused" and "failed" |
| configuration, telemetry, deployment, unused scaffolding | - | - | not modelled |

**How they interact.** A client posts a trade to one of several
`ledger-service` replicas. The replica applies it to its memory, writes it to
`trades` (if it has a database), answers, and publishes an event in a task of its own,
keyed by trade id, so that the trades of one asset are spread over the partitions.
Instances of `pnl-consumer` form one consumer group; each takes the records of its
partitions one at a time and applies each in one PostgreSQL transaction.
Between the two services there is only the topic.

**What is hard here.** Two consumers on one asset; a rebalance that gives a
record that is being processed to a second instance; a crash on either side of a COMMIT; commits of
offsets that are asynchronous and unchecked; events that arrive twice, late or in another
order than the trades; a handler dropped in its only await after memory has changed; an
answer that does not reach the client; replicas
that share a database and not their memory; hand-kept totals beside lots; rounding columns; sums
that overflow, in a column or, under a lock, in memory; two accounts of the same trades that only a lossy topic connects. Every
such place is an entry of `hazards` in `PROJECT.json`, with its line and the
properties that watch it.

## 2. Modules

| Module | Models |
|---|---|
| `FifoLots` | the lot queue and `consume_fifo`, shared by both services |
| `FifoLotsProofs` | induction, sums, folds, and what the queue does |
| `AssetPortfolio` | `TradeEvent` and `AssetPortfolio` of pnl-consumer |
| `AssetPortfolioProofs` | what one event does to its asset |
| `ExactlyOnce` | abstract: the tables change by one whole event at a time, each once |
| `PnlConsumer` | the consumer group: Kafka, instances, transactions, faults |
| `PnlConsumerProofs` | its theorems |
| `NumericColumns` | one asset's row and snapshots through NUMERIC(28, 10) |
| `NumericColumnsProofs` | its theorems |
| `Positions` | trades, positions and portfolio of ledger-service, as values |
| `PositionsProofs` | what one trade does to a portfolio, and the sums over positions |
| `UnitQueue` | abstract: FIFO unit by unit, without lots |
| `LedgerPortfolio` | the portfolio behind one process's RwLock |
| `LedgerPortfolioProofs` | its theorems |
| `LedgerService` | replicas, requests, PostgreSQL, publish tasks |
| `LedgerServiceProofs` | its theorems |
| `Pipeline` | `LedgerService`, the topic, `ExactlyOnce` and the readers together |
| `PipelineProofs` | its theorems |
| `MC...` | values of the constants for TLC |

### PnlConsumer

One action is one `await`. `pc[c]` is what instance `c` waits for:

| `pc` | in the code | actions |
|---|---|---|
| `recv` | `inner.recv().await` | `SkipPoison`, `Receive` |
| `claim_event` | `begin`, `INSERT INTO processed_events` | `ClaimNew`, `ClaimDuplicate` |
| `rollback` | `tx.rollback()` and `Ok(false)` | `Rollback` |
| `ensure_row` | first statement of `load_portfolio` | `InsertRow`, `RowExists` |
| `select_for_update` | second one, then `apply` | `LoadAndApply`, `LoadAndReject` |
| `save_portfolio`, `save_pnl_snapshot` | the two writes | `SavePortfolio`, `SavePnlSnapshot` |
| `commit` | `tx.commit()` and `Ok(true)` | `Commit`, `CommitUnacknowledged` |
| `down` | the process is dead | `Restart` |

The writes of an open transaction are in `tx` and become visible in `CommitTx`.
Locks are derived from `pc`: an INSERT with ON CONFLICT waits for an uncommitted row
of the same key (`HoldsClaim`, `HoldsKey`), `FOR UPDATE` waits for the row
(`HoldsRow`). Any statement may fail (`StatementFails`), which is `process`
returning `Err`; the process may die anywhere, also while a COMMIT is
on its way (`Crash`, `CrashInCommit`). The coordinator may take a
partition away at any time (`Revoke`) and then refuses the commits of the member that had it; a commit in
flight may be lost (`LoseOffset`). A second commit before the first is stored
replaces it. `Publish` puts a record in the topic up to `MaxCopies` times. What
Kafka, PostgreSQL and the operating system do is modelled from how the code uses
them and marked `external` in the map.

`ExactlyOnce` has only the three tables and one action. `PnlConsumer` implements it with the identity as refinement
mapping (`EffectivelyOnce`): the commit of a transaction is the abstract
step, everything else stutters.

### LedgerService

A request is a pair of a trade that a client wants and the number of its try, because a retry is a
request with an id of its own (`Trade::new`). `outcome` is what the server answers, which is not what the
client learns: `Disconnect` breaks the connection at any moment after the request was taken, also after a 201 and
with the publish task under way, and the client may then try again (`Sends`), as it may after a failure. `Apply` is `execute` from its
start to its only `await`; from there the request is `saving` and goes on with
`SaveTrade`, `SaveFails` or `Abandon` (timeout, client gone, connection lost: the INSERT may
still be carried out, `LateInsert`). Without a database the
answer follows at once (`accepted`). A trade whose notional value does not fit a Decimal, or that meets a
poisoned lock, panics its handler and nothing else (`Panic`); one with which a sum does not fit panics under the
lock, tears the portfolio and poisons it (`Overflow`). `attempt` is the send that the publish
task is at, and `copies` counts the records in the topic; one send can put
`1 + SEND_RETRIES` records there, because the client library retries by
itself and is not an idempotent producer; after the last failed send the event is in `given_up`, the failure counter
and the log. `Crash` stands for a crash and for a graceful
shutdown, which waits for handlers but not for publish tasks.

### LedgerPortfolio, UnitQueue

`LedgerPortfolio` books any sequence of trades in the one portfolio that the three services of a
process share. A Decimal holds at most `MaxDecimal`: products are safe, since `notional_value` is
computed before the lock is taken, but a sum that does not fit panics under the write guard
(`Overflow`), which leaves the portfolio `Torn` and the lock `poisoned`; then every service panics in
`expect`, and no action is left. The invariants say what is read while the lock is not poisoned. The module
adds `cash`, the money that has moved, which is no state of the code: the P&L that the
code reports is compared with it. `FirstInFirstOut` maps the
lots to the queue of their units and shows that `UnitQueue` is implemented by every step but an overflow.

### NumericColumns

One asset, one event per step (that is what `ExactlyOnce` allows), amounts in
a unit of which `Scale` make the last digit of a column. `Numeric` rounds as PostgreSQL
does, to the nearest digit and a half away from zero, and a value above `MaxNumeric` makes the
statement and with it the event fail (`HasRoom`; the columns are those of the row and of the snapshot, which has
quantity and price of the trade too, the latter up to `MaxPrice`). That such an event has no effect, whichever statement
fails, is not a question to this module, where an event is one step, but to `PnlConsumer` (`StatementFails`). The other modules
take amounts with no more digits than the columns; `ColumnDigitsAreExact` is the
reason why they may (with prices so that products fit, too).

### Pipeline

`Pipeline` EXTENDS `LedgerService` and takes of the consumer group what `PnlConsumer` is proved to implement:
`PNL == INSTANCE ExactlyOnce` over the tables, with the trades of the requests as events. An event
that is in the topic (`copies`) may be booked at any later time (`Consume`), or fail (`Fail`), also before it is
booked after a redelivery; this is every order and every delay that partitions and rebalances allow. `booked`
is a history of what each replica's memory has applied, per asset and in order, since its start. The readers have no state: `GetPnlSummary`
and `ListAssets` are what one SELECT returns, and the properties compare two readings.

Definitions whose comment begins with "Slip" are bugs that the code does not have. Each is
exchanged for the definition after it to show that a property notices (`mutants` in
`PROJECT.json`).

## 3. Runs

`tlc -config <run>.cfg <module>`; the module of each run is in `PROJECT.json`.

| Run | Checks | Bounds | States |
|---|---|---|---|
| `consumer_group` | `TypeOK`, `NoStaleWrite`, `BooksBalance`, `LotsCoverSells`, `NoCircularWait`, `OffsetsNeverRewind` | 2 instances, 2 partitions, 4 events, 2 faults | 480 000 |
| `consumer_redelivery` | `IInv`, `NoUnattemptedSkip`, `OneSnapshotPerEvent`, `AuditTrail`, `EffectivelyOnce` | 2 events and a poison pill, 2 copies each, 1 fault | 260 000 |
| `consumer_progress` | `EveryRecordAttempted` under `FairSpec` | 2 events and a poison pill, 1 fault | 14 000 |
| `consumer_event_dropped` | refutes `NoEventDropped` | no fault | - |
| `ledger_fifo` | `TypeOK`, `BalanceCheckSuffices`, `PnlIsCashPlusHoldings`, `MarkToMarket`, `FirstInFirstOut` | 2 assets, 5 trades, sums up to 12, market prices of both signs and 0 | 42 000 |
| `ledger_poisoned` | refutes `LockNotPoisoned` | the same | - |
| `ledger_replicas` | `TypeOK`, `MemoryIsAccount`, `TableAgreesWithAnswers`, `OnlyKeptTradesPublished`, `CopiesBounded`, `NoEventLostSilently`, `NeverOversold` | 2 replicas, a buy with 2 tries and a sell, sums up to 7 (the second buy overflows), 2 sends of 2 records, 1 crash, 1 lost answer | 504 000 |
| `ledger_retry` | refutes `RetryIsSafe` | 2 tries, no crash, no lost answer | - |
| `ledger_stateless` | refutes `AnyReplicaWillDo` | 2 replicas, 1 try | - |
| `pipeline` | `SameOrderSameBooks`, `SameTradesSameMoney`, `ReadsFollowEvents`, `EverythingSettles` under `FairPipelineSpec` | 1 replica, 3 trades, an invalid one and one whose notional value overflows, 1 send, 1 crash | 247 000 |
| `numeric_columns` | `DriftBounded`, `AuditWithinADigit`, `ColumnDigitsAreExact` | 9 events in every order, columns up to 6 digits, one price too high | 3 100 |
| `numeric_panic` | refutes `QueueCoversSells` | the same | - |

**Why the bounds are enough.** Two instances and two partitions are the least in
which an event can be in two hands and an asset in two partitions. The two buys and the sell across both lots are the
least that tells FIFO from any other order and a lost update from none; the fourth event
takes the path of an unknown side. Two faults allow a crash while another instance recovers
from a rebalance. With two copies a duplicate can
meet its original in process and after it. The proofs (section 5) have no bound but `MaxFaults` as
a parameter of any value. In `pipeline` two buys at different prices and a sell that the second covers alone
make the order of the events decide which lots are sold and whether the sell is admitted; a second
replica would only add trades that are in no order at all, and a crash gives that case, too.
`MAX_RETRIES` is 2 instead of 3 in `ledger_replicas`, so that the task's own retry and the client library's meet, and
1 in `pipeline`, where a second send adds only copies of an event that `ExactlyOnce` books once anyway; `pipeline` has
no lost answers either, since a second try of a trade is one more trade to everything after the answer. The proofs have both as
parameters. A crash of a replica and a lost answer are one each: the second of either meets nothing that the first has not. In `numeric_columns` and `ledger_fifo` the limits are such that two or three of the amounts
overflow them. Symmetry of instances and
replicas is used in the safety runs only.

Deadlock is not checked: producers and clients are free to stop, the topic is
finite and faults and trades run out, after which nothing has to happen. Instances that wait for one
another would show in `NoCircularWait`, and a group that is stuck while there is work in `EveryRecordAttempted` and `EverythingSettles`.

**What they show.** No update is lost, no two transactions wait for one another and no event is counted twice, whatever
crashes, is revoked or delivered again; committed offsets only advance and
never pass a record on which no instance has returned; snapshots, claims and
rows tell one story. The ledger's lots are FIFO, its P&L equals cash
plus holdings, its memory is the account of what it applied, and its
answers, table and topic agree as far as `TableAgreesWithAnswers` and
`OnlyKeptTradesPublished` say: that is about what the server answers. A client whose 201 was lost sees a failure, though
the trade is kept and its event is on the way; if it posts again, that is a second trade. End to end, the books equal
the memory of a replica as long as the events of an asset are booked in its order, and in another order
they still agree on units and money, though not on lots and realized profit (`SameTradesSameMoney`).

That a trade which was answered reaches the books is not promised. A replica that stops takes its publish tasks with it
and leaves no trace of them, one without a producer sends nothing, and a last failed send ends the task. Only in the last case
does anything tell: `NoEventLostSilently` says that the event of an answered trade is in the topic, still being sent, or counted
and logged as given up, as long as its replica has a producer and runs, and `EverythingSettles` that in the end it is booked,
reported as failed by the consumer, or given up. `SameOrderSameBooks` and `SameTradesSameMoney` compare books that have lost nothing.

What they also show is where code and documentation disagree:

1. `consumer_event_dropped`: after an error the loop goes on, and the commit of the next record passes
   the failed one. "no event is silently dropped" (`consumer.rs:27-28`) and "will
   retry" (`:129`) do not hold; a sell that overtakes its buy
   on another partition is lost without any fault. What does hold is `NoUnattemptedSkip`.
2. `ledger_retry`: "retrying a failed request is safe" (`repository.rs:75-76`) is true of
   a repeated `save_trade` of one `Trade`, which no code makes. A
   client's retry has a new id, and is stored beside the first try if that was carried out late. (The same follows
   when the 201 of the first try is lost; the run leaves that out, so that its trace shows the timeout.)
3. `ledger_stateless`: `README.md:483` calls ledger-service stateless, but
   each replica admits sells by a memory of its own, which is empty again after each start.
4. `numeric_panic`: `total_quantity` is rounded by its column, the lots are not. A
   total that was rounded up lets a sell through that the lots do not
   cover, and `expect("lot queue unexpectedly empty")` panics. It takes a trade with more
   than ten decimals and a sell that overtakes a buy.

5. `ledger_poisoned`: `expect("portfolio lock poisoned")` (`create_trade.rs:67`) is taken never to fail, and
   an overflow to be an error (`api/error.rs:83`), but Decimal's operators panic: a total that does
   not fit poisons the lock, and the replica answers no request but `/health`, by which load balancers
   are to "determine readiness" (`api/health.rs:6-7`); the probes of `k8s/05-ledger-service.yaml` only open a TCP connection.

Smaller ones, not checked: `GET /portfolio` sums the cost of all lots and can panic by it without
poisoning anything, for trades that were all accepted; the `out_of_order` event announced at
`processor.rs:28-30` is never emitted, and `GET /trades` without a database answers 422
where `handlers/trade.rs:54` says 503.

## 4. Fairness

`PnlConsumer!Fairness` is weak fairness of an instance's own steps (tokio polls a ready future,
PostgreSQL grants a lock when it is free), of `Restart` (the supervisor; both compose and
Kubernetes restart the container), of `Assign` and `StoreOffset` (the broker) and of receiving from a
partition (librdkafka serves every assigned partition). There is none for producers
and none for faults, of which there are finitely many. `LedgerService!Fairness` is weak
fairness of `Save` (the INSERT returns or `TimeoutLayer` fires after 30 s) and of `Publish`
(each send has a delivery timeout of 5 s). Nothing makes a client send, a
replica start or a connection break. `Pipeline` adds weak fairness of `Attend`, that an event in the
topic is looked at once, which is `EveryRecordAttempted` of the consumer group; nothing is
assumed of a second delivery.

## 5. Proofs

Checked by `tlapm` for all values of the constants. Every invariant and every action property of the passing runs is
proved, and so is the refinement of `ExactlyOnce` and of `UnitQueue`; the two liveness properties are not (see the end of this section).

**Assumptions.** Only the named ASSUMEs of the modules: the quantities and prices of events and of the trades that reach the lock are positive (`Trade::new` lets
no other through; what clients post is any integer), sides are buy and sell (an event's also "other"), each key has a partition, poison pills are no events, the
"none" values are none of the instances or replicas, the bounds are naturals, clients want finitely many trades
and try each finitely often (`WantedAssumption`, `BoundsAssumption`), and the last digit of a column can be halved (`Scale`
is even: amounts are counted in a unit that is fine enough). TLC evaluates each of them in some run.

**The lemmas below** are in `FifoLotsProofs`, `AssetPortfolioProofs` and `PositionsProofs`. The library's induction
theorems take an operator as a parameter and cannot be used here. Two of its facts are first order, though: `<` on
the naturals is well founded, and a set that is not empty has a minimal element. `LeastNumber`, `UpTo`
and `AllNaturals` get induction from them, with a set in the place of the predicate. By it `FoldExists` and `AdditiveExists` show that
the functions exist that `FoldLeft` and `MapThenSumSet` CHOOSE, `Chain` and `SetSum` what they compute, and
the `Sum...` lemmas how a sum over a set changes when its elements do. Then, for every queue, quantity and price:

- `SaleAddsUp`: the loop of `consume_fifo` loses no unit and no money: lots and matches hold
  what the lots held, and the loop ends with something left to sell only if the queue is empty.
- `SaleTakesOldest` (in `LedgerPortfolioProofs`): the matches are the oldest units of the queue, at the
  prices they were bought for.
- `AppliedAddsUp`, `ApplyMoves`, `ApplyMoney`: what one event or trade does to units and money in either service.

**`PnlConsumerProofs`**: `TypeCorrect`, `Invariant`, and from it `NoLostUpdate`, `NeverDeadlocked`, `SnapshotsMatchClaims`,
`SnapshotsAddUp`, `AtLeastOnce`, `OffsetsAdvance`, `BooksAlwaysBalance`, `QueueNeverRunsDry` and `Refinement`. None of the
safety properties is inductive alone, and `IInv` adds what they lean on:

- `ClaimsExclusive` - an unfinished claim belongs to one transaction and an event that is not
  processed; without it a commit could repeat an event.
- `RowsExclusive` - one transaction at a time has read a row for update, so that the commit of
  another cannot make `tx` stale; this is `NoStaleWrite`'s induction step.
- `KeysExclusive`, `InsertedGoOn` - the first row of an asset is inserted by one transaction, and whoever
  is past that statement has inserted the row or found it. So a transaction that waits at one of its three
  locks waits for one that is past it (`NoCircularWait`): there is no cycle, however many instances there are.
- `RollbacksAreDuplicates` - what is skipped as a duplicate is processed, so that its offset may be committed.
- `OffsetsInOrder` - committed <= pending <= position within the owner's term, so that commits only advance.
- `ReceivedIsAttempted` - everything up to the position is finished with or in hand; it makes
  `NoUnattemptedSkip` inductive, and rests on `Revoke` fencing the old owner.

`Books` is inductive beside it: every row has in its lots what its total says, and units and money are
those of the processed events. A commit adds one event to the sums (`ProcessedOneMore`), of which `AppliedAddsUp` says what it does to the row.
The refinement follows from `NoStaleWrite` and `ClaimsExclusive`: `CommitTx` is `ApplyOnce`, any other step leaves the tables alone.

**`LedgerPortfolioProofs`**: `TypeCorrect`, `ChecksOnTotals`, `PnlIsRight`, `MarksToMarket`, `IsFirstInFirstOut`. Market prices are any integers. The inductive
invariant says that, while the lock is not poisoned, each total is what its lots hold, and the realized profit less the cost
of all lots is the cash (`Account`). That GET /pnl is right follows without a further induction, because the unrealized profit
is market value less cost, lot by lot. For the refinement of `UnitQueue` a buy is a block of equal units behind the queue, and
a sell is `SaleTakesOldest`.

**`LedgerServiceProofs`**: `TypeCorrect`, which includes that handlers and tasks go with their
process, and `AnswersAgree` (`TableAgreesWithAnswers`, `OnlyKeptTradesPublished`, `CopiesBounded`) by one
lemma about what a step does to one request, with `TableAgrees` and `OnlyKept` as its parts. `NoSilentLoss` (`NoEventLostSilently`)
follows the event of one request through every step (`TracedStep`): a publish task ends with a record in the topic or in `given_up`,
or with its replica. `MemoryIsRight` and `NeverSoldShort`
follow from `Ledgers`: each memory whose lock is not poisoned is the account of what the replica has applied. `NeverOversold` alone is not inductive, because
a crash takes the trades of one replica out of the memories at once and leaves them in the sums. `NoShort` says it of the trades
that were taken less those in the memories of any set of replicas: no replica is short, so that a crash only moves
one out of the set.

**`PipelineProofs`**: a lemma (`Composition`) carries the theorems of the parts over to the whole, whose behaviours are by
construction behaviours of each part. What is more than the parts, all of it for replicas whose lock is not poisoned:

- `SameMoney` is `SameTradesSameMoney`, from `Books` and `Ledgers`: both accounts are sums over their trades, whatever the order.
- `SameOrderIsSame` is `SameOrderSameBooks`. The order of the trades matters here, and the invariants are about sequences: a row is what
  the events of its snapshots make of an empty one, none of them rejected (`BooksReplay`), and a memory is what its history makes of
  nothing (`Histories`). The two services do the same with one trade (`SameTrade`), and a replay of a prefix is a
  prefix of the replay (`ReplayOfPrefix`).
- `ReadsAreOfEvents` is `ReadsFollowEvents`, with `ListedStays` as the part that needs no sums.

**`NumericColumnsProofs`**: `DriftIsBounded`, `AuditIsWithinADigit`, `FittingTradesAreExact`, for columns of every width. The
invariant is the three properties and that the row is a portfolio; the step is `NumericRounds`, that rounding moves
a value by half a digit at most and a whole number of digits not at all.

**Only model-checked.** `EveryRecordAttempted` and `EverythingSettles`: liveness under weak fairness needs ENABLED, which
this prover does not handle. Their safety side is proved: nobody waits in a circle, and no offset passes an unattempted record.
The refutations (section 3) are runs by nature. Of the inductive invariants TLC checks `IInv` of `PnlConsumer`; those of the other
modules quantify over all sequences of rows or are built from lemmas' operators, and TLC checks what they imply.

## 6. Not modelled

Configuration, pools, metrics, traces (`shared/observability`): nothing of the books depends on
them. Deployment manifests. `domain/error.rs`, `domain/model.rs` and `use_case.rs` of the ledger, which nothing
uses. Of the HTTP envelope the bodies, the extractor (a body that does not parse has no effect) and
`/health`. Of the tables the columns that no code reads back (`last_event_id`, `last_trade_ts`,
timestamps; `computed_at` is the start of a transaction and may be out of the order of the commits, but
nothing selects it), and the rounding of rows of `trades`, from which nothing is computed. That a Decimal of many digits rounds
when it is added, or when a product has more than 28 digits (`ConsumeLot` has exact products), and the overflow of
a Decimal in pnl-consumer, which panics before a column could refuse the value: to the tables it is a `Crash`, but one that comes
back with the record. Kafka's retention: a record stays in the topic.

## 7. Plan

Done: all components that keep or read state, each alone and composed, and a proof of every safety property. What is left:

1. The refinement of `Pipeline`'s abstract consumer by `PnlConsumer` itself, as a theorem about one module that composes
   both: `Publish` is then the send of a publish task, and `Consume` the commit of a transaction.
