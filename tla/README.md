# Kryon Protocol: TLA+ models and proofs

Kryon is a perpetual-futures exchange. Matching happens off chain in TypeScript
services; custody, margin, settlement, liquidation, insurance and governance are
Solidity contracts; a Rust crate is the reference for the risk arithmetic. This
directory models the parts of the system whose mistakes cost money or are hard to
reach with a test, checks them with TLC on small instances and proves the central
results with TLAPS for every instance.

Paths below are relative to the repository root (`src/` in `PROJECT.json`);
contracts are under `kryon-protocol/evm/src/`, services under `client/lib/`.

## 1. Inventory

### On chain

| Component | State | Operations | Correct when |
|---|---|---|---|
| `Vault.sol` | signed ledger balance per account, `totalLedger`, net deposits, caps, USDC in custody | deposit (four entry points), withdraw, `transferInternal`, `applyPnl`, caps, collateral switch | custody equals the ledger less the open cost basis, always |
| `Engine.sol`, `RiskLib`, `FundingLib`, `LiquidationLib` | positions, market bitmaps, open interest, net cost basis, funding indices, mark TWAP | `applyFill`, `requireMargin`, `liquidationTransfer`, `adlTransfer`, `updateFunding`, `validateWithdrawal` | totals match the positions; a fresh fill is healthy; funding can be paid |
| `FeeRouter.sol` | fee schedules, tiers, floor, splits, accruals | setters, `chargeFill`, `accrueLiquidationFee`, claims | accruals are backed |
| `Insurance.sol` | operating and staked capital in one ledger account, shares by epoch, unstake requests, recorded debt, unwind limits | donate, stake, request, withdraw, sweep, `settleBadDebt`, `refreshDebt`, `onBackstopFill` | shares are backed; a leaver takes nothing from those who stay |
| `Liquidation.sol` | reward and step size | `liquidate`, `adl` | the unhealthy can be liquidated |
| `OrderGateway.sol`, `OrderLib.sol` | per (owner, nonce): bound order and filled size; cancelled bits; minimum nonces | `settleFillsSigned`, cancels | one nonce is one order and one budget; cancels are final |
| `RiskParams.sol` | market parameters, active flags, open-interest policy | setters | inactive markets only wind down |
| `OracleAdapter.sol` | publisher observations, aggregates, reference feeds | `pushPrices`, setters, `getPrice` | a served price is fresh and agreed |
| `KryonTimelock.sol`, `KryonUpgradeable.sol` | operation timestamps, veto end, delay, guardian pause, roles | schedule, cancel, execute, veto, pause | a hostile guardian can be removed and cannot lock funds |

### Off chain

| Component | State | Operations | Correct when |
|---|---|---|---|
| transaction sender (`chain/tx-sender.ts`, `tx-store*.ts`) | `TxJob` rows, nonce cursor | `submit`, `wait`, replace, rebroadcast | outcomes on record are true; no nonce gap is overlooked |
| reconciler (`reconciler/`) | none but the tables | observe receipts, rebroadcast, finalise, report | every job ends |
| matcher (`matcher/`) | reservations, pending fills, cooldowns | load, match, reserve, submit, apply, recover | no size matched twice; nobody innocent retired |
| matching engine and intake (`market/`, `validation.ts`, `client/app/api/orders`) | resting orders | accept, cancel, match | priority kept; nothing matchable left crossed; what is matched settles |
| backstop unwinder (`keepers/backstop.ts`) | its quotes, the day's budget | plan, quote, withdraw | inside the contract's caps |
| keepers (`keepers/`) | `KeeperAction` rows, backoff | liquidate, fund, tier, refill | one action in flight per subject; needs are met |
| oracle publisher (`oracle/`) | guards, backoff, mirrors of the adapter | collect, aggregate, decide, push | its mirror agrees with the adapter; prices converge |
| indexer (`indexer/`) | block cursor, event log, projected tables | window, project, rebuild | each event counted once |
| WebSocket fan-out and browser stream (`ws/`, `market/stream.ts`) | subscriptions, cursors, caches, sockets | subscribe, poll, broadcast, reconnect | subscribers agree with the database; the tape has no gap |
| statistics (`stats/`, `queries/analytics.ts`) | a row per trader and period | incremental and full passes | rows equal a recomputation |
| monitor (`monitor/`) | alert states | check, notify, resolve, remind | lasting failures are heard |
| operator tooling (`client/scripts/ops.ts`, `ops/`) | receipt files | build, schedule, execute, cancel, gate | the call executed is the one scheduled |
| Rust reference and browser arithmetic (`kryon-protocol/crates`, `math.ts`, `market/order-ticket.ts`) | none | health, plans, previews | equal to the contracts |
| read API (`queries/`) | none | queries | views agree with each other |

### How the parts interact

Orders are signed by traders, checked by the intake, matched by the matcher, and
sent in batches through `TxSender` to `OrderGateway.settleFillsSigned`. The gateway
calls the Engine twice (maker, taker), the FeeRouter once, then the Engine's margin
check twice; Engine and FeeRouter move the Vault's ledger. Keepers call `liquidate`,
`adl`, `updateFunding` and `settleBadDebt`, all permissionless. Liquidated positions
move to the Insurance account, which signs reduce-only unwind orders that the
unwinder posts through the same intake. The Vault calls `Insurance.refreshDebt` on
deposits. Every admin role belongs to the timelock, which the operators reach through
`ops.ts`. Services share a Postgres database: the indexer fills it, every other
service reads it late; the reconciler and the sender share the `TxJob` table without
a lock between them.

What is hard: rounding that must cancel exactly over long sequences; one ledger
account used for two purposes; funding settled in any order; failing fills inside a
batch; cancels racing batches; cooldowns and delays that must leave windows; values
read before an await and used after it; two processes acting on the same rows around
a node that loses answers; crashes between two writes; an indexer that lags.
`PROJECT.json` lists these hazards line by line with the property for each.

## 2. Modules

```
KryonMath <- Vault <- Engine <- FeeRouter <- Insurance <- Exchange <- Differential <- MCExchange <- MCPools
                                                          Exchange <- ExchangeProofs
     Differential instantiates RiskEngine, OrderTicket, KeeperPlans
OrderGateway   <- MCOrderGateway
Governance     <- MCGovernance     (instantiates OpsCli, which extends Projections)
TxSender       <- TxSenderProofs
Matcher        <- MCMatcher, MatcherProofs
Oracle         <- MCOracle
KeeperPlans <- Keepers <- MCKeepers, KeepersProofs
KryonMath <- MatchingEngine <- OrderIntake <- Venue <- MCVenue, VenueProofs
Indexer <- StreamServer    \
        <- StatsAggregator <- MarketData <- MCMarketData, MarketDataProofs   (instantiates Projections)
     MarketData implements TapeFeed
MonitorChecks <- Monitor <- MCMonitor
OrderGateway, Governance, Oracle, Monitor <- PeripheryProofs
Sums <- ExchangeProofs, TxSenderProofs, MatcherProofs, MarketDataProofs, KeepersProofs,
        VenueProofs, PeripheryProofs
```

**KryonMath, Vault, Engine, FeeRouter, Insurance.** One module per contract. A
contract's storage is a record; a function is an operator from storage to storage
with the source's name. Division truncates toward zero, `mulPrecisionUp` and
`ceilMul` round up, tokens have `SCALE` internal units: every rounding of the code is
in the model. What a function checks is a separate predicate, because a failed check
reverts the transaction.

**Exchange.** The contracts composed: one action per external entry point, with every
nested call made in the order of the code. A transaction is atomic, so interleaving
is interleaving of transactions, price moves and time. The index takes any price of
`Prices`, 0 standing for "the adapter reverts". `Groups` selects which operations an
instance explores; the proofs are about all of them at once. `txs` bounds behaviours;
`donated` records tokens sent to the vault's address outside the protocol.

**RiskEngine, OrderTicket, Differential.** The Rust reference (with its error results)
and the browser's previews are operators; `Differential` hands them the account, the
markets and the funding state of a reachable exchange and compares answers, refusals
included, with the contract model.

**OrderGateway.** The contract seen from the orders: a batch is settled fill by fill,
each one call that either consumes both orders or reverts alone (`SettleOne`,
`RejectOne`); running out of gas reverts the batch (`OutOfGas`). Whether the engine
accepts a fill is a nondeterministic choice. Contract wallets may approve and revoke a
signature at any time. `executed` is a history variable: what the engine applied.

**Governance, OpsCli.** Time is relative (days until, or since), so the state space is
finite without a horizon. The guardian may do whatever its roles permit at any moment.
`owed` remembers operations a veto held up that have had no full day to execute since.
`OpsCli` is the command line around the timelock: which call a command builds, how it
is scheduled, found again (receipt file, else the indexer's row) and sent.

**TxSender.** Three processes: the service (`submit`, and `wait` beside it), the
reconciler and the node. A step ends at each await that writes or sends. The node may
lose its answer before or after accepting a transaction, evict, and mine; another
process may use the key; service and reconciler may crash.

**Matcher.** `fills`, `orders` and `jobs` are the tables, `log` and `cursor` the
gateway's events and how far the indexer has come, `matcher` what a crash loses. A
batch may be mined (each fill settled or rejected for the reason `_consume` would
give), revert for want of gas and be halved, be forgotten by the node, or lose its
nonce. An order may expire, be cancelled alone or up to a nonce, or be withdrawn, at any
time. A contract wallet may turn a signature down and accept it again (`Wallet`), between
the block that refused the fill and the matcher's question too. A tick takes any matches
that fit the remaining sizes; which ones it really takes is Venue. `gaveUp` is a history variable: a
reservation was released while its batch could still settle, or never written because
its id was taken.

**MatchingEngine, OrderIntake, Venue.** The life of an order: the API's
checks in their order, with the limiter and the chain reads; the match loop over the
book with its reduce-only ledger; the unwinder's reads, one after the other; the
matcher's tick with band, cooldown and backstop caps; the gateway and a lagging
indexer. Margin is left to Exchange: an account here can always pay.

**Oracle.** The adapter and its publishers. Between a publisher's read,
its pre-flight and the block its push lands in, time passes, the market and the other
publisher move, governance acts, the publisher times out or restarts. Times are ages
that saturate past the largest bound they are compared with.

**Keepers, KeeperPlans.** The keepers share no state, so a behaviour
follows one. A tick reads the chain, refuses to decide while a transaction of its own
is open, plans, and for each subject records, submits and waits; the answer of a
broadcast may be lost. A liquidator's step that is needed may be refused (`obstacle`): a
close that would not improve the account or rounds to nothing, no counterparty in profit
or one the contract refuses, a debtor with open positions. `fund` is what the insurance
fund can pay debts with, and the debt it has recorded. `KeeperPlans` also has the row's
writes one by one.

**Indexer, StreamServer, StatsAggregator, MarketData.** The read side, with two overlapping indexers, polls split at their awaits, sockets that drop, and
rows committed in another order than stamped. `focus` picks the reader a behaviour
loads: readers share nothing but the database. `TapeFeed` is the abstract promise of
the trade tape. `Projections` has every event handler as an operator from tables to
tables, and the queries of the API over them.

**MonitorChecks, Monitor.** Every check is an operator on one tick's
readings; the alert engine, deliveries, reminders and restarts are actions over a world
that breaks and heals. `MonitorChecks` ends with the go-live comparison of record,
chain, app and database, and the role baseline.

The `map` of `PROJECT.json` gives the lines behind every definition.

## 3. Runs

| Run | Instance | Holds |
|---|---|---|
| Trading | 2 traders and the backstop, 1 market, odd sizes and prices, 4 transactions from a funded vault, any price moves between | `Solvency`, `OpenInterestBalanced`, `EquityBacked`, `PortAgrees`, `PlanRestores` |
| Pools | 3 traders and stakers; four scenarios (funding, staking, administration, referral) of up to 5 transactions, 4 s of clock | `FundingPoolBacked`, `SharesBacked`, `FeesBacked`, `StakersNotDiluted` |
| OrderGateway | two orders of one nonce, the backstop's order, batches that repeat a fill or mix both orders | `FilledIsExecuted`, `OneBudgetPerNonce`, `CancelIsFinal` |
| Governance | deployed durations in days; lifting, revoking, unpausing and delay-raising operations | `VetoLeavesWindow`, `RevocationSucceeds`, `FundsReachable` |
| TxSender | 2 requests, 3 rows, one fee bump, one retry, one crash or foreign transaction | `ConfirmedIsMined`, `NoGapOverlooked`, `JobsDrain` |
| Matcher | 1 maker of size 2, takers of 1 and 2, 2 jobs, 1 crash or failed call, 1 order that may end or whose wallet changes its mind, any number of times | `NoDoubleMatch`, `NeverAhead`, `OnlyFaultyRetired` |
| Oracle | 2 publishers, 2 venues, quorum of 2, 1 disturbance, 2 pushes in flight | `MirrorAgrees`, `ServedIsRecent`, `Converges` |
| Keepers | each of the 4 keepers, 2 subjects, 3 moves of the world or of what the contracts refuse, 2 faults, answers may be lost, 1 account a tick, needs and capital up to 2 | `OneOpenPerSubject`, `DailyCapHolds`, `NeedsMet` |
| MarketData | 2 indexers or 2 browsers or the aggregator, 3 blocks, 1 fault | `SubscribersAgree`, `FillsOnce`, `StatsExact`, `NeverStranded`, `TapeContinuous` |
| Venue | 2 traders and the backstop, 2 markets, 1 request, 1 move, 2 unwinder passes | `NothingLeftCrossed`, `PriorityKept`, `MatchesSettle`, `WorkingIsEligible`, `UnwindWithinCaps` |
| Monitor | a healthy protocol and its failures in several orders, 4 troubles | `FailureHeard`, `PageNotMasked`, `BlockedTraderPaged` |
| CrossMargin | 2 markets, 2 traders | `LiquidatableCanBeLiquidated` is **violated** |

**Checked beside the behaviours.** Code without a state of its own is checked as
assumptions that TLC evaluates, over bounded inputs, at the start of a run:

- Governance, `OpsCli`: commands build distinct calldata (`CommandsBuild`); execute and
  cancel find exactly the call scheduled (`CallReproduced`); rows follow the timelock
  (`StatusProjected`); a lagging indexer only makes commands do nothing
  (`LagHarmless`); the queue's order (`QueueShown`).
- Oracle: only feeds that still fail back off (`BackOffIsOwn`),
  receipts are read feed by feed (`ReceiptRead`), alerts are spaced (`AlertsSpaced`).
- Keepers, `KeeperPlans`: a row never says more than happened wherever the process
  dies (`RowsTruthful`); marked exactly when indexed (`ReconciledExactly`,
  `ReconcileStarves`); the gas roll-up's window (`DaysCovered`).
- MarketData, `Projections`: idempotence (`AppliedTwice`), rebuilds
  (`RebuildExact`, `RebuildKnowsMore`), sums (`PositionsAddUp`), `SharedFeedStalls`;
  views agree (`PublicAgree`, `OwnFillsComplete`, `PagesAgree`, `TransfersPair`,
  `EquityCurve`, `CandlesNotFinal`).
- Venue, `OrderIntake`: the API refuses what the gateway would and little else
  (`IntakeMirrorsGateway`), `BodiesBounded`, `RateLimited`.
- Monitor, `MonitorChecks`: `GateAssumption`, `BaselineAssumption`, `ScanAssumption`.

**The bounds and why they suffice.** `PRECISION` = 100 and `SCALE` = 2 make every
division inexact for the sizes and prices used, so roundings of both signs occur; a
violated identity shows within a trade or two, and the central identities are then
proved without bounds. Margins of 20%/10% with prices 80, 100 and 125 put accounts on
both sides of every threshold. In Pools the price 20 bankrupts the backstop, so sweeps
and late leavers meet. No run takes `Exchange!Next` whole: Trading takes its banking,
trading and liquidation groups, Pools the groups of each scenario, together all of them. Governance, Oracle and Monitor have no horizon: relative,
saturating time makes them finite; `MaxEvents` and `MaxTroubles` bound disturbances,
not ticks. `CalmBound` is the number of ticks in which a calm market must be back in
the served price. In Matcher the takers together want more than the maker has, so a
reservation released too soon is matched again by the second job. In Keepers two faults
allow a crash during the recovery from a lost answer; with one account a tick a refused
one keeps the other waiting. In MarketData `BatchLimit` =
`MaxChanges` lets a poll be full. In Venue the resting orders cross once a submission
arrives, and one cannot be filled (minimum fill), so the skip is exercised. Symmetry is
used where sets are interchangeable and no liveness is checked (Oracle, MarketData).

**Deadlock** is checked in Trading, OrderGateway, Governance, Oracle, Keepers and
Monitor. In the others the bound, or the end of the work, stops the system: all
transactions used (Pools), all requests answered (TxSender), all jobs used (Matcher),
the clock and the moves at their bounds (Venue, MarketData).

**Fairness.** Governance: time passes (weak), and an executor takes a revocation that is
executable again and again (strong: each opportunity lasts a day, which
`VetoLeavesWindow` shows). TxSender: the reconciler runs on a timer and a running
service records its answers (weak); nothing is assumed of mining or of `wait`. Keepers:
the tick loop goes on (`TickStep`), blocks are mined (`Mine`), aggregator and indexer run
on their timers (`Aggregate`, `Index`), and a pause or a stale price ends (`Resume`), all
weak. The other
runs state safety, or bounded response (`Converges`, `FailureHeard`), and assume nothing.

**Refinement.** `TapeContinuous` is `TapeFeed`'s specification under the mapping of the
tape to the indexed prints and of each reader's feed to what its subscription was sent.
`PortAgrees` compares two implementations state by state.

## 4. Where the code and its documents disagree

**CrossMargin (a run).** `docs/docs/agents/risk.md` promises that an account below
maintenance can be liquidated. With positions in two markets and equity below the
penalty on the whole notional, closing either position lowers the ratio and
`liquidate` reverts. With one market the plan closes in full and succeeds.

Met while modelling; each is visible in a model and bounds what the property says:

- *Insurance.* Withdrawing a request of a retired epoch deletes the staker's shares of
  the current epoch (`Insurance.sol:252-254`); they stay in `totalShares`.
- *Sender.* The reconciler may send a row the sender has just written; if it is mined
  first, the sender sees "nonce too low" and signs the request again, though
  `reconciler/jobs.ts:24-25` says neither path can double-spend intent. A crash between
  the insert of a replacement and the REPLACED mark can later make `replace` hit the
  unique hash.
- *Matcher.* A batch that reverted while the matcher was down is neither an open job nor
  an orphan (`loop.ts:218-231`) and stays reserved, against `loop.ts:10-13`. The retry
  after a gas revert takes only the first of the new batches; the rest is matched again.
  An id is derived from the fill's terms and the number of rows with those terms, so
  that a re-matched fill "must not reuse its id" (`batch.ts:99-105`). That number drops
  when a row is deleted: if the row of a dropped job is released in recovery while a
  later one of the same terms is pending, the next such match gets the pending one's
  id, its insert does nothing (`submit.ts:52`), no size is reserved for it, and another
  tick can match that size again. It takes two crashes and some five jobs, more than the
  Matcher run allows; it was found because the proof of `NoDoubleMatch` did not go
  through, and TLC then reached it with larger bounds. `NoDoubleMatch` is stated up to
  the first reservation given up with its outcome open, this one included; after that
  the gateway's proved budget keeps an order from being overfilled.
- *Retired orders.* `retireOrder` is for "an order the chain will never settle again"
  (`apply.ts:175`). That holds of expiry and of nonces. A contract wallet that turned a
  signature down (`Insurance.isValidSignature`: limits, roles) may accept it later; the
  order stays CANCELLED all the same, so `OnlyFaultyRetired` does not say "dead".
- *Funding keeper.* It reads the chain before it asks what is in flight and may plan a
  second update from the state before the first (`keepers/funding.ts`).
- *Keeper rows.* `open()` exists "so a restarted keeper can finish or fail" rows, but
  only the backstop calls it: unconfirmed liquidation and funding rows stay SUBMITTED.
  Rows that never appear in the index can fill `reconcileIndexed`'s limit. A job mined
  more than a day after its creation is missing from the gas roll-up. A refill whose
  process died between broadcast and SUBMITTED is not in the day's sum.
- *Liquidation keeper.* It goes on after an unconfirmed liquidation although its header
  says nothing new is sent while a transaction is in flight; a market it picks may still be refused by rounding.
  A refusal that the account is not improved is logged as "no longer liquidatable", and
  the account stays liquidatable (CrossMargin). Accounts are taken worst first and the
  refused ones keep their rank, so `maxAccountsPerTick` of them take every tick's places
  from accounts that could be liquidated. `NeedsMet` therefore promises an account its
  liquidation unless it, or that many at least as far under water, go on being refused.
- *Oracle publisher.* A single feed's `StaleOracle` is classed as everybody's, so no feed
  backs off; the next read holds that feed.
- *Indexer.* Fees and prices that precede a market's row are passed over live and found
  by a rebuild (`indexer.ts:10-11`: "reproduces it exactly"). Two markets on one feed
  violate the unique symbol, and the indexer stops there. A reset turns a locally
  rejected fill whose event is not stored back to PENDING.
- *Candles* are of match time but ordered by chain: a late settlement changes one that
  ended.
- *Streams.* With `batchLimit` or more rows inside the overlap window the fills stream
  stalls; a subscription before the market list is loaded is refused and not retried; a
  late `onclose` of an idle-closed socket opens a second one; trades have no snapshot on
  resubscription and a REST answer in flight overwrites newer frames; a frame cached
  after the last subscriber left is replayed to the next.
- *Intake.* An order admitted around an already-indexed single-nonce cancel stays OPEN.
  The fixed window lets twice the limit through around an edge.
- *Matching.* A backstop quote outside the unwind band takes size in matching and is then
  dropped, starving the orders behind it. The reduce-only ledger counts only
  reduce-only closings. A fill settled and indexed between the unwinder's two reads is
  counted by neither.
- *Order ticket.* The clamp of a sell can lie one unit below the contract's band.
- *Monitor.* A per-subject check that errors reports one result without a subject, so a
  firing `oracle.freshness:BTC` is announced resolved after `resolveAfter` such ticks
  (`alerting.ts`, `types.ts`: "Never a pass"). Freshness skips inactive markets that may
  still hold positions. An error on a paging check lowers its severity and pages again.
  A restart forgets to announce what was resolved.
- *Operator tooling.* Batches can be scheduled by others but neither executed nor
  cancelled by the CLI; readiness ignores a veto; `setFundingConfig` and `setOiPolicy`
  are reached by no command; `market apply` also sets `active` from the file.

## 5. Proofs

Seven modules of theorems and one of lemmas (`Sums`); the `theorems` of `PROJECT.json`
are the results. Every one holds for all values of the constants, from the named
assumptions in the modules that declare them and nothing else: sets of traders, orders
or sockets may be of any size (finite where the code counts them), bounds any number.

**Exchange, the totals** (`ExchangeProofs`: `CoreInvariant`, `TypeCorrect`, `Solvent`, `InterestBalanced`), from the
assumptions on the constants only: positive `PRECISION` and `SCALE`, rates and splits in
their ranges, any sets of traders, markets, prices, fills and amounts. `CoreInv` =
`TypeOK` and `Solvency` and `OpenInterestBalanced`. The argument:

1. *Arithmetic lemmas*: truncated division of integers is an integer, what
   `toTokenDown` pays never exceeds what is owed, `toInternal` is additive.
2. *Ledger lemmas*: `move`, `transferInternal`, `credit` and `debit` change custody
   and ledger together or not at all (`MoveLedger` to `DebitLedger`).
3. *The trade lemma* (`SplitTradeBalance`, `TradeOneSide`): one side of a trade changes
   ledger less cost basis by exactly minus the signed notional, however the fill splits
   into a closed and an opened part, because the opened part is the rounded notional
   less the closed part and not rounded again. It changes long less short open interest
   by the signed size.
4. *Two sides* (`TwoSides`): both sides use the same rounded notional, so the changes
   cancel; `liquidationTransfer` and `adlTransfer` likewise.
5. One lemma per action (`DepositStep` ... `EnvironmentStep`) and `NextCore`.

The invariant has to be joint: solvency of a step needs the types of what the step adds
up, and types include `stakedBalance >= 0`, which needs the clamp in `sweep`.

**Sums.** Sums over accounts and sets of fills are folds in an order `CHOOSE` fixes.
`SubsetInduction` is induction on the subsets of a finite set, with the good subsets as
data rather than as an operator, through the well-foundedness of their strict order;
from it follow existence and uniqueness of the fold, and that any element may be taken
out first (`SumStep`, `SumRemove`), hence change at a point, addition, scaling and
monotonicity. The recursive functions of the models (a batch of fills, `sizeOf`, a run
of calls) are treated the same way where their step is needed, by an invariant of the
fold.

**Exchange, what the totals stand for** (`ExchangeProofs`, second part). `Backed` (`BackedInvariant`)
goes below the totals: the ledger total is the sum of the balances, the net cost basis
the sum of the positions' bases, sizes cancel out in every market, only traders and the
backstop hold positions, each listed in its owner's bitmap, and the pool's balance
covers what all positions are owed. Only the last is delicate: settling one position
pays at most what it was owed (truncation), an index moves the two sides by opposite
amounts of equal open interest, and a trade rounds its split once.
`FundingPoolBacked` is then one pool paying any order of settlements (`PoolPays`).
`EquityBacked` (`EquityIsBacked`) adds up claims at any prices: notionals cancel, cost
bases cancel against the ledger, funding against the pool, and what truncation left is
bounded position by position.

**Fees and shares** (`ExchangeProofs`, last part). `FeesBacked` needs that schedules
never pay takers (`TakerRates`), else a fill could accrue more than it pays in; every
action is shown to change the router's balance by at least what it accrues. The assumption is
`InitialRates.takerRate \in Nat`, which `_checkRates` enforces. `SharesSound`
(`SharesInvariant`) bounds the balances of the current epoch by the total and ties each
pending request to its epoch; `StakersNotDiluted` is an action property that compares
the value per share before and after, by cross multiplication, for the stake and the
withdrawal (`StakersKeepTheirPart`).

**OrderGateway** (`PeripheryProofs`: `GatewayInvariant`, `FilledIsWhatExecuted`, `NonceIsOneBudget`,
`CancelsAreFinal`). `FilledIsExecuted` is not inductive: `OutOfGas` restores the state
saved at the start of the batch, so `GatewayInv` says of the saved pair what it says of
the current one, and that the saved executions are at most the current ones (needed by
`CancelsAreFinal`: a rollback never raises an execution).

**Governance** (`PeripheryProofs`: `GovernanceInvariant`, `VetoWindowIsLeft`). `OwedInTime`: what a veto
held up has less delay left than its cooldown, and once the veto is over, less than the
rest of the cooldown, because both shrink day by day. A new veto needs the cooldown
over, so nothing is owed. That operations change roles, the delay and the veto itself
in mid-execution only ever ends a veto early.

**TxSender** (`SenderInvariant`, `ConfirmedOnce`, `NoGapIsOverlooked`). `ConfirmedIsMined`
is not inductive by itself: `record` writes an outcome over whatever the row says, so
`SenderInv` adds that a transaction is recorded once (`Distinct`), that the earlier
attempts of a retried submit are over at consumed nonces (`Retried`), that a request is
taken up once (`TakenOnce`), and that wait and submit work on different requests
(`Apart`). `NoGapOverlooked` is a property of the step that allocates, from the same
invariant.

**Matcher** (`MatcherInvariant`, `NoSizeMatchedTwice`, `FilledIsNeverAhead`,
`RetiredAreFaulty`). `MatcherInv` is in two halves. Always: a row is settled only if the
chain settled it, an order's filled size is the sum of its settled rows, every rejection
being applied happened, and who was cancelled was withdrawn, is dead or had its
signature turned down. These give `NeverAhead` and `OnlyFaultyRetired`, however late the indexer, even after a reservation was given up.
Until then (`Tracked`): a fill is in one place at a time, in the queue, in the
matcher's hands, in flight in one live job, or decided on chain, and settled, reserved
and waiting sizes of an order add up to no more than its size. `NoDoubleMatch` is the
second half; the hard steps are the receipt of a partly rejected batch, recovery's
release of orphans while events are still to be indexed, and halving.

**MarketData** (`MarketInvariant`, `SubscribersDoAgree`, `NobodyStranded`,
`StatsAreExact`, `FillsAreSentOnce`, `TapeIsContinuous`). `MarketInv`: stored events are closed below, though two indexers
store windows at once (`Stored`); a subscriber's prints are a run that ends at the
poller's cursor, and an answer in flight is a run behind that cursor unless the cursor
was dropped meanwhile (`AtCursor`, `Answered`); subscribers have the frame the server
compares with (`Agreed`); a listening screen has a socket or a timer (`Reachable`).
`TapeIsContinuous` is the refinement of `TapeFeed`: initial states map to initial
states (`TapeInit`), each step to a step or a stutter (`TapeStep`).

`StatsExact` rests on three facts about a row of the statistics. It was computed from
stored prints, on a day that has come (`Past`); everything of its address up to the
cursor is in it (`knows`; of a pass that is still running, except for the addresses it
has yet to recompute, `InPass`); and it is of the boards' day, or empty in every window
(`lasting`), which is what `NotStale` takes from the aggregator's condition for leaving
a row out of the daily refresh.
A window that is empty stays empty on a later day, so a recompute would change nothing
(`LastingIs`). The assumption on the windows says that one of them is the longest, as
the list of periods in the code has one.

`FillsOnce` is about what the poller forgets. Whatever a subscription was sent is among
the keys remembered or stamped before the overlap window (`Remembered`), and a page
holds only rows of the window, so nothing is sent again. That nothing is missed is
`Covered`: of the writes made while subscribed, what fell out of the window was sent,
and so was every key remembered. The place moves only to the stamp of a row of the
page, and since a page is in order and a transaction commits within the overlap, a page
with that row has every row that now falls out of the window (`Page`, proved of the
database's answer in `AnswerIsPage`). A rebuild only moves stamps up to now, which
nothing in flight can be behind. `Stamps` is the premise the code states for its window:
transactions are shorter than it; without it rows are missed.

**Keepers** (`KeepersInvariant`, `NeverTwoOpen`, `AllowanceIsKept`), from the policy
`planRefills` accepts, a funder that starts with a unit of gas, and subjects, shortfall
and debt that are distinct. Each planner is shown to name a subject once: sorted and cut
plans, and the fold of `planRefills` over its targets. `OneEach` then says that nothing
open is about a subject the tick may still send for, which the in-flight guard
establishes. `DayKept` follows a top-up from plan to broadcast to row; the only way out
of the books is a fault. `FunderKept` is about the funder's balance as the transfers on
their way, and then the planned ones, leave it: a path of balances, none below the last
unit less one top-up for each fault. A new plan is made when everything on its way was
lost sight of, so what it could not see is what the faults paid for (`AllLost`).

**Venue** (`VenueProofs`: `VenueInvariant`, `NothingCrossed`, `PriceTimePriority`,
`PublicBookIsTradable`, `PlansWithinCaps`), from `VenueConfig`, `MarketsAssumption` (a
finite set of configured markets, unsigned prices, Insurance's bound on the unwind
limits) and `RequestsAssumption` (a body may hold any numbers; what rests at the start
was taken in once each). The loops of the code are folds over sequences, which
`WalkRuns` turns into the states a loop passes through. Of the match loop these are runs
over the pairs of the book in price-time order: `sorted` puts every order behind those
that precede it (`RankedList`, from `compare` being a strict order), so `pairsOf` meets a
pair only after every pair that precedes it on either side. A ledger only ever loses
size (`Used`), and a pair that was tried leaves one of its orders with too little to
trade at that size (`TriedOrdersLeaveNothing`). Hence nothing is left crossed, and an
order that was passed over had too little left for the fill it is said to have been
robbed of. `WorkingIsEligible` compares two queries, the public book's and the
matcher's, row by row: both net the same reservations, sums over the same fills
(`ReservedUnfolds`), under the same conditions once an order expires no later than the
gateway's horizon, which `Stored` adds to the types. For `UnwindWithinCaps` the plan is a
run over the markets held: what is kept back for an open order covers what it may take
at worst (`KeptIs`, by monotonicity of the roundings), each slice is priced at its worst
and costs the budget one unit more than that, and a market gets one slice. `Planned`
carries it over the posts of the plan, since posting takes slices away and nothing else
of the unwinder's memory changes.

**Oracle** (`PeripheryProofs`: `OracleInvariant`, `ServedPriceIsRecent`, `MirrorIsExact`), from a
positive quorum and finite sets of publishers and venues. An observation is `Sound` if,
while it is young enough to count, it lies between two prices that traded no longer ago
than its own age plus what a venue's quote may have been old by plus the backdating of
timestamps. `OracleInv` says this of everything that may still reach the adapter (what
a publisher plans, every pooled transaction) and of everything that did, and of the
adapter's last aggregate. Time makes an observation and the trades it rests on older
at the same rate (`SoundAges`); a publisher's aggregate of its venues, and the
adapter's of its publishers, are medians, each between two of the readings it is made of
(`RankExists`, `MedianBetween`), so soundness passes from quotes to observations to
the aggregate, and `ServedIsRecent` follows for whatever the adapter serves, the cached
aggregate during an outage included. `MirrorAgrees` compares what the publisher foresees
with what the adapter computes after the push: there is a one-to-one correspondence of
the readings the first counts and those the second counts, with equal values, so counts,
ranks and medians agree (`MedianAgrees`, `ForeseenAgree`).

**Monitor** (`PeripheryProofs`: `MonitorInvariant`, `FailureIsHeard`, `PageIsNotMasked`,
`BlockedTraderIsPaged`), from any positive thresholds and any readings of the checks.
`KnownFailing` ties the engine's count of consecutive failures to what the ticks
really reported of a key; `Announced` says that what was announced while the webhook
answered was heard; `Repeated` bounds how long a firing alert may have gone without
a reminder. With them `FailureHeard` is arithmetic of counters. `PageNotMasked` needs
that a webhook that failed keeps the alert due; `BlockedTraderPaged` follows a
backlog from the first tick that sees it (`BlockedKnown`).

**Only model-checked.** Liveness under fairness (`RevocationSucceeds`, `FundsReachable`,
`JobsDrain`, `NeedsMet`), which is out of the prover's reach. `PortAgrees` and
`PlanRestores`: three truncating divisions of products of variables. `Converges` of
Oracle (a response within a number of ticks that only the instance gives) and
`MatchesSettle` of Venue (it needs that the tables, with the log replayed, are the
storage, and that the gateway simulates the match loop fill by fill) are not proved.
What the assumptions of section 3 say of pure code is evaluated, not proved. How far a
recursive function computes what a loop does is by inspection.

## 6. Not modelled

int128 bounds of the contracts (they only revert); signature cryptography and EIP-712
hashing (an order is its own hash); UUPS upgrades; ERC-20 and Permit2 internals; wiring
setters, which deployment runs once; `setTreasury` and `Liquidation.setParams` (fixed per
instance); RiskParams' listing and bounds; feed configuration, publisher removal and the
breaker reset of OracleAdapter; fee arithmetic and gas estimation of the sender (a bump
level; CONFIRMED stands for a mined revert too); of the Rust crates
`implied_max_leverage_bps`, `max_leverage_bps` and `OracleSnapshot::validate`; the
statistics' ratios; ABI decoding and generated ABIs; HTTP parsing of price sources; the
leaderboard; key management, start-up checks and the SQL client; drills and end-to-end
scripts; pages, forms and other user interface.

## 7. Plan

1. **Proofs**: `MatchesSettle` of Venue.
2. **Contracts**: the open-interest budget and listing of RiskParams; the configuration
   of OracleAdapter while pushes are in flight.
3. **Composition**: Matcher's batches with TxSender's replacements; Oracle as the index
   of Exchange.
