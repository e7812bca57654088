---------------------------- MODULE Projections -----------------------------
(***************************************************************************)
(* The projections of client/lib/indexer/projections.ts: what one stored   *)
(* event does to the typed tables.  Orders, fills and cancelled nonces are *)
(* with the Matcher and the Venue; every other table is here.  A table is  *)
(* a function from the columns of its unique key to a row; an event is a   *)
(* record whose `at` is its place in the log.                              *)
(***************************************************************************)
EXTENDS Integers, Sequences, FiniteSets, FiniteSetsExt, SequencesExt

Empty == [ Market |-> <<>>, Account |-> <<>>, Position |-> <<>>, Log |-> <<>>,
           GovernanceOperation |-> <<>> ]

NULL == "null"
ZERO_ADDRESS == "0x0"
ZERO_BYTES32 == "0x00"

\* INSERT ... ON CONFLICT DO NOTHING, and UPDATE ... SET ... WHERE the key is in K.
insertRow(table, k, row) == IF k \in DOMAIN table THEN table ELSE (k :> row) @@ table
update(table, K, set) == [k \in DOMAIN table |-> IF k \in K THEN set @@ table[k] ELSE table[k]]

\* A row of a log-keyed table.  BalanceChange and PnlEvent add an address and a kind to
\* the key, the others have one row per log.
logKey(table, ev) == <<table, ev.at>>
logRow(db, k, row) == [db EXCEPT !.Log = insertRow(@, k, row)]

ensureAccount(db, address) ==
  [db EXCEPT !.Account = insertRow(@, address, [feeTier |-> 0])]

pnl(db, ev, address, marketId, kind, amount) ==
  IF amount = 0 THEN db
  ELSE logRow(db, logKey("PnlEvent", ev) \o <<address, kind>>,
              [marketId |-> marketId, amount |-> amount])

-----------------------------------------------------------------------------
(* Markets, oracle and funding.                                            *)

MarketDefaults ==
  [ active |-> FALSE, params |-> <<>>, makerRate |-> 0, takerRate |-> 0, lastMark |-> 0,
    lastIndex |-> 0, longFundingIndex |-> 0, shortFundingIndex |-> 0,
    fundingRatePerHour |-> 0, longOpenInterest |-> 0, shortOpenInterest |-> 0 ]

\* The symbol of a market is the text of its oracle id, and unique: the insert throws
\* when another market has it, and with it the transaction of the window.
symbolTaken(db, ev) ==
  /\ ev.marketId \notin DOMAIN db.Market
  /\ \E m \in DOMAIN db.Market : db.Market[m].oracleId = ev.oracleId

MarketListed(db, ev) ==
  [db EXCEPT !.Market = update(insertRow(@, ev.marketId, MarketDefaults @@ [oracleId |-> ev.oracleId]),
                               {ev.marketId}, [oracleId |-> ev.oracleId])]

MarketParamsSet(db, ev) ==
  [db EXCEPT !.Market = update(@, {ev.marketId}, [params |-> ev.params, active |-> ev.params.active])]

MarketActiveSet(db, ev) ==
  [db EXCEPT !.Market = update(@, {ev.marketId}, [active |-> ev.active])]

MarketFeesSet(db, ev) ==
  [db EXCEPT !.Market = update(@, {ev.marketId}, [makerRate |-> ev.makerRate, takerRate |-> ev.takerRate])]

PriceUpdated(db, ev) ==
  [logRow(db, logKey("OracleSnapshot", ev), [oracleId |-> ev.id, price |-> ev.price])
   EXCEPT !.Market = update(@, {m \in DOMAIN @ : @[m].oracleId = ev.id}, [lastIndex |-> ev.price])]

FundingUpdated(db, ev) ==
  [logRow(db, logKey("FundingUpdate", ev), [marketId |-> ev.marketId, index |-> ev.longIndex])
   EXCEPT !.Market = update(@, {ev.marketId},
     [ longFundingIndex |-> ev.longIndex, shortFundingIndex |-> ev.shortIndex,
       fundingRatePerHour |-> ev.ratePerHour, lastMark |-> ev.mark ])]

FundingSettled(db, ev) ==
  pnl(logRow(db, logKey("FundingPayment", ev), [address |-> ev.trader, amount |-> ev.amount]),
      ev, ev.trader, ev.marketId, "FUNDING", ev.amount)

-----------------------------------------------------------------------------
(* Positions.                                                              *)

pnlKind(reason) == CASE reason = "LIQUIDATION" -> "LIQUIDATION"
                     [] reason = "ADL" -> "DELEVERAGE"
                     [] OTHER -> "REALIZED_TRADE"

\* The upsert, which takes no event older than the last one it took.
upsertPosition(table, ev) ==
  LET k == <<ev.trader, ev.marketId>>
      old == IF k \in DOMAIN table THEN table[k].realizedPnlCum ELSE 0
  IN (k :> [size |-> ev.size, realizedPnlCum |-> old + ev.realizedPnl, last |-> ev.at]) @@ table

stale(table, ev) ==
  \E k \in DOMAIN table : k = <<ev.trader, ev.marketId>> /\ table[k].last >= ev.at

openInterest(table, marketId) ==
  LET size(k) == table[k].size
      on == {k \in DOMAIN table : k[2] = marketId}
      total(K) == MapThenSumSet(size, K)
  IN [ longOpenInterest |-> total({k \in on : size(k) > 0}),
       shortOpenInterest |-> -total({k \in on : size(k) < 0}) ]

changePosition(db, positions, ev) ==
  pnl([db EXCEPT !.Position = positions,
                 !.Market = update(@, {ev.marketId}, openInterest(positions, ev.marketId))],
      ev, ev.trader, ev.marketId, pnlKind(ev.reason), ev.realizedPnl)

PositionChanged(db, ev) ==
  IF stale(db.Position, ev) THEN ensureAccount(db, ev.trader)
  ELSE changePosition(ensureAccount(db, ev.trader), upsertPosition(db.Position, ev), ev)

-----------------------------------------------------------------------------
(* Balances, liquidations and fees.                                        *)

balanceRow(db, ev, address, kind, counterparty, amount) ==
  logRow(db, logKey("BalanceChange", ev) \o <<address, kind>>,
         [counterparty |-> counterparty, internalAmount |-> amount])

Deposited(db, ev) == balanceRow(db, ev, ev.account, "DEPOSIT", ev.payer, ev.internalAmount)
Withdrawn(db, ev) == balanceRow(db, ev, ev.account, "WITHDRAWAL", ev.to, ev.internalAmount)

\* A negative amount moves the other way.
InternalTransfer(db, ev) ==
  LET from == IF ev.amount < 0 THEN ev.to ELSE ev.from
      to == IF ev.amount < 0 THEN ev.from ELSE ev.to
      amount == IF ev.amount < 0 THEN -ev.amount ELSE ev.amount
  IN balanceRow(balanceRow(db, ev, from, "TRANSFER_OUT", to, amount), ev, to, "TRANSFER_IN", from, amount)

Liquidated(db, ev) ==
  pnl(logRow(db, logKey("LiquidationEvent", ev), [trader |-> ev.trader, closeSize |-> ev.closeSize]),
      ev, ev.trader, ev.marketId, "LIQUIDATION_PENALTY", -ev.penalty)

Deleveraged(db, ev) ==
  logRow(db, logKey("DeleverageEvent", ev), [counterparty |-> ev.counterparty, closeSize |-> ev.closeSize])

BackstopUnwound(db, ev) ==
  logRow(db, logKey("BackstopUnwind", ev), [marketId |-> ev.marketId, notional |-> ev.notional])

FeeAccrued(db, ev) ==
  pnl(logRow(db, logKey("FeeAccrual", ev),
             [ payer |-> ev.payer, amount |-> ev.amount,
               referrer |-> IF ev.referrer = ZERO_ADDRESS THEN NULL ELSE ev.referrer ]),
      ev, ev.payer, ev.marketId, "FEE", -ev.amount)

FeeClaimed(db, ev) ==
  logRow(db, logKey("FeeClaim", ev), [bucket |-> ev.bucket, amount |-> ev.amount])

FeeTierSet(db, ev) ==
  [ensureAccount(logRow(db, logKey("FeeTierAssignment", ev), [address |-> ev.account, tier |-> ev.tier]),
                 ev.account)
   EXCEPT !.Account = update(@, {ev.account}, [feeTier |-> ev.tier])]

-----------------------------------------------------------------------------
(* Governance.                                                             *)

\* Index 0 starts a (re)schedule, a later index appends its call.
CallScheduled(db, ev) ==
  LET new == [ predecessor |-> ev.predecessor, delay |-> ev.delay, readyAt |-> ev.time + ev.delay,
               status |-> "SCHEDULED", scheduledTx |-> ev.tx ]
      fresh == [calls |-> <<ev.call>>, salt |-> ZERO_BYTES32, executedTx |-> NULL, cancelledTx |-> NULL]
      table == db.GovernanceOperation
      rest(row) == IF ev.index = 0 THEN fresh ELSE [row EXCEPT !.calls = Append(@, ev.call)]
  IN [db EXCEPT !.GovernanceOperation =
        IF ev.id \in DOMAIN table THEN update(table, {ev.id}, new @@ rest(table[ev.id]))
        ELSE insertRow(table, ev.id, new @@ fresh)]

CallSalt(db, ev) ==
  [db EXCEPT !.GovernanceOperation = update(@, {ev.id}, [salt |-> ev.salt])]

CallExecuted(db, ev) ==
  [db EXCEPT !.GovernanceOperation = update(@, {ev.id}, [status |-> "EXECUTED", executedTx |-> ev.tx])]

Cancelled(db, ev) ==
  [db EXCEPT !.GovernanceOperation = update(@, {ev.id}, [status |-> "CANCELLED", cancelledTx |-> ev.tx])]

-----------------------------------------------------------------------------
\* applyEvent: the handler of the event's name, or nothing.
applyEvent(db, ev) ==
  CASE ev.name = "MarketListed"     -> MarketListed(db, ev)
    [] ev.name = "MarketParamsSet"  -> MarketParamsSet(db, ev)
    [] ev.name = "MarketActiveSet"  -> MarketActiveSet(db, ev)
    [] ev.name = "MarketFeesSet"    -> MarketFeesSet(db, ev)
    [] ev.name = "PriceUpdated"     -> PriceUpdated(db, ev)
    [] ev.name = "FundingUpdated"   -> FundingUpdated(db, ev)
    [] ev.name = "FundingSettled"   -> FundingSettled(db, ev)
    [] ev.name = "PositionChanged"  -> PositionChanged(db, ev)
    [] ev.name = "Deposited"        -> Deposited(db, ev)
    [] ev.name = "Withdrawn"        -> Withdrawn(db, ev)
    [] ev.name = "InternalTransfer" -> InternalTransfer(db, ev)
    [] ev.name = "Liquidated"       -> Liquidated(db, ev)
    [] ev.name = "Deleveraged"      -> Deleveraged(db, ev)
    [] ev.name = "BackstopUnwound"  -> BackstopUnwound(db, ev)
    [] ev.name = "FeeAccrued"       -> FeeAccrued(db, ev)
    [] ev.name = "FeeClaimed"       -> FeeClaimed(db, ev)
    [] ev.name = "FeeTierSet"       -> FeeTierSet(db, ev)
    [] ev.name = "CallScheduled"    -> CallScheduled(db, ev)
    [] ev.name = "CallSalt"         -> CallSalt(db, ev)
    [] ev.name = "CallExecuted"     -> CallExecuted(db, ev)
    [] ev.name = "Cancelled"        -> Cancelled(db, ev)
    [] OTHER                        -> db

project(db, events) == FoldLeft(applyEvent, db, events)

\* resetProjections: what events alone produce is deleted; the rows of Market and
\* Account stay, with their columns reset.
resetProjections(db) ==
  [ Empty EXCEPT
      !.Market = update(db.Market, DOMAIN db.Market, MarketDefaults),
      !.Account = update(db.Account, DOMAIN db.Account, [feeTier |-> 0]) ]

rebuild(db, events) == project(resetProjections(db), events)

-----------------------------------------------------------------------------
(***************************************************************************)
(* The read queries of the API (client/lib/queries): fills, candles,       *)
(* volumes, markets and an account's history, as functions of the tables.  *)
(* A fill has an `id` in the order of insertion, `createdAt` when its row  *)
(* was inserted, and its place `at` in the chain's log once it settled.    *)
(***************************************************************************)

limited(rows, limit) == SubSeq(rows, 1, Min({limit, Len(rows)}))

\* ORDER BY createdAt DESC, id DESC.
newerRow(a, b) == a.createdAt > b.createdAt \/ (a.createdAt = b.createdAt /\ a.id > b.id)
newestRows(rows, limit) == limited(SetToSortSeq(rows, newerRow), limit)

-----------------------------------------------------------------------------
(* Fills.                                                                  *)

\* Either side, every status: the union of two branches.
listFillsForAccount(fills, address, since, limit) ==
  newestRows({f \in fills : f.maker = address /\ f.createdAt > since}
             \cup {f \in fills : f.taker = address /\ f.createdAt > since}, limit)

settled(fills, marketId) == {f \in fills : f.marketId = marketId /\ f.status = "SETTLED"}

\* Prints, newest first by chain order.
laterOnChain(a, b) == a.at > b.at
listTrades(fills, marketId, limit) ==
  limited(SetToSortSeq(settled(fills, marketId), laterOnChain), limit)

sumSize(fills) == LET size(f) == f.size IN MapThenSumSet(size, fills)

\* Buckets are of createdAt; open and close are of chain order within one.
bucketOf(f, tf) == (f.createdAt \div tf) * tf
candle(rows, time) ==
  LET earliest == CHOOSE f \in rows : \A g \in rows : f.at <= g.at
      latest == CHOOSE f \in rows : \A g \in rows : f.at >= g.at
  IN [ time |-> time, open |-> earliest.price, close |-> latest.price,
       high |-> Max({f.price : f \in rows}), low |-> Min({f.price : f \in rows}),
       volume |-> sumSize(rows) ]

listCandles(fills, marketId, tf, limit) ==
  LET rows == settled(fills, marketId)
      times == SetToSortSeq({bucketOf(f, tf) : f \in rows}, >)
      of(time) == candle({f \in rows : bucketOf(f, tf) = time}, time)
      newest == limited(times, limit)
  IN Reverse([k \in DOMAIN newest |-> of(newest[k])])

\* One truncation, of the sum; UNIT is the scale of sizes.
marketVolume(rows, UNIT) ==
  LET value(f) == f.size * f.price IN
  [ size |-> sumSize(rows), notional |-> MapThenSumSet(value, rows) \div UNIT,
    trades |-> Cardinality(rows) ]
marketVolumes(fills, since, UNIT) ==
  LET recent == {f \in fills : f.status = "SETTLED" /\ f.createdAt > since}
  IN [m \in {f.marketId : f \in recent} |-> marketVolume(settled(recent, m), UNIT)]

-----------------------------------------------------------------------------
(* Markets: the rows of the projection, by id.  A struct that was never    *)
(* stored, or lacks a field, reads as zero.                                *)

RISK_FIELDS ==
  { "initialMarginBps", "maintenanceMarginBps", "liquidationFeeBps", "maxExecutionDeviationBps",
    "maxOracleConfidenceBps", "maxOracleAge", "maxLeverageBps", "maxOpenInterest", "minFillNotional" }
riskFromParams(params) ==
  [field \in RISK_FIELDS |-> IF field \in DOMAIN params THEN params[field] ELSE 0]

marketFromRow(table, id) ==
  [ marketId |-> id, symbol |-> table[id].oracleId, active |-> table[id].active,
    risk |-> riskFromParams(table[id].params), lastIndex |-> table[id].lastIndex,
    openInterest |-> <<table[id].longOpenInterest, table[id].shortOpenInterest>> ]

listMarkets(table) ==
  LET ids == SetToSortSeq(DOMAIN table, <) IN [k \in DOMAIN ids |-> marketFromRow(table, ids[k])]
listActiveMarkets(table) == SelectSeq(listMarkets(table), LAMBDA m : m.active)
\* The row, or none.
getMarketById(table, id) == {marketFromRow(table, m) : m \in DOMAIN table \cap {id}}
getMarketBySymbol(table, symbol) ==
  {marketFromRow(table, m) : m \in {k \in DOMAIN table : table[k].oracleId = symbol}}

-----------------------------------------------------------------------------
(* An account's history, from the log-keyed tables of the projection: a    *)
(* key is the table, the log's place, the address and the kind.            *)

historyOf(log, table, address) == {k \in DOMAIN log : k[1] = table /\ k[3] = address}
historyRow(log, k) == [id |-> k[2], createdAt |-> k[2], kind |-> k[4]] @@ log[k]
listPnlEvents(log, address, limit) ==
  newestRows({historyRow(log, k) : k \in historyOf(log, "PnlEvent", address)}, limit)
listBalanceChanges(log, address, limit) ==
  newestRows({historyRow(log, k) : k \in historyOf(log, "BalanceChange", address)}, limit)

\* The newest snapshots, oldest first: an equity curve.
listPortfolioSnapshots(snapshots, limit) == Reverse(newestRows(snapshots, limit))
=============================================================================
