---------------------------- MODULE Differential -----------------------------
(***************************************************************************)
(* The two ports of the contracts' arithmetic beside the contracts.  The   *)
(* Rust reference is handed the account, the markets and the funding state *)
(* of a reachable exchange, as evm/ffi/src/main.rs and the differential    *)
(* tests do, and its answer is compared value for value and refusal for    *)
(* refusal.  The browser's order ticket is handed what the client reads,   *)
(* and its preview is compared with what settling the order would do.      *)
(***************************************************************************)
EXTENDS Exchange

CONSTANT TicketOrders   \* orders a trader may enter: side, kind, size, quoted price

\* The comparison is at values far inside i128, as in the tests.
Rust == INSTANCE RiskEngine WITH I128_MAX <- 1000000000
UI == INSTANCE OrderTicket
Plans == INSTANCE KeeperPlans

\* read_account's collateral and positions, as Engine._riskInputs fills them: one
\* settlement balance without a haircut, cross-margined positions.
read_position(t, m) ==
  LET p == engine.positions[t][m]
  IN  [ position_id        |-> m,
        market_id          |-> m,
        size               |-> abs(p.size),
        entry_price        |-> entryPrice(p),
        is_long            |-> p.size > 0,
        last_funding_index |-> p.lastFundingIndex,
        isolated           |-> FALSE,
        margin             |-> 0 ]

read_account(t) ==
  LET held == CHOOSE s \in [1..positionCount(engine, t) -> engine.marketBitmap[t]] :
                \A i, j \in DOMAIN s : i < j => s[i] < s[j]
  IN  [ collateral |-> << [value |-> vault.balances[t], haircut_bps |-> 0] >>,
        positions  |-> [i \in DOMAIN held |-> read_position(t, held[i])] ]

\* read_account's markets; `active` means "has a valid config" (Engine.sol:635).
read_markets ==
  [m \in Markets |->
    [ initial_margin_bps     |-> MarketParams[m].initialMarginBps,
      maintenance_margin_bps |-> MarketParams[m].maintenanceMarginBps,
      liquidation_fee_bps    |-> MarketParams[m].liquidationFeeBps,
      active                 |-> TRUE,
      oracle_price           |-> prices[m],
      funding_index_long     |-> engine.funding[m].longIndex,
      funding_index_short    |-> engine.funding[m].shortIndex ]]

\* run's "health": the values both sides report.
HealthAgrees(t, rust) ==
  LET sol == accountHealth(vault, engine, prices, t)
  IN  /\ (rust.err = "Ok") = priced(engine, prices, t)
      /\ rust.err = "Ok" =>
           /\ rust.value.equity = sol.equity
           /\ rust.value.initial_margin_required = sol.initialMarginRequired
           /\ rust.value.maintenance_margin_required = sol.maintenanceMarginRequired
           /\ rust.value.liquidatable = sol.liquidatable

\* run's "withdraw": both let the same amounts out.
WithdrawalAgrees(t, account, amount) ==
  (Rust!validate_withdrawal(account, read_markets, amount).err = "Ok")
    = validateWithdrawal(vault, engine, prices, t, amount)

\* run's "plan": the size a liquidator may take in one step.
PlanAgrees(t, m, rust) ==
  /\ (rust.err = "Ok")
       = (priced(engine, prices, t) /\ accountHealth(vault, engine, prices, t).liquidatable)
  /\ rust.err = "Ok" =>
       rust.value.close_size
         = planLiquidation(vault, engine, prices, t, m, partialLiquidationBps)

plan_of(account, m) ==
  Rust!plan_liquidation(account, read_markets, m, partialLiquidationBps)

\* run's "premium", "funding" and "ceildiv": one update from the market's present
\* mark, and the rounding of what each position owes for it.
FundingAgrees(m) ==
  LET f       == engine.funding[m]
      at      == now + 1
      premium == Rust!premium_from_mark(engine.marks[m].lastPrice, prices[m])
      rust    == Rust!update_from_premium(
                   [ imbalance_coeff   |-> MarketParams[m].premiumCoeff,
                     max_rate_per_hour |-> MarketParams[m].maxRatePerHour ],
                   [ long_index    |-> f.longIndex,
                     short_index   |-> f.shortIndex,
                     rate_per_hour |-> f.ratePerHour,
                     last_update   |-> f.lastUpdate ],
                   premium.value, at)
      sol     == updateFromPremium(m, f, premium.value, at)
      moved   == abs(sol.longIndex - f.longIndex)
  IN  /\ premium.err = "Ok" /\ f.lastUpdate > 0 =>
           rust = Rust!Ok([ long_index    |-> sol.longIndex,
                            short_index   |-> sol.shortIndex,
                            rate_per_hour |-> sol.ratePerHour,
                            last_update   |-> sol.lastUpdate ])
      /\ \A t \in Accounts :
           LET size == abs(engine.positions[t][m].size)
           IN  size > 0 /\ moved > 0 =>
                 Rust!ceil_div(size * moved, PRECISION) = Rust!Ok(mulPrecisionUp(size, moved))

-----------------------------------------------------------------------------
(* The order ticket.                                                       *)

\* The indexer's fee columns once it has caught up; the chain answers without it.
feeTables(f) ==
  { [available |-> FALSE],
    [available |-> TRUE, markets |-> f.marketRates, feeTier |-> f.accountTier] }

\* The reads of the router that GET /api/fees makes.
viemFeeChain(f) ==
  [ rebatesEnabled |-> f.rebatesEnabled,
    minNetRate     |-> f.minNetRate,
    tiers          |-> f.tiers,
    accountTier    |-> f.accountTier,
    marketRates    |-> f.marketRates ]

\* The router as it is, and with t in a tier that is unset, dearer or a rebate.
feeRouters(t) ==
  {feeRouter} \cup
  { [feeRouter EXCEPT !.tiers = [k \in {1} |-> r], !.accountTier[t] = 1,
                      !.rebatesEnabled = enabled] :
      r \in {Unset} \cup [makerRate : {-2, 2}, takerRate : {3}, set : {TRUE}],
      enabled \in BOOLEAN }

\* The rates shown are the ones a fill is charged, whichever source answered; the net
\* floor depends on the counterparty, and only raises the maker side.
RatesAgree(t, m) ==
  LET other == CHOOSE a \in Traders : a # t
  IN  \A f \in feeRouters(t) : \A sql \in feeTables(f) :
        LET shown == UI!resolveFees(sql, viemFeeChain(f), t).account.rates[m]
        IN  /\ shown.takerRate = effectiveRates(f, m, other, t).taker
            /\ shown.makerRate <= effectiveRates(f, m, t, other).maker
            /\ shown.makerRate + effectiveRates(f, m, t, other).taker >= f.minNetRate =>
                 shown.makerRate = effectiveRates(f, m, t, other).maker

\* A TicketInput: an order the trader enters, crossing the best quote or resting on an
\* empty book, with what useTrading and the order form read for it.
ticket(t, m, o) ==
  [ market      |-> MarketParams[m],
    active      |-> m \in activeMarkets,
    buy         |-> o.buy,
    kind        |-> o.kind,
    size        |-> o.size,
    limitPrice  |-> o.quoted,
    slippageBps |-> 1500,
    reduceOnly  |-> FALSE,
    postOnly    |-> FALSE,
    bestBid     |-> IF o.kind = "market" THEN o.quoted ELSE 0,
    bestAsk     |-> IF o.kind = "market" THEN o.quoted ELSE 0,
    indexPrice  |-> prices[m],
    position    |-> engine.positions[t][m],
    connected   |-> TRUE,
    health      |-> accountHealth(vault, engine, prices, t),
    rates       |-> UI!resolveFees([available |-> FALSE], viemFeeChain(feeRouter), t)
                     .account.rates[m] ]

\* What settling the previewed order does to t: the engine applies the fill and the
\* router charges its side of the fee.
feeOf(t, m, n, taker) ==
  LET other == CHOOSE a \in Traders : a # t
  IN  IF taker THEN quote(feeRouter, m, other, t, n).takerFee
               ELSE quote(feeRouter, m, t, other, n).makerFee

applied(t, m, x, price) ==
  trade(vault, engine, t, m, IF x.buy THEN x.size ELSE -x.size, price,
        mulPrecision(x.size, price), FALSE, TRUE, x.active)

roomAfter(t, r, fee) ==
  LET h == accountHealth(transferInternal(r.vault, t, FEE_ROUTER, fee), r.engine, prices, t)
  IN  h.equity - h.initialMarginRequired

\* What the quotient in an entry price can hide: a unit of price per unit of size,
\* before and after, and one unit for every other division on the way.
slack(t, m, size) == (abs(engine.positions[t][m].size) + abs(size)) \div PRECISION + 6

PreviewAgrees(x, shown, held, r) ==
  /\ shown.positionAfter.size = held.size
  /\ shown.positionAfter.openNotional = held.openNotional
  /\ shown.positionAfter.realized = r.realized
  /\ shown.positionAfter.increased = r.increased

\* The margin shown is the margin left, and an order the ticket lets through or blocks
\* is one the contracts would let through or refuse, all to rounding.
MarginAgrees(shown, fee, room, error) ==
  /\ IF shown.crosses THEN shown.fee = fee ELSE shown.fee <= fee
  /\ abs(shown.marginHeadroom - (fee - shown.fee) - room) <= error
  /\ shown.errors = {} /\ shown.positionAfter.increased => room >= -error - (fee - shown.fee)
  /\ shown.errors = {"insufficient_margin"} => room <= error

\* A market order is signed at a price a fill can reach, to one unit.
BandAgrees(m, x, shown) ==
  x.kind = "market" /\ insideBand(m, prices[m], UI!reference(x)) =>
    \E d \in {-1, 0, 1} : insideBand(m, prices[m], shown.limitPrice + d)

ShownAgrees(t, m, x, shown, r, fee) ==
  /\ PreviewAgrees(x, shown, r.engine.positions[t][m], r)
  /\ MarginAgrees(shown, fee, roomAfter(t, r, fee),
                  slack(t, m, shown.positionAfter.size))
  /\ BandAgrees(m, x, shown)

TicketAgrees(t, m, x, shown) ==
  ShownAgrees(t, m, x, shown, applied(t, m, x, shown.execPrice),
              feeOf(t, m, shown.notional, shown.crosses))

\* The position table: entry price exactly, profit to rounding, and a liquidation price
\* that has the healthy prices on one side and the unhealthy ones on the other.
PositionAgrees(t, m, p, liq, room) ==
  LET short(price) ==
        LET h == accountHealth(vault, engine, [prices EXCEPT ![m] = price], t)
        IN  h.equity < h.maintenanceMarginRequired
  IN  /\ UI!entryPrice(p) = entryPrice(p)
      /\ abs(UI!unrealizedPnl(p, prices[m]) - unrealizedPnl(p, prices[m]))
           <= abs(p.size) \div PRECISION + 2
      /\ short(liq + room) = (p.size < 0)
      /\ liq > room => short(liq - room) = (p.size > 0)

\* A position's liquidation price, for an account that holds no other.
liquidationOf(t, m) ==
  UI!liquidationPrice(engine.positions[t][m].size,
                      accountHealth(vault, engine, prices, t).equity, prices[m],
                      MarketParams[m].maintenanceMarginBps, 0)

EvaluatedAgrees(t, m, x) == TicketAgrees(t, m, x, UI!evaluateTicket(x))

\* The router knows nothing of positions, so its rates are compared while t has none.
TicketsAgree(t, m) ==
  LET p == engine.positions[t][m]
  IN  /\ CASE p.size = 0 -> RatesAgree(t, m)
            [] engine.marketBitmap[t] = {m} ->
                 PositionAgrees(t, m, p, liquidationOf(t, m),
                                (6 * PRECISION) \div abs(p.size) + 2)
            [] OTHER -> TRUE
      /\ \A o \in TicketOrders : EvaluatedAgrees(t, m, ticket(t, m, o))

-----------------------------------------------------------------------------
(* The liquidation keeper.                                                 *)

\* adl as the contract would take it: everything it checks before it moves a position.
adlAccepted(counterparty, m, shortfall) ==
  LET cp   == engine.positions[counterparty][m]
      bs   == engine.positions[INSURANCE][m]
      n    == notional(abs(cp.size), prices[m])
      upnl == (IF cp.size > 0 THEN n ELSE -n) - cp.openNotional
  IN  /\ shortfall > 0 /\ prices[m] > 0
      /\ bs.size # 0 /\ cp.size # 0 /\ (cp.size > 0) # (bs.size > 0)
      /\ upnl > 0

\* The keeper's badDebtState.
badDebtState(t) ==
  [ positionCount |-> positionCount(engine, t),
    balance       |-> vault.balances[t],
    recordedDebt  |-> insurance.recordedDebt[t],
    operating     |-> operatingBalance(vault, insurance) ]

\* The market it starts a liquidation with is one the contract has a size to close in, it
\* deleverages exactly when some counterparty would be accepted, and it settles a bad
\* debt exactly when settling changes something.
KeeperAgrees ==
  /\ \A t \in Traders :
       priced(engine, prices, t) /\ accountHealth(vault, engine, prices, t).liquidatable =>
         LET picked == Plans!pickLiquidationMarket(engine.positions[t], prices, PRECISION)
         IN  /\ picked # {}
             /\ \A m \in picked : closeSizeFor(t, m, abs(engine.positions[t][m].size)) > 0
  /\ \A m \in Markets :
       LET picked    == Plans!pickAdlCounterparty(engine.positions[INSURANCE][m].size,
                          [t \in Traders |-> engine.positions[t][m]], prices[m], PRECISION)
           shortfall == unfundedShortfall(vault, engine, insurance, prices)
       IN  prices[m] > 0 /\ engine.positions[INSURANCE][m].size # 0 /\ shortfall > 0 =>
             /\ \A t \in picked : adlAccepted(t, m, shortfall)
             /\ picked = {} => \A t \in Traders : ~adlAccepted(t, m, shortfall)
  /\ \A t \in Traders :
       LET settled == settleBadDebt(vault, insurance, t)
       IN  engine.marketBitmap[t] = {} /\ vault.balances[t] < 0 =>
             Plans!settlesBadDebt(badDebtState(t))
               = (settled.vault # vault \/ settled.insurance # insurance)

-----------------------------------------------------------------------------
\* In every reachable state the Rust reference and the contracts agree on every
\* account's health, on which withdrawals leave it safe, on how much of each
\* position one liquidation step may take, and on the next funding update
\* (Differential.t.sol: "value for value and error for error"); and the order ticket
\* shows the position, the fee and the margin that settling the order would leave, and
\* the price at which the position would be liquidated (math.ts: "mirroring the
\* contracts"), to the rounding of one entry price; and what the liquidation keeper
\* picks is what the contracts accept (liquidation.ts: "as `Liquidation.adl` computes
\* it", "only when something would change").
PortAgrees ==
  /\ KeeperAgrees
  /\ \A t \in {a \in Accounts : engine.marketBitmap[a] # {}} :
       LET account == read_account(t)
       IN  /\ HealthAgrees(t, Rust!account_health(account, read_markets))
           /\ \A a \in Amounts : WithdrawalAgrees(t, account, toInternal(a))
           /\ \A m \in engine.marketBitmap[t] : PlanAgrees(t, m, plan_of(account, m))
  /\ \A m \in Markets : FundingAgrees(m)
  /\ \A t \in Traders : \A m \in Markets :
       priced(engine, prices, t) /\ prices[m] > 0 => TicketsAgree(t, m)

\* A planned close below the per-step cap restores maintenance: closing that size at
\* the index and paying the penalty leaves equity at the requirement or above, for
\* every rounding of the divisions on the way (liquidation.rs: "the smallest close
\* that restores maintenance ... +1 so rounding never leaves a dust-sized shortfall").
PlanRestores ==
  \A t \in Traders : \A m \in engine.marketBitmap[t] :
    LET plan  == plan_of(read_account(t), m)
        size  == abs(engine.positions[t][m].size)
        left  == size - plan.value.close_size
        freed == Rust!maintenance_of([market_id |-> m, size |-> size], read_markets).value
                 - Rust!maintenance_of([market_id |-> m, size |-> left], read_markets).value
        h     == plan.value.expected_health
    IN  plan.err = "Ok" =>
          \/ plan.value.mode = "Full"
          \/ plan.value.close_size = mulDiv(size, partialLiquidationBps, BPS_DENOMINATOR)
          \/ h.equity - plan.value.penalty >= h.maintenance_margin_required - freed
=============================================================================
