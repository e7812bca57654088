----------------------------- MODULE OrderTicket -----------------------------
(***************************************************************************)
(* What the browser shows before an order is signed: position arithmetic   *)
(* (lib/math.ts), the account's fee rates (lib/fees.ts) and the ticket's   *)
(* own checks (lib/market/order-ticket.ts).  All of it copies formulas of  *)
(* the contracts, and is only a preview: the contracts decide.             *)
(*                                                                         *)
(* A price or a size of 0 is one that is missing (null, an empty field, an *)
(* empty book, an oracle that has not published).                          *)
(***************************************************************************)
EXTENDS Integers

CONSTANTS PRECISION, RATE_DENOMINATOR

BPS == 10000

abs(a) == IF a < 0 THEN -a ELSE a
max(a, b) == IF a > b THEN a ELSE b
signed(positive, a) == IF positive THEN a ELSE -a

\* bigint division truncates toward zero; every divisor here is positive.
mulDiv(a, b, d) == signed(a * b >= 0, abs(a * b) \div d)

notional(size, price) == mulDiv(abs(size), price, PRECISION)

\* A fee rounds up, a rebate toward zero.
feeFor(fillNotional, rate) ==
  CASE fillNotional <= 0 \/ rate = 0 -> 0
    [] fillNotional > 0 /\ rate < 0  -> -mulDiv(fillNotional, -rate, RATE_DENOMINATOR)
    [] OTHER -> (fillNotional * rate - 1) \div RATE_DENOMINATOR + 1

entryPrice(p) ==
  IF p.size = 0 THEN 0 ELSE max(1, mulDiv(abs(p.openNotional), PRECISION, abs(p.size)))

unrealizedPnl(p, price) ==
  IF p.size = 0 THEN 0 ELSE signed(p.size > 0, notional(p.size, price)) - p.openNotional

marginAt(size, price, bps) == mulDiv(notional(size, price), bps, BPS)

-----------------------------------------------------------------------------
(* The position after a fill of signed size delta.                         *)

opened(p, delta, fill) ==
  [ size         |-> p.size + delta,
    openNotional |-> p.openNotional + signed(delta > 0, fill),
    realized     |-> 0,
    increased    |-> TRUE ]

\* Close first, with the basis removed pro rata; what is left opens the other side.
closed(p, delta, price, fill) ==
  LET held          == abs(p.size)
      closeQty      == IF abs(delta) < held THEN abs(delta) ELSE held
      residual      == abs(delta) - closeQty
      closeNotional == IF residual = 0 THEN fill ELSE notional(closeQty, price)
      removedBasis  == IF closeQty = held THEN p.openNotional
                       ELSE mulDiv(p.openNotional, closeQty, held)
  IN  [ size         |-> p.size + delta,
        openNotional |-> p.openNotional - removedBasis
                           + signed(delta > 0, IF residual > 0 THEN fill - closeNotional ELSE 0),
        realized     |-> signed(p.size > 0, closeNotional) - removedBasis,
        increased    |-> residual > 0 ]

applyFill(p, delta, price) ==
  LET fill == notional(delta, price)
  IN  CASE delta = 0 -> [ size |-> p.size, openNotional |-> p.openNotional,
                          realized |-> 0, increased |-> FALSE ]
        [] delta # 0 /\ (p.size = 0 \/ (p.size > 0) = (delta > 0)) -> opened(p, delta, fill)
        [] OTHER -> closed(p, delta, price, fill)

\* The index at which equity meets maintenance, everything else held still, or 0.
liquidationPrice(size, equity, price, maintenanceBps, other) ==
  LET value       == mulDiv(abs(size), price, PRECISION)
      numerator   == IF size > 0 THEN other + value - equity ELSE equity + value - other
      denominator == abs(size) * (IF size > 0 THEN BPS - maintenanceBps
                                              ELSE BPS + maintenanceBps)
  IN  IF size = 0 \/ numerator <= 0 \/ denominator <= 0 THEN 0
      ELSE (numerator * PRECISION * BPS) \div denominator

-----------------------------------------------------------------------------
(* GET /api/fees.  `sql` is the indexer's projection, or not `available`;  *)
(* `chain` is the fee router.  Tier definitions and the two global         *)
(* settings always come from the chain.                                    *)

applyRebatePolicy(r, rebatesEnabled) ==
  [ makerRate |-> IF r.makerRate < 0 /\ ~rebatesEnabled THEN 0 ELSE r.makerRate,
    takerRate |-> r.takerRate ]

effectiveRates(markets, tier, tiers, rebatesEnabled) ==
  LET useTier == tier # 0 /\ tiers[tier].set
  IN  [ effectiveTier |-> IF useTier THEN tier ELSE 0,
        rates         |-> [m \in DOMAIN markets |->
                             applyRebatePolicy(IF useTier THEN tiers[tier] ELSE markets[m],
                                               rebatesEnabled)] ]

\* A market without a schedule cannot trade and is left out.
marketsFromChain(chain) ==
  [m \in {k \in DOMAIN chain.marketRates : chain.marketRates[k].set} |-> chain.marketRates[m]]

resolveFees(sql, chain, account) ==
  LET markets == IF sql.available THEN sql.markets ELSE marketsFromChain(chain)
      tier    == IF sql.available THEN sql.feeTier[account] ELSE chain.accountTier[account]
  IN  [ rebatesEnabled |-> chain.rebatesEnabled,
        netRateFloor   |-> chain.minNetRate,
        source         |-> IF sql.available THEN "indexer" ELSE "chain",
        markets        |-> [m \in DOMAIN markets |->
                              applyRebatePolicy(markets[m], chain.rebatesEnabled)],
        account        |-> effectiveRates(markets, tier, chain.tiers, chain.rebatesEnabled) ]

-----------------------------------------------------------------------------
(* evaluateTicket, on a TicketInput x.                                     *)

\* A market order is priced off the best opposite quote or the index, with slippage,
\* and cut back to the edge of the execution band.
withSlippage(buy, price, bps) ==
  mulDiv(price, IF buy THEN BPS + bps ELSE BPS - bps, BPS)

clampToBand(x, price) ==
  LET edge   == withSlippage(x.buy, x.indexPrice, x.market.maxExecutionDeviationBps)
      beyond == IF x.buy THEN price > edge ELSE price < edge
  IN  IF x.indexPrice > 0 /\ beyond THEN edge ELSE price

opposite(x) == IF x.buy THEN x.bestAsk ELSE x.bestBid
reference(x) == IF opposite(x) # 0 THEN opposite(x) ELSE x.indexPrice

limitPrice(x) ==
  CASE x.kind = "limit" -> x.limitPrice
    [] x.kind = "market" /\ reference(x) = 0 -> 0
    [] OTHER -> max(1, clampToBand(x, withSlippage(x.buy, reference(x), x.slippageBps)))

crosses(x, limit) ==
  /\ limit # 0 /\ opposite(x) # 0
  /\ IF x.buy THEN limit >= opposite(x) ELSE limit <= opposite(x)

reduceOnlyErrors(x) ==
  IF ~x.reduceOnly \/ x.size = 0            THEN {}
  ELSE IF x.position.size = 0               THEN {"reduce_only_no_position"}
  ELSE IF (x.position.size > 0) = x.buy     THEN {"reduce_only_wrong_side"}
  ELSE IF x.size > abs(x.position.size)     THEN {"reduce_only_too_large"}
  ELSE {}

\* The account's health after the fill f at `price`: away from the index it moves equity
\* at once, and the other positions are held still.
healthAfter(x, price, f) ==
  LET own(bps)    == marginAt(x.position.size, x.indexPrice, bps)
      initial     == x.market.initialMarginBps
      maintenance == x.market.maintenanceMarginBps
      equity      == x.health.equity - f.fee
                       + mulDiv(signed(x.buy, x.size), x.indexPrice - price, PRECISION)
  IN  [ marginHeadroom   |-> equity - (x.health.initialMarginRequired - own(initial)
                                         + marginAt(f.after.size, x.indexPrice, initial)),
        liquidationPrice |->
          liquidationPrice(f.after.size, equity, x.indexPrice, maintenance,
                           max(0, x.health.maintenanceMarginRequired - own(maintenance))) ]

\* A crossing order fills at the resting price, a resting one at its own limit.
pricing(x, limit) ==
  [ limitPrice |-> limit,
    crosses    |-> crosses(x, limit),
    execPrice  |-> IF crosses(x, limit) THEN opposite(x) ELSE limit ]

filling(x, p) ==
  LET sized == p.execPrice # 0 /\ x.size # 0
      rate  == IF p.crosses THEN x.rates.takerRate ELSE x.rates.makerRate
  IN  [ notional |-> IF sized THEN notional(x.size, p.execPrice) ELSE 0,
        fee      |-> IF sized THEN feeFor(notional(x.size, p.execPrice), rate) ELSE 0,
        after    |-> applyFill(x.position, IF sized THEN signed(x.buy, x.size) ELSE 0,
                               p.execPrice),
        known    |-> sized /\ x.connected /\ x.indexPrice > 0 ]

errors(x, p, n) ==
  UNION {
    IF p.limitPrice # 0 THEN {}
    ELSE {IF x.kind = "limit" THEN "no_price" ELSE "no_reference_price"},
    IF ~x.active /\ ~x.reduceOnly THEN {"market_inactive"} ELSE {},
    IF x.size = 0 THEN {"no_size"} ELSE {},
    IF x.postOnly /\ x.kind = "limit" /\ p.crosses THEN {"post_only_would_cross"} ELSE {},
    IF 0 < n /\ n < x.market.minFillNotional THEN {"below_min_notional"} ELSE {},
    reduceOnlyErrors(x) }

\* Only a fill that adds exposure needs initial margin.
result(x, p, f, health) ==
  [ limitPrice       |-> p.limitPrice,
    execPrice        |-> p.execPrice,
    crosses          |-> p.crosses,
    notional         |-> f.notional,
    fee              |-> f.fee,
    orderMargin      |-> mulDiv(f.notional, x.market.initialMarginBps, BPS),
    positionAfter    |-> f.after,
    marginHeadroom   |-> IF f.known THEN health.marginHeadroom ELSE 0,
    liquidationPrice |-> IF f.known THEN health.liquidationPrice ELSE 0,
    errors           |-> errors(x, p, f.notional)
                           \cup (IF f.known /\ f.after.increased /\ health.marginHeadroom < 0
                                 THEN {"insufficient_margin"} ELSE {}) ]

evaluatePriced(x, p) ==
  LET f == filling(x, p)
  IN  result(x, p, f, healthAfter(x, p.execPrice, f))

evaluateTicket(x) == evaluatePriced(x, pricing(x, limitPrice(x)))
=============================================================================
