------------------------------- MODULE Engine --------------------------------
(***************************************************************************)
(* Engine.sol with the libraries it calls (RiskLib, LiquidationLib,        *)
(* FundingLib): positions, cost basis, open interest, funding and the mark *)
(* TWAP, as operators on the engine's storage record.                      *)
(*                                                                         *)
(* A position stores its signed size, the signed notional it was opened at *)
(* (its cost basis) and the funding index it last settled at.  A market id *)
(* in `marketBitmap[t]` is the bit the code sets while t holds a position. *)
(***************************************************************************)
EXTENDS Vault, FiniteSetsExt

CONSTANTS
  Markets,                    \* listed market ids
  MarketParams,               \* RiskParams' configuration of each market
  MAX_POSITIONS_PER_ACCOUNT,
  SECS_PER_HOUR,
  MAX_FUNDING_ELAPSED_SECS

MarketConfig ==
  [ initialMarginBps         : Nat,
    maintenanceMarginBps     : Nat,
    liquidationFeeBps        : Nat,
    maxExecutionDeviationBps : Nat,
    maxOpenInterest          : Nat,
    minFillNotional          : Nat,
    oiPolicyBps              : Nat,
    premiumCoeff             : Nat,
    maxRatePerHour           : Nat ]

ASSUME EngineConfig ==
  /\ MarketParams \in [Markets -> MarketConfig]
  /\ MAX_POSITIONS_PER_ACCOUNT \in Nat
  /\ SECS_PER_HOUR \in Nat \ {0}
  /\ MAX_FUNDING_ELAPSED_SECS \in Nat

Position == [size : Int, openNotional : Int, lastFundingIndex : Int]
Flat == [size |-> 0, openNotional |-> 0, lastFundingIndex |-> 0]

EngineState ==
  [ positions    : [Accounts -> [Markets -> Position]],
    marketBitmap : [Accounts -> SUBSET Markets],
    openInterest : [Markets -> [long : Int, short : Int]],
    netCostBasis : Int,
    funding      : [Markets -> [longIndex : Int, shortIndex : Int,
                                ratePerHour : Int, lastUpdate : Int]],
    marks        : [Markets -> [lastPrice : Int, lastTs : Int,
                                cumulative : Int, windowStart : Int]] ]

initialEngine ==
  [ positions    |-> [a \in Accounts |-> [m \in Markets |-> Flat]],
    marketBitmap |-> [a \in Accounts |-> {}],
    openInterest |-> [m \in Markets |-> [long |-> 0, short |-> 0]],
    netCostBasis |-> 0,
    funding      |-> [m \in Markets |-> [longIndex |-> 0, shortIndex |-> 0,
                                         ratePerHour |-> 0, lastUpdate |-> 0]],
    marks        |-> [m \in Markets |-> [lastPrice |-> 0, lastTs |-> 0,
                                         cumulative |-> 0, windowStart |-> 0]] ]

positionCount(e, t) == Cardinality(e.marketBitmap[t])

\* The funding index a position on one side of the market accrues against.
sideIndex(e, m, long) ==
  IF long THEN e.funding[m].longIndex ELSE e.funding[m].shortIndex

-----------------------------------------------------------------------------
(* Account health (RiskLib.accountHealth on Engine._riskInputs).  The       *)
(* engine values every position cross-margin, with no haircut and no       *)
(* isolated margin.  A price of 0 stands for an index the oracle refuses.  *)

notional(size, price) == mulPrecision(size, price)

\* Entry is derived from the cost basis and floored at one unit.
entryPrice(p) == max(1, divPrecision(abs(p.openNotional), abs(p.size)))

\* Mutant: a short is marked like a long.
unrealizedPnlUnsigned(p, price) == mulPrecision(abs(p.size), price - entryPrice(p))

unrealizedPnl(p, price) ==
  mulPrecision(abs(p.size),
               IF p.size > 0 THEN price - entryPrice(p) ELSE entryPrice(p) - price)

fundingPnl(e, m, p) ==
  -mulPrecision(abs(p.size), sideIndex(e, m, p.size > 0) - p.lastFundingIndex)

accountHealth(v, e, prices, t) ==
  LET held == e.marketBitmap[t]
      upnl(m) == unrealizedPnl(e.positions[t][m], prices[m])
                 + fundingPnl(e, m, e.positions[t][m])
      required(bps(_)) ==
        SumFunction([m \in held |-> applyBps(notional(abs(e.positions[t][m].size), prices[m]),
                                             bps(m))])
      equity == v.balances[t] + SumFunction([m \in held |-> upnl(m)])
      maintenance == required(LAMBDA m : MarketParams[m].maintenanceMarginBps)
  IN  [ equity                    |-> equity,
        initialMarginRequired     |-> required(LAMBDA m : MarketParams[m].initialMarginBps),
        maintenanceMarginRequired |-> maintenance,
        liquidatable              |-> maintenance > 0 /\ equity < maintenance ]

\* accountHealth reverts unless every held market can be priced.
priced(e, prices, t) == \A m \in e.marketBitmap[t] : prices[m] > 0

validateWithdrawal(v, e, prices, t, amount) ==
  LET h == accountHealth(v, e, prices, t)
  IN  /\ priced(e, prices, t)
      /\ h.equity - amount >= h.initialMarginRequired

\* requireMargin: run on both sides of a fill, after its fees.
requireMargin(v, e, prices, t, increased) ==
  LET h == accountHealth(v, e, prices, t)
  IN  \/ t = INSURANCE /\ ~increased
      \/ /\ priced(e, prices, t)
         /\ CASE increased                 -> h.equity >= h.initialMarginRequired
              [] e.marketBitmap[t] = {}    -> h.equity >= 0
              [] OTHER                     -> ~h.liquidatable

\* LiquidationLib.planLiquidation for a liquidatable account: the smallest close
\* that restores maintenance margin after the penalty, capped per step.
planLiquidation(v, e, prices, t, m, partialBps) ==
  LET h          == accountHealth(v, e, prices, t)
      size       == abs(e.positions[t][m].size)
      shortfall  == h.maintenanceMarginRequired - h.equity
      maxPartial == mulDiv(size, partialBps, BPS_DENOMINATOR)
      freed      == mulDiv(notional(size, prices[m]),
                           MarketParams[m].maintenanceMarginBps
                             - MarketParams[m].liquidationFeeBps,
                           BPS_DENOMINATOR)
      minToCover == IF freed <= 0 THEN size ELSE mulDiv(size, shortfall, freed) + 1
  IN  CASE minToCover >= size       -> size
        [] minToCover <= maxPartial -> minToCover
        [] OTHER                    -> maxPartial

-----------------------------------------------------------------------------
(* One side of a trade.                                                    *)

\* Mutant: payers round down like receivers.
settleFundingRoundedDown(v, e, t, m) ==
  LET p == e.positions[t][m]
      d == sideIndex(e, m, p.size > 0) - p.lastFundingIndex
  IN  transferInternal(v, t, FUNDING_POOL, mulPrecision(abs(p.size), d))

\* _settleFunding: payers round up, receivers down, through the pool account.
settleFunding(v, e, t, m) ==
  LET p == e.positions[t][m]
      d == sideIndex(e, m, p.size > 0) - p.lastFundingIndex
  IN  CASE p.size = 0 \/ d = 0 -> v
        [] p.size # 0 /\ d > 0 ->
             transferInternal(v, t, FUNDING_POOL, mulPrecisionUp(abs(p.size), d))
        [] p.size # 0 /\ d < 0 ->
             transferInternal(v, FUNDING_POOL, t, mulPrecision(abs(p.size), -d))

\* Mutant: the opened part is priced on its own instead of as the remainder.
splitTradeSeparate(p, delta, price, n) ==
  LET opposite      == p.size # 0 /\ (p.size > 0) # (delta > 0)
      closeQty      == IF opposite THEN min(abs(p.size), abs(delta)) ELSE 0
      residual      == abs(delta) - closeQty
      closeNotional == IF residual = 0 THEN n ELSE mulPrecision(closeQty, price)
      opened        == mulPrecision(residual, price)
      removedBasis  == IF closeQty = 0 THEN 0
                       ELSE IF closeQty = abs(p.size) THEN p.openNotional
                       ELSE mulDiv(p.openNotional, closeQty, abs(p.size))
  IN  [ closeQty      |-> closeQty,
        residual      |-> residual,
        addedBasis    |-> IF delta > 0 THEN opened ELSE -opened,
        removedBasis  |-> removedBasis,
        realized      |-> IF closeQty = 0 THEN 0
                          ELSE (IF delta > 0 THEN -closeNotional ELSE closeNotional)
                               - removedBasis ]

\* How _trade divides a fill of signed size delta between closing the position
\* and opening on delta's side.  closeQty = 0 is a pure open, residual = 0 a pure
\* close; the two notional portions always add up to the fill's.
splitTrade(p, delta, price, n) ==
  LET opposite      == p.size # 0 /\ (p.size > 0) # (delta > 0)
      closeQty      == IF opposite THEN min(abs(p.size), abs(delta)) ELSE 0
      residual      == abs(delta) - closeQty
      closeNotional == IF residual = 0 THEN n ELSE mulPrecision(closeQty, price)
      removedBasis  == IF closeQty = 0 THEN 0
                       ELSE IF closeQty = abs(p.size) THEN p.openNotional
                       ELSE mulDiv(p.openNotional, closeQty, abs(p.size))
  IN  [ closeQty      |-> closeQty,
        residual      |-> residual,
        addedBasis    |-> IF delta > 0 THEN n - closeNotional ELSE closeNotional - n,
        removedBasis  |-> removedBasis,
        realized      |-> IF closeQty = 0 THEN 0
                          ELSE (IF delta > 0 THEN -closeNotional ELSE closeNotional)
                               - removedBasis ]

\* The position _trade stores: settled funding, less the closed part, plus the
\* opened part at the opening side's index.
newPosition(e, t, m, delta, sp) ==
  LET p == e.positions[t][m]
  IN  IF p.size + delta = 0 THEN Flat
      ELSE [ size             |-> p.size + delta,
             openNotional     |-> p.openNotional - sp.removedBasis + sp.addedBasis,
             lastFundingIndex |-> sideIndex(e, m, p.size + delta > 0) ]

\* Mutant: a flip opens the whole fill on the new side.
changeOpenInterestWhole(oi, p, delta, sp) ==
  [ long  |-> oi.long  - (IF p.size > 0 THEN sp.closeQty ELSE 0)
                       + (IF delta > 0 /\ sp.residual > 0 THEN delta ELSE 0),
    short |-> oi.short - (IF p.size < 0 THEN sp.closeQty ELSE 0)
                       + (IF delta < 0 /\ sp.residual > 0 THEN -delta ELSE 0) ]

changeOpenInterest(oi, p, delta, sp) ==
  [ long  |-> oi.long  - (IF p.size > 0 THEN sp.closeQty ELSE 0)
                       + (IF delta > 0 THEN sp.residual ELSE 0),
    short |-> oi.short - (IF p.size < 0 THEN sp.closeQty ELSE 0)
                       + (IF delta < 0 THEN sp.residual ELSE 0) ]

\* The checks _trade makes on the way.
tradeReverts(e, t, p, sp, reduceOnly, enforceLimits, active) ==
  \/ reduceOnly /\ sp.residual > 0
  \/ enforceLimits /\ sp.residual > 0 /\ ~active
  \/ enforceLimits /\ p.size = 0 /\ positionCount(e, t) >= MAX_POSITIONS_PER_ACCOUNT

\* _trade: settle funding, update position, open interest and cost basis, and
\* book the realized PnL.
trade(v, e, t, m, delta, price, n, reduceOnly, enforceLimits, active) ==
  LET p  == e.positions[t][m]
      sp == splitTrade(p, delta, price, n)
      np == newPosition(e, t, m, delta, sp)
  IN  [ vault     |-> applyPnl(settleFunding(v, e, t, m), t, sp.realized),
        engine    |-> [e EXCEPT
                         !.positions[t][m] = np,
                         !.marketBitmap[t] = IF np.size = 0 THEN @ \ {m} ELSE @ \cup {m},
                         !.openInterest[m] = changeOpenInterest(@, p, delta, sp),
                         !.netCostBasis    = @ - sp.removedBasis + sp.addedBasis],
        increased |-> sp.residual > 0,
        realized  |-> sp.realized,
        reverted  |-> tradeReverts(e, t, p, sp, reduceOnly, enforceLimits, active) ]

\* _checkOpenInterest, with the insurance capacity the OI policy stands on.
checkOpenInterest(e, m, price, capacity) ==
  LET oi  == e.openInterest[m].long + e.openInterest[m].short
      bps == MarketParams[m].oiPolicyBps
  IN  /\ oi <= MarketParams[m].maxOpenInterest
      /\ bps # 0 => notional(oi, price) <= mulDiv(capacity, bps, BPS_DENOMINATOR)

\* applyFill's execution band around the index.
insideBand(m, index, price) ==
  LET maxDelta == applyBps(index, MarketParams[m].maxExecutionDeviationBps)
  IN  index - maxDelta <= price /\ price <= index + maxDelta

-----------------------------------------------------------------------------
(* The mark TWAP and the funding clock.                                    *)

accrueMark(st, now) ==
  [st EXCEPT !.cumulative = IF now > st.lastTs /\ st.lastPrice > 0
                            THEN @ + st.lastPrice * (now - st.lastTs) ELSE @,
             !.lastTs = now]

recordMark(e, m, price, now) ==
  LET st    == e.marks[m]
      first == st.lastPrice <= 0
      acc   == accrueMark(st, now)
  IN  IF st.lastPrice = price /\ st.lastTs = now THEN e
      ELSE [e EXCEPT
              !.marks[m] = [acc EXCEPT !.lastPrice = price,
                                       !.windowStart = IF first THEN now ELSE @,
                                       !.cumulative = IF first THEN 0 ELSE @],
              !.funding[m].lastUpdate = IF first /\ @ = 0 THEN now ELSE @]

\* _consumeTwap: the average since the last read.
twap(st, now) ==
  IF st.lastPrice <= 0 THEN 0
  ELSE IF now > st.windowStart
       THEN mulDiv(accrueMark(st, now).cumulative, 1, now - st.windowStart)
       ELSE st.lastPrice

closeWindow(st, now) ==
  IF st.lastPrice <= 0 THEN st
  ELSE [accrueMark(st, now) EXCEPT !.cumulative = 0, !.windowStart = now]

\* FundingLib.updateFromPremium, after updateFunding started an unset clock.
updateFromPremium(m, f, premium, now) ==
  LET started == IF f.lastUpdate = 0 THEN now ELSE f.lastUpdate
      limit   == MarketParams[m].maxRatePerHour
      rate    == clamp(mulPrecision(premium, MarketParams[m].premiumCoeff), -limit, limit)
      elapsed == min(now - started, MAX_FUNDING_ELAPSED_SECS)
      delta   == mulDiv(rate, elapsed, SECS_PER_HOUR)
  IN  IF now <= started THEN [f EXCEPT !.lastUpdate = started]
      ELSE [ longIndex   |-> f.longIndex + delta,
             shortIndex  |-> f.shortIndex - delta,
             ratePerHour |-> rate,
             lastUpdate  |-> now ]

\* updateFunding: reads the mark and closes its window, whatever the index says.
updateFunding(e, m, index, now) ==
  LET mark    == twap(e.marks[m], now)
      premium == IF mark > 0 THEN divPrecision(mark - index, index) ELSE 0
  IN  [e EXCEPT !.marks[m] = closeWindow(@, now),
                !.funding[m] = updateFromPremium(m, @, premium, now)]
=============================================================================
