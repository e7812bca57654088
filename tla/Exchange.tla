------------------------------ MODULE Exchange -------------------------------
(***************************************************************************)
(* The settlement core as one system: Vault, Engine, FeeRouter, Insurance, *)
(* Liquidation and the settlement half of OrderGateway, each transaction   *)
(* one action.  A call that reverts leaves no trace, so the checks on the  *)
(* way through a transaction are the guards of its action.                 *)
(*                                                                         *)
(* The oracle is the environment: any listed market's index moves to any   *)
(* price of `Prices`, or to 0, the index the adapter refuses to report.    *)
(* A fill is any pair of signed orders; which orders may be filled is the  *)
(* subject of OrderGateway.tla.                                            *)
(***************************************************************************)
EXTENDS Insurance

CONSTANTS
  Groups,            \* groups of operations this instance explores
  Prices,            \* index prices the oracle may report
  Fills,             \* pairs of matched orders with size and price
  Amounts,           \* token amounts of deposits, withdrawals, donations, stakes
  ShareAmounts,      \* shares in an unstake request
  SweepAmounts,      \* internal amounts of a sweep
  MaxSizes,          \* a liquidator's and an ADL caller's maxSize
  Schedules,         \* <<makerRate, takerRate>> pairs governance may set
  NetRates,          \* minimum net rates governance may set
  Splits,            \* <<insuranceBps, referralBps>> governance may set
  LiquidationSplits, \* insurance shares of a penalty governance may set
  Caps,              \* <<total, perAccount>> deposit caps
  LimitChoices,      \* backstop unwind limits governance may set
  Ticks,             \* seconds between blocks
  InitialCaps, InitialRates, InitialLimits,
  maxRewardBps, partialLiquidationBps,    \* Liquidation.setParams
  Pausable,          \* contracts the guardian may pause in this instance
  MaxTime,           \* bound: the clock stops here
  MaxTxs             \* bound: transactions in a behaviour

\* A fill pairs orders of externally owned accounts or of the Insurance contract,
\* the only contract of the protocol that signs orders (ERC-1271).
Fill ==
  [ market : Markets, maker : Traders \cup {INSURANCE}, taker : Traders \cup {INSURANCE},
    makerLong : BOOLEAN, size : Nat, price : Nat,
    makerReduceOnly : BOOLEAN, takerReduceOnly : BOOLEAN,
    makerReferrer : Traders \cup {NO_REFERRER}, takerReferrer : Traders \cup {NO_REFERRER} ]

Contracts == {"vault", "engine", "gateway", "liquidation", "insurance"}

ASSUME Inputs ==
  /\ Prices \subseteq Nat /\ Fills \subseteq Fill /\ Amounts \subseteq Nat
  /\ ShareAmounts \subseteq Nat /\ SweepAmounts \subseteq Nat /\ MaxSizes \subseteq Nat
  /\ Schedules \subseteq Int \X Int /\ NetRates \subseteq Int
  /\ Splits \subseteq Nat \X Nat /\ LiquidationSplits \subseteq Nat
  /\ Caps \subseteq Nat \X Nat /\ LimitChoices \subseteq UnwindLimits
  /\ Ticks \subseteq Nat /\ Pausable \subseteq Contracts

ASSUME Deployment ==
  /\ InitialCaps \in Nat \X Nat /\ InitialLimits \in UnwindLimits
  /\ InitialRates \in Rates /\ InitialRates.takerRate \in Nat    \* FeeRouter._checkRates
  /\ maxRewardBps \in Nat /\ partialLiquidationBps \in Nat
  /\ MaxTime \in Nat /\ MaxTxs \in Nat

\* The bitmap of an account has one bit per market, and accounts have been created one
\* by one.
ASSUME FiniteExchange == IsFiniteSet(Traders) /\ IsFiniteSet(Markets)

VARIABLES vault, engine, feeRouter, insurance, prices, activeMarkets, paused,
          now, txs, donated

\* donated: USDC sent straight to the vault's address, which no ledger entry
\* accounts for (a history variable of the token contract).
vars == <<vault, engine, feeRouter, insurance, prices, activeMarkets, paused,
          now, txs, donated>>

TypeOK ==
  /\ vault \in VaultState
  /\ engine \in EngineState
  /\ feeRouter \in FeeState
  /\ insurance \in InsuranceState
  /\ prices \in [Markets -> Nat]
  /\ activeMarkets \subseteq Markets
  /\ paused \subseteq Contracts
  /\ now \in Nat
  /\ txs \in Nat
  /\ donated \in Nat

\* The deployed contracts, with `v` already in the vault.
StartFrom(v) ==
  /\ vault = v
  /\ engine = initialEngine
  /\ feeRouter = initialFees(InitialRates)
  /\ insurance = initialInsurance(InitialLimits)
  /\ prices \in [Markets -> Prices]
  /\ activeMarkets = Markets
  /\ paused = {}
  /\ now = 1
  /\ txs = 0
  /\ donated = 0

Init == StartFrom(initialVault(InitialCaps[1], InitialCaps[2]))

\* Every transaction counts against the bound and needs its contracts unpaused.
Transaction(contracts) ==
  /\ txs < MaxTxs
  /\ txs' = txs + 1
  /\ contracts \cap paused = {}
  /\ UNCHANGED <<prices, now>>

-----------------------------------------------------------------------------
(* Vault.                                                                  *)

\* deposit, depositFor, depositWithPermit, depositWithPermit2.
Deposit(account, amount) ==
  LET credited == credit(vault, account, amount)
  IN  /\ Transaction({"vault"})
      /\ checkDeposit(vault, account, amount)
      /\ vault' = credited
      /\ insurance' = IF vault.balances[account] < 0
                      THEN refreshDebt(credited, insurance, account) ELSE insurance
      /\ UNCHANGED <<engine, feeRouter, activeMarkets, paused, donated>>

\* _withdraw's checks, the token balance included (the transfer reverts).
mayWithdraw(v, account, amount) ==
  /\ amount > 0
  /\ v.balances[account] >= toInternal(amount)
  /\ validateWithdrawal(v, engine, prices, account, toInternal(amount))
  /\ v.custody >= amount

Withdraw(t, amount) ==
  /\ Transaction({"vault"})
  /\ mayWithdraw(vault, t, amount)
  /\ vault' = debit(vault, t, amount)
  /\ UNCHANGED <<engine, feeRouter, insurance, activeMarkets, paused, donated>>

\* A plain USDC transfer to the vault's address.
SendTokens(amount) ==
  /\ Transaction({})
  /\ vault' = [vault EXCEPT !.custody = @ + amount]
  /\ donated' = donated + amount
  /\ UNCHANGED <<engine, feeRouter, insurance, activeMarkets, paused>>

SetDepositCaps(total, perAccount) ==
  /\ Transaction({})
  /\ vault' = [vault EXCEPT !.depositCap = total, !.accountDepositCap = perAccount]
  /\ UNCHANGED <<engine, feeRouter, insurance, activeMarkets, paused, donated>>

SetCollateral(active) ==
  /\ Transaction({})
  /\ vault' = [vault EXCEPT !.active = active]
  /\ UNCHANGED <<engine, feeRouter, insurance, activeMarkets, paused, donated>>

-----------------------------------------------------------------------------
(* OrderGateway.settleOne on the ledger.                                   *)

\* One side of a fill against the open-interest limits.
limited(side, f) ==
  [side EXCEPT !.reverted =
     \/ @
     \/ /\ side.increased
        /\ ~checkOpenInterest(side.engine, f.market, f.price,
                              effectiveBalance(side.vault, side.engine, insurance, prices))]

\* Engine.applyFill for one side: mark, trade, open-interest limits.
applyFill(v, e, f, t, long, reduceOnly, n) ==
  limited(trade(v, recordMark(e, f.market, f.price, now), t, f.market,
                IF long THEN f.size ELSE -f.size,
                f.price, n, reduceOnly, TRUE, f.market \in activeMarkets), f)

\* _validateFill, with what Insurance signs for: reduce-only orders.
validFill(f) ==
  /\ f.maker # f.taker
  /\ f.size > 0 /\ f.price > 0
  /\ f.maker = INSURANCE => f.makerReduceOnly
  /\ f.taker = INSURANCE => f.takerReduceOnly

\* What a transaction that moved positions and money leaves behind.
Settle(r) ==
  /\ vault' = r.vault
  /\ engine' = r.engine
  /\ feeRouter' = r.fees
  /\ insurance' = r.insurance
  /\ UNCHANGED <<activeMarkets, paused, donated>>

\* _apply in the order of the code: the maker's position, the taker's, the fees, and
\* both margin checks last.
CheckMargins(f, n, maker, taker, charged) ==
  /\ requireMargin(charged.vault, taker.engine, prices, f.maker, maker.increased)
  /\ requireMargin(charged.vault, taker.engine, prices, f.taker, taker.increased)
  /\ Settle([ vault     |-> charged.vault,
              engine    |-> taker.engine,
              fees      |-> charged.fees,
              insurance |-> IF INSURANCE \in {f.maker, f.taker}
                            THEN onBackstopFill(insurance, now, n) ELSE insurance ])

ChargeFees(f, n, maker, taker) ==
  /\ ~taker.reverted
  /\ CheckMargins(f, n, maker, taker,
                  chargeFill(taker.vault, feeRouter, f.market, f.maker, f.taker, n,
                             f.makerReferrer, f.takerReferrer))

ApplyTaker(f, n, maker) ==
  /\ ~maker.reverted
  /\ ChargeFees(f, n, maker, applyFill(maker.vault, maker.engine, f, f.taker,
                                       ~f.makerLong, f.takerReduceOnly, n))

SettleFill(f) ==
  LET n     == mulPrecision(f.size, f.price)
      index == prices[f.market]
  IN  /\ Transaction({"gateway", "engine", "vault"})
      /\ validFill(f)
      /\ n > 0 /\ n >= MarketParams[f.market].minFillNotional
      /\ index > 0 /\ insideBand(f.market, index, f.price)
      /\ INSURANCE \in {f.maker, f.taker} =>
           unwindAllowed(insurance, now, index, f.price, n)
      /\ ApplyTaker(f, n, applyFill(vault, engine, f, f.maker, f.makerLong,
                                    f.makerReduceOnly, n))

-----------------------------------------------------------------------------
(* Liquidation.                                                            *)

\* liquidate's health test: ratio up while solvent, else exposure down.
improved(before, after) ==
  IF before.equity > 0 /\ after.equity > 0
  THEN \/ after.maintenanceMarginRequired = 0
       \/ divPrecision(after.equity, after.maintenanceMarginRequired)
            > divPrecision(before.equity, before.maintenanceMarginRequired)
  ELSE after.maintenanceMarginRequired < before.maintenanceMarginRequired

\* The size liquidate closes: the plan's, or all of it once equity is gone.
closeSizeFor(t, m, maxSize) ==
  LET plan == planLiquidation(vault, engine, prices, t, m, partialLiquidationBps)
      size == IF accountHealth(vault, engine, prices, t).equity <= 0
              THEN abs(engine.positions[t][m].size) ELSE plan
  IN  IF plan > 0 THEN min(size, maxSize) ELSE 0

\* Engine.liquidationTransfer and adlTransfer: `from` closes, then `to` takes the
\* other side, at the index and outside the trading limits.
transferPosition(from, to, m, size, price, toReduceOnly) ==
  LET delta  == IF engine.positions[from][m].size > 0 THEN -size ELSE size
      n      == mulPrecision(size, price)
      closed == trade(vault, engine, from, m, delta, price, n, TRUE, FALSE, TRUE)
      taken  == trade(closed.vault, closed.engine, to, m, -delta, price, n,
                      toReduceOnly, FALSE, TRUE)
  IN  [ vault    |-> taken.vault,
        engine   |-> taken.engine,
        realized |-> closed.realized,
        reverted |-> closed.reverted \/ taken.reverted ]

\* The penalty on the closed notional, and the liquidator's part of it.
penaltyOn(m, size, price) ==
  applyBps(notional(size, price), MarketParams[m].liquidationFeeBps)
rewardOn(m, size, price) ==
  min(penaltyOn(m, size, price), applyBps(notional(size, price), maxRewardBps))

\* The penalty leaves the trader: reward to the caller, the rest through the
\* fee router.
chargePenalty(v, m, t, liquidator, size, price) ==
  LET reward  == rewardOn(m, size, price)
      rest    == penaltyOn(m, size, price) - reward
      rewarded == transferInternal(v, t, liquidator, reward)
  IN  accrueLiquidationFee(transferInternal(rewarded, t, FEE_ROUTER, rest), feeRouter, rest)

\* Everything liquidate does once the size is known: the position moves to the
\* backstop, the penalty is paid, and a deficit with nothing left to close is
\* settled.  `allowed` is its last check.
concluded(t, moved, charged, deficit) ==
  LET settled == settleBadDebt(charged.vault, insurance, t)
  IN  [ vault     |-> IF deficit THEN settled.vault ELSE charged.vault,
        engine    |-> moved.engine,
        fees      |-> charged.fees,
        insurance |-> IF deficit THEN settled.insurance ELSE insurance,
        deficit   |-> deficit,
        allowed   |-> /\ ~moved.reverted
                      /\ improved(accountHealth(vault, engine, prices, t),
                                  accountHealth(charged.vault, moved.engine, prices, t)) ]

penalized(t, moved, charged) ==
  concluded(t, moved, charged,
            moved.engine.marketBitmap[t] = {} /\ charged.vault.balances[t] < 0)

transferred(liquidator, t, m, size, moved) ==
  penalized(t, moved, chargePenalty(moved.vault, m, t, liquidator, size, prices[m]))

liquidation(liquidator, t, m, size) ==
  transferred(liquidator, t, m, size,
              transferPosition(t, INSURANCE, m, size, prices[m], FALSE))

Conclude(r) ==
  /\ r.allowed
  /\ r.deficit => "insurance" \notin paused
  /\ Settle(r)

Liquidate(liquidator, t, m, maxSize) ==
  \E size \in {closeSizeFor(t, m, maxSize)} \cap (1..abs(engine.positions[t][m].size)) :
    /\ Transaction({"liquidation", "engine", "vault"})
    /\ liquidator # t /\ t # INSURANCE
    /\ priced(engine, prices, t)
    /\ accountHealth(vault, engine, prices, t).liquidatable
    /\ Conclude(liquidation(liquidator, t, m, size))

haircutOn(realized, shortfall) == min(max(realized, 0), shortfall)

\* adl: the backstop closes against an opposite position in profit, whose
\* realized gain is haircut by the unfunded shortfall.
Adl(counterparty, m, maxSize) ==
  LET cp        == engine.positions[counterparty][m]
      bs        == engine.positions[INSURANCE][m]
      shortfall == unfundedShortfall(vault, engine, insurance, prices)
      price     == prices[m]
      value     == notional(abs(cp.size), price)
      upnl      == (IF cp.size > 0 THEN value ELSE -value) - cp.openNotional
      closeSize == min(min(maxSize, min(abs(cp.size), abs(bs.size))),
                       mulDiv(shortfall, abs(cp.size), upnl))
  IN  /\ Transaction({"liquidation", "engine", "vault"})
      /\ counterparty # INSURANCE
      /\ priced(engine, prices, INSURANCE)
      /\ shortfall > 0
      /\ bs.size # 0 /\ cp.size # 0 /\ (cp.size > 0) # (bs.size > 0)
      /\ price > 0
      /\ upnl > 0
      /\ \E size \in {closeSize} \cap (1..abs(cp.size)) :
           LET moved == transferPosition(counterparty, INSURANCE, m, size, price, TRUE)
           IN  /\ ~moved.reverted
               /\ \E haircut \in {haircutOn(moved.realized, shortfall)} \cap Int :
                    vault' = transferInternal(moved.vault, counterparty, INSURANCE, haircut)
               /\ engine' = moved.engine
      /\ UNCHANGED <<feeRouter, insurance, activeMarkets, paused, donated>>

-----------------------------------------------------------------------------
(* Insurance.                                                              *)

SettleBadDebt(t) ==
  LET settled == settleBadDebt(vault, insurance, t)
  IN  /\ Transaction({"insurance"})
      /\ t # INSURANCE
      /\ engine.marketBitmap[t] = {}
      /\ covered(vault, insurance, t) > 0 => "vault" \notin paused
      /\ vault' = settled.vault
      /\ insurance' = settled.insurance
      /\ UNCHANGED <<engine, feeRouter, activeMarkets, paused, donated>>

\* donate: a deposit into the fund's own account.
Donate(amount) == "insurance" \notin paused /\ Deposit(INSURANCE, amount)

\* The deposit's refreshDebt does nothing here: no debt is ever recorded for the
\* fund itself.
Stake(t, amount) ==
  /\ Transaction({"insurance", "vault"})
  /\ checkDeposit(vault, INSURANCE, amount)
  /\ mintedShares(insurance, toInternal(amount)) > 0
  /\ vault' = credit(vault, INSURANCE, amount)
  /\ insurance' = stake(insurance, t, toInternal(amount))
  /\ UNCHANGED <<engine, feeRouter, activeMarkets, paused, donated>>

RequestUnstake(t, shares) ==
  /\ Transaction({"insurance"})
  /\ 0 < shares /\ shares <= sharesOf(insurance, t)
  /\ ~(insurance.pending[t].shares > 0 /\ insurance.pending[t].epoch = insurance.epoch)
  /\ insurance' = requestUnstake(insurance, t, shares, now)
  /\ UNCHANGED <<vault, engine, feeRouter, activeMarkets, paused, donated>>

\* withdrawUnstaked on a request of the current epoch.
WithdrawUnstaked(t) ==
  LET req == insurance.pending[t]
      amount == payout(vault, engine, insurance, prices, t)
  IN  /\ Transaction({"insurance"})
      /\ req.shares > 0 /\ now >= req.unlockTime
      /\ req.epoch = insurance.epoch
      /\ priced(engine, prices, INSURANCE)
      /\ amount \in 0..toTokenDown(insurance.stakedBalance)
      /\ amount > 0 => "vault" \notin paused /\ mayWithdraw(vault, INSURANCE, amount)
      /\ vault' = IF amount > 0 THEN debit(vault, INSURANCE, amount) ELSE vault
      /\ insurance' = redeem(insurance, t, amount)
      /\ UNCHANGED <<engine, feeRouter, activeMarkets, paused, donated>>

\* withdrawUnstaked on a request whose epoch a sweep retired.
WithdrawRetired(t) ==
  LET req == insurance.pending[t]
  IN  /\ Transaction({"insurance"})
      /\ req.shares > 0 /\ now >= req.unlockTime
      /\ req.epoch # insurance.epoch
      /\ insurance' = voidRequest(insurance, t)
      /\ UNCHANGED <<vault, engine, feeRouter, activeMarkets, paused, donated>>

SweepToOperating(amount) ==
  /\ Transaction({})
  /\ amount > 0 /\ insurance.stakedBalance > 0
  /\ insurance' = sweep(insurance, amount)
  /\ UNCHANGED <<vault, engine, feeRouter, activeMarkets, paused, donated>>

-----------------------------------------------------------------------------
(* Fees.                                                                   *)

ClaimTreasury ==
  LET amount == toTokenDown(feeRouter.treasuryAccrued)
  IN  /\ Transaction({"vault"})
      /\ feeRouter.treasuryAccrued >= 0
      /\ mayWithdraw(vault, FEE_ROUTER, amount)
      /\ vault' = debit(vault, FEE_ROUTER, amount)
      /\ feeRouter' = [feeRouter EXCEPT !.treasuryAccrued = @ - toInternal(amount)]
      /\ UNCHANGED <<engine, insurance, activeMarkets, paused, donated>>

ClaimReferral(r) ==
  LET amount == toTokenDown(feeRouter.referralAccrued[r])
  IN  /\ Transaction({"vault"})
      /\ feeRouter.referralAccrued[r] >= 0
      /\ mayWithdraw(vault, FEE_ROUTER, amount)
      /\ vault' = debit(vault, FEE_ROUTER, amount)
      /\ feeRouter' = [feeRouter EXCEPT !.referralAccrued[r] = @ - toInternal(amount),
                                        !.totalReferralAccrued = @ - toInternal(amount)]
      /\ UNCHANGED <<engine, insurance, activeMarkets, paused, donated>>

\* The fee admin's and the tier keeper's setters.
FeeAdmin(f) ==
  /\ Transaction({})
  /\ feeRouter' = f
  /\ UNCHANGED <<vault, engine, insurance, activeMarkets, paused, donated>>

SetMarketFees(m, makerRate, takerRate) ==
  /\ checkRates(feeRouter, makerRate, takerRate)
  /\ FeeAdmin(setMarketFees(feeRouter, m, makerRate, takerRate))

DefineTier(tier, makerRate, takerRate) ==
  /\ checkRates(feeRouter, makerRate, takerRate)
  /\ FeeAdmin(defineTier(feeRouter, tier, makerRate, takerRate))

SetAccountTier(t, tier) ==
  /\ validTier(feeRouter, tier)
  /\ FeeAdmin([feeRouter EXCEPT !.accountTier[t] = tier])

SetMinNetRate(rate) ==
  /\ MIN_NET_RATE_FLOOR <= rate /\ rate <= MAX_NET_RATE_FLOOR
  /\ FeeAdmin([feeRouter EXCEPT !.minNetRate = rate])

SetRebatesEnabled(enabled) == FeeAdmin([feeRouter EXCEPT !.rebatesEnabled = enabled])
SetReferralsEnabled(enabled) == FeeAdmin([feeRouter EXCEPT !.referralsEnabled = enabled])

SetReferrerApproved(r, approved) ==
  FeeAdmin([feeRouter EXCEPT !.approvedReferrer = IF approved THEN @ \cup {r} ELSE @ \ {r}])

SetSplit(insuranceBps, referralBps) ==
  /\ validSplit(insuranceBps, referralBps)
  /\ FeeAdmin([feeRouter EXCEPT !.split = [insuranceBps |-> insuranceBps,
                                           referralBps  |-> referralBps]])

SetLiquidationSplit(insuranceBps) ==
  /\ MIN_INSURANCE_SHARE_BPS <= insuranceBps
  /\ insuranceBps <= MAX_LIQ_INSURANCE_SHARE_BPS
  /\ FeeAdmin([feeRouter EXCEPT !.liquidationInsuranceBps = insuranceBps])

-----------------------------------------------------------------------------
(* Funding, configuration, time and the oracle.                            *)

UpdateFunding(m) ==
  /\ Transaction({"engine"})
  /\ twap(engine.marks[m], now) > 0 => prices[m] > 0
  /\ engine' = updateFunding(engine, m, prices[m], now)
  /\ UNCHANGED <<vault, feeRouter, insurance, activeMarkets, paused, donated>>

SetMarketActive(m, active) ==
  /\ Transaction({})
  /\ activeMarkets' = IF active THEN activeMarkets \cup {m} ELSE activeMarkets \ {m}
  /\ UNCHANGED <<vault, engine, feeRouter, insurance, paused, donated>>

SetUnwindLimits(limits) ==
  /\ Transaction({})
  /\ limits.maxFillNotional <= limits.maxDailyNotional
  /\ insurance' = [insurance EXCEPT !.limits = limits]
  /\ UNCHANGED <<vault, engine, feeRouter, activeMarkets, paused, donated>>

\* Who may pause for how long is the subject of Governance.tla.
SetPaused(c, on) ==
  /\ Transaction({})
  /\ paused' = IF on THEN paused \cup {c} ELSE paused \ {c}
  /\ UNCHANGED <<vault, engine, feeRouter, insurance, activeMarkets, donated>>

SetPrice(m, price) ==
  /\ price # prices[m]
  /\ prices' = [prices EXCEPT ![m] = price]
  /\ UNCHANGED <<vault, engine, feeRouter, insurance, activeMarkets, paused, now,
                 txs, donated>>

Tick(seconds) ==
  /\ now + seconds <= MaxTime
  /\ now' = now + seconds
  /\ UNCHANGED <<vault, engine, feeRouter, insurance, prices, activeMarkets, paused,
                 txs, donated>>

-----------------------------------------------------------------------------
Banking ==
  /\ "banking" \in Groups
  /\ \/ \E a \in Accounts, n \in Amounts : Deposit(a, n)
     \/ \E t \in Traders, n \in Amounts : Withdraw(t, n)

Trading ==
  /\ "trading" \in Groups
  /\ \/ \E f \in Fills : SettleFill(f)
     \/ \E m \in Markets, p \in Prices : SetPrice(m, p)

Liquidating ==
  /\ "liquidation" \in Groups
  /\ \/ \E l, t \in Traders, m \in Markets, n \in MaxSizes : Liquidate(l, t, m, n)
     \/ \E t \in Traders, m \in Markets, n \in MaxSizes : Adl(t, m, n)
     \/ \E a \in Accounts : SettleBadDebt(a)

Staking ==
  /\ "staking" \in Groups
  /\ \/ \E n \in Amounts : Donate(n)
     \/ \E t \in Traders, n \in Amounts : Stake(t, n)
     \/ \E t \in Traders, n \in ShareAmounts : RequestUnstake(t, n)
     \/ \E t \in Traders : WithdrawUnstaked(t)
     \/ \E t \in Traders : WithdrawRetired(t)
     \/ \E n \in SweepAmounts : SweepToOperating(n)

Claiming ==
  /\ "claims" \in Groups
  /\ \/ ClaimTreasury
     \/ \E r \in Traders : ClaimReferral(r)

FeeGovernance ==
  /\ "fees" \in Groups
  /\ \/ \E m \in Markets, s \in Schedules : SetMarketFees(m, s[1], s[2])
     \/ \E k \in Tiers, s \in Schedules : DefineTier(k, s[1], s[2])
     \/ \E t \in Traders, k \in Tiers \cup {0} : SetAccountTier(t, k)
     \/ \E r \in NetRates : SetMinNetRate(r)
     \/ \E b \in BOOLEAN : SetRebatesEnabled(b)

Revenue ==
  /\ "revenue" \in Groups
  /\ \/ \E b \in BOOLEAN : SetReferralsEnabled(b)
     \/ \E r \in Traders, b \in BOOLEAN : SetReferrerApproved(r, b)
     \/ \E s \in Splits : SetSplit(s[1], s[2])
     \/ \E n \in LiquidationSplits : SetLiquidationSplit(n)

Funding == "funding" \in Groups /\ \E m \in Markets : UpdateFunding(m)

Clock == "clock" \in Groups /\ \E s \in Ticks : Tick(s)

Governance ==
  /\ "governance" \in Groups
  /\ \/ \E c \in Caps : SetDepositCaps(c[1], c[2])
     \/ \E b \in BOOLEAN : SetCollateral(b)
     \/ \E m \in Markets, b \in BOOLEAN : SetMarketActive(m, b)
     \/ \E c \in Pausable, b \in BOOLEAN : SetPaused(c, b)
     \/ \E l \in LimitChoices : SetUnwindLimits(l)
     \/ \E n \in Amounts : SendTokens(n)

Next ==
  \/ Banking
  \/ Trading
  \/ Liquidating
  \/ Staking
  \/ Claiming
  \/ FeeGovernance
  \/ Revenue
  \/ Funding
  \/ Clock
  \/ Governance

Spec == Init /\ [][Next]_vars

-----------------------------------------------------------------------------
(* What makes the ledger correct.                                          *)

\* The accounting identity of Vault.sol's header and solvency(): the USDC the
\* vault holds is the ledger less the open cost basis, exactly, whatever was
\* traded, liquidated, deleveraged, staked or claimed; tokens sent to the
\* contract outside the protocol are the only surplus.
Solvency ==
  assets(vault) = liabilities(vault, engine.netCostBasis) + toInternal(donated)

\* Every transfer of exposure has two sides: fills, liquidations and ADL all keep
\* long and short open interest equal (Engine._trade is called in pairs).
OpenInterestBalanced ==
  \A m \in Markets : engine.openInterest[m].long = engine.openInterest[m].short

sizeOf(a, m) == engine.positions[a][m].size

\* Fees that were accrued can be claimed: the router's ledger account always
\* holds at least the treasury and referral sub-ledgers together.
FeesBacked ==
  vault.balances[FEE_ROUTER] >= feeRouter.treasuryAccrued + feeRouter.totalReferralAccrued

\* Funding the position of `a` in `m` still owes the pool (or is owed by it), in units
\* of 1/PRECISION: nothing without a position.
fundingOwed(e, a, m) ==
  abs(e.positions[a][m].size)
    * (sideIndex(e, m, e.positions[a][m].size > 0) - e.positions[a][m].lastFundingIndex)

pendingFunding(e) ==
  SumFunction([a \in Accounts |-> SumFunction([m \in Markets |-> fundingOwed(e, a, m)])])

\* The funding pool can pay everyone: whoever settles first, what the pool holds
\* and what it is still owed never fall short of what it owes.
FundingPoolBacked ==
  vault.balances[FUNDING_POOL] * PRECISION + pendingFunding(engine) >= 0

\* What rounding may add to the equity of an account, in units of 1/PRECISION: each
\* position's entry price is derived by a division of its basis by its size, and its
\* PnL and its funding are divided by PRECISION.
roundingOf(e, a) ==
  SumFunction([m \in e.marketBitmap[a] |->
                 abs(e.positions[a][m].size) + 2 * (PRECISION - 1)])

\* The equity the risk engine shows to all accounts together is covered by USDC
\* in custody, up to that rounding.  The funding pool holds what others still
\* receive and is no claimant of its own.
EquityBacked ==
  (\A m \in Markets : prices[m] > 0) =>
    PRECISION * SumFunction([a \in Accounts \ {FUNDING_POOL} |->
                               accountHealth(vault, engine, prices, a).equity])
      <= PRECISION * assets(vault) + SumFunction([a \in Accounts |-> roundingOf(engine, a)])

\* Staked capital is never lent: the fund's shares are backed while any exist,
\* and no staker holds more of the current epoch than was issued.
SharesBacked ==
  /\ insurance.stakedBalance >= 0
  /\ insurance.totalShares > 0 => insurance.stakedBalance > 0
  /\ SumFunction([t \in Traders |-> sharesOf(insurance, t)]) <= insurance.totalShares

\* An unhealthy account can be liquidated: if every market it holds is priced
\* and it is below maintenance margin, liquidate succeeds in one of them.
LiquidatableCanBeLiquidated ==
  \A t \in Traders :
    priced(engine, prices, t) /\ accountHealth(vault, engine, prices, t).liquidatable =>
      \E m \in engine.marketBitmap[t], l \in Traders \ {t} :
        LET size == closeSizeFor(t, m, abs(sizeOf(t, m)))
        IN  size > 0 /\ liquidation(l, t, m, size).allowed

-----------------------------------------------------------------------------
(* What a step may never do.                                               *)

\* Joining or leaving the staking pool never takes value from the stakers who
\* stay: what one remaining share could redeem does not fall.
StakersNotDiluted ==
  [][ (\E t \in Traders : WithdrawUnstaked(t) \/ \E n \in Amounts : Stake(t, n))
      /\ insurance.totalShares > 0 =>
        redeemableStake(vault', engine', insurance', prices) * insurance.totalShares
          >= redeemableStake(vault, engine, insurance, prices) * insurance'.totalShares ]_vars
=============================================================================
