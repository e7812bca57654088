------------------------------ MODULE FeeRouter ------------------------------
(***************************************************************************)
(* FeeRouter.sol: fee schedules and tiers, the charge of both sides of a   *)
(* fill, and the treasury and referral sub-ledgers of the router's vault   *)
(* account.                                                                *)
(***************************************************************************)
EXTENDS Engine

CONSTANTS
  Tiers,                  \* volume tiers that governance may define (1..16)
  NO_REFERRER,            \* address(0) in an order's referrer field
  MAX_TAKER_RATE, MIN_MAKER_RATE, MAX_MAKER_RATE,
  MIN_NET_RATE_FLOOR, MAX_NET_RATE_FLOOR,
  MIN_INSURANCE_SHARE_BPS, MAX_REFERRAL_SHARE_BPS, MAX_LIQ_INSURANCE_SHARE_BPS

ASSUME FeeConfig ==
  /\ 0 \notin Tiers
  /\ NO_REFERRER \notin Traders
  /\ MIN_MAKER_RATE \in Int /\ MAX_MAKER_RATE \in Int /\ MAX_TAKER_RATE \in Nat
  /\ MIN_NET_RATE_FLOOR \in Nat /\ MAX_NET_RATE_FLOOR \in Nat
  /\ MIN_INSURANCE_SHARE_BPS \in Nat /\ MAX_REFERRAL_SHARE_BPS \in Nat
  /\ MAX_LIQ_INSURANCE_SHARE_BPS \in 0..BPS_DENOMINATOR

Rates == [makerRate : Int, takerRate : Int, set : BOOLEAN]
Unset == [makerRate |-> 0, takerRate |-> 0, set |-> FALSE]
Split == [insuranceBps : 0..BPS_DENOMINATOR, referralBps : 0..BPS_DENOMINATOR]

FeeState ==
  [ marketRates             : [Markets -> Rates],
    tiers                   : [Tiers -> Rates],
    accountTier             : [Accounts -> Tiers \cup {0}],
    minNetRate              : Nat,
    rebatesEnabled          : BOOLEAN,
    referralsEnabled        : BOOLEAN,
    approvedReferrer        : SUBSET Traders,
    split                   : Split,
    liquidationInsuranceBps : 0..BPS_DENOMINATOR,
    treasuryAccrued         : Int,
    referralAccrued         : [Traders -> Int],
    totalReferralAccrued    : Int ]

initialFees(rates) ==
  [ marketRates             |-> [m \in Markets |-> rates],
    tiers                   |-> [k \in Tiers |-> Unset],
    accountTier             |-> [a \in Accounts |-> 0],
    minNetRate              |-> MIN_NET_RATE_FLOOR,
    rebatesEnabled          |-> FALSE,
    referralsEnabled        |-> FALSE,
    approvedReferrer        |-> {},
    split                   |-> [insuranceBps |-> 2000, referralBps |-> 1000],
    liquidationInsuranceBps |-> 5000,
    treasuryAccrued         |-> 0,
    referralAccrued         |-> [r \in Traders |-> 0],
    totalReferralAccrued    |-> 0 ]

-----------------------------------------------------------------------------
(* Governance of the schedule.                                             *)

checkRates(f, makerRate, takerRate) ==
  /\ 0 <= takerRate /\ takerRate <= MAX_TAKER_RATE
  /\ MIN_MAKER_RATE <= makerRate /\ makerRate <= MAX_MAKER_RATE
  /\ makerRate < 0 => f.rebatesEnabled
  /\ makerRate + takerRate >= f.minNetRate

defineTier(f, tier, makerRate, takerRate) ==
  [f EXCEPT !.tiers[tier] =
     [makerRate |-> makerRate, takerRate |-> takerRate, set |-> TRUE]]

setMarketFees(f, m, makerRate, takerRate) ==
  [f EXCEPT !.marketRates[m] =
     [makerRate |-> makerRate, takerRate |-> takerRate, set |-> TRUE]]

validTier(f, tier) == tier # 0 => f.tiers[tier].set

validSplit(insuranceBps, referralBps) ==
  /\ insuranceBps + referralBps <= BPS_DENOMINATOR
  /\ insuranceBps >= MIN_INSURANCE_SHARE_BPS
  /\ referralBps <= MAX_REFERRAL_SHARE_BPS

-----------------------------------------------------------------------------
(* Charging a fill.                                                        *)

\* _rateFor: the account's tier, or the market schedule.
rateFor(f, m, account) ==
  LET tier == f.accountTier[account]
  IN  IF tier # 0 /\ f.tiers[tier].set THEN f.tiers[tier] ELSE f.marketRates[m]

ceilMul(n, rate) ==
  IF rate = 0 THEN 0 ELSE TruncDiv(n * rate - 1, RATE_DENOMINATOR) + 1

\* The two rates quote() applies: rebates switched off floor at zero, and the
\* maker side is raised until the pair reaches the net floor.
effectiveRates(f, m, maker, taker) ==
  LET takerRate == rateFor(f, m, taker).takerRate
      listed    == rateFor(f, m, maker).makerRate
      switched  == IF listed < 0 /\ ~f.rebatesEnabled THEN 0 ELSE listed
  IN  [ taker |-> takerRate,
        maker |-> IF switched + takerRate < f.minNetRate
                  THEN f.minNetRate - takerRate ELSE switched ]

\* quote: debits round up, a rebate rounds down.
quote(f, m, maker, taker, n) ==
  LET rate == effectiveRates(f, m, maker, taker)
  IN  [ takerFee |-> ceilMul(n, rate.taker),
        makerFee |-> IF rate.maker >= 0 THEN ceilMul(n, rate.maker)
                     ELSE -mulDiv(n, -rate.maker, RATE_DENOMINATOR) ]

\* _accrue: the insurance share is returned for the caller to transfer; the
\* referral share goes to the treasury unless an approved third party earned it.
insuranceShare(f, amount) ==
  IF amount <= 0 THEN 0 ELSE mulDiv(amount, f.split.insuranceBps, BPS_DENOMINATOR)

accrue(f, payer, amount, referrer) ==
  LET toReferral == mulDiv(amount, f.split.referralBps, BPS_DENOMINATOR)
      kept       == amount - insuranceShare(f, amount)
      credited   == /\ f.referralsEnabled
                    /\ referrer \in f.approvedReferrer
                    /\ referrer # payer
  IN  IF amount <= 0 THEN f
      ELSE IF credited
      THEN [f EXCEPT !.treasuryAccrued = @ + (kept - toReferral),
                     !.referralAccrued[referrer] = @ + toReferral,
                     !.totalReferralAccrued = @ + toReferral]
      ELSE [f EXCEPT !.treasuryAccrued = @ + kept]

\* Mutant: the insurance share is taken on the sum of both fees.
chargeFillOnSum(v, f, m, maker, taker, n, makerReferrer, takerReferrer) ==
  LET q       == quote(f, m, maker, taker, n)
      charged == transferInternal(v, taker, FEE_ROUTER, q.takerFee)
      paid    == transferInternal(charged, maker, FEE_ROUTER, q.makerFee)
  IN  [ vault |-> transferInternal(paid, FEE_ROUTER, INSURANCE,
                                   insuranceShare(f, q.takerFee + q.makerFee)),
        fees  |-> accrue(accrue(f, maker, q.makerFee, makerReferrer),
                         taker, q.takerFee, takerReferrer) ]

\* chargeFill: a rebate comes out of the same fill's taker fee, and only the
\* remainder is split.
chargeFill(v, f, m, maker, taker, n, makerReferrer, takerReferrer) ==
  LET q       == quote(f, m, maker, taker, n)
      charged == transferInternal(v, taker, FEE_ROUTER, q.takerFee)
      paid    == IF q.makerFee > 0
                 THEN transferInternal(charged, maker, FEE_ROUTER, q.makerFee)
                 ELSE transferInternal(charged, FEE_ROUTER, maker, -q.makerFee)
      net     == q.takerFee + q.makerFee
      share   == IF q.makerFee > 0
                 THEN insuranceShare(f, q.makerFee) + insuranceShare(f, q.takerFee)
                 ELSE insuranceShare(f, net)
  IN  [ vault |-> transferInternal(paid, FEE_ROUTER, INSURANCE, share),
        fees  |-> IF q.makerFee > 0
                  THEN accrue(accrue(f, maker, q.makerFee, makerReferrer),
                              taker, q.takerFee, takerReferrer)
                  ELSE accrue(f, taker, net, takerReferrer) ]

\* accrueLiquidationFee: the penalty already sits in the router's account.
accrueLiquidationFee(v, f, amount) ==
  LET share == mulDiv(amount, f.liquidationInsuranceBps, BPS_DENOMINATOR)
  IN  [ vault |-> transferInternal(v, FEE_ROUTER, INSURANCE, share),
        fees  |-> [f EXCEPT !.treasuryAccrued = @ + (amount - share)] ]
=============================================================================
