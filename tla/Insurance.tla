------------------------------ MODULE Insurance ------------------------------
(***************************************************************************)
(* Insurance.sol: the fund that takes over liquidated positions, covers    *)
(* closed-out deficits from its operating capital and issues shares in its *)
(* staked capital.  Both kinds of capital sit in one vault account:        *)
(*    operating capital = vault balance - stakedBalance                    *)
(***************************************************************************)
EXTENDS FeeRouter

CONSTANTS
  UNSTAKE_COOLDOWN,    \* seconds between a request and its redemption
  SECS_PER_DAY         \* the daily unwind cap's window

ASSUME InsuranceConfig ==
  /\ UNSTAKE_COOLDOWN \in Nat
  /\ SECS_PER_DAY \in Nat \ {0}

NoRequest == [shares |-> 0, unlockTime |-> 0, epoch |-> 0]

UnwindLimits == [maxDeviationBps : Nat, maxFillNotional : Nat, maxDailyNotional : Nat]

InsuranceState ==
  [ stakedBalance : Nat,
    totalShares   : Int,
    epoch         : Nat,
    shares        : [Traders -> [epoch : Nat, shares : Int]],
    pending       : [Traders -> [shares : Int, unlockTime : Int, epoch : Nat]],
    recordedDebt  : [Accounts -> Int],
    badDebt       : Int,
    limits        : UnwindLimits,
    unwound       : [day : Int, total : Int] ]

initialInsurance(limits) ==
  [ stakedBalance |-> 0,
    totalShares   |-> 0,
    epoch         |-> 0,
    shares        |-> [t \in Traders |-> [epoch |-> 0, shares |-> 0]],
    pending       |-> [t \in Traders |-> NoRequest],
    recordedDebt  |-> [a \in Accounts |-> 0],
    badDebt       |-> 0,
    limits        |-> limits,
    unwound       |-> [day |-> 0, total |-> 0] ]

-----------------------------------------------------------------------------
(* Capital.                                                                *)

operatingBalance(v, i) == v.balances[INSURANCE] - i.stakedBalance

markedOperatingBalance(v, e, i, prices) ==
  accountHealth(v, e, prices, INSURANCE).equity - i.stakedBalance

\* The OI policy's capacity: fails closed when the backstop has no price.
effectiveBalance(v, e, i, prices) ==
  IF priced(e, prices, INSURANCE)
  THEN max(0, markedOperatingBalance(v, e, i, prices) - i.badDebt)
  ELSE 0

redeemableStake(v, e, i, prices) ==
  max(0, i.stakedBalance + min(0, markedOperatingBalance(v, e, i, prices)))

unfundedShortfall(v, e, i, prices) ==
  max(0, i.badDebt - max(markedOperatingBalance(v, e, i, prices), 0))

-----------------------------------------------------------------------------
(* Bad debt.                                                               *)

owed(v, t) == max(0, -v.balances[t])

recordDebt(i, t, debt) ==
  [i EXCEPT !.badDebt = @ - i.recordedDebt[t] + debt, !.recordedDebt[t] = debt]

\* settleBadDebt: cover what operating cash can, record the rest.
covered(v, i, t) == min(owed(v, t), max(operatingBalance(v, i), 0))

settleBadDebt(v, i, t) ==
  [ vault     |-> transferInternal(v, INSURANCE, t, covered(v, i, t)),
    insurance |-> recordDebt(i, t, owed(v, t) - covered(v, i, t)) ]

\* refreshDebt, which the vault calls after crediting a negative balance.
refreshDebt(v, i, t) ==
  IF owed(v, t) < i.recordedDebt[t] THEN recordDebt(i, t, owed(v, t)) ELSE i

-----------------------------------------------------------------------------
(* Staking.                                                                *)

sharesOf(i, t) == IF i.shares[t].epoch = i.epoch THEN i.shares[t].shares ELSE 0

mintedShares(i, value) ==
  IF i.totalShares <= 0 \/ i.stakedBalance <= 0 THEN value
  ELSE mulDiv(value, i.totalShares, i.stakedBalance)

stake(i, t, value) ==
  [i EXCEPT !.stakedBalance = @ + value,
            !.totalShares = @ + mintedShares(i, value),
            !.shares[t] = [epoch  |-> i.epoch,
                           shares |-> sharesOf(i, t) + mintedShares(i, value)]]

requestUnstake(i, t, shares, now) ==
  [i EXCEPT !.pending[t] = [shares     |-> shares,
                            unlockTime |-> now + UNSTAKE_COOLDOWN,
                            epoch      |-> i.epoch]]

\* The shares a matured request of the current epoch burns.
burnt(i, t) == min(i.pending[t].shares, i.shares[t].shares)

\* Mutant: the payout ignores the backstop's losses.
payoutUnmarked(v, e, i, prices, t) ==
  IF i.totalShares <= 0 THEN 0
  ELSE toTokenDown(mulDiv(burnt(i, t), i.stakedBalance, i.totalShares))

\* withdrawUnstaked's payout in tokens: pro rata of what stakers could redeem.
payout(v, e, i, prices, t) ==
  IF i.totalShares <= 0 THEN 0
  ELSE toTokenDown(max(0, min(mulDiv(burnt(i, t), redeemableStake(v, e, i, prices),
                                     i.totalShares),
                              i.stakedBalance)))

redeem(i, t, amount) ==
  [i EXCEPT !.pending[t] = NoRequest,
            !.stakedBalance = @ - toInternal(amount),
            !.totalShares = @ - burnt(i, t),
            !.shares[t].shares = @ - burnt(i, t)]

\* A request that outlived its epoch: the share record is deleted.
voidRequest(i, t) ==
  [i EXCEPT !.pending[t] = NoRequest, !.shares[t] = [epoch |-> 0, shares |-> 0]]

\* Mutant: a sweep to zero keeps the shares.
sweepKeepingShares(i, amount) ==
  [i EXCEPT !.stakedBalance = @ - min(amount, i.stakedBalance)]

\* sweepToOperating: a sweep to zero retires the epoch's shares.
sweep(i, amount) ==
  LET left   == i.stakedBalance - min(amount, i.stakedBalance)
      retire == left = 0 /\ i.totalShares > 0
  IN  [i EXCEPT !.stakedBalance = left,
                !.epoch = IF retire THEN @ + 1 ELSE @,
                !.totalShares = IF retire THEN 0 ELSE @]

-----------------------------------------------------------------------------
(* Backstop unwinding.                                                     *)

\* Notional already unwound on `now`'s day.
unwoundToday(i, now) ==
  IF i.unwound.day = now \div SECS_PER_DAY THEN i.unwound.total ELSE 0

onBackstopFill(i, now, n) ==
  [i EXCEPT !.unwound = [day   |-> now \div SECS_PER_DAY,
                         total |-> unwoundToday(i, now) + n]]

unwindAllowed(i, now, index, price, n) ==
  /\ i.limits.maxDeviationBps # 0
  /\ abs(price - index) <= applyBps(index, i.limits.maxDeviationBps)
  /\ n <= i.limits.maxFillNotional
  /\ unwoundToday(i, now) + n <= i.limits.maxDailyNotional
=============================================================================
