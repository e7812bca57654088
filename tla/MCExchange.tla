----------------------------- MODULE MCExchange ------------------------------
(***************************************************************************)
(* Small instances of Exchange for TLC: market parameters, fills and fee   *)
(* schedules.  One unit of size or price is 1/PRECISION = 1/100.           *)
(***************************************************************************)
EXTENDS Differential

CONSTANTS
  alice, bob, carol,
  Deposited          \* accounts whose first deposit is already in the vault

\* 20% initial margin, 10% maintenance, 4% penalty, and an 11% execution band.
MCParams ==
  [m \in Markets |->
    [ initialMarginBps         |-> 2000,
      maintenanceMarginBps     |-> 1000,
      liquidationFeeBps        |-> 400,
      maxExecutionDeviationBps |-> 1100,
      maxOpenInterest          |-> 1200,
      minFillNotional          |-> 1,
      oiPolicyBps              |-> 0,
      premiumCoeff             |-> 300,
      maxRatePerHour           |-> 25 ]]

\* The same market with open interest capped at six times the insurance fund.
PolicyParams == [m \in Markets |-> [MCParams[m] EXCEPT !.oiPolicyBps = 60000]]

MCFill(market, maker, taker, makerLong, size, price) ==
  [ market          |-> market,
    maker           |-> maker,
    taker           |-> taker,
    makerLong       |-> makerLong,
    size            |-> size,
    price           |-> price,
    makerReduceOnly |-> maker = INSURANCE,
    takerReduceOnly |-> FALSE,
    makerReferrer   |-> NO_REFERRER,
    takerReferrer   |-> alice ]

\* Odd sizes and prices, so that every division rounds; the backstop unwinds.
TradingFills ==
  { MCFill(1, a, b, long, n, p) : a \in {alice, INSURANCE}, b \in {bob}, long \in BOOLEAN,
                                  n \in {200, 301}, p \in {99, 111} }
FundingFills ==
  { MCFill(1, a, b, long, 151, p) : a \in {alice}, b \in {bob, carol}, long \in BOOLEAN,
                                    p \in {99, 110} }
\* Round numbers: margins and entries are exact.
ExactFills ==
  { MCFill(m, alice, b, TRUE, n, 100) : m \in Markets, b \in {bob}, n \in {200, 400} }
\* One pair that opens, adds, closes and flips; the backstop unwinds what it holds.
GovernanceFills ==
  { MCFill(1, alice, bob, long, 151, 100) : long \in BOOLEAN }
    \cup { MCFill(1, INSURANCE, bob, FALSE, 100, 80) }

\* Two traders long against a third, all of them stakers.
StakerFills ==
  { MCFill(1, bob, b, FALSE, 200, 100) : b \in {alice, carol} }

\* Large enough that a quarter of the fee is worth a token to the referrer.
ReferralFills == { MCFill(1, carol, bob, TRUE, 301, 100) }

\* What the scenarios of MCPools fill.
PoolFills == FundingFills \cup StakerFills \cup GovernanceFills \cup ReferralFills

\* Behaviours that begin after `Deposited` made a deposit each.
FundedVault ==
  FoldSet(LAMBDA a, v : credit(v, a, CHOOSE n \in Amounts : \A k \in Amounts : k <= n),
          initialVault(InitialCaps[1], InitialCaps[2]), Deposited)
\* They trade, bank and liquidate; the other operations of Next are MCPools' subject.
FundedNext == Banking \/ Trading \/ Liquidating
FundedSpec == StartFrom(FundedVault) /\ [][FundedNext]_vars

\* Orders for the ticket: larger and smaller than the positions held, off the index.
MCTickets ==
  { [buy |-> TRUE,  kind |-> "market", size |-> 201, quoted |-> 99],
    [buy |-> FALSE, kind |-> "market", size |-> 301, quoted |-> 111],
    [buy |-> TRUE,  kind |-> "limit",  size |-> 352, quoted |-> 83] }

MCCaps == <<1000, 1000>>
MCRates == [makerRate |-> 1, takerRate |-> 3, set |-> TRUE]
MCMinMakerRate == -2
MCSchedules == {<<-2, 3>>, <<0, 1>>}
MCSplits == {<<2000, 1000>>, <<5000, 0>>, <<1000, 2500>>}
MCCapChoices == {<<0, 0>>, <<1000, 1000>>}
NoLimits == [maxDeviationBps |-> 0, maxFillNotional |-> 0, maxDailyNotional |-> 0]
MCLimits == [maxDeviationBps |-> 500, maxFillNotional |-> 300, maxDailyNotional |-> 400]
MCLimitChoices == {NoLimits, MCLimits}
=============================================================================
