------------------------------- MODULE MCPools --------------------------------
(***************************************************************************)
(* An instance of Exchange for the shared pools: the funding pool, the     *)
(* insurance fund's shares and the fee router's claims.  A behaviour       *)
(* follows one of four scenarios, each with the operations and fills that  *)
(* move its pool, so that each reaches further than one instance of        *)
(* everything could.  Every step is a step of Exchange.                    *)
(***************************************************************************)
EXTENDS MCExchange

VARIABLE scenario
poolVars == <<vars, scenario>>

\* What each trader has deposited at the start, and what the insurance fund holds of
\* its own: less where stakers stand behind it.
Endowment == [funding |-> 60, staking |-> 45, administration |-> 30, referral |-> 60]
Donation  == [funding |-> 70, staking |-> 35, administration |-> 70, referral |-> 70]

PoolInit ==
  /\ scenario \in DOMAIN Endowment
  /\ StartFrom(FoldSet(LAMBDA a, v : credit(v, a, Endowment[scenario]),
                       credit(initialVault(InitialCaps[1], InitialCaps[2]), INSURANCE, Donation[scenario]),
                       Deposited))
  /\ \A m \in Markets : prices[m] = 100

\* Positions opened before, between and after funding updates.
FundingScenario ==
  \/ \E f \in FundingFills : SettleFill(f)
  \/ Funding
  \/ Clock

\* Stakers who trade: stakes, losses to the fund and exits in every order.
StakingScenario ==
  \/ \E f \in StakerFills : SettleFill(f)
  \/ \E m \in Markets, p \in Prices \ {80} : SetPrice(m, p)
  \/ Liquidating
  \/ Staking
  \/ Tick(UNSTAKE_COOLDOWN)

\* Governance and claims around open positions.
AdministrationScenario ==
  \/ \E f \in GovernanceFills : SettleFill(f)
  \/ \E m \in Markets, p \in Prices \cap {80, 100} : SetPrice(m, p)
  \/ Banking
  \/ Liquidating
  \/ Claiming
  \/ FeeGovernance
  \/ Revenue
  \/ Governance

\* Fees shared with a referrer, and claimed.
ReferralScenario ==
  \/ \E f \in ReferralFills : SettleFill(f)
  \/ Claiming
  \/ Revenue

PoolNext ==
  /\ UNCHANGED scenario
  /\ \/ scenario = "funding" /\ txs < MaxTxs - 1 /\ FundingScenario
     \/ scenario = "staking" /\ StakingScenario
     \/ scenario = "administration" /\ txs < MaxTxs - 1 /\ AdministrationScenario
     \/ scenario = "referral" /\ ReferralScenario

PoolSpec == PoolInit /\ [][PoolNext]_poolVars
=============================================================================
