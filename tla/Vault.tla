-------------------------------- MODULE Vault --------------------------------
(***************************************************************************)
(* Vault.sol: the USDC custody and the internal ledger.                    *)
(*                                                                         *)
(* The vault's storage is a record, and every ledger operation an operator *)
(* from the record before to the record after, so that the contracts that  *)
(* call it can chain several operations in one transaction:                *)
(*   custody         USDC token units held by the contract                 *)
(*   balances        internal ledger, per account (may be negative)        *)
(*   totalLedger     running sum of the ledger                             *)
(*   totalDeposited, netDeposited, depositCap, accountDepositCap           *)
(*                   the staged-launch caps, in token units                *)
(*   active          the collateral registry's flag for USDC               *)
(***************************************************************************)
EXTENDS KryonMath

CONSTANTS
  Traders,      \* externally owned accounts
  INSURANCE,    \* the Insurance contract's ledger account (the backstop)
  FEE_ROUTER,   \* the FeeRouter contract's ledger account
  FUNDING_POOL  \* the Engine contract's ledger account: the funding pool

ASSUME AccountsDistinct ==
  /\ {INSURANCE, FEE_ROUTER, FUNDING_POOL} \cap Traders = {}
  /\ INSURANCE # FEE_ROUTER
  /\ INSURANCE # FUNDING_POOL
  /\ FEE_ROUTER # FUNDING_POOL

Accounts == Traders \cup {INSURANCE, FEE_ROUTER, FUNDING_POOL}

\* setCapExempt: the deployment exempts the protocol accounts.
CapExempt == {INSURANCE, FEE_ROUTER}

VaultState ==
  [ custody           : Nat,
    balances          : [Accounts -> Int],
    totalLedger       : Int,
    totalDeposited    : Nat,
    netDeposited      : [Accounts -> Nat],
    depositCap        : Nat,
    accountDepositCap : Nat,
    active            : BOOLEAN ]

initialVault(total, perAccount) ==
  [ custody           |-> 0,
    balances          |-> [a \in Accounts |-> 0],
    totalLedger       |-> 0,
    totalDeposited    |-> 0,
    netDeposited      |-> [a \in Accounts |-> 0],
    depositCap        |-> total,
    accountDepositCap |-> perAccount,
    active            |-> TRUE ]

-----------------------------------------------------------------------------
\* _move: one account's balance and the ledger total, together.
move(v, account, amount) ==
  [v EXCEPT !.balances[account] = @ + amount,
            !.totalLedger = @ + amount]

\* transferInternal: zero-sum between two accounts; a self transfer is a no-op.
transferInternal(v, from, to, amount) ==
  LET moved == [v.balances EXCEPT ![from] = @ - amount, ![to] = @ + amount]
  IN  IF from = to THEN v ELSE [v EXCEPT !.balances = moved]

\* applyPnl: realized PnL, whose counterpart is the engine's cost basis.
applyPnl(v, account, amount) == move(v, account, amount)

checkDeposit(v, account, amount) ==
  /\ amount > 0
  /\ v.active
  /\ \/ account \in CapExempt
     \/ /\ v.totalDeposited + amount <= v.depositCap
        /\ v.netDeposited[account] + amount <= v.accountDepositCap

\* The part of _pullAndCredit inside the vault (refreshDebt is Insurance's).
credit(v, account, amount) ==
  LET counted == IF account \in CapExempt THEN 0 ELSE amount
      pulled  == [v EXCEPT !.custody = @ + amount,
                           !.totalDeposited = @ + counted,
                           !.netDeposited[account] = @ + counted]
  IN  move(pulled, account, toInternal(amount))

\* _withdraw after its checks: debit, lower the deposit counters (floored at
\* zero, PnL may be withdrawn too), send the tokens.
debit(v, account, amount) ==
  LET counted == IF account \in CapExempt THEN 0 ELSE amount
      sent    == [v EXCEPT !.custody = @ - amount,
                           !.totalDeposited = max(0, @ - counted),
                           !.netDeposited[account] = max(0, @ - counted)]
  IN  move(sent, account, -toInternal(amount))

\* solvency(): both sides of the accounting identity, in internal units.
assets(v) == toInternal(v.custody)
liabilities(v, netCostBasis) == v.totalLedger - netCostBasis
=============================================================================
