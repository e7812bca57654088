---------------------------- MODULE ExchangeProofs ----------------------------
(***************************************************************************)
(* Proofs about Exchange for every set of traders, markets, prices, fills  *)
(* and every scale.  First the totals: type correctness, the accounting    *)
(* identity of the vault and the balance of open interest.  Then what the  *)
(* totals stand for: that claims on the ledger are covered.                *)
(***************************************************************************)
EXTENDS Exchange, Sums

-----------------------------------------------------------------------------
(* Arithmetic.                                                             *)

\* Truncating division by a positive divisor is an integer (KryonMath.mulDiv).
LEMMA TruncDivInt ==
  ASSUME NEW a \in Int, NEW b \in Nat \ {0}
  PROVE  TruncDiv(a, b) \in Int
  BY DEF TruncDiv

\* The fixed-point operators return integers.
LEMMA MulDivInt ==
  ASSUME NEW a \in Int, NEW b \in Int, NEW d \in Nat \ {0}
  PROVE  mulDiv(a, b, d) \in Int
<1>1. a * b \in Int OBVIOUS
<1> QED BY <1>1, TruncDivInt DEF mulDiv

\* mulPrecision, applyBps and mulPrecisionUp return integers.
LEMMA FixedPointInt ==
  ASSUME NEW a \in Int, NEW b \in Int
  PROVE  /\ mulPrecision(a, b) \in Int
         /\ applyBps(a, b) \in Int
         /\ mulPrecisionUp(a, b) \in Int
<1>1. mulPrecision(a, b) \in Int
  BY MulDivInt, ScalesPositive DEF mulPrecision
<1>2. applyBps(a, b) \in Int
  BY MulDivInt DEF applyBps, BPS_DENOMINATOR
<1>3. a * b - 1 \in Int OBVIOUS
<1>4. mulPrecisionUp(a, b) \in Int
  BY <1>3, TruncDivInt, ScalesPositive DEF mulPrecisionUp
<1> QED BY <1>1, <1>2, <1>4

\* divPrecision by a positive number returns an integer.
LEMMA DivPrecisionInt ==
  ASSUME NEW a \in Int, NEW b \in Nat \ {0}
  PROVE  divPrecision(a, b) \in Int
  BY MulDivInt, ScalesPositive DEF divPrecision

\* Nothing of size zero has a notional.
LEMMA MulPrecisionZero ==
  ASSUME NEW b \in Int
  PROVE  mulPrecision(0, b) = 0
<1>1. 0 * b = 0 OBVIOUS
<1>2. TruncDiv(0, PRECISION) = 0
  BY ScalesPositive DEF TruncDiv
<1> QED BY <1>1, <1>2 DEF mulPrecision, mulDiv

\* abs, min and max stay in the integers and bound their arguments.
LEMMA AbsMinMaxInt ==
  ASSUME NEW a \in Int, NEW b \in Int
  PROVE  /\ abs(a) \in Nat
         /\ a # 0 => abs(a) \in Nat \ {0}
         /\ min(a, b) \in Int /\ max(a, b) \in Int
         /\ min(a, b) <= a /\ min(a, b) <= b
         /\ max(a, b) >= a /\ max(a, b) >= b
         /\ a \in Nat => max(a, b) \in Nat
  BY DEF abs, min, max

\* A size that is not zero has a magnitude that is not zero.
LEMMA AbsNat ==
  ASSUME NEW a \in Int
  PROVE  abs(a) \in Nat /\ (a # 0 => abs(a) # 0)
  BY DEF abs

\* The token boundary is additive (Decimals.toInternal).
LEMMA ToInternalAdditive ==
  ASSUME NEW a \in Int, NEW b \in Int
  PROVE  /\ toInternal(a) \in Int
         /\ toInternal(a + b) = toInternal(a) + toInternal(b)
         /\ toInternal(a - b) = toInternal(a) - toInternal(b)
  BY ScalesPositive DEF toInternal

\* Token amounts stay natural numbers inside the ledger.
LEMMA ToInternalNat ==
  ASSUME NEW a \in Nat
  PROVE  toInternal(a) \in Nat
  BY ScalesPositive DEF toInternal

\* What toTokenDown pays out is covered by the internal amount.
LEMMA TokenDownCovered ==
  ASSUME NEW s \in Nat, NEW a \in 0..toTokenDown(s)
  PROVE  /\ a \in Nat
         /\ toInternal(a) \in Nat
         /\ toInternal(a) <= s
<1> DEFINE q == s \div SCALE
<1>1. q \in Nat /\ q * SCALE <= s
  BY ScalesPositive
<1>2. a \in Nat /\ a <= q
  BY <1>1 DEF toTokenDown
<1>3. a * SCALE <= q * SCALE
  BY <1>1, <1>2, ScalesPositive
<1>4. a * SCALE \in Nat
  BY <1>2, ScalesPositive
<1> QED BY <1>1, <1>2, <1>3, <1>4, ScalesPositive DEF toInternal

-----------------------------------------------------------------------------
(* The vault's ledger operations.                                          *)

\* v2 has the type of a vault and differs from v in the ledger alone, by x in total.
LedgerChange(v, v2, x) ==
  /\ v2 \in VaultState
  /\ v2.custody = v.custody
  /\ v2.totalLedger = v.totalLedger + x

\* The protocol's own ledger accounts are accounts.
LEMMA ProtocolAccounts ==
  /\ INSURANCE \in Accounts /\ FEE_ROUTER \in Accounts /\ FUNDING_POOL \in Accounts
  /\ Traders \subseteq Accounts
  BY DEF Accounts

\* Replacing one field of the vault's record.
LEMMA SetBalances ==
  ASSUME NEW v \in VaultState, NEW w \in [Accounts -> Int]
  PROVE  LedgerChange(v, [v EXCEPT !.balances = w], 0)
  BY DEF VaultState, LedgerChange

\* Raising the ledger total.
LEMMA SetTotalLedger ==
  ASSUME NEW v \in VaultState, NEW x \in Int
  PROVE  LedgerChange(v, [v EXCEPT !.totalLedger = v.totalLedger + x], x)
<1>1. v.totalLedger + x \in Int
  BY DEF VaultState
<1> QED BY <1>1 DEF VaultState, LedgerChange

\* Replacing a deposit counter or a cap leaves custody and ledger alone.
LEMMA SetCounters ==
  ASSUME NEW v \in VaultState, NEW c \in Nat
  PROVE  /\ LedgerChange(v, [v EXCEPT !.totalDeposited = c], 0)
         /\ LedgerChange(v, [v EXCEPT !.depositCap = c], 0)
         /\ LedgerChange(v, [v EXCEPT !.accountDepositCap = c], 0)
  BY DEF VaultState, LedgerChange

\* So does replacing the per-account counters,
LEMMA SetNetDeposited ==
  ASSUME NEW v \in VaultState, NEW w \in [Accounts -> Nat]
  PROVE  LedgerChange(v, [v EXCEPT !.netDeposited = w], 0)
  BY DEF VaultState, LedgerChange

\* and switching deposits off or on.
LEMMA SetActive ==
  ASSUME NEW v \in VaultState, NEW b \in BOOLEAN
  PROVE  LedgerChange(v, [v EXCEPT !.active = b], 0)
  BY DEF VaultState, LedgerChange

\* Replacing custody leaves the ledger alone.
LEMMA SetCustody ==
  ASSUME NEW v \in VaultState, NEW c \in Nat
  PROVE  /\ [v EXCEPT !.custody = c] \in VaultState
         /\ [v EXCEPT !.custody = c].custody = c
         /\ [v EXCEPT !.custody = c].totalLedger = v.totalLedger
         /\ [v EXCEPT !.custody = c].totalDeposited = v.totalDeposited
         /\ [v EXCEPT !.custody = c].netDeposited = v.netDeposited
  BY DEF VaultState

\* Changes of the ledger compose.
LEMMA LedgerCompose ==
  ASSUME NEW v \in VaultState, NEW v2, NEW v3, NEW x \in Int, NEW y \in Int,
         LedgerChange(v, v2, x), LedgerChange(v2, v3, y)
  PROVE  LedgerChange(v, v3, x + y)
  BY DEF LedgerChange, VaultState

\* Two zero-sum changes are a zero-sum change.
LEMMA ZeroSumCompose ==
  ASSUME NEW v \in VaultState, NEW v2, NEW v3, LedgerChange(v, v2, 0), LedgerChange(v2, v3, 0)
  PROVE  LedgerChange(v, v3, 0)
<1>1. LedgerChange(v, v3, 0 + 0)
  BY LedgerCompose
<1> QED BY <1>1

\* _move changes one balance and the total together.
LEMMA MoveLedger ==
  ASSUME NEW v \in VaultState, NEW a \in Accounts, NEW x \in Int
  PROVE  LedgerChange(v, move(v, a, x), x)
<1> DEFINE w == [v.balances EXCEPT ![a] = @ + x]
           u == [v EXCEPT !.balances = w]
<1>1. w \in [Accounts -> Int]
  BY DEF VaultState
<1>2. move(v, a, x) = [u EXCEPT !.totalLedger = v.totalLedger + x]
  BY DEF move
<1> HIDE DEF w
<1>3. LedgerChange(v, u, 0)
  BY <1>1, SetBalances
<1> HIDE DEF u
<1>4. u \in VaultState /\ u.totalLedger = v.totalLedger
  BY <1>3 DEF LedgerChange, VaultState
<1>5. LedgerChange(u, [u EXCEPT !.totalLedger = u.totalLedger + x], x)
  BY <1>4, SetTotalLedger
<1>6. LedgerChange(u, move(v, a, x), x)
  BY <1>2, <1>4, <1>5
<1> QED BY <1>3, <1>6 DEF LedgerChange, VaultState

\* transferInternal is zero-sum.
LEMMA TransferLedger ==
  ASSUME NEW v \in VaultState, NEW a \in Accounts, NEW b \in Accounts, NEW x \in Int
  PROVE  LedgerChange(v, transferInternal(v, a, b, x), 0)
<1>1. CASE a = b
  BY <1>1 DEF VaultState, transferInternal, LedgerChange
<1>2. CASE a # b
  <2> DEFINE w == [v.balances EXCEPT ![a] = @ - x, ![b] = @ + x]
  <2>1. w \in [Accounts -> Int]
    BY DEF VaultState
  <2>2. transferInternal(v, a, b, x) = [v EXCEPT !.balances = w]
    BY <1>2 DEF transferInternal
  <2> HIDE DEF w
  <2> QED BY <2>1, <2>2, SetBalances
<1> QED BY <1>1, <1>2

\* A deposit raises custody and ledger alike.
LEMMA CreditLedger ==
  ASSUME NEW v \in VaultState, NEW a \in Accounts, NEW n \in Nat
  PROVE  /\ credit(v, a, n) \in VaultState
         /\ credit(v, a, n).custody = v.custody + n
         /\ credit(v, a, n).totalLedger = v.totalLedger + toInternal(n)
<1> DEFINE counted == IF a \in CapExempt THEN 0 ELSE n
           c       == v.custody + n
           total   == v.totalDeposited + counted
           w       == [v.netDeposited EXCEPT ![a] = @ + counted]
           u1      == [v EXCEPT !.custody = c]
           u2      == [u1 EXCEPT !.totalDeposited = total]
           u3      == [u2 EXCEPT !.netDeposited = w]
<1>1. credit(v, a, n) = move(u3, a, toInternal(n))
  BY DEF credit
<1>2. counted \in Nat OBVIOUS
<1> HIDE DEF counted
<1>3. c \in Nat /\ total \in Nat /\ w \in [Accounts -> Nat]
  BY <1>2 DEF VaultState
<1> HIDE DEF c, total, w
<1>4. u1 \in VaultState /\ u1.custody = c /\ u1.totalLedger = v.totalLedger
  BY <1>3, SetCustody
<1> HIDE DEF u1
<1>5. LedgerChange(u1, u2, 0)
  BY <1>3, <1>4, SetCounters
<1> HIDE DEF u2
<1>6. LedgerChange(u2, u3, 0)
  BY <1>3, <1>5, SetNetDeposited DEF LedgerChange
<1> HIDE DEF u3
<1>7. toInternal(n) \in Int
  BY ToInternalAdditive
<1>8. LedgerChange(u3, move(u3, a, toInternal(n)), toInternal(n))
  BY <1>6, <1>7, MoveLedger DEF LedgerChange
<1> QED BY <1>1, <1>4, <1>5, <1>6, <1>7, <1>8 DEF LedgerChange, VaultState, c

\* A withdrawal lowers both alike.
LEMMA DebitLedger ==
  ASSUME NEW v \in VaultState, NEW a \in Accounts, NEW n \in Nat, n <= v.custody
  PROVE  /\ debit(v, a, n) \in VaultState
         /\ debit(v, a, n).custody = v.custody - n
         /\ debit(v, a, n).totalLedger = v.totalLedger - toInternal(n)
<1> DEFINE counted == IF a \in CapExempt THEN 0 ELSE n
           c       == v.custody - n
           total   == max(0, v.totalDeposited - counted)
           w       == [v.netDeposited EXCEPT ![a] = max(0, @ - counted)]
           u1      == [v EXCEPT !.custody = c]
           u2      == [u1 EXCEPT !.totalDeposited = total]
           u3      == [u2 EXCEPT !.netDeposited = w]
<1>1. debit(v, a, n) = move(u3, a, -toInternal(n))
  BY DEF debit
<1>2. counted \in Nat OBVIOUS
<1> HIDE DEF counted
<1>3. c \in Nat /\ total \in Nat /\ max(0, v.netDeposited[a] - counted) \in Nat
  BY <1>2 DEF VaultState, max
<1>4. w \in [Accounts -> Nat]
  BY <1>3 DEF VaultState
<1> HIDE DEF c, total, w
<1>5. u1 \in VaultState /\ u1.custody = c /\ u1.totalLedger = v.totalLedger
  BY <1>3, SetCustody
<1> HIDE DEF u1
<1>6. LedgerChange(u1, u2, 0)
  BY <1>3, <1>5, SetCounters
<1> HIDE DEF u2
<1>7. LedgerChange(u2, u3, 0)
  BY <1>4, <1>6, SetNetDeposited DEF LedgerChange
<1> HIDE DEF u3
<1>8. toInternal(n) \in Int /\ -toInternal(n) \in Int
  BY ToInternalAdditive
<1>9. LedgerChange(u3, move(u3, a, -toInternal(n)), -toInternal(n))
  BY <1>7, <1>8, MoveLedger DEF LedgerChange
<1> QED BY <1>1, <1>5, <1>6, <1>7, <1>8, <1>9 DEF LedgerChange, VaultState, c

-----------------------------------------------------------------------------
(* The engine.                                                             *)

\* The parts of the engine that the trades and the funding clock maintain.
LEMMA EngineFields ==
  ASSUME NEW e \in EngineState, NEW t \in Accounts, NEW m \in Markets
  PROVE  /\ e.positions \in [Accounts -> [Markets -> Position]]
         /\ e.positions[t][m] \in Position
         /\ e.positions[t][m].size \in Int
         /\ e.positions[t][m].openNotional \in Int
         /\ e.positions[t][m].lastFundingIndex \in Int
         /\ e.marketBitmap \in [Accounts -> SUBSET Markets]
         /\ e.openInterest \in [Markets -> [long : Int, short : Int]]
         /\ e.openInterest[m] \in [long : Int, short : Int]
         /\ e.openInterest[m].long \in Int
         /\ e.openInterest[m].short \in Int
         /\ e.netCostBasis \in Int
<1>1. /\ e.positions \in [Accounts -> [Markets -> Position]]
      /\ e.marketBitmap \in [Accounts -> SUBSET Markets]
      /\ e.openInterest \in [Markets -> [long : Int, short : Int]]
      /\ e.netCostBasis \in Int
  BY DEF EngineState
<1>2. e.positions[t][m] \in Position
  BY <1>1
<1>3. /\ e.positions[t][m].size \in Int
      /\ e.positions[t][m].openNotional \in Int
      /\ e.positions[t][m].lastFundingIndex \in Int
  BY <1>2 DEF Position
<1>4. e.openInterest[m] \in [long : Int, short : Int]
  BY <1>1
<1>5. e.openInterest[m].long \in Int /\ e.openInterest[m].short \in Int
  BY <1>4
<1> QED BY <1>1, <1>2, <1>3, <1>4, <1>5

\* Funding indices are integers on both sides.
LEMMA SideIndexInt ==
  ASSUME NEW e \in EngineState, NEW m \in Markets, NEW b
  PROVE  sideIndex(e, m, b) \in Int
  BY DEF EngineState, sideIndex

\* Funding moves money between a trader and the pool, never in or out.
LEMMA SettleFundingLedger ==
  ASSUME NEW v \in VaultState, NEW e \in EngineState, NEW t \in Accounts, NEW m \in Markets
  PROVE  LedgerChange(v, settleFunding(v, e, t, m), 0)
<1> DEFINE p == e.positions[t][m]
           d == sideIndex(e, m, p.size > 0) - p.lastFundingIndex
<1>1. p.size \in Int /\ p.lastFundingIndex \in Int
  BY EngineFields
<1>2. sideIndex(e, m, p.size > 0) \in Int
  BY SideIndexInt
<1>3. d \in Int /\ -d \in Int /\ abs(p.size) \in Int
  <2>1. d \in Int /\ -d \in Int
    BY <1>1, <1>2
  <2>2. abs(p.size) \in Int
    BY <1>1, AbsNat
  <2> QED BY <2>1, <2>2
<1>4. mulPrecisionUp(abs(p.size), d) \in Int /\ mulPrecision(abs(p.size), -d) \in Int
  BY <1>3, FixedPointInt
<1>5. CASE p.size = 0 \/ d = 0
  <2>1. settleFunding(v, e, t, m) = v
    BY <1>1, <1>5 DEF settleFunding
  <2> QED BY <2>1 DEF LedgerChange, VaultState
<1>6. CASE p.size # 0 /\ d > 0
  <2>1. settleFunding(v, e, t, m)
          = transferInternal(v, t, FUNDING_POOL, mulPrecisionUp(abs(p.size), d))
    BY <1>3, <1>6 DEF settleFunding
  <2> QED BY <2>1, <1>4, TransferLedger, ProtocolAccounts
<1>7. CASE p.size # 0 /\ d < 0
  <2>1. settleFunding(v, e, t, m)
          = transferInternal(v, FUNDING_POOL, t, mulPrecision(abs(p.size), -d))
    BY <1>3, <1>7 DEF settleFunding
  <2> QED BY <2>1, <1>4, TransferLedger, ProtocolAccounts
<1> QED BY <1>3, <1>5, <1>6, <1>7

\* What a trade realizes and what it adds to and removes from the cost basis
\* together amount to the notional paid, to the last unit, and what it closes and
\* opens amounts to the size traded.
SplitBalances(sp, p, delta, n) ==
  /\ sp.closeQty \in Int /\ sp.residual \in Int /\ sp.addedBasis \in Int
  /\ sp.removedBasis \in Int /\ sp.realized \in Int
  /\ sp.closeQty + sp.residual = abs(delta)
  /\ sp.closeQty # 0 => p.size # 0 /\ (p.size > 0) # (delta > 0)
  /\ sp.realized - sp.addedBasis + sp.removedBasis = IF delta > 0 THEN -n ELSE n

\* Engine._trade splits a trade that way.
LEMMA SplitTradeBalance ==
  ASSUME NEW p \in Position, NEW delta \in Int, delta # 0, NEW price \in Int, NEW n \in Int
  PROVE  SplitBalances(splitTrade(p, delta, price, n), p, delta, n)
<1> DEFINE opposite      == p.size # 0 /\ (p.size > 0) # (delta > 0)
           closeQty      == IF opposite THEN min(abs(p.size), abs(delta)) ELSE 0
           residual      == abs(delta) - closeQty
           closeNotional == IF residual = 0 THEN n ELSE mulPrecision(closeQty, price)
           removedBasis  == IF closeQty = 0 THEN 0
                            ELSE IF closeQty = abs(p.size) THEN p.openNotional
                            ELSE mulDiv(p.openNotional, closeQty, abs(p.size))
           addedBasis    == IF delta > 0 THEN n - closeNotional ELSE closeNotional - n
           realized      == IF closeQty = 0 THEN 0
                            ELSE (IF delta > 0 THEN -closeNotional ELSE closeNotional)
                                 - removedBasis
<1>1. splitTrade(p, delta, price, n)
        = [ closeQty |-> closeQty, residual |-> residual, addedBasis |-> addedBasis,
            removedBasis |-> removedBasis, realized |-> realized ]
  BY DEF splitTrade
<1>2. p.size \in Int /\ p.openNotional \in Int
  BY DEF Position
<1>3. abs(p.size) \in Nat /\ abs(delta) \in Nat /\ (p.size # 0 => abs(p.size) # 0)
      /\ abs(delta) # 0
  BY <1>2, AbsMinMaxInt
<1>4. closeQty \in Int /\ (closeQty # 0 => opposite)
  BY <1>3, AbsMinMaxInt
<1> HIDE DEF closeQty
<1>5. residual \in Int /\ closeQty + residual = abs(delta)
  BY <1>3, <1>4
<1>6. closeNotional \in Int
  BY <1>4, FixedPointInt
<1>7. closeQty = 0 => closeNotional = 0
  BY <1>3, <1>4, MulPrecisionZero
<1>8. removedBasis \in Int
  BY <1>2, <1>3, <1>4, MulDivInt
<1>9. closeQty = 0 => removedBasis = 0
  OBVIOUS
<1> HIDE DEF closeNotional, removedBasis, residual, opposite
<1>10. /\ addedBasis \in Int /\ realized \in Int
       /\ realized - addedBasis + removedBasis = IF delta > 0 THEN -n ELSE n
  BY <1>6, <1>7, <1>8, <1>9
<1> QED BY <1>1, <1>4, <1>5, <1>8, <1>10 DEF opposite, SplitBalances

\* Replacing one field of the engine's record.
LEMMA SetPositions ==
  ASSUME NEW e \in EngineState, NEW w \in [Accounts -> [Markets -> Position]]
  PROVE  /\ [e EXCEPT !.positions = w] \in EngineState
         /\ [e EXCEPT !.positions = w].openInterest = e.openInterest
         /\ [e EXCEPT !.positions = w].netCostBasis = e.netCostBasis
         /\ [e EXCEPT !.positions = w].marketBitmap = e.marketBitmap
  BY DEF EngineState

\* Replacing the position bitmap,
LEMMA SetBitmap ==
  ASSUME NEW e \in EngineState, NEW w \in [Accounts -> SUBSET Markets]
  PROVE  /\ [e EXCEPT !.marketBitmap = w] \in EngineState
         /\ [e EXCEPT !.marketBitmap = w].openInterest = e.openInterest
         /\ [e EXCEPT !.marketBitmap = w].netCostBasis = e.netCostBasis
  BY DEF EngineState

\* the open interest,
LEMMA SetOpenInterest ==
  ASSUME NEW e \in EngineState, NEW w \in [Markets -> [long : Int, short : Int]]
  PROVE  /\ [e EXCEPT !.openInterest = w] \in EngineState
         /\ [e EXCEPT !.openInterest = w].openInterest = w
         /\ [e EXCEPT !.openInterest = w].netCostBasis = e.netCostBasis
  BY DEF EngineState

\* the cost basis,
LEMMA SetCostBasis ==
  ASSUME NEW e \in EngineState, NEW x \in Int
  PROVE  /\ [e EXCEPT !.netCostBasis = x] \in EngineState
         /\ [e EXCEPT !.netCostBasis = x].openInterest = e.openInterest
         /\ [e EXCEPT !.netCostBasis = x].netCostBasis = x
  BY DEF EngineState

\* the marks,
LEMMA SetMarks ==
  ASSUME NEW e \in EngineState,
         NEW w \in [Markets -> [lastPrice : Int, lastTs : Int, cumulative : Int,
                                windowStart : Int]]
  PROVE  /\ [e EXCEPT !.marks = w] \in EngineState
         /\ [e EXCEPT !.marks = w].openInterest = e.openInterest
         /\ [e EXCEPT !.marks = w].netCostBasis = e.netCostBasis
         /\ [e EXCEPT !.marks = w].funding = e.funding
  BY DEF EngineState

\* or the funding records of an engine.
LEMMA SetFunding ==
  ASSUME NEW e \in EngineState,
         NEW w \in [Markets -> [longIndex : Int, shortIndex : Int, ratePerHour : Int,
                                lastUpdate : Int]]
  PROVE  /\ [e EXCEPT !.funding = w] \in EngineState
         /\ [e EXCEPT !.funding = w].openInterest = e.openInterest
         /\ [e EXCEPT !.funding = w].netCostBasis = e.netCostBasis
  BY DEF EngineState

\* The imbalance of a market's open interest.
imbalance(e, m) == e.openInterest[m].long - e.openInterest[m].short

\* _trade stores a position.
LEMMA NewPositionType ==
  ASSUME NEW e \in EngineState, NEW t \in Accounts, NEW m \in Markets, NEW delta \in Int,
         NEW sp, sp.removedBasis \in Int, sp.addedBasis \in Int
  PROVE  newPosition(e, t, m, delta, sp) \in Position
<1> DEFINE p == e.positions[t][m]
<1>1. p.size \in Int /\ p.openNotional \in Int
  BY EngineFields
<1>2. /\ p.size + delta \in Int
      /\ p.openNotional - sp.removedBasis + sp.addedBasis \in Int
      /\ sideIndex(e, m, p.size + delta > 0) \in Int
  BY <1>1, SideIndexInt
<1> HIDE DEF p
<1> QED BY <1>2 DEF newPosition, Position, Flat, p

\* Opening and closing change a market's imbalance by the size traded.
LEMMA ChangeOpenInterestBalance ==
  ASSUME NEW oi \in [long : Int, short : Int], NEW p \in Position, NEW delta \in Int, delta # 0,
         NEW sp, sp.closeQty \in Int, sp.residual \in Int,
         sp.closeQty + sp.residual = abs(delta),
         sp.closeQty # 0 => p.size # 0 /\ (p.size > 0) # (delta > 0)
  PROVE  LET w == changeOpenInterest(oi, p, delta, sp)
         IN  /\ w \in [long : Int, short : Int]
             /\ w.long - w.short = oi.long - oi.short + delta
<1>1. p.size \in Int /\ oi.long \in Int /\ oi.short \in Int
  BY DEF Position
<1>2. abs(delta) = IF delta < 0 THEN -delta ELSE delta
  BY DEF abs
<1> QED BY <1>1, <1>2 DEF changeOpenInterest

\* One side of a fill, v, e to v2, e2: both keep their types, custody is untouched,
\* `paid` leaves the ledger and the cost basis together, and market m's imbalance
\* grows by delta while the others keep theirs.
OneSide(v, e, v2, e2, m, delta, paid) ==
  /\ v2 \in VaultState /\ e2 \in EngineState
  /\ v2.custody = v.custody
  /\ v2.totalLedger - e2.netCostBasis = v.totalLedger - e.netCostBasis - paid
  /\ \A k \in Markets : imbalance(e2, k) = imbalance(e, k) + (IF k = m THEN delta ELSE 0)

\* _trade is one side of a fill, whatever it opens, closes or flips.
LEMMA TradeOneSide ==
  ASSUME NEW v \in VaultState, NEW e \in EngineState, NEW t \in Accounts, NEW m \in Markets,
         NEW delta \in Int, delta # 0, NEW price \in Int, NEW n \in Int,
         NEW ro, NEW limits, NEW active
  PROVE  LET r == trade(v, e, t, m, delta, price, n, ro, limits, active)
         IN  /\ OneSide(v, e, r.vault, r.engine, m, delta, IF delta > 0 THEN n ELSE -n)
             /\ r.realized \in Int
<1> DEFINE p  == e.positions[t][m]
           sp == splitTrade(p, delta, price, n)
           np == newPosition(e, t, m, delta, sp)
           r  == trade(v, e, t, m, delta, price, n, ro, limits, active)
           wp == [e.positions EXCEPT ![t][m] = np]
           wb == [e.marketBitmap EXCEPT ![t] = IF np.size = 0 THEN @ \ {m} ELSE @ \cup {m}]
           wo == [e.openInterest EXCEPT ![m] = changeOpenInterest(@, p, delta, sp)]
           cb == e.netCostBasis - sp.removedBasis + sp.addedBasis
           e1 == [e EXCEPT !.positions = wp]
           e2 == [e1 EXCEPT !.marketBitmap = wb]
           e3 == [e2 EXCEPT !.openInterest = wo]
           e4 == [e3 EXCEPT !.netCostBasis = cb]
<1>1. r.vault = applyPnl(settleFunding(v, e, t, m), t, sp.realized)
      /\ r.engine = e4 /\ r.realized = sp.realized
  BY DEF trade
<1>2. p \in Position
  BY EngineFields
<1>3. /\ sp.closeQty \in Int /\ sp.residual \in Int /\ sp.addedBasis \in Int
      /\ sp.removedBasis \in Int /\ sp.realized \in Int
      /\ sp.closeQty + sp.residual = abs(delta)
      /\ sp.closeQty # 0 => p.size # 0 /\ (p.size > 0) # (delta > 0)
      /\ sp.realized - sp.addedBasis + sp.removedBasis = IF delta > 0 THEN -n ELSE n
  <2>1. SplitBalances(splitTrade(p, delta, price, n), p, delta, n)
    BY <1>2, SplitTradeBalance
  <2> HIDE DEF sp, p
  <2> QED BY <2>1 DEF SplitBalances, sp
<1> HIDE DEF r, sp
<1>4. np \in Position
  BY <1>3, NewPositionType
<1> HIDE DEF np
<1>5. wp \in [Accounts -> [Markets -> Position]]
  BY <1>4, EngineFields
<1>6. wb \in [Accounts -> SUBSET Markets]
  BY EngineFields
<1>7. /\ changeOpenInterest(e.openInterest[m], p, delta, sp) \in [long : Int, short : Int]
      /\ changeOpenInterest(e.openInterest[m], p, delta, sp).long
           - changeOpenInterest(e.openInterest[m], p, delta, sp).short
           = imbalance(e, m) + delta
  BY <1>2, <1>3, EngineFields, ChangeOpenInterestBalance DEF imbalance
<1> HIDE DEF p
<1>8. /\ wo \in [Markets -> [long : Int, short : Int]]
      /\ wo[m] = changeOpenInterest(e.openInterest[m], p, delta, sp)
      /\ \A k \in Markets \ {m} : wo[k] = e.openInterest[k]
  BY <1>7, EngineFields
<1>9. cb \in Int
  BY <1>3, EngineFields
<1> HIDE DEF wp, wb, wo, cb
<1>10. e1 \in EngineState
  BY <1>5, SetPositions
<1> HIDE DEF e1
<1>11. e2 \in EngineState
  BY <1>6, <1>10, SetBitmap
<1> HIDE DEF e2
<1>12. e3 \in EngineState /\ e3.openInterest = wo
  BY <1>8, <1>11, SetOpenInterest
<1> HIDE DEF e3
<1>13. e4 \in EngineState /\ e4.openInterest = wo /\ e4.netCostBasis = cb
  BY <1>9, <1>12, SetCostBasis
<1> HIDE DEF e4
<1>14. \A k \in Markets : imbalance(e4, k) = imbalance(e, k) + (IF k = m THEN delta ELSE 0)
  <2> SUFFICES ASSUME NEW k \in Markets
               PROVE  imbalance(e4, k) = imbalance(e, k) + (IF k = m THEN delta ELSE 0)
    OBVIOUS
  <2>1. e.openInterest[k].long \in Int /\ e.openInterest[k].short \in Int
    BY EngineFields
  <2>2. CASE k = m
    BY <2>2, <1>7, <1>8, <1>13 DEF imbalance
  <2>3. CASE k # m
    BY <2>1, <2>3, <1>8, <1>13 DEF imbalance
  <2> QED BY <2>2, <2>3
<1>15. LedgerChange(v, settleFunding(v, e, t, m), 0)
  BY SettleFundingLedger
<1>16. LedgerChange(settleFunding(v, e, t, m), r.vault, sp.realized)
  <2>1. settleFunding(v, e, t, m) \in VaultState
    BY <1>15 DEF LedgerChange
  <2>2. LedgerChange(settleFunding(v, e, t, m),
                     move(settleFunding(v, e, t, m), t, sp.realized), sp.realized)
    BY <2>1, <1>3, MoveLedger
  <2> QED BY <2>2, <1>1 DEF applyPnl
<1>17. /\ r.vault \in VaultState /\ r.vault.custody = v.custody
       /\ r.vault.totalLedger = v.totalLedger + sp.realized
       /\ v.totalLedger \in Int
  BY <1>3, <1>15, <1>16 DEF LedgerChange, VaultState
<1>18. r.vault.totalLedger - cb
         = v.totalLedger - e.netCostBasis - (IF delta > 0 THEN n ELSE -n)
  <2>1. e.netCostBasis \in Int
    BY EngineFields
  <2>2. r.vault.totalLedger = v.totalLedger + sp.realized /\ v.totalLedger \in Int
    BY <1>17
  <2>3. cb = e.netCostBasis - sp.removedBasis + sp.addedBasis
    BY DEF cb
  <2>4. CASE delta > 0
    BY <2>1, <2>2, <2>3, <2>4, <1>3
  <2>5. CASE ~(delta > 0)
    BY <2>1, <2>2, <2>3, <2>5, <1>3
  <2> QED BY <2>4, <2>5
<1> QED BY <1>1, <1>3, <1>13, <1>14, <1>17, <1>18 DEF OneSide, r

MarkRecord == [lastPrice : Int, lastTs : Int, cumulative : Int, windowStart : Int]
FundingRecord == [longIndex : Int, shortIndex : Int, ratePerHour : Int, lastUpdate : Int]

\* e2 has the type of an engine, with e's open interest and cost basis.
Untraded(e, e2) ==
  /\ e2 \in EngineState
  /\ e2.openInterest = e.openInterest
  /\ e2.netCostBasis = e.netCostBasis

\* Every market has a mark and a funding record.
LEMMA MarkFields ==
  ASSUME NEW e \in EngineState, NEW m \in Markets
  PROVE  /\ e.marks \in [Markets -> MarkRecord] /\ e.marks[m] \in MarkRecord
         /\ e.funding \in [Markets -> FundingRecord] /\ e.funding[m] \in FundingRecord
<1>1. e.marks \in [Markets -> MarkRecord] /\ e.funding \in [Markets -> FundingRecord]
  BY DEF EngineState, MarkRecord, FundingRecord
<1> QED BY <1>1

\* _accrueMark keeps the type of a mark.
LEMMA AccrueMarkType ==
  ASSUME NEW st \in MarkRecord, NEW t \in Int
  PROVE  accrueMark(st, t) \in MarkRecord
<1> DEFINE c == IF t > st.lastTs /\ st.lastPrice > 0
                THEN st.cumulative + st.lastPrice * (t - st.lastTs) ELSE st.cumulative
           u == [st EXCEPT !.cumulative = c]
<1>1. c \in Int
  BY DEF MarkRecord
<1>2. accrueMark(st, t) = [u EXCEPT !.lastTs = t]
  BY DEF accrueMark
<1> HIDE DEF c
<1>3. u \in MarkRecord
  BY <1>1 DEF MarkRecord
<1> HIDE DEF u
<1> QED BY <1>2, <1>3 DEF MarkRecord

\* A changed mark or funding record leaves the rest of the engine alone.
LEMMA SetMark ==
  ASSUME NEW e \in EngineState, NEW m \in Markets, NEW st \in MarkRecord
  PROVE  /\ Untraded(e, [e EXCEPT !.marks[m] = st])
         /\ [e EXCEPT !.marks[m] = st].funding = e.funding
<1> DEFINE w == [e.marks EXCEPT ![m] = st]
<1>1. w \in [Markets -> MarkRecord]
  BY MarkFields
<1>2. [e EXCEPT !.marks[m] = st] = [e EXCEPT !.marks = w]
  OBVIOUS
<1> HIDE DEF w
<1> QED BY <1>1, <1>2, SetMarks DEF MarkRecord, Untraded

\* Replacing one market's funding record leaves the trading state alone.
LEMMA SetFundingOf ==
  ASSUME NEW e \in EngineState, NEW m \in Markets, NEW fd \in FundingRecord
  PROVE  Untraded(e, [e EXCEPT !.funding[m] = fd])
<1> DEFINE w == [e.funding EXCEPT ![m] = fd]
<1>1. w \in [Markets -> FundingRecord]
  BY MarkFields
<1>2. [e EXCEPT !.funding[m] = fd] = [e EXCEPT !.funding = w]
  OBVIOUS
<1> HIDE DEF w
<1> QED BY <1>1, <1>2, SetFunding DEF FundingRecord, Untraded

\* _recordMark leaves positions, open interest and cost basis alone.
LEMMA RecordMarkType ==
  ASSUME NEW e \in EngineState, NEW m \in Markets, NEW price \in Int, NEW t \in Int
  PROVE  Untraded(e, recordMark(e, m, price, t))
<1> DEFINE st    == e.marks[m]
           begins == st.lastPrice <= 0
           acc   == accrueMark(st, t)
           a1    == [acc EXCEPT !.lastPrice = price]
           a2    == [a1 EXCEPT !.windowStart = IF begins THEN t ELSE @]
           a3    == [a2 EXCEPT !.cumulative = IF begins THEN 0 ELSE @]
           e1    == [e EXCEPT !.marks[m] = a3]
           lu    == IF begins /\ e1.funding[m].lastUpdate = 0 THEN t
                    ELSE e1.funding[m].lastUpdate
           fd    == [e1.funding[m] EXCEPT !.lastUpdate = lu]
           e2    == [e1 EXCEPT !.funding[m] = fd]
<1>1. CASE st.lastPrice = price /\ st.lastTs = t
  BY <1>1 DEF recordMark, Untraded
<1>2. CASE ~(st.lastPrice = price /\ st.lastTs = t)
  <2>1. recordMark(e, m, price, t) = e2
    BY <1>2 DEF recordMark
  <2>2. acc \in MarkRecord
    BY MarkFields, AccrueMarkType
  <2> HIDE DEF acc, begins
  <2>3. a1 \in MarkRecord
    BY <2>2 DEF MarkRecord
  <2> HIDE DEF a1
  <2>4. (IF begins THEN t ELSE a1.windowStart) \in Int
    BY <2>3 DEF MarkRecord
  <2>5. a2 \in MarkRecord
    BY <2>3, <2>4 DEF MarkRecord
  <2> HIDE DEF a2
  <2>6. (IF begins THEN 0 ELSE a2.cumulative) \in Int
    BY <2>5 DEF MarkRecord
  <2>7. a3 \in MarkRecord
    BY <2>5, <2>6 DEF MarkRecord
  <2> HIDE DEF a3
  <2>8. Untraded(e, e1) /\ e1 \in EngineState
    BY <2>7, SetMark DEF Untraded
  <2> HIDE DEF e1
  <2>9. e1.funding[m] \in FundingRecord
    BY <2>8, MarkFields
  <2>10. lu \in Int
    BY <2>9 DEF FundingRecord
  <2> HIDE DEF lu
  <2>11. fd \in FundingRecord
    BY <2>9, <2>10 DEF FundingRecord
  <2> HIDE DEF fd
  <2>12. Untraded(e1, e2)
    BY <2>8, <2>11, SetFundingOf
  <2> QED BY <2>1, <2>8, <2>12 DEF Untraded
<1> QED BY <1>1, <1>2

\* The consumed TWAP is an integer.
LEMMA TwapInt ==
  ASSUME NEW st \in MarkRecord, NEW t \in Int
  PROVE  twap(st, t) \in Int
<1>1. accrueMark(st, t).cumulative \in Int /\ st.lastPrice \in Int /\ st.windowStart \in Int
  BY AccrueMarkType DEF MarkRecord
<1>2. CASE st.lastPrice > 0 /\ t > st.windowStart
  <2> DEFINE d == t - st.windowStart
  <2>1. d \in Nat \ {0}
    BY <1>1, <1>2
  <2> HIDE DEF d
  <2>2. mulDiv(accrueMark(st, t).cumulative, 1, d) \in Int
    <3> DEFINE c == accrueMark(st, t).cumulative
    <3>1. c \in Int
      BY <1>1
    <3> HIDE DEF c
    <3>2. mulDiv(c, 1, d) \in Int
      BY <2>1, <3>1, MulDivInt
    <3> QED BY <3>2 DEF c
  <2> QED BY <1>1, <1>2, <2>2 DEF twap, d
<1>3. CASE ~(st.lastPrice > 0 /\ t > st.windowStart)
  BY <1>1, <1>3 DEF twap
<1> QED BY <1>2, <1>3

\* Closing the TWAP window keeps the type of a mark.
LEMMA CloseWindowType ==
  ASSUME NEW st \in MarkRecord, NEW t \in Int
  PROVE  closeWindow(st, t) \in MarkRecord
<1> DEFINE acc == accrueMark(st, t)
           a1  == [acc EXCEPT !.cumulative = 0]
<1>1. acc \in MarkRecord
  BY AccrueMarkType
<1> HIDE DEF acc
<1>2. a1 \in MarkRecord
  BY <1>1 DEF MarkRecord
<1> HIDE DEF a1
<1>3. [a1 EXCEPT !.windowStart = t] \in MarkRecord
  BY <1>2 DEF MarkRecord
<1>4. CASE st.lastPrice <= 0
  BY <1>4 DEF closeWindow
<1>5. CASE ~(st.lastPrice <= 0)
  BY <1>3, <1>5 DEF closeWindow, a1, acc
<1> QED BY <1>4, <1>5

\* FundingLib.updateFromPremium returns a funding record whose two indices moved by
\* opposite amounts.
LEMMA UpdateFromPremiumType ==
  ASSUME NEW m \in Markets, NEW fd \in FundingRecord, NEW premium \in Int, NEW t \in Int
  PROVE  /\ updateFromPremium(m, fd, premium, t) \in FundingRecord
         /\ \E d \in Int :
              /\ updateFromPremium(m, fd, premium, t).longIndex = fd.longIndex + d
              /\ updateFromPremium(m, fd, premium, t).shortIndex = fd.shortIndex - d
<1> DEFINE started == IF fd.lastUpdate = 0 THEN t ELSE fd.lastUpdate
           limit   == MarketParams[m].maxRatePerHour
           raw     == mulPrecision(premium, MarketParams[m].premiumCoeff)
           rate    == clamp(raw, -limit, limit)
           elapsed == min(t - started, MAX_FUNDING_ELAPSED_SECS)
           delta   == mulDiv(rate, elapsed, SECS_PER_HOUR)
<1>1. /\ fd.lastUpdate \in Int /\ fd.longIndex \in Int /\ fd.shortIndex \in Int
      /\ fd.ratePerHour \in Int
  BY DEF FundingRecord
<1>2. started \in Int
  BY <1>1
<1>3. MarketParams[m].maxRatePerHour \in Int /\ MarketParams[m].premiumCoeff \in Int
  BY EngineConfig DEF MarketConfig
<1>4. raw \in Int
  BY <1>3, FixedPointInt
<1> HIDE DEF raw
<1>5. rate \in Int
  BY <1>3, <1>4 DEF clamp
<1>6. elapsed \in Int
  BY <1>2, EngineConfig DEF min
<1> HIDE DEF rate, elapsed
<1>7. delta \in Int
  BY <1>5, <1>6, EngineConfig, MulDivInt
<1>8. updateFromPremium(m, fd, premium, t)
        = IF t <= started THEN [fd EXCEPT !.lastUpdate = started]
          ELSE [ longIndex |-> fd.longIndex + delta, shortIndex |-> fd.shortIndex - delta,
                 ratePerHour |-> rate, lastUpdate |-> t ]
  BY DEF updateFromPremium, delta, rate, elapsed, raw
<1> HIDE DEF delta, started
<1>9. [fd EXCEPT !.lastUpdate = started] \in FundingRecord
  BY <1>2 DEF FundingRecord
<1>10. fd.longIndex + delta \in Int /\ fd.shortIndex - delta \in Int
  BY <1>1, <1>7
<1>11. [ longIndex |-> fd.longIndex + delta, shortIndex |-> fd.shortIndex - delta,
         ratePerHour |-> rate, lastUpdate |-> t ] \in FundingRecord
  BY <1>5, <1>10 DEF FundingRecord
<1> DEFINE f2 == updateFromPremium(m, fd, premium, t)
<1>12. CASE t <= started
  <2>1. f2.longIndex = fd.longIndex + 0 /\ f2.shortIndex = fd.shortIndex - 0
    BY <1>1, <1>8, <1>12 DEF FundingRecord
  <2> HIDE DEF f2
  <2> QED BY <1>8, <1>9, <1>12, <2>1 DEF f2
<1>13. CASE ~(t <= started)
  <2>1. f2.longIndex = fd.longIndex + delta /\ f2.shortIndex = fd.shortIndex - delta
    BY <1>8, <1>13
  <2> HIDE DEF f2
  <2> QED BY <1>7, <1>8, <1>11, <1>13, <2>1 DEF f2
<1> QED BY <1>12, <1>13

\* updateFunding leaves positions, open interest and cost basis alone.
LEMMA UpdateFundingType ==
  ASSUME NEW e \in EngineState, NEW m \in Markets, NEW index \in Nat, NEW t \in Int,
         twap(e.marks[m], t) > 0 => index > 0
  PROVE  Untraded(e, updateFunding(e, m, index, t))
<1> DEFINE mark    == twap(e.marks[m], t)
           premium == IF mark > 0 THEN divPrecision(mark - index, index) ELSE 0
           st      == closeWindow(e.marks[m], t)
           e1      == [e EXCEPT !.marks[m] = st]
           fd      == updateFromPremium(m, e1.funding[m], premium, t)
<1>1. updateFunding(e, m, index, t) = [e1 EXCEPT !.funding[m] = fd]
  BY DEF updateFunding
<1>2. mark \in Int /\ st \in MarkRecord
  BY MarkFields, TwapInt, CloseWindowType
<1>3. premium \in Int
  <2>1. CASE mark > 0
    <3>1. index \in Nat \ {0} /\ mark - index \in Int
      BY <1>2, <2>1
    <3>2. divPrecision(mark - index, index) \in Int
      BY <3>1, DivPrecisionInt
    <3> QED BY <2>1, <3>2
  <2>2. CASE ~(mark > 0)
    BY <2>2
  <2> QED BY <2>1, <2>2
<1> HIDE DEF st, premium
<1>4. Untraded(e, e1) /\ e1 \in EngineState
  BY <1>2, SetMark DEF Untraded
<1> HIDE DEF e1
<1>5. e1.funding[m] \in FundingRecord
  BY <1>4, MarkFields
<1>6. fd \in FundingRecord
  BY <1>3, <1>5, UpdateFromPremiumType
<1> HIDE DEF fd
<1>7. Untraded(e1, [e1 EXCEPT !.funding[m] = fd])
  BY <1>4, <1>6, SetFundingOf
<1> QED BY <1>1, <1>4, <1>7 DEF Untraded

-----------------------------------------------------------------------------
(* Fees.                                                                   *)

\* _rateFor returns integer rates.
LEMMA RateForType ==
  ASSUME NEW f \in FeeState, NEW m \in Markets, NEW a \in Accounts
  PROVE  /\ rateFor(f, m, a).makerRate \in Int
         /\ rateFor(f, m, a).takerRate \in Int
<1>1. /\ f.marketRates \in [Markets -> Rates] /\ f.tiers \in [Tiers -> Rates]
      /\ f.accountTier \in [Accounts -> Tiers \cup {0}]
  BY DEF FeeState
<1>2. f.marketRates[m] \in Rates
  BY <1>1
<1>3. f.accountTier[a] # 0 => f.tiers[f.accountTier[a]] \in Rates
  BY <1>1
<1>4. rateFor(f, m, a) \in Rates
  BY <1>2, <1>3 DEF rateFor
<1> QED BY <1>4 DEF Rates

\* _ceilMul returns an integer.
LEMMA CeilMulInt ==
  ASSUME NEW n \in Int, NEW rate \in Int
  PROVE  ceilMul(n, rate) \in Int
<1>1. n * rate - 1 \in Int
  OBVIOUS
<1>2. TruncDiv(n * rate - 1, RATE_DENOMINATOR) \in Int
  BY <1>1, TruncDivInt, ScalesPositive
<1> QED BY <1>2 DEF ceilMul

\* quote returns integer fees for both sides.
LEMMA QuoteInt ==
  ASSUME NEW f \in FeeState, NEW m \in Markets, NEW a \in Accounts, NEW b \in Accounts,
         NEW n \in Int
  PROVE  /\ quote(f, m, a, b, n).takerFee \in Int
         /\ quote(f, m, a, b, n).makerFee \in Int
<1> DEFINE rate == effectiveRates(f, m, a, b)
<1>1. f.minNetRate \in Int
  BY DEF FeeState
<1>2. rate.taker \in Int /\ rate.maker \in Int
  BY <1>1, RateForType DEF effectiveRates
<1>3. quote(f, m, a, b, n)
        = [ takerFee |-> ceilMul(n, rate.taker),
            makerFee |-> IF rate.maker >= 0 THEN ceilMul(n, rate.maker)
                         ELSE -mulDiv(n, -rate.maker, RATE_DENOMINATOR) ]
  BY DEF quote
<1> HIDE DEF rate
<1>4. ceilMul(n, rate.taker) \in Int /\ ceilMul(n, rate.maker) \in Int
  BY <1>2, CeilMulInt
<1>5. -rate.maker \in Int
  BY <1>2
<1>6. mulDiv(n, -rate.maker, RATE_DENOMINATOR) \in Int
  BY <1>5, MulDivInt, ScalesPositive
<1> QED BY <1>3, <1>4, <1>6

\* Replacing one field of the fee router's record.
LEMMA SetAccruals ==
  ASSUME NEW f \in FeeState, NEW x \in Int, NEW w \in [Traders -> Int]
  PROVE  /\ [f EXCEPT !.treasuryAccrued = x] \in FeeState
         /\ [f EXCEPT !.referralAccrued = w] \in FeeState
         /\ [f EXCEPT !.totalReferralAccrued = x] \in FeeState
  BY DEF FeeState

\* Moving the treasury's accrual keeps the router's type.
LEMMA AccrueTreasury ==
  ASSUME NEW f \in FeeState, NEW x \in Int
  PROVE  [f EXCEPT !.treasuryAccrued = @ + x] \in FeeState
<1> DEFINE k == f.treasuryAccrued + x
<1>1. k \in Int
  BY DEF FeeState
<1>2. [f EXCEPT !.treasuryAccrued = @ + x] = [f EXCEPT !.treasuryAccrued = k]
  OBVIOUS
<1> HIDE DEF k
<1> QED BY <1>1, <1>2, SetAccruals DEF FeeState

\* One referrer's accrual and the running total move together.
LEMMA AccrueReferral ==
  ASSUME NEW f \in FeeState, NEW r \in Traders, NEW x \in Int
  PROVE  [f EXCEPT !.referralAccrued[r] = @ + x, !.totalReferralAccrued = @ + x] \in FeeState
<1> DEFINE w  == [f.referralAccrued EXCEPT ![r] = @ + x]
           f1 == [f EXCEPT !.referralAccrued = w]
           k  == f.totalReferralAccrued + x
<1>1. w \in [Traders -> Int] /\ k \in Int
  BY DEF FeeState
<1>2. [f EXCEPT !.referralAccrued[r] = @ + x, !.totalReferralAccrued = @ + x]
        = [f1 EXCEPT !.totalReferralAccrued = k]
  OBVIOUS
<1> HIDE DEF w, k
<1>3. f1 \in FeeState
  BY <1>1, SetAccruals
<1> HIDE DEF f1
<1> QED BY <1>1, <1>2, <1>3, SetAccruals

\* The shares a split takes are integers.
LEMMA InsuranceShareInt ==
  ASSUME NEW f \in FeeState, NEW x \in Int
  PROVE  /\ insuranceShare(f, x) \in Int
         /\ mulDiv(x, f.split.referralBps, BPS_DENOMINATOR) \in Int
         /\ mulDiv(x, f.liquidationInsuranceBps, BPS_DENOMINATOR) \in Int
<1>1. f.split \in Split /\ f.liquidationInsuranceBps \in 0..BPS_DENOMINATOR
  BY DEF FeeState
<1>2. /\ f.split.insuranceBps \in 0..BPS_DENOMINATOR
      /\ f.split.referralBps \in 0..BPS_DENOMINATOR
  BY <1>1 DEF Split
<1>3. BPS_DENOMINATOR \in Nat \ {0}
  BY DEF BPS_DENOMINATOR
<1>5. /\ f.split.insuranceBps \in Int /\ f.split.referralBps \in Int
      /\ f.liquidationInsuranceBps \in Int
  BY <1>1, <1>2, <1>3
<1>4. /\ mulDiv(x, f.split.insuranceBps, BPS_DENOMINATOR) \in Int
      /\ mulDiv(x, f.split.referralBps, BPS_DENOMINATOR) \in Int
      /\ mulDiv(x, f.liquidationInsuranceBps, BPS_DENOMINATOR) \in Int
  BY <1>3, <1>5, MulDivInt
<1> QED BY <1>4 DEF insuranceShare

\* _accrue keeps the router's type, whoever referred the trade.
LEMMA AccrueType ==
  ASSUME NEW f \in FeeState, NEW payer, NEW x \in Int, NEW r
  PROVE  accrue(f, payer, x, r) \in FeeState
<1> DEFINE toReferral == mulDiv(x, f.split.referralBps, BPS_DENOMINATOR)
           kept       == x - insuranceShare(f, x)
           credited   == f.referralsEnabled /\ r \in f.approvedReferrer /\ r # payer
           f1         == [f EXCEPT !.treasuryAccrued = @ + (kept - toReferral)]
<1>1. toReferral \in Int /\ kept \in Int /\ kept - toReferral \in Int
  BY InsuranceShareInt
<1>2. f.approvedReferrer \subseteq Traders
  BY DEF FeeState
<1>3. CASE x <= 0
  BY <1>3 DEF accrue
<1>4. CASE ~(x <= 0) /\ credited
  <2>1. accrue(f, payer, x, r)
          = [f1 EXCEPT !.referralAccrued[r] = @ + toReferral,
                       !.totalReferralAccrued = @ + toReferral]
    BY <1>4 DEF accrue
  <2> HIDE DEF toReferral, kept
  <2>2. f1 \in FeeState
    BY <1>1, AccrueTreasury
  <2>3. r \in Traders
    BY <1>2, <1>4
  <2> HIDE DEF f1
  <2> QED BY <1>1, <2>1, <2>2, <2>3, AccrueReferral
<1>5. CASE ~(x <= 0) /\ ~credited
  <2>1. accrue(f, payer, x, r) = [f EXCEPT !.treasuryAccrued = @ + kept]
    BY <1>5 DEF accrue
  <2> HIDE DEF toReferral, kept
  <2> QED BY <1>1, <2>1, AccrueTreasury
<1> QED BY <1>3, <1>4, <1>5

\* Charging a fill moves fees inside the ledger.
LEMMA ChargeFillType ==
  ASSUME NEW v \in VaultState, NEW f \in FeeState, NEW m \in Markets,
         NEW a \in Accounts, NEW b \in Accounts, NEW n \in Int, NEW ra, NEW rb
  PROVE  /\ LedgerChange(v, chargeFill(v, f, m, a, b, n, ra, rb).vault, 0)
         /\ chargeFill(v, f, m, a, b, n, ra, rb).fees \in FeeState
<1> DEFINE q       == quote(f, m, a, b, n)
           charged == transferInternal(v, b, FEE_ROUTER, q.takerFee)
           paid    == IF q.makerFee > 0
                      THEN transferInternal(charged, a, FEE_ROUTER, q.makerFee)
                      ELSE transferInternal(charged, FEE_ROUTER, a, -q.makerFee)
           net     == q.takerFee + q.makerFee
           share   == IF q.makerFee > 0
                      THEN insuranceShare(f, q.makerFee) + insuranceShare(f, q.takerFee)
                      ELSE insuranceShare(f, net)
           c       == chargeFill(v, f, m, a, b, n, ra, rb)
<1>1. /\ c.vault = transferInternal(paid, FEE_ROUTER, INSURANCE, share)
      /\ c.fees = IF q.makerFee > 0
                  THEN accrue(accrue(f, a, q.makerFee, ra), b, q.takerFee, rb)
                  ELSE accrue(f, b, net, rb)
  BY DEF chargeFill
<1>2. q.takerFee \in Int /\ q.makerFee \in Int
  BY QuoteInt
<1> HIDE DEF q, c
<1>3. net \in Int /\ -q.makerFee \in Int
  BY <1>2
<1>4. share \in Int
  BY <1>2, <1>3, InsuranceShareInt
<1>5. LedgerChange(v, charged, 0)
  BY <1>2, TransferLedger, ProtocolAccounts
<1> HIDE DEF charged, share, net
<1>6. charged \in VaultState
  BY <1>5 DEF LedgerChange
<1>7. /\ LedgerChange(charged, transferInternal(charged, a, FEE_ROUTER, q.makerFee), 0)
      /\ LedgerChange(charged, transferInternal(charged, FEE_ROUTER, a, -q.makerFee), 0)
  BY <1>2, <1>3, <1>6, TransferLedger, ProtocolAccounts
<1>8. LedgerChange(charged, paid, 0)
  BY <1>7
<1> HIDE DEF paid
<1>9. LedgerChange(paid, c.vault, 0)
  <2>1. paid \in VaultState
    BY <1>8 DEF LedgerChange
  <2> QED BY <1>1, <1>4, <2>1, TransferLedger, ProtocolAccounts
<1>10. c.fees \in FeeState
  <2>1. accrue(f, a, q.makerFee, ra) \in FeeState
    BY <1>2, AccrueType
  <2>2. accrue(accrue(f, a, q.makerFee, ra), b, q.takerFee, rb) \in FeeState
    BY <2>1, <1>2, AccrueType
  <2>3. accrue(f, b, net, rb) \in FeeState
    BY <1>3, AccrueType
  <2> QED BY <1>1, <2>2, <2>3
<1> QED BY <1>5, <1>8, <1>9, <1>10 DEF LedgerChange, VaultState, c

\* accrueLiquidationFee is zero-sum in the ledger.
LEMMA LiquidationFeeType ==
  ASSUME NEW v \in VaultState, NEW f \in FeeState, NEW x \in Int
  PROVE  /\ LedgerChange(v, accrueLiquidationFee(v, f, x).vault, 0)
         /\ accrueLiquidationFee(v, f, x).fees \in FeeState
<1> DEFINE share == mulDiv(x, f.liquidationInsuranceBps, BPS_DENOMINATOR)
<1>1. share \in Int /\ x - share \in Int
  BY InsuranceShareInt
<1>2. accrueLiquidationFee(v, f, x)
        = [ vault |-> transferInternal(v, FEE_ROUTER, INSURANCE, share),
            fees  |-> [f EXCEPT !.treasuryAccrued = @ + (x - share)] ]
  BY DEF accrueLiquidationFee
<1> HIDE DEF share
<1> QED BY <1>1, <1>2, TransferLedger, AccrueTreasury, ProtocolAccounts

\* The fee admin's changes of one field.
LEMMA SetFeeConfig ==
  ASSUME NEW f \in FeeState
  PROVE  /\ \A w \in [Markets -> Rates] : [f EXCEPT !.marketRates = w] \in FeeState
         /\ \A w \in [Tiers -> Rates] : [f EXCEPT !.tiers = w] \in FeeState
         /\ \A w \in [Accounts -> Tiers \cup {0}] : [f EXCEPT !.accountTier = w] \in FeeState
         /\ \A x \in Nat : [f EXCEPT !.minNetRate = x] \in FeeState
         /\ \A b \in BOOLEAN : [f EXCEPT !.rebatesEnabled = b] \in FeeState
         /\ \A b \in BOOLEAN : [f EXCEPT !.referralsEnabled = b] \in FeeState
         /\ \A w \in SUBSET Traders : [f EXCEPT !.approvedReferrer = w] \in FeeState
         /\ \A w \in Split : [f EXCEPT !.split = w] \in FeeState
         /\ \A x \in 0..BPS_DENOMINATOR : [f EXCEPT !.liquidationInsuranceBps = x] \in FeeState
  BY DEF FeeState

-----------------------------------------------------------------------------
(* Insurance.                                                              *)

\* The fields of the fund's record.
LEMMA InsuranceFields ==
  ASSUME NEW i \in InsuranceState
  PROVE  /\ i.stakedBalance \in Nat /\ i.totalShares \in Int /\ i.epoch \in Nat
         /\ i.shares \in [Traders -> [epoch : Nat, shares : Int]]
         /\ i.pending \in [Traders -> [shares : Int, unlockTime : Int, epoch : Nat]]
         /\ i.recordedDebt \in [Accounts -> Int] /\ i.badDebt \in Int
         /\ i.limits \in UnwindLimits /\ i.unwound \in [day : Int, total : Int]
  BY DEF InsuranceState

\* Replacing one field of the fund's record.
LEMMA SetInsurance ==
  ASSUME NEW i \in InsuranceState
  PROVE  /\ \A x \in Nat : [i EXCEPT !.stakedBalance = x] \in InsuranceState
         /\ \A x \in Int : [i EXCEPT !.totalShares = x] \in InsuranceState
         /\ \A x \in Nat : [i EXCEPT !.epoch = x] \in InsuranceState
         /\ \A w \in [Traders -> [epoch : Nat, shares : Int]] :
              [i EXCEPT !.shares = w] \in InsuranceState
         /\ \A w \in [Traders -> [shares : Int, unlockTime : Int, epoch : Nat]] :
              [i EXCEPT !.pending = w] \in InsuranceState
         /\ \A w \in [Accounts -> Int] : [i EXCEPT !.recordedDebt = w] \in InsuranceState
         /\ \A x \in Int : [i EXCEPT !.badDebt = x] \in InsuranceState
         /\ \A w \in UnwindLimits : [i EXCEPT !.limits = w] \in InsuranceState
         /\ \A w \in [day : Int, total : Int] : [i EXCEPT !.unwound = w] \in InsuranceState
  BY DEF InsuranceState

\* Recording a debt keeps the fund's type.
LEMMA RecordDebtType ==
  ASSUME NEW i \in InsuranceState, NEW a \in Accounts, NEW x \in Int
  PROVE  recordDebt(i, a, x) \in InsuranceState
<1> DEFINE k  == i.badDebt - i.recordedDebt[a] + x
           i1 == [i EXCEPT !.badDebt = k]
           w  == [i.recordedDebt EXCEPT ![a] = x]
<1>1. k \in Int /\ w \in [Accounts -> Int]
  BY InsuranceFields
<1>2. recordDebt(i, a, x) = [i1 EXCEPT !.recordedDebt = w]
  BY DEF recordDebt
<1> HIDE DEF k, w
<1>3. i1 \in InsuranceState
  BY <1>1, SetInsurance
<1> HIDE DEF i1
<1> QED BY <1>1, <1>2, <1>3, SetInsurance

\* Covering a deficit is a transfer inside the ledger.
LEMMA SettleBadDebtType ==
  ASSUME NEW v \in VaultState, NEW i \in InsuranceState, NEW a \in Accounts
  PROVE  /\ LedgerChange(v, settleBadDebt(v, i, a).vault, 0)
         /\ settleBadDebt(v, i, a).insurance \in InsuranceState
<1> DEFINE c == covered(v, i, a)
           o == owed(v, a)
<1>1. v.balances[a] \in Int /\ v.balances[INSURANCE] \in Int
  BY ProtocolAccounts DEF VaultState
<1>2. i.stakedBalance \in Int
  BY InsuranceFields
<1>3. o \in Int
  BY <1>1 DEF owed, max
<1>4. c \in Int
  BY <1>1, <1>2, <1>3 DEF covered, operatingBalance, max, min
<1>5. settleBadDebt(v, i, a)
        = [ vault |-> transferInternal(v, INSURANCE, a, c),
            insurance |-> recordDebt(i, a, o - c) ]
  BY DEF settleBadDebt
<1> HIDE DEF c, o
<1>6. o - c \in Int
  BY <1>3, <1>4
<1> QED BY <1>4, <1>5, <1>6, TransferLedger, RecordDebtType, ProtocolAccounts

\* refreshDebt keeps the fund's type.
LEMMA RefreshDebtType ==
  ASSUME NEW v \in VaultState, NEW i \in InsuranceState, NEW a \in Accounts
  PROVE  refreshDebt(v, i, a) \in InsuranceState
<1>1. v.balances[a] \in Int
  BY DEF VaultState
<1>2. owed(v, a) \in Int
  BY <1>1 DEF owed, max
<1> QED BY <1>2, RecordDebtType DEF refreshDebt

ShareRecord == [epoch : Nat, shares : Int]
RequestRecord == [shares : Int, unlockTime : Int, epoch : Nat]

\* A staker's share record and unstake request.
LEMMA ShareFields ==
  ASSUME NEW i \in InsuranceState, NEW t \in Traders
  PROVE  /\ i.shares \in [Traders -> ShareRecord] /\ i.shares[t] \in ShareRecord
         /\ i.pending \in [Traders -> RequestRecord] /\ i.pending[t] \in RequestRecord
         /\ i.shares[t].shares \in Int /\ i.pending[t].shares \in Int
<1>1. i.shares \in [Traders -> ShareRecord] /\ i.pending \in [Traders -> RequestRecord]
  BY InsuranceFields DEF ShareRecord, RequestRecord
<1>2. i.shares[t] \in ShareRecord /\ i.pending[t] \in RequestRecord
  BY <1>1
<1>3. i.shares[t].shares \in Int /\ i.pending[t].shares \in Int
  BY <1>2 DEF ShareRecord, RequestRecord
<1> QED BY <1>1, <1>2, <1>3

\* Replacing one staker's shares,
LEMMA SetShares ==
  ASSUME NEW i \in InsuranceState, NEW t \in Traders, NEW r \in ShareRecord
  PROVE  [i EXCEPT !.shares[t] = r] \in InsuranceState
<1> DEFINE w == [i.shares EXCEPT ![t] = r]
<1>1. w \in [Traders -> ShareRecord]
  BY ShareFields
<1>2. [i EXCEPT !.shares[t] = r] = [i EXCEPT !.shares = w]
  OBVIOUS
<1> HIDE DEF w
<1> QED BY <1>1, <1>2, SetInsurance DEF ShareRecord

\* or one staker's request.
LEMMA SetPending ==
  ASSUME NEW i \in InsuranceState, NEW t \in Traders, NEW r \in RequestRecord
  PROVE  [i EXCEPT !.pending[t] = r] \in InsuranceState
<1> DEFINE w == [i.pending EXCEPT ![t] = r]
<1>1. w \in [Traders -> RequestRecord]
  BY ShareFields
<1>2. [i EXCEPT !.pending[t] = r] = [i EXCEPT !.pending = w]
  OBVIOUS
<1> HIDE DEF w
<1> QED BY <1>1, <1>2, SetInsurance DEF RequestRecord

\* stake keeps the fund's type.
LEMMA StakeType ==
  ASSUME NEW i \in InsuranceState, NEW t \in Traders, NEW x \in Nat
  PROVE  stake(i, t, x) \in InsuranceState
<1> DEFINE k  == mintedShares(i, x)
           s1 == i.stakedBalance + x
           i1 == [i EXCEPT !.stakedBalance = s1]
           s2 == i.totalShares + k
           i2 == [i1 EXCEPT !.totalShares = s2]
           r  == [epoch |-> i.epoch, shares |-> sharesOf(i, t) + k]
<1>1. i.stakedBalance \in Nat /\ i.totalShares \in Int /\ i.epoch \in Nat
  BY InsuranceFields
<1>2. k \in Int
  <2>1. CASE i.totalShares <= 0 \/ i.stakedBalance <= 0
    BY <2>1 DEF mintedShares
  <2>2. CASE ~(i.totalShares <= 0 \/ i.stakedBalance <= 0)
    <3>1. i.stakedBalance \in Nat \ {0}
      BY <1>1, <2>2
    <3>2. mulDiv(x, i.totalShares, i.stakedBalance) \in Int
      BY <1>1, <3>1, MulDivInt
    <3> QED BY <2>2, <3>2 DEF mintedShares
  <2> QED BY <2>1, <2>2
<1>3. sharesOf(i, t) \in Int
  BY ShareFields DEF sharesOf
<1>4. stake(i, t, x) = [i2 EXCEPT !.shares[t] = r]
  BY DEF stake
<1> HIDE DEF k
<1>5. s1 \in Nat /\ s2 \in Int
  BY <1>1, <1>2
<1>6. r \in ShareRecord
  BY <1>1, <1>2, <1>3 DEF ShareRecord
<1> HIDE DEF s1, s2, r
<1>7. i1 \in InsuranceState
  BY <1>5, SetInsurance
<1> HIDE DEF i1
<1>8. i2 \in InsuranceState
  BY <1>5, <1>7, SetInsurance
<1> HIDE DEF i2
<1> QED BY <1>4, <1>6, <1>8, SetShares

\* requestUnstake keeps the fund's type.
LEMMA RequestUnstakeType ==
  ASSUME NEW i \in InsuranceState, NEW t \in Traders, NEW x \in Nat, NEW at \in Nat
  PROVE  requestUnstake(i, t, x, at) \in InsuranceState
<1> DEFINE r == [shares |-> x, unlockTime |-> at + UNSTAKE_COOLDOWN, epoch |-> i.epoch]
<1>1. r \in RequestRecord
  BY InsuranceFields, InsuranceConfig DEF RequestRecord
<1>2. requestUnstake(i, t, x, at) = [i EXCEPT !.pending[t] = r]
  BY DEF requestUnstake
<1> HIDE DEF r
<1> QED BY <1>1, <1>2, SetPending

\* The deleted request is a request.
LEMMA NoRequestType == NoRequest \in RequestRecord
  BY DEF NoRequest, RequestRecord

\* A redemption never takes the staked balance below zero.
LEMMA RedeemType ==
  ASSUME NEW i \in InsuranceState, NEW t \in Traders,
         NEW n \in 0..toTokenDown(i.stakedBalance)
  PROVE  redeem(i, t, n) \in InsuranceState
<1> DEFINE i1 == [i EXCEPT !.pending[t] = NoRequest]
           s1 == i.stakedBalance - toInternal(n)
           i2 == [i1 EXCEPT !.stakedBalance = s1]
           s2 == i.totalShares - burnt(i, t)
           i3 == [i2 EXCEPT !.totalShares = s2]
           x  == i.shares[t].shares - burnt(i, t)
           r  == [i.shares[t] EXCEPT !.shares = x]
<1>1. i.stakedBalance \in Nat /\ i.totalShares \in Int
  BY InsuranceFields
<1>2. burnt(i, t) \in Int
  BY ShareFields DEF burnt, min
<1>3. toInternal(n) \in Nat /\ toInternal(n) <= i.stakedBalance
  BY <1>1, TokenDownCovered
<1>4. redeem(i, t, n) = [i3 EXCEPT !.shares[t] = r]
  BY DEF redeem
<1>5. s1 \in Nat /\ s2 \in Int /\ x \in Int
  BY <1>1, <1>2, <1>3, ShareFields
<1> HIDE DEF s1, s2, x
<1>6. r \in ShareRecord
  BY <1>5, ShareFields DEF ShareRecord
<1> HIDE DEF r
<1>7. i1 \in InsuranceState
  BY NoRequestType, SetPending
<1> HIDE DEF i1
<1>8. i2 \in InsuranceState
  BY <1>5, <1>7, SetInsurance
<1> HIDE DEF i2
<1>9. i3 \in InsuranceState
  BY <1>5, <1>8, SetInsurance
<1> HIDE DEF i3
<1> QED BY <1>4, <1>6, <1>9, SetShares

\* Deleting a retired request keeps the fund's type.
LEMMA VoidRequestType ==
  ASSUME NEW i \in InsuranceState, NEW t \in Traders
  PROVE  voidRequest(i, t) \in InsuranceState
<1> DEFINE i1 == [i EXCEPT !.pending[t] = NoRequest]
           r  == [epoch |-> 0, shares |-> 0]
<1>1. voidRequest(i, t) = [i1 EXCEPT !.shares[t] = r]
  BY DEF voidRequest
<1>2. r \in ShareRecord
  BY DEF ShareRecord
<1>3. i1 \in InsuranceState
  BY NoRequestType, SetPending
<1> HIDE DEF i1, r
<1> QED BY <1>1, <1>2, <1>3, SetShares

\* A sweep never takes the staked balance below zero.
LEMMA SweepType ==
  ASSUME NEW i \in InsuranceState, NEW x \in Nat
  PROVE  sweep(i, x) \in InsuranceState
<1> DEFINE left   == i.stakedBalance - min(x, i.stakedBalance)
           retire == left = 0 /\ i.totalShares > 0
           i1     == [i EXCEPT !.stakedBalance = left]
           ep     == IF retire THEN i.epoch + 1 ELSE i.epoch
           i2     == [i1 EXCEPT !.epoch = ep]
           ts     == IF retire THEN 0 ELSE i.totalShares
           i3     == [i2 EXCEPT !.totalShares = ts]
<1>1. i.stakedBalance \in Nat /\ i.totalShares \in Int /\ i.epoch \in Nat
  BY InsuranceFields
<1>2. sweep(i, x) = i3
  BY DEF sweep
<1>3. left \in Nat
  BY <1>1 DEF min
<1>4. ep \in Nat /\ ts \in Int
  BY <1>1
<1> HIDE DEF left, retire, ep, ts
<1>5. i1 \in InsuranceState
  BY <1>3, SetInsurance
<1> HIDE DEF i1
<1>6. i2 \in InsuranceState
  BY <1>4, <1>5, SetInsurance
<1> HIDE DEF i2
<1> QED BY <1>2, <1>4, <1>6, SetInsurance

\* onBackstopFill keeps the fund's type.
LEMMA BackstopFillType ==
  ASSUME NEW i \in InsuranceState, NEW at \in Nat, NEW n \in Int
  PROVE  onBackstopFill(i, at, n) \in InsuranceState
<1> DEFINE r == [day |-> at \div SECS_PER_DAY, total |-> unwoundToday(i, at) + n]
<1>1. i.unwound \in [day : Int, total : Int]
  BY InsuranceFields
<1>2. unwoundToday(i, at) \in Int
  BY <1>1 DEF unwoundToday
<1>3. at \div SECS_PER_DAY \in Int
  BY InsuranceConfig
<1>4. r \in [day : Int, total : Int]
  BY <1>2, <1>3
<1>5. onBackstopFill(i, at, n) = [i EXCEPT !.unwound = r]
  BY DEF onBackstopFill
<1> HIDE DEF r
<1> QED BY <1>4, <1>5, SetInsurance

-----------------------------------------------------------------------------
(* Two sides make a fill.                                                  *)

\* Imbalances are integers.
LEMMA ImbalanceInt ==
  ASSUME NEW e \in EngineState, NEW m \in Markets
  PROVE  imbalance(e, m) \in Int
<1>1. e.openInterest \in [Markets -> [long : Int, short : Int]]
  BY DEF EngineState
<1>2. e.openInterest[m] \in [long : Int, short : Int]
  BY <1>1
<1> QED BY <1>2 DEF imbalance

\* The terms of the accounting identity are integers.
LEMMA LedgerInt ==
  ASSUME NEW v \in VaultState, NEW e \in EngineState
  PROVE  v.totalLedger \in Int /\ v.custody \in Nat /\ e.netCostBasis \in Int
  BY DEF VaultState, EngineState

\* A whole fill from v, e to v2, e2: nothing enters or leaves the identity, and
\* every market keeps its balance.
WholeFill(v, e, v2, e2) ==
  /\ v2 \in VaultState /\ e2 \in EngineState
  /\ v2.custody = v.custody
  /\ v2.totalLedger - e2.netCostBasis = v.totalLedger - e.netCostBasis
  /\ \A k \in Markets : imbalance(e2, k) = imbalance(e, k)

\* The second side pays what the first receives.
LEMMA TwoSides ==
  ASSUME NEW v \in VaultState, NEW e \in EngineState, NEW m \in Markets,
         NEW v1, NEW e1, NEW v2, NEW e2, NEW d \in Int, NEW x \in Int,
         OneSide(v, e, v1, e1, m, d, x), OneSide(v1, e1, v2, e2, m, -d, -x)
  PROVE  WholeFill(v, e, v2, e2)
<1>1. /\ v1 \in VaultState /\ e1 \in EngineState /\ v2 \in VaultState /\ e2 \in EngineState
      /\ v1.custody = v.custody /\ v2.custody = v1.custody
  BY DEF OneSide
<1>2. /\ v.totalLedger \in Int /\ e.netCostBasis \in Int
      /\ v1.totalLedger \in Int /\ e1.netCostBasis \in Int
      /\ v2.totalLedger \in Int /\ e2.netCostBasis \in Int
  BY <1>1, LedgerInt
<1>3. /\ v1.totalLedger - e1.netCostBasis = v.totalLedger - e.netCostBasis - x
      /\ v2.totalLedger - e2.netCostBasis = v1.totalLedger - e1.netCostBasis - (-x)
  BY DEF OneSide
<1>4. v2.totalLedger - e2.netCostBasis = v.totalLedger - e.netCostBasis
  BY <1>2, <1>3
<1>5. \A k \in Markets : imbalance(e2, k) = imbalance(e, k)
  <2> SUFFICES ASSUME NEW k \in Markets
               PROVE  imbalance(e2, k) = imbalance(e, k)
    OBVIOUS
  <2>1. imbalance(e, k) \in Int /\ imbalance(e1, k) \in Int /\ imbalance(e2, k) \in Int
    BY <1>1, ImbalanceInt
  <2>2. /\ imbalance(e1, k) = imbalance(e, k) + (IF k = m THEN d ELSE 0)
        /\ imbalance(e2, k) = imbalance(e1, k) + (IF k = m THEN -d ELSE 0)
    BY DEF OneSide
  <2> QED BY <2>1, <2>2
<1> QED BY <1>1, <1>4, <1>5 DEF WholeFill

\* Engine.applyFill is one side.
LEMMA ApplyFillOneSide ==
  ASSUME NEW v \in VaultState, NEW e \in EngineState, NEW f \in Fill, f.size > 0,
         NEW t \in Accounts, NEW long \in BOOLEAN, NEW ro, NEW n \in Int, now \in Int
  PROVE  LET r == applyFill(v, e, f, t, long, ro, n)
         IN  OneSide(v, e, r.vault, r.engine, f.market,
                     IF long THEN f.size ELSE -f.size, IF long THEN n ELSE -n)
<1> DEFINE marked == recordMark(e, f.market, f.price, now)
           delta  == IF long THEN f.size ELSE -f.size
           act    == f.market \in activeMarkets
           side   == trade(v, marked, t, f.market, delta, f.price, n, ro, TRUE, act)
           r      == applyFill(v, e, f, t, long, ro, n)
<1>1. f.market \in Markets /\ f.size \in Nat /\ f.price \in Nat
  BY DEF Fill
<1>2. Untraded(e, marked) /\ marked \in EngineState
  BY <1>1, RecordMarkType DEF Untraded
<1>3. delta \in Int /\ delta # 0 /\ (delta > 0 <=> long)
  BY <1>1
<1>4. \E A, B, C, D, E : side = [vault |-> A, engine |-> B, increased |-> C, realized |-> D,
                                  reverted |-> E]
  BY DEF trade
<1>5. \E F : r = [side EXCEPT !.reverted = F]
  BY DEF applyFill, limited
<1> HIDE DEF side, r
<1>6. r.vault = side.vault /\ r.engine = side.engine
  BY <1>4, <1>5
<1> HIDE DEF marked, delta, act
<1>7. OneSide(v, marked, side.vault, side.engine, f.market, delta,
              IF delta > 0 THEN n ELSE -n)
  <2>1. f.price \in Int
    BY <1>1
  <2> QED BY <1>1, <1>2, <1>3, <2>1, TradeOneSide DEF side
<1>8. OneSide(v, e, side.vault, side.engine, f.market, delta,
              IF delta > 0 THEN n ELSE -n)
  BY <1>2, <1>7 DEF OneSide, Untraded, imbalance
<1> QED BY <1>3, <1>6, <1>8 DEF delta, r

\* liquidationTransfer and adlTransfer are whole fills.
LEMMA TransferPositionWhole ==
  ASSUME NEW from \in Accounts, NEW to \in Accounts, NEW m \in Markets, NEW size \in Nat,
         size > 0, NEW price \in Int, NEW ro,
         vault \in VaultState, engine \in EngineState
  PROVE  LET r == transferPosition(from, to, m, size, price, ro)
         IN  WholeFill(vault, engine, r.vault, r.engine) /\ r.realized \in Int
<1> DEFINE delta  == IF engine.positions[from][m].size > 0 THEN -size ELSE size
           n      == mulPrecision(size, price)
           closed == trade(vault, engine, from, m, delta, price, n, TRUE, FALSE, TRUE)
           taken  == trade(closed.vault, closed.engine, to, m, -delta, price, n,
                           ro, FALSE, TRUE)
           r      == transferPosition(from, to, m, size, price, ro)
           paid   == IF delta > 0 THEN n ELSE -n
<1>1. r.vault = taken.vault /\ r.engine = taken.engine /\ r.realized = closed.realized
  BY DEF transferPosition
<1>2. delta \in Int /\ delta # 0 /\ -delta \in Int /\ -delta # 0
  OBVIOUS
<1>3. n \in Int
  BY FixedPointInt
<1> HIDE DEF delta, n, r
<1>4. /\ OneSide(vault, engine, closed.vault, closed.engine, m, delta, paid)
      /\ closed.realized \in Int
  BY <1>2, <1>3, TradeOneSide
<1> HIDE DEF closed
<1>5. closed.vault \in VaultState /\ closed.engine \in EngineState
  BY <1>4 DEF OneSide
<1>6. OneSide(closed.vault, closed.engine, taken.vault, taken.engine, m, -delta,
              IF -delta > 0 THEN n ELSE -n)
  BY <1>2, <1>3, <1>5, TradeOneSide
<1> HIDE DEF taken
<1>7. paid \in Int /\ (IF -delta > 0 THEN n ELSE -n) = -paid
  BY <1>2, <1>3
<1> HIDE DEF paid
<1>8. OneSide(closed.vault, closed.engine, taken.vault, taken.engine, m, -delta, -paid)
  BY <1>6, <1>7
<1>9. WholeFill(vault, engine, taken.vault, taken.engine)
  BY <1>2, <1>4, <1>7, <1>8, TwoSides
<1> QED BY <1>1, <1>4, <1>9 DEF r

-----------------------------------------------------------------------------
(* The inductive invariant, action by action.                              *)

\* Types, the accounting identity and balanced open interest carry each other:
\* the identity needs integers, and a fill keeps the identity only as a pair.
CoreInv == TypeOK /\ Solvency /\ OpenInterestBalanced

\* Balanced open interest, as imbalances of zero.
LEMMA BalancedIsZero ==
  ASSUME NEW e \in EngineState
  PROVE  (\A m \in Markets : e.openInterest[m].long = e.openInterest[m].short)
           <=> (\A m \in Markets : imbalance(e, m) = 0)
<1>1. \A m \in Markets : e.openInterest[m].long \in Int /\ e.openInterest[m].short \in Int
  <2> TAKE m \in Markets
  <2>1. e.openInterest[m] \in [long : Int, short : Int]
    BY DEF EngineState
  <2> QED BY <2>1
<1> QED BY <1>1 DEF imbalance

\* Whatever moves money and positions as whole fills keeps the books.
LEMMA KeepsBooks ==
  ASSUME CoreInv, WholeFill(vault, engine, vault', engine'), donated' = donated
  PROVE  Solvency' /\ OpenInterestBalanced'
<1>1. vault \in VaultState /\ engine \in EngineState
  BY DEF CoreInv, TypeOK
<1>2. /\ vault' \in VaultState /\ engine' \in EngineState
      /\ vault'.custody = vault.custody
      /\ vault'.totalLedger - engine'.netCostBasis = vault.totalLedger - engine.netCostBasis
      /\ \A k \in Markets : imbalance(engine', k) = imbalance(engine, k)
  BY DEF WholeFill
<1>3. Solvency'
  BY <1>2 DEF CoreInv, Solvency, assets, liabilities
<1>4. \A m \in Markets : imbalance(engine, m) = 0
  BY <1>1, BalancedIsZero DEF CoreInv, OpenInterestBalanced
<1>5. \A m \in Markets : imbalance(engine', m) = 0
  BY <1>2, <1>4
<1>6. OpenInterestBalanced'
  BY <1>2, <1>5, BalancedIsZero DEF OpenInterestBalanced
<1> QED BY <1>3, <1>6

\* A change of the ledger alone, with nothing added to it, is a whole fill.
LEMMA LedgerAlone ==
  ASSUME NEW v, NEW e \in EngineState, NEW v2, LedgerChange(v, v2, 0), v \in VaultState
  PROVE  WholeFill(v, e, v2, e)
  BY LedgerInt DEF LedgerChange, WholeFill

\* Tokens and ledger grow alike, by n units of USDC.
LEMMA KeepsBooksPaid ==
  ASSUME CoreInv, NEW n \in Int, NEW d \in Int, vault' \in VaultState, engine' = engine,
         vault'.custody = vault.custody + n + d,
         vault'.totalLedger = vault.totalLedger + toInternal(n),
         donated' = donated + d
  PROVE  Solvency' /\ OpenInterestBalanced'
<1>1. /\ vault.custody \in Int /\ vault.totalLedger \in Int /\ engine.netCostBasis \in Int
      /\ donated \in Int
  BY LedgerInt DEF CoreInv, TypeOK
<1>2. /\ toInternal(vault.custody + n + d)
           = toInternal(vault.custody) + toInternal(n) + toInternal(d)
      /\ toInternal(donated + d) = toInternal(donated) + toInternal(d)
      /\ toInternal(vault.custody) \in Int /\ toInternal(n) \in Int
      /\ toInternal(d) \in Int /\ toInternal(donated) \in Int
  <2>1. vault.custody + n \in Int
    BY <1>1
  <2>2. toInternal(vault.custody + n + d) = toInternal(vault.custody + n) + toInternal(d)
    BY <2>1, ToInternalAdditive
  <2>3. toInternal(vault.custody + n) = toInternal(vault.custody) + toInternal(n)
    BY <1>1, ToInternalAdditive
  <2>4. toInternal(donated + d) = toInternal(donated) + toInternal(d)
    BY <1>1, ToInternalAdditive
  <2>5. /\ toInternal(vault.custody) \in Int /\ toInternal(n) \in Int
        /\ toInternal(d) \in Int /\ toInternal(donated) \in Int
    BY <1>1, ToInternalAdditive
  <2> QED BY <2>2, <2>3, <2>4, <2>5
<1>3. toInternal(vault.custody)
        = vault.totalLedger - engine.netCostBasis + toInternal(donated)
  BY DEF CoreInv, Solvency, assets, liabilities
<1>4. toInternal(vault.custody) + toInternal(n) + toInternal(d)
        = vault.totalLedger + toInternal(n) - engine.netCostBasis
          + (toInternal(donated) + toInternal(d))
  BY <1>1, <1>2, <1>3
<1>5. Solvency'
  <2>1. toInternal(vault'.custody)
          = toInternal(vault.custody) + toInternal(n) + toInternal(d)
    BY <1>2
  <2>2. toInternal(donated') = toInternal(donated) + toInternal(d)
    BY <1>2
  <2>3. vault'.totalLedger - engine'.netCostBasis
          = vault.totalLedger + toInternal(n) - engine.netCostBasis
    BY <1>1, <1>2
  <2>4. toInternal(vault'.custody)
          = vault'.totalLedger - engine'.netCostBasis + toInternal(donated')
    BY <1>4, <2>1, <2>2, <2>3
  <2> QED BY <2>4 DEF Solvency, assets, liabilities
<1>6. OpenInterestBalanced'
  BY DEF CoreInv, OpenInterestBalanced
<1> QED BY <1>5, <1>6

\* What every transaction leaves well typed.
LEMMA TransactionTypes ==
  ASSUME CoreInv, NEW cs, Transaction(cs)
  PROVE  txs' \in Nat /\ prices' = prices /\ now' = now
  BY DEF CoreInv, TypeOK, Transaction

\* A deposit adds to custody what it adds to the ledger.
LEMMA DepositStep ==
  ASSUME CoreInv, NEW a \in Accounts, NEW n \in Amounts, Deposit(a, n)
  PROVE  CoreInv'
<1>1. n \in Nat
  BY Inputs
<1>2. vault \in VaultState /\ insurance \in InsuranceState
  BY DEF CoreInv, TypeOK
<1>3. /\ vault' = credit(vault, a, n)
      /\ insurance' = IF vault.balances[a] < 0
                      THEN refreshDebt(credit(vault, a, n), insurance, a) ELSE insurance
      /\ UNCHANGED <<engine, feeRouter, activeMarkets, paused, donated>>
      /\ Transaction({"vault"})
  BY DEF Deposit
<1>4. /\ vault' \in VaultState
      /\ vault'.custody = vault.custody + n
      /\ vault'.totalLedger = vault.totalLedger + toInternal(n)
  BY <1>1, <1>2, <1>3, CreditLedger
<1>5. insurance' \in InsuranceState
  BY <1>2, <1>3, <1>4, RefreshDebtType
<1>6. TypeOK'
  BY <1>3, <1>4, <1>5, TransactionTypes DEF CoreInv, TypeOK
<1>7. vault'.custody = vault.custody + n + 0 /\ donated' = donated + 0
  BY <1>1, <1>3, <1>4, LedgerInt DEF CoreInv, TypeOK
<1>8. n \in Int /\ 0 \in Int /\ engine' = engine
  BY <1>1, <1>3
<1>9. Solvency' /\ OpenInterestBalanced'
  BY <1>4, <1>7, <1>8, KeepsBooksPaid
<1> QED BY <1>6, <1>9 DEF CoreInv

\* Debiting an account the vault can pay: Withdraw, unstaking and the fee claims.
LEMMA DebitStep ==
  ASSUME CoreInv, NEW a \in Accounts, NEW n \in Nat, n <= vault.custody,
         vault' = debit(vault, a, n), engine' = engine, donated' = donated
  PROVE  vault' \in VaultState /\ Solvency' /\ OpenInterestBalanced'
<1>1. /\ vault' \in VaultState
      /\ vault'.custody = vault.custody - n
      /\ vault'.totalLedger = vault.totalLedger - toInternal(n)
  BY DebitLedger DEF CoreInv, TypeOK
<1>2. /\ vault.custody \in Int /\ vault.totalLedger \in Int /\ donated \in Int
  BY LedgerInt DEF CoreInv, TypeOK
<1>3. toInternal(-n) = -toInternal(n) /\ toInternal(n) \in Int
  BY ScalesPositive DEF toInternal
<1>4. /\ vault'.custody = vault.custody + (-n) + 0
      /\ vault'.totalLedger = vault.totalLedger + toInternal(-n)
      /\ donated' = donated + 0
      /\ -n \in Int /\ 0 \in Int
  BY <1>1, <1>2, <1>3
<1> QED BY <1>1, <1>4, KeepsBooksPaid

\* A withdrawal takes from both.
LEMMA WithdrawStep ==
  ASSUME CoreInv, NEW t \in Traders, NEW n \in Amounts, Withdraw(t, n)
  PROVE  CoreInv'
<1>1. n \in Nat /\ t \in Accounts
  BY Inputs, ProtocolAccounts
<1>2. /\ vault' = debit(vault, t, n) /\ vault.custody >= n
      /\ UNCHANGED <<engine, feeRouter, insurance, activeMarkets, paused, donated>>
      /\ Transaction({"vault"})
  BY DEF Withdraw, mayWithdraw
<1>3. n <= vault.custody
  BY <1>1, <1>2, LedgerInt DEF CoreInv, TypeOK
<1>4. vault' \in VaultState /\ Solvency' /\ OpenInterestBalanced'
  BY <1>1, <1>2, <1>3, DebitStep
<1> QED BY <1>2, <1>4, TransactionTypes DEF CoreInv, TypeOK

\* Tokens sent from outside are the surplus the identity names.
LEMMA SendTokensStep ==
  ASSUME CoreInv, NEW n \in Amounts, SendTokens(n)
  PROVE  CoreInv'
<1>1. n \in Nat
  BY Inputs
<1>2. /\ vault \in VaultState /\ vault.custody \in Nat /\ donated \in Nat
      /\ vault.totalLedger \in Int
  BY LedgerInt DEF CoreInv, TypeOK
<1> DEFINE c == vault.custody + n
<1>3. /\ vault' = [vault EXCEPT !.custody = c] /\ donated' = donated + n
      /\ UNCHANGED <<engine, feeRouter, insurance, activeMarkets, paused>>
      /\ Transaction({})
  BY DEF SendTokens
<1>4. c \in Nat /\ c = vault.custody + 0 + n
  BY <1>1, <1>2
<1> HIDE DEF c
<1>5. vault' \in VaultState /\ vault'.custody = c /\ vault'.totalLedger = vault.totalLedger
  BY <1>2, <1>3, <1>4, SetCustody
<1>6. vault'.totalLedger = vault.totalLedger + toInternal(0)
  BY <1>2, <1>5, ScalesPositive DEF toInternal
<1>7. Solvency' /\ OpenInterestBalanced'
  BY <1>1, <1>3, <1>4, <1>5, <1>6, KeepsBooksPaid
<1>8. donated' \in Nat
  BY <1>1, <1>2, <1>3
<1>9. TypeOK'
  BY <1>3, <1>5, <1>8, TransactionTypes DEF CoreInv, TypeOK
<1> QED BY <1>7, <1>9 DEF CoreInv

\* Configuration of the vault touches neither custody nor ledger.
LEMMA VaultConfigStep ==
  ASSUME CoreInv, Transaction({}), LedgerChange(vault, vault', 0),
         UNCHANGED <<engine, feeRouter, insurance, activeMarkets, paused, donated>>
  PROVE  CoreInv'
<1>1. vault \in VaultState /\ engine \in EngineState /\ vault' \in VaultState
  BY DEF CoreInv, TypeOK, LedgerChange
<1>2. WholeFill(vault, engine, vault', engine')
  BY <1>1, LedgerAlone
<1>3. Solvency' /\ OpenInterestBalanced'
  BY <1>2, KeepsBooks
<1>4. TypeOK'
  BY <1>1, TransactionTypes DEF CoreInv, TypeOK
<1> QED BY <1>3, <1>4 DEF CoreInv

\* The deposit caps,
LEMMA SetDepositCapsStep ==
  ASSUME CoreInv, NEW c \in Caps, SetDepositCaps(c[1], c[2])
  PROVE  CoreInv'
<1>1. c[1] \in Nat /\ c[2] \in Nat
  BY Inputs
<1> DEFINE x == c[1]
           y == c[2]
           u == [vault EXCEPT !.depositCap = x]
<1>2. /\ vault' = [u EXCEPT !.accountDepositCap = y]
      /\ Transaction({})
      /\ UNCHANGED <<engine, feeRouter, insurance, activeMarkets, paused, donated>>
  BY DEF SetDepositCaps
<1>3. x \in Nat /\ y \in Nat /\ vault \in VaultState
  BY <1>1 DEF CoreInv, TypeOK
<1> HIDE DEF x, y
<1>4. LedgerChange(vault, u, 0)
  BY <1>3, SetCounters
<1> HIDE DEF u
<1>5. LedgerChange(u, vault', 0)
  BY <1>2, <1>3, <1>4, SetCounters DEF LedgerChange
<1>6. LedgerChange(vault, vault', 0)
  BY <1>3, <1>4, <1>5, LedgerCompose
<1> QED BY <1>2, <1>6, VaultConfigStep

\* and the collateral switch are configuration.
LEMMA SetCollateralStep ==
  ASSUME CoreInv, NEW b \in BOOLEAN, SetCollateral(b)
  PROVE  CoreInv'
<1>1. /\ vault' = [vault EXCEPT !.active = b]
      /\ Transaction({})
      /\ UNCHANGED <<engine, feeRouter, insurance, activeMarkets, paused, donated>>
  BY DEF SetCollateral
<1>2. vault \in VaultState
  BY DEF CoreInv, TypeOK
<1>3. LedgerChange(vault, vault', 0)
  BY <1>1, <1>2, SetActive
<1> QED BY <1>1, <1>3, VaultConfigStep

\* A settled pair of orders: two sides of one fill, then fees inside the ledger.
LEMMA SettleFillStep ==
  ASSUME CoreInv, NEW f \in Fills, SettleFill(f)
  PROVE  CoreInv'
<1> DEFINE n     == mulPrecision(f.size, f.price)
           maker == applyFill(vault, engine, f, f.maker, f.makerLong, f.makerReduceOnly, n)
           taker == applyFill(maker.vault, maker.engine, f, f.taker, ~f.makerLong,
                              f.takerReduceOnly, n)
           charged == chargeFill(taker.vault, feeRouter, f.market, f.maker, f.taker, n,
                                 f.makerReferrer, f.takerReferrer)
           d     == IF f.makerLong THEN f.size ELSE -f.size
           x     == IF f.makerLong THEN n ELSE -n
<1>1. /\ Transaction({"gateway", "engine", "vault"})
      /\ f.size > 0
      /\ ChargeFees(f, n, maker, taker)
  BY DEF SettleFill, ApplyTaker, validFill
<1>2. /\ f \in Fill
      /\ f.size \in Int /\ f.price \in Int /\ f.market \in Markets
      /\ f.makerLong \in BOOLEAN /\ (~f.makerLong) \in BOOLEAN
      /\ f.maker \in Accounts /\ f.taker \in Accounts
  BY Inputs, ProtocolAccounts DEF Fill
<1>3. n \in Int /\ d \in Int /\ x \in Int
  <2>1. n \in Int
    BY <1>2, FixedPointInt
  <2> HIDE DEF n
  <2> QED BY <1>2, <2>1
<1> HIDE DEF n
<1>4. /\ vault \in VaultState /\ engine \in EngineState /\ feeRouter \in FeeState
      /\ insurance \in InsuranceState /\ now \in Nat /\ now \in Int
  BY DEF CoreInv, TypeOK
<1>5. OneSide(vault, engine, maker.vault, maker.engine, f.market, d, x)
  BY <1>1, <1>2, <1>3, <1>4, ApplyFillOneSide
<1> HIDE DEF maker
<1>6. maker.vault \in VaultState /\ maker.engine \in EngineState
  BY <1>5 DEF OneSide
<1>7. OneSide(maker.vault, maker.engine, taker.vault, taker.engine, f.market,
              IF ~f.makerLong THEN f.size ELSE -f.size, IF ~f.makerLong THEN n ELSE -n)
  BY <1>1, <1>2, <1>3, <1>4, <1>6, ApplyFillOneSide
<1> HIDE DEF taker
<1>8. /\ (IF ~f.makerLong THEN f.size ELSE -f.size) = -d
      /\ (IF ~f.makerLong THEN n ELSE -n) = -x
  BY <1>2, <1>3
<1> HIDE DEF d, x
<1>9. OneSide(maker.vault, maker.engine, taker.vault, taker.engine, f.market, -d, -x)
  BY <1>7, <1>8
<1>10. WholeFill(vault, engine, taker.vault, taker.engine)
  BY <1>2, <1>3, <1>4, <1>5, <1>9, TwoSides
<1>11. taker.vault \in VaultState /\ taker.engine \in EngineState
  BY <1>10 DEF WholeFill
<1>12. LedgerChange(taker.vault, charged.vault, 0) /\ charged.fees \in FeeState
  BY <1>2, <1>3, <1>4, <1>11, ChargeFillType
<1>13. CheckMargins(f, n, maker, taker, charged)
  BY <1>1 DEF ChargeFees
<1> HIDE DEF charged
<1>14. /\ vault' = charged.vault
       /\ engine' = taker.engine
       /\ feeRouter' = charged.fees
       /\ insurance' \in {insurance, onBackstopFill(insurance, now, n)}
       /\ UNCHANGED <<activeMarkets, paused, donated>>
  BY <1>13 DEF CheckMargins, Settle
<1>15. WholeFill(vault, engine, vault', engine')
  BY <1>10, <1>11, <1>12, <1>14, LedgerInt DEF WholeFill, LedgerChange
<1>16. Solvency' /\ OpenInterestBalanced'
  BY <1>1, <1>14, <1>15, KeepsBooks
<1>17. insurance' \in InsuranceState
  BY <1>3, <1>4, <1>14, BackstopFillType
<1>18. TypeOK'
  BY <1>1, <1>12, <1>14, <1>15, <1>17, TransactionTypes DEF CoreInv, TypeOK, WholeFill
<1> QED BY <1>16, <1>18 DEF CoreInv

\* The penalty stays inside the ledger.
LEMMA ChargePenaltyType ==
  ASSUME NEW v \in VaultState, feeRouter \in FeeState, NEW m \in Markets, NEW t \in Accounts,
         NEW l \in Accounts, NEW size \in Int, NEW price \in Int
  PROVE  /\ LedgerChange(v, chargePenalty(v, m, t, l, size, price).vault, 0)
         /\ chargePenalty(v, m, t, l, size, price).fees \in FeeState
<1> DEFINE reward   == rewardOn(m, size, price)
           rest     == penaltyOn(m, size, price) - reward
           rewarded == transferInternal(v, t, l, reward)
           paid     == transferInternal(rewarded, t, FEE_ROUTER, rest)
<1>1. notional(size, price) \in Int
  BY FixedPointInt DEF notional
<1>2. MarketParams[m].liquidationFeeBps \in Int /\ maxRewardBps \in Int
  BY EngineConfig, Deployment DEF MarketConfig
<1>3. penaltyOn(m, size, price) \in Int
  BY <1>1, <1>2, FixedPointInt DEF penaltyOn
<1>4. applyBps(notional(size, price), maxRewardBps) \in Int
  BY <1>1, <1>2, FixedPointInt
<1>5. reward \in Int
  BY <1>3, <1>4, AbsMinMaxInt DEF rewardOn
<1>6. rest \in Int
  BY <1>3, <1>5
<1>7. chargePenalty(v, m, t, l, size, price) = accrueLiquidationFee(paid, feeRouter, rest)
  BY DEF chargePenalty
<1> HIDE DEF reward, rest
<1>8. LedgerChange(v, rewarded, 0)
  BY <1>5, TransferLedger
<1>9. rewarded \in VaultState
  BY <1>8 DEF LedgerChange
<1> HIDE DEF rewarded
<1>10. LedgerChange(rewarded, paid, 0)
  BY <1>6, <1>9, TransferLedger, ProtocolAccounts
<1>11. paid \in VaultState
  BY <1>10 DEF LedgerChange
<1> HIDE DEF paid
<1>12. /\ LedgerChange(paid, accrueLiquidationFee(paid, feeRouter, rest).vault, 0)
       /\ accrueLiquidationFee(paid, feeRouter, rest).fees \in FeeState
  BY <1>6, <1>11, LiquidationFeeType
<1>13. LedgerChange(v, paid, 0)
  BY <1>8, <1>10, ZeroSumCompose
<1>14. LedgerChange(v, accrueLiquidationFee(paid, feeRouter, rest).vault, 0)
  BY <1>12, <1>13, ZeroSumCompose
<1> QED BY <1>7, <1>12, <1>14

\* A liquidation: a whole fill at the index, the penalty, and the deficit's cover.
LEMMA LiquidateStep ==
  ASSUME CoreInv, NEW l \in Traders, NEW t \in Traders, NEW m \in Markets, NEW k \in MaxSizes,
         Liquidate(l, t, m, k)
  PROVE  CoreInv'
<1>1. PICK size \in 1..abs(engine.positions[t][m].size) :
        /\ Transaction({"liquidation", "engine", "vault"})
        /\ Settle(liquidation(l, t, m, size))
  BY DEF Liquidate, Conclude
<1> DEFINE moved   == transferPosition(t, INSURANCE, m, size, prices[m], FALSE)
           charged == chargePenalty(moved.vault, m, t, l, size, prices[m])
           deficit == moved.engine.marketBitmap[t] = {} /\ charged.vault.balances[t] < 0
           bad     == settleBadDebt(charged.vault, insurance, t)
<1>2. /\ vault \in VaultState /\ engine \in EngineState /\ feeRouter \in FeeState
      /\ insurance \in InsuranceState /\ prices[m] \in Int
      /\ t \in Accounts /\ l \in Accounts /\ INSURANCE \in Accounts
  BY ProtocolAccounts DEF CoreInv, TypeOK
<1>3. abs(engine.positions[t][m].size) \in Nat
  BY <1>2, EngineFields, AbsNat
<1>4. size \in Nat /\ size > 0 /\ size \in Int
  BY <1>3
<1>5. /\ vault' = IF deficit THEN bad.vault ELSE charged.vault
      /\ engine' = moved.engine
      /\ feeRouter' = charged.fees
      /\ insurance' = IF deficit THEN bad.insurance ELSE insurance
      /\ Transaction({"liquidation", "engine", "vault"})
      /\ UNCHANGED <<activeMarkets, paused, donated>>
  <2>1. liquidation(l, t, m, size) = concluded(t, moved, charged, deficit)
    BY DEF liquidation, transferred, penalized
  <2> HIDE DEF moved, charged, deficit
  <2> QED BY <1>1, <2>1 DEF concluded, Settle
<1>6. WholeFill(vault, engine, moved.vault, moved.engine)
  BY <1>2, <1>4, TransferPositionWhole
<1>7. moved.vault \in VaultState /\ moved.engine \in EngineState
  BY <1>6 DEF WholeFill
<1> HIDE DEF moved
<1>8. LedgerChange(moved.vault, charged.vault, 0) /\ charged.fees \in FeeState
  BY <1>2, <1>4, <1>7, ChargePenaltyType
<1>9. charged.vault \in VaultState
  BY <1>8 DEF LedgerChange
<1> HIDE DEF charged
<1>10. LedgerChange(charged.vault, bad.vault, 0) /\ bad.insurance \in InsuranceState
  BY <1>2, <1>9, SettleBadDebtType
<1> HIDE DEF deficit, bad
<1>11. LedgerChange(moved.vault, vault', 0) /\ insurance' \in InsuranceState
  <2>1. CASE deficit
    <3>1. LedgerChange(moved.vault, bad.vault, 0)
      BY <1>7, <1>8, <1>10, ZeroSumCompose
    <3> QED BY <1>5, <1>10, <2>1, <3>1
  <2>2. CASE ~deficit
    BY <1>2, <1>5, <1>8, <2>2
  <2> QED BY <2>1, <2>2
<1>12. WholeFill(vault, engine, vault', engine')
  BY <1>5, <1>6, <1>7, <1>11, LedgerInt DEF WholeFill, LedgerChange
<1>13. Solvency' /\ OpenInterestBalanced'
  BY <1>5, <1>12, KeepsBooks
<1>14. TypeOK'
  BY <1>5, <1>8, <1>11, <1>12, TransactionTypes DEF CoreInv, TypeOK, WholeFill
<1> QED BY <1>13, <1>14 DEF CoreInv

\* An auto-deleveraging: a whole fill at the index and a haircut inside the ledger.
LEMMA AdlStep ==
  ASSUME CoreInv, NEW t \in Traders, NEW m \in Markets, NEW k \in MaxSizes, Adl(t, m, k)
  PROVE  CoreInv'
<1>1. PICK size \in 1..abs(engine.positions[t][m].size) :
        LET moved == transferPosition(t, INSURANCE, m, size, prices[m], TRUE)
        IN  /\ \E haircut \in Int :
                 vault' = transferInternal(moved.vault, t, INSURANCE, haircut)
            /\ engine' = moved.engine
  BY Zenon DEF Adl
<1>2. /\ Transaction({"liquidation", "engine", "vault"})
      /\ UNCHANGED <<feeRouter, insurance, activeMarkets, paused, donated>>
  BY Zenon DEF Adl
<1> DEFINE moved == transferPosition(t, INSURANCE, m, size, prices[m], TRUE)
<1>3. PICK haircut \in Int : vault' = transferInternal(moved.vault, t, INSURANCE, haircut)
  BY <1>1
<1>4. /\ vault \in VaultState /\ engine \in EngineState /\ prices[m] \in Int
      /\ t \in Accounts /\ INSURANCE \in Accounts
  BY ProtocolAccounts DEF CoreInv, TypeOK
<1>5. abs(engine.positions[t][m].size) \in Nat
  BY <1>4, EngineFields, AbsNat
<1>6. size \in Nat /\ size > 0
  BY <1>5
<1>7. WholeFill(vault, engine, moved.vault, moved.engine)
  BY <1>4, <1>6, TransferPositionWhole
<1>8. moved.vault \in VaultState /\ moved.engine \in EngineState /\ engine' = moved.engine
  BY <1>1, <1>7 DEF WholeFill
<1> HIDE DEF moved
<1>9. LedgerChange(moved.vault, vault', 0)
  BY <1>3, <1>4, <1>8, TransferLedger
<1>10. WholeFill(vault, engine, vault', engine')
  BY <1>7, <1>8, <1>9, LedgerInt DEF WholeFill, LedgerChange
<1>11. Solvency' /\ OpenInterestBalanced'
  BY <1>2, <1>10, KeepsBooks
<1>12. TypeOK'
  BY <1>2, <1>10, TransactionTypes DEF CoreInv, TypeOK, WholeFill
<1> QED BY <1>11, <1>12 DEF CoreInv

\* Covering a deficit moves the fund's money inside the ledger.
LEMMA SettleBadDebtStep ==
  ASSUME CoreInv, NEW a \in Accounts, SettleBadDebt(a)
  PROVE  CoreInv'
<1> DEFINE r == settleBadDebt(vault, insurance, a)
<1>1. /\ vault' = r.vault /\ insurance' = r.insurance
      /\ Transaction({"insurance"})
      /\ UNCHANGED <<engine, feeRouter, activeMarkets, paused, donated>>
  BY DEF SettleBadDebt
<1>2. vault \in VaultState /\ engine \in EngineState /\ insurance \in InsuranceState
  BY DEF CoreInv, TypeOK
<1>3. LedgerChange(vault, r.vault, 0) /\ r.insurance \in InsuranceState
  BY <1>2, SettleBadDebtType
<1> HIDE DEF r
<1>4. WholeFill(vault, engine, vault', engine')
  BY <1>1, <1>2, <1>3, LedgerAlone
<1>5. Solvency' /\ OpenInterestBalanced'
  BY <1>1, <1>4, KeepsBooks
<1>6. TypeOK'
  BY <1>1, <1>3, <1>4, TransactionTypes DEF CoreInv, TypeOK, WholeFill
<1> QED BY <1>5, <1>6 DEF CoreInv

\* Stake: a deposit into the fund's account, and shares for the staker.
LEMMA StakeStep ==
  ASSUME CoreInv, NEW t \in Traders, NEW n \in Amounts, Stake(t, n)
  PROVE  CoreInv'
<1>1. n \in Nat /\ n \in Int /\ 0 \in Int /\ INSURANCE \in Accounts /\ toInternal(n) \in Nat
  BY Inputs, ProtocolAccounts, ToInternalNat
<1>2. /\ vault' = credit(vault, INSURANCE, n)
      /\ insurance' = stake(insurance, t, toInternal(n))
      /\ UNCHANGED <<engine, feeRouter, activeMarkets, paused, donated>>
      /\ Transaction({"insurance", "vault"})
  BY DEF Stake
<1>3. vault \in VaultState /\ insurance \in InsuranceState
  BY DEF CoreInv, TypeOK
<1>4. /\ vault' \in VaultState
      /\ vault'.custody = vault.custody + n
      /\ vault'.totalLedger = vault.totalLedger + toInternal(n)
  BY <1>1, <1>2, <1>3, CreditLedger
<1>5. insurance' \in InsuranceState
  BY <1>1, <1>2, <1>3, StakeType
<1>6. TypeOK'
  BY <1>2, <1>4, <1>5, TransactionTypes DEF CoreInv, TypeOK
<1>7. vault'.custody = vault.custody + n + 0 /\ donated' = donated + 0
  BY <1>1, <1>2, <1>4, LedgerInt DEF CoreInv, TypeOK
<1>8. Solvency' /\ OpenInterestBalanced'
  BY <1>1, <1>2, <1>4, <1>7, KeepsBooksPaid
<1> QED BY <1>6, <1>8 DEF CoreInv

\* Steps that leave vault, engine and donations alone keep the books.
LEMMA BooksUntouched ==
  ASSUME CoreInv, UNCHANGED <<vault, engine, donated>>
  PROVE  Solvency' /\ OpenInterestBalanced'
  BY DEF CoreInv, Solvency, OpenInterestBalanced, assets, liabilities

\* Transactions of the fund that move no money.
LEMMA FundStep ==
  ASSUME CoreInv, NEW cs, Transaction(cs), insurance' \in InsuranceState,
         UNCHANGED <<vault, engine, feeRouter, activeMarkets, paused, donated>>
  PROVE  CoreInv'
<1>1. Solvency' /\ OpenInterestBalanced'
  BY BooksUntouched
<1>2. TypeOK'
  BY TransactionTypes DEF CoreInv, TypeOK
<1> QED BY <1>1, <1>2 DEF CoreInv

\* A request to unstake,
LEMMA RequestUnstakeStep ==
  ASSUME CoreInv, NEW t \in Traders, NEW n \in ShareAmounts, RequestUnstake(t, n)
  PROVE  CoreInv'
<1>1. n \in Nat /\ now \in Nat /\ insurance \in InsuranceState
  BY Inputs DEF CoreInv, TypeOK
<1>2. /\ Transaction({"insurance"})
      /\ insurance' = requestUnstake(insurance, t, n, now)
      /\ UNCHANGED <<vault, engine, feeRouter, activeMarkets, paused, donated>>
  BY DEF RequestUnstake
<1>3. insurance' \in InsuranceState
  BY <1>1, <1>2, RequestUnstakeType
<1> QED BY <1>2, <1>3, FundStep

\* dropping a request of a retired epoch,
LEMMA WithdrawRetiredStep ==
  ASSUME CoreInv, NEW t \in Traders, WithdrawRetired(t)
  PROVE  CoreInv'
<1>1. /\ Transaction({"insurance"})
      /\ insurance' = voidRequest(insurance, t)
      /\ UNCHANGED <<vault, engine, feeRouter, activeMarkets, paused, donated>>
  BY DEF WithdrawRetired
<1>2. insurance' \in InsuranceState
  BY <1>1, VoidRequestType DEF CoreInv, TypeOK
<1> QED BY <1>1, <1>2, FundStep

\* and a sweep of staked into operating capital move no money.
LEMMA SweepStep ==
  ASSUME CoreInv, NEW n \in SweepAmounts, SweepToOperating(n)
  PROVE  CoreInv'
<1>1. /\ Transaction({})
      /\ insurance' = sweep(insurance, n)
      /\ UNCHANGED <<vault, engine, feeRouter, activeMarkets, paused, donated>>
  BY DEF SweepToOperating
<1>2. insurance' \in InsuranceState
  BY <1>1, SweepType, Inputs DEF CoreInv, TypeOK
<1> QED BY <1>1, <1>2, FundStep

\* An unstaking pays at most the staked capital, and only what the vault holds.
LEMMA WithdrawUnstakedStep ==
  ASSUME CoreInv, NEW t \in Traders, WithdrawUnstaked(t)
  PROVE  CoreInv'
<1> DEFINE n == payout(vault, engine, insurance, prices, t)
<1>1. /\ Transaction({"insurance"})
      /\ n \in 0..toTokenDown(insurance.stakedBalance)
      /\ n > 0 => mayWithdraw(vault, INSURANCE, n)
      /\ vault' = IF n > 0 THEN debit(vault, INSURANCE, n) ELSE vault
      /\ insurance' = redeem(insurance, t, n)
      /\ UNCHANGED <<engine, feeRouter, activeMarkets, paused, donated>>
  BY DEF WithdrawUnstaked
<1> HIDE DEF n
<1>2. vault \in VaultState /\ insurance \in InsuranceState /\ INSURANCE \in Accounts
  BY ProtocolAccounts DEF CoreInv, TypeOK
<1>3. insurance' \in InsuranceState
  BY <1>1, <1>2, RedeemType
<1>4. vault' \in VaultState /\ Solvency' /\ OpenInterestBalanced'
  <2>1. n \in Nat
    BY <1>1, <1>2, TokenDownCovered, InsuranceFields
  <2>2. CASE n > 0
    <3>1. vault.custody >= n
      BY <1>1, <2>2 DEF mayWithdraw
    <3>2. n <= vault.custody
      BY <2>1, <3>1, LedgerInt DEF CoreInv, TypeOK
    <3>3. vault' = debit(vault, INSURANCE, n)
      BY <1>1, <2>2
    <3> QED BY <1>1, <1>2, <2>1, <3>2, <3>3, DebitStep
  <2>3. CASE ~(n > 0)
    <3>1. vault' = vault
      BY <1>1, <2>3
    <3>2. UNCHANGED <<vault, engine, donated>>
      BY <1>1, <3>1
    <3> QED BY <1>2, <3>1, <3>2, BooksUntouched
  <2> QED BY <2>2, <2>3
<1>5. TypeOK'
  BY <1>1, <1>3, <1>4, TransactionTypes DEF CoreInv, TypeOK
<1> QED BY <1>4, <1>5 DEF CoreInv

\* The accrued amounts a claim may pay are natural numbers.
LEMMA ClaimAmount ==
  ASSUME NEW x \in Int, x >= 0
  PROVE  toTokenDown(x) \in Nat
  BY ScalesPositive DEF toTokenDown

\* The treasury's claim is a withdrawal from the router's account.
LEMMA ClaimTreasuryStep ==
  ASSUME CoreInv, ClaimTreasury
  PROVE  CoreInv'
<1> DEFINE n == toTokenDown(feeRouter.treasuryAccrued)
           x == -toInternal(n)
<1>1. /\ Transaction({"vault"})
      /\ feeRouter.treasuryAccrued >= 0
      /\ vault.custody >= n
      /\ vault' = debit(vault, FEE_ROUTER, n)
      /\ feeRouter' = [feeRouter EXCEPT !.treasuryAccrued = @ - toInternal(n)]
      /\ UNCHANGED <<engine, insurance, activeMarkets, paused, donated>>
  BY DEF ClaimTreasury, mayWithdraw
<1>2. feeRouter \in FeeState /\ feeRouter.treasuryAccrued \in Int
  BY DEF CoreInv, TypeOK, FeeState
<1>3. n \in Nat
  BY <1>1, <1>2, ClaimAmount
<1> HIDE DEF n
<1>4. x \in Int /\ toInternal(n) \in Int
  BY <1>3, ToInternalAdditive
<1>5. feeRouter.treasuryAccrued - toInternal(n) = feeRouter.treasuryAccrued + x
  BY <1>2, <1>4
<1>6. feeRouter' = [feeRouter EXCEPT !.treasuryAccrued = @ + x]
  BY <1>1, <1>5
<1> HIDE DEF x
<1>7. feeRouter' \in FeeState
  BY <1>2, <1>4, <1>6, AccrueTreasury
<1>8. n <= vault.custody
  BY <1>1, <1>3, LedgerInt DEF CoreInv, TypeOK
<1>9. vault' \in VaultState /\ Solvency' /\ OpenInterestBalanced'
  BY <1>1, <1>3, <1>8, DebitStep, ProtocolAccounts
<1>10. TypeOK'
  BY <1>1, <1>7, <1>9, TransactionTypes DEF CoreInv, TypeOK
<1> QED BY <1>9, <1>10 DEF CoreInv

\* So is a referrer's.
LEMMA ClaimReferralStep ==
  ASSUME CoreInv, NEW r \in Traders, ClaimReferral(r)
  PROVE  CoreInv'
<1> DEFINE n == toTokenDown(feeRouter.referralAccrued[r])
           x == -toInternal(n)
<1>1. /\ Transaction({"vault"})
      /\ feeRouter.referralAccrued[r] >= 0
      /\ vault.custody >= n
      /\ vault' = debit(vault, FEE_ROUTER, n)
      /\ feeRouter' = [feeRouter EXCEPT !.referralAccrued[r] = @ - toInternal(n),
                                        !.totalReferralAccrued = @ - toInternal(n)]
      /\ UNCHANGED <<engine, insurance, activeMarkets, paused, donated>>
  BY DEF ClaimReferral, mayWithdraw
<1>2. /\ feeRouter \in FeeState /\ feeRouter.referralAccrued[r] \in Int
      /\ feeRouter.totalReferralAccrued \in Int
  BY DEF CoreInv, TypeOK, FeeState
<1>3. n \in Nat
  BY <1>1, <1>2, ClaimAmount
<1> HIDE DEF n
<1>4. x \in Int /\ toInternal(n) \in Int
  BY <1>3, ToInternalAdditive
<1>5. /\ feeRouter.referralAccrued[r] - toInternal(n) = feeRouter.referralAccrued[r] + x
      /\ feeRouter.totalReferralAccrued - toInternal(n) = feeRouter.totalReferralAccrued + x
  BY <1>2, <1>4
<1>6. feeRouter' = [feeRouter EXCEPT !.referralAccrued[r] = @ + x,
                                     !.totalReferralAccrued = @ + x]
  BY <1>1, <1>5
<1> HIDE DEF x
<1>7. feeRouter' \in FeeState
  BY <1>2, <1>4, <1>6, AccrueReferral
<1>8. n <= vault.custody
  BY <1>1, <1>3, LedgerInt DEF CoreInv, TypeOK
<1>9. vault' \in VaultState /\ Solvency' /\ OpenInterestBalanced'
  BY <1>1, <1>3, <1>8, DebitStep, ProtocolAccounts
<1>10. TypeOK'
  BY <1>1, <1>7, <1>9, TransactionTypes DEF CoreInv, TypeOK
<1> QED BY <1>9, <1>10 DEF CoreInv

\* The fee admin's setters touch the router's configuration alone.
LEMMA FeeAdminStep ==
  ASSUME CoreInv, NEW f \in FeeState, FeeAdmin(f)
  PROVE  CoreInv'
<1>1. /\ feeRouter' = f
      /\ Transaction({})
      /\ UNCHANGED <<vault, engine, insurance, activeMarkets, paused, donated>>
  BY DEF FeeAdmin
<1>2. Solvency' /\ OpenInterestBalanced'
  BY <1>1, BooksUntouched
<1>3. TypeOK'
  BY <1>1, TransactionTypes DEF CoreInv, TypeOK
<1> QED BY <1>2, <1>3 DEF CoreInv

\* A validated schedule is a schedule.
LEMMA ScheduleType ==
  ASSUME NEW s \in Schedules
  PROVE  [makerRate |-> s[1], takerRate |-> s[2], set |-> TRUE] \in Rates
<1>1. s[1] \in Int /\ s[2] \in Int
  BY Inputs
<1> QED BY <1>1 DEF Rates

\* Schedules, tiers, the net floor and the rebate switch.
LEMMA FeeGovernanceStep ==
  ASSUME CoreInv, FeeGovernance
  PROVE  CoreInv'
<1>1. feeRouter \in FeeState
  BY DEF CoreInv, TypeOK
<1>2. /\ feeRouter.marketRates \in [Markets -> Rates]
      /\ feeRouter.tiers \in [Tiers -> Rates]
      /\ feeRouter.accountTier \in [Accounts -> Tiers \cup {0}]
  BY <1>1 DEF FeeState
<1>3. ASSUME NEW m \in Markets, NEW s \in Schedules, SetMarketFees(m, s[1], s[2])
      PROVE  CoreInv'
  <2> DEFINE r == [makerRate |-> s[1], takerRate |-> s[2], set |-> TRUE]
             w == [feeRouter.marketRates EXCEPT ![m] = r]
  <2>1. FeeAdmin([feeRouter EXCEPT !.marketRates = w])
    BY <1>3 DEF SetMarketFees, setMarketFees
  <2>2. r \in Rates
    BY ScheduleType
  <2> HIDE DEF r
  <2>3. w \in [Markets -> Rates]
    BY <1>2, <2>2
  <2> HIDE DEF w
  <2>4. [feeRouter EXCEPT !.marketRates = w] \in FeeState
    BY <1>1, <2>3, SetFeeConfig
  <2> QED BY <2>1, <2>4, FeeAdminStep
<1>4. ASSUME NEW k \in Tiers, NEW s \in Schedules, DefineTier(k, s[1], s[2])
      PROVE  CoreInv'
  <2> DEFINE r == [makerRate |-> s[1], takerRate |-> s[2], set |-> TRUE]
             w == [feeRouter.tiers EXCEPT ![k] = r]
  <2>1. FeeAdmin([feeRouter EXCEPT !.tiers = w])
    BY <1>4 DEF DefineTier, defineTier
  <2>2. r \in Rates
    BY ScheduleType
  <2> HIDE DEF r
  <2>3. w \in [Tiers -> Rates]
    BY <1>2, <2>2
  <2> HIDE DEF w
  <2>4. [feeRouter EXCEPT !.tiers = w] \in FeeState
    BY <1>1, <2>3, SetFeeConfig
  <2> QED BY <2>1, <2>4, FeeAdminStep
<1>5. ASSUME NEW t \in Traders, NEW k \in Tiers \cup {0}, SetAccountTier(t, k)
      PROVE  CoreInv'
  <2> DEFINE w == [feeRouter.accountTier EXCEPT ![t] = k]
  <2>1. FeeAdmin([feeRouter EXCEPT !.accountTier = w])
    BY <1>5 DEF SetAccountTier
  <2>2. w \in [Accounts -> Tiers \cup {0}]
    BY <1>2
  <2> HIDE DEF w
  <2>3. [feeRouter EXCEPT !.accountTier = w] \in FeeState
    BY <1>1, <2>2, SetFeeConfig
  <2> QED BY <2>1, <2>3, FeeAdminStep
<1>6. ASSUME NEW x \in NetRates, SetMinNetRate(x)
      PROVE  CoreInv'
  <2>1. FeeAdmin([feeRouter EXCEPT !.minNetRate = x]) /\ MIN_NET_RATE_FLOOR <= x
    BY <1>6 DEF SetMinNetRate
  <2>2. x \in Nat
    BY <2>1, Inputs, FeeConfig
  <2>3. [feeRouter EXCEPT !.minNetRate = x] \in FeeState
    BY <1>1, <2>2, SetFeeConfig
  <2> QED BY <2>1, <2>3, FeeAdminStep
<1>7. ASSUME NEW b \in BOOLEAN, SetRebatesEnabled(b)
      PROVE  CoreInv'
  <2>1. FeeAdmin([feeRouter EXCEPT !.rebatesEnabled = b])
    BY <1>7 DEF SetRebatesEnabled
  <2>2. [feeRouter EXCEPT !.rebatesEnabled = b] \in FeeState
    BY <1>1, SetFeeConfig
  <2> QED BY <2>1, <2>2, FeeAdminStep
<1> QED BY <1>3, <1>4, <1>5, <1>6, <1>7 DEF FeeGovernance

\* setSplit bounds both shares.
LEMMA ValidSplitType ==
  ASSUME NEW a \in Nat, NEW b \in Nat, validSplit(a, b)
  PROVE  a \in 0..BPS_DENOMINATOR /\ b \in 0..BPS_DENOMINATOR
<1>1. BPS_DENOMINATOR \in Nat
  BY DEF BPS_DENOMINATOR
<1>2. a + b <= BPS_DENOMINATOR
  BY DEF validSplit
<1> QED BY <1>1, <1>2

\* Referrals and the fee splits.
LEMMA RevenueStep ==
  ASSUME CoreInv, Revenue
  PROVE  CoreInv'
<1>1. feeRouter \in FeeState /\ feeRouter.approvedReferrer \in SUBSET Traders
  BY DEF CoreInv, TypeOK, FeeState
<1>2. ASSUME NEW b \in BOOLEAN, SetReferralsEnabled(b)
      PROVE  CoreInv'
  <2>1. FeeAdmin([feeRouter EXCEPT !.referralsEnabled = b])
    BY <1>2 DEF SetReferralsEnabled
  <2>2. [feeRouter EXCEPT !.referralsEnabled = b] \in FeeState
    BY <1>1, SetFeeConfig
  <2> QED BY <2>1, <2>2, FeeAdminStep
<1>3. ASSUME NEW r \in Traders, NEW b \in BOOLEAN, SetReferrerApproved(r, b)
      PROVE  CoreInv'
  <2> DEFINE w == IF b THEN feeRouter.approvedReferrer \cup {r}
                  ELSE feeRouter.approvedReferrer \ {r}
  <2>1. FeeAdmin([feeRouter EXCEPT !.approvedReferrer = w])
    BY <1>3 DEF SetReferrerApproved
  <2>2. w \in SUBSET Traders
    BY <1>1
  <2> HIDE DEF w
  <2>3. [feeRouter EXCEPT !.approvedReferrer = w] \in FeeState
    BY <1>1, <2>2, SetFeeConfig
  <2> QED BY <2>1, <2>3, FeeAdminStep
<1>4. ASSUME NEW s \in Splits, SetSplit(s[1], s[2])
      PROVE  CoreInv'
  <2> DEFINE w == [insuranceBps |-> s[1], referralBps |-> s[2]]
  <2>1. FeeAdmin([feeRouter EXCEPT !.split = w])
    BY <1>4 DEF SetSplit
  <2>2. validSplit(s[1], s[2]) /\ s[1] \in Nat /\ s[2] \in Nat
    <3>1. validSplit(s[1], s[2])
      BY <1>4 DEF SetSplit
    <3>2. s[1] \in Nat /\ s[2] \in Nat
      BY Inputs
    <3> QED BY <3>1, <3>2
  <2>3. s[1] \in 0..BPS_DENOMINATOR /\ s[2] \in 0..BPS_DENOMINATOR
    BY <2>2, ValidSplitType
  <2>4. w \in Split
    BY <2>3 DEF Split
  <2> HIDE DEF w
  <2>5. [feeRouter EXCEPT !.split = w] \in FeeState
    BY <1>1, <2>4, SetFeeConfig
  <2> QED BY <2>1, <2>5, FeeAdminStep
<1>5. ASSUME NEW n \in LiquidationSplits, SetLiquidationSplit(n)
      PROVE  CoreInv'
  <2>1. FeeAdmin([feeRouter EXCEPT !.liquidationInsuranceBps = n])
    BY <1>5 DEF SetLiquidationSplit
  <2>2. n \in 0..BPS_DENOMINATOR
    <3>1. n \in Nat /\ n <= MAX_LIQ_INSURANCE_SHARE_BPS
      BY <1>5, Inputs DEF SetLiquidationSplit
    <3>2. MAX_LIQ_INSURANCE_SHARE_BPS \in 0..10000
      BY FeeConfig DEF BPS_DENOMINATOR
    <3> QED BY <3>1, <3>2, SMTT(40) DEF BPS_DENOMINATOR
  <2>3. [feeRouter EXCEPT !.liquidationInsuranceBps = n] \in FeeState
    BY <1>1, <2>2, SetFeeConfig
  <2> QED BY <2>1, <2>3, FeeAdminStep
<1> QED BY <1>2, <1>3, <1>4, <1>5 DEF Revenue

\* Funding moves indices, not money.
LEMMA UpdateFundingStep ==
  ASSUME CoreInv, NEW m \in Markets, UpdateFunding(m)
  PROVE  CoreInv'
<1>1. /\ Transaction({"engine"})
      /\ twap(engine.marks[m], now) > 0 => prices[m] > 0
      /\ engine' = updateFunding(engine, m, prices[m], now)
      /\ UNCHANGED <<vault, feeRouter, insurance, activeMarkets, paused, donated>>
  BY DEF UpdateFunding
<1>2. /\ engine \in EngineState /\ vault \in VaultState
      /\ prices[m] \in Nat /\ now \in Int
  BY DEF CoreInv, TypeOK
<1>3. Untraded(engine, engine')
  BY <1>1, <1>2, UpdateFundingType
<1>4. WholeFill(vault, engine, vault', engine')
  BY <1>1, <1>2, <1>3 DEF Untraded, WholeFill, imbalance
<1>5. Solvency' /\ OpenInterestBalanced'
  BY <1>1, <1>4, KeepsBooks
<1>6. TypeOK'
  BY <1>1, <1>4, TransactionTypes DEF CoreInv, TypeOK, WholeFill
<1> QED BY <1>5, <1>6 DEF CoreInv

\* Caps, listings, pauses, unwind limits and stray tokens.
LEMMA GovernanceStep ==
  ASSUME CoreInv, Governance
  PROVE  CoreInv'
<1>1. ASSUME NEW m \in Markets, NEW b \in BOOLEAN, SetMarketActive(m, b)
      PROVE  CoreInv'
  <2>1. activeMarkets' \subseteq Markets
    BY <1>1 DEF SetMarketActive, CoreInv, TypeOK
  <2>2. /\ Transaction({})
        /\ UNCHANGED <<vault, engine, feeRouter, insurance, paused, donated>>
    BY <1>1 DEF SetMarketActive
  <2>3. Solvency' /\ OpenInterestBalanced'
    BY <2>2, BooksUntouched
  <2> QED BY <2>1, <2>2, <2>3, TransactionTypes DEF CoreInv, TypeOK
<1>2. ASSUME NEW c \in Pausable, NEW b \in BOOLEAN, SetPaused(c, b)
      PROVE  CoreInv'
  <2>1. paused' \subseteq Contracts
    BY <1>2, Inputs DEF SetPaused, CoreInv, TypeOK
  <2>2. /\ Transaction({})
        /\ UNCHANGED <<vault, engine, feeRouter, insurance, activeMarkets, donated>>
    BY <1>2 DEF SetPaused
  <2>3. Solvency' /\ OpenInterestBalanced'
    BY <2>2, BooksUntouched
  <2> QED BY <2>1, <2>2, <2>3, TransactionTypes DEF CoreInv, TypeOK
<1>3. ASSUME NEW l \in LimitChoices, SetUnwindLimits(l)
      PROVE  CoreInv'
  <2>1. /\ insurance' = [insurance EXCEPT !.limits = l]
        /\ Transaction({})
        /\ UNCHANGED <<vault, engine, feeRouter, activeMarkets, paused, donated>>
    BY <1>3 DEF SetUnwindLimits
  <2>2. insurance \in InsuranceState /\ l \in UnwindLimits
    BY Inputs DEF CoreInv, TypeOK
  <2>3. insurance' \in InsuranceState
    BY <2>1, <2>2, SetInsurance
  <2>4. Solvency' /\ OpenInterestBalanced'
    BY <2>1, BooksUntouched
  <2> QED BY <2>1, <2>3, <2>4, TransactionTypes DEF CoreInv, TypeOK
<1> QED BY <1>1, <1>2, <1>3, SetDepositCapsStep, SetCollateralStep, SendTokensStep
        DEF Governance

\* The oracle and the clock.
LEMMA EnvironmentStep ==
  ASSUME CoreInv,
         \/ \E m \in Markets, p \in Prices : SetPrice(m, p)
         \/ \E k \in Ticks : Tick(k)
  PROVE  CoreInv'
<1>1. ASSUME NEW m \in Markets, NEW p \in Prices, SetPrice(m, p)
      PROVE  CoreInv'
  <2>1. prices' \in [Markets -> Nat]
    BY <1>1, Inputs DEF SetPrice, CoreInv, TypeOK
  <2>2. UNCHANGED <<vault, engine, feeRouter, insurance, activeMarkets, paused, now,
                    txs, donated>>
    BY <1>1 DEF SetPrice
  <2>3. Solvency' /\ OpenInterestBalanced'
    BY <2>2, BooksUntouched
  <2> QED BY <2>1, <2>2, <2>3 DEF CoreInv, TypeOK
<1>2. ASSUME NEW k \in Ticks, Tick(k)
      PROVE  CoreInv'
  <2>1. now' \in Nat
    BY <1>2, Inputs DEF Tick, CoreInv, TypeOK
  <2>2. UNCHANGED <<vault, engine, feeRouter, insurance, prices, activeMarkets, paused,
                    txs, donated>>
    BY <1>2 DEF Tick
  <2>3. Solvency' /\ OpenInterestBalanced'
    BY <2>2, BooksUntouched
  <2> QED BY <2>1, <2>2, <2>3 DEF CoreInv, TypeOK
<1> QED BY <1>1, <1>2

-----------------------------------------------------------------------------
(* The theorems.                                                           *)

\* The contracts as deployed satisfy the invariant.
LEMMA InitCore ==
  ASSUME Init
  PROVE  CoreInv
<1>1. InitialCaps[1] \in Nat /\ InitialCaps[2] \in Nat
  BY Deployment
<1>2. vault = initialVault(InitialCaps[1], InitialCaps[2])
  BY DEF Init, StartFrom
<1>3. /\ vault \in VaultState
      /\ vault.custody = 0 /\ vault.totalLedger = 0
  BY <1>1, <1>2 DEF initialVault, VaultState
<1>4. engine = initialEngine
  BY DEF Init, StartFrom
<1>5. /\ engine \in EngineState
      /\ engine.netCostBasis = 0
      /\ \A m \in Markets : engine.openInterest[m].long = engine.openInterest[m].short
  <2>1. Flat \in Position
    BY DEF Flat, Position
  <2>2. [a \in Accounts |-> [m \in Markets |-> Flat]] \in [Accounts -> [Markets -> Position]]
    BY <2>1
  <2>3. engine \in EngineState
    BY <1>4, <2>2 DEF initialEngine, EngineState
  <2> QED BY <1>4, <2>3 DEF initialEngine
<1>6. feeRouter \in FeeState
  <2>1. Unset \in Rates /\ InitialRates \in Rates
    BY Deployment DEF Unset, Rates
  <2>2. [insuranceBps |-> 2000, referralBps |-> 1000] \in Split
    BY DEF Split, BPS_DENOMINATOR
  <2>3. 5000 \in 0..BPS_DENOMINATOR
    BY DEF BPS_DENOMINATOR
  <2>4. feeRouter = initialFees(InitialRates) /\ MIN_NET_RATE_FLOOR \in Nat
    BY FeeConfig DEF Init, StartFrom
  <2> QED BY <2>1, <2>2, <2>3, <2>4 DEF initialFees, FeeState
<1>7. insurance \in InsuranceState
  <2>1. NoRequest \in [shares : Int, unlockTime : Int, epoch : Nat]
    BY NoRequestType DEF RequestRecord
  <2>2. insurance = initialInsurance(InitialLimits) /\ InitialLimits \in UnwindLimits
    BY Deployment DEF Init, StartFrom
  <2> QED BY <2>1, <2>2 DEF initialInsurance, InsuranceState
<1>8. prices \in [Markets -> Nat]
  BY Inputs DEF Init, StartFrom
<1>9. /\ activeMarkets \subseteq Markets /\ paused \subseteq Contracts
      /\ now \in Nat /\ txs \in Nat /\ donated \in Nat
  BY DEF Init, StartFrom
<1>10. TypeOK
  BY <1>3, <1>5, <1>6, <1>7, <1>8, <1>9 DEF TypeOK
<1>11. Solvency
  <2>1. donated = 0
    BY DEF Init, StartFrom
  <2>2. toInternal(0) = 0
    BY ScalesPositive DEF toInternal
  <2> QED BY <1>3, <1>5, <2>1, <2>2 DEF Solvency, assets, liabilities
<1>12. OpenInterestBalanced
  BY <1>5 DEF OpenInterestBalanced
<1> QED BY <1>10, <1>11, <1>12 DEF CoreInv

\* Every step of the exchange preserves the invariant.
LEMMA NextCore ==
  ASSUME CoreInv, [Next]_vars
  PROVE  CoreInv'
<1>1. CASE UNCHANGED vars
  BY <1>1, BooksUntouched DEF vars, CoreInv, TypeOK
<1>2. CASE Banking
  BY <1>2, DepositStep, WithdrawStep DEF Banking
<1>3. CASE Trading
  BY <1>3, SettleFillStep, EnvironmentStep DEF Trading
<1>4. CASE Liquidating
  BY <1>4, LiquidateStep, AdlStep, SettleBadDebtStep DEF Liquidating
<1>5. CASE Staking
  <2>1. ASSUME NEW n \in Amounts, Donate(n)
        PROVE  CoreInv'
    BY <2>1, DepositStep, ProtocolAccounts DEF Donate
  <2> QED BY <1>5, <2>1, StakeStep, RequestUnstakeStep, WithdrawUnstakedStep,
             WithdrawRetiredStep, SweepStep DEF Staking
<1>6. CASE Claiming
  BY <1>6, ClaimTreasuryStep, ClaimReferralStep DEF Claiming
<1>7. CASE FeeGovernance \/ Revenue
  BY <1>7, FeeGovernanceStep, RevenueStep
<1>8. CASE Funding
  BY <1>8, UpdateFundingStep DEF Funding
<1>9. CASE Clock
  BY <1>9, EnvironmentStep DEF Clock
<1>10. CASE Governance
  BY <1>10, GovernanceStep
<1> QED BY <1>1, <1>2, <1>3, <1>4, <1>5, <1>6, <1>7, <1>8, <1>9, <1>10 DEF Next

\* CoreInv is an inductive invariant of the exchange.
THEOREM CoreInvariant == Spec => []CoreInv
<1>1. Init => CoreInv
  BY InitCore
<1>2. CoreInv /\ [Next]_vars => CoreInv'
  BY NextCore
<1> QED BY <1>1, <1>2, PTL DEF Spec

\* Every ledger, position, schedule and share record keeps its type; in particular
\* custody, the deposit counters and the staked balance never go below zero.
THEOREM TypeCorrect == Spec => []TypeOK
<1>1. CoreInv => TypeOK
  BY DEF CoreInv
<1> QED BY <1>1, CoreInvariant, PTL

\* The vault's accounting identity holds to the last unit, for every market, every
\* rounding and every interleaving of the exchange's transactions.
THEOREM Solvent == Spec => []Solvency
<1>1. CoreInv => Solvency
  BY DEF CoreInv
<1> QED BY <1>1, CoreInvariant, PTL

\* Long and short open interest are equal in every market, always.
THEOREM InterestBalanced == Spec => []OpenInterestBalanced
<1>1. CoreInv => OpenInterestBalanced
  BY DEF CoreInv
<1> QED BY <1>1, CoreInvariant, PTL

-----------------------------------------------------------------------------
(***************************************************************************)
(* Why claims on the ledger are covered.  Exchange states solvency as one  *)
(* equation between totals; what follows goes below it, to the sums the    *)
(* totals stand for.                                                       *)
(*                                                                         *)
(* The invariant Backed says, of the ledger and the positions together:    *)
(* the ledger total is the sum of the balances; only traders and the       *)
(* insurance fund hold positions, each with a cost basis on its own side   *)
(* of zero and listed in its owner's bitmap; the net cost basis is the sum *)
(* of theirs; sizes cancel out in every market; and the funding pool's     *)
(* balance covers what all positions are owed.  The last part is what      *)
(* every step must be shown to keep: settling one position moves at most   *)
(* what it was owed, an index moves the two sides by opposite amounts of   *)
(* the same open interest, and a trade rounds its split once.              *)
(*                                                                         *)
(* Then the equities are added up: at any prices the claims of the         *)
(* positions cancel out with their cost basis and with the funding the     *)
(* pool holds, up to the roundings that EquityBacked counts.               *)
(*                                                                         *)
(* The last part is about two accounts that hold money for many: the fee   *)
(* router for the treasury and the referrers, the insurance fund for its   *)
(* stakers.  Both owe no more than they hold, and a staker who joins or    *)
(* leaves takes nothing from the others.  The invariants are TakerRates    *)
(* with FeesBacked (no step makes the router owe more than it receives),   *)
(* and SharesSound over the invariants of the ledger.                      *)
(***************************************************************************)
\* The protocol's accounts are finitely many.
LEMMA FiniteAccounts == IsFiniteSet(Accounts) /\ IsFiniteSet(Markets)
<1>1. IsFiniteSet(Traders) /\ IsFiniteSet(Markets)
  BY FiniteExchange
<1>2. Accounts = ((Traders \cup {INSURANCE}) \cup {FEE_ROUTER}) \cup {FUNDING_POOL}
  BY DEF Accounts
<1>3. IsFiniteSet(((Traders \cup {INSURANCE}) \cup {FEE_ROUTER}) \cup {FUNDING_POOL})
  BY <1>1, FS_AddElement
<1> QED BY <1>1, <1>2, <1>3

\* A sum of integers over a function of accounts.
LEMMA AccountSum ==
  ASSUME NEW f \in [Accounts -> Int]
  PROVE  /\ SumFunction(f) = SumFunctionOnSet(f, Accounts)
         /\ SumFunction(f) \in Int
<1>1. SumFunction(f) = SumFunctionOnSet(f, Accounts)
  BY DEF SumFunction
<1> QED BY <1>1, FiniteAccounts, SumInt

\* Changing one account's value changes the sum by the difference.
LEMMA AccountSumChange ==
  ASSUME NEW f \in [Accounts -> Int], NEW a \in Accounts, NEW x \in Int
  PROVE  SumFunction([f EXCEPT ![a] = x]) = SumFunction(f) - f[a] + x
<1> DEFINE g == [f EXCEPT ![a] = x]
<1>1. g \in [Accounts -> Int] /\ g[a] = x /\ \A b \in Accounts \ {a} : f[b] = g[b]
  OBVIOUS
<1> HIDE DEF g
<1>2. \A b \in Accounts : f[b] \in Int /\ g[b] \in Int
  BY <1>1
<1>3. SumFunctionOnSet(g, Accounts) = SumFunctionOnSet(f, Accounts) - f[a] + g[a]
  BY <1>1, <1>2, FiniteAccounts, SumChange
<1>4. SumFunction(g) = SumFunction(f) - f[a] + x
  BY <1>1, <1>3, AccountSum
<1> QED BY <1>4 DEF g

-----------------------------------------------------------------------------
(* The ledger is the sum of its balances.                                  *)

Summed(v) == v.totalLedger = SumFunction(v.balances)

\* _move books one amount.
LEMMA MoveSummed ==
  ASSUME NEW v \in VaultState, NEW a \in Accounts, NEW x \in Int
  PROVE  /\ move(v, a, x) \in VaultState
         /\ move(v, a, x).balances = [v.balances EXCEPT ![a] = v.balances[a] + x]
         /\ Summed(v) => Summed(move(v, a, x))
<1> DEFINE w == [v.balances EXCEPT ![a] = v.balances[a] + x]
           u == move(v, a, x)
<1>1. v.balances \in [Accounts -> Int] /\ v.totalLedger \in Int
  BY DEF VaultState
<1>2. u \in VaultState /\ u.totalLedger = v.totalLedger + x
  BY MoveLedger DEF LedgerChange
<1>3. u.balances = w
  BY DEF move, VaultState
<1>4. SumFunction(w) = SumFunction(v.balances) - v.balances[a] + (v.balances[a] + x)
  BY <1>1, AccountSumChange
<1>5. SumFunction(w) = SumFunction(v.balances) + x
  BY <1>1, <1>4, AccountSum
<1> HIDE DEF u, w
<1>6. Summed(v) => Summed(u)
  BY <1>2, <1>3, <1>5 DEF Summed
<1> QED BY <1>2, <1>3, <1>6 DEF u, w

\* transferInternal too.
LEMMA TransferSummed ==
  ASSUME NEW v \in VaultState, NEW a \in Accounts, NEW b \in Accounts, NEW x \in Int
  PROVE  LET u == transferInternal(v, a, b, x)
         IN  /\ u \in VaultState
             /\ Summed(v) => Summed(u)
             /\ \A c \in Accounts :
                  u.balances[c] = v.balances[c] + (IF a = b THEN 0 ELSE
                                     IF c = a THEN -x ELSE IF c = b THEN x ELSE 0)
<1> DEFINE w1 == [v.balances EXCEPT ![a] = v.balances[a] - x]
           w2 == [w1 EXCEPT ![b] = w1[b] + x]
           u  == transferInternal(v, a, b, x)
<1>1. v.balances \in [Accounts -> Int] /\ v.totalLedger \in Int
  BY DEF VaultState
<1>2. u \in VaultState /\ u.totalLedger = v.totalLedger
  <2>1. LedgerChange(v, u, 0)
    BY TransferLedger
  <2> HIDE DEF u
  <2> QED BY <1>1, <2>1 DEF LedgerChange
<1>3. CASE a = b
  BY <1>1, <1>3 DEF transferInternal
<1>4. CASE a # b
  <2>1. u.balances = w2
    BY <1>1, <1>4 DEF transferInternal, VaultState
  <2>2. w1 \in [Accounts -> Int] /\ w1[b] + x \in Int /\ v.balances[a] - x \in Int
    BY <1>1
  <2>3. SumFunction(w1) = SumFunction(v.balances) - v.balances[a] + (v.balances[a] - x)
    BY <1>1, <2>2, AccountSumChange
  <2>4. SumFunction(w2) = SumFunction(w1) - w1[b] + (w1[b] + x)
    BY <2>2, AccountSumChange
  <2>5. SumFunction(w1) \in Int /\ SumFunction(v.balances) \in Int
    BY <1>1, <2>2, AccountSum
  <2>6. v.balances[a] \in Int /\ w1[b] \in Int
    BY <1>1, <2>2
  <2>7. SumFunction(w2) = SumFunction(v.balances)
    <3> HIDE DEF w1, w2
    <3> QED BY <2>3, <2>4, <2>5, <2>6
  <2>8. Summed(v) => Summed(u)
    BY <1>2, <2>1, <2>7 DEF Summed
  <2>9. \A c \in Accounts : w2[c] = v.balances[c] + (IF c = a THEN -x ELSE
                                                     IF c = b THEN x ELSE 0)
    BY <1>1, <1>4
  <2> QED BY <1>2, <1>4, <2>1, <2>8, <2>9
<1> QED BY <1>3, <1>4

\* Between two accounts, the one pays what the other receives.
LEMMA TransferPays ==
  ASSUME NEW v \in VaultState, NEW a \in Accounts, NEW b \in Accounts, a # b, NEW x \in Int
  PROVE  /\ transferInternal(v, a, b, x) \in VaultState
         /\ Summed(v) => Summed(transferInternal(v, a, b, x))
         /\ transferInternal(v, a, b, x).balances[a] = v.balances[a] - x
         /\ transferInternal(v, a, b, x).balances[b] = v.balances[b] + x
         /\ \A c \in Accounts \ {a, b} :
              transferInternal(v, a, b, x).balances[c] = v.balances[c]
<1> DEFINE u == transferInternal(v, a, b, x)
<1>1. /\ u \in VaultState
      /\ Summed(v) => Summed(u)
      /\ \A c \in Accounts :
           u.balances[c] = v.balances[c] + (IF a = b THEN 0 ELSE
                              IF c = a THEN -x ELSE IF c = b THEN x ELSE 0)
  <2>1. u \in VaultState /\ (Summed(v) => Summed(u))
    BY TransferSummed
  <2>2. ASSUME NEW c \in Accounts
        PROVE  u.balances[c] = v.balances[c] + (IF a = b THEN 0 ELSE
                                  IF c = a THEN -x ELSE IF c = b THEN x ELSE 0)
    BY TransferSummed
  <2> HIDE DEF u
  <2> QED BY <2>1, <2>2
<1>2. \A c \in Accounts : v.balances[c] \in Int
  BY DEF VaultState
<1> HIDE DEF u
<1>3. u.balances[a] = v.balances[a] - x /\ u.balances[b] = v.balances[b] + x
      /\ \A c \in Accounts \ {a, b} : u.balances[c] = v.balances[c]
  BY <1>1, <1>2
<1> QED BY <1>1, <1>3 DEF u

\* Adding to one balance what the ledger total gains keeps the ledger summed.
LEMMA SummedPlus ==
  ASSUME NEW v \in VaultState, NEW u \in VaultState, NEW a \in Accounts, NEW x \in Int,
         u.totalLedger = v.totalLedger + x,
         u.balances = [v.balances EXCEPT ![a] = v.balances[a] + x],
         Summed(v)
  PROVE  Summed(u)
<1>1. v.balances \in [Accounts -> Int] /\ v.totalLedger \in Int /\ v.balances[a] \in Int
  BY DEF VaultState
<1>2. SumFunction(u.balances) = SumFunction(v.balances) - v.balances[a] + (v.balances[a] + x)
  BY <1>1, AccountSumChange
<1>3. SumFunction(v.balances) \in Int
  BY <1>1, AccountSum
<1>4. SumFunction(u.balances) = SumFunction(v.balances) + x
  BY <1>1, <1>2, <1>3
<1> QED BY <1>4 DEF Summed

\* A deposit credits one account,
LEMMA CreditSummed ==
  ASSUME NEW v \in VaultState, NEW a \in Accounts, NEW n \in Nat
  PROVE  /\ credit(v, a, n) \in VaultState
         /\ credit(v, a, n).balances
              = [v.balances EXCEPT ![a] = v.balances[a] + toInternal(n)]
         /\ Summed(v) => Summed(credit(v, a, n))
<1> DEFINE counted == IF a \in CapExempt THEN 0 ELSE n
           pulled  == [v EXCEPT !.custody = @ + n,
                                !.totalDeposited = @ + counted,
                                !.netDeposited[a] = @ + counted]
           u == credit(v, a, n)
<1>1. u = move(pulled, a, toInternal(n))
  BY DEF credit
<1>2. pulled.balances = v.balances /\ pulled.totalLedger = v.totalLedger
      /\ "balances" \in DOMAIN pulled
  BY DEF VaultState
<1> HIDE DEF pulled
<1>3. u.balances = [v.balances EXCEPT ![a] = v.balances[a] + toInternal(n)]
  BY <1>1, <1>2 DEF move
<1> HIDE DEF u
<1>4. u \in VaultState /\ u.totalLedger = v.totalLedger + toInternal(n)
  BY CreditLedger DEF u
<1>5. toInternal(n) \in Int
  BY ToInternalNat
<1> QED BY <1>3, <1>4, <1>5, SummedPlus DEF u

\* and a payout debits one.
LEMMA DebitSummed ==
  ASSUME NEW v \in VaultState, NEW a \in Accounts, NEW n \in Nat, n <= v.custody
  PROVE  /\ debit(v, a, n) \in VaultState
         /\ debit(v, a, n).balances
              = [v.balances EXCEPT ![a] = v.balances[a] - toInternal(n)]
         /\ Summed(v) => Summed(debit(v, a, n))
<1> DEFINE counted == IF a \in CapExempt THEN 0 ELSE n
           sent    == [v EXCEPT !.custody = @ - n,
                                !.totalDeposited = max(0, @ - counted),
                                !.netDeposited[a] = max(0, @ - counted)]
           u == debit(v, a, n)
<1>1. u = move(sent, a, -toInternal(n))
  BY DEF debit
<1>2. sent.balances = v.balances /\ sent.totalLedger = v.totalLedger
      /\ "balances" \in DOMAIN sent
  BY DEF VaultState
<1> HIDE DEF sent
<1>3. u.balances = [v.balances EXCEPT ![a] = v.balances[a] + (-toInternal(n))]
  BY <1>1, <1>2 DEF move
<1> HIDE DEF u
<1>4. u \in VaultState /\ u.totalLedger = v.totalLedger - toInternal(n)
  BY DebitLedger DEF u
<1>5. toInternal(n) \in Int /\ v.totalLedger \in Int /\ v.balances[a] \in Int
  BY ToInternalNat DEF VaultState
<1>6. u.totalLedger = v.totalLedger + (-toInternal(n)) /\ -toInternal(n) \in Int
      /\ v.balances[a] + (-toInternal(n)) = v.balances[a] - toInternal(n)
  BY <1>4, <1>5
<1>7. Summed(v) => Summed(u)
  BY <1>3, <1>4, <1>6, SummedPlus
<1> QED BY <1>3, <1>4, <1>6, <1>7 DEF u

-----------------------------------------------------------------------------
(* Positions.                                                              *)

\* Who trades: the traders and the backstop.
Holders == Traders \cup {INSURANCE}

\* The basis of a position: nothing without a size, else on the side of the size.
SignedBasis(size, basis) ==
  /\ size > 0 => basis >= 0
  /\ size < 0 => basis <= 0
  /\ size = 0 => basis = 0

\* What stored positions look like: the bitmap marks exactly the markets with a size, the
\* cost basis has the sign of the size, and only Holders have any.
Stored(e, a, m) ==
  LET p == e.positions[a][m]
  IN  /\ m \in e.marketBitmap[a] <=> p.size # 0
      /\ SignedBasis(p.size, p.openNotional)
      /\ a \notin Holders => p.size = 0

PositionsSound(e) == \A a \in Accounts, m \in Markets : Stored(e, a, m)

\* The signed size of a market over all accounts: what longs hold less what shorts hold.
netSize(e, m) == SumFunction([a \in Accounts |-> e.positions[a][m].size])

\* A sum over the markets of one account.
LEMMA MarketSum ==
  ASSUME NEW f \in [Markets -> Int]
  PROVE  /\ SumFunction(f) = SumFunctionOnSet(f, Markets)
         /\ SumFunction(f) \in Int
<1>1. SumFunction(f) = SumFunctionOnSet(f, Markets)
  BY DEF SumFunction
<1> QED BY <1>1, FiniteAccounts, SumInt

\* Tables of integers, one per account and market, and their sum.
Table == [Accounts -> [Markets -> Int]]
tableSum(f) == SumFunction([a \in Accounts |-> SumFunction(f[a])])

\* The cost basis of all positions, and the funding they still owe.
basisTable(e) == [a \in Accounts |-> [m \in Markets |-> e.positions[a][m].openNotional]]
owedTable(e) == [a \in Accounts |-> [m \in Markets |-> fundingOwed(e, a, m)]]
basisOf(e) == tableSum(basisTable(e))

\* The sum of a table is an integer.
LEMMA TableSum ==
  ASSUME NEW f \in Table
  PROVE  /\ [a \in Accounts |-> SumFunction(f[a])] \in [Accounts -> Int]
         /\ tableSum(f) \in Int
<1>1. \A a \in Accounts : SumFunction(f[a]) \in Int
  BY MarketSum DEF Table
<1> QED BY <1>1, AccountSum DEF tableSum

\* Changing one entry changes the sum by the difference.
LEMMA TableSumChange ==
  ASSUME NEW f \in Table, NEW g \in Table, NEW t \in Accounts, NEW k \in Markets,
         \A a \in Accounts, m \in Markets : <<a, m>> # <<t, k>> => g[a][m] = f[a][m]
  PROVE  tableSum(g) = tableSum(f) - f[t][k] + g[t][k]
<1> DEFINE F == [a \in Accounts |-> SumFunction(f[a])]
           G == [a \in Accounts |-> SumFunction(g[a])]
<1>1. F \in [Accounts -> Int] /\ G \in [Accounts -> Int]
  BY TableSum
<1>2. f[t] \in [Markets -> Int] /\ g[t] \in [Markets -> Int]
  BY DEF Table
<1>3. G[t] = F[t] - f[t][k] + g[t][k]
  <2>1. PICK p \in [Markets -> Int], q \in [Markets -> Int] : p = f[t] /\ q = g[t]
    BY <1>2
  <2>2. \A m \in Markets : p[m] \in Int /\ q[m] \in Int
    OBVIOUS
  <2>3. \A m \in Markets \ {k} : p[m] = q[m]
    BY <2>1
  <2>4. SumFunctionOnSet(q, Markets) = SumFunctionOnSet(p, Markets) - p[k] + q[k]
    BY <2>2, <2>3, FiniteAccounts, SumChange
  <2>5. SumFunction(q) = SumFunction(p) - p[k] + q[k]
    BY <2>4, MarketSum
  <2> QED BY <2>1, <2>5
<1>4. \A a \in Accounts \ {t} : F[a] = G[a]
  <2> TAKE a \in Accounts \ {t}
  <2>1. f[a] \in [Markets -> Int] /\ g[a] \in [Markets -> Int]
    BY DEF Table
  <2>2. f[a] = g[a]
    BY <2>1
  <2> QED BY <2>2
<1> HIDE DEF F, G
<1>5. \A a \in Accounts : F[a] \in Int /\ G[a] \in Int
  BY <1>1
<1>6. SumFunctionOnSet(G, Accounts) = SumFunctionOnSet(F, Accounts) - F[t] + G[t]
  BY <1>4, <1>5, FiniteAccounts, SumChange
<1>7. SumFunction(F) \in Int /\ SumFunction(G) = SumFunction(F) - F[t] + G[t]
  BY <1>1, <1>6, AccountSum
<1>8. F[t] \in Int /\ f[t][k] \in Int /\ g[t][k] \in Int
  BY <1>1, <1>2
<1>9. SumFunction(G) = SumFunction(F) - f[t][k] + g[t][k]
  BY <1>3, <1>7, <1>8
<1> QED BY <1>9 DEF tableSum, F, G

-----------------------------------------------------------------------------
(* Rounding.                                                               *)

\* Division of natural numbers rounds down by less than the divisor.
LEMMA DivBounds ==
  ASSUME NEW a \in Nat, NEW b \in Nat \ {0}
  PROVE  /\ a \div b \in Nat
         /\ b * (a \div b) <= a
         /\ a <= b * (a \div b) + (b - 1)
  OBVIOUS

\* A quotient is below what the dividend is a multiple of.
LEMMA DivBelow ==
  ASSUME NEW a \in Nat, NEW b \in Nat \ {0}, NEW c \in Nat, a <= b * c
  PROVE  a \div b <= c
<1>1. b * (a \div b) <= b * c /\ a \div b \in Nat
  BY DivBounds
<1> QED BY <1>1

\* Division keeps the order of its dividends.
LEMMA DivMonotone ==
  ASSUME NEW a \in Nat, NEW a2 \in Nat, a <= a2, NEW b \in Nat \ {0}
  PROVE  a \div b <= a2 \div b
<1>1. PICK q \in Nat : q = a \div b /\ b * q <= a
  BY DivBounds
<1>2. PICK r \in Nat : r = a2 \div b /\ a2 <= b * r + (b - 1)
  BY DivBounds
<1>3. b * q <= b * r + (b - 1)
  BY <1>1, <1>2
<1>4. ASSUME q >= r + 1 PROVE FALSE
  <2>1. b * q >= b * (r + 1)
    BY <1>4
  <2>2. b * (r + 1) = b * r + b
    OBVIOUS
  <2> QED BY <1>3, <2>1, <2>2
<1> QED BY <1>1, <1>2, <1>4

\* mulPrecision of natural numbers is one, and grows with the size.
LEMMA MulPrecisionMonotone ==
  ASSUME NEW a \in Nat, NEW b \in Nat, a <= b, NEW price \in Nat
  PROVE  /\ mulPrecision(a, price) \in Nat
         /\ mulPrecision(b, price) \in Nat
         /\ mulPrecision(a, price) <= mulPrecision(b, price)
<1>1. a * price \in Nat /\ b * price \in Nat /\ a * price <= b * price
  OBVIOUS
<1>2. /\ mulPrecision(a, price) = (a * price) \div PRECISION
      /\ mulPrecision(b, price) = (b * price) \div PRECISION
  <2>1. ASSUME NEW x \in Nat PROVE mulPrecision(x, price) = (x * price) \div PRECISION
    BY DEF mulPrecision, mulDiv, TruncDiv
  <2> QED BY <2>1
<1> QED BY <1>1, <1>2, DivBounds, DivMonotone, ScalesPositive

\* The basis of a part of a position lies between 0 and the whole.
LEMMA PartialBasis ==
  ASSUME NEW on \in Int, NEW c \in Nat, NEW q \in Nat \ {0}, c <= q
  PROVE  /\ mulDiv(on, c, q) \in Int
         /\ on >= 0 => 0 <= mulDiv(on, c, q) /\ mulDiv(on, c, q) <= on
         /\ on <= 0 => on <= mulDiv(on, c, q) /\ mulDiv(on, c, q) <= 0
<1>1. ASSUME NEW x \in Nat
      PROVE  x * c \in Nat /\ (x * c) \div q \in Nat /\ (x * c) \div q <= x
  <2>1. x * c <= q * x /\ x * c \in Nat
    OBVIOUS
  <2> QED BY <2>1, DivBounds, DivBelow
<1>2. CASE on >= 0
  <2>1. mulDiv(on, c, q) = (on * c) \div q
    BY <1>1, <1>2 DEF mulDiv, TruncDiv
  <2>2. (on * c) \div q \in Nat /\ (on * c) \div q <= on
    BY <1>1, <1>2
  <2> QED BY <2>1, <2>2
<1>3. CASE on < 0
  <2>1. (-on) \in Nat /\ -(on * c) = (-on) * c /\ on * c \in Int
    BY <1>3
  <2>2. PICK r \in Nat : r = ((-on) * c) \div q /\ r <= -on
    BY <1>1, <2>1
  <2>3. CASE on * c >= 0
    <3>1. on * c = 0
      BY <1>1, <2>1, <2>3
    <3>2. 0 \div q = 0
      OBVIOUS
    <3>3. mulDiv(on, c, q) = 0
      BY <3>1, <3>2 DEF mulDiv, TruncDiv
    <3> QED BY <1>3, <3>3
  <2>4. CASE on * c < 0
    <3>1. mulDiv(on, c, q) = -r
      BY <2>1, <2>2, <2>4 DEF mulDiv, TruncDiv
    <3> QED BY <1>3, <2>2, <3>1
  <2> QED BY <2>1, <2>3, <2>4
<1> QED BY <1>2, <1>3

\* A trade leaves the basis on the side of the size; what closes a position removes all of
\* its basis.
LEMMA SplitKeepsSign ==
  ASSUME NEW p \in Position, NEW delta \in Int, delta # 0, NEW price \in Nat,
         SignedBasis(p.size, p.openNotional)
  PROVE  LET sp == splitTrade(p, delta, price, mulPrecision(abs(delta), price))
         IN  /\ sp.removedBasis \in Int /\ sp.addedBasis \in Int
             /\ SignedBasis(p.size + delta, p.openNotional - sp.removedBasis + sp.addedBasis)
<1> DEFINE n             == mulPrecision(abs(delta), price)
           sp            == splitTrade(p, delta, price, n)
           opposite      == p.size # 0 /\ (p.size > 0) # (delta > 0)
           closeQty      == IF opposite THEN min(abs(p.size), abs(delta)) ELSE 0
           residual      == abs(delta) - closeQty
           closeNotional == IF residual = 0 THEN n ELSE mulPrecision(closeQty, price)
           removedBasis  == IF closeQty = 0 THEN 0
                            ELSE IF closeQty = abs(p.size) THEN p.openNotional
                            ELSE mulDiv(p.openNotional, closeQty, abs(p.size))
           addedBasis    == IF delta > 0 THEN n - closeNotional ELSE closeNotional - n
           rb            == sp.removedBasis
           ab            == sp.addedBasis
<1>1. rb = removedBasis /\ ab = addedBasis
  BY DEF splitTrade
<1> HIDE DEF rb, ab
<1>2. p.size \in Int /\ p.openNotional \in Int
  BY DEF Position
<1>3. abs(p.size) \in Nat /\ abs(delta) \in Nat /\ abs(delta) > 0
      /\ (p.size # 0 => abs(p.size) > 0)
  BY <1>2 DEF abs
<1>4. closeQty \in Nat /\ closeQty <= abs(delta) /\ residual \in Nat
      /\ (opposite => closeQty <= abs(p.size) /\ closeQty > 0)
      /\ (opposite => closeQty = abs(p.size) \/ closeQty = abs(delta))
      /\ (~opposite => closeQty = 0)
  BY <1>2, <1>3 DEF min
<1> HIDE DEF closeQty
<1>5. n \in Nat /\ mulPrecision(closeQty, price) \in Nat
      /\ mulPrecision(closeQty, price) <= n
  BY <1>3, <1>4, MulPrecisionMonotone
<1> HIDE DEF n
<1>6. closeNotional \in Nat /\ closeNotional <= n /\ (residual = 0 => closeNotional = n)
  BY <1>5
<1> HIDE DEF closeNotional
<1>7. ab \in Int /\ (delta > 0 => ab >= 0) /\ (delta < 0 => ab <= 0)
      /\ (residual = 0 => ab = 0)
  BY <1>1, <1>5, <1>6
<1> HIDE DEF addedBasis
<1>8. rb \in Int /\ SignedBasis(p.size + delta, p.openNotional - rb + ab)
  <2>1. CASE ~opposite
    <3>1. rb = 0
      BY <1>1, <1>4, <2>1
    <3> QED BY <1>2, <1>7, <2>1, <3>1 DEF SignedBasis
  <2>2. CASE opposite /\ closeQty = abs(p.size)
    <3>1. rb = p.openNotional
      BY <1>1, <1>4, <2>2
    <3>2. p.size + delta = 0 => residual = 0
      BY <1>2, <2>2 DEF abs
    <3>3. p.size + delta # 0 => (p.size + delta > 0) = (delta > 0)
      BY <1>2, <1>4, <2>2 DEF abs
    <3>4. p.openNotional - rb + ab = ab
      BY <1>2, <1>7, <3>1
    <3> QED BY <1>2, <1>7, <3>1, <3>2, <3>3, <3>4 DEF SignedBasis
  <2>3. CASE opposite /\ closeQty # abs(p.size)
    <3>1. closeQty = abs(delta) /\ residual = 0 /\ closeQty < abs(p.size)
      BY <1>3, <1>4, <2>3
    <3>2. rb = mulDiv(p.openNotional, closeQty, abs(p.size)) /\ ab = 0
      BY <1>1, <1>4, <1>7, <2>3, <3>1
    <3>3. p.size + delta # 0 /\ (p.size + delta > 0) = (p.size > 0)
      BY <1>2, <2>3, <3>1 DEF abs
    <3>4. PICK q \in Nat \ {0}, on \in Int : q = abs(p.size) /\ on = p.openNotional
      BY <1>2, <1>3, <2>3
    <3>5. /\ mulDiv(on, closeQty, q) \in Int
          /\ on >= 0 => 0 <= mulDiv(on, closeQty, q) /\ mulDiv(on, closeQty, q) <= on
          /\ on <= 0 => on <= mulDiv(on, closeQty, q) /\ mulDiv(on, closeQty, q) <= 0
      <4>1. closeQty <= q
        BY <3>1, <3>4, <1>4
      <4> HIDE DEF residual, opposite
      <4> QED BY <1>4, <4>1, PartialBasis
    <3>6. /\ rb \in Int
          /\ p.openNotional >= 0 => 0 <= rb /\ rb <= p.openNotional
          /\ p.openNotional <= 0 => p.openNotional <= rb /\ rb <= 0
      BY <3>2, <3>4, <3>5
    <3> QED BY <1>2, <2>3, <3>2, <3>3, <3>6 DEF SignedBasis
  <2> QED BY <2>1, <2>2, <2>3
<1> QED BY <1>7, <1>8 DEF sp, rb, ab, n

-----------------------------------------------------------------------------
(* One trade.                                                              *)

\* What _trade writes.
LEMMA TradeWrites ==
  ASSUME NEW v, NEW e \in EngineState, NEW t \in Accounts, NEW m \in Markets, NEW delta \in Int,
         NEW price, NEW n, NEW ro, NEW limits, NEW active
  PROVE  LET e2 == trade(v, e, t, m, delta, price, n, ro, limits, active).engine
             sp == splitTrade(e.positions[t][m], delta, price, n)
             np == newPosition(e, t, m, delta, sp)
         IN  /\ e2.positions = [e.positions EXCEPT ![t][m] = np]
             /\ e2.marketBitmap = [e.marketBitmap EXCEPT
                  ![t] = IF np.size = 0 THEN @ \ {m} ELSE @ \cup {m}]
             /\ e2.netCostBasis = e.netCostBasis - sp.removedBasis + sp.addedBasis
             /\ e2.funding = e.funding
<1> DEFINE sp == splitTrade(e.positions[t][m], delta, price, n)
           np == newPosition(e, t, m, delta, sp)
           e2 == [e EXCEPT
                   !.positions[t][m] = np,
                   !.marketBitmap[t] = IF np.size = 0 THEN @ \ {m} ELSE @ \cup {m},
                   !.openInterest[m] = changeOpenInterest(@, e.positions[t][m], delta, sp),
                   !.netCostBasis    = @ - sp.removedBasis + sp.addedBasis]
<1>1. trade(v, e, t, m, delta, price, n, ro, limits, active).engine = e2
  BY DEF trade
<1> HIDE DEF sp, np
<1>2. /\ e2.positions = [e.positions EXCEPT ![t][m] = np]
      /\ e2.marketBitmap = [e.marketBitmap EXCEPT
           ![t] = IF np.size = 0 THEN @ \ {m} ELSE @ \cup {m}]
      /\ e2.netCostBasis = e.netCostBasis - sp.removedBasis + sp.addedBasis
      /\ e2.funding = e.funding
  BY DEF EngineState
<1> QED BY <1>1, <1>2 DEF sp, np

\* The position a trade leaves: the size moved by delta, the basis on its side, and funding
\* counted from the index of that side.
LEMMA NewPositionSound ==
  ASSUME NEW e \in EngineState, NEW t \in Accounts, NEW m \in Markets,
         NEW delta \in Int, delta # 0, NEW price \in Nat,
         SignedBasis(e.positions[t][m].size, e.positions[t][m].openNotional)
  PROVE  LET p  == e.positions[t][m]
             sp == splitTrade(p, delta, price, mulPrecision(abs(delta), price))
             np == newPosition(e, t, m, delta, sp)
         IN  /\ np \in Position
             /\ sp.removedBasis \in Int /\ sp.addedBasis \in Int
             /\ np.size = p.size + delta
             /\ np.openNotional = p.openNotional - sp.removedBasis + sp.addedBasis
             /\ SignedBasis(np.size, np.openNotional)
             /\ np.size # 0 => np.lastFundingIndex = sideIndex(e, m, np.size > 0)
<1> DEFINE p  == e.positions[t][m]
           sp == splitTrade(p, delta, price, mulPrecision(abs(delta), price))
           rb == sp.removedBasis
           ab == sp.addedBasis
           np == newPosition(e, t, m, delta, sp)
<1>1. p \in Position /\ p.size \in Int /\ p.openNotional \in Int
  BY EngineFields
<1>2. rb \in Int /\ ab \in Int /\ SignedBasis(p.size + delta, p.openNotional - rb + ab)
  <2>1. PICK q \in Position : q = p
    BY <1>1
  <2>2. SignedBasis(q.size, q.openNotional)
    BY <2>1
  <2> HIDE DEF p
  <2>3. LET s2 == splitTrade(q, delta, price, mulPrecision(abs(delta), price))
        IN  /\ s2.removedBasis \in Int /\ s2.addedBasis \in Int
            /\ SignedBasis(q.size + delta, q.openNotional - s2.removedBasis + s2.addedBasis)
    BY <2>2, SplitKeepsSign
  <2> QED BY <2>1, <2>3
<1>3. np = IF p.size + delta = 0 THEN Flat
           ELSE [ size             |-> p.size + delta,
                  openNotional     |-> p.openNotional - rb + ab,
                  lastFundingIndex |-> sideIndex(e, m, p.size + delta > 0) ]
  BY DEF newPosition
<1>4. sideIndex(e, m, p.size + delta > 0) \in Int
  BY SideIndexInt
<1> HIDE DEF p, sp, rb, ab, np
<1>5. /\ np \in Position
      /\ np.size = p.size + delta
      /\ np.openNotional = p.openNotional - rb + ab
      /\ SignedBasis(np.size, np.openNotional)
      /\ np.size # 0 => np.lastFundingIndex = sideIndex(e, m, np.size > 0)
  <2>1. CASE p.size + delta = 0
    <3>1. np = Flat /\ p.openNotional - rb + ab = 0
      BY <1>2, <1>3, <2>1 DEF SignedBasis
    <3> QED BY <1>2, <2>1, <3>1 DEF Flat, Position
  <2>2. CASE p.size + delta # 0
    BY <1>1, <1>2, <1>3, <1>4, <2>2 DEF Position
  <2> QED BY <2>1, <2>2
<1> QED BY <1>2, <1>5 DEF p, sp, rb, ab, np

-----------------------------------------------------------------------------
(* What a replaced position changes.                                       *)

\* The tables of an engine hold integers.
LEMMA EngineTables ==
  ASSUME NEW e \in EngineState
  PROVE  /\ basisTable(e) \in Table /\ owedTable(e) \in Table
         /\ \A a \in Accounts, m \in Markets : fundingOwed(e, a, m) \in Int
         /\ basisOf(e) \in Int /\ pendingFunding(e) \in Int
         /\ pendingFunding(e) = tableSum(owedTable(e))
         /\ \A m \in Markets : netSize(e, m) \in Int
<1>1. \A a \in Accounts, m \in Markets :
        e.positions[a][m].size \in Int /\ e.positions[a][m].openNotional \in Int
        /\ e.positions[a][m].lastFundingIndex \in Int
  BY EngineFields
<1>2. \A a \in Accounts, m \in Markets : fundingOwed(e, a, m) \in Int
  <2> TAKE a \in Accounts, m \in Markets
  <2>1. PICK i \in Int : i = sideIndex(e, m, e.positions[a][m].size > 0)
    BY SideIndexInt
  <2>2. PICK q \in Int : q = abs(e.positions[a][m].size)
    BY <1>1, AbsNat
  <2>3. q * (i - e.positions[a][m].lastFundingIndex) \in Int
    BY <1>1
  <2> QED BY <2>1, <2>2, <2>3 DEF fundingOwed
<1>3. basisTable(e) \in Table /\ owedTable(e) \in Table
  BY <1>1, <1>2 DEF basisTable, owedTable, Table
<1>4. basisOf(e) \in Int /\ tableSum(owedTable(e)) \in Int
  BY <1>3, TableSum DEF basisOf
<1>5. pendingFunding(e) = tableSum(owedTable(e))
  <2>1. \A a \in Accounts : owedTable(e)[a] = [m \in Markets |-> fundingOwed(e, a, m)]
    BY DEF owedTable
  <2> QED BY <2>1 DEF pendingFunding, tableSum
<1>6. ASSUME NEW m \in Markets PROVE netSize(e, m) \in Int
  <2>1. [a \in Accounts |-> e.positions[a][m].size] \in [Accounts -> Int]
    BY <1>1
  <2> QED BY <2>1, AccountSum DEF netSize
<1> QED BY <1>2, <1>3, <1>4, <1>5, <1>6

\* Replacing one position moves its market's signed size, the cost basis and the funding owed
\* by what that position contributes.
LEMMA PositionReplaced ==
  ASSUME NEW e \in EngineState, NEW e2 \in EngineState, NEW t \in Accounts, NEW m \in Markets,
         NEW np \in Position,
         e2.positions = [e.positions EXCEPT ![t][m] = np],
         e2.funding = e.funding
  PROVE  /\ \A k \in Markets : netSize(e2, k) = netSize(e, k) +
                                 (IF k = m THEN np.size - e.positions[t][m].size ELSE 0)
         /\ basisOf(e2) = basisOf(e) - e.positions[t][m].openNotional + np.openNotional
         /\ pendingFunding(e2)
              = pendingFunding(e) - fundingOwed(e, t, m) + fundingOwed(e2, t, m)
<1>1. /\ e.positions \in [Accounts -> [Markets -> Position]]
      /\ e2.positions \in [Accounts -> [Markets -> Position]]
  BY EngineFields DEF EngineState
<1>2. e2.positions[t][m] = np
      /\ \A a \in Accounts, k \in Markets :
           <<a, k>> # <<t, m>> => e2.positions[a][k] = e.positions[a][k]
  BY <1>1
<1>3. \A b, k : sideIndex(e2, k, b) = sideIndex(e, k, b)
  BY DEF sideIndex
<1>4. \A a \in Accounts, k \in Markets :
        <<a, k>> # <<t, m>> => fundingOwed(e2, a, k) = fundingOwed(e, a, k)
  BY <1>2, <1>3 DEF fundingOwed
<1>5. basisOf(e2) = basisOf(e) - e.positions[t][m].openNotional + np.openNotional
  <2>1. \A a \in Accounts, k \in Markets :
          <<a, k>> # <<t, m>> => basisTable(e2)[a][k] = basisTable(e)[a][k]
    BY <1>2 DEF basisTable
  <2>2. tableSum(basisTable(e2)) = tableSum(basisTable(e)) - basisTable(e)[t][m] + basisTable(e2)[t][m]
    <3>1. basisTable(e) \in Table /\ basisTable(e2) \in Table
      BY EngineTables
    <3> QED BY <2>1, <3>1, TableSumChange
  <2>3. basisTable(e)[t][m] = e.positions[t][m].openNotional /\ basisTable(e2)[t][m] = np.openNotional
    BY <1>2 DEF basisTable
  <2> QED BY <2>2, <2>3 DEF basisOf
<1>6. pendingFunding(e2) = pendingFunding(e) - fundingOwed(e, t, m) + fundingOwed(e2, t, m)
  <2>1. \A a \in Accounts, k \in Markets :
          <<a, k>> # <<t, m>> => owedTable(e2)[a][k] = owedTable(e)[a][k]
    BY <1>4 DEF owedTable
  <2>2. tableSum(owedTable(e2)) = tableSum(owedTable(e)) - owedTable(e)[t][m] + owedTable(e2)[t][m]
    <3>1. owedTable(e) \in Table /\ owedTable(e2) \in Table
      BY EngineTables
    <3> QED BY <2>1, <3>1, TableSumChange
  <2>3. owedTable(e)[t][m] = fundingOwed(e, t, m) /\ owedTable(e2)[t][m] = fundingOwed(e2, t, m)
    BY DEF owedTable
  <2> QED BY <2>2, <2>3, EngineTables
<1>7. ASSUME NEW k \in Markets
      PROVE  netSize(e2, k) = netSize(e, k) +
                                 (IF k = m THEN np.size - e.positions[t][m].size ELSE 0)
  <2> DEFINE f == [a \in Accounts |-> e.positions[a][k].size]
             g == [a \in Accounts |-> e2.positions[a][k].size]
  <2>1. f \in [Accounts -> Int] /\ g \in [Accounts -> Int]
    BY EngineFields
  <2>2. \A a \in Accounts \ {t} : f[a] = g[a]
    BY <1>2
  <2>3. f[t] = e.positions[t][k].size /\ g[t] = e2.positions[t][k].size
    OBVIOUS
  <2> HIDE DEF f, g
  <2>4. g = [f EXCEPT ![t] = g[t]] /\ g[t] \in Int /\ f[t] \in Int
    BY <2>1, <2>2
  <2>5. SumFunction([f EXCEPT ![t] = g[t]]) = SumFunction(f) - f[t] + g[t]
    <3>1. PICK x \in Int : x = g[t]
      BY <2>4
    <3>2. SumFunction([f EXCEPT ![t] = x]) = SumFunction(f) - f[t] + x
      BY <2>1, AccountSumChange
    <3> QED BY <3>1, <3>2
  <2>6. SumFunction(g) = SumFunction(f) - f[t] + g[t]
    BY <2>4, <2>5
  <2>7. SumFunction(f) \in Int
    BY <2>1, AccountSum
  <2>8. netSize(e2, k) = netSize(e, k) - f[t] + g[t] /\ netSize(e, k) \in Int
    BY <2>6, <2>7 DEF netSize, f, g
  <2>9. CASE k = m
    BY <1>2, <2>3, <2>4, <2>8, <2>9
  <2>10. CASE k # m
    <3>1. g[t] = f[t]
      BY <1>2, <2>3, <2>10
    <3> QED BY <2>4, <2>8, <2>10, <3>1
  <2> QED BY <2>9, <2>10
<1> QED BY <1>5, <1>6, <1>7

-----------------------------------------------------------------------------
(* Sound books.                                                            *)

\* What the pool holds and is still owed, in units of 1/PRECISION.
pool(v, e) == v.balances[FUNDING_POOL] * PRECISION + pendingFunding(e)

\* The ledger total is the sum of the balances, the positions are well formed, the cost
\* basis is that of the positions, and the funding pool can pay everyone.
Sound(v, e) ==
  /\ Summed(v)
  /\ PositionsSound(e)
  /\ e.netCostBasis = basisOf(e)
  /\ pool(v, e) >= 0

\* Rounding a product down or up to whole units of PRECISION.
LEMMA PrecisionBounds ==
  ASSUME NEW a \in Nat, NEW b \in Nat
  PROVE  /\ mulPrecision(a, b) \in Nat
         /\ PRECISION * mulPrecision(a, b) <= a * b
         /\ a * b <= PRECISION * mulPrecision(a, b) + (PRECISION - 1)
<1>1. a * b \in Nat
  OBVIOUS
<1>2. mulPrecision(a, b) = (a * b) \div PRECISION
  BY <1>1 DEF mulPrecision, mulDiv, TruncDiv
<1> QED BY <1>1, <1>2, DivBounds, ScalesPositive

\* A payer's share of funding covers what it owes.
LEMMA RoundedUpCovers ==
  ASSUME NEW a \in Nat \ {0}, NEW b \in Nat \ {0}
  PROVE  mulPrecisionUp(a, b) \in Int /\ PRECISION * mulPrecisionUp(a, b) >= a * b
<1>1. PICK x \in Nat : x = a * b - 1
  OBVIOUS
<1>2. PICK q \in Nat : q = x \div PRECISION /\ x <= PRECISION * q + (PRECISION - 1)
  BY DivBounds, ScalesPositive
<1>3. mulPrecisionUp(a, b) = q + 1
  BY <1>1, <1>2 DEF mulPrecisionUp, TruncDiv
<1>4. PRECISION * (q + 1) = PRECISION * q + PRECISION
  BY ScalesPositive
<1>5. PRECISION * (q + 1) >= a * b
  BY <1>1, <1>2, <1>4, ScalesPositive
<1> QED BY <1>3, <1>5

\* Settling funding gives the pool at least what the position owed it, and takes from it at
\* most what it owed the position.
LEMMA FundingSettled ==
  ASSUME NEW v \in VaultState, NEW e \in EngineState, NEW t \in Holders, NEW m \in Markets
  PROVE  /\ settleFunding(v, e, t, m) \in VaultState
         /\ Summed(v) => Summed(settleFunding(v, e, t, m))
         /\ settleFunding(v, e, t, m).balances[FUNDING_POOL] * PRECISION
              >= v.balances[FUNDING_POOL] * PRECISION + fundingOwed(e, t, m)
<1> DEFINE p == e.positions[t][m]
           u == settleFunding(v, e, t, m)
<1>1. t \in Accounts /\ t # FUNDING_POOL /\ FUNDING_POOL \in Accounts
  BY AccountsDistinct DEF Holders, Accounts
<1>2. PICK q \in Nat : q = abs(p.size) /\ (p.size = 0 <=> q = 0)
  <2>1. p.size \in Int
    BY <1>1, EngineFields
  <2> HIDE DEF p
  <2> QED BY <2>1 DEF abs
<1>3. PICK i \in Int : i = sideIndex(e, m, p.size > 0)
  BY <1>1, SideIndexInt
<1>4. PICK d \in Int : d = i - p.lastFundingIndex
  BY <1>1, EngineFields
<1>5. PICK bal \in Int : bal = v.balances[FUNDING_POOL]
  BY <1>1 DEF VaultState
<1>6. fundingOwed(e, t, m) = q * d
  BY <1>2, <1>3, <1>4 DEF fundingOwed
<1>7. p.size \in Int
  BY <1>1, EngineFields
<1> HIDE DEF u
<1>8. /\ u \in VaultState
      /\ Summed(v) => Summed(u)
      /\ u.balances[FUNDING_POOL] * PRECISION
           >= v.balances[FUNDING_POOL] * PRECISION + fundingOwed(e, t, m)
  <2>1. CASE p.size = 0 \/ d = 0
    <3>1. u = v
      BY <1>3, <1>4, <2>1 DEF settleFunding, u
    <3>2. q * d = 0
      BY <1>2, <2>1
    <3>3. bal * PRECISION \in Int
      BY ScalesPositive
    <3> QED BY <1>5, <1>6, <3>1, <3>2, <3>3
  <2>2. CASE p.size # 0 /\ d > 0
    <3>1. PICK x \in Int : x = mulPrecisionUp(q, d) /\ PRECISION * x >= q * d
      <4>1. q \in Nat \ {0} /\ d \in Nat \ {0}
        BY <1>2, <2>2
      <4> HIDE DEF p
      <4> QED BY <4>1, RoundedUpCovers
    <3>2. u = transferInternal(v, t, FUNDING_POOL, x)
      BY <1>2, <1>3, <1>4, <2>2, <3>1 DEF settleFunding, u
    <3> HIDE DEF p
    <3>3. u \in VaultState /\ (Summed(v) => Summed(u)) /\ u.balances[FUNDING_POOL] = bal + x
      <4>1. LET w == transferInternal(v, t, FUNDING_POOL, x)
            IN  w \in VaultState /\ (Summed(v) => Summed(w))
                /\ w.balances[FUNDING_POOL] = v.balances[FUNDING_POOL] + x
        BY <1>1, TransferPays
      <4> QED BY <1>5, <3>2, <4>1
    <3>4. (bal + x) * PRECISION = bal * PRECISION + PRECISION * x /\ bal * PRECISION \in Int
          /\ PRECISION * x \in Int /\ q * d \in Int
      BY ScalesPositive
    <3> QED BY <1>5, <1>6, <3>1, <3>3, <3>4
  <2>3. CASE p.size # 0 /\ d < 0
    <3>1. PICK dd \in Nat : dd = -d
      BY <2>3
    <3>2. PICK x \in Nat : x = mulPrecision(q, dd) /\ PRECISION * x <= q * dd
      BY PrecisionBounds
    <3>3. u = transferInternal(v, FUNDING_POOL, t, x)
      BY <1>2, <1>3, <1>4, <2>3, <3>1, <3>2 DEF settleFunding, u
    <3> HIDE DEF p
    <3>4. u \in VaultState /\ (Summed(v) => Summed(u)) /\ u.balances[FUNDING_POOL] = bal - x
      <4>1. LET w == transferInternal(v, FUNDING_POOL, t, x)
            IN  w \in VaultState /\ (Summed(v) => Summed(w))
                /\ w.balances[FUNDING_POOL] = v.balances[FUNDING_POOL] - x
        BY <1>1, TransferPays
      <4> QED BY <1>5, <3>3, <4>1
    <3>5. (bal - x) * PRECISION = bal * PRECISION - PRECISION * x /\ bal * PRECISION \in Int
          /\ PRECISION * x \in Int /\ q * d = -(q * dd) /\ q * d \in Int
      BY <3>1, ScalesPositive
    <3> QED BY <1>5, <1>6, <3>2, <3>4, <3>5
  <2> QED BY <2>1, <2>2, <2>3
<1> QED BY <1>8 DEF u

-----------------------------------------------------------------------------
(* A trade keeps the books sound.                                          *)

\* v2, e2 are sound books whose market m has delta more signed size than v, e.
SoundStep(v2, e2, e, m, delta) ==
  /\ v2 \in VaultState /\ e2 \in EngineState
  /\ Sound(v2, e2)
  /\ \A k \in Markets : netSize(e2, k) = netSize(e, k) + (IF k = m THEN delta ELSE 0)

\* The position a trade leaves owes no funding.
LEMMA SettledOwesNothing ==
  ASSUME NEW e \in EngineState, NEW e2 \in EngineState, NEW t \in Accounts, NEW m \in Markets,
         e2.funding = e.funding,
         e2.positions[t][m].size # 0 =>
           e2.positions[t][m].lastFundingIndex = sideIndex(e, m, e2.positions[t][m].size > 0)
  PROVE  fundingOwed(e2, t, m) = 0
<1>1. PICK p \in Position : p = e2.positions[t][m]
  BY EngineFields
<1>2. PICK i \in Int : i = sideIndex(e2, m, p.size > 0) /\ i = sideIndex(e, m, p.size > 0)
  BY SideIndexInt DEF sideIndex
<1>3. p.size \in Int /\ p.lastFundingIndex \in Int
  BY DEF Position
<1>4. fundingOwed(e2, t, m) = abs(p.size) * (i - p.lastFundingIndex)
  BY <1>1, <1>2 DEF fundingOwed
<1>5. CASE p.size = 0
  <2>1. abs(p.size) = 0
    BY <1>5 DEF abs
  <2> QED BY <1>3, <1>4, <2>1
<1>6. CASE p.size # 0
  <2>1. i - p.lastFundingIndex = 0
    BY <1>1, <1>2, <1>3, <1>6
  <2>2. abs(p.size) \in Int
    BY <1>3, AbsNat
  <2> QED BY <1>4, <2>1, <2>2
<1> QED BY <1>5, <1>6

\* One trade of a trader or the backstop, at a notional of the code's own rounding, keeps
\* the books sound.
LEMMA TradeSound ==
  ASSUME NEW v \in VaultState, NEW e \in EngineState, Sound(v, e),
         NEW t \in Holders, NEW m \in Markets, NEW delta \in Int, delta # 0,
         NEW price \in Nat, NEW n, n = mulPrecision(abs(delta), price),
         NEW ro, NEW limits, NEW active
  PROVE  LET r == trade(v, e, t, m, delta, price, n, ro, limits, active)
         IN  SoundStep(r.vault, r.engine, e, m, delta)
<1> DEFINE r  == trade(v, e, t, m, delta, price, n, ro, limits, active)
           v2 == r.vault
           e2 == r.engine
           p  == e.positions[t][m]
           sp == splitTrade(p, delta, price, n)
           np == newPosition(e, t, m, delta, sp)
<1>1. t \in Accounts /\ t # FUNDING_POOL /\ n \in Int
  <2>1. abs(delta) \in Nat
    BY AbsNat
  <2>2. mulPrecision(abs(delta), price) \in Int
    BY <2>1, FixedPointInt
  <2> QED BY <2>2, AccountsDistinct DEF Holders, Accounts
<1>2. p \in Position /\ p.size \in Int /\ p.openNotional \in Int /\ e.netCostBasis \in Int
  BY <1>1, EngineFields
<1>3. SignedBasis(p.size, p.openNotional)
  BY <1>1 DEF Sound, PositionsSound, Stored
<1>4. v2 \in VaultState /\ e2 \in EngineState /\ r.realized \in Int
  <2>1. OneSide(v, e, r.vault, r.engine, m, delta, IF delta > 0 THEN n ELSE -n)
        /\ r.realized \in Int
    BY <1>1, TradeOneSide
  <2> HIDE DEF r
  <2> QED BY <2>1 DEF OneSide
<1>5. /\ np \in Position
      /\ sp.removedBasis \in Int /\ sp.addedBasis \in Int
      /\ np.size = p.size + delta
      /\ np.openNotional = p.openNotional - sp.removedBasis + sp.addedBasis
      /\ SignedBasis(np.size, np.openNotional)
      /\ np.size # 0 => np.lastFundingIndex = sideIndex(e, m, np.size > 0)
  BY <1>1, <1>3, NewPositionSound
<1>6. /\ e2.positions = [e.positions EXCEPT ![t][m] = np]
      /\ e2.marketBitmap = [e.marketBitmap EXCEPT
           ![t] = IF np.size = 0 THEN @ \ {m} ELSE @ \cup {m}]
      /\ e2.netCostBasis = e.netCostBasis - sp.removedBasis + sp.addedBasis
      /\ e2.funding = e.funding
  BY <1>1, TradeWrites
<1>7. v2 = move(settleFunding(v, e, t, m), t, r.realized)
  BY DEF trade, applyPnl
<1> HIDE DEF r, np, sp
<1>8. e.positions \in [Accounts -> [Markets -> Position]]
      /\ e.marketBitmap \in [Accounts -> SUBSET Markets]
  BY DEF EngineState
<1>9. e2.positions[t][m] = np
      /\ \A a \in Accounts, k \in Markets :
           <<a, k>> # <<t, m>> => e2.positions[a][k] = e.positions[a][k]
  BY <1>1, <1>6, <1>8
<1>10. /\ \A k \in Markets : netSize(e2, k) = netSize(e, k) + (IF k = m THEN delta ELSE 0)
       /\ basisOf(e2) = basisOf(e) - p.openNotional + np.openNotional
       /\ pendingFunding(e2) = pendingFunding(e) - fundingOwed(e, t, m)
  <2>1. /\ \A k \in Markets : netSize(e2, k) = netSize(e, k) +
                                   (IF k = m THEN np.size - p.size ELSE 0)
        /\ basisOf(e2) = basisOf(e) - p.openNotional + np.openNotional
        /\ pendingFunding(e2)
              = pendingFunding(e) - fundingOwed(e, t, m) + fundingOwed(e2, t, m)
    BY <1>1, <1>4, <1>5, <1>6, PositionReplaced
  <2>2. fundingOwed(e2, t, m) = 0
    <3>1. e2.funding = e.funding
          /\ (e2.positions[t][m].size # 0 => e2.positions[t][m].lastFundingIndex
                                               = sideIndex(e, m, e2.positions[t][m].size > 0))
      BY <1>5, <1>6, <1>9
    <3> HIDE DEF e2
    <3> QED BY <1>1, <1>4, <3>1, SettledOwesNothing
  <2>3. pendingFunding(e) \in Int /\ fundingOwed(e, t, m) \in Int
    BY <1>1, EngineTables
  <2>4. np.size - p.size = delta
    BY <1>2, <1>5
  <2> QED BY <2>1, <2>2, <2>3, <2>4
<1>11. Summed(v2) /\ v2.balances[FUNDING_POOL] = settleFunding(v, e, t, m).balances[FUNDING_POOL]
  <2>1. PICK u \in VaultState : u = settleFunding(v, e, t, m) /\ Summed(u)
    BY FundingSettled DEF Sound
  <2>2. PICK x \in Int : x = r.realized
    BY <1>4
  <2>3. v2 = move(u, t, x)
    BY <1>7, <2>1, <2>2
  <2>4. v2.balances = [u.balances EXCEPT ![t] = u.balances[t] + x] /\ Summed(v2)
    BY <1>1, <2>1, <2>3, MoveSummed
  <2>5. v2.balances[FUNDING_POOL] = u.balances[FUNDING_POOL]
    BY <1>1, <2>4, ProtocolAccounts DEF VaultState
  <2> QED BY <2>1, <2>4, <2>5
<1>12. pool(v2, e2) >= 0
  <2>1. v2.balances[FUNDING_POOL] * PRECISION
          >= v.balances[FUNDING_POOL] * PRECISION + fundingOwed(e, t, m)
    BY <1>11, FundingSettled
  <2>2. v2.balances[FUNDING_POOL] * PRECISION \in Int
        /\ v.balances[FUNDING_POOL] * PRECISION \in Int
    BY <1>4, ProtocolAccounts, ScalesPositive DEF VaultState
  <2>3. pendingFunding(e) \in Int /\ fundingOwed(e, t, m) \in Int
    BY <1>1, EngineTables
  <2> QED BY <1>10, <2>1, <2>2, <2>3 DEF Sound, pool
<1>13. e2.netCostBasis = basisOf(e2)
  <2>1. e.netCostBasis = basisOf(e)
    BY DEF Sound
  <2> QED BY <1>2, <1>5, <1>6, <1>10, <2>1
<1>14. PositionsSound(e2)
  <2> SUFFICES ASSUME NEW a \in Accounts, NEW k \in Markets PROVE Stored(e2, a, k)
    BY DEF PositionsSound
  <2>1. Stored(e, a, k)
    BY DEF Sound, PositionsSound
  <2>2. CASE <<a, k>> = <<t, m>>
    <3>1. m \in e2.marketBitmap[t] <=> np.size # 0
      BY <1>1, <1>6, <1>8
    <3> QED BY <1>5, <1>9, <2>2, <3>1 DEF Stored
  <2>3. CASE <<a, k>> # <<t, m>>
    <3>1. k \in e2.marketBitmap[a] <=> k \in e.marketBitmap[a]
      BY <1>6, <1>8, <2>3
    <3> QED BY <1>9, <2>1, <2>3, <3>1 DEF Stored
  <2> QED BY <2>2, <2>3
<1> QED BY <1>4, <1>10, <1>11, <1>12, <1>13, <1>14 DEF SoundStep, Sound, r

-----------------------------------------------------------------------------
(* The ledger alone.                                                       *)

\* From v to v2 money moves in, out or inside the ledger, never out of the funding pool.
PoolKept(v, v2) ==
  /\ v2 \in VaultState
  /\ Summed(v) => Summed(v2)
  /\ v2.balances[FUNDING_POOL] >= v.balances[FUNDING_POOL]

\* Such moves compose,
LEMMA PoolKeptTwice ==
  ASSUME NEW v \in VaultState, NEW v2, NEW v3, PoolKept(v, v2), PoolKept(v2, v3)
  PROVE  PoolKept(v, v3)
<1>1. v.balances[FUNDING_POOL] \in Int /\ v2.balances[FUNDING_POOL] \in Int
      /\ v3.balances[FUNDING_POOL] \in Int
  BY ProtocolAccounts DEF PoolKept, VaultState
<1> QED BY <1>1 DEF PoolKept

\* and keep sound books sound.
LEMMA SoundKept ==
  ASSUME NEW v \in VaultState, NEW e \in EngineState, NEW v2, PoolKept(v, v2), Sound(v, e)
  PROVE  Sound(v2, e)
<1>1. PICK b \in Int, b2 \in Int :
        b = v.balances[FUNDING_POOL] /\ b2 = v2.balances[FUNDING_POOL] /\ b2 >= b
  BY ProtocolAccounts DEF PoolKept, VaultState
<1>2. b2 * PRECISION >= b * PRECISION /\ b * PRECISION \in Int /\ b2 * PRECISION \in Int
  BY <1>1, ScalesPositive
<1>3. pendingFunding(e) \in Int
  BY EngineTables
<1>4. pool(v2, e) >= 0
  BY <1>1, <1>2, <1>3 DEF Sound, pool
<1> QED BY <1>4 DEF Sound, PoolKept

\* A transfer between accounts other than the pool is such a move, and so is one that pays
\* the pool.
LEMMA TransferKeepsPool ==
  ASSUME NEW v \in VaultState, NEW a \in Accounts, NEW b \in Accounts, NEW x \in Int,
         a # FUNDING_POOL, b = FUNDING_POOL => x >= 0
  PROVE  PoolKept(v, transferInternal(v, a, b, x))
<1> DEFINE u == transferInternal(v, a, b, x)
<1>1. FUNDING_POOL \in Accounts /\ v.balances[FUNDING_POOL] \in Int
  BY ProtocolAccounts DEF VaultState
<1>2. CASE a = b
  <2>1. u = v
    BY <1>2 DEF transferInternal
  <2> QED BY <1>1, <2>1 DEF PoolKept
<1>3. CASE a # b
  <2>1. /\ u \in VaultState
        /\ Summed(v) => Summed(u)
        /\ u.balances[b] = v.balances[b] + x
        /\ \A c \in Accounts \ {a, b} : u.balances[c] = v.balances[c]
    BY <1>3, TransferPays
  <2> HIDE DEF u
  <2>2. u.balances[FUNDING_POOL] >= v.balances[FUNDING_POOL]
    BY <1>1, <2>1
  <2> QED BY <2>1, <2>2 DEF PoolKept, u
<1> QED BY <1>2, <1>3

\* A deposit keeps the pool, whoever it credits,
LEMMA CreditKeepsPool ==
  ASSUME NEW v \in VaultState, NEW a \in Accounts, NEW n \in Nat
  PROVE  PoolKept(v, credit(v, a, n))
<1> DEFINE u == credit(v, a, n)
<1>1. /\ u \in VaultState
      /\ u.balances = [v.balances EXCEPT ![a] = v.balances[a] + toInternal(n)]
      /\ Summed(v) => Summed(u)
  BY CreditSummed
<1> HIDE DEF u
<1>2. PICK x \in Nat : x = toInternal(n)
  BY ToInternalNat
<1>3. v.balances \in [Accounts -> Int]
  BY DEF VaultState
<1>4. u.balances[FUNDING_POOL] >= v.balances[FUNDING_POOL]
  BY <1>1, <1>2, <1>3, ProtocolAccounts
<1> QED BY <1>1, <1>4 DEF PoolKept, u

\* and so does a payout from any other account.
LEMMA DebitKeepsPool ==
  ASSUME NEW v \in VaultState, NEW a \in Accounts, a # FUNDING_POOL, NEW n \in Nat,
         n <= v.custody
  PROVE  PoolKept(v, debit(v, a, n))
<1> DEFINE u == debit(v, a, n)
<1>1. /\ u \in VaultState
      /\ u.balances = [v.balances EXCEPT ![a] = v.balances[a] - toInternal(n)]
      /\ Summed(v) => Summed(u)
  BY DebitSummed
<1> HIDE DEF u
<1>2. v.balances \in [Accounts -> Int]
  BY DEF VaultState
<1>3. u.balances[FUNDING_POOL] >= v.balances[FUNDING_POOL]
  BY <1>1, <1>2, ProtocolAccounts
<1> QED BY <1>1, <1>3 DEF PoolKept, u

-----------------------------------------------------------------------------
(* Marks and funding.                                                      *)

\* e2 has e's positions, cost basis and funding indices.
SameExposure(e, e2) ==
  /\ e2 \in EngineState
  /\ e2.positions = e.positions
  /\ e2.marketBitmap = e.marketBitmap
  /\ e2.netCostBasis = e.netCostBasis
  /\ \A m \in Markets : e2.funding[m].longIndex = e.funding[m].longIndex
                        /\ e2.funding[m].shortIndex = e.funding[m].shortIndex

\* recordMark touches no exposure.
LEMMA RecordMarkExposure ==
  ASSUME NEW e \in EngineState, NEW m \in Markets, NEW price \in Int, NEW t \in Int
  PROVE  SameExposure(e, recordMark(e, m, price, t))
<1> DEFINE e2 == recordMark(e, m, price, t)
<1>1. e2 \in EngineState
  BY RecordMarkType DEF Untraded
<1>2. CASE e.marks[m].lastPrice = price /\ e.marks[m].lastTs = t
  <2>1. e2 = e
    BY <1>2 DEF recordMark
  <2> QED BY <2>1 DEF SameExposure
<1>3. CASE ~(e.marks[m].lastPrice = price /\ e.marks[m].lastTs = t)
  <2>1. PICK st, b :
          e2 = [e EXCEPT !.marks[m] = st, !.funding[m].lastUpdate = IF b /\ @ = 0 THEN t ELSE @]
    BY <1>3 DEF recordMark
  <2> HIDE DEF e2
  <2>2. /\ e2.positions = e.positions
        /\ e2.marketBitmap = e.marketBitmap
        /\ e2.netCostBasis = e.netCostBasis
    BY <2>1 DEF EngineState
  <2>3. PICK y : e2.funding = [e.funding EXCEPT ![m] = [e.funding[m] EXCEPT !.lastUpdate = y]]
    BY <2>1 DEF EngineState
  <2>4. e.funding \in [Markets -> FundingRecord]
    BY MarkFields
  <2>5. \A k \in Markets : e2.funding[k].longIndex = e.funding[k].longIndex
                           /\ e2.funding[k].shortIndex = e.funding[k].shortIndex
    BY <2>3, <2>4 DEF FundingRecord
  <2> QED BY <1>1, <2>2, <2>5 DEF SameExposure, e2
<1> QED BY <1>2, <1>3

\* The same exposure is owed the same funding and has the same books.
LEMMA SoundExposure ==
  ASSUME NEW v \in VaultState, NEW e \in EngineState, NEW e2, SameExposure(e, e2), Sound(v, e)
  PROVE  e2 \in EngineState /\ Sound(v, e2) /\ \A k \in Markets : netSize(e2, k) = netSize(e, k)
<1>1. e2 \in EngineState /\ e2.positions = e.positions /\ e2.marketBitmap = e.marketBitmap
      /\ e2.netCostBasis = e.netCostBasis
  BY DEF SameExposure
<1>2. \A m \in Markets : \A b : sideIndex(e2, m, b) = sideIndex(e, m, b)
  BY DEF SameExposure, sideIndex
<1>3. \A a \in Accounts, m \in Markets : fundingOwed(e2, a, m) = fundingOwed(e, a, m)
  BY <1>1, <1>2 DEF fundingOwed
<1>4. pendingFunding(e2) = pendingFunding(e)
  <2>1. owedTable(e2) = owedTable(e)
    BY <1>3 DEF owedTable
  <2> QED BY <1>1, <2>1, EngineTables
<1>5. basisOf(e2) = basisOf(e)
  BY <1>1 DEF basisOf, basisTable
<1>6. PositionsSound(e2)
  BY <1>1 DEF Sound, PositionsSound, Stored
<1>7. \A k \in Markets : netSize(e2, k) = netSize(e, k)
  BY <1>1 DEF netSize
<1> QED BY <1>1, <1>4, <1>5, <1>6, <1>7 DEF Sound, pool

\* Adding a multiple of another table's rows to one column.
LEMMA TableColumn ==
  ASSUME NEW f \in Table, NEW g \in Table, NEW m \in Markets, NEW d \in Int,
         NEW s \in [Accounts -> Int],
         \A a \in Accounts, k \in Markets :
           g[a][k] = f[a][k] + (IF k = m THEN d * s[a] ELSE 0)
  PROVE  tableSum(g) = tableSum(f) + d * SumFunction(s)
<1> DEFINE F == [a \in Accounts |-> SumFunction(f[a])]
           G == [a \in Accounts |-> SumFunction(g[a])]
           D == [a \in Accounts |-> d * s[a]]
<1>1. F \in [Accounts -> Int] /\ G \in [Accounts -> Int]
  BY TableSum
<1>2. \A a \in Accounts : d * s[a] \in Int
  OBVIOUS
<1>3. ASSUME NEW a \in Accounts PROVE G[a] = F[a] + D[a]
  <2>1. PICK p \in [Markets -> Int], q \in [Markets -> Int], x \in Int :
          p = f[a] /\ q = g[a] /\ x = d * s[a]
    BY <1>2 DEF Table
  <2>2. (\A k \in Markets : p[k] \in Int /\ q[k] \in Int) /\ (\A k \in Markets \ {m} : p[k] = q[k])
        /\ q[m] = p[m] + x
    BY <2>1
  <2>3. SumFunctionOnSet(q, Markets) = SumFunctionOnSet(p, Markets) - p[m] + q[m]
    BY <2>2, FiniteAccounts, SumChange
  <2>4. SumFunction(q) = SumFunction(p) + x
    BY <2>2, <2>3, MarketSum
  <2> QED BY <2>1, <2>4
<1> HIDE DEF F, G
<1>4. SumFunctionOnSet(G, Accounts) = SumFunctionOnSet(F, Accounts) + SumFunctionOnSet(D, Accounts)
  <2>1. \A a \in Accounts : F[a] \in Int /\ D[a] \in Int /\ G[a] = F[a] + D[a]
    BY <1>1, <1>2, <1>3
  <2> HIDE DEF D
  <2> QED BY <2>1, FiniteAccounts, SumAdd
<1>5. SumFunctionOnSet(D, Accounts) = d * SumFunctionOnSet(s, Accounts)
  <2>1. \A a \in Accounts : s[a] \in Int /\ D[a] = d * s[a]
    OBVIOUS
  <2> HIDE DEF D
  <2> QED BY <2>1, FiniteAccounts, SumScale
<1>6. SumFunction(G) = SumFunction(F) + d * SumFunction(s)
  BY <1>1, <1>4, <1>5, AccountSum
<1> QED BY <1>6 DEF tableSum, F, G

\* updateFunding moves the two funding indices of one market by opposite amounts, and no
\* position.
LEMMA FundingMovesBoth ==
  ASSUME NEW e \in EngineState, NEW m \in Markets, NEW index \in Nat, NEW t \in Int,
         twap(e.marks[m], t) > 0 => index > 0
  PROVE  LET e2 == updateFunding(e, m, index, t)
         IN  /\ e2 \in EngineState
             /\ e2.positions = e.positions
             /\ e2.marketBitmap = e.marketBitmap
             /\ e2.netCostBasis = e.netCostBasis
             /\ \E d \in Int : \A k \in Markets :
                  /\ e2.funding[k].longIndex = e.funding[k].longIndex + (IF k = m THEN d ELSE 0)
                  /\ e2.funding[k].shortIndex = e.funding[k].shortIndex - (IF k = m THEN d ELSE 0)
<1> DEFINE mark    == twap(e.marks[m], t)
           premium == IF mark > 0 THEN divPrecision(mark - index, index) ELSE 0
           fd      == updateFromPremium(m, e.funding[m], premium, t)
           e2      == updateFunding(e, m, index, t)
<1>1. e2 \in EngineState
  BY UpdateFundingType DEF Untraded
<1>2. mark \in Int
  BY MarkFields, TwapInt
<1>3. premium \in Int
  <2>1. CASE mark > 0
    <3>1. index \in Nat \ {0} /\ mark - index \in Int
      BY <1>2, <2>1
    <3>2. divPrecision(mark - index, index) \in Int
      BY <3>1, DivPrecisionInt
    <3> QED BY <2>1, <3>2
  <2>2. CASE ~(mark > 0)
    BY <2>2
  <2> QED BY <2>1, <2>2
<1>4. PICK st : e2 = [e EXCEPT !.marks[m] = st, !.funding[m] = fd]
  BY DEF updateFunding
<1> HIDE DEF e2, premium
<1>5. e.funding \in [Markets -> FundingRecord] /\ e.funding[m] \in FundingRecord
  BY MarkFields
<1>6. PICK d \in Int : /\ fd.longIndex = e.funding[m].longIndex + d
                       /\ fd.shortIndex = e.funding[m].shortIndex - d
  BY <1>3, <1>5, UpdateFromPremiumType
<1> HIDE DEF fd
<1>7. /\ e2.positions = e.positions
      /\ e2.marketBitmap = e.marketBitmap
      /\ e2.netCostBasis = e.netCostBasis
      /\ e2.funding = [e.funding EXCEPT ![m] = fd]
  BY <1>4 DEF EngineState
<1>8. \A k \in Markets :
        /\ e2.funding[k].longIndex = e.funding[k].longIndex + (IF k = m THEN d ELSE 0)
        /\ e2.funding[k].shortIndex = e.funding[k].shortIndex - (IF k = m THEN d ELSE 0)
  <2> TAKE k \in Markets
  <2>1. e.funding[k].longIndex \in Int /\ e.funding[k].shortIndex \in Int
    BY <1>5 DEF FundingRecord
  <2>2. e2.funding[k] = IF k = m THEN fd ELSE e.funding[k]
    BY <1>5, <1>7
  <2> QED BY <1>6, <2>1, <2>2
<1> QED BY <1>1, <1>7, <1>8 DEF e2

\* What each position owes moves with its signed size.
LEMMA OwedMoves ==
  ASSUME NEW e \in EngineState, NEW e2 \in EngineState, NEW a \in Accounts, NEW k \in Markets,
         NEW d \in Int,
         e2.positions[a][k] = e.positions[a][k],
         e2.funding[k].longIndex = e.funding[k].longIndex + d,
         e2.funding[k].shortIndex = e.funding[k].shortIndex - d
  PROVE  fundingOwed(e2, a, k) = fundingOwed(e, a, k) + d * e.positions[a][k].size
<1>1. PICK s \in Int, li \in Int : s = e.positions[a][k].size
                                   /\ li = e.positions[a][k].lastFundingIndex
  BY EngineFields
<1>2. PICK x \in Int, y \in Int : x = e.funding[k].longIndex /\ y = e.funding[k].shortIndex
  BY MarkFields DEF FundingRecord
<1>3. CASE s > 0
  <2>1. fundingOwed(e, a, k) = s * (x - li) /\ fundingOwed(e2, a, k) = s * (x + d - li)
    BY <1>1, <1>2, <1>3 DEF fundingOwed, sideIndex, abs
  <2>2. s * (x + d - li) = s * (x - li) + d * s
    OBVIOUS
  <2> QED BY <1>1, <2>1, <2>2
<1>4. CASE ~(s > 0)
  <2>1. abs(s) = -s
    BY <1>4 DEF abs
  <2>2. fundingOwed(e, a, k) = (-s) * (y - li) /\ fundingOwed(e2, a, k) = (-s) * (y - d - li)
    BY <1>1, <1>2, <1>4, <2>1 DEF fundingOwed, sideIndex
  <2>3. (-s) * (y - d - li) = (-s) * (y - li) + d * s
    OBVIOUS
  <2> QED BY <1>1, <2>2, <2>3
<1> QED BY <1>3, <1>4

\* In a market whose longs and shorts are equal, funding leaves what the pool is owed alone.
LEMMA FundingSound ==
  ASSUME NEW v \in VaultState, NEW e \in EngineState, NEW m \in Markets, NEW index \in Nat,
         NEW t \in Int, twap(e.marks[m], t) > 0 => index > 0,
         Sound(v, e), netSize(e, m) = 0
  PROVE  /\ updateFunding(e, m, index, t) \in EngineState
         /\ Sound(v, updateFunding(e, m, index, t))
         /\ \A k \in Markets : netSize(updateFunding(e, m, index, t), k) = netSize(e, k)
<1> DEFINE e2 == updateFunding(e, m, index, t)
<1>1. /\ e2 \in EngineState
      /\ e2.positions = e.positions
      /\ e2.marketBitmap = e.marketBitmap
      /\ e2.netCostBasis = e.netCostBasis
      /\ \E d \in Int : \A k \in Markets :
           /\ e2.funding[k].longIndex = e.funding[k].longIndex + (IF k = m THEN d ELSE 0)
           /\ e2.funding[k].shortIndex = e.funding[k].shortIndex - (IF k = m THEN d ELSE 0)
  BY FundingMovesBoth
<1> HIDE DEF e2
<1>2. PICK d \in Int : \A k \in Markets :
           /\ e2.funding[k].longIndex = e.funding[k].longIndex + (IF k = m THEN d ELSE 0)
           /\ e2.funding[k].shortIndex = e.funding[k].shortIndex - (IF k = m THEN d ELSE 0)
  BY <1>1
<1> DEFINE s == [a \in Accounts |-> e.positions[a][m].size]
<1>3. s \in [Accounts -> Int] /\ SumFunction(s) = 0
  BY EngineFields DEF netSize
<1>4. \A a \in Accounts, k \in Markets :
        owedTable(e2)[a][k] = owedTable(e)[a][k] + (IF k = m THEN d * s[a] ELSE 0)
  <2> TAKE a \in Accounts, k \in Markets
  <2>1. PICK x \in Int : x = (IF k = m THEN d ELSE 0)
    OBVIOUS
  <2>2. fundingOwed(e2, a, k) = fundingOwed(e, a, k) + x * e.positions[a][k].size
    BY <1>1, <1>2, <2>1, OwedMoves
  <2>3. e.positions[a][k].size \in Int /\ fundingOwed(e, a, k) \in Int
    BY EngineFields, EngineTables
  <2>4. x * e.positions[a][k].size = IF k = m THEN d * s[a] ELSE 0
    BY <2>1, <2>3
  <2> QED BY <2>2, <2>4 DEF owedTable
<1> HIDE DEF s
<1>5. tableSum(owedTable(e2)) = tableSum(owedTable(e)) + d * SumFunction(s)
  <2>1. owedTable(e) \in Table /\ owedTable(e2) \in Table
    BY <1>1, EngineTables
  <2> QED BY <1>3, <1>4, <2>1, TableColumn
<1>6. pendingFunding(e2) = pendingFunding(e)
  <2>1. d * SumFunction(s) = 0
    BY <1>3
  <2>2. pendingFunding(e2) = tableSum(owedTable(e2)) /\ pendingFunding(e) = tableSum(owedTable(e))
        /\ pendingFunding(e) \in Int
    BY <1>1, EngineTables
  <2> QED BY <1>5, <2>1, <2>2
<1>7. basisOf(e2) = basisOf(e)
  BY <1>1 DEF basisOf, basisTable
<1>8. PositionsSound(e2)
  BY <1>1 DEF Sound, PositionsSound, Stored
<1>9. \A k \in Markets : netSize(e2, k) = netSize(e, k)
  BY <1>1 DEF netSize
<1>10. Sound(v, e2)
  BY <1>1, <1>6, <1>7, <1>8 DEF Sound, pool
<1> QED BY <1>1, <1>9, <1>10 DEF e2

-----------------------------------------------------------------------------
(* Two sides.                                                              *)

\* The books of the exchange are sound and every market's longs and shorts are equal.
Backed ==
  /\ Sound(vault, engine)
  /\ \A m \in Markets : netSize(engine, m) = 0

\* Sound books with the signed sizes of e.
SoundWhole(v2, e2, e) ==
  /\ v2 \in VaultState /\ e2 \in EngineState
  /\ Sound(v2, e2)
  /\ \A k \in Markets : netSize(e2, k) = netSize(e, k)

\* Two opposite trades cancel out.
LEMMA SidesCancel ==
  ASSUME NEW e \in EngineState, NEW v1, NEW e1, NEW v2, NEW e2, NEW m \in Markets,
         NEW d \in Int, SoundStep(v1, e1, e, m, d), SoundStep(v2, e2, e1, m, -d)
  PROVE  SoundWhole(v2, e2, e)
<1>1. ASSUME NEW k \in Markets PROVE netSize(e2, k) = netSize(e, k)
  <2>1. netSize(e, k) \in Int
    BY EngineTables
  <2>2. netSize(e1, k) = netSize(e, k) + (IF k = m THEN d ELSE 0)
        /\ netSize(e2, k) = netSize(e1, k) + (IF k = m THEN -d ELSE 0)
    BY DEF SoundStep
  <2> QED BY <2>1, <2>2
<1> QED BY <1>1 DEF SoundStep, SoundWhole

\* One side of a fill.
LEMMA ApplyFillSound ==
  ASSUME NEW v \in VaultState, NEW e \in EngineState, Sound(v, e), NEW f \in Fill, f.size > 0,
         NEW t \in Holders, NEW long \in BOOLEAN, NEW ro,
         NEW n, n = mulPrecision(f.size, f.price), now \in Int
  PROVE  LET r == applyFill(v, e, f, t, long, ro, n)
         IN  SoundStep(r.vault, r.engine, e, f.market, IF long THEN f.size ELSE -f.size)
<1> DEFINE marked == recordMark(e, f.market, f.price, now)
           delta  == IF long THEN f.size ELSE -f.size
           act    == f.market \in activeMarkets
           side   == trade(v, marked, t, f.market, delta, f.price, n, ro, TRUE, act)
           r      == applyFill(v, e, f, t, long, ro, n)
<1>1. f.market \in Markets /\ f.size \in Nat /\ f.price \in Nat /\ f.price \in Int
  BY DEF Fill
<1>2. SameExposure(e, marked)
  BY <1>1, RecordMarkExposure
<1>3. delta \in Int /\ delta # 0
  BY <1>1
<1>4. \E A, B, C, D, E : side = [vault |-> A, engine |-> B, increased |-> C, realized |-> D,
                                  reverted |-> E]
  BY DEF trade
<1>5. \E F : r = [side EXCEPT !.reverted = F]
  BY DEF applyFill, limited
<1> HIDE DEF side, r
<1>6. r.vault = side.vault /\ r.engine = side.engine
  BY <1>4, <1>5
<1>7. abs(delta) = f.size
  BY <1>1 DEF abs
<1> HIDE DEF marked, delta, act
<1>8. marked \in EngineState /\ Sound(v, marked)
      /\ \A k \in Markets : netSize(marked, k) = netSize(e, k)
  BY <1>2, SoundExposure
<1>9. SoundStep(side.vault, side.engine, marked, f.market, delta)
  <2>1. PICK m \in Markets, price \in Nat : m = f.market /\ price = f.price
    BY <1>1
  <2>2. n = mulPrecision(abs(delta), price)
    BY <1>7, <2>1
  <2>3. side = trade(v, marked, t, m, delta, price, n, ro, TRUE, act)
    BY <2>1 DEF side
  <2>4. LET s == trade(v, marked, t, m, delta, price, n, ro, TRUE, act)
        IN  SoundStep(s.vault, s.engine, marked, m, delta)
    BY <1>3, <1>8, <2>2, TradeSound
  <2> QED BY <2>1, <2>3, <2>4
<1>10. SoundStep(side.vault, side.engine, e, f.market, delta)
  BY <1>8, <1>9 DEF SoundStep
<1> QED BY <1>6, <1>10 DEF delta, r

\* liquidationTransfer and adlTransfer keep the books sound and every market balanced.
LEMMA TransferPositionSound ==
  ASSUME NEW from \in Holders, NEW to \in Holders, NEW m \in Markets, NEW size \in Nat,
         size > 0, NEW price \in Nat, NEW ro,
         vault \in VaultState, engine \in EngineState, Sound(vault, engine)
  PROVE  LET r == transferPosition(from, to, m, size, price, ro)
         IN  SoundWhole(r.vault, r.engine, engine)
<1> DEFINE delta  == IF engine.positions[from][m].size > 0 THEN -size ELSE size
           n      == mulPrecision(size, price)
           closed == trade(vault, engine, from, m, delta, price, n, TRUE, FALSE, TRUE)
           taken  == trade(closed.vault, closed.engine, to, m, -delta, price, n,
                           ro, FALSE, TRUE)
           r      == transferPosition(from, to, m, size, price, ro)
<1>1. r.vault = taken.vault /\ r.engine = taken.engine
  BY DEF transferPosition
<1>2. delta \in Int /\ delta # 0 /\ -delta \in Int /\ -delta # 0
  OBVIOUS
<1>3. abs(delta) = size /\ abs(-delta) = size
  BY DEF abs
<1>4. n = mulPrecision(abs(delta), price) /\ n = mulPrecision(abs(-delta), price)
  BY <1>3
<1> HIDE DEF delta, n, r
<1>5. SoundStep(closed.vault, closed.engine, engine, m, delta)
  BY <1>2, <1>4, TradeSound
<1> HIDE DEF closed
<1>6. closed.vault \in VaultState /\ closed.engine \in EngineState
      /\ Sound(closed.vault, closed.engine)
  BY <1>5 DEF SoundStep
<1>7. SoundStep(taken.vault, taken.engine, closed.engine, m, -delta)
  BY <1>2, <1>4, <1>6, TradeSound
<1> HIDE DEF taken
<1>8. SoundWhole(taken.vault, taken.engine, engine)
  BY <1>2, <1>5, <1>7, SidesCancel
<1> QED BY <1>1, <1>8 DEF r

-----------------------------------------------------------------------------
(* One lemma per transaction.                                              *)

\* The traders and the fund are accounts other than the pool.
LEMMA HoldersPay ==
  /\ Holders \subseteq Accounts /\ FUNDING_POOL \notin Holders
  /\ Traders \subseteq Holders /\ INSURANCE \in Holders
  /\ FEE_ROUTER \in Accounts /\ FEE_ROUTER # FUNDING_POOL
  BY AccountsDistinct DEF Holders, Accounts

\* A transaction that moves only money, and none out of the pool.
LEMMA LedgerStep ==
  ASSUME CoreInv, Backed, PoolKept(vault, vault'), engine' = engine
  PROVE  Backed'
<1>1. vault \in VaultState /\ engine \in EngineState
  BY DEF CoreInv, TypeOK
<1>2. Sound(vault', engine)
  BY <1>1, SoundKept DEF Backed
<1> QED BY <1>2 DEF Backed

\* A whole fill and money moved inside the ledger.
LEMMA WholeStep ==
  ASSUME CoreInv, Backed, NEW v, SoundWhole(v, engine', engine), PoolKept(v, vault')
  PROVE  Backed'
<1>1. v \in VaultState /\ engine' \in EngineState /\ Sound(v, engine')
      /\ \A k \in Markets : netSize(engine', k) = netSize(engine, k)
  BY DEF SoundWhole
<1>2. Sound(vault', engine')
  BY <1>1, SoundKept
<1> QED BY <1>1, <1>2 DEF Backed

\* Deposits, Stake and Donate included, credit an account.
LEMMA CreditStep ==
  ASSUME CoreInv, Backed, NEW a \in Accounts, NEW n \in Nat,
         vault' = credit(vault, a, n), engine' = engine
  PROVE  Backed'
<1>1. PoolKept(vault, vault')
  BY CreditKeepsPool DEF CoreInv, TypeOK
<1> QED BY <1>1, LedgerStep

\* Withdraw, WithdrawUnstaked and the claims debit one other than the pool.
LEMMA PayoutStep ==
  ASSUME CoreInv, Backed, NEW a \in Accounts, a # FUNDING_POOL, NEW n \in Nat,
         mayWithdraw(vault, a, n), vault' = debit(vault, a, n), engine' = engine
  PROVE  Backed'
<1>1. n <= vault.custody
  BY LedgerInt DEF CoreInv, TypeOK, mayWithdraw
<1>2. PoolKept(vault, vault')
  BY <1>1, DebitKeepsPool DEF CoreInv, TypeOK
<1> QED BY <1>2, LedgerStep

\* A vault whose balances and ledger total stay.
LEMMA BalancesKept ==
  ASSUME CoreInv, vault' \in VaultState, vault'.balances = vault.balances,
         vault'.totalLedger = vault.totalLedger
  PROVE  PoolKept(vault, vault')
<1>1. vault.balances[FUNDING_POOL] \in Int
  BY ProtocolAccounts DEF CoreInv, TypeOK, VaultState
<1> QED BY <1>1 DEF PoolKept, Summed

\* chargeFill moves fees between the two sides, the router and the fund.
LEMMA ChargeFillKeepsPool ==
  ASSUME NEW v \in VaultState, NEW f \in FeeState, NEW m \in Markets,
         NEW a \in Holders, NEW b \in Holders, NEW n \in Int, NEW ra, NEW rb
  PROVE  PoolKept(v, chargeFill(v, f, m, a, b, n, ra, rb).vault)
<1> DEFINE q       == quote(f, m, a, b, n)
           charged == transferInternal(v, b, FEE_ROUTER, q.takerFee)
           paid    == IF q.makerFee > 0
                      THEN transferInternal(charged, a, FEE_ROUTER, q.makerFee)
                      ELSE transferInternal(charged, FEE_ROUTER, a, -q.makerFee)
           net     == q.takerFee + q.makerFee
           share   == IF q.makerFee > 0
                      THEN insuranceShare(f, q.makerFee) + insuranceShare(f, q.takerFee)
                      ELSE insuranceShare(f, net)
           c       == chargeFill(v, f, m, a, b, n, ra, rb)
<1>1. c.vault = transferInternal(paid, FEE_ROUTER, INSURANCE, share)
  BY DEF chargeFill
<1>2. a \in Accounts /\ b \in Accounts /\ a # FUNDING_POOL /\ b # FUNDING_POOL
      /\ INSURANCE \in Accounts /\ INSURANCE # FUNDING_POOL
  BY HoldersPay
<1>3. q.takerFee \in Int /\ q.makerFee \in Int
  BY <1>2, QuoteInt
<1> HIDE DEF q, c
<1>4. net \in Int /\ -q.makerFee \in Int
  BY <1>3
<1>5. share \in Int
  BY <1>3, <1>4, InsuranceShareInt
<1>6. PoolKept(v, charged)
  BY <1>2, <1>3, TransferKeepsPool, HoldersPay
<1> HIDE DEF charged, share, net
<1>7. charged \in VaultState
  BY <1>6 DEF PoolKept
<1>8. PoolKept(charged, paid)
  <2>1. /\ PoolKept(charged, transferInternal(charged, a, FEE_ROUTER, q.makerFee))
        /\ PoolKept(charged, transferInternal(charged, FEE_ROUTER, a, -q.makerFee))
    BY <1>2, <1>3, <1>4, <1>7, TransferKeepsPool, HoldersPay
  <2> QED BY <2>1
<1> HIDE DEF paid
<1>9. PoolKept(paid, c.vault)
  <2>1. paid \in VaultState
    BY <1>8 DEF PoolKept
  <2> QED BY <1>1, <1>2, <1>5, <2>1, TransferKeepsPool, HoldersPay
<1>10. PoolKept(v, paid)
  BY <1>6, <1>8, PoolKeptTwice
<1> QED BY <1>9, <1>10, PoolKeptTwice DEF c

\* A fill.
LEMMA SettleFillBacked ==
  ASSUME CoreInv, Backed, NEW f \in Fills, SettleFill(f)
  PROVE  Backed'
<1> DEFINE n     == mulPrecision(f.size, f.price)
           maker == applyFill(vault, engine, f, f.maker, f.makerLong, f.makerReduceOnly, n)
           taker == applyFill(maker.vault, maker.engine, f, f.taker, ~f.makerLong,
                              f.takerReduceOnly, n)
           charged == chargeFill(taker.vault, feeRouter, f.market, f.maker, f.taker, n,
                                 f.makerReferrer, f.takerReferrer)
           d     == IF f.makerLong THEN f.size ELSE -f.size
<1>1. f.size > 0 /\ ChargeFees(f, n, maker, taker)
  BY DEF SettleFill, ApplyTaker, validFill
<1>2. /\ f \in Fill
      /\ f.size \in Int /\ f.price \in Int /\ f.market \in Markets
      /\ f.makerLong \in BOOLEAN /\ (~f.makerLong) \in BOOLEAN
      /\ f.maker \in Holders /\ f.taker \in Holders
  BY Inputs DEF Fill, Holders
<1>3. n \in Int /\ d \in Int
  <2>1. n \in Int
    BY <1>2, FixedPointInt
  <2> HIDE DEF n
  <2> QED BY <1>2, <2>1
<1>4. n = mulPrecision(f.size, f.price)
  OBVIOUS
<1> HIDE DEF n
<1>5. /\ vault \in VaultState /\ engine \in EngineState /\ feeRouter \in FeeState /\ now \in Int
      /\ Sound(vault, engine)
  BY DEF CoreInv, TypeOK, Backed
<1>6. SoundStep(maker.vault, maker.engine, engine, f.market, d)
  BY <1>1, <1>2, <1>4, <1>5, ApplyFillSound
<1> HIDE DEF maker
<1>7. maker.vault \in VaultState /\ maker.engine \in EngineState
      /\ Sound(maker.vault, maker.engine)
  BY <1>6 DEF SoundStep
<1>8. SoundStep(taker.vault, taker.engine, maker.engine, f.market,
                IF ~f.makerLong THEN f.size ELSE -f.size)
  BY <1>1, <1>2, <1>4, <1>5, <1>7, ApplyFillSound
<1> HIDE DEF taker
<1>9. (IF ~f.makerLong THEN f.size ELSE -f.size) = -d
  BY <1>2
<1> HIDE DEF d
<1>10. SoundStep(taker.vault, taker.engine, maker.engine, f.market, -d)
  BY <1>8, <1>9
<1>11. SoundWhole(taker.vault, taker.engine, engine)
  BY <1>2, <1>3, <1>5, <1>6, <1>10, SidesCancel
<1>12. PoolKept(taker.vault, charged.vault)
  <2>1. taker.vault \in VaultState
    BY <1>11 DEF SoundWhole
  <2> QED BY <1>2, <1>3, <1>5, <2>1, ChargeFillKeepsPool
<1>13. CheckMargins(f, n, maker, taker, charged)
  BY <1>1 DEF ChargeFees
<1> HIDE DEF charged
<1>14. vault' = charged.vault /\ engine' = taker.engine
  BY <1>13 DEF CheckMargins, Settle
<1> QED BY <1>11, <1>12, <1>14, WholeStep

\* The penalty of a liquidation goes to the caller, the router and the fund.
LEMMA PenaltyKeepsPool ==
  ASSUME NEW v \in VaultState, feeRouter \in FeeState, NEW m \in Markets, NEW t \in Holders,
         NEW l \in Holders, NEW size \in Int, NEW price \in Int
  PROVE  PoolKept(v, chargePenalty(v, m, t, l, size, price).vault)
<1> DEFINE reward   == rewardOn(m, size, price)
           rest     == penaltyOn(m, size, price) - reward
           rewarded == transferInternal(v, t, l, reward)
           paid     == transferInternal(rewarded, t, FEE_ROUTER, rest)
           share    == mulDiv(rest, feeRouter.liquidationInsuranceBps, BPS_DENOMINATOR)
<1>1. notional(size, price) \in Int
  BY FixedPointInt DEF notional
<1>2. MarketParams[m].liquidationFeeBps \in Int /\ maxRewardBps \in Int
  BY EngineConfig, Deployment DEF MarketConfig
<1>3. penaltyOn(m, size, price) \in Int
  BY <1>1, <1>2, FixedPointInt DEF penaltyOn
<1>4. applyBps(notional(size, price), maxRewardBps) \in Int
  BY <1>1, <1>2, FixedPointInt
<1>5. reward \in Int
  BY <1>3, <1>4, AbsMinMaxInt DEF rewardOn
<1>6. rest \in Int
  BY <1>3, <1>5
<1>7. chargePenalty(v, m, t, l, size, price).vault
        = transferInternal(paid, FEE_ROUTER, INSURANCE, share)
  BY DEF chargePenalty, accrueLiquidationFee
<1> HIDE DEF reward, rest
<1>8. share \in Int
  BY <1>6, InsuranceShareInt
<1>9. t \in Accounts /\ l \in Accounts /\ t # FUNDING_POOL /\ l # FUNDING_POOL
      /\ INSURANCE \in Accounts /\ INSURANCE # FUNDING_POOL
  BY HoldersPay
<1>10. PoolKept(v, rewarded)
  BY <1>5, <1>9, TransferKeepsPool
<1>11. rewarded \in VaultState
  BY <1>10 DEF PoolKept
<1> HIDE DEF rewarded, share
<1>12. PoolKept(rewarded, paid)
  BY <1>6, <1>9, <1>11, TransferKeepsPool, HoldersPay
<1>13. paid \in VaultState
  BY <1>12 DEF PoolKept
<1> HIDE DEF paid
<1>14. PoolKept(paid, transferInternal(paid, FEE_ROUTER, INSURANCE, share))
  BY <1>8, <1>9, <1>13, TransferKeepsPool, HoldersPay
<1>15. PoolKept(v, paid)
  BY <1>10, <1>12, PoolKeptTwice
<1>16. PoolKept(v, transferInternal(paid, FEE_ROUTER, INSURANCE, share))
  BY <1>14, <1>15, PoolKeptTwice
<1> QED BY <1>7, <1>16

\* What covers a deficit is never negative, so covering one never takes from the pool.
LEMMA CoverKeepsPool ==
  ASSUME NEW v \in VaultState, NEW i \in InsuranceState, NEW a \in Accounts
  PROVE  PoolKept(v, settleBadDebt(v, i, a).vault)
<1>1. v.balances[INSURANCE] \in Int /\ v.balances[a] \in Int /\ i.stakedBalance \in Nat
  BY ProtocolAccounts DEF VaultState, InsuranceState
<1>2. covered(v, i, a) \in Nat
  BY <1>1 DEF covered, owed, operatingBalance, min, max
<1>3. INSURANCE \in Accounts /\ INSURANCE # FUNDING_POOL
  BY HoldersPay
<1>4. PoolKept(v, transferInternal(v, INSURANCE, a, covered(v, i, a)))
  <2>1. PICK x \in Nat : x = covered(v, i, a)
    BY <1>2
  <2>2. PoolKept(v, transferInternal(v, INSURANCE, a, x))
    BY <1>3, TransferKeepsPool
  <2> QED BY <2>1, <2>2
<1> QED BY <1>4 DEF settleBadDebt

\* A liquidation.
LEMMA LiquidateBacked ==
  ASSUME CoreInv, Backed, NEW l \in Traders, NEW t \in Traders, NEW m \in Markets,
         NEW k \in MaxSizes, Liquidate(l, t, m, k)
  PROVE  Backed'
<1>1. PICK size \in 1..abs(engine.positions[t][m].size) :
        Settle(liquidation(l, t, m, size))
  BY DEF Liquidate, Conclude
<1> DEFINE moved   == transferPosition(t, INSURANCE, m, size, prices[m], FALSE)
           charged == chargePenalty(moved.vault, m, t, l, size, prices[m])
           deficit == moved.engine.marketBitmap[t] = {} /\ charged.vault.balances[t] < 0
           bad     == settleBadDebt(charged.vault, insurance, t)
<1>2. /\ vault \in VaultState /\ engine \in EngineState /\ feeRouter \in FeeState
      /\ insurance \in InsuranceState /\ prices[m] \in Nat /\ prices[m] \in Int
      /\ Sound(vault, engine)
  BY DEF CoreInv, TypeOK, Backed
<1>3. t \in Holders /\ l \in Holders /\ INSURANCE \in Holders /\ t \in Accounts
  BY HoldersPay
<1>4. size \in Nat /\ size > 0 /\ size \in Int
  <2>1. abs(engine.positions[t][m].size) \in Nat
    BY <1>2, <1>3, EngineFields, AbsNat
  <2> QED BY <2>1
<1>5. /\ vault' = IF deficit THEN bad.vault ELSE charged.vault
      /\ engine' = moved.engine
  <2>1. liquidation(l, t, m, size) = concluded(t, moved, charged, deficit)
    BY DEF liquidation, transferred, penalized
  <2> HIDE DEF moved, charged, deficit
  <2> QED BY <1>1, <2>1 DEF concluded, Settle
<1>6. SoundWhole(moved.vault, moved.engine, engine)
  BY <1>2, <1>3, <1>4, TransferPositionSound
<1> HIDE DEF moved
<1>7. moved.vault \in VaultState
  BY <1>6 DEF SoundWhole
<1>8. PoolKept(moved.vault, charged.vault)
  BY <1>2, <1>3, <1>4, <1>7, PenaltyKeepsPool
<1>9. charged.vault \in VaultState
  BY <1>8 DEF PoolKept
<1> HIDE DEF charged
<1>10. PoolKept(charged.vault, bad.vault)
  BY <1>2, <1>3, <1>9, CoverKeepsPool
<1> HIDE DEF deficit, bad
<1>11. PoolKept(moved.vault, vault')
  <2>1. PoolKept(moved.vault, bad.vault)
    BY <1>7, <1>8, <1>10, PoolKeptTwice
  <2> QED BY <1>5, <1>8, <2>1
<1> QED BY <1>5, <1>6, <1>11, WholeStep

\* An auto-deleveraging.
LEMMA AdlBacked ==
  ASSUME CoreInv, Backed, NEW t \in Traders, NEW m \in Markets, NEW k \in MaxSizes,
         Adl(t, m, k)
  PROVE  Backed'
<1>1. PICK size \in 1..abs(engine.positions[t][m].size) :
        LET moved == transferPosition(t, INSURANCE, m, size, prices[m], TRUE)
        IN  /\ \E haircut \in Int :
                 vault' = transferInternal(moved.vault, t, INSURANCE, haircut)
            /\ engine' = moved.engine
  BY Zenon DEF Adl
<1> DEFINE moved == transferPosition(t, INSURANCE, m, size, prices[m], TRUE)
<1>2. PICK haircut \in Int : vault' = transferInternal(moved.vault, t, INSURANCE, haircut)
  BY <1>1
<1>3. /\ vault \in VaultState /\ engine \in EngineState /\ prices[m] \in Nat
      /\ Sound(vault, engine)
  BY DEF CoreInv, TypeOK, Backed
<1>4. t \in Holders /\ INSURANCE \in Holders /\ t \in Accounts /\ INSURANCE \in Accounts
      /\ t # FUNDING_POOL /\ INSURANCE # FUNDING_POOL
  BY HoldersPay
<1>5. size \in Nat /\ size > 0
  <2>1. abs(engine.positions[t][m].size) \in Nat
    BY <1>3, <1>4, EngineFields, AbsNat
  <2> QED BY <2>1
<1>6. SoundWhole(moved.vault, moved.engine, engine)
  BY <1>3, <1>4, <1>5, TransferPositionSound
<1>7. moved.vault \in VaultState /\ engine' = moved.engine
  BY <1>1, <1>6 DEF SoundWhole
<1> HIDE DEF moved
<1>8. PoolKept(moved.vault, vault')
  BY <1>2, <1>4, <1>7, TransferKeepsPool
<1> QED BY <1>6, <1>7, <1>8, WholeStep

\* A funding update.
LEMMA UpdateFundingBacked ==
  ASSUME CoreInv, Backed, NEW m \in Markets, UpdateFunding(m)
  PROVE  Backed'
<1>1. /\ twap(engine.marks[m], now) > 0 => prices[m] > 0
      /\ engine' = updateFunding(engine, m, prices[m], now)
      /\ vault' = vault
  BY DEF UpdateFunding
<1>2. PICK index \in Nat, at \in Int : index = prices[m] /\ at = now
  BY DEF CoreInv, TypeOK
<1>3. /\ engine \in EngineState /\ vault \in VaultState
      /\ Sound(vault, engine) /\ netSize(engine, m) = 0
  BY DEF CoreInv, TypeOK, Backed
<1>4. /\ updateFunding(engine, m, index, at) \in EngineState
      /\ Sound(vault, updateFunding(engine, m, index, at))
      /\ \A k \in Markets : netSize(updateFunding(engine, m, index, at), k) = netSize(engine, k)
  BY <1>1, <1>2, <1>3, FundingSound
<1>5. engine' = updateFunding(engine, m, index, at)
  BY <1>1, <1>2
<1> QED BY <1>1, <1>4, <1>5 DEF Backed

\* The contracts as deployed.
LEMMA InitBacked ==
  ASSUME Init
  PROVE  Backed
<1>1. engine = initialEngine /\ vault = initialVault(InitialCaps[1], InitialCaps[2])
  BY DEF Init, StartFrom
<1>2. vault \in VaultState /\ engine \in EngineState
  BY InitCore DEF CoreInv, TypeOK
<1>3. /\ \A a \in Accounts, m \in Markets :
            engine.positions[a][m] = Flat /\ engine.marketBitmap[a] = {}
      /\ engine.netCostBasis = 0
      /\ vault.balances = [a \in Accounts |-> 0] /\ vault.totalLedger = 0
  BY <1>1 DEF initialEngine, initialVault
<1>4. \A a \in Accounts, m \in Markets : engine.positions[a][m].size = 0
        /\ engine.positions[a][m].openNotional = 0
  BY <1>3 DEF Flat
<1>5. PositionsSound(engine)
  BY <1>3, <1>4 DEF PositionsSound, Stored, SignedBasis
<1>6. ASSUME NEW f \in Table, \A a \in Accounts, m \in Markets : f[a][m] = 0
      PROVE  tableSum(f) = 0
  <2> DEFINE F == [a \in Accounts |-> SumFunction(f[a])]
  <2>1. ASSUME NEW a \in Accounts PROVE F[a] = 0
    <3>1. PICK p \in [Markets -> Int] : p = f[a]
      BY DEF Table
    <3>2. SumFunctionOnSet(p, Markets) = 0
      BY <1>6, <3>1, FiniteAccounts, SumZero
    <3> QED BY <3>1, <3>2, MarketSum
  <2>2. F \in [Accounts -> Int]
    BY TableSum
  <2> HIDE DEF F
  <2>3. SumFunctionOnSet(F, Accounts) = 0
    BY <2>1, FiniteAccounts, SumZero
  <2> QED BY <2>2, <2>3, AccountSum DEF tableSum, F
<1>7. basisOf(engine) = 0
  BY <1>2, <1>4, <1>6, EngineTables DEF basisOf, basisTable
<1>8. pendingFunding(engine) = 0
  <2>1. ASSUME NEW a \in Accounts, NEW m \in Markets PROVE fundingOwed(engine, a, m) = 0
    <3>1. PICK i \in Int, li \in Int :
            i = sideIndex(engine, m, engine.positions[a][m].size > 0)
            /\ li = engine.positions[a][m].lastFundingIndex
      BY <1>2, SideIndexInt, EngineFields
    <3>2. abs(engine.positions[a][m].size) = 0
      BY <1>4 DEF abs
    <3> QED BY <3>1, <3>2 DEF fundingOwed
  <2>2. \A a \in Accounts, m \in Markets : owedTable(engine)[a][m] = 0
    BY <2>1 DEF owedTable
  <2> QED BY <1>2, <1>6, <2>2, EngineTables
<1>9. ASSUME NEW f \in [Accounts -> Int], \A a \in Accounts : f[a] = 0
      PROVE  SumFunction(f) = 0
  BY <1>9, FiniteAccounts, SumZero, AccountSum
<1>10. \A m \in Markets : netSize(engine, m) = 0
  <2> TAKE m \in Markets
  <2> DEFINE s == [a \in Accounts |-> engine.positions[a][m].size]
  <2>1. s \in [Accounts -> Int] /\ \A a \in Accounts : s[a] = 0
    BY <1>4
  <2> HIDE DEF s
  <2>2. SumFunction(s) = 0
    BY <1>9, <2>1
  <2> QED BY <2>2 DEF netSize, s
<1>11. Summed(vault)
  <2>1. vault.balances \in [Accounts -> Int] /\ \A a \in Accounts : vault.balances[a] = 0
    BY <1>3
  <2>2. SumFunction(vault.balances) = 0
    BY <1>9, <2>1
  <2> QED BY <1>3, <2>2 DEF Summed
<1>12. pool(vault, engine) >= 0
  <2>1. vault.balances[FUNDING_POOL] * PRECISION = 0
    BY <1>3, ProtocolAccounts, ScalesPositive
  <2> QED BY <1>8, <2>1 DEF pool
<1> QED BY <1>3, <1>5, <1>7, <1>10, <1>11, <1>12 DEF Backed, Sound

\* Every step of the exchange keeps the books sound.
LEMMA NextBacked ==
  ASSUME CoreInv, Backed, [Next]_vars
  PROVE  Backed'
<1>1. ASSUME vault' = vault, engine' = engine PROVE Backed'
  BY <1>1 DEF Backed
<1>2. CASE UNCHANGED vars
  BY <1>1, <1>2 DEF vars
<1>3. ASSUME NEW a \in Accounts, NEW n \in Amounts, Deposit(a, n) PROVE Backed'
  <2>1. vault' = credit(vault, a, n) /\ engine' = engine /\ n \in Nat
    BY <1>3, Inputs DEF Deposit
  <2> QED BY <2>1, CreditStep
<1>4. CASE Banking
  <2>1. ASSUME NEW t \in Traders, NEW n \in Amounts, Withdraw(t, n) PROVE Backed'
    <3>1. mayWithdraw(vault, t, n) /\ vault' = debit(vault, t, n) /\ engine' = engine /\ n \in Nat
      BY <2>1, Inputs DEF Withdraw
    <3>2. t \in Accounts /\ t # FUNDING_POOL
      BY HoldersPay
    <3> QED BY <3>1, <3>2, PayoutStep
  <2> QED BY <1>3, <1>4, <2>1 DEF Banking
<1>5. CASE Trading
  <2>1. ASSUME NEW m \in Markets, NEW p \in Prices, SetPrice(m, p) PROVE Backed'
    BY <1>1, <2>1 DEF SetPrice
  <2> QED BY <1>5, <2>1, SettleFillBacked DEF Trading
<1>6. CASE Liquidating
  <2>1. ASSUME NEW a \in Accounts, SettleBadDebt(a) PROVE Backed'
    <3>1. vault' = settleBadDebt(vault, insurance, a).vault /\ engine' = engine
      BY <2>1 DEF SettleBadDebt
    <3>2. PoolKept(vault, vault')
      BY <3>1, CoverKeepsPool DEF CoreInv, TypeOK
    <3> QED BY <3>1, <3>2, LedgerStep
  <2> QED BY <1>6, <2>1, LiquidateBacked, AdlBacked DEF Liquidating
<1>7. CASE Staking
  <2>1. ASSUME NEW n \in Amounts, Donate(n) PROVE Backed'
    BY <1>3, <2>1, ProtocolAccounts DEF Donate
  <2>2. ASSUME NEW t \in Traders, NEW n \in Amounts, Stake(t, n) PROVE Backed'
    <3>1. vault' = credit(vault, INSURANCE, n) /\ engine' = engine /\ n \in Nat
      BY <2>2, Inputs DEF Stake
    <3> QED BY <3>1, CreditStep, ProtocolAccounts
  <2>3. ASSUME NEW t \in Traders, WithdrawUnstaked(t) PROVE Backed'
    <3> DEFINE n == payout(vault, engine, insurance, prices, t)
    <3>1. /\ n \in 0..toTokenDown(insurance.stakedBalance)
          /\ n > 0 => mayWithdraw(vault, INSURANCE, n)
          /\ vault' = IF n > 0 THEN debit(vault, INSURANCE, n) ELSE vault
          /\ engine' = engine
      BY <2>3 DEF WithdrawUnstaked
    <3> HIDE DEF n
    <3>2. n \in Nat
      BY <3>1, TokenDownCovered, InsuranceFields DEF CoreInv, TypeOK
    <3>3. CASE n > 0
      BY <3>1, <3>2, <3>3, PayoutStep, HoldersPay
    <3>4. CASE ~(n > 0)
      BY <1>1, <3>1, <3>4
    <3> QED BY <3>3, <3>4
  <2>4. ASSUME NEW t \in Traders,
               WithdrawRetired(t) \/ \E n \in ShareAmounts : RequestUnstake(t, n)
        PROVE  Backed'
    BY <1>1, <2>4 DEF WithdrawRetired, RequestUnstake
  <2>5. ASSUME NEW n \in SweepAmounts, SweepToOperating(n) PROVE Backed'
    BY <1>1, <2>5 DEF SweepToOperating
  <2> QED BY <1>7, <2>1, <2>2, <2>3, <2>4, <2>5 DEF Staking
<1>8. CASE Claiming
  <2>1. ASSUME NEW n \in Nat, mayWithdraw(vault, FEE_ROUTER, n),
               vault' = debit(vault, FEE_ROUTER, n), engine' = engine
        PROVE  Backed'
    BY <2>1, PayoutStep, HoldersPay
  <2>2. feeRouter.treasuryAccrued \in Int
        /\ \A r \in Traders : feeRouter.referralAccrued[r] \in Int
    BY DEF CoreInv, TypeOK, FeeState
  <2>3. CASE ClaimTreasury
    <3> DEFINE n == toTokenDown(feeRouter.treasuryAccrued)
    <3>1. /\ feeRouter.treasuryAccrued >= 0 /\ mayWithdraw(vault, FEE_ROUTER, n)
          /\ vault' = debit(vault, FEE_ROUTER, n) /\ engine' = engine
      BY <2>3 DEF ClaimTreasury
    <3>2. n \in Nat
      BY <2>2, <3>1, ClaimAmount
    <3> HIDE DEF n
    <3> QED BY <2>1, <3>1, <3>2
  <2>4. ASSUME NEW r \in Traders, ClaimReferral(r) PROVE Backed'
    <3> DEFINE n == toTokenDown(feeRouter.referralAccrued[r])
    <3>1. /\ feeRouter.referralAccrued[r] >= 0 /\ mayWithdraw(vault, FEE_ROUTER, n)
          /\ vault' = debit(vault, FEE_ROUTER, n) /\ engine' = engine
      BY <2>4 DEF ClaimReferral
    <3>2. n \in Nat
      BY <2>2, <3>1, ClaimAmount
    <3> HIDE DEF n
    <3> QED BY <2>1, <3>1, <3>2
  <2> QED BY <1>8, <2>3, <2>4 DEF Claiming
<1>9. CASE FeeGovernance \/ Revenue
  <2>1. ASSUME NEW f, FeeAdmin(f) PROVE Backed'
    BY <1>1, <2>1 DEF FeeAdmin
  <2>2. CASE FeeGovernance
    BY <2>1, <2>2 DEF FeeGovernance, SetMarketFees, DefineTier, SetAccountTier,
                      SetMinNetRate, SetRebatesEnabled
  <2>3. CASE Revenue
    BY <2>1, <2>3 DEF Revenue, SetReferralsEnabled, SetReferrerApproved, SetSplit,
                      SetLiquidationSplit
  <2> QED BY <1>9, <2>2, <2>3
<1>10. CASE Funding
  BY <1>10, UpdateFundingBacked DEF Funding
<1>11. CASE Clock
  BY <1>1, <1>11 DEF Clock, Tick
<1>12. CASE Governance
  <2>1. vault \in VaultState
    BY DEF CoreInv, TypeOK
  <2>2. ASSUME engine' = engine, vault'.balances = vault.balances,
               vault'.totalLedger = vault.totalLedger
        PROVE  Backed'
    BY <2>2, NextCore, BalancesKept, LedgerStep DEF CoreInv, TypeOK
  <2>3. ASSUME NEW n \in Amounts, SendTokens(n) PROVE Backed'
    BY <2>1, <2>2, <2>3 DEF SendTokens, VaultState
  <2>4. ASSUME NEW c \in Caps, SetDepositCaps(c[1], c[2]) PROVE Backed'
    BY <2>1, <2>2, <2>4 DEF SetDepositCaps, VaultState
  <2>5. ASSUME NEW b \in BOOLEAN, SetCollateral(b) PROVE Backed'
    BY <2>1, <2>2, <2>5 DEF SetCollateral, VaultState
  <2>6. ASSUME NEW m \in Markets, NEW b \in BOOLEAN, SetMarketActive(m, b) PROVE Backed'
    BY <1>1, <2>6 DEF SetMarketActive
  <2>7. ASSUME NEW c \in Pausable, NEW b \in BOOLEAN, SetPaused(c, b) PROVE Backed'
    BY <1>1, <2>7 DEF SetPaused
  <2>8. ASSUME NEW l \in LimitChoices, SetUnwindLimits(l) PROVE Backed'
    BY <1>1, <2>8 DEF SetUnwindLimits
  <2> QED BY <1>12, <2>3, <2>4, <2>5, <2>6, <2>7, <2>8 DEF Governance
<1> QED BY <1>2, <1>4, <1>5, <1>6, <1>7, <1>8, <1>9, <1>10, <1>11, <1>12 DEF Next

-----------------------------------------------------------------------------
(* The theorems.                                                           *)

\* The ledger total is the sum of the balances, the cost basis the sum over the positions,
\* and in every market what longs hold is what shorts hold, together with what makes them
\* inductive.
THEOREM BackedInvariant == Spec => [](CoreInv /\ Backed)
<1>1. Init => CoreInv /\ Backed
  BY InitCore, InitBacked
<1>2. CoreInv /\ Backed /\ [Next]_vars => (CoreInv /\ Backed)'
  BY NextCore, NextBacked
<1> QED BY <1>1, <1>2, PTL DEF Spec

\* The funding pool can always pay everyone it owes, whoever settles first and however
\* fills, liquidations, deleveragings and funding updates interleave: payers round up,
\* receivers down, and a funding update moves the two sides of a balanced market by
\* opposite amounts.
THEOREM PoolPays == Spec => []FundingPoolBacked
<1>1. Backed => FundingPoolBacked
  BY DEF Backed, Sound, pool, FundingPoolBacked
<1> QED BY <1>1, BackedInvariant, PTL

-----------------------------------------------------------------------------
(* Equity: claims on custody, at any prices.                               *)

\* Truncation toward zero adds less than a unit.
LEMMA MulPrecisionAbove ==
  ASSUME NEW a \in Nat, NEW b \in Int
  PROVE  /\ mulPrecision(a, b) \in Int
         /\ PRECISION * mulPrecision(a, b) <= a * b + (PRECISION - 1)
         /\ a * b <= PRECISION * mulPrecision(a, b) + (PRECISION - 1)
<1>1. CASE b >= 0
  <2>1. b \in Nat
    BY <1>1
  <2>2. a * b \in Nat /\ mulPrecision(a, b) \in Nat
        /\ PRECISION * mulPrecision(a, b) <= a * b
        /\ a * b <= PRECISION * mulPrecision(a, b) + (PRECISION - 1)
    BY <2>1, PrecisionBounds
  <2> HIDE DEF mulPrecision
  <2>3. PICK q \in Nat, k \in Int : q = mulPrecision(a, b) /\ k = PRECISION * q
    BY <2>2, ScalesPositive
  <2> QED BY <2>2, <2>3, ScalesPositive
<1>2. CASE b < 0
  <2>1. -b \in Nat /\ a * (-b) = -(a * b) /\ a * b \in Int
    BY <1>2
  <2>2. PICK c \in Nat : c = -b
    BY <2>1
  <2>9. a * c \in Nat /\ mulPrecision(a, c) \in Nat
         /\ PRECISION * mulPrecision(a, c) <= a * c
         /\ a * c <= PRECISION * mulPrecision(a, c) + (PRECISION - 1)
    BY PrecisionBounds
  <2>10. PICK x \in Nat, q \in Nat : /\ x = a * c /\ q = mulPrecision(a, c)
                                     /\ PRECISION * q <= x /\ x <= PRECISION * q + (PRECISION - 1)
    BY <2>9
  <2>3. mulPrecision(a, b) = -q
    <3>1. q = x \div PRECISION
      BY <2>10 DEF mulPrecision, mulDiv, TruncDiv
    <3>2. CASE a * b >= 0
      <4>1. a * b = 0 /\ x = 0
        BY <2>1, <2>2, <2>10, <3>2
      <4>2. 0 \div PRECISION = 0
        BY ScalesPositive
      <4> QED BY <3>1, <4>1, <4>2 DEF mulPrecision, mulDiv, TruncDiv
    <3>3. CASE ~(a * b >= 0)
      <4>1. mulPrecision(a, b) = -((-(a * b)) \div PRECISION)
        BY <3>3 DEF mulPrecision, mulDiv, TruncDiv
      <4>2. -(a * b) = x
        BY <2>1, <2>2, <2>10
      <4> QED BY <3>1, <4>1, <4>2
    <3> QED BY <3>2, <3>3
  <2>4. PICK y \in Int : y = PRECISION * q
    BY ScalesPositive
  <2>5. PRECISION * (-q) = -y
    BY <2>4, ScalesPositive
  <2>6. a * b = -x
    BY <2>1, <2>2, <2>10
  <2> QED BY <2>10, <2>3, <2>4, <2>5, <2>6, ScalesPositive
<1> QED BY <1>1, <1>2

\* The derived entry price of a position, times its size, is its basis up to one unit of
\* size: below for the long, above for the short.
LEMMA EntryBounds ==
  ASSUME NEW p \in Position, p.size # 0
  PROVE  /\ entryPrice(p) \in Nat
         /\ abs(p.openNotional) * PRECISION <= abs(p.size) * entryPrice(p) + (abs(p.size) - 1)
         /\ abs(p.size) * entryPrice(p) <= abs(p.openNotional) * PRECISION + abs(p.size)
<1>1. p.size \in Int /\ p.openNotional \in Int
  BY DEF Position
<1>2. PICK q \in Nat \ {0}, b \in Nat : q = abs(p.size) /\ b = abs(p.openNotional)
  BY <1>1, AbsNat
<1>3. PICK x \in Nat : x = b * PRECISION
  BY ScalesPositive
<1>4. PICK d \in Nat : d = x \div q /\ q * d <= x /\ x <= q * d + (q - 1)
  BY DivBounds
<1>5. divPrecision(b, q) = d
  BY <1>3, <1>4 DEF divPrecision, mulDiv, TruncDiv
<1>6. entryPrice(p) = IF 1 > d THEN 1 ELSE d
  BY <1>2, <1>5 DEF entryPrice, max
<1>7. CASE d = 0
  <2>1. entryPrice(p) = 1 /\ q * 1 = q /\ q * d = 0
    BY <1>6, <1>7
  <2> QED BY <1>2, <1>3, <1>4, <2>1
<1>8. CASE d # 0
  <2>1. entryPrice(p) = d
    BY <1>6, <1>8
  <2>2. PICK y \in Nat : y = q * d
    OBVIOUS
  <2> QED BY <1>2, <1>3, <1>4, <2>1, <2>2
<1> QED BY <1>7, <1>8

\* What a position shows as profit is what it is worth less what it cost, and rounding.
LEMMA PnlBound ==
  ASSUME NEW p \in Position, p.size # 0, SignedBasis(p.size, p.openNotional),
         NEW price \in Nat
  PROVE  /\ unrealizedPnl(p, price) \in Int
         /\ PRECISION * unrealizedPnl(p, price)
              <= p.size * price - PRECISION * p.openNotional + abs(p.size) + (PRECISION - 1)
<1>1. p.size \in Int /\ p.openNotional \in Int
  BY DEF Position
<1>2. PICK q \in Nat \ {0} : q = abs(p.size)
  BY <1>1, AbsNat
<1>3. PICK x \in Nat : x = entryPrice(p)
  BY EntryBounds
<1>4. PICK n \in Int, w \in Int, c \in Int :
        n = PRECISION * p.openNotional /\ w = q * price /\ c = q * x
  BY <1>1, ScalesPositive
<1>5. CASE p.size > 0
  <2>1. q = p.size /\ abs(p.openNotional) = p.openNotional
    BY <1>1, <1>2, <1>5 DEF SignedBasis, abs
  <2>2. p.openNotional * PRECISION = n
    BY <1>1, <1>4, ScalesPositive
  <2>3. n <= c + (q - 1)
    BY <1>2, <1>3, <1>4, <2>1, <2>2, EntryBounds
  <2>4. unrealizedPnl(p, price) = mulPrecision(q, price - x)
    BY <1>2, <1>3, <1>5 DEF unrealizedPnl
  <2>5. q * (price - x) = w - c /\ price - x \in Int
    BY <1>4
  <2>6. PICK u \in Int : u = mulPrecision(q, price - x) /\ PRECISION * u <= (w - c) + (PRECISION - 1)
    BY <2>5, MulPrecisionAbove
  <2>7. PICK k \in Int : k = PRECISION * u
    BY ScalesPositive
  <2>8. k <= w - n + q + (PRECISION - 1)
    BY <1>4, <2>3, <2>6, <2>7, ScalesPositive
  <2>9. p.size * price = w
    BY <1>4, <2>1
  <2> QED BY <1>2, <1>4, <2>4, <2>6, <2>7, <2>8, <2>9
<1>6. CASE p.size < 0
  <2>1. q = -p.size /\ abs(p.openNotional) = -p.openNotional
    BY <1>1, <1>2, <1>6 DEF SignedBasis, abs
  <2>2. (-p.openNotional) * PRECISION = -n
    BY <1>1, <1>4, ScalesPositive
  <2>3. c <= -n + q
    BY <1>2, <1>3, <1>4, <2>1, <2>2, EntryBounds
  <2>4. unrealizedPnl(p, price) = mulPrecision(q, x - price)
    BY <1>1, <1>2, <1>3, <1>6 DEF unrealizedPnl
  <2>5. q * (x - price) = c - w /\ x - price \in Int
    BY <1>4
  <2>6. PICK u \in Int : u = mulPrecision(q, x - price) /\ PRECISION * u <= (c - w) + (PRECISION - 1)
    BY <2>5, MulPrecisionAbove
  <2>7. PICK k \in Int : k = PRECISION * u
    BY ScalesPositive
  <2>8. k <= -w - n + q + (PRECISION - 1)
    BY <1>4, <2>3, <2>6, <2>7, ScalesPositive
  <2>9. p.size * price = -w
    BY <1>1, <1>4, <2>1
  <2> QED BY <1>2, <1>4, <2>4, <2>6, <2>7, <2>8, <2>9
<1> QED BY <1>1, <1>5, <1>6

\* The same of its funding: what it does not owe, and rounding.
LEMMA FundingPnlBound ==
  ASSUME NEW e \in EngineState, NEW a \in Accounts, NEW m \in Markets
  PROVE  /\ fundingPnl(e, m, e.positions[a][m]) \in Int
         /\ PRECISION * fundingPnl(e, m, e.positions[a][m])
              <= -fundingOwed(e, a, m) + (PRECISION - 1)
<1> DEFINE p == e.positions[a][m]
<1>1. p.size \in Int /\ p.lastFundingIndex \in Int
  BY EngineFields
<1>2. PICK q \in Nat : q = abs(p.size)
  BY <1>1, AbsNat
<1>3. PICK d \in Int : d = sideIndex(e, m, p.size > 0) - p.lastFundingIndex
  BY <1>1, SideIndexInt
<1>4. PICK w \in Int : w = q * d
  OBVIOUS
<1>5. PICK u \in Int : u = mulPrecision(q, d) /\ w <= PRECISION * u + (PRECISION - 1)
  BY <1>4, MulPrecisionAbove
<1>6. PICK k \in Int : k = PRECISION * u /\ PRECISION * (-u) = -k
  BY ScalesPositive
<1>7. fundingOwed(e, a, m) = w
  BY <1>2, <1>3, <1>4 DEF fundingOwed
<1>8. fundingPnl(e, m, p) = -u
  BY <1>2, <1>3, <1>5 DEF fundingPnl
<1> QED BY <1>5, <1>6, <1>7, <1>8, ScalesPositive

\* Sizes that cancel out in every column cancel out at any price per column.
LEMMA ColumnsCancel ==
  ASSUME NEW f \in Table, NEW price \in [Markets -> Int],
         \A m \in Markets : SumFunction([a \in Accounts |-> f[a][m]]) = 0
  PROVE  tableSum([a \in Accounts |-> [m \in Markets |-> f[a][m] * price[m]]]) = 0
<1> DEFINE g(T) == [a \in Accounts |-> [m \in Markets |-> IF m \in T THEN f[a][m] * price[m] ELSE 0]]
           Good == {T \in SUBSET Markets : tableSum(g(T)) = 0}
<1>1. ASSUME NEW T PROVE g(T) \in Table
  <2>1. ASSUME NEW a \in Accounts, NEW m \in Markets PROVE f[a][m] * price[m] \in Int
    <3>1. f[a][m] \in Int /\ price[m] \in Int
      BY DEF Table
    <3> QED BY <3>1
  <2> QED BY <2>1 DEF Table
<1>2. {} \in Good
  <2>1. \A a \in Accounts : SumFunction(g({})[a]) = 0
    <3> TAKE a \in Accounts
    <3> DEFINE h == [m \in Markets |-> 0]
    <3>1. h = g({})[a] /\ h \in [Markets -> Int] /\ \A m \in Markets : h[m] = 0
      OBVIOUS
    <3> HIDE DEF h
    <3>2. SumFunctionOnSet(h, Markets) = 0
      BY <3>1, FiniteAccounts, SumZero
    <3> QED BY <3>1, <3>2, MarketSum
  <2> DEFINE z == [a \in Accounts |-> SumFunction(g({})[a])]
  <2>2. z \in [Accounts -> Int] /\ \A a \in Accounts : z[a] = 0
    BY <2>1
  <2> HIDE DEF z
  <2>3. SumFunction(z) = 0
    BY <2>2, FiniteAccounts, SumZero, AccountSum
  <2> QED BY <2>3 DEF tableSum, z
<1>3. ASSUME NEW T \in SUBSET Markets, T # {}, \A x \in T : T \ {x} \in Good
      PROVE  T \in Good
  <2>1. PICK x \in T : TRUE
    BY <1>3
  <2>2. tableSum(g(T \ {x})) = 0
    BY <1>3, <2>1
  <2> DEFINE s == [a \in Accounts |-> f[a][x]]
  <2>3. s \in [Accounts -> Int] /\ SumFunction(s) = 0 /\ price[x] \in Int
    BY DEF Table
  <2>4. ASSUME NEW a \in Accounts, NEW k \in Markets
        PROVE  g(T)[a][k] = g(T \ {x})[a][k] + (IF k = x THEN price[x] * s[a] ELSE 0)
    <3>1. PICK u \in Int, w \in Int : u = f[a][k] /\ w = price[k]
      BY DEF Table
    <3>2. f[a][k] * price[k] \in Int /\ price[k] * f[a][k] = f[a][k] * price[k]
      BY <3>1
    <3> QED BY <3>2
  <2> HIDE DEF s, g
  <2>7. PICK A \in Table, B \in Table, d \in Int : A = g(T) /\ B = g(T \ {x}) /\ d = price[x]
    BY <1>1, <2>3
  <2>8. \A a \in Accounts, k \in Markets : A[a][k] = B[a][k] + (IF k = x THEN d * s[a] ELSE 0)
    BY <2>4, <2>7
  <2>5. tableSum(A) = tableSum(B) + d * SumFunction(s)
    BY <2>1, <2>3, <2>8, TableColumn
  <2>6. price[x] * 0 = 0
    BY <2>3
  <2> QED BY <2>2, <2>3, <2>5, <2>6, <2>7
<1>4. Markets \in Good
  <2> HIDE DEF Good
  <2> QED BY <1>2, <1>3, FiniteAccounts, SubsetInduction
<1>5. g(Markets) = [a \in Accounts |-> [m \in Markets |-> f[a][m] * price[m]]]
  OBVIOUS
<1> QED BY <1>4, <1>5

\* Sums of tables add up, entry by entry.
LEMMA TableSumOf ==
  ASSUME NEW f \in Table, NEW g \in Table, NEW h \in Table,
         \A a \in Accounts, m \in Markets : h[a][m] = f[a][m] + g[a][m]
  PROVE  /\ tableSum(h) = tableSum(f) + tableSum(g)
         /\ \A a \in Accounts : /\ SumFunction(f[a]) \in Int /\ SumFunction(g[a]) \in Int
                                /\ SumFunction(h[a]) = SumFunction(f[a]) + SumFunction(g[a])
<1>1. ASSUME NEW a \in Accounts
      PROVE  /\ SumFunction(f[a]) \in Int /\ SumFunction(g[a]) \in Int
             /\ SumFunction(h[a]) = SumFunction(f[a]) + SumFunction(g[a])
  <2>1. PICK p \in [Markets -> Int], q \in [Markets -> Int], r \in [Markets -> Int] :
          p = f[a] /\ q = g[a] /\ r = h[a]
    BY DEF Table
  <2>2. \A m \in Markets : p[m] \in Int /\ q[m] \in Int /\ r[m] = p[m] + q[m]
    BY <2>1
  <2>3. SumFunctionOnSet(r, Markets) = SumFunctionOnSet(p, Markets) + SumFunctionOnSet(q, Markets)
    BY <2>2, FiniteAccounts, SumAdd
  <2> QED BY <2>1, <2>3, MarketSum
<1> DEFINE F == [a \in Accounts |-> SumFunction(f[a])]
           G == [a \in Accounts |-> SumFunction(g[a])]
           H == [a \in Accounts |-> SumFunction(h[a])]
<1>2. \A a \in Accounts : F[a] \in Int /\ G[a] \in Int /\ H[a] = F[a] + G[a]
  BY <1>1
<1>3. F \in [Accounts -> Int] /\ G \in [Accounts -> Int] /\ H \in [Accounts -> Int]
  BY TableSum
<1> HIDE DEF F, G, H
<1>4. SumFunctionOnSet(H, Accounts) = SumFunctionOnSet(F, Accounts) + SumFunctionOnSet(G, Accounts)
  BY <1>2, FiniteAccounts, SumAdd
<1>5. SumFunction(H) = SumFunction(F) + SumFunction(G)
  BY <1>3, <1>4, AccountSum
<1> QED BY <1>1, <1>5 DEF tableSum, F, G, H

\* A common factor comes out of a table.
LEMMA TableScale ==
  ASSUME NEW f \in Table, NEW c \in Int, NEW h \in Table,
         \A a \in Accounts, m \in Markets : h[a][m] = c * f[a][m]
  PROVE  tableSum(h) = c * tableSum(f)
<1> DEFINE F == [a \in Accounts |-> SumFunction(f[a])]
           H == [a \in Accounts |-> SumFunction(h[a])]
<1>1. ASSUME NEW a \in Accounts PROVE H[a] = c * F[a]
  <2>1. PICK p \in [Markets -> Int], r \in [Markets -> Int] : p = f[a] /\ r = h[a]
    BY DEF Table
  <2>2. \A m \in Markets : p[m] \in Int /\ r[m] = c * p[m]
    BY <2>1
  <2>3. SumFunctionOnSet(r, Markets) = c * SumFunctionOnSet(p, Markets)
    BY <2>2, FiniteAccounts, SumScale
  <2> QED BY <2>1, <2>3, MarketSum
<1>2. F \in [Accounts -> Int] /\ H \in [Accounts -> Int]
  BY TableSum
<1> HIDE DEF F, H
<1>3. \A a \in Accounts : F[a] \in Int /\ H[a] = c * F[a]
  BY <1>1, <1>2
<1>4. SumFunctionOnSet(H, Accounts) = c * SumFunctionOnSet(F, Accounts)
  BY <1>3, FiniteAccounts, SumScale
<1>5. SumFunction(H) = c * SumFunction(F)
  BY <1>2, <1>4, AccountSum
<1> QED BY <1>5 DEF tableSum, F, H

\* What a position is worth at these prices, and what it cost and owes, in units of
\* 1/PRECISION; a claim is the difference.
valueTable(e, at) == [a \in Accounts |-> [m \in Markets |-> e.positions[a][m].size * at[m]]]
debtTable(e) ==
  [a \in Accounts |-> [m \in Markets |->
     PRECISION * e.positions[a][m].openNotional + fundingOwed(e, a, m)]]
claim(e, at, a, m) == valueTable(e, at)[a][m] - debtTable(e)[a][m]
claims(e, at) == [a \in Accounts |-> [m \in Markets |-> claim(e, at, a, m)]]

\* Their entries are integers.
LEMMA ClaimTables ==
  ASSUME NEW e \in EngineState, NEW at \in [Markets -> Nat]
  PROVE  valueTable(e, at) \in Table /\ debtTable(e) \in Table /\ claims(e, at) \in Table
<1>1. ASSUME NEW a \in Accounts, NEW m \in Markets
      PROVE  /\ e.positions[a][m].size * at[m] \in Int
             /\ PRECISION * e.positions[a][m].openNotional + fundingOwed(e, a, m) \in Int
  <2>1. PICK s \in Int, b \in Int, w \in Int, n \in Int :
          /\ s = e.positions[a][m].size /\ b = at[m]
          /\ w = e.positions[a][m].openNotional /\ n = fundingOwed(e, a, m)
    BY EngineFields, EngineTables
  <2>2. s * b \in Int /\ PRECISION * w \in Int
    BY ScalesPositive
  <2> QED BY <2>1, <2>2
<1>2. valueTable(e, at) \in Table /\ debtTable(e) \in Table
  BY <1>1 DEF valueTable, debtTable, Table
<1>3. \A a \in Accounts, m \in Markets : claim(e, at, a, m) \in Int
  BY <1>2 DEF Table, claim
<1> QED BY <1>2, <1>3 DEF claims, Table

\* Together the claims are what the positions cost and owe, with the sign turned: in a
\* market whose sizes cancel out, prices make no difference.
LEMMA ClaimsCancel ==
  ASSUME NEW e \in EngineState, NEW at \in [Markets -> Nat],
         \A m \in Markets : netSize(e, m) = 0
  PROVE  tableSum(claims(e, at)) = -(PRECISION * basisOf(e) + pendingFunding(e))
<1>1. PICK V \in Table, D \in Table, C \in Table, B \in Table, W \in Table :
        /\ V = valueTable(e, at) /\ D = debtTable(e) /\ C = claims(e, at)
        /\ B = basisTable(e) /\ W = owedTable(e)
  BY ClaimTables, EngineTables
<1>2. tableSum(V) = 0
  <2> DEFINE f == [a \in Accounts |-> [m \in Markets |-> e.positions[a][m].size]]
  <2>1. f \in Table
    BY EngineFields DEF Table
  <2>2. \A m \in Markets : SumFunction([a \in Accounts |-> f[a][m]]) = 0
    <3> TAKE m \in Markets
    <3>1. [a \in Accounts |-> f[a][m]] = [a \in Accounts |-> e.positions[a][m].size]
      OBVIOUS
    <3> QED BY <3>1 DEF netSize
  <2>3. at \in [Markets -> Int]
    OBVIOUS
  <2>4. V = [a \in Accounts |-> [m \in Markets |-> f[a][m] * at[m]]]
    BY <1>1 DEF valueTable
  <2> HIDE DEF f
  <2> QED BY <2>1, <2>2, <2>3, <2>4, ColumnsCancel
<1>3. tableSum(V) = tableSum(C) + tableSum(D)
  <2>1. \A a \in Accounts, m \in Markets : V[a][m] = C[a][m] + D[a][m]
    BY <1>1 DEF claims, claim, Table
  <2> QED BY <2>1, TableSumOf
<1>4. tableSum(D) = PRECISION * tableSum(B) + tableSum(W)
  <2> DEFINE S == [a \in Accounts |-> [m \in Markets |-> PRECISION * B[a][m]]]
  <2>1. ASSUME NEW a \in Accounts, NEW m \in Markets PROVE PRECISION * B[a][m] \in Int
    <3>1. B[a][m] \in Int
      BY DEF Table
    <3> QED BY <3>1, ScalesPositive
  <2>2. S \in Table /\ \A a \in Accounts, m \in Markets : S[a][m] = PRECISION * B[a][m]
    BY <2>1 DEF Table
  <2>3. \A a \in Accounts, m \in Markets : D[a][m] = S[a][m] + W[a][m]
    BY <1>1 DEF debtTable, basisTable, owedTable
  <2> HIDE DEF S
  <2>4. tableSum(S) = PRECISION * tableSum(B)
    BY <2>2, TableScale, ScalesPositive
  <2>5. tableSum(D) = tableSum(S) + tableSum(W)
    BY <2>2, <2>3, TableSumOf
  <2> QED BY <2>4, <2>5
<1>5. tableSum(B) = basisOf(e) /\ tableSum(W) = pendingFunding(e)
  BY <1>1, EngineTables DEF basisOf
<1>6. tableSum(C) \in Int /\ tableSum(D) \in Int
  BY TableSum
<1> QED BY <1>1, <1>2, <1>3, <1>4, <1>5, <1>6

\* A position nobody holds claims nothing; one that is held shows at most its claim and
\* rounding.
LEMMA ClaimBound ==
  ASSUME NEW e \in EngineState, PositionsSound(e), NEW at \in [Markets -> Nat],
         NEW a \in Accounts, NEW m \in Markets
  PROVE  /\ m \notin e.marketBitmap[a] => claim(e, at, a, m) = 0
         /\ m \in e.marketBitmap[a] =>
              LET p == e.positions[a][m]
                  x == unrealizedPnl(p, at[m]) + fundingPnl(e, m, p)
              IN  x \in Int /\ PRECISION * x <= claim(e, at, a, m)
                                               + (abs(p.size) + 2 * (PRECISION - 1))
<1> DEFINE p == e.positions[a][m]
<1>1. p \in Position /\ p.size \in Int /\ p.openNotional \in Int /\ at[m] \in Nat
  BY EngineFields
<1>2. (m \in e.marketBitmap[a] <=> p.size # 0) /\ SignedBasis(p.size, p.openNotional)
  BY DEF PositionsSound, Stored
<1>3. claim(e, at, a, m) = p.size * at[m] - (PRECISION * p.openNotional + fundingOwed(e, a, m))
  BY DEF claim, valueTable, debtTable
<1>4. CASE p.size = 0
  <2>1. p.openNotional = 0
    BY <1>2, <1>4 DEF SignedBasis
  <2>2. fundingOwed(e, a, m) = 0
    <3>1. PICK d \in Int : d = sideIndex(e, m, p.size > 0) - p.lastFundingIndex
      BY SideIndexInt, EngineFields
    <3>2. abs(p.size) = 0 /\ 0 * d = 0
      BY <1>4 DEF abs
    <3> QED BY <3>1, <3>2 DEF fundingOwed
  <2>3. 0 * at[m] = 0 /\ PRECISION * 0 = 0
    BY <1>1, ScalesPositive
  <2> QED BY <1>2, <1>3, <1>4, <2>1, <2>2, <2>3
<1>5. CASE p.size # 0
  <2>1. PICK u \in Int, f \in Int, q \in Nat, v \in Int, c \in Int, w \in Int :
          /\ u = unrealizedPnl(p, at[m]) /\ f = fundingPnl(e, m, p) /\ q = abs(p.size)
          /\ v = p.size * at[m] /\ c = PRECISION * p.openNotional /\ w = fundingOwed(e, a, m)
    <3>1. unrealizedPnl(p, at[m]) \in Int
      BY <1>1, <1>2, <1>5, PnlBound
    <3>2. fundingPnl(e, m, p) \in Int
      BY FundingPnlBound
    <3>3. fundingOwed(e, a, m) \in Int /\ p.size * at[m] \in Int /\ PRECISION * p.openNotional \in Int
      BY <1>1, EngineTables, ScalesPositive
    <3> QED BY <1>1, <3>1, <3>2, <3>3, AbsNat
  <2>2. PRECISION * u <= v - c + q + (PRECISION - 1)
    <3> HIDE DEF p
    <3> QED BY <1>1, <1>2, <1>5, <2>1, PnlBound
  <2>3. PRECISION * f <= -w + (PRECISION - 1)
    BY <2>1, FundingPnlBound
  <2>4. PICK x \in Int, y \in Int : x = PRECISION * u /\ y = PRECISION * f
    BY ScalesPositive
  <2>5. PRECISION * (u + f) = x + y
    BY <2>4, ScalesPositive
  <2>6. x + y <= (v - (c + w)) + (q + 2 * (PRECISION - 1))
    BY <2>2, <2>3, <2>4, ScalesPositive
  <2>7. claim(e, at, a, m) = v - (c + w)
    BY <1>3, <2>1
  <2> HIDE DEF p
  <2>8. u + f \in Int /\ PRECISION * (u + f) <= claim(e, at, a, m) + (q + 2 * (PRECISION - 1))
    BY <2>5, <2>6, <2>7
  <2>9. m \in e.marketBitmap[a]
    BY <1>2, <1>5
  <2> QED BY <2>1, <2>8, <2>9 DEF p
<1> QED BY <1>4, <1>5

\* The equity of an account is its balance and at most its claims and rounding.
LEMMA EquityBound ==
  ASSUME NEW v \in VaultState, NEW e \in EngineState, PositionsSound(e),
         NEW at \in [Markets -> Nat], NEW a \in Accounts
  PROVE  /\ accountHealth(v, e, at, a).equity \in Int
         /\ roundingOf(e, a) \in Nat
         /\ SumFunction(claims(e, at)[a]) \in Int
         /\ PRECISION * accountHealth(v, e, at, a).equity
              <= PRECISION * v.balances[a] + SumFunction(claims(e, at)[a]) + roundingOf(e, a)
         /\ e.marketBitmap[a] = {} => SumFunction(claims(e, at)[a]) = 0
<1> DEFINE held == e.marketBitmap[a]
           x(m) == unrealizedPnl(e.positions[a][m], at[m]) + fundingPnl(e, m, e.positions[a][m])
           r(m) == abs(e.positions[a][m].size) + 2 * (PRECISION - 1)
           X == [m \in held |-> x(m)]
           Y == [m \in held |-> PRECISION * x(m)]
           R == [m \in held |-> r(m)]
           Z == [m \in held |-> claim(e, at, a, m) + r(m)]
           C == claims(e, at)[a]
<1>1. held \in SUBSET Markets /\ IsFiniteSet(held)
  <2>1. e.marketBitmap[a] \in SUBSET Markets
    BY DEF EngineState
  <2> QED BY <2>1, FiniteAccounts, FS_Subset
<1>2. C \in [Markets -> Int] /\ \A m \in Markets : C[m] = claim(e, at, a, m)
  <2>1. claims(e, at) \in Table
    BY ClaimTables
  <2>2. \A m \in Markets : C[m] = claim(e, at, a, m)
    BY DEF claims
  <2>3. C \in [Markets -> Int]
    BY <2>1 DEF Table
  <2> QED BY <2>2, <2>3
<1>3. \A m \in held : r(m) \in Nat
  <2> TAKE m \in held
  <2>1. abs(e.positions[a][m].size) \in Nat
    BY <1>1, EngineFields, AbsNat
  <2> QED BY <2>1, ScalesPositive
<1>4. \A m \in held : x(m) \in Int /\ PRECISION * x(m) <= claim(e, at, a, m) + r(m)
  BY <1>1, ClaimBound
<1>5. \A m \in Markets \ held : C[m] = 0
  BY <1>2, ClaimBound
<1>6. SumFunctionOnSet(C, Markets) = SumFunctionOnSet(C, held)
  <2> HIDE DEF C, held
  <2> QED BY <1>1, <1>2, <1>5, FiniteAccounts, SumSupport
<1>7. SumFunction(C) = SumFunctionOnSet(C, held) /\ SumFunction(C) \in Int
  BY <1>2, <1>6, MarketSum
<1>8. /\ SumFunction(X) = SumFunctionOnSet(X, held)
      /\ SumFunction(R) = SumFunctionOnSet(R, held)
  BY DEF SumFunction
<1>9. /\ accountHealth(v, e, at, a).equity = v.balances[a] + SumFunction(X)
      /\ roundingOf(e, a) = SumFunction(R)
  BY DEF accountHealth, roundingOf
<1>10. ASSUME NEW m \in held
       PROVE  /\ X[m] \in Int /\ Y[m] \in Int /\ R[m] \in Nat /\ Z[m] \in Int /\ C[m] \in Int
              /\ Y[m] = PRECISION * X[m] /\ Y[m] <= Z[m] /\ Z[m] = C[m] + R[m]
  <2>1. m \in Markets
    BY <1>1
  <2>2. C[m] \in Int /\ C[m] = claim(e, at, a, m)
    BY <1>2, <2>1
  <2>3. x(m) \in Int /\ r(m) \in Nat /\ PRECISION * x(m) <= claim(e, at, a, m) + r(m)
    BY <1>3, <1>4
  <2> HIDE DEF x, r, C, held
  <2>4. PRECISION * x(m) \in Int
    BY <2>3, ScalesPositive
  <2> QED BY <2>2, <2>3, <2>4
<1>11. v.balances[a] \in Int
  BY DEF VaultState
<1> HIDE DEF X, Y, R, Z, C, held
<1>12. SumFunctionOnSet(Y, held) = PRECISION * SumFunctionOnSet(X, held)
  BY <1>1, <1>10, ScalesPositive, SumScale
<1>13. SumFunctionOnSet(Y, held) <= SumFunctionOnSet(Z, held)
  BY <1>1, <1>10, SumMonotone
<1>14. SumFunctionOnSet(Z, held) = SumFunctionOnSet(C, held) + SumFunctionOnSet(R, held)
  BY <1>1, <1>10, SumAdd
<1>15. SumFunctionOnSet(R, held) \in Nat
  BY <1>1, <1>10, SumNat
<1>16. SumFunctionOnSet(X, held) \in Int
  BY <1>1, <1>10, SumInt
<1>17. held = {} => SumFunction(C) = 0
  BY <1>7, SumEmpty
<1>18. PICK b \in Int, s \in Int, n \in Int, c \in Int :
         /\ b = v.balances[a] /\ s = SumFunctionOnSet(X, held)
         /\ n = SumFunctionOnSet(R, held) /\ c = SumFunction(C)
  BY <1>7, <1>11, <1>15, <1>16
<1>19. PICK pb \in Int, ps \in Int : pb = PRECISION * b /\ ps = PRECISION * s
  BY ScalesPositive
<1>20. PRECISION * (b + s) = pb + ps
  BY <1>19, ScalesPositive
<1>21. ps <= c + n
  BY <1>7, <1>12, <1>13, <1>14, <1>18, <1>19
<1>22. accountHealth(v, e, at, a).equity = b + s /\ roundingOf(e, a) = n
  BY <1>8, <1>9, <1>18
<1>23. PRECISION * accountHealth(v, e, at, a).equity
         <= PRECISION * v.balances[a] + SumFunction(C) + roundingOf(e, a)
  BY <1>18, <1>19, <1>20, <1>21, <1>22
<1>24. accountHealth(v, e, at, a).equity \in Int /\ roundingOf(e, a) \in Nat
  BY <1>15, <1>18, <1>22
<1> QED BY <1>7, <1>17, <1>23, <1>24 DEF C, held

\* The sum over all accounts: balances are the ledger, claims the cost basis and the
\* funding still owed, which the pool covers.
LEMMA EquityCovered ==
  ASSUME NEW v \in VaultState, NEW e \in EngineState, Sound(v, e),
         \A m \in Markets : netSize(e, m) = 0, NEW at \in [Markets -> Nat]
  PROVE  PRECISION * SumFunction([a \in Accounts \ {FUNDING_POOL} |->
                                    accountHealth(v, e, at, a).equity])
           <= PRECISION * (v.totalLedger - e.netCostBasis)
              + SumFunction([a \in Accounts |-> roundingOf(e, a)])
<1> DEFINE others == Accounts \ {FUNDING_POOL}
           E == [a \in others |-> accountHealth(v, e, at, a).equity]
           P == [a \in others |-> PRECISION * accountHealth(v, e, at, a).equity]
           B == v.balances
           S == [a \in Accounts |-> PRECISION * v.balances[a]]
           K == [a \in Accounts |-> SumFunction(claims(e, at)[a])]
           R == [a \in Accounts |-> roundingOf(e, a)]
           M == [a \in Accounts |-> S[a] + K[a]]
           T == [a \in Accounts |-> M[a] + R[a]]
<1>1. PositionsSound(e) /\ Summed(v) /\ e.netCostBasis = basisOf(e) /\ pool(v, e) >= 0
  BY DEF Sound
<1>2. IsFiniteSet(Accounts) /\ IsFiniteSet(others) /\ others \subseteq Accounts
      /\ FUNDING_POOL \in Accounts
  BY FiniteAccounts, FS_Subset, ProtocolAccounts
<1>3. B \in [Accounts -> Int]
  BY DEF VaultState
<1>4. ASSUME NEW a \in Accounts
      PROVE  /\ B[a] \in Int /\ S[a] \in Int /\ S[a] = PRECISION * B[a]
             /\ K[a] \in Int /\ R[a] \in Nat
             /\ M[a] \in Int /\ M[a] = S[a] + K[a] /\ T[a] \in Int /\ T[a] = M[a] + R[a]
  <2>1. B[a] \in Int /\ PRECISION * B[a] \in Int
    BY <1>3, ScalesPositive
  <2>2. SumFunction(claims(e, at)[a]) \in Int /\ roundingOf(e, a) \in Nat
    BY <1>1, EquityBound
  <2> QED BY <2>1, <2>2
<1>5. ASSUME NEW a \in others
      PROVE  /\ E[a] \in Int /\ P[a] \in Int /\ P[a] = PRECISION * E[a] /\ P[a] <= T[a]
  <2>1. PICK q \in Int : q = accountHealth(v, e, at, a).equity
    BY <1>1, EquityBound
  <2>2. PRECISION * q <= PRECISION * v.balances[a] + SumFunction(claims(e, at)[a]) + roundingOf(e, a)
    BY <1>1, <2>1, EquityBound
  <2>3. PRECISION * q \in Int
    BY ScalesPositive
  <2>4. E[a] = q /\ P[a] = PRECISION * q
    BY <2>1
  <2>5. T[a] = PRECISION * v.balances[a] + SumFunction(claims(e, at)[a]) + roundingOf(e, a)
    OBVIOUS
  <2> HIDE DEF E, P, T
  <2> QED BY <2>1, <2>2, <2>3, <2>4, <2>5
<1>6. T[FUNDING_POOL] >= PRECISION * B[FUNDING_POOL]
  <2>1. e.marketBitmap[FUNDING_POOL] = {}
    <3>1. \A m \in Markets : m \notin e.marketBitmap[FUNDING_POOL]
      <4>1. FUNDING_POOL \notin Holders
        BY AccountsDistinct DEF Holders
      <4> QED BY <1>1, <1>2, <4>1 DEF PositionsSound, Stored
    <3>2. e.marketBitmap[FUNDING_POOL] \in SUBSET Markets
      BY <1>2 DEF EngineState
    <3> QED BY <3>1, <3>2
  <2>2. K[FUNDING_POOL] = 0
    BY <1>1, <1>2, <2>1, EquityBound
  <2> HIDE DEF B, S, K, R, M, T
  <2> QED BY <1>2, <1>4, <2>2
<1>7. K \in [Accounts -> Int] /\ SumFunction(K) = tableSum(claims(e, at))
  BY <1>4 DEF tableSum
<1>8. SumFunction(K) = -(PRECISION * basisOf(e) + pendingFunding(e))
  BY <1>7, ClaimsCancel
<1>9. SumFunction(E) = SumFunctionOnSet(E, others) /\ SumFunction(R) = SumFunctionOnSet(R, Accounts)
      /\ SumFunction(K) = SumFunctionOnSet(K, Accounts)
  BY DEF SumFunction
<1>10. v.totalLedger = SumFunctionOnSet(B, Accounts) /\ v.totalLedger \in Int
  BY <1>1, <1>3, AccountSum DEF Summed, VaultState
<1>11. e.netCostBasis \in Int /\ pendingFunding(e) \in Int
  BY EngineTables DEF EngineState
<1>12. pool(v, e) = B[FUNDING_POOL] * PRECISION + pendingFunding(e)
  BY DEF pool
<1> HIDE DEF B, S, K, R, M, T, E, P
<1>13. SumFunctionOnSet(P, others) = PRECISION * SumFunctionOnSet(E, others)
  BY <1>2, <1>5, ScalesPositive, SumScale
<1>14. SumFunctionOnSet(P, others) <= SumFunctionOnSet(T, others)
  <2>1. \A a \in others : P[a] \in Int /\ T[a] \in Int /\ P[a] <= T[a]
    BY <1>2, <1>4, <1>5
  <2> HIDE DEF others
  <2> QED BY <1>2, <2>1, SumMonotone
<1>15. SumFunctionOnSet(T, Accounts) = T[FUNDING_POOL] + SumFunctionOnSet(T, others)
  <2>1. \A a \in Accounts : T[a] \in Int
    BY <1>4
  <2> QED BY <1>2, <2>1, SumRemove
<1>16. SumFunctionOnSet(T, Accounts) = SumFunctionOnSet(M, Accounts) + SumFunctionOnSet(R, Accounts)
  <2>1. \A a \in Accounts : M[a] \in Int /\ R[a] \in Int /\ T[a] = M[a] + R[a]
    BY <1>4
  <2> QED BY <1>2, <2>1, SumAdd
<1>17. SumFunctionOnSet(M, Accounts) = SumFunctionOnSet(S, Accounts) + SumFunctionOnSet(K, Accounts)
  <2>1. \A a \in Accounts : S[a] \in Int /\ K[a] \in Int /\ M[a] = S[a] + K[a]
    BY <1>4
  <2> QED BY <1>2, <2>1, SumAdd
<1>18. SumFunctionOnSet(S, Accounts) = PRECISION * SumFunctionOnSet(B, Accounts)
  <2>1. \A a \in Accounts : B[a] \in Int /\ S[a] = PRECISION * B[a]
    BY <1>4
  <2> QED BY <1>2, <2>1, ScalesPositive, SumScale
<1>19. /\ SumFunctionOnSet(T, others) \in Int /\ SumFunctionOnSet(R, Accounts) \in Int
       /\ SumFunctionOnSet(E, others) \in Int /\ T[FUNDING_POOL] \in Int
       /\ B[FUNDING_POOL] \in Int
  <2>1. \A a \in others : T[a] \in Int
    BY <1>2, <1>4
  <2>2. \A a \in Accounts : R[a] \in Int
    BY <1>4
  <2>3. \A a \in others : E[a] \in Int
    BY <1>5
  <2> HIDE DEF others
  <2> QED BY <1>2, <1>4, <2>1, <2>2, <2>3, SumInt
<1>20. PICK pe \in Int, to \in Int, tf \in Int, r \in Int, l \in Int, n \in Int, w \in Int, b \in Int :
         /\ pe = PRECISION * SumFunctionOnSet(E, others) /\ to = SumFunctionOnSet(T, others)
         /\ tf = T[FUNDING_POOL] /\ r = SumFunctionOnSet(R, Accounts)
         /\ l = PRECISION * v.totalLedger /\ n = PRECISION * e.netCostBasis
         /\ w = pendingFunding(e) /\ b = PRECISION * B[FUNDING_POOL]
  <2>1. /\ PRECISION * SumFunctionOnSet(E, others) \in Int /\ PRECISION * v.totalLedger \in Int
        /\ PRECISION * e.netCostBasis \in Int /\ PRECISION * B[FUNDING_POOL] \in Int
    BY <1>10, <1>11, <1>19, ScalesPositive
  <2> QED BY <1>11, <1>19, <2>1
<1>21. PRECISION * (v.totalLedger - e.netCostBasis) = l - n
  BY <1>10, <1>11, <1>20, ScalesPositive
<1>22. pe <= to /\ tf + to = l - (n + w) + r /\ tf >= b /\ b + w >= 0
  <2>1. pe <= to
    BY <1>13, <1>14, <1>20
  <2>2. tf + to = l - (n + w) + r
    BY <1>1, <1>8, <1>9, <1>10, <1>15, <1>16, <1>17, <1>18, <1>20
  <2>3. b + w >= 0
    BY <1>1, <1>12, <1>19, <1>20, ScalesPositive
  <2> QED BY <1>6, <1>20, <2>1, <2>2, <2>3
<1>23. pe <= (l - n) + r
  BY <1>22
<1> QED BY <1>9, <1>20, <1>21, <1>23 DEF E, R

\* The equity the risk engine shows to all accounts together is covered by the USDC in
\* custody, up to the rounding of the positions: nobody's profit is more than the losses
\* of others, at any prices and after any sequence of transactions.
THEOREM EquityIsBacked == Spec => []EquityBacked
<1>1. CoreInv /\ Backed => EquityBacked
  <2> SUFFICES ASSUME CoreInv, Backed, \A m \in Markets : prices[m] > 0
               PROVE  PRECISION * SumFunction([a \in Accounts \ {FUNDING_POOL} |->
                                                 accountHealth(vault, engine, prices, a).equity])
                        <= PRECISION * assets(vault)
                           + SumFunction([a \in Accounts |-> roundingOf(engine, a)])
    BY DEF EquityBacked
  <2>1. /\ vault \in VaultState /\ engine \in EngineState /\ prices \in [Markets -> Nat]
        /\ donated \in Nat
    BY DEF CoreInv, TypeOK
  <2> DEFINE E == SumFunction([a \in Accounts \ {FUNDING_POOL} |->
                                 accountHealth(vault, engine, prices, a).equity])
             R == SumFunction([a \in Accounts |-> roundingOf(engine, a)])
  <2>2. PRECISION * E <= PRECISION * (vault.totalLedger - engine.netCostBasis) + R
    BY <2>1, EquityCovered DEF Backed
  <2>3. assets(vault) = (vault.totalLedger - engine.netCostBasis) + toInternal(donated)
    BY DEF CoreInv, Solvency, liabilities
  <2>4. toInternal(donated) \in Nat
    BY <2>1, ScalesPositive DEF toInternal
  <2>5. vault.totalLedger - engine.netCostBasis \in Int
    BY <2>1 DEF VaultState, EngineState
  <2>6. R \in Int
    <3> DEFINE F == [a \in Accounts |-> roundingOf(engine, a)]
    <3>1. \A a \in Accounts : roundingOf(engine, a) \in Int
      BY <2>1, EquityBound DEF Backed, Sound
    <3>2. F \in [Accounts -> Int]
      BY <3>1
    <3> HIDE DEF F
    <3>3. SumFunction(F) \in Int
      BY <3>2, AccountSum
    <3> QED BY <3>3 DEF F
  <2>7. E \in Int
    <3> DEFINE F == [a \in Accounts \ {FUNDING_POOL} |-> accountHealth(vault, engine, prices, a).equity]
    <3>1. \A a \in Accounts \ {FUNDING_POOL} : F[a] \in Int
      BY <2>1, EquityBound DEF Backed, Sound
    <3>2. IsFiniteSet(Accounts \ {FUNDING_POOL})
      BY FiniteAccounts, FS_Subset
    <3>3. SumFunction(F) = SumFunctionOnSet(F, Accounts \ {FUNDING_POOL})
      BY DEF SumFunction
    <3> HIDE DEF F
    <3>4. SumFunction(F) \in Int
      BY <3>1, <3>2, <3>3, SumInt
    <3> QED BY <3>4 DEF F
  <2>8. PICK d \in Int, t \in Nat : d = vault.totalLedger - engine.netCostBasis /\ t = toInternal(donated)
    BY <2>4, <2>5
  <2> HIDE DEF E, R
  <2>9. PRECISION * (d + t) = PRECISION * d + PRECISION * t /\ PRECISION * t >= 0
        /\ PRECISION * d \in Int /\ PRECISION * t \in Int
    BY ScalesPositive
  <2>10. PRECISION * E <= PRECISION * assets(vault) + R
    BY <2>2, <2>3, <2>6, <2>7, <2>8, <2>9, ScalesPositive
  <2> QED BY <2>10 DEF E, R
<1> QED BY <1>1, BackedInvariant, PTL

-----------------------------------------------------------------------------
(* What reaches the fee router's account.                                  *)

\* From v to v2 the router's balance gains x.
Routed(v, v2, x) ==
  /\ v2 \in VaultState
  /\ v2.balances[FEE_ROUTER] = v.balances[FEE_ROUTER] + x

\* Gains add up.
LEMMA RoutedTwice ==
  ASSUME NEW v \in VaultState, NEW v2, NEW v3, NEW x \in Int, NEW y \in Int,
         Routed(v, v2, x), Routed(v2, v3, y)
  PROVE  Routed(v, v3, x + y)
<1>1. v.balances[FEE_ROUTER] \in Int
  BY ProtocolAccounts DEF VaultState
<1> QED BY <1>1 DEF Routed

\* A transfer takes from the router or pays it, or passes it by.
LEMMA TransferRouted ==
  ASSUME NEW v \in VaultState, NEW a \in Accounts, NEW b \in Accounts, NEW x \in Int
  PROVE  Routed(v, transferInternal(v, a, b, x),
                IF a = b THEN 0 ELSE IF a = FEE_ROUTER THEN -x
                ELSE IF b = FEE_ROUTER THEN x ELSE 0)
<1> DEFINE u == transferInternal(v, a, b, x)
<1>1. u \in VaultState
      /\ \A c \in Accounts :
           u.balances[c] = v.balances[c] + (IF a = b THEN 0 ELSE
                              IF c = a THEN -x ELSE IF c = b THEN x ELSE 0)
  BY TransferSummed
<1> HIDE DEF u
<1>2. u.balances[FEE_ROUTER]
        = v.balances[FEE_ROUTER] + (IF a = b THEN 0 ELSE
            IF FEE_ROUTER = a THEN -x ELSE IF FEE_ROUTER = b THEN x ELSE 0)
  BY <1>1, ProtocolAccounts
<1> QED BY <1>1, <1>2 DEF Routed, u

\* Booking another account's profit or loss passes the router by.
LEMMA MoveRouted ==
  ASSUME NEW v \in VaultState, NEW a \in Accounts, a # FEE_ROUTER, NEW x \in Int
  PROVE  Routed(v, move(v, a, x), 0)
<1> DEFINE u == move(v, a, x)
<1>1. u \in VaultState /\ u.balances = [v.balances EXCEPT ![a] = v.balances[a] + x]
  BY MoveSummed
<1> HIDE DEF u
<1>2. v.balances \in [Accounts -> Int]
  BY DEF VaultState
<1>3. u.balances[FEE_ROUTER] = v.balances[FEE_ROUTER] + 0
  BY <1>1, <1>2, ProtocolAccounts
<1> QED BY <1>1, <1>3 DEF Routed, u

\* The traders and the fund are not the router.
LEMMA HoldersAside == FEE_ROUTER \notin Holders /\ FUNDING_POOL # FEE_ROUTER
  BY AccountsDistinct DEF Holders

\* Funding and profit and loss of a trade stay between its holder and the pool.
LEMMA TradeRouted ==
  ASSUME NEW v \in VaultState, NEW e \in EngineState, NEW t \in Holders, NEW m \in Markets,
         NEW delta \in Int, delta # 0, NEW price \in Int, NEW n \in Int,
         NEW ro, NEW limits, NEW active
  PROVE  Routed(v, trade(v, e, t, m, delta, price, n, ro, limits, active).vault, 0)
<1> DEFINE p   == e.positions[t][m]
           d   == sideIndex(e, m, p.size > 0) - p.lastFundingIndex
           up  == mulPrecisionUp(abs(p.size), d)
           dn  == mulPrecision(abs(p.size), -d)
           s   == settleFunding(v, e, t, m)
           sp  == splitTrade(p, delta, price, n)
           r   == trade(v, e, t, m, delta, price, n, ro, limits, active)
<1>1. t \in Accounts /\ t # FEE_ROUTER /\ FUNDING_POOL \in Accounts
      /\ FUNDING_POOL # FEE_ROUTER /\ t # FUNDING_POOL
  BY HoldersPay, HoldersAside, ProtocolAccounts
<1>2. p \in Position /\ p.size \in Int /\ p.lastFundingIndex \in Int
      /\ sideIndex(e, m, p.size > 0) \in Int
  BY <1>1, EngineFields, SideIndexInt
<1>3. r.vault = move(s, t, sp.realized)
  BY DEF trade, applyPnl
<1>4. sp.realized \in Int
  BY <1>2, SplitTradeBalance DEF SplitBalances
<1> HIDE DEF sp, r
<1>5. Routed(v, s, 0)
  <2>1. d \in Int /\ -d \in Int /\ abs(p.size) \in Int
    BY <1>2, AbsNat
  <2>2. up \in Int /\ dn \in Int
    BY <2>1, FixedPointInt
  <2>3. s = v \/ s = transferInternal(v, t, FUNDING_POOL, up)
              \/ s = transferInternal(v, FUNDING_POOL, t, dn)
    <3>1. p.size = 0 \/ d = 0 \/ (p.size # 0 /\ d > 0) \/ (p.size # 0 /\ d < 0)
      BY <2>1
    <3> QED BY <3>1 DEF settleFunding
  <2> HIDE DEF s, up, dn
  <2>4. Routed(v, v, 0)
    BY ProtocolAccounts DEF Routed, VaultState
  <2>5. Routed(v, transferInternal(v, t, FUNDING_POOL, up), 0)
    BY <1>1, <2>2, TransferRouted
  <2>6. Routed(v, transferInternal(v, FUNDING_POOL, t, dn), 0)
    BY <1>1, <2>2, TransferRouted
  <2> QED BY <2>3, <2>4, <2>5, <2>6
<1> HIDE DEF s
<1>6. Routed(s, move(s, t, sp.realized), 0)
  <2>1. s \in VaultState
    BY <1>5 DEF Routed
  <2> QED BY <1>1, <1>4, <2>1, MoveRouted
<1>7. Routed(v, r.vault, 0 + 0)
  BY <1>3, <1>5, <1>6, RoutedTwice
<1> QED BY <1>7 DEF r

\* One side of a fill, before fees.
LEMMA ApplyFillRouted ==
  ASSUME NEW v \in VaultState, NEW e \in EngineState, NEW f \in Fill, f.size > 0,
         NEW t \in Holders, NEW long \in BOOLEAN, NEW ro, NEW n \in Int, now \in Int
  PROVE  LET r == applyFill(v, e, f, t, long, ro, n)
         IN  Routed(v, r.vault, 0) /\ r.engine \in EngineState
<1> DEFINE marked == recordMark(e, f.market, f.price, now)
           delta  == IF long THEN f.size ELSE -f.size
           act    == f.market \in activeMarkets
           side   == trade(v, marked, t, f.market, delta, f.price, n, ro, TRUE, act)
           r      == applyFill(v, e, f, t, long, ro, n)
<1>1. f.market \in Markets /\ f.size \in Nat /\ f.price \in Nat /\ f.price \in Int
  BY DEF Fill
<1>2. marked \in EngineState
  BY <1>1, RecordMarkType DEF Untraded
<1>3. delta \in Int /\ delta # 0
  BY <1>1
<1>4. \E A, B, C, D, E : side = [vault |-> A, engine |-> B, increased |-> C, realized |-> D,
                                  reverted |-> E]
  BY DEF trade
<1>5. \E F : r = [side EXCEPT !.reverted = F]
  BY DEF applyFill, limited
<1> HIDE DEF side, r
<1>6. r.vault = side.vault
  BY <1>4, <1>5
<1>7. r.engine \in EngineState
  <2>1. t \in Accounts
    BY HoldersPay
  <2>2. OneSide(v, e, r.vault, r.engine, f.market,
                IF long THEN f.size ELSE -f.size, IF long THEN n ELSE -n)
    BY <2>1, ApplyFillOneSide DEF r
  <2> QED BY <2>2 DEF OneSide
<1> HIDE DEF marked, delta, act
<1>8. Routed(v, side.vault, 0)
  BY <1>1, <1>2, <1>3, TradeRouted DEF side
<1> QED BY <1>6, <1>7, <1>8 DEF r

\* liquidationTransfer and adlTransfer.
LEMMA TransferPositionRouted ==
  ASSUME NEW from \in Holders, NEW to \in Holders, NEW m \in Markets, NEW size \in Nat,
         size > 0, NEW price \in Int, NEW ro,
         vault \in VaultState, engine \in EngineState
  PROVE  Routed(vault, transferPosition(from, to, m, size, price, ro).vault, 0)
<1> DEFINE delta  == IF engine.positions[from][m].size > 0 THEN -size ELSE size
           n      == mulPrecision(size, price)
           closed == trade(vault, engine, from, m, delta, price, n, TRUE, FALSE, TRUE)
           taken  == trade(closed.vault, closed.engine, to, m, -delta, price, n,
                           ro, FALSE, TRUE)
<1>1. transferPosition(from, to, m, size, price, ro).vault = taken.vault
  BY DEF transferPosition
<1>2. delta \in Int /\ delta # 0 /\ -delta \in Int /\ -delta # 0
  OBVIOUS
<1>3. n \in Int
  BY FixedPointInt
<1> HIDE DEF delta, n
<1>4. Routed(vault, closed.vault, 0)
  BY <1>2, <1>3, TradeRouted
<1>5. closed.engine \in EngineState /\ closed.vault \in VaultState
  <2>1. from \in Accounts
    BY HoldersPay
  <2>2. OneSide(vault, engine, closed.vault, closed.engine, m, delta, IF delta > 0 THEN n ELSE -n)
    BY <1>2, <1>3, <2>1, TradeOneSide
  <2> QED BY <2>2 DEF OneSide
<1> HIDE DEF closed
<1>6. Routed(closed.vault, taken.vault, 0)
  BY <1>2, <1>3, <1>5, TradeRouted
<1> HIDE DEF taken
<1>7. Routed(vault, taken.vault, 0 + 0)
  BY <1>4, <1>6, RoutedTwice
<1> QED BY <1>1, <1>7

-----------------------------------------------------------------------------
(* What is accrued against it.                                             *)

\* What the router owes the treasury and all referrers.
accruals(f) == f.treasuryAccrued + f.totalReferralAccrued

\* Schedules never pay takers (FeeRouter._checkRates).
TakerRates(f) ==
  /\ \A m \in Markets : f.marketRates[m].takerRate >= 0
  /\ \A k \in Tiers : f.tiers[k].takerRate >= 0

\* f2 is f with x more accrued.
Accrued(f, f2, x) ==
  /\ f2 \in FeeState
  /\ accruals(f2) = accruals(f) + x
  /\ f2.marketRates = f.marketRates /\ f2.tiers = f.tiers /\ f2.split = f.split

\* Accruals add up.
LEMMA AccruedTwice ==
  ASSUME NEW f \in FeeState, NEW f2, NEW f3, NEW x \in Int, NEW y \in Int,
         Accrued(f, f2, x), Accrued(f2, f3, y)
  PROVE  Accrued(f, f3, x + y)
<1>1. accruals(f) \in Int
  BY DEF accruals, FeeState
<1> QED BY <1>1 DEF Accrued

\* What _accrue adds to the sub-ledgers: all but the insurance share.
keptOf(f, x) == IF x <= 0 THEN 0 ELSE x - insuranceShare(f, x)

\* The referral share is inside what is kept.
LEMMA AccrueAdds ==
  ASSUME NEW f \in FeeState, NEW payer, NEW x \in Int, NEW r
  PROVE  Accrued(f, accrue(f, payer, x, r), keptOf(f, x))
<1> DEFINE toReferral == mulDiv(x, f.split.referralBps, BPS_DENOMINATOR)
           kept       == x - insuranceShare(f, x)
           credited   == f.referralsEnabled /\ r \in f.approvedReferrer /\ r # payer
           g          == accrue(f, payer, x, r)
<1>1. toReferral \in Int /\ kept \in Int
  BY InsuranceShareInt
<1>2. g \in FeeState /\ f.treasuryAccrued \in Int /\ f.totalReferralAccrued \in Int
  BY AccrueType DEF FeeState
<1>3. CASE x <= 0
  <2>1. g = f
    BY <1>3 DEF accrue
  <2> QED BY <1>2, <1>3, <2>1 DEF Accrued, accruals, keptOf
<1>4. CASE ~(x <= 0) /\ credited
  <2>1. g = [f EXCEPT !.treasuryAccrued = @ + (kept - toReferral),
                      !.referralAccrued[r] = @ + toReferral,
                      !.totalReferralAccrued = @ + toReferral]
    BY <1>4 DEF accrue
  <2>2. keptOf(f, x) = kept
    BY <1>4 DEF keptOf
  <2> HIDE DEF toReferral, kept, g
  <2>3. /\ g.treasuryAccrued = f.treasuryAccrued + (kept - toReferral)
        /\ g.totalReferralAccrued = f.totalReferralAccrued + toReferral
        /\ g.marketRates = f.marketRates /\ g.tiers = f.tiers /\ g.split = f.split
    BY <2>1 DEF FeeState
  <2>4. accruals(g) = accruals(f) + kept
    BY <1>1, <1>2, <2>3 DEF accruals
  <2> QED BY <1>2, <2>2, <2>3, <2>4 DEF Accrued, g
<1>5. CASE ~(x <= 0) /\ ~credited
  <2>1. g = [f EXCEPT !.treasuryAccrued = @ + kept]
    BY <1>5 DEF accrue
  <2>2. keptOf(f, x) = kept
    BY <1>5 DEF keptOf
  <2> HIDE DEF toReferral, kept, g
  <2>3. /\ g.treasuryAccrued = f.treasuryAccrued + kept
        /\ g.totalReferralAccrued = f.totalReferralAccrued
        /\ g.marketRates = f.marketRates /\ g.tiers = f.tiers /\ g.split = f.split
    BY <2>1 DEF FeeState
  <2>4. accruals(g) = accruals(f) + kept
    BY <1>1, <1>2, <2>3 DEF accruals
  <2> QED BY <1>2, <2>2, <2>3, <2>4 DEF Accrued, g
<1> QED BY <1>3, <1>4, <1>5

\* The rates of a fill: a taker pays, and the pair never nets below zero.
LEMMA RatesSigned ==
  ASSUME NEW f \in FeeState, TakerRates(f), NEW m \in Markets, NEW a \in Accounts,
         NEW b \in Accounts
  PROVE  LET r == effectiveRates(f, m, a, b)
         IN  r.taker \in Nat /\ r.maker \in Int /\ r.maker + r.taker >= 0
<1> DEFINE tr == rateFor(f, m, b).takerRate
           mr == rateFor(f, m, a).makerRate
<1>1. tr \in Int /\ mr \in Int /\ f.minNetRate \in Nat
  BY RateForType DEF FeeState
<1>2. tr >= 0
  <2>1. f.accountTier[b] \in Tiers \cup {0}
    BY DEF FeeState
  <2>2. f.accountTier[b] # 0 => f.accountTier[b] \in Tiers
    BY <2>1
  <2> QED BY <2>2 DEF rateFor, TakerRates
<1> HIDE DEF tr, mr
<1>3. effectiveRates(f, m, a, b).taker = tr
      /\ \E s \in Int : effectiveRates(f, m, a, b).maker
                          = IF s + tr < f.minNetRate THEN f.minNetRate - tr ELSE s
  <2>1. (IF mr < 0 /\ ~f.rebatesEnabled THEN 0 ELSE mr) \in Int
    BY <1>1
  <2> QED BY <2>1 DEF effectiveRates, tr, mr
<1> QED BY <1>1, <1>2, <1>3

\* Debits round up and rebates down, so no fill pays out more than it takes in.
LEMMA QuoteSigned ==
  ASSUME NEW f \in FeeState, TakerRates(f), NEW m \in Markets, NEW a \in Accounts,
         NEW b \in Accounts, NEW n \in Nat, n > 0
  PROVE  LET q == quote(f, m, a, b, n)
         IN  q.takerFee \in Nat /\ q.makerFee \in Int /\ q.takerFee + q.makerFee >= 0
<1> DEFINE r == effectiveRates(f, m, a, b)
           q == quote(f, m, a, b, n)
<1>1. r.taker \in Nat /\ r.maker \in Int /\ r.maker + r.taker >= 0
  BY RatesSigned
<1>2. q.takerFee = ceilMul(n, r.taker)
      /\ q.makerFee = IF r.maker >= 0 THEN ceilMul(n, r.maker)
                      ELSE -mulDiv(n, -r.maker, RATE_DENOMINATOR)
  BY DEF quote
<1> HIDE DEF r, q
<1>3. PICK D \in Nat \ {0} : D = RATE_DENOMINATOR
  BY ScalesPositive
<1>4. ASSUME NEW k \in Nat
      PROVE  ceilMul(n, k) \in Nat /\ n * k <= D * ceilMul(n, k)
  <2>1. CASE k = 0
    BY <2>1 DEF ceilMul
  <2>2. CASE k > 0
    <3>1. PICK x \in Nat : x = n * k - 1
      <4>1. n * k >= n /\ n * k \in Nat
        BY <2>2
      <4> QED BY <4>1
    <3>2. ceilMul(n, k) = (x \div D) + 1
      BY <1>3, <2>2, <3>1 DEF ceilMul, TruncDiv
    <3>3. x \div D \in Nat /\ x <= D * (x \div D) + (D - 1)
      BY DivBounds
    <3>4. PICK y \in Nat : y = x \div D
      BY <3>3
    <3>5. D * (y + 1) = D * y + D
      OBVIOUS
    <3>6. n * k \in Nat /\ D * y \in Nat
      OBVIOUS
    <3>7. n * k <= D * (y + 1)
      BY <3>1, <3>3, <3>4, <3>5, <3>6
    <3> QED BY <3>2, <3>4, <3>7
  <2> QED BY <2>1, <2>2
<1>5. q.takerFee \in Nat
  BY <1>1, <1>2, <1>4
<1>6. CASE r.maker >= 0
  <2>1. q.makerFee \in Nat
    BY <1>1, <1>2, <1>4, <1>6
  <2> QED BY <1>5, <2>1 DEF q
<1>7. CASE r.maker < 0
  <2>1. PICK k \in Nat : k = -r.maker /\ k <= r.taker
    BY <1>1, <1>7
  <2>2. PICK z \in Nat : z = n * k
    OBVIOUS
  <2>3. q.makerFee = -(z \div D)
    <3>1. mulDiv(n, k, D) = z \div D
      BY <2>2 DEF mulDiv, TruncDiv
    <3>2. ~(r.maker >= 0)
      BY <1>1, <1>7
    <3> QED BY <1>2, <1>3, <2>1, <3>1, <3>2
  <2>4. PICK y \in Nat : y = q.takerFee
    BY <1>5
  <2>5. n * k <= n * r.taker /\ n * r.taker <= D * y
    <3>1. n * r.taker <= D * y
      BY <1>1, <1>2, <1>4, <2>4
    <3>2. n * k <= n * r.taker
      BY <1>1, <2>1
    <3> QED BY <3>1, <3>2
  <2>6. z <= D * y
    <3>1. n * k \in Nat /\ n * r.taker \in Nat /\ D * y \in Nat
      BY <1>1
    <3> QED BY <2>2, <2>5, <3>1
  <2>7. z \div D <= y /\ z \div D \in Nat
    BY <2>6, DivBelow, DivBounds
  <2>8. PICK w \in Nat : w = z \div D /\ w <= y
    BY <2>7
  <2>9. q.makerFee = -w
    BY <2>3, <2>8
  <2> QED BY <2>4, <2>8, <2>9 DEF q
<1> QED BY <1>1, <1>6, <1>7

\* From the books v, f to v2, f2 the router receives at least what it accrues, and keeps
\* its schedules.
Covered(v, f, v2, f2) ==
  \E x \in Int, y \in Int : Routed(v, v2, x) /\ Accrued(f, f2, y) /\ y <= x

\* chargeFill: the taker's fee and the maker's, less the insurance share, is what the
\* treasury and the referrer are credited with.
LEMMA ChargeFillCovered ==
  ASSUME NEW v \in VaultState, NEW f \in FeeState, TakerRates(f), NEW m \in Markets,
         NEW a \in Holders, NEW b \in Holders, NEW n \in Nat, n > 0, NEW ra, NEW rb
  PROVE  LET c == chargeFill(v, f, m, a, b, n, ra, rb)
         IN  Covered(v, f, c.vault, c.fees)
<1> DEFINE q       == quote(f, m, a, b, n)
           tf      == q.takerFee
           mf      == q.makerFee
           charged == transferInternal(v, b, FEE_ROUTER, tf)
           paid    == IF mf > 0
                      THEN transferInternal(charged, a, FEE_ROUTER, mf)
                      ELSE transferInternal(charged, FEE_ROUTER, a, -mf)
           net     == tf + mf
           share   == IF mf > 0 THEN insuranceShare(f, mf) + insuranceShare(f, tf)
                      ELSE insuranceShare(f, net)
           both    == accrue(accrue(f, a, mf, ra), b, tf, rb)
           one     == accrue(f, b, net, rb)
           c       == chargeFill(v, f, m, a, b, n, ra, rb)
<1>1. /\ c.vault = transferInternal(paid, FEE_ROUTER, INSURANCE, share)
      /\ c.fees = IF mf > 0 THEN both ELSE one
  BY DEF chargeFill
<1>2. /\ a \in Accounts /\ b \in Accounts /\ a # FEE_ROUTER /\ b # FEE_ROUTER
      /\ INSURANCE \in Accounts /\ INSURANCE # FEE_ROUTER /\ FEE_ROUTER \in Accounts
  BY HoldersPay, HoldersAside
<1>3. tf \in Nat /\ mf \in Int /\ tf + mf >= 0
  BY <1>2, QuoteSigned
<1> HIDE DEF q, c, tf, mf
<1>4. net \in Int /\ -mf \in Int
  BY <1>3
<1>5. share \in Int /\ insuranceShare(f, mf) \in Int /\ insuranceShare(f, tf) \in Int
      /\ insuranceShare(f, net) \in Int
  BY <1>3, <1>4, InsuranceShareInt
<1>6. Routed(v, charged, tf)
  BY <1>2, <1>3, TransferRouted
<1> HIDE DEF charged
<1>7. charged \in VaultState
  BY <1>6 DEF Routed
<1>8. Routed(charged, paid, mf)
  <2>1. Routed(charged, transferInternal(charged, a, FEE_ROUTER, mf), mf)
    BY <1>2, <1>3, <1>7, TransferRouted
  <2>2. Routed(charged, transferInternal(charged, FEE_ROUTER, a, -mf), -(-mf))
    BY <1>2, <1>4, <1>7, TransferRouted
  <2>3. -(-mf) = mf
    BY <1>3
  <2> QED BY <2>1, <2>2, <2>3
<1> HIDE DEF paid
<1>9. paid \in VaultState
  BY <1>8 DEF Routed
<1>10. Routed(paid, c.vault, -share)
  <2> HIDE DEF share
  <2> QED BY <1>1, <1>2, <1>5, <1>9, TransferRouted
<1>11. Routed(v, c.vault, (tf + mf) + (-share))
  <2> HIDE DEF share, net
  <2>1. Routed(v, paid, tf + mf)
    BY <1>3, <1>6, <1>7, <1>8, RoutedTwice
  <2>2. tf + mf \in Int /\ -share \in Int
    BY <1>3, <1>5
  <2> QED BY <1>10, <2>1, <2>2, RoutedTwice
<1>12. CASE mf > 0
  <2> DEFINE g == accrue(f, a, mf, ra)
  <2>1. Accrued(f, g, keptOf(f, mf))
    BY <1>3, AccrueAdds
  <2>2. g \in FeeState /\ g.split = f.split
    BY <2>1 DEF Accrued
  <2>3. c.fees = accrue(g, b, tf, rb)
    BY <1>1, <1>12
  <2> HIDE DEF g, both
  <2>4. Accrued(g, c.fees, keptOf(g, tf))
    BY <1>3, <2>2, <2>3, AccrueAdds
  <2>5. keptOf(g, tf) = keptOf(f, tf)
    BY <2>2 DEF keptOf, insuranceShare
  <2>6. keptOf(f, tf) \in Int /\ keptOf(f, mf) \in Int
        /\ keptOf(f, tf) <= tf - insuranceShare(f, tf)
        /\ keptOf(f, mf) = mf - insuranceShare(f, mf)
    <3>1. tf = 0 => insuranceShare(f, tf) = 0
      BY DEF insuranceShare
    <3> QED BY <1>3, <1>5, <1>12, <3>1 DEF keptOf
  <2>7. Accrued(f, c.fees, keptOf(f, mf) + keptOf(f, tf))
    BY <2>1, <2>2, <2>4, <2>5, <2>6, AccruedTwice
  <2>8. share = insuranceShare(f, mf) + insuranceShare(f, tf)
    BY <1>12
  <2> HIDE DEF share, net
  <2>9. PICK x \in Int : x = (tf + mf) + (-share)
    BY <1>3, <1>5
  <2>10. PICK y \in Int : y = keptOf(f, mf) + keptOf(f, tf)
    BY <2>6
  <2>11. y <= x
    BY <1>3, <1>5, <2>6, <2>8, <2>9, <2>10
  <2> QED BY <1>11, <2>7, <2>9, <2>10, <2>11 DEF Covered, c
<1>13. CASE ~(mf > 0)
  <2>1. c.fees = one
    BY <1>1, <1>13
  <2>2. Accrued(f, one, keptOf(f, net))
    BY <1>4, AccrueAdds
  <2>3. share = insuranceShare(f, net) /\ net = tf + mf
    BY <1>13
  <2> HIDE DEF share, net, one
  <2>4. net = 0 => insuranceShare(f, net) = 0
    BY DEF insuranceShare
  <2>5. keptOf(f, net) = net - insuranceShare(f, net) /\ net >= 0
    BY <1>3, <1>4, <1>5, <2>3, <2>4 DEF keptOf
  <2>6. PICK x \in Int : x = (tf + mf) + (-share) /\ x = keptOf(f, net)
    BY <1>3, <1>4, <1>5, <2>3, <2>5
  <2> QED BY <1>11, <2>1, <2>2, <2>6 DEF Covered, c
<1> QED BY <1>12, <1>13

\* chargePenalty: what the liquidator does not get passes through the router.
LEMMA PenaltyCovered ==
  ASSUME NEW v \in VaultState, feeRouter \in FeeState, NEW m \in Markets, NEW t \in Holders,
         NEW l \in Holders, NEW size \in Int, NEW price \in Int
  PROVE  LET c == chargePenalty(v, m, t, l, size, price)
         IN  Covered(v, feeRouter, c.vault, c.fees)
<1> DEFINE reward   == rewardOn(m, size, price)
           rest     == penaltyOn(m, size, price) - reward
           rewarded == transferInternal(v, t, l, reward)
           paid     == transferInternal(rewarded, t, FEE_ROUTER, rest)
           share    == mulDiv(rest, feeRouter.liquidationInsuranceBps, BPS_DENOMINATOR)
           c        == chargePenalty(v, m, t, l, size, price)
<1>1. notional(size, price) \in Int
  BY FixedPointInt DEF notional
<1>2. MarketParams[m].liquidationFeeBps \in Int /\ maxRewardBps \in Int
  BY EngineConfig, Deployment DEF MarketConfig
<1>3. penaltyOn(m, size, price) \in Int
  BY <1>1, <1>2, FixedPointInt DEF penaltyOn
<1>4. applyBps(notional(size, price), maxRewardBps) \in Int
  BY <1>1, <1>2, FixedPointInt
<1>5. reward \in Int
  BY <1>3, <1>4, AbsMinMaxInt DEF rewardOn
<1>6. rest \in Int
  BY <1>3, <1>5
<1>7. /\ c.vault = transferInternal(paid, FEE_ROUTER, INSURANCE, share)
      /\ c.fees = [feeRouter EXCEPT !.treasuryAccrued = @ + (rest - share)]
  BY DEF chargePenalty, accrueLiquidationFee
<1> HIDE DEF reward, rest, c
<1>9. share \in Int
  BY <1>6, InsuranceShareInt
<1> HIDE DEF share
<1>8. c.fees \in FeeState
  <2>1. rest - share \in Int
    BY <1>6, <1>9
  <2> QED BY <1>7, <2>1, AccrueTreasury
<1>10. t \in Accounts /\ l \in Accounts /\ t # FEE_ROUTER /\ l # FEE_ROUTER
      /\ INSURANCE \in Accounts /\ INSURANCE # FEE_ROUTER /\ FEE_ROUTER \in Accounts
  BY HoldersPay, HoldersAside
<1>11. Routed(v, rewarded, 0)
  BY <1>5, <1>10, TransferRouted
<1>12. rewarded \in VaultState
  BY <1>11 DEF Routed
<1> HIDE DEF rewarded
<1>13. Routed(rewarded, paid, rest)
  BY <1>6, <1>10, <1>12, TransferRouted
<1>14. paid \in VaultState
  BY <1>13 DEF Routed
<1> HIDE DEF paid
<1>15. Routed(paid, c.vault, -share)
  BY <1>7, <1>9, <1>10, <1>14, TransferRouted
<1>16. PICK x \in Int : x = (0 + rest) + (-share)
  BY <1>6, <1>9
<1>17. Routed(v, c.vault, x)
  <2>1. Routed(v, paid, 0 + rest)
    BY <1>6, <1>11, <1>12, <1>13, RoutedTwice
  <2>2. 0 + rest \in Int /\ -share \in Int
    BY <1>6, <1>9
  <2> QED BY <1>15, <1>16, <2>1, <2>2, RoutedTwice
<1>18. Accrued(feeRouter, c.fees, x)
  <2>1. feeRouter.treasuryAccrued \in Int /\ feeRouter.totalReferralAccrued \in Int
    BY DEF FeeState
  <2>2. /\ c.fees.treasuryAccrued = feeRouter.treasuryAccrued + (rest - share)
        /\ c.fees.totalReferralAccrued = feeRouter.totalReferralAccrued
        /\ c.fees.marketRates = feeRouter.marketRates /\ c.fees.tiers = feeRouter.tiers
        /\ c.fees.split = feeRouter.split
    BY <1>7 DEF FeeState
  <2>3. accruals(c.fees) = accruals(feeRouter) + x
    BY <1>6, <1>9, <1>16, <2>1, <2>2 DEF accruals
  <2> QED BY <1>8, <2>2, <2>3 DEF Accrued
<1> QED BY <1>17, <1>18 DEF Covered, c

-----------------------------------------------------------------------------
(* Fees, transaction by transaction.                                       *)

\* What the fee router's promises stand on.
FeesSound == TakerRates(feeRouter) /\ FeesBacked

\* Covered changes of the ledger and the sub-ledgers keep the promises.
LEMMA CoveredStep ==
  ASSUME CoreInv, FeesSound, Covered(vault, feeRouter, vault', feeRouter')
  PROVE  FeesSound'
<1>1. PICK x \in Int, y \in Int :
        Routed(vault, vault', x) /\ Accrued(feeRouter, feeRouter', y) /\ y <= x
  BY DEF Covered
<1>2. vault.balances[FEE_ROUTER] \in Int /\ accruals(feeRouter) \in Int
  BY ProtocolAccounts DEF CoreInv, TypeOK, VaultState, FeeState, accruals
<1>3. vault'.balances[FEE_ROUTER] >= accruals(feeRouter')
  BY <1>1, <1>2 DEF FeesSound, FeesBacked, accruals, Routed, Accrued
<1> QED BY <1>1, <1>3 DEF FeesSound, FeesBacked, accruals, Accrued, TakerRates

\* A transaction of the ledger alone that takes nothing from the router.
LEMMA RoutedStep ==
  ASSUME CoreInv, FeesSound, NEW x \in Nat, Routed(vault, vault', x), feeRouter' = feeRouter
  PROVE  FeesSound'
<1>1. feeRouter \in FeeState /\ accruals(feeRouter) \in Int
  BY DEF CoreInv, TypeOK, FeeState, accruals
<1>2. Accrued(feeRouter, feeRouter', 0)
  BY <1>1 DEF Accrued
<1>3. 0 \in Int /\ x \in Int /\ 0 <= x
  OBVIOUS
<1> QED BY <1>2, <1>3, CoveredStep DEF Covered

\* One that leaves the balances alone.
LEMMA AsideStep ==
  ASSUME CoreInv, FeesSound, vault' \in VaultState, vault'.balances = vault.balances,
         feeRouter' = feeRouter
  PROVE  FeesSound'
<1>1. Routed(vault, vault', 0)
  BY ProtocolAccounts DEF CoreInv, TypeOK, VaultState, Routed
<1> QED BY <1>1, RoutedStep

\* A deposit.
LEMMA CreditFees ==
  ASSUME CoreInv, FeesSound, NEW a \in Accounts, NEW n \in Nat,
         vault' = credit(vault, a, n), feeRouter' = feeRouter
  PROVE  FeesSound'
<1>1. PICK x \in Nat : x = toInternal(n)
  BY ToInternalNat
<1>2. /\ vault' \in VaultState
      /\ vault'.balances = [vault.balances EXCEPT ![a] = vault.balances[a] + x]
  BY <1>1, CreditSummed DEF CoreInv, TypeOK
<1>3. vault.balances \in [Accounts -> Int]
  BY DEF CoreInv, TypeOK, VaultState
<1>4. Routed(vault, vault', IF a = FEE_ROUTER THEN x ELSE 0)
  BY <1>2, <1>3, ProtocolAccounts DEF Routed
<1> QED BY <1>4, RoutedStep

\* A payout from another account.
LEMMA DebitFees ==
  ASSUME CoreInv, FeesSound, NEW a \in Accounts, a # FEE_ROUTER, NEW n \in Nat,
         mayWithdraw(vault, a, n), vault' = debit(vault, a, n), feeRouter' = feeRouter
  PROVE  FeesSound'
<1>1. n <= vault.custody
  BY LedgerInt DEF CoreInv, TypeOK, mayWithdraw
<1>2. /\ vault' \in VaultState
      /\ vault'.balances = [vault.balances EXCEPT ![a] = vault.balances[a] - toInternal(n)]
  BY <1>1, DebitSummed DEF CoreInv, TypeOK
<1>3. vault.balances \in [Accounts -> Int]
  BY DEF CoreInv, TypeOK, VaultState
<1>4. Routed(vault, vault', 0)
  BY <1>2, <1>3, ProtocolAccounts DEF Routed
<1> QED BY <1>4, RoutedStep

\* A claim lowers the balance and a sub-ledger by the same amount.
LEMMA ClaimFees ==
  ASSUME CoreInv, FeesSound, NEW n \in Nat, mayWithdraw(vault, FEE_ROUTER, n),
         vault' = debit(vault, FEE_ROUTER, n), feeRouter' \in FeeState,
         accruals(feeRouter') = accruals(feeRouter) - toInternal(n),
         feeRouter'.marketRates = feeRouter.marketRates, feeRouter'.tiers = feeRouter.tiers,
         feeRouter'.split = feeRouter.split
  PROVE  FeesSound'
<1>1. n <= vault.custody
  BY LedgerInt DEF CoreInv, TypeOK, mayWithdraw
<1>2. PICK x \in Nat : x = toInternal(n)
  BY ToInternalNat
<1>3. /\ vault' \in VaultState
      /\ vault'.balances
           = [vault.balances EXCEPT ![FEE_ROUTER] = vault.balances[FEE_ROUTER] - x]
  BY <1>1, <1>2, DebitSummed, ProtocolAccounts DEF CoreInv, TypeOK
<1>4. vault.balances \in [Accounts -> Int] /\ accruals(feeRouter) \in Int
  BY DEF CoreInv, TypeOK, VaultState, FeeState, accruals
<1>5. Routed(vault, vault', -x) /\ Accrued(feeRouter, feeRouter', -x)
  BY <1>2, <1>3, <1>4, ProtocolAccounts DEF Routed, Accrued
<1>6. -x \in Int /\ -x <= -x
  OBVIOUS
<1> QED BY <1>5, <1>6, CoveredStep DEF Covered

\* A fill.
LEMMA SettleFillFees ==
  ASSUME CoreInv, FeesSound, NEW f \in Fills, SettleFill(f)
  PROVE  FeesSound'
<1> DEFINE n     == mulPrecision(f.size, f.price)
           maker == applyFill(vault, engine, f, f.maker, f.makerLong, f.makerReduceOnly, n)
           taker == applyFill(maker.vault, maker.engine, f, f.taker, ~f.makerLong,
                              f.takerReduceOnly, n)
           charged == chargeFill(taker.vault, feeRouter, f.market, f.maker, f.taker, n,
                                 f.makerReferrer, f.takerReferrer)
<1>1. f.size > 0 /\ n > 0 /\ ChargeFees(f, n, maker, taker)
  BY DEF SettleFill, ApplyTaker, validFill
<1>2. /\ f \in Fill
      /\ f.size \in Int /\ f.price \in Int /\ f.market \in Markets
      /\ f.makerLong \in BOOLEAN /\ (~f.makerLong) \in BOOLEAN
      /\ f.maker \in Holders /\ f.taker \in Holders
  BY Inputs DEF Fill, Holders
<1>3. n \in Int
  BY <1>2, FixedPointInt
<1> HIDE DEF n
<1>4. n \in Nat
  BY <1>1, <1>3
<1>5. vault \in VaultState /\ engine \in EngineState /\ feeRouter \in FeeState /\ now \in Int
  BY DEF CoreInv, TypeOK
<1>6. Routed(vault, maker.vault, 0) /\ maker.engine \in EngineState
  BY <1>1, <1>2, <1>3, <1>5, ApplyFillRouted
<1> HIDE DEF maker
<1>7. maker.vault \in VaultState
  BY <1>6 DEF Routed
<1>8. Routed(maker.vault, taker.vault, 0)
  BY <1>1, <1>2, <1>3, <1>5, <1>6, <1>7, ApplyFillRouted
<1> HIDE DEF taker
<1>9. taker.vault \in VaultState
  BY <1>8 DEF Routed
<1>10. Covered(taker.vault, feeRouter, charged.vault, charged.fees)
  BY <1>1, <1>2, <1>4, <1>5, <1>9, ChargeFillCovered DEF FeesSound
<1>11. PICK x \in Int, y \in Int :
         Routed(taker.vault, charged.vault, x) /\ Accrued(feeRouter, charged.fees, y) /\ y <= x
  BY <1>10 DEF Covered
<1>12. Routed(vault, charged.vault, (0 + 0) + x)
  <2> HIDE DEF charged
  <2>1. Routed(vault, taker.vault, 0 + 0)
    BY <1>5, <1>6, <1>8, RoutedTwice
  <2>2. 0 + 0 \in Int
    OBVIOUS
  <2> QED BY <1>5, <1>11, <2>1, <2>2, RoutedTwice
<1>13. vault' = charged.vault /\ feeRouter' = charged.fees
  BY <1>1 DEF ChargeFees, CheckMargins, Settle
<1> HIDE DEF charged
<1>14. (0 + 0) + x = x
  OBVIOUS
<1> QED BY <1>11, <1>12, <1>13, <1>14, CoveredStep DEF Covered

\* Covering a deficit never takes from the router.
LEMMA CoverRouted ==
  ASSUME NEW v \in VaultState, NEW i \in InsuranceState, NEW a \in Accounts
  PROVE  /\ a # FEE_ROUTER => Routed(v, settleBadDebt(v, i, a).vault, 0)
         /\ \E x \in Nat : Routed(v, settleBadDebt(v, i, a).vault, x)
<1>1. v.balances[INSURANCE] \in Int /\ v.balances[a] \in Int /\ i.stakedBalance \in Nat
  BY ProtocolAccounts DEF VaultState, InsuranceState
<1>2. covered(v, i, a) \in Nat
  BY <1>1 DEF covered, owed, operatingBalance, min, max
<1>3. INSURANCE \in Accounts /\ INSURANCE # FEE_ROUTER
  BY HoldersPay, HoldersAside
<1>4. PICK x \in Nat : x = covered(v, i, a)
  BY <1>2
<1>5. Routed(v, transferInternal(v, INSURANCE, a, x),
             IF INSURANCE = a THEN 0 ELSE IF a = FEE_ROUTER THEN x ELSE 0)
  BY <1>3, TransferRouted
<1>6. settleBadDebt(v, i, a).vault = transferInternal(v, INSURANCE, a, x)
  BY <1>4 DEF settleBadDebt
<1> QED BY <1>5, <1>6

\* A liquidation.
LEMMA LiquidateFees ==
  ASSUME CoreInv, FeesSound, NEW l \in Traders, NEW t \in Traders, NEW m \in Markets,
         NEW k \in MaxSizes, Liquidate(l, t, m, k)
  PROVE  FeesSound'
<1>1. PICK size \in 1..abs(engine.positions[t][m].size) :
        Settle(liquidation(l, t, m, size))
  BY DEF Liquidate, Conclude
<1> DEFINE moved   == transferPosition(t, INSURANCE, m, size, prices[m], FALSE)
           charged == chargePenalty(moved.vault, m, t, l, size, prices[m])
           deficit == moved.engine.marketBitmap[t] = {} /\ charged.vault.balances[t] < 0
           bad     == settleBadDebt(charged.vault, insurance, t)
<1>2. /\ vault \in VaultState /\ engine \in EngineState /\ feeRouter \in FeeState
      /\ insurance \in InsuranceState /\ prices[m] \in Int
  BY DEF CoreInv, TypeOK
<1>3. t \in Holders /\ l \in Holders /\ INSURANCE \in Holders /\ t \in Accounts
      /\ t # FEE_ROUTER
  BY HoldersPay, HoldersAside
<1>4. size \in Nat /\ size > 0 /\ size \in Int
  <2>1. abs(engine.positions[t][m].size) \in Nat
    BY <1>2, <1>3, EngineFields, AbsNat
  <2> QED BY <2>1
<1>5. /\ vault' = IF deficit THEN bad.vault ELSE charged.vault
      /\ feeRouter' = charged.fees
  <2>1. liquidation(l, t, m, size) = concluded(t, moved, charged, deficit)
    BY DEF liquidation, transferred, penalized
  <2> HIDE DEF moved, charged, deficit
  <2> QED BY <1>1, <2>1 DEF concluded, Settle
<1>6. Routed(vault, moved.vault, 0)
  BY <1>2, <1>3, <1>4, TransferPositionRouted
<1> HIDE DEF moved
<1>7. moved.vault \in VaultState
  BY <1>6 DEF Routed
<1>8. Covered(moved.vault, feeRouter, charged.vault, charged.fees)
  BY <1>2, <1>3, <1>4, <1>7, PenaltyCovered
<1>9. PICK x \in Int, y \in Int :
        /\ Routed(moved.vault, charged.vault, x)
        /\ Accrued(feeRouter, charged.fees, y) /\ y <= x
  BY <1>8 DEF Covered
<1> HIDE DEF charged
<1>10. charged.vault \in VaultState
  BY <1>9 DEF Routed
<1>11. Routed(charged.vault, bad.vault, 0)
  BY <1>2, <1>3, <1>10, CoverRouted
<1> HIDE DEF deficit, bad
<1>12. Routed(charged.vault, vault', 0)
  <2>1. Routed(charged.vault, charged.vault, 0)
    BY <1>10, ProtocolAccounts DEF Routed, VaultState
  <2> QED BY <1>5, <1>11, <2>1
<1>13. Routed(vault, vault', (0 + x) + 0)
  <2>1. Routed(vault, charged.vault, 0 + x)
    BY <1>2, <1>6, <1>9, RoutedTwice
  <2>2. 0 + x \in Int
    OBVIOUS
  <2> QED BY <1>2, <1>12, <2>1, <2>2, RoutedTwice
<1>14. (0 + x) + 0 = x
  OBVIOUS
<1> QED BY <1>5, <1>9, <1>13, <1>14, CoveredStep DEF Covered

\* An auto-deleveraging.
LEMMA AdlFees ==
  ASSUME CoreInv, FeesSound, NEW t \in Traders, NEW m \in Markets, NEW k \in MaxSizes,
         Adl(t, m, k)
  PROVE  FeesSound'
<1>1. PICK size \in 1..abs(engine.positions[t][m].size) :
        LET moved == transferPosition(t, INSURANCE, m, size, prices[m], TRUE)
        IN  \E haircut \in Int :
              vault' = transferInternal(moved.vault, t, INSURANCE, haircut)
  BY Zenon DEF Adl
<1> DEFINE moved == transferPosition(t, INSURANCE, m, size, prices[m], TRUE)
<1>2. PICK haircut \in Int : vault' = transferInternal(moved.vault, t, INSURANCE, haircut)
  BY <1>1
<1>3. vault \in VaultState /\ engine \in EngineState /\ prices[m] \in Int
  BY DEF CoreInv, TypeOK
<1>4. t \in Holders /\ INSURANCE \in Holders /\ t \in Accounts /\ INSURANCE \in Accounts
      /\ t # FEE_ROUTER /\ INSURANCE # FEE_ROUTER
  BY HoldersPay, HoldersAside
<1>5. size \in Nat /\ size > 0
  <2>1. abs(engine.positions[t][m].size) \in Nat
    BY <1>3, <1>4, EngineFields, AbsNat
  <2> QED BY <2>1
<1>6. Routed(vault, moved.vault, 0)
  BY <1>3, <1>4, <1>5, TransferPositionRouted
<1> HIDE DEF moved
<1>7. moved.vault \in VaultState
  BY <1>6 DEF Routed
<1>8. Routed(moved.vault, vault', 0)
  BY <1>2, <1>4, <1>7, TransferRouted
<1>9. Routed(vault, vault', 0 + 0)
  BY <1>3, <1>6, <1>8, RoutedTwice
<1>10. feeRouter' = feeRouter
  BY DEF Adl
<1> QED BY <1>9, <1>10, RoutedStep

\* The fee admin's and the tier keeper's setters leave the sub-ledgers alone, and a new
\* schedule never pays takers.
LEMMA FeeAdminFees ==
  ASSUME CoreInv, FeesSound, FeeGovernance \/ Revenue
  PROVE  FeesSound'
<1>1. feeRouter \in FeeState
  BY DEF CoreInv, TypeOK
<1>2. /\ feeRouter.marketRates \in [Markets -> Rates] /\ feeRouter.tiers \in [Tiers -> Rates]
      /\ accruals(feeRouter) <= vault.balances[FEE_ROUTER]
      /\ TakerRates(feeRouter)
      /\ vault.balances[FEE_ROUTER] \in Int /\ accruals(feeRouter) \in Int
  BY <1>1, ProtocolAccounts DEF FeeState, FeesSound, FeesBacked, accruals, CoreInv, TypeOK, VaultState
<1>3. ASSUME NEW f, FeeAdmin(f), f.treasuryAccrued = feeRouter.treasuryAccrued,
             f.totalReferralAccrued = feeRouter.totalReferralAccrued, TakerRates(f)
      PROVE  FeesSound'
  <2>1. vault' = vault /\ feeRouter' = f
    BY <1>3 DEF FeeAdmin
  <2> QED BY <1>2, <1>3, <2>1 DEF FeesSound, FeesBacked, accruals, TakerRates
<1>4. ASSUME NEW m \in Markets, NEW s \in Schedules, SetMarketFees(m, s[1], s[2])
      PROVE  FeesSound'
  <2> DEFINE r == [makerRate |-> s[1], takerRate |-> s[2], set |-> TRUE]
             w == [feeRouter.marketRates EXCEPT ![m] = r]
             f == [feeRouter EXCEPT !.marketRates = w]
  <2>1. FeeAdmin(f) /\ r.takerRate >= 0
    BY <1>4 DEF SetMarketFees, setMarketFees, checkRates
  <2>2. \A k \in Markets : w[k].takerRate >= 0
    <3>1. \A k \in Markets : w[k] = IF k = m THEN r ELSE feeRouter.marketRates[k]
      BY <1>2
    <3> HIDE DEF r, w
    <3> QED BY <1>2, <2>1, <3>1 DEF TakerRates
  <2> HIDE DEF r, w
  <2>3. /\ f.treasuryAccrued = feeRouter.treasuryAccrued
        /\ f.totalReferralAccrued = feeRouter.totalReferralAccrued
        /\ f.marketRates = w /\ f.tiers = feeRouter.tiers
    BY <1>1 DEF FeeState
  <2> HIDE DEF f
  <2> QED BY <1>2, <1>3, <2>1, <2>2, <2>3 DEF TakerRates
<1>5. ASSUME NEW k \in Tiers, NEW s \in Schedules, DefineTier(k, s[1], s[2])
      PROVE  FeesSound'
  <2> DEFINE r == [makerRate |-> s[1], takerRate |-> s[2], set |-> TRUE]
             w == [feeRouter.tiers EXCEPT ![k] = r]
             f == [feeRouter EXCEPT !.tiers = w]
  <2>1. FeeAdmin(f) /\ r.takerRate >= 0
    BY <1>5 DEF DefineTier, defineTier, checkRates
  <2>2. \A j \in Tiers : w[j].takerRate >= 0
    <3>1. \A j \in Tiers : w[j] = IF j = k THEN r ELSE feeRouter.tiers[j]
      BY <1>2
    <3> HIDE DEF r, w
    <3> QED BY <1>2, <2>1, <3>1 DEF TakerRates
  <2> HIDE DEF r, w
  <2>3. /\ f.treasuryAccrued = feeRouter.treasuryAccrued
        /\ f.totalReferralAccrued = feeRouter.totalReferralAccrued
        /\ f.tiers = w /\ f.marketRates = feeRouter.marketRates
    BY <1>1 DEF FeeState
  <2> HIDE DEF f
  <2> QED BY <1>2, <1>3, <2>1, <2>2, <2>3 DEF TakerRates
<1>6. ASSUME NEW f, FeeAdmin(f), f.treasuryAccrued = feeRouter.treasuryAccrued,
             f.totalReferralAccrued = feeRouter.totalReferralAccrued,
             f.marketRates = feeRouter.marketRates, f.tiers = feeRouter.tiers
      PROVE  FeesSound'
  BY <1>2, <1>3, <1>6 DEF TakerRates
<1>7. ASSUME NEW t \in Traders, NEW k \in Tiers \cup {0}, SetAccountTier(t, k)
      PROVE  FeesSound'
  BY <1>1, <1>6, <1>7 DEF SetAccountTier, FeeState
<1>8. ASSUME NEW x \in NetRates, SetMinNetRate(x) PROVE FeesSound'
  BY <1>1, <1>6, <1>8 DEF SetMinNetRate, FeeState
<1>9. ASSUME NEW b \in BOOLEAN, SetRebatesEnabled(b) PROVE FeesSound'
  BY <1>1, <1>6, <1>9 DEF SetRebatesEnabled, FeeState
<1>10. ASSUME NEW b \in BOOLEAN, SetReferralsEnabled(b) PROVE FeesSound'
  BY <1>1, <1>6, <1>10 DEF SetReferralsEnabled, FeeState
<1>11. ASSUME NEW r \in Traders, NEW b \in BOOLEAN, SetReferrerApproved(r, b) PROVE FeesSound'
  BY <1>1, <1>6, <1>11 DEF SetReferrerApproved, FeeState
<1>12. ASSUME NEW s \in Splits, SetSplit(s[1], s[2]) PROVE FeesSound'
  BY <1>1, <1>6, <1>12 DEF SetSplit, FeeState
<1>13. ASSUME NEW n \in LiquidationSplits, SetLiquidationSplit(n) PROVE FeesSound'
  BY <1>1, <1>6, <1>13 DEF SetLiquidationSplit, FeeState
<1>14. CASE FeeGovernance
  BY <1>4, <1>5, <1>7, <1>8, <1>9, <1>14 DEF FeeGovernance
<1>15. CASE Revenue
  BY <1>10, <1>11, <1>12, <1>13, <1>15 DEF Revenue
<1> QED BY <1>14, <1>15

\* The claims.
LEMMA ClaimingFees ==
  ASSUME CoreInv, FeesSound, Claiming
  PROVE  FeesSound'
<1>1. feeRouter \in FeeState
      /\ feeRouter.treasuryAccrued \in Int /\ feeRouter.totalReferralAccrued \in Int
      /\ \A r \in Traders : feeRouter.referralAccrued[r] \in Int
  BY DEF CoreInv, TypeOK, FeeState
<1>2. feeRouter' \in FeeState
  BY NextCore DEF CoreInv, TypeOK, Next
<1>3. CASE ClaimTreasury
  <2> DEFINE n == toTokenDown(feeRouter.treasuryAccrued)
  <2>1. /\ feeRouter.treasuryAccrued >= 0 /\ mayWithdraw(vault, FEE_ROUTER, n)
        /\ vault' = debit(vault, FEE_ROUTER, n)
        /\ feeRouter' = [feeRouter EXCEPT !.treasuryAccrued = @ - toInternal(n)]
    BY <1>3 DEF ClaimTreasury
  <2>2. n \in Nat
    BY <1>1, <2>1, ClaimAmount
  <2> HIDE DEF n
  <2>3. toInternal(n) \in Int
    BY <2>2, ToInternalNat
  <2>4. /\ feeRouter'.treasuryAccrued = feeRouter.treasuryAccrued - toInternal(n)
        /\ feeRouter'.totalReferralAccrued = feeRouter.totalReferralAccrued
        /\ feeRouter'.marketRates = feeRouter.marketRates
        /\ feeRouter'.tiers = feeRouter.tiers /\ feeRouter'.split = feeRouter.split
    BY <1>1, <2>1 DEF FeeState
  <2>5. accruals(feeRouter') = accruals(feeRouter) - toInternal(n)
    BY <1>1, <2>3, <2>4 DEF accruals
  <2> QED BY <1>2, <2>1, <2>2, <2>4, <2>5, ClaimFees
<1>4. ASSUME NEW r \in Traders, ClaimReferral(r) PROVE FeesSound'
  <2> DEFINE n == toTokenDown(feeRouter.referralAccrued[r])
  <2>1. /\ feeRouter.referralAccrued[r] >= 0 /\ mayWithdraw(vault, FEE_ROUTER, n)
        /\ vault' = debit(vault, FEE_ROUTER, n)
        /\ feeRouter' = [feeRouter EXCEPT !.referralAccrued[r] = @ - toInternal(n),
                                          !.totalReferralAccrued = @ - toInternal(n)]
    BY <1>4 DEF ClaimReferral
  <2>2. n \in Nat
    BY <1>1, <2>1, ClaimAmount
  <2> HIDE DEF n
  <2>3. toInternal(n) \in Int
    BY <2>2, ToInternalNat
  <2>4. /\ feeRouter'.treasuryAccrued = feeRouter.treasuryAccrued
        /\ feeRouter'.totalReferralAccrued = feeRouter.totalReferralAccrued - toInternal(n)
        /\ feeRouter'.marketRates = feeRouter.marketRates
        /\ feeRouter'.tiers = feeRouter.tiers /\ feeRouter'.split = feeRouter.split
    BY <1>1, <2>1 DEF FeeState
  <2>5. accruals(feeRouter') = accruals(feeRouter) - toInternal(n)
    BY <1>1, <2>3, <2>4 DEF accruals
  <2> QED BY <1>2, <2>1, <2>2, <2>4, <2>5, ClaimFees
<1> QED BY <1>3, <1>4 DEF Claiming

\* Every step keeps accrued fees claimable.
LEMMA NextFees ==
  ASSUME CoreInv, FeesSound, [Next]_vars
  PROVE  FeesSound'
<1>1. ASSUME vault' = vault, feeRouter' = feeRouter PROVE FeesSound'
  BY <1>1 DEF FeesSound, FeesBacked, TakerRates
<1>2. CASE UNCHANGED vars
  BY <1>1, <1>2 DEF vars
<1>3. ASSUME NEW a \in Accounts, NEW n \in Amounts, Deposit(a, n) PROVE FeesSound'
  <2>1. vault' = credit(vault, a, n) /\ feeRouter' = feeRouter /\ n \in Nat
    BY <1>3, Inputs DEF Deposit
  <2> QED BY <2>1, CreditFees
<1>4. CASE Banking
  <2>1. ASSUME NEW t \in Traders, NEW n \in Amounts, Withdraw(t, n) PROVE FeesSound'
    <3>1. mayWithdraw(vault, t, n) /\ vault' = debit(vault, t, n) /\ feeRouter' = feeRouter
          /\ n \in Nat
      BY <2>1, Inputs DEF Withdraw
    <3>2. t \in Accounts /\ t # FEE_ROUTER
      BY HoldersPay, HoldersAside
    <3> QED BY <3>1, <3>2, DebitFees
  <2> QED BY <1>3, <1>4, <2>1 DEF Banking
<1>5. CASE Trading
  <2>1. ASSUME NEW m \in Markets, NEW p \in Prices, SetPrice(m, p) PROVE FeesSound'
    BY <1>1, <2>1 DEF SetPrice
  <2> QED BY <1>5, <2>1, SettleFillFees DEF Trading
<1>6. CASE Liquidating
  <2>1. ASSUME NEW a \in Accounts, SettleBadDebt(a) PROVE FeesSound'
    <3>1. vault' = settleBadDebt(vault, insurance, a).vault /\ feeRouter' = feeRouter
      BY <2>1 DEF SettleBadDebt
    <3>2. \E x \in Nat : Routed(vault, vault', x)
      BY <3>1, CoverRouted DEF CoreInv, TypeOK
    <3> QED BY <3>1, <3>2, RoutedStep
  <2> QED BY <1>6, <2>1, LiquidateFees, AdlFees DEF Liquidating
<1>7. CASE Staking
  <2>1. ASSUME NEW n \in Amounts, Donate(n) PROVE FeesSound'
    BY <1>3, <2>1, ProtocolAccounts DEF Donate
  <2>2. ASSUME NEW t \in Traders, NEW n \in Amounts, Stake(t, n) PROVE FeesSound'
    <3>1. vault' = credit(vault, INSURANCE, n) /\ feeRouter' = feeRouter /\ n \in Nat
      BY <2>2, Inputs DEF Stake
    <3> QED BY <3>1, CreditFees, ProtocolAccounts
  <2>3. ASSUME NEW t \in Traders, WithdrawUnstaked(t) PROVE FeesSound'
    <3> DEFINE n == payout(vault, engine, insurance, prices, t)
    <3>1. /\ n \in 0..toTokenDown(insurance.stakedBalance)
          /\ n > 0 => mayWithdraw(vault, INSURANCE, n)
          /\ vault' = IF n > 0 THEN debit(vault, INSURANCE, n) ELSE vault
          /\ feeRouter' = feeRouter
      BY <2>3 DEF WithdrawUnstaked
    <3> HIDE DEF n
    <3>2. n \in Nat
      BY <3>1, TokenDownCovered, InsuranceFields DEF CoreInv, TypeOK
    <3>3. CASE n > 0
      BY <3>1, <3>2, <3>3, DebitFees, HoldersPay, HoldersAside
    <3>4. CASE ~(n > 0)
      BY <1>1, <3>1, <3>4
    <3> QED BY <3>3, <3>4
  <2>4. ASSUME NEW t \in Traders,
               WithdrawRetired(t) \/ \E n \in ShareAmounts : RequestUnstake(t, n)
        PROVE  FeesSound'
    BY <1>1, <2>4 DEF WithdrawRetired, RequestUnstake
  <2>5. ASSUME NEW n \in SweepAmounts, SweepToOperating(n) PROVE FeesSound'
    BY <1>1, <2>5 DEF SweepToOperating
  <2> QED BY <1>7, <2>1, <2>2, <2>3, <2>4, <2>5 DEF Staking
<1>8. CASE Funding \/ Clock
  BY <1>1, <1>8 DEF Funding, UpdateFunding, Clock, Tick
<1>9. CASE Governance
  <2>1. vault \in VaultState
    BY DEF CoreInv, TypeOK
  <2>2. ASSUME feeRouter' = feeRouter, vault'.balances = vault.balances PROVE FeesSound'
    BY <2>2, NextCore, AsideStep DEF CoreInv, TypeOK
  <2>3. ASSUME NEW n \in Amounts, SendTokens(n) PROVE FeesSound'
    BY <2>1, <2>2, <2>3 DEF SendTokens, VaultState
  <2>4. ASSUME NEW c \in Caps, SetDepositCaps(c[1], c[2]) PROVE FeesSound'
    BY <2>1, <2>2, <2>4 DEF SetDepositCaps, VaultState
  <2>5. ASSUME NEW b \in BOOLEAN, SetCollateral(b) PROVE FeesSound'
    BY <2>1, <2>2, <2>5 DEF SetCollateral, VaultState
  <2>6. ASSUME NEW m \in Markets, NEW b \in BOOLEAN, SetMarketActive(m, b) PROVE FeesSound'
    BY <1>1, <2>6 DEF SetMarketActive
  <2>7. ASSUME NEW c \in Pausable, NEW b \in BOOLEAN, SetPaused(c, b) PROVE FeesSound'
    BY <1>1, <2>7 DEF SetPaused
  <2>8. ASSUME NEW l \in LimitChoices, SetUnwindLimits(l) PROVE FeesSound'
    BY <1>1, <2>8 DEF SetUnwindLimits
  <2> QED BY <1>9, <2>3, <2>4, <2>5, <2>6, <2>7, <2>8 DEF Governance
<1> QED BY <1>2, <1>4, <1>5, <1>6, <1>7, <1>8, <1>9, ClaimingFees, FeeAdminFees DEF Next

\* The router as deployed owes nobody.
LEMMA InitFees ==
  ASSUME Init
  PROVE  FeesSound
<1>1. /\ feeRouter = initialFees(InitialRates)
      /\ vault = initialVault(InitialCaps[1], InitialCaps[2])
  BY DEF Init, StartFrom
<1>2. vault.balances[FEE_ROUTER] = 0
  BY <1>1, ProtocolAccounts DEF initialVault
<1>3. /\ feeRouter.treasuryAccrued = 0 /\ feeRouter.totalReferralAccrued = 0
      /\ \A m \in Markets : feeRouter.marketRates[m] = InitialRates
      /\ \A k \in Tiers : feeRouter.tiers[k].takerRate = 0
  BY <1>1 DEF initialFees, Unset
<1>4. InitialRates.takerRate >= 0
  BY Deployment
<1> QED BY <1>2, <1>3, <1>4 DEF FeesSound, FeesBacked, TakerRates

\* Accrued fees can be claimed: the router's account always holds at least the treasury
\* and referral sub-ledgers together.  A fill's fees round up and its rebate down, the
\* rebate is taken from the same fill's taker fee (Schedules never net below zero), the
\* insurance share is taken from what was received, and a liquidation accrues what it
\* paid in.
THEOREM FeesAreBacked == Spec => []FeesBacked
<1>1. Init => CoreInv /\ FeesSound
  BY InitCore, InitFees
<1>2. CoreInv /\ FeesSound /\ [Next]_vars => (CoreInv /\ FeesSound)'
  BY NextCore, NextFees
<1>3. FeesSound => FeesBacked
  BY DEF FeesSound
<1> QED BY <1>1, <1>2, <1>3, PTL DEF Spec

-----------------------------------------------------------------------------
(* The stakers' shares.                                                    *)

\* Every staker's shares of the current epoch.
held(i) == [t \in Traders |-> sharesOf(i, t)]

\* Shares are never more than were issued, and issued shares are backed.  Records and
\* requests never come from a later epoch than the fund's, so that retiring an epoch
\* retires them all, and a request of the current epoch is on shares of the current epoch.
SharesSound(i) ==
  /\ i.totalShares >= 0
  /\ i.totalShares > 0 => i.stakedBalance > 0
  /\ \A t \in Traders :
       /\ i.shares[t].shares >= 0
       /\ i.shares[t].epoch <= i.epoch
       /\ i.pending[t].epoch <= i.epoch
       /\ i.pending[t].shares > 0 /\ i.pending[t].epoch = i.epoch => i.shares[t].epoch = i.epoch
  /\ SumFunction(held(i)) <= i.totalShares

\* The sum of the shares, staker by staker.
LEMMA HeldSum ==
  ASSUME NEW i \in InsuranceState
  PROVE  /\ held(i) \in [Traders -> Int]
         /\ SumFunction(held(i)) \in Int
         /\ SumFunction(held(i)) = SumFunctionOnSet(held(i), Traders)
<1>1. held(i) \in [Traders -> Int]
  BY ShareFields DEF held, sharesOf
<1>2. SumFunction(held(i)) = SumFunctionOnSet(held(i), Traders)
  BY DEF SumFunction, held
<1>3. SumFunctionOnSet(held(i), Traders) \in Int
  BY <1>1, FiniteExchange, SumInt
<1> QED BY <1>1, <1>2, <1>3

\* Changing one staker's shares changes the sum by the difference.
LEMMA HeldChange ==
  ASSUME NEW i \in InsuranceState, NEW j \in InsuranceState, NEW t \in Traders,
         \A u \in Traders \ {t} : sharesOf(j, u) = sharesOf(i, u)
  PROVE  SumFunction(held(j)) = SumFunction(held(i)) - sharesOf(i, t) + sharesOf(j, t)
<1> DEFINE f == held(i)
           g == held(j)
<1>1. /\ \A u \in Traders : f[u] \in Int /\ g[u] \in Int
      /\ SumFunction(f) = SumFunctionOnSet(f, Traders)
      /\ SumFunction(g) = SumFunctionOnSet(g, Traders)
  BY HeldSum
<1>2. \A u \in Traders \ {t} : f[u] = g[u]
  BY DEF held
<1>3. f[t] = sharesOf(i, t) /\ g[t] = sharesOf(j, t)
  BY DEF held
<1> HIDE DEF f, g
<1>4. SumFunctionOnSet(g, Traders) = SumFunctionOnSet(f, Traders) - f[t] + g[t]
  BY <1>1, <1>2, FiniteExchange, SumChange
<1> QED BY <1>1, <1>3, <1>4 DEF f, g

\* One staker holds no more than all.
LEMMA HeldBelow ==
  ASSUME NEW i \in InsuranceState, SharesSound(i), NEW t \in Traders
  PROVE  sharesOf(i, t) \in Nat /\ sharesOf(i, t) <= SumFunction(held(i))
<1> DEFINE f == held(i)
           g == [f EXCEPT ![t] = 0]
<1>1. f \in [Traders -> Int] /\ \A u \in Traders : f[u] = sharesOf(i, u)
      /\ SumFunction(f) = SumFunctionOnSet(f, Traders)
      /\ SumFunction(f) \in Int
  BY HeldSum DEF held
<1>2. \A u \in Traders : sharesOf(i, u) \in Nat
  BY ShareFields DEF sharesOf, SharesSound
<1>3. \A u \in Traders : f[u] \in Nat /\ g[u] \in Nat
  BY <1>1, <1>2
<1>4. g[t] = 0 /\ \A u \in Traders \ {t} : f[u] = g[u]
  BY <1>1
<1> HIDE DEF f, g
<1>5. SumFunctionOnSet(g, Traders) = SumFunctionOnSet(f, Traders) - f[t] + g[t]
  BY <1>3, <1>4, FiniteExchange, SumChange
<1>6. SumFunctionOnSet(g, Traders) \in Nat
  BY <1>3, FiniteExchange, SumNat
<1> QED BY <1>1, <1>2, <1>3, <1>4, <1>5, <1>6 DEF f

\* j has i's capital, shares and requests.
SameStake(i, j) ==
  /\ j \in InsuranceState
  /\ j.stakedBalance = i.stakedBalance /\ j.totalShares = i.totalShares
  /\ j.epoch = i.epoch /\ j.shares = i.shares /\ j.pending = i.pending

\* What leaves them alone keeps them sound.
LEMMA SameStakeSound ==
  ASSUME NEW i \in InsuranceState, NEW j, SameStake(i, j), SharesSound(i)
  PROVE  SharesSound(j)
<1>1. held(j) = held(i)
  BY DEF held, sharesOf, SameStake
<1> QED BY <1>1 DEF SharesSound, SameStake

\* stake mints no more than its part of the pool.
LEMMA MintedShares ==
  ASSUME NEW i \in InsuranceState, SharesSound(i), NEW x \in Nat
  PROVE  /\ mintedShares(i, x) \in Nat
         /\ i.totalShares > 0 => mintedShares(i, x) * i.stakedBalance <= x * i.totalShares
<1>1. i.stakedBalance \in Nat /\ i.totalShares \in Nat
  BY InsuranceFields DEF SharesSound
<1>2. CASE i.totalShares <= 0 \/ i.stakedBalance <= 0
  <2>1. mintedShares(i, x) = x /\ ~(i.totalShares > 0)
    BY <1>1, <1>2 DEF mintedShares, SharesSound
  <2> QED BY <2>1
<1>3. CASE ~(i.totalShares <= 0 \/ i.stakedBalance <= 0)
  <2>1. PICK a \in Nat, b \in Nat \ {0}, c \in Nat :
          a = x * i.totalShares /\ b = i.stakedBalance /\ c = i.totalShares
    <3>1. x * i.totalShares \in Nat
      BY <1>1
    <3> QED BY <1>1, <1>3, <3>1
  <2>2. mintedShares(i, x) = a \div b
    BY <1>3, <2>1 DEF mintedShares, mulDiv, TruncDiv
  <2>3. a \div b \in Nat /\ b * (a \div b) <= a
    BY DivBounds
  <2>4. (a \div b) * b = b * (a \div b)
    BY <2>3
  <2> QED BY <2>1, <2>2, <2>3, <2>4
<1> QED BY <1>2, <1>3

\* stake keeps the shares sound.
LEMMA StakeSound ==
  ASSUME NEW i \in InsuranceState, SharesSound(i), NEW t \in Traders, NEW x \in Nat, x > 0
  PROVE  SharesSound(stake(i, t, x))
<1> DEFINE j == stake(i, t, x)
           k == mintedShares(i, x)
           r == [epoch |-> i.epoch, shares |-> sharesOf(i, t) + k]
<1>1. j \in InsuranceState
  BY StakeType
<1>2. k \in Nat /\ sharesOf(i, t) \in Nat
  BY MintedShares, HeldBelow
<1>3. /\ i.stakedBalance \in Nat /\ i.totalShares \in Nat /\ i.epoch \in Nat
      /\ i.shares \in [Traders -> ShareRecord]
      /\ "stakedBalance" \in DOMAIN i /\ "totalShares" \in DOMAIN i /\ "shares" \in DOMAIN i
  BY InsuranceFields, ShareFields DEF SharesSound, InsuranceState
<1> HIDE DEF k
<1>4. /\ j.stakedBalance = i.stakedBalance + x
      /\ j.totalShares = i.totalShares + k
      /\ j.epoch = i.epoch /\ j.pending = i.pending
      /\ j.shares = [i.shares EXCEPT ![t] = r]
  BY <1>3 DEF stake, k
<1>5. \A u \in Traders : j.shares[u] = IF u = t THEN r ELSE i.shares[u]
  BY <1>3, <1>4
<1> HIDE DEF j
<1>6. sharesOf(j, t) = sharesOf(i, t) + k
  BY <1>4, <1>5 DEF sharesOf
<1>7. \A u \in Traders \ {t} : sharesOf(j, u) = sharesOf(i, u)
  BY <1>4, <1>5 DEF sharesOf
<1>8. SumFunction(held(j)) = SumFunction(held(i)) - sharesOf(i, t) + (sharesOf(i, t) + k)
  BY <1>1, <1>6, <1>7, HeldChange
<1>9. SumFunction(held(i)) \in Int /\ SumFunction(held(i)) <= i.totalShares
  BY HeldSum DEF SharesSound
<1>10. SumFunction(held(j)) <= j.totalShares
  BY <1>2, <1>3, <1>4, <1>8, <1>9
<1>11. \A u \in Traders :
         /\ j.shares[u].shares >= 0
         /\ j.shares[u].epoch <= j.epoch
         /\ j.pending[u].epoch <= j.epoch
         /\ j.pending[u].shares > 0 /\ j.pending[u].epoch = j.epoch
              => j.shares[u].epoch = j.epoch
  BY <1>2, <1>3, <1>4, <1>5 DEF SharesSound
<1>12. j.totalShares >= 0 /\ j.stakedBalance > 0
  BY <1>2, <1>3, <1>4
<1> QED BY <1>10, <1>11, <1>12 DEF SharesSound, j

\* A request is on the requester's shares of the current epoch.
LEMMA RequestSound ==
  ASSUME NEW i \in InsuranceState, SharesSound(i), NEW t \in Traders, NEW n \in Nat,
         0 < n, n <= sharesOf(i, t), NEW at \in Nat
  PROVE  SharesSound(requestUnstake(i, t, n, at))
<1> DEFINE j == requestUnstake(i, t, n, at)
           r == [shares |-> n, unlockTime |-> at + UNSTAKE_COOLDOWN, epoch |-> i.epoch]
<1>1. i.shares[t].epoch = i.epoch /\ i.epoch \in Nat
  <2>1. sharesOf(i, t) # 0
    BY HeldBelow
  <2> QED BY <2>1, InsuranceFields DEF sharesOf
<1>2. i.pending \in [Traders -> RequestRecord] /\ "pending" \in DOMAIN i
  BY ShareFields DEF InsuranceState
<1>3. /\ j.stakedBalance = i.stakedBalance /\ j.totalShares = i.totalShares
      /\ j.epoch = i.epoch /\ j.shares = i.shares
      /\ j.pending = [i.pending EXCEPT ![t] = r]
  BY <1>2 DEF requestUnstake
<1>4. \A u \in Traders : j.pending[u] = IF u = t THEN r ELSE i.pending[u]
  BY <1>2, <1>3
<1> HIDE DEF j
<1>5. held(j) = held(i)
  BY <1>3 DEF held, sharesOf
<1>6. \A u \in Traders :
         /\ j.pending[u].epoch <= j.epoch
         /\ j.pending[u].shares > 0 /\ j.pending[u].epoch = j.epoch
              => j.shares[u].epoch = j.epoch
  BY <1>1, <1>3, <1>4 DEF SharesSound
<1> QED BY <1>3, <1>5, <1>6 DEF SharesSound, j

\* Voiding a retired request deletes shares, and never adds any.
LEMMA VoidSound ==
  ASSUME NEW i \in InsuranceState, SharesSound(i), NEW t \in Traders
  PROVE  SharesSound(voidRequest(i, t))
<1> DEFINE j == voidRequest(i, t)
           r == [epoch |-> 0, shares |-> 0]
<1>1. j \in InsuranceState /\ i.epoch \in Nat
  BY VoidRequestType, InsuranceFields
<1>2. /\ i.pending \in [Traders -> RequestRecord] /\ i.shares \in [Traders -> ShareRecord]
      /\ "pending" \in DOMAIN i /\ "shares" \in DOMAIN i
  BY ShareFields DEF InsuranceState
<1>3. /\ j.stakedBalance = i.stakedBalance /\ j.totalShares = i.totalShares
      /\ j.epoch = i.epoch
      /\ j.pending = [i.pending EXCEPT ![t] = NoRequest]
      /\ j.shares = [i.shares EXCEPT ![t] = r]
  BY <1>2 DEF voidRequest
<1>4. \A u \in Traders : /\ j.pending[u] = IF u = t THEN NoRequest ELSE i.pending[u]
                         /\ j.shares[u] = IF u = t THEN r ELSE i.shares[u]
  BY <1>2, <1>3
<1> HIDE DEF j
<1>5. sharesOf(j, t) = 0 /\ sharesOf(i, t) \in Nat
  BY <1>4, HeldBelow DEF sharesOf
<1>6. \A u \in Traders \ {t} : sharesOf(j, u) = sharesOf(i, u)
  BY <1>3, <1>4 DEF sharesOf
<1>7. SumFunction(held(j)) = SumFunction(held(i)) - sharesOf(i, t) + 0
  BY <1>1, <1>5, <1>6, HeldChange
<1>8. SumFunction(held(i)) \in Int /\ i.totalShares \in Int
  BY HeldSum, InsuranceFields
<1>9. SumFunction(held(j)) <= j.totalShares
  BY <1>3, <1>5, <1>7, <1>8 DEF SharesSound
<1>10. \A u \in Traders :
         /\ j.shares[u].shares >= 0
         /\ j.shares[u].epoch <= j.epoch
         /\ j.pending[u].epoch <= j.epoch
         /\ j.pending[u].shares > 0 /\ j.pending[u].epoch = j.epoch
              => j.shares[u].epoch = j.epoch
  BY <1>1, <1>3, <1>4 DEF SharesSound, NoRequest
<1> QED BY <1>3, <1>9, <1>10 DEF SharesSound, j

\* A sweep to zero retires every share.
LEMMA SweepSound ==
  ASSUME NEW i \in InsuranceState, SharesSound(i), NEW x \in Nat
  PROVE  SharesSound(sweep(i, x))
<1> DEFINE j      == sweep(i, x)
           left   == i.stakedBalance - min(x, i.stakedBalance)
           retire == left = 0 /\ i.totalShares > 0
<1>1. j \in InsuranceState /\ i.epoch \in Nat /\ i.stakedBalance \in Nat /\ i.totalShares \in Nat
  BY SweepType, InsuranceFields DEF SharesSound
<1>2. left \in Nat
  BY <1>1 DEF min
<1>3. /\ j.stakedBalance = left
      /\ j.totalShares = (IF retire THEN 0 ELSE i.totalShares)
      /\ j.epoch = (IF retire THEN i.epoch + 1 ELSE i.epoch)
      /\ j.pending = i.pending /\ j.shares = i.shares
  BY DEF sweep, InsuranceState
<1> HIDE DEF j, left
<1>4. CASE retire
  <2>1. \A u \in Traders : j.shares[u].epoch < j.epoch /\ j.pending[u].epoch < j.epoch
                           /\ j.shares[u].shares >= 0
    <3>1. \A u \in Traders : i.shares[u].epoch \in Nat /\ i.pending[u].epoch \in Nat
      BY ShareFields DEF ShareRecord, RequestRecord
    <3> QED BY <1>1, <1>3, <1>4, <3>1 DEF SharesSound
  <2>2. \A u \in Traders : sharesOf(j, u) = 0
    <3>1. \A u \in Traders : j.shares[u].epoch # j.epoch
      <4>1. \A u \in Traders : j.shares[u].epoch \in Nat /\ j.epoch \in Nat
        BY <1>1, ShareFields, InsuranceFields DEF ShareRecord
      <4> QED BY <2>1, <4>1
    <3> QED BY <3>1 DEF sharesOf
  <2>3. SumFunctionOnSet(held(j), Traders) = 0
    <3>1. \A u \in Traders : held(j)[u] = 0
      BY <2>2 DEF held
    <3> QED BY <3>1, FiniteExchange, SumZero
  <2>4. SumFunction(held(j)) <= j.totalShares /\ j.totalShares = 0
    BY <1>1, <1>3, <1>4, <2>3, HeldSum
  <2>5. \A u \in Traders :
          /\ j.shares[u].epoch <= j.epoch /\ j.pending[u].epoch <= j.epoch
          /\ ~(j.pending[u].epoch = j.epoch)
    <3>1. \A u \in Traders : j.shares[u].epoch \in Nat /\ j.pending[u].epoch \in Nat
                             /\ j.epoch \in Nat
      BY <1>1, ShareFields, InsuranceFields DEF ShareRecord, RequestRecord
    <3> QED BY <2>1, <3>1
  <2> QED BY <2>1, <2>4, <2>5 DEF SharesSound, j
<1>5. CASE ~retire
  <2>1. held(j) = held(i)
    BY <1>3, <1>5 DEF held, sharesOf
  <2>2. j.totalShares > 0 => j.stakedBalance > 0
    BY <1>1, <1>2, <1>3, <1>5
  <2> QED BY <1>3, <1>5, <2>1, <2>2 DEF SharesSound, j
<1> QED BY <1>4, <1>5

\* A matured request of the current epoch burns shares its owner has, and is paid no more
\* than their part of what stakers could redeem.
LEMMA PayoutBound ==
  ASSUME NEW v, NEW e, NEW at, NEW i \in InsuranceState, SharesSound(i),
         NEW t \in Traders, i.pending[t].shares > 0, i.pending[t].epoch = i.epoch,
         accountHealth(v, e, at, INSURANCE).equity \in Int
  PROVE  /\ burnt(i, t) \in Nat /\ burnt(i, t) <= sharesOf(i, t)
         /\ burnt(i, t) <= i.totalShares
         /\ redeemableStake(v, e, i, at) \in Nat
         /\ redeemableStake(v, e, i, at) <= i.stakedBalance
         /\ payout(v, e, i, at, t) \in Nat
         /\ toInternal(payout(v, e, i, at, t)) * i.totalShares
              <= burnt(i, t) * redeemableStake(v, e, i, at)
<1>1. i.stakedBalance \in Nat /\ i.totalShares \in Nat
  BY InsuranceFields DEF SharesSound
<1>2. i.shares[t].epoch = i.epoch /\ i.shares[t].shares \in Nat /\ i.pending[t].shares \in Nat
  BY ShareFields DEF SharesSound
<1>3. sharesOf(i, t) = i.shares[t].shares
  BY <1>2 DEF sharesOf
<1>4. burnt(i, t) \in Nat /\ burnt(i, t) <= sharesOf(i, t)
  BY <1>2, <1>3 DEF burnt, min
<1>5. burnt(i, t) <= i.totalShares
  <2>1. sharesOf(i, t) \in Nat /\ sharesOf(i, t) <= SumFunction(held(i))
    BY HeldBelow
  <2>2. SumFunction(held(i)) \in Int /\ SumFunction(held(i)) <= i.totalShares
    BY HeldSum DEF SharesSound
  <2> QED BY <1>1, <1>4, <2>1, <2>2
<1>6. redeemableStake(v, e, i, at) \in Nat /\ redeemableStake(v, e, i, at) <= i.stakedBalance
  <2>1. markedOperatingBalance(v, e, i, at) \in Int
    BY <1>1 DEF markedOperatingBalance
  <2> QED BY <1>1, <2>1 DEF redeemableStake, min, max
<1>7. PICK b \in Nat, s \in Nat, T \in Nat, R \in Nat :
        b = burnt(i, t) /\ s = i.stakedBalance /\ T = i.totalShares
        /\ R = redeemableStake(v, e, i, at)
  BY <1>1, <1>4, <1>6
<1>8. CASE T = 0
  <2>1. payout(v, e, i, at, t) = 0
    BY <1>7, <1>8 DEF payout
  <2>2. b * R \in Nat /\ toInternal(0) * T = 0
    BY <1>8, ScalesPositive DEF toInternal
  <2> QED BY <1>4, <1>5, <1>6, <1>7, <2>1, <2>2
<1>9. CASE T # 0
  <2>1. PICK a \in Nat : a = b * R
    OBVIOUS
  <2>2. PICK w \in Nat : w = a \div T /\ T * w <= a
    BY <1>9, DivBounds
  <2>3. mulDiv(burnt(i, t), redeemableStake(v, e, i, at), i.totalShares) = w
    BY <1>7, <2>1, <2>2 DEF mulDiv, TruncDiv
  <2>4. PICK c \in Nat : c = max(0, min(w, s)) /\ c <= w
    BY DEF max, min
  <2>5. payout(v, e, i, at, t) = toTokenDown(c)
    BY <1>7, <1>9, <2>3, <2>4 DEF payout
  <2>6. PICK n \in Nat : n = toTokenDown(c) /\ SCALE * n <= c
    BY DivBounds, ScalesPositive DEF toTokenDown
  <2>7. PICK x \in Nat : x = toInternal(n) /\ x <= w
    <3>1. toInternal(n) = SCALE * n /\ SCALE * n \in Nat
      BY ScalesPositive DEF toInternal
    <3> QED BY <2>4, <2>6, <3>1
  <2>8. x * T <= w * T /\ w * T = T * w
    BY <2>7
  <2>9. x * T <= b * R
    BY <2>1, <2>2, <2>8
  <2> QED BY <1>4, <1>5, <1>6, <1>7, <2>5, <2>6, <2>7, <2>9
<1> QED BY <1>8, <1>9

\* Redeeming leaves the remaining shares backed: as long as any remain, less than all of
\* the staked capital was paid.
LEMMA RedeemSound ==
  ASSUME NEW v, NEW e, NEW at, NEW i \in InsuranceState, SharesSound(i),
         NEW t \in Traders, i.pending[t].shares > 0, i.pending[t].epoch = i.epoch,
         accountHealth(v, e, at, INSURANCE).equity \in Int,
         payout(v, e, i, at, t) \in 0..toTokenDown(i.stakedBalance)
  PROVE  SharesSound(redeem(i, t, payout(v, e, i, at, t)))
<1>1. PICK n \in 0..toTokenDown(i.stakedBalance) : n = payout(v, e, i, at, t)
  OBVIOUS
<1> DEFINE j == redeem(i, t, n)
<1>2. PICK b \in Nat, s \in Nat, T \in Nat, R \in Nat, x \in Nat :
        /\ b = burnt(i, t) /\ s = i.stakedBalance /\ T = i.totalShares
        /\ R = redeemableStake(v, e, i, at) /\ x = toInternal(n)
        /\ b <= T /\ R <= s /\ x * T <= b * R /\ b <= sharesOf(i, t)
  <2>1. /\ burnt(i, t) \in Nat /\ burnt(i, t) <= i.totalShares
        /\ redeemableStake(v, e, i, at) \in Nat
        /\ redeemableStake(v, e, i, at) <= i.stakedBalance
        /\ n \in Nat
        /\ toInternal(n) * i.totalShares <= burnt(i, t) * redeemableStake(v, e, i, at)
        /\ burnt(i, t) <= sharesOf(i, t)
    BY <1>1, PayoutBound
  <2>2. toInternal(n) \in Nat
    BY <2>1, ToInternalNat
  <2>3. i.stakedBalance \in Nat /\ i.totalShares \in Nat
    BY InsuranceFields DEF SharesSound
  <2> QED BY <2>1, <2>2, <2>3
<1>3. j \in InsuranceState
  BY RedeemType
<1>4. /\ i.pending \in [Traders -> RequestRecord] /\ i.shares \in [Traders -> ShareRecord]
      /\ "pending" \in DOMAIN i /\ "shares" \in DOMAIN i
      /\ "totalShares" \in DOMAIN i /\ "stakedBalance" \in DOMAIN i
      /\ i.shares[t].shares \in Nat /\ i.shares[t].epoch = i.epoch
  BY ShareFields DEF InsuranceState, SharesSound
<1> DEFINE r == [i.shares[t] EXCEPT !.shares = i.shares[t].shares - b]
<1>5. /\ j.stakedBalance = s - x /\ j.totalShares = T - b /\ j.epoch = i.epoch
      /\ j.pending = [i.pending EXCEPT ![t] = NoRequest]
      /\ j.shares = [i.shares EXCEPT ![t] = r]
  BY <1>2, <1>4 DEF redeem
<1>6. \A u \in Traders : /\ j.pending[u] = IF u = t THEN NoRequest ELSE i.pending[u]
                         /\ j.shares[u] = IF u = t THEN r ELSE i.shares[u]
  BY <1>4, <1>5
<1>7. r.epoch = i.epoch /\ r.shares = i.shares[t].shares - b
  <2>1. i.shares[t] \in ShareRecord
    BY <1>4
  <2> QED BY <1>4, <2>1 DEF ShareRecord
<1> HIDE DEF j, r
<1>8. sharesOf(j, t) = sharesOf(i, t) - b /\ sharesOf(i, t) = i.shares[t].shares
  BY <1>4, <1>5, <1>6, <1>7 DEF sharesOf
<1>9. \A u \in Traders \ {t} : sharesOf(j, u) = sharesOf(i, u)
  BY <1>5, <1>6 DEF sharesOf
<1>10. SumFunction(held(j)) = SumFunction(held(i)) - sharesOf(i, t) + sharesOf(j, t)
  BY <1>3, <1>9, HeldChange
<1>11. SumFunction(held(i)) \in Int /\ SumFunction(held(i)) <= T
  BY <1>2, HeldSum DEF SharesSound
<1>12. SumFunction(held(j)) <= j.totalShares
  BY <1>2, <1>4, <1>5, <1>8, <1>10, <1>11
<1>13. j.totalShares > 0 => j.stakedBalance > 0
  <2> SUFFICES ASSUME T - b > 0 PROVE s - x > 0
    BY <1>5
  <2>1. s > 0
    BY <1>2 DEF SharesSound
  <2>2. b * R <= b * s
    BY <1>2
  <2>3. b * s < T * s
    BY <1>2, <2>1
  <2>4. x * T < s * T
    <3>1. T * s = s * T /\ x * T \in Nat /\ b * R \in Nat /\ b * s \in Nat /\ T * s \in Nat
      OBVIOUS
    <3> QED BY <1>2, <2>2, <2>3, <3>1
  <2>5. ASSUME x >= s PROVE FALSE
    <3>1. x * T >= s * T
      BY <2>5
    <3>2. x * T \in Nat /\ s * T \in Nat
      OBVIOUS
    <3> QED BY <2>4, <3>1, <3>2
  <2> QED BY <2>5
<1>14. \A u \in Traders :
         /\ j.shares[u].shares >= 0
         /\ j.shares[u].epoch <= j.epoch
         /\ j.pending[u].epoch <= j.epoch
         /\ j.pending[u].shares > 0 /\ j.pending[u].epoch = j.epoch
              => j.shares[u].epoch = j.epoch
  <2>1. i.epoch \in Nat
    BY InsuranceFields
  <2>2. r.shares >= 0
    BY <1>2, <1>4, <1>7, <1>8
  <2> QED BY <1>5, <1>6, <1>7, <2>1, <2>2 DEF SharesSound, NoRequest
<1>15. j.totalShares >= 0
  BY <1>2, <1>5
<1> QED BY <1>1, <1>12, <1>13, <1>14, <1>15 DEF SharesSound, j

\* Bad debt, unwinding and its limits leave the stakes alone.
LEMMA StakesAside ==
  ASSUME NEW i \in InsuranceState
  PROVE  /\ SameStake(i, i)
         /\ \A v \in VaultState, a \in Accounts :
              /\ SameStake(i, refreshDebt(v, i, a))
              /\ SameStake(i, settleBadDebt(v, i, a).insurance)
         /\ \A at \in Nat, n \in Int : SameStake(i, onBackstopFill(i, at, n))
         /\ \A l \in UnwindLimits : SameStake(i, [i EXCEPT !.limits = l])
<1>1. SameStake(i, i)
  BY DEF SameStake
<1>2. ASSUME NEW a \in Accounts, NEW x, recordDebt(i, a, x) \in InsuranceState
      PROVE  SameStake(i, recordDebt(i, a, x))
  BY <1>2 DEF recordDebt, SameStake, InsuranceState
<1>3. ASSUME NEW v \in VaultState, NEW a \in Accounts
      PROVE  /\ SameStake(i, refreshDebt(v, i, a))
             /\ SameStake(i, settleBadDebt(v, i, a).insurance)
  <2>1. refreshDebt(v, i, a) \in InsuranceState
        /\ settleBadDebt(v, i, a).insurance \in InsuranceState
    BY RefreshDebtType, SettleBadDebtType
  <2>2. settleBadDebt(v, i, a).insurance = recordDebt(i, a, owed(v, a) - covered(v, i, a))
    BY DEF settleBadDebt
  <2>3. refreshDebt(v, i, a) = i \/ refreshDebt(v, i, a) = recordDebt(i, a, owed(v, a))
    BY DEF refreshDebt
  <2> QED BY <1>1, <1>2, <2>1, <2>2, <2>3
<1>4. ASSUME NEW at \in Nat, NEW n \in Int PROVE SameStake(i, onBackstopFill(i, at, n))
  <2>1. onBackstopFill(i, at, n) \in InsuranceState
    BY BackstopFillType
  <2> QED BY <2>1 DEF onBackstopFill, SameStake, InsuranceState
<1>5. ASSUME NEW l \in UnwindLimits PROVE SameStake(i, [i EXCEPT !.limits = l])
  BY SetInsurance DEF SameStake, InsuranceState
<1> QED BY <1>1, <1>3, <1>4, <1>5

\* A fill may count against the unwind cap, and nothing else of the fund.
LEMMA FillShares ==
  ASSUME CoreInv, SharesSound(insurance), NEW f \in Fills, SettleFill(f)
  PROVE  SharesSound(insurance')
<1> DEFINE n == mulPrecision(f.size, f.price)
<1>1. insurance' = insurance \/ insurance' = onBackstopFill(insurance, now, n)
  BY Zenon DEF SettleFill, ApplyTaker, ChargeFees, CheckMargins, Settle
<1>2. n \in Int
  <2>1. f \in Fill
    BY Inputs
  <2>2. f.size \in Int /\ f.price \in Int
    BY <2>1 DEF Fill
  <2> QED BY <2>2, FixedPointInt
<1> HIDE DEF n
<1>3. insurance \in InsuranceState /\ now \in Nat
  BY DEF CoreInv, TypeOK
<1>4. SameStake(insurance, insurance')
  BY <1>1, <1>2, <1>3, StakesAside
<1> QED BY <1>3, <1>4, SameStakeSound

\* A liquidation may record a deficit.
LEMMA LiquidateShares ==
  ASSUME CoreInv, SharesSound(insurance), insurance' \in InsuranceState,
         NEW l \in Traders, NEW t \in Traders, NEW m \in Markets,
         NEW k \in MaxSizes, Liquidate(l, t, m, k)
  PROVE  SharesSound(insurance')
<1>1. PICK size : Settle(liquidation(l, t, m, size))
  BY DEF Liquidate, Conclude
<1> DEFINE moved   == transferPosition(t, INSURANCE, m, size, prices[m], FALSE)
           charged == chargePenalty(moved.vault, m, t, l, size, prices[m])
           deficit == moved.engine.marketBitmap[t] = {} /\ charged.vault.balances[t] < 0
           bad     == settleBadDebt(charged.vault, insurance, t)
<1>2. insurance' = IF deficit THEN bad.insurance ELSE insurance
  <2>1. liquidation(l, t, m, size) = concluded(t, moved, charged, deficit)
    BY DEF liquidation, transferred, penalized
  <2> HIDE DEF moved, charged, deficit
  <2> QED BY <1>1, <2>1 DEF concluded, Settle
<1>3. \E x : bad.insurance = recordDebt(insurance, t, x)
  BY DEF settleBadDebt
<1> HIDE DEF bad, deficit
<1>4. insurance \in InsuranceState
  BY DEF CoreInv, TypeOK
<1>5. SameStake(insurance, insurance')
  BY <1>2, <1>3, <1>4 DEF recordDebt, SameStake, InsuranceState
<1> QED BY <1>4, <1>5, SameStakeSound

\* Every step keeps the shares sound.
LEMMA NextShares ==
  ASSUME CoreInv, Backed, SharesSound(insurance), [Next]_vars
  PROVE  SharesSound(insurance')
<1>1. insurance \in InsuranceState /\ vault \in VaultState /\ engine \in EngineState
      /\ prices \in [Markets -> Nat] /\ now \in Nat
  BY DEF CoreInv, TypeOK
<1>2. insurance' \in InsuranceState
  BY NextCore DEF CoreInv, TypeOK
<1>3. ASSUME SameStake(insurance, insurance') PROVE SharesSound(insurance')
  BY <1>1, <1>3, SameStakeSound
<1>4. ASSUME insurance' = insurance PROVE SharesSound(insurance')
  BY <1>4
<1>5. CASE UNCHANGED vars
  BY <1>4, <1>5 DEF vars
<1>6. ASSUME NEW a \in Accounts, NEW n \in Amounts, Deposit(a, n) PROVE SharesSound(insurance')
  <2>1. insurance' = insurance \/ insurance' = refreshDebt(credit(vault, a, n), insurance, a)
    BY <1>6 DEF Deposit
  <2>2. credit(vault, a, n) \in VaultState
    BY <1>1, Inputs, CreditSummed
  <2> QED BY <1>1, <1>3, <2>1, <2>2, StakesAside
<1>7. CASE Banking
  <2>1. ASSUME NEW t \in Traders, NEW n \in Amounts, Withdraw(t, n) PROVE SharesSound(insurance')
    BY <1>4, <2>1 DEF Withdraw
  <2> QED BY <1>6, <1>7, <2>1 DEF Banking
<1>8. CASE Trading
  <2>1. ASSUME NEW m \in Markets, NEW p \in Prices, SetPrice(m, p) PROVE SharesSound(insurance')
    BY <1>4, <2>1 DEF SetPrice
  <2> QED BY <1>8, <2>1, FillShares DEF Trading
<1>9. CASE Liquidating
  <2>1. ASSUME NEW a \in Accounts, SettleBadDebt(a) PROVE SharesSound(insurance')
    <3>1. insurance' = settleBadDebt(vault, insurance, a).insurance
      BY <2>1 DEF SettleBadDebt
    <3> QED BY <1>1, <1>3, <3>1, StakesAside
  <2>2. ASSUME NEW t \in Traders, NEW m \in Markets, NEW k \in MaxSizes, Adl(t, m, k)
        PROVE  SharesSound(insurance')
    BY <1>4, <2>2 DEF Adl
  <2> QED BY <1>2, <1>9, <2>1, <2>2, LiquidateShares DEF Liquidating
<1>10. CASE Staking
  <2>1. ASSUME NEW n \in Amounts, Donate(n) PROVE SharesSound(insurance')
    BY <1>6, <2>1, ProtocolAccounts DEF Donate
  <2>2. ASSUME NEW t \in Traders, NEW n \in Amounts, Stake(t, n) PROVE SharesSound(insurance')
    <3>1. insurance' = stake(insurance, t, toInternal(n)) /\ n \in Nat /\ n > 0
      BY <2>2, Inputs DEF Stake, checkDeposit
    <3>2. PICK x \in Nat : x = toInternal(n) /\ x > 0
      <4>1. toInternal(n) \in Nat /\ n * SCALE > 0
        BY <3>1, ToInternalNat, ScalesPositive
      <4> QED BY <4>1 DEF toInternal
    <3> QED BY <1>1, <3>1, <3>2, StakeSound
  <2>3. ASSUME NEW t \in Traders, NEW n \in ShareAmounts, RequestUnstake(t, n)
        PROVE  SharesSound(insurance')
    <3>1. 0 < n /\ n <= sharesOf(insurance, t) /\ n \in Nat
          /\ insurance' = requestUnstake(insurance, t, n, now)
      BY <2>3, Inputs DEF RequestUnstake
    <3> QED BY <1>1, <3>1, RequestSound
  <2>4. ASSUME NEW t \in Traders, WithdrawUnstaked(t) PROVE SharesSound(insurance')
    <3>1. /\ insurance.pending[t].shares > 0
          /\ insurance.pending[t].epoch = insurance.epoch
          /\ payout(vault, engine, insurance, prices, t) \in 0..toTokenDown(insurance.stakedBalance)
          /\ insurance' = redeem(insurance, t, payout(vault, engine, insurance, prices, t))
      BY <2>4 DEF WithdrawUnstaked
    <3>2. accountHealth(vault, engine, prices, INSURANCE).equity \in Int
      BY <1>1, EquityBound, ProtocolAccounts DEF Backed, Sound
    <3> QED BY <1>1, <3>1, <3>2, RedeemSound
  <2>5. ASSUME NEW t \in Traders, WithdrawRetired(t) PROVE SharesSound(insurance')
    BY <1>1, <2>5, VoidSound DEF WithdrawRetired
  <2>6. ASSUME NEW n \in SweepAmounts, SweepToOperating(n) PROVE SharesSound(insurance')
    BY <1>1, <2>6, Inputs, SweepSound DEF SweepToOperating
  <2> QED BY <1>10, <2>1, <2>2, <2>3, <2>4, <2>5, <2>6 DEF Staking
<1>11. CASE Claiming
  BY <1>4, <1>11 DEF Claiming, ClaimTreasury, ClaimReferral
<1>12. CASE FeeGovernance \/ Revenue
  <2>1. ASSUME NEW f, FeeAdmin(f) PROVE SharesSound(insurance')
    BY <1>4, <2>1 DEF FeeAdmin
  <2>2. CASE FeeGovernance
    BY <2>1, <2>2 DEF FeeGovernance, SetMarketFees, DefineTier, SetAccountTier,
                      SetMinNetRate, SetRebatesEnabled
  <2>3. CASE Revenue
    BY <2>1, <2>3 DEF Revenue, SetReferralsEnabled, SetReferrerApproved, SetSplit,
                      SetLiquidationSplit
  <2> QED BY <1>12, <2>2, <2>3
<1>13. CASE Funding \/ Clock
  BY <1>4, <1>13 DEF Funding, UpdateFunding, Clock, Tick
<1>14. CASE Governance
  <2>1. ASSUME NEW l \in LimitChoices, SetUnwindLimits(l) PROVE SharesSound(insurance')
    <3>1. insurance' = [insurance EXCEPT !.limits = l] /\ l \in UnwindLimits
      BY <2>1, Inputs DEF SetUnwindLimits
    <3> QED BY <1>1, <1>3, <3>1, StakesAside
  <2>2. CASE ~\E l \in LimitChoices : SetUnwindLimits(l)
    BY <1>4, <1>14, <2>2 DEF Governance, SetDepositCaps, SetCollateral, SetMarketActive,
                              SetPaused, SendTokens
  <2> QED BY <2>1, <2>2
<1> QED BY <1>5, <1>7, <1>8, <1>9, <1>10, <1>11, <1>12, <1>13, <1>14 DEF Next

\* The fund as deployed has issued nothing.
LEMMA InitShares ==
  ASSUME Init
  PROVE  SharesSound(insurance)
<1>1. insurance = initialInsurance(InitialLimits)
  BY DEF Init, StartFrom
<1>2. insurance \in InsuranceState
  BY InitCore DEF CoreInv, TypeOK
<1>3. /\ insurance.totalShares = 0 /\ insurance.epoch = 0
      /\ \A t \in Traders : insurance.shares[t] = [epoch |-> 0, shares |-> 0]
                            /\ insurance.pending[t] = NoRequest
  BY <1>1 DEF initialInsurance
<1>4. \A t \in Traders : held(insurance)[t] = 0
  BY <1>3 DEF held, sharesOf
<1>5. SumFunctionOnSet(held(insurance), Traders) = 0
  BY <1>4, FiniteExchange, SumZero
<1>6. SumFunction(held(insurance)) <= insurance.totalShares
  BY <1>2, <1>3, <1>5, HeldSum
<1> QED BY <1>3, <1>6 DEF SharesSound, NoRequest

\* Every share of the current epoch stands for staked capital, through stakes, matured
\* requests, sweeps that retire an epoch and losses that lower what a share redeems.
THEOREM SharesInvariant == Spec => [](CoreInv /\ Backed /\ SharesSound(insurance))
<1>1. Init => CoreInv /\ Backed /\ SharesSound(insurance)
  BY InitCore, InitBacked, InitShares
<1>2. CoreInv /\ Backed /\ SharesSound(insurance) /\ [Next]_vars
        => (CoreInv /\ Backed /\ SharesSound(insurance))'
  BY NextCore, NextBacked, NextShares
<1> QED BY <1>1, <1>2, PTL DEF Spec

\* The fund's shares are backed while any exist, and no more of the current epoch are held
\* than were issued.
THEOREM SharesAreBacked == Spec => []SharesBacked
<1>1. CoreInv /\ SharesSound(insurance) => SharesBacked
  BY InsuranceFields DEF SharesBacked, SharesSound, held, CoreInv, TypeOK
<1> QED BY <1>1, SharesInvariant, PTL

-----------------------------------------------------------------------------
(* What a staker may take from the others.                                 *)

\* Money of the fund moves: the equity the backstop is marked at moves with it.
LEMMA EquityMoves ==
  ASSUME NEW v \in VaultState, NEW u \in VaultState, NEW e \in EngineState, PositionsSound(e),
         NEW at \in [Markets -> Nat], NEW x \in Int,
         u.balances[INSURANCE] = v.balances[INSURANCE] + x
  PROVE  /\ accountHealth(v, e, at, INSURANCE).equity \in Int
         /\ accountHealth(u, e, at, INSURANCE).equity
              = accountHealth(v, e, at, INSURANCE).equity + x
<1> DEFINE positions == e.marketBitmap[INSURANCE]
           upnl == [m \in positions |->
                      unrealizedPnl(e.positions[INSURANCE][m], at[m])
                        + fundingPnl(e, m, e.positions[INSURANCE][m])]
<1>1. positions \in SUBSET Markets /\ IsFiniteSet(positions)
  <2>1. positions \in SUBSET Markets
    BY ProtocolAccounts DEF EngineState
  <2> QED BY <2>1, FiniteAccounts, FS_Subset
<1>2. \A m \in positions : upnl[m] \in Int
  BY <1>1, ProtocolAccounts, ClaimBound
<1>3. PICK s : /\ s = SumFunction(upnl)
               /\ accountHealth(v, e, at, INSURANCE).equity = v.balances[INSURANCE] + s
               /\ accountHealth(u, e, at, INSURANCE).equity = u.balances[INSURANCE] + s
  BY DEF accountHealth
<1>4. s \in Int
  <2>1. s = SumFunctionOnSet(upnl, positions)
    BY <1>3 DEF SumFunction
  <2> HIDE DEF upnl, positions
  <2> QED BY <1>1, <1>2, <2>1, SumInt
<1>5. v.balances[INSURANCE] \in Int /\ u.balances[INSURANCE] \in Int
  BY ProtocolAccounts DEF VaultState
<1> QED BY <1>3, <1>4, <1>5

\* What all stakers could redeem is the smaller of their capital and the fund's equity.
LEMMA RedeemableIs ==
  ASSUME NEW v, NEW e, NEW at, NEW i \in InsuranceState,
         accountHealth(v, e, at, INSURANCE).equity \in Int
  PROVE  redeemableStake(v, e, i, at)
           = max(0, min(i.stakedBalance, accountHealth(v, e, at, INSURANCE).equity))
<1>1. PICK q \in Int, s \in Nat :
        q = accountHealth(v, e, at, INSURANCE).equity /\ s = i.stakedBalance
  BY InsuranceFields
<1>2. redeemableStake(v, e, i, at) = max(0, s + min(0, q - s))
  BY <1>1 DEF redeemableStake, markedOperatingBalance
<1>3. s + min(0, q - s) = min(s, q)
  BY DEF min
<1> QED BY <1>1, <1>2, <1>3

\* Joining: capital and equity grow by the value staked, and the shares minted are no more
\* than that value's part of the pool.
LEMMA JoinKeepsValue ==
  ASSUME NEW s \in Nat, NEW q \in Int, NEW T \in Nat, NEW x \in Nat, NEW k \in Nat,
         k * s <= x * T
  PROVE  max(0, min(s + x, q + x)) * T >= max(0, min(s, q)) * (T + k)
<1>1. PICK r \in Nat, w \in Nat : r = max(0, min(s, q)) /\ w = max(0, min(s + x, q + x))
  BY DEF max, min
<1>2. r <= s /\ (r = 0 \/ w = r + x)
  BY <1>1 DEF max, min
<1>3. r * (T + k) = r * T + r * k /\ (r + x) * T = r * T + x * T
  OBVIOUS
<1>4. r * T \in Nat /\ r * k \in Nat /\ x * T \in Nat /\ k * s \in Nat /\ w * T \in Nat
  OBVIOUS
<1>5. r * k <= k * s
  BY <1>2
<1>6. CASE r = 0
  <2>1. r * (T + k) = 0
    BY <1>6
  <2> QED BY <1>1, <1>4, <2>1
<1>7. CASE w = r + x
  <2>1. w * T = r * T + x * T
    BY <1>3, <1>7
  <2>2. w * T >= r * (T + k)
    BY <1>3, <1>4, <1>5, <2>1
  <2> QED BY <1>1, <2>2
<1> QED BY <1>2, <1>6, <1>7

\* Leaving: capital and equity fall by what is paid, which is no more than the burnt
\* shares' part of what the stakers could redeem.
LEMMA LeaveKeepsValue ==
  ASSUME NEW s \in Nat, NEW q \in Int, NEW T \in Nat \ {0}, NEW x \in Nat, NEW b \in Nat,
         b <= T, x * T <= b * max(0, min(s, q))
  PROVE  max(0, min(s - x, q - x)) * T >= max(0, min(s, q)) * (T - b)
<1>1. PICK r \in Nat, w \in Nat : r = max(0, min(s, q)) /\ w = max(0, min(s - x, q - x))
  <2>1. max(0, min(s, q)) \in Nat /\ max(0, min(s - x, q - x)) \in Nat
    <3>1. s - x \in Int /\ q - x \in Int
      OBVIOUS
    <3> QED BY <3>1 DEF max, min
  <2> QED BY <2>1
<1>2. w >= r - x /\ r - x \in Int
  BY <1>1 DEF max, min
<1>3. r * (T - b) = r * T - r * b /\ (r - x) * T = r * T - x * T /\ r * b = b * r
  OBVIOUS
<1>4. r * T \in Nat /\ r * b \in Nat /\ x * T \in Nat /\ w * T \in Nat
  OBVIOUS
<1>5. w * T >= (r - x) * T
  BY <1>2
<1>6. w * T >= r * (T - b)
  BY <1>1, <1>3, <1>4, <1>5
<1> QED BY <1>1, <1>6

\* A stake does not lower what a share redeems.
LEMMA StakeDilutesNobody ==
  ASSUME CoreInv, Backed, SharesSound(insurance), insurance.totalShares > 0,
         NEW t \in Traders, NEW n \in Amounts, Stake(t, n)
  PROVE  redeemableStake(vault', engine', insurance', prices) * insurance.totalShares
           >= redeemableStake(vault, engine, insurance, prices) * insurance'.totalShares
<1>1. insurance \in InsuranceState /\ vault \in VaultState /\ engine \in EngineState
      /\ prices \in [Markets -> Nat] /\ PositionsSound(engine)
  BY DEF CoreInv, TypeOK, Backed, Sound
<1>2. n \in Nat /\ vault' = credit(vault, INSURANCE, n) /\ engine' = engine
      /\ insurance' = stake(insurance, t, toInternal(n))
  BY Inputs DEF Stake
<1>3. PICK x \in Nat : x = toInternal(n)
  BY <1>2, ToInternalNat
<1>4. vault' \in VaultState /\ vault'.balances[INSURANCE] = vault.balances[INSURANCE] + x
  <2>1. vault.balances \in [Accounts -> Int] /\ INSURANCE \in Accounts
    BY <1>1, ProtocolAccounts DEF VaultState
  <2>2. /\ vault' \in VaultState
        /\ vault'.balances
             = [vault.balances EXCEPT ![INSURANCE] = vault.balances[INSURANCE] + x]
    BY <1>1, <1>2, <1>3, <2>1, CreditSummed
  <2> QED BY <2>1, <2>2
<1>5. insurance' \in InsuranceState
  BY <1>1, <1>2, <1>3, StakeType
<1>6. PICK q \in Int : /\ q = accountHealth(vault, engine, prices, INSURANCE).equity
                       /\ q + x = accountHealth(vault', engine', prices, INSURANCE).equity
  BY <1>1, <1>2, <1>3, <1>4, EquityMoves
<1>7. PICK s \in Nat, T \in Nat, k \in Nat :
        /\ s = insurance.stakedBalance /\ T = insurance.totalShares
        /\ k = mintedShares(insurance, x) /\ k * s <= x * T
  BY <1>1, <1>3, MintedShares, InsuranceFields DEF SharesSound
<1>8. insurance'.stakedBalance = s + x /\ insurance'.totalShares = T + k
  <2>1. /\ "stakedBalance" \in DOMAIN insurance /\ "totalShares" \in DOMAIN insurance
        /\ "shares" \in DOMAIN insurance
    BY <1>1 DEF InsuranceState
  <2> QED BY <1>2, <1>3, <1>7, <2>1 DEF stake
<1>9. redeemableStake(vault', engine', insurance', prices) = max(0, min(s + x, q + x))
  BY <1>5, <1>6, <1>8, RedeemableIs
<1>10. redeemableStake(vault, engine, insurance, prices) = max(0, min(s, q))
  BY <1>1, <1>6, <1>7, RedeemableIs
<1> QED BY <1>7, <1>8, <1>9, <1>10, JoinKeepsValue

\* A redemption does not lower what a remaining share redeems.
LEMMA WithdrawDilutesNobody ==
  ASSUME CoreInv, Backed, SharesSound(insurance), insurance.totalShares > 0,
         NEW t \in Traders, WithdrawUnstaked(t)
  PROVE  redeemableStake(vault', engine', insurance', prices) * insurance.totalShares
           >= redeemableStake(vault, engine, insurance, prices) * insurance'.totalShares
<1>1. insurance \in InsuranceState /\ vault \in VaultState /\ engine \in EngineState
      /\ prices \in [Markets -> Nat] /\ PositionsSound(engine)
  BY DEF CoreInv, TypeOK, Backed, Sound
<1>2. PICK n : n = payout(vault, engine, insurance, prices, t)
  OBVIOUS
<1>3. /\ insurance.pending[t].shares > 0 /\ insurance.pending[t].epoch = insurance.epoch
      /\ n \in 0..toTokenDown(insurance.stakedBalance)
      /\ n > 0 => n <= vault.custody
      /\ vault' = IF n > 0 THEN debit(vault, INSURANCE, n) ELSE vault
      /\ insurance' = redeem(insurance, t, n) /\ engine' = engine
  <2>1. vault.custody \in Int
    BY <1>1, LedgerInt
  <2> QED BY <1>2, <2>1 DEF WithdrawUnstaked, mayWithdraw
<1>4. PICK x \in Nat : x = toInternal(n) /\ (n = 0 => x = 0)
  <2>1. n \in Nat
    BY <1>3
  <2>2. toInternal(n) \in Nat /\ toInternal(0) = 0
    BY <2>1, ToInternalNat, ScalesPositive DEF toInternal
  <2> QED BY <2>2
<1>5. vault' \in VaultState /\ vault'.balances[INSURANCE] = vault.balances[INSURANCE] - x
  <2>1. vault.balances \in [Accounts -> Int] /\ INSURANCE \in Accounts /\ n \in Nat
    BY <1>1, <1>3, ProtocolAccounts DEF VaultState
  <2>2. CASE n > 0
    <3>1. /\ vault' \in VaultState
          /\ vault'.balances
               = [vault.balances EXCEPT ![INSURANCE] = vault.balances[INSURANCE] - x]
      <4>1. n <= vault.custody /\ vault' = debit(vault, INSURANCE, n)
        BY <1>3, <2>2
      <4> QED BY <1>1, <1>4, <2>1, <4>1, DebitSummed
    <3> QED BY <2>1, <3>1
  <2>3. CASE n = 0
    BY <1>1, <1>3, <1>4, <2>1, <2>3
  <2> QED BY <2>1, <2>2, <2>3
<1>6. PICK q \in Int : /\ q = accountHealth(vault, engine, prices, INSURANCE).equity
                       /\ q - x = accountHealth(vault', engine', prices, INSURANCE).equity
  <2>1. PICK y \in Int : y = -x /\ vault'.balances[INSURANCE] = vault.balances[INSURANCE] + y
    BY <1>1, <1>4, <1>5, ProtocolAccounts DEF VaultState
  <2> QED BY <1>1, <1>3, <1>5, <2>1, EquityMoves
<1>7. PICK s \in Nat, T \in Nat \ {0}, b \in Nat :
        /\ s = insurance.stakedBalance /\ T = insurance.totalShares /\ b = burnt(insurance, t)
        /\ b <= T
        /\ x * T <= b * redeemableStake(vault, engine, insurance, prices)
  <2>1. insurance.stakedBalance \in Nat /\ insurance.totalShares \in Nat \ {0}
    BY <1>1, InsuranceFields DEF SharesSound
  <2> QED BY <1>1, <1>2, <1>3, <1>4, <1>6, <2>1, PayoutBound
<1>8. insurance'.stakedBalance = s - x /\ insurance'.totalShares = T - b
  <2>1. /\ "stakedBalance" \in DOMAIN insurance /\ "totalShares" \in DOMAIN insurance
        /\ "shares" \in DOMAIN insurance /\ "pending" \in DOMAIN insurance
    BY <1>1 DEF InsuranceState
  <2> QED BY <1>3, <1>4, <1>7, <2>1 DEF redeem
<1>9. redeemableStake(vault, engine, insurance, prices) = max(0, min(s, q))
  BY <1>1, <1>6, <1>7, RedeemableIs
<1>10. redeemableStake(vault', engine', insurance', prices) = max(0, min(s - x, q - x))
  <2>1. insurance' \in InsuranceState
    BY <1>1, <1>3, RedeemType
  <2> QED BY <1>6, <1>8, <2>1, RedeemableIs
<1> QED BY <1>7, <1>8, <1>9, <1>10, LeaveKeepsValue

\* Joining or leaving the staking pool never takes value from the stakers who stay: both
\* divisions round in the pool's favour, and a redemption is paid on the marked equity.
THEOREM StakersKeepTheirPart == Spec => StakersNotDiluted
<1>1. CoreInv /\ Backed /\ SharesSound(insurance) =>
        [ (\E t \in Traders : WithdrawUnstaked(t) \/ \E n \in Amounts : Stake(t, n))
          /\ insurance.totalShares > 0 =>
            redeemableStake(vault', engine', insurance', prices) * insurance.totalShares
              >= redeemableStake(vault, engine, insurance, prices) * insurance'.totalShares ]_vars
  BY StakeDilutesNobody, WithdrawDilutesNobody
<1> QED BY <1>1, SharesInvariant, PTL DEF StakersNotDiluted
=============================================================================
