----------------------------- MODULE KeeperPlans -----------------------------
(***************************************************************************)
(* The pure decisions of the keepers (lib/keepers): what each one would    *)
(* send for what it read, and in which order.  A plan is a sequence of     *)
(* [subject, amount]; comparators that leave ties to the order of a query  *)
(* or of a configuration give a set of plans.  Then the rows in which a    *)
(* keeper records what it does.                                            *)
(***************************************************************************)
EXTENDS Integers, Sequences, FiniteSets, FiniteSetsExt, SequencesExt

\* The orders of S that a sort by descending key may give.
sorted(S, key) ==
  {q \in [1..Cardinality(S) -> S] :
     \A i, j \in DOMAIN q : i < j => q[i] # q[j] /\ key[q[i]] >= key[q[j]]}

slice(q, n) == SubSeq(q, 1, Min({n, Len(q)}))

send(s, n) == [subject |-> s, amount |-> n]

-----------------------------------------------------------------------------
(* Funding.                                                                *)

\* What to do about one market: its first update starts the clock, a block of the
\* same second or an age below the due age is left alone, and what an update cannot
\* charge (more than maxElapsed) is reported as a shortfall.
planMarket(m, chainNow, dueAfterSecs, maxElapsed) ==
  LET elapsed == chainNow - m.lastUpdate
      skip(reason) == [action |-> "skip", reason |-> reason]
  IN  CASE ~m.active -> skip("inactive")
        [] m.lastUpdate = 0 ->
             [action |-> "update", elapsed |-> 0, shortfallSecs |-> 0, first |-> TRUE]
        [] elapsed <= 0 -> skip("same-timestamp")
        [] elapsed < dueAfterSecs -> skip("not-due")
        [] OTHER -> [action |-> "update", elapsed |-> elapsed, first |-> FALSE,
                     shortfallSecs |-> Max({0, elapsed - maxElapsed})]

planFunding(markets, chainNow, dueAfterSecs, maxElapsed) ==
  [m \in DOMAIN markets |-> planMarket(markets[m], chainNow, dueAfterSecs, maxElapsed)]

\* First-ever updates ahead of everything, then the most overdue.
orderDue(plans, chainNow) ==
  LET due == {m \in DOMAIN plans : plans[m].action = "update"}
      key == [m \in due |-> IF plans[m].first THEN chainNow + 1 ELSE plans[m].elapsed]
  IN  sorted(due, key)

-----------------------------------------------------------------------------
(* Gas refills.                                                            *)

\* What one target gets of what is left of the run and of the funder: nothing above
\* the floor, and never past one of the caps.
refill(t, runLeft, funderLeft, p) ==
  LET dayLeft == IF p.maxPerTargetPerDay > t.spentToday
                 THEN p.maxPerTargetPerDay - t.spentToday ELSE 0
      amount  == Min({p.target - t.balance, dayLeft, runLeft, funderLeft})
  IN  CASE t.balance >= p.floor -> [action |-> "ok", amount |-> 0]
        [] t.balance < p.floor /\ amount <= 0 ->
             [action |-> "capped", amount |-> 0,
              reason |-> CASE dayLeft <= 0 -> "day"
                           [] dayLeft > 0 /\ runLeft <= 0 -> "run"
                           [] OTHER -> "funder"]
        [] OTHER -> [action |-> "top-up", amount |-> amount]

\* One target more.
refillNext(acc, s, t, p) ==
  LET r == refill(t, acc.runLeft, acc.funderLeft, p)
  IN  [ plans      |-> IF r.action = "top-up"
                       THEN Append(acc.plans, send(s, r.amount)) ELSE acc.plans,
        runLeft    |-> acc.runLeft - r.amount,
        funderLeft |-> acc.funderLeft - r.amount ]

\* One pass over the targets in an order, most depleted first.
refillPass(order, targets, funderLeft, p) ==
  FoldLeft(LAMBDA acc, s : refillNext(acc, s, targets[s], p),
           [plans |-> <<>>, runLeft |-> p.maxPerRun, funderLeft |-> funderLeft], order).plans

\* The top-ups of a run; the funder keeps a unit for its own gas.
planRefills(targets, funder, p) ==
  LET funderLeft == IF funder > p.usdc THEN funder - p.usdc ELSE 0
  IN  {refillPass(q, targets, funderLeft, p) :
         q \in sorted(DOMAIN targets, [s \in DOMAIN targets |-> -targets[s].balance])}

\* The policy planRefills refuses to run without, and the targets main refuses.
refillConfigured(p, targets, funder) ==
  p.target > p.floor /\ targets # {} /\ funder \notin targets

-----------------------------------------------------------------------------
(* Fee tiers.                                                              *)

\* parseSchedule: tiers in range, thresholds positive and increasing with the tier.
scheduleOk(schedule, maxTier) ==
  /\ DOMAIN schedule # {} /\ DOMAIN schedule \subseteq 1..maxTier
  /\ \A t \in DOMAIN schedule : schedule[t] > 0
  /\ \A t, u \in DOMAIN schedule : t < u => schedule[t] < schedule[u]

\* The highest tier whose threshold the volume meets; 0 below the first.
targetTier(volume30d, schedule) ==
  Max({0} \cup {t \in DOMAIN schedule : volume30d >= schedule[t]})

\* Accounts whose tier on chain is not the one they have earned, largest move first
\* and then most volume; an account whose tier could not be read is left alone.
diffTiers(volumes, onChain, schedule, max) ==
  LET to      == [a \in DOMAIN onChain |-> targetTier(volumes[a], schedule)]
      moved   == [a \in DOMAIN onChain |->
                    IF to[a] > onChain[a] THEN to[a] - onChain[a] ELSE onChain[a] - to[a]]
      changes == {a \in DOMAIN onChain : to[a] # onChain[a]}
      most    == 1 + Max({0} \cup {volumes[a] : a \in DOMAIN onChain})
      key     == [a \in changes |-> moved[a] * most + volumes[a]]
  IN  {slice([i \in DOMAIN q |-> send(q[i], to[q[i]])], max) : q \in sorted(changes, key)}

-----------------------------------------------------------------------------
(* Liquidation, deleveraging and bad debt.                                 *)

\* Liquidatable accounts, most under water first.  Health that could not be read is
\* reported as blocked, never taken for healthy.
selectCandidates(health, maxAccounts) ==
  LET read         == {a \in DOMAIN health : health[a].readable}
      liquidatable == {a \in read : health[a].liquidatable}
  IN  [ liquidatable |->
          {slice(q, maxAccounts) :
             q \in sorted(liquidatable, [a \in liquidatable |-> health[a].shortfall])},
        blocked      |-> DOMAIN health \ read,
        healthy      |-> Cardinality(read \ liquidatable) ]

magnitude(n) == IF n < 0 THEN -n ELSE n
notionalAt(size, price, precision) == (magnitude(size) * price) \div precision

\* Exact unrealized profit at a price.
keeperPnl(p, price, precision) ==
  LET n == notionalAt(p.size, price, precision)
  IN  (IF p.size > 0 THEN n ELSE -n) - p.openNotional

\* The markets a liquidation may start with: the largest notional at the index.
pickLiquidationMarket(positions, index, precision) ==
  LET held  == {m \in DOMAIN positions : positions[m].size # 0}
      value == [m \in held |-> notionalAt(positions[m].size, index[m], precision)]
  IN  {m \in held : \A k \in held : value[k] <= value[m]}

\* The counterparties of a deleveraging: opposite the backstop, in profit, the largest
\* profit first.
pickAdlCounterparty(backstopSize, positions, price, precision) ==
  LET profit(t) == keeperPnl(positions[t], price, precision)
      eligible  == {t \in DOMAIN positions :
                      /\ positions[t].size # 0
                      /\ (positions[t].size > 0) # (backstopSize > 0)
                      /\ profit(t) > 0}
  IN  {t \in eligible : \A u \in eligible : profit(u) <= profit(t)}

\* adlStep's reasons to leave the shortfall alone before it looks at positions.
adlSkipped(readable, shortfall, adlMinShortfall) ==
  CASE ~readable -> "oracle"
    [] readable /\ shortfall <= 0 -> "no-shortfall"
    [] readable /\ shortfall > 0 /\ shortfall < adlMinShortfall -> "dust"
    [] OTHER -> "none"

\* settleBadDebts' condition: a closed-out deficit, and either capital to cover some of
\* it or a record that is out of date.
settlesBadDebt(st) ==
  /\ st.positionCount = 0 /\ st.balance < 0
  /\ ~(st.operating <= 0 /\ st.recordedDebt = -st.balance)

-----------------------------------------------------------------------------
(* Why a call was refused.                                                 *)

classifyLiquidationRevert(errorName) ==
  CASE errorName \in {"NotLiquidatable", "InvalidAmount", "LiquidationWouldNotImproveHealth"}
         -> "healthy"
    [] errorName \in {"StaleOracle", "OracleConfidenceTooWide", "InvalidPrice"} -> "oracle"
    [] errorName \in {"EnforcedPause", "ExecutionPaused"} -> "paused"
    [] errorName \in {"PositionNotFound", "HasOpenPositions"} -> "no-position"
    [] errorName = "NoBadDebtToOffset" -> "no-shortfall"
    [] errorName \in {"PositionNotInProfit", "DirectionMismatch"} -> "not-in-profit"
    [] OTHER -> "unknown"

-----------------------------------------------------------------------------
(* The KeeperAction rows (lib/keepers/runtime.ts) and what a keeper writes *)
(* in them, from the intent to the receipt, with the reconciliation of     *)
(* confirmed rows against the indexer's event tables.  A process may die   *)
(* between any two writes.                                                 *)

\* No value; no block is number 0.
NULL == "null"
NoBlock == 0

\* KeeperActions.record, update and open.
record(table, input) ==
  Append(table, input @@ [status |-> "PLANNED", txJobId |-> NULL, blockNumber |-> NoBlock, indexed |-> NULL,
                          updatedAt |-> 0])

update(table, id, patch, now) ==
  IF DOMAIN patch = {} THEN table
  ELSE [table EXCEPT ![id] = patch @@ [@ EXCEPT !.updatedAt = now]]

open(table, kind) == {id \in DOMAIN table : table[id].kind = kind /\ table[id].status \in {"PLANNED", "SUBMITTED"}}

-----------------------------------------------------------------------------
(* What a receipt shows: the events of one contract, in order.             *)

eventsFrom(logs, address) == SelectSeq(logs, LAMBDA l : l.address = address)

\* The funding keeper's: the first FundingUpdated of the engine for its market.
fundingUpdatedFrom(logs, marketId) ==
  SelectSeq(eventsFrom(logs, "engine"), LAMBDA l : l.event = "FundingUpdated" /\ l.marketId = marketId)

-----------------------------------------------------------------------------
(* One call, by how it ended: the patches of its row, in order.            *)

Submitted == [status |-> "SUBMITTED", txJobId |-> "job"]
failedAt(block) == [status |-> "FAILED", blockNumber |-> block]
confirmedAt(block, indexed) == [status |-> "CONFIRMED", blockNumber |-> block, indexed |-> indexed]

\* The liquidation keeper's send: pre-flight refused, not confirmed in time, reverted,
\* or successful.  The indexer has no table for a settled bad debt.
sendAction(kind, end) ==
  CASE end.what = "preflight"   -> <<[status |-> "FAILED"]>>
    [] end.what = "unconfirmed" -> <<Submitted>>
    [] end.what = "reverted"    -> <<Submitted, failedAt(end.block)>>
    [] end.what = "success"     -> <<Submitted, confirmedAt(end.block,
                                       IF kind = "liquidation.settle-bad-debt" THEN NULL ELSE "false")>>

\* The funding keeper's is confirmed only on the engine's own event for its market.
updateFunding(marketId, end) ==
  IF end.what # "success" THEN sendAction("funding.update", end)
  ELSE <<Submitted, IF fundingUpdatedFrom(end.logs, marketId) = <<>> THEN failedAt(end.block)
                    ELSE confirmedAt(end.block, NULL)>>

\* reconcileIndexed: the oldest `limit` confirmed rows not known to be indexed; the
\* ones whose transaction the event tables hold are marked, the others are missing
\* once the grace period is over.  A transaction is known by its block.
unindexed(table) ==
  SelectSeq([k \in DOMAIN table |-> k],
            LAMBDA id : /\ table[id].status = "CONFIRMED" /\ table[id].indexed = "false"
                        /\ table[id].kind \in {"liquidation.liquidate", "liquidation.adl"})
considered(table, limit) == {unindexed(table)[k] : k \in DOMAIN unindexed(table) \cap 1..limit}

reconcileIndexed(table, eventTables, limit, now) ==
  [id \in DOMAIN table |->
     IF id \in considered(table, limit) /\ table[id].blockNumber \in eventTables
     THEN [table[id] EXCEPT !.indexed = "true", !.updatedAt = now] ELSE table[id]]
missingRows(table, eventTables, limit, now, grace) ==
  {id \in considered(table, limit) :
     table[id].blockNumber \notin eventTables /\ now - table[id].updatedAt > grace}

-----------------------------------------------------------------------------
\* recentUtcDays: the days a tick recomputes the gas spend of.  DAY is a day's length.
utcDay(time, DAY) == time \div DAY
recentUtcDays(now, DAY) == {utcDay(now - DAY, DAY), utcDay(now, DAY), utcDay(now + DAY, DAY)}
=============================================================================
