---------------------------- MODULE MCMarketData ----------------------------
EXTENDS MarketData, TLC
CONSTANTS a1, a2
MCTouches == [e \in 1..MaxHead |-> IF e = 1 THEN {a1} ELSE IF e = 2 THEN {a2} ELSE {a1, a2}]
Windows == [p \in Periods |-> IF p = "DAY" THEN 1 ELSE 3]
MCMounts == [f \in Streams |-> IF f \in {"trades", "orderbook"} THEN 2 ELSE 1]
Symmetry == Permutations(Sockets) \cup Permutations(Browsers)

-----------------------------------------------------------------------------
(* The projections over every short log of these events.                   *)
Project == INSTANCE Projections

ev(name) == [name |-> name]
fill(size, pnl) == <<[trader |-> "a", size |-> size, realizedPnl |-> pnl],
                     [trader |-> "b", size |-> -size, realizedPnl |-> -pnl]>>
moved(p) == [name |-> "PositionChanged", marketId |-> 1, reason |-> "TRADE"] @@ p
Listing == <<ev("MarketListed") @@ [marketId |-> 1, oracleId |-> "BTC"]>>

\* What one transaction emits.
Txs ==
  { <<ev("MarketParamsSet") @@ [marketId |-> 1, params |-> [active |-> TRUE]]>>,
    <<ev("MarketActiveSet") @@ [marketId |-> 1, active |-> FALSE]>>,
    <<ev("MarketFeesSet") @@ [marketId |-> 1, makerRate |-> -1, takerRate |-> 3]>>,
    <<ev("PriceUpdated") @@ [id |-> "BTC", price |-> 7]>>,
    <<ev("FundingUpdated") @@ [ marketId |-> 1, longIndex |-> 2, shortIndex |-> 1,
                                ratePerHour |-> 1, mark |-> 8 ],
      ev("FundingSettled") @@ [trader |-> "a", marketId |-> 1, amount |-> -2]>>,
    <<moved(fill(2, 0)[1]), moved(fill(2, 0)[2])>>,
    <<moved(fill(-1, 5)[1]), moved(fill(-1, 5)[2]),
      ev("FeeAccrued") @@ [payer |-> "a", marketId |-> 1, amount |-> 1, referrer |-> "0x0"]>>,
    <<[moved(fill(0, -4)[1]) EXCEPT !.reason = "LIQUIDATION"],
      [moved(fill(0, -4)[2]) EXCEPT !.reason = "ADL"],
      ev("Liquidated") @@ [trader |-> "a", marketId |-> 1, closeSize |-> 1, penalty |-> 3],
      ev("Deleveraged") @@ [counterparty |-> "b", closeSize |-> 1],
      ev("InternalTransfer") @@ [from |-> "a", to |-> "b", amount |-> -3]>>,
    <<ev("Deposited") @@ [account |-> "a", payer |-> "b", internalAmount |-> 9],
      ev("Withdrawn") @@ [account |-> "a", to |-> "a", internalAmount |-> 4],
      ev("FeeTierSet") @@ [account |-> "a", tier |-> 2],
      ev("FeeClaimed") @@ [bucket |-> "treasury", amount |-> 1],
      ev("BackstopUnwound") @@ [marketId |-> 1, notional |-> 2]>> }

\* The log of a sequence of transactions, every event with its place.
inOrder(txs) ==
  LET events == FlattenSeq(txs) IN [k \in DOMAIN events |-> events[k] @@ [at |-> k]]
Logs == {inOrder(<<Listing>> \o txs) : txs \in UNION {[1..k -> Txs] : k \in 0..3}}

live(log) == Project!project(Project!Empty, log)

\* "Applying an event twice is harmless", and so is a position's event applied late.
ASSUME AppliedTwice ==
  \A log \in Logs : \A db \in {live(log)} :
    \A k \in DOMAIN log :
      k = Len(log) \/ log[k].name = "PositionChanged" => Project!applyEvent(db, log[k]) = db

\* A rebuild from the stored events reproduces the live tables.
ASSUME RebuildExact ==
  \A log \in Logs : \A db \in {live(log)} : Project!rebuild(db, log) = db

\* ... except for what happened before the market's row existed: live indexing passed
\* over the fees and the price of an unlisted market, a rebuild finds the row.
ASSUME RebuildKnowsMore ==
  \A tx \in {t \in Txs : t[1].name \in {"MarketFeesSet", "PriceUpdated"}} :
    \A log \in {inOrder(<<tx>> \o <<Listing>>)} : Project!rebuild(live(log), log) # live(log)

\* Open interest is balanced, and a position's realized profit is the sum of its PnlEvent rows.
pnlRows(db, trader) ==
  {k \in DOMAIN db.Log : /\ k[1] = "PnlEvent" /\ k[3] = trader
                         /\ k[4] \in {"REALIZED_TRADE", "LIQUIDATION", "DELEVERAGE"}}
ASSUME PositionsAddUp ==
  \A log \in Logs : \A db \in {live(log)} :
    LET amount(k) == db.Log[k].amount IN
    /\ db.Market[1].longOpenInterest = db.Market[1].shortOpenInterest
    /\ \A k \in DOMAIN db.Position :
         db.Position[k].realizedPnlCum = MapThenSumSet(amount, pnlRows(db, k[1]))

\* A second market on a feed that already has one cannot be inserted: its window, and
\* every later one, is never committed.
ASSUME SharedFeedStalls ==
  /\ Project!symbolTaken(live(inOrder(<<Listing>>)), [marketId |-> 2, oracleId |-> "BTC"])
  /\ ~Project!symbolTaken(live(inOrder(<<Listing>>)), [marketId |-> 2, oracleId |-> "ETH"])

-----------------------------------------------------------------------------
(* The read queries, over the tables above and over every table of up to   *)
(* three fills, created at some of three times and settled in any order.   *)

fillRow(id, status, created, place, p) ==
  [ id |-> id, marketId |-> 1, maker |-> IF id = 2 THEN "b" ELSE "a", taker |-> "c", size |-> id, price |-> p,
    status |-> status, createdAt |-> created, at |-> IF status = "SETTLED" THEN place ELSE 0 ]
Places == {f \in [1..3 -> 1..3] : \A i, j \in 1..3 : f[i] = f[j] => i = j}
FillTables ==
  { {fillRow(i, st[i], cr[i], pl[i], 3 + pr[i]) : i \in 1..3} :
      st \in [1..3 -> {"PENDING", "SETTLED", "REJECTED"}], cr \in [1..3 -> {1, 2, 5}],
      pl \in Places, pr \in {<<1, 2, 3>>, <<2, 3, 1>>} }
volumeOf(candles) == FoldLeft(LAMBDA a, c : a + c.volume, 0, candles)
Timeframe == 4

\* Anything public counts settled fills only, each one once: the prints, the candles and
\* the volumes agree with each other, and a candle's body lies within its wicks.
ASSUME PublicAgree ==
  \A fills \in FillTables :
    \A prints \in {Project!listTrades(fills, 1, 9)}, candles \in {Project!listCandles(fills, 1, Timeframe, 9)},
       volumes \in {Project!marketVolumes(fills, 0, 10)} :
      /\ \A k \in DOMAIN prints : prints[k].status = "SETTLED" /\ (k > 1 => prints[k - 1].at > prints[k].at)
      /\ \A c \in Range(candles) : /\ c.low <= Min({c.open, c.close})
                                   /\ c.high >= Max({c.open, c.close})
      /\ volumeOf(candles) = FoldLeft(LAMBDA a, f : a + f.size, 0, prints)
      /\ IF prints = <<>> THEN volumes = <<>>
         ELSE volumes[1].size = volumeOf(candles) /\ volumes[1].trades = Len(prints)
      /\ Project!listCandles(fills, 1, Timeframe, 1) = SubSeq(candles, Max({1, Len(candles)}), Len(candles))

\* An account sees its own fills of every status, once each, newest first.
ASSUME OwnFillsComplete ==
  \A fills \in FillTables : \A from \in 0..1 : \A own \in {Project!listFillsForAccount(fills, "a", from, 9)} :
    /\ Range(own) = {f \in fills : f.maker = "a" /\ f.createdAt > from} /\ Len(own) = Cardinality(Range(own))
    /\ \A k \in 2..Len(own) : own[k - 1].createdAt >= own[k].createdAt

\* A candle is of the time its fills were matched, not settled: a fill that settles late
\* changes a candle that had ended.
ASSUME CandlesNotFinal ==
  \E old, new \in FillTables :
    /\ \E f \in old, g \in new : /\ f.status = "PENDING" /\ g = [f EXCEPT !.status = "SETTLED", !.at = 3]
                                /\ new = (old \ {f}) \cup {g}
    /\ Len(Project!listCandles(old, 1, Timeframe, 9)) = 2
    /\ Project!listCandles(old, 1, Timeframe, 9)[1].close # Project!listCandles(new, 1, Timeframe, 9)[1].close

\* What the pages show of the projected tables: the active markets are among all, a
\* symbol names at most one, a market without parameters has none, and an account's
\* history holds everything its position realized.
ASSUME PagesAgree ==
  \A log \in Logs : \A db \in {live(log)} :
    /\ \A m \in Range(Project!listActiveMarkets(db.Market)) :
         Project!getMarketById(db.Market, m.marketId) = {m} /\ Project!getMarketBySymbol(db.Market, m.symbol) = {m}
    /\ Len(Project!listMarkets(db.Market)) = 1 /\ Project!getMarketById(db.Market, 2) = {}
    /\ Project!riskFromParams(db.Market[1].params).maxLeverageBps = 0
    /\ \A k \in DOMAIN db.Position : \A history \in {Range(Project!listPnlEvents(db.Log, k[1], 9))} :
         LET amount(r) == IF r.kind \in {"FEE", "FUNDING", "LIQUIDATION_PENALTY"} THEN 0 ELSE r.amount
         IN db.Position[k].realizedPnlCum = MapThenSumSet(amount, history)

\* A transfer leaves one account and reaches the other, whatever the sign of its amount.
ASSUME TransfersPair ==
  \A log \in Logs : \A db \in {live(log)} :
    \A out \in {r \in Range(Project!listBalanceChanges(db.Log, "b", 9)) : r.kind = "TRANSFER_OUT"} :
      \E in \in Range(Project!listBalanceChanges(db.Log, out.counterparty, 9)) :
        in.id = out.id /\ in.kind = "TRANSFER_IN" /\ in.internalAmount = out.internalAmount

ASSUME EquityCurve ==
  \A t \in [1..3 -> 1..3] : \A n \in 1..3 :
    \A curve \in {Project!listPortfolioSnapshots({[id |-> i, createdAt |-> t[i]] : i \in 1..3}, n)} :
      /\ Len(curve) = n
      /\ \A k \in 2..n : curve[k - 1].createdAt <= curve[k].createdAt
      /\ \A i \in 1..3 : t[i] <= curve[n].createdAt
=============================================================================
