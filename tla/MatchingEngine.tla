--------------------------- MODULE MatchingEngine ----------------------------
(***************************************************************************)
(* client/lib/market/matching-engine.ts and the price bands around it      *)
(* (client/lib/matcher/band.ts): which resting orders of one market trade  *)
(* with each other, as operators on the matcher's input.                   *)
(*                                                                         *)
(* The engine walks bids best first and, for each, asks best first.  Its   *)
(* two `break`s only end a row of pairs that would all be skipped, so the  *)
(* walk is a fold over the pairs in that order; the fold carries the       *)
(* run's Ledger.                                                           *)
(***************************************************************************)
EXTENDS KryonMath, SequencesExt

CONSTANT MAX_ORDER_TTL     \* OrderGateway.MAX_ORDER_TTL

notionalOf(size, price) == mulPrecision(size, price)

-----------------------------------------------------------------------------
(* Priority.                                                               *)

compareArrival(a, b) ==
  \/ a.createdAt < b.createdAt
  \/ a.createdAt = b.createdAt /\ a.hash < b.hash

\* Mutant: price decides, time does not.
comparePriceOnly(a, b, ascending) ==
  IF a.limitPrice # b.limitPrice
  THEN (a.limitPrice < b.limitPrice) = ascending
  ELSE a.hash > b.hash

\* Price, then arrival.
compare(a, b, ascending) ==
  IF a.limitPrice # b.limitPrice
  THEN (a.limitPrice < b.limitPrice) = ascending
  ELSE compareArrival(a, b)

\* The elements of S by rank, rank[x] of them before x.
ranked(S, rank) == [k \in 1..Cardinality(S) |-> CHOOSE x \in S : rank[x] = k - 1]

sorted(orders, ascending) ==
  ranked(orders, [o \in orders |-> Cardinality({p \in orders : compare(p, o, ascending)})])

-----------------------------------------------------------------------------
(* The Ledger of one run: size booked per order, and closed per owner by   *)
(* reduce-only orders.                                                     *)

emptyLedger(in) ==
  [ reserved |-> [h \in {o.hash : o \in in.orders} |-> 0],
    closed   |-> [u \in {o.owner : o \in in.orders} |-> 0] ]

remaining(ledger, o) == o.size - o.filledSize - ledger.reserved[o.hash]

\* Mutant: two reduce-only orders both close the whole position.
fillableAlone(in, ledger, o) ==
  LET left     == remaining(ledger, o)
      position == in.positions[o.owner]
  IN  IF ~o.reduceOnly \/ left <= 0 THEN left
      ELSE IF position = 0 \/ o.isLong = (position > 0) THEN 0
      ELSE min(left, abs(position))

\* A reduce-only order closes what this run has left of the position.
fillable(in, ledger, o) ==
  LET left     == remaining(ledger, o)
      position == in.positions[o.owner]
      headroom == abs(position) - ledger.closed[o.owner]
  IN  IF ~o.reduceOnly \/ left <= 0 THEN left
      ELSE IF position = 0 \/ o.isLong = (position > 0) THEN 0
      ELSE max(0, min(left, headroom))

bookFill(ledger, o, size) ==
  [ reserved |-> [ledger.reserved EXCEPT ![o.hash] = @ + size],
    closed   |-> [ledger.closed EXCEPT ![o.owner] = IF o.reduceOnly THEN @ + size ELSE @] ]

-----------------------------------------------------------------------------
(* The bands.                                                              *)

bandFor(index, bps) ==
  LET delta == mulDiv(index, bps, BPS_DENOMINATOR)
  IN  [low |-> index - delta, high |-> index + delta]

withinBand(price, band) == band.low <= price /\ price <= band.high

-----------------------------------------------------------------------------
(* matchOrders.                                                            *)

eligible(in, o) ==
  /\ o.marketId = in.marketId
  /\ in.nowSec < o.expiry /\ o.expiry <= in.nowSec + MAX_ORDER_TTL
  /\ o.nonce >= in.minValidNonce[o.owner]
  /\ o.size > o.filledSize
  /\ o.reduceOnly => fillable(in, emptyLedger(in), o) > 0

makerOf(bid, ask) == IF compareArrival(bid, ask) THEN bid ELSE ask
takerOf(bid, ask) == IF compareArrival(bid, ask) THEN ask ELSE bid

\* The trade a pair would make against this ledger.
matchOf(in, ledger, bid, ask) ==
  [ maker |-> makerOf(bid, ask).hash,
    taker |-> takerOf(bid, ask).hash,
    size  |-> min(fillable(in, ledger, bid), fillable(in, ledger, ask)),
    price |-> makerOf(bid, ask).limitPrice ]

trades(in, ledger, bid, ask) ==
  LET m == matchOf(in, ledger, bid, ask)
  IN  /\ bid.limitPrice >= ask.limitPrice
      /\ bid.owner # ask.owner
      /\ m.size > 0
      /\ withinBand(m.price, in.band)
      /\ notionalOf(m.size, m.price) >= in.minFillNotional

bidsOf(in) == sorted({o \in in.orders : o.isLong /\ eligible(in, o)}, FALSE)
asksOf(in) == sorted({o \in in.orders : ~o.isLong /\ eligible(in, o)}, TRUE)

\* Mutant: a bid is only tried against the best ask.
pairsOfBest(bids, asks) ==
  [k \in 1..(IF asks = <<>> THEN 0 ELSE Len(bids)) |-> <<bids[k], asks[1]>>]

\* Every pair, the best bid with the best ask first.
pairsOf(bids, asks) ==
  [k \in 1..(Len(bids) * Len(asks)) |->
     << bids[((k - 1) \div Len(asks)) + 1], asks[((k - 1) % Len(asks)) + 1] >>]

\* One pair of the walk.
matchPair(in, run, bid, ask) ==
  LET m == matchOf(in, run.ledger, bid, ask)
  IN  IF trades(in, run.ledger, bid, ask)
      THEN [ ledger  |-> bookFill(bookFill(run.ledger, bid, m.size), ask, m.size),
             matches |-> Append(run.matches, m) ]
      ELSE run

matchOrders(in) ==
  FoldLeft(LAMBDA run, pair : matchPair(in, run, pair[1], pair[2]),
           [ledger |-> emptyLedger(in), matches |-> <<>>],
           pairsOf(bidsOf(in), asksOf(in)))

-----------------------------------------------------------------------------
(* filterBackstopFills: the tighter band and the caps of the backstop, for *)
(* the matches a side of which is the backstop's.                          *)

filterFill(backstop, index, limits, kept, m) ==
  LET n  == notionalOf(m.size, m.price)
      ok == /\ limits.maxDeviationBps # 0
            /\ withinBand(m.price, bandFor(index, limits.maxDeviationBps))
            /\ n <= limits.maxFillNotional
            /\ kept.used + n <= limits.maxDailyNotional - limits.usedToday
  IN  IF m \notin backstop THEN [kept EXCEPT !.matches = Append(@, m)]
      ELSE IF ok THEN [matches |-> Append(kept.matches, m), used |-> kept.used + n]
      ELSE kept

filterBackstopFills(matches, backstop, index, limits) ==
  FoldLeft(LAMBDA kept, m : filterFill(backstop, index, limits, kept, m),
           [matches |-> <<>>, used |-> 0], matches).matches
=============================================================================
