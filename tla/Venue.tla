-------------------------------- MODULE Venue --------------------------------
(***************************************************************************)
(* The life of an order off chain: traders submit and cancel through the   *)
(* API and on chain, the backstop unwinder posts reduce-only orders        *)
(* through the same intake, the matcher pairs what rests, the chain        *)
(* settles or refuses each fill, and the indexer follows with a lag.       *)
(*                                                                         *)
(* A step ends where the code awaits and somebody else may act: between    *)
(* the validation of an order and its insert, between the matcher's read   *)
(* of the book and its reservation, and between the unwinder's reads.      *)
(* What the matcher does around a batch, its crashes and its retries is    *)
(* Matcher.tla; margin is Exchange.tla, so an account here can always pay. *)
(***************************************************************************)
EXTENDS OrderIntake

-----------------------------------------------------------------------------
(* client/lib/keepers/backstop.ts, planning: which reduce-only orders the  *)
(* backstop unwinder posts, from the limits, positions, open orders and    *)
(* index prices it has read.  An index of 0 stands for a stale feed.       *)

CONSTANTS
  PRICE_OFFSET_BPS,       \* how far from the index an unwind order is priced
  MAX_ORDERS_PER_TICK

ceilDiv(a, b) == (a + b - 1) \div b

unwindBand(index, bps) == bandFor(index, bps)

\* The highest price a fill of this order is accepted at: a sell may fill above
\* its limit, up to the top of the band.
worstFillPrice(isLong, limitPrice, index, bps) ==
  IF isLong THEN min(limitPrice, unwindBand(index, bps).high) ELSE unwindBand(index, bps).high

unwindLimitPrice(isLong, index, offset, bps) ==
  LET off  == clamp(offset, 0, bps)
      band == unwindBand(index, bps)
      p    == IF isLong THEN mulDiv(index, BPS_DENOMINATOR + off, BPS_DENOMINATOR)
              ELSE ceilDiv(index * (BPS_DENOMINATOR - off), BPS_DENOMINATOR)
  IN  clamp(p, band.low, band.high)

\* What an open order may still take of the daily cap.  Without an index it is
\* reserved at its limit plus the whole band.
reservedBy(o, index, bps) ==
  LET worst == IF index > 0 THEN worstFillPrice(o.isLong, o.limitPrice, index, bps)
               ELSE mulDiv(o.limitPrice, BPS_DENOMINATOR + bps, BPS_DENOMINATOR)
  IN  notionalOf(o.size - o.filledSize, worst) + 1

\* Mutant: open orders are not counted against the day.
budgetIgnoringOpen(limits, index, open) == max(0, limits.maxDailyNotional - limits.usedToday)

budget(limits, index, open) ==
  max(0, limits.maxDailyNotional - limits.usedToday
         - SumFunctionOnSet([o \in open |-> reservedBy(o, index[o.marketId],
                                                        limits.maxDeviationBps)],
                            open))

\* Largest exposure first.
heldFirst(positions, index) ==
  LET held     == {m \in DOMAIN positions : positions[m] # 0}
      worth(m) == abs(positions[m]) * index[m]
      ahead(m) == {a \in held : worth(a) > worth(m) \/ (worth(a) = worth(m) /\ a < m)}
  IN  ranked(held, [m \in held |-> Cardinality(ahead(m))])

\* One market's slice within `cap`.
sliceOf(limits, index, m, position, cap) ==
  LET isLong == position < 0
      limit  == unwindLimitPrice(isLong, index, PRICE_OFFSET_BPS, limits.maxDeviationBps)
      worst  == worstFillPrice(isLong, limit, index, limits.maxDeviationBps)
      size   == min(abs(position), mulDiv(cap, PRECISION, worst))
  IN  [ marketId |-> m, isLong |-> isLong, size |-> size, limitPrice |-> limit,
        index |-> index, worstNotional |-> notionalOf(size, worst) ]

\* One market's turn.
planMarket(in, plan, m) ==
  LET cap == min(in.limits.maxFillNotional, plan.budget)
      s   == sliceOf(in.limits, in.index[m], m, in.positions[m], cap)
  IN  IF \/ \E o \in in.open : o.marketId = m
         \/ in.index[m] = 0
         \/ in.minFillNotional[m] = 0
         \/ Len(plan.slices) >= MAX_ORDERS_PER_TICK
         \/ cap <= 0
      THEN plan
      ELSE IF s.size = 0 \/ notionalOf(s.size, s.limitPrice) < in.minFillNotional[m]
      THEN plan
      ELSE [ slices |-> Append(plan.slices, s),
             budget |-> plan.budget - (s.worstNotional + 1) ]

\* planUnwind: `in` has limits, positions, index, minFillNotional (0 when the market
\* is not configured) and the open orders.
planUnwind(in) ==
  FoldLeft(LAMBDA plan, m : planMarket(in, plan, m),
           [slices |-> <<>>, budget |-> budget(in.limits, in.index, in.open)],
           heldFirst(in.positions, in.index))

-----------------------------------------------------------------------------
(* The venue.                                                              *)

CONSTANTS
  Traders,
  BACKSTOP,             \* the Insurance contract
  Markets,
  Submissions,          \* requests traders may send to POST /api/orders
  Resting,              \* those of them on the book at the start
  InitialPositions,     \* signed positions at the start
  InitialIndex,
  Prices,               \* index prices a market may move to; 0 is a stale feed
  MAX_EXECUTION_DEVIATION_BPS,
  UnwindLimits,         \* Insurance.unwindLimits
  UNWIND_TTL,           \* BACKSTOP_ORDER_TTL_SECONDS
  MAX_UNWIND_ORDER_TTL,
  Deadlines,            \* deadlines of signed cancels
  MaxTime,              \* bound: the clock
  MaxRequests,          \* bound: submissions between validation and insert
  MaxMoves,             \* bound: index moves, halts, cancels and crashes
  MaxUnwinds,           \* bound: orders of the unwinder
  MaxFills              \* bound: fills reserved

Owners == Traders \cup {BACKSTOP}
Nonces == {s.order.nonce : s \in Submissions}

\* Unwind orders get hashes and nonces 1, 2, ...
UnwindHashes == 1..MaxUnwinds
Hashes == {s.order.hash : s \in Submissions} \cup UnwindHashes

\* What stops trading: the pause, a delisted market, a revoked backstop key.
Halts == {"paused", "inactive", "revoked"}

ASSUME VenueConfig ==
  /\ BACKSTOP \notin Traders
  /\ UNWIND_TTL <= MAX_UNWIND_ORDER_TTL /\ UNWIND_TTL > 0
  /\ {s.order.hash : s \in Submissions} \cap UnwindHashes = {}

\* Every market is configured; index prices are unsigned; Insurance.setUnwindLimits
\* bounds the unwind limits.
ASSUME MarketsAssumption ==
  /\ Markets \subseteq Nat /\ IsFiniteSet(Markets) /\ Markets \subseteq DOMAIN minFillNotional
  /\ \A m \in Markets : minFillNotional[m] \in Nat
  /\ InitialPositions \in [Owners -> [Markets -> Int]]
  /\ InitialIndex \in [Markets -> Nat] /\ Prices \subseteq Nat
  /\ UnwindLimits \in [ maxDeviationBps : 0..BPS_DENOMINATOR, maxFillNotional : Nat,
                        maxDailyNotional : Nat ]
  /\ {MAX_EXECUTION_DEVIATION_BPS, MAX_ORDERS_PER_TICK} \subseteq Nat
  /\ {PRICE_OFFSET_BPS, UNWIND_TTL, MAX_ORDER_TTL, UINT_MAX} \subseteq Int

\* A field of a body may have any value; the columns of a stored row may not.
Requested == [ hash : Int, owner : Traders, marketId : Int, isLong : BOOLEAN, size : Int,
               limitPrice : Int, reduceOnly : BOOLEAN, nonce : Int, expiry : Int ]

\* What rests at the start was taken in before, each hash once.
ASSUME RequestsAssumption ==
  /\ \A s \in Submissions : s.order \in Requested
  /\ Resting \subseteq Submissions /\ IsFiniteSet(Resting)
  /\ \A s \in Resting : parseOrder(s.order) = "ok" /\ s.order.expiry <= MAX_ORDER_TTL
  /\ \A s, r \in Resting : s.order.hash = r.order.hash => s = r

VARIABLES
  db,         \* the tables of OrderIntake
  chain,      \* the contracts' storage
  log,        \* events mined and not yet indexed
  requests,   \* orders validated and not yet inserted
  matcher,    \* the fills the matcher is about to reserve, and those sent
  keeper,     \* the unwinder's memory
  intents,    \* open KeeperAction rows of the unwinder, by order hash
  now,
  moves       \* counts moves

vars == <<db, chain, log, requests, matcher, keeper, intents, now, moves>>

Idle == [pc |-> "idle", nowSec |-> 0, limits |-> <<>>, positions |-> <<>>, open |-> {},
         index |-> <<>>, slices |-> <<>>, posted |-> 0]

Init ==
  /\ db = [ orders        |-> [h \in {s.order.hash : s \in Resting} |->
                               newRow((CHOOSE s \in Resting : s.order.hash = h).order, 0)],
            minValidNonce |-> [u \in Owners |-> 0],
            positions     |-> InitialPositions,
            active        |-> [m \in Markets |-> TRUE],
            fills         |-> {} ]
  /\ chain = [ minNonce  |-> [u \in Owners |-> 0],
               cancelled |-> {},
               filled    |-> [h \in Hashes |-> 0],
               positions |-> InitialPositions,
               index     |-> InitialIndex,
               unwound   |-> 0,
               halted    |-> {} ]
  /\ log = <<>>
  /\ requests = {}
  /\ matcher = [offer |-> <<>>, queue |-> <<>>, fills |-> 0]
  /\ keeper = Idle
  /\ intents = {}
  /\ now = 0
  /\ moves = 0

-----------------------------------------------------------------------------
(* The contracts, as the venue uses them.                                  *)

isCancelledOnChain(o) == o.nonce < chain.minNonce[o.owner] \/ <<o.owner, o.nonce>> \in chain.cancelled

\* Insurance.isValidSignature through OrderLib; a trader's key never lapses.
isValidSignature(o) ==
  o.owner = BACKSTOP =>
    o.reduceOnly /\ o.expiry <= now + MAX_UNWIND_ORDER_TTL /\ "revoked" \notin chain.halted

\* OrderGateway._consume.
mayConsume(c, o, size, price) ==
  /\ now <= o.expiry /\ o.expiry <= now + MAX_ORDER_TTL
  /\ ~isCancelledOnChain(o)
  /\ c.filled[o.hash] + size <= o.size
  /\ IF o.isLong THEN price <= o.limitPrice ELSE price >= o.limitPrice
  /\ isValidSignature(o)

\* Engine._trade: a reduce-only side never opens; a delisted market only closes.
mayTrade(c, o, m, size) ==
  LET position == c.positions[o.owner][m]
      closes   == position # 0 /\ (position > 0) # o.isLong /\ size <= abs(position)
  IN  o.reduceOnly \/ "inactive" \in chain.halted => closes

\* Insurance.onBackstopFill.
unwindAllowed(c, m, size, price) ==
  /\ abs(price - c.index[m]) <= mulDiv(c.index[m], UnwindLimits.maxDeviationBps, BPS_DENOMINATOR)
  /\ notionalOf(size, price) <= UnwindLimits.maxFillNotional
  /\ c.unwound + notionalOf(size, price) <= UnwindLimits.maxDailyNotional

\* settleOne on the signed orders of fill f.
settles(c, f) ==
  LET maker == db.orders[f.maker]
      taker == db.orders[f.taker]
  IN  /\ "paused" \notin c.halted
      /\ maker.owner # taker.owner
      /\ mayConsume(c, maker, f.size, f.price) /\ mayConsume(c, taker, f.size, f.price)
      /\ notionalOf(f.size, f.price) >= minFillNotional[f.marketId]
      /\ c.index[f.marketId] > 0
      /\ withinBand(f.price, bandFor(c.index[f.marketId], MAX_EXECUTION_DEVIATION_BPS))
      /\ mayTrade(c, maker, f.marketId, f.size) /\ mayTrade(c, taker, f.marketId, f.size)
      /\ BACKSTOP \in {maker.owner, taker.owner} => unwindAllowed(c, f.marketId, f.size, f.price)

consumed(c, f) == [c.filled EXCEPT ![f.maker] = @ + f.size, ![f.taker] = @ + f.size]

\* Engine.applyFill, one side.
applyFill(positions, owner, m, delta) == [positions EXCEPT ![owner][m] = @ + delta]

settled(c, f) ==
  LET maker == db.orders[f.maker]
      taker == db.orders[f.taker]
      moved(o) == IF o.isLong THEN f.size ELSE -f.size
  IN  [c EXCEPT
         !.filled    = consumed(c, f),
         !.positions = applyFill(applyFill(@, maker.owner, f.marketId, moved(maker)),
                                 taker.owner, f.marketId, moved(taker)),
         !.unwound   = IF BACKSTOP \in {maker.owner, taker.owner}
                       THEN @ + notionalOf(f.size, f.price) ELSE @]

-----------------------------------------------------------------------------
(* The API and the traders' own transactions.                              *)

\* POST /api/orders up to the insert, when the limiters let it pass and a contract owner
\* is reached and agrees; otherwise it is refused and nothing changes.
SubmitOrder(s) ==
  /\ s \notin requests /\ s.order.hash \notin DOMAIN db.orders
  /\ Cardinality(requests) < MaxRequests
  /\ intake(db, s, now, "valid", TRUE) = "ok"
  /\ requests' = requests \cup {s}
  /\ UNCHANGED <<db, chain, log, matcher, keeper, intents, now, moves>>

InsertOrder(s) ==
  /\ s \in requests
  /\ db' = insertOrder(db, s.order, now)
  /\ requests' = requests \ {s}
  /\ UNCHANGED <<chain, log, matcher, keeper, intents, now, moves>>

\* POST /api/orders/cancel and /cancel-all.
CancelOrder(u, n) ==
  /\ moves < MaxMoves /\ moves' = moves + 1
  /\ \E d \in Deadlines : validateCancel(d, now) = "ok"
  /\ db' = cancelOrderByNonce(db, u, n) /\ db' # db
  /\ UNCHANGED <<chain, log, requests, matcher, keeper, intents, now>>

CancelAll(u, m) ==
  /\ moves < MaxMoves /\ moves' = moves + 1
  /\ \E d \in Deadlines : validateCancelAll(d, now) = "ok"
  /\ db' = cancelAllOrders(db, u, m, now) /\ db' # db
  /\ UNCHANGED <<chain, log, requests, matcher, keeper, intents, now>>

\* cancelOrder and cancelSigned on the gateway; cancelUpTo.
CancelOnChain(u, n) ==
  /\ moves < MaxMoves /\ moves' = moves + 1
  /\ chain' = [chain EXCEPT !.cancelled = @ \cup {<<u, n>>}]
  /\ log' = Append(log, [type |-> "OrderCancelled", owner |-> u, nonce |-> n])
  /\ UNCHANGED <<db, requests, matcher, keeper, intents, now>>

CancelUpTo(u, n) ==
  /\ moves < MaxMoves /\ moves' = moves + 1
  /\ n > chain.minNonce[u]
  /\ chain' = [chain EXCEPT !.minNonce[u] = n]
  /\ log' = Append(log, [type |-> "NoncesCancelledUpTo", owner |-> u, nonce |-> n])
  /\ UNCHANGED <<db, requests, matcher, keeper, intents, now>>

-----------------------------------------------------------------------------
(* The matcher, the chain and the indexer.                                 *)

isBackstopMatch(f) == BACKSTOP \in {db.orders[f.maker].owner, db.orders[f.taker].owner}

backstopMatches(matches) == {f \in Range(matches) : isBackstopMatch(f)}

backstopLimits == [ maxDeviationBps  |-> UnwindLimits.maxDeviationBps,
                    maxFillNotional  |-> UnwindLimits.maxFillNotional,
                    maxDailyNotional |-> UnwindLimits.maxDailyNotional,
                    usedToday        |-> chain.unwound ]

bookOf(m) == loadBook(db, m, chain.index[m], MAX_EXECUTION_DEVIATION_BPS, now)

\* What one tick offers for market m: the engine's matches, held to the backstop's
\* own limits afterwards.
heldToLimits(m, matches) ==
  filterBackstopFills(matches, backstopMatches(matches), chain.index[m], backstopLimits)
offered(m) == heldToLimits(m, matchOrders(bookOf(m)).matches)

MatchMarket(m) ==
  /\ matcher.offer = <<>> /\ matcher.queue = <<>>
  /\ db.active[m] /\ chain.index[m] > 0
  /\ \E offer \in {offered(m)} :
       /\ offer # <<>> /\ matcher.fills + Len(offer) <= MaxFills
       /\ matcher' = [matcher EXCEPT
            !.offer = [k \in 1..Len(offer) |->
                         [ maker |-> offer[k].maker, taker |-> offer[k].taker,
                           size |-> offer[k].size, price |-> offer[k].price,
                           marketId |-> m, id |-> matcher.fills + k ]],
            !.fills = @ + Len(offer)]
  /\ UNCHANGED <<db, chain, log, requests, keeper, intents, now, moves>>

\* PENDING rows first, then the batch.
ReserveAndSend ==
  /\ matcher.offer # <<>>
  /\ db' = [db EXCEPT !.fills = @ \cup Range(matcher.offer)]
  /\ matcher' = [matcher EXCEPT !.offer = <<>>, !.queue = matcher.offer]
  /\ UNCHANGED <<chain, log, requests, keeper, intents, now, moves>>

\* One fill of the batch: settled, or refused and its reservation released.
SettleFill ==
  /\ matcher.queue # <<>>
  /\ LET f == Head(matcher.queue)
     IN  \/ /\ settles(chain, f)
            /\ chain' = settled(chain, f)
            /\ log' = Append(log, [type |-> "FillSettled", fill |-> f])
            /\ UNCHANGED db
         \/ /\ ~settles(chain, f)
            /\ db' = [db EXCEPT !.fills = @ \ {f}]
            /\ UNCHANGED <<chain, log>>
  /\ matcher' = [matcher EXCEPT !.queue = Tail(@)]
  /\ UNCHANGED <<requests, keeper, intents, now, moves>>

IndexEvent ==
  /\ log # <<>>
  /\ LET e == Head(log)
     IN  db' = CASE e.type = "FillSettled"         -> applyFillSettled(db, e.fill)
                 [] e.type = "OrderCancelled"      -> applyOrderCancelled(db, e.owner, e.nonce)
                 [] e.type = "NoncesCancelledUpTo" -> applyNoncesCancelledUpTo(db, e.owner, e.nonce)
                 [] e.type = "MarketActiveSet"     -> [db EXCEPT !.active[e.market] = FALSE]
  /\ log' = Tail(log)
  /\ UNCHANGED <<chain, requests, matcher, keeper, intents, now, moves>>

-----------------------------------------------------------------------------
(* The unwinder's tick.                                                    *)

\* The book's row of an order, by hash.
orderState(h) == db.orders[h]

ended(h) == \/ orderState(h).expiry <= now
            \/ orderState(h).status \in {"FILLED", "EXPIRED", "CANCELLED"}

\* The chain's answers to the tick's first reads.
unwinderReads == [limits |-> backstopLimits, positions |-> chain.positions[BACKSTOP]]

\* Paused, the key without its role, or flat.
idleReason == \/ chain.halted \cap {"paused", "revoked"} # {}
              \/ \A m \in Markets : chain.positions[BACKSTOP][m] = 0

\* closeFinished; then the limits, the pause, the role and the positions.  An idle
\* tick only closes.
BeginUnwind ==
  /\ keeper.pc = "idle"
  /\ intents' = {h \in intents : ~ended(h)}
  /\ \/ /\ idleReason /\ intents' # intents
        /\ UNCHANGED keeper
     \/ /\ ~idleReason
        /\ keeper' = [keeper EXCEPT !.pc = "plan", !.nowSec = now, !.limits = unwinderReads.limits,
                                    !.positions = unwinderReads.positions]
  /\ UNCHANGED <<db, chain, log, requests, matcher, now, moves>>

openOrders(nowSec) ==
  {db.orders[h] : h \in {x \in DOMAIN db.orders : /\ db.orders[x].owner = BACKSTOP
                                                  /\ db.orders[x].status \in LIVE_STATUSES
                                                  /\ db.orders[x].expiry > nowSec}}

\* A market delisted, or not configured yet, takes no unwind order.
minFillNotionalOf(m) == IF db.active[m] THEN minFillNotional[m] ELSE 0

planInput ==
  [ limits    |-> keeper.limits,
    positions |-> keeper.positions,
    index     |-> chain.index,
    open      |-> openOrders(keeper.nowSec),
    minFillNotional |-> [m \in Markets |-> minFillNotionalOf(m)] ]

\* The open orders, then the index prices, then planUnwind.
PlanUnwind ==
  /\ keeper.pc = "plan"
  /\ LET plan == planUnwind(planInput)
     IN  keeper' = IF plan.slices = <<>> THEN Idle
                   ELSE [keeper EXCEPT !.pc = "post", !.slices = plan.slices,
                                       !.open = openOrders(keeper.nowSec), !.index = chain.index]
  /\ UNCHANGED <<db, chain, log, requests, matcher, intents, now, moves>>

nextUnwind == Cardinality({h \in DOMAIN db.orders : db.orders[h].owner = BACKSTOP}) + 1

unwindOrder(slice, expiry, k) ==
  [ hash |-> k, owner |-> BACKSTOP, marketId |-> slice.marketId, isLong |-> slice.isLong,
    size |-> slice.size, limitPrice |-> slice.limitPrice, reduceOnly |-> TRUE, nonce |-> k,
    expiry |-> expiry ]

\* The envelope the gateway hands to Insurance.isValidSignature.
signUnwindOrder(o) == [order |-> o, chainOk |-> TRUE, signature |-> "erc1271"]

\* The same intake as a trader's order, short of the HTTP request.
submitUnwind(o) ==
  validateOrderSubmission(db, signUnwindOrder(o), now,
                          IF isValidSignature(o) THEN "valid" ELSE "invalid")

\* A refusal moves to the next slice.
PostSlice ==
  /\ keeper.pc = "post" /\ nextUnwind <= MaxUnwinds
  /\ LET o    == unwindOrder(Head(keeper.slices), keeper.nowSec + UNWIND_TTL, nextUnwind)
         ok   == submitUnwind(o) = "ok"
         rest == Tail(keeper.slices)
     IN  \/ /\ ok
            /\ db' = insertOrder(db, o, now)
            /\ keeper' = [keeper EXCEPT !.pc = "record", !.slices = rest, !.posted = o.hash]
         \/ /\ ~ok
            /\ keeper' = IF rest = <<>> THEN Idle ELSE [keeper EXCEPT !.slices = rest]
            /\ UNCHANGED db
  /\ UNCHANGED <<chain, log, requests, matcher, intents, now, moves>>

RecordIntent ==
  /\ keeper.pc = "record"
  /\ intents' = intents \cup {keeper.posted}
  /\ keeper' = IF keeper.slices = <<>> THEN Idle
               ELSE [keeper EXCEPT !.pc = "post", !.posted = 0]
  /\ UNCHANGED <<db, chain, log, requests, matcher, now, moves>>

CrashUnwinder ==
  /\ keeper.pc # "idle"
  /\ moves < MaxMoves /\ moves' = moves + 1
  /\ keeper' = Idle
  /\ UNCHANGED <<db, chain, log, requests, matcher, intents, now>>

-----------------------------------------------------------------------------
(* The environment.                                                        *)

MoveIndex(m, p) ==
  /\ moves < MaxMoves /\ moves' = moves + 1
  /\ chain.index[m] # p
  /\ chain' = [chain EXCEPT !.index[m] = p]
  /\ UNCHANGED <<db, log, requests, matcher, keeper, intents, now>>

Halt(r) ==
  /\ moves < MaxMoves /\ moves' = moves + 1
  /\ r \notin chain.halted
  /\ chain' = [chain EXCEPT !.halted = @ \cup {r}]
  /\ log' = IF r = "inactive"
            THEN log \o SetToSeq({[type |-> "MarketActiveSet", market |-> m] : m \in Markets})
            ELSE log
  /\ UNCHANGED <<db, requests, matcher, keeper, intents, now>>

Tick ==
  /\ now < MaxTime
  /\ now' = now + 1
  /\ UNCHANGED <<db, chain, log, requests, matcher, keeper, intents, moves>>

Next ==
  \/ \E s \in Submissions : SubmitOrder(s) \/ InsertOrder(s)
  \/ \E u \in Traders, n \in Nonces : CancelOrder(u, n) \/ CancelOnChain(u, n)
  \/ \E u \in Traders, m \in Markets \cup {0} : CancelAll(u, m)
  \/ \E u \in Traders, n \in Nonces : CancelUpTo(u, n)
  \/ \E m \in Markets : MatchMarket(m)
  \/ ReserveAndSend \/ SettleFill \/ IndexEvent
  \/ BeginUnwind \/ PlanUnwind \/ PostSlice \/ RecordIntent \/ CrashUnwinder
  \/ \E m \in Markets, p \in Prices : MoveIndex(m, p)
  \/ \E r \in Halts : Halt(r)
  \/ Tick

Spec == Init /\ [][Next]_vars

-----------------------------------------------------------------------------
(* Properties.                                                             *)

\* matchOrders leaves nothing on the table: in any book the venue can reach, no two
\* orders it left resting could still trade with each other.
NothingLeftCrossed ==
  \A m \in Markets : \A in \in {bookOf(m)} : \A run \in {matchOrders(in)} :
    \A b, a \in {o \in in.orders : eligible(in, o)} :
      b.isLong /\ ~a.isLong => ~trades(in, run.ledger, b, a)

\* Price-time priority: when two orders of a side could both have had a match, the one
\* behind never gets size that the one ahead, still open for it, wanted.
PriorityKept ==
  \A m \in Markets : \A in \in {bookOf(m)} : \A run \in {matchOrders(in)} :
    LET row(h) == CHOOSE o \in in.orders : o.hash = h
    IN  \A k \in 1..Len(run.matches), o \in {x \in in.orders : eligible(in, x)} :
          LET f    == run.matches[k]
              mine == IF row(f.maker).isLong = o.isLong THEN row(f.maker) ELSE row(f.taker)
              his  == IF row(f.maker).isLong = o.isLong THEN row(f.taker) ELSE row(f.maker)
              p    == makerOf(o, his).limitPrice
          IN  ~ /\ o.owner # his.owner
                /\ o.limitPrice # mine.limitPrice \/ compareArrival(o, mine)
                /\ IF o.isLong THEN o.limitPrice >= mine.limitPrice
                               ELSE o.limitPrice <= mine.limitPrice
                /\ fillable(in, run.ledger, o) >= f.size
                /\ withinBand(p, in.band) /\ notionalOf(f.size, p) >= in.minFillNotional

\* The working orders of u in market m.
Closes(u, m) ==
  {h \in DOMAIN db.orders : /\ db.orders[h].owner = u /\ db.orders[h].marketId = m
                            /\ working(db, h, now)}

\* "A match this module emits should settle": with the indexer caught up, every fill a
\* tick offers is accepted by the contracts, one after another.  Left out are books
\* where an owner closes with plain and reduce-only orders at once, and orders whose
\* own nonce was cancelled on chain before they were submitted.
MatchesSettle ==
  (log = <<>> /\ matcher.queue = <<>> /\ matcher.offer = <<>> /\ chain.halted = {}) =>
    \A m \in Markets :
      ( /\ chain.index[m] > 0 /\ db.active[m]
        /\ \A u \in Owners : \A g, h \in Closes(u, m) :
             db.orders[g].isLong = db.orders[h].isLong
               => db.orders[g].reduceOnly = db.orders[h].reduceOnly
        /\ \A h \in DOMAIN db.orders : working(db, h, now) => ~isCancelledOnChain(db.orders[h]) )
      => FoldLeft(LAMBDA st, f :
                    LET x == f @@ [marketId |-> m]
                    IN  [ok |-> st.ok /\ settles(st.chain, x), chain |-> settled(st.chain, x)],
                  [ok |-> TRUE, chain |-> chain], offered(m)).ok

\* The public book is the matcher's: at every price and side it shows exactly the size
\* the engine has there to trade (positions apart, for reduce-only orders).
WorkingIsEligible ==
  \A m \in Markets : \A in \in {bookOf(m)} :
    \A traded \in {{o \in in.orders : eligible(in, [o EXCEPT !.reduceOnly = FALSE])}} :
      \A side \in BOOLEAN, p \in {o.limitPrice : o \in Range(db.orders)} :
          shownAt(db, m, side, p, now)
            = MapThenSumSet(LAMBDA o : o.size - o.filledSize,
                            {o \in traded : o.isLong = side /\ o.limitPrice = p})

\* A plan fits Insurance's caps as they were read: at any price its band accepts, the
\* new slices and the open orders together stay within the day, and no fill of a slice
\* is over the per-fill cap.
UnwindWithinCaps ==
  keeper.pc = "post" =>
    LET dev     == keeper.limits.maxDeviationBps
        used    == keeper.limits.usedToday
        slices  == Range(keeper.slices)
        top(isLong, limit, m) ==
          LET high == keeper.index[m] + mulDiv(keeper.index[m], dev, BPS_DENOMINATOR)
          IN  IF isLong THEN min(limit, high) ELSE high
        priced   == {o \in keeper.open : keeper.index[o.marketId] > 0}
        worst    == [s \in slices |-> notionalOf(s.size, top(s.isLong, s.limitPrice, s.marketId))]
        left     == [o \in priced |-> notionalOf(o.size - o.filledSize,
                                                 top(o.isLong, o.limitPrice, o.marketId))]
    IN  /\ \A s \in slices : worst[s] <= keeper.limits.maxFillNotional
        /\ used + SumFunctionOnSet(worst, slices) + SumFunctionOnSet(left, priced)
             <= keeper.limits.maxDailyNotional
=============================================================================
