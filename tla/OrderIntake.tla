----------------------------- MODULE OrderIntake -----------------------------
(***************************************************************************)
(* What the order API and its projections do to the tables the matcher     *)
(* reads (client/lib/validation.ts, client/lib/queries/orders.ts, the      *)
(* routes under client/app/api/orders, the gateway handlers of             *)
(* client/lib/indexer/projections.ts), as operators on those tables:       *)
(*    orders         Order rows by order hash                              *)
(*    minValidNonce  Account.minValidNonce                                 *)
(*    positions      Position.size by owner and market                     *)
(*    active         Market.active                                         *)
(*    fills          the PENDING Fill rows that carry no rejectReason      *)
(*                                                                         *)
(* A request that is refused changes nothing but the rate limiter's        *)
(* counters.  A submission is a signed order with what comes beside it:    *)
(* the size of the body and whether it parses, the chain id claimed, and   *)
(* whether the signature is the owner's (ECDSA), needs the owner's         *)
(* contract (ERC-1271), or is neither.  A field that is not of its type is *)
(* -1.  Every check answers "ok" or the code of its refusal.               *)
(***************************************************************************)
EXTENDS MatchingEngine

CONSTANTS
  MIN_TTL_SECONDS,
  MAX_CANCEL_ALL_WINDOW,
  UINT_MAX,               \* the widest field the body may carry
  INT128_MAX,             \* the contract's range
  MAX_BODY_BYTES,
  WINDOW,                 \* the rate limiter's window
  minFillNotional         \* MarketParams.minFillNotional of each configured market

LIVE_STATUSES == {"OPEN", "PARTIALLY_FILLED"}

-----------------------------------------------------------------------------
(* validation.ts: a refusal's HTTP status, and the contract's revert it spares. *)

REJECTIONS ==
  [ invalid_body           |-> [status |-> 400, contractError |-> "none"],
    invalid_field          |-> [status |-> 400, contractError |-> "InvalidAmount"],
    wrong_chain            |-> [status |-> 400, contractError |-> "InvalidSignature"],
    bad_signature          |-> [status |-> 401, contractError |-> "InvalidSignature"],
    signature_unverifiable |-> [status |-> 503, contractError |-> "none"],
    expired                |-> [status |-> 400, contractError |-> "OrderExpired"],
    expiry_too_far         |-> [status |-> 400, contractError |-> "OrderExpired"],
    nonce_cancelled        |-> [status |-> 400, contractError |-> "OrderCancelled"],
    nonce_reused           |-> [status |-> 409, contractError |-> "NonceReused"],
    unknown_market         |-> [status |-> 400, contractError |-> "UnknownMarket"],
    market_inactive        |-> [status |-> 400, contractError |-> "MarketInactive"],
    market_not_configured  |-> [status |-> 400, contractError |-> "UnknownMarket"],
    below_min_notional     |-> [status |-> 400, contractError |-> "FillBelowMinNotional"],
    overflow               |-> [status |-> 400, contractError |-> "MathOverflow"],
    rate_limited           |-> [status |-> 429, contractError |-> "none"],
    body_too_large         |-> [status |-> 413, contractError |-> "none"] ]

\* The first check that fails names the refusal.
firstOf(checks) ==
  LET failed == {i \in DOMAIN checks : checks[i].fails}
  IN  IF failed = {} THEN "ok"
      ELSE checks[CHOOSE i \in failed : \A j \in failed : i <= j].code
check(fails, code) == [fails |-> fails, code |-> code]

uint(v) == v \in 0..UINT_MAX

\* readBoundedJson: the declared length may lie, the body read may not be longer.
readBoundedJson(s) ==
  firstOf(<< check(s.declared > MAX_BODY_BYTES, "body_too_large"),
             check(s.bytes > MAX_BODY_BYTES, "body_too_large"),
             check(~s.parses, "invalid_body") >>)

\* parseOrder: the fields are of the contract's types, and positive.
parseOrder(o) ==
  firstOf(<< check(~uint(o.marketId) \/ o.marketId = 0, "invalid_field"),
             check(~uint(o.size) \/ ~uint(o.limitPrice), "invalid_field"),
             check(o.size = 0 \/ o.limitPrice = 0, "invalid_field"),
             check(~uint(o.nonce) \/ ~uint(o.expiry), "invalid_field"),
             check(\/ o.size > INT128_MAX \/ o.limitPrice > INT128_MAX
                   \/ notionalOf(o.size, o.limitPrice) > INT128_MAX, "overflow") >>)

checkExpiry(expiry, nowSec) ==
  firstOf(<< check(expiry <= nowSec + MIN_TTL_SECONDS, "expired"),
             check(expiry > nowSec + MAX_ORDER_TTL, "expiry_too_far") >>)

\* What the owner's contract answers now: yes, no, or nothing within the timeout.
Answers1271 == {"valid", "invalid", "unreachable"}

\* verifySignature: ECDSA first, then ERC-1271.
verifySignature(s, answer) ==
  IF s.signature = "ecdsa" THEN "ok"
  ELSE firstOf(<< check(answer = "unreachable", "signature_unverifiable"),
                  check(s.signature # "erc1271" \/ answer = "invalid", "bad_signature") >>)

\* The market and the account, as they are indexed.
checkState(db, o) ==
  LET known      == o.marketId \in DOMAIN db.active
      configured == o.marketId \in DOMAIN minFillNotional
  IN  firstOf(<< check(~known, "unknown_market"),
                 check(known /\ ~db.active[o.marketId], "market_inactive"),
                 check(~configured, "market_not_configured"),
                 check(configured /\ notionalOf(o.size, o.limitPrice) < minFillNotional[o.marketId],
                       "below_min_notional"),
                 check(o.nonce < db.minValidNonce[o.owner], "nonce_cancelled") >>)

validateOrderSubmission(db, s, nowSec, answer) ==
  LET parsed == parseOrder(s.order)
  IN  IF parsed # "ok" THEN parsed
      ELSE IF ~s.chainOk THEN "wrong_chain"
      ELSE LET expiry    == checkExpiry(s.order.expiry, nowSec)
               signature == verifySignature(s, answer)
               state     == checkState(db, s.order)
           IN  firstOf(<< check(expiry # "ok", expiry), check(signature # "ok", signature),
                          check(state # "ok", state) >>)

\* A signed Cancel, and the API's own CancelAll.
validateCancel(deadline, nowSec) ==
  firstOf(<< check(~uint(deadline), "invalid_field"), check(deadline < nowSec, "expired") >>)
validateCancelAll(deadline, nowSec) ==
  firstOf(<< check(validateCancel(deadline, nowSec) # "ok", validateCancel(deadline, nowSec)),
             check(deadline > nowSec + MAX_CANCEL_ALL_WINDOW, "expiry_too_far") >>)

-----------------------------------------------------------------------------
(* rate-limit.ts: the counter of one key, and whether its next call passes. *)

NoBucket == [count |-> 0, resetAt |-> 0]

\* In memory: a window opens with the first call that finds none running.
localRateLimit(bucket, time, limit) ==
  LET next == IF bucket.resetAt <= time THEN [count |-> 1, resetAt |-> time + WINDOW]
              ELSE [bucket EXCEPT !.count = @ + 1]
  IN  [bucket |-> next, ok |-> next.count = 1 \/ next.count <= limit]

\* Shared: windows start at multiples of their length, and no answer is a refusal.
distributedRateLimit(bucket, time, limit, answers) ==
  LET slot == WINDOW * (time \div WINDOW + 1)
      next == IF bucket.resetAt = slot THEN [bucket EXCEPT !.count = @ + 1]
              ELSE [count |-> 1, resetAt |-> slot]
  IN  [bucket |-> next, ok |-> answers /\ next.count <= limit]

\* POST /api/orders up to the insert; passes is what both limiters said.
intake(db, s, nowSec, answer, passes) ==
  LET body == readBoundedJson(s)
  IN  IF body # "ok" THEN body
      ELSE IF ~passes THEN "rate_limited"
      ELSE validateOrderSubmission(db, s, nowSec, answer)

-----------------------------------------------------------------------------
(* queries/orders.ts                                                       *)

newRow(o, createdAt) ==
  [ hash |-> o.hash, owner |-> o.owner, marketId |-> o.marketId, isLong |-> o.isLong,
    size |-> o.size, limitPrice |-> o.limitPrice, reduceOnly |-> o.reduceOnly,
    nonce |-> o.nonce, expiry |-> o.expiry,
    status |-> "OPEN", filledSize |-> 0, createdAt |-> createdAt ]

\* The same hash is a duplicate; another order under the nonce is refused.
insertOrder(db, o, createdAt) ==
  IF \/ o.hash \in DOMAIN db.orders
     \/ \E h \in DOMAIN db.orders : /\ db.orders[h].owner = o.owner
                                    /\ db.orders[h].nonce = o.nonce
  THEN db
  ELSE [db EXCEPT !.orders =
          [h \in DOMAIN @ \cup {o.hash} |-> IF h = o.hash THEN newRow(o, createdAt) ELSE @[h]]]

cancelRows(db, rows) ==
  [db EXCEPT !.orders =
     [h \in DOMAIN @ |->
        IF h \in rows /\ @[h].status \in LIVE_STATUSES
        THEN [@[h] EXCEPT !.status = "CANCELLED"] ELSE @[h]]]

cancelOrderByNonce(db, owner, nonce) ==
  cancelRows(db, {h \in DOMAIN db.orders : /\ db.orders[h].owner = owner
                                           /\ db.orders[h].nonce = nonce})

\* Market 0 stands for every market.
cancelAllOrders(db, owner, market, nowSec) ==
  cancelRows(db, {h \in DOMAIN db.orders : /\ db.orders[h].owner = owner
                                           /\ market \in {0, db.orders[h].marketId}
                                           /\ db.orders[h].expiry > nowSec})

\* pendingReservationSql: what PENDING fills hold of an order.
reserved(db, h) ==
  MapThenSumSet(LAMBDA f : f.size, {f \in db.fills : h \in {f.maker, f.taker}})

\* Mutant: what a batch in flight holds is shown as available.
remainingUnreserved(db, h) == max(0, db.orders[h].size - db.orders[h].filledSize)

remainingSize(db, h) ==
  max(0, db.orders[h].size - db.orders[h].filledSize - reserved(db, h))

\* WORKING: the rows a listing and the public book show.
working(db, h, nowSec) ==
  LET o == db.orders[h]
  IN  /\ o.status \in LIVE_STATUSES
      /\ o.expiry > nowSec
      /\ o.nonce >= db.minValidNonce[o.owner]
      /\ remainingSize(db, h) > 0

\* aggregateBook: the size shown at a price.
shownAt(db, market, isLong, price, nowSec) ==
  MapThenSumSet(LAMBDA h : remainingSize(db, h),
                {h \in DOMAIN db.orders : /\ db.orders[h].marketId = market
                                          /\ db.orders[h].isLong = isLong
                                          /\ db.orders[h].limitPrice = price
                                          /\ working(db, h, nowSec)})

\* loadOrders: the matcher's view of the same rows, net of reservations.
loadOrders(db, market, nowSec) ==
  { [db.orders[h] EXCEPT !.filledSize = @ + reserved(db, h)] :
      h \in {x \in DOMAIN db.orders : /\ db.orders[x].marketId = market
                                      /\ db.orders[x].status \in LIVE_STATUSES
                                      /\ db.orders[x].expiry > nowSec} }

loadBook(db, market, index, deviationBps, nowSec) ==
  [ marketId        |-> market,
    nowSec          |-> nowSec,
    orders          |-> loadOrders(db, market, nowSec),
    positions       |-> [u \in DOMAIN db.positions |-> db.positions[u][market]],
    minValidNonce   |-> db.minValidNonce,
    minFillNotional |-> minFillNotional[market],
    band            |-> bandFor(index, deviationBps) ]

-----------------------------------------------------------------------------
(* projections.ts, the gateway's events.                                   *)

orderStatus(o, filled) ==
  CASE o.status \in {"CANCELLED", "EXPIRED"} -> o.status
    [] o.status \in LIVE_STATUSES \cup {"FILLED"} ->
         IF filled >= o.size THEN "FILLED" ELSE IF filled > 0 THEN "PARTIALLY_FILLED" ELSE "OPEN"

\* refreshOrders: both sides of a settled fill.
filledOrders(db, f) ==
  [h \in DOMAIN db.orders |->
     IF h \in {f.maker, f.taker}
     THEN [db.orders[h] EXCEPT
             !.filledSize = min(@ + f.size, db.orders[h].size),
             !.status = orderStatus(db.orders[h], db.orders[h].filledSize + f.size)]
     ELSE db.orders[h]]

\* The PositionChanged of both sides.
movedPositions(db, f) ==
  LET delta(u) == IF db.orders[f.maker].owner = u THEN (IF db.orders[f.maker].isLong THEN f.size ELSE -f.size)
                  ELSE IF db.orders[f.taker].owner = u THEN (IF db.orders[f.taker].isLong THEN f.size ELSE -f.size)
                  ELSE 0
  IN  [u \in DOMAIN db.positions |-> [db.positions[u] EXCEPT ![f.marketId] = @ + delta(u)]]

applyFillSettled(db, f) ==
  [db EXCEPT !.fills = @ \ {f}, !.orders = filledOrders(db, f), !.positions = movedPositions(db, f)]

applyOrderCancelled(db, owner, nonce) == cancelOrderByNonce(db, owner, nonce)

applyNoncesCancelledUpTo(db, owner, minNonce) ==
  LET raised == [db EXCEPT !.minValidNonce[owner] = max(@, minNonce)]
  IN  cancelRows(raised, {h \in DOMAIN db.orders : /\ db.orders[h].owner = owner
                                                   /\ db.orders[h].nonce < minNonce})
=============================================================================
