------------------------------ MODULE MCVenue --------------------------------
(***************************************************************************)
(* Two traders and the backstop.  Alice is short against the backstop and  *)
(* closes with two reduce-only bids; Bob sells and bids across his own ask.*)
(*                                                                         *)
(***************************************************************************)
EXTENDS Venue

CONSTANTS alice, bob, RestingHashes

order(hash, owner, isLong, size, limitPrice, reduceOnly, nonce, expiry) ==
  [ hash |-> hash, owner |-> owner, marketId |-> 1, isLong |-> isLong, size |-> size,
    limitPrice |-> limitPrice, reduceOnly |-> reduceOnly, nonce |-> nonce, expiry |-> expiry ]
signed(o) == [ order |-> o, chainOk |-> TRUE, signature |-> "ecdsa",
               declared |-> 0, bytes |-> 1, parses |-> TRUE ]

MCSubmissions ==
  { signed(order(11, alice, TRUE, 2, 11, TRUE, 1, 4)),
    signed(order(12, alice, TRUE, 2, 10, TRUE, 2, 3)),
    signed(order(14, bob, FALSE, 3, 9, FALSE, 2, 3)),
    [signed(order(15, bob, TRUE, 1, 11, FALSE, 1, 3)) EXCEPT !.signature = "erc1271"] }
MCResting == {s \in MCSubmissions : s.order.hash \in RestingHashes}

MCMinFill == [m \in Markets |-> 9]
MCPositions == (alice :> <<-3, -1>>) @@ (bob :> <<0, 0>>) @@ (BACKSTOP :> <<3, 1>>)
MCIndex == <<10, 20>>
MCLimits == [maxDeviationBps |-> 1000, maxFillNotional |-> 30, maxDailyNotional |-> 45]

-----------------------------------------------------------------------------
(* The intake against the gateway, over bodies right and wrong.            *)

\* Market 2 is delisted, 3 has no parameters yet, 4 does not exist.
AnyDb == [ orders |-> <<>>, fills |-> {}, positions |-> MCPositions,
           active |-> (1 :> TRUE) @@ (2 :> FALSE) @@ (3 :> TRUE),
           minValidNonce |-> (alice :> 1) ]

Bodies ==
  { [ [signed([order(11, alice, TRUE, size, price, FALSE, nonce, expiry) EXCEPT !.marketId = m])
        EXCEPT !.signature = sig] EXCEPT !.chainOk = chainOk ] :
      size \in {-1, 0, 1, 2, INT128_MAX + 1}, price \in {0, 6, 9, UINT_MAX + 1}, nonce \in {0, 1},
      expiry \in {-1, 0, 1, 2, MAX_ORDER_TTL + 1, MAX_ORDER_TTL + 2}, m \in 0..4,
      sig \in {"ecdsa", "erc1271", "forged"}, chainOk \in BOOLEAN }

\* What the gateway and the engine say to a fill of the whole order at its limit, all
\* their objections together (OrderGateway._consume, _checkNotional, Engine).
reverts(s, nowSec, answer) ==
  LET o == s.order
      typed == uint(o.size) /\ uint(o.limitPrice) /\ uint(o.nonce) /\ uint(o.expiry)
      objections ==
        [ InvalidAmount    |-> ~typed \/ o.size = 0 \/ o.limitPrice = 0 \/ o.marketId = 0,
          InvalidSignature |-> ~s.chainOk \/ (s.signature # "ecdsa"
                                 /\ ~(s.signature = "erc1271" /\ answer = "valid")),
          OrderExpired     |-> nowSec > o.expiry \/ o.expiry > nowSec + MAX_ORDER_TTL,
          OrderCancelled   |-> o.nonce < AnyDb.minValidNonce[o.owner],
          UnknownMarket    |-> o.marketId \notin DOMAIN minFillNotional \cap DOMAIN AnyDb.active,
          MarketInactive   |-> o.marketId \in DOMAIN AnyDb.active /\ ~AnyDb.active[o.marketId],
          FillBelowMinNotional |-> /\ o.marketId \in DOMAIN minFillNotional
                                   /\ notionalOf(o.size, o.limitPrice) < minFillNotional[o.marketId],
          MathOverflow     |-> \/ o.size > INT128_MAX \/ o.limitPrice > INT128_MAX
                               \/ notionalOf(o.size, o.limitPrice) > INT128_MAX ]
  IN  {e \in DOMAIN objections : objections[e]}

\* "The API accepts only orders the OrderGateway would accept", and a refusal that names
\* a revert names one the caller was really spared.  The API may refuse for its own
\* reasons only an order about to expire or a contract owner it could not ask.
ASSUME IntakeMirrorsGateway ==
  \A s \in Bodies, nowSec \in {0, 1}, answer \in Answers1271 :
    LET code == intake(AnyDb, s, nowSec, answer, TRUE)
        errs == reverts(s, nowSec, answer)
    IN  IF code = "ok" THEN errs = {}
        ELSE \/ REJECTIONS[code].contractError \in errs
             \/ code = "expired" /\ s.order.expiry <= nowSec + MIN_TTL_SECONDS
             \/ code = "signature_unverifiable" /\ s.signature # "ecdsa"

\* A body too long is never parsed, whatever it declares; the limiter comes before any
\* signature work.
ASSUME BodiesBounded ==
  \A d, b \in 0..(MAX_BODY_BYTES + 1), p, passes \in BOOLEAN :
    LET s == [signed(order(11, alice, TRUE, 2, 9, FALSE, 1, 2))
                EXCEPT !.declared = d, !.bytes = b, !.parses = p]
        code == intake(AnyDb, s, 0, "valid", passes)
    IN  /\ code = "ok" => b <= MAX_BODY_BYTES /\ p /\ passes
        /\ code = "rate_limited" => REJECTIONS[code].status = 429

\* How many of a run of calls at these times the limiter lets through.
Passed(times, step(_, _)) ==
  FoldLeft(LAMBDA acc, t : LET r == step(acc.bucket, t)
                           IN  [bucket |-> r.bucket, n |-> acc.n + (IF r.ok THEN 1 ELSE 0)],
           [bucket |-> NoBucket, n |-> 0], times).n

Times == {ts \in [1..5 -> 0..(2 * WINDOW)] : \A k \in 1..4 : ts[k] <= ts[k + 1]}

\* Either limiter lets at most `limit` calls through per window it opens: over any span
\* shorter than a window, at most two windows' worth.
ASSUME RateLimited ==
  \A ts \in Times, limit \in 1..2 :
    LET span == ts[5] - ts[1]
        cap  == limit * (span \div WINDOW + 2)
    IN  /\ Passed(ts, LAMBDA b, t : localRateLimit(b, t, limit)) <= cap
        /\ Passed(ts, LAMBDA b, t : distributedRateLimit(b, t, limit, TRUE)) <= cap
        /\ Passed(ts, LAMBDA b, t : distributedRateLimit(b, t, limit, FALSE)) = 0
=============================================================================
