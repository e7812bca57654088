--------------------------- MODULE MCOrderGateway ----------------------------
(***************************************************************************)
(* OrderGateway with a maker, a contract wallet, who signs two orders      *)
(* under one nonce, and the backstop as the taker, whose order is valid    *)
(* only close to its expiry.                                               *)
(***************************************************************************)
EXTENDS OrderGateway

CONSTANT maker

MCOrder(owner, isLong, size, reduceOnly, nonce, expiry) ==
  [ owner |-> owner, marketId |-> 1, isLong |-> isLong, size |-> size, limitPrice |-> 10,
    reduceOnly |-> reduceOnly, nonce |-> nonce, expiry |-> expiry ]

Resting  == MCOrder(maker, TRUE, 2, FALSE, 1, 2)
Replaced == MCOrder(maker, TRUE, 3, FALSE, 1, 1)
Unwind   == MCOrder(BACKSTOP, FALSE, 3, TRUE, 0, 2)
MCOrders == {Resting, Replaced, Unwind}

MCFill(o, size, price) == [maker |-> o, taker |-> Unwind, size |-> size, price |-> price]

\* The same fill twice, both orders of one nonce, a fill outside the limit price.
MCBatches ==
  { << MCFill(Resting, 1, 10), MCFill(Resting, 1, 10) >>,
    << MCFill(Resting, 2, 10), MCFill(Replaced, 1, 10) >>,
    << MCFill(Replaced, 2, 10), MCFill(Replaced, 1, 11) >> }

MCCancels == { [owner |-> maker, nonce |-> 1, deadline |-> 1] }
=============================================================================
