---------------------------- MODULE OrderGateway -----------------------------
(***************************************************************************)
(* OrderGateway.sol: which signed orders may be filled, and how much.      *)
(*                                                                         *)
(* An order is identified with its EIP-712 digest, so two orders are the   *)
(* same when all their fields are.  A batch of fills is one transaction of *)
(* several steps: each fill settles or is rejected on its own, and running *)
(* out of gas reverts the whole batch.  Nothing else happens between the   *)
(* steps of a batch.  What the engine, the fee router and the margin       *)
(* checks do with a fill is the subject of Exchange.tla: here they accept  *)
(* or reject it.                                                           *)
(***************************************************************************)
EXTENDS Integers, Sequences

CONSTANTS
  Owners,                \* accounts that place orders
  Wallets,               \* owners whose contract decides on signatures (ERC-1271)
  BACKSTOP,              \* the Insurance contract, a wallet with rules of its own
  Nonces,
  Unbound,               \* an order slot that was never filled
  Orders,                \* orders that may be signed
  Batches,               \* sequences of fills the operator may submit
  Cancels,               \* signed off-chain cancels that may be posted
  Ticks,                 \* seconds between blocks
  MAX_ORDER_TTL,
  MAX_UNWIND_ORDER_TTL,
  MAX_BATCH,
  MaxTime                \* bound: the clock stops here

Order == [ owner : Owners, marketId : Nat, isLong : BOOLEAN, size : Nat, limitPrice : Nat,
           reduceOnly : BOOLEAN, nonce : Nonces, expiry : Nat ]
Fill == [maker : Orders, taker : Orders, size : Nat, price : Nat]
Cancel == [owner : Owners, nonce : Nonces, deadline : Nat]

ASSUME GatewayConfig ==
  /\ Wallets \subseteq Owners /\ Nonces \subseteq Nat
  /\ Orders \subseteq Order /\ Unbound \notin Orders
  /\ Batches \subseteq Seq(Fill) /\ Cancels \subseteq Cancel
  /\ Ticks \subseteq Nat /\ MaxTime \in Nat
  /\ MAX_ORDER_TTL \in Nat /\ MAX_UNWIND_ORDER_TTL \in Nat /\ MAX_BATCH \in Nat

VARIABLES
  orderState,    \* per owner and nonce: the order bound to it and its filled size
  cancelled,     \* nonces cancelled one by one
  minNonce,      \* cancelUpTo: everything below is void
  executed,      \* size of each order that the engine has applied (history)
  signed,        \* orders and cancels whose signature check would pass
  batch,         \* fills of the running batch not yet tried
  saved,         \* storage before the running batch, what a revert restores
  paused,
  now

vars == <<orderState, cancelled, minNonce, executed, signed, batch, saved, paused, now>>

Slot == [order : Orders \cup {Unbound}, filled : Nat]
Slots == [Owners -> [Nonces -> Slot]]

TypeOK ==
  /\ orderState \in Slots
  /\ cancelled \in [Owners -> SUBSET Nonces]
  /\ minNonce \in [Owners -> Nat]
  /\ executed \in [Orders -> Nat]
  /\ signed \subseteq Orders \cup Cancels
  /\ batch \in Seq(Fill)
  /\ saved \in [orderState : Slots, executed : [Orders -> Nat]]
  /\ paused \in BOOLEAN
  /\ now \in Nat

Empty == [order |-> Unbound, filled |-> 0]

Init ==
  /\ orderState = [u \in Owners |-> [n \in Nonces |-> Empty]]
  /\ cancelled = [u \in Owners |-> {}]
  /\ minNonce = [u \in Owners |-> 0]
  /\ executed = [o \in Orders |-> 0]
  /\ signed = {}
  /\ batch = <<>>
  /\ saved = [orderState |-> orderState, executed |-> executed]
  /\ paused = FALSE
  /\ now = 0

-----------------------------------------------------------------------------
(* One side of a fill.                                                     *)

\* Mutant: a nonce voided by cancelUpTo still fills.
isCancelledOneByOne(owner, nonce) == nonce \in cancelled[owner]

isCancelled(owner, nonce) == nonce < minNonce[owner] \/ nonce \in cancelled[owner]

\* OrderLib.isValidSignature; the backstop signs short reduce-only orders only.
isValidSignature(o) ==
  /\ o \in signed
  /\ o.owner = BACKSTOP => o.reduceOnly /\ o.expiry <= now + MAX_UNWIND_ORDER_TTL

\* Mutant: the nonce is not bound to the first order filled under it.
mayConsumeUnbound(os, o, size, price) ==
  /\ now <= o.expiry /\ o.expiry <= now + MAX_ORDER_TTL
  /\ ~isCancelled(o.owner, o.nonce)
  /\ os[o.owner][o.nonce].filled + size <= o.size
  /\ isValidSignature(o)

\* _consume's checks.
mayConsume(os, o, size, price) ==
  LET slot == os[o.owner][o.nonce]
  IN  /\ o.size > 0 /\ o.limitPrice > 0
      /\ now <= o.expiry /\ o.expiry <= now + MAX_ORDER_TTL
      /\ ~isCancelled(o.owner, o.nonce)
      /\ slot.order \in {Unbound, o}
      /\ slot.filled + size <= o.size
      /\ IF o.isLong THEN price <= o.limitPrice ELSE price >= o.limitPrice
      /\ isValidSignature(o)

\* _consume's store: bind the nonce, raise its filled amount.
consume(os, o, size) ==
  [os EXCEPT ![o.owner][o.nonce] = [order |-> o, filled |-> @.filled + size]]

validateFill(f) ==
  /\ f.size > 0 /\ f.price > 0
  /\ f.maker.owner # f.taker.owner
  /\ f.maker.marketId # 0 /\ f.maker.marketId = f.taker.marketId
  /\ f.maker.isLong # f.taker.isLong

-----------------------------------------------------------------------------
(* settleFillsSigned, fill by fill.                                        *)

SubmitBatch(b) ==
  /\ batch = <<>> /\ ~paused
  /\ Len(b) \in 1..MAX_BATCH
  /\ batch' = b
  /\ saved' = [orderState |-> orderState, executed |-> executed]
  /\ UNCHANGED <<orderState, cancelled, minNonce, executed, signed, paused, now>>

\* settleOne succeeds: both orders are consumed, and the engine applied the fill.
SettleOne ==
  /\ batch # <<>>
  /\ LET f == Head(batch)
         made == consume(orderState, f.maker, f.size)
     IN  /\ validateFill(f)
         /\ mayConsume(orderState, f.maker, f.size, f.price)
         /\ mayConsume(made, f.taker, f.size, f.price)
         /\ orderState' = consume(made, f.taker, f.size)
         /\ executed' = [executed EXCEPT ![f.maker] = @ + f.size, ![f.taker] = @ + f.size]
  /\ batch' = Tail(batch)
  /\ UNCHANGED <<cancelled, minNonce, signed, saved, paused, now>>

\* Mutant: a rejected fill keeps what it had consumed of the maker's order.
RejectKeepingMaker ==
  /\ batch # <<>>
  /\ orderState' = consume(orderState, Head(batch).maker, Head(batch).size)
  /\ batch' = Tail(batch)
  /\ UNCHANGED <<cancelled, minNonce, executed, signed, saved, paused, now>>

\* settleOne reverts, in its own checks or in the contracts it calls: the caught
\* revert undoes the fill alone.
RejectOne ==
  /\ batch # <<>>
  /\ batch' = Tail(batch)
  /\ UNCHANGED <<orderState, cancelled, minNonce, executed, signed, saved, paused, now>>

\* InsufficientBatchGas: the fills already settled in this batch are undone too.
OutOfGas ==
  /\ batch # <<>>
  /\ batch' = <<>>
  /\ orderState' = saved.orderState
  /\ executed' = saved.executed
  /\ UNCHANGED <<cancelled, minNonce, signed, saved, paused, now>>

-----------------------------------------------------------------------------
(* Cancels, which a pause does not stop.                                   *)

\* cancelOrder, cancelOrders.
CancelOrder(owner, nonce) ==
  /\ batch = <<>>
  /\ cancelled' = [cancelled EXCEPT ![owner] = @ \cup {nonce}]
  /\ UNCHANGED <<orderState, minNonce, executed, signed, batch, saved, paused, now>>

CancelUpTo(owner, newMinNonce) ==
  /\ batch = <<>>
  /\ newMinNonce > minNonce[owner]
  /\ minNonce' = [minNonce EXCEPT ![owner] = newMinNonce]
  /\ UNCHANGED <<orderState, cancelled, executed, signed, batch, saved, paused, now>>

\* Anyone may post a signed cancel until its deadline.
CancelSigned(c) ==
  /\ batch = <<>>
  /\ now <= c.deadline
  /\ c \in signed
  /\ cancelled' = [cancelled EXCEPT ![c.owner] = @ \cup {c.nonce}]
  /\ UNCHANGED <<orderState, minNonce, executed, signed, batch, saved, paused, now>>

-----------------------------------------------------------------------------
(* The environment: wallets, the pause and the clock.                      *)

Sign(x) ==
  /\ batch = <<>>
  /\ x \notin signed
  /\ signed' = signed \cup {x}
  /\ UNCHANGED <<orderState, cancelled, minNonce, executed, batch, saved, paused, now>>

\* A contract wallet may stop accepting a signature; a key's signature is for good.
Revoke(x) ==
  /\ batch = <<>>
  /\ x \in signed /\ x.owner \in Wallets
  /\ signed' = signed \ {x}
  /\ UNCHANGED <<orderState, cancelled, minNonce, executed, batch, saved, paused, now>>

SetPaused ==
  /\ batch = <<>>
  /\ paused' = ~paused
  /\ UNCHANGED <<orderState, cancelled, minNonce, executed, signed, batch, saved, now>>

Tick(seconds) ==
  /\ batch = <<>>
  /\ now + seconds <= MaxTime
  /\ now' = now + seconds
  /\ UNCHANGED <<orderState, cancelled, minNonce, executed, signed, batch, saved, paused>>

Next ==
  \/ \E b \in Batches : SubmitBatch(b)
  \/ SettleOne
  \/ RejectOne
  \/ OutOfGas
  \/ \E u \in Owners, n \in Nonces : CancelOrder(u, n)
  \/ \E u \in Owners, n \in Nonces : CancelUpTo(u, n)
  \/ \E c \in Cancels : CancelSigned(c)
  \/ \E x \in Orders \cup Cancels : Sign(x)
  \/ \E x \in Orders \cup Cancels : Revoke(x)
  \/ SetPaused
  \/ \E s \in Ticks : Tick(s)

Spec == Init /\ [][Next]_vars

-----------------------------------------------------------------------------
\* What the gateway has on record for a nonce is what the engine applied: rejected
\* fills and reverted batches leave no trace in one without the other.
FilledIsExecuted ==
  \A o \in Orders :
    executed[o] = IF orderState[o.owner][o.nonce].order = o
                  THEN orderState[o.owner][o.nonce].filled ELSE 0

\* One nonce, one order, one budget: of all the orders an owner ever signed under a
\* nonce at most one is filled, and never past its size (OrderGateway's header).
OneBudgetPerNonce ==
  \A o \in Orders :
    /\ executed[o] <= o.size
    /\ \A p \in Orders : executed[o] > 0 /\ executed[p] > 0
                         /\ o.owner = p.owner /\ o.nonce = p.nonce => o = p

voided(o) == o.nonce < minNonce[o.owner] \/ o.nonce \in cancelled[o.owner]

\* A cancelled order stays cancelled and is never filled again, whichever of the
\* three ways it was cancelled and whatever the operator still holds of it.
CancelIsFinal ==
  [][ \A o \in Orders : voided(o) => voided(o)' /\ executed'[o] <= executed[o] ]_vars
=============================================================================
