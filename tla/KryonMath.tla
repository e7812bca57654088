------------------------------ MODULE KryonMath ------------------------------
(***************************************************************************)
(* The fixed-point arithmetic of libraries/KryonMath.sol and the token     *)
(* boundary of libraries/Decimals.sol, over unbounded integers.            *)
(*                                                                         *)
(* PRECISION (1e18), SCALE (1e12) and the fee RATE_DENOMINATOR are         *)
(* parameters: the identities of the exchange do not depend on their       *)
(* values, and TLC needs small ones.  The i128 bound of `bound128` is left *)
(* out: it only makes a transaction revert, so every behaviour of the code *)
(* is a behaviour of the unbounded model.                                  *)
(***************************************************************************)
EXTENDS Integers

CONSTANTS
  PRECISION,          \* fixed-point one
  SCALE,              \* internal units per USDC token unit
  RATE_DENOMINATOR    \* fee rates are in 1/RATE_DENOMINATOR

ASSUME ScalesPositive ==
  /\ PRECISION \in Nat \ {0}
  /\ SCALE \in Nat \ {0}
  /\ RATE_DENOMINATOR \in Nat \ {0}

BPS_DENOMINATOR == 10000

\* Solidity's `/` truncates toward zero.  Every divisor of the protocol is
\* positive: a precision, a size, a notional in profit, a margin requirement.
TruncDiv(a, b) == IF a >= 0 THEN a \div b ELSE -((-a) \div b)

abs(a) == IF a < 0 THEN -a ELSE a
min(a, b) == IF a < b THEN a ELSE b
max(a, b) == IF a > b THEN a ELSE b
clamp(v, lo, hi) == IF v < lo THEN lo ELSE IF v > hi THEN hi ELSE v

mulDiv(a, b, d) == TruncDiv(a * b, d)
mulPrecision(a, b) == mulDiv(a, b, PRECISION)
divPrecision(a, b) == mulDiv(a, PRECISION, b)
applyBps(a, bps) == mulDiv(a, bps, BPS_DENOMINATOR)

\* Magnitude of a * b / PRECISION rounded up; a and b are positive.
mulPrecisionUp(a, b) == TruncDiv(a * b - 1, PRECISION) + 1

toInternal(amount) == amount * SCALE
toTokenDown(v) == v \div SCALE
=============================================================================
