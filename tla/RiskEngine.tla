----------------------------- MODULE RiskEngine ------------------------------
(***************************************************************************)
(* The Rust reference model: crates/protocol-core and crates/risk-engine,  *)
(* which the Solidity libraries were ported from and are fuzzed against    *)
(* through evm/ffi.                                                        *)
(*                                                                         *)
(* Every function returns a Result: [err |-> "Ok", value |-> v] or a       *)
(* CoreError.  `Then` is Rust's `?`: the first error ends the computation, *)
(* so the order of the checks is part of the model.  Values are i128; one  *)
(* outside [-I128_MAX - 1, I128_MAX] is MathOverflow.                      *)
(***************************************************************************)
EXTENDS Integers, Sequences, SequencesExt

CONSTANTS PRECISION, SECS_PER_HOUR, MAX_FUNDING_ELAPSED_SECS, I128_MAX

Ok(v) == [err |-> "Ok", value |-> v]
Err(e) == [err |-> e, value |-> 0]
Then(r, F(_)) == IF r.err = "Ok" THEN F(r.value) ELSE r

\* A list of checks <<condition, error>> before a result: the first that fires wins.
Checked(checks, result) ==
  LET fired == {i \in DOMAIN checks : checks[i][1]}
  IN  IF fired = {} THEN result
      ELSE Err(checks[CHOOSE i \in fired : \A j \in fired : i <= j][2])

-----------------------------------------------------------------------------
(* protocol-core: fixed.rs, accounting.rs.                                 *)

i128(v) == IF -I128_MAX - 1 <= v /\ v <= I128_MAX THEN Ok(v) ELSE Err("MathOverflow")

truncated(a, b) ==
  LET q == (IF a < 0 THEN -a ELSE a) \div (IF b < 0 THEN -b ELSE b)
  IN  IF (a < 0) = (b < 0) THEN q ELSE -q

checked_add(a, b) == i128(a + b)
checked_sub(a, b) == i128(a - b)
checked_div(a, b) == IF b = 0 THEN Err("DivisionByZero") ELSE i128(truncated(a, b))

\* The product is 256 bits wide: only the quotient has to fit.
mul_div(a, b, denominator) ==
  IF denominator = 0 THEN Err("DivisionByZero") ELSE i128(truncated(a * b, denominator))

mul_precision(a, b) == mul_div(a, b, PRECISION)
div_precision(a, b) == mul_div(a, PRECISION, b)

apply_bps(amount, bps) ==
  IF bps > 10000 THEN Err("InvalidConfig") ELSE mul_div(amount, bps, 10000)

ceil_div(a, b) ==
  IF b <= 0 \/ a < 0 THEN Err("InvalidAmount")
  ELSE IF a = 0 THEN Ok(0)
  ELSE Then(checked_sub(a, 1),
         LAMBDA less : Then(checked_div(less, b), LAMBDA q : checked_add(q, 1)))

\* add_signed and the summing loops: fallible terms in order; the first failing term or sum ends it.
SumOf(F(_), items) ==
  FoldLeft(LAMBDA sum, x : Then(sum, LAMBDA s : Then(F(x), LAMBDA v : checked_add(s, v))),
           Ok(0), items)

collateral_value_after_haircut(value, haircut_bps) ==
  IF value < 0 THEN Ok(value)
  ELSE Then(apply_bps(value, haircut_bps), LAMBDA haircut : checked_sub(value, haircut))

notional(size, price) ==
  IF size <= 0 \/ price <= 0 THEN Err("InvalidAmount") ELSE mul_precision(size, price)

signed_position_pnl(position, mark_price) ==
  IF mark_price <= 0 \/ position.size <= 0 \/ position.entry_price <= 0
  THEN Err("InvalidPrice")
  ELSE Then(IF position.is_long THEN checked_sub(mark_price, position.entry_price)
                                ELSE checked_sub(position.entry_price, mark_price),
            LAMBDA delta : mul_precision(position.size, delta))

funding_pnl(position, current_index) ==
  Then(checked_sub(current_index, position.last_funding_index),
       LAMBDA delta : Then(mul_precision(position.size, delta),
                           LAMBDA raw : checked_sub(0, raw)))

-----------------------------------------------------------------------------
(* risk-engine: margin.rs.  An account is its collateral values and its    *)
(* positions; `markets` maps a market id to its snapshot.                  *)

MAX_POSITIONS == 64

\* One position's profit, funding included, against its side's index.
position_upnl(p, markets) ==
  IF p.market_id \notin DOMAIN markets \/ ~markets[p.market_id].active
  THEN Err("InvalidConfig")
  ELSE LET market == markets[p.market_id]
       IN  Then(signed_position_pnl(p, market.oracle_price),
             LAMBDA trade :
               Then(funding_pnl(p, IF p.is_long THEN market.funding_index_long
                                                ELSE market.funding_index_short),
                    LAMBDA f : checked_add(trade, f)))

\* Mutant: margin is required on the entry notional.
position_margin_at_entry(p, markets, bps) ==
  Then(notional(p.size, p.entry_price), LAMBDA n : apply_bps(n, bps))

position_margin(p, markets, bps) ==
  Then(notional(p.size, markets[p.market_id].oracle_price), LAMBDA n : apply_bps(n, bps))

maintenance_of(p, markets) ==
  position_margin(p, markets, markets[p.market_id].maintenance_margin_bps)
initial_of(p, markets) ==
  position_margin(p, markets, markets[p.market_id].initial_margin_bps)

\* An isolated position is liquidatable when its own equity is below its own
\* maintenance requirement.
isolated_liquidatable(p, markets) ==
  LET required == maintenance_of(p, markets).value
  IN  required > 0 /\ p.margin + position_upnl(p, markets).value < required

\* The first pass over the positions: profit, then the two requirements, then the
\* margin an isolated position locks.
add_position(sums, p, markets) ==
  Then(sums, LAMBDA s : IF s.count >= MAX_POSITIONS THEN Err("InvalidConfig") ELSE
    Then(position_upnl(p, markets), LAMBDA u :
      Then(initial_of(p, markets), LAMBDA i : Then(checked_add(s.initial, i), LAMBDA initial :
        Then(maintenance_of(p, markets), LAMBDA m :
          Then(checked_add(s.maintenance, m), LAMBDA maintenance :
            Then(checked_add(s.locked, IF p.isolated THEN p.margin ELSE 0), LAMBDA locked :
              Ok([ count       |-> s.count + 1,
                   initial     |-> initial,
                   maintenance |-> maintenance,
                   locked      |-> locked ]))))))))

first_pass(account, markets) ==
  FoldLeft(LAMBDA s, p : add_position(s, p, markets),
           Ok([count |-> 0, initial |-> 0, maintenance |-> 0, locked |-> 0]),
           account.positions)

\* The second pass splits profit and maintenance by margin mode.  Equity counts an
\* isolated loss in full; only the liquidation trigger is per mode.
second_pass(account, markets, collateral, s) ==
  LET isolated     == SelectSeq(account.positions, LAMBDA p : p.isolated)
      cross        == SelectSeq(account.positions, LAMBDA p : ~p.isolated)
      upnl(p)      == position_upnl(p, markets)
      iso_equity   == SumOf(LAMBDA p : Then(upnl(p), LAMBDA u : checked_add(p.margin, u)),
                            isolated)
      cross_req    == SumOf(LAMBDA p : maintenance_of(p, markets), cross)
      cross_equity == Then(checked_sub(collateral, s.locked), LAMBDA c :
                        Then(SumOf(upnl, cross), LAMBDA u : checked_add(c, u)))
      equity       == Then(cross_equity, LAMBDA c :
                        Then(iso_equity, LAMBDA i : checked_add(c, i)))
      ratio(e)     == IF s.maintenance > 0 THEN div_precision(e, s.maintenance)
                      ELSE Ok(I128_MAX)
  IN  Then(equity, LAMBDA e : Then(SumOf(upnl, account.positions), LAMBDA u :
        Then(checked_sub(e, s.initial), LAMBDA free : Then(ratio(e), LAMBDA r :
          Ok([ collateral_value            |-> collateral,
               unrealized_pnl              |-> u,
               equity                      |-> e,
               initial_margin_required     |-> s.initial,
               maintenance_margin_required |-> s.maintenance,
               free_collateral             |-> free,
               margin_ratio                |-> r,
               liquidatable                |->
                 \/ cross_req.value > 0 /\ cross_equity.value < cross_req.value
                 \/ \E p \in ToSet(isolated) : isolated_liquidatable(p, markets) ])))))

account_health(account, markets) ==
  Then(SumOf(LAMBDA c : collateral_value_after_haircut(c.value, c.haircut_bps),
             account.collateral),
    LAMBDA collateral : Then(first_pass(account, markets),
      LAMBDA s : second_pass(account, markets, collateral, s)))

\* The health the account would have after paying out `withdrawal_value`.
after_withdrawal(h, withdrawal_value) ==
  LET equity == h.equity - withdrawal_value
  IN  [h EXCEPT !.collateral_value = @ - withdrawal_value,
                !.equity = equity,
                !.free_collateral = equity - h.initial_margin_required,
                !.margin_ratio = IF h.maintenance_margin_required > 0
                                 THEN div_precision(equity, h.maintenance_margin_required).value
                                 ELSE I128_MAX,
                !.liquidatable = /\ h.maintenance_margin_required > 0
                                 /\ equity < h.maintenance_margin_required]

validate_withdrawal(account, markets, withdrawal_value) ==
  IF withdrawal_value < 0 THEN Err("InvalidAmount")
  ELSE Then(account_health(account, markets),
         LAMBDA h : IF h.equity - withdrawal_value < h.initial_margin_required
                    THEN Err("InsufficientCollateral")
                    ELSE Ok(after_withdrawal(h, withdrawal_value)))

-----------------------------------------------------------------------------
(* risk-engine: liquidation.rs and funding.rs.                             *)

find_position(account, position_id) ==
  LET found == SelectSeq(account.positions, LAMBDA p : p.position_id = position_id)
  IN  IF found = <<>> THEN Err("InvalidConfig") ELSE Ok(found[1])

\* Mutant: the earlier form, which freed notional equal to the shortfall.
min_size_to_cover_notional(p, market, shortfall) ==
  Then(notional(p.size, market.oracle_price), LAMBDA n :
    Then(mul_div(p.size, shortfall, n), LAMBDA q : checked_add(q, 1)))

\* The smallest close that restores maintenance once the penalty is paid, or the
\* whole position when closing frees no margin.
min_size_to_cover(p, market, shortfall) ==
  LET rate  == market.maintenance_margin_bps - market.liquidation_fee_bps
      freed == Then(notional(p.size, market.oracle_price), LAMBDA n : mul_div(n, rate, 10000))
  IN  IF rate <= 0 THEN Ok(p.size)
      ELSE Then(freed, LAMBDA f : IF f <= 0 THEN Ok(p.size)
             ELSE Then(mul_div(p.size, shortfall, f), LAMBDA q : checked_add(q, 1)))

plan_for(p, market, health, partial_liquidation_bps) ==
  LET shortfall == health.maintenance_margin_required - health.equity
      cap       == mul_div(p.size, partial_liquidation_bps, 10000)
      close(m)  == CASE m >= p.size    -> p.size
                     [] m < p.size /\ m <= cap.value -> m
                     [] OTHER          -> cap.value
  IN  Then(cap, LAMBDA c : Then(min_size_to_cover(p, market, shortfall), LAMBDA m :
        Then(notional(close(m), market.oracle_price), LAMBDA n :
          Then(apply_bps(n, market.liquidation_fee_bps), LAMBDA penalty :
            Ok([ mode            |-> IF close(m) >= p.size THEN "Full" ELSE "Partial",
                 position_id     |-> p.position_id,
                 close_size      |-> close(m),
                 penalty         |-> penalty,
                 expected_health |-> health ])))))

plan_liquidation(account, markets, target_position_id, partial_liquidation_bps) ==
  Then(account_health(account, markets), LAMBDA h :
    Checked(<< <<~h.liquidatable, "NotLiquidatable">>,
               <<partial_liquidation_bps = 0 \/ partial_liquidation_bps > 10000,
                 "InvalidConfig">> >>,
            Then(find_position(account, target_position_id),
              LAMBDA p : plan_for(p, markets[p.market_id], h, partial_liquidation_bps))))

clamp(value, lo, hi) == IF value < lo THEN lo ELSE IF value > hi THEN hi ELSE value

premium_from_mark(mark, index) ==
  IF index <= 0 THEN Err("InvalidPrice")
  ELSE Then(checked_sub(mark, index), LAMBDA d : div_precision(d, index))

update_from_premium(cfg, state, premium, now) ==
  LET gap     == now - state.last_update
      elapsed == IF gap < MAX_FUNDING_ELAPSED_SECS THEN gap ELSE MAX_FUNDING_ELAPSED_SECS
      rate(r) == clamp(r, -cfg.max_rate_per_hour, cfg.max_rate_per_hour)
  IN  IF cfg.imbalance_coeff < 0 \/ cfg.max_rate_per_hour <= 0 THEN Err("InvalidConfig")
      ELSE IF now <= state.last_update THEN Ok(state)
      ELSE Then(mul_precision(premium, cfg.imbalance_coeff), LAMBDA raw :
             Then(mul_div(rate(raw), elapsed, SECS_PER_HOUR), LAMBDA delta :
               Then(checked_add(state.long_index, delta), LAMBDA long :
                 Then(checked_sub(state.short_index, delta), LAMBDA short :
                   Ok([ long_index    |-> long,
                        short_index   |-> short,
                        rate_per_hour |-> rate(raw),
                        last_update   |-> now ])))))
=============================================================================
