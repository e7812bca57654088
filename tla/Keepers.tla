------------------------------ MODULE Keepers -------------------------------
(***************************************************************************)
(* The keepers that send transactions (lib/keepers): funding, liquidation, *)
(* fee tiers and gas refills.  Each is one process with one key and the    *)
(* same shape: a tick reads the chain, refuses to decide while one of its  *)
(* own transactions is open, plans (KeeperPlans), and for each planned     *)
(* subject records an action, submits a transaction and waits for it.      *)
(*                                                                         *)
(* The keepers share no state, so a behaviour follows one of them, kind.   *)
(* A subject is what its transactions are about, and chain[s] is the one   *)
(* fact they change: the age of a market's last funding update, a key's    *)
(* gas balance, an account's fee tier, the liquidation steps an account    *)
(* (or the shortfall) still needs, a debtor's deficit.  What a liquidator  *)
(* must do may be refused: see obstacle.  The sender is reduced to what    *)
(* TxSender shows of it: transactions land in nonce order, the TxJob row   *)
(* is written before the broadcast, and a broadcast whose answer is lost   *)
(* is recorded as failed although the transaction may land.                *)
(***************************************************************************)
EXTENDS KeeperPlans

CONSTANTS
  Kinds,                       \* keepers to follow
  Subjects,                    \* markets, keys or accounts
  Funder,                      \* the key that pays for refills
  Shortfall, Debt,             \* the liquidator's other two subjects
  DUE, MAX_ELAPSED, AGE_CAP,   \* funding: due age; charged age; bound on ages
  FLOOR, TARGET, MAX_PER_RUN, MAX_PER_DAY, FLOAT,
  MaxTier,
  ADL_MIN, MAX_STEPS,          \* steps per account and tick
  MAX_PER_TICK,                \* updates, changes or accounts per tick
  MaxNeed,                     \* bound: steps an account may need, a deficit, the fund's capital
  CAPITAL,                     \* what the fund has to pay debts with at first
  LostAnswers,                 \* a broadcast's answer may be lost
  MaxMoves, MaxFaults          \* bounds on the environment

\* What each main() reads from its environment.
fundingOptions == [dueAfterSecs |-> DUE, maxPerTick |-> MAX_PER_TICK]

policy ==
  [ floor |-> FLOOR, target |-> TARGET, maxPerRun |-> MAX_PER_RUN,
    maxPerTargetPerDay |-> MAX_PER_DAY, usdc |-> 1 ]

\* Thresholds of the fee tiers: volumes 1, 3, ...
tierOptions ==
  [schedule |-> [t \in 1..MaxTier |-> 2 * t - 1], maxChangesPerTick |-> MAX_PER_TICK]
schedule == tierOptions.schedule

liquidationOptions ==
  [ maxAccountsPerTick |-> MAX_PER_TICK, maxStepsPerAccount |-> MAX_STEPS,
    adlMinShortfall    |-> ADL_MIN ]

Late == {Shortfall, Debt}

\* What the constructors and main refuse to start without, and a funder with gas.
ASSUME KeepersAssumption ==
  /\ Kinds \subseteq {"funding", "refill", "tier", "liquidation"}
  /\ {DUE, AGE_CAP, FLOOR, TARGET, MAX_PER_RUN, MAX_PER_DAY, FLOAT, MaxTier, MAX_PER_TICK,
      CAPITAL, MaxFaults} \subseteq Nat
  /\ 0 < DUE /\ fundingOptions.dueAfterSecs < MAX_ELAPSED /\ DUE <= AGE_CAP
  /\ IsFiniteSet(Subjects) /\ Shortfall # Debt /\ Late \cap Subjects = {}
  /\ refillConfigured(policy, Subjects, Funder) /\ FLOAT >= policy.usdc
  /\ scheduleOk(schedule, MaxTier)

VARIABLES
  kind,
  chain,
  volume, stats, fresh,        \* 30-day volumes; as aggregated; recently
  indexed,                     \* subjects the indexer shows holding a tier
  obstacle,                    \* why the contracts refuse what a subject needs, if they do
  fund,                        \* the insurance fund's operating capital, and the debt it recorded
  gate,                        \* "open", "paused", "stale" (oracle) or "revoked" (role)
  pc, view, plan, steps,       \* the tick
  pool,                        \* the key's unmined transactions, by nonce
  landed,                      \* the last one mined did not revert
  booked,                      \* amounts of today's SUBMITTED, CONFIRMED rows
  sent,                        \* amounts broadcast today
  moves, faults

tickVars == <<pc, view, plan, steps>>
dataVars == <<volume, stats, fresh, indexed>>
liqVars == <<obstacle, fund>>
sendVars == <<pool, landed, booked, sent>>
vars == <<kind, chain, dataVars, liqVars, gate, tickVars, sendVars, moves, faults>>

All == CASE kind = "liquidation" -> Subjects \cup Late
         [] kind = "refill" -> Subjects \cup {Funder}
         [] OTHER -> Subjects
-----------------------------------------------------------------------------
(* What a tick reads and plans                                             *)

NEVER == AGE_CAP + 1
unread == [s \in All |-> 0]

\* read(): every market's clock, relative to the latest block, with 0 for a market
\* that was never updated.
fundingState(v) == [s \in Subjects |-> [active |-> TRUE, lastUpdate |-> NEVER - v[s]]]

\* refillOnce's reads: balances, and today's rows for each target.
refillTargets(v) == [s \in Subjects |-> [balance |-> v[s], spentToday |-> booked[s]]]

\* Mutant: only accounts that qualify for a tier are looked at.
candidatesQualifying == {s \in Subjects : stats[s] >= schedule[1]}

\* The fee-tier bot's accounts: those that qualify and those that hold one.
candidates == {s \in Subjects : stats[s] >= schedule[1]} \cup indexed

\* The liquidator's multicall: an account in a market without a usable price has no
\* health to read.
healthOf(v) ==
  [s \in Subjects |-> [ readable     |-> gate # "stale",
                        liquidatable |-> v[s] > 0,
                        shortfall    |-> v[s] ]]

\* The updates, top-ups, changes or accounts of a tick; the liquidator's ADL and
\* bad-debt steps come after its accounts.
fundingPlans(v) ==
  {slice([i \in DOMAIN q |-> send(q[i], 1)], fundingOptions.maxPerTick) :
     q \in orderDue(planFunding(fundingState(v), NEVER, fundingOptions.dueAfterSecs,
                                MAX_ELAPSED), NEVER)}
refillPlans(v) == planRefills(refillTargets(v), v[Funder], policy)
tierPlans(v, missing) ==
  diffTiers(stats, [s \in candidates \ missing |-> v[s]], schedule,
            tierOptions.maxChangesPerTick)
liquidationPlans(v) ==
  {[i \in DOMAIN q |-> send(q[i], 1)] \o <<send(Shortfall, 1), send(Debt, 1)>> :
     q \in selectCandidates(healthOf(v), liquidationOptions.maxAccountsPerTick).liquidatable}

\* Plans a tick may make; `missing` are tiers it could not read.
plans(v, missing) ==
  CASE kind = "funding" -> fundingPlans(v)
    [] kind = "refill" -> refillPlans(v)
    [] kind = "tier" -> tierPlans(v, missing)
    [] kind = "liquidation" -> liquidationPlans(v)

\* What can stand in the way of a step that is needed.  A close that would not improve an
\* account's health is refused, and so is one that rounds to nothing (InvalidAmount, which
\* is classed alike).  The index shows no counterparty in profit, or the wrong one.  A
\* debtor may still have positions.
obstacles(s) ==
  CASE s = Shortfall -> {"no-counterparty", "PositionNotInProfit"}
    [] s = Debt -> {"HasOpenPositions"}
    [] OTHER -> {"LiquidationWouldNotImproveHealth"}

\* badDebtState of the debtor.
badDebt ==
  [ positionCount |-> IF obstacle[Debt] = "HasOpenPositions" THEN 1 ELSE 0,
    balance |-> -chain[Debt], operating |-> fund.operating, recordedDebt |-> fund.recorded ]

\* The ADL and bad-debt steps read the chain when they are reached.
skips(s) ==
  \/ /\ s = Shortfall
     /\ \/ adlSkipped(gate # "stale", chain[s], liquidationOptions.adlMinShortfall) # "none"
        \/ obstacle[s] = "no-counterparty"
  \/ s = Debt /\ ~settlesBadDebt(badDebt)

\* The error a call would revert with, in the pre-flight or in its block.
refusal(t) ==
  CASE kind = "refill" -> "none"
    [] kind # "refill" /\ gate = "paused" -> "EnforcedPause"
    [] kind \in {"funding", "tier"} /\ gate = "revoked" -> "AccessControlUnauthorizedAccount"
    [] kind \in {"funding", "liquidation"} /\ t.subject # Debt /\ gate = "stale"
         -> "StaleOracle"
    [] t.subject = Shortfall /\ chain[t.subject] = 0 -> "NoBadDebtToOffset"
    [] kind = "liquidation" /\ t.subject \in Subjects /\ chain[t.subject] = 0
         -> "NotLiquidatable"
    [] OTHER -> IF kind = "liquidation" THEN obstacle[t.subject] ELSE "none"

\* What settleBadDebt pays.
covered == Min({fund.operating, chain[Debt]})

\* The chain after a call that does not revert.
effect(t) ==
  CASE kind = "refill" ->
         [chain EXCEPT ![t.subject] = @ + t.amount, ![Funder] = @ - t.amount]
    [] kind = "tier" -> [chain EXCEPT ![t.subject] = t.amount]
    [] kind = "funding" -> [chain EXCEPT ![t.subject] = 0]
    [] kind = "liquidation" ->
         [chain EXCEPT ![t.subject] = IF t.subject = Debt THEN @ - covered ELSE Max({0, @ - 1})]

\* The fund after it: what it cannot pay it records.
fundAfter(t) ==
  IF t.subject = Debt
  THEN [operating |-> fund.operating - covered, recorded |-> chain[Debt] - covered]
  ELSE fund
-----------------------------------------------------------------------------
(* The tick                                                                *)

env == <<kind, dataVars, liqVars, moves>>

\* Mutant: the guard lets the tick go on while a transaction is open.
openJobsNone == {}

\* Transactions of the key whose TxJob row is open.
openJobs == {i \in DOMAIN pool : pool[i].known}

idleTick == pc' = "idle" /\ plan' = <<>> /\ steps' = 0 /\ view' = unread

\* Pauses, roles and stale statistics are looked at before anything else.
ready ==
  CASE kind = "funding" -> gate \notin {"paused", "revoked"}
    [] kind = "refill" -> TRUE
    [] kind = "tier" -> gate \notin {"paused", "revoked"} /\ fresh
    [] kind = "liquidation" -> gate # "paused"

\* A tick starts.  The funding keeper reads the whole chain state here,
\* before the in-flight guard.
Begin ==
  /\ pc = "idle" /\ ready
  /\ pc' = "guard"
  /\ view' = IF kind = "funding" THEN chain ELSE view
  /\ UNCHANGED <<env, chain, gate, plan, steps, sendVars, faults>>

\* stillInFlight: wait for the open jobs, give the tick up if one stays open.
GuardTimeout ==
  /\ pc = "guard" /\ openJobs # {} /\ faults < MaxFaults
  /\ faults' = faults + 1
  /\ idleTick
  /\ UNCHANGED <<env, chain, gate, sendVars>>

plansFrom(missing) ==
  /\ pc = "guard" /\ openJobs = {}
  /\ plan' \in plans(IF kind = "funding" THEN view ELSE chain, missing)
  /\ view' = unread
  /\ pc' = "act"
  /\ UNCHANGED <<env, chain, gate, steps, sendVars>>

Plan == plansFrom({}) /\ UNCHANGED faults

\* One account's tier could not be read: it is not assumed to be zero.
PlanPartly ==
  /\ kind = "tier" /\ faults < MaxFaults /\ faults' = faults + 1
  /\ \E s \in candidates : plansFrom({s})

Finish ==
  /\ pc = "act" /\ plan = <<>>
  /\ idleTick
  /\ UNCHANGED <<env, chain, gate, sendVars, faults>>

acting == pc = "act" /\ plan # <<>>
next == Head(plan)

\* On to the next subject.
done == pc' = "act" /\ plan' = Tail(plan) /\ steps' = 0

Skip ==
  /\ acting /\ skips(next.subject)
  /\ done
  /\ UNCHANGED <<env, chain, gate, view, sendVars, faults>>

\* The liquidator's ADL and bad-debt steps.
lastTwo(p) == SubSeq(p, Len(p) - 1, Len(p))

\* record() and submit() refused by the pre-flight: the row is FAILED.  A
\* pause ends the liquidator's accounts for this tick.
Refused ==
  /\ acting /\ ~skips(next.subject) /\ refusal(next) # "none"
  /\ pc' = "act" /\ steps' = 0
  /\ plan' = IF /\ kind = "liquidation" /\ next.subject \in Subjects
                /\ classifyLiquidationRevert(refusal(next)) = "paused"
             THEN lastTwo(plan)
             ELSE Tail(plan)
  /\ UNCHANGED <<env, chain, gate, view, sendVars, faults>>

spent(t) == IF kind = "refill" THEN t.amount ELSE 0

broadcasts(known) ==
  /\ acting /\ ~skips(next.subject) /\ refusal(next) = "none"
  /\ pool' = Append(pool, [subject |-> next.subject, amount |-> next.amount, known |-> known])
  /\ sent' = [sent EXCEPT ![next.subject] = @ + spent(next)]
  /\ UNCHANGED <<env, chain, gate, view, landed, booked>>

Submit ==
  /\ broadcasts(TRUE)
  /\ pc' = "book"
  /\ UNCHANGED <<plan, steps, faults>>

\* The broadcast's answer is lost: job and row are FAILED, yet it may land.
SubmitLost ==
  /\ LostAnswers /\ faults < MaxFaults /\ faults' = faults + 1
  /\ broadcasts(FALSE)
  /\ done

\* Mutant: a row counts against the day only once it is confirmed.
BookLater ==
  /\ pc = "book"
  /\ pc' = "wait"
  /\ UNCHANGED <<env, chain, gate, view, plan, steps, sendVars, faults>>

\* The row becomes SUBMITTED.
Book ==
  /\ pc = "book"
  /\ booked' = [booked EXCEPT ![next.subject] = @ + spent(next)]
  /\ pc' = "wait"
  /\ UNCHANGED <<env, chain, gate, view, plan, steps, pool, landed, sent, faults>>

\* wait() returns the receipt.
Confirm ==
  /\ pc = "wait" /\ pool = <<>>
  /\ kind # "liquidation" \/ next.subject \in Late
  /\ done
  /\ UNCHANGED <<env, chain, gate, view, sendVars, faults>>

\* liquidateAccount reads the account again after a step that succeeded, and takes
\* another while it is still liquidatable.
ConfirmStep ==
  /\ pc = "wait" /\ pool = <<>>
  /\ kind = "liquidation" /\ next.subject \in Subjects
  /\ IF /\ landed /\ steps + 1 < liquidationOptions.maxStepsPerAccount
        /\ LET h == healthOf(chain)[next.subject] IN h.readable /\ h.liquidatable
     THEN pc' = "act" /\ steps' = steps + 1 /\ UNCHANGED plan
     ELSE done
  /\ UNCHANGED <<env, chain, gate, view, sendVars, faults>>

\* wait() gives up.  Only the fee-tier bot ends its tick.
Timeout ==
  /\ pc = "wait" /\ pool # <<>> /\ faults < MaxFaults
  /\ faults' = faults + 1
  /\ IF kind = "tier" THEN idleTick ELSE done /\ UNCHANGED view
  /\ UNCHANGED <<env, chain, gate, sendVars>>

Crash ==
  /\ pc # "recover" /\ faults < MaxFaults
  /\ faults' = faults + 1
  /\ pc' = "recover" /\ plan' = <<>> /\ steps' = 0 /\ view' = unread
  /\ UNCHANGED <<env, chain, gate, sendVars>>

\* recoverOpenJobs at startup; a job that stays open is left for later.
Recover ==
  /\ pc = "recover"
  /\ IF openJobs = {} THEN UNCHANGED faults
     ELSE faults < MaxFaults /\ faults' = faults + 1
  /\ pc' = "idle"
  /\ UNCHANGED <<env, chain, gate, view, plan, steps, sendVars>>
-----------------------------------------------------------------------------
(* The chain and the world around the keeper                               *)

Mine ==
  /\ pool # <<>>
  /\ landed' = (refusal(Head(pool)) = "none")
  /\ chain' = IF landed' THEN effect(Head(pool)) ELSE chain
  /\ fund' = IF landed' THEN fundAfter(Head(pool)) ELSE fund
  /\ pool' = Tail(pool)
  /\ UNCHANGED <<kind, dataVars, obstacle, moves, gate, tickVars, booked, sent, faults>>

\* Time, bounded so that ages keep their order; a market never updated has no age.
Elapse ==
  /\ kind = "funding" /\ \A s \in Subjects : chain[s] # AGE_CAP
  /\ \E s \in Subjects : chain[s] # NEVER
  /\ chain' = [s \in All |-> IF chain[s] = NEVER THEN NEVER ELSE chain[s] + 1]
  /\ UNCHANGED <<env, gate, tickVars, sendVars, faults>>

\* Gas is burnt, prices and volumes move; a deposit that repays a debt shrinks its record
\* (refreshDebt); the fund gains and loses.
World(s, n) ==
  /\ moves < MaxMoves /\ moves' = moves + 1
  /\ \/ /\ kind = "refill" /\ s # Funder /\ n < chain[s]
        /\ chain' = [chain EXCEPT ![s] = n]
        /\ UNCHANGED <<volume, fund>>
     \/ /\ kind = "liquidation" /\ n <= MaxNeed /\ n # chain[s]
        /\ chain' = [chain EXCEPT ![s] = n]
        /\ fund' = IF s = Debt THEN [fund EXCEPT !.recorded = Min({@, n})] ELSE fund
        /\ UNCHANGED volume
     \/ /\ kind = "liquidation" /\ s = Debt /\ n <= MaxNeed /\ n # fund.operating
        /\ fund' = [fund EXCEPT !.operating = n]
        /\ UNCHANGED <<chain, volume>>
     \/ /\ kind = "tier" /\ n # volume[s] /\ n \in {0} \cup {schedule[t] : t \in 1..MaxTier}
        /\ volume' = [volume EXCEPT ![s] = n]
        /\ UNCHANGED <<chain, fund>>
  /\ UNCHANGED <<kind, stats, fresh, indexed, obstacle, gate, tickVars, sendVars, faults>>

\* Positions and prices make a step that is needed impossible, or possible again.
Obstruct(s) ==
  /\ kind = "liquidation" /\ chain[s] > 0
  /\ moves < MaxMoves /\ moves' = moves + 1
  /\ \E o \in ({"none"} \cup obstacles(s)) \ {obstacle[s]} : obstacle' = [obstacle EXCEPT ![s] = o]
  /\ UNCHANGED <<kind, chain, dataVars, fund, gate, tickVars, sendVars, faults>>

\* The stats aggregator runs, or has not run for too long.
Aggregate ==
  /\ kind = "tier" /\ (~fresh \/ stats # volume)
  /\ stats' = volume /\ fresh' = TRUE
  /\ UNCHANGED <<kind, chain, volume, indexed, liqVars, gate, tickVars, sendVars, moves, faults>>

Lapse ==
  /\ kind = "tier" /\ fresh /\ faults < MaxFaults
  /\ fresh' = FALSE /\ faults' = faults + 1
  /\ UNCHANGED <<kind, chain, volume, stats, indexed, liqVars, gate, tickVars, sendVars, moves>>

holders == {s \in Subjects : chain[s] > 0}
Index ==
  /\ kind = "tier" /\ indexed # holders
  /\ indexed' = holders
  /\ UNCHANGED <<kind, chain, volume, stats, fresh, liqVars, gate, tickVars, sendVars>>
  /\ UNCHANGED <<moves, faults>>

\* What can stand in a keeper's way: refills need nobody's leave, and only the two
\* keepers with a role can lose it.
halts ==
  CASE kind = "funding" -> {"paused", "stale", "revoked"}
    [] kind = "refill" -> {}
    [] kind = "tier" -> {"paused", "revoked"}
    [] kind = "liquidation" -> {"paused", "stale"}

Halt ==
  /\ gate = "open" /\ faults < MaxFaults
  /\ gate' \in halts /\ faults' = faults + 1
  /\ UNCHANGED <<env, chain, tickVars, sendVars>>

Resume ==
  /\ gate # "open" /\ gate' = "open"
  /\ UNCHANGED <<env, chain, tickVars, sendVars, faults>>
-----------------------------------------------------------------------------
Init ==
  /\ kind \in Kinds
  /\ chain = [s \in All |-> CASE s = Funder -> FLOAT
                              [] kind = "refill" /\ s # Funder -> TARGET
                              [] kind = "funding" -> NEVER
                              [] OTHER -> 0]
  /\ volume = [s \in Subjects |-> 0] /\ stats = volume /\ fresh = TRUE
  /\ indexed = {} /\ gate = "open"
  /\ obstacle = [s \in All |-> "none"] /\ fund = [operating |-> CAPITAL, recorded |-> 0]
  /\ pc = "recover" /\ view = unread /\ plan = <<>> /\ steps = 0
  /\ pool = <<>> /\ landed = TRUE
  /\ booked = [s \in All |-> 0] /\ sent = booked
  /\ moves = 0 /\ faults = 0

TickStep ==
  \/ Begin \/ Plan \/ Finish \/ Skip \/ Refused
  \/ Submit \/ Book \/ Confirm \/ ConfirmStep \/ Recover
Fault == GuardTimeout \/ PlanPartly \/ SubmitLost \/ Timeout \/ Crash \/ Lapse \/ Halt

Next ==
  \/ TickStep \/ Fault
  \/ Mine \/ Elapse \/ Aggregate \/ Index \/ Resume
  \/ \E s \in All : Obstruct(s) \/ \E n \in 0..TARGET : World(s, n)

\* runLoop keeps ticking, blocks are produced, and the aggregator, the
\* indexer and whoever paused the protocol come back.
Fairness ==
  /\ WF_vars(TickStep) /\ WF_vars(Mine)
  /\ WF_vars(Aggregate) /\ WF_vars(Index) /\ WF_vars(Resume)

Spec == Init /\ [][Next]_vars /\ Fairness
-----------------------------------------------------------------------------
(* Properties                                                              *)

\* "Callers send nothing new while this returns true": a key never has two
\* transactions for one subject open at once, whatever times out or crashes,
\* unless the sender itself lost sight of the first.
OneOpenPerSubject ==
  \A i, j \in DOMAIN pool :
    i < j /\ pool[i].subject = pool[j].subject => ~pool[i].known

\* A target is sent at most its daily allowance, plus one top-up for each fault: a
\* transfer whose row never became SUBMITTED is not counted.  However the top-ups and
\* the funder's own balance interleave, the funder never spends its last unit of gas
\* unless the sender lost sight of a transfer.
DailyCapHolds ==
  kind = "refill" =>
    /\ \A s \in Subjects : sent[s] <= MAX_PER_DAY + faults * TARGET
    /\ chain[Funder] >= policy.usdc - faults * TARGET

\* What is there to do about a subject: of a debt, to pay what the fund can pay and to
\* record the rest.
needs(s) ==
  CASE kind = "funding" -> chain[s] >= DUE
    [] kind = "refill" -> /\ chain[s] < FLOOR /\ booked[s] < MAX_PER_DAY
                          /\ chain[Funder] > policy.usdc
    [] kind = "tier" -> chain[s] # targetTier(volume[s], schedule)
    [] s = Shortfall -> chain[s] >= ADL_MIN
    [] s = Debt -> chain[s] > 0 /\ ~(fund.operating = 0 /\ fund.recorded = chain[s])
    [] OTHER -> chain[s] > 0

\* The contracts refuse a subject's step, or refuse those of so many accounts at least as
\* far under water that these take every place of a tick.
hindered(s) ==
  /\ kind = "liquidation"
  /\ \/ obstacle[s] # "none"
     \/ LET ahead == {r \in Subjects : obstacle[r] # "none" /\ chain[r] >= chain[s]}
        IN  s \in Subjects /\ Cardinality(ahead) >= liquidationOptions.maxAccountsPerTick

\* What a keeper is there for is done in the end, whatever times out, crashes, pauses or
\* goes stale on the way: an account is liquidated, a shortfall above dust deleveraged and
\* a debt paid as far as the fund's capital goes, unless the contracts go on refusing it,
\* or go on refusing the accounts that selectCandidates puts before it.
NeedsMet ==
  \A s \in Subjects \cup Late :
    (s \in All /\ needs(s)) ~> (s \in All => ~needs(s) \/ hindered(s))
=============================================================================
