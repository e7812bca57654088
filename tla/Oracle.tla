------------------------------- MODULE Oracle -------------------------------
(***************************************************************************)
(* The price oracle: the on-chain adapter (OracleAdapter.sol) and the      *)
(* off-chain publishers that feed it (lib/oracle, scripts/oracle-keeper).  *)
(*                                                                         *)
(* A publisher ticks: it reads the adapter, collects venue quotes,         *)
(* aggregates them, decides (guards.ts) and sends one pushPrices.  The     *)
(* adapter stores the observation and re-aggregates every fresh            *)
(* observation into the snapshot that the engine reads.  Between the read, *)
(* the pre-flight and the block the push lands in, anything may happen:    *)
(* time passes, the market and the other publishers move, governance acts, *)
(* the publisher times out or restarts.                                    *)
(*                                                                         *)
(* Every rule of the code compares two times, so times are kept as ages,   *)
(* which saturate one past the largest bound they are compared with: the   *)
(* model is finite and time never ends.  One feed stands for each feed.    *)
(***************************************************************************)
EXTENDS Integers, FiniteSets, Sequences, SequencesExt

CONSTANTS
  Publishers, Venues,
  Prices,                                   \* levels the market trades at
  UsdcStates,                               \* sets of venue readings of USDC
  MAX_AGE, MIN_PUBLISHERS, MAX_SPREAD_BPS, MAX_JUMP_BPS,
  MAX_CONFIDENCE_BPS, MAX_DIVERGENCE_BPS, REF_REQUIRED,
  MIN_SOURCES, MAX_SOURCE_DEVIATION_BPS, MAX_QUOTE_AGE,
  USDC_ONE, DEPEG_HALT_BPS, DEPEG_FAIL_CLOSED,
  DEVIATION_BPS, HEARTBEAT, INCLUSION_MARGIN, BACKDATE,
  BACKOFF_MIN, BACKOFF_MAX,
  MaxInFlight,                              \* open pushes of one key
  MaxEvents,                                \* faults and moves together
  Pace,                                     \* time a calm tick may take
  CalmBound                                 \* calm time that convergence takes

ASSUME OracleAssumption ==
  /\ Prices \subseteq Nat \ {0}
  /\ MAX_AGE \in Nat \ {0} /\ BACKDATE \in 0..MAX_AGE
  /\ HEARTBEAT \in 0..MAX_AGE /\ MAX_QUOTE_AGE \in Nat
  /\ MIN_PUBLISHERS \in Nat \ {0} /\ MIN_SOURCES \in Nat
  /\ IsFiniteSet(Publishers) /\ IsFiniteSet(Venues)

VARIABLES
  obs,        \* publisher -> its last stored observation
  snap,       \* the stored aggregate
  adapterPaused, active, members,                  \* adapter configuration
  ref,        \* the reference aggregator's answer, 0 when unreadable
  market, seen,  \* price traded now; per price, time since it last was
  usdc,       \* venue readings of USDC
  calm,       \* time since the environment became well behaved, plus one
  events,     \* faults and moves so far
  pc, plan, pool, backoff, pace             \* per publisher

chainVars == <<obs, snap>>
configVars == <<adapterPaused, active, members>>
worldVars == <<ref, market, seen, usdc, calm, events>>
pubVars == <<pc, plan, pool, backoff, pace>>
oracleVars == <<chainVars, configVars, worldVars, pubVars>>

BPS == 10000
Calm == calm > 0
Old == MAX_AGE + 1                          \* an age past every bound
SeenCap == MAX_AGE + MAX_QUOTE_AGE + 1
older(a, cap) == IF a < cap THEN a + 1 ELSE a

NoObservation == [price |-> 0, confidence |-> 0, age |-> Old]
NoSnapshot == [price |-> 0, confidence |-> 0, pubAge |-> Old, writeAge |-> Old]

absDiff(a, b) == IF a > b THEN a - b ELSE b - a
deviationBps(a, r) == (absDiff(a, r) * BPS) \div r
applyBps(a, bps) == (a * bps) \div BPS

\* Readings are records with a price and the name of who gave them; the k-th
\* smallest price, and the median price.
rank(Q, k) == (CHOOSE q \in Q :
  /\ Cardinality({r \in Q : r.price < q.price}) < k
  /\ Cardinality({r \in Q : r.price <= q.price}) >= k).price

median(Q) ==
  LET n == Cardinality(Q) IN
  IF n % 2 = 1 THEN rank(Q, n \div 2 + 1)
               ELSE (rank(Q, n \div 2) + rank(Q, n \div 2 + 1)) \div 2

maximum(S) == CHOOSE x \in S : \A y \in S : y <= x
----------------------------------------------------------------------------
(* OracleAdapter.sol                                                       *)

reading(p, b) == [by |-> p, price |-> b.price, confidence |-> b.confidence, age |-> b.age]

freshObs(o) == {r \in {reading(p, o[p]) : p \in members} : r.price # 0 /\ r.age <= MAX_AGE}

\* The guard that skips an aggregation of observations o, "none" if it is
\* stored.  The jump guard does not hold a stale price as its anchor.
skipReason(o, s) ==
  LET F == freshObs(o)
      m == median(F)
  IN IF Cardinality(F) < MIN_PUBLISHERS THEN "quorum"
     ELSE IF \E r \in F : absDiff(r.price, m) > applyBps(m, MAX_SPREAD_BPS) THEN "spread"
     ELSE IF maximum({r.age : r \in F}) > s.pubAge THEN "not-monotonic"
     ELSE IF /\ MAX_JUMP_BPS # 0 /\ s.price > 0 /\ s.writeAge <= MAX_AGE
             /\ absDiff(m, s.price) > applyBps(s.price, MAX_JUMP_BPS) THEN "jump"
     ELSE IF ref = 0 /\ REF_REQUIRED THEN "reference-unavailable"
     ELSE IF ref # 0 /\ absDiff(m, ref) > applyBps(ref, MAX_DIVERGENCE_BPS) THEN "divergence"
     ELSE "none"

aggregateOnChain(o, s) ==
  LET F == freshObs(o) IN
  IF skipReason(o, s) # "none" THEN s
  ELSE [price |-> median(F),
        confidence |-> maximum({r.confidence : r \in F}),
        pubAge |-> maximum({r.age : r \in F}),
        writeAge |-> 0]

\* The error pushPrices(b) by p reverts with, "none" if it succeeds.
pushReverts(p, b) ==
  IF p \notin members THEN "not-a-publisher"
  ELSE IF adapterPaused THEN "paused"
  ELSE IF ~active THEN "inactive-feed"
  ELSE IF b.age > MAX_AGE THEN "stale"
  ELSE IF b.age >= obs[p].age THEN "stale"
  ELSE "none"

pushPrices(p, b) ==
  LET o == [obs EXCEPT ![p] = b] IN
  /\ obs' = o
  /\ snap' = aggregateOnChain(o, snap)

\* getPrice with the feed's own bounds succeeds.
Served ==
  /\ active
  /\ snap.price > 0
  /\ snap.pubAge <= MAX_AGE
  /\ snap.writeAge <= MAX_AGE
  /\ snap.confidence <= applyBps(snap.price, MAX_CONFIDENCE_BPS)
----------------------------------------------------------------------------
(* The publisher's decision: sources.ts, aggregate.ts, guards.ts           *)

\* What the venues may answer: a price last traded at, or nothing.
Answers ==
  IF Calm THEN {{[by |-> v, price |-> market] : v \in Venues}}
  ELSE {Q \in SUBSET [by : Venues, price : {x \in Prices : seen[x] < SeenCap}] :
          \A q, r \in Q : q.by = r.by => q = r}

\* Mutant: the age of a quote is not looked at.
collectQuotesAny(answers) == answers

collectQuotes(answers) == {q \in answers : seen[q.price] <= MAX_QUOTE_AGE}

NoAggregate == [ok |-> FALSE]

aggregate(quotes) ==
  LET required == IF MIN_SOURCES > 2 THEN MIN_SOURCES ELSE 2
      first == median(quotes)
      kept == {q \in quotes : deviationBps(q.price, first) <= MAX_SOURCE_DEVIATION_BPS}
      m == median(kept)
  IN IF Cardinality(quotes) < required THEN NoAggregate
     ELSE IF Cardinality(kept) < required THEN NoAggregate
     ELSE [ok |-> TRUE, price |-> m,
           confidence |-> maximum({absDiff(q.price, m) : q \in kept})]

depegHalts ==
  IF usdc = {} THEN DEPEG_FAIL_CLOSED
  ELSE deviationBps(median(usdc), USDC_ONE) > DEPEG_HALT_BPS

\* Mutant: the anchor's age is judged as of now, not as of inclusion.
predictAggregateNow(p, b) ==
  LET F == {r \in {reading(q, IF q = p THEN b ELSE obs[q]) : q \in members} :
               r.price # 0 /\ r.age + 1 <= MAX_AGE}
      m == median(F)
      prevStale == snap.writeAge > MAX_AGE
  IN IF Cardinality(F) < MIN_PUBLISHERS THEN "quorum"
     ELSE IF \E r \in F : absDiff(r.price, m) > applyBps(m, MAX_SPREAD_BPS) THEN "spread"
     ELSE IF \E r \in F : r.age > snap.pubAge THEN "not-monotonic"
     ELSE IF /\ MAX_JUMP_BPS # 0 /\ snap.price > 0 /\ ~prevStale
             /\ absDiff(m, snap.price) > applyBps(snap.price, MAX_JUMP_BPS) THEN "jump"
     ELSE IF ref = 0 /\ REF_REQUIRED THEN "reference-unavailable"
     ELSE IF ref # 0 /\ absDiff(m, ref) > applyBps(ref, MAX_DIVERGENCE_BPS) THEN "divergence"
     ELSE "none"

\* The publisher's mirror of _aggregate: the outcome of p pushing b, were
\* the push to land one time unit on.
predictAggregate(p, b) ==
  LET F == {r \in {reading(q, IF q = p THEN b ELSE obs[q]) : q \in members} :
               r.price # 0 /\ r.age + 1 <= MAX_AGE}
      m == median(F)
      prevStale == snap.writeAge + 1 > MAX_AGE
  IN IF Cardinality(F) < MIN_PUBLISHERS THEN "quorum"
     ELSE IF \E r \in F : absDiff(r.price, m) > applyBps(m, MAX_SPREAD_BPS) THEN "spread"
     ELSE IF \E r \in F : r.age > snap.pubAge THEN "not-monotonic"
     ELSE IF /\ MAX_JUMP_BPS # 0 /\ snap.price > 0 /\ ~prevStale
             /\ absDiff(m, snap.price) > applyBps(snap.price, MAX_JUMP_BPS) THEN "jump"
     ELSE IF ref = 0 /\ REF_REQUIRED THEN "reference-unavailable"
     ELSE IF ref # 0 /\ absDiff(m, ref) > applyBps(ref, MAX_DIVERGENCE_BPS) THEN "divergence"
     ELSE "none"

\* Mutant: only a push that is sure to be stored is sent.
SendOnlyStored == {"none"}

SEND_THROUGH == {"none", "quorum", "spread"}

isDue(p, a) ==
  \/ obs[p].price = 0
  \/ deviationBps(a.price, obs[p].price) >= DEVIATION_BPS
  \/ obs[p].age >= HEARTBEAT

observationOf(a) == [price |-> a.price, confidence |-> a.confidence, age |-> BACKDATE]

\* decide(): publish, rather than hold or stay idle.
publishes(p, a) ==
  /\ active
  /\ a.ok
  /\ a.confidence <= applyBps(a.price, MAX_CONFIDENCE_BPS)
  /\ ref # 0 => deviationBps(a.price, ref) <= MAX_DIVERGENCE_BPS
  /\ ref = 0 => ~REF_REQUIRED
  /\ isDue(p, a)
  /\ obs[p].price # 0 => BACKDATE < obs[p].age
  /\ BACKDATE <= MAX_AGE - INCLUSION_MARGIN
  /\ predictAggregate(p, observationOf(a)) \in SEND_THROUGH
----------------------------------------------------------------------------
(* The publisher process: publisher.ts over a transaction sender           *)

Ready == [left |-> 0, failures |-> 0]

\* tick() up to its send: read, quote, de-peg, back-off, decide.
PublisherTick(p) ==
  /\ pc[p] = "idle" /\ Len(pool[p]) < MaxInFlight
  /\ \E a \in {aggregate(collectQuotes(answers)) : answers \in Answers} :
       IF /\ ~adapterPaused /\ p \in members /\ ~depegHalts
          /\ backoff[p].left = 0 /\ publishes(p, a)
       THEN /\ pc' = [pc EXCEPT ![p] = "planned"]
            /\ plan' = [plan EXCEPT ![p] = observationOf(a)]
            /\ UNCHANGED pace
       ELSE /\ pace' = [pace EXCEPT ![p] = 0]
            /\ UNCHANGED <<pc, plan>>
  /\ UNCHANGED <<chainVars, configVars, worldVars, pool, backoff>>

backOff(b) ==
  LET delay == BACKOFF_MIN * 2 ^ b.failures IN
  [left |-> IF delay < BACKOFF_MAX THEN delay ELSE BACKOFF_MAX,
   failures |-> older(b.failures, BACKOFF_MAX)]

\* submit(): the pre-flight either refuses the push, and a refusal that is
\* the feed's own backs it off, or the push is broadcast.
Submit(p) ==
  /\ pc[p] = "planned"
  /\ LET cls == pushReverts(p, plan[p]) IN
     IF cls = "none"
     THEN /\ pool' = [pool EXCEPT ![p] = Append(@, plan[p])]
          /\ pc' = [pc EXCEPT ![p] = "waiting"]
          /\ UNCHANGED <<backoff, pace>>
     ELSE /\ pace' = [pace EXCEPT ![p] = 0]
          /\ pc' = [pc EXCEPT ![p] = "idle"]
          /\ backoff' = IF cls = "inactive-feed"
                        THEN [backoff EXCEPT ![p] = backOff(@)] ELSE backoff
          /\ UNCHANGED pool
  /\ plan' = [plan EXCEPT ![p] = NoObservation]
  /\ UNCHANGED <<chainVars, configVars, worldVars>>

\* The key's oldest push lands, in nonce order; wait() ends with the last.
Mine(p) ==
  /\ pool[p] # <<>>
  /\ LET ok == pushReverts(p, Head(pool[p])) = "none"
         awaited == pc[p] = "waiting" /\ Len(pool[p]) = 1
     IN /\ IF ok THEN pushPrices(p, Head(pool[p])) ELSE UNCHANGED chainVars
        /\ pc' = IF awaited THEN [pc EXCEPT ![p] = "idle"] ELSE pc
        /\ backoff' = IF awaited /\ ok THEN [backoff EXCEPT ![p] = Ready] ELSE backoff
  /\ pool' = [pool EXCEPT ![p] = Tail(@)]
  /\ pace' = [pace EXCEPT ![p] = 0]
  /\ UNCHANGED <<configVars, worldVars, plan>>

\* wait() gives up; the push stays in the pool, the next tick signs another.
Timeout(p) ==
  /\ ~Calm /\ events < MaxEvents
  /\ pc[p] = "waiting"
  /\ pc' = [pc EXCEPT ![p] = "idle"]
  /\ events' = events + 1
  /\ UNCHANGED <<chainVars, configVars, plan, pool, backoff, pace, ref, market, seen, usdc, calm>>

\* A restart forgets the plan and the back-offs and waits for open pushes.
PublisherRestart(p) ==
  /\ ~Calm /\ events < MaxEvents
  /\ pc' = [pc EXCEPT ![p] = IF pool[p] = <<>> THEN "idle" ELSE "waiting"]
  /\ plan' = [plan EXCEPT ![p] = NoObservation]
  /\ backoff' = [backoff EXCEPT ![p] = Ready]
  /\ events' = events + 1
  /\ UNCHANGED <<chainVars, configVars, pool, pace, ref, market, seen, usdc, calm>>
----------------------------------------------------------------------------
(* Governance, the market and time                                         *)

Admin ==
  /\ ~Calm /\ events < MaxEvents
  /\ events' = events + 1
  /\ UNCHANGED <<chainVars, pubVars, ref, market, seen, usdc, calm>>

SetPublishers(S) ==
  /\ S # {} /\ S # members /\ members' = S
  /\ UNCHANGED <<adapterPaused, active>> /\ Admin

SetFeed ==
  /\ active' = ~active
  /\ UNCHANGED <<adapterPaused, members>> /\ Admin

PauseAdapter ==
  /\ adapterPaused' = ~adapterPaused
  /\ UNCHANGED <<active, members>> /\ Admin

Move(x) ==
  /\ ~Calm /\ events < MaxEvents /\ x # market
  /\ market' = x /\ seen' = [seen EXCEPT ![x] = 0]
  /\ events' = events + 1
  /\ UNCHANGED <<chainVars, configVars, pubVars, ref, usdc, calm>>

\* Chainlink answers with the traded price, or stops being readable.
MoveReference ==
  /\ ~Calm /\ events < MaxEvents
  /\ ref' \in {0, market} \ {ref}
  /\ events' = events + 1
  /\ UNCHANGED <<chainVars, configVars, pubVars, market, seen, usdc, calm>>

MoveUsdc ==
  /\ ~Calm /\ events < MaxEvents
  /\ usdc' \in UsdcStates \ {usdc}
  /\ events' = events + 1
  /\ UNCHANGED <<chainVars, configVars, pubVars, ref, market, seen, calm>>

\* From here on the environment is well behaved: no faults, no moves, every
\* venue answers with the traded price and a tick, its push mined, ends
\* within Pace of the one before.
Settle ==
  /\ ~Calm /\ ~adapterPaused /\ active /\ members = Publishers /\ ~depegHalts
  /\ ref \in (IF REF_REQUIRED THEN {} ELSE {0}) \cup {market}
  /\ calm' = 1
  /\ pace' = [p \in Publishers |-> 0]
  /\ UNCHANGED <<chainVars, configVars, ref, market, seen, usdc, events, pc, plan, pool, backoff>>

aged(o) == [o EXCEPT !.age = older(@, Old)]
agedSnap(s) == [s EXCEPT !.pubAge = older(@, Old), !.writeAge = older(@, Old)]

Elapse ==
  /\ Calm => \A p \in Publishers : pace[p] < Pace
  /\ obs' = [p \in Publishers |-> aged(obs[p])]
  /\ snap' = agedSnap(snap)
  /\ seen' = [x \in Prices |-> IF x = market THEN 0 ELSE older(seen[x], SeenCap)]
  /\ plan' = [p \in Publishers |-> aged(plan[p])]
  /\ pool' = [p \in Publishers |-> [i \in DOMAIN pool[p] |-> aged(pool[p][i])]]
  /\ backoff' = [p \in Publishers |->
                  [backoff[p] EXCEPT !.left = IF @ > 0 THEN @ - 1 ELSE 0]]
  /\ calm' = IF Calm THEN older(calm, CalmBound + 1) ELSE 0
  /\ pace' = IF Calm THEN [p \in Publishers |-> pace[p] + 1] ELSE pace
  /\ UNCHANGED <<configVars, ref, market, usdc, events, pc>>
----------------------------------------------------------------------------
OracleInit ==
  /\ obs = [p \in Publishers |-> NoObservation]
  /\ snap = NoSnapshot
  /\ adapterPaused = FALSE /\ active = TRUE /\ members = Publishers
  /\ ref = 0
  /\ market \in Prices
  /\ seen = [x \in Prices |-> IF x = market THEN 0 ELSE SeenCap]
  /\ usdc = {[by |-> v, price |-> USDC_ONE] : v \in Venues}
  /\ calm = 0 /\ events = 0
  /\ pc = [p \in Publishers |-> "idle"]
  /\ plan = [p \in Publishers |-> NoObservation]
  /\ pool = [p \in Publishers |-> <<>>]
  /\ backoff = [p \in Publishers |-> Ready]
  /\ pace = [p \in Publishers |-> 0]

PublisherStep(p) == PublisherTick(p) \/ Submit(p) \/ Mine(p)

OracleNext ==
  \/ \E p \in Publishers : PublisherStep(p) \/ Timeout(p) \/ PublisherRestart(p)
  \/ \E S \in SUBSET Publishers : SetPublishers(S)
  \/ SetFeed \/ PauseAdapter
  \/ \E x \in Prices : Move(x)
  \/ MoveReference \/ MoveUsdc \/ Settle \/ Elapse

OracleSpec == OracleInit /\ [][OracleNext]_oracleVars
----------------------------------------------------------------------------
(* Properties                                                              *)

\* predictAggregate "mirrors the contract line for line": for every push a
\* publisher could make, what the publisher predicts is what _aggregate
\* does with it one time unit later.
MirrorAgrees ==
  \A p \in members, x \in Prices, a \in 0..(MAX_AGE - 1) :
    LET b == [price |-> x, confidence |-> 0, age |-> a]
        later == [q \in Publishers |-> aged(IF q = p THEN b ELSE obs[q])]
    IN predictAggregate(p, b) = skipReason(later, agedSnap(snap))

\* A price the engine can read lies between prices the market really traded
\* at within the feed's age bound plus the venues' quote age: no sequence of
\* delays, restarts and late pushes gets an older price served as fresh.
ServedIsRecent ==
  Served => \E lo, hi \in {x \in Prices : seen[x] <= MAX_AGE + MAX_QUOTE_AGE - BACKDATE} :
              lo <= snap.price /\ snap.price <= hi

\* Once the environment is well behaved, whatever state it left behind, the
\* feed serves the market's price within CalmBound and goes on serving it:
\* holds, send-throughs and back-offs leave it neither stuck nor stale.
Converges == calm > CalmBound => Served /\ snap.price = market

-----------------------------------------------------------------------------
(***************************************************************************)
(* What an oracle publisher makes of the answers to a pushPrices of many   *)
(* feeds (lib/oracle/publisher.ts): which feeds a refused batch backs off, *)
(* what a receipt says of each feed, and which alerts are raised.  The     *)
(* state machine above does this for one feed.                             *)
(***************************************************************************)

Ok == "none"

classifyRevert(errorName) ==
  CASE errorName = "StaleOracle" -> "stale"
    [] errorName \in {"AccessControlUnauthorizedAccount", "NotPublisher"} -> "not-a-publisher"
    [] errorName \in {"EnforcedPause", "ExecutionPaused"} -> "paused"
    [] errorName = "UnknownFeed" -> "unknown-feed"
    [] errorName = "InvalidConfig" -> "inactive-feed"
    [] errorName \in {"InvalidPrice", "MathOverflow"} -> "invalid-price"
    [] OTHER -> "unknown"

\* The adapter answers a batch with the caller's error, or with that of the first feed
\* it refuses; a feed of its own is simulated as a batch of one.
revertOf(caller, errors, batch) ==
  LET refused == SelectSeq(batch, LAMBDA f : errors[f] # Ok) IN
  CASE caller # Ok -> [error |-> caller, feed |-> Ok]
    [] refused # <<>> -> [error |-> errors[refused[1]], feed |-> refused[1]]
    [] OTHER -> [error |-> Ok, feed |-> Ok]

\* The feeds a refused batch backs off.
onRevert(revert, caller, errors, batch) ==
  LET cls == classifyRevert(revert.error) IN
  CASE cls \in {"not-a-publisher", "paused", "stale"} -> {}
    [] cls = "unknown-feed" /\ revert.feed \in ToSet(batch) -> {revert.feed}
    [] OTHER -> {f \in ToSet(batch) : revertOf(caller, errors, <<f>>).error # Ok}

\* The outcome of every feed of a mined push, from the adapter's events in order.
Observed == [kind |-> "observed"]

outcomeAfter(out, log) ==
  CASE log.address # "oracle" -> out
    [] log.event = "ObservationPushed" ->
         IF log.id \in DOMAIN out THEN out ELSE (log.id :> Observed) @@ out
    [] log.event = "PriceUpdated" ->
         (log.id :> [kind |-> "updated", price |-> log.price, reanchored |-> FALSE]) @@ out
    [] log.event = "PriceUpdateSkipped" ->
         (log.id :> [kind |-> "skipped", reason |-> log.reason]) @@ out
    [] OTHER -> out

outcomesFromReceipt(logs) ==
  LET out == FoldLeft(outcomeAfter, <<>>, logs)
      reanchored == {l.id : l \in {m \in ToSet(logs) : m.address = "oracle" /\ m.event = "PriceReanchored"}}
  IN [id \in DOMAIN out |->
        IF id \in reanchored /\ out[id].kind = "updated" THEN [out[id] EXCEPT !.reanchored = TRUE]
        ELSE out[id]]

-----------------------------------------------------------------------------
(* Alerts.  `last` is lastAlert, from keys to times, `out` what was logged. *)

\* Feeds the monitor is told of: active, and never written or not for too long.
freshness(feeds, chainNow, alertAfterSecs) ==
  {f \in DOMAIN feeds :
     feeds[f].active /\ (feeds[f].writeTime = 0 \/ chainNow - feeds[f].writeTime > alertAfterSecs)}

\* At most one line per key in alertAfterSecs.
alert(a, key, now, alertAfterSecs) ==
  IF key \in DOMAIN a.last /\ now - a.last[key] < alertAfterSecs THEN a
  ELSE [last |-> (key :> now) @@ a.last, out |-> Append(a.out, [key |-> key, at |-> now])]
=============================================================================
