--------------------------- MODULE MonitorChecks -----------------------------
(***************************************************************************)
(* lib/monitor/checks: what each check reads from the chain, the database  *)
(* and the probes, and what it says of it.  A check is an operator on the  *)
(* readings `w` and the configuration `cfg`; it returns one result per     *)
(* subject.  Ages are read directly (the code subtracts a timestamp from   *)
(* the clock of the same tick); texts and gauge values are left out.       *)
(***************************************************************************)
EXTENDS Integers, Sequences, FiniteSets, FiniteSetsExt, SequencesExt, TLC

CONSTANTS
  NULL,          \* a reading that is absent: no cursor, no price, not configured
  WHOLE          \* the subject of a result about no subject in particular

\* resultsFor(meta): `<check>` or `<check>:<subject>` is the alert's key.
Result(check, subject, status, severity) ==
  [ check    |-> check, subject |-> subject, status |-> status,
    severity |-> IF status = "error" THEN "WARN" ELSE severity ]

Verdict(check, subject, bad, severity) ==
  Result(check, subject, IF bad THEN "fail" ELSE "pass", severity)

\* A check about the whole protocol: one result.
Whole(check, bad, severity) == {Verdict(check, WHOLE, bad, severity)}
Skipped(check, severity) == {Result(check, WHOLE, "skip", severity)}

\* A per-subject check with nothing to report still reports something.
orNothingToCheck(check, results, severity) ==
  IF results = {} THEN {Result(check, WHOLE, "pass", severity)} ELSE results

Larger(a, b) == IF a > b THEN a ELSE b
Smaller(a, b) == IF a < b THEN a ELSE b

-----------------------------------------------------------------------------
(* config.ts: the thresholds, in seconds, basis points and whole USDC.     *)

\* Every threshold has a default; what has none is absent or empty.
DEFAULTS ==
  [ staleBps |-> 5000, divergenceBps |-> 7500, flatlineSecs |-> 3600,
    coverageMinBps |-> 2000, backstopWarn |-> 10000,
    expectedTotalCap |-> NULL, expectedAccountCap |-> NULL, utilizationWarnBps |-> 9000,
    roleBaselineFile |-> NULL, deploymentRecord |-> <<>>,
    lagSecs |-> 60, lagBlocks |-> 120, crossedBookSecs |-> 60, pendingFillSecs |-> 120,
    txJobStuckSecs |-> 300, rejectWindow |-> 900, maxRateBps |-> 2000, minSample |-> 10,
    fundingStaleSecs |-> 3600, gasTargets |-> {}, gasPageBelow |-> 1, funder |-> NULL,
    funderWarnBelow |-> 100, minGas |-> 1, rpcLatencyWarn |-> 2000, dbLatencyWarn |-> 2000,
    replica |-> FALSE, replicaLagSecs |-> 30, api |-> FALSE, ws |-> FALSE ]

\* The gas floor is the one the refill keeper tops up to, unless it is set apart.
REFILL_FLOOR_USDC == 5
loadMonitorConfig(env) == (env @@ DEFAULTS) @@ [gasWarnBelow |-> REFILL_FLOOR_USDC]

\* The configurations the monitor refuses to start with.
validate(cfg) ==
  /\ cfg.staleBps \in 1..10000 /\ cfg.divergenceBps \in 1..10000
  /\ cfg.gasPageBelow < cfg.gasWarnBelow
  /\ cfg.fundingStaleSecs <= 3600

-----------------------------------------------------------------------------
(* store.ts: what the database answers, each query over its tables.        *)

TRADEABLE == {"OPEN", "PARTIALLY_FILLED"}
OPEN_JOB == {"PENDING", "SUBMITTED", "REPLACED"}
INSURANCE == "insurance"

liveOrders(w) ==
  {o \in w.orders : o.status \in TRADEABLE /\ ~o.expired /\ o.filledSize < o.size}

openJobs(w) == {j \in w.txJobs : j.status \in OPEN_JOB}

\* Every trader with a position, but not the insurance backstop.
positionHolders(w) == {p.trader : p \in {q \in w.positions : q.size # 0}} \ {INSURANCE}
positionsOf(w, trader) == {p \in w.positions : p.trader = trader /\ p.size # 0}

\* MAX(blockNumber) over the indexed fills; NULL before the first.
highWater(w) ==
  LET indexed == {f.block : f \in {g \in w.fills : g.block # NULL}}
  IN  IF indexed = {} THEN NULL ELSE Max(indexed)

\* Fills decided in the window, by outcome.
fillOutcomes(w, window) ==
  LET decided == {f \in w.fills : f.status # "PENDING" /\ f.decidedAge <= window}
  IN  [ settled  |-> Cardinality({f \in decided : f.status = "SETTLED"}),
        rejected |-> Cardinality({f \in decided : f.status # "SETTLED"}) ]

feesAndGas(w, day) ==
  [ fees |-> MapThenSumSet(LAMBDA a : a.amount, {a \in w.accruals : a.day = day}),
    gas  |-> MapThenSumSet(LAMBDA g : g.costWei, {g \in w.gasSpend : g.day = day}) ]

\* The dearest of a key's `recent` latest jobs; nothing for a key without one.
nextTxCost(w, key, recent) ==
  LET mine == {j \in w.txJobs : j.from = key}
      last == {j \in mine : Cardinality({k \in mine : k.id > j.id}) < recent}
  IN  IF last = {} THEN 0 ELSE Max({j.gasLimit * j.maxFeePerGas : j \in last})

pendingGovernance(w) == {o.id : o \in {p \in w.operations : p.status = "SCHEDULED"}}

\* The active implementation recorded for each proxy: the newest row.
deploymentArtifacts(w) ==
  LET active == {a \in w.artifacts : a.active}
      newest(p) == CHOOSE a \in active : a.proxy = p /\ \A b \in active : b.proxy = p => b.id <= a.id
  IN  [p \in {a.proxy : a \in active} |->
         [implementation |-> newest(p).implementation, codeHash |-> newest(p).codeHash]]

\* The snapshots of a feed since its price last differed from the latest one.
oracleRuns(w, m) ==
  LET of      == {s \in w.snapshots : s.feed = m}
      latest  == CHOOSE s \in of : \A t \in of : s.age <= t.age
      changed == {s.age : s \in {t \in of : t.price # latest.price}}
      run     == {s \in of : changed = {} \/ s.age < Min(changed)}
  IN  IF of = {} THEN NULL
      ELSE [flatFor |-> Max({s.age : s \in run}), updates |-> Cardinality(run)]

\* NULL when the server is not a replica.
replicaLagSecs(w) == IF w.replica.inRecovery THEN w.replica.lag ELSE NULL

-----------------------------------------------------------------------------
(* chain.ts: what the chain answers.                                       *)

\* The contracts that can be paused; RiskParams and the timelock cannot.
PAUSABLE == {"vault", "engine", "orderGateway", "oracleAdapter", "liquidation", "insurance",
             "feeRouter"}
pausedContracts(w) == PAUSABLE \cap w.paused

head(w) == w.head
solvency(w) == [assets |-> w.assets, liabilities |-> w.liabilities]
depositCaps(w) ==
  [totalCap |-> w.totalCap, perAccountCap |-> w.accountCap, totalDeposited |-> w.totalDeposited]
balanceOf(w, key) == w.balances[key]

\* The nonce of the next transaction the address can mine.
nonceOf(w, key) == w.mined[key]

PROXY_KEYS == PAUSABLE \cup {"riskParams"}
PROXY_ROLES ==
  {"DEFAULT_ADMIN_ROLE", "UPGRADER_ROLE", "RISK_ADMIN_ROLE", "FEE_ADMIN_ROLE", "OPERATOR_ROLE",
   "PUBLISHER_ROLE", "KEEPER_ROLE", "PAUSER_ROLE", "FEE_TIER_ROLE", "BACKSTOP_SIGNER_ROLE",
   "LEDGER_ROLE", "FEE_SOURCE_ROLE"}
TIMELOCK_ROLES == {"DEFAULT_ADMIN_ROLE", "PROPOSER_ROLE", "EXECUTOR_ROLE", "CANCELLER_ROLE"}
rolesFor(contract) == IF contract = "timelock" THEN TIMELOCK_ROLES ELSE PROXY_ROLES

\* Every role of every proxy and of the timelock; one nobody was granted has no members.
roleMembers(w) ==
  [ cr \in UNION {{c} \X rolesFor(c) : c \in PROXY_KEYS \cup {"timelock"}} |->
      IF cr \in DOMAIN w.roles THEN w.roles[cr] ELSE {} ]

\* OracleAdapter._validate's age rule, with the bound the Engine passes.
bound(w, m) ==
  IF w.markets[m].maxOracleAge > 0 THEN w.markets[m].maxOracleAge ELSE w.feeds[m].maxAge

\* feedAge: the older of the two times; NULL before the first write.
feedAge(f) == IF f.publishAge = NULL THEN NULL ELSE Larger(f.publishAge, f.writeAge)

refused(w, m) ==
  IF w.feeds[m] = NULL THEN TRUE
  ELSE feedAge(w.feeds[m]) = NULL \/ feedAge(w.feeds[m]) > bound(w, m)

\* indexPrice: NULL where the call reverts.
indexPrice(w, m) == IF refused(w, m) THEN NULL ELSE w.feeds[m].price

\* readAccountHealth: NULL for an account the Engine cannot value.
accountHealth(w, a) ==
  IF \E p \in positionsOf(w, a) : refused(w, p.market) THEN NULL
  ELSE [liquidatable |-> a \in w.underwater]

\* Insurance.unfundedShortfall: NULL when the backstop cannot be priced.
unfundedShortfall(w) ==
  IF \E p \in positionsOf(w, INSURANCE) : refused(w, p.market) THEN NULL ELSE w.shortfall

\* The code hash of an implementation that has no code is unknown.
implementations(w) ==
  [p \in PROXY_KEYS |->
     [implementation |-> w.slots[p],
      codeHash |-> IF w.slots[p] \in DOMAIN w.code THEN w.code[w.slots[p]] ELSE NULL]]

hasOi(w, m) == w.markets[m].longOi # 0 \/ w.markets[m].shortOi # 0
watched(w) == {m \in DOMAIN w.markets : w.markets[m].listed /\ w.markets[m].active}
feedsOfActiveMarkets(w) == {m \in watched(w) : w.feeds[m] # NULL}

-----------------------------------------------------------------------------
(* checks/protocol.ts.                                                     *)

evaluateSolvency(w) ==
  Whole("vault.solvency", solvency(w).assets < solvency(w).liabilities, "PAGE")

evaluateShortfall(w) ==
  Whole("insurance.shortfall",
        unfundedShortfall(w) = NULL \/ unfundedShortfall(w) > 0, "PAGE")

openInterestNotional(w) ==
  LET priced == {m \in DOMAIN w.markets : hasOi(w, m) /\ indexPrice(w, m) # NULL}
  IN  [ total    |-> MapThenSumSet(LAMBDA m : Larger(w.markets[m].longOi, w.markets[m].shortOi)
                                              * indexPrice(w, m), priced),
        unpriced |-> {m \in DOMAIN w.markets : hasOi(w, m) /\ indexPrice(w, m) = NULL} ]

evaluateCoverage(w, cfg) ==
  LET oi  == openInterestNotional(w)
      bps == IF w.marked <= 0 THEN 0 ELSE (w.marked * 10000) \div oi.total
  IN  IF oi.total = 0
      THEN {Result("insurance.coverage", WHOLE,
                   IF oi.unpriced = {} THEN "skip" ELSE "error", "WARN")}
      ELSE Whole("insurance.coverage", bps < cfg.coverageMinBps, "WARN")

evaluateBackstop(w, cfg) ==
  LET priced == {p \in positionsOf(w, INSURANCE) : indexPrice(w, p.market) # NULL}
      size(p) == IF p.size < 0 THEN -p.size ELSE p.size
  IN  Whole("insurance.backstop",
            MapThenSumSet(LAMBDA p : size(p) * indexPrice(w, p.market), priced)
              > cfg.backstopWarn, "WARN")

evaluateCaps(w, cfg) ==
  IF cfg.expectedTotalCap = NULL /\ cfg.expectedAccountCap = NULL
  THEN Whole("vault.deposit-caps", TRUE, "WARN")
  ELSE Whole("vault.deposit-caps",
             \/ /\ cfg.expectedTotalCap # NULL
                /\ depositCaps(w).totalCap # cfg.expectedTotalCap
             \/ /\ cfg.expectedAccountCap # NULL
                /\ depositCaps(w).perAccountCap # cfg.expectedAccountCap, "PAGE")

evaluateUtilization(w, cfg) ==
  LET caps == depositCaps(w)
  IN  IF caps.totalCap \in {0, cfg.uncapped} THEN Skipped("vault.deposit-utilization", "WARN")
      ELSE Whole("vault.deposit-utilization",
                 (caps.totalDeposited * 10000) \div caps.totalCap >= cfg.utilizationWarnBps,
                 "WARN")

evaluatePaused(w) == Whole("protocol.paused", pausedContracts(w) # {}, "WARN")

ADMIN_ROLES == {"DEFAULT_ADMIN_ROLE", "UPGRADER_ROLE", "RISK_ADMIN_ROLE", "FEE_ADMIN_ROLE"}

\* invariantRoles: the timelock holds every admin role alone; the ledger and fee
\* sources are exactly the contracts wired to them.
invariantRoles ==
  [ cr \in (PROXY_KEYS \X ADMIN_ROLES)
             \cup { <<"vault", "LEDGER_ROLE">>, <<"feeRouter", "FEE_SOURCE_ROLE">> } |->
      CASE cr[2] \in ADMIN_ROLES      -> {"timelock"}
        [] cr[2] = "LEDGER_ROLE"      -> {"engine", "feeRouter", "liquidation", "insurance"}
        [] cr[2] = "FEE_SOURCE_ROLE"  -> {"orderGateway", "liquidation"} ]

\* evaluateRoles: the invariants first, then the baseline file; with a baseline a
\* role it does not mention is expected empty, without one it is unverified.
evaluateRoles(members, baseline) ==
  LET expected(cr) == IF cr \in DOMAIN invariantRoles THEN invariantRoles[cr]
                      ELSE IF cr \in DOMAIN baseline THEN baseline[cr] ELSE {}
      covered(cr) == cr \in DOMAIN invariantRoles \/ baseline # NULL
  IN  [ drift      |-> {cr \in DOMAIN members : covered(cr) /\ members[cr] # expected(cr)},
        unverified |-> {cr \in DOMAIN members : ~covered(cr) /\ members[cr] # {}} ]

\* --print-role-baseline: the members on chain, under a heading of metadata.
METADATA == "_network"
printRoleBaseline(w) ==
  {[contract |-> METADATA, role |-> METADATA, members |-> {}]}
    \cup {[contract |-> cr[1], role |-> cr[2], members |-> roleMembers(w)[cr]] :
             cr \in DOMAIN roleMembers(w)}

parseRoleBaseline(file) ==
  LET entries == {e \in file : e.contract # METADATA}
  IN  [cr \in {<<e.contract, e.role>> : e \in entries} |->
         (CHOOSE e \in entries : <<e.contract, e.role>> = cr).members]

loadRoleBaseline(file) == IF file = NULL THEN NULL ELSE parseRoleBaseline(file)

evaluateRoleCheck(w, cfg) ==
  LET v == evaluateRoles(roleMembers(w), loadRoleBaseline(cfg.roleBaselineFile))
  IN  IF v.drift # {} THEN Whole("governance.roles", TRUE, "PAGE")
      ELSE IF v.unverified # {} THEN Whole("governance.roles", TRUE, "WARN")
      ELSE Whole("governance.roles", FALSE, "PAGE")

\* evaluateImplementations: a proxy without a record, a different implementation, or
\* the same address with different code where the record has a hash.
evaluateImplementations(actual, expected) ==
  LET drifted(p) ==
        \/ p \notin DOMAIN expected
        \/ expected[p].implementation # actual[p].implementation
        \/ /\ NULL \notin {expected[p].codeHash, actual[p].codeHash}
           /\ expected[p].codeHash # actual[p].codeHash
  IN  { [ contract |-> p, reason |-> IF p \notin DOMAIN expected THEN "no-record" ELSE "differs" ] :
          p \in {q \in DOMAIN actual : drifted(q)} }

\* implementationsFromRecord: the record file names no code hash.
implementationsFromRecord(record) ==
  [p \in DOMAIN record |-> [implementation |-> record[p], codeHash |-> NULL]]

evaluateImplCheck(w, cfg) ==
  LET artifacts == deploymentArtifacts(w)
      expected  == IF DOMAIN artifacts # {} THEN artifacts
                   ELSE implementationsFromRecord(cfg.deploymentRecord)
      drift    == evaluateImplementations(implementations(w), expected)
      real     == {d \in drift : d.reason # "no-record"}
  IN  IF DOMAIN expected = {} THEN Whole("governance.implementations", TRUE, "WARN")
      ELSE IF real # {} THEN Whole("governance.implementations", TRUE, "PAGE")
      ELSE Whole("governance.implementations", drift # {}, "WARN")

\* One result per queued operation, so each new one notifies on its own.
evaluateTimelock(w) ==
  orNothingToCheck("governance.timelock",
    {Verdict("governance.timelock", op, TRUE, "WARN") : op \in pendingGovernance(w)}, "WARN")

-----------------------------------------------------------------------------
(* checks/oracle.ts: one result per market or feed, by name.               *)

evaluateFreshness(w, cfg) ==
  LET alertAt(m) == Larger(1, (bound(w, m) * cfg.staleBps) \div 10000)
      of(m) == IF ~hasOi(w, m) THEN Result("oracle.freshness", m, "skip", "PAGE")
               ELSE IF w.feeds[m] = NULL THEN Verdict("oracle.freshness", m, TRUE, "PAGE")
               ELSE Verdict("oracle.freshness", m,
                            \/ feedAge(w.feeds[m]) = NULL
                            \/ feedAge(w.feeds[m]) > alertAt(m), "PAGE")
      adapter == {Verdict("oracle.freshness", "adapter", TRUE, "PAGE") :
                    c \in pausedContracts(w) \cap {"oracleAdapter"}}
  IN  orNothingToCheck("oracle.freshness", {of(m) : m \in watched(w)} \cup adapter, "PAGE")

\* Publishers whose observation is inside the feed's own maxAge.
freshPublishers(w, m) ==
  Cardinality({p \in w.publishers : /\ w.feeds[m].observed[p] # NULL
                                    /\ w.feeds[m].observed[p] <= w.feeds[m].maxAge})

evaluateQuorum(w) ==
  orNothingToCheck("oracle.quorum",
    {Verdict("oracle.quorum", m,
             \/ Cardinality(w.publishers) < w.feeds[m].minPublishers
             \/ freshPublishers(w, m) < w.feeds[m].minPublishers, "WARN") :
       m \in feedsOfActiveMarkets(w)}, "WARN")

evaluateDivergence(w, cfg) ==
  LET of(m) ==
        LET ref == w.feeds[m].reference
        IN  IF ~ref.enabled THEN Result("oracle.divergence", m, "skip", "WARN")
            ELSE IF ~ref.ok THEN Verdict("oracle.divergence", m, ref.required, "WARN")
            ELSE IF w.feeds[m].price <= 0 THEN Result("oracle.divergence", m, "skip", "WARN")
            ELSE Verdict("oracle.divergence", m,
                         ref.divergenceBps >= (ref.maxDivergenceBps * cfg.divergenceBps) \div 10000,
                         "WARN")
  IN  orNothingToCheck("oracle.divergence", {of(m) : m \in feedsOfActiveMarkets(w)}, "WARN")

evaluateFlatline(w, cfg) ==
  LET of(m) == IF ~hasOi(w, m) THEN Result("oracle.flatline", m, "skip", "WARN")
               ELSE Verdict("oracle.flatline", m,
                            IF oracleRuns(w, m) = NULL THEN FALSE
                            ELSE /\ oracleRuns(w, m).updates >= 2
                                 /\ oracleRuns(w, m).flatFor > cfg.flatlineSecs, "WARN")
  IN  orNothingToCheck("oracle.flatline", {of(m) : m \in feedsOfActiveMarkets(w)}, "WARN")

-----------------------------------------------------------------------------
(* checks/keepers.ts.                                                      *)

evaluateIndexer(w, cfg) ==
  Whole("indexer.lag",
        IF w.cursor = NULL THEN TRUE
        ELSE LET lagBlocks == Larger(head(w) - w.cursor, 0)
             IN  lagBlocks > cfg.lagBlocks \/ (lagBlocks > 0 /\ w.cursorAge > cfg.lagSecs),
        "PAGE")

\* crossedBooks: the best bid at or above the best ask among live orders.  The cross
\* began when the later of the earliest order on either crossing side arrived.
crossedBooks(w) ==
  LET bids(m) == {o \in liveOrders(w) : o.market = m /\ o.isLong}
      asks(m) == {o \in liveOrders(w) : o.market = m /\ ~o.isLong}
      bid(m)  == Max({o.price : o \in bids(m)})
      ask(m)  == Min({o.price : o \in asks(m)})
      crossed == {m \in DOMAIN w.markets : bids(m) # {} /\ asks(m) # {} /\ bid(m) >= ask(m)}
      oldest(os) == Max({o.age : o \in os})
  IN  { [ market |-> m,
          age    |-> Smaller(oldest({o \in bids(m) : o.price >= ask(m)}),
                             oldest({o \in asks(m) : o.price <= bid(m)})) ] : m \in crossed }

evaluateCrossed(w, cfg) ==
  orNothingToCheck("matcher.crossed-book",
    {Verdict("matcher.crossed-book", b.market, b.age > cfg.crossedBookSecs, "WARN") :
       b \in crossedBooks(w)}, "WARN")

evaluateRejections(w, cfg) ==
  LET out   == fillOutcomes(w, cfg.rejectWindow)
      total == out.settled + out.rejected
  IN  Whole("matcher.rejections",
            /\ total >= cfg.minSample /\ total > 0
            /\ (2 * out.rejected * 10000 + total) \div (2 * total) > cfg.maxRateBps, "WARN")

\* pendingFills: classified the way the reconciler does, plus in-flight.
pendingFillKind(w, f) ==
  LET jobs == {j \in w.txJobs : j.id = f.txJobId}
      job  == CHOOSE j \in jobs : TRUE
  IN  IF jobs = {} THEN "never-submitted"
      ELSE IF job.status \in OPEN_JOB THEN "in-flight"
      ELSE IF job.status # "CONFIRMED" THEN "batch-failed"
      ELSE IF job.block # NULL /\ highWater(w) # NULL /\ highWater(w) >= job.block
           THEN "not-in-receipt"
      ELSE "indexer-lag"

SELF_HEALING == {"in-flight", "indexer-lag"}

evaluateFills(w, cfg) ==
  LET old   == {f \in w.fills : f.status = "PENDING" /\ f.age > cfg.pendingFillSecs}
      kinds == {pendingFillKind(w, f) : f \in old}
  IN  orNothingToCheck("settlement.fills",
        {Verdict("settlement.fills", k, TRUE, IF k \in SELF_HEALING THEN "WARN" ELSE "PAGE") :
           k \in kinds}, "PAGE")

evaluateTxJobs(w, cfg) ==
  orNothingToCheck("settlement.txjobs",
    {Verdict("settlement.txjobs", j.from, TRUE, "PAGE") :
       j \in {k \in openJobs(w) : k.age > cfg.txJobStuckSecs}}, "PAGE")

\* detectNonceGaps: nonces from the next one to be mined up to the highest open job
\* that no open job holds.  Asked only about keys with an open job.
detectNonceGaps(w, key) ==
  LET open == {j.nonce : j \in {k \in openJobs(w) : k.from = key}}
  IN  {n \in nonceOf(w, key)..(Max(open) - 1) : n \notin open}

evaluateNonceGaps(w) ==
  orNothingToCheck("settlement.nonce-gap",
    {Verdict("settlement.nonce-gap", j.from, TRUE, "PAGE") :
       j \in {k \in openJobs(w) : detectNonceGaps(w, k.from) # {}}}, "PAGE")

evaluateFunding(w, cfg) ==
  LET of(m) == IF w.markets[m].fundingAge = NULL
               THEN IF hasOi(w, m) THEN Verdict("funding.freshness", m, TRUE, "PAGE")
                    ELSE Result("funding.freshness", m, "skip", "PAGE")
               ELSE Verdict("funding.freshness", m,
                            w.markets[m].fundingAge > cfg.fundingStaleSecs, "PAGE")
  IN  orNothingToCheck("funding.freshness", {of(m) : m \in watched(w)}, "PAGE")

\* Mutant: an account that cannot be valued is passed over.
evaluateLiquidationPriced(w) ==
  Whole("liquidation.backlog",
        \E a \in positionHolders(w) : /\ accountHealth(w, a) # NULL
                                       /\ accountHealth(w, a).liquidatable, "PAGE")

\* Below maintenance, or blocked on a price the oracle refuses.
evaluateLiquidation(w) ==
  Whole("liquidation.backlog",
        \E a \in positionHolders(w) :
          accountHealth(w, a) = NULL \/ accountHealth(w, a).liquidatable, "PAGE")

evaluateGas(w, cfg) ==
  LET pageAt(t) == Larger(nextTxCost(w, t, cfg.recentJobs), cfg.gasPageBelow)
  IN  IF cfg.gasTargets = {} THEN Whole("gas.balance", TRUE, "WARN")
      ELSE {Verdict("gas.balance", t, balanceOf(w, t) < Larger(pageAt(t), cfg.gasWarnBelow),
                    IF balanceOf(w, t) >= pageAt(t) /\ balanceOf(w, t) < cfg.gasWarnBelow
                    THEN "WARN" ELSE "PAGE") : t \in cfg.gasTargets}

evaluateFunder(w, cfg) ==
  IF cfg.funder = NULL THEN Skipped("gas.funder", "WARN")
  ELSE Whole("gas.funder", balanceOf(w, cfg.funder) < cfg.funderWarnBelow, "WARN")

-----------------------------------------------------------------------------
(* checks/infra.ts.                                                        *)

evaluateFeesVsGas(w, cfg) ==
  Whole("economics.fees-vs-gas",
        \E d \in cfg.days : LET day == feesAndGas(w, d)
                           IN  day.gas > day.fees /\ day.gas >= cfg.minGas,
        "WARN")

\* probes.ts, each bypassing the fallback transport.  An endpoint that answers late, with
\* an error status or without a result is down.
PROBE_TIMEOUT == 5000
rpcProbe(e) == [ok |-> e.result /\ e.status = 200 /\ e.latency <= PROBE_TIMEOUT, latencyMs |-> e.latency]
httpProbe(w) == w.apiStatus

\* The socket must answer the ping; frames of other types are passed over.
wsProbe(w) == \E i \in DOMAIN w.wsFrames : /\ w.wsFrames[i].type = "pong"
                                           /\ w.wsFrames[i].after <= PROBE_TIMEOUT
replicaProbe(w, cfg) == IF cfg.replica THEN replicaLagSecs(w) ELSE NULL

\* The transport tries the configured order: the first healthy endpoint serves.
evaluateRpc(w, cfg) ==
  LET probes == [i \in DOMAIN w.endpoints |-> rpcProbe(w.endpoints[i])]
      up     == {i \in DOMAIN probes : probes[i].ok}
  IN  Whole("infra.rpc",
            IF up = {} THEN TRUE
            ELSE Min(up) > 1 \/ probes[Min(up)].latencyMs > cfg.rpcLatencyWarn, "WARN")

evaluateDb(w, cfg) == Whole("infra.db", w.dbLatency > cfg.dbLatencyWarn, "WARN")

evaluateReplica(w, cfg) ==
  IF ~cfg.replica THEN Skipped("infra.db-replica", "WARN")
  ELSE Whole("infra.db-replica",
             IF replicaProbe(w, cfg) = NULL THEN TRUE
             ELSE replicaProbe(w, cfg) > cfg.replicaLagSecs, "WARN")

evaluateApi(w, cfg) ==
  IF ~cfg.api THEN Skipped("infra.api", "PAGE")
  ELSE Whole("infra.api", IF httpProbe(w) = NULL THEN TRUE ELSE httpProbe(w) \notin 200..299,
             "PAGE")

evaluateWs(w, cfg) ==
  IF ~cfg.ws THEN Skipped("infra.ws", "WARN") ELSE Whole("infra.ws", ~wsProbe(w), "WARN")

-----------------------------------------------------------------------------
(* registry.ts: every check, with the reads it awaits.                     *)

protocolChecks ==
  { [id |-> "vault.solvency", reads |-> {"rpc"}],
    [id |-> "insurance.shortfall", reads |-> {"rpc"}],
    [id |-> "insurance.coverage", reads |-> {"rpc", "markets"}],
    [id |-> "insurance.backstop", reads |-> {"db", "rpc", "markets"}],
    [id |-> "vault.deposit-caps", reads |-> {"rpc"}],
    [id |-> "vault.deposit-utilization", reads |-> {"rpc"}],
    [id |-> "protocol.paused", reads |-> {"rpc"}],
    [id |-> "governance.roles", reads |-> {"rpc"}],
    [id |-> "governance.implementations", reads |-> {"rpc", "db"}],
    [id |-> "governance.timelock", reads |-> {"db"}] }

oracleChecks ==
  { [id |-> "oracle.freshness", reads |-> {"rpc", "markets"}],
    [id |-> "oracle.quorum", reads |-> {"rpc", "markets"}],
    [id |-> "oracle.divergence", reads |-> {"rpc", "markets"}],
    [id |-> "oracle.flatline", reads |-> {"rpc", "markets", "db"}] }

keeperChecks ==
  { [id |-> "indexer.lag", reads |-> {"db", "rpc"}],
    [id |-> "matcher.crossed-book", reads |-> {"db"}],
    [id |-> "matcher.rejections", reads |-> {"db"}],
    [id |-> "settlement.fills", reads |-> {"db"}],
    [id |-> "settlement.txjobs", reads |-> {"db"}],
    [id |-> "settlement.nonce-gap", reads |-> {"db", "rpc"}],
    [id |-> "funding.freshness", reads |-> {"rpc", "markets", "db"}],
    [id |-> "liquidation.backlog", reads |-> {"db", "rpc"}],
    [id |-> "gas.balance", reads |-> {"rpc", "db"}],
    [id |-> "gas.funder", reads |-> {"rpc"}] }

infraChecks ==
  { [id |-> "economics.fees-vs-gas", reads |-> {"db"}],
    [id |-> "infra.rpc", reads |-> {}],
    [id |-> "infra.db", reads |-> {"db"}],
    [id |-> "infra.db-replica", reads |-> {}],
    [id |-> "infra.api", reads |-> {}],
    [id |-> "infra.ws", reads |-> {}] }

CHECKS == protocolChecks \cup oracleChecks \cup keeperChecks \cup infraChecks

evaluate(id, w, cfg) ==
  CASE id = "vault.solvency"            -> evaluateSolvency(w)
    [] id = "insurance.shortfall"       -> evaluateShortfall(w)
    [] id = "insurance.coverage"        -> evaluateCoverage(w, cfg)
    [] id = "insurance.backstop"        -> evaluateBackstop(w, cfg)
    [] id = "vault.deposit-caps"        -> evaluateCaps(w, cfg)
    [] id = "vault.deposit-utilization" -> evaluateUtilization(w, cfg)
    [] id = "protocol.paused"           -> evaluatePaused(w)
    [] id = "governance.roles"          -> evaluateRoleCheck(w, cfg)
    [] id = "governance.implementations" -> evaluateImplCheck(w, cfg)
    [] id = "governance.timelock"       -> evaluateTimelock(w)
    [] id = "oracle.freshness"          -> evaluateFreshness(w, cfg)
    [] id = "oracle.quorum"             -> evaluateQuorum(w)
    [] id = "oracle.divergence"         -> evaluateDivergence(w, cfg)
    [] id = "oracle.flatline"           -> evaluateFlatline(w, cfg)
    [] id = "indexer.lag"               -> evaluateIndexer(w, cfg)
    [] id = "matcher.crossed-book"      -> evaluateCrossed(w, cfg)
    [] id = "matcher.rejections"        -> evaluateRejections(w, cfg)
    [] id = "settlement.fills"          -> evaluateFills(w, cfg)
    [] id = "settlement.txjobs"         -> evaluateTxJobs(w, cfg)
    [] id = "settlement.nonce-gap"      -> evaluateNonceGaps(w)
    [] id = "funding.freshness"         -> evaluateFunding(w, cfg)
    [] id = "liquidation.backlog"       -> evaluateLiquidation(w)
    [] id = "gas.balance"               -> evaluateGas(w, cfg)
    [] id = "gas.funder"                -> evaluateFunder(w, cfg)
    [] id = "economics.fees-vs-gas"     -> evaluateFeesVsGas(w, cfg)
    [] id = "infra.rpc"                 -> evaluateRpc(w, cfg)
    [] id = "infra.db"                  -> evaluateDb(w, cfg)
    [] id = "infra.db-replica"          -> evaluateReplica(w, cfg)
    [] id = "infra.api"                 -> evaluateApi(w, cfg)
    [] id = "infra.ws"                  -> evaluateWs(w, cfg)

\* runChecks: each check on its own; one whose read failed or timed out reports
\* `error` for itself, whatever subjects it would have had.
runChecks(w, cfg, blind) ==
  UNION { IF c.reads \cap blind = {} THEN evaluate(c.id, w, cfg)
          ELSE {Result(c.id, WHOLE, "error", "WARN")} : c \in CHECKS }

-----------------------------------------------------------------------------
(***************************************************************************)
(* Two readers of the same tables and the same chain as the monitor:       *)
(*                                                                         *)
(*  - the go-live gate (lib/ops/venue-gate, scripts/venue-gate): do the    *)
(*    deployment record, the chain, the app and the indexed database       *)
(*    describe the same venue, and does every check of one monitor tick    *)
(*    pass?                                                                *)
(*  - the settlement reconciler's scan for unaccounted fills               *)
(*    (lib/reconciler/fills).                                              *)
(***************************************************************************)

Gate(id, ok) == [id |-> <<"gate", id>>, status |-> IF ok THEN "ok" ELSE "fail"]

CONTRACT_KEYS == PROXY_KEYS \cup {"timelock"}

checkDeploymentCode(w, cfg) ==
  Gate("deployment.code", \A k \in CONTRACT_KEYS : cfg.contracts[k] \in w.withCode)

\* The app serves the addresses, the chain and the network the services use.
checkApiConfig(api, cfg) ==
  Gate("api.config",
       /\ api.chainId = cfg.chainId /\ api.network = cfg.network
       /\ \A k \in CONTRACT_KEYS : k \in DOMAIN api.contracts /\ api.contracts[k] = cfg.contracts[k])

onChain(w) == {[id |-> m, active |-> w.markets[m].active] : m \in DOMAIN w.markets}

\* The rows match the listings, ids and active flags alike.
parity(rows, listed) ==
  /\ \A c \in listed : \E r \in rows : r.id = c.id /\ r.active = c.active
  /\ \A r \in rows : \E c \in listed : c.id = r.id

checkMarketParity(w) == Gate("markets.parity", parity(w.marketRows, onChain(w)))
checkApiMarkets(served, w) == Gate("api.markets", parity(served, onChain(w)))
checkReady(status, ok) == Gate("api.ready", status = 200 /\ ok)

\* A closed venue is reported, never failed.
describeCaps == Gate("vault.caps", TRUE)

\* The app's three answers, in order: the first request that is refused ends them.
appChecks(w, cfg) ==
  IF ~w.app.reachable THEN {Gate("api.reachable", FALSE)}
  ELSE { IF w.app.config.status = 200 THEN checkApiConfig(w.app.config, cfg)
         ELSE Gate("api.config", FALSE),
         checkReady(w.app.ready.status, w.app.ready.ok),
         IF w.app.markets.status = 200 THEN checkApiMarkets(w.app.markets.rows, w)
         ELSE Gate("api.markets", FALSE) }

\* One tick's results: a check that could not run because nothing is configured or
\* there is nothing to measure is a warning, one that erred is a failure.
gateOf(r) ==
  [ id |-> <<r.check, r.subject>>,
    status |-> CASE r.status = "pass" -> "ok" [] r.status = "skip" -> "warn" [] OTHER -> "fail" ]

summarise(checks, strict) ==
  LET of(s) == {c \in checks : c.status = s}
  IN  of("fail") = {} /\ (strict => of("warn") = {})

venueGate(w, cfg, strict, blind) ==
  summarise({checkDeploymentCode(w, cfg), checkMarketParity(w), describeCaps}
              \cup appChecks(w, cfg)
              \cup {gateOf(r) : r \in runChecks(w, cfg, blind)}, strict)

-----------------------------------------------------------------------------
(* scanUnaccountedFills: reported, never settled again.                    *)

indexerHighWater(w) ==
  LET blocks == {f.block : f \in w.fills} \ {NULL}
  IN  IF blocks = {} THEN NULL ELSE Max(blocks)

mismatchKind(w, job) ==
  IF job = NULL THEN "never-submitted"
  ELSE IF job.status # "CONFIRMED" THEN "batch-failed"
  ELSE IF NULL \notin {job.block, indexerHighWater(w)}
       THEN IF indexerHighWater(w) >= job.block THEN "not-in-receipt" ELSE "indexer-lag"
  ELSE "indexer-lag"

\* PENDING rows past the age whose batch, if any, has ended; the kinds that do not
\* heal by themselves are also recorded as an action the keeper did not take.
scanUnaccountedFills(w, minAge) ==
  LET jobOf(f) == IF \E j \in w.txJobs : j.id = f.txJobId
                  THEN CHOOSE j \in w.txJobs : j.id = f.txJobId ELSE NULL
      ended(f) == jobOf(f) = NULL \/ jobOf(f).status \notin OPEN_JOB
      kindOf(f) == mismatchKind(w, jobOf(f))
  IN  { [fillId |-> f.id, kind |-> kindOf(f), recorded |-> kindOf(f) # "indexer-lag"] :
          f \in {g \in w.fills : g.status = "PENDING" /\ g.age > minAge /\ ended(g)} }
=============================================================================
