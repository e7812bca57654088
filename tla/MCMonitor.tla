------------------------------ MODULE MCMonitor ------------------------------
(***************************************************************************)
(* The readings the monitor is checked on: a healthy venue with a traded   *)
(* market A and a delisted market D in which one trader still has a        *)
(* position, and the ways in which it can be unwell.  A condition is a     *)
(* scenario and what ails the venue in it; the venue moves between the     *)
(* conditions of its scenario, in any order and as often as it likes.      *)
(***************************************************************************)
EXTENDS Monitor, TLC

Market(active, oi) ==
  [ maxOracleAge |-> 0, longOi |-> oi, shortOi |-> oi, listed |-> TRUE,
    active |-> active, fundingAge |-> 10 ]

Feed(age) ==
  [ publishAge |-> age, writeAge |-> age, maxAge |-> 20, price |-> 100,
    observed |-> ("p1" :> age @@ "p2" :> age), minPublishers |-> 2,
    reference |-> [enabled |-> TRUE, ok |-> TRUE, required |-> TRUE,
                   divergenceBps |-> 10, maxDivergenceBps |-> 200] ]

Order(isLong, price, age) ==
  [ market |-> "A", isLong |-> isLong, price |-> price, age |-> age, status |-> "OPEN",
    expired |-> FALSE, size |-> 4, filledSize |-> 0 ]

Job(id, nonce, status, age, block) ==
  [ id |-> id, from |-> "matcher", nonce |-> nonce, status |-> status, age |-> age,
    block |-> block, gasLimit |-> 1, maxFeePerGas |-> id ]

Fill(id, status, age, job, block) ==
  [ id |-> id, status |-> status, age |-> age, decidedAge |-> age, txJobId |-> job, block |-> block ]

Rows(ids, row(_)) == {row(i) : i \in ids}
Settled(ids) == Rows(ids, LAMBDA i : Fill(i, "SETTLED", 9, 1, 90))
Rejected(ids) == Rows(ids, LAMBDA i : Fill(i, "REJECTED", 9, 1, NULL))
Snapshots(m, prices) ==
  Rows(DOMAIN prices, LAMBDA i : [feed |-> m, price |-> prices[i], age |-> 1900 * i - 1890])

Endpoint(up) == [status |-> IF up THEN 200 ELSE 503, result |-> up, latency |-> 1]
Balances(matcher, funder) == "matcher" :> matcher @@ "funder" :> funder
MarketRows == {[id |-> "A", active |-> TRUE], [id |-> "D", active |-> FALSE]}

Healthy ==
  [ markets |-> ("A" :> Market(TRUE, 5) @@ "D" :> Market(FALSE, 1)),
    feeds |-> ("A" :> Feed(2) @@ "D" :> Feed(2)),
    positions |-> { [trader |-> "t1", market |-> "A", size |-> 4],
                    [trader |-> "t2", market |-> "D", size |-> 1],
                    [trader |-> "t3", market |-> "A", size |-> 0],
                    [trader |-> "insurance", market |-> "A", size |-> -1] }, underwater |-> {},
    shortfall |-> 0, marked |-> 500,
    assets |-> 1000, liabilities |-> 900,
    totalCap |-> 1000, accountCap |-> 100, totalDeposited |-> 500, paused |-> {},
    roles |-> invariantRoles @@ ( <<"vault", "PAUSER_ROLE">> :> {} ),
    slots |-> [p \in PROXY_KEYS |-> "v1"], code |-> ("v1" :> "h1" @@ "v2" :> "h2"),
    artifacts |-> { [id |-> i, proxy |-> p, active |-> TRUE,
                     implementation |-> IF i = 1 THEN "v0" ELSE "v1",
                     codeHash |-> IF i = 1 THEN "h0" ELSE "h1"] : i \in 1..2, p \in PROXY_KEYS },
    operations |-> {[id |-> "op0", status |-> "EXECUTED"]}, publishers |-> {"p1", "p2"},
    snapshots |-> Snapshots("A", <<100, 99, 100>>) \cup Snapshots("D", <<100>>),
    cursor |-> 100, head |-> 101, cursorAge |-> 1,
    orders |-> {Order(TRUE, 99, 5), Order(FALSE, 101, 90),
                [Order(TRUE, 105, 90) EXCEPT !.expired = TRUE],
                [Order(TRUE, 104, 90) EXCEPT !.filledSize = 4],
                [Order(TRUE, 103, 90) EXCEPT !.status = "CANCELLED"]},
    fills |-> Settled(1..5) \cup Rejected({6}),
    txJobs |-> {Job(1, 6, "CONFIRMED", 500, 80), Job(2, 7, "SUBMITTED", 5, NULL)},
    mined |-> ("matcher" :> 7), balances |-> Balances(50, 500),
    accruals |-> {[day |-> 1, amount |-> 10], [day |-> 2, amount |-> 9]},
    gasSpend |-> {[day |-> 1, costWei |-> 2], [day |-> 2, costWei |-> 3]},
    endpoints |-> <<Endpoint(TRUE), Endpoint(TRUE)>>, dbLatency |-> 1,
    replica |-> [inRecovery |-> TRUE, lag |-> 1], apiStatus |-> 200,
    wsFrames |-> << [type |-> "trade", after |-> 1], [type |-> "pong", after |-> 2] >>,
    withCode |-> CONTRACT_KEYS, marketRows |-> MarketRows,
    app |-> [ reachable |-> TRUE, ready |-> [status |-> 200, ok |-> TRUE],
              config |-> [status |-> 200, chainId |-> 1, network |-> "arc",
                          contracts |-> [k \in CONTRACT_KEYS |-> k]],
              markets |-> [status |-> 200, rows |-> MarketRows] ] ]

\* What the environment sets; the rest are the defaults.
Environment ==
  [ backstopWarn |-> 1000, expectedTotalCap |-> 1000, expectedAccountCap |-> 100,
    minSample |-> 5, rejectWindow |-> 60, gasTargets |-> {"matcher"}, funder |-> "funder",
    replica |-> TRUE, api |-> TRUE, ws |-> TRUE,
    uncapped |-> 1000000, recentJobs |-> 20, days |-> {1, 2},
    contracts |-> [k \in CONTRACT_KEYS |-> k], chainId |-> 1, network |-> "arc" ]

\* One ailment each; the readings of a condition suffer all of its ailments.
Suffer(w, ail) ==
  CASE ail = "gas low"      -> [w EXCEPT !.balances = Balances(3, 500)]
    [] ail = "gas out"      -> [w EXCEPT !.balances = Balances(0, 500)]
    [] ail = "unverified"   -> [w EXCEPT !.roles[<<"vault", "PAUSER_ROLE">>] = {"stranger"}]
    [] ail = "drift"        -> [w EXCEPT !.roles[<<"vault", "LEDGER_ROLE">>] = {"stranger"}]
    [] ail = "D stale"      -> [w EXCEPT !.feeds["D"] = Feed(30)]
    [] ail = "A stale"      -> [w EXCEPT !.feeds["A"] = Feed(30), !.markets["A"].fundingAge = 4000]
    [] ail = "A ageing"     -> [w EXCEPT !.feeds["A"] = Feed(15)]
    [] ail = "A unfed"      -> [w EXCEPT !.feeds["A"] = NULL, !.markets["A"].fundingAge = NULL]
    [] ail = "insolvent"    -> [w EXCEPT !.assets = 800, !.shortfall = 5, !.marked = 0,
                                         !.underwater = {"t1"}]
    [] ail = "upgraded"     -> [w EXCEPT !.slots["vault"] = "v2",
                                         !.totalCap = 500, !.totalDeposited = 480,
                                         !.paused = {"oracleAdapter"}, !.operations = {[id |-> "op", status |-> "SCHEDULED"]}]
    [] ail = "diverging"    -> [w EXCEPT !.feeds["A"].reference.divergenceBps = 180,
                                         !.feeds["A"].observed = "p1" :> 2 @@ "p2" :> NULL,
                                         !.snapshots = Snapshots("A", <<100, 100, 100, 99>>)]
    [] ail = "stuck"        -> [w EXCEPT !.cursor = NULL, !.mined = "matcher" :> 5,
                                         !.orders = {Order(TRUE, 102, 90), Order(FALSE, 101, 70)},
                                         !.fills = Settled(1..2) \cup Rejected(3..6)
                                           \cup {Fill(7, "PENDING", 200, 1, NULL),
                                                 Fill(8, "PENDING", 200, 2, NULL),
                                                 Fill(9, "PENDING", 200, NULL, NULL),
                                                 Fill(10, "PENDING", 200, 3, NULL)},
                                         !.txJobs = {Job(1, 6, "CONFIRMED", 500, 80),
                                                     Job(2, 7, "SUBMITTED", 400, NULL),
                                                     Job(3, 5, "FAILED", 600, NULL)}]
    [] ail = "unreachable"  -> [w EXCEPT !.endpoints = <<Endpoint(FALSE), Endpoint(TRUE)>>,
                                         !.dbLatency = 3000, !.replica.lag = 60, !.apiStatus = 503,
                                         !.wsFrames = <<[type |-> "trade", after |-> 1]>>,
                                         !.balances = Balances(50, 1),
                                         !.gasSpend = {[day |-> 1, costWei |-> 40]}]

Scenarios ==
  [ gas       |-> {{}, {"gas low"}, {"gas out"}},
    roles     |-> {{}, {"unverified"}, {"drift"}},
    delisted  |-> {{}, {"D stale"}},
    stale     |-> {{}, {"A ageing"}, {"A stale", "D stale"}, {"A unfed"}},
    insolvent |-> {{}, {"insolvent"}},
    upgraded  |-> {{}, {"upgraded"}},
    diverging |-> {{}, {"diverging"}},
    stuck     |-> {{}, {"stuck"}},
    infra     |-> {{}, {"unreachable"}} ]

MCConditions == UNION {{<<s, ills>> : ills \in Scenarios[s]} : s \in DOMAIN Scenarios}
MCReadings == [c \in MCConditions |-> FoldSet(LAMBDA ail, w : Suffer(w, ail), Healthy, c[2])]
MCLeads == [c \in MCConditions |-> {d \in MCConditions : d[1] = c[1] /\ d # c}]
MCFaults ==
  [c \in MCConditions |->
     {{}, IF c[1] \in {"gas", "roles", "stale", "insolvent"} THEN {"rpc"} ELSE {"db"}}]
MCConfig == loadMonitorConfig(Environment)

\* The gate opens for the healthy venue; an app that serves another
\* deployment's gateway, or a market the index calls inactive, keeps it shut.
ASSUME GateAssumption ==
  LET gate(w) == venueGate(w, MCConfig, FALSE, {})
  IN  /\ \A c \in MCConditions : c[2] = {} => gate(MCReadings[c])
      /\ ~venueGate(Healthy, MCConfig, FALSE, {"rpc"})
      /\ ~gate([Healthy EXCEPT !.app.config.contracts["orderGateway"] = "other"])
      /\ ~gate([Healthy EXCEPT !.marketRows = {[r EXCEPT !.active = FALSE] : r \in @}])
      /\ ~gate([Healthy EXCEPT !.app.reachable = FALSE])
      /\ ~gate([Healthy EXCEPT !.withCode = @ \ {"timelock"}])

\* A baseline printed from the chain and loaded again verifies every role it was printed
\* from, and a member added to any role afterwards is drift.
ASSUME BaselineAssumption ==
  LET baseline == loadRoleBaseline(printRoleBaseline(Healthy))
      members  == roleMembers(Healthy)
      verdict(ms) == evaluateRoles(ms, baseline)
  IN  /\ verdict(members) = [drift |-> {}, unverified |-> {}]
      /\ \A cr \in DOMAIN members : verdict([members EXCEPT ![cr] = @ \cup {"stranger"}]).drift = {cr}

\* The fills the reconciler reports in the "stuck" conditions, by kind.
ASSUME ScanAssumption ==
  {f.kind : f \in UNION {scanUnaccountedFills(MCReadings[c], MCConfig.pendingFillSecs) :
                            c \in MCConditions}} = {"not-in-receipt", "batch-failed", "never-submitted"}
=============================================================================
