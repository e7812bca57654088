------------------------------- MODULE OpsCli -------------------------------
(***************************************************************************)
(* The governance command line (client/scripts/ops.ts): it builds a call,  *)
(* schedules it in the timelock, and later executes or cancels it from a   *)
(* receipt on disk or, failing that, from the row the indexer projected.   *)
(*                                                                         *)
(* hashOperation is collision free: the id of an operation is the tuple    *)
(* that is hashed.  Calldata is the function's name and its arguments.     *)
(***************************************************************************)
EXTENDS Projections

die(why) == [die |-> why]

-----------------------------------------------------------------------------
(* lib/ops/operations.ts: one operation per admin function.                *)

encodeFunctionData(fn, args) == <<fn, args>>

setMarketActive(marketId, active) ==
  [contract |-> "riskParams", data |-> encodeFunctionData("setMarketActive", <<marketId, active>>)]
setMarket(marketId, params) ==
  [contract |-> "riskParams", data |-> encodeFunctionData("setMarket", <<marketId, params>>)]
setFundingConfig(marketId, premiumCoeff, maxRatePerHour) ==
  [ contract |-> "riskParams",
    data |-> encodeFunctionData("setFundingConfig", <<marketId, premiumCoeff, maxRatePerHour>>) ]
setOiPolicy(marketId, policyBps) ==
  [contract |-> "riskParams", data |-> encodeFunctionData("setOiPolicy", <<marketId, policyBps>>)]
setDepositCaps(total, perAccount) ==
  [contract |-> "vault", data |-> encodeFunctionData("setDepositCaps", <<total, perAccount>>)]
setMarketFees(marketId, makerRate, takerRate) ==
  [ contract |-> "feeRouter",
    data |-> encodeFunctionData("setMarketFees", <<marketId, makerRate, takerRate>>) ]
setLiquidationParams(maxRewardBps, partialBps) ==
  [contract |-> "liquidation", data |-> encodeFunctionData("setParams", <<maxRewardBps, partialBps>>)]
setPublishers(keys) ==
  [contract |-> "oracleAdapter", data |-> encodeFunctionData("setPublishers", <<keys>>)]

ROLE_NAMES ==
  { "DEFAULT_ADMIN_ROLE", "RISK_ADMIN_ROLE", "FEE_ADMIN_ROLE", "FEE_TIER_ROLE", "OPERATOR_ROLE",
    "KEEPER_ROLE", "PAUSER_ROLE", "PUBLISHER_ROLE", "BACKSTOP_SIGNER_ROLE" }
\* Zero for DEFAULT_ADMIN_ROLE, and a hash of the name for the others.
roleId(name) == IF name = "DEFAULT_ADMIN_ROLE" THEN ZERO_BYTES32 ELSE name
grantRole(contract, role, account) ==
  [contract |-> contract, data |-> encodeFunctionData("grantRole", <<roleId(role), account>>)]
revokeRole(contract, role, account) ==
  [contract |-> contract, data |-> encodeFunctionData("revokeRole", <<roleId(role), account>>)]

-----------------------------------------------------------------------------
(* The command line.                                                       *)

\* parseUnits: whole units as an integer with so many decimals.
parseUnits(whole, decimals) == [digits |-> whole, decimals |-> decimals]

contracts ==
  { "vault", "engine", "orderGateway", "oracleAdapter", "liquidation", "insurance",
    "riskParams", "feeRouter", "timelock" }

\* The reviewed file's market, its sizes scaled as the chain wants them, or an error.
marketParamsFromToml(toml, key) ==
  IF key \notin DOMAIN toml THEN die("no such market")
  ELSE [ marketId |-> toml[key].market_id,
         params |-> [ active |-> toml[key].active, listed |-> TRUE,
                      maxOpenInterest |-> parseUnits(toml[key].max_open_interest, 18),
                      minFillNotional |-> parseUnits(toml[key].min_fill_notional_usd, 18) ] ]

\* a is the command line, toml the environment file.  An argument that is missing, or
\* is none of the words expected, ends the command before anything is sent.
needs(a) ==
  CASE a[1] = "market" -> 3 [] a[1] = "caps" -> 3 [] a[1] = "fees" -> 4
    [] a[1] = "liquidation" -> 3 [] a[1] = "publishers" -> 2 [] a[1] = "role" -> 5 [] OTHER -> 1

buildMarket(a, toml) ==
  CASE a[2] = "pause"   -> setMarketActive(a[3], FALSE)
    [] a[2] = "unpause" -> setMarketActive(a[3], TRUE)
    [] a[2] = "apply"   -> LET found == marketParamsFromToml(toml, a[3]) IN
                           IF "die" \in DOMAIN found THEN found ELSE setMarket(found.marketId, found.params)
    [] OTHER            -> die("unknown market command")

buildRole(a) ==
  CASE a[3] \notin contracts  -> die("unknown contract")
    [] a[4] \notin ROLE_NAMES -> die("unknown role")
    [] a[2] = "grant"         -> grantRole(a[3], a[4], a[5])
    [] a[2] = "revoke"        -> revokeRole(a[3], a[4], a[5])
    [] OTHER                  -> die("unknown role command")

buildOperation(a, toml) ==
  CASE Len(a) < needs(a)      -> die("expected an argument")
    [] a[1] = "market"        -> buildMarket(a, toml)
    [] a[1] = "caps"          -> setDepositCaps(parseUnits(a[2], 6), parseUnits(a[3], 6))
    [] a[1] = "fees"          -> setMarketFees(a[2], a[3], a[4])
    [] a[1] = "liquidation"   -> setLiquidationParams(a[2], a[3])
    [] a[1] = "publishers"    -> setPublishers(a[2])
    [] a[1] = "role"          -> buildRole(a)
    [] OTHER                  -> die("unknown command")

\* The salt is the hash of the description and of the time: a repeat gets its own id.
operationSalt(op, now) == <<op, now>>

scheduledCall(op, salt, delaySeconds) ==
  [ target |-> op.contract, value |-> 0, data |-> op.data, predecessor |-> ZERO_BYTES32,
    salt |-> salt, delaySeconds |-> delaySeconds ]

hashOperation(call) == <<<<call.target, call.value, call.data>>, call.predecessor, call.salt>>

\* What findCall returns is what the receipt said, or what the indexer's row says.
\* `receipts` holds the files that are there and can be read.
findCall(receipts, rows, id) ==
  IF id \in DOMAIN receipts THEN receipts[id]
  ELSE IF id \notin DOMAIN rows THEN die("neither in ~/.kryon/ops nor indexed")
  ELSE IF Len(rows[id].calls) # 1 THEN die("batch operations are not supported here")
  ELSE LET call == rows[id].calls[1] IN
       [ target |-> call.target, value |-> call.value, data |-> call.data,
         predecessor |-> rows[id].predecessor, salt |-> rows[id].salt, delaySeconds |-> 0 ]

\* Scheduled operations first, then by readiness; the first 25.
before(rows, i, j) ==
  LET first(k) == IF rows[k].status = "SCHEDULED" THEN 1 ELSE 0 IN
  \/ first(i) > first(j)
  \/ first(i) = first(j) /\ rows[i].readyAt > rows[j].readyAt
queue(rows, now) ==
  LET ids == SetToSortSeq(DOMAIN rows, LAMBDA i, j : before(rows, i, j))
      ready(k) == rows[k].status = "SCHEDULED" /\ rows[k].readyAt <= now
      line(k) == [id |-> k, status |-> rows[k].status, ready |-> ready(k)]
  IN [n \in 1..Min({25, Len(ids)}) |-> line(ids[n])]

-----------------------------------------------------------------------------
(* The timelock as the command line meets it, and the host it runs on.     *)

Host == [time |-> 0, delay |-> 2, at |-> [x \in {} |-> 0], done |-> {}, log |-> <<>>, receipts |-> <<>>]

registered(host, id) == id \in DOMAIN host.at
isOperationReady(host, id) == registered(host, id) /\ id \notin host.done /\ host.at[id] <= host.time

\* One transaction: its events, each at its place in the log.
emit(host, events) ==
  [host EXCEPT !.log = @ \o [k \in DOMAIN events |->
     events[k] @@ [at |-> Len(host.log) + k, tx |-> Len(host.log) + 1, time |-> host.time]]]

\* schedule: the delay it read, the transaction, and the receipt written after it.
\* Without --send it stops before the transaction; `lost` is a process that dies before
\* the receipt is on disk.  The timelock refuses a delay that has grown meanwhile, and
\* an id it knows.
scheduleEvents(id, call) ==
  << [ name |-> "CallScheduled", id |-> id, index |-> 0, predecessor |-> call.predecessor,
       delay |-> call.delaySeconds,
       call |-> [target |-> call.target, value |-> call.value, data |-> call.data] ] >>
  \o IF call.salt = ZERO_BYTES32 THEN <<>>
     ELSE << [name |-> "CallSalt", id |-> id, salt |-> call.salt] >>

sendSchedule(host, id, call, lost) ==
  IF registered(host, id) \/ call.delaySeconds < host.delay THEN host
  ELSE [emit(host, scheduleEvents(id, call)) EXCEPT
          !.at = (id :> host.time + call.delaySeconds) @@ @,
          !.receipts = IF lost THEN @ ELSE (id :> call) @@ @]

schedule(host, op, readDelay, send, lost) ==
  LET call == scheduledCall(op, operationSalt(op, host.time), readDelay) IN
  IF send THEN sendSchedule(host, hashOperation(call), call, lost) ELSE host

\* runQueued: what was found is executed once the timelock says it is ready; a
\* cancellation needs the id alone, but looks the call up all the same.
sendQueued(host, verb, id, call) ==
  CASE verb = "execute" /\ isOperationReady(host, id) /\ hashOperation(call) = id ->
         [emit(host, <<[name |-> "CallExecuted", id |-> id]>>) EXCEPT !.done = @ \cup {id}]
    [] verb = "cancel" /\ registered(host, id) /\ id \notin host.done ->
         [emit(host, <<[name |-> "Cancelled", id |-> id]>>) EXCEPT
            !.at = [k \in DOMAIN @ \ {id} |-> @[k]]]
    [] OTHER -> host

runQueued(host, rows, verb, id, send) ==
  LET found == findCall(host.receipts, rows, id) IN
  IF ~send \/ "die" \in DOMAIN found THEN host ELSE sendQueued(host, verb, id, found)
=============================================================================
