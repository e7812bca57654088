---------------------------- MODULE MCGovernance -----------------------------
(***************************************************************************)
(* The deployed durations, in days, with the operations that matter        *)
(* against a hostile guardian.                                             *)
(***************************************************************************)
EXTENDS Governance, TLC

call(fn) == [fn |-> fn]

MCOperations ==
  { << call("unpauseExecution") >>,
    << call("revokeVeto"), call("revokePause") >>,
    << call("unpause"), call("grantPause") >>,
    << call("pauseIndefinitely"), [fn |-> "updateDelay", newDelay |-> 4] >> }

-----------------------------------------------------------------------------
(* The governance command line against the timelock and the indexer.       *)
Cli == INSTANCE OpsCli

Toml == [btc |-> [market_id |-> 1, active |-> TRUE, max_open_interest |-> 25, min_fill_notional_usd |-> 40]]
\* The commands of the header of scripts/ops.ts, and some that are refused.
Commands ==
  { <<"market", "pause", 2>>, <<"market", "unpause", 2>>, <<"market", "apply", "btc">>,
    <<"caps", 250, 10>>, <<"fees", 2, -50, 350>>, <<"liquidation", 15, 500>>,
    <<"publishers", {"k1", "k2"}>>, <<"role", "grant", "insurance", "BACKSTOP_SIGNER_ROLE", "k1">>,
    <<"role", "revoke", "orderGateway", "OPERATOR_ROLE", "k1">> }
Refused ==
  { <<"market", "halt", 2>>, <<"market", "apply", "doge">>, <<"market", "pause">>, <<"fees", 2, 1>>,
    <<"role", "grant", "treasury", "KEEPER_ROLE", "k1">>, <<"role", "grant", "vault", "ADMIN", "k1">>,
    <<"role", "drop", "vault", "KEEPER_ROLE", "k1">>, <<"mint", 1>> }

Unreached == {Cli!setFundingConfig(2, 1, 1), Cli!setOiPolicy(2, 1)}   \* no command builds these

\* Two different commands never build the same calldata for the same contract.
ASSUME CommandsBuild ==
  /\ \A a \in Commands : Cli!buildOperation(a, Toml).contract \in Cli!contracts
  /\ \A a, b \in Commands : Cli!buildOperation(a, Toml) = Cli!buildOperation(b, Toml) => a = b
  /\ \A a \in Commands : Cli!buildOperation(a, Toml) \notin Unreached
  /\ \A a \in Refused : "die" \in DOMAIN Cli!buildOperation(a, Toml)

Pause == Cli!buildOperation(<<"market", "pause", 2>>, Toml)
Grant == Cli!buildOperation(<<"role", "grant", "vault", "DEFAULT_ADMIN_ROLE", "k1">>, Toml)
\* Another proposer's batch of both, without a salt.
Batch == << <<>>, Cli!ZERO_BYTES32, Cli!ZERO_BYTES32 >>
batched(k, op) == [ name |-> "CallScheduled", id |-> Batch, index |-> k, delay |-> 2,
                    predecessor |-> Cli!ZERO_BYTES32,
                    call |-> [target |-> op.contract, value |-> 0, data |-> op.data] ]
scheduleBatch(host) ==
  IF Cli!registered(host, Batch) THEN host
  ELSE [Cli!emit(host, <<batched(0, Pause), batched(1, Grant)>>)
        EXCEPT !.at = (Batch :> host.time + 2) @@ @]

indexed(host, n) == Cli!project(Cli!Empty, SubSeq(host.log, 1, n)).GovernanceOperation
rowsOf(host) == indexed(host, Len(host.log))
ids(host) == DOMAIN rowsOf(host)

\* What may happen next: a command of the operator (with the delay it read before the
\* timelock's last change), another proposer, a longer delay, the next day.
successors(host) ==
  { Cli!schedule(host, op, 2, TRUE, lost) : op \in {Pause, Grant}, lost \in BOOLEAN }
  \cup { Cli!runQueued(host, rowsOf(host), verb, id, TRUE) :
           verb \in {"execute", "cancel"}, id \in ids(host) }
  \cup { scheduleBatch(host), [host EXCEPT !.delay = 3], [host EXCEPT !.time = @ + 2] }
Hosts == LET reach[n \in Nat] ==
               IF n = 0 THEN {Cli!Host}
               ELSE reach[n - 1] \cup UNION {successors(h) : h \in reach[n - 1]}
         IN reach[5]

\* "so `execute` can reproduce the exact arguments": from the receipt or from the
\* indexer's row the call found is the one scheduled, and nothing else.
ASSUME CallReproduced ==
  \A host \in Hosts : \A rows \in {rowsOf(host)} : \A id \in DOMAIN rows \ {Batch} :
    \A receipts \in {<<>>, host.receipts} :
      Cli!hashOperation(Cli!findCall(receipts, rows, id)) = id

\* The row's status is the timelock's, through cancellations and repeats of an id.
timelockStatus(host, id) ==
  IF id \in host.done THEN "EXECUTED" ELSE IF Cli!registered(host, id) THEN "SCHEDULED" ELSE "CANCELLED"
ASSUME StatusProjected ==
  \A host \in Hosts : \A rows \in {rowsOf(host)} : \A id \in DOMAIN rows :
    /\ rows[id].status = timelockStatus(host, id)
    /\ id = Batch => Len(rows[id].calls) = 2

\* An indexer that is behind never makes a command do something else, only nothing.  A
\* window is whole blocks: the events of one transaction are projected together.
boundaries(log) == {n \in 0..Len(log) : n \in 1..Len(log) - 1 => log[n].tx # log[n + 1].tx}
ASSUME LagHarmless ==
  \A host \in Hosts : \A id \in ids(host), n \in boundaries(host.log), verb \in {"execute", "cancel"} :
    \A lagging \in {Cli!runQueued(host, indexed(host, n), verb, id, TRUE)} :
      lagging \in {host, Cli!runQueued(host, rowsOf(host), verb, id, TRUE)}

\* The queue shows what waits before what is done, and calls ready what is.
ASSUME QueueShown ==
  \A host \in Hosts : \A q \in {Cli!queue(rowsOf(host), host.time)} :
    \A i \in DOMAIN q :
      /\ q[i].ready = Cli!isOperationReady(host, q[i].id)
      /\ i > 1 => (q[i].status = "SCHEDULED" => q[i - 1].status = "SCHEDULED")
=============================================================================
