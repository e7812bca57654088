------------------------------ MODULE MCOracle ------------------------------
(* The oracle with two publishers, both needed, and two venues. *)
EXTENDS Oracle, TLC

MCUsdcStates == {[by : Venues, price : {1000}], [by : Venues, price : {900}], {}}
Symmetry == Permutations(Publishers) \cup Permutations(Venues)

-----------------------------------------------------------------------------
(* Batches of three feeds.                                                 *)

Batch == <<"BTC", "ETH", "SOL">>
Feeds == {"BTC", "ETH", "SOL"}
Refusals == [Feeds -> {"none", "UnknownFeed", "InvalidConfig", "InvalidPrice", "StaleOracle"}]
Callers == {"none", "AccessControlUnauthorizedAccount", "EnforcedPause", "StaleOracle"}

\* "only the feeds that still fail back off": never a feed that the adapter would take,
\* nobody for the caller's own fault, and someone whenever a feed alone is to blame, so
\* that the next batch differs.
ASSUME BackOffIsOwn ==
  \A caller \in Callers, errors \in Refusals :
    \A revert \in {revertOf(caller, errors, Batch)} :
      \A backedOff \in {IF revert.error = "none" THEN {}
                       ELSE onRevert(revert, caller, errors, Batch)} :
        /\ \A f \in backedOff : errors[f] # "none"
        /\ caller # "none" => backedOff = {}
        /\ backedOff = {} => caller # "none" \/ revert.error \in {"none", "StaleOracle"}

\* What the adapter emits for a feed: the observation, and what became of it.
Results == {"updated", "reanchored", "quorum", "jump"}
logOf(id, event) == [address |-> "oracle", id |-> id, event |-> event]
logsOf(id, result) ==
  <<logOf(id, "ObservationPushed")>> \o
  CASE result = "updated"    -> <<logOf(id, "PriceUpdated") @@ [price |-> 7]>>
    [] result = "reanchored" -> <<logOf(id, "PriceUpdated") @@ [price |-> 7], logOf(id, "PriceReanchored")>>
    [] OTHER                 -> <<logOf(id, "PriceUpdateSkipped") @@ [reason |-> result]>>
Foreign == [address |-> "engine", id |-> "BTC", event |-> "PriceUpdated", price |-> 9]

outcomeOf(result) ==
  IF result \in {"updated", "reanchored"}
  THEN [kind |-> "updated", price |-> 7, reanchored |-> result = "reanchored"]
  ELSE [kind |-> "skipped", reason |-> result]

\* Every feed of the batch is reported with its own outcome, other contracts' logs or not.
ASSUME ReceiptRead ==
  \A results \in [Feeds -> Results] :
    \A out \in {outcomesFromReceipt(
                 logsOf("BTC", results["BTC"]) \o <<Foreign>> \o logsOf("ETH", results["ETH"])
                 \o logsOf("SOL", results["SOL"]))} :
      \A f \in Feeds : out[f] = outcomeOf(results[f])

\* The alerts of a publisher that ticks at some of the times 1..8, while a feed last
\* written at 1 is stale: two lines of a key are alertAfterSecs apart, and while it is
\* stale no tick goes by that long after the last line without another.
AlertAfter == 3
ticked(T) ==
  LET feed(now) == [BTC |-> [active |-> TRUE, writeTime |-> 1], ETH |-> [active |-> FALSE, writeTime |-> 0],
                    SOL |-> [active |-> TRUE, writeTime |-> now]]
      tick(a, now) == IF now \in T /\ "BTC" \in freshness(feed(now), now, AlertAfter)
                      THEN alert(a, "stale:BTC", now, AlertAfter) ELSE a
  IN FoldLeft(tick, [last |-> <<>>, out |-> <<>>], <<1, 2, 3, 4, 5, 6, 7, 8>>)
ASSUME AlertsSpaced ==
  \A T \in SUBSET (1..8) : \A out \in {ticked(T).out} :
    /\ \A i \in 2..Len(out) : out[i].at - out[i - 1].at >= AlertAfter
    /\ \A t \in T : t - 1 > AlertAfter => \E i \in DOMAIN out : out[i].at \in (t - AlertAfter + 1)..t
=============================================================================
