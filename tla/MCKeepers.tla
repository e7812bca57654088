----------------------------- MODULE MCKeepers ------------------------------
(* Four keepers, and the rows in which they record what they did. *)
EXTENDS Keepers, TLC

\* How a call may end, its receipt holding the events of the market it was for or not.
Updated(m) == [address |-> "engine", event |-> "FundingUpdated", marketId |-> m]
Ends ==
  [what : {"preflight", "unconfirmed"}]
  \cup [what : {"reverted"}, block : {7}]
  \cup [what : {"success"}, block : {7}, logs : {<<>>, <<Updated(1)>>, <<Updated(2)>>, <<Updated(2), Updated(1)>>}]
ActionKinds == {"liquidation.liquidate", "liquidation.settle-bad-debt", "funding.update"}

patches(k, end) == IF k = "funding.update" THEN updateFunding(1, end) ELSE sendAction(k, end)

\* The rows after the first n writes of a call: the process died before the next one.
written(k, end, n) ==
  FoldLeft(LAMBDA table, p : update(table, 1, p, 3), record(<<>>, [kind |-> k]),
                SubSeq(patches(k, end), 1, n))

\* "blockNumber is written only from a receipt this process read": a row never says more
\* than happened, wherever the process dies, and stays open until its end is written.
ASSUME RowsTruthful ==
  \A k \in ActionKinds, end \in Ends : \A n \in 0..Len(patches(k, end)) :
    \A table \in {written(k, end, n)} : \A row \in {table[1]} :
      /\ row.status = "CONFIRMED" => /\ end.what = "success"
                                     /\ k = "funding.update" => \E l \in ToSet(end.logs) : l.marketId = 1
      /\ row.blockNumber # NoBlock => end.what \in {"reverted", "success"} /\ row.txJobId = "job"
      /\ (1 \in open(table, k)) = (row.status \in {"PLANNED", "SUBMITTED"})
      /\ n = Len(patches(k, end)) => (1 \in open(table, k)) = (end.what = "unconfirmed")

\* Three rows, each confirmed in its block or not, and what the indexer holds.
rowIn(block, status) ==
  [ kind |-> "liquidation.adl", status |-> status, txJobId |-> "job", blockNumber |-> block,
    indexed |-> "false", updatedAt |-> 1 ]
ActionTables == {[i \in 1..3 |-> rowIn(i, st[i])] : st \in [1..3 -> {"SUBMITTED", "CONFIRMED"}]}

\* A confirmed action is marked exactly when the indexer has it, once, and reported
\* missing after the grace period otherwise.
ASSUME ReconciledExactly ==
  \A table \in ActionTables, held \in SUBSET (1..3) : \A marked \in {reconcileIndexed(table, held, 3, 5)} :
    /\ \A i \in 1..3 : (marked[i].indexed = "true") = (i \in held /\ table[i].status = "CONFIRMED")
    /\ reconcileIndexed(marked, held, 3, 6) = marked
    /\ missingRows(marked, held, 3, 5, 2) = {i \in (1..3) \ held : table[i].status = "CONFIRMED"}
    /\ missingRows(marked, held, 3, 3, 2) = {}

\* Rows that never appear fill the query's limit, and hide the ones behind them.
ASSUME ReconcileStarves ==
  \A table \in {[i \in 1..3 |-> rowIn(i, "CONFIRMED")]} :
    reconcileIndexed(table, {3}, 2, 5)[3].indexed = "false"

\* A job is recomputed with its day if it is mined within a day of its creation, less
\* what the host's clock is behind UTC (hours; the services pin UTC).
ASSUME DaysCovered ==
  \A created \in 48..71, offset \in -12..14 : \A age \in 0..(24 + Min({0, offset})) :
    utcDay(created + offset, 24) \in recentUtcDays(created + age, 24)
=============================================================================
