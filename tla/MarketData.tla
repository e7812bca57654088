----------------------------- MODULE MarketData -----------------------------
(***************************************************************************)
(* The read side put together: the chain, the indexer that fills the       *)
(* database, and its readers, the WebSocket server with the browsers       *)
(* connected to it and the statistics aggregator.  Readers share nothing   *)
(* but the database, so each behaviour loads one of them: `focus` names    *)
(* the stream the browsers watch, the aggregator, or the indexer alone,    *)
(* when a restart lets two of its processes overlap.                       *)
(***************************************************************************)
EXTENDS StreamServer, StatsAggregator, TLC

CONSTANTS
  Focus,      \* which readers are exercised
  MaxPrints   \* bound: fills settled under the browsers' eyes

ASSUME FocusAssumption == Focus \subseteq Streams \cup {"stats", "indexer"} /\ MaxPrints \in Nat

vars == <<indexVars, sourceVars, serverVars, browserVars, statsVars, focus>>

Init ==
  /\ focus \in Focus
  /\ IndexInit /\ StreamInit /\ BrowserInit /\ StatsInit

\* The chain settles a fill, in a block of today.
Settle ==
  /\ focus \in {"trades", "stats", "indexer"}
  /\ focus = "trades" => head < MaxPrints
  /\ Produce
  /\ dayOf' = [dayOf EXCEPT ![head'] = day]
  /\ UNCHANGED <<sourceVars, serverVars, browserVars, day, rows, statsAt, pass, boardDay, focus>>

Index ==
  /\ IndexerStep(IF focus = "indexer" THEN Indexers ELSE {CHOOSE i \in Indexers : TRUE})
  /\ UNCHANGED <<sourceVars, serverVars, browserVars, statsVars, focus>>

\* state-indexer --rebuild.
Rebuild ==
  /\ fault
  /\ applied' = replayed
  /\ changes' = restamped
  /\ UNCHANGED <<head, stored, cursor, ix, board, now, edits, serverVars, browserVars, statsVars, focus>>

Source ==
  /\ Edit \/ Write \/ Visible \/ Clock
  /\ UNCHANGED <<indexVars, serverVars, browserVars, statsVars, focus>>

Serve ==
  /\ focus \in Streams
  /\ Poll
  /\ UNCHANGED <<head, stored, applied, cursor, ix, sourceVars, browserVars, statsVars, focus>>

Restart ==
  /\ focus \in Streams
  /\ ServerCrash
  /\ up' = [s \in Sockets |-> <<>>]
  /\ UNCHANGED <<head, stored, applied, cursor, ix, sourceVars, sock, owner, listening, current,
                 connected, timers, mounts, statsVars, focus>>

Browse ==
  /\ focus \in Streams
  /\ BrowserStep
  /\ UNCHANGED <<head, stored, applied, cursor, ix, sourceVars, statsVars, focus>>

Aggregate ==
  /\ focus = "stats"
  /\ StatsStep
  /\ UNCHANGED <<head, stored, applied, cursor, ix, sourceVars, serverVars, browserVars, focus>>

Next == Settle \/ Index \/ Rebuild \/ Source \/ Serve \/ Restart \/ Browse \/ Aggregate

Spec == Init /\ [][Next]_vars

-----------------------------------------------------------------------------

\* What the tape promises each connection.
Tape == INSTANCE TapeFeed WITH
  Readers <- Sockets,
  length  <- Cardinality(tape),
  feeds   <- [s \in Sockets |-> sent[s]["trades"]]

\* The stream of settled prints implements TapeFeed: no print is skipped, repeated
\* or out of order on any subscription, however subscribing, leaving, reconnecting
\* and indexing interleave with a poll in progress.
TapeContinuous == Tape!Spec

\* Every subscriber of a snapshot stream has been sent exactly the frame the server
\* compares the next poll with: nobody is left on an older book because a poll found
\* "no change" against a frame that subscriber never got.
SubscribersAgree ==
  \A s \in Sockets, ch \in Snapshots :
    conn[s] = "open" /\ ch \in channels[s] /\ srv.frames[ch] # None => sent[s][ch] = <<srv.frames[ch]>>

\* The account stream: no write is sent twice on a subscription, and nothing written
\* while subscribed falls out of the overlap window unsent, in spite of transactions
\* that commit out of order, failed polls and a rebuild that stamps every row anew.
FillsOnce ==
  \A s \in Sockets :
    LET got == sent[s]["fills"]
    IN  /\ \A j, k \in DOMAIN got : got[j] = got[k] => j = k
        /\ conn[s] = "open" /\ "fills" \in channels[s] /\ srv.fillCursor # None =>
             \A k \in DOMAIN changes :
               \/ changes[k].written <= since[s] \/ changes[k].written < srv.fillsFrom
               \/ changes[k].at >= overlapStart(srv.fillCursor)
               \/ \E r \in Range(got) : r.id = k

\* A screen that listens is never left without a way back to the server: its stream
\* holds a socket whose close it will still hear of, or has a reconnect armed, also
\* when the close of an older socket arrives after a newer one was opened.
NeverStranded ==
  \A b \in listening :
    \/ "reconnect" \in timers[b]
    \/ current[b] # None /\ owner[current[b]] = b /\ sock[current[b]] # "none"
=============================================================================
