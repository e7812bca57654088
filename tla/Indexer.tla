------------------------------ MODULE Indexer ------------------------------
(***************************************************************************)
(* The protocol indexer (client/lib/indexer): windows of chain logs stored *)
(* in ProtocolEvent, projected, and the cursor moved, in one transaction.  *)
(* Event e is the log of block e, the settlement of one fill; `applied`    *)
(* counts how often its projection ran, which is what an accumulating      *)
(* column such as Position.realizedPnlCum would show.  Several processes   *)
(* may run side by side: a restart that overlaps the process it replaces.  *)
(***************************************************************************)
EXTENDS Naturals, FiniteSets, FiniteSetsExt

CONSTANTS
  Indexers,    \* indexer processes
  MaxWindow,   \* IndexerOptions.maxWindow
  MaxHead,     \* bound: blocks
  MaxFaults    \* bound: crashes, failed calls and operator commands, of every process

ASSUME IndexerAssumption ==
  /\ Indexers # {} /\ MaxWindow \in Nat \ {0}
  /\ MaxHead \in Nat /\ MaxFaults \in Nat

VARIABLES
  head,      \* the chain's height
  stored,    \* ProtocolEvent
  applied,   \* how often each event was projected
  cursor,    \* BlockCursor, stream "protocol"
  ix,        \* the memory of each process
  faults     \* counts faults

indexVars == <<head, stored, applied, cursor, ix, faults>>

Events == 1..MaxHead
Idle == [pc |-> "idle", from |-> 0, to |-> 0, window |-> MaxWindow]

IndexInit ==
  /\ head = 0 /\ stored = {} /\ cursor = 0 /\ faults = 0
  /\ applied = [e \in Events |-> 0]
  /\ ix = [i \in Indexers |-> Idle]

fault == faults < MaxFaults /\ faults' = faults + 1

\* The chain settles a fill.
Produce ==
  /\ head < MaxHead
  /\ head' = head + 1
  /\ UNCHANGED <<stored, applied, cursor, ix, faults>>

\* A provider's range error halves the window and asks again, down to one block.
narrowed(w) == {v \in 1..w : \E k \in 0..w : v = w \div 2^k}

\* step, up to the answer of getLogs: the cursor, the head, the logs.
Fetch(i) ==
  /\ ix[i].pc = "idle" /\ cursor < head
  /\ \E w \in narrowed(ix[i].window) :
       ix' = [ix EXCEPT ![i] = [ pc |-> "logs", from |-> cursor + 1,
                                 to |-> Min({head, cursor + w}), window |-> w ]]
  /\ UNCHANGED <<head, stored, applied, cursor, faults>>

\* ON CONFLICT DO NOTHING: an event already stored is not projected again.
inserted(i) == (ix[i].from..ix[i].to) \ stored

\* commit's transaction.
store(i) ==
  /\ stored' = stored \cup (ix[i].from..ix[i].to)
  /\ applied' = [e \in Events |-> applied[e] + (IF e \in inserted(i) THEN 1 ELSE 0)]
  /\ cursor' = ix[i].to

Commit(i) ==
  /\ ix[i].pc = "logs"
  /\ store(i)
  /\ ix' = [ix EXCEPT ![i] = [Idle EXCEPT !.window = Min({MaxWindow, 2 * ix[i].window})]]
  /\ UNCHANGED <<head, faults>>

\* The transaction fails, or it commits and its answer is lost: the step throws,
\* the loop in state-indexer.ts backs off and starts again from the cursor.
CommitFails(i) ==
  /\ ix[i].pc = "logs" /\ fault
  /\ store(i) \/ UNCHANGED <<stored, applied, cursor>>
  /\ ix' = [ix EXCEPT ![i] = [Idle EXCEPT !.window = ix[i].window]]
  /\ UNCHANGED head

\* The process dies and is started again.
IndexerCrash(i) ==
  /\ ix[i] # Idle /\ fault
  /\ ix' = [ix EXCEPT ![i] = Idle]
  /\ UNCHANGED <<head, stored, applied, cursor>>

\* rebuild: every projection is reset and replayed from ProtocolEvent.
replayed == [e \in Events |-> IF e \in stored THEN 1 ELSE 0]

IndexerStep(S) == \E i \in S : Fetch(i) \/ Commit(i) \/ CommitFails(i) \/ IndexerCrash(i)

\* What the readers of the typed tables see: the settled fills.
tape == {e \in Events : applied[e] > 0}

-----------------------------------------------------------------------------
=============================================================================
