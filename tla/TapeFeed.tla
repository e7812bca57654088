------------------------------ MODULE TapeFeed ------------------------------
(***************************************************************************)
(* What the tape of a market promises to each connection, whatever the     *)
(* server does inside (client/lib/queries/stream.ts, lib/ws/server.ts):    *)
(* the prints sent to a subscriber are settled prints, in chain order, one *)
(* after the other with none left out and none repeated, from wherever its *)
(* subscription began.                                                     *)
(***************************************************************************)
EXTENDS Naturals, Sequences, SequencesExt

CONSTANT Readers

VARIABLES length, feeds   \* prints on the tape; what each reader was sent

Init == length = 0 /\ feeds = [r \in Readers |-> <<>>]

consecutive(f) == \A k \in 2..Len(f) : f[k] = f[k - 1] + 1

Continues(f, g) ==
  /\ g # <<>> /\ IsPrefix(f, g)
  /\ consecutive(g)
  /\ Last(g) \in 1..length

\* The tape only grows; a feed goes on where it stopped, or ends.
Next ==
  /\ length' >= length
  /\ \A r \in Readers : feeds'[r] \in {feeds[r], <<>>} \/ Continues(feeds[r], feeds'[r])

Spec == Init /\ [][Next]_<<length, feeds>>
=============================================================================
