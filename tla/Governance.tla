----------------------------- MODULE Governance ------------------------------
(***************************************************************************)
(* KryonTimelock.sol and the pause of KryonUpgradeable.sol, with a         *)
(* guardian that holds PAUSER_ROLE on both and may be hostile.             *)
(*                                                                         *)
(* Every timestamp is kept as its distance from now, in days (all the      *)
(* durations of the code are whole days), and a timestamp of the past is   *)
(* kept only as far back as some check can tell it apart.  "Never" is      *)
(* therefore the same as "longer ago than the cooldown".                   *)
(***************************************************************************)
EXTENDS Integers, Sequences, FiniteSets, SequencesExt

CONSTANTS
  Operations,               \* sequences of calls governance may propose
  MIN_SAFE_DELAY,
  VETO_DURATION,
  VETO_COOLDOWN,
  GUARDIAN_PAUSE_DURATION,
  GUARDIAN_PAUSE_COOLDOWN

\* Calls of the timelock on itself and on a protocol contract.
Call ==
  [fn : {"unpauseExecution", "revokeVeto", "grantVeto", "revokePause", "grantPause",
         "pauseIndefinitely", "unpause"}]
  \cup [fn : {"updateDelay"}, newDelay : Nat]

ASSUME GovernanceConfig ==
  /\ Operations \subseteq Seq(Call) /\ <<>> \notin Operations
  /\ MIN_SAFE_DELAY \in Nat \ {0} /\ VETO_DURATION \in Nat \ {0}
  /\ VETO_COOLDOWN \in Nat \ {0} /\ MIN_SAFE_DELAY < VETO_COOLDOWN
  /\ GUARDIAN_PAUSE_DURATION \in Nat \ {0} /\ GUARDIAN_PAUSE_COOLDOWN \in Nat \ {0}

VARIABLES
  g,          \* the governed state, see TimelockTypeOK
  timestamp,  \* per operation: unset, or how long until it is ready
  owed        \* operations a veto held up that had no day to execute since (history)

timelockVars == <<g, timestamp, owed>>

Unset == -1
pending(op) == timestamp[op] # Unset

\* A veto lasts at most VETO_DURATION and a guardian pause GUARDIAN_PAUSE_DURATION.
TimelockTypeOK ==
  /\ g \in [ vetoUntil : -VETO_COOLDOWN .. VETO_DURATION,
             guardianPauseExpiry : -GUARDIAN_PAUSE_COOLDOWN .. GUARDIAN_PAUSE_DURATION,
             indefinite : BOOLEAN,
             minDelay : Nat,
             guardian : SUBSET {"veto", "pause"} ]
  /\ timestamp \in [Operations -> Nat \cup {Unset}]
  /\ owed \subseteq {op \in Operations : pending(op)}

TimelockInit ==
  /\ g = [ vetoUntil |-> -VETO_COOLDOWN, guardianPauseExpiry |-> -GUARDIAN_PAUSE_COOLDOWN,
           indefinite |-> FALSE, minDelay |-> MIN_SAFE_DELAY, guardian |-> {"veto", "pause"} ]
  /\ timestamp = [op \in Operations |-> Unset]
  /\ owed = {}

\* A timestamp of the future moved to now.
earlier(t) == IF t > 0 THEN 0 ELSE t

executionPaused(s) == s.vetoUntil > 0
isPaused(s) == s.indefinite \/ s.guardianPauseExpiry > 0

-----------------------------------------------------------------------------
(* The guardian.                                                           *)

\* Mutant: a veto may follow the previous one at once.
pauseExecutionNoCooldown ==
  /\ "veto" \in g.guardian
  /\ ~executionPaused(g)
  /\ g' = [g EXCEPT !.vetoUntil = VETO_DURATION]
  /\ owed' = {op \in Operations : pending(op) /\ timestamp[op] < VETO_COOLDOWN}
  /\ UNCHANGED timestamp

\* Mutant: a veto may be renewed while it lasts.
pauseExecutionRenewable ==
  /\ "veto" \in g.guardian
  /\ g' = [g EXCEPT !.vetoUntil = VETO_DURATION]
  /\ owed' = {op \in Operations : pending(op) /\ timestamp[op] < VETO_COOLDOWN}
  /\ UNCHANGED timestamp

pauseExecution ==
  /\ "veto" \in g.guardian
  /\ g.vetoUntil <= -VETO_COOLDOWN
  /\ g' = [g EXCEPT !.vetoUntil = VETO_DURATION]
  /\ owed' = {op \in Operations : pending(op) /\ timestamp[op] < VETO_COOLDOWN}
  /\ UNCHANGED timestamp

\* Mutant: a guardian pause may follow the previous one at once.
pauseNoCooldown ==
  /\ "pause" \in g.guardian
  /\ ~isPaused(g)
  /\ g' = [g EXCEPT !.guardianPauseExpiry = GUARDIAN_PAUSE_DURATION]
  /\ UNCHANGED <<timestamp, owed>>

pause ==
  /\ "pause" \in g.guardian
  /\ ~isPaused(g)
  /\ g.guardianPauseExpiry <= -GUARDIAN_PAUSE_COOLDOWN
  /\ g' = [g EXCEPT !.guardianPauseExpiry = GUARDIAN_PAUSE_DURATION]
  /\ UNCHANGED <<timestamp, owed>>

-----------------------------------------------------------------------------
(* What a call does when the timelock makes it, and when it reverts.       *)

reverts(s, c) ==
  \/ c.fn = "pauseIndefinitely" /\ s.indefinite
  \/ c.fn = "unpause" /\ ~isPaused(s)
  \/ c.fn = "updateDelay" /\ c.newDelay < MIN_SAFE_DELAY

effect(s, c) ==
  CASE c.fn = "unpauseExecution"  -> [s EXCEPT !.vetoUntil = earlier(@)]
    [] c.fn = "revokeVeto"        -> [s EXCEPT !.guardian = @ \ {"veto"}]
    [] c.fn = "grantVeto"         -> [s EXCEPT !.guardian = @ \cup {"veto"}]
    [] c.fn = "revokePause"       -> [s EXCEPT !.guardian = @ \ {"pause"}]
    [] c.fn = "grantPause"        -> [s EXCEPT !.guardian = @ \cup {"pause"}]
    [] c.fn = "pauseIndefinitely" -> [s EXCEPT !.indefinite = TRUE]
    [] c.fn = "unpause"           -> [s EXCEPT !.indefinite = FALSE,
                                               !.guardianPauseExpiry = earlier(@)]
    [] c.fn = "updateDelay"       -> [s EXCEPT !.minDelay = c.newDelay]

\* The state after the first i calls of op.
after(op, i) == FoldLeft(effect, g, SubSeq(op, 1, i))

-----------------------------------------------------------------------------
(* The timelock's operations.                                              *)

getMinDelay == IF g.minDelay < MIN_SAFE_DELAY THEN MIN_SAFE_DELAY ELSE g.minDelay

\* Scheduling is never blocked.
schedule(op) ==
  /\ ~pending(op)
  /\ timestamp' = [timestamp EXCEPT ![op] = getMinDelay]
  /\ owed' = IF executionPaused(g) /\ getMinDelay < VETO_COOLDOWN THEN owed \cup {op} ELSE owed
  /\ UNCHANGED g

cancel(op) ==
  /\ pending(op)
  /\ timestamp' = [timestamp EXCEPT ![op] = Unset]
  /\ owed' = owed \ {op}
  /\ UNCHANGED g

\* execute for one call, executeBatch for several.
mayExecute(op) ==
  /\ timestamp[op] = 0
  /\ executionPaused(g) => op = << [fn |-> "unpauseExecution"] >>

\* A call that reverts takes the whole operation with it, which stays pending.
execute(op) ==
  /\ mayExecute(op)
  /\ \A i \in 1..Len(op) : ~reverts(after(op, i - 1), op[i])
  /\ g' = after(op, Len(op))
  /\ timestamp' = [timestamp EXCEPT ![op] = Unset]
  /\ owed' = owed \ {op}

\* A day goes by.
DayPasses ==
  /\ g' = [g EXCEPT
            !.vetoUntil = IF @ > -VETO_COOLDOWN THEN @ - 1 ELSE @,
            !.guardianPauseExpiry = IF @ > -GUARDIAN_PAUSE_COOLDOWN THEN @ - 1 ELSE @]
  /\ timestamp' = [op \in Operations |-> IF timestamp[op] > 0 THEN timestamp[op] - 1
                                         ELSE timestamp[op]]
  /\ owed' = IF executionPaused(g) THEN owed ELSE {op \in owed : timestamp[op] > 0}

TimelockNext ==
  \/ pauseExecution
  \/ pause
  \/ \E op \in Operations : schedule(op)
  \/ \E op \in Operations : cancel(op)
  \/ \E op \in Operations : execute(op)
  \/ DayPasses

onlyRevokes(op) == \A i \in 1..Len(op) : op[i].fn \in {"revokeVeto", "revokePause"}

\* Time passes, and an executor takes a revocation that can be executed again and
\* again: each opportunity lasts a day (VetoLeavesWindow).
Fairness ==
  /\ WF_timelockVars(DayPasses)
  /\ \A op \in {o \in Operations : onlyRevokes(o)} : SF_timelockVars(execute(op))

TimelockSpec == TimelockInit /\ [][TimelockNext]_timelockVars /\ Fairness

-----------------------------------------------------------------------------
\* "Anything scheduled during the veto can execute in that window": the guardian
\* cannot veto again before every operation its last veto held up, and whose
\* remaining delay was below the cooldown, had a whole day in which to execute.
\* (A veto is new when it lasts longer than the old one.)
VetoLeavesWindow ==
  [][ g'.vetoUntil > g.vetoUntil => owed = {} ]_timelockVars

\* A guardian cannot defend its own roles: a scheduled revocation is executed unless
\* governance itself cancels it, whatever the guardian vetoes and pauses meanwhile.
RevocationSucceeds ==
  \A op \in Operations : onlyRevokes(op) => (pending(op) ~> ~pending(op))

\* A guardian alone cannot keep funds locked: again and again the contract is open
\* for a whole cooldown, unless governance itself paused it indefinitely.
FundsReachable ==
  []<>(g.guardianPauseExpiry <= -GUARDIAN_PAUSE_COOLDOWN \/ g.indefinite)
=============================================================================
