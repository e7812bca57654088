------------------------------- MODULE Monitor -------------------------------
(***************************************************************************)
(* The monitor process (lib/monitor): every tick it runs every check, folds *)
(* the results into the alert engine, sends what changed to the notifiers   *)
(* and publishes a snapshot.  The protocol it watches changes between the   *)
(* ticks, a read or the webhook may fail in any tick, and the process may   *)
(* restart, which forgets every alert.                                      *)
(*                                                                         *)
(* Time is counted in ticks.  The engine compares ages with a bound and     *)
(* never reads them otherwise, so every age and every streak is kept only   *)
(* up to the bound it is compared with and no run of ticks is cut short.    *)
(***************************************************************************)
EXTENDS MonitorChecks

CONSTANTS
  Conditions,    \* the states of the protocol the monitor may find
  Readings,      \* what the chain, the database and the probes answer in each
  Leads,         \* which condition may follow which
  Config,        \* MonitorConfig: the thresholds
  FailAfter,     \* MONITOR_FAIL_AFTER
  ResolveAfter,  \* MONITOR_RESOLVE_AFTER
  Renotify,      \* MONITOR_RENOTIFY_MS, in ticks
  Grace,         \* MONITOR_STARTUP_GRACE_MS, in ticks
  Faults,        \* the sets of reads that may fail in one tick of each condition
  MaxTroubles    \* bound: changes, restarts, and ticks with a failed read or delivery

ASSUME TimingAssumption ==
  /\ FailAfter \in Nat \ {0} /\ ResolveAfter \in Nat \ {0}
  /\ Renotify \in Nat \ {0} /\ Grace \in Nat

ASSUME ConfigAssumption == validate(Config)

\* A tick may go by without a fault; a row of TxJob has an id of its own; a tick reports
\* finitely many results.
ASSUME ReadingsAssumption ==
  \A c \in Conditions :
    /\ {} \in Faults[c]
    /\ NULL \notin Readings[c].txJobs
    /\ \A i, j \in Readings[c].txJobs : i.id = j.id => i = j
    /\ \A blind \in Faults[c] : IsFiniteSet(runChecks(Readings[c], Config, blind))

VARIABLES
  condition,     \* the condition the protocol is in
  states,        \* AlertEngine.states: a partial function of the alert key
  uptime,        \* ticks since startedAt, up to one past the grace period
  heard,         \* the last event the webhook delivered, by key
  page,          \* MonitorStatus: the level of the last snapshot written
  troubles,      \* how much of MaxTroubles is used up
  \* History, for the properties.
  failedFor,     \* consecutive ticks that reported the key failing
  blockedFor,    \* consecutive sighted ticks that found a trader nobody can value
  upFor,         \* consecutive ticks in which the webhook answered
  worst          \* the severity of the key's last failing report

\* AlertState: quietFor is the age of lastNotifiedAt, which the grace period may leave absent.
AlertState == [ severity : {"WARN", "PAGE"}, firing : BOOLEAN, failStreak : Nat,
                passStreak : Nat, quietFor : Nat \cup {NULL} ]

ASSUME NullAssumption == NULL \notin Nat /\ NULL \notin AlertState

monitorVars == <<condition, states, uptime, heard, page, troubles, failedFor, blockedFor, upFor, worst>>

Troubled(n) == troubles + n <= MaxTroubles /\ troubles' = troubles + n

capped(n, bound_) == IF n < bound_ THEN n ELSE bound_

Key(r) == <<r.check, r.subject>>
failing(r) == r.status \in {"fail", "error"}

\* The failing results of a tick, by key.  A passing one and a key that is not
\* reported at all are the same to the engine: every check counts as having run.
failures(c, blind) ==
  LET bad == {r \in runChecks(Readings[c], Config, blind) : failing(r)}
  IN  [k \in {Key(r) : r \in bad} |-> CHOOSE r \in bad : Key(r) = k]

report == [c \in Conditions |-> [b \in Faults[c] |-> failures(c, b)]]

failAfter(check) == IF check = "vault.solvency" THEN 1 ELSE FailAfter

-----------------------------------------------------------------------------
(* AlertEngine.                                                            *)

\* A step of the engine on one key: the state it leaves (NULL: none) and the event
\* it emits ("none": nothing).
Quietly(s)     == [state |-> s, event |-> "none"]
Emits(s, kind) == [state |-> [s EXCEPT !.quietFor = 0], event |-> kind]

fresh(r) == [ severity |-> r.severity, firing |-> FALSE, failStreak |-> 0,
              passStreak |-> 0, quietFor |-> NULL ]

\* Mutant: what was announced once is not repeated.
noticeOnce(s, escalated, inGrace) ==
  IF ~s.firing THEN IF inGrace THEN "none" ELSE "firing"
  ELSE IF escalated THEN "firing"
  ELSE IF ~inGrace /\ s.quietFor = NULL THEN "firing" ELSE "none"

\* Mutant: a worse result of an alert that is already firing is only a state change.
noticeSilent(s, escalated, inGrace) ==
  IF inGrace THEN "none"
  ELSE IF ~s.firing \/ s.quietFor = NULL THEN "firing"
  ELSE IF s.quietFor >= Renotify THEN "reminder" ELSE "none"

\* The event of a failing result whose streak is long enough.  In the grace period the
\* state is kept and only an escalation is announced.
notice(s, escalated, inGrace) ==
  IF ~s.firing THEN IF inGrace THEN "none" ELSE "firing"
  ELSE IF escalated THEN "firing"
  ELSE IF inGrace THEN "none"
  ELSE IF s.quietFor = NULL THEN "firing"
  ELSE IF s.quietFor >= Renotify THEN "reminder" ELSE "none"

onFail(prev, r, inGrace) ==
  LET old == IF prev = NULL THEN fresh(r) ELSE prev
      escalated == old.firing /\ r.severity = "PAGE" /\ old.severity = "WARN"
      s    == [old EXCEPT !.failStreak = capped(@ + 1, failAfter(r.check)),
                          !.passStreak = 0, !.severity = r.severity]
      kind == notice(s, escalated, inGrace)
      on   == [s EXCEPT !.firing = TRUE]
  IN  IF ~s.firing /\ s.failStreak < failAfter(r.check) THEN Quietly(s)
      ELSE IF kind = "none" THEN Quietly(on) ELSE Emits(on, kind)

\* A pass, a skip, or a key its check no longer reports.
onPass(prev) ==
  IF prev = NULL THEN Quietly(NULL)
  ELSE LET s == [prev EXCEPT !.passStreak = @ + 1, !.failStreak = 0]
       IN  IF s.passStreak < ResolveAfter THEN Quietly(s)
           ELSE [ state |-> NULL,
                  event |-> IF s.firing /\ s.quietFor # NULL THEN "resolved" ELSE "none" ]

observe(results, inGrace) ==
  LET aged(k) == IF k \notin DOMAIN states THEN NULL
                 ELSE IF states[k].quietFor = NULL THEN states[k]
                 ELSE [states[k] EXCEPT !.quietFor = capped(@ + 1, Renotify)]
  IN  [k \in DOMAIN results \cup DOMAIN states |->
         IF k \in DOMAIN results THEN onFail(aged(k), results[k], inGrace) ELSE onPass(aged(k))]

overallLevel(ss) ==
  IF \E k \in DOMAIN ss : ss[k].firing /\ ss[k].severity = "PAGE" THEN "PAGE"
  ELSE IF \E k \in DOMAIN ss : ss[k].firing THEN "WARN" ELSE "OK"

\* exposition.ts: what /status and /metrics show of the last tick.
statusJson == IF uptime = 0 THEN "starting" ELSE overallLevel(states)

prometheus ==
  LET firing(severity) == {k \in DOMAIN states : states[k].firing /\ states[k].severity = severity}
  IN  [ level  |-> CASE overallLevel(states) = "OK" -> 0
                     [] overallLevel(states) = "WARN" -> 1
                     [] overallLevel(states) = "PAGE" -> 2,
        firing |-> [severity \in {"PAGE", "WARN"} |-> Cardinality(firing(severity))] ]

-----------------------------------------------------------------------------
(* Monitor.tick.                                                           *)

\* fanout: the log line is always written; the webhook's failure is caught and
\* counted, and the engine has already noted the event as sent.
deliver(steps, up) ==
  LET sent == {k \in DOMAIN steps : steps[k].event # "none" /\ up}
      severity(k) == IF steps[k].state = NULL THEN states[k].severity ELSE steps[k].state.severity
  IN  [k \in DOMAIN heard \cup sent |->
         IF k \in sent THEN [kind |-> steps[k].event, severity |-> severity(k)] ELSE heard[k]]

\* persist: one upsert; a database that refuses it is logged.
writeStatus(ss, blind) == IF "db" \in blind THEN page ELSE overallLevel(ss)

\* The accounts nobody can liquidate, and what the gate and the reconciler say, in each
\* condition.
unvalued ==
  [c \in Conditions |-> \E a \in positionHolders(Readings[c]) : accountHealth(Readings[c], a) = NULL]

goesLive == [c \in Conditions |-> venueGate(Readings[c], Config, FALSE, {})]

\* The reconciler's fills that will not heal by themselves and are not on the monitor's list.
overlooked ==
  [c \in Conditions |->
     {f \in scanUnaccountedFills(Readings[c], Config.pendingFillSecs) :
        f.recorded /\ <<"settlement.fills", f.kind>> \notin DOMAIN report[c][{}]}]

Watches(results, blind, up) ==
  LET count(k) == IF k \in DOMAIN failedFor THEN failedFor[k] ELSE 0
  IN  /\ failedFor' = [k \in DOMAIN results |-> capped(count(k) + 1, failAfter(k[1]))]
      /\ worst' = [k \in DOMAIN results |-> results[k].severity]
      /\ upFor' = IF up THEN capped(upFor + 1, Renotify) ELSE 0
      /\ blockedFor' =
           IF unvalued[condition] /\ blind = {}
           THEN capped(blockedFor + 1, FailAfter) ELSE 0

MonitorTick(blind, up) ==
  LET results == report[condition][blind]
      steps   == observe(results, uptime < Grace)
      after   == [k \in {j \in DOMAIN steps : steps[j].state # NULL} |-> steps[k].state]
  IN  /\ Troubled((IF blind = {} THEN 0 ELSE 1) + (IF up THEN 0 ELSE 1))
      /\ states' = after
      /\ heard' = deliver(steps, up)
      /\ page' = writeStatus(after, blind)
      /\ uptime' = capped(uptime + 1, Grace + 1)
      /\ Watches(results, blind, up)
      /\ UNCHANGED condition

\* The protocol changes between two ticks.
Become(c) ==
  /\ c \in Leads[condition]
  /\ Troubled(1)
  /\ condition' = c
  /\ UNCHANGED <<states, uptime, heard, page, failedFor, blockedFor, upFor, worst>>

\* The process starts again: a new Monitor with an empty AlertEngine.
Restart ==
  /\ uptime > 0
  /\ Troubled(1)
  /\ states' = <<>>
  /\ uptime' = 0
  /\ failedFor' = <<>>
  /\ blockedFor' = 0
  /\ worst' = <<>>
  /\ UNCHANGED <<condition, heard, page, upFor>>

MonitorInit ==
  /\ condition \in Conditions /\ Leads[condition] # {}
  /\ states = <<>> /\ heard = <<>> /\ page = "OK"
  /\ uptime = 0 /\ troubles = 0
  /\ failedFor = <<>> /\ worst = <<>> /\ blockedFor = 0 /\ upFor = 0

MonitorNext ==
  \/ \E blind \in Faults[condition], up \in BOOLEAN : MonitorTick(blind, up)
  \/ \E c \in Conditions : Become(c)
  \/ Restart

MonitorSpec == MonitorInit /\ [][MonitorNext]_monitorVars
-----------------------------------------------------------------------------
(* What the alerts promise.                                                *)

\* What the reader of the webhook last heard about a key.
Heard(k) == IF k \in DOMAIN heard THEN heard[k] ELSE [kind |-> "none", severity |-> "none"]
Told(k) == Heard(k).kind \in {"firing", "reminder"}

\* A tick has run after the grace period.
PastGrace == uptime > Grace

\* The webhook has answered long enough for a lost announcement to be repeated.
Reachable == upFor = Renotify

\* A key reported failing in failAfter consecutive ticks, after the grace period, is
\* known to the reader of the webhook: the announcement reached it, or was lost and a
\* reminder has since been sent.  observe, onFail and fanout together decide this: the
\* engine marks an event as sent before it is delivered, and a restart forgets it.  A
\* fill the settlement reconciler records as unaccounted is one of those failures.
FailureHeard ==
  /\ \A k \in DOMAIN failedFor :
       failedFor[k] = failAfter(k[1]) /\ PastGrace /\ Reachable => Told(k)
  /\ overlooked[condition] = {}

\* A problem that is at PAGE now is known as a PAGE, also when it began as a WARN
\* (a low balance that runs out, a check that could not run and then fails), when
\* the WARN was announced before a restart, or when its first page was lost.  /status
\* and /metrics say so too, also in the grace period and when nothing is delivered.
PageNotMasked ==
  \A k \in DOMAIN failedFor :
    failedFor[k] = failAfter(k[1]) /\ worst[k] = "PAGE"
    => /\ statusJson = "PAGE"
       /\ prometheus.level = 2 /\ prometheus.firing["PAGE"] > 0
       /\ PastGrace /\ Reachable => Heard(k).severity = "PAGE"

\* A trader whose account the Engine cannot value, because the oracle refuses a price
\* it holds a position in, is paged about, whatever the market's own state: the checks
\* of oracle.ts look at active markets only, a delisted one still holds positions.  The
\* go-live gate, which looks once, does not let a venue with such a trader go live.
BlockedTraderPaged ==
  /\ blockedFor = FailAfter /\ PastGrace /\ Reachable
       => \E k \in DOMAIN heard : Told(k) /\ heard[k].severity = "PAGE" /\ k \in DOMAIN states
  /\ unvalued[condition] => ~goesLive[condition]
=============================================================================
