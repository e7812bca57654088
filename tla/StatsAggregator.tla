-------------------------- MODULE StatsAggregator --------------------------
(***************************************************************************)
(* The statistics aggregator (client/lib/stats): a cursor decides which    *)
(* addresses to look at, each is then recomputed from all its events.      *)
(* What is stored for an address is abstracted to what it was computed     *)
(* from: the events, and the UTC day whose windows were used.  The block   *)
(* hash guard never fires on a chain with deterministic finality.          *)
(***************************************************************************)
EXTENDS Indexer, Integers

CONSTANTS
  Addresses,
  Touches,       \* the addresses each event moves
  Periods,       \* periods of TraderStat but ALL
  WINDOW_DAYS,   \* their lengths
  Absent,
  MaxDay         \* bound: days

ASSUME StatsAssumption ==
  /\ Touches \in [Events -> SUBSET Addresses]
  /\ WINDOW_DAYS \in [Periods -> Nat \ {0}]
  /\ \E p \in Periods : \A q \in Periods : WINDOW_DAYS[q] <= WINDOW_DAYS[p]
  /\ Absent \notin Nat \cup [seen : SUBSET Events, on : Nat]
  /\ MaxDay \in Nat

VARIABLES
  day,       \* the UTC day
  dayOf,     \* the day of each event's block
  rows,      \* what is stored for each address
  statsAt,   \* BlockCursor, stream "stats"
  pass,      \* the aggregator's memory
  boardDay   \* history: the day of the last finished pass

statsVars == <<day, dayOf, rows, statsAt, pass, boardDay>>

Resting == [pc |-> "idle", head |-> 0, day |-> 0, todo |-> {}, loaded |-> [a \in Addresses |-> Absent]]

StatsInit ==
  /\ day = 0 /\ boardDay = 0
  /\ dayOf = [e \in Events |-> 0]
  /\ rows = [a \in Addresses |-> Absent]
  /\ statsAt = Absent
  /\ pass = Resting

windowStart(p, d) == d - (WINDOW_DAYS[p] - 1)

\* loadActivity and computeAddressStats: every settled event of the address.
computed(a, d) ==
  LET seen == {e \in tape : a \in Touches[e]}
  IN  IF seen = {} THEN Absent ELSE [seen |-> seen, on |-> d]

\* The TraderStat rows of an address: one per period it was active in.
traderStats(row) ==
  IF row = Absent THEN {}
  ELSE {r \in [period : Periods, start : {windowStart(p, row.on) : p \in Periods}, events : SUBSET row.seen] :
          /\ r.start = windowStart(r.period, row.on)
          /\ r.events = {e \in row.seen : dayOf[e] >= r.start}
          /\ r.events # {}}

dirtyAddressesSince(after, upTo) == UNION {Touches[e] : e \in {x \in tape : x > after /\ x <= upTo}}

addressesWithStaleDay(d) ==
  {a \in Addresses : \E r \in traderStats(rows[a]) : \A p \in Periods : r.start > windowStart(p, d)}

\* periodStart <> ALL(starts): compared with the start of every current window.
addressesWithStaleWindow(d) ==
  {a \in Addresses : \E r \in traderStats(rows[a]) : \A p \in Periods : r.start # windowStart(p, d)}

\* indexedHead: the newest stored event.
indexedHead == Max({0} \cup stored)

\* tick: the head, the cursor and the work list; without a cursor everything is
\* recomputed, and so it is once a night.
Begin ==
  /\ pass.pc = "idle" /\ indexedHead > 0
  /\ IF statsAt = Absent
     THEN pass' = [Resting EXCEPT !.pc = "load", !.head = indexedHead, !.day = day]
     ELSE pass' = [Resting EXCEPT !.pc = "recompute", !.head = indexedHead, !.day = day,
                                  !.todo = dirtyAddressesSince(statsAt, indexedHead)
                                             \cup addressesWithStaleWindow(day)]
  /\ UNCHANGED <<day, dayOf, rows, statsAt, boardDay, faults>>

\* One batch of recompute, in a transaction of its own.
Recompute ==
  /\ pass.pc = "recompute"
  /\ \E a \in pass.todo :
       /\ rows' = [rows EXCEPT ![a] = computed(a, pass.day)]
       /\ pass' = [pass EXCEPT !.todo = @ \ {a}]
  /\ UNCHANGED <<day, dayOf, statsAt, boardDay, faults>>

Advance ==
  /\ pass.pc = "recompute" /\ pass.todo = {}
  /\ statsAt' = pass.head
  /\ boardDay' = pass.day
  /\ \/ pass' = Resting
     \/ pass.day > boardDay /\ pass' = [Resting EXCEPT !.pc = "load", !.head = indexedHead, !.day = pass.day]
  /\ UNCHANGED <<day, dayOf, rows, faults>>

\* rebuild: reads every address, then replaces all rows and the cursor together.
Load ==
  /\ pass.pc = "load"
  /\ pass' = [pass EXCEPT !.pc = "replace", !.loaded = [a \in Addresses |-> computed(a, pass.day)]]
  /\ UNCHANGED <<day, dayOf, rows, statsAt, boardDay, faults>>

Replace ==
  /\ pass.pc = "replace"
  /\ rows' = pass.loaded
  /\ statsAt' = pass.head
  /\ boardDay' = pass.day
  /\ pass' = Resting
  /\ UNCHANGED <<day, dayOf, faults>>

\* A failed statement or a dead process: the pass is abandoned where it is.
Abandon ==
  /\ pass.pc # "idle" /\ fault
  /\ pass' = Resting
  /\ UNCHANGED <<day, dayOf, rows, statsAt, boardDay>>

\* Midnight; the aggregator may have been down for days.
Midnight ==
  /\ day < MaxDay
  /\ day' = day + 1
  /\ UNCHANGED <<dayOf, rows, statsAt, pass, boardDay, faults>>

StatsStep == Begin \/ Recompute \/ Advance \/ Load \/ Replace \/ Abandon \/ Midnight

-----------------------------------------------------------------------------

\* Incremental passes lose nothing and keep nothing: whatever the indexer commits
\* meanwhile and wherever a pass is abandoned, every event up to the stats cursor is
\* in the rows of the addresses it moves; and once a pass has finished, the stored
\* boards are those a full recompute of that day would write.
StatsExact ==
  \A a \in Addresses :
    LET row == rows[a]
        done == {e \in tape : e <= statsAt /\ a \in Touches[e]}
    IN  statsAt # Absent =>
          /\ done # {} => row # Absent /\ done \subseteq row.seen
          /\ row # Absent /\ pass.pc = "idle" =>
               traderStats(row) = traderStats([row EXCEPT !.on = Max({boardDay, row.on})])
=============================================================================
