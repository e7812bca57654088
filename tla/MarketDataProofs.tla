-------------------------- MODULE MarketDataProofs ---------------------------
(***************************************************************************)
(* The read side proved for any number of indexers, sockets and browsers:  *)
(* the stream of prints implements TapeFeed, subscribers of a snapshot     *)
(* agree with the frame the server compares with, no screen that listens   *)
(* is left without a way back, the statistics are those of a full          *)
(* recompute, and the account stream sends every write to a fill once.     *)
(*                                                                         *)
(* The parts of the invariant: what is stored is an initial segment of the *)
(* chain, which is why a page of the tape has no hole (Stored); an answer  *)
(* in flight starts where its cursor stood (Answered); whoever was sent    *)
(* prints and is still connected was sent the one at the cursor (AtCursor);*)
(* a connection that is gone has neither channels nor frames (Clean); what *)
(* a row of the statistics counts, and which days it may leave out         *)
(* (StatsKept, InPass); what the fills stream remembers of what it sent    *)
(* (Remembered), what its page may lack (Page), and what every follower    *)
(* has by now (Covered).                                                   *)
(***************************************************************************)
EXTENDS MarketData, Sums

-----------------------------------------------------------------------------
(* The database.                                                           *)

\* Everything before a stored event is stored.
closedBelow(S) == \A e \in S : 1..e \subseteq S

\* A window asked for begins right behind a stored event.
Window(m) ==
  /\ m.window \in Nat \ {0}
  /\ m.pc = "logs" => /\ m.from \in 1..m.to /\ m.to \in 1..head
                      /\ m.from - 1 \in {0} \cup stored
  /\ m.pc \in {"idle", "logs"}

Stored ==
  /\ head \in 0..MaxHead
  /\ stored \subseteq 1..head /\ closedBelow(stored)
  /\ cursor \in {0} \cup stored
  /\ applied \in [Events -> Nat]
  /\ \A e \in Events : applied[e] > 0 <=> e \in stored
  /\ ix \in [Indexers -> [pc : {"idle", "logs"}, from : Nat, to : Nat, window : Nat \ {0}]]
  /\ \A i \in Indexers : Window(ix[i])

\* The tape is what is stored.
LEMMA TapeIsStored == ASSUME Stored PROVE tape = stored /\ IsFiniteSet(stored)
<1>0. head \in Nat /\ MaxHead \in Nat /\ head <= MaxHead /\ stored \subseteq 1..head
  BY IndexerAssumption DEF Stored
<1>1. IsFiniteSet(1..head) /\ stored \subseteq Events
  BY <1>0, FS_Interval DEF Events
<1>2. IsFiniteSet(stored)
  BY <1>0, <1>1, FS_Subset
<1> QED BY <1>1, <1>2 DEF Stored, tape

\* How far a closed set reaches is how many elements it has.
LEMMA Reaches ==
  ASSUME NEW S \in SUBSET Nat, IsFiniteSet(S), closedBelow(S), NEW e \in S, e # 0
  PROVE  e \in 1..Cardinality(S)
<1>1. IsFiniteSet(1..e) /\ Cardinality(1..e) = e
  BY FS_Interval
<1>2. 1..e \subseteq S
  BY DEF closedBelow
<1>3. Cardinality(1..e) <= Cardinality(S) /\ Cardinality(S) \in Nat
  BY <1>2, FS_Subset, FS_CardinalityType
<1> QED BY <1>1, <1>3

\* The least of two numbers.
LEMMA LeastOfTwo ==
  ASSUME NEW a \in Nat, NEW b \in Nat
  PROVE  Min({a, b}) \in {a, b} /\ Min({a, b}) <= a /\ Min({a, b}) <= b
<1>1. {a, b} \in SUBSET Nat /\ {a, b} # {}
  OBVIOUS
<1> QED BY <1>1, Least

\* Storing a window keeps the store closed, with the cursor at its end.
LEMMA StoreKeeps ==
  ASSUME Stored, NEW i \in Indexers, ix[i].pc = "logs", store(i), head' = head
  PROVE  /\ stored \subseteq stored' /\ stored' \subseteq 1..head /\ closedBelow(stored')
         /\ cursor' \in stored' /\ applied' \in [Events -> Nat]
         /\ \A e \in Events : applied'[e] > 0 <=> e \in stored'
<1>1. PICK f \in Nat, t \in Nat : f = ix[i].from /\ t = ix[i].to /\ 1 <= f /\ f <= t /\ t <= head
                                  /\ f - 1 \in {0} \cup stored
  BY DEF Stored, Window
<1>2. stored' = stored \cup (f..t) /\ cursor' = t
  BY <1>1 DEF store
<1>3. closedBelow(stored')
  <2>1. ASSUME NEW e \in stored', NEW d \in 1..e PROVE d \in stored'
    <3>1. CASE e \in stored
      BY <1>2, <2>1, <3>1 DEF Stored, closedBelow
    <3>2. CASE e \in f..t
      <4>1. CASE d >= f
        BY <1>2, <2>1, <3>2, <4>1
      <4>2. CASE d < f
        <5>1. d \in 1..(f - 1) /\ f - 1 \in stored
          BY <1>1, <2>1, <3>2, <4>2
        <5> QED BY <1>2, <5>1 DEF Stored, closedBelow
      <4> QED BY <1>1, <2>1, <3>2, <4>1, <4>2
    <3> QED BY <1>2, <2>1, <3>1, <3>2
  <2> QED BY <2>1 DEF closedBelow
<1>4. applied' = [e \in Events |-> applied[e] + (IF e \in (f..t) \ stored THEN 1 ELSE 0)]
  BY <1>1 DEF store, inserted
<1>5. applied' \in [Events -> Nat] /\ \A e \in Events : applied'[e] > 0 <=> e \in stored'
  BY <1>2, <1>4 DEF Stored
<1>6. stored' \subseteq 1..head /\ t \in f..t
  <2>1. head \in Nat /\ stored \subseteq 1..head
    BY IndexerAssumption DEF Stored
  <2>2. f..t \subseteq 1..head /\ t \in f..t
    BY <1>1, <2>1
  <2> QED BY <1>2, <2>1, <2>2
<1> QED BY <1>2, <1>3, <1>5, <1>6

\* A window in flight stays one behind a store that grows.
LEMMA WindowsKeep ==
  ASSUME NEW m, Window(m), stored \subseteq stored', head' \in Nat, head <= head', head \in Nat
  PROVE  Window(m)'
  BY DEF Window

\* One step of an indexer.
LEMMA IndexerKeeps ==
  ASSUME Stored, NEW i \in Indexers, Fetch(i) \/ Commit(i) \/ CommitFails(i) \/ IndexerCrash(i)
  PROVE  Stored' /\ stored \subseteq stored'
<1>0. head \in Nat /\ MaxHead \in Nat /\ MaxWindow \in Nat \ {0} /\ stored \in SUBSET Nat
      /\ cursor \in Nat /\ ix[i].window \in Nat \ {0}
  BY IndexerAssumption DEF Stored
<1>1. CASE Fetch(i)
  <2>1. PICK w \in narrowed(ix[i].window) :
          ix' = [ix EXCEPT ![i] = [ pc |-> "logs", from |-> cursor + 1,
                                    to |-> Min({head, cursor + w}), window |-> w ]]
    BY <1>1 DEF Fetch
  <2>2. w \in Nat \ {0}
    BY <1>0, <2>1 DEF narrowed
  <2>3. PICK t \in Nat : t = Min({head, cursor + w})
    <3>1. PICK n \in Nat : n = cursor + w
      BY <1>0, <2>2
    <3> QED BY <1>0, <3>1, LeastOfTwo
  <2>4. t <= head /\ cursor + 1 <= t
    <3>1. PICK n \in Nat : n = cursor + w /\ cursor + 1 <= n
      BY <1>0, <2>2
    <3>2. cursor + 1 <= head
      BY <1>0, <1>1 DEF Fetch
    <3> QED BY <1>0, <2>3, <3>1, <3>2, LeastOfTwo
  <2>5. /\ ix' \in [Indexers -> [pc : {"idle", "logs"}, from : Nat, to : Nat, window : Nat \ {0}]]
        /\ ix'[i] = [pc |-> "logs", from |-> cursor + 1, to |-> t, window |-> w]
        /\ \A j \in Indexers \ {i} : ix'[j] = ix[j]
    BY <1>0, <2>1, <2>2, <2>3 DEF Stored
  <2>6. head' = head /\ stored' = stored /\ applied' = applied /\ cursor' = cursor
    BY <1>1 DEF Fetch
  <2>7. Window(ix'[i])
    <3>1. cursor + 1 \in 1..t /\ t \in 1..head /\ (cursor + 1) - 1 = cursor
      BY <1>0, <2>3, <2>4
    <3> QED BY <2>2, <2>5, <3>1 DEF Stored, Window
  <2>8. (\A j \in Indexers : Window(ix[j]))'
    BY <2>5, <2>6, <2>7 DEF Stored, Window
  <2> QED BY <2>5, <2>6, <2>8 DEF Stored
<1>2. ASSUME NEW w \in Nat \ {0}, ix' = [ix EXCEPT ![i] = [Idle EXCEPT !.window = w]], head' = head,
             \/ UNCHANGED <<stored, applied, cursor>>
             \/ ix[i].pc = "logs" /\ store(i)
      PROVE  Stored' /\ stored \subseteq stored'
  <2>1. /\ ix' \in [Indexers -> [pc : {"idle", "logs"}, from : Nat, to : Nat, window : Nat \ {0}]]
        /\ ix'[i].pc = "idle" /\ ix'[i].window = w
        /\ \A j \in Indexers \ {i} : ix'[j] = ix[j]
    BY <1>2 DEF Stored, Idle
  <2>2. /\ stored \subseteq stored' /\ stored' \subseteq 1..head /\ closedBelow(stored')
        /\ cursor' \in {0} \cup stored' /\ applied' \in [Events -> Nat]
        /\ \A e \in Events : applied'[e] > 0 <=> e \in stored'
    BY <1>2, StoreKeeps DEF Stored
  <2>3. (\A j \in Indexers : Window(ix[j]))'
    BY <1>0, <1>2, <2>1, <2>2 DEF Stored, Window
  <2> QED BY <1>0, <1>2, <2>1, <2>2, <2>3 DEF Stored
<1>3. CASE Commit(i)
  <2>1. Min({MaxWindow, 2 * ix[i].window}) \in Nat \ {0}
    <3>1. PICK n \in Nat \ {0} : n = 2 * ix[i].window
      BY <1>0
    <3> QED BY <1>0, <3>1, LeastOfTwo
  <2> QED BY <1>2, <1>3, <2>1 DEF Commit
<1>4. CASE CommitFails(i)
  BY <1>0, <1>2, <1>4 DEF CommitFails
<1>5. CASE IndexerCrash(i)
  <2>1. [Idle EXCEPT !.window = MaxWindow] = Idle
    BY DEF Idle
  <2> QED BY <1>0, <1>2, <1>5, <2>1 DEF IndexerCrash
<1> QED BY <1>1, <1>3, <1>4, <1>5

\* The database after any step: nothing stored is ever lost.
LEMMA StoredStep ==
  ASSUME Stored, Next
  PROVE  Stored' /\ stored \subseteq stored'
<1>1. CASE Settle
  <2>1. head' = head + 1 /\ head < MaxHead /\ UNCHANGED <<stored, applied, cursor, ix>>
    BY <1>1 DEF Settle, Produce
  <2>2. (\A j \in Indexers : Window(ix[j]))'
    BY <2>1 DEF Stored, Window
  <2> QED BY <2>1, <2>2, IndexerAssumption DEF Stored
<1>2. CASE Index
  <2>1. Indexers # {}
    BY IndexerAssumption
  <2>2. \E i \in Indexers : Fetch(i) \/ Commit(i) \/ CommitFails(i) \/ IndexerCrash(i)
    BY <1>2, <2>1 DEF Index, IndexerStep
  <2> QED BY <2>2, IndexerKeeps
<1>3. CASE Rebuild
  <2>1. applied' = [e \in Events |-> IF e \in stored THEN 1 ELSE 0]
        /\ UNCHANGED <<head, stored, cursor, ix>>
    BY <1>3 DEF Rebuild, replayed
  <2> QED BY <2>1 DEF Stored, Window
<1>4. CASE UNCHANGED <<head, stored, applied, cursor, ix>>
  BY <1>4 DEF Stored, Window
<1>5. Source \/ Serve \/ Restart \/ Browse \/ Aggregate => UNCHANGED <<head, stored, applied, cursor, ix>>
  BY DEF Source, Serve, Restart, Browse, Aggregate, indexVars
<1> QED BY <1>1, <1>2, <1>3, <1>4, <1>5 DEF Next

-----------------------------------------------------------------------------
(* A page of the tape.                                                     *)

\* n keys in a row, behind c.
run(c, n) == [k \in 1..n |-> c + k]

\* The numbers of an interval are ordered by how many come before them.
LEMMA KeysOfInterval ==
  ASSUME NEW c \in Nat, NEW d \in Nat, c <= d
  PROVE  keys((c + 1)..d) = run(c, d - c)
<1> DEFINE S == (c + 1)..d
           rank(e) == Cardinality({x \in S : x < e})
<1>1. Cardinality(S) = d - c
  <2>1. Cardinality((c + 1)..d) = IF c + 1 > d THEN 0 ELSE d - (c + 1) + 1
    BY FS_Interval
  <2> QED BY <2>1
<1>2. ASSUME NEW e \in S PROVE rank(e) = e - (c + 1)
  <2>1. {x \in S : x < e} = (c + 1)..(e - 1)
    OBVIOUS
  <2>2. Cardinality((c + 1)..(e - 1)) = e - (c + 1)
    BY FS_Interval
  <2> QED BY <2>1, <2>2
<1>3. ASSUME NEW k \in 1..(d - c)
      PROVE  (CHOOSE e \in S : rank(e) = k - 1) = c + k
  <2>1. c + k \in S /\ rank(c + k) = k - 1
    BY <1>2
  <2>2. \A e \in S : rank(e) = k - 1 => e = c + k
    BY <1>2
  <2> HIDE DEF S, rank
  <2> QED BY <2>1, <2>2
<1>4. keys(S) = [k \in 1..Cardinality(S) |-> CHOOSE e \in S : rank(e) = k - 1]
  BY DEF keys
<1> HIDE DEF S, rank
<1>5. keys(S) = [k \in 1..(d - c) |-> c + k]
  BY <1>1, <1>3, <1>4
<1> QED BY <1>5 DEF run, S

\* So what comes after a key is a run from there, as long as a page, and stored.
LEMMA PageIsRun ==
  ASSUME Stored, NEW c \in Nat
  PROVE  \E n \in Nat : /\ tradesAfter(c) = run(c, n)
                        /\ \A k \in 1..n : c + k \in stored
<1>1. IsFiniteSet(stored) /\ tape = stored /\ stored \in SUBSET Nat /\ closedBelow(stored) /\ 0 \notin stored
  BY TapeIsStored DEF Stored
<1>2. PICK S : S = {e \in stored : e > c}
  OBVIOUS
<1>3. \E d \in Nat : c <= d /\ S = (c + 1)..d
  <2>1. CASE S = {}
    BY <2>1
  <2>2. CASE S # {}
    <3>1. PICK h \in Nat : stored \subseteq 1..h
      BY IndexerAssumption DEF Stored
    <3>2. PICK d \in S : \A e \in S : e <= d
      <4> DEFINE U == {u \in Nat : \A e \in S : e <= u}
      <4>1. U # {} /\ U \in SUBSET Nat
        BY <1>1, <1>2, <3>1
      <4>2. PICK u \in U : \A v \in U : u <= v
        BY <4>1, Least
      <4>3. CASE u \in S
        BY <4>2, <4>3
      <4>4. CASE u \notin S
        <5>1. \A e \in S : e \in Nat /\ e <= u /\ e # u
          BY <1>1, <1>2, <4>2, <4>4
        <5>2. u \in Nat /\ u > 0
          BY <2>2, <4>2, <5>1
        <5>3. u - 1 \in U
          BY <5>1, <5>2
        <5> QED BY <4>2, <5>2, <5>3
      <4> QED BY <4>3, <4>4
    <3>3. d \in stored /\ d > c /\ d \in Nat
      BY <1>1, <1>2, <3>2
    <3>4. S = (c + 1)..d
      <4>1. ASSUME NEW e \in (c + 1)..d PROVE e \in S
        BY <1>1, <1>2, <3>3 DEF closedBelow
      <4>2. ASSUME NEW e \in S PROVE e \in (c + 1)..d
        BY <1>1, <1>2, <3>2, <3>3
      <4> QED BY <4>1, <4>2
    <3> QED BY <3>3, <3>4
  <2> QED BY <2>1, <2>2
<1>4. PICK d \in Nat : c <= d /\ S = (c + 1)..d
  BY <1>3
<1>5. tradesAfter(c) = limited(run(c, d - c))
  BY <1>1, <1>2, <1>4, KeysOfInterval DEF tradesAfter
<1>6. PICK m \in Nat : m = d - c /\ run(c, m) \in Seq(Nat) /\ Len(run(c, m)) = m
  BY <1>4 DEF run
<1>7. PICK n \in Nat : n = Min({m, BatchLimit}) /\ n <= m
  <2>1. BatchLimit \in Nat
    BY StreamAssumption
  <2> QED BY <1>6, <2>1, LeastOfTwo
<1>8. limited(run(c, m)) = SubSeq(run(c, m), 1, n)
  BY <1>6, <1>7 DEF limited
<1>9. SubSeq(run(c, m), 1, n) = run(c, n)
  <2>1. SubSeq(run(c, m), 1, n) = [k \in 1..n |-> run(c, m)[k]]
    BY <1>6, <1>7
  <2>2. \A k \in 1..n : run(c, m)[k] = c + k
    BY <1>7 DEF run
  <2> QED BY <2>1, <2>2 DEF run
<1>10. \A k \in 1..n : c + k \in stored
  <2>1. \A k \in 1..n : c + k \in (c + 1)..d
    BY <1>6, <1>7, <1>4
  <2> QED BY <2>1, <1>2, <1>4
<1> QED BY <1>5, <1>6, <1>8, <1>9, <1>10

-----------------------------------------------------------------------------
(* The server.                                                             *)

prints(s) == sent[s]["trades"]
consecutive(f) == \A k \in 2..Len(f) : f[k] = f[k - 1] + 1

\* The tables of the server, each with its keys.
Tables ==
  /\ DOMAIN srv = {"pc", "reading", "read", "ready", "frames", "tradeCursor",
                   "fillCursor", "fillSeen", "fillsFrom"}
  /\ DOMAIN srv.frames = Snapshots
  /\ srv.tradeCursor \in Nat \cup {None}
  /\ conn \in [Sockets -> {"none", "open", "dropped"}]
  /\ channels \in [Sockets -> SUBSET Streams]
  /\ DOMAIN sent = Sockets
  /\ \A s \in Sockets : DOMAIN sent[s] = Streams /\ prints(s) \in Seq(Nat)

\* Who is gone is subscribed to nothing and was sent nothing that counts; who left the
\* tape was sent no prints.
Clean ==
  \A s \in Sockets :
    /\ conn[s] = "none" => channels[s] = {}
    /\ prints(s) # <<>> => "trades" \in channels[s]

\* What was sent is a run of stored prints, and goes as far as the cursor.
AtCursor ==
  \A s \in Sockets : prints(s) # <<>> =>
    /\ consecutive(prints(s))
    /\ conn[s] = "open" => srv.tradeCursor # None /\ Last(prints(s)) = srv.tradeCursor

\* An answer of the tape in flight: the tip for a cursor not set, else a run behind the
\* cursor, unless the cursor was dropped with the last subscriber meanwhile.
Answered ==
  srv.reading /\ srv.pc = "trades" =>
    \/ /\ srv.read.tip /\ srv.tradeCursor = None
       /\ \E n \in Nat : srv.read.rows = <<n>>
    \/ /\ ~srv.read.tip
       /\ \E c, n \in Nat : /\ srv.read.rows = run(c, n) /\ srv.tradeCursor \in {c, None}
                            /\ \A k \in 1..n : c + k \in stored

\* A subscriber of a snapshot stream was sent the server's frame.
Agreed ==
  \A s \in Sockets, ch \in Snapshots :
    conn[s] = "open" /\ ch \in channels[s] /\ srv.frames[ch] # None => sent[s][ch] = <<srv.frames[ch]>>

ServerInv == Tables /\ Clean /\ AtCursor /\ Answered /\ Agreed

\* What a step may send on the tape.
Feeds ==
  \A s \in Sockets :
    \/ prints(s)' \in {prints(s), <<>>}
    \/ /\ prints(s)' # <<>> /\ IsPrefix(prints(s), prints(s)') /\ consecutive(prints(s)')
       /\ Last(prints(s)') \in stored

ServerStep == ServerInv' /\ Feeds

\* Nothing of the server changes but what it polls, and that is not an answer.
LEMMA QuietKeeps ==
  ASSUME ServerInv, stored \subseteq stored',
         DOMAIN srv' = DOMAIN srv, srv'.tradeCursor = srv.tradeCursor,
         DOMAIN srv'.frames = DOMAIN srv.frames, \A ch \in Snapshots : srv'.frames[ch] = srv.frames[ch],
         srv'.reading /\ srv'.pc = "trades" => Answered',
         UNCHANGED <<conn, channels, sent>>
  PROVE  ServerStep
<1>1. Tables' /\ Clean' /\ AtCursor' /\ Agreed'
  BY DEF ServerInv, Tables, Clean, AtCursor, Agreed, prints
<1>2. Answered'
  BY DEF Answered
<1> QED BY <1>1, <1>2 DEF ServerStep, ServerInv, Feeds, prints

\* The server at rest, beside a database that grows.
LEMMA StillKeeps ==
  ASSUME ServerInv, stored \subseteq stored', UNCHANGED <<srv, conn, channels, sent>>
  PROVE  ServerStep
<1>1. srv'.reading /\ srv'.pc = "trades" => Answered'
  BY DEF ServerInv, Answered
<1> QED BY <1>1, QuietKeeps

\* onward leaves all but the place in the loop and the answer.
LEMMA Onward ==
  ASSUME NEW m, {"pc", "reading", "read"} \subseteq DOMAIN m
  PROVE  /\ DOMAIN onward(m) = DOMAIN m /\ onward(m).reading = FALSE
         /\ \A x \in DOMAIN m \ {"pc", "reading", "read"} : onward(m)[x] = m[x]
  BY DEF onward

\* Nobody listens, or a read begins or fails.
LEMMA SkipStep ==
  ASSUME ServerInv, Skip, stored' = stored
  PROVE  ServerStep
<1>0. PICK m : m = IF srv.pc = "fills" THEN [srv EXCEPT !.fillCursor = None, !.fillSeen = {}] ELSE srv
  OBVIOUS
<1>1. /\ srv' = onward(m) /\ DOMAIN m = DOMAIN srv
      /\ m.frames = srv.frames /\ m.tradeCursor = srv.tradeCursor
  BY <1>0 DEF Skip, ServerInv, Tables
<1>2. /\ DOMAIN srv' = DOMAIN srv /\ srv'.reading = FALSE
      /\ srv'.frames = srv.frames /\ srv'.tradeCursor = srv.tradeCursor
  BY <1>1, Onward DEF ServerInv, Tables
<1> QED BY <1>2, QuietKeeps DEF Skip

\* ws/server.ts, pollOnce: a read begins with its answer to come, or is passed over.
LEMMA ReadStep ==
  ASSUME Stored, ServerInv, Read, stored' = stored
  PROVE  ServerStep
<1>1. PICK m : m = begun(srv.pc)
  OBVIOUS
<1>2. DOMAIN m = DOMAIN srv /\ m.frames = srv.frames /\ m.tradeCursor = srv.tradeCursor /\ m.pc = srv.pc
  BY <1>1 DEF begun, ServerInv, Tables
<1>3. ~srv.reading /\ UNCHANGED <<conn, channels, sent>>
      /\ \/ srv' = [m EXCEPT !.reading = TRUE, !.read = answer(srv.pc, m)]
         \/ srv' = onward(m)
  BY <1>1 DEF Read
<1>4. CASE srv' = onward(m)
  <2>1. /\ DOMAIN srv' = DOMAIN srv /\ srv'.reading = FALSE
        /\ srv'.frames = srv.frames /\ srv'.tradeCursor = srv.tradeCursor
    BY <1>2, <1>4, Onward DEF ServerInv, Tables
  <2> QED BY <1>3, <2>1, QuietKeeps
<1>5. CASE srv' = [m EXCEPT !.reading = TRUE, !.read = answer(srv.pc, m)]
  <2>1. PICK a : a = answer(srv.pc, m)
    OBVIOUS
  <2>2. /\ DOMAIN srv' = DOMAIN srv /\ srv'.frames = srv.frames /\ srv'.pc = srv.pc
        /\ srv'.tradeCursor = srv.tradeCursor /\ srv'.read = a
    BY <1>2, <1>5, <2>1 DEF ServerInv, Tables
  <2>3. ASSUME srv.pc = "trades" PROVE Answered'
    <3>1. a = [ tip |-> m.tradeCursor = None,
                rows |-> IF m.tradeCursor = None THEN <<latestTradeKey>>
                         ELSE tradesAfter(m.tradeCursor) ]
      BY <2>1, <2>3 DEF answer, Snapshots
    <3>2. CASE srv.tradeCursor = None
      <4>1. latestTradeKey \in Nat
        <5>1. head \in Nat /\ stored \subseteq 1..head /\ tape = stored
          BY IndexerAssumption, TapeIsStored DEF Stored
        <5> DEFINE S == {0} \cup stored
        <5>2. S \in SUBSET Nat /\ S # {} /\ \A k \in S : k <= head
          BY <5>1
        <5>3. Max(S) \in S
          <6> HIDE DEF S
          <6> QED BY <5>1, <5>2, Greatest
        <5>4. Max(S) \in Nat /\ S = {0} \cup tape
          BY <5>1, <5>2, <5>3
        <5> QED BY <5>4 DEF latestTradeKey
      <4>2. PICK n \in Nat : n = latestTradeKey
        BY <4>1
      <4>3. a.tip /\ a.rows = <<n>>
        BY <1>2, <3>1, <3>2, <4>2
      <4> QED BY <2>2, <3>2, <4>3 DEF Answered
    <3>3. CASE srv.tradeCursor # None
      <4>1. PICK c \in Nat : c = srv.tradeCursor
        BY <3>3 DEF ServerInv, Tables
      <4>2. PICK n \in Nat : tradesAfter(c) = run(c, n) /\ \A k \in 1..n : c + k \in stored
        BY PageIsRun
      <4>3. a.tip = FALSE /\ a.rows = run(c, n)
        BY <1>2, <3>1, <3>3, <4>1, <4>2
      <4> QED BY <2>2, <4>1, <4>2, <4>3 DEF Answered
    <3> QED BY <3>2, <3>3
  <2> QED BY <1>3, <2>2, <2>3, QuietKeeps
<1> QED BY <1>3, <1>4, <1>5

\* What send does: a frame reaches whoever is open and keeps up.
Delivered(S, ch, values) ==
  /\ conn' \in [Sockets -> {"none", "open", "dropped"}] /\ DOMAIN sent' = Sockets
  /\ \A s \in Sockets :
       /\ conn'[s] = "open" => conn[s] = "open"
       /\ conn'[s] = "none" <=> conn[s] = "none"
       /\ DOMAIN sent'[s] = Streams
       /\ \A x \in Streams \ {ch} : sent'[s][x] = sent[s][x]
       /\ \/ sent'[s][ch] = sent[s][ch] /\ (s \in S => conn'[s] # "open")
          \/ /\ s \in S /\ conn[s] = "open"
             /\ sent'[s][ch] = IF ch \in Snapshots THEN values ELSE sent[s][ch] \o values

\* send delivers so, whichever of the receivers are too slow.
LEMMA Sent ==
  ASSUME Tables, NEW S \in SUBSET Sockets, NEW ch \in Streams, NEW values, send(S, ch, values)
  PROVE  Delivered(S, ch, values)
<1> DEFINE to == {s \in S : conn[s] = "open"}
           gone == {s \in to : slow(s, values)}
           new(s) == IF ch \in Snapshots THEN values ELSE sent[s][ch] \o values
<1>1. /\ conn' = [s \in Sockets |-> IF s \in gone THEN "dropped" ELSE conn[s]]
      /\ sent' = [s \in Sockets |-> IF s \notin to \ gone THEN sent[s] ELSE [sent[s] EXCEPT ![ch] = new(s)]]
  BY Zenon DEF send
<1>2. gone \subseteq to /\ to \subseteq S
  OBVIOUS
<1>3. \A s \in to : conn[s] = "open"
  OBVIOUS
<1>4. \A s \in S : conn[s] = "open" => s \in to
  OBVIOUS
<1> HIDE DEF to, gone, new
<1>5. conn' \in [Sockets -> {"none", "open", "dropped"}] /\ DOMAIN sent' = Sockets
  BY <1>1 DEF Tables
<1>6. ASSUME NEW s \in Sockets
      PROVE  /\ conn'[s] = "open" => conn[s] = "open"
             /\ conn'[s] = "none" <=> conn[s] = "none"
             /\ DOMAIN sent'[s] = Streams
             /\ \A x \in Streams \ {ch} : sent'[s][x] = sent[s][x]
             /\ \/ sent'[s][ch] = sent[s][ch] /\ (s \in S => conn'[s] # "open")
                \/ s \in S /\ conn[s] = "open" /\ sent'[s][ch] = new(s)
  <2>1. conn'[s] = IF s \in gone THEN "dropped" ELSE conn[s]
    BY <1>1
  <2>2. sent'[s] = IF s \notin to \ gone THEN sent[s] ELSE [sent[s] EXCEPT ![ch] = new(s)]
    BY <1>1
  <2>3. DOMAIN sent[s] = Streams
    BY DEF Tables
  <2>4. CASE s \in to \ gone
    <3>1. sent'[s] = [sent[s] EXCEPT ![ch] = new(s)]
      BY <2>2, <2>4
    <3> QED BY <1>2, <1>3, <2>1, <2>3, <2>4, <3>1
  <2>5. CASE s \notin to \ gone
    <3>1. sent'[s] = sent[s]
      BY <2>2, <2>5
    <3> QED BY <1>2, <1>3, <1>4, <2>1, <2>3, <2>5, <3>1
  <2> QED BY <2>4, <2>5
<1> QED BY <1>5, <1>6 DEF new, Delivered

\* A run goes on where the prints end.
LEMMA RunFollows ==
  ASSUME NEW f \in Seq(Nat), consecutive(f), NEW c \in Nat, NEW n \in Nat, n > 0,
         f = <<>> \/ Last(f) = c
  PROVE  LET g == f \o run(c, n)
         IN  g \in Seq(Nat) /\ g # <<>> /\ IsPrefix(f, g) /\ consecutive(g) /\ Last(g) = c + n
<1>1. PICK r \in Seq(Nat) : r = run(c, n) /\ Len(r) = n /\ \A k \in 1..n : r[k] = c + k
  <2>1. run(c, n) \in [1..n -> Nat] /\ \A k \in 1..n : run(c, n)[k] = c + k
    BY DEF run
  <2>2. run(c, n) \in Seq(Nat) /\ Len(run(c, n)) = n
    BY <2>1
  <2> QED BY <2>1, <2>2
<1>2. PICK m \in Nat : m = Len(f)
  OBVIOUS
<1>3. PICK g : /\ g = f \o r /\ g \in Seq(Nat) /\ Len(g) = m + n
               /\ \A k \in 1..m : g[k] = f[k]
               /\ \A k \in (m + 1)..(m + n) : g[k] = r[k - m]
  <2>1. PICK g : g = f \o r
    OBVIOUS
  <2>2. g \in Seq(Nat) /\ Len(g) = m + n
    <3>1. \A x, y \in Seq(Nat) : x \o y \in Seq(Nat) /\ Len(x \o y) = Len(x) + Len(y)
      OBVIOUS
    <3> QED BY <1>1, <1>2, <2>1, <3>1
  <2>3. \A k \in 1..(m + n) : g[k] = IF k <= m THEN f[k] ELSE r[k - m]
    <3>1. \A x, y \in Seq(Nat) : \A k \in 1..(Len(x) + Len(y)) :
            (x \o y)[k] = IF k <= Len(x) THEN x[k] ELSE y[k - Len(x)]
      OBVIOUS
    <3>2. Len(f) = m /\ Len(r) = n /\ f \in Seq(Nat) /\ r \in Seq(Nat)
      BY <1>1, <1>2
    <3>3. ASSUME NEW k \in 1..(m + n) PROVE (f \o r)[k] = IF k <= m THEN f[k] ELSE r[k - m]
      <4>1. k \in 1..(Len(f) + Len(r))
        BY <3>2
      <4>2. (f \o r)[k] = IF k <= Len(f) THEN f[k] ELSE r[k - Len(f)]
        BY <3>1, <3>2, <4>1
      <4> QED BY <3>2, <4>2
    <3> QED BY <2>1, <3>3
  <2>4. /\ \A k \in 1..m : g[k] = f[k]
        /\ \A k \in (m + 1)..(m + n) : g[k] = r[k - m]
    <3>1. \A k \in 1..m : k \in 1..(m + n) /\ k <= m
      BY <1>2
    <3>2. \A k \in (m + 1)..(m + n) : k \in 1..(m + n) /\ ~(k <= m)
      BY <1>2
    <3>3. ASSUME NEW k \in 1..m PROVE g[k] = f[k]
      BY <2>3, <3>1, Zenon
    <3>4. ASSUME NEW k \in (m + 1)..(m + n) PROVE g[k] = r[k - m]
      BY <2>3, <3>2, Zenon
    <3> QED BY <3>3, <3>4
  <2> QED BY <2>1, <2>2, <2>4
<1>4. g # <<>>
  BY <1>2, <1>3
<1>5. IsPrefix(f, g)
  <2>1. SubSeq(f, 1, m) = SubSeq(g, 1, m)
    BY <1>2, <1>3
  <2> QED BY <1>2, <1>3, <2>1 DEF IsPrefix
<1>6. \A k \in (m + 1)..(m + n) : g[k] = c + (k - m)
  BY <1>1, <1>2, <1>3
<1>7. m > 0 => f[m] = c
  BY <1>2 DEF Last
<1>8. \A k \in 2..m : g[k] = g[k - 1] + 1
  BY <1>2, <1>3 DEF consecutive
<1>9. consecutive(g)
  <2>1. ASSUME NEW k \in 2..(m + n) PROVE g[k] = g[k - 1] + 1
    <3>1. CASE k <= m
      BY <1>2, <1>8, <2>1, <3>1
    <3>2. CASE k = m + 1
      <4>1. g[m + 1] = c + 1 /\ m > 0
        <5>1. m + 1 \in (m + 1)..(m + n) /\ m > 0
          BY <1>2, <2>1, <3>2
        <5> QED BY <1>2, <1>6, <5>1
      <4>2. g[m] = c /\ k - 1 = m
        BY <1>2, <1>3, <1>7, <3>2, <4>1
      <4> QED BY <3>2, <4>1, <4>2
    <3>3. CASE k > m + 1
      <4>1. k \in (m + 1)..(m + n) /\ k - 1 \in (m + 1)..(m + n)
        BY <1>2, <2>1, <3>3
      <4>2. g[k] = c + (k - m) /\ g[k - 1] = c + ((k - 1) - m)
        BY <1>6, <4>1
      <4> QED BY <1>2, <2>1, <4>2
    <3> QED BY <1>2, <2>1, <3>1, <3>2, <3>3
  <2> QED BY <1>3, <2>1 DEF consecutive
<1>10. Last(g) = c + n
  BY <1>2, <1>3, <1>6 DEF Last
<1> QED BY <1>1, <1>3, <1>4, <1>5, <1>9, <1>10

\* A page of prints goes to every subscriber.
LEMMA ProcessTradesStep ==
  ASSUME ServerInv, ProcessTrades, stored' = stored
  PROVE  ServerStep
<1> DEFINE m == IF srv.read.rows = <<>> THEN srv ELSE [srv EXCEPT !.tradeCursor = Last(srv.read.rows)]
<1>1. srv.reading /\ srv.pc = "trades" /\ channels' = channels /\ srv' = onward(m)
  BY DEF ProcessTrades
<1>2. /\ DOMAIN m = DOMAIN srv /\ m.frames = srv.frames
      /\ m.tradeCursor = IF srv.read.rows = <<>> THEN srv.tradeCursor ELSE Last(srv.read.rows)
  BY DEF ServerInv, Tables
<1>3. /\ DOMAIN srv' = DOMAIN srv /\ srv'.frames = srv.frames /\ srv'.reading = FALSE
      /\ srv'.tradeCursor = IF srv.read.rows = <<>> THEN srv.tradeCursor ELSE Last(srv.read.rows)
  <2>1. {"pc", "reading", "read"} \subseteq DOMAIN m /\ {"frames", "tradeCursor"} \subseteq DOMAIN m
    BY <1>2 DEF ServerInv, Tables
  <2>2. DOMAIN srv' = DOMAIN m /\ srv'.reading = FALSE
        /\ srv'.frames = m.frames /\ srv'.tradeCursor = m.tradeCursor
    <3> HIDE DEF m
    <3> QED BY <1>1, <2>1, Onward
  <2> QED BY <1>2, <2>2
<1>4. CASE srv.read.tip
  <2>1. srv.tradeCursor = None /\ \E n \in Nat : srv.read.rows = <<n>>
    BY <1>1, <1>4 DEF ServerInv, Answered
  <2>2. srv'.tradeCursor \in Nat
    BY <1>3, <2>1 DEF Last
  <2>3. conn' = conn /\ sent' = sent
    BY <1>4 DEF ProcessTrades
  <2>4. /\ DOMAIN srv' = DOMAIN srv /\ srv'.frames = srv.frames /\ srv'.tradeCursor \in Nat
        /\ conn' = conn /\ sent' = sent /\ channels' = channels
    BY <1>1, <1>3, <2>2, <2>3
  <2>5. Tables' /\ Clean' /\ Agreed' /\ Feeds
    <3> HIDE DEF m
    <3> QED BY <2>4 DEF ServerInv, Tables, Clean, Agreed, Feeds, prints
  <2>6. AtCursor'
    BY <2>1, <2>3 DEF ServerInv, AtCursor, prints
  <2> QED BY <1>3, <2>5, <2>6 DEF ServerStep, ServerInv, Answered
<1>5. CASE ~srv.read.tip
  <2>1. PICK c \in Nat, n \in Nat : /\ srv.read.rows = run(c, n) /\ srv.tradeCursor \in {c, None}
                                    /\ \A k \in 1..n : c + k \in stored
    BY <1>1, <1>5 DEF ServerInv, Answered
  <2>2. PICK S \in SUBSET Sockets : S = subscribers("trades")
    BY DEF subscribers
  <2>3. send(S, "trades", run(c, n))
    BY <1>5, <2>1, <2>2 DEF ProcessTrades
  <2>4. Tables
    BY DEF ServerInv
  <2>5. /\ conn' \in [Sockets -> {"none", "open", "dropped"}] /\ DOMAIN sent' = Sockets
        /\ \A s \in Sockets :
              /\ conn'[s] = "open" => conn[s] = "open"
              /\ conn'[s] = "none" <=> conn[s] = "none"
              /\ DOMAIN sent'[s] = Streams
              /\ \A x \in Snapshots : sent'[s][x] = sent[s][x]
              /\ \/ prints(s)' = prints(s) /\ (s \in S => conn'[s] # "open")
                 \/ s \in S /\ conn[s] = "open" /\ prints(s)' = prints(s) \o run(c, n)
    <3>1. "trades" \in Streams /\ "trades" \notin Snapshots /\ Snapshots \subseteq Streams \ {"trades"}
      BY DEF Streams, Snapshots
    <3>2. Delivered(S, "trades", run(c, n))
      BY <2>3, <2>4, <3>1, Sent
    <3> HIDE DEF m
    <3> QED BY <3>1, <3>2 DEF prints, Delivered
  <2>6. Agreed'
    BY <1>1, <1>3, <2>5 DEF ServerInv, Agreed
  <2>7. CASE n = 0
    <3>1. run(c, n) = <<>>
      BY <2>7 DEF run
    <3>2. \A s \in Sockets : prints(s)' = prints(s)
      BY <2>4, <2>5, <3>1 DEF Tables
    <3>3. srv'.tradeCursor = srv.tradeCursor
      BY <1>3, <2>1, <3>1
    <3>4. Tables' /\ Clean' /\ Feeds
      <4> HIDE DEF m
      <4> QED BY <1>1, <1>3, <2>5, <3>2, <3>3 DEF ServerInv, Tables, Clean, Feeds
    <3>5. AtCursor'
      <4> HIDE DEF m
      <4> QED BY <2>5, <3>2, <3>3 DEF ServerInv, AtCursor
    <3> QED BY <3>5, <1>3, <2>6, <3>4 DEF ServerStep, ServerInv, Answered
  <2>8. CASE n > 0
    <3>1. run(c, n) # <<>> /\ Last(run(c, n)) = c + n /\ c + n \in Nat /\ c + n \in stored
      BY <2>1, <2>8 DEF run, Last
    <3>2. srv'.tradeCursor = c + n
      BY <1>3, <2>1, <3>1
    <3>3. ASSUME NEW s \in Sockets, s \in S, conn[s] = "open", prints(s)' = prints(s) \o run(c, n)
          PROVE  /\ prints(s)' \in Seq(Nat) /\ prints(s)' # <<>> /\ IsPrefix(prints(s), prints(s)')
                 /\ consecutive(prints(s)') /\ Last(prints(s)') = c + n
      <4>1. PICK f \in Seq(Nat) : f = prints(s)
        BY DEF ServerInv, Tables
      <4>2. consecutive(f) /\ (f = <<>> \/ Last(f) = c)
        BY <2>1, <3>3, <4>1 DEF ServerInv, AtCursor, consecutive
      <4> QED BY <2>8, <3>3, <4>1, <4>2, RunFollows
    <3>4. ASSUME NEW s \in Sockets
          PROVE  /\ DOMAIN sent'[s] = Streams /\ prints(s)' \in Seq(Nat)
                 /\ conn'[s] = "none" => channels'[s] = {}
                 /\ prints(s)' # <<>> => "trades" \in channels'[s]
      <4>1. s \in S => "trades" \in channels[s]
        BY <2>2 DEF subscribers
      <4> HIDE DEF m
      <4>2. prints(s)' \in Seq(Nat)
        BY <2>5, <3>3 DEF ServerInv, Tables
      <4>3. prints(s)' # <<>> => "trades" \in channels[s]
        BY <2>5, <4>1 DEF ServerInv, Clean
      <4> QED BY <1>1, <2>5, <4>2, <4>3 DEF ServerInv, Clean
    <3>5. ASSUME NEW s \in Sockets, prints(s)' # <<>>
          PROVE  /\ consecutive(prints(s)')
                 /\ conn'[s] = "open" => Last(prints(s)') = c + n
      <4>1. CASE s \in S /\ conn[s] = "open" /\ prints(s)' = prints(s) \o run(c, n)
        BY <3>3, <4>1
      <4>2. CASE prints(s)' = prints(s) /\ (s \in S => conn'[s] # "open")
        <5>1. consecutive(prints(s)')
          BY <3>5, <4>2 DEF ServerInv, AtCursor
        <5>2. conn'[s] # "open"
          <6>1. "trades" \in channels[s]
            BY <3>5, <4>2 DEF ServerInv, Clean
          <6> QED BY <2>2, <2>5, <4>2, <6>1 DEF subscribers
        <5> QED BY <5>1, <5>2
      <4> QED BY <2>5, <4>1, <4>2
    <3>6. c + n # None
      BY <3>1, StreamAssumption
    <3>7. AtCursor'
      BY <3>2, <3>5, <3>6 DEF AtCursor
    <3>8. Feeds
      BY <2>5, <3>1, <3>3 DEF Feeds
    <3>9. Tables' /\ Clean'
      BY <1>1, <1>3, <2>5, <3>1, <3>2, <3>4 DEF ServerInv, Tables, Clean
    <3> QED BY <1>3, <2>6, <3>7, <3>8, <3>9 DEF ServerStep, ServerInv, Answered
  <2> QED BY <2>7, <2>8
<1> QED BY <1>4, <1>5

\* A frame of another stream leaves the prints alone.
LEMMA OtherStreamKeeps ==
  ASSUME ServerInv, DOMAIN srv' = DOMAIN srv, DOMAIN srv'.frames = Snapshots,
         srv'.tradeCursor = srv.tradeCursor, channels' \in [Sockets -> SUBSET Streams],
         \A s \in Sockets : channels[s] \subseteq channels'[s] /\ (conn[s] = "none" => channels'[s] = {}),
         NEW S, NEW ch \in Streams \ {"trades"}, NEW values,
         Delivered(S, ch, values) \/ UNCHANGED <<conn, sent>>
  PROVE  Tables' /\ Clean' /\ AtCursor' /\ Feeds
<1>1. /\ conn' \in [Sockets -> {"none", "open", "dropped"}] /\ DOMAIN sent' = Sockets
      /\ \A s \in Sockets : /\ conn'[s] = "open" => conn[s] = "open"
                            /\ conn'[s] = "none" <=> conn[s] = "none"
                            /\ DOMAIN sent'[s] = Streams /\ prints(s)' = prints(s)
  <2>1. "trades" \in Streams
    BY DEF Streams
  <2>2. CASE UNCHANGED <<conn, sent>>
    BY <2>2 DEF ServerInv, Tables, prints
  <2>3. CASE Delivered(S, ch, values)
    BY <2>1, <2>3 DEF Delivered, prints
  <2> QED BY <2>2, <2>3
<1>2. Tables'
  BY <1>1 DEF ServerInv, Tables
<1>3. Clean'
  BY <1>1 DEF ServerInv, Clean
<1>4. AtCursor'
  BY <1>1 DEF ServerInv, AtCursor
<1>5. Feeds
  BY <1>1 DEF Feeds
<1> QED BY <1>2, <1>3, <1>4, <1>5

\* A snapshot is sent to everybody when it differs.
LEMMA ProcessSnapshotStep ==
  ASSUME ServerInv, ProcessSnapshot, stored' = stored
  PROVE  ServerStep
<1>1. PICK ch \in Snapshots : ch = srv.pc
  BY DEF ProcessSnapshot
<1>2. ch \in Streams \ {"trades"}
  BY DEF Streams, Snapshots
<1>3. PICK v : v = srv.read
  OBVIOUS
<1>4. PICK S \in SUBSET Sockets : S = subscribers(ch)
  BY DEF subscribers
<1>5. /\ srv' = onward([srv EXCEPT !.frames[ch] = v, !.ready = @ \/ ch = "markets"])
      /\ channels' = channels
      /\ IF srv.frames[ch] = v THEN UNCHANGED <<conn, sent>> ELSE send(S, ch, <<v>>)
  BY <1>1, <1>3, <1>4 DEF ProcessSnapshot
<1>6. /\ DOMAIN srv' = DOMAIN srv /\ srv'.reading = FALSE /\ srv'.tradeCursor = srv.tradeCursor
      /\ srv'.frames = [srv.frames EXCEPT ![ch] = v]
  <2> DEFINE m == [srv EXCEPT !.frames[ch] = v, !.ready = @ \/ ch = "markets"]
  <2>1. /\ DOMAIN m = DOMAIN srv /\ m.tradeCursor = srv.tradeCursor
        /\ m.frames = [srv.frames EXCEPT ![ch] = v]
    BY DEF ServerInv, Tables
  <2>0. {"pc", "reading", "read"} \subseteq DOMAIN m /\ {"frames", "tradeCursor"} \subseteq DOMAIN m
    BY <2>1 DEF ServerInv, Tables
  <2>2. DOMAIN srv' = DOMAIN m /\ srv'.reading = FALSE
        /\ srv'.tradeCursor = m.tradeCursor /\ srv'.frames = m.frames
    <3>1. srv' = onward(m)
      BY <1>5
    <3> HIDE DEF m
    <3> QED BY <2>0, <3>1, Onward
  <2> QED BY <2>1, <2>2
<1>7. CASE srv.frames[ch] = v
  <2>1. DOMAIN srv'.frames = DOMAIN srv.frames /\ \A x \in Snapshots : srv'.frames[x] = srv.frames[x]
    BY <1>6, <1>7 DEF ServerInv, Tables
  <2> QED BY <1>5, <1>6, <1>7, <2>1, QuietKeeps
<1>8. CASE srv.frames[ch] # v
  <2>1. Delivered(S, ch, <<v>>)
    BY <1>2, <1>5, <1>8, Sent DEF ServerInv
  <2>2. Tables' /\ Clean' /\ AtCursor' /\ Feeds
    <3>1. DOMAIN srv'.frames = Snapshots /\ channels \in [Sockets -> SUBSET Streams]
          /\ \A s \in Sockets : conn[s] = "none" => channels[s] = {}
      BY <1>6 DEF ServerInv, Tables, Clean
    <3> QED BY <1>2, <1>5, <1>6, <2>1, <3>1, OtherStreamKeeps
  <2>3. ASSUME NEW s \in Sockets, NEW x \in Snapshots,
               conn'[s] = "open", x \in channels'[s], srv'.frames[x] # None
        PROVE  sent'[s][x] = <<srv'.frames[x]>>
    <3>1. conn[s] = "open" /\ x \in channels[s]
      BY <1>5, <2>1, <2>3 DEF Delivered
    <3>2. CASE x = ch
      <4>1. s \in S
        BY <1>4, <3>1, <3>2 DEF subscribers
      <4>2. srv'.frames[ch] = v
        BY <1>6 DEF ServerInv, Tables
      <4>3. sent'[s][ch] = <<v>>
        BY <2>1, <2>3, <4>1 DEF Delivered
      <4> QED BY <3>2, <4>2, <4>3
    <3>3. CASE x # ch
      <4>1. srv'.frames[x] = srv.frames[x]
        BY <1>6, <3>3 DEF ServerInv, Tables
      <4>2. sent'[s][x] = sent[s][x]
        BY <2>1, <3>3 DEF Delivered, Streams
      <4> QED BY <2>3, <3>1, <4>1, <4>2 DEF ServerInv, Agreed
    <3> QED BY <3>2, <3>3
  <2>4. Agreed'
    BY <2>3 DEF Agreed
  <2> QED BY <1>6, <2>2, <2>4 DEF ServerStep, ServerInv, Answered
<1> QED BY <1>7, <1>8

\* Fills are another stream.
LEMMA ProcessFillsStep ==
  ASSUME ServerInv, ProcessFills, stored' = stored
  PROVE  ServerStep
<1>1. PICK values, place, seen :
        /\ srv' = onward([srv EXCEPT !.fillCursor = place, !.fillSeen = seen])
        /\ send(subscribers("fills"), "fills", values)
        /\ channels' = channels
  BY DEF ProcessFills
<1>2. /\ DOMAIN srv' = DOMAIN srv /\ srv'.reading = FALSE /\ srv'.tradeCursor = srv.tradeCursor
      /\ srv'.frames = srv.frames
  <2> DEFINE m == [srv EXCEPT !.fillCursor = place, !.fillSeen = seen]
  <2>1. /\ DOMAIN m = DOMAIN srv /\ m.tradeCursor = srv.tradeCursor /\ m.frames = srv.frames
        /\ {"pc", "reading", "read"} \subseteq DOMAIN m /\ {"frames", "tradeCursor"} \subseteq DOMAIN m
    BY DEF ServerInv, Tables
  <2>2. srv' = onward(m)
    BY <1>1
  <2> HIDE DEF m
  <2> QED BY <2>1, <2>2, Onward
<1>3. PICK S \in SUBSET Sockets : S = subscribers("fills")
  BY DEF subscribers
<1>4. "fills" \in Streams \ {"trades"} /\ "fills" \notin Snapshots /\ Snapshots \subseteq Streams \ {"fills"}
  BY DEF Streams, Snapshots
<1>5. Delivered(S, "fills", values)
  BY <1>1, <1>3, <1>4, Sent DEF ServerInv
<1>6. Tables' /\ Clean' /\ AtCursor' /\ Feeds
  <2>1. DOMAIN srv'.frames = Snapshots /\ channels \in [Sockets -> SUBSET Streams]
        /\ \A s \in Sockets : conn[s] = "none" => channels[s] = {}
    BY <1>2 DEF ServerInv, Tables, Clean
  <2> QED BY <1>1, <1>2, <1>4, <1>5, <2>1, OtherStreamKeeps
<1>7. Agreed'
  BY <1>1, <1>2, <1>4, <1>5 DEF ServerInv, Agreed, Delivered
<1> QED BY <1>2, <1>6, <1>7 DEF ServerStep, ServerInv, Answered

\* A subscription: of a snapshot, a newcomer gets the frame at once.
LEMMA SubscribeStep ==
  ASSUME ServerInv, NEW s \in Sockets, NEW ch \in Streams, subscribe(s, ch), conn[s] = "open",
         stored' = stored
  PROVE  ServerStep
<1>1. srv' = srv
  BY DEF subscribe
<1>2. CASE ch \in OfMarket /\ ~srv.ready
  <2>1. UNCHANGED <<conn, channels, sent>>
    BY <1>2 DEF subscribe
  <2> QED BY <1>1, <2>1, StillKeeps
<1>3. CASE ~(ch \in OfMarket /\ ~srv.ready)
  <2>0. channels' = [channels EXCEPT ![s] = @ \cup {ch}]
    BY <1>3 DEF subscribe
  <2>1. /\ channels' \in [Sockets -> SUBSET Streams] /\ channels'[s] = channels[s] \cup {ch}
        /\ \A r \in Sockets \ {s} : channels'[r] = channels[r]
    BY <2>0 DEF ServerInv, Tables
  <2>2. \A r \in Sockets : channels[r] \subseteq channels'[r] /\ (conn[r] = "none" => channels'[r] = {})
    BY <2>1 DEF ServerInv, Clean
  <2>3. Answered'
    BY <1>1 DEF ServerInv, Answered
  <2>4. CASE ch \in Snapshots /\ ch \notin channels[s] /\ srv.frames[ch] # None /\ send({s}, ch, <<srv.frames[ch]>>)
    <3>1. ch \in Streams \ {"trades"}
      BY <2>4 DEF Snapshots
    <3>2. Delivered({s}, ch, <<srv.frames[ch]>>)
      BY <2>4, Sent DEF ServerInv
    <3>3. Tables' /\ Clean' /\ AtCursor' /\ Feeds
      BY <1>1, <2>1, <2>2, <3>1, <3>2, OtherStreamKeeps DEF ServerInv, Tables
    <3>4. ASSUME NEW r \in Sockets, NEW x \in Snapshots,
                 conn'[r] = "open", x \in channels'[r], srv.frames[x] # None
          PROVE  sent'[r][x] = <<srv.frames[x]>>
      <4>1. conn[r] = "open"
        BY <3>2, <3>4 DEF Delivered
      <4>2. CASE r = s /\ x = ch
        BY <2>4, <3>2, <3>4, <4>2 DEF Delivered
      <4>3. CASE x # ch
        <5>1. sent'[r][x] = sent[r][x] /\ x \in channels[r]
          BY <2>1, <3>2, <3>4, <4>3 DEF Delivered, Streams
        <5> QED BY <3>4, <4>1, <5>1 DEF ServerInv, Agreed
      <4>4. CASE r # s
        <5>1. sent'[r][x] = sent[r][x] /\ x \in channels[r]
          BY <2>1, <3>2, <3>4, <4>4 DEF Delivered, Streams
        <5> QED BY <3>4, <4>1, <5>1 DEF ServerInv, Agreed
      <4> QED BY <4>2, <4>3, <4>4
    <3>5. Agreed'
      BY <1>1, <3>4 DEF Agreed
    <3> QED BY <2>3, <3>3, <3>5 DEF ServerStep, ServerInv
  <2>5. CASE /\ ~(ch \in Snapshots /\ ch \notin channels[s] /\ srv.frames[ch] # None)
             /\ UNCHANGED <<conn, sent>>
    <3>1. Tables' /\ Clean' /\ AtCursor' /\ Feeds
      <4>1. "fills" \in Streams \ {"trades"}
        BY DEF Streams
      <4> QED BY <1>1, <2>1, <2>2, <2>5, <4>1, OtherStreamKeeps DEF ServerInv, Tables
    <3>2. Agreed'
      <4>1. \A r \in Sockets, x \in Snapshots :
              x \in channels'[r] /\ srv.frames[x] # None => x \in channels[r]
        BY <2>1, <2>5
      <4> QED BY <1>1, <2>5, <4>1 DEF ServerInv, Agreed
    <3> QED BY <2>3, <3>1, <3>2 DEF ServerStep, ServerInv
  <2>6. IF ch \in Snapshots /\ ch \notin channels[s] /\ srv.frames[ch] # None
        THEN send({s}, ch, <<srv.frames[ch]>>) ELSE UNCHANGED <<conn, down, sent>>
    BY <1>3 DEF subscribe
  <2> QED BY <2>4, <2>5, <2>6
<1> QED BY <1>2, <1>3

\* A socket leaves a stream, or all of them.  If it was the last one on the tape, the
\* cursor is dropped and nobody else was sent prints.
LEMMA LeaveKeeps ==
  ASSUME ServerInv, stored' = stored, NEW s \in Sockets, NEW gone, gone \subseteq leaving(s, channels[s]),
         srv' = forgotten(gone),
         conn' \in [Sockets -> {"none", "open", "dropped"}], channels' \in [Sockets -> SUBSET Streams],
         DOMAIN sent' = Sockets, DOMAIN sent'[s] = Streams,
         \A r \in Sockets \ {s} : sent'[r] = sent[r] /\ conn'[r] = conn[r] /\ channels'[r] = channels[r],
         conn'[s] = conn[s] \/ (conn'[s] = "none" /\ channels'[s] = {}),
         prints(s)' = <<>> \/ (prints(s)' = prints(s) /\ conn'[s] = conn[s] /\ "trades" \in channels'[s]),
         "trades" \in gone => prints(s)' = <<>>,
         \A x \in channels'[s] : x \in channels[s] /\ sent'[s][x] = sent[s][x]
  PROVE  ServerStep
<1>1. /\ DOMAIN srv' = DOMAIN srv /\ srv'.pc = srv.pc /\ srv'.reading = srv.reading /\ srv'.read = srv.read
      /\ DOMAIN srv'.frames = Snapshots
      /\ \A x \in Snapshots : srv'.frames[x] \in {srv.frames[x], None}
      /\ srv'.tradeCursor = IF "trades" \in gone THEN None ELSE srv.tradeCursor
  BY DEF ServerInv, Tables, forgotten, Snapshots
<1>2. "trades" \in gone => \A r \in Sockets \ {s} : prints(r) = <<>>
  <2>1. ASSUME "trades" \in gone, NEW r \in Sockets \ {s}, prints(r) # <<>> PROVE FALSE
    <3>1. subscribers("trades") = {s}
      BY <2>1 DEF leaving
    <3>2. "trades" \in channels[r] /\ conn[r] # "none"
      BY <2>1 DEF ServerInv, Clean
    <3> QED BY <3>1, <3>2 DEF subscribers
  <2> QED BY <2>1
<1>3. \A r \in Sockets \ {s} : prints(r)' = prints(r)
  BY DEF prints
<1>4. \A r \in Sockets : prints(r)' \in {prints(r), <<>>}
  BY <1>3
<1>5. Tables'
  <2>1. \A r \in Sockets : DOMAIN sent'[r] = Streams /\ prints(r)' \in Seq(Nat)
    <3>1. <<>> \in Seq(Nat)
      OBVIOUS
    <3>2. \A r \in Sockets : prints(r) \in Seq(Nat) /\ DOMAIN sent[r] = Streams
      BY DEF ServerInv, Tables
    <3>3. \A r \in Sockets : prints(r)' \in Seq(Nat)
      BY <1>4, <3>1, <3>2
    <3>4. \A r \in Sockets : DOMAIN sent'[r] = Streams
      BY <3>2
    <3> QED BY <3>3, <3>4
  <2>2. srv'.tradeCursor \in Nat \cup {None}
    BY <1>1 DEF ServerInv, Tables
  <2> QED BY <1>1, <2>1, <2>2 DEF ServerInv, Tables
<1>6. Clean'
  BY <1>3 DEF ServerInv, Clean
<1>7. AtCursor'
  <2>1. ASSUME NEW r \in Sockets, prints(r)' # <<>>
        PROVE  prints(r)' = prints(r) /\ conn'[r] = conn[r] /\ "trades" \notin gone
    BY <1>2, <1>3, <2>1
  <2> QED BY <1>1, <2>1 DEF ServerInv, AtCursor
<1>8. Agreed'
  <2>1. \A r \in Sockets, x \in Snapshots :
          conn'[r] = "open" /\ x \in channels'[r] =>
            conn[r] = "open" /\ x \in channels[r] /\ sent'[r][x] = sent[r][x]
    OBVIOUS
  <2> QED BY <1>1, <2>1 DEF ServerInv, Agreed
<1>9. Answered'
  BY <1>1 DEF ServerInv, Answered
<1> QED BY <1>4, <1>5, <1>6, <1>7, <1>8, <1>9 DEF ServerStep, ServerInv, Feeds

\* One stream.
LEMMA UnsubscribeStep ==
  ASSUME ServerInv, NEW s \in Sockets, NEW ch \in Streams, unsubscribe(s, ch), stored' = stored
  PROVE  ServerStep
<1>1. PICK gone : gone = leaving(s, {ch})
  OBVIOUS
<1>2. gone \subseteq leaving(s, channels[s]) /\ gone \subseteq {ch}
  BY <1>1 DEF leaving
<1>3. /\ srv' = forgotten(gone) /\ conn' = conn
      /\ channels' = [channels EXCEPT ![s] = @ \ {ch}]
      /\ sent' = [sent EXCEPT ![s][ch] = <<>>]
  BY <1>1 DEF unsubscribe
<1>4. /\ conn' \in [Sockets -> {"none", "open", "dropped"}] /\ channels' \in [Sockets -> SUBSET Streams]
      /\ DOMAIN sent' = Sockets /\ DOMAIN sent'[s] = Streams
      /\ \A r \in Sockets \ {s} : sent'[r] = sent[r] /\ channels'[r] = channels[r]
      /\ channels'[s] = channels[s] \ {ch}
      /\ sent'[s][ch] = <<>> /\ \A x \in Streams \ {ch} : sent'[s][x] = sent[s][x]
  BY <1>3 DEF ServerInv, Tables
<1>5. prints(s)' = <<>> \/ (prints(s)' = prints(s) /\ "trades" \in channels'[s])
  <2>1. CASE ch = "trades"
    BY <1>4, <2>1 DEF prints
  <2>2. CASE ch # "trades"
    BY <1>4, <2>2 DEF prints, Streams, ServerInv, Clean
  <2> QED BY <2>1, <2>2
<1>6. "trades" \in gone => prints(s)' = <<>>
  BY <1>2, <1>4 DEF prints
<1>7. \A x \in channels'[s] : x \in channels[s] /\ sent'[s][x] = sent[s][x]
  BY <1>4 DEF ServerInv, Tables
<1> QED BY <1>2, <1>3, <1>4, <1>5, <1>6, <1>7, LeaveKeeps

\* All streams, with the connection.
LEMMA CloseStep ==
  ASSUME ServerInv, NEW s \in Sockets, close(s), stored' = stored
  PROVE  ServerStep
<1>1. PICK gone : gone = leaving(s, channels[s])
  OBVIOUS
<1>2. /\ srv' = forgotten(gone) /\ conn' = [conn EXCEPT ![s] = "none"]
      /\ channels' = [channels EXCEPT ![s] = {}] /\ sent' = [sent EXCEPT ![s] = Nothing]
  BY <1>1 DEF close
<1>3. /\ conn' \in [Sockets -> {"none", "open", "dropped"}] /\ channels' \in [Sockets -> SUBSET Streams]
      /\ DOMAIN sent' = Sockets /\ sent'[s] = Nothing
      /\ \A r \in Sockets \ {s} : sent'[r] = sent[r] /\ conn'[r] = conn[r] /\ channels'[r] = channels[r]
      /\ channels'[s] = {} /\ conn'[s] = "none"
  BY <1>2 DEF ServerInv, Tables
<1>4. DOMAIN Nothing = Streams /\ Nothing["trades"] = <<>>
  BY DEF Nothing, Streams
<1> QED BY <1>1, <1>2, <1>3, <1>4, LeaveKeeps DEF prints

\* Before anybody connects, and again when the process has died.
LEMMA FreshKeeps ==
  ASSUME stored \subseteq stored', DOMAIN sent = Sockets,
         srv' = Fresh, conn' = [s \in Sockets |-> "none"],
         channels' = [s \in Sockets |-> {}], sent' = [s \in Sockets |-> Nothing]
  PROVE  ServerStep
<1>1. DOMAIN Nothing = Streams /\ Nothing["trades"] = <<>>
  BY DEF Nothing, Streams
<1>2. \A s \in Sockets : DOMAIN sent'[s] = Streams /\ prints(s)' = <<>>
  BY <1>1 DEF prints
<1>3. Clean' /\ AtCursor' /\ Agreed'
  BY <1>2 DEF Clean, AtCursor, Agreed
<1>4. Answered'
  BY DEF Answered, Fresh
<1>5. Tables'
  <2>1. conn' \in [Sockets -> {"none", "open", "dropped"}] /\ channels' \in [Sockets -> SUBSET Streams]
        /\ DOMAIN sent' = Sockets
    OBVIOUS
  <2>2. \A s \in Sockets : DOMAIN sent'[s] = Streams /\ prints(s)' \in Seq(Nat)
    <3>1. <<>> \in Seq(Nat)
      OBVIOUS
    <3> QED BY <1>2, <3>1
  <2>3. /\ DOMAIN srv' = {"pc", "reading", "read", "ready", "frames", "tradeCursor",
                          "fillCursor", "fillSeen", "fillsFrom"}
        /\ DOMAIN srv'.frames = Snapshots /\ srv'.tradeCursor = None
    BY DEF Fresh
  <2> QED BY <2>1, <2>2, <2>3 DEF Tables
<1> QED BY <1>2, <1>3, <1>4, <1>5 DEF ServerStep, ServerInv, Feeds

\* The upgrade is accepted: nothing was sent to that socket yet.
LEMMA OpenStep ==
  ASSUME ServerInv, NEW s \in Sockets, conn[s] = "none", conn' = [conn EXCEPT ![s] = "open"],
         UNCHANGED <<srv, channels, sent>>, stored' = stored
  PROVE  ServerStep
<1>1. /\ conn' \in [Sockets -> {"none", "open", "dropped"}] /\ conn'[s] = "open"
      /\ \A r \in Sockets \ {s} : conn'[r] = conn[r]
  BY DEF ServerInv, Tables
<1>2. channels[s] = {} /\ prints(s) = <<>>
  BY DEF ServerInv, Clean
<1>3. Tables' /\ Answered' /\ Feeds
  BY <1>1 DEF ServerInv, Tables, Answered, Feeds, prints
<1>4. Clean'
  BY <1>1, <1>2 DEF ServerInv, Clean, prints
<1>5. AtCursor'
  BY <1>1, <1>2 DEF ServerInv, AtCursor, prints
<1>6. Agreed'
  BY <1>1, <1>2 DEF ServerInv, Agreed
<1> QED BY <1>3, <1>4, <1>5, <1>6 DEF ServerStep, ServerInv

\* The server, whatever the system does.
LEMMA ServerKeeps ==
  ASSUME Stored, ServerInv, Next
  PROVE  ServerStep
<1>1. stored \subseteq stored'
  BY StoredStep
<1>2. CASE UNCHANGED <<srv, conn, channels, sent>>
  BY <1>1, <1>2, StillKeeps
<1>3. Settle \/ Index \/ Rebuild \/ Source \/ Aggregate => UNCHANGED <<srv, conn, channels, sent>>
  BY DEF Settle, Index, Rebuild, Source, Aggregate, serverVars
<1>4. CASE Serve
  <2>1. stored' = stored
    BY <1>4 DEF Serve
  <2> QED BY <1>4, <2>1, SkipStep, ReadStep, ProcessSnapshotStep, ProcessTradesStep, ProcessFillsStep
          DEF Serve, Poll
<1>5. CASE Restart
  BY <1>1, <1>5, FreshKeeps DEF Restart, ServerCrash, ServerInv, Tables
<1>6. CASE Browse
  <2>1. stored' = stored /\ focus \in Streams /\ BrowserStep
    BY <1>6 DEF Browse
  <2>2. ASSUME NEW b \in Browsers, Mount(b) \/ Unmount(b) \/ IdleClose(b) \/ Reconnect(b)
        PROVE  UNCHANGED <<srv, conn, channels, sent>>
    BY <2>2 DEF Mount, Unmount, IdleClose, Reconnect, serverVars
  <2>3. ASSUME NEW s \in Sockets, Refuse(s) \/ Receive(s) \/ OnClose(s)
        PROVE  UNCHANGED <<srv, conn, channels, sent>>
    BY <2>3 DEF Refuse, Receive, OnClose, serverVars
  <2>4. ASSUME NEW s \in Sockets, Open(s) PROVE ServerStep
    BY <2>1, <2>4, OpenStep DEF Open
  <2>5. ASSUME NEW s \in Sockets, Handle(s) PROVE ServerStep
    BY <2>1, <2>5, SubscribeStep, UnsubscribeStep DEF Handle
  <2>6. ASSUME NEW s \in Sockets, Closed(s) PROVE ServerStep
    BY <2>1, <2>6, CloseStep DEF Closed
  <2> QED BY <1>2, <2>1, <2>2, <2>3, <2>4, <2>5, <2>6 DEF BrowserStep
<1> QED BY <1>2, <1>3, <1>4, <1>5, <1>6 DEF Next

-----------------------------------------------------------------------------
(* The browsers.                                                           *)

\* A stream's current socket is its own and not over; a screen that listens has one,
\* or a reconnect armed.
Reachable ==
  /\ owner \in [Sockets -> Browsers \cup {None}]
  /\ sock \in [Sockets -> {"none", "connecting", "open", "closing"}]
  /\ current \in [Browsers -> Sockets \cup {None}]
  /\ timers \in [Browsers -> SUBSET {"reconnect", "idle"}]
  /\ listening \subseteq Browsers
  /\ \A b \in Browsers : current[b] # None => owner[current[b]] = b /\ sock[current[b]] # "none"
  /\ \A b \in listening : "reconnect" \in timers[b] \/ current[b] # None

\* A new socket was nobody's.
LEMMA ConnectKeeps ==
  ASSUME Reachable, NEW b \in Browsers, connect(b)
  PROVE  /\ owner' \in [Sockets -> Browsers \cup {None}]
         /\ sock' \in [Sockets -> {"none", "connecting", "open", "closing"}]
         /\ current' \in [Browsers -> Sockets \cup {None}]
         /\ current'[b] # None /\ \A c \in Browsers \ {b} : current'[c] = current[c]
         /\ \A c \in Browsers : current'[c] # None => owner'[current'[c]] = c /\ sock'[current'[c]] # "none"
<1>1. PICK s \in Sockets : /\ sock[s] = "none"
                           /\ sock' = [sock EXCEPT ![s] = "connecting"]
                           /\ owner' = [owner EXCEPT ![s] = b]
                           /\ current' = [current EXCEPT ![b] = s]
  BY DEF connect
<1>2. s # None
  BY StreamAssumption
<1>3. ASSUME NEW c \in Browsers, current'[c] # None
      PROVE  owner'[current'[c]] = c /\ sock'[current'[c]] # "none"
  <2>1. CASE c = b
    BY <1>1, <2>1 DEF Reachable
  <2>2. CASE c # b
    <3>1. current'[c] = current[c] /\ current[c] \in Sockets /\ owner[current[c]] = c /\ sock[current[c]] # "none"
      BY <1>1, <1>3, <2>2 DEF Reachable
    <3> QED BY <1>1, <3>1 DEF Reachable
  <2> QED BY <2>1, <2>2
<1> QED BY <1>1, <1>2, <1>3 DEF Reachable

\* market/stream.ts, connect: a screen that mounts listens and has a socket on its way.
LEMMA MountStep ==
  ASSUME Reachable, NEW b \in Browsers, Mount(b)
  PROVE  Reachable'
<1>1. listening' = listening \cup {b} /\ timers' = [timers EXCEPT ![b] = @ \ {"idle"}]
  BY DEF Mount
<1>2. timers' \in [Browsers -> SUBSET {"reconnect", "idle"}] /\ listening' \subseteq Browsers
      /\ \A c \in Browsers : "reconnect" \in timers[c] => "reconnect" \in timers'[c]
  BY <1>1 DEF Reachable
<1>3. CASE current[b] = None /\ "reconnect" \notin timers[b]
  <2>1. connect(b)
    BY <1>3 DEF Mount
  <2> QED BY <1>1, <1>2, <2>1, ConnectKeeps DEF Reachable
<1>4. CASE ~(current[b] = None /\ "reconnect" \notin timers[b])
  <2>1. UNCHANGED <<sock, owner, current>>
    BY <1>4 DEF Mount
  <2> QED BY <1>1, <1>2, <1>4, <2>1 DEF Reachable
<1> QED BY <1>3, <1>4

\* market/stream.ts, the reconnect timer: it fires into a socket of its own.
LEMMA ReconnectStep ==
  ASSUME Reachable, NEW b \in Browsers, Reconnect(b)
  PROVE  Reachable'
<1>1. listening' = listening /\ timers' = [timers EXCEPT ![b] = @ \ {"reconnect"}]
  BY DEF Reconnect
<1>2. timers' \in [Browsers -> SUBSET {"reconnect", "idle"}]
      /\ \A c \in Browsers \ {b} : timers'[c] = timers[c]
  BY <1>1 DEF Reachable
<1>3. CASE b \in listening
  <2>1. connect(b)
    BY <1>3 DEF Reconnect
  <2> QED BY <1>1, <1>2, <2>1, ConnectKeeps DEF Reachable
<1>4. CASE b \notin listening
  <2>1. UNCHANGED <<sock, owner, current>>
    BY <1>4 DEF Reconnect
  <2> QED BY <1>1, <1>2, <1>4, <2>1 DEF Reachable
<1> QED BY <1>3, <1>4

\* A stream that nobody listens to may close its socket.
LEMMA IdleCloseStep ==
  ASSUME Reachable, NEW b \in Browsers, IdleClose(b)
  PROVE  Reachable'
<1>1. timers' = [timers EXCEPT ![b] = @ \ {"idle"}] /\ owner' = owner /\ listening' = listening
  BY DEF IdleClose
<1>2. timers' \in [Browsers -> SUBSET {"reconnect", "idle"}]
      /\ \A c \in Browsers : "reconnect" \in timers[c] => "reconnect" \in timers'[c]
  BY <1>1 DEF Reachable
<1>3. CASE b \in listening \/ current[b] = None
  <2>1. UNCHANGED <<sock, current>>
    BY <1>3 DEF IdleClose
  <2> QED BY <1>1, <1>2, <2>1 DEF Reachable
<1>4. CASE ~(b \in listening \/ current[b] = None)
  <2>1. sock' = [sock EXCEPT ![current[b]] = "closing"] /\ current' = [current EXCEPT ![b] = None]
    BY <1>4 DEF IdleClose
  <2>2. sock' \in [Sockets -> {"none", "connecting", "open", "closing"}]
        /\ current' \in [Browsers -> Sockets \cup {None}]
        /\ \A s \in Sockets : sock[s] # "none" => sock'[s] # "none"
        /\ current'[b] = None /\ \A c \in Browsers \ {b} : current'[c] = current[c]
    BY <2>1 DEF Reachable
  <2> QED BY <1>1, <1>2, <1>4, <2>2 DEF Reachable
<1> QED BY <1>3, <1>4

\* The close of a socket: its own stream reconnects, no other had it.
LEMMA OnCloseStep ==
  ASSUME Reachable, NEW s \in Sockets, OnClose(s)
  PROVE  Reachable'
<1>1. PICK b \in Browsers \cup {None} : b = owner[s]
  BY DEF Reachable
<1>2. /\ sock' = [sock EXCEPT ![s] = "none"] /\ owner' = [owner EXCEPT ![s] = None]
      /\ current' = [current EXCEPT ![b] = IF @ = s THEN None ELSE @]
      /\ timers' = [timers EXCEPT ![b] = IF b \in listening THEN @ \cup {"reconnect"} ELSE @]
      /\ listening' = listening
  BY <1>1 DEF OnClose
<1>3. /\ sock' \in [Sockets -> {"none", "connecting", "open", "closing"}]
      /\ owner' \in [Sockets -> Browsers \cup {None}]
      /\ current' \in [Browsers -> Sockets \cup {None}]
      /\ timers' \in [Browsers -> SUBSET {"reconnect", "idle"}]
      /\ \A r \in Sockets \ {s} : sock'[r] = sock[r] /\ owner'[r] = owner[r]
      /\ \A c \in Browsers : current'[c] = (IF c = b /\ current[c] = s THEN None ELSE current[c])
      /\ \A c \in Browsers : timers'[c] = (IF c = b /\ b \in listening THEN timers[c] \cup {"reconnect"} ELSE timers[c])
  BY <1>2 DEF Reachable
<1>4. ASSUME NEW c \in Browsers, current'[c] # None
      PROVE  current[c] = current'[c] /\ current[c] \in Sockets \ {s}
  BY <1>1, <1>3, <1>4 DEF Reachable
<1>5. \A c \in Browsers : current'[c] # None => owner'[current'[c]] = c /\ sock'[current'[c]] # "none"
  BY <1>3, <1>4 DEF Reachable
<1>6. \A c \in listening : "reconnect" \in timers'[c] \/ current'[c] # None
  BY <1>3 DEF Reachable
<1> QED BY <1>2, <1>3, <1>5, <1>6 DEF Reachable

\* A socket that opens or is refused goes on.
LEMMA SocketKeeps ==
  ASSUME Reachable, NEW s \in Sockets, NEW v \in {"connecting", "open", "closing"},
         sock' = [sock EXCEPT ![s] = v], UNCHANGED <<owner, current, timers, listening>>
  PROVE  Reachable'
<1>1. sock' \in [Sockets -> {"none", "connecting", "open", "closing"}]
      /\ \A r \in Sockets : sock[r] # "none" => sock'[r] # "none"
  BY DEF Reachable
<1> QED BY <1>1 DEF Reachable

\* The browsers, whatever the system does.
LEMMA ReachableKeeps ==
  ASSUME Reachable, Next
  PROVE  Reachable'
<1>1. CASE UNCHANGED <<sock, owner, current, timers, listening>>
  BY <1>1 DEF Reachable
<1>2. Settle \/ Index \/ Rebuild \/ Source \/ Aggregate \/ Serve \/ Restart
        => UNCHANGED <<sock, owner, current, timers, listening>>
  BY DEF Settle, Index, Rebuild, Source, Aggregate, Serve, Restart, browserVars
<1>3. CASE Browse
  <2>1. ASSUME NEW b \in Browsers, Unmount(b) PROVE Reachable'
    <3>1. /\ listening' = listening \ {b} /\ timers' = [timers EXCEPT ![b] = @ \cup {"idle"}]
          /\ UNCHANGED <<sock, owner, current>>
      BY <2>1 DEF Unmount
    <3>2. timers' \in [Browsers -> SUBSET {"reconnect", "idle"}]
          /\ \A c \in Browsers : "reconnect" \in timers[c] => "reconnect" \in timers'[c]
      BY <3>1 DEF Reachable
    <3> QED BY <3>1, <3>2 DEF Reachable
  <2>2. ASSUME NEW s \in Sockets, Open(s) \/ Refuse(s) PROVE Reachable'
    BY <2>2, SocketKeeps DEF Open, Refuse
  <2>3. ASSUME NEW s \in Sockets, Handle(s) \/ Receive(s) \/ Closed(s) PROVE Reachable'
    BY <1>1, <2>3 DEF Handle, Receive, Closed, browserVars
  <2> QED BY <1>3, <2>1, <2>2, <2>3, MountStep, ReconnectStep, IdleCloseStep, OnCloseStep
          DEF Browse, BrowserStep
<1> QED BY <1>1, <1>2, <1>3 DEF Next

-----------------------------------------------------------------------------
(* The statistics.                                                         *)

StatsRow == [seen : SUBSET Events, on : Nat]

\* A row has what happened to its address up to h.
knows(row, a, h) == \A e \in stored : e <= h /\ a \in Touches[e] => row # Absent /\ e \in row.seen

\* A row is as a recompute on day d would leave it: of that day, or of no window any more.
lasting(row, d) ==
  row # Absent => row.on >= d \/ \A p \in Periods, e \in row.seen : dayOf[e] < windowStart(p, row.on)

\* A row was computed from stored events, on a day that has come.
Past(row) == row # Absent => row.seen \subseteq stored /\ row.on <= day

\* What is stored: complete up to the cursor, and lasting since the last pass.
StatsKept ==
  /\ day \in Nat /\ boardDay \in Nat /\ boardDay <= day
  /\ dayOf \in [Events -> Nat]
  /\ rows \in [Addresses -> StatsRow \cup {Absent}]
  /\ \A a \in Addresses : Past(rows[a]) /\ lasting(rows[a], boardDay)
  /\ statsAt # Absent => /\ statsAt \in {0} \cup stored
                         /\ \A a \in Addresses : knows(rows[a], a, statsAt)

\* A pass in progress: what is not left to do is done, and what was loaded is complete.
InPass ==
  /\ pass \in [ pc : {"idle", "recompute", "load", "replace"}, head : Nat, day : Nat,
                todo : SUBSET Addresses, loaded : [Addresses -> StatsRow \cup {Absent}] ]
  /\ pass.pc # "idle" => /\ pass.head \in {0} \cup stored
                         /\ boardDay <= pass.day /\ pass.day <= day
  /\ pass.pc = "recompute" =>
       \A a \in Addresses \ pass.todo : knows(rows[a], a, pass.head) /\ lasting(rows[a], pass.day)
  /\ pass.pc = "replace" =>
       \A a \in Addresses : /\ knows(pass.loaded[a], a, pass.head) /\ Past(pass.loaded[a])
                            /\ pass.loaded[a] # Absent => pass.loaded[a].on = pass.day

\* What happens later is later than anything stored.
LEMMA KnowsKeeps ==
  ASSUME Stored, Stored', stored \subseteq stored', NEW row, NEW a, NEW h \in {0} \cup stored, knows(row, a, h)
  PROVE  \A e \in stored' : e <= h /\ a \in Touches[e] => row # Absent /\ e \in row.seen
<1>1. ASSUME NEW e \in stored', e <= h PROVE e \in stored
  <2>1. head \in Nat /\ head' \in Nat /\ stored \subseteq 1..head /\ stored' \subseteq 1..head'
    BY IndexerAssumption DEF Stored
  <2>2. e \in 1..h /\ h \in stored
    BY <1>1, <2>1
  <2> QED BY <2>2 DEF Stored, closedBelow
<1> QED BY <1>1 DEF knows

\* A recompute leaves a complete row of its day.
LEMMA ComputedIs ==
  ASSUME Stored, NEW a \in Addresses, NEW d \in Nat, d <= day
  PROVE  /\ computed(a, d) \in StatsRow \cup {Absent}
         /\ \A h : knows(computed(a, d), a, h)
         /\ Past(computed(a, d))
         /\ computed(a, d) # Absent => computed(a, d).on = d
<1>1. tape = stored /\ stored \subseteq Events
  <2>1. head \in Nat /\ MaxHead \in Nat /\ head <= MaxHead /\ stored \subseteq 1..head
    BY IndexerAssumption DEF Stored
  <2> QED BY <2>1, TapeIsStored DEF Events
<1>2. PICK S : S = {e \in stored : a \in Touches[e]}
  OBVIOUS
<1>3. CASE S = {}
  <2>1. computed(a, d) = Absent
    BY <1>1, <1>2, <1>3 DEF computed
  <2> QED BY <1>2, <1>3, <2>1 DEF knows, Past
<1>4. CASE S # {}
  <2>1. computed(a, d) = [seen |-> S, on |-> d]
    BY <1>1, <1>2, <1>4 DEF computed
  <2>2. computed(a, d) \in StatsRow /\ computed(a, d).seen = S /\ computed(a, d).on = d
    BY <1>1, <1>2, <2>1 DEF StatsRow
  <2>3. computed(a, d) # Absent
    BY <2>2, StatsAssumption DEF StatsRow
  <2> HIDE <2>1
  <2> QED BY <1>2, <2>2, <2>3 DEF knows, Past
<1> QED BY <1>3, <1>4

\* The windows in which anything happened are the rows of an address.
LEMMA RowsAre ==
  ASSUME NEW row \in StatsRow, row # Absent
  PROVE  /\ \A r \in traderStats(row) : /\ r.period \in Periods
                                        /\ \E e \in row.seen : dayOf[e] >= windowStart(r.period, row.on)
         /\ \A p \in Periods : (\E e \in row.seen : dayOf[e] >= windowStart(p, row.on)) =>
              \E r \in traderStats(row) : r.period = p /\ r.start = windowStart(p, row.on)
<1>1. ASSUME NEW r \in traderStats(row)
      PROVE  r.period \in Periods /\ \E e \in row.seen : dayOf[e] >= windowStart(r.period, row.on)
  BY <1>1 DEF traderStats
<1>2. ASSUME NEW p \in Periods, NEW e \in row.seen, dayOf[e] >= windowStart(p, row.on)
      PROVE  \E r \in traderStats(row) : r.period = p /\ r.start = windowStart(p, row.on)
  <2> DEFINE r == [period |-> p, start |-> windowStart(p, row.on),
                   events |-> {x \in row.seen : dayOf[x] >= windowStart(p, row.on)}]
  <2>1. r \in traderStats(row)
    BY <1>2 DEF traderStats
  <2> QED BY <2>1
<1> QED BY <1>1, <1>2

\* Rows that are not recomputed last: the longest window of an older day starts before
\* every window of today, so an address whose windows hold anything is seen.
LEMMA NotStale ==
  ASSUME StatsKept, NEW a \in Addresses \ addressesWithStaleWindow(day)
  PROVE  lasting(rows[a], day)
<1>1. CASE rows[a] = Absent \/ rows[a].on = day
  BY <1>1 DEF StatsKept, lasting
<1>2. CASE rows[a] # Absent /\ rows[a].on # day
  <2>1. PICK row \in StatsRow : row = rows[a]
    BY <1>2 DEF StatsKept
  <2>2. row.on \in Nat /\ row.on < day /\ day \in Nat /\ row.seen \subseteq Events /\ row # Absent
        /\ dayOf \in [Events -> Nat]
    BY <1>2, <2>1 DEF StatsKept, Past, StatsRow
  <2>3. PICK p \in Periods : \A q \in Periods : WINDOW_DAYS[q] <= WINDOW_DAYS[p]
    BY StatsAssumption
  <2>4. WINDOW_DAYS \in [Periods -> Nat]
    BY StatsAssumption
  <2>5. ASSUME NEW q \in Periods, NEW e \in row.seen, dayOf[e] >= windowStart(q, row.on) PROVE FALSE
    <3>1. windowStart(p, row.on) <= windowStart(q, row.on) /\ dayOf[e] \in Nat
          /\ windowStart(p, row.on) \in Int /\ windowStart(q, row.on) \in Int
      BY <2>2, <2>3, <2>4 DEF windowStart
    <3>2. dayOf[e] >= windowStart(p, row.on)
      BY <2>5, <3>1
    <3>3. PICK r \in traderStats(row) : r.start = windowStart(p, row.on)
      BY <2>2, <3>2, RowsAre
    <3>4. \A x \in Periods : windowStart(p, row.on) # windowStart(x, day)
      BY <2>2, <2>3, <2>4 DEF windowStart
    <3> QED BY <2>1, <3>3, <3>4 DEF addressesWithStaleWindow
  <2>6. \A q \in Periods, e \in row.seen : windowStart(q, row.on) \in Int /\ dayOf[e] \in Nat
    BY <2>2, <2>4 DEF windowStart
  <2> QED BY <2>1, <2>5, <2>6 DEF lasting
<1> QED BY <1>1, <1>2

\* When the aggregator does nothing, what it stored stays complete and lasting.
LEMMA StatsWait ==
  ASSUME Stored, Stored', stored \subseteq stored', StatsKept, InPass,
         UNCHANGED <<day, rows, statsAt, pass, boardDay>>, dayOf' \in [Events -> Nat],
         \A e \in stored : dayOf'[e] = dayOf[e]
  PROVE  StatsKept' /\ InPass'
<1>2. ASSUME NEW a \in Addresses PROVE (Past(rows[a]) /\ lasting(rows[a], boardDay))'
  <2>1. Past(rows[a]) /\ lasting(rows[a], boardDay)
    BY DEF StatsKept
  <2> QED BY <2>1 DEF Past, lasting
<1>3. ASSUME statsAt # Absent
      PROVE  (statsAt \in {0} \cup stored /\ \A a \in Addresses : knows(rows[a], a, statsAt))'
  <2>1. statsAt \in {0} \cup stored /\ \A a \in Addresses : knows(rows[a], a, statsAt)
    BY <1>3 DEF StatsKept
  <2>2. \A a \in Addresses : (knows(rows[a], a, statsAt))'
    BY <2>1, KnowsKeeps DEF knows
  <2> QED BY <2>1, <2>2
<1>4. StatsKept'
  BY <1>2, <1>3 DEF StatsKept
<1>5. ASSUME pass.pc = "recompute", NEW a \in Addresses \ pass.todo
      PROVE  (knows(rows[a], a, pass.head) /\ lasting(rows[a], pass.day))'
  <2>1. pass.head \in {0} \cup stored /\ knows(rows[a], a, pass.head) /\ lasting(rows[a], pass.day)
        /\ Past(rows[a])
    BY <1>5 DEF StatsKept, InPass
  <2>2. (knows(rows[a], a, pass.head))'
    BY <2>1, KnowsKeeps DEF knows
  <2> QED BY <2>1, <2>2 DEF Past, lasting
<1>6. ASSUME pass.pc = "replace", NEW a \in Addresses
      PROVE  (/\ knows(pass.loaded[a], a, pass.head) /\ Past(pass.loaded[a])
              /\ pass.loaded[a] # Absent => pass.loaded[a].on = pass.day)'
  <2>1. /\ pass.head \in {0} \cup stored /\ knows(pass.loaded[a], a, pass.head) /\ Past(pass.loaded[a])
        /\ pass.loaded[a] # Absent => pass.loaded[a].on = pass.day
    BY <1>6 DEF InPass
  <2>2. (knows(pass.loaded[a], a, pass.head))'
    BY <2>1, KnowsKeeps DEF knows
  <2> QED BY <2>1, <2>2 DEF Past
<1>7. InPass'
  BY <1>5, <1>6 DEF InPass
<1> QED BY <1>4, <1>7

\* The newest stored event.
LEMMA HeadIs == ASSUME Stored PROVE indexedHead \in {0} \cup stored
<1>1. stored \subseteq 1..head /\ head \in Nat
  BY IndexerAssumption DEF Stored
<1>2. PICK S : S = {0} \cup stored
  OBVIOUS
<1>3. S \in SUBSET Nat /\ S # {} /\ \A k \in S : k <= head
  BY <1>1, <1>2
<1> QED BY <1>1, <1>2, <1>3, Greatest DEF indexedHead

\* A pass begins with everything that happened since the cursor and every stale row.
LEMMA BeginKeeps ==
  ASSUME Stored, StatsKept, InPass, Begin, stored' = stored
  PROVE  InPass'
<1>1. PICK h \in {0} \cup stored : h = indexedHead
  BY HeadIs
<1>2. {0} \cup stored \subseteq Nat /\ day \in Nat /\ boardDay <= day /\ tape = stored /\ stored \subseteq Events
  <2>1. head \in Nat /\ MaxHead \in Nat /\ head <= MaxHead /\ stored \subseteq 1..head
    BY IndexerAssumption DEF Stored
  <2> QED BY <2>1, TapeIsStored DEF StatsKept, Events
<1>3. Resting.loaded \in [Addresses -> StatsRow \cup {Absent}] /\ Resting.todo = {}
  BY DEF Resting
<1>4. CASE statsAt = Absent
  <2>1. pass' = [Resting EXCEPT !.pc = "load", !.head = h, !.day = day]
    BY <1>1, <1>4 DEF Begin
  <2>2. UNCHANGED <<day, boardDay>>
    BY DEF Begin
  <2>3. pass' = [pc |-> "load", head |-> h, day |-> day, todo |-> {}, loaded |-> Resting.loaded]
    BY <2>1 DEF Resting
  <2> QED BY <1>2, <1>3, <2>2, <2>3 DEF InPass
<1>5. CASE statsAt # Absent
  <2>1. PICK todo : todo = dirtyAddressesSince(statsAt, h) \cup addressesWithStaleWindow(day)
    OBVIOUS
  <2>2. pass' = [Resting EXCEPT !.pc = "recompute", !.head = h, !.day = day, !.todo = todo]
    BY <1>1, <1>5, <2>1 DEF Begin
  <2>3. todo \subseteq Addresses
    <3>1. \A e \in Events : Touches[e] \subseteq Addresses
      BY StatsAssumption
    <3> QED BY <1>2, <2>1, <3>1 DEF dirtyAddressesSince, addressesWithStaleWindow
  <2>4. ASSUME NEW a \in Addresses \ todo PROVE knows(rows[a], a, h) /\ lasting(rows[a], day)
    <3>1. knows(rows[a], a, statsAt) /\ statsAt \in Nat
      BY <1>2, <1>5 DEF StatsKept
    <3>2. \A e \in stored : e > statsAt /\ e <= h => a \notin Touches[e]
      BY <1>2, <2>1, <2>4 DEF dirtyAddressesSince
    <3>3. knows(rows[a], a, h)
      BY <1>2, <3>1, <3>2 DEF knows
    <3>4. lasting(rows[a], day)
      BY <2>1, <2>4, NotStale
    <3> QED BY <3>3, <3>4
  <2>5. UNCHANGED <<day, dayOf, rows, statsAt, boardDay>>
    BY DEF Begin
  <2>6. pass' = [pc |-> "recompute", head |-> h, day |-> day, todo |-> todo, loaded |-> Resting.loaded]
    BY <2>2 DEF Resting
  <2>7. \A a \in Addresses \ todo : (knows(rows[a], a, h) /\ lasting(rows[a], day))'
    <3>1. \A a \in Addresses \ todo : (knows(rows[a], a, h))'
      BY <2>4, <2>5 DEF knows
    <3>2. \A a \in Addresses \ todo : (lasting(rows[a], day))'
      BY <2>4, <2>5 DEF lasting
    <3> QED BY <3>1, <3>2
  <2> QED BY <1>2, <1>3, <2>3, <2>5, <2>6, <2>7 DEF InPass
<1> QED BY <1>4, <1>5

\* One address is recomputed.
LEMMA RecomputeKeeps ==
  ASSUME Stored, StatsKept, InPass, Recompute, stored' = stored
  PROVE  StatsKept' /\ InPass'
<1>1. PICK a \in pass.todo : /\ rows' = [rows EXCEPT ![a] = computed(a, pass.day)]
                             /\ pass' = [pass EXCEPT !.todo = @ \ {a}]
  BY DEF Recompute
<1>2. pass.pc = "recompute" /\ a \in Addresses /\ pass.day \in Nat /\ boardDay <= pass.day /\ pass.day <= day
      /\ UNCHANGED <<day, dayOf, statsAt, boardDay>>
  BY DEF Recompute, InPass
<1>3. PICK row : row = computed(a, pass.day)
  OBVIOUS
<1>4. /\ row \in StatsRow \cup {Absent} /\ Past(row)
      /\ row # Absent => row.on = pass.day
      /\ \A h : knows(row, a, h)
  BY <1>2, <1>3, ComputedIs
<1>5. /\ rows' \in [Addresses -> StatsRow \cup {Absent}] /\ rows'[a] = row
      /\ \A b \in Addresses \ {a} : rows'[b] = rows[b]
  BY <1>1, <1>2, <1>3, <1>4 DEF StatsKept
<1>6. lasting(row, pass.day) /\ lasting(row, boardDay)
  <2>1. row # Absent => row.on = pass.day /\ pass.day >= pass.day /\ pass.day >= boardDay
    BY <1>2, <1>4 DEF StatsKept
  <2> QED BY <2>1 DEF lasting
<1>7. \A b \in Addresses : (Past(rows[b]) /\ lasting(rows[b], boardDay))'
  BY <1>2, <1>4, <1>5, <1>6 DEF StatsKept, Past, lasting
<1>8. statsAt # Absent => \A b \in Addresses : (knows(rows[b], b, statsAt))'
  BY <1>2, <1>4, <1>5 DEF StatsKept, knows
<1>9. StatsKept'
  BY <1>2, <1>5, <1>7, <1>8 DEF StatsKept
<1>10. \A b \in Addresses \ (pass.todo \ {a}) : (knows(rows[b], b, pass.head) /\ lasting(rows[b], pass.day))'
  <2>1. pass'.head = pass.head /\ pass'.day = pass.day
    BY <1>1 DEF InPass
  <2>2. ASSUME NEW b \in Addresses \ (pass.todo \ {a})
        PROVE  (knows(rows[b], b, pass.head) /\ lasting(rows[b], pass.day))'
    <3>1. CASE b = a
      BY <1>2, <1>4, <1>5, <1>6, <2>1, <3>1 DEF knows, lasting
    <3>2. CASE b # a
      <4>1. knows(rows[b], b, pass.head) /\ lasting(rows[b], pass.day)
        BY <1>2, <2>2, <3>2 DEF InPass
      <4> QED BY <1>2, <1>5, <2>1, <2>2, <3>2, <4>1 DEF knows, lasting
    <3> QED BY <3>1, <3>2
  <2> QED BY <2>2
<1>11. InPass'
  <2>1. pass' = [ pc |-> "recompute", head |-> pass.head, day |-> pass.day,
                  todo |-> pass.todo \ {a}, loaded |-> pass.loaded ]
    BY <1>1, <1>2 DEF InPass
  <2> QED BY <1>2, <1>10, <2>1 DEF InPass
<1> QED BY <1>9, <1>11

\* The work list is done: the cursor moves, and the nightly rebuild may follow.
LEMMA AdvanceKeeps ==
  ASSUME Stored, StatsKept, InPass, Advance, stored' = stored
  PROVE  StatsKept' /\ InPass'
<1>1. pass.pc = "recompute" /\ pass.todo = {} /\ statsAt' = pass.head /\ boardDay' = pass.day
      /\ UNCHANGED <<day, dayOf, rows>>
  BY DEF Advance
<1>2. pass.head \in {0} \cup stored /\ pass.day <= day /\ pass.day \in Nat
      /\ \A a \in Addresses : knows(rows[a], a, pass.head) /\ lasting(rows[a], pass.day)
  BY <1>1 DEF InPass
<1>3. \A a \in Addresses : (Past(rows[a]) /\ lasting(rows[a], boardDay) /\ knows(rows[a], a, statsAt))'
  BY <1>1, <1>2 DEF StatsKept, Past, lasting, knows
<1>4. StatsKept'
  BY <1>1, <1>2, <1>3 DEF StatsKept
<1>5. InPass'
  <2>1. CASE pass' = Resting
    BY <2>1, StatsAssumption DEF InPass, Resting
  <2>2. CASE pass' = [Resting EXCEPT !.pc = "load", !.head = indexedHead, !.day = pass.day]
    <3>1. PICK h \in {0} \cup stored : h = indexedHead
      BY HeadIs
    <3>2. pass' = [pc |-> "load", head |-> h, day |-> pass.day, todo |-> {},
                   loaded |-> [a \in Addresses |-> Absent]]
      BY <2>2, <3>1 DEF Resting
    <3>3. h \in Nat
      BY DEF Stored
    <3> QED BY <1>1, <1>2, <3>2, <3>3 DEF InPass
  <2> QED BY <2>1, <2>2 DEF Advance
<1> QED BY <1>4, <1>5

\* The full recompute: everything is read, then everything is replaced.
LEMMA RebuildKeeps ==
  ASSUME Stored, StatsKept, InPass, Load \/ Replace, stored' = stored
  PROVE  StatsKept' /\ InPass'
<1>1. CASE Load
  <2>1. pass.pc = "load" /\ pass.head \in {0} \cup stored /\ pass.day \in Nat
        /\ boardDay <= pass.day /\ pass.day <= day /\ UNCHANGED <<day, dayOf, rows, statsAt, boardDay>>
    BY <1>1 DEF Load, InPass
  <2>2. PICK t : t = [a \in Addresses |-> computed(a, pass.day)]
    OBVIOUS
  <2>3. pass' = [ pc |-> "replace", head |-> pass.head, day |-> pass.day, todo |-> pass.todo, loaded |-> t ]
    BY <1>1, <2>2 DEF Load, InPass
  <2>4. ASSUME NEW a \in Addresses
        PROVE  /\ t[a] \in StatsRow \cup {Absent} /\ knows(t[a], a, pass.head) /\ Past(t[a])
               /\ t[a] # Absent => t[a].on = pass.day
    BY <2>1, <2>2, ComputedIs
  <2>5. \A a \in Addresses : (/\ knows(t[a], a, pass.head) /\ Past(t[a])
                              /\ t[a] # Absent => t[a].on = pass.day)'
    BY <2>1, <2>3, <2>4 DEF knows, Past
  <2>6. t \in [Addresses -> StatsRow \cup {Absent}]
    BY <2>2, <2>4
  <2>7. InPass'
    BY <2>1, <2>3, <2>5, <2>6 DEF InPass
  <2>8. StatsKept'
    BY <2>1 DEF StatsKept, Past, lasting, knows
  <2> QED BY <2>7, <2>8
<1>2. CASE Replace
  <2>1. pass.pc = "replace" /\ rows' = pass.loaded /\ statsAt' = pass.head /\ boardDay' = pass.day
        /\ pass' = Resting /\ UNCHANGED <<day, dayOf>>
    BY <1>2 DEF Replace
  <2>2. /\ pass.head \in {0} \cup stored /\ pass.day \in Nat /\ pass.day <= day
        /\ pass.loaded \in [Addresses -> StatsRow \cup {Absent}]
        /\ \A a \in Addresses : /\ knows(pass.loaded[a], a, pass.head) /\ Past(pass.loaded[a])
                                /\ pass.loaded[a] # Absent => pass.loaded[a].on = pass.day
    BY <2>1 DEF InPass
  <2>3. \A a \in Addresses : (Past(rows[a]) /\ lasting(rows[a], boardDay) /\ knows(rows[a], a, statsAt))'
    BY <2>1, <2>2 DEF Past, lasting, knows
  <2>4. StatsKept'
    BY <2>1, <2>2, <2>3 DEF StatsKept
  <2>5. InPass'
    BY <2>1 DEF InPass, Resting
  <2> QED BY <2>4, <2>5
<1> QED BY <1>1, <1>2

\* A pass is abandoned, or midnight passes.
LEMMA AbandonKeeps ==
  ASSUME Stored, StatsKept, InPass, Abandon \/ Midnight, stored' = stored
  PROVE  StatsKept' /\ InPass'
<1>1. CASE Abandon
  <2>1. pass' = Resting /\ UNCHANGED <<day, dayOf, rows, statsAt, boardDay>>
    BY <1>1 DEF Abandon
  <2>2. InPass'
    BY <2>1 DEF InPass, Resting
  <2>3. StatsKept'
    BY <2>1 DEF StatsKept, Past, lasting, knows
  <2> QED BY <2>2, <2>3
<1>2. CASE Midnight
  <2>1. day' = day + 1 /\ UNCHANGED <<dayOf, rows, statsAt, pass, boardDay>> /\ day \in Nat
    BY <1>2 DEF Midnight, StatsKept
  <2>2. \A row : row \in StatsRow \cup {Absent} /\ Past(row) => (row # Absent => row.seen \subseteq stored' /\ row.on <= day')
    BY <2>1 DEF Past, StatsRow
  <2>3. StatsKept'
    BY <2>1, <2>2 DEF StatsKept, Past, lasting, knows
  <2>4. InPass'
    BY <2>1, <2>2 DEF StatsKept, InPass, Past, lasting, knows
  <2> QED BY <2>3, <2>4
<1> QED BY <1>1, <1>2

\* The statistics, whatever the system does.
LEMMA StatsKeeps ==
  ASSUME Stored, Stored', stored \subseteq stored', StatsKept, InPass, Next
  PROVE  StatsKept' /\ InPass'
<1>1. CASE UNCHANGED statsVars
  <2>1. UNCHANGED <<day, rows, statsAt, pass, boardDay>> /\ dayOf' = dayOf
    BY <1>1 DEF statsVars
  <2> QED BY <2>1, StatsWait DEF StatsKept
<1>2. Index \/ Rebuild \/ Source \/ Serve \/ Restart \/ Browse => UNCHANGED statsVars
  BY DEF Index, Rebuild, Source, Serve, Restart, Browse
<1>3. CASE Settle
  <2>1. UNCHANGED <<day, rows, statsAt, pass, boardDay>> /\ head' = head + 1
        /\ dayOf' = [dayOf EXCEPT ![head'] = day]
    BY <1>3 DEF Settle, Produce
  <2>2. head \in Nat /\ stored \subseteq 1..head
    BY IndexerAssumption DEF Stored
  <2>3. PICK h : h = head + 1
    OBVIOUS
  <2>4. dayOf' = [dayOf EXCEPT ![h] = day] /\ dayOf \in [Events -> Nat] /\ day \in Nat
    BY <2>1, <2>3 DEF StatsKept
  <2>5. \A e \in stored : e # h /\ e \in Events
    <3>1. MaxHead \in Nat /\ head <= MaxHead
      BY IndexerAssumption DEF Stored
    <3> QED BY <2>2, <2>3, <3>1 DEF Events
  <2>6. dayOf' \in [Events -> Nat] /\ \A e \in stored : dayOf'[e] = dayOf[e]
    BY <2>4, <2>5
  <2> QED BY <2>1, <2>6, StatsWait
<1>4. CASE Aggregate
  <2>1. StatsStep /\ stored' = stored
    BY <1>4 DEF Aggregate
  <2>2. CASE Begin
    <3>1. UNCHANGED <<day, dayOf, rows, statsAt, boardDay>>
      BY <2>2 DEF Begin
    <3>2. StatsKept'
      BY <2>1, <3>1 DEF StatsKept, Past, lasting, knows
    <3> QED BY <2>1, <2>2, <3>2, BeginKeeps
  <2> QED BY <2>1, <2>2, RecomputeKeeps, AdvanceKeeps, RebuildKeeps, AbandonKeeps DEF StatsStep
<1> QED BY <1>1, <1>2, <1>3, <1>4 DEF Next

\* A row of no window any more has none on a later day either.
LEMMA LastingIs ==
  ASSUME StatsKept, NEW row \in StatsRow, row # Absent, lasting(row, boardDay)
  PROVE  traderStats(row) = traderStats([row EXCEPT !.on = Max({boardDay, row.on})])
<1>1. PICK d \in Nat : d = boardDay
  BY DEF StatsKept
<1>2. row.on \in Nat /\ row.seen \subseteq Events
  BY DEF StatsRow
<1>3. CASE row.on >= d
  <2>1. Max({boardDay, row.on}) = row.on
    BY <1>1, <1>2, <1>3 DEF Max
  <2>2. [row EXCEPT !.on = row.on] = row
    BY DEF StatsRow
  <2> QED BY <2>1, <2>2
<1>4. CASE row.on < d
  <2>1. Max({boardDay, row.on}) = d
    BY <1>1, <1>2, <1>4 DEF Max
  <2>2. PICK late \in StatsRow : late = [row EXCEPT !.on = d]
    BY <1>1 DEF StatsRow
  <2>3. late.on = d /\ late.seen = row.seen /\ late # Absent
    BY <2>2, StatsAssumption DEF StatsRow
  <2>4. \A p \in Periods, e \in row.seen : dayOf[e] < windowStart(p, row.on)
    BY <1>1, <1>2, <1>4 DEF lasting
  <2>5. \A p \in Periods, e \in row.seen : ~(dayOf[e] >= windowStart(p, row.on)) /\ ~(dayOf[e] >= windowStart(p, d))
    <3>1. WINDOW_DAYS \in [Periods -> Nat]
      BY StatsAssumption
    <3>2. dayOf \in [Events -> Nat]
      BY DEF StatsKept
    <3> QED BY <1>2, <1>4, <2>4, <3>1, <3>2 DEF windowStart
  <2>6. \A r \in traderStats(row) : FALSE
    BY <2>5, RowsAre
  <2>7. \A r \in traderStats(late) : FALSE
    BY <2>3, <2>5, RowsAre
  <2> QED BY <2>1, <2>2, <2>6, <2>7
<1> QED BY <1>1, <1>2, <1>3, <1>4

-----------------------------------------------------------------------------
(* The account's fills.                                                    *)

FillRow == [id : Nat, at : Nat]

fills(s) == sent[s]["fills"]
follows(s) == conn[s] = "open" /\ "fills" \in channels[s]

\* A subscription was sent some write to row k.
has(s, k) == \E j \in DOMAIN fills(s) : fills(s)[j].id = k

\* A write older than the subscription, or than the server's place.
older(s, k) == changes[k].written <= since[s] \/ changes[k].written < srv.fillsFrom

\* Stamps: none of the future, and a transaction commits while its stamp is in the window.
Stamps ==
  /\ now \in Nat
  /\ changes \in Seq([written : Nat, at : Nat, visible : BOOLEAN])
  /\ \A k \in DOMAIN changes : /\ changes[k].written <= changes[k].at /\ changes[k].at <= now
                               /\ changes[k].visible \/ now <= changes[k].at + Overlap

\* The server's place in the fills, and the keys it remembers.
Place ==
  /\ srv.fillCursor \in Nat \cup {None}
  /\ srv.fillCursor # None => srv.fillCursor <= now
  /\ srv.fillCursor = None => srv.fillSeen = {}
  /\ srv.fillSeen \subseteq FillRow
  /\ \A r \in srv.fillSeen : r.id \in DOMAIN changes

\* Whatever was sent is remembered or too old to be read again.
Remembered ==
  \A s \in Sockets :
    /\ fills(s) \in Seq(FillRow)
    /\ \A j, k \in DOMAIN fills(s) : fills(s)[j] = fills(s)[k] => j = k
    /\ fills(s) # <<>> => "fills" \in channels[s] /\ srv.fillCursor # None
    /\ \A j \in DOMAIN fills(s) :
         fills(s)[j] \in srv.fillSeen \/ fills(s)[j].at < overlapStart(srv.fillCursor)

\* A page of rows in flight: of the window, no row twice, and no row missing that is
\* older than one of the page by more than a transaction may take.
Page ==
  srv.reading /\ srv.pc = "fills" =>
    /\ srv.fillCursor # None
    /\ srv.read \in Seq(FillRow)
    /\ \A j, k \in DOMAIN srv.read : srv.read[j].id = srv.read[k].id => j = k
    /\ \A j \in DOMAIN srv.read :
         /\ srv.read[j].id \in DOMAIN changes
         /\ srv.read[j].at >= overlapStart(srv.fillCursor) /\ srv.read[j].at <= now
         /\ \A k \in DOMAIN changes :
              changes[k].at >= overlapStart(srv.fillCursor) /\ changes[k].at + Overlap < srv.read[j].at
                => \E i \in DOMAIN srv.read : srv.read[i].id = k

\* Who follows the fills has what fell out of the window, and what is remembered.
Covered ==
  \A s \in Sockets : follows(s) =>
    /\ srv.fillCursor # None =>
         \A k \in DOMAIN changes :
           older(s, k) \/ has(s, k) \/ changes[k].at >= overlapStart(srv.fillCursor)
    /\ \A r \in srv.fillSeen : older(s, r.id) \/ has(s, r.id)

FillsInv == Stamps /\ Place /\ Remembered /\ Page /\ Covered

\* Each socket's subscription has its beginning.
Begun == DOMAIN since = Sockets

\* It begins when it is made.
LEMMA BegunKeeps == ASSUME Begun, Next PROVE Begun'
<1>1. since' = since \/ \E s \in Sockets : since' = [since EXCEPT ![s] = now]
  <2>1. Settle \/ Index \/ Rebuild \/ Source \/ Aggregate => since' = since
    BY DEF Settle, Index, Rebuild, Source, Aggregate, serverVars
  <2>2. Serve => since' = since
    BY DEF Serve, Poll, Skip, Read, ProcessSnapshot, ProcessTrades, ProcessFills
  <2>3. Restart => since' = since
    BY DEF Restart, ServerCrash
  <2>4. ASSUME NEW b \in Browsers, Mount(b) \/ Unmount(b) \/ IdleClose(b) \/ Reconnect(b) PROVE since' = since
    BY <2>4 DEF Mount, Unmount, IdleClose, Reconnect, serverVars
  <2>5. ASSUME NEW s \in Sockets, Open(s) \/ Refuse(s) \/ Receive(s) \/ Closed(s) \/ OnClose(s) PROVE since' = since
    BY <2>5 DEF Open, Refuse, Receive, Closed, close, OnClose, serverVars
  <2>6. ASSUME NEW s \in Sockets, Handle(s)
        PROVE  since' = since \/ since' = [since EXCEPT ![s] = now]
    <3>1. subscribe(s, focus) \/ unsubscribe(s, focus)
      BY <2>6 DEF Handle
    <3> QED BY <3>1 DEF subscribe, unsubscribe
  <2>7. CASE Browse
    BY <2>4, <2>5, <2>6, <2>7 DEF Browse, BrowserStep
  <2> QED BY <2>1, <2>2, <2>3, <2>7 DEF Next
<1> QED BY <1>1 DEF Begun

\* The window begins before its end, later for a later end.
LEMMA WindowStart ==
  ASSUME NEW c \in Nat
  PROVE  /\ overlapStart(c) \in Nat /\ overlapStart(c) <= c
         /\ \A d \in Nat : c <= d => overlapStart(c) <= overlapStart(d)
         /\ \A x \in Nat : x + Overlap >= c => x >= overlapStart(c)
         /\ \A x \in Nat : x < overlapStart(c) => x + Overlap < c
  BY StreamAssumption DEF overlapStart

\* The writes are numbered and stamped.
LEMMA StampTypes ==
  ASSUME Stamps
  PROVE  \E n \in Nat :
           /\ DOMAIN changes = 1..n /\ Len(changes) = n
           /\ \A k \in 1..n : /\ changes[k].at \in Nat /\ changes[k].written \in Nat
                              /\ changes[k].visible \in BOOLEAN
<1>1. PICK T : T = [written : Nat, at : Nat, visible : BOOLEAN]
  OBVIOUS
<1>2. PICK q \in Seq(T) : q = changes
  BY <1>1 DEF Stamps
<1>3. PICK n \in Nat : n = Len(q)
  OBVIOUS
<1>4. DOMAIN q = 1..n /\ \A k \in 1..n : q[k] \in T
  BY <1>3
<1>5. \A k \in 1..n : changes[k] \in [written : Nat, at : Nat, visible : BOOLEAN]
  BY <1>1, <1>2, <1>4
<1> QED BY <1>2, <1>3, <1>4, <1>5

\* A row is a key and a stamp.
LEMMA RowTypes ==
  ASSUME NEW q \in Seq(FillRow), NEW j \in DOMAIN q
  PROVE  q[j] \in FillRow /\ q[j].id \in Nat /\ q[j].at \in Nat
<1>1. q[j] \in FillRow
  OBVIOUS
<1> QED BY <1>1 DEF FillRow

\* Numbers in their order.
LEMMA KeysList ==
  ASSUME NEW S \in SUBSET Nat, IsFiniteSet(S)
  PROVE  \E n \in Nat : /\ keys(S) \in [1..n -> S]
                        /\ \A x \in S : \E k \in 1..n : keys(S)[k] = x
                        /\ \A i, j \in 1..n : i < j => keys(S)[i] < keys(S)[j]
<1>1. PICK B : B = [e \in S |-> {x \in S : x < e}]
  OBVIOUS
<1>2. StrictlyOrders(B, S)
  <2>1. \A a \in S : B[a] = {x \in S : x < a}
    BY <1>1
  <2>2. \A a, b \in S : a \in Nat /\ b \in Nat /\ (a \in B[b] <=> a < b)
    BY <2>1
  <2>3. B \in [S -> SUBSET S]
    BY <1>1
  <2>4. \A a, b, x \in S : a \in B[b] /\ x \in B[a] => x \in B[b]
    BY <2>2
  <2>5. \A a, b \in S : a \in B[b] => B[a] \subseteq B[b]
    BY <2>3, <2>4
  <2> QED BY <2>2, <2>3, <2>5 DEF StrictlyOrders
<1>3. PICK rank : rank = [e \in S |-> Cardinality(B[e])]
  OBVIOUS
<1>4. \A e \in S : rank[e] = Cardinality({x \in S : x < e})
  BY <1>1, <1>3
<1>5. PICK r : r = keys(S)
  OBVIOUS
<1>6. /\ r = [k \in 1..Cardinality(S) |-> r[k]]
      /\ \A k \in 1..Cardinality(S) : (\E x \in S : rank[x] = k - 1) => r[k] \in S /\ rank[r[k]] = k - 1
  <2> DEFINE place(k) == CHOOSE e \in S : Cardinality({x \in S : x < e}) = k - 1
  <2>1. r = [k \in 1..Cardinality(S) |-> place(k)]
    BY <1>5 DEF keys
  <2>2. ASSUME NEW k \in 1..Cardinality(S), \E x \in S : rank[x] = k - 1
        PROVE  r[k] \in S /\ rank[r[k]] = k - 1
    <3>1. \E x \in S : Cardinality({y \in S : y < x}) = k - 1
      BY <1>4, <2>2
    <3>2. r[k] = place(k)
      BY <2>1
    <3>3. r[k] \in S /\ Cardinality({x \in S : x < r[k]}) = k - 1
      BY <3>1, <3>2
    <3> QED BY <1>4, <3>3
  <2> HIDE DEF place
  <2>3. r = [k \in 1..Cardinality(S) |-> r[k]]
    BY <2>1
  <2> QED BY <2>2, <2>3
<1>7. ListedBy(r, S, B)
  BY <1>2, <1>3, <1>6, RankedList
<1>8. PICK n \in Nat : n = Cardinality(S) /\ r \in [1..n -> S] /\ \A x \in S : \E k \in 1..n : r[k] = x
  BY <1>7 DEF ListedBy
<1>9. \A i, j \in 1..n : i < j => r[i] < r[j]
  BY <1>1, <1>7, <1>8 DEF ListedBy
<1> QED BY <1>5, <1>8, <1>9

\* Rows in the order of their stamps.
LEMMA OldestList ==
  ASSUME Stamps, NEW S \in SUBSET DOMAIN changes
  PROVE  \E n \in Nat : /\ oldest(S) \in [1..n -> S]
                        /\ \A x \in S : \E k \in 1..n : oldest(S)[k] = x
                        /\ \A i, j \in 1..n : i < j => byStamp(oldest(S)[i], oldest(S)[j])
<1>0. PICK m \in Nat : DOMAIN changes = 1..m /\ \A k \in 1..m : changes[k].at \in Nat
  BY StampTypes
<1>1. PICK B : B = [e \in S |-> {x \in S : byStamp(x, e)}]
  OBVIOUS
<1>2. StrictlyOrders(B, S)
  <2>1. \A a \in S : B[a] = {x \in S : byStamp(x, a)}
    BY <1>1
  <2>2. ASSUME NEW a \in S, NEW b \in S
        PROVE  /\ a \in Nat /\ b \in Nat /\ changes[a].at \in Nat /\ changes[b].at \in Nat
               /\ a \in B[b] <=> changes[a].at < changes[b].at \/ (changes[a].at = changes[b].at /\ a < b)
    BY <1>0, <2>1 DEF byStamp
  <2>3. B \in [S -> SUBSET S]
    BY <1>1
  <2>4. \A a, b, x \in S : a \in B[b] /\ x \in B[a] => x \in B[b]
    BY <2>2
  <2>5. \A a, b \in S : a \in B[b] => B[a] \subseteq B[b]
    BY <2>3, <2>4
  <2> QED BY <2>2, <2>3, <2>5 DEF StrictlyOrders
<1>3. PICK rank : rank = [e \in S |-> Cardinality(B[e])]
  OBVIOUS
<1>4. \A e \in S : rank[e] = Cardinality({x \in S : byStamp(x, e)})
  BY <1>1, <1>3
<1>5. PICK r : r = oldest(S)
  OBVIOUS
<1>6. /\ r = [k \in 1..Cardinality(S) |-> r[k]]
      /\ \A k \in 1..Cardinality(S) : (\E x \in S : rank[x] = k - 1) => r[k] \in S /\ rank[r[k]] = k - 1
  <2> DEFINE place(k) == CHOOSE e \in S : Cardinality({x \in S : byStamp(x, e)}) = k - 1
  <2>1. r = [k \in 1..Cardinality(S) |-> place(k)]
    BY <1>5 DEF oldest
  <2>2. ASSUME NEW k \in 1..Cardinality(S), \E x \in S : rank[x] = k - 1
        PROVE  r[k] \in S /\ rank[r[k]] = k - 1
    <3>1. \E x \in S : Cardinality({y \in S : byStamp(y, x)}) = k - 1
      BY <1>4, <2>2
    <3>2. r[k] = place(k)
      BY <2>1
    <3>3. r[k] \in S /\ Cardinality({x \in S : byStamp(x, r[k])}) = k - 1
      BY <3>1, <3>2
    <3> QED BY <1>4, <3>3
  <2> HIDE DEF place
  <2>3. r = [k \in 1..Cardinality(S) |-> r[k]]
    BY <2>1
  <2> QED BY <2>2, <2>3
<1>7. IsFiniteSet(S)
  <2>1. IsFiniteSet(1..m)
    BY FS_Interval
  <2>2. S \subseteq 1..m
    BY <1>0
  <2> QED BY <2>1, <2>2, FS_Subset
<1>8. ListedBy(r, S, B)
  BY <1>2, <1>3, <1>6, <1>7, RankedList
<1>9. PICK n \in Nat : n = Cardinality(S) /\ r \in [1..n -> S] /\ \A x \in S : \E k \in 1..n : r[k] = x
  BY <1>8 DEF ListedBy
<1>10. \A i, j \in 1..n : i < j => byStamp(r[i], r[j])
  BY <1>1, <1>8, <1>9 DEF ListedBy
<1> QED BY <1>5, <1>9, <1>10

\* A committed row of the window that begins before c.
InWindow(k, c) == k \in DOMAIN changes /\ changes[k].visible /\ changes[k].at >= overlapStart(c)

\* A page of them: no row twice, and none left out that comes before one of the page.
LEMMA PageOfFills ==
  ASSUME Stamps, NEW c \in Nat
  PROVE  \E n \in Nat :
           /\ DOMAIN fillChanges(c) = 1..n /\ Len(fillChanges(c)) = n
           /\ \A j \in 1..n : InWindow(fillChanges(c)[j], c)
           /\ \A i, j \in 1..n : fillChanges(c)[i] = fillChanges(c)[j] => i = j
           /\ \A k, j : InWindow(k, c) /\ j \in 1..n /\ byStamp(k, fillChanges(c)[j]) =>
                \E i \in 1..n : fillChanges(c)[i] = k
<1>1. PICK S : S = {k \in DOMAIN changes : changes[k].visible /\ changes[k].at >= overlapStart(c)}
  OBVIOUS
<1>2. PICK r : r = oldest(S)
  OBVIOUS
<1>3. PICK m \in Nat : /\ r \in [1..m -> S]
                       /\ \A x \in S : \E k \in 1..m : r[k] = x
                       /\ \A i, j \in 1..m : i < j => byStamp(r[i], r[j])
  <2>1. S \subseteq DOMAIN changes
    BY <1>1
  <2> QED BY <1>2, <2>1, OldestList
<1>4. r \in Seq(S) /\ Len(r) = m
  BY <1>3
<1>5. PICK n \in Nat : n = Min({m, BatchLimit}) /\ n <= m
  <2>1. BatchLimit \in Nat
    BY StreamAssumption
  <2> QED BY <1>3, <2>1, LeastOfTwo
<1>6. PICK f : f = fillChanges(c)
  OBVIOUS
<1>7. f = SubSeq(r, 1, n)
  <2>1. f = limited(r)
    BY <1>1, <1>2, <1>6 DEF fillChanges
  <2> QED BY <1>4, <1>5, <2>1 DEF limited
<1>8. f \in [1..n -> S] /\ Len(f) = n /\ \A k \in 1..n : f[k] = r[k]
  <2>1. f = [k \in 1..n |-> r[k]]
    BY <1>4, <1>5, <1>7
  <2> QED BY <1>3, <1>5, <2>1
<1>9. ASSUME NEW j \in S, NEW k \in S PROVE ~(byStamp(j, k) /\ byStamp(k, j)) /\ ~byStamp(j, j)
  <2>1. changes[j].at \in Nat /\ changes[k].at \in Nat /\ j \in Nat /\ k \in Nat
    BY <1>1, StampTypes
  <2> QED BY <2>1 DEF byStamp
<1>10. \A i, j \in 1..n : f[i] = f[j] => i = j
  <2>1. ASSUME NEW i \in 1..n, NEW j \in 1..n, i < j PROVE f[i] # f[j]
    <3>0. i \in 1..m /\ j \in 1..m
      BY <1>5
    <3>1. byStamp(f[i], f[j]) /\ f[i] \in S /\ f[j] \in S
      BY <1>3, <1>8, <2>1, <3>0
    <3> QED BY <1>9, <3>1
  <2> QED BY <2>1
<1>11. ASSUME NEW k \in S, NEW j \in 1..n, byStamp(k, f[j]) PROVE \E i \in 1..n : f[i] = k
  <2>1. PICK i \in 1..m : r[i] = k
    BY <1>3
  <2>0. n <= m /\ f[j] = r[j] /\ f[j] \in S
    BY <1>5, <1>8
  <2>2. j \in 1..m /\ r[j] = f[j] /\ f[j] \in S
    BY <2>0
  <2>3. ~(j < i) /\ i # j
    BY <1>3, <1>9, <1>11, <2>1, <2>2
  <2>4. i \in 1..n
    BY <1>5, <2>2, <2>3
  <2> QED BY <1>8, <2>1, <2>4
<1>12. \A k : k \in S <=> InWindow(k, c)
  BY <1>1 DEF InWindow
<1>13. DOMAIN f = 1..n /\ Len(f) = n /\ \A j \in 1..n : InWindow(f[j], c)
  BY <1>8, <1>12
<1>14. \A k, j : InWindow(k, c) /\ j \in 1..n /\ byStamp(k, f[j]) => \E i \in 1..n : f[i] = k
  BY <1>11, <1>12
<1> QED BY <1>6, <1>10, <1>13, <1>14

\* The n rows of a page whose key is not remembered, each once.
NewRows(u, n) ==
  /\ u \in [1..n -> FillRow]
  /\ \A i \in 1..n : \E k \in DOMAIN srv.read :
       u[i] = srv.read[k] /\ \A seen \in srv.fillSeen : seen.id # srv.read[k].id
  /\ \A k \in DOMAIN srv.read : (\A seen \in srv.fillSeen : seen.id # srv.read[k].id) =>
       \E i \in 1..n : u[i] = srv.read[k]
  /\ \A i, j \in 1..n : u[i].id = u[j].id => i = j

\* They are the rows taken to be new.
LEMMA UnseenAre ==
  ASSUME srv.read \in Seq(FillRow),
         \A j, k \in DOMAIN srv.read : srv.read[j].id = srv.read[k].id => j = k
  PROVE  \E n \in Nat : NewRows(unseen, n)
<1>1. PICK K : K = {k \in DOMAIN srv.read : \A seen \in srv.fillSeen : seen.id # srv.read[k].id}
  OBVIOUS
<1>2. PICK q : q = keys(K)
  OBVIOUS
<1>3. K \in SUBSET Nat /\ IsFiniteSet(K) /\ K \subseteq DOMAIN srv.read
  <2>1. PICK l \in Nat : DOMAIN srv.read = 1..l
    OBVIOUS
  <2>2. K \subseteq DOMAIN srv.read
    BY <1>1
  <2>3. IsFiniteSet(1..l)
    BY FS_Interval
  <2>4. K \subseteq 1..l
    BY <2>1, <2>2
  <2>5. IsFiniteSet(K)
    BY <2>3, <2>4, FS_Subset
  <2>6. K \in SUBSET Nat
    BY <2>4
  <2> QED BY <2>2, <2>5, <2>6
<1>4. PICK n \in Nat : /\ q \in [1..n -> K]
                       /\ \A x \in K : \E k \in 1..n : q[k] = x
                       /\ \A i, j \in 1..n : i < j => q[i] < q[j]
  BY <1>2, <1>3, KeysList
<1>5. PICK u : u = unseen
  OBVIOUS
<1>6. u = [i \in 1..n |-> srv.read[q[i]]]
  <2>1. u = [i \in DOMAIN q |-> srv.read[q[i]]]
    BY <1>1, <1>2, <1>5 DEF unseen
  <2> QED BY <1>4, <2>1
<1>7. \A i \in 1..n : u[i] = srv.read[q[i]] /\ q[i] \in K /\ q[i] \in DOMAIN srv.read
  BY <1>3, <1>4, <1>6
<1>8. u \in [1..n -> FillRow]
  BY <1>6, <1>7
<1>9. \A i, j \in 1..n : u[i].id = u[j].id => i = j
  <2>1. ASSUME NEW i \in 1..n, NEW j \in 1..n, i < j PROVE u[i].id # u[j].id
    <3>1. q[i] < q[j] /\ q[i] \in Nat /\ q[j] \in Nat
      BY <1>3, <1>4, <2>1
    <3> QED BY <1>7, <3>1
  <2> QED BY <2>1
<1>10. \A i \in 1..n : \E k \in DOMAIN srv.read :
          u[i] = srv.read[k] /\ \A seen \in srv.fillSeen : seen.id # srv.read[k].id
  BY <1>1, <1>7
<1>11. ASSUME NEW k \in DOMAIN srv.read, \A seen \in srv.fillSeen : seen.id # srv.read[k].id
       PROVE  \E i \in 1..n : u[i] = srv.read[k]
  <2>1. k \in K
    BY <1>1, <1>11
  <2>2. PICK i \in 1..n : q[i] = k
    BY <1>4, <2>1
  <2> QED BY <1>7, <2>2
<1>12. \A k \in DOMAIN srv.read : (\A seen \in srv.fillSeen : seen.id # srv.read[k].id) =>
          \E i \in 1..n : u[i] = srv.read[k]
  BY <1>11
<1>13. NewRows(u, n)
  BY <1>8, <1>9, <1>10, <1>12 DEF NewRows
<1> QED BY <1>5, <1>13

\* Nothing of the fills changes but that subscriptions end or begin: what was written
\* before one begins is not owed to it.
LEMMA FillsQuiet ==
  ASSUME Stamps, Place, Remembered, Page, Covered, UNCHANGED <<changes, now>>,
         srv'.fillCursor = srv.fillCursor, srv'.fillSeen = srv.fillSeen, srv'.fillsFrom = srv.fillsFrom,
         srv'.reading /\ srv'.pc = "fills" => srv.reading /\ srv.pc = "fills" /\ srv'.read = srv.read,
         \A s \in Sockets : /\ fills(s)' \in {fills(s), <<>>}
                            /\ fills(s)' # <<>> => "fills" \in channels'[s]
                            /\ follows(s)' => \/ follows(s) /\ fills(s)' = fills(s) /\ since'[s] = since[s]
                                              \/ since'[s] = now
  PROVE  FillsInv'
<1>1. Stamps' /\ Place'
  BY DEF Stamps, Place
<1>2. Remembered'
  <2>1. ASSUME NEW s \in Sockets
        PROVE  /\ fills(s)' \in Seq(FillRow)
               /\ \A j, k \in DOMAIN fills(s)' : fills(s)'[j] = fills(s)'[k] => j = k
               /\ fills(s)' # <<>> => "fills" \in channels'[s] /\ srv.fillCursor # None
               /\ \A j \in DOMAIN fills(s)' :
                    fills(s)'[j] \in srv.fillSeen \/ fills(s)'[j].at < overlapStart(srv.fillCursor)
    <3>1. CASE fills(s)' = <<>>
      <4>1. DOMAIN fills(s)' = {} /\ fills(s)' \in Seq(FillRow)
        BY <3>1
      <4> QED BY <3>1, <4>1
    <3>2. CASE fills(s)' = fills(s) /\ fills(s)' # <<>>
      BY <3>2 DEF Remembered
    <3> QED BY <3>1, <3>2
  <2> QED BY <2>1 DEF Remembered, fills
<1>3. Page'
  BY DEF Page
<1>4. Covered'
  <2>1. ASSUME NEW s \in Sockets, follows(s)'
        PROVE  /\ srv'.fillCursor # None =>
                    \A k \in DOMAIN changes' :
                      older(s, k)' \/ has(s, k)' \/ changes'[k].at >= overlapStart(srv'.fillCursor)
               /\ \A r \in srv'.fillSeen : older(s, r.id)' \/ has(s, r.id)'
    <3>1. CASE since'[s] = now
      <4>1. \A k \in DOMAIN changes : changes[k].written <= now
        <5>1. ASSUME NEW k \in DOMAIN changes PROVE changes[k].written <= now
          <6>1. changes[k].written <= changes[k].at /\ changes[k].at <= now /\ now \in Nat
            BY DEF Stamps
          <6>2. changes[k].written \in Nat /\ changes[k].at \in Nat
            BY StampTypes
          <6> QED BY <6>1, <6>2
        <5> QED BY <5>1
      <4>2. \A r \in srv.fillSeen : r.id \in DOMAIN changes
        BY DEF Place
      <4> QED BY <3>1, <4>1, <4>2 DEF older
    <3>2. CASE follows(s) /\ fills(s)' = fills(s) /\ since'[s] = since[s]
      BY <3>2 DEF Covered, older, has
    <3> QED BY <2>1, <3>1, <3>2
  <2> QED BY <2>1 DEF Covered
<1> QED BY <1>1, <1>2, <1>3, <1>4 DEF FillsInv

\* The writers: a row is stamped now or left where it was.
LEMMA FillsStamped ==
  ASSUME Stamps, Place, Remembered, Page, Covered, Stamps', UNCHANGED <<srv, conn, channels, sent, since>>,
         now <= now', DOMAIN changes \subseteq DOMAIN changes',
         \A k \in DOMAIN changes' :
           /\ changes'[k].at = now \/ (k \in DOMAIN changes /\ changes'[k].at = changes[k].at)
           /\ k \in DOMAIN changes => changes'[k].written = changes[k].written
  PROVE  FillsInv'
<1>0. now \in Nat /\ now' \in Nat
  BY DEF Stamps
<1>1. Place'
  BY <1>0 DEF Place
<1>2. Remembered'
  BY DEF Remembered, fills
<1>3. srv.fillCursor # None => srv.fillCursor \in Nat /\ overlapStart(srv.fillCursor) \in Nat
                               /\ overlapStart(srv.fillCursor) <= now
  <2>1. ASSUME srv.fillCursor # None
        PROVE  srv.fillCursor \in Nat /\ overlapStart(srv.fillCursor) \in Nat
               /\ overlapStart(srv.fillCursor) <= now
    <3>1. PICK c \in Nat : c = srv.fillCursor /\ c <= now
      BY <2>1 DEF Place
    <3>2. PICK x \in Nat : x = overlapStart(c) /\ x <= c
      BY WindowStart
    <3> QED BY <1>0, <3>1, <3>2
  <2> QED BY <2>1
<1>4. Page'
  <2>1. ASSUME srv.reading, srv.pc = "fills"
        PROVE  /\ srv.fillCursor # None
               /\ srv.read \in Seq(FillRow)
               /\ \A j, k \in DOMAIN srv.read : srv.read[j].id = srv.read[k].id => j = k
               /\ \A j \in DOMAIN srv.read :
                    /\ srv.read[j].id \in DOMAIN changes'
                    /\ srv.read[j].at >= overlapStart(srv.fillCursor) /\ srv.read[j].at <= now'
                    /\ \A k \in DOMAIN changes' :
                         changes'[k].at >= overlapStart(srv.fillCursor) /\ changes'[k].at + Overlap < srv.read[j].at
                           => \E i \in DOMAIN srv.read : srv.read[i].id = k
    <3>1. /\ srv.fillCursor # None /\ srv.read \in Seq(FillRow)
          /\ \A j, k \in DOMAIN srv.read : srv.read[j].id = srv.read[k].id => j = k
      BY <2>1 DEF Page
    <3>2. ASSUME NEW j \in DOMAIN srv.read
          PROVE  /\ srv.read[j].id \in DOMAIN changes'
                 /\ srv.read[j].at >= overlapStart(srv.fillCursor) /\ srv.read[j].at <= now'
                 /\ \A k \in DOMAIN changes' :
                      changes'[k].at >= overlapStart(srv.fillCursor) /\ changes'[k].at + Overlap < srv.read[j].at
                        => \E i \in DOMAIN srv.read : srv.read[i].id = k
      <4>1. /\ srv.read[j].id \in DOMAIN changes
            /\ srv.read[j].at >= overlapStart(srv.fillCursor) /\ srv.read[j].at <= now
        BY <2>1 DEF Page
      <4>2. PICK a \in Nat : a = srv.read[j].at
        BY <3>1, RowTypes
      <4>3. ASSUME NEW k \in DOMAIN changes', changes'[k].at >= overlapStart(srv.fillCursor),
                   changes'[k].at + Overlap < a
            PROVE  \E i \in DOMAIN srv.read : srv.read[i].id = k
        <5>1. changes'[k].at # now
          BY <1>0, <4>1, <4>2, <4>3, StreamAssumption
        <5>2. k \in DOMAIN changes /\ changes[k].at = changes'[k].at
          BY <5>1
        <5> QED BY <2>1, <4>2, <4>3, <5>2 DEF Page
      <4> QED BY <1>0, <4>1, <4>2, <4>3
    <3> QED BY <3>1, <3>2
  <2> QED BY <2>1 DEF Page
<1>5. Covered'
  <2>1. ASSUME NEW s \in Sockets, follows(s)
        PROVE  /\ srv.fillCursor # None =>
                    \A k \in DOMAIN changes' :
                      older(s, k)' \/ has(s, k) \/ changes'[k].at >= overlapStart(srv.fillCursor)
               /\ \A r \in srv.fillSeen : older(s, r.id)' \/ has(s, r.id)
    <3>1. \A k \in DOMAIN changes : older(s, k) => older(s, k)'
      BY DEF older
    <3>2. ASSUME srv.fillCursor # None, NEW k \in DOMAIN changes'
          PROVE  older(s, k)' \/ has(s, k) \/ changes'[k].at >= overlapStart(srv.fillCursor)
      <4>1. CASE changes'[k].at = now
        BY <1>0, <1>3, <3>2, <4>1
      <4>2. CASE k \in DOMAIN changes /\ changes'[k].at = changes[k].at
        BY <2>1, <3>1, <3>2, <4>2 DEF Covered
      <4> QED BY <4>1, <4>2
    <3>3. ASSUME NEW r \in srv.fillSeen PROVE older(s, r.id)' \/ has(s, r.id)
      <4>1. r.id \in DOMAIN changes
        BY DEF Place
      <4> QED BY <2>1, <3>1, <4>1 DEF Covered
    <3> QED BY <3>2, <3>3
  <2> QED BY <2>1 DEF Covered, follows, has, fills
<1> QED BY <1>1, <1>2, <1>4, <1>5 DEF FillsInv

\* A write begins or commits, time passes, or a rebuild stamps the committed rows anew.
LEMMA WritersKeep ==
  ASSUME FillsInv, Write \/ Visible \/ Clock \/ (changes' = restamped /\ now' = now),
         UNCHANGED <<srv, conn, channels, sent, since>>
  PROVE  FillsInv'
<1>0. Stamps /\ Place /\ Remembered /\ Page /\ Covered /\ now \in Nat
  BY DEF FillsInv, Stamps
<1>1. PICK T : T = [written : Nat, at : Nat, visible : BOOLEAN]
  OBVIOUS
<1>2. PICK q \in Seq(T) : q = changes
  BY <1>0, <1>1 DEF Stamps
<1>3. PICK n \in Nat : n = Len(q) /\ DOMAIN q = 1..n
  OBVIOUS
<1>4. \A k \in 1..n : /\ q[k] \in T /\ q[k].written \in Nat /\ q[k].at \in Nat /\ q[k].visible \in BOOLEAN
                      /\ q[k].written <= q[k].at /\ q[k].at <= now
                      /\ q[k].visible \/ now <= q[k].at + Overlap
  <2>1. \A k \in 1..n : q[k] \in T
    BY <1>3
  <2>2. \A k \in 1..n : q[k].written \in Nat /\ q[k].at \in Nat /\ q[k].visible \in BOOLEAN
    BY <1>1, <2>1
  <2> QED BY <1>0, <1>2, <1>3, <2>1, <2>2 DEF Stamps
<1>5. CASE Write
  <2>1. PICK w : w = [written |-> now, at |-> now, visible |-> FALSE]
    OBVIOUS
  <2>2. w \in T /\ w.written = now /\ w.at = now /\ w.visible = FALSE
    BY <1>0, <1>1, <2>1
  <2>3. changes' = Append(q, w) /\ now' = now
    BY <1>2, <1>5, <2>1 DEF Write
  <2>4. changes' \in Seq(T) /\ DOMAIN changes' = 1..(n + 1) /\ changes'[n + 1] = w
        /\ \A k \in 1..n : changes'[k] = q[k]
    BY <1>3, <2>2, <2>3
  <2>5. \A k \in 1..(n + 1) : k \in 1..n \/ k = n + 1
    OBVIOUS
  <2>6. Stamps'
    <3>1. ASSUME NEW k \in DOMAIN changes'
          PROVE  /\ changes'[k].written <= changes'[k].at /\ changes'[k].at <= now
                 /\ changes'[k].visible \/ now <= changes'[k].at + Overlap
      <4>1. CASE k \in 1..n
        BY <1>4, <2>4, <4>1
      <4>2. CASE k = n + 1
        <5>1. now <= now + Overlap /\ now <= now
          BY <1>0, StreamAssumption
        <5> QED BY <2>2, <2>4, <4>2, <5>1
      <4> QED BY <2>4, <2>5, <4>1, <4>2
    <3> QED BY <1>0, <1>1, <2>3, <2>4, <3>1 DEF Stamps
  <2>7. \A k \in DOMAIN changes' :
           /\ changes'[k].at = now \/ (k \in DOMAIN changes /\ changes'[k].at = changes[k].at)
           /\ k \in DOMAIN changes => changes'[k].written = changes[k].written
    BY <1>2, <1>3, <2>2, <2>4, <2>5
  <2>8. DOMAIN changes \subseteq DOMAIN changes' /\ now <= now'
    BY <1>0, <1>2, <1>3, <2>3, <2>4
  <2> QED BY <1>0, <2>6, <2>7, <2>8, FillsStamped
<1>6. CASE Visible \/ (changes' = restamped /\ now' = now)
  <2>1. now' = now /\ DOMAIN changes' = 1..n /\ changes' = [k \in 1..n |-> changes'[k]]
        /\ \A k \in 1..n : \/ changes'[k] = q[k]
                           \/ changes'[k] = [q[k] EXCEPT !.visible = TRUE]
                           \/ q[k].visible /\ changes'[k] = [q[k] EXCEPT !.at = now]
    <3>1. CASE Visible
      <4>1. PICK k \in 1..n : changes' = [q EXCEPT ![k].visible = TRUE]
        BY <1>2, <1>3, <3>1 DEF Visible
      <4>2. DOMAIN changes' = 1..n /\ \A j \in 1..n : changes'[j] = IF j = k THEN [q[k] EXCEPT !.visible = TRUE] ELSE q[j]
        BY <1>3, <4>1
      <4> QED BY <3>1, <4>2 DEF Visible
    <3>2. CASE changes' = restamped /\ now' = now
      BY <1>2, <1>3, <3>2 DEF restamped
    <3> QED BY <1>6, <3>1, <3>2
  <2>2. \A k \in 1..n :
          /\ changes'[k] \in T /\ changes'[k].written = q[k].written
          /\ \/ changes'[k].at = q[k].at /\ (changes'[k].visible \/ changes'[k].visible = q[k].visible)
             \/ changes'[k].at = now /\ changes'[k].visible
    <3>1. ASSUME NEW k \in 1..n
          PROVE  /\ changes'[k] \in T /\ changes'[k].written = q[k].written
                 /\ \/ changes'[k].at = q[k].at /\ (changes'[k].visible \/ changes'[k].visible = q[k].visible)
                    \/ changes'[k].at = now /\ changes'[k].visible
      <4>1. q[k] \in [written : Nat, at : Nat, visible : BOOLEAN]
        BY <1>1, <1>4
      <4>2. q[k] \in T
        BY <1>4
      <4>3. CASE changes'[k] = q[k]
        BY <4>2, <4>3
      <4>4. CASE changes'[k] = [q[k] EXCEPT !.visible = TRUE]
        <5>1. /\ changes'[k] \in [written : Nat, at : Nat, visible : BOOLEAN]
              /\ changes'[k].written = q[k].written /\ changes'[k].at = q[k].at
          BY <4>1, <4>4
        <5>2. changes'[k].visible
          BY <4>1, <4>4
        <5> QED BY <1>1, <5>1, <5>2
      <4>5. CASE q[k].visible /\ changes'[k] = [q[k] EXCEPT !.at = now]
        <5>1. /\ changes'[k] \in [written : Nat, at : Nat, visible : BOOLEAN]
              /\ changes'[k].written = q[k].written /\ changes'[k].at = now
              /\ changes'[k].visible = q[k].visible
          BY <1>0, <4>1, <4>5
        <5>2. changes'[k].visible
          BY <4>5, <5>1
        <5> QED BY <1>1, <5>1, <5>2
      <4> QED BY <2>1, <4>3, <4>4, <4>5
    <3> QED BY <3>1
  <2>3. changes' \in Seq(T)
    <3>1. changes' \in [1..n -> T]
      BY <2>1, <2>2
    <3> QED BY <3>1
  <2>4. Stamps'
    <3>1. ASSUME NEW k \in DOMAIN changes'
          PROVE  /\ changes'[k].written <= changes'[k].at /\ changes'[k].at <= now
                 /\ changes'[k].visible \/ now <= changes'[k].at + Overlap
      <4>0. /\ k \in 1..n /\ q[k].written \in Nat /\ q[k].at \in Nat
            /\ q[k].written <= q[k].at /\ q[k].at <= now
            /\ changes'[k].written = q[k].written
        BY <1>4, <2>1, <2>2
      <4>1. CASE changes'[k].at = q[k].at /\ (changes'[k].visible \/ changes'[k].visible = q[k].visible)
        <5>1. q[k].visible \/ now <= q[k].at + Overlap
          BY <1>4, <4>0
        <5> QED BY <4>0, <4>1, <5>1
      <4>2. CASE changes'[k].at = now /\ changes'[k].visible
        <5>1. q[k].written <= now /\ now <= now
          BY <1>0, <4>0
        <5> QED BY <4>0, <4>2, <5>1
      <4> QED BY <2>2, <4>0, <4>1, <4>2
    <3> QED BY <1>0, <1>1, <2>1, <2>3, <3>1 DEF Stamps
  <2>5. \A k \in DOMAIN changes' :
           /\ changes'[k].at = now \/ (k \in DOMAIN changes /\ changes'[k].at = changes[k].at)
           /\ k \in DOMAIN changes => changes'[k].written = changes[k].written
    BY <1>2, <1>3, <2>1, <2>2
  <2>6. DOMAIN changes \subseteq DOMAIN changes' /\ now <= now'
    BY <1>0, <1>2, <1>3, <2>1
  <2> QED BY <1>0, <2>4, <2>5, <2>6, FillsStamped
<1>7. CASE Clock
  <2>1. changes' = changes /\ now' = now + 1 /\ \A k \in DOMAIN changes : ~changes[k].visible => now < changes[k].at + Overlap
    BY <1>7 DEF Clock
  <2>2. Stamps'
    <3>1. \A k \in DOMAIN changes :
            /\ changes[k].written <= changes[k].at /\ changes[k].at <= now + 1
            /\ changes[k].visible \/ now + 1 <= changes[k].at + Overlap
      BY <1>0, <1>2, <1>3, <1>4, <2>1, StreamAssumption
    <3> QED BY <1>0, <2>1, <3>1 DEF Stamps
  <2>3. now <= now'
    BY <1>0, <2>1
  <2> QED BY <1>0, <2>1, <2>2, <2>3, FillsStamped
<1> QED BY <1>5, <1>6, <1>7

\* onward leaves the place in the fills.
LEMMA OnwardFills ==
  ASSUME ServerInv, NEW m, DOMAIN m = DOMAIN srv
  PROVE  /\ onward(m).reading = FALSE /\ onward(m).fillCursor = m.fillCursor
         /\ onward(m).fillSeen = m.fillSeen /\ onward(m).fillsFrom = m.fillsFrom
<1>1. {"pc", "reading", "read"} \subseteq DOMAIN m
      /\ {"fillCursor", "fillSeen", "fillsFrom"} \subseteq DOMAIN m \ {"pc", "reading", "read"}
  BY DEF ServerInv, Tables
<1>2. onward(m).reading = FALSE /\ \A x \in DOMAIN m \ {"pc", "reading", "read"} : onward(m)[x] = m[x]
  BY <1>1, Onward
<1> QED BY <1>1, <1>2

\* Nobody listens: the place and the keys are forgotten, and nobody was sent fills.
LEMMA ForgetFills ==
  ASSUME ServerInv, FillsInv, Skip, srv.pc = "fills", UNCHANGED <<changes, now>>
  PROVE  FillsInv'
<1>0. Stamps /\ Place /\ Remembered /\ Page /\ Covered
  BY DEF FillsInv
<1>1. /\ srv'.fillCursor = None /\ srv'.fillSeen = {} /\ srv'.reading = FALSE
      /\ UNCHANGED <<conn, channels, sent, since>> /\ subscribers("fills") = {}
  <2>1. PICK m : m = [srv EXCEPT !.fillCursor = None, !.fillSeen = {}]
    OBVIOUS
  <2>2. DOMAIN m = DOMAIN srv /\ m.fillCursor = None /\ m.fillSeen = {}
    BY <2>1 DEF ServerInv, Tables
  <2>3. srv' = onward(m)
    BY <2>1 DEF Skip
  <2>4. srv'.fillCursor = None /\ srv'.fillSeen = {} /\ srv'.reading = FALSE
    BY <2>2, <2>3, OnwardFills
  <2> QED BY <2>4 DEF Skip, watched
<1>2. \A s \in Sockets : fills(s) = <<>>
  BY <1>0, <1>1 DEF Remembered, subscribers, ServerInv, Clean
<1>3. Stamps' /\ Place'
  BY <1>0, <1>1 DEF Stamps, Place
<1>4. Remembered'
  <2>1. \A s \in Sockets : fills(s)' = <<>>
    BY <1>1, <1>2 DEF fills
  <2>2. <<>> \in Seq(FillRow) /\ DOMAIN <<>> = {}
    OBVIOUS
  <2> QED BY <2>1, <2>2 DEF Remembered
<1>5. Page' /\ Covered'
  BY <1>1 DEF Page, Covered
<1> QED BY <1>3, <1>4, <1>5 DEF FillsInv

\* A pass over the fills begins, from now if the server had no place.
LEMMA BeginFills ==
  ASSUME ServerInv, FillsInv, NEW m, m = begun("fills"), UNCHANGED <<changes, now, conn, channels, sent, since>>,
         srv'.fillCursor = m.fillCursor, srv'.fillSeen = m.fillSeen, srv'.fillsFrom = m.fillsFrom, Page'
  PROVE  FillsInv' /\ m.fillCursor \in Nat /\ m.fillCursor <= now
<1>0. Stamps /\ Place /\ Remembered /\ Covered /\ now \in Nat
  BY DEF FillsInv, Stamps
<1>1. CASE srv.fillCursor # None
  <2>1. m = srv
    BY <1>1 DEF begun
  <2>2. srv.fillCursor \in Nat /\ srv.fillCursor <= now
    BY <1>0, <1>1 DEF Place
  <2>3. srv'.fillCursor = srv.fillCursor /\ srv'.fillSeen = srv.fillSeen /\ srv'.fillsFrom = srv.fillsFrom
    BY <2>1
  <2>4. Stamps' /\ Place' /\ Remembered'
    BY <1>0, <2>3 DEF Stamps, Place, Remembered, fills
  <2>5. Covered'
    BY <1>0, <2>3 DEF Covered, follows, older, has, fills
  <2> QED BY <2>1, <2>2, <2>4, <2>5 DEF FillsInv
<1>2. CASE srv.fillCursor = None
  <2>1. m.fillCursor = now /\ m.fillsFrom = now /\ m.fillSeen = srv.fillSeen /\ srv.fillSeen = {}
    BY <1>0, <1>2 DEF begun, ServerInv, Tables, Place
  <2>2. srv'.fillCursor = now /\ srv'.fillsFrom = now /\ srv'.fillSeen = {} /\ now # None
    BY <1>0, <2>1, StreamAssumption
  <2>3. Stamps' /\ Place'
    BY <1>0, <2>2 DEF Stamps, Place
  <2>4. Remembered'
    <3>1. \A s \in Sockets : fills(s) = <<>>
      BY <1>0, <1>2 DEF Remembered
    <3>2. \A s \in Sockets : fills(s)' = <<>>
      BY <3>1 DEF fills
    <3>3. <<>> \in Seq(FillRow) /\ DOMAIN <<>> = {}
      OBVIOUS
    <3> QED BY <3>2, <3>3 DEF Remembered
  <2>5. ASSUME NEW k \in DOMAIN changes PROVE changes[k].written < now \/ changes[k].at >= overlapStart(now)
    <3>1. changes[k].written <= changes[k].at
      BY <1>0 DEF Stamps
    <3>2. changes[k].written \in Nat /\ changes[k].at \in Nat
      BY <1>0, StampTypes
    <3>3. overlapStart(now) \in Nat /\ overlapStart(now) <= now
      BY <1>0, WindowStart
    <3> QED BY <1>0, <3>1, <3>2, <3>3
  <2>6. Covered'
    BY <2>2, <2>5 DEF Covered, older
  <2> QED BY <1>0, <2>1, <2>3, <2>4, <2>6 DEF FillsInv
<1> QED BY <1>1, <1>2

\* The page a pass reads.
fillPage(c) == [k \in 1..Len(fillChanges(c)) |->
                  [id |-> fillChanges(c)[k], at |-> changes[fillChanges(c)[k]].at]]

\* What the database answers: everything of the window but what is younger than the
\* youngest row of the page, or may still commit.
LEMMA AnswerIsPage ==
  ASSUME Stamps, NEW c \in Nat
  PROVE  /\ fillPage(c) \in Seq(FillRow)
         /\ \A j, k \in DOMAIN fillPage(c) : fillPage(c)[j].id = fillPage(c)[k].id => j = k
         /\ \A j \in DOMAIN fillPage(c) :
              /\ fillPage(c)[j].id \in DOMAIN changes
              /\ fillPage(c)[j].at >= overlapStart(c) /\ fillPage(c)[j].at <= now
              /\ \A k \in DOMAIN changes :
                   changes[k].at >= overlapStart(c) /\ changes[k].at + Overlap < fillPage(c)[j].at
                     => \E i \in DOMAIN fillPage(c) : fillPage(c)[i].id = k
<1>1. PICK f : f = fillChanges(c)
  OBVIOUS
<1>2. PICK page : page = fillPage(c)
  OBVIOUS
<1>3. PICK n \in Nat :
        /\ Len(f) = n /\ \A j \in 1..n : InWindow(f[j], c)
        /\ \A i, j \in 1..n : f[i] = f[j] => i = j
        /\ \A k, j : InWindow(k, c) /\ j \in 1..n /\ byStamp(k, f[j]) => \E i \in 1..n : f[i] = k
  BY <1>1, PageOfFills
<1>4. page = [k \in 1..n |-> [id |-> f[k], at |-> changes[f[k]].at]]
  BY <1>1, <1>2, <1>3 DEF fillPage
<1>5. PICK z \in Nat : DOMAIN changes = 1..z /\ \A k \in 1..z : changes[k].at \in Nat /\ changes[k].visible \in BOOLEAN
  BY StampTypes
<1>6. \A j \in 1..n : /\ f[j] \in 1..z /\ f[j] \in Nat
                      /\ changes[f[j]].at \in Nat /\ changes[f[j]].at >= overlapStart(c) /\ changes[f[j]].at <= now
  <2>1. ASSUME NEW j \in 1..n PROVE f[j] \in 1..z /\ changes[f[j]].at >= overlapStart(c)
    BY <1>3, <1>5 DEF InWindow
  <2>2. \A k \in DOMAIN changes : changes[k].at <= now
    BY DEF Stamps
  <2> QED BY <1>5, <2>1, <2>2
<1>7. page \in Seq(FillRow) /\ DOMAIN page = 1..n
      /\ \A j \in 1..n : page[j].id = f[j] /\ page[j].at = changes[f[j]].at
  <2>1. \A j \in 1..n : page[j] \in FillRow
    BY <1>4, <1>6 DEF FillRow
  <2>2. page \in [1..n -> FillRow]
    BY <1>4, <2>1
  <2> QED BY <1>4, <2>2
<1>8. ASSUME NEW j \in 1..n, NEW k \in DOMAIN changes,
             changes[k].at >= overlapStart(c), changes[k].at + Overlap < changes[f[j]].at
      PROVE  \E i \in 1..n : f[i] = k
  <2>1. now \in Nat /\ changes[k].at \in Nat /\ (changes[k].visible \/ now <= changes[k].at + Overlap)
    BY <1>5 DEF Stamps
  <2>0. PICK a \in Nat : a = changes[f[j]].at /\ a <= now
    BY <1>6
  <2>2. ~(now <= changes[k].at + Overlap) /\ changes[k].at < a
    BY <1>8, <2>0, <2>1, StreamAssumption
  <2>3. InWindow(k, c)
    BY <1>8, <2>1, <2>2 DEF InWindow
  <2>4. byStamp(k, f[j])
    BY <2>0, <2>2 DEF byStamp
  <2> QED BY <1>3, <2>3, <2>4
<1>9. ASSUME NEW j \in 1..n, NEW k \in 1..n, page[j].id = page[k].id PROVE j = k
  <2>1. f[j] = f[k]
    BY <1>7, <1>9
  <2> QED BY <1>3, <2>1
<1>10. ASSUME NEW j \in 1..n
       PROVE  /\ page[j].id \in DOMAIN changes /\ page[j].at >= overlapStart(c) /\ page[j].at <= now
              /\ \A k \in DOMAIN changes :
                   changes[k].at >= overlapStart(c) /\ changes[k].at + Overlap < page[j].at
                     => \E i \in 1..n : page[i].id = k
  <2>1. f[j] \in DOMAIN changes /\ changes[f[j]].at >= overlapStart(c) /\ changes[f[j]].at <= now
    BY <1>5, <1>6
  <2>2. page[j].id = f[j] /\ page[j].at = changes[f[j]].at /\ \A i \in 1..n : page[i].id = f[i]
    BY <1>7
  <2>3. ASSUME NEW k \in DOMAIN changes,
               changes[k].at >= overlapStart(c), changes[k].at + Overlap < page[j].at
        PROVE  \E i \in 1..n : page[i].id = k
    BY <1>8, <2>2, <2>3
  <2> QED BY <2>1, <2>2, <2>3
<1>11. DOMAIN page = 1..n /\ page \in Seq(FillRow)
  BY <1>7
<1> QED BY <1>2, <1>9, <1>10, <1>11

\* The read of a pass over the fills.
LEMMA ReadFills ==
  ASSUME ServerInv, FillsInv, Read, srv.pc = "fills", UNCHANGED <<changes, now>>
  PROVE  FillsInv'
<1>0. Stamps /\ Place /\ now \in Nat
  BY DEF FillsInv, Stamps
<1>1. PICK m : m = begun("fills")
  OBVIOUS
<1>2. DOMAIN m = DOMAIN srv /\ m.pc = "fills"
  BY <1>1 DEF begun, ServerInv, Tables
<1>3. UNCHANGED <<conn, channels, sent, since>>
      /\ \/ srv' = [m EXCEPT !.reading = TRUE, !.read = answer("fills", m)]
         \/ srv' = onward(m)
  BY <1>1 DEF Read
<1>4. srv'.fillCursor = m.fillCursor /\ srv'.fillSeen = m.fillSeen /\ srv'.fillsFrom = m.fillsFrom
  <2>1. CASE srv' = onward(m)
    BY <1>2, <2>1, OnwardFills
  <2>2. CASE srv' = [m EXCEPT !.reading = TRUE, !.read = answer("fills", m)]
    BY <1>2, <2>2 DEF ServerInv, Tables
  <2> QED BY <1>3, <2>1, <2>2
<1>5. m.fillCursor \in Nat
  BY <1>0, <1>1, StreamAssumption DEF begun, ServerInv, Tables, Place
<1>6. Page'
  <2>1. CASE srv' = onward(m)
    <3>1. srv'.reading = FALSE
      BY <1>2, <2>1, OnwardFills
    <3> QED BY <3>1 DEF Page
  <2>2. CASE srv' = [m EXCEPT !.reading = TRUE, !.read = answer("fills", m)]
    <3>1. PICK page : page = answer("fills", m)
      OBVIOUS
    <3>2. PICK c \in Nat : c = m.fillCursor
      BY <1>5
    <3>3. srv'.read = page /\ srv'.fillCursor = c /\ c # None
      BY <1>2, <1>4, <2>2, <3>1, <3>2, StreamAssumption DEF ServerInv, Tables
    <3>4. /\ page \in Seq(FillRow)
          /\ \A j, k \in DOMAIN page : page[j].id = page[k].id => j = k
          /\ \A j \in DOMAIN page :
               /\ page[j].id \in DOMAIN changes /\ page[j].at >= overlapStart(c) /\ page[j].at <= now
               /\ \A k \in DOMAIN changes :
                    changes[k].at >= overlapStart(c) /\ changes[k].at + Overlap < page[j].at
                      => \E i \in DOMAIN page : page[i].id = k
      <4>1. page = fillPage(c)
        BY <3>1, <3>2 DEF answer, Snapshots, fillPage
      <4> QED BY <1>0, <4>1, AnswerIsPage
    <3> QED BY <3>3, <3>4 DEF Page
  <2> QED BY <1>3, <2>1, <2>2
<1> QED BY <1>1, <1>3, <1>4, <1>6, BeginFills

\* One list behind another.
LEMMA Joined ==
  ASSUME NEW T, NEW g \in Seq(T), NEW u \in Seq(T)
  PROVE  /\ g \o u \in Seq(T) /\ DOMAIN (g \o u) = 1..(Len(g) + Len(u))
         /\ \A j \in 1..Len(g) : (g \o u)[j] = g[j] /\ j \in 1..(Len(g) + Len(u))
         /\ \A j \in 1..Len(u) : (g \o u)[Len(g) + j] = u[j] /\ Len(g) + j \in 1..(Len(g) + Len(u))
<1>0. PICK l, n \in Nat : l = Len(g) /\ n = Len(u)
  OBVIOUS
<1>1. g \o u \in Seq(T) /\ Len(g \o u) = l + n
  BY <1>0
<1>2. DOMAIN (g \o u) = 1..(l + n)
  BY <1>1
<1>3. \A j \in 1..l : (g \o u)[j] = g[j] /\ j \in 1..(l + n)
  BY <1>0
<1>4. ASSUME NEW j \in 1..n PROVE (g \o u)[l + j] = u[j] /\ l + j \in 1..(l + n)
  <2>1. l + j \in 1..(l + n) /\ ~(l + j <= l) /\ (l + j) - l = j
    OBVIOUS
  <2> QED BY <1>0, <2>1
<1> QED BY <1>0, <1>1, <1>2, <1>3, <1>4

\* What the answer of a pass does to each subscription: the rows not sent before go to
\* whoever keeps up, the place moves to the youngest of them, older keys are dropped.
LEMMA ProcessFillsKeeps ==
  ASSUME ServerInv, FillsInv, ProcessFills, UNCHANGED <<changes, now>>
  PROVE  FillsInv'
<1>0. /\ Stamps /\ Place /\ Remembered /\ Covered /\ now \in Nat
      /\ srv.reading /\ srv.pc = "fills" /\ UNCHANGED <<channels, since>>
  BY DEF FillsInv, Stamps, ProcessFills
<1>1. PICK page : page = srv.read
  OBVIOUS
<1>2. PICK c : c = srv.fillCursor
  OBVIOUS
<1>3. c \in Nat /\ c <= now /\ c # None
  BY <1>0, <1>2 DEF FillsInv, Page, Place
<1>4. /\ page \in Seq(FillRow)
      /\ \A j, k \in DOMAIN page : page[j].id = page[k].id => j = k
      /\ \A j \in DOMAIN page :
           /\ page[j].id \in DOMAIN changes /\ page[j].at >= overlapStart(c) /\ page[j].at <= now
           /\ \A k \in DOMAIN changes :
                changes[k].at >= overlapStart(c) /\ changes[k].at + Overlap < page[j].at
                  => \E i \in DOMAIN page : page[i].id = k
  BY <1>0, <1>1, <1>2 DEF FillsInv, Page
<1>5. PICK u : u = unseen
  OBVIOUS
<1>6. PICK n \in Nat : NewRows(u, n)
  BY <1>1, <1>4, <1>5, UnseenAre
<1>7. /\ u \in [1..n -> FillRow]
      /\ \A i \in 1..n : \E k \in DOMAIN page :
           u[i] = page[k] /\ \A seen \in srv.fillSeen : seen.id # page[k].id
      /\ \A k \in DOMAIN page : (\A seen \in srv.fillSeen : seen.id # page[k].id) =>
           \E i \in 1..n : u[i] = page[k]
      /\ \A i, j \in 1..n : u[i].id = u[j].id => i = j
  BY <1>1, <1>6 DEF NewRows
<1>8. PICK R : R = Range(u)
  OBVIOUS
<1>9. /\ u \in Seq(FillRow) /\ Len(u) = n /\ DOMAIN u = 1..n
      /\ \A r : r \in R <=> \E i \in 1..n : r = u[i]
  BY <1>7, <1>8 DEF Range
<1>10. ASSUME NEW r \in R
      PROVE  /\ r \in FillRow /\ r.id \in DOMAIN changes /\ r.at \in Nat
             /\ r.at >= overlapStart(c) /\ r.at <= now
             /\ \A seen \in srv.fillSeen : seen.id # r.id
             /\ \E j \in DOMAIN page : r = page[j]
  <2>1. PICK i \in 1..n : r = u[i]
    BY <1>9
  <2>2. PICK k \in DOMAIN page : u[i] = page[k] /\ \A seen \in srv.fillSeen : seen.id # page[k].id
    BY <1>7
  <2>3. page[k] \in FillRow /\ page[k].at \in Nat
    BY <1>4, RowTypes
  <2> QED BY <1>4, <2>1, <2>2, <2>3
<1>11. PICK place : place = Max({c} \cup {r.at : r \in R})
  OBVIOUS
<1>12. /\ place \in Nat /\ c <= place /\ place <= now /\ place # None
       /\ place = c \/ \E j \in DOMAIN page : place = page[j].at
  <2> DEFINE S == {c} \cup {r.at : r \in R}
  <2>1. S \in SUBSET Nat /\ S # {} /\ c \in S /\ \A x \in S : x <= now
    BY <1>3, <1>10
  <2>2. \A x \in S : x = c \/ \E j \in DOMAIN page : x = page[j].at
    BY <1>10
  <2>3. place = Max(S)
    BY <1>11
  <2> HIDE DEF S
  <2>4. place \in S /\ \A x \in S : x <= place
    BY <1>0, <2>1, <2>3, Greatest
  <2>5. place \in Nat
    BY <2>1, <2>4
  <2> QED BY <2>1, <2>2, <2>4, <2>5, StreamAssumption
<1>13. /\ overlapStart(c) \in Nat /\ overlapStart(place) \in Nat /\ overlapStart(c) <= overlapStart(place)
       /\ \A x \in Nat : x < overlapStart(place) => x + Overlap < place
  BY <1>3, <1>12, WindowStart
<1>14. PICK keep : keep = {r \in srv.fillSeen \cup R : r.at >= overlapStart(place)}
  OBVIOUS
<1>15. /\ srv'.fillCursor = place /\ srv'.fillSeen = keep /\ srv'.fillsFrom = srv.fillsFrom
       /\ srv'.reading = FALSE
  <2>1. PICK m : m = [srv EXCEPT !.fillCursor = place, !.fillSeen = keep]
    OBVIOUS
  <2>2. DOMAIN m = DOMAIN srv /\ m.fillCursor = place /\ m.fillSeen = keep /\ m.fillsFrom = srv.fillsFrom
    BY <2>1 DEF ServerInv, Tables
  <2>3. srv' = onward(m)
    BY <1>2, <1>5, <1>8, <1>11, <1>14, <2>1 DEF ProcessFills
  <2> QED BY <2>2, <2>3, OnwardFills
<1>16. PICK S \in SUBSET Sockets : S = subscribers("fills")
  BY DEF subscribers
<1>17. ASSUME NEW s \in Sockets
       PROVE  /\ \/ fills(s)' = fills(s)
                 \/ fills(s)' = fills(s) \o u /\ "fills" \in channels[s]
              /\ follows(s)' => follows(s) /\ fills(s)' = fills(s) \o u
  <2>1. Delivered(S, "fills", u)
    <3>1. send(S, "fills", u)
      BY <1>5, <1>16 DEF ProcessFills
    <3> QED BY <3>1, Sent DEF ServerInv, Streams
  <2>2. /\ conn'[s] = "open" => conn[s] = "open"
        /\ \/ fills(s)' = fills(s) /\ (s \in S => conn'[s] # "open")
           \/ s \in S /\ conn[s] = "open" /\ fills(s)' = fills(s) \o u
    BY <2>1 DEF Delivered, fills, Snapshots
  <2>3. s \in S <=> conn[s] # "none" /\ "fills" \in channels[s]
    BY <1>16 DEF subscribers
  <2>4. follows(s)' => conn'[s] = "open" /\ "fills" \in channels[s]
    BY <1>0 DEF follows
  <2> QED BY <2>2, <2>3, <2>4 DEF follows
<1>18. Stamps' /\ Page'
  BY <1>0, <1>15 DEF Stamps, Page
<1>19. Place'
  <2>1. \A r \in keep : r \in FillRow /\ r.id \in DOMAIN changes
    BY <1>0, <1>10, <1>14 DEF Place
  <2> QED BY <1>12, <1>15, <2>1 DEF Place
<1>20. ASSUME NEW s \in Sockets
       PROVE  /\ fills(s)' \in Seq(FillRow)
              /\ \A j, k \in DOMAIN fills(s)' : fills(s)'[j] = fills(s)'[k] => j = k
              /\ fills(s)' # <<>> => "fills" \in channels[s]
              /\ \A j \in DOMAIN fills(s)' : fills(s)'[j] \in keep \/ fills(s)'[j].at < overlapStart(place)
  <2>1. PICK g : g = fills(s)
    OBVIOUS
  <2>2. /\ g \in Seq(FillRow) /\ \A j, k \in DOMAIN g : g[j] = g[k] => j = k
        /\ g # <<>> => "fills" \in channels[s]
        /\ \A j \in DOMAIN g : g[j] \in srv.fillSeen \/ g[j].at < overlapStart(c)
    BY <1>0, <1>2, <2>1 DEF Remembered
  <2>3. PICK l \in Nat : l = Len(g) /\ DOMAIN g = 1..l
    BY <2>2
  <2>4. \A j \in 1..l : g[j] \in FillRow /\ g[j].at \in Nat
    BY <2>2, <2>3, RowTypes
  <2>5. \A j \in 1..l : g[j] \in keep \/ g[j].at < overlapStart(place)
    <3>1. ASSUME NEW j \in 1..l PROVE g[j] \in keep \/ g[j].at < overlapStart(place)
      <4>1. CASE g[j] \in srv.fillSeen
        BY <1>13, <1>14, <2>4, <4>1
      <4>2. CASE g[j].at < overlapStart(c)
        BY <1>13, <2>4, <4>2
      <4> QED BY <2>2, <2>3, <4>1, <4>2
    <3> QED BY <3>1
  <2>6. CASE fills(s)' = g
    BY <2>2, <2>3, <2>5, <2>6
  <2>7. CASE fills(s)' = g \o u /\ "fills" \in channels[s]
    <3>1. PICK h : h = g \o u
      OBVIOUS
    <3>2. /\ h \in Seq(FillRow) /\ DOMAIN h = 1..(l + n)
          /\ \A j \in 1..l : h[j] = g[j]
          /\ \A j \in (l + 1)..(l + n) : h[j] = u[j - l] /\ j - l \in 1..n
      <4>1. /\ h \in Seq(FillRow) /\ DOMAIN h = 1..(l + n)
            /\ \A j \in 1..l : h[j] = g[j]
            /\ \A j \in 1..n : h[l + j] = u[j]
        <5>1. /\ g \o u \in Seq(FillRow) /\ DOMAIN (g \o u) = 1..(Len(g) + Len(u))
              /\ \A j \in 1..Len(g) : (g \o u)[j] = g[j] /\ j \in 1..(Len(g) + Len(u))
              /\ \A j \in 1..Len(u) : (g \o u)[Len(g) + j] = u[j] /\ Len(g) + j \in 1..(Len(g) + Len(u))
          BY <1>9, <2>2, Joined
        <5>2. Len(g) = l /\ Len(u) = n
          BY <1>9, <2>3
        <5> QED BY <3>1, <5>1, <5>2
      <4>2. \A j \in (l + 1)..(l + n) : j - l \in 1..n /\ l + (j - l) = j
        OBVIOUS
      <4>3. ASSUME NEW j \in (l + 1)..(l + n) PROVE h[j] = u[j - l] /\ j - l \in 1..n
        BY <4>1, <4>2
      <4> QED BY <4>1, <4>3
    <3>3. \A j \in 1..(l + n) : j \in 1..l \/ j \in (l + 1)..(l + n)
      BY <2>3
    <3>4. \A j \in (l + 1)..(l + n) : h[j] \in R
      BY <1>9, <3>2
    <3>5. \A j \in 1..(l + n) : h[j] \in keep \/ h[j].at < overlapStart(place)
      <4>1. \A r \in R : r \in keep \/ r.at < overlapStart(place)
        BY <1>10, <1>13, <1>14
      <4> QED BY <2>5, <3>2, <3>3, <3>4, <4>1
    <3>6. ASSUME NEW j \in 1..l, NEW r \in R PROVE g[j] # r
      <4>1. CASE g[j] \in srv.fillSeen
        BY <1>10, <4>1
      <4>2. CASE g[j].at < overlapStart(c)
        BY <1>10, <1>13, <2>4, <4>2
      <4> QED BY <2>2, <2>3, <4>1, <4>2
    <3>7. ASSUME NEW j \in 1..(l + n), NEW k \in 1..(l + n), h[j] = h[k] PROVE j = k
      <4>1. CASE j \in 1..l /\ k \in 1..l
        BY <2>2, <2>3, <3>2, <3>7, <4>1
      <4>2. CASE j \in (l + 1)..(l + n) /\ k \in (l + 1)..(l + n)
        <5>1. u[j - l] = u[k - l] /\ j - l \in 1..n /\ k - l \in 1..n
          BY <3>2, <3>7, <4>2
        <5>2. j - l = k - l
          BY <1>7, <5>1
        <5> QED BY <2>3, <5>2
      <4>3. ~(j \in 1..l /\ k \in (l + 1)..(l + n)) /\ ~(k \in 1..l /\ j \in (l + 1)..(l + n))
        BY <3>2, <3>4, <3>6, <3>7
      <4> QED BY <3>3, <4>1, <4>2, <4>3
    <3> QED BY <2>7, <3>1, <3>2, <3>5, <3>7
  <2> QED BY <1>17, <2>1, <2>6, <2>7
<1>21. Remembered'
  <2>1. channels' = channels /\ srv'.fillCursor # None
    BY <1>0, <1>12, <1>15
  <2> QED BY <1>15, <1>20, <2>1 DEF Remembered
<1>22. ASSUME NEW s \in Sockets, follows(s)'
       PROVE  /\ \A k \in DOMAIN changes :
                   older(s, k) \/ has(s, k)' \/ changes[k].at >= overlapStart(place)
              /\ \A r \in keep : older(s, r.id) \/ has(s, r.id)'
  <2>1. PICK g : g = fills(s)
    OBVIOUS
  <2>2. follows(s) /\ fills(s)' = g \o u /\ g \in Seq(FillRow)
    BY <1>0, <1>17, <1>22, <2>1 DEF Remembered
  <2>3. PICK l \in Nat : l = Len(g) /\ DOMAIN g = 1..l
    BY <2>2
  <2>4. PICK h : h = g \o u
    OBVIOUS
  <2>5. /\ DOMAIN h = 1..(l + n) /\ \A j \in 1..l : h[j] = g[j] /\ j \in 1..(l + n)
        /\ \A j \in 1..n : h[l + j] = u[j] /\ l + j \in 1..(l + n)
    <3>1. /\ DOMAIN (g \o u) = 1..(Len(g) + Len(u))
          /\ \A j \in 1..Len(g) : (g \o u)[j] = g[j] /\ j \in 1..(Len(g) + Len(u))
          /\ \A j \in 1..Len(u) : (g \o u)[Len(g) + j] = u[j] /\ Len(g) + j \in 1..(Len(g) + Len(u))
      BY <1>9, <2>2, Joined
    <3>2. Len(g) = l /\ Len(u) = n
      BY <1>9, <2>3
    <3> QED BY <2>4, <3>1, <3>2
  <2>6. \A k : has(s, k) => has(s, k)'
    <3>1. \A k : has(s, k) <=> \E j \in 1..l : g[j].id = k
      BY <2>1, <2>3 DEF has
    <3>2. \A k : has(s, k)' <=> \E j \in 1..(l + n) : h[j].id = k
      BY <2>2, <2>4, <2>5 DEF has
    <3> QED BY <2>5, <3>1, <3>2
  <2>7. ASSUME NEW r \in R PROVE has(s, r.id)'
    <3>1. PICK i \in 1..n : r = u[i]
      BY <1>9
    <3>2. h[l + i] = r /\ l + i \in DOMAIN h
      BY <2>5, <3>1
    <3> QED BY <2>2, <2>4, <3>2 DEF has
  <2>8. \A seen \in srv.fillSeen : older(s, seen.id) \/ has(s, seen.id)
    BY <1>0, <2>2 DEF Covered
  <2>9. ASSUME NEW k \in DOMAIN changes, ~(changes[k].at >= overlapStart(place))
        PROVE  older(s, k) \/ has(s, k)'
    <3>1. PICK a \in Nat : a = changes[k].at /\ a < overlapStart(place)
      BY <1>0, <1>13, <2>9, StampTypes
    <3>2. CASE a < overlapStart(c)
      <4>1. ~(changes[k].at >= overlapStart(c))
        BY <1>13, <3>1, <3>2
      <4>2. older(s, k) \/ has(s, k)
        BY <1>0, <1>2, <1>3, <2>2, <4>1 DEF Covered
      <4> QED BY <2>6, <4>2
    <3>3. CASE a >= overlapStart(c)
      <4>1. place # c
        BY <1>13, <3>1, <3>3
      <4>2. PICK j \in DOMAIN page : place = page[j].at
        BY <1>12, <4>1
      <4>3. changes[k].at >= overlapStart(c) /\ changes[k].at + Overlap < page[j].at
        BY <1>13, <3>1, <3>3, <4>2
      <4>4. PICK i \in DOMAIN page : page[i].id = k
        BY <1>4, <4>3
      <4>5. CASE \A seen \in srv.fillSeen : seen.id # page[i].id
        <5>1. page[i] \in R
          BY <1>7, <1>9, <4>5
        <5> QED BY <2>7, <4>4, <5>1
      <4>6. CASE \E seen \in srv.fillSeen : seen.id = page[i].id
        BY <2>6, <2>8, <4>4, <4>6
      <4> QED BY <4>5, <4>6
    <3> QED BY <1>13, <3>1, <3>2, <3>3
  <2>10. \A r \in keep : older(s, r.id) \/ has(s, r.id)'
    BY <1>14, <2>6, <2>7, <2>8
  <2> QED BY <2>9, <2>10
<1>23. Covered'
  <2>1. \A s \in Sockets : \A k : older(s, k)' = older(s, k)
    BY <1>0, <1>15 DEF older
  <2> QED BY <1>15, <1>22, <2>1 DEF Covered
<1> QED BY <1>18, <1>19, <1>21, <1>23 DEF FillsInv

\* Nothing of the fills changes at all.
LEMMA FillsSame ==
  ASSUME FillsInv, UNCHANGED <<changes, now, srv, conn, channels, sent, since>>
  PROVE  FillsInv'
<1>0. Stamps /\ Place /\ Remembered /\ Page /\ Covered
  BY DEF FillsInv
<1>1. Stamps' /\ Place'
  BY <1>0 DEF Stamps, Place
<1>2. Remembered'
  BY <1>0 DEF Remembered, fills
<1>3. Page'
  BY <1>0 DEF Page
<1>4. Covered'
  BY <1>0 DEF Covered, follows, older, has, fills
<1> QED BY <1>1, <1>2, <1>3, <1>4 DEF FillsInv

\* A step of the server that sends nothing and is not about the fills.
LEMMA UnreadKeeps ==
  ASSUME FillsInv, UNCHANGED <<changes, now, conn, channels, sent, since>>,
         srv'.fillCursor = srv.fillCursor, srv'.fillSeen = srv.fillSeen, srv'.fillsFrom = srv.fillsFrom,
         ~(srv'.reading /\ srv'.pc = "fills")
  PROVE  FillsInv'
<1>0. Stamps /\ Place /\ Remembered /\ Page /\ Covered
  BY DEF FillsInv
<1>1. \A s \in Sockets : /\ fills(s)' = fills(s) /\ (fills(s) # <<>> => "fills" \in channels[s])
                         /\ follows(s)' <=> follows(s)
  BY <1>0 DEF fills, follows, Remembered
<1> QED BY <1>0, <1>1, FillsQuiet

\* Frames of another stream: a slow consumer may be dropped, nobody is sent fills.
LEMMA OthersKeep ==
  ASSUME ServerInv, FillsInv, UNCHANGED <<changes, now, channels, since>>,
         srv'.fillCursor = srv.fillCursor, srv'.fillSeen = srv.fillSeen, srv'.fillsFrom = srv.fillsFrom,
         srv'.reading = FALSE,
         NEW ch \in Streams \ {"fills"}, NEW values,
         UNCHANGED <<conn, sent>> \/ send(subscribers(ch), ch, values)
  PROVE  FillsInv'
<1>0. Stamps /\ Place /\ Remembered /\ Page /\ Covered
  BY DEF FillsInv
<1>1. CASE UNCHANGED <<conn, sent>>
  BY <1>1, UnreadKeeps
<1>2. CASE send(subscribers(ch), ch, values)
  <2>1. PICK S \in SUBSET Sockets : S = subscribers(ch)
    BY DEF subscribers
  <2>2. Delivered(S, ch, values)
    BY <1>2, <2>1, Sent DEF ServerInv
  <2>3. \A s \in Sockets : /\ fills(s)' = fills(s) /\ (fills(s) # <<>> => "fills" \in channels[s])
                           /\ follows(s)' => follows(s)
    BY <1>0, <2>2 DEF Delivered, fills, follows, Remembered, Streams
  <2> QED BY <1>0, <2>3, FillsQuiet
<1> QED BY <1>1, <1>2

\* The process starts anew: no connection, no place, nothing sent.
LEMMA FreshFills ==
  ASSUME Stamps, UNCHANGED <<changes, now>>, conn' = [s \in Sockets |-> "none"],
         sent' = [s \in Sockets |-> Nothing],
         srv'.fillCursor = None, srv'.fillSeen = {}, srv'.reading = FALSE
  PROVE  FillsInv'
<1>1. Stamps' /\ Place' /\ Page'
  BY DEF Stamps, Place, Page
<1>2. Remembered'
  <2>1. \A s \in Sockets : fills(s)' = <<>>
    BY DEF fills, Nothing, Streams
  <2>2. <<>> \in Seq(FillRow) /\ DOMAIN <<>> = {}
    OBVIOUS
  <2> QED BY <2>1, <2>2 DEF Remembered
<1>3. Covered'
  BY DEF Covered, follows
<1> QED BY <1>1, <1>2, <1>3 DEF FillsInv

\* A subscription to the fills is owed what is written from now on.
LEMMA SubscribeFills ==
  ASSUME ServerInv, Begun, FillsInv, NEW s \in Sockets, NEW ch \in Streams, subscribe(s, ch), conn[s] = "open",
         UNCHANGED <<changes, now>>
  PROVE  FillsInv'
<1>0. Stamps /\ Place /\ Remembered /\ Page /\ Covered /\ srv' = srv
  BY DEF FillsInv, subscribe
<1>1. CASE ch \in OfMarket /\ ~srv.ready
  BY <1>0, <1>1, FillsSame DEF subscribe
<1>2. CASE ~(ch \in OfMarket /\ ~srv.ready)
  <2>1. /\ channels' = [channels EXCEPT ![s] = @ \cup {ch}]
        /\ since' = IF ch \in channels[s] THEN since ELSE [since EXCEPT ![s] = now]
        /\ \/ UNCHANGED <<conn, sent>>
           \/ ch \in Snapshots /\ send({s}, ch, <<srv.frames[ch]>>)
    BY <1>2 DEF subscribe
  <2>2. \A r \in Sockets : /\ fills(r)' = fills(r)
                           /\ conn'[r] = "open" => conn[r] = "open"
    <3>1. CASE UNCHANGED <<conn, sent>>
      BY <3>1 DEF fills
    <3>2. CASE ch \in Snapshots /\ send({s}, ch, <<srv.frames[ch]>>)
      <4>1. Delivered({s}, ch, <<srv.frames[ch]>>)
        BY <3>2, Sent DEF ServerInv
      <4> QED BY <3>2, <4>1 DEF Delivered, fills, Streams, Snapshots
    <3> QED BY <2>1, <3>1, <3>2
  <2>3. ASSUME NEW r \in Sockets
        PROVE  /\ channels[r] \subseteq channels'[r]
               /\ follows(r)' => (follows(r) /\ since'[r] = since[r]) \/ since'[r] = now
    <3>1. channels[r] \subseteq channels'[r] /\ (r # s \/ ch \in channels[s] => since'[r] = since[r] /\ channels'[r] = channels[r])
      BY <2>1 DEF ServerInv, Tables, Begun
    <3>2. r = s /\ ch \notin channels[s] => since'[r] = now
      BY <2>1 DEF Begun
    <3> QED BY <2>2, <3>1, <3>2 DEF follows
  <2>4. \A r \in Sockets : fills(r) # <<>> => "fills" \in channels[r]
    BY <1>0 DEF Remembered
  <2> QED BY <1>0, <2>2, <2>3, <2>4, FillsQuiet
<1> QED BY <1>1, <1>2

\* One stream is left, or all of them.
LEMMA UnsubscribeFills ==
  ASSUME ServerInv, FillsInv, NEW s \in Sockets, NEW ch \in Streams, unsubscribe(s, ch), UNCHANGED <<changes, now>>
  PROVE  FillsInv'
<1>0. Stamps /\ Place /\ Remembered /\ Page /\ Covered
  BY DEF FillsInv
<1>1. /\ srv'.fillCursor = srv.fillCursor /\ srv'.fillSeen = srv.fillSeen /\ srv'.fillsFrom = srv.fillsFrom
      /\ srv'.reading = srv.reading /\ srv'.pc = srv.pc /\ srv'.read = srv.read
  BY DEF unsubscribe, forgotten, ServerInv, Tables
<1>2. /\ channels' = [channels EXCEPT ![s] = @ \ {ch}]
      /\ sent' = [sent EXCEPT ![s][ch] = <<>>]
      /\ UNCHANGED <<conn, since>>
  BY DEF unsubscribe
<1>3. ASSUME NEW r \in Sockets
      PROVE  /\ fills(r)' \in {fills(r), <<>>}
             /\ fills(r)' # <<>> => "fills" \in channels'[r]
             /\ follows(r)' => follows(r) /\ fills(r)' = fills(r)
  <2>1. CASE r = s /\ ch = "fills"
    BY <1>2, <2>1 DEF fills, follows, ServerInv, Tables
  <2>2. CASE r # s \/ ch # "fills"
    <3>1. fills(r)' = fills(r) /\ ("fills" \in channels'[r] <=> "fills" \in channels[r])
      BY <1>2, <2>2 DEF fills, ServerInv, Tables
    <3> QED BY <1>0, <1>2, <3>1 DEF follows, Remembered
  <2> QED BY <2>1, <2>2
<1> QED BY <1>0, <1>1, <1>2, <1>3, FillsQuiet

\* onClose.
LEMMA CloseFills ==
  ASSUME ServerInv, FillsInv, NEW s \in Sockets, close(s), UNCHANGED <<changes, now>>
  PROVE  FillsInv'
<1>0. Stamps /\ Place /\ Remembered /\ Page /\ Covered
  BY DEF FillsInv
<1>1. /\ srv'.fillCursor = srv.fillCursor /\ srv'.fillSeen = srv.fillSeen /\ srv'.fillsFrom = srv.fillsFrom
      /\ srv'.reading = srv.reading /\ srv'.pc = srv.pc /\ srv'.read = srv.read
  BY DEF close, forgotten, ServerInv, Tables
<1>2. /\ channels' = [channels EXCEPT ![s] = {}]
      /\ sent' = [sent EXCEPT ![s] = Nothing]
      /\ conn' = [conn EXCEPT ![s] = "none"] /\ since' = since
  BY DEF close
<1>3. ASSUME NEW r \in Sockets
      PROVE  /\ fills(r)' \in {fills(r), <<>>}
             /\ fills(r)' # <<>> => "fills" \in channels'[r]
             /\ follows(r)' => follows(r) /\ fills(r)' = fills(r)
  <2>1. CASE r = s
    <3>1. fills(r)' = <<>> /\ ~follows(r)'
      BY <1>2, <2>1 DEF fills, follows, ServerInv, Tables, Nothing, Streams
    <3> QED BY <3>1
  <2>2. CASE r # s
    <3>1. fills(r)' = fills(r) /\ channels'[r] = channels[r] /\ conn'[r] = conn[r]
      BY <1>2, <2>2 DEF fills, ServerInv, Tables
    <3> QED BY <1>0, <3>1 DEF follows, Remembered
  <2> QED BY <2>1, <2>2
<1> QED BY <1>0, <1>1, <1>2, <1>3, FillsQuiet

\* The fills, whatever the system does.
LEMMA FillsKeep ==
  ASSUME ServerInv, Begun, FillsInv, Next
  PROVE  FillsInv'
<1>0. Stamps /\ Place /\ Remembered /\ Page /\ Covered
  BY DEF FillsInv
<1>1. CASE UNCHANGED <<changes, now, srv, conn, channels, sent, since>>
  BY <1>1, FillsSame
<1>2. CASE Settle \/ Index \/ Aggregate
  BY <1>1, <1>2 DEF Settle, Index, Aggregate, sourceVars, serverVars
<1>3. CASE Rebuild
  <2>1. changes' = restamped /\ now' = now /\ UNCHANGED <<srv, conn, channels, sent, since>>
    BY <1>3 DEF Rebuild, serverVars
  <2> QED BY <2>1, WritersKeep
<1>4. CASE Source
  <2>1. (Edit \/ Write \/ Visible \/ Clock) /\ UNCHANGED <<srv, conn, channels, sent, since>>
    BY <1>4 DEF Source, serverVars
  <2>2. Edit => UNCHANGED <<changes, now>>
    BY DEF Edit
  <2> QED BY <1>1, <2>1, <2>2, WritersKeep
<1>5. CASE Serve
  <2>1. Poll /\ UNCHANGED <<changes, now>>
    BY <1>5 DEF Serve, sourceVars
  <2>2. CASE srv.pc = "fills" /\ (Skip \/ Read)
    BY <2>1, <2>2, ForgetFills, ReadFills
  <2>3. CASE ProcessFills
    BY <2>1, <2>3, ProcessFillsKeeps
  <2>4. CASE Skip /\ srv.pc # "fills"
    <3>1. srv' = onward(srv) /\ UNCHANGED <<conn, channels, sent, since>>
      BY <2>4 DEF Skip
    <3> QED BY <1>0, <2>1, <3>1, OnwardFills, UnreadKeeps
  <2>5. CASE Read /\ srv.pc # "fills"
    <3>1. UNCHANGED <<conn, channels, sent, since>>
          /\ \/ srv' = [srv EXCEPT !.reading = TRUE, !.read = answer(srv.pc, srv)]
             \/ srv' = onward(srv)
      BY <2>5 DEF Read, begun
    <3>2. /\ srv'.fillCursor = srv.fillCursor /\ srv'.fillSeen = srv.fillSeen /\ srv'.fillsFrom = srv.fillsFrom
          /\ ~(srv'.reading /\ srv'.pc = "fills")
      <4>1. CASE srv' = onward(srv)
        BY <4>1, OnwardFills
      <4>2. CASE srv' = [srv EXCEPT !.reading = TRUE, !.read = answer(srv.pc, srv)]
        BY <2>5, <4>2 DEF ServerInv, Tables
      <4> QED BY <3>1, <4>1, <4>2
    <3> QED BY <1>0, <2>1, <3>1, <3>2, UnreadKeeps
  <2>6. CASE ProcessSnapshot
    <3>1. PICK ch \in Snapshots : ch = srv.pc
      BY <2>6 DEF ProcessSnapshot
    <3>2. PICK m : m = [srv EXCEPT !.frames[ch] = srv.read, !.ready = @ \/ ch = "markets"]
      OBVIOUS
    <3>3. /\ srv' = onward(m) /\ channels' = channels /\ since' = since
          /\ UNCHANGED <<conn, sent>> \/ send(subscribers(ch), ch, <<srv.read>>)
      BY <2>6, <3>1, <3>2 DEF ProcessSnapshot
    <3>4. /\ DOMAIN m = DOMAIN srv /\ m.fillCursor = srv.fillCursor /\ m.fillSeen = srv.fillSeen
          /\ m.fillsFrom = srv.fillsFrom
      BY <3>2 DEF ServerInv, Tables
    <3>5. ch \in Streams \ {"fills"}
      BY DEF Streams, Snapshots
    <3> QED BY <1>0, <2>1, <3>3, <3>4, <3>5, OnwardFills, OthersKeep
  <2>7. CASE ProcessTrades
    <3>1. PICK m : /\ srv' = onward(m) /\ channels' = channels /\ since' = since
                   /\ m = srv \/ m = [srv EXCEPT !.tradeCursor = Last(srv.read.rows)]
                   /\ UNCHANGED <<conn, sent>> \/ send(subscribers("trades"), "trades", srv.read.rows)
      BY <2>7 DEF ProcessTrades
    <3>2. /\ DOMAIN m = DOMAIN srv /\ m.fillCursor = srv.fillCursor /\ m.fillSeen = srv.fillSeen
          /\ m.fillsFrom = srv.fillsFrom
      BY <3>1 DEF ServerInv, Tables
    <3>3. "trades" \in Streams \ {"fills"}
      BY DEF Streams
    <3> QED BY <1>0, <2>1, <3>1, <3>2, <3>3, OnwardFills, OthersKeep
  <2> QED BY <2>1, <2>2, <2>3, <2>4, <2>5, <2>6, <2>7 DEF Poll
<1>6. CASE Restart
  <2>1. /\ UNCHANGED <<changes, now>> /\ srv' = Fresh /\ conn' = [s \in Sockets |-> "none"]
        /\ sent' = [s \in Sockets |-> Nothing]
    BY <1>6 DEF Restart, ServerCrash, sourceVars
  <2>2. srv'.fillCursor = None /\ srv'.fillSeen = {} /\ srv'.reading = FALSE
    BY <2>1 DEF Fresh
  <2> QED BY <1>0, <2>1, <2>2, FreshFills
<1>7. CASE Browse
  <2>1. BrowserStep /\ focus \in Streams /\ UNCHANGED <<changes, now>>
    BY <1>7 DEF Browse, sourceVars
  <2>2. ASSUME NEW b \in Browsers, Mount(b) \/ Unmount(b) \/ IdleClose(b) \/ Reconnect(b)
        PROVE  UNCHANGED <<srv, conn, channels, sent, since>>
    BY <2>2 DEF Mount, Unmount, IdleClose, Reconnect, serverVars
  <2>3. ASSUME NEW s \in Sockets, Refuse(s) \/ Receive(s) \/ OnClose(s)
        PROVE  UNCHANGED <<srv, conn, channels, sent, since>>
    BY <2>3 DEF Refuse, Receive, OnClose, serverVars
  <2>4. ASSUME NEW s \in Sockets, Open(s) PROVE FillsInv'
    <3>1. conn[s] = "none" /\ conn' = [conn EXCEPT ![s] = "open"] /\ UNCHANGED <<srv, channels, sent, since>>
      BY <2>4 DEF Open
    <3>2. channels[s] = {} /\ \A r \in Sockets \ {s} : conn'[r] = conn[r]
      BY <3>1 DEF ServerInv, Tables, Clean
    <3>3. \A r \in Sockets : /\ fills(r)' = fills(r) /\ (fills(r) # <<>> => "fills" \in channels[r])
                             /\ follows(r)' => follows(r)
      BY <1>0, <3>1, <3>2 DEF fills, follows, Remembered
    <3> QED BY <1>0, <2>1, <3>1, <3>3, FillsQuiet
  <2>5. ASSUME NEW s \in Sockets, Handle(s) PROVE FillsInv'
    BY <1>0, <2>1, <2>5, SubscribeFills, UnsubscribeFills DEF Handle
  <2>6. ASSUME NEW s \in Sockets, Closed(s) PROVE FillsInv'
    BY <1>0, <2>1, <2>6, CloseFills DEF Closed
  <2> QED BY <1>1, <2>1, <2>2, <2>3, <2>4, <2>5, <2>6 DEF BrowserStep
<1> QED BY <1>2, <1>3, <1>4, <1>5, <1>6, <1>7 DEF Next

-----------------------------------------------------------------------------
(* The theorems.                                                           *)

MarketInv == Stored /\ ServerInv /\ Reachable /\ StatsKept /\ InPass /\ Begun /\ FillsInv

\* Before the first block nothing is stored, polled, sent or listened to.
LEMMA MarketInit == ASSUME Init PROVE MarketInv
<1>1. Stored
  BY IndexerAssumption DEF Init, IndexInit, Stored, closedBelow, Window, Idle
<1>2. DOMAIN Nothing = Streams /\ Nothing["trades"] = <<>> /\ <<>> \in Seq(Nat)
  BY DEF Nothing, Streams
<1>3. /\ conn = [s \in Sockets |-> "none"] /\ channels = [s \in Sockets |-> {}]
      /\ sent = [s \in Sockets |-> Nothing] /\ srv = Fresh
  BY DEF Init, StreamInit
<1>4. Tables
  BY <1>2, <1>3 DEF Tables, Fresh, prints
<1>5. Clean /\ AtCursor /\ Answered /\ Agreed
  BY <1>2, <1>3 DEF Clean, AtCursor, Answered, Agreed, Fresh, prints
<1>6. Reachable
  BY DEF Init, BrowserInit, Reachable
<1>7. rows = [a \in Addresses |-> Absent] /\ statsAt = Absent /\ day = 0 /\ boardDay = 0
      /\ dayOf = [e \in Events |-> 0] /\ pass = Resting
  BY DEF Init, StatsInit
<1>8. StatsKept
  BY <1>7 DEF StatsKept, Past, lasting
<1>9. InPass
  BY <1>7 DEF InPass, Resting
<1>10. since = [s \in Sockets |-> 0] /\ changes = <<>> /\ now = 0
  BY DEF Init, StreamInit
<1>11. Stamps
  <2>1. <<>> \in Seq([written : Nat, at : Nat, visible : BOOLEAN]) /\ DOMAIN <<>> = {}
    OBVIOUS
  <2> QED BY <1>10, <2>1 DEF Stamps
<1>12. Place /\ Page /\ Covered
  BY <1>3 DEF Place, Page, Covered, follows, Fresh
<1>13. Remembered
  <2>1. \A s \in Sockets : fills(s) = <<>>
    BY <1>3 DEF fills, Nothing, Streams
  <2>2. <<>> \in Seq(FillRow) /\ DOMAIN <<>> = {}
    OBVIOUS
  <2> QED BY <2>1, <2>2 DEF Remembered
<1>14. FillsInv /\ Begun
  BY <1>10, <1>11, <1>12, <1>13 DEF FillsInv, Begun
<1> QED BY <1>1, <1>4, <1>5, <1>6, <1>8, <1>9, <1>14 DEF MarketInv, ServerInv

\* Every step keeps the invariant, adds to the stored prints, and feeds each
\* subscription as ServerStep says.
LEMMA MarketStep ==
  ASSUME MarketInv, [Next]_vars
  PROVE  MarketInv' /\ stored \subseteq stored' /\ Feeds
<1>1. CASE Next
  <2>1. Stored' /\ stored \subseteq stored'
    BY <1>1, StoredStep DEF MarketInv
  <2>2. StatsKept' /\ InPass'
    BY <1>1, <2>1, StatsKeeps DEF MarketInv
  <2>3. FillsInv' /\ Begun'
    BY <1>1, FillsKeep, BegunKeeps DEF MarketInv
  <2> QED BY <1>1, <2>1, <2>2, <2>3, ServerKeeps, ReachableKeeps DEF MarketInv, ServerStep
<1>2. CASE UNCHANGED vars
  <2>1. /\ UNCHANGED <<head, stored, applied, cursor, ix>> /\ UNCHANGED <<srv, conn, channels, sent>>
        /\ UNCHANGED <<sock, owner, current, timers, listening>>
    BY <1>2 DEF vars, indexVars, serverVars, browserVars
  <2>2. Stored' /\ Reachable'
    BY <2>1 DEF MarketInv, Stored, Window, Reachable
  <2>3. ServerStep
    BY <2>1, StillKeeps DEF MarketInv
  <2>4. StatsKept' /\ InPass'
    <3>1. UNCHANGED <<day, rows, statsAt, pass, boardDay>> /\ dayOf' = dayOf
      BY <1>2 DEF vars, statsVars
    <3> QED BY <2>1, <2>2, <3>1, StatsWait DEF MarketInv, StatsKept
  <2>5. FillsInv' /\ Begun'
    <3>1. UNCHANGED <<changes, now, srv, conn, channels, sent, since>>
      BY <1>2 DEF vars, sourceVars, serverVars
    <3> QED BY <3>1, FillsSame DEF MarketInv, Begun
  <2> QED BY <2>1, <2>2, <2>3, <2>4, <2>5 DEF MarketInv, ServerStep
<1> QED BY <1>1, <1>2

\* lib/indexer, lib/ws and the web client's stream together: what is stored, what the
\* poller holds, what each subscription was sent, and who still listens.
THEOREM MarketInvariant == Spec => []MarketInv
<1>1. Init => MarketInv
  BY MarketInit
<1>2. MarketInv /\ [Next]_vars => MarketInv'
  BY MarketStep
<1> QED BY <1>1, <1>2, PTL DEF Spec

\* ws/server.ts, subscribe and broadcast: the frame a poll is compared with is the
\* frame every subscriber has.
THEOREM SubscribersDoAgree == Spec => []SubscribersAgree
<1>1. MarketInv => SubscribersAgree
  BY DEF MarketInv, ServerInv, Agreed, SubscribersAgree
<1> QED BY <1>1, MarketInvariant, PTL

\* market/stream.ts, connect and onclose: a screen that listens keeps a way back.
THEOREM NobodyStranded == Spec => []NeverStranded
<1>1. MarketInv => NeverStranded
  BY DEF MarketInv, Reachable, NeverStranded
<1> QED BY <1>1, MarketInvariant, PTL

\* stats/aggregator.ts, tick: the incremental boards are those a full recompute would
\* write, and nothing up to the cursor is missing from them.
THEOREM StatsAreExact == Spec => []StatsExact
<1>1. ASSUME MarketInv PROVE StatsExact
  <2>1. Stored /\ StatsKept
    BY <1>1 DEF MarketInv
  <2>2. ASSUME NEW a \in Addresses, statsAt # Absent
        PROVE  LET done == {e \in tape : e <= statsAt /\ a \in Touches[e]}
               IN  done # {} => rows[a] # Absent /\ done \subseteq rows[a].seen
    BY <2>1, <2>2, TapeIsStored DEF StatsKept, knows
  <2>3. ASSUME NEW a \in Addresses, rows[a] # Absent
        PROVE  traderStats(rows[a]) = traderStats([rows[a] EXCEPT !.on = Max({boardDay, rows[a].on})])
    BY <2>1, <2>3, LastingIs DEF StatsKept
  <2> QED BY <2>2, <2>3 DEF StatsExact
<1> QED BY <1>1, MarketInvariant, PTL

\* ws/server.ts, pollFills: no write to the account's fills is sent twice on a
\* subscription, and none made while subscribed falls out of the window unsent.
THEOREM FillsAreSentOnce == Spec => []FillsOnce
<1>1. ASSUME MarketInv PROVE FillsOnce
  <2>1. Remembered /\ Covered
    BY <1>1 DEF MarketInv, FillsInv
  <2>2. ASSUME NEW s \in Sockets
        PROVE  /\ \A j, k \in DOMAIN sent[s]["fills"] : sent[s]["fills"][j] = sent[s]["fills"][k] => j = k
               /\ conn[s] = "open" /\ "fills" \in channels[s] /\ srv.fillCursor # None =>
                    \A k \in DOMAIN changes :
                      \/ changes[k].written <= since[s] \/ changes[k].written < srv.fillsFrom
                      \/ changes[k].at >= overlapStart(srv.fillCursor)
                      \/ \E r \in Range(sent[s]["fills"]) : r.id = k
    <3>1. \A j, k \in DOMAIN sent[s]["fills"] : sent[s]["fills"][j] = sent[s]["fills"][k] => j = k
      BY <2>1 DEF Remembered, fills
    <3>2. \A k : has(s, k) => \E r \in Range(sent[s]["fills"]) : r.id = k
      BY DEF has, fills, Range
    <3> QED BY <2>1, <3>1, <3>2 DEF Covered, follows, older
  <2> QED BY <2>2 DEF FillsOnce
<1> QED BY <1>1, MarketInvariant, PTL

\* The refinement: initial states map to initial states, and every step of the system
\* is a step of the tape's promise or leaves it alone.
LEMMA TapeInit == ASSUME Init PROVE Tape!Init
<1>1. tape = {}
  BY DEF Init, IndexInit, tape
<1>2. [s \in Sockets |-> sent[s]["trades"]] = [s \in Sockets |-> <<>>]
  BY DEF Init, StreamInit, Nothing, Streams
<1> QED BY <1>1, <1>2, FS_EmptySet DEF Tape!Init

\* A step of the server is a step of the tape's promise.
LEMMA TapeStep ==
  ASSUME MarketInv, MarketInv', stored \subseteq stored', Feeds
  PROVE  Tape!Next
<1>1. tape = stored /\ tape' = stored' /\ IsFiniteSet(stored) /\ IsFiniteSet(stored')
  <2>1. tape = stored /\ IsFiniteSet(stored)
    BY TapeIsStored DEF MarketInv
  <2>2. (tape = stored /\ IsFiniteSet(stored))'
    BY TapeIsStored, PTL DEF MarketInv
  <2> QED BY <2>1, <2>2
<1>2. Cardinality(stored) <= Cardinality(stored') /\ Cardinality(stored) \in Nat /\ Cardinality(stored') \in Nat
  BY <1>1, FS_Subset, FS_CardinalityType
<1>3. stored \in SUBSET Nat /\ closedBelow(stored) /\ 0 \notin stored
  BY DEF MarketInv, Stored
<1>4. ASSUME NEW s \in Sockets
      PROVE  \/ prints(s)' \in {prints(s), <<>>}
             \/ Tape!Continues(prints(s), prints(s)')
  <2>1. CASE prints(s)' \in {prints(s), <<>>}
    BY <2>1
  <2>2. CASE /\ prints(s)' # <<>> /\ IsPrefix(prints(s), prints(s)') /\ consecutive(prints(s)')
             /\ Last(prints(s)') \in stored
    <3>1. Last(prints(s)') \in 1..Cardinality(tape)
      BY <1>1, <1>3, <2>2, Reaches
    <3>2. PICK f, g : f = prints(s) /\ g = prints(s)'
      OBVIOUS
    <3>3. g # <<>> /\ IsPrefix(f, g) /\ consecutive(g) /\ Last(g) \in 1..Cardinality(tape)
      BY <2>2, <3>1, <3>2
    <3>4. Tape!consecutive(g)
      BY <3>3 DEF consecutive, Tape!consecutive
    <3>5. Tape!Continues(f, g)
      <4>1. Tape!IsPrefix(f, g)
        BY <3>3 DEF IsPrefix, Tape!IsPrefix
      <4>2. Tape!Last(g) \in 1..Cardinality(tape)
        BY <3>3 DEF Last, Tape!Last
      <4> QED BY <3>3, <3>4, <4>1, <4>2 DEF Tape!Continues
    <3> QED BY <3>2, <3>5
  <2> QED BY <2>1, <2>2 DEF Feeds
<1> QED BY <1>1, <1>2, <1>4 DEF Tape!Next, prints

\* ws/server.ts, pollTrades: each connection's prints go on without a gap.
THEOREM TapeIsContinuous == Spec => TapeContinuous
<1>1. Init => Tape!Init
  BY TapeInit
<1>2. MarketInv /\ MarketInv' /\ [Next]_vars
        => [Tape!Next]_<<Cardinality(tape), [s \in Sockets |-> sent[s]["trades"]]>>
  BY MarketStep, TapeStep
<1> QED BY <1>1, <1>2, MarketInvariant, PTL DEF Spec, TapeContinuous, Tape!Spec
=============================================================================
