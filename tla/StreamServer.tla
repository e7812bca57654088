---------------------------- MODULE StreamServer ----------------------------
(***************************************************************************)
(* The WebSocket server (client/lib/ws): a loop that polls the database    *)
(* for each stream somebody watches and sends what changed, while clients  *)
(* come, go and fall behind.  One market, one account.  Each poll is two   *)
(* steps, the database read and what the server does with the answer;      *)
(* connections and messages are handled in between.                        *)
(*                                                                         *)
(* The database: the tape is Indexer's; `board` stands for the book (any   *)
(* order, fill or expiry changes it) and the market listing; `changes` are *)
(* the writes to the account's fill rows, one per row, each stamped when   *)
(* its transaction starts and visible when it commits.                     *)
(*                                                                         *)
(* The second part is the browser's end of the same connections.           *)
(***************************************************************************)
EXTENDS Indexer, Sequences, SequencesExt

CONSTANTS
  Sockets,         \* connections that may exist at a time, on either side
  None,
  Boards,          \* contents of a book or of the listing
  MaxConnections,  \* StreamLimits
  MaxBuffered,     \* StreamLimits.maxBufferedBytes, in frames
  BatchLimit,      \* StreamLimits.batchLimit
  Overlap,         \* StreamLimits.fillOverlapMs
  MaxEdits,        \* bound: changes of a board
  MaxChanges,      \* bound: writes to fill rows
  MaxClock         \* bound: ticks of the clock that stamps them

ASSUME StreamAssumption ==
  /\ None \notin Nat \cup Boards \cup Sockets
  /\ {MaxConnections, MaxBuffered, BatchLimit, Overlap, MaxEdits, MaxChanges, MaxClock} \subseteq Nat

VARIABLES
  focus,     \* the stream the clients of this behaviour watch
  board,     \* the book and the market listing in the database
  changes,   \* writes to fill rows: stamp, and whether committed
  now,       \* the clock
  edits,     \* counts changes of the board
  srv,       \* the server's memory
  conn,      \* its connections
  channels,  \* what each is subscribed to
  down,      \* frames on their way to each client
  sent,      \* history: what was sent on each subscription
  since      \* history: when it began

sourceVars == <<board, changes, now, edits>>
serverVars == <<srv, conn, channels, down, sent, since>>

Snapshots == {"markets", "orderbook"}
Streams == Snapshots \cup {"trades", "fills"}

\* Channels of a market exist only once the listing was read: validMarkets.
OfMarket == {"orderbook", "trades"}

Fresh == [ pc |-> "markets", reading |-> FALSE, read |-> None, ready |-> FALSE,
           frames |-> [ch \in Snapshots |-> None], tradeCursor |-> None,
           fillCursor |-> None, fillSeen |-> {}, fillsFrom |-> 0 ]

Nothing == [ch \in Streams |-> <<>>]

StreamInit ==
  /\ board = [ch \in Snapshots |-> CHOOSE v \in Boards : TRUE]
  /\ changes = <<>> /\ now = 0 /\ edits = 0
  /\ srv = Fresh
  /\ conn = [s \in Sockets |-> "none"]
  /\ channels = [s \in Sockets |-> {}]
  /\ down = [s \in Sockets |-> <<>>]
  /\ sent = [s \in Sockets |-> Nothing]
  /\ since = [s \in Sockets |-> 0]

subscribers(ch) == {s \in Sockets : conn[s] # "none" /\ ch \in channels[s]}

-----------------------------------------------------------------------------
\* Sending.

frame(ch, v) == [channel |-> ch, value |-> v]
framesOf(ch, values) == [k \in DOMAIN values |-> frame(ch, values[k])]

\* A slow consumer is judged on its backlog before each frame.
slow(s, values) == Len(down[s]) + Len(values) > MaxBuffered + 1

\* broadcast/send: to connections that are open; a slow one is terminated.
send(S, ch, values) ==
  LET to == {s \in S : conn[s] = "open"}
      gone == {s \in to : slow(s, values)}
  IN  /\ conn' = [s \in Sockets |-> IF s \in gone THEN "dropped" ELSE conn[s]]
      /\ down' = [s \in Sockets |-> IF s \in gone THEN <<>>
                                    ELSE IF s \in to THEN down[s] \o framesOf(ch, values)
                                    ELSE down[s]]
      /\ sent' = [s \in Sockets |->
                    IF s \notin to \ gone THEN sent[s]
                    ELSE [sent[s] EXCEPT ![ch] = IF ch \in Snapshots THEN values ELSE @ \o values]]

-----------------------------------------------------------------------------
\* pollOnce: markets, then the books, the tape and the fills; of those only the
\* stream in focus ever has a subscriber.

following(ch) == IF ch = "markets" THEN focus ELSE "markets"

onward(m) == [m EXCEPT !.pc = following(m.pc), !.reading = FALSE, !.read = None]

\* ORDER BY the key: before the k-th row come k - 1 others.
keys(S) == [k \in 1..Cardinality(S) |-> CHOOSE e \in S : Cardinality({x \in S : x < e}) = k - 1]
limited(rows) == SubSeq(rows, 1, Min({Len(rows), BatchLimit}))

\* listTradesAfter and latestTradeKey.
latestTradeKey == Max({0} \cup tape)
tradesFrom(after) == limited(keys({e \in tape : e >= after}))
tradesAfter(after) == limited(keys({e \in tape : e > after}))

\* listFillChanges: rows stamped in the overlap window or later, oldest change first.
overlapStart(c) == IF c > Overlap THEN c - Overlap ELSE 0
byStamp(j, k) == changes[j].at < changes[k].at \/ (changes[j].at = changes[k].at /\ j < k)
oldest(S) == [n \in 1..Cardinality(S) |-> CHOOSE k \in S : Cardinality({j \in S : byStamp(j, k)}) = n - 1]
fillChangesSince(c) ==
  limited(oldest({k \in DOMAIN changes : changes[k].visible /\ changes[k].at > c}))
fillChanges(c) ==
  limited(oldest({k \in DOMAIN changes : changes[k].visible /\ changes[k].at >= overlapStart(c)}))

\* The first poll after somebody subscribed reads the tip; later ones what came after.
answer(ch, m) ==
  CASE ch \in Snapshots -> board[ch]
    [] ch = "trades"    -> [ tip |-> m.tradeCursor = None,
                             rows |-> IF m.tradeCursor = None THEN <<latestTradeKey>>
                                      ELSE tradesAfter(m.tradeCursor) ]
    [] ch = "fills"     -> [k \in 1..Len(fillChanges(m.fillCursor)) |->
                              LET id == fillChanges(m.fillCursor)[k] IN [id |-> id, at |-> changes[id].at]]

\* A pass over the fills sets the cursor before it reads.
begun(ch) == IF ch = "fills" /\ srv.fillCursor = None THEN [srv EXCEPT !.fillCursor = now, !.fillsFrom = now] ELSE srv

watched(ch) == ch = "markets" \/ subscribers(ch) # {}

\* Nobody listens: the fills stream forgets its place.
Skip ==
  /\ ~srv.reading /\ ~watched(srv.pc)
  /\ srv' = onward(IF srv.pc = "fills" THEN [srv EXCEPT !.fillCursor = None, !.fillSeen = {}] ELSE srv)
  /\ UNCHANGED <<conn, channels, down, sent, since, faults>>

Read ==
  /\ ~srv.reading /\ watched(srv.pc)
  /\ LET m == begun(srv.pc)
     IN  \/ /\ srv' = [m EXCEPT !.reading = TRUE, !.read = answer(srv.pc, m)]
            /\ UNCHANGED faults
         \/ fault /\ srv' = onward(m)
  /\ UNCHANGED <<conn, channels, down, sent, since>>

\* A frame is sent when it differs from the last one.
ProcessSnapshot ==
  LET ch == srv.pc
  IN  /\ srv.reading /\ ch \in Snapshots
      /\ srv' = onward([srv EXCEPT !.frames[ch] = srv.read, !.ready = @ \/ ch = "markets"])
      /\ IF srv.frames[ch] = srv.read THEN UNCHANGED <<conn, down, sent>>
         ELSE send(subscribers(ch), ch, <<srv.read>>)
      /\ UNCHANGED <<channels, since, faults>>

ProcessTrades ==
  /\ srv.reading /\ srv.pc = "trades"
  /\ srv' = onward(IF srv.read.rows = <<>> THEN srv ELSE [srv EXCEPT !.tradeCursor = Last(srv.read.rows)])
  /\ IF srv.read.tip THEN UNCHANGED <<conn, down, sent>>
     ELSE send(subscribers("trades"), "trades", srv.read.rows)
  /\ UNCHANGED <<channels, since, faults>>

\* Rows already sent are recognised by their key.
unseen ==
  LET places == keys({k \in DOMAIN srv.read : \A seen \in srv.fillSeen : seen.id # srv.read[k].id})
  IN  [n \in DOMAIN places |-> srv.read[places[n]]]

\* Keys older than the window are dropped.
ProcessFills ==
  /\ srv.reading /\ srv.pc = "fills"
  /\ LET place == Max({srv.fillCursor} \cup {r.at : r \in Range(unseen)})
     IN  /\ srv' = onward([srv EXCEPT !.fillCursor = place,
                                      !.fillSeen = {r \in @ \cup Range(unseen) : r.at >= overlapStart(place)}])
         /\ send(subscribers("fills"), "fills", unseen)
  /\ UNCHANGED <<channels, since, faults>>

-----------------------------------------------------------------------------
\* Connections.

connections == Cardinality({s \in Sockets : conn[s] # "none"})

\* removeSub: the last subscriber takes the channel's cached state with it.
leaving(s, S) == {ch \in S \cap channels[s] : subscribers(ch) = {s}}
forgotten(gone) ==
  [srv EXCEPT !.frames["orderbook"] = IF "orderbook" \in gone THEN None ELSE @,
              !.tradeCursor = IF "trades" \in gone THEN None ELSE @]

subscribeQuietly(s, ch) ==
  /\ IF ch \in OfMarket /\ ~srv.ready THEN UNCHANGED <<channels, since>>
     ELSE /\ channels' = [channels EXCEPT ![s] = @ \cup {ch}]
          /\ since' = IF ch \in channels[s] THEN since ELSE [since EXCEPT ![s] = now]
  /\ UNCHANGED <<srv, conn, down, sent>>

\* subscribe: a newcomer to a snapshot stream gets the current frame at once.
subscribe(s, ch) ==
  /\ IF ch \in OfMarket /\ ~srv.ready THEN UNCHANGED <<conn, channels, down, sent, since>>
     ELSE /\ channels' = [channels EXCEPT ![s] = @ \cup {ch}]
          /\ since' = IF ch \in channels[s] THEN since ELSE [since EXCEPT ![s] = now]
          /\ IF ch \in Snapshots /\ ch \notin channels[s] /\ srv.frames[ch] # None
             THEN send({s}, ch, <<srv.frames[ch]>>)
             ELSE UNCHANGED <<conn, down, sent>>
  /\ UNCHANGED srv

unsubscribe(s, ch) ==
  /\ srv' = forgotten(leaving(s, {ch}))
  /\ channels' = [channels EXCEPT ![s] = @ \ {ch}]
  /\ sent' = [sent EXCEPT ![s][ch] = <<>>]
  /\ UNCHANGED <<conn, down, since>>

\* onClose.
close(s) ==
  /\ srv' = forgotten(leaving(s, channels[s]))
  /\ conn' = [conn EXCEPT ![s] = "none"]
  /\ channels' = [channels EXCEPT ![s] = {}]
  /\ down' = [down EXCEPT ![s] = <<>>]
  /\ sent' = [sent EXCEPT ![s] = Nothing]
  /\ UNCHANGED since

\* The process dies and is started again: every connection is lost.
ServerCrash ==
  /\ fault
  /\ srv # Fresh
  /\ srv' = Fresh
  /\ conn' = [s \in Sockets |-> "none"]
  /\ channels' = [s \in Sockets |-> {}]
  /\ down' = [s \in Sockets |-> <<>>]
  /\ sent' = [s \in Sockets |-> Nothing]
  /\ UNCHANGED since

Poll == Skip \/ Read \/ ProcessSnapshot \/ ProcessTrades \/ ProcessFills

-----------------------------------------------------------------------------
\* The other writers of the database, as far as the server reads them.

Edit ==
  /\ focus \in Snapshots /\ edits < MaxEdits
  /\ \E v \in Boards \ {board[focus]} : board' = [board EXCEPT ![focus] = v]
  /\ edits' = edits + 1
  /\ UNCHANGED <<changes, now>>

\* A write to a fill row is stamped (now() is the start of its transaction) ...
Write ==
  /\ focus = "fills" /\ Len(changes) < MaxChanges
  /\ changes' = Append(changes, [written |-> now, at |-> now, visible |-> FALSE])
  /\ UNCHANGED <<board, now, edits>>

\* ... and seen when it commits.
Visible ==
  /\ \E k \in DOMAIN changes : ~changes[k].visible /\ changes' = [changes EXCEPT ![k].visible = TRUE]
  /\ UNCHANGED <<board, now, edits>>

\* Transactions are shorter than the overlap window: what the window is for.
Clock ==
  /\ focus = "fills" /\ now < MaxClock
  /\ \A k \in DOMAIN changes : ~changes[k].visible => now < changes[k].at + Overlap
  /\ now' = now + 1
  /\ UNCHANGED <<board, changes, edits>>

\* rebuild stamps every fill row anew.
restamped == [k \in DOMAIN changes |-> IF changes[k].visible THEN [changes[k] EXCEPT !.at = now] ELSE changes[k]]

-----------------------------------------------------------------------------
(* The browser's side of the socket (client/lib/market/stream.ts): one     *)
(* shared stream whose channels are reference-counted, with a reconnect    *)
(* and an idle timer.  A listener mounts and unmounts with the screen.  A  *)
(* socket's close event arrives some time after the socket was closed.     *)

CONSTANTS
  Browsers,
  MaxMounts    \* bound: times a screen is opened, per focus

VARIABLES
  sock,       \* each socket as its browser sees it
  owner,      \* whose it is
  up,         \* control messages on their way to the server
  listening,  \* browsers with a listener on the channel
  current,    \* MarketStream.socket
  connected,  \* MarketStream.isConnected
  timers,     \* armed timers: reconnect, idle
  mounts      \* counts mounts

browserVars == <<sock, owner, up, listening, current, connected, timers, mounts>>

BrowserInit ==
  /\ sock = [s \in Sockets |-> "none"]
  /\ owner = [s \in Sockets |-> None]
  /\ up = [s \in Sockets |-> <<>>]
  /\ listening = {} /\ connected = {} /\ mounts = 0
  /\ current = [b \in Browsers |-> None]
  /\ timers = [b \in Browsers |-> {}]

\* send: on the current socket, if it is open.
tell(b, m) == IF current[b] # None /\ sock[current[b]] = "open"
              THEN [up EXCEPT ![current[b]] = Append(@, m)] ELSE up

\* connect: a new socket becomes the current one.
connect(b) ==
  \E s \in Sockets :
    /\ sock[s] = "none" /\ conn[s] = "none"
    /\ sock' = [sock EXCEPT ![s] = "connecting"]
    /\ owner' = [owner EXCEPT ![s] = b]
    /\ current' = [current EXCEPT ![b] = s]

\* subscribe: the first listener subscribes, and makes sure there is a socket.
Mount(b) ==
  /\ b \notin listening /\ mounts < MaxMounts[focus]
  /\ mounts' = mounts + 1
  /\ listening' = listening \cup {b}
  /\ timers' = [timers EXCEPT ![b] = @ \ {"idle"}]
  /\ up' = tell(b, "subscribe")
  /\ IF current[b] = None /\ "reconnect" \notin timers[b] THEN connect(b)
     ELSE UNCHANGED <<sock, owner, current>>
  /\ UNCHANGED <<connected, serverVars, faults>>

\* The last listener leaves.
Unmount(b) ==
  /\ b \in listening
  /\ listening' = listening \ {b}
  /\ up' = tell(b, "unsubscribe")
  /\ timers' = [timers EXCEPT ![b] = @ \cup {"idle"}]
  /\ UNCHANGED <<sock, owner, current, connected, mounts, serverVars, faults>>

\* scheduleIdleClose's timer.  A socket still connecting is closed as well.
IdleClose(b) ==
  /\ "idle" \in timers[b]
  /\ timers' = [timers EXCEPT ![b] = @ \ {"idle"}]
  /\ IF b \in listening \/ current[b] = None THEN UNCHANGED <<sock, current, connected>>
     ELSE /\ sock' = [sock EXCEPT ![current[b]] = "closing"]
          /\ current' = [current EXCEPT ![b] = None]
          /\ connected' = connected \ {b}
  /\ UNCHANGED <<owner, up, listening, mounts, serverVars, faults>>

\* scheduleReconnect's timer.
Reconnect(b) ==
  /\ "reconnect" \in timers[b]
  /\ timers' = [timers EXCEPT ![b] = @ \ {"reconnect"}]
  /\ IF b \in listening THEN connect(b) ELSE UNCHANGED <<sock, owner, current>>
  /\ UNCHANGED <<up, listening, connected, mounts, serverVars, faults>>

\* onUpgrade accepts below the cap; onopen subscribes to what is listened to.
Open(s) ==
  LET b == owner[s]
  IN  /\ sock[s] = "connecting" /\ conn[s] = "none"
      /\ connections < MaxConnections
      /\ conn' = [conn EXCEPT ![s] = "open"]
      /\ sock' = [sock EXCEPT ![s] = "open"]
      /\ connected' = connected \cup {b}
      /\ up' = IF b \notin listening THEN up
               ELSE IF current[b] = s THEN [up EXCEPT ![s] = Append(@, "subscribe")]
               ELSE tell(b, "subscribe")
      /\ UNCHANGED <<srv, channels, down, sent, since, owner, listening, current, timers, mounts, faults>>

\* The upgrade is refused: at the cap, or no server answers.
Refuse(s) ==
  /\ sock[s] = "connecting"
  /\ \/ connections >= MaxConnections /\ UNCHANGED faults
     \/ fault
  /\ sock' = [sock EXCEPT ![s] = "closing"]
  /\ UNCHANGED <<owner, up, listening, current, connected, timers, mounts, serverVars>>

\* The server takes the next control message.
Handle(s) ==
  /\ conn[s] = "open" /\ up[s] # <<>>
  /\ up' = [up EXCEPT ![s] = Tail(@)]
  /\ IF Head(up[s]) = "subscribe" THEN subscribe(s, focus) ELSE unsubscribe(s, focus)
  /\ UNCHANGED <<sock, owner, listening, current, connected, timers, mounts, faults>>

\* The browser takes the next frame.
Receive(s) ==
  /\ sock[s] = "open" /\ down[s] # <<>>
  /\ down' = [down EXCEPT ![s] = Tail(@)]
  /\ UNCHANGED <<srv, conn, channels, sent, since, browserVars, faults>>

\* The server learns that a connection is gone: the client closed it, it was dropped
\* as a slow consumer or as idle, or the network lost it.
Closed(s) ==
  /\ conn[s] # "none"
  /\ \/ (conn[s] = "dropped" \/ sock[s] = "closing") /\ UNCHANGED faults
     \/ fault
  /\ close(s)
  /\ up' = [up EXCEPT ![s] = <<>>]
  /\ UNCHANGED <<sock, owner, listening, current, connected, timers, mounts>>

OnCloseIdle(s) ==
  LET b == owner[s]
  IN  /\ conn[s] = "none" /\ sock[s] \in {"open", "closing"}
      /\ sock' = [sock EXCEPT ![s] = "none"]
      /\ owner' = [owner EXCEPT ![s] = None]
      /\ up' = [up EXCEPT ![s] = <<>>]
      /\ current' = [current EXCEPT ![b] = IF @ = s THEN None ELSE @]
      /\ connected' = connected \ {b}
      /\ timers' = [timers EXCEPT ![b] = IF b \in listening /\ b \in connected THEN @ \cup {"reconnect"} ELSE @]
      /\ UNCHANGED <<listening, mounts, serverVars, faults>>

\* onclose.
OnClose(s) ==
  LET b == owner[s]
  IN  /\ conn[s] = "none" /\ sock[s] \in {"open", "closing"}
      /\ sock' = [sock EXCEPT ![s] = "none"]
      /\ owner' = [owner EXCEPT ![s] = None]
      /\ up' = [up EXCEPT ![s] = <<>>]
      /\ current' = [current EXCEPT ![b] = IF @ = s THEN None ELSE @]
      /\ connected' = connected \ {b}
      /\ timers' = [timers EXCEPT ![b] = IF b \in listening THEN @ \cup {"reconnect"} ELSE @]
      /\ UNCHANGED <<listening, mounts, serverVars, faults>>

BrowserStep ==
  \/ \E b \in Browsers : Mount(b) \/ Unmount(b) \/ IdleClose(b) \/ Reconnect(b)
  \/ \E s \in Sockets : Open(s) \/ Refuse(s) \/ Handle(s) \/ Receive(s) \/ Closed(s) \/ OnClose(s)
=============================================================================
