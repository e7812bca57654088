---------------------------- MODULE TxSenderProofs ----------------------------
(***************************************************************************)
(* Proofs about the sender of transactions: no transaction is recorded     *)
(* twice, a confirmed row is the transaction that consumed its nonce, and  *)
(* a nonce is allocated only above what is accounted for.                  *)
(***************************************************************************)
EXTENDS TxSender, Sums

-----------------------------------------------------------------------------
(* The inductive invariant.                                                *)

SubmitState ==
  [ pc : {"idle", "allocate", "persist", "send", "record"}, req : Requests \cup {Null},
    nonce : Nat, row : Nat, attempt : Nat, answer : Answers ]
WaitState ==
  [ pc : {"idle", "poll", "act", "retire", "send", "record"}, row : Nat, next : Nat,
    answer : Answers ]
RecState ==
  { r \in [ pc : {"idle", "count", "resolve"}, jobs : SUBSET Nat, minedNonce : Nat ] :
      r.pc # "idle" => r.jobs # {} }

\* The attempts submit() has recorded for the request it is working on.
own == {i \in DOMAIN rows : rows[i].req = submit.req}

\* Attempts that are over, at nonces below n.
OverBelow(r, S, n) == \A i \in S : r[i].nonce < n /\ r[i].status \notin Open

\* The types TypeOK leaves out.
Typed ==
  /\ TypeOK
  /\ IsFiniteSet(mempool)
  /\ submit \in SubmitState /\ wait \in WaitState /\ rec \in RecState

\* A transaction is recorded once.
Distinct == \A i, j \in DOMAIN rows : txOf(rows[i]) = txOf(rows[j]) => i = j

\* A confirmed attempt is mined.
Settled == \A i \in DOMAIN rows : rows[i].status = "CONFIRMED" => receiptOf(i)

\* A request is taken up once, and recorded only after that.
TakenOnce ==
  /\ \A i \in DOMAIN rows : rows[i].req \notin todo
  /\ submit.pc # "idle" => submit.req \in Requests \ todo

\* The earlier attempts of a retried submit() are over, and their nonces consumed.
Retried ==
  /\ submit.pc = "allocate" => OverBelow(rows, own, latest)
  /\ submit.pc = "persist" => OverBelow(rows, own, submit.nonce)
  /\ submit.pc \in {"send", "record"} =>
       /\ submit.row \in own /\ rows[submit.row].nonce = submit.nonce
       /\ OverBelow(rows, own \ {submit.row}, submit.nonce)
  /\ submit.pc = "record" /\ submit.answer = "nonceTooLow" => submit.nonce < latest

\* wait() is about an attempt of another request than submit(), and its replacement too.
Apart ==
  /\ wait.pc # "idle" =>
       /\ wait.row \in DOMAIN rows
       /\ submit.pc # "idle" => rows[wait.row].req # submit.req
  /\ wait.pc \in {"retire", "send", "record"} =>
       wait.next \in DOMAIN rows /\ rows[wait.next].req = rows[wait.row].req

SenderInv == Typed /\ Distinct /\ Settled /\ TakenOnce /\ Retried /\ Apart

-----------------------------------------------------------------------------
(* The node's nonces.                                                      *)

\* getTransactionCount("pending") is the first nonce from the mined ones up that no
\* transaction of the mempool has.
LEMMA PendingIs ==
  ASSUME IsFiniteSet(mempool), mempool \subseteq Tx, mined \in Seq(Tx)
  PROVE  /\ pending \in Nat /\ latest \in Nat /\ latest <= pending
         /\ \A k \in latest .. (pending - 1) : \E t \in mempool : t.nonce = k
<1> DEFINE nonceOf == [t \in mempool |-> t.nonce]
           taken == {t.nonce : t \in mempool}
           c == Cardinality(mempool)
           free == {n \in latest .. (latest + c) : n \notin taken}
<1>1. latest \in Nat /\ c \in Nat
  BY FS_CardinalityType DEF latest
<1>2. IsFiniteSet(taken) /\ Cardinality(taken) <= c
  <2>1. nonceOf \in Surjection(mempool, taken)
    BY DEF Surjection
  <2> HIDE DEF nonceOf, taken
  <2> QED BY <2>1, FS_Surjection
<1>3. free # {}
  <2> SUFFICES ASSUME free = {} PROVE FALSE
    OBVIOUS
  <2>1. latest .. (latest + c) \subseteq taken
    OBVIOUS
  <2>2. Cardinality(latest .. (latest + c)) = c + 1
    BY <1>1, FS_Interval
  <2>3. Cardinality(latest .. (latest + c)) <= Cardinality(taken)
    BY <1>2, <2>1, FS_Subset
  <2>4. Cardinality(taken) \in Nat
    BY <1>2, FS_CardinalityType
  <2> HIDE DEF taken, c
  <2> QED BY <1>1, <1>2, <2>2, <2>3, <2>4
<1>4. Min(free) \in free /\ \A n \in free : Min(free) <= n
  <2>1. free \in SUBSET Nat
    BY <1>1
  <2> HIDE DEF free
  <2> QED BY <1>3, <2>1, Least
<1>5. PICK n \in free : \A k \in free : n <= k
  BY <1>4
<1>6. \A k \in latest .. (n - 1) : \E t \in mempool : t.nonce = k
  <2> TAKE k \in latest .. (n - 1)
  <2>1. k \in latest .. (latest + c) /\ k < n
    BY <1>1, <1>5
  <2>2. k \in taken
    BY <1>1, <1>5, <2>1
  <2> QED BY <2>2
<1>7. \E m \in latest .. (latest + c) :
        /\ \A k \in latest .. (m - 1) : \E t \in mempool : t.nonce = k
        /\ ~ \E t \in mempool : t.nonce = m
  BY <1>5, <1>6
<1>8. /\ pending \in latest .. (latest + c)
      /\ \A k \in latest .. (pending - 1) : \E t \in mempool : t.nonce = k
  BY <1>7 DEF pending
<1> QED BY <1>1, <1>8

\* The nonce submit allocates is no lower, and below it the mempool or an open job has
\* every one.
LEMMA AllocatedIs ==
  ASSUME Typed
  PROVE  /\ allocated \in Nat /\ latest <= allocated
         /\ \A k \in latest .. (allocated - 1) :
              (\E t \in mempool : t.nonce = k) \/ k \in openNonces
<1>1. /\ pending \in Nat /\ latest \in Nat /\ latest <= pending
      /\ \A k \in latest .. (pending - 1) : \E t \in mempool : t.nonce = k
  BY PendingIs DEF Typed, TypeOK
<1> DEFINE gaps == (pending .. (nextNonce - 1)) \ openNonces
<1>2. CASE nextNonce = Null \/ pending > nextNonce
  <2>1. allocated = pending
    BY <1>2 DEF allocated
  <2> QED BY <1>1, <2>1
<1>3. CASE ~(nextNonce = Null \/ pending > nextNonce)
  <2>1. nextNonce \in Nat /\ pending <= nextNonce
    BY <1>1, <1>3 DEF Typed, TypeOK
  <2>2. allocated = IF gaps = {} THEN nextNonce ELSE Min(gaps)
    BY <1>3 DEF allocated
  <2>3. allocated \in pending .. nextNonce
        /\ \A k \in pending .. (allocated - 1) : k \in openNonces
    <3>1. CASE gaps = {}
      BY <1>1, <2>1, <2>2, <3>1
    <3>2. CASE gaps # {}
      <4>1. gaps \in SUBSET Nat /\ gaps \subseteq pending .. nextNonce
        BY <1>1, <2>1
      <4>2. Min(gaps) \in gaps /\ \A n \in gaps : Min(gaps) <= n
        <5> HIDE DEF gaps
        <5> QED BY <3>2, <4>1, Least
      <4>3. PICK a \in gaps : a = allocated /\ \A n \in gaps : a <= n
        BY <2>2, <3>2, <4>2
      <4>4. ASSUME NEW k \in pending .. (a - 1) PROVE k \in openNonces
        <5>1. k \in pending .. (nextNonce - 1) /\ k < a /\ k \in Nat /\ a \in Nat
          BY <1>1, <2>1, <4>1, <4>4
        <5> QED BY <4>3, <5>1
      <4> QED BY <4>1, <4>3, <4>4
    <3> QED BY <3>1, <3>2
  <2> QED BY <1>1, <2>1, <2>3
<1> QED BY <1>2, <1>3

-----------------------------------------------------------------------------
(* Writing to the TxJob table.                                             *)

Row == [nonce : Nat, req : Requests, fee : 1..MaxFee, status : Status]

\* The table r2 has the attempts of the table r, with statuses of its own.
SameAttempts(r, r2) ==
  /\ r2 \in Seq(Row) /\ DOMAIN r2 = DOMAIN r
  /\ \A i \in DOMAIN r : r2[i].nonce = r[i].nonce /\ r2[i].req = r[i].req /\ r2[i].fee = r[i].fee

\* A table has as many rows as its length says.
LEMMA TableDomain ==
  ASSUME NEW r \in Seq(Row)
  PROVE  /\ DOMAIN r = 1..Len(r) /\ Len(r) \in Nat
         /\ \A i \in DOMAIN r : r[i] \in Row /\ i \in Nat
  OBVIOUS

\* A table with one row per index of r is a table.
LEMMA TableOver ==
  ASSUME NEW r \in Seq(Row), NEW r2 \in [DOMAIN r -> Row]
  PROVE  r2 \in Seq(Row) /\ DOMAIN r2 = DOMAIN r
<1>1. r2 \in [1..Len(r) -> Row] /\ Len(r) \in Nat
  BY TableDomain
<1> QED BY <1>1

\* Closing open rows,
LEMMA ClosedRows ==
  ASSUME NEW r \in Seq(Row), NEW S, NEW status \in Status
  PROVE  /\ SameAttempts(r, closed(r, S, status))
         /\ \A i \in DOMAIN r :
              closed(r, S, status)[i].status
                = IF i \in S /\ r[i].status \in Open THEN status ELSE r[i].status
<1> DEFINE r2 == closed(r, S, status)
<1>1. \A i \in DOMAIN r : r[i] \in Row
  BY TableDomain
<1>2. ASSUME NEW i \in DOMAIN r
      PROVE  /\ r2[i] \in Row
             /\ r2[i].nonce = r[i].nonce /\ r2[i].req = r[i].req /\ r2[i].fee = r[i].fee
             /\ r2[i].status = IF i \in S /\ r[i].status \in Open THEN status ELSE r[i].status
  <2>1. r2[i] = IF i \in S /\ r[i].status \in Open THEN [r[i] EXCEPT !.status = status]
                ELSE r[i]
    BY DEF closed
  <2>2. r[i] \in Row
    BY <1>1
  <2> HIDE DEF r2
  <2> QED BY <2>1, <2>2 DEF Row
<1>3. r2 \in [DOMAIN r -> Row]
  BY <1>2 DEF closed
<1>4. r2 \in Seq(Row) /\ DOMAIN r2 = DOMAIN r
  <2> HIDE DEF r2
  <2> QED BY <1>3, TableOver
<1> QED BY <1>2, <1>4 DEF SameAttempts

\* and writing the status of one row.
LEMMA UpdatedRow ==
  ASSUME NEW r \in Seq(Row), NEW k \in DOMAIN r, NEW status \in Status
  PROVE  /\ SameAttempts(r, [r EXCEPT ![k].status = status])
         /\ \A i \in DOMAIN r :
              [r EXCEPT ![k].status = status][i].status
                = IF i = k THEN status ELSE r[i].status
<1> DEFINE r2 == [r EXCEPT ![k].status = status]
<1>1. \A i \in DOMAIN r : r[i] \in Row
  BY TableDomain
<1>2. ASSUME NEW i \in DOMAIN r
      PROVE  /\ r2[i] \in Row
             /\ r2[i].nonce = r[i].nonce /\ r2[i].req = r[i].req /\ r2[i].fee = r[i].fee
             /\ r2[i].status = IF i = k THEN status ELSE r[i].status
  <2>1. r2[i] = IF i = k THEN [r[i] EXCEPT !.status = status] ELSE r[i]
    OBVIOUS
  <2>2. r[i] \in Row
    BY <1>1
  <2> HIDE DEF r2
  <2> QED BY <2>1, <2>2 DEF Row
<1>3. r2 \in [DOMAIN r -> Row]
  BY <1>2
<1>4. r2 \in Seq(Row) /\ DOMAIN r2 = DOMAIN r
  <2> HIDE DEF r2
  <2> QED BY <1>3, TableOver
<1> QED BY <1>2, <1>4 DEF SameAttempts

\* Writes one after the other keep the attempts.
LEMMA SameTwice ==
  ASSUME NEW r, NEW r2, NEW r3, SameAttempts(r, r2), SameAttempts(r2, r3)
  PROVE  SameAttempts(r, r3)
  BY DEF SameAttempts

\* One more row.
LEMMA InsertedRow ==
  ASSUME NEW r \in Seq(Row), NEW x \in Row
  PROVE  LET r2 == Append(r, x) IN
         /\ r2 \in Seq(Row) /\ Len(r2) = Len(r) + 1 /\ Len(r2) \in Nat
         /\ DOMAIN r2 = DOMAIN r \cup {Len(r2)} /\ Len(r2) \notin DOMAIN r
         /\ r2[Len(r2)] = x /\ \A i \in DOMAIN r : r2[i] = r[i]
  OBVIOUS

-----------------------------------------------------------------------------
(* Steps that leave submit() where it is.                                  *)

\* The rows of a typed table.
LEMMA TableTyped ==
  ASSUME Typed
  PROVE  /\ rows \in Seq(Row) /\ DOMAIN rows = 1..Len(rows) /\ Len(rows) \in Nat
         /\ \A i \in DOMAIN rows : rows[i] \in Row /\ i \in Nat
         /\ latest \in Nat
<1>1. rows \in Seq(Row) /\ mined \in Seq(Tx)
  BY DEF Typed, TypeOK, Row
<1> QED BY <1>1, TableDomain DEF latest

\* Statuses are written, mined transactions are added: what was true of requests, nonces
\* and attempts stays true unless an attempt of the request being submitted is reopened.
LEMMA AroundSubmit ==
  ASSUME SenderInv, Typed', SameAttempts(rows, rows'),
         latest' \in Nat, latest <= latest', \A n \in 1..Len(mined) : mined'[n] = mined[n],
         \A i \in DOMAIN rows :
           rows'[i].status = "CONFIRMED" => rows[i].status = "CONFIRMED" \/ receiptOf(i),
         submit.pc # "idle" =>
           \A i \in own : rows[i].status \notin Open => rows'[i].status \notin Open,
         submit' = submit, todo' = todo, Apart'
  PROVE  SenderInv'
<1>1. rows \in Seq(Row) /\ latest \in Nat /\ \A i \in DOMAIN rows : rows[i] \in Row
  BY TableTyped DEF SenderInv
<1>2. DOMAIN rows' = DOMAIN rows
      /\ \A i \in DOMAIN rows : /\ rows'[i].nonce = rows[i].nonce /\ rows'[i].req = rows[i].req
                                /\ rows'[i].fee = rows[i].fee
  BY DEF SameAttempts
<1>3. \A i \in DOMAIN rows : txOf(rows[i])' = txOf(rows[i])
  BY <1>2 DEF txOf
<1>4. Distinct'
  BY <1>2, <1>3 DEF SenderInv, Distinct
<1>5. Settled'
  <2>1. \A i \in DOMAIN rows : receiptOf(i) => receiptOf(i)'
    <3>1. \A t : isMined(t) => isMined(t)'
      <4>1. \A n \in 1..Len(mined) : n \in 1..Len(mined')
        BY <1>1 DEF latest
      <4> QED BY <4>1 DEF isMined
    <3>2. \A i \in DOMAIN rows : receiptOf(i)' <=> isMined(txOf(rows[i]))'
      BY DEF receiptOf
    <3> QED BY <1>3, <3>1, <3>2 DEF receiptOf
  <2>2. \A i \in DOMAIN rows : rows'[i].status = "CONFIRMED" => receiptOf(i)'
    BY <2>1 DEF SenderInv, Settled
  <2> QED BY <1>2, <2>2 DEF Settled
<1>6. TakenOnce'
  BY <1>2 DEF SenderInv, TakenOnce
<1>7. own' = own
  BY <1>2 DEF own
<1>8. Retried'
  <2>1. \A i \in own : i \in DOMAIN rows /\ rows[i].nonce \in Nat
    BY <1>1 DEF own, Row
  <2>2. ASSUME NEW S \in SUBSET own, NEW n \in Nat, NEW k \in Nat, n <= k, OverBelow(rows, S, n),
               submit.pc # "idle"
        PROVE  OverBelow(rows', S, k)
    BY <1>2, <2>1, <2>2 DEF OverBelow
  <2>3. submit.nonce \in Nat
    BY DEF SenderInv, Typed, SubmitState
  <2>4. submit.pc = "allocate" => OverBelow(rows', own, latest')
    BY <1>1, <2>2 DEF SenderInv, Retried
  <2>5. submit.pc = "persist" => OverBelow(rows', own, submit.nonce)
    BY <2>2, <2>3 DEF SenderInv, Retried
  <2>6. submit.pc \in {"send", "record"} =>
          /\ submit.row \in own /\ rows'[submit.row].nonce = submit.nonce
          /\ OverBelow(rows', own \ {submit.row}, submit.nonce)
    <3>1. own \ {submit.row} \in SUBSET own
      OBVIOUS
    <3> QED BY <1>2, <2>1, <2>2, <2>3, <3>1 DEF SenderInv, Retried
  <2>7. submit.pc = "record" /\ submit.answer = "nonceTooLow" => submit.nonce < latest'
    BY <1>1, <2>3 DEF SenderInv, Retried
  <2> QED BY <1>7, <2>4, <2>5, <2>6, <2>7 DEF Retried
<1> QED BY <1>4, <1>5, <1>6, <1>8 DEF SenderInv

\* A step that writes no row is a write that keeps them all.
LEMMA RowsKept ==
  ASSUME SenderInv, Typed', rows' = rows, mined' = mined, submit' = submit, todo' = todo, Apart'
  PROVE  SenderInv'
<1>1. SameAttempts(rows, rows') /\ latest \in Nat
  BY TableTyped DEF SenderInv, SameAttempts
<1>2. latest' = latest
  BY DEF latest
<1> QED BY <1>1, <1>2, AroundSubmit

\* The node keeps a set of transactions.
LEMMA MempoolTyped ==
  ASSUME IsFiniteSet(mempool), mempool \subseteq Tx, NEW t \in Tx, NEW answer,
         sendRawTransaction(t, answer)
  PROVE  mempool' \subseteq Tx /\ IsFiniteSet(mempool')
<1>1. accepted(t) \subseteq Tx
  BY DEF accepted
<1>2. IsFiniteSet(accepted(t))
  <2>1. {u \in mempool : u.nonce # t.nonce} \in SUBSET mempool
    OBVIOUS
  <2> QED BY <2>1, FS_Subset, FS_AddElement DEF accepted
<1> QED BY <1>1, <1>2 DEF sendRawTransaction

\* A recorded attempt is a transaction.
LEMMA RowIsTx ==
  ASSUME Typed, NEW i \in DOMAIN rows
  PROVE  txOf(rows[i]) \in Tx
<1>1. rows[i] \in Row
  BY TableTyped
<1> QED BY <1>1 DEF Row, txOf, Tx

\* Mining, eviction, another user of the key.
LEMMA NodeSteps ==
  ASSUME SenderInv, Node
  PROVE  SenderInv'
<1>1. /\ mempool \subseteq Tx /\ IsFiniteSet(mempool) /\ mined \in Seq(Tx)
      /\ latest \in Nat /\ latest = Len(mined)
      /\ \A n \in 1..Len(mined) : mined[n].nonce = n - 1
  BY TableTyped DEF SenderInv, Typed, TypeOK, latest
<1>2. \A S \in SUBSET mempool : S \subseteq Tx /\ IsFiniteSet(S)
  BY <1>1, FS_Subset
<1>3. SameAttempts(rows, rows)
  BY TableTyped DEF SenderInv, SameAttempts
<1>4. ASSUME NEW t \in Tx, t.nonce = latest, mined' = Append(mined, t), mempool' \in SUBSET mempool,
             faults' \in 0..MaxFaults, rows' = rows, nextNonce' = nextNonce, todo' = todo,
             submit' = submit, wait' = wait, rec' = rec
      PROVE  SenderInv'
  <2>1. mined' \in Seq(Tx) /\ Len(mined') = Len(mined) + 1
        /\ \A n \in 1..Len(mined) : mined'[n] = mined[n]
        /\ mined'[Len(mined) + 1] = t
    BY <1>1, <1>4
  <2>2. \A n \in 1..Len(mined') : mined'[n].nonce = n - 1
    BY <1>1, <1>4, <2>1
  <2>3. Typed'
    BY <1>2, <1>4, <2>1, <2>2 DEF SenderInv, Typed, TypeOK
  <2>4. latest' \in Nat /\ latest <= latest'
    BY <1>1, <2>1 DEF latest
  <2>5. Apart'
    BY <1>4 DEF SenderInv, Apart
  <2> QED BY <1>3, <1>4, <2>1, <2>3, <2>4, <2>5, AroundSubmit
<1>5. CASE Mine
  <2>1. PICK t \in mempool : /\ t.nonce = latest /\ mined' = Append(mined, t)
                             /\ mempool' = mempool \ {t}
    BY <1>5 DEF Mine
  <2>2. faults \in 0..MaxFaults
    BY DEF SenderInv, Typed, TypeOK
  <2> QED BY <1>1, <1>4, <1>5, <2>1, <2>2 DEF Mine
<1>6. CASE Evict
  <2>1. Typed'
    BY <1>2, <1>6 DEF SenderInv, Typed, TypeOK, Evict
  <2>2. Apart'
    BY <1>6 DEF SenderInv, Apart, Evict
  <2> QED BY <1>6, <2>1, <2>2, RowsKept DEF Evict
<1>7. CASE ForeignTx
  <2>1. PICK t : t = [nonce |-> latest, req |-> Foreign, fee |-> 1]
    OBVIOUS
  <2>2. t \in Tx /\ t.nonce = latest
    BY <1>1, <2>1, SenderConfig DEF Tx
  <2>3. faults' \in 0..MaxFaults /\ mempool' \in SUBSET mempool
    BY <1>7, SenderConfig DEF ForeignTx, SenderInv, Typed, TypeOK
  <2> QED BY <1>4, <1>7, <2>1, <2>2, <2>3 DEF ForeignTx
<1> QED BY <1>5, <1>6, <1>7 DEF Node

\* wait() without a write to the table.
LEMMA WaitingReads ==
  ASSUME SenderInv,
         \/ \E i \in DOMAIN rows : Wait(i)
         \/ GiveUp \/ PollAgain \/ SendReplacement \/ Rebroadcast
  PROVE  SenderInv'
<1>1. /\ mempool \subseteq Tx /\ IsFiniteSet(mempool) /\ wait \in WaitState
      /\ DOMAIN wait = {"pc", "row", "next", "answer"}
  BY DEF SenderInv, Typed, TypeOK, WaitState
<1>2. ASSUME rows' = rows, mined' = mined, nextNonce' = nextNonce, todo' = todo,
             submit' = submit, rec' = rec, faults' = faults,
             wait' \in WaitState, mempool' \subseteq Tx, IsFiniteSet(mempool')
      PROVE  Typed'
  BY <1>2 DEF SenderInv, Typed, TypeOK, WaitState
<1>3. ASSUME NEW i \in DOMAIN rows, Wait(i) PROVE SenderInv'
  <2>1. wait' = [NotWaiting EXCEPT !.pc = "poll", !.row = i] /\ i \in Nat
    BY <1>3, TableTyped DEF Wait, SenderInv
  <2>2. wait' \in WaitState /\ wait'.pc = "poll" /\ wait'.row = i
    BY <2>1 DEF NotWaiting, WaitState, Answers
  <2>3. Typed'
    BY <1>1, <1>2, <1>3, <2>2 DEF Wait, chain
  <2>4. submit.pc # "idle" => rows[i].req # submit.req
    <3> SUFFICES ASSUME submit.pc # "idle", rows[i].req = submit.req PROVE FALSE
      OBVIOUS
    <3>1. i \in own /\ rows[i].status \in Open /\ i # submit.row
      BY <1>3 DEF Wait, newestOpen, openJobs, own
    <3>2. submit.pc \in {"allocate", "persist", "send", "record"}
      BY DEF SenderInv, Typed, TypeOK
    <3> QED BY <3>1, <3>2 DEF SenderInv, Retried, OverBelow
  <2>5. Apart'
    BY <1>3, <2>2, <2>4 DEF Apart, Wait
  <2> QED BY <1>3, <2>3, <2>5, RowsKept DEF Wait, chain
<1>4. CASE GiveUp
  <2>1. Typed' /\ wait'.pc = "idle"
    BY <1>1, <1>2, <1>4 DEF GiveUp, chain, NotWaiting, WaitState, Answers
  <2> QED BY <1>4, <2>1, RowsKept DEF GiveUp, chain, Apart
<1>5. CASE PollAgain
  <2>1. wait' \in WaitState /\ wait'.pc = "poll" /\ wait'.row = wait.row /\ wait.pc = "act"
    BY <1>1, <1>5 DEF PollAgain, WaitState
  <2>2. Typed'
    BY <1>1, <1>2, <1>5, <2>1 DEF PollAgain, chain
  <2>3. Apart'
    BY <1>5, <2>1 DEF SenderInv, Apart, PollAgain
  <2> QED BY <1>5, <2>2, <2>3, RowsKept DEF PollAgain, chain
<1>6. CASE SendReplacement
  <2>1. PICK answer \in Answers :
          /\ sendRawTransaction(txOf(rows[wait.next]), answer)
          /\ wait' = [wait EXCEPT !.pc = "record", !.answer = answer]
    BY <1>6 DEF SendReplacement
  <2>2. /\ wait' \in WaitState /\ wait'.pc = "record" /\ wait.pc = "send"
        /\ wait'.row = wait.row /\ wait'.next = wait.next
    BY <1>1, <1>6, <2>1 DEF SendReplacement, WaitState
  <2>3. wait.next \in DOMAIN rows
    BY <2>2 DEF SenderInv, Apart
  <2>4. txOf(rows[wait.next]) \in Tx
    BY <2>3, RowIsTx DEF SenderInv
  <2>5. Typed'
    BY <1>1, <1>2, <1>6, <2>1, <2>2, <2>4, MempoolTyped DEF SendReplacement
  <2>6. Apart'
    BY <1>6, <2>2 DEF SenderInv, Apart, SendReplacement
  <2> QED BY <1>6, <2>5, <2>6, RowsKept DEF SendReplacement
<1>7. CASE Rebroadcast
  <2>1. PICK answer \in Answers :
          /\ sendRawTransaction(txOf(rows[wait.row]), answer)
          /\ wait' = IF answer = "lost" THEN NotWaiting ELSE [wait EXCEPT !.pc = "poll"]
    BY <1>7 DEF Rebroadcast
  <2>2. wait.row \in DOMAIN rows /\ wait.pc = "act"
    BY <1>7 DEF Rebroadcast, SenderInv, Apart
  <2>3. /\ wait' \in WaitState /\ wait'.pc \in {"idle", "poll"}
        /\ wait'.pc = "poll" => wait'.row = wait.row
    BY <1>1, <2>1 DEF NotWaiting, WaitState, Answers
  <2>4. txOf(rows[wait.row]) \in Tx
    BY <2>2, RowIsTx DEF SenderInv
  <2>5. Typed'
    BY <1>1, <1>2, <1>7, <2>1, <2>3, <2>4, MempoolTyped DEF Rebroadcast
  <2>6. Apart'
    BY <1>7, <2>2, <2>3 DEF SenderInv, Apart, Rebroadcast
  <2> QED BY <1>7, <2>5, <2>6, RowsKept DEF Rebroadcast
<1> QED BY <1>3, <1>4, <1>5, <1>6, <1>7

\* wait() writing outcomes: what is written keeps the attempts, confirms what is mined,
\* and reopens at most the replacement it waits for.
LEMMA WaitingWrites ==
  ASSUME SenderInv, FindMined \/ Retire \/ RecordReplacement \/ NonceTaken
  PROVE  SenderInv'
<1>1. /\ rows \in Seq(Row) /\ mempool \subseteq Tx /\ IsFiniteSet(mempool) /\ wait \in WaitState
      /\ DOMAIN wait = {"pc", "row", "next", "answer"}
      /\ \A i \in DOMAIN rows : rows[i] \in Row /\ i \in Nat
  BY TableTyped DEF SenderInv, Typed, TypeOK, WaitState
<1>2. ASSUME SameAttempts(rows, rows'), wait' \in WaitState, Apart',
             mempool' = mempool, mined' = mined, nextNonce' = nextNonce, todo' = todo,
             submit' = submit, rec' = rec, faults' = faults,
             \A i \in DOMAIN rows :
               rows'[i].status = "CONFIRMED" => rows[i].status = "CONFIRMED" \/ receiptOf(i),
             submit.pc # "idle" =>
               \A i \in own : rows[i].status \notin Open => rows'[i].status \notin Open
      PROVE  SenderInv'
  <2>1. Typed'
    <3>1. rows' \in Seq(Row) /\ DOMAIN rows' = DOMAIN rows
      BY <1>2 DEF SameAttempts
    <3>2. TypeOK'
      <4> USE DEF SenderInv, Typed, TypeOK
      <4>1. rows' \in Seq([nonce : Nat, req : Requests, fee : 1..MaxFee, status : Status])
        BY <3>1 DEF Row
      <4>2. wait'.pc \in {"idle", "poll", "act", "retire", "send", "record"}
        BY <1>2 DEF WaitState
      <4>3. rec'.pc \in {"idle", "count", "resolve"} /\ rec'.jobs \subseteq DOMAIN rows'
        BY <1>2, <3>1
      <4> QED BY <1>2, <4>1, <4>2, <4>3
    <3> QED BY <1>2, <3>2 DEF SenderInv, Typed
  <2>2. latest' = latest /\ latest \in Nat
    BY <1>2, TableTyped DEF SenderInv, latest
  <2> QED BY <1>2, <2>1, <2>2, AroundSubmit
<1>3. NotWaiting \in WaitState /\ NotWaiting.pc = "idle"
  BY DEF NotWaiting, WaitState, Answers
<1>4. ASSUME NEW status \in Status, NEW S, status # "CONFIRMED", status \notin Open
      PROVE  LET r2 == closed(rows, S, status) IN
             /\ SameAttempts(rows, r2)
             /\ \A i \in DOMAIN rows : r2[i].status = "CONFIRMED" => rows[i].status = "CONFIRMED"
             /\ \A i \in DOMAIN rows : rows[i].status \notin Open => r2[i].status \notin Open
  BY <1>1, <1>4, ClosedRows
<1>5. CASE FindMined
  <2> DEFINE hits == {i \in byNonce(rows[wait.row].nonce) : receiptOf(i)}
  <2>1. CASE hits # {}
    <3>1. rows' = recordMined(Min(hits)) /\ wait' = NotWaiting
      BY <1>5, <2>1 DEF FindMined
    <3>2. hits \in SUBSET Nat
      BY <1>1 DEF byNonce
    <3>3. PICK k \in hits : k = Min(hits)
      <4> HIDE DEF hits
      <4> QED BY <2>1, <3>2, Least
    <3>4. k \in DOMAIN rows /\ receiptOf(k)
      BY DEF byNonce
    <3>5. PICK r2 : r2 = closed(rows, byNonce(rows[k].nonce) \ {k}, "DROPPED")
      OBVIOUS
    <3>6. /\ SameAttempts(rows, r2)
          /\ \A i \in DOMAIN rows : r2[i].status = "CONFIRMED" => rows[i].status = "CONFIRMED"
          /\ \A i \in DOMAIN rows : rows[i].status \notin Open => r2[i].status \notin Open
      BY <1>4, <3>5 DEF Status, Open
    <3>7. rows' = [r2 EXCEPT ![k].status = "CONFIRMED"]
      BY <3>1, <3>3, <3>5 DEF recordMined
    <3>8. /\ SameAttempts(r2, rows')
          /\ \A i \in DOMAIN rows :
               rows'[i].status = IF i = k THEN "CONFIRMED" ELSE r2[i].status
      <4>1. r2 \in Seq(Row) /\ k \in DOMAIN r2 /\ DOMAIN r2 = DOMAIN rows
            /\ "CONFIRMED" \in Status
        BY <3>4, <3>6 DEF SameAttempts, Status
      <4> QED BY <3>7, <4>1, UpdatedRow
    <3>9. SameAttempts(rows, rows')
      BY <3>6, <3>8, SameTwice
    <3>10. \A i \in own : i \in DOMAIN rows
      BY DEF own
    <3>11. "CONFIRMED" \notin Open
      BY DEF Open
    <3>12. Apart'
      BY <1>3, <3>1 DEF Apart
    <3>13. \A i \in DOMAIN rows :
             rows'[i].status = "CONFIRMED" => rows[i].status = "CONFIRMED" \/ receiptOf(i)
      BY <3>4, <3>6, <3>8
    <3>14. \A i \in own : rows[i].status \notin Open => rows'[i].status \notin Open
      BY <3>6, <3>8, <3>10, <3>11
    <3> QED BY <1>2, <1>3, <1>5, <3>1, <3>9, <3>12, <3>13, <3>14 DEF FindMined, chain
  <2>2. CASE hits = {}
    <3>1. wait' = [wait EXCEPT !.pc = "act"] /\ rows' = rows /\ wait.pc = "poll"
      BY <1>5, <2>2 DEF FindMined
    <3>2. wait' \in WaitState /\ wait'.pc = "act" /\ wait'.row = wait.row
      BY <1>1, <3>1 DEF WaitState
    <3>3. SameAttempts(rows, rows')
      BY <1>1, <3>1 DEF SameAttempts
    <3>4. Apart'
      BY <1>5, <3>1, <3>2 DEF SenderInv, Apart, FindMined
    <3> QED BY <1>2, <1>5, <3>1, <3>2, <3>3, <3>4 DEF FindMined, chain
  <2> QED BY <2>1, <2>2
<1>6. CASE Retire
  <2>1. /\ wait.row \in DOMAIN rows /\ rows' = [rows EXCEPT ![wait.row].status = "REPLACED"]
        /\ wait' = [wait EXCEPT !.pc = "send"] /\ wait.pc = "retire"
    BY <1>6 DEF Retire, update, SenderInv, Apart
  <2>2. /\ SameAttempts(rows, rows')
        /\ \A i \in DOMAIN rows :
             rows'[i].status = IF i = wait.row THEN "REPLACED" ELSE rows[i].status
    BY <1>1, <2>1, UpdatedRow DEF Status
  <2>3. wait' \in WaitState /\ wait'.pc = "send" /\ wait'.row = wait.row /\ wait'.next = wait.next
    BY <1>1, <2>1 DEF WaitState
  <2>4. Apart'
    BY <1>6, <2>1, <2>2, <2>3 DEF SenderInv, Apart, Retire, SameAttempts
  <2>5. \A i \in own : i \in DOMAIN rows
    BY DEF own
  <2>6. \A i \in own : rows[i].status \notin Open => rows'[i].status \notin Open
    BY <2>2, <2>5 DEF Open
  <2>7. \A i \in DOMAIN rows :
          rows'[i].status = "CONFIRMED" => rows[i].status = "CONFIRMED" \/ receiptOf(i)
    BY <2>2
  <2> QED BY <1>2, <1>6, <2>2, <2>3, <2>4, <2>6, <2>7 DEF Retire, chain
<1>7. CASE RecordReplacement
  <2>1. PICK status \in Status :
          /\ rows' = [rows EXCEPT ![wait.next].status = status]
          /\ status # "CONFIRMED"
    BY <1>7 DEF RecordReplacement, update, broadcastStatus, Status, Open
  <2>2. /\ wait.row \in DOMAIN rows /\ wait.next \in DOMAIN rows
        /\ rows[wait.next].req = rows[wait.row].req
        /\ submit.pc # "idle" => rows[wait.row].req # submit.req
    BY <1>7 DEF RecordReplacement, SenderInv, Apart
  <2>3. /\ SameAttempts(rows, rows')
        /\ \A i \in DOMAIN rows :
             rows'[i].status = IF i = wait.next THEN status ELSE rows[i].status
    BY <1>1, <2>1, <2>2, UpdatedRow
  <2>4. /\ wait' \in WaitState /\ wait'.pc \in {"idle", "poll"}
        /\ wait'.pc = "poll" => wait'.row = wait.next
    <3>1. wait.next \in Nat
      BY <1>1 DEF WaitState
    <3> QED BY <1>7, <3>1 DEF RecordReplacement, NotWaiting, WaitState, Answers
  <2>5. Apart'
    BY <1>7, <2>2, <2>3, <2>4 DEF Apart, RecordReplacement, SameAttempts
  <2>6. ASSUME submit.pc # "idle", NEW i \in own, rows[i].status \notin Open
        PROVE  rows'[i].status \notin Open
    <3> SUFFICES ASSUME i = wait.next PROVE FALSE
      BY <2>3, <2>6 DEF own
    <3>1. rows[i].req = submit.req
      BY DEF own
    <3> QED BY <2>2, <2>6, <3>1
  <2>7. \A i \in DOMAIN rows :
          rows'[i].status = "CONFIRMED" => rows[i].status = "CONFIRMED" \/ receiptOf(i)
    BY <2>1, <2>3
  <2> QED BY <1>2, <1>7, <2>3, <2>4, <2>5, <2>6, <2>7 DEF RecordReplacement, chain
<1>8. CASE NonceTaken
  <2>1. rows' = closed(rows, byNonce(rows[wait.row].nonce), "DROPPED") /\ wait' = NotWaiting
    BY <1>8 DEF NonceTaken
  <2>2. /\ SameAttempts(rows, rows')
        /\ \A i \in DOMAIN rows : rows'[i].status = "CONFIRMED" => rows[i].status = "CONFIRMED"
        /\ \A i \in DOMAIN rows : rows[i].status \notin Open => rows'[i].status \notin Open
    BY <1>4, <2>1 DEF Status, Open
  <2>3. Apart' /\ \A i \in own : i \in DOMAIN rows
    BY <1>3, <2>1 DEF Apart, own
  <2> QED BY <1>2, <1>3, <1>8, <2>1, <2>2, <2>3 DEF NonceTaken, chain
<1> QED BY <1>5, <1>6, <1>7, <1>8

-----------------------------------------------------------------------------
(* Steps that insert a row.                                                *)

\* An attempt not recorded before keeps transactions distinct and confirms nothing.
LEMMA AddedRow ==
  ASSUME SenderInv, NEW t \in [nonce : Nat, req : Requests, fee : 1..MaxFee],
         insert(t), ~recorded(t), t.req \notin todo, todo' = todo, mined' = mined
  PROVE  /\ rows' \in Seq(Row) /\ Len(rows') \in Nat \ DOMAIN rows
         /\ DOMAIN rows' = DOMAIN rows \cup {Len(rows')}
         /\ \A i \in DOMAIN rows : rows'[i] = rows[i]
         /\ rows'[Len(rows')] = [ nonce |-> t.nonce, req |-> t.req, fee |-> t.fee,
                                  status |-> "PENDING" ]
         /\ Distinct' /\ Settled'
         /\ \A i \in DOMAIN rows' : rows'[i].req \notin todo'
<1> DEFINE x == [nonce |-> t.nonce, req |-> t.req, fee |-> t.fee, status |-> "PENDING"]
           n == Len(rows')
<1>1. rows \in Seq(Row) /\ x \in Row /\ rows' = Append(rows, x)
  BY TableTyped DEF SenderInv, insert, Row, Status, Open
<1>2. txOf(x) = t
  BY DEF txOf
<1>3. x.status = "PENDING" /\ x.req = t.req
  OBVIOUS
<1> HIDE DEF x
<1>4. /\ rows' \in Seq(Row) /\ n \in Nat \ DOMAIN rows
      /\ DOMAIN rows' = DOMAIN rows \cup {n}
      /\ rows'[n] = x /\ \A i \in DOMAIN rows : rows'[i] = rows[i]
  BY <1>1, InsertedRow
<1> HIDE DEF n
<1>5. \A i \in DOMAIN rows : txOf(rows'[i]) = txOf(rows[i]) /\ txOf(rows[i]) # txOf(rows'[n])
  BY <1>2, <1>4 DEF recorded
<1>6. Distinct'
  <2>1. ASSUME NEW i \in DOMAIN rows', NEW j \in DOMAIN rows', txOf(rows'[i]) = txOf(rows'[j])
        PROVE  i = j
    <3>1. (i \in DOMAIN rows \/ i = n) /\ (j \in DOMAIN rows \/ j = n)
      BY <1>4
    <3> QED BY <1>5, <2>1, <3>1 DEF SenderInv, Distinct
  <2>2. \A i \in DOMAIN rows' : txOf(rows[i])' = txOf(rows'[i])
    BY DEF txOf
  <2> QED BY <2>1, <2>2 DEF Distinct
<1>7. Settled'
  <2>1. \A i \in DOMAIN rows : receiptOf(i) => receiptOf(i)'
    BY <1>4 DEF receiptOf, isMined, txOf
  <2> QED BY <1>3, <1>4, <2>1 DEF SenderInv, Settled
<1>8. \A i \in DOMAIN rows' : rows'[i].req \notin todo'
  BY <1>3, <1>4 DEF SenderInv, TakenOnce
<1> QED BY <1>4, <1>6, <1>7, <1>8 DEF x, n

\* A replacement has its own fee, and the unique index refuses it if it was recorded.
LEMMA ReplaceStep ==
  ASSUME SenderInv, Replace
  PROVE  SenderInv'
<1> DEFINE job  == rows[wait.row]
           next == [txOf(job) EXCEPT !.fee = bump(job.fee)]
<1>1. /\ wait.pc = "act" /\ next.fee <= MaxFee
      /\ mempool' = mempool /\ mined' = mined /\ nextNonce' = nextNonce /\ todo' = todo
      /\ submit' = submit /\ rec' = rec /\ faults' = faults
  BY DEF Replace, chain
<1>2. /\ wait.row \in DOMAIN rows
      /\ submit.pc # "idle" => job.req # submit.req
  BY <1>1 DEF SenderInv, Apart
<1>3. job \in Row /\ wait \in WaitState
  BY <1>2, TableTyped DEF SenderInv, Typed
<1>4. next = [nonce |-> job.nonce, req |-> job.req, fee |-> job.fee + 1]
  BY DEF txOf, bump
<1>5. next \in [nonce : Nat, req : Requests, fee : 1..MaxFee] /\ next.req = job.req
  BY <1>1, <1>3, <1>4, SenderConfig DEF Row
<1>6. next.req \notin todo
  BY <1>2, <1>5 DEF SenderInv, TakenOnce
<1>7. CASE recorded(next)
  <2>1. wait' = NotWaiting /\ rows' = rows
    BY <1>7 DEF Replace
  <2>2. NotWaiting \in WaitState /\ NotWaiting.pc = "idle"
    BY DEF NotWaiting, WaitState, Answers
  <2>3. Typed' /\ Apart'
    BY <1>1, <2>1, <2>2 DEF SenderInv, Typed, TypeOK, Apart
  <2> QED BY <1>1, <2>1, <2>3, RowsKept
<1>8. CASE ~recorded(next)
  <2>1. insert(next) /\ wait' = [wait EXCEPT !.pc = "retire", !.next = Len(rows')]
    BY <1>8 DEF Replace
  <2> HIDE DEF job, next
  <2>2. /\ rows' \in Seq(Row) /\ Len(rows') \in Nat \ DOMAIN rows
        /\ DOMAIN rows' = DOMAIN rows \cup {Len(rows')}
        /\ \A i \in DOMAIN rows : rows'[i] = rows[i]
        /\ rows'[Len(rows')] = [ nonce |-> next.nonce, req |-> next.req, fee |-> next.fee,
                                 status |-> "PENDING" ]
        /\ Distinct' /\ Settled'
        /\ \A i \in DOMAIN rows' : rows'[i].req \notin todo'
    BY <1>1, <1>5, <1>6, <1>8, <2>1, AddedRow
  <2>3. rows'[Len(rows')].req = rows[wait.row].req
    <3>1. PICK n : n = Len(rows')
      OBVIOUS
    <3>2. rows'[n] = [ nonce |-> next.nonce, req |-> next.req, fee |-> next.fee,
                       status |-> "PENDING" ]
      BY <2>2, <3>1
    <3>3. rows'[n].req = next.req
      BY <3>2
    <3> QED BY <1>5, <3>1, <3>3 DEF job
  <2>4. /\ wait' \in WaitState /\ wait'.pc = "retire" /\ wait'.row = wait.row
        /\ wait'.next = Len(rows')
    BY <1>3, <2>1, <2>2 DEF WaitState
  <2>5. Typed'
    <3>1. rows' \in Seq([nonce : Nat, req : Requests, fee : 1..MaxFee, status : Status])
      BY <2>2 DEF Row
    <3>2. rec'.jobs \subseteq DOMAIN rows'
      BY <1>1, <2>2 DEF SenderInv, Typed, TypeOK
    <3> QED BY <1>1, <2>4, <3>1, <3>2 DEF SenderInv, Typed, TypeOK
  <2>6. TakenOnce'
    BY <1>1, <2>2 DEF SenderInv, TakenOnce
  <2>7. submit.pc # "idle" => own' = own
    BY <1>1, <1>2, <2>2, <2>3 DEF own, job
  <2>8. latest' = latest
    BY <1>1 DEF latest
  <2>9. \A i \in own : rows'[i] = rows[i]
    BY <2>2 DEF own
  <2>10. Retried'
    <3>1. \A S \in SUBSET own : \A n : OverBelow(rows, S, n) => OverBelow(rows', S, n)
      BY <2>9 DEF OverBelow
    <3>2. own \ {submit.row} \in SUBSET own
      OBVIOUS
    <3> HIDE DEF own
    <3> QED BY <1>1, <2>7, <2>8, <2>9, <3>1, <3>2 DEF SenderInv, Retried
  <2>11. Apart'
    BY <1>1, <1>2, <2>2, <2>3, <2>4 DEF Apart, job
  <2> QED BY <2>2, <2>5, <2>6, <2>10, <2>11 DEF SenderInv
<1> QED BY <1>7, <1>8

\* submit() records an attempt at a nonce above those of its earlier attempts.
LEMMA PersistStep ==
  ASSUME SenderInv, Persist
  PROVE  SenderInv'
<1> DEFINE t == [nonce |-> submit.nonce, req |-> submit.req, fee |-> initialFees]
           n == Len(rows')
<1>1. /\ submit.pc = "persist" /\ insert(t)
      /\ submit' = [submit EXCEPT !.pc = "send", !.row = n]
      /\ mempool' = mempool /\ mined' = mined /\ nextNonce' = nextNonce /\ todo' = todo
      /\ wait' = wait /\ rec' = rec /\ faults' = faults
  BY DEF Persist, chain
<1>2. submit \in SubmitState /\ submit.req \in Requests \ todo
  BY <1>1 DEF SenderInv, Typed, TakenOnce
<1>3. t \in [nonce : Nat, req : Requests, fee : 1..MaxFee]
  BY <1>2, SenderConfig DEF SubmitState, initialFees
<1>4. OverBelow(rows, own, submit.nonce) /\ \A i \in own : rows[i].nonce \in Nat
  <2>1. \A i \in own : rows[i] \in Row
    BY TableTyped DEF SenderInv, own
  <2> QED BY <1>1, <2>1 DEF SenderInv, Retried, Row
<1>5. ~recorded(t)
  <2> SUFFICES ASSUME NEW i \in DOMAIN rows, txOf(rows[i]) = t PROVE FALSE
    BY DEF recorded
  <2>1. rows[i].req = submit.req /\ rows[i].nonce = submit.nonce
    BY DEF txOf
  <2>2. i \in own
    BY <2>1 DEF own
  <2>3. submit.nonce \in Nat
    BY <1>2 DEF SubmitState
  <2> QED BY <1>4, <2>1, <2>2, <2>3 DEF OverBelow
<1>6. t.req = submit.req /\ t.nonce = submit.nonce
  OBVIOUS
<1> HIDE DEF t
<1>7. /\ rows' \in Seq(Row) /\ n \in Nat \ DOMAIN rows
      /\ DOMAIN rows' = DOMAIN rows \cup {n}
      /\ \A i \in DOMAIN rows : rows'[i] = rows[i]
      /\ rows'[n] = [nonce |-> t.nonce, req |-> t.req, fee |-> t.fee, status |-> "PENDING"]
      /\ Distinct' /\ Settled'
      /\ \A i \in DOMAIN rows' : rows'[i].req \notin todo'
  BY <1>1, <1>2, <1>3, <1>5, <1>6, AddedRow
<1> HIDE DEF n
<1>8. rows'[n].req = submit.req /\ rows'[n].nonce = submit.nonce
  BY <1>6, <1>7
<1>9. /\ submit' \in SubmitState /\ submit'.pc = "send" /\ submit'.row = n
      /\ submit'.req = submit.req /\ submit'.nonce = submit.nonce
  BY <1>1, <1>2, <1>7 DEF SubmitState
<1>10. Typed'
  <2>1. rows' \in Seq([nonce : Nat, req : Requests, fee : 1..MaxFee, status : Status])
    BY <1>7 DEF Row
  <2>2. rec'.jobs \subseteq DOMAIN rows'
    BY <1>1, <1>7 DEF SenderInv, Typed, TypeOK
  <2> QED BY <1>1, <1>9, <2>1, <2>2 DEF SenderInv, Typed, TypeOK
<1>11. TakenOnce'
  BY <1>1, <1>2, <1>7, <1>9 DEF TakenOnce
<1>12. own' = own \cup {n} /\ n \notin own
  BY <1>7, <1>8, <1>9 DEF own
<1>13. Retried'
  <2>1. own' \ {n} = own
    BY <1>12
  <2>2. OverBelow(rows', own, submit.nonce)
    BY <1>4, <1>7 DEF OverBelow, own
  <2> QED BY <1>8, <1>9, <1>12, <2>1, <2>2 DEF Retried
<1>14. Apart'
  BY <1>1, <1>7, <1>9 DEF SenderInv, Apart
<1> QED BY <1>7, <1>10, <1>11, <1>13, <1>14 DEF SenderInv

-----------------------------------------------------------------------------
(* The other steps of submit(), and crashes.                               *)

\* A step of submit() that writes no row.
LEMMA SubmitMoves ==
  ASSUME SenderInv, rows' = rows, mined' = mined, wait' = wait, rec' = rec,
         mempool' \subseteq Tx, IsFiniteSet(mempool'), todo' \subseteq todo,
         submit' \in SubmitState, nextNonce' \in Nat \cup {Null}, faults' \in 0..MaxFaults,
         submit'.pc # "idle" => submit'.req \in Requests \ todo',
         submit'.pc # "idle" /\ wait.pc # "idle" => rows[wait.row].req # submit'.req,
         Retried'
  PROVE  SenderInv'
<1>1. Typed'
  <2>1. submit'.pc \in {"idle", "allocate", "persist", "send", "record"}
    BY DEF SubmitState
  <2> QED BY <2>1 DEF SenderInv, Typed, TypeOK
<1>2. Distinct'
  BY DEF SenderInv, Distinct, txOf
<1>3. Settled'
  BY DEF SenderInv, Settled, receiptOf, isMined, txOf
<1>4. TakenOnce'
  BY DEF SenderInv, TakenOnce
<1>5. Apart'
  BY DEF SenderInv, Apart
<1> QED BY <1>1, <1>2, <1>3, <1>4, <1>5 DEF SenderInv

\* submit() takes up a request, and asks for a nonce.
LEMMA TakingUp ==
  ASSUME SenderInv, Submit \/ Allocate
  PROVE  SenderInv'
<1>1. /\ submit \in SubmitState /\ mempool \subseteq Tx /\ IsFiniteSet(mempool)
      /\ todo \subseteq Requests /\ nextNonce \in Nat \cup {Null} /\ faults \in 0..MaxFaults
      /\ latest \in Nat /\ Typed
  BY TableTyped DEF SenderInv, Typed, TypeOK
<1>2. CASE Submit
  <2>1. PICK r \in todo : r = Min(todo)
    <3>1. todo \in SUBSET Nat /\ todo # {}
      BY <1>1, <1>2, SenderConfig DEF Submit
    <3> QED BY <3>1, Least
  <2>2. submit' = [Idle EXCEPT !.pc = "allocate", !.req = r] /\ todo' = todo \ {r}
    BY <1>2, <2>1 DEF Submit
  <2>3. submit' \in SubmitState /\ submit'.pc = "allocate" /\ submit'.req = r
    BY <1>1, <2>1, <2>2 DEF Idle, SubmitState, Answers
  <2>4. own' = {}
    BY <1>2, <2>1, <2>3 DEF own, SenderInv, TakenOnce, Submit
  <2>5. Retried'
    BY <2>3, <2>4 DEF Retried, OverBelow
  <2>6. wait.pc # "idle" => rows[wait.row].req # r
    BY <2>1 DEF SenderInv, Apart, TakenOnce
  <2>7. r \in Requests \ todo'
    BY <1>1, <2>1, <2>2
  <2> QED BY <1>1, <1>2, <2>2, <2>3, <2>5, <2>6, <2>7, SubmitMoves DEF Submit, chain
<1>3. CASE Allocate
  <2>1. PICK n \in Nat : n = allocated /\ latest <= n
    BY <1>1, AllocatedIs
  <2>2. submit' = [submit EXCEPT !.pc = "persist", !.nonce = n] /\ submit.pc = "allocate"
    BY <1>3, <2>1 DEF Allocate
  <2>3. /\ submit' \in SubmitState /\ submit'.pc = "persist" /\ submit'.req = submit.req
        /\ submit'.nonce = n
    BY <1>1, <2>1, <2>2 DEF SubmitState
  <2>4. nextNonce' \in Nat \cup {Null}
    <3>1. pending \in Nat
      BY <1>1, PendingIs DEF Typed, TypeOK
    <3> QED BY <1>1, <1>3, <3>1 DEF Allocate
  <2>5. own' = own /\ rows' = rows
    BY <1>3, <2>3 DEF own, Allocate
  <2>6. OverBelow(rows, own, n)
    <3>1. OverBelow(rows, own, latest) /\ \A i \in own : rows[i].nonce \in Nat
      <4>1. \A i \in own : rows[i] \in Row
        BY TableTyped DEF SenderInv, own
      <4> QED BY <2>2, <4>1 DEF SenderInv, Retried, Row
    <3> QED BY <1>1, <2>1, <3>1 DEF OverBelow
  <2>7. Retried'
    BY <2>3, <2>5, <2>6 DEF Retried
  <2>8. submit.req \in Requests \ todo
        /\ (wait.pc # "idle" => rows[wait.row].req # submit.req)
    BY <2>2 DEF SenderInv, TakenOnce, Apart
  <2> QED BY <1>1, <1>3, <2>3, <2>4, <2>7, <2>8, SubmitMoves DEF Allocate, chain
<1> QED BY <1>2, <1>3

\* The bytes go out; "nonce too low" is the answer only at a nonce already consumed.
LEMMA BroadcastStep ==
  ASSUME SenderInv, Broadcast
  PROVE  SenderInv'
<1>1. /\ submit \in SubmitState /\ mempool \subseteq Tx /\ IsFiniteSet(mempool)
      /\ nextNonce \in Nat \cup {Null} /\ faults \in 0..MaxFaults /\ Typed
  BY DEF SenderInv, Typed, TypeOK
<1>2. PICK answer \in Answers :
        /\ sendRawTransaction(txOf(rows[submit.row]), answer)
        /\ submit' = [submit EXCEPT !.pc = "record", !.answer = answer]
  BY DEF Broadcast
<1>3. /\ submit' \in SubmitState /\ submit'.pc = "record" /\ submit'.req = submit.req
      /\ submit'.nonce = submit.nonce /\ submit'.row = submit.row /\ submit'.answer = answer
  BY <1>1, <1>2 DEF SubmitState
<1>4. /\ submit.pc = "send" /\ submit.row \in own /\ rows[submit.row].nonce = submit.nonce
      /\ OverBelow(rows, own \ {submit.row}, submit.nonce) /\ submit.row \in DOMAIN rows
  BY DEF Broadcast, SenderInv, Retried, own
<1>5. mempool' \subseteq Tx /\ IsFiniteSet(mempool')
  <2>1. txOf(rows[submit.row]) \in Tx
    BY <1>1, <1>4, RowIsTx
  <2> QED BY <1>1, <1>2, <2>1, MempoolTyped
<1>6. answer = "nonceTooLow" => submit.nonce < latest
  <2>1. ASSUME answer = "nonceTooLow" PROVE submit.nonce < latest
    <3>1. answerTo(txOf(rows[submit.row])) = "nonceTooLow"
      BY <1>2, <2>1 DEF sendRawTransaction
    <3>2. txOf(rows[submit.row]).nonce < latest
      BY <3>1 DEF answerTo
    <3> QED BY <1>4, <3>2 DEF txOf
  <2> QED BY <2>1
<1>7. own' = own /\ rows' = rows /\ latest' = latest
  BY <1>3 DEF own, latest, Broadcast
<1>8. Retried'
  BY <1>3, <1>4, <1>6, <1>7 DEF Retried
<1>9. submit.req \in Requests \ todo
      /\ (wait.pc # "idle" => rows[wait.row].req # submit.req)
  BY <1>4 DEF SenderInv, TakenOnce, Apart
<1> QED BY <1>1, <1>3, <1>5, <1>8, <1>9, SubmitMoves DEF Broadcast

\* A service that stops forgets the request it was submitting.
LEMMA CrashSteps ==
  ASSUME SenderInv, CrashSender \/ CrashReconciler
  PROVE  SenderInv'
<1>1. /\ Idle \in SubmitState /\ Idle.pc = "idle"
      /\ NotWaiting \in WaitState /\ NotWaiting.pc = "idle"
      /\ RecIdle \in RecState /\ RecIdle.jobs = {} /\ RecIdle.pc = "idle"
  BY DEF Idle, SubmitState, NotWaiting, WaitState, RecIdle, RecState, Answers
<1>2. faults' \in 0..MaxFaults
  BY SenderConfig DEF CrashSender, CrashReconciler, SenderInv, Typed, TypeOK
<1>3. rows' = rows /\ mined' = mined /\ mempool' = mempool /\ todo' = todo
  BY DEF CrashSender, CrashReconciler, chain
<1>4. Distinct' /\ Settled'
  BY <1>3 DEF SenderInv, Distinct, Settled, receiptOf, isMined, txOf
<1>5. CASE CrashSender
  <2>1. submit' = Idle /\ wait' = NotWaiting /\ rec' = rec /\ nextNonce' = Null
    BY <1>5 DEF CrashSender
  <2>2. Typed'
    BY <1>1, <1>2, <1>3, <2>1 DEF SenderInv, Typed, TypeOK
  <2>3. TakenOnce' /\ Retried' /\ Apart'
    BY <1>1, <1>3, <2>1 DEF SenderInv, TakenOnce, Retried, Apart
  <2> QED BY <1>4, <2>2, <2>3 DEF SenderInv
<1>6. CASE CrashReconciler
  <2>1. submit' = submit /\ wait' = wait /\ rec' = RecIdle /\ nextNonce' = nextNonce
    BY <1>6 DEF CrashReconciler
  <2>2. Typed'
    BY <1>1, <1>2, <1>3, <2>1 DEF SenderInv, Typed, TypeOK
  <2>3. TakenOnce' /\ Apart'
    BY <1>3, <2>1 DEF SenderInv, TakenOnce, Apart
  <2>4. own' = own /\ latest' = latest
    BY <1>3, <2>1 DEF own, latest
  <2>5. Retried'
    BY <1>3, <2>1, <2>4 DEF SenderInv, Retried
  <2> QED BY <1>4, <2>2, <2>3, <2>5 DEF SenderInv
<1> QED BY <1>5, <1>6

\* The answer is written on the attempt; after "nonce too low" submit() starts over, and
\* the attempt is over at a consumed nonce.
LEMMA RecordStep ==
  ASSUME SenderInv, Record
  PROVE  SenderInv'
<1>1. /\ submit \in SubmitState /\ mempool \subseteq Tx /\ IsFiniteSet(mempool)
      /\ nextNonce \in Nat \cup {Null} /\ faults \in 0..MaxFaults /\ Typed
      /\ rows \in Seq(Row) /\ latest \in Nat /\ \A i \in DOMAIN rows : rows[i] \in Row
  BY TableTyped DEF SenderInv, Typed, TypeOK
<1>2. /\ submit.pc = "record" /\ submit.row \in own /\ rows[submit.row].nonce = submit.nonce
      /\ OverBelow(rows, own \ {submit.row}, submit.nonce) /\ submit.row \in DOMAIN rows
      /\ submit.answer = "nonceTooLow" => submit.nonce < latest
      /\ submit.req \in Requests \ todo
      /\ (wait.pc # "idle" => rows[wait.row].req # submit.req)
  BY DEF Record, SenderInv, Retried, own, TakenOnce, Apart
<1>3. PICK status \in Status :
        /\ status = broadcastStatus(submit.answer) /\ status # "CONFIRMED"
        /\ submit.answer = "nonceTooLow" => status = "DROPPED"
  BY DEF broadcastStatus, Status, Open
<1>4. /\ rows' = [rows EXCEPT ![submit.row].status = status]
      /\ mempool' = mempool /\ mined' = mined /\ todo' = todo /\ wait' = wait /\ rec' = rec
      /\ faults' = faults
  BY <1>3 DEF Record, update, chain
<1>5. /\ SameAttempts(rows, rows')
      /\ \A i \in DOMAIN rows :
           rows'[i].status = IF i = submit.row THEN status ELSE rows[i].status
  BY <1>1, <1>2, <1>4, UpdatedRow
<1>6. /\ rows' \in Seq(Row) /\ DOMAIN rows' = DOMAIN rows
      /\ \A i \in DOMAIN rows : /\ rows'[i].nonce = rows[i].nonce
                                /\ rows'[i].req = rows[i].req
                                /\ rows'[i].fee = rows[i].fee
  BY <1>5 DEF SameAttempts
<1>7. Distinct' /\ Settled'
  <2>1. \A i \in DOMAIN rows : txOf(rows[i])' = txOf(rows[i])
    BY <1>6 DEF txOf
  <2>2. \A i \in DOMAIN rows : receiptOf(i)' <=> receiptOf(i)
    BY <1>4, <2>1 DEF receiptOf, isMined
  <2>3. \A i \in DOMAIN rows : rows'[i].status = "CONFIRMED" => rows[i].status = "CONFIRMED"
    BY <1>3, <1>5
  <2> QED BY <1>6, <2>1, <2>2, <2>3 DEF SenderInv, Distinct, Settled
<1>8. CASE submit' = Idle
  <2>1. Idle \in SubmitState /\ Idle.pc = "idle"
    BY DEF Idle, SubmitState, Answers
  <2>2. nextNonce' \in Nat \cup {Null}
    <3>1. submit.nonce + 1 \in Nat
      BY <1>1 DEF SubmitState
    <3> QED BY <1>1, <3>1 DEF Record
  <2>3. Typed'
    <3>1. rows' \in Seq([nonce : Nat, req : Requests, fee : 1..MaxFee, status : Status])
      BY <1>6 DEF Row
    <3> QED BY <1>4, <1>6, <1>8, <2>1, <2>2, <3>1 DEF SenderInv, Typed, TypeOK
  <2>4. TakenOnce' /\ Retried'
    BY <1>4, <1>6, <1>8, <2>1 DEF SenderInv, TakenOnce, Retried
  <2>5. Apart'
    BY <1>4, <1>6, <1>8, <2>1 DEF SenderInv, Apart
  <2> QED BY <1>7, <2>3, <2>4, <2>5 DEF SenderInv
<1>9. CASE submit' # Idle
  <2>1. /\ submit.answer = "nonceTooLow" /\ nextNonce' = Null
        /\ submit' = [submit EXCEPT !.pc = "allocate", !.attempt = submit.attempt + 1]
    BY <1>9 DEF Record
  <2>2. submit' \in SubmitState /\ submit'.pc = "allocate" /\ submit'.req = submit.req
    <3>1. submit.attempt + 1 \in Nat
      BY <1>1 DEF SubmitState
    <3> QED BY <1>1, <2>1, <3>1 DEF SubmitState
  <2>3. Typed'
    <3>1. rows' \in Seq([nonce : Nat, req : Requests, fee : 1..MaxFee, status : Status])
      BY <1>6 DEF Row
    <3> QED BY <1>4, <1>6, <2>1, <2>2, <3>1 DEF SenderInv, Typed, TypeOK
  <2>4. TakenOnce'
    BY <1>2, <1>4, <1>6, <2>2 DEF SenderInv, TakenOnce
  <2>5. Apart'
    BY <1>2, <1>4, <1>6, <2>2 DEF SenderInv, Apart
  <2>6. own' = own /\ latest' = latest
    BY <1>4, <1>6, <2>2 DEF own, latest
  <2>7. OverBelow(rows', own, latest)
    <3>1. ASSUME NEW i \in own PROVE rows'[i].nonce < latest /\ rows'[i].status \notin Open
      <4>1. i \in DOMAIN rows /\ rows[i].nonce \in Nat /\ submit.nonce \in Nat
        BY <1>1 DEF own, Row, SubmitState
      <4>2. CASE i = submit.row
        BY <1>1, <1>2, <1>3, <1>5, <1>6, <2>1, <4>1, <4>2 DEF Open
      <4>3. CASE i # submit.row
        <5>1. rows[i].nonce < submit.nonce /\ rows[i].status \notin Open
          BY <1>2, <4>3 DEF OverBelow
        <5> QED BY <1>1, <1>2, <1>5, <1>6, <2>1, <4>1, <4>3, <5>1
      <4> QED BY <4>2, <4>3
    <3> QED BY <3>1 DEF OverBelow
  <2>8. Retried'
    BY <2>2, <2>6, <2>7 DEF Retried
  <2> QED BY <1>7, <2>3, <2>4, <2>5, <2>8 DEF SenderInv
<1> QED BY <1>8, <1>9

-----------------------------------------------------------------------------
(* The reconciler.                                                         *)

\* Its outcomes are written on rows still open, and confirm what is mined.
LEMMA ReconcilingSteps ==
  ASSUME SenderInv, Reconciling
  PROVE  SenderInv'
<1>1. /\ rows \in Seq(Row) /\ mempool \subseteq Tx /\ IsFiniteSet(mempool)
      /\ rec \in RecState /\ rec.jobs \subseteq DOMAIN rows /\ latest \in Nat
      /\ \A i \in DOMAIN rows : rows[i] \in Row /\ i \in Nat
  BY TableTyped DEF SenderInv, Typed, TypeOK
<1>2. ASSUME SameAttempts(rows, rows'), rec' \in RecState, rec'.jobs \subseteq DOMAIN rows,
             mempool' \subseteq Tx, IsFiniteSet(mempool'),
             mined' = mined, nextNonce' = nextNonce, todo' = todo,
             submit' = submit, wait' = wait, faults' = faults,
             \A i \in DOMAIN rows :
               rows'[i].status = "CONFIRMED" => rows[i].status = "CONFIRMED" \/ receiptOf(i),
             \A i \in DOMAIN rows : rows[i].status \notin Open => rows'[i].status \notin Open
      PROVE  SenderInv'
  <2>1. rows' \in Seq(Row) /\ DOMAIN rows' = DOMAIN rows
        /\ \A i \in DOMAIN rows : rows'[i].req = rows[i].req
    BY <1>2 DEF SameAttempts
  <2>2. Typed'
    <3>1. rows' \in Seq([nonce : Nat, req : Requests, fee : 1..MaxFee, status : Status])
      BY <2>1 DEF Row
    <3>2. rec'.pc \in {"idle", "count", "resolve"}
      BY <1>2 DEF RecState
    <3> QED BY <1>2, <2>1, <3>1, <3>2 DEF SenderInv, Typed, TypeOK
  <2>3. Apart'
    BY <1>2, <2>1 DEF SenderInv, Apart
  <2>4. latest' = latest /\ \A i \in own : i \in DOMAIN rows
    BY <1>2 DEF latest, own
  <2> QED BY <1>1, <1>2, <2>2, <2>3, <2>4, AroundSubmit
<1>3. SameAttempts(rows, rows)
  BY <1>1 DEF SameAttempts
<1>4. CASE ReadOpenJobs
  <2>1. openJobs \in SUBSET Nat /\ openJobs \subseteq DOMAIN rows
    BY <1>1 DEF openJobs
  <2>2. rec' \in RecState /\ rec'.jobs = openJobs
    BY <1>4, <2>1 DEF ReadOpenJobs, RecIdle, RecState
  <2> QED BY <1>1, <1>2, <1>3, <1>4, <2>1, <2>2 DEF ReadOpenJobs, chain
<1>5. CASE ReadMinedNonce
  <2>1. rec' \in RecState /\ rec'.jobs = rec.jobs
    BY <1>1, <1>5 DEF ReadMinedNonce, RecState
  <2> QED BY <1>1, <1>2, <1>3, <1>5, <2>1 DEF ReadMinedNonce, chain
<1>6. CASE ResolveNonce
  <2> DEFINE nonce == Min({rows[i].nonce : i \in rec.jobs})
             attempts == {i \in rec.jobs : rows[i].nonce = nonce}
             newest == Max(attempts)
             hits == {i \in attempts : receiptOf(i)}
  <2>1. /\ rec' = IF rec.jobs = attempts THEN RecIdle ELSE [rec EXCEPT !.jobs = rec.jobs \ attempts]
        /\ mined' = mined /\ nextNonce' = nextNonce /\ todo' = todo
        /\ submit' = submit /\ wait' = wait /\ faults' = faults
    BY <1>6 DEF ResolveNonce
  <2>2. \/ /\ hits # {} /\ mempool' = mempool
           /\ rows' = closed(closed(rows, {Min(hits)}, "CONFIRMED"), attempts, "DROPPED")
        \/ /\ rows' = closed(rows, attempts, "DROPPED") /\ mempool' = mempool
        \/ /\ rows' = rows
           /\ \/ mempool' = mempool
              \/ /\ ~inMempool(newest)
                 /\ \E answer \in Answers : sendRawTransaction(txOf(rows[newest]), answer)
    BY <1>6 DEF ResolveNonce
  <2>3. rec' \in RecState /\ rec'.jobs \subseteq DOMAIN rows
    <3> HIDE DEF attempts
    <3>1. rec.jobs # attempts => rec.jobs \ attempts # {}
      <4>1. attempts \subseteq rec.jobs
        BY DEF attempts
      <4> QED BY <4>1
    <3>2. CASE rec.jobs = attempts
      BY <1>1, <2>1, <3>2 DEF RecIdle, RecState
    <3>3. CASE rec.jobs # attempts
      BY <1>1, <2>1, <3>1, <3>3 DEF RecState
    <3> QED BY <3>2, <3>3
  <2>4. "CONFIRMED" \in Status /\ "DROPPED" \in Status /\ "CONFIRMED" \notin Open
        /\ "DROPPED" \notin Open
    BY DEF Status, Open
  <2>5. CASE hits # {} /\ mempool' = mempool
             /\ rows' = closed(closed(rows, {Min(hits)}, "CONFIRMED"), attempts, "DROPPED")
    <3>1. hits \in SUBSET Nat /\ hits \subseteq DOMAIN rows /\ \A i \in hits : receiptOf(i)
      BY <1>1
    <3> HIDE DEF hits
    <3>2. PICK k \in hits : k = Min(hits)
      BY <2>5, <3>1, Least
    <3>3. PICK r2 : r2 = closed(rows, {k}, "CONFIRMED")
      OBVIOUS
    <3>4. /\ SameAttempts(rows, r2)
          /\ \A i \in DOMAIN rows :
               r2[i].status = IF i \in {k} /\ rows[i].status \in Open THEN "CONFIRMED"
                              ELSE rows[i].status
      BY <1>1, <2>4, <3>3, ClosedRows
    <3>5. r2 \in Seq(Row) /\ DOMAIN r2 = DOMAIN rows /\ rows' = closed(r2, attempts, "DROPPED")
      BY <2>5, <3>2, <3>3, <3>4 DEF SameAttempts
    <3> HIDE DEF attempts
    <3>6. /\ SameAttempts(r2, rows')
          /\ \A i \in DOMAIN rows :
               rows'[i].status = IF i \in attempts /\ r2[i].status \in Open THEN "DROPPED"
                                 ELSE r2[i].status
      BY <2>4, <3>5, ClosedRows
    <3>7. SameAttempts(rows, rows')
      BY <3>4, <3>6, SameTwice
    <3>8. \A i \in DOMAIN rows :
            /\ rows'[i].status = "CONFIRMED" => rows[i].status = "CONFIRMED" \/ receiptOf(i)
            /\ rows[i].status \notin Open => rows'[i].status \notin Open
      BY <2>4, <3>1, <3>2, <3>4, <3>6
    <3> QED BY <1>1, <1>2, <2>1, <2>3, <2>5, <3>7, <3>8
  <2>6. CASE rows' = closed(rows, attempts, "DROPPED") /\ mempool' = mempool
    <3> HIDE DEF attempts
    <3>1. /\ SameAttempts(rows, rows')
          /\ \A i \in DOMAIN rows :
               rows'[i].status = IF i \in attempts /\ rows[i].status \in Open THEN "DROPPED"
                                 ELSE rows[i].status
      BY <1>1, <2>4, <2>6, ClosedRows
    <3> QED BY <1>1, <1>2, <2>1, <2>3, <2>4, <2>6, <3>1
  <2>7. CASE rows' = rows /\ mempool' = mempool
    BY <1>1, <1>2, <1>3, <2>1, <2>3, <2>7
  <2>8. CASE rows' = rows
             /\ \E answer \in Answers : sendRawTransaction(txOf(rows[newest]), answer)
    <3>1. newest \in DOMAIN rows
      <4>1. attempts \subseteq DOMAIN rows /\ attempts \in SUBSET Nat
        BY <1>1
      <4>2. attempts # {}
        <5>1. rec.jobs # {}
          BY <1>1, <1>6 DEF ResolveNonce, RecState
        <5>2. PICK N : N = {rows[i].nonce : i \in rec.jobs}
          OBVIOUS
        <5>4. N \in SUBSET Nat /\ N # {}
          <6>1. \A i \in rec.jobs : rows[i].nonce \in Nat
            BY <1>1 DEF Row
          <6> QED BY <5>1, <5>2, <6>1
        <5>3. Min(N) \in N
          BY <5>4, Least
        <5> QED BY <5>2, <5>3
      <4>3. Len(rows) \in Nat /\ \A k \in attempts : k <= Len(rows)
        BY <1>1, <4>1
      <4> HIDE DEF attempts
      <4> QED BY <4>1, <4>2, <4>3, Greatest
    <3> HIDE DEF newest, attempts
    <3>2. txOf(rows[newest]) \in Tx
      BY <3>1, RowIsTx DEF SenderInv
    <3>3. mempool' \subseteq Tx /\ IsFiniteSet(mempool')
      BY <1>1, <2>8, <3>2, MempoolTyped
    <3> QED BY <1>1, <1>2, <1>3, <2>1, <2>3, <2>8, <3>3
  <2> HIDE DEF hits, attempts, newest, nonce
  <2> QED BY <2>2, <2>5, <2>6, <2>7, <2>8
<1> QED BY <1>4, <1>5, <1>6 DEF Reconciling

-----------------------------------------------------------------------------
(* The theorems.                                                           *)

\* Nothing is recorded, mined or taken up at the start.
LEMMA InitSender ==
  ASSUME Init
  PROVE  SenderInv
<1>1. /\ rows = <<>> /\ mempool = {} /\ mined = <<>> /\ nextNonce = Null /\ todo = Requests
      /\ submit = Idle /\ wait = NotWaiting /\ rec = RecIdle /\ faults = 0
  BY DEF Init
<1>2. /\ Idle \in SubmitState /\ Idle.pc = "idle"
      /\ NotWaiting \in WaitState /\ NotWaiting.pc = "idle"
      /\ RecIdle \in RecState /\ RecIdle.pc = "idle" /\ RecIdle.jobs = {}
  BY DEF Idle, SubmitState, NotWaiting, WaitState, RecIdle, RecState, Answers
<1>3. DOMAIN rows = {} /\ Len(mined) = 0 /\ mined \in Seq(Tx)
      /\ rows \in Seq([nonce : Nat, req : Requests, fee : 1..MaxFee, status : Status])
  BY <1>1
<1>4. Typed
  <2>1. IsFiniteSet(mempool) /\ faults \in 0..MaxFaults
    BY <1>1, SenderConfig, FS_EmptySet
  <2> QED BY <1>1, <1>2, <1>3, <2>1 DEF Typed, TypeOK
<1>5. Distinct /\ Settled /\ TakenOnce /\ Retried /\ Apart
  BY <1>1, <1>2, <1>3 DEF Distinct, Settled, TakenOnce, Retried, Apart
<1> QED BY <1>4, <1>5 DEF SenderInv

\* A step that changes nothing.
LEMMA SenderStutters ==
  ASSUME SenderInv, UNCHANGED vars
  PROVE  SenderInv'
<1>1. /\ rows' = rows /\ mempool' = mempool /\ mined' = mined /\ nextNonce' = nextNonce
      /\ todo' = todo /\ submit' = submit /\ wait' = wait /\ rec' = rec /\ faults' = faults
  BY DEF vars
<1>2. Typed' /\ Apart'
  BY <1>1 DEF SenderInv, Typed, TypeOK, Apart
<1> QED BY <1>1, <1>2, RowsKept

\* Every step of the sender, the reconciler and the node preserves the invariant.
LEMMA NextSender ==
  ASSUME SenderInv, [Next]_vars
  PROVE  SenderInv'
<1>1. CASE Node
  BY <1>1, NodeSteps
<1>2. CASE Submit \/ Allocate
  BY <1>2, TakingUp
<1>3. CASE Persist
  BY <1>3, PersistStep
<1>4. CASE Broadcast
  BY <1>4, BroadcastStep
<1>5. CASE Record
  BY <1>5, RecordStep
<1>6. CASE (\E i \in DOMAIN rows : Wait(i)) \/ GiveUp \/ PollAgain \/ SendReplacement
           \/ Rebroadcast
  BY <1>6, WaitingReads
<1>7. CASE FindMined \/ Retire \/ RecordReplacement \/ NonceTaken
  BY <1>7, WaitingWrites
<1>8. CASE Replace
  BY <1>8, ReplaceStep
<1>9. CASE Reconciling
  BY <1>9, ReconcilingSteps
<1>10. CASE CrashSender \/ CrashReconciler
  BY <1>10, CrashSteps
<1>11. CASE UNCHANGED vars
  BY <1>11, SenderStutters
<1> QED
  BY <1>1, <1>2, <1>3, <1>4, <1>5, <1>6, <1>7, <1>8, <1>9, <1>10, <1>11
  DEF Next, Sending, Waiting

\* However submit(), wait(), the reconciler and the node interleave, and whatever crashes
\* or is lost: no transaction is recorded twice, a confirmed row's own bytes are mined,
\* and the earlier attempts of a submit() that starts over are over for good.
THEOREM SenderInvariant == Spec => []SenderInv
<1>1. Init => SenderInv
  BY InitSender
<1>2. SenderInv /\ [Next]_vars => SenderInv'
  BY NextSender
<1> QED BY <1>1, <1>2, PTL DEF Spec

\* A confirmed row is a mined transaction, and no nonce is confirmed twice, though the
\* sender's writes of an outcome are unguarded: gas is counted for what was paid, once.
THEOREM ConfirmedOnce == Spec => []ConfirmedIsMined
<1>1. SenderInv => ConfirmedIsMined
  <2> SUFFICES ASSUME SenderInv, NEW i \in recompute
               PROVE  /\ receiptOf(i)
                      /\ \A j \in recompute : rows[j].nonce = rows[i].nonce => i = j
    BY DEF ConfirmedIsMined
  <2>1. \A j \in recompute : j \in DOMAIN rows /\ receiptOf(j)
    BY DEF recompute, SenderInv, Settled
  <2>2. ASSUME NEW j \in recompute, rows[j].nonce = rows[i].nonce PROVE i = j
    <3>1. PICK m \in 1..Len(mined) : mined[m] = txOf(rows[i])
      BY <2>1 DEF receiptOf, isMined
    <3>2. PICK n \in 1..Len(mined) : mined[n] = txOf(rows[j])
      BY <2>1 DEF receiptOf, isMined
    <3>3. mined[m].nonce = m - 1 /\ mined[n].nonce = n - 1
      BY DEF SenderInv, Typed, TypeOK
    <3>4. txOf(rows[i]).nonce = txOf(rows[j]).nonce
      BY <2>2 DEF txOf
    <3>5. m = n
      BY <3>1, <3>2, <3>3, <3>4
    <3>6. txOf(rows[i]) = txOf(rows[j])
      BY <3>1, <3>2, <3>5
    <3> QED BY <2>1, <3>6 DEF SenderInv, Distinct
  <2> QED BY <2>1, <2>2
<1> QED BY <1>1, SenderInvariant, PTL

\* allocateNonce leaves no gap below the nonce it gives out: each nonce between the
\* consumed ones and the new one is in the mempool or covered by an open job.
THEOREM NoGapIsOverlooked == Spec => NoGapOverlooked
<1>1. ASSUME SenderInv, [Next]_vars
      PROVE  [ Allocate => \A n \in detectNonceGaps(latest, openNonces \cup {t.nonce : t \in mempool}
                                                     \cup {submit'.nonce}) :
                    n > submit'.nonce ]_vars
  <2> DEFINE known == openNonces \cup {t.nonce : t \in mempool} \cup {submit'.nonce}
  <2> SUFFICES ASSUME Allocate, NEW n \in detectNonceGaps(latest, known)
               PROVE  n > submit'.nonce
    OBVIOUS
  <2>1. submit'.nonce = allocated
    BY <1>1 DEF Allocate, SenderInv, Typed, SubmitState
  <2>2. /\ allocated \in Nat /\ latest \in Nat
        /\ \A k \in latest .. (allocated - 1) :
             (\E t \in mempool : t.nonce = k) \/ k \in openNonces
    <3>1. latest \in Nat
      BY <1>1 DEF latest, SenderInv, Typed, TypeOK
    <3>2. Typed
      BY <1>1 DEF SenderInv
    <3>3. allocated \in Nat /\ \A k \in latest .. (allocated - 1) :
            (\E t \in mempool : t.nonce = k) \/ k \in openNonces
      BY <3>2, AllocatedIs
    <3> QED BY <3>1, <3>3
  <2>3. n \in Int /\ latest <= n /\ n \notin known
    <3> HIDE DEF known
    <3> QED BY <2>2 DEF detectNonceGaps
  <2>4. n \notin latest .. (allocated - 1) /\ n # allocated
    BY <2>1, <2>2, <2>3
  <2> QED BY <2>1, <2>2, <2>3, <2>4
<1> QED BY <1>1, SenderInvariant, PTL DEF Spec, NoGapOverlooked
=============================================================================
