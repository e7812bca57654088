------------------------------ MODULE TxSender -------------------------------
(***************************************************************************)
(* How a service key sends transactions: TxSender.submit and wait (one     *)
(* process), the settlement reconciler (another process, without the key)  *)
(* and the node between them.  They share the TxJob table.                 *)
(*                                                                         *)
(* An await is a point where another process may step: reading the node,   *)
(* writing a row, sending the bytes and recording the answer are separate  *)
(* steps.  Reads in a row (allocateNonce's two, the receipts of one nonce) *)
(* are taken together with the decision they lead to.  A signed            *)
(* transaction is its nonce, request and fee: the same three give the same *)
(* bytes and the same hash.  A fee is a bump level.  Whether a mined       *)
(* transaction reverted is left out: CONFIRMED stands for REVERTED too.    *)
(***************************************************************************)
EXTENDS Integers, Sequences, FiniteSets, SequencesExt, FiniteSetsExt

CONSTANTS
  Requests,     \* what callers ask to send, numbered in the order they ask
  Foreign,      \* a transaction of the key this service did not record
  Null,
  MaxFee,       \* maxFeeCapWei, in bump levels
  MaxRetries,   \* submit's resyncs after "nonce too low"
  MaxRows,      \* bound on the TxJob table
  MaxFaults     \* bound on crashes and foreign transactions

ASSUME SenderConfig ==
  /\ Requests \subseteq Nat /\ Foreign \notin Nat /\ Null \notin Nat
  /\ MaxFee \in Nat \ {0} /\ MaxRetries \in Nat /\ MaxRows \in Nat /\ MaxFaults \in Nat

VARIABLES
  rows,        \* the TxJob table, in insertion order
  mempool,     \* signed transactions the node holds
  mined,       \* mined[n + 1] consumed nonce n
  nextNonce,
  todo,        \* requests no caller has submitted yet
  submit,      \* the running submit()
  wait,        \* the running wait()
  rec,         \* the reconciler's pass over the key
  faults

vars == <<rows, mempool, mined, nextNonce, todo, submit, wait, rec, faults>>
chain == <<mempool, mined>>

Open == {"PENDING", "SUBMITTED"}
Status == Open \cup {"REPLACED", "CONFIRMED", "DROPPED", "FAILED"}
Answers == {"ok", "known", "nonceTooLow", "underpriced", "lost"}
Tx == [nonce : Nat, req : Requests \cup {Foreign}, fee : 1..MaxFee]

TypeOK ==
  /\ rows \in Seq([nonce : Nat, req : Requests, fee : 1..MaxFee, status : Status])
  /\ mempool \subseteq Tx
  /\ mined \in Seq(Tx) /\ \A n \in 1..Len(mined) : mined[n].nonce = n - 1
  /\ nextNonce \in Nat \cup {Null}
  /\ todo \subseteq Requests
  /\ submit.pc \in {"idle", "allocate", "persist", "send", "record"}
  /\ wait.pc \in {"idle", "poll", "act", "retire", "send", "record"}
  /\ rec.pc \in {"idle", "count", "resolve"} /\ rec.jobs \subseteq DOMAIN rows
  /\ faults \in 0..MaxFaults

Idle == [pc |-> "idle", req |-> Null, nonce |-> 0, row |-> 0, attempt |-> 0, answer |-> "ok"]
NotWaiting == [pc |-> "idle", row |-> 0, next |-> 0, answer |-> "ok"]
RecIdle == [pc |-> "idle", jobs |-> {}, minedNonce |-> 0]

Init ==
  /\ rows = <<>> /\ mempool = {} /\ mined = <<>>
  /\ nextNonce = Null /\ todo = Requests
  /\ submit = Idle /\ wait = NotWaiting /\ rec = RecIdle
  /\ faults = 0

-----------------------------------------------------------------------------
(* The node.                                                               *)

txOf(r) == [nonce |-> r.nonce, req |-> r.req, fee |-> r.fee]
isMined(t) == \E n \in 1..Len(mined) : mined[n] = t

\* getTransactionReceipt and getTransaction, by the hash of an attempt.
receiptOf(i) == isMined(txOf(rows[i]))
inMempool(i) == txOf(rows[i]) \in mempool

\* getTransactionCount: mined, and mined or next in line in the mempool.
latest == Len(mined)
pending ==
  CHOOSE n \in latest .. (latest + Cardinality(mempool)) :
    /\ \A k \in latest .. (n - 1) : \E t \in mempool : t.nonce = k
    /\ ~ \E t \in mempool : t.nonce = n

answerTo(t) ==
  CASE t.nonce < latest -> "nonceTooLow"
    [] t \in mempool -> "known"
    [] t.nonce >= latest /\ \E u \in mempool \ {t} : u.nonce = t.nonce /\ u.fee >= t.fee
         -> "underpriced"
    [] OTHER -> "ok"

accepted(t) == {u \in mempool : u.nonce # t.nonce} \cup {t}

\* sendRawTransaction: the answer may be lost, before or after the node acted on it.
sendRawTransaction(t, answer) ==
  \/ /\ answer = answerTo(t)
     /\ mempool' = IF answer = "ok" THEN accepted(t) ELSE mempool
  \/ /\ answer = "lost"
     /\ mempool' \in {mempool, IF answerTo(t) = "ok" THEN accepted(t) ELSE mempool}

Mine ==
  /\ \E t \in mempool :
       /\ t.nonce = latest
       /\ mined' = Append(mined, t)
       /\ mempool' = mempool \ {t}
  /\ UNCHANGED <<rows, nextNonce, todo, submit, wait, rec, faults>>

Evict ==
  /\ \E t \in mempool : mempool' = mempool \ {t}
  /\ UNCHANGED <<rows, mined, nextNonce, todo, submit, wait, rec, faults>>

\* Another process used the key.
ForeignTx ==
  /\ faults < MaxFaults
  /\ faults' = faults + 1
  /\ mined' = Append(mined, [nonce |-> latest, req |-> Foreign, fee |-> 1])
  /\ mempool' = {t \in mempool : t.nonce # latest}
  /\ UNCHANGED <<rows, nextNonce, todo, submit, wait, rec>>

-----------------------------------------------------------------------------
(* The TxJob table.                                                        *)

openJobs == {i \in DOMAIN rows : rows[i].status \in Open}
openNonces == {rows[i].nonce : i \in openJobs}
byNonce(nonce) == {i \in DOMAIN rows : rows[i].nonce = nonce}

\* The unique index on a transaction's hash: the second insert of one throws.
recorded(t) == \E i \in DOMAIN rows : txOf(rows[i]) = t

insert(t) ==
  /\ Len(rows) < MaxRows
  /\ rows' = Append(rows, [nonce |-> t.nonce, req |-> t.req, fee |-> t.fee, status |-> "PENDING"])
update(i, status) == rows' = [rows EXCEPT ![i].status = status]

\* The rows with those of S that are still open moved to a status.
closed(table, S, status) ==
  [i \in DOMAIN table |->
     IF i \in S /\ table[i].status \in Open THEN [table[i] EXCEPT !.status = status]
     ELSE table[i]]

\* Mutant: every attempt at the nonce is taken for the mined one.
recordMinedAll(i) ==
  closed(rows, byNonce(rows[i].nonce), "CONFIRMED")

\* findMined on attempt i: record its receipt, drop the other open attempts.
recordMined(i) ==
  [closed(rows, byNonce(rows[i].nonce) \ {i}, "DROPPED") EXCEPT ![i].status = "CONFIRMED"]

\* GasSpendRollup: the attempts the daily gas spend is recomputed from.
recompute == {i \in DOMAIN rows : rows[i].status = "CONFIRMED"}

\* The nonces below the highest open one that no open job covers.
detectNonceGaps(minedNonce, nonces) ==
  {n \in minedNonce .. (Max(nonces \cup {minedNonce}) - 1) : n \notin nonces}

\* The fees of a first attempt, and of the attempt that replaces one.
initialFees == 1
bump(fee) == fee + 1

broadcastStatus(answer) ==
  CASE answer \in {"ok", "known"} -> "SUBMITTED"
    [] answer = "nonceTooLow" -> "DROPPED"
    [] OTHER -> "FAILED"

-----------------------------------------------------------------------------
(* submit(), one at a time (exclusive).                                    *)

Submit ==
  /\ submit.pc = "idle" /\ todo # {}
  /\ submit' = [Idle EXCEPT !.pc = "allocate", !.req = Min(todo)]
  /\ todo' = todo \ {Min(todo)}
  /\ UNCHANGED <<rows, chain, nextNonce, wait, rec, faults>>

\* Mutant: gaps are never filled.
allocatedNoGaps ==
  IF nextNonce = Null \/ pending > nextNonce THEN pending ELSE nextNonce

\* allocateNonce's result: the lowest nonce nobody has in flight.
allocated ==
  IF nextNonce = Null \/ pending > nextNonce THEN pending
  ELSE LET gaps == (pending .. (nextNonce - 1)) \ openNonces
       IN  IF gaps = {} THEN nextNonce ELSE Min(gaps)

Allocate ==
  /\ submit.pc = "allocate"
  /\ submit' = [submit EXCEPT !.pc = "persist", !.nonce = allocated]
  /\ nextNonce' = IF nextNonce = Null \/ pending > nextNonce THEN pending ELSE nextNonce
  /\ UNCHANGED <<rows, chain, todo, wait, rec, faults>>

Persist ==
  /\ submit.pc = "persist"
  /\ insert([nonce |-> submit.nonce, req |-> submit.req, fee |-> initialFees])
  /\ submit' = [submit EXCEPT !.pc = "send", !.row = Len(rows')]
  /\ UNCHANGED <<chain, nextNonce, todo, wait, rec, faults>>

Broadcast ==
  /\ submit.pc = "send"
  /\ \E answer \in Answers :
       /\ sendRawTransaction(txOf(rows[submit.row]), answer)
       /\ submit' = [submit EXCEPT !.pc = "record", !.answer = answer]
  /\ UNCHANGED <<rows, mined, nextNonce, todo, wait, rec, faults>>

\* broadcast's write, and what submit makes of the answer: done, resync, or throw.
Record ==
  /\ submit.pc = "record"
  /\ update(submit.row, broadcastStatus(submit.answer))
  /\ CASE submit.answer \in {"ok", "known"} ->
            /\ nextNonce' = IF nextNonce = Null \/ submit.nonce + 1 > nextNonce
                            THEN submit.nonce + 1 ELSE nextNonce
            /\ submit' = Idle
       [] submit.answer = "nonceTooLow" /\ submit.attempt < MaxRetries ->
            /\ nextNonce' = Null
            /\ submit' = [submit EXCEPT !.pc = "allocate", !.attempt = @ + 1]
       [] OTHER -> submit' = Idle /\ UNCHANGED nextNonce
  /\ UNCHANGED <<chain, todo, wait, rec, faults>>

-----------------------------------------------------------------------------
(* wait(): poll for a receipt, replace, rebroadcast or give up.            *)

\* recoverOpenJobs: the newest open attempt at each nonce, which is also what submit
\* returned to a caller that goes on to wait for it.
newestOpen == {i \in openJobs : \A j \in openJobs : rows[j].nonce = rows[i].nonce => j <= i}

Wait(i) ==
  /\ wait.pc = "idle"
  /\ i \in newestOpen /\ (submit.pc # "idle" => i # submit.row)
  /\ wait' = [NotWaiting EXCEPT !.pc = "poll", !.row = i]
  /\ UNCHANGED <<rows, chain, nextNonce, todo, submit, rec, faults>>

FindMined ==
  /\ wait.pc = "poll"
  /\ LET hits == {i \in byNonce(rows[wait.row].nonce) : receiptOf(i)}
     IN  IF hits # {}
         THEN rows' = recordMined(Min(hits)) /\ wait' = NotWaiting
         ELSE wait' = [wait EXCEPT !.pc = "act"] /\ UNCHANGED rows
  /\ UNCHANGED <<chain, nextNonce, todo, submit, rec, faults>>

\* waitTimeoutMs: the job stays as it is.
GiveUp ==
  /\ wait.pc = "act"
  /\ wait' = NotWaiting
  /\ UNCHANGED <<rows, chain, nextNonce, todo, submit, rec, faults>>

PollAgain ==
  /\ wait.pc = "act"
  /\ wait' = [wait EXCEPT !.pc = "poll"]
  /\ UNCHANGED <<rows, chain, nextNonce, todo, submit, rec, faults>>

\* replace: same nonce, same request, a higher fee.  An attempt with these very bytes is
\* refused by the unique index, and wait() throws.
Replace ==
  /\ wait.pc = "act"
  /\ LET job == rows[wait.row]
         next == [txOf(job) EXCEPT !.fee = bump(job.fee)]
     IN  /\ next.fee <= MaxFee
         /\ IF recorded(next) THEN wait' = NotWaiting /\ UNCHANGED rows
            ELSE insert(next) /\ wait' = [wait EXCEPT !.pc = "retire", !.next = Len(rows')]
  /\ UNCHANGED <<chain, nextNonce, todo, submit, rec, faults>>

Retire ==
  /\ wait.pc = "retire"
  /\ update(wait.row, "REPLACED")
  /\ wait' = [wait EXCEPT !.pc = "send"]
  /\ UNCHANGED <<chain, nextNonce, todo, submit, rec, faults>>

SendReplacement ==
  /\ wait.pc = "send"
  /\ \E answer \in Answers :
       /\ sendRawTransaction(txOf(rows[wait.next]), answer)
       /\ wait' = [wait EXCEPT !.pc = "record", !.answer = answer]
  /\ UNCHANGED <<rows, mined, nextNonce, todo, submit, rec, faults>>

\* Underpriced and nonce too low go on with the new row; other errors are thrown.
RecordReplacement ==
  /\ wait.pc = "record"
  /\ update(wait.next, broadcastStatus(wait.answer))
  /\ wait' = IF wait.answer = "lost" THEN NotWaiting
             ELSE [NotWaiting EXCEPT !.pc = "poll", !.row = wait.next]
  /\ UNCHANGED <<chain, nextNonce, todo, submit, rec, faults>>

\* assertNonceNotTaken failed: none of our attempts consumed the nonce.
NonceTaken ==
  /\ wait.pc = "act"
  /\ LET nonce == rows[wait.row].nonce
     IN  /\ nonce < latest
         /\ \A i \in byNonce(nonce) : ~receiptOf(i)
         /\ rows' = closed(rows, byNonce(nonce), "DROPPED")
  /\ wait' = NotWaiting
  /\ UNCHANGED <<chain, nextNonce, todo, submit, rec, faults>>

\* The same bytes again, after three seconds or at the fee cap.
Rebroadcast ==
  /\ wait.pc = "act"
  /\ \E answer \in Answers :
       /\ sendRawTransaction(txOf(rows[wait.row]), answer)
       /\ wait' = IF answer = "lost" THEN NotWaiting ELSE [wait EXCEPT !.pc = "poll"]
  /\ UNCHANGED <<rows, mined, nextNonce, todo, submit, rec, faults>>

-----------------------------------------------------------------------------
(* reconcileKey, in a process of its own.                                  *)

ReadOpenJobs ==
  /\ rec.pc = "idle" /\ openJobs # {}
  /\ rec' = [RecIdle EXCEPT !.pc = "count", !.jobs = openJobs]
  /\ UNCHANGED <<rows, chain, nextNonce, todo, submit, wait, faults>>

ReadMinedNonce ==
  /\ rec.pc = "count"
  /\ rec' = [rec EXCEPT !.pc = "resolve", !.minedNonce = latest]
  /\ UNCHANGED <<rows, chain, nextNonce, todo, submit, wait, faults>>

\* Mutant: a nonce taken by something else is left alone.
dropConsumedNever(nonce) == FALSE

dropConsumed(nonce) == rec.minedNonce > nonce

\* resolveNonce on the lowest nonce left, over the attempts read as open.
ResolveNonce ==
  /\ rec.pc = "resolve"
  /\ LET nonce == Min({rows[i].nonce : i \in rec.jobs})
         attempts == {i \in rec.jobs : rows[i].nonce = nonce}
         newest == Max(attempts)
         hits == {i \in attempts : receiptOf(i)}
     IN  /\ rec' = IF rec.jobs = attempts THEN RecIdle
                   ELSE [rec EXCEPT !.jobs = @ \ attempts]
         /\ \/ /\ hits # {}
               /\ rows' = closed(closed(rows, {Min(hits)}, "CONFIRMED"), attempts, "DROPPED")
               /\ UNCHANGED mempool
            \/ /\ hits = {} /\ dropConsumed(nonce)
               /\ rows' = closed(rows, attempts, "DROPPED")
               /\ UNCHANGED mempool
            \/ /\ hits = {} /\ ~dropConsumed(nonce)
               /\ IF inMempool(newest) THEN UNCHANGED mempool
                  ELSE \E answer \in Answers : sendRawTransaction(txOf(rows[newest]), answer)
               /\ UNCHANGED rows
  /\ UNCHANGED <<mined, nextNonce, todo, submit, wait, faults>>

-----------------------------------------------------------------------------
\* The service loses everything but the table; what it had read is gone.
CrashSender ==
  /\ faults < MaxFaults
  /\ faults' = faults + 1
  /\ nextNonce' = Null /\ submit' = Idle /\ wait' = NotWaiting
  /\ UNCHANGED <<rows, chain, todo, rec>>

CrashReconciler ==
  /\ faults < MaxFaults /\ rec.pc # "idle"
  /\ faults' = faults + 1
  /\ rec' = RecIdle
  /\ UNCHANGED <<rows, chain, nextNonce, todo, submit, wait>>

Node == Mine \/ Evict \/ ForeignTx

Sending ==
  \/ Submit
  \/ Allocate
  \/ Persist
  \/ Broadcast
  \/ Record

Waiting ==
  \/ \E i \in DOMAIN rows : Wait(i)
  \/ FindMined
  \/ GiveUp
  \/ PollAgain
  \/ Replace
  \/ Retire
  \/ SendReplacement
  \/ RecordReplacement
  \/ NonceTaken
  \/ Rebroadcast

Reconciling == ReadOpenJobs \/ ReadMinedNonce \/ ResolveNonce

Next == Node \/ Sending \/ Waiting \/ Reconciling \/ CrashSender \/ CrashReconciler

\* The reconciler runs on a timer, and a service does not stop between an answer and
\* its record unless it crashes.
Fairness == WF_vars(Reconciling) /\ WF_vars(Record) /\ WF_vars(RecordReplacement)

Spec == Init /\ [][Next]_vars /\ Fairness

-----------------------------------------------------------------------------

\* A confirmed row is a mined transaction, and a nonce is confirmed for one row only,
\* though sender and reconciler both write outcomes and the sender writes them unguarded:
\* the daily gas spend counts no attempt that was never paid for, and none twice.
ConfirmedIsMined ==
  \A i \in recompute :
    /\ receiptOf(i)
    /\ \A j \in recompute : rows[j].nonce = rows[i].nonce => i = j

\* A new nonce is allocated only where nothing below it is missing: a nonce the node
\* has not seen and no open job covers would block everything above it.
NoGapOverlooked ==
  [][ Allocate => \A n \in detectNonceGaps(latest, openNonces \cup {t.nonce : t \in mempool}
                                                     \cup {submit'.nonce}) :
                    n > submit'.nonce ]_vars

\* Once its nonce is consumed, no job stays open for ever: again and again none is, for
\* the reconciler settles it even if the service that sent it crashed or gave up.
JobsDrain == []<>(\A i \in openJobs : rows[i].nonce >= latest)
=============================================================================
