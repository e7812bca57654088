------------------------------ MODULE Matcher ------------------------------
(***************************************************************************)
(* Settlement off chain (client/lib/matcher): the matcher reserves size by *)
(* writing PENDING fills, sends a batch, waits and applies the receipt;    *)
(* after a crash it recovers from the two tables.  Beside it run the       *)
(* indexer, the only writer of a fill's outcome, the reconciler of jobs,   *)
(* and the chain.  Volatile state is `matcher`; everything else survives.  *)
(*                                                                         *)
(* A step ends at each await that writes or sends; reads in a row are      *)
(* taken together.  Which pairs match is any choice that respects the      *)
(* remaining sizes (priority and bands only leave matches out).            *)
(* The sender is what TxSender promises: one nonce, a job per batch, which *)
(* may be mined, refused, evicted or displaced by another transaction.     *)
(***************************************************************************)
EXTENDS Naturals, Sequences, SequencesExt, FiniteSets, FiniteSetsExt, TLC

CONSTANTS
  Makers,       \* resting orders
  Takers,       \* orders on the other side
  OrderSize,    \* the signed size of each order
  NoJob,        \* a null txJobId
  MaxJobs,      \* bound: jobs written
  MaxFaults,    \* bound: crashes of the matcher and failed database or node calls
  Mortal,       \* bound: the orders that may die or be withdrawn
  MaxEnds       \* bound: deaths, withdrawals and signatures turned down

Orders == Makers \cup Takers

ASSUME Book ==
  /\ Makers \cap Takers = {}
  /\ OrderSize \in [Orders -> Nat \ {0}]
  /\ MaxJobs \in Nat /\ MaxFaults \in Nat /\ MaxEnds \in Nat
  /\ NoJob \notin 1..MaxJobs
  /\ Mortal \subseteq Orders

VARIABLES
  fills,     \* the Fill table: rows by fill id
  orders,    \* the Order table
  jobs,      \* the TxJob table, each job with the state of its transaction
  filled,    \* OrderGateway.filled
  dead,      \* why the gateway refuses an order for good, if it does
  signature, \* what the owner's wallet says of an order's signature, and has said
  log,       \* the gateway's events
  cursor,    \* how many of them the indexer has applied
  matcher,   \* the matcher's memory
  withdrawn, \* orders their owner cancelled off chain
  faults,    \* counts faults
  gaveUp     \* history: a reservation was dropped before its outcome was known, or
             \* never written because its id was taken

vars == <<fills, orders, jobs, filled, dead, signature, log, cursor, matcher, withdrawn, faults, gaveUp>>

\* deriveFillId: the id is the fill's terms and a sequence number, so equal terms
\* and an equal number are the same id.
FillId == [maker : Makers, taker : Takers, size : Nat, sequence : Nat]

Row == [ status : {"PENDING", "SETTLED", "REJECTED"}, rejectReason : BOOLEAN,
         txJobId : (1..MaxJobs) \cup {NoJob} ]

TRADEABLE == {"OPEN", "PARTIALLY_FILLED"}

\* Why an order is dead: past its expiry, cancelled alone or up to a nonce.
Cause == {"none", "expired", "cancelled", "upTo"}

\* A contract wallet (ERC-1271) may turn a signature down and accept it again: one that
\* has always stood, one that is turned down, one that stands again.
Signature == {"good", "bad", "restored"}

\* The errors of a FillRejected event; "retryable" is any other.
POISON == {"OrderExpired", "OrderCancelled", "InvalidSignature"}
Rejection == [fill : FillId, errorName : POISON \cup {"retryable"}]

Job == [ status : {"OPEN", "CONFIRMED", "REVERTED", "DROPPED", "FAILED"},
         tx     : {"unsent", "mempool", "success", "reverted", "displaced"},
         batch  : Seq(FillId),
         rejected : Seq(Rejection) ]

\* down; recover, orphans: run()'s recovery; idle; offer, submit, link, undo: the
\* batches of a tick; wait, apply, reverted: awaitAndApply and what follows.
Matcher == [ pc : {"down", "recover", "orphans", "idle", "offer", "submit", "link",
                   "undo", "wait", "apply", "reverted"},
             recovering : BOOLEAN,
             queue : Seq(Seq(FillId)),
             batch : Seq(FillId),
             job   : (1..MaxJobs) \cup {NoJob},
             rejected : Seq(Rejection),
             todo    : SUBSET (1..MaxJobs),
             release : SUBSET FillId,
             held    : SUBSET Orders ]

Down == [ pc |-> "down", recovering |-> FALSE, queue |-> <<>>, batch |-> <<>>,
          job |-> NoJob, rejected |-> <<>>, todo |-> {}, release |-> {}, held |-> {} ]

Init ==
  /\ fills = <<>>
  /\ orders = [o \in Orders |-> [status |-> "OPEN", filledSize |-> 0]]
  /\ jobs = <<>>
  /\ filled = [o \in Orders |-> 0]
  /\ dead = [o \in Orders |-> "none"]
  /\ signature = [o \in Orders |-> "good"]
  /\ withdrawn = {}
  /\ log = <<>>
  /\ cursor = 0
  /\ matcher = Down
  /\ faults = 0
  /\ gaveUp = FALSE

-----------------------------------------------------------------------------
(* The tables.                                                             *)

sides(f) == {f.maker, f.taker}
sizeOf(S) == MapThenSumSet(LAMBDA f : f.size, S)
pending(f) == f \in DOMAIN fills /\ fills[f].status = "PENDING"

\* pendingReservationSql: what reserves size on an order.
reserving == {f \in DOMAIN fills : pending(f) /\ ~fills[f].rejectReason}
reserved(o) == sizeOf({f \in reserving : o \in sides(f)})

\* Mutant: the book forgets the reservations.
remainingUnreserved(o) ==
  IF orders[o].status \in TRADEABLE /\ dead[o] # "expired"
  THEN OrderSize[o] - orders[o].filledSize ELSE 0

\* loadOrders: what is left of an order to match.
remaining(o) ==
  IF orders[o].status \in TRADEABLE /\ dead[o] # "expired"
  THEN Max({0, OrderSize[o] - orders[o].filledSize - reserved(o)}) ELSE 0

settledSizeFor(o) == sizeOf({f \in DOMAIN fills : fills[f].status = "SETTLED" /\ o \in sides(f)})

\* releasePendingFills: delete the rows that are still PENDING.
without(S) == [f \in DOMAIN fills \ {g \in S : pending(g)} |-> fills[f]]

\* persistPendingFills: insert, on conflict do nothing.
with(S) ==
  [f \in DOMAIN fills \cup S |->
     IF f \in DOMAIN fills THEN fills[f]
     ELSE [status |-> "PENDING", rejectReason |-> FALSE, txJobId |-> NoJob]]

\* linkFillsToJob.
linked(S, j) ==
  [f \in DOMAIN fills |-> IF f \in S /\ pending(f) THEN [fills[f] EXCEPT !.txJobId = j]
                          ELSE fills[f]]

-----------------------------------------------------------------------------
(* A tick: match, reserve, send.                                           *)

\* One match among orders with `rem` left, with its id: the sequence number counts
\* the rows of the same terms (priorFillCounts).
matchesIn(rem) ==
  { [ maker |-> p[1], taker |-> p[2], size |-> Min({rem[p[1]], rem[p[2]]}),
      sequence |-> Cardinality({f \in DOMAIN fills :
                      /\ f.maker = p[1] /\ f.taker = p[2]
                      /\ f.size = Min({rem[p[1]], rem[p[2]]})}) ]
    : p \in {q \in Makers \X Takers : rem[q[1]] > 0 /\ rem[q[2]] > 0} }

after(rem, f) == [o \in Orders |-> IF o \in sides(f) THEN rem[o] - f.size ELSE rem[o]]

\* matchOrders and buildFills, one or two fills; orders cooling down stay out.
plans(cooling) ==
  LET rem == [o \in Orders |-> IF o \in cooling THEN 0 ELSE remaining(o)]
  IN  { <<f>> : f \in matchesIn(rem) }
      \cup UNION { {<<f, g>> : g \in matchesIn(after(rem, f))} : f \in matchesIn(rem) }

\* sizeBatches: whole, or halved when the estimate is over the gas budget.
sizings(plan) == {<<plan>>} \cup (IF Len(plan) > 1 THEN {<<<<plan[1]>>, <<plan[2]>>>>} ELSE {})

\* blocked: the held orders whose wait is not over.  The waits double with each
\* strike; any of them may be over by now.
blocked == SUBSET matcher.held

Tick ==
  /\ matcher.pc = "idle"
  /\ Len(jobs) < MaxJobs
  /\ \E cooling \in blocked : \E plan \in plans(cooling) : \E queue \in sizings(plan) :
       matcher' = [matcher EXCEPT !.pc = "offer", !.queue = queue, !.held = cooling]
  /\ UNCHANGED <<fills, orders, jobs, filled, dead, signature, log, cursor, withdrawn, faults, gaveUp>>

\* settle: reserve the next batch, in one database transaction.  The number in an id
\* counts rows, and goes down when one is released: an id may be that of a row which is
\* still there, which then stands for two fills.
Reserve ==
  /\ matcher.pc = "offer"
  /\ matcher.queue # <<>>
  /\ fills' = with(ToSet(Head(matcher.queue)))
  /\ gaveUp' = (gaveUp \/ \E f \in ToSet(Head(matcher.queue)) : f \in DOMAIN fills)
  /\ matcher' = [matcher EXCEPT !.pc = "submit", !.batch = Head(matcher.queue),
                               !.queue = Tail(@)]
  /\ UNCHANGED <<orders, jobs, filled, dead, signature, log, cursor, withdrawn, faults>>

\* sender.submit took the batch: the row is written and the node has the transaction.
submitted(status, tx) ==
  Append(jobs, [status |-> status, tx |-> tx, batch |-> matcher.batch, rejected |-> <<>>])

Submit ==
  /\ matcher.pc = "submit"
  /\ Len(jobs) < MaxJobs
  /\ jobs' = submitted("OPEN", "mempool")
  /\ matcher' = [matcher EXCEPT !.pc = "link", !.job = Len(jobs')]
  /\ UNCHANGED <<fills, orders, filled, dead, signature, log, cursor, withdrawn, faults, gaveUp>>

\* sender.submit throws: the node refused the transaction, or took it and the answer
\* was lost.
SubmitFails ==
  /\ matcher.pc = "submit"
  /\ Len(jobs) < MaxJobs
  /\ \E tx \in {"unsent", "mempool"} :
       /\ jobs' = submitted("FAILED", tx)
       /\ gaveUp' = (gaveUp \/ tx = "mempool")
  /\ matcher' = [matcher EXCEPT !.pc = "undo"]
  /\ UNCHANGED <<fills, orders, filled, dead, signature, log, cursor, withdrawn, faults>>

\* submitBatch's catch takes the reservation back; the exception ends the tick.
Undo ==
  /\ matcher.pc = "undo"
  /\ fills' = without(ToSet(matcher.batch))
  /\ matcher' = [Down EXCEPT !.pc = "idle", !.held = matcher.held]
  /\ UNCHANGED <<orders, jobs, filled, dead, signature, log, cursor, withdrawn, faults, gaveUp>>

\* linkFillsToJob, then wait.
Link ==
  /\ matcher.pc = "link"
  /\ fills' = linked(ToSet(matcher.batch), matcher.job)
  /\ matcher' = [matcher EXCEPT !.pc = "wait"]
  /\ UNCHANGED <<orders, jobs, filled, dead, signature, log, cursor, withdrawn, faults, gaveUp>>

-----------------------------------------------------------------------------
(* awaitAndApply, in a tick and in recovery.                               *)

\* Where the caller goes on once a batch is done with, its queue being `queue`.
carryOn(queue) ==
  [Down EXCEPT !.pc = IF matcher.recovering THEN "recover"
                      ELSE IF queue = <<>> THEN "idle" ELSE "offer",
               !.recovering = matcher.recovering,
               !.queue = queue, !.todo = matcher.todo, !.held = matcher.held]

\* wait records the outcome on the job (findMined, assertNonceNotTaken).
recorded(j, status) == [jobs EXCEPT ![j].status = status]

\* The receipt: a success is applied if the batch has fills; a revert goes back to
\* settle, which releases, or to recover, which does not look at it.
Mined ==
  LET j == matcher.job IN
  /\ matcher.pc = "wait"
  /\ \/ /\ jobs[j].tx = "success"
        /\ jobs' = recorded(j, "CONFIRMED")
        /\ matcher' = IF matcher.batch = <<>> THEN carryOn(matcher.queue)
                      ELSE [matcher EXCEPT !.pc = "apply", !.rejected = jobs[j].rejected]
     \/ /\ jobs[j].tx = "reverted"
        /\ jobs' = recorded(j, "REVERTED")
        /\ matcher' = IF matcher.recovering THEN carryOn(<<>>)
                      ELSE [matcher EXCEPT !.pc = "reverted"]
  /\ UNCHANGED <<fills, orders, filled, dead, signature, log, cursor, withdrawn, faults, gaveUp>>

\* TxTimeoutError: the job stays open with its fills reserved.
TimedOut ==
  /\ matcher.pc = "wait"
  /\ jobs[matcher.job].tx \in {"unsent", "mempool"}
  /\ matcher' = carryOn(matcher.queue)
  /\ UNCHANGED <<fills, orders, jobs, filled, dead, signature, log, cursor, withdrawn, faults, gaveUp>>

\* TxDroppedError: it ends the tick, or the process if it was recovering.
NonceTaken ==
  /\ matcher.pc = "wait"
  /\ jobs[matcher.job].tx = "displaced"
  /\ jobs' = recorded(matcher.job, "DROPPED")
  /\ matcher' = IF matcher.recovering THEN Down
              ELSE [Down EXCEPT !.pc = "idle", !.held = matcher.held]
  /\ UNCHANGED <<fills, orders, filled, dead, signature, log, cursor, withdrawn, faults, gaveUp>>

\* Mutant: both orders of a rejected fill are retired.
blameBoth(f, errorName) == {sides(f)}

\* blameForPoison: the sets of orders that may be blamed.  Expiry and the minimum
\* nonce are decided from what is on record; the latter only once the indexer knows
\* it.  The wallet is asked about the signature now, whatever it told the gateway then,
\* and no answer clears the order.
blameForPoison(f, errorName) ==
  CASE errorName = "OrderExpired" -> {{o \in sides(f) : dead[o] = "expired"}}
    [] errorName = "OrderCancelled" ->
         {{o \in sides(f) : \E i \in 1..cursor : log[i] = [kind |-> "NoncesCancelledUpTo", of |-> o]}}
    [] errorName = "InvalidSignature" -> SUBSET {o \in sides(f) : signature[o] = "bad"}
    [] OTHER -> {{}}

\* applyBatchResult, one rejection: the reason on a row still PENDING, and the
\* blamed orders of a fill in the batch retired (CANCELLED stands for EXPIRED too).
Apply ==
  /\ matcher.pc = "apply"
  /\ matcher.rejected # <<>>
  /\ LET f == Head(matcher.rejected).fill
         errorName == Head(matcher.rejected).errorName IN
       /\ fills' = IF pending(f) THEN [fills EXCEPT ![f].rejectReason = TRUE] ELSE fills
       /\ \E blamed \in blameForPoison(f, errorName) :
            orders' = [o \in Orders |->
              IF o \in blamed /\ f \in ToSet(matcher.batch) /\ orders[o].status \in TRADEABLE
              THEN [orders[o] EXCEPT !.status = "CANCELLED"] ELSE orders[o]]
  /\ matcher' = [matcher EXCEPT !.rejected = Tail(@)]
  /\ UNCHANGED <<jobs, filled, dead, signature, log, cursor, withdrawn, faults, gaveUp>>

\* recordRejectionBackoff: the orders a retryable rejection of this batch is about ...
recordRejectionBackoff(rejected) ==
  UNION {sides(r.fill) : r \in {x \in rejected : /\ x.errorName = "retryable"
                                                 /\ x.fill \in ToSet(matcher.batch)}}

\* ... are held for a while ...
strike(held, struck) == held \cup struck

\* ... and a fill that settled clears both of its orders.
cleared(held, settled) == held \ UNION {sides(f) : f \in settled}

Applied ==
  /\ matcher.pc = "apply"
  /\ matcher.rejected = <<>>
  /\ LET rejected == ToSet(jobs[matcher.job].rejected)
         settled  == ToSet(matcher.batch) \ {r.fill : r \in rejected}
     IN  matcher' = [carryOn(matcher.queue) EXCEPT
                       !.held = cleared(strike(@, recordRejectionBackoff(rejected)), settled)]
  /\ UNCHANGED <<fills, orders, jobs, filled, dead, signature, log, cursor, withdrawn, faults, gaveUp>>

\* What the replay of a reverted batch answers, null when it has no answer.
revertReasonFor == {"InsufficientBatchGas", "null"}

halveAfterGasRevert(batch) ==
  IF Len(batch) < 2 THEN <<>> ELSE <<<<batch[1]>>, <<batch[2]>>>>

\* settle after a revert: release, and offer the halves if the replay says that gas
\* was short and there is something to halve.
ReleaseReverted ==
  /\ matcher.pc = "reverted"
  /\ fills' = without(ToSet(matcher.batch))
  /\ \E errorName \in revertReasonFor :
       matcher' = carryOn((IF errorName = "InsufficientBatchGas"
                           THEN halveAfterGasRevert(matcher.batch) ELSE <<>>) \o matcher.queue)
  /\ UNCHANGED <<orders, jobs, filled, dead, signature, log, cursor, withdrawn, faults, gaveUp>>

-----------------------------------------------------------------------------
(* Crash and recovery.                                                     *)

\* A crash loses the memory.  Inside submit the row may be written and not sent.
Crash ==
  /\ matcher.pc # "down"
  /\ faults < MaxFaults
  /\ faults' = faults + 1
  /\ matcher' = Down
  /\ jobs' \in {jobs} \cup (IF matcher.pc = "submit" /\ Len(jobs) < MaxJobs
                            THEN {submitted("OPEN", "unsent")} ELSE {})
  /\ UNCHANGED <<fills, orders, filled, dead, signature, log, cursor, withdrawn, gaveUp>>

\* A call of the database or of the node fails.  It ends the tick with what was written
\* so far; in recovery it ends the process, which is a crash.
Fails ==
  /\ matcher.pc \in {"offer", "link", "undo", "wait", "apply", "reverted"}
  /\ ~matcher.recovering
  /\ faults < MaxFaults
  /\ faults' = faults + 1
  /\ matcher' = [Down EXCEPT !.pc = "idle", !.held = matcher.held]
  /\ UNCHANGED <<fills, orders, jobs, filled, dead, signature, log, cursor, withdrawn, gaveUp>>

\* run: recover() begins with the open jobs.
Start ==
  /\ matcher.pc = "down"
  /\ matcher' = [Down EXCEPT !.pc = "recover", !.recovering = TRUE,
                             !.todo = {j \in DOMAIN jobs : jobs[j].status = "OPEN"}]
  /\ UNCHANGED <<fills, orders, jobs, filled, dead, signature, log, cursor, withdrawn, faults, gaveUp>>

\* The PENDING fills that point at a job (in recovery their order plays no part).
fillsForJob(j) == SetToSeq({f \in DOMAIN fills : pending(f) /\ fills[f].txJobId = j})

\* The next open job, with its fills.
RecoverJob ==
  /\ matcher.pc = "recover"
  /\ matcher.todo # {}
  /\ LET j == Min(matcher.todo)
     IN  matcher' = [matcher EXCEPT
           !.pc = "wait", !.job = j, !.todo = @ \ {j}, !.batch = fillsForJob(j)]
  /\ UNCHANGED <<fills, orders, jobs, filled, dead, signature, log, cursor, withdrawn, faults, gaveUp>>

\* PENDING fills of no job, or of a job that ended DROPPED or FAILED.
orphans ==
  {f \in DOMAIN fills : /\ pending(f)
                        /\ \/ fills[f].txJobId = NoJob
                           \/ jobs[fills[f].txJobId].status \in {"DROPPED", "FAILED"}}

\* A batch that may still be mined.
live(j) == jobs[j].tx = "mempool" \/ (jobs[j].tx = "unsent" /\ jobs[j].status = "OPEN")

\* The outcome of a fill is open, or on its way to the indexer: its batch may still
\* be mined, or its event is not applied.
undecided(f) ==
  \/ \E j \in DOMAIN jobs : live(j) /\ f \in ToSet(jobs[j].batch)
  \/ \E i \in (cursor + 1)..Len(log) : log[i].of = f

\* The chain's filled size has no room for f beside what is recorded as settled.
neverLanded(f) == filled[f.maker] < settledSizeFor(f.maker) + f.size

\* reconcileOrphanFills reads, for the orphans past the grace period.
ScanOrphans ==
  /\ matcher.pc = "recover"
  /\ matcher.todo = {}
  /\ \E old \in SUBSET orphans :
       matcher' = [matcher EXCEPT !.pc = "orphans", !.release = {f \in old : neverLanded(f)}]
  /\ gaveUp' = (gaveUp \/ \E f \in matcher'.release : undecided(f))
  /\ UNCHANGED <<fills, orders, jobs, filled, dead, signature, log, cursor, withdrawn, faults>>

\* ... and releases; the first tick follows.
ReleaseOrphans ==
  /\ matcher.pc = "orphans"
  /\ fills' = without(matcher.release)
  /\ matcher' = [Down EXCEPT !.pc = "idle", !.held = matcher.held]
  /\ UNCHANGED <<orders, jobs, filled, dead, signature, log, cursor, withdrawn, faults, gaveUp>>

-----------------------------------------------------------------------------
(* The chain.                                                              *)

\* _consume: why the gateway turns an order down with `done` of it filled.
refusal(o, size, done) ==
  CASE dead[o] = "expired"                 -> "OrderExpired"
    [] dead[o] \in {"cancelled", "upTo"}   -> "OrderCancelled"
    [] done + size > OrderSize[o]          -> "retryable"
    [] signature[o] = "bad"                -> "InvalidSignature"
    [] OTHER                               -> "none"

\* The maker, the taker, then the engine, which refuses the fills `refused`.
errorOf(f, done, refused) ==
  IF refusal(f.maker, f.size, done[f.maker]) # "none" THEN refusal(f.maker, f.size, done[f.maker])
  ELSE IF refusal(f.taker, f.size, done[f.taker]) # "none" THEN refusal(f.taker, f.size, done[f.taker])
  ELSE IF f \in refused THEN "retryable" ELSE "none"

\* One fill, after what `r` shows: it settles, or is rejected alone.
settleOne(r, f, refused) ==
  IF errorOf(f, r.filled, refused) = "none"
  THEN [ filled   |-> [o \in Orders |-> IF o \in sides(f) THEN r.filled[o] + f.size
                                        ELSE r.filled[o]],
         events   |-> Append(r.events, [kind |-> "FillSettled", of |-> f]),
         rejected |-> r.rejected ]
  ELSE [ filled   |-> r.filled,
         events   |-> Append(r.events, [kind |-> "FillRejected", of |-> f]),
         rejected |-> Append(r.rejected,
                        [fill |-> f, errorName |-> errorOf(f, r.filled, refused)]) ]

\* settleFillsSigned: the fills in order.
executed(batch, refused) ==
  FoldLeft(LAMBDA r, f : settleOne(r, f, refused),
           [filled |-> filled, events |-> <<>>, rejected |-> <<>>], batch)

\* One key: its transactions are mined in the order of their nonces.
Mine(j) ==
  /\ jobs[j].tx = "mempool"
  /\ \A i \in 1..(j - 1) : jobs[i].tx # "mempool"
  /\ \E refused \in SUBSET ToSet(jobs[j].batch) :
       LET r == executed(jobs[j].batch, refused)
       IN  /\ jobs' = [jobs EXCEPT ![j].tx = "success", ![j].rejected = r.rejected]
           /\ filled' = r.filled
           /\ log' = log \o r.events
  /\ UNCHANGED <<fills, orders, dead, signature, cursor, matcher, withdrawn, faults, gaveUp>>

\* InsufficientBatchGas reverts the batch, another transaction takes its nonce, or
\* the node forgets it.
MineNot(j) ==
  /\ \/ jobs[j].tx = "mempool" /\ jobs' = [jobs EXCEPT ![j].tx = "reverted"]
     \/ live(j) /\ jobs' = [jobs EXCEPT ![j].tx = "displaced"]
     \/ jobs[j].tx = "mempool" /\ jobs' = [jobs EXCEPT ![j].tx = "unsent"]
  /\ UNCHANGED <<fills, orders, filled, dead, signature, log, cursor, matcher, withdrawn, faults, gaveUp>>

\* An order dies.  Its owner's cancels have events, expiry has none.
Die(o, cause) ==
  /\ dead[o] = "none"
  /\ dead' = [dead EXCEPT ![o] = cause]
  /\ log' = CASE cause = "cancelled" -> Append(log, [kind |-> "OrderCancelled", of |-> o])
              [] cause = "upTo"      -> Append(log, [kind |-> "NoncesCancelledUpTo", of |-> o])
              [] OTHER               -> log
  /\ UNCHANGED <<fills, orders, jobs, filled, signature, cursor, matcher, withdrawn, faults, gaveUp>>

\* A contract wallet turns an order's signature down, or accepts it again; no event says so.
Wallet(o) ==
  /\ signature' = [signature EXCEPT ![o] = IF @ = "bad" THEN "restored" ELSE "bad"]
  /\ UNCHANGED <<fills, orders, jobs, filled, dead, log, cursor, matcher, withdrawn, faults, gaveUp>>

\* cancelOrderByNonce, cancelAllOrders: the owner withdraws an order from the book; the
\* gateway does not know.
Withdraw(o) ==
  /\ orders[o].status \in TRADEABLE
  /\ orders' = [orders EXCEPT ![o].status = "CANCELLED"]
  /\ withdrawn' = withdrawn \cup {o}
  /\ UNCHANGED <<fills, jobs, filled, dead, signature, log, cursor, matcher, faults, gaveUp>>

-----------------------------------------------------------------------------
(* The reconciler of jobs and the indexer.                                 *)

\* resolveNonce: the outcome on an open job, or the same bytes sent again.
ReconcileJob(j) ==
  /\ jobs[j].status = "OPEN"
  /\ jobs[j].tx # "mempool"
  /\ jobs' = [jobs EXCEPT ![j] =
       CASE @.tx = "success"   -> [@ EXCEPT !.status = "CONFIRMED"]
         [] @.tx = "reverted"  -> [@ EXCEPT !.status = "REVERTED"]
         [] @.tx = "displaced" -> [@ EXCEPT !.status = "DROPPED"]
         [] @.tx = "unsent"    -> [@ EXCEPT !.tx = "mempool"]]
  /\ UNCHANGED <<fills, orders, filled, dead, signature, log, cursor, matcher, withdrawn, faults, gaveUp>>

\* The FillSettled row: inserted or updated, its reason cleared.
settledRow(f) ==
  [g \in {f} \cup DOMAIN fills |->
     IF g # f THEN fills[g]
     ELSE [ status |-> "SETTLED", rejectReason |-> FALSE,
            txJobId |-> IF f \in DOMAIN fills THEN fills[f].txJobId ELSE NoJob ]]

\* Mutant: the filled size counts every row of the order.
settledInAny(rows, o) == sizeOf({f \in DOMAIN rows : o \in sides(f)})

\* refreshOrders: the filled size is the sum of the SETTLED rows.
settledIn(rows, o) == sizeOf({f \in DOMAIN rows : rows[f].status = "SETTLED" /\ o \in sides(f)})
refreshOrders(rows, S) ==
  [o \in Orders |->
     IF o \notin S THEN orders[o]
     ELSE [ filledSize |-> Min({OrderSize[o], settledIn(rows, o)}),
            status     |-> IF orders[o].status = "CANCELLED" THEN "CANCELLED"
                           ELSE IF settledIn(rows, o) >= OrderSize[o] THEN "FILLED"
                           ELSE IF settledIn(rows, o) > 0 THEN "PARTIALLY_FILLED" ELSE "OPEN" ]]

\* The projection of one event, in the transaction that moves the cursor.
Index ==
  /\ cursor < Len(log)
  /\ LET e == log[cursor + 1] IN
       \/ /\ e.kind = "FillSettled"
          /\ fills' = settledRow(e.of)
          /\ orders' = refreshOrders(fills', sides(e.of))
       \/ /\ e.kind = "FillRejected"
          /\ fills' = IF e.of \in DOMAIN fills /\ fills[e.of].status # "SETTLED"
                      THEN [fills EXCEPT ![e.of].status = "REJECTED", ![e.of].rejectReason = TRUE]
                      ELSE fills
          /\ UNCHANGED orders
       \/ /\ e.kind \in {"OrderCancelled", "NoncesCancelledUpTo"}
          /\ orders' = IF orders[e.of].status \in TRADEABLE
                       THEN [orders EXCEPT ![e.of].status = "CANCELLED"] ELSE orders
          /\ UNCHANGED fills
  /\ cursor' = cursor + 1
  /\ UNCHANGED <<jobs, filled, dead, signature, log, matcher, withdrawn, faults, gaveUp>>

-----------------------------------------------------------------------------
Step ==
  \/ Start \/ RecoverJob \/ ScanOrphans \/ ReleaseOrphans
  \/ Tick \/ Reserve \/ Submit \/ SubmitFails \/ Undo \/ Link
  \/ Mined \/ TimedOut \/ NonceTaken \/ Apply \/ Applied \/ ReleaseReverted

ends == Cardinality(withdrawn)
        + Cardinality({o \in Orders : dead[o] # "none"}) + Cardinality({o \in Orders : signature[o] # "good"})

Next ==
  \/ Step
  \/ Crash \/ Fails
  \/ \E j \in DOMAIN jobs : Mine(j) \/ MineNot(j) \/ ReconcileJob(j)
  \/ /\ ends < MaxEnds
     /\ \E o \in Mortal : Withdraw(o) \/ \E cause \in Cause \ {"none"} : Die(o, cause)
  \/ \E o \in Mortal : (signature[o] # "good" \/ ends < MaxEnds) /\ Wallet(o)
  \/ Index

Spec == Init /\ [][Next]_vars

-----------------------------------------------------------------------------
(* Properties.                                                             *)

\* Type correctness.
TypeOK ==
  /\ DOMAIN fills \subseteq FillId /\ \A f \in DOMAIN fills : fills[f] \in Row
  /\ orders \in [Orders -> [status : TRADEABLE \cup {"FILLED", "CANCELLED"}, filledSize : Nat]]
  /\ jobs \in Seq(Job)
  /\ filled \in [Orders -> Nat]
  /\ dead \in [Orders -> Cause] /\ signature \in [Orders -> Signature] /\ withdrawn \subseteq Orders
  /\ cursor \in 0..Len(log)
  /\ matcher \in Matcher
  /\ faults \in 0..MaxFaults /\ gaveUp \in BOOLEAN

\* What the batches that may still be mined would add to an order.
inFlight(o) ==
  MapThenSumSet(LAMBDA j : sizeOf({f \in ToSet(jobs[j].batch) : o \in sides(f)}),
                {j \in DOMAIN jobs : live(j)})

\* No size is matched twice (submit.ts, the reservation ledger): what the chain has
\* filled of an order and what batches in flight would fill never exceed its size,
\* through crashes, failed calls, reverts, retries and a lagging indexer, as long as no
\* reservation was dropped while its outcome was open and none was taken for another
\* because of its id.
NoDoubleMatch ==
  gaveUp \/ \A o \in Orders : filled[o] + inFlight(o) <= OrderSize[o]

\* Order.filledSize never claims more than the gateway has filled.
NeverAhead == \A o \in Orders : orders[o].filledSize <= filled[o]

\* No order is retired for the other's fault (blameForPoison): one that left the book as
\* cancelled was withdrawn by its owner, is dead on chain, or had its own signature turned
\* down, whichever side of a rejected fill was at fault and however late the receipt is
\* applied.  A wallet may accept the signature again, before or after: the order stays
\* retired (retireOrder), so "dead" would be too strong here.
OnlyFaultyRetired ==
  \A o \in Orders : orders[o].status = "CANCELLED" =>
    o \in withdrawn \/ dead[o] # "none" \/ signature[o] # "good"
=============================================================================
