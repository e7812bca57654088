--------------------------- MODULE PeripheryProofs ---------------------------
(***************************************************************************)
(* Four parts that share nothing with each other, proved one after the     *)
(* other: the order gateway, the timelock, the oracle and the monitor.     *)
(*                                                                         *)
(* OrderGateway keeps its promise to the signers for every set of owners,  *)
(* orders, cancels and batches.  The promise is not inductive as it        *)
(* stands: a batch that runs out of gas restores the storage saved before  *)
(* it, so what is saved has to be consistent too, and never ahead of what  *)
(* was executed.                                                           *)
(*                                                                         *)
(* The timelock is proved for every set of operations and every duration:  *)
(* what a veto holds up is due before the guardian may veto again.  What   *)
(* is owed loses its delay day by day while the cooldown runs, so the      *)
(* invariant compares the two clocks; operations change the veto only by   *)
(* ending it, which takes an induction along the calls of an operation.    *)
(*                                                                         *)
(* Of the oracle: what it serves, and how well a publisher foresees what   *)
(* the adapter will make of a push.  Every observation, wherever it is,    *)
(* lies between prices that were traded recently for its age, and so does  *)
(* the median of several: the invariant speaks of the transactions in the  *)
(* pool and of plans as well as of what is stored.                         *)
(*                                                                         *)
(* Of the monitor: what its alerts promise, for every venue it may find.   *)
(* The alert engine's streaks are compared with the ticks that really      *)
(* reported a key, and what it sent with what the webhook let through.     *)
(***************************************************************************)
EXTENDS OrderGateway, Governance, Oracle, Monitor, Sums

-----------------------------------------------------------------------------
(* The order gateway.                                                      *)

Executed(os, ex) ==
  \A o \in Orders :
    ex[o] = IF os[o.owner][o.nonce].order = o THEN os[o.owner][o.nonce].filled ELSE 0

\* A slot is empty, or holds an order of its own owner and nonce, within its size.
SlotOK(os, u, n) ==
  LET slot == os[u][n]
  IN  \/ slot.order = Unbound /\ slot.filled = 0
      \/ /\ slot.order \in Orders /\ slot.order.owner = u /\ slot.order.nonce = n
         /\ slot.filled <= slot.order.size

Consistent(os, ex) ==
  /\ os \in Slots /\ ex \in [Orders -> Nat]
  /\ Executed(os, ex)
  /\ \A u \in Owners, n \in Nonces : SlotOK(os, u, n)

GatewayInv ==
  /\ TypeOK
  /\ Consistent(orderState, executed)
  /\ Consistent(saved.orderState, saved.executed)
  /\ \A o \in Orders : saved.executed[o] <= executed[o]

-----------------------------------------------------------------------------
\* Every order has the fields OrderLib.Order declares.
LEMMA OrderFields ==
  ASSUME NEW o \in Orders
  PROVE  /\ o.owner \in Owners /\ o.nonce \in Nonces /\ o.size \in Nat
         /\ o # Unbound
  BY GatewayConfig DEF Order

\* _consume, on storage it accepts: the fill is added to the order's slot and to what
\* was executed of it, and nothing else of either changes.
LEMMA ConsumeConsistent ==
  ASSUME NEW os, NEW ex, NEW o \in Orders, NEW size \in Nat,
         Consistent(os, ex),
         os[o.owner][o.nonce].order \in {Unbound, o},
         os[o.owner][o.nonce].filled + size <= o.size
  PROVE  Consistent(consume(os, o, size), [ex EXCEPT ![o] = @ + size])
<1> DEFINE os2 == consume(os, o, size)
           ex2 == [ex EXCEPT ![o] = @ + size]
           u == o.owner
           n == o.nonce
<1>1. u \in Owners /\ n \in Nonces /\ o.size \in Nat /\ o # Unbound
  BY OrderFields
<1>2. os \in Slots /\ ex \in [Orders -> Nat]
  BY DEF Consistent
<1>3. os[u][n] \in Slot
  BY <1>1, <1>2 DEF Slots
<1>4. os[u][n].filled \in Nat
  BY <1>3 DEF Slot
<1>5. os2[u][n] = [order |-> o, filled |-> os[u][n].filled + size]
  BY <1>1, <1>2 DEF consume, Slots
<1>6. os2 \in Slots
  BY <1>1, <1>2, <1>4 DEF consume, Slots, Slot
<1>7. ex2 \in [Orders -> Nat]
  BY <1>2
<1>8. \A v \in Owners, k \in Nonces : <<v, k>> # <<u, n>> => os2[v][k] = os[v][k]
  BY <1>1, <1>2 DEF consume, Slots
<1>9. \A v \in Owners, k \in Nonces : SlotOK(os2, v, k)
  <2> SUFFICES ASSUME NEW v \in Owners, NEW k \in Nonces
               PROVE  SlotOK(os2, v, k)
    OBVIOUS
  <2>1. CASE <<v, k>> = <<u, n>>
    BY <2>1, <1>1, <1>4, <1>5 DEF SlotOK
  <2>2. CASE <<v, k>> # <<u, n>>
    <3>1. SlotOK(os, v, k)
      BY DEF Consistent
    <3> QED
      BY <3>1, <2>2, <1>8 DEF SlotOK
  <2> QED
    BY <2>1, <2>2
<1>10. Executed(os2, ex2)
  <2> SUFFICES ASSUME NEW p \in Orders
               PROVE  ex2[p] = IF os2[p.owner][p.nonce].order = p
                               THEN os2[p.owner][p.nonce].filled ELSE 0
    BY DEF Executed
  <2>0. ex[p] = IF os[p.owner][p.nonce].order = p THEN os[p.owner][p.nonce].filled ELSE 0
    BY DEF Consistent, Executed
  <2>1. CASE p = o
    <3>1. ex2[o] = ex[o] + size
      BY <1>2
    <3>2. ex[o] = os[u][n].filled
      <4>1. SlotOK(os, u, n)
        BY <1>1 DEF Consistent
      <4>2. CASE os[u][n].order = o
        BY <4>2, <2>0, <2>1
      <4>3. CASE os[u][n].order = Unbound
        <5>1. os[u][n].filled = 0
          BY <4>1, <4>3, GatewayConfig DEF SlotOK
        <5>2. ex[o] = 0
          BY <4>3, <2>0, <2>1, <1>1
        <5> QED
          BY <5>1, <5>2
      <4> QED
        BY <4>2, <4>3
    <3> QED
      BY <3>1, <3>2, <2>1, <1>5
  <2>2. CASE p # o
    <3>1. ex2[p] = ex[p]
      BY <2>2, <1>2
    <3>2. CASE p.owner = u /\ p.nonce = n
      BY <3>1, <3>2, <2>0, <2>2, <1>1, <1>5, OrderFields
    <3>3. CASE ~(p.owner = u /\ p.nonce = n)
      <4>1. os2[p.owner][p.nonce] = os[p.owner][p.nonce]
        BY <3>3, <1>8, OrderFields
      <4> QED
        BY <4>1, <3>1, <2>0
    <3> QED
      BY <3>2, <3>3
  <2> QED
    BY <2>1, <2>2
<1> QED
  BY <1>6, <1>7, <1>9, <1>10 DEF Consistent

\* settleOne adds one fill to both of its orders, and neither was cancelled.
LEMMA SettleOneStep ==
  ASSUME GatewayInv, SettleOne
  PROVE  /\ Consistent(orderState', executed')
         /\ \A o \in Orders : executed[o] <= executed'[o]
         /\ \A o \in Orders : isCancelled(o.owner, o.nonce) => executed'[o] = executed[o]
<1> DEFINE f == Head(batch)
           made == consume(orderState, f.maker, f.size)
           half == [executed EXCEPT ![f.maker] = @ + f.size]
<1>1. f \in Fill
  BY DEF SettleOne, GatewayInv, TypeOK
<1>2. f.maker \in Orders /\ f.taker \in Orders /\ f.size \in Nat
  BY <1>1 DEF Fill
<1>3. /\ mayConsume(orderState, f.maker, f.size, f.price)
      /\ mayConsume(made, f.taker, f.size, f.price)
      /\ orderState' = consume(made, f.taker, f.size)
      /\ executed' = [executed EXCEPT ![f.maker] = executed[f.maker] + f.size,
                                      ![f.taker] = executed[f.taker] + f.size]
      /\ f.maker # f.taker
  BY ZenonT(60) DEF SettleOne, validateFill
<1>4. Consistent(made, half)
  BY <1>2, <1>3, ConsumeConsistent, ZenonT(40) DEF GatewayInv, mayConsume
<1>T. executed \in [Orders -> Nat]
  BY DEF GatewayInv, TypeOK
<1>5. Consistent(orderState', executed')
  <2>1. Consistent(consume(made, f.taker, f.size), [half EXCEPT ![f.taker] = @ + f.size])
    <3> HIDE DEF made, half
    <3> QED
      BY <1>2, <1>3, <1>4, ConsumeConsistent, ZenonT(40) DEF mayConsume
  <2>2. executed' = [half EXCEPT ![f.taker] = @ + f.size]
    BY <1>2, <1>3, <1>T
  <2> QED
    BY <2>1, <2>2, <1>3, Zenon
<1>7. \A o \in Orders : executed[o] <= executed'[o]
  BY <1>2, <1>3, <1>T
<1>8. ~isCancelled(f.maker.owner, f.maker.nonce) /\ ~isCancelled(f.taker.owner, f.taker.nonce)
  BY <1>3 DEF mayConsume
<1>9. \A o \in Orders : isCancelled(o.owner, o.nonce) => executed'[o] = executed[o]
  BY <1>2, <1>3, <1>T, <1>8
<1> QED
  BY <1>5, <1>7, <1>9

-----------------------------------------------------------------------------
\* The gateway starts with no order bound and nothing executed.
LEMMA GatewayInit == Init => GatewayInv
<1> SUFFICES ASSUME Init PROVE GatewayInv
  OBVIOUS
<1>1. TypeOK
  <2>1. Empty \in Slot
    BY DEF Empty, Slot
  <2>2. orderState \in Slots
    BY <2>1 DEF Init, Slots
  <2>3. executed \in [Orders -> Nat]
    BY DEF Init
  <2>4. batch \in Seq(Fill)
    BY DEF Init
  <2>5. saved \in [orderState : Slots, executed : [Orders -> Nat]]
    BY <2>2, <2>3 DEF Init
  <2> QED
    BY <2>2, <2>3, <2>4, <2>5 DEF Init, TypeOK
<1>2. Consistent(orderState, executed)
  <2>1. \A u \in Owners, n \in Nonces :
          orderState[u][n].order = Unbound /\ orderState[u][n].filled = 0
    BY DEF Init, Empty
  <2>2. Executed(orderState, executed)
    BY <2>1, OrderFields DEF Executed, Init
  <2> QED
    BY <1>1, <2>1, <2>2 DEF Consistent, SlotOK, TypeOK
<1>3. saved.orderState = orderState /\ saved.executed = executed
  BY DEF Init
<1> QED
  BY <1>1, <1>2, <1>3 DEF GatewayInv, TypeOK

\* Every step of the gateway and of its environment keeps it.
LEMMA GatewayStep == GatewayInv /\ [Next]_vars => GatewayInv'
<1> SUFFICES ASSUME GatewayInv, [Next]_vars PROVE GatewayInv'
  OBVIOUS
<1> USE DEF GatewayInv
<1>1. ASSUME NEW b \in Batches, SubmitBatch(b) PROVE GatewayInv'
  BY <1>1, GatewayConfig DEF SubmitBatch, TypeOK
<1>2. ASSUME SettleOne PROVE GatewayInv'
  <2>1. Consistent(orderState', executed') /\ \A o \in Orders : executed[o] <= executed'[o]
    BY <1>2, SettleOneStep
  <2>2. saved' = saved /\ Tail(batch) \in Seq(Fill) /\ batch' = Tail(batch)
    BY <1>2 DEF SettleOne, TypeOK
  <2>3. TypeOK'
    BY <1>2, <2>1, <2>2 DEF SettleOne, TypeOK, Consistent
  <2>4. \A o \in Orders : saved.executed[o] <= executed'[o]
    <3> SUFFICES ASSUME NEW o \in Orders PROVE saved.executed[o] <= executed'[o]
      OBVIOUS
    <3>1. saved.executed[o] \in Nat /\ executed[o] \in Nat /\ executed'[o] \in Nat
      BY <2>3 DEF TypeOK
    <3> QED
      BY <3>1, <2>1
  <2> QED
    BY <2>1, <2>2, <2>3, <2>4
<1>3. ASSUME RejectOne PROVE GatewayInv'
  BY <1>3 DEF RejectOne, TypeOK
<1>4. ASSUME OutOfGas PROVE GatewayInv'
  BY <1>4 DEF OutOfGas, TypeOK
<1>5. ASSUME NEW u \in Owners, NEW n \in Nonces, CancelOrder(u, n) PROVE GatewayInv'
  BY <1>5 DEF CancelOrder, TypeOK
<1>6. ASSUME NEW u \in Owners, NEW n \in Nonces, CancelUpTo(u, n) PROVE GatewayInv'
  BY <1>6, GatewayConfig DEF CancelUpTo, TypeOK
<1>7. ASSUME NEW c \in Cancels, CancelSigned(c) PROVE GatewayInv'
  BY <1>7, GatewayConfig DEF CancelSigned, TypeOK, Cancel
<1>8. ASSUME NEW x \in Orders \cup Cancels, Sign(x) PROVE GatewayInv'
  BY <1>8 DEF Sign, TypeOK
<1>9. ASSUME NEW x \in Orders \cup Cancels, Revoke(x) PROVE GatewayInv'
  BY <1>9 DEF Revoke, TypeOK
<1>10. ASSUME SetPaused PROVE GatewayInv'
  BY <1>10 DEF SetPaused, TypeOK
<1>11. ASSUME NEW s \in Ticks, Tick(s) PROVE GatewayInv'
  BY <1>11, GatewayConfig DEF Tick, TypeOK
<1>12. ASSUME UNCHANGED vars PROVE GatewayInv'
  BY <1>12 DEF vars, TypeOK
<1> QED
  BY <1>1, <1>2, <1>3, <1>4, <1>5, <1>6, <1>7, <1>8, <1>9, <1>10, <1>11, <1>12 DEF Next

\* The inductive invariant of the gateway.
THEOREM GatewayInvariant == Spec => []GatewayInv
  BY GatewayInit, GatewayStep, PTL DEF Spec

\* OrderGateway._consume and the batch's try/catch: the amount recorded for a nonce is
\* the amount the engine applied of the order bound to it, in every reachable state.
THEOREM FilledIsWhatExecuted == Spec => []FilledIsExecuted
<1>1. GatewayInv => FilledIsExecuted
  BY DEF GatewayInv, Consistent, Executed, FilledIsExecuted
<1> QED
  BY <1>1, GatewayInvariant, PTL

\* OrderGateway's header: an order is never filled past its size, and of the orders
\* signed under one nonce at most one is ever filled.
THEOREM NonceIsOneBudget == Spec => []OneBudgetPerNonce
<1>1. ASSUME GatewayInv, NEW o \in Orders PROVE executed[o] <= o.size
  <2>1. SlotOK(orderState, o.owner, o.nonce)
    BY <1>1, OrderFields DEF GatewayInv, Consistent
  <2>2. executed[o] = IF orderState[o.owner][o.nonce].order = o
                      THEN orderState[o.owner][o.nonce].filled ELSE 0
    BY <1>1 DEF GatewayInv, Consistent, Executed
  <2> QED
    BY <2>1, <2>2, OrderFields DEF SlotOK
<1>2. ASSUME GatewayInv, NEW o \in Orders, NEW p \in Orders, executed[o] > 0, executed[p] > 0,
             o.owner = p.owner, o.nonce = p.nonce
      PROVE  o = p
  <2>1. \A q \in {o, p} : executed[q] > 0 => orderState[q.owner][q.nonce].order = q
    BY <1>2 DEF GatewayInv, Consistent, Executed
  <2> QED
    BY <2>1, <1>2
<1>3. GatewayInv => OneBudgetPerNonce
  BY <1>1, <1>2 DEF OneBudgetPerNonce
<1> QED
  BY <1>3, GatewayInvariant, PTL

\* cancelOrder, cancelUpTo and cancelSigned are final: no later step of anyone, of a
\* running batch either, fills a cancelled order or makes it fillable again.
THEOREM CancelsAreFinal == Spec => CancelIsFinal
<1> DEFINE Kept == \A o \in Orders : voided(o) => voided(o)' /\ executed'[o] <= executed[o]
<1>1. ASSUME GatewayInv, [Next]_vars PROVE [Kept]_vars
  <2> SUFFICES ASSUME Next PROVE Kept
    BY <1>1
  <2> SUFFICES ASSUME NEW o \in Orders, voided(o)
               PROVE  voided(o)' /\ executed'[o] <= executed[o]
    OBVIOUS
  <2>0. /\ o.owner \in Owners /\ o.nonce \in Nonces /\ o.nonce \in Nat
        /\ executed \in [Orders -> Nat] /\ minNonce \in [Owners -> Nat]
        /\ cancelled \in [Owners -> SUBSET Nonces] /\ executed[o] <= executed[o]
    <3>1. o.owner \in Owners /\ o.nonce \in Nonces /\ o.nonce \in Nat
      BY OrderFields, GatewayConfig
    <3>2. /\ executed \in [Orders -> Nat] /\ minNonce \in [Owners -> Nat]
          /\ cancelled \in [Owners -> SUBSET Nonces]
      BY <1>1 DEF GatewayInv, TypeOK
    <3>3. executed[o] \in Nat
      BY <3>2
    <3> QED
      BY <3>1, <3>2, <3>3
  <2>1. CASE UNCHANGED <<cancelled, minNonce>>
    <3>1. voided(o)'
      BY <2>1 DEF voided
    <3>2. CASE SettleOne
      <4>1. executed'[o] = executed[o]
        BY <3>2, <1>1, SettleOneStep DEF voided, isCancelled
      <4> QED
        BY <3>1, <4>1, <2>0
    <3>3. CASE OutOfGas
      BY <3>1, <3>3, <1>1 DEF OutOfGas, GatewayInv
    <3>4. CASE UNCHANGED executed
      BY <3>1, <3>4, <2>0
    <3> QED
      BY <2>1, <3>2, <3>3, <3>4
      DEF Next, SubmitBatch, RejectOne, CancelOrder, CancelUpTo, CancelSigned, Sign, Revoke,
          SetPaused, Tick
  <2>2. ASSUME NEW u \in Owners, NEW n \in Nonces, CancelOrder(u, n)
        PROVE  voided(o)' /\ executed'[o] <= executed[o]
    BY <2>2, <2>0 DEF CancelOrder, voided
  <2>3. ASSUME NEW u \in Owners, NEW n \in Nonces, CancelUpTo(u, n)
        PROVE  voided(o)' /\ executed'[o] <= executed[o]
    <3>1. minNonce[o.owner] <= minNonce'[o.owner]
      BY <2>3, <2>0, GatewayConfig DEF CancelUpTo
    <3>2. minNonce'[o.owner] \in Nat /\ minNonce[o.owner] \in Nat
      BY <2>3, <2>0, GatewayConfig DEF CancelUpTo
    <3> QED
      BY <2>3, <2>0, <3>1, <3>2 DEF CancelUpTo, voided
  <2>4. ASSUME NEW c \in Cancels, CancelSigned(c)
        PROVE  voided(o)' /\ executed'[o] <= executed[o]
    BY <2>4, <2>0, GatewayConfig DEF CancelSigned, voided, Cancel
  <2> QED
    BY <2>1, <2>2, <2>3, <2>4
    DEF Next, SubmitBatch, SettleOne, RejectOne, OutOfGas, Sign, Revoke, SetPaused, Tick
<1>2. Spec => [][Kept]_vars
  BY <1>1, GatewayInvariant, PTL DEF Spec
<1> QED
  BY <1>2 DEF CancelIsFinal

-----------------------------------------------------------------------------
(* The timelock.                                                           *)

\* The governed state by itself.
State == [ vetoUntil : -VETO_COOLDOWN .. VETO_DURATION,
           guardianPauseExpiry : -GUARDIAN_PAUSE_COOLDOWN .. GUARDIAN_PAUSE_DURATION,
           indefinite : BOOLEAN,
           minDelay : Nat,
           guardian : SUBSET {"veto", "pause"} ]

\* What a veto held up is ready before the cooldown ends: since the veto ended, its
\* delay has shrunk as fast as the cooldown.
OwedInTime ==
  \A op \in owed : /\ timestamp[op] < VETO_COOLDOWN
                   /\ g.vetoUntil <= 0 => timestamp[op] < VETO_COOLDOWN + g.vetoUntil

GovernanceInv == TimelockTypeOK /\ OwedInTime

-----------------------------------------------------------------------------
(* The calls of an operation.                                              *)

\* A call leaves the governed state well formed and a veto as it was, or ends it.
LEMMA EffectTyped ==
  ASSUME NEW s \in State, NEW c \in Call
  PROVE  /\ effect(s, c) \in State
         /\ effect(s, c).vetoUntil \in {s.vetoUntil, earlier(s.vetoUntil)}
<1>1. c.fn \in {"unpauseExecution", "revokeVeto", "grantVeto", "revokePause", "grantPause",
                "pauseIndefinitely", "unpause", "updateDelay"}
      /\ (c.fn = "updateDelay" => c.newDelay \in Nat)
  BY DEF Call
<1>2. /\ s.vetoUntil \in -VETO_COOLDOWN .. VETO_DURATION
      /\ s.guardianPauseExpiry \in -GUARDIAN_PAUSE_COOLDOWN .. GUARDIAN_PAUSE_DURATION
      /\ s.minDelay \in Nat /\ s.guardian \in SUBSET {"veto", "pause"}
  BY DEF State
<1>3. /\ earlier(s.vetoUntil) \in -VETO_COOLDOWN .. VETO_DURATION
      /\ earlier(s.guardianPauseExpiry) \in -GUARDIAN_PAUSE_COOLDOWN .. GUARDIAN_PAUSE_DURATION
  BY <1>2, GovernanceConfig DEF earlier
<1>4. CASE c.fn = "unpauseExecution"
  <2>1. effect(s, c) = [s EXCEPT !.vetoUntil = earlier(@)]
    BY <1>4 DEF effect
  <2> QED BY <2>1, <1>3 DEF State
<1>5. CASE c.fn \in {"revokeVeto", "grantVeto", "revokePause", "grantPause"}
  <2>1. \E who \in SUBSET {"veto", "pause"} : effect(s, c) = [s EXCEPT !.guardian = who]
    BY <1>2, <1>5 DEF effect
  <2> QED BY <2>1 DEF State
<1>6. CASE c.fn = "pauseIndefinitely"
  <2>1. effect(s, c) = [s EXCEPT !.indefinite = TRUE]
    BY <1>6 DEF effect
  <2> QED BY <2>1 DEF State
<1>7. CASE c.fn = "unpause"
  <2>1. effect(s, c) = [s EXCEPT !.indefinite = FALSE, !.guardianPauseExpiry = earlier(@)]
    BY <1>7 DEF effect
  <2> QED BY <2>1, <1>3 DEF State
<1>8. CASE c.fn = "updateDelay"
  <2>1. PICK d \in Nat : effect(s, c) = [s EXCEPT !.minDelay = d]
    BY <1>1, <1>8 DEF effect
  <2> QED BY <2>1 DEF State
<1> QED BY <1>1, <1>4, <1>5, <1>6, <1>7, <1>8

\* Execution as the function it folds with.
IsRun(f, calls) ==
  f = [s \in SUBSET DOMAIN calls |->
         IF s = {} THEN g ELSE effect(f[s \ {Max(s)}], calls[Max(s)])]

\* The last of some places of an operation.
LEMMA LastPlace ==
  ASSUME NEW calls \in Seq(Call), NEW s \in SUBSET DOMAIN calls, s # {}
  PROVE  Max(s) \in s
<1>1. s \in SUBSET Nat /\ Len(calls) \in Nat /\ \A k \in s : k <= Len(calls)
  OBVIOUS
<1> QED BY <1>1, Greatest

\* The recursion, at the whole operation.
LEMMA RunUnfolds ==
  ASSUME NEW calls
  PROVE  FoldLeft(effect, g, calls) = (CHOOSE f : IsRun(f, calls))[DOMAIN calls]
  BY Zenon DEF FoldLeft, MapThenFoldSet, IsRun

\* The recursion as far as n calls.
RunUpto(f, calls, n) ==
  \A s \in Upto(DOMAIN calls, n) :
    f[s] = IF s = {} THEN g ELSE effect(f[s \ {Max(s)}], calls[Max(s)])

\* One call more: a run as far as n calls goes on to n + 1.
LEMMA RunUptoExtends ==
  ASSUME NEW calls \in Seq(Call), IsFiniteSet(DOMAIN calls), NEW n \in Nat,
         NEW f, RunUpto(f, calls, n)
  PROVE  \E h : RunUpto(h, calls, n + 1)
<1> DEFINE S == DOMAIN calls
           step(s) == IF s = {} THEN g ELSE effect(f[s \ {Max(s)}], calls[Max(s)])
           h == [s \in Upto(S, n + 1) |-> step(s)]
<1>1. ASSUME NEW s \in Upto(S, n + 1), s # {}
      PROVE  s \ {Max(s)} \in Upto(S, n) /\ s \ {Max(s)} \in Upto(S, n + 1)
  <2>1. s \in SUBSET S /\ Cardinality(s) <= n + 1
    BY DEF Upto
  <2>2. Max(s) \in s
    BY <1>1, <2>1, LastPlace
  <2>3. IsFiniteSet(s) /\ Cardinality(s) \in Nat
    BY <2>1, FS_Subset, FS_CardinalityType
  <2>4. Cardinality(s \ {Max(s)}) = Cardinality(s) - 1
    BY <2>2, <2>3, FS_RemoveElement
  <2> QED BY <2>1, <2>3, <2>4 DEF Upto
<1>2. ASSUME NEW s \in Upto(S, n + 1), s # {}
      PROVE  h[s \ {Max(s)}] = f[s \ {Max(s)}]
  <2>1. PICK t \in Upto(S, n) : t = s \ {Max(s)} /\ t \in Upto(S, n + 1)
    BY <1>1, <1>2
  <2>2. f[t] = step(t)
    BY <2>1 DEF RunUpto
  <2>3. h[t] = step(t)
    BY <2>1
  <2> QED BY <2>1, <2>2, <2>3
<1>3. ASSUME NEW s \in Upto(S, n + 1)
      PROVE  h[s] = IF s = {} THEN g ELSE effect(h[s \ {Max(s)}], calls[Max(s)])
  <2>1. h[s] = step(s)
    OBVIOUS
  <2>2. CASE s = {}
    BY <2>1, <2>2
  <2>3. CASE s # {}
    <3>1. h[s \ {Max(s)}] = f[s \ {Max(s)}]
      BY <1>2, <2>3
    <3> HIDE DEF h
    <3> QED BY <2>1, <2>3, <3>1
  <2> QED BY <2>2, <2>3
<1>4. RunUpto(h, calls, n + 1)
  <2> HIDE DEF h
  <2> QED BY <1>3 DEF RunUpto
<1> QED BY <1>4

\* So making the calls in turn is the recursion it is written as.
LEMMA RunExists ==
  ASSUME NEW calls \in Seq(Call)
  PROVE  \E f : IsRun(f, calls)
<1> DEFINE S == DOMAIN calls
           Good == {T \in SUBSET S : \E h : RunUpto(h, calls, Cardinality(T))}
<1>0. IsFiniteSet(S)
  <2>1. S = 1..Len(calls) /\ Len(calls) \in Nat
    OBVIOUS
  <2> QED BY <2>1, FS_Interval
<1>1. {} \in Good
  <2> DEFINE h == [s \in SUBSET S |-> g]
  <2>1. Cardinality({}) = 0
    BY FS_EmptySet
  <2>2. ASSUME NEW s \in Upto(S, 0) PROVE s = {}
    <3>1. s \in SUBSET S /\ Cardinality(s) <= 0
      BY DEF Upto
    <3>2. IsFiniteSet(s) /\ Cardinality(s) \in Nat
      BY <1>0, <3>1, FS_Subset, FS_CardinalityType
    <3> QED BY <3>1, <3>2, FS_EmptySet
  <2>3. RunUpto(h, calls, 0)
    BY <2>2 DEF RunUpto
  <2> QED BY <2>1, <2>3
<1>2. ASSUME NEW T \in SUBSET S, T # {}, \A x \in T : T \ {x} \in Good
      PROVE  T \in Good
  <2>1. PICK x \in T : T \ {x} \in Good
    BY <1>2
  <2>2. IsFiniteSet(T) /\ IsFiniteSet(T \ {x}) /\ Cardinality(T \ {x}) \in Nat
        /\ Cardinality(T) \in Nat
    BY <1>0, FS_Subset, FS_RemoveElement, FS_CardinalityType
  <2>3. Cardinality(T) = Cardinality(T \ {x}) + 1
    BY <2>2, FS_RemoveElement
  <2>4. PICK f : RunUpto(f, calls, Cardinality(T \ {x}))
    BY <2>1
  <2>5. \E h : RunUpto(h, calls, Cardinality(T))
    BY <1>0, <2>2, <2>3, <2>4, RunUptoExtends
  <2> QED BY <2>5
<1>3. \A T \in SUBSET S : T \in Good
  <2> HIDE DEF Good
  <2> QED BY <1>0, <1>1, <1>2, SubsetInduction
<1>4. PICK h : RunUpto(h, calls, Cardinality(S))
  BY <1>3
<1> DEFINE f == [s \in SUBSET S |-> h[s]]
<1>5. \A s \in SUBSET S : s \in Upto(S, Cardinality(S))
  BY <1>0, FS_Subset DEF Upto
<1>6. ASSUME NEW s \in SUBSET S
      PROVE  h[s] = IF s = {} THEN g ELSE effect(f[s \ {Max(s)}], calls[Max(s)])
  <2>1. h[s] = IF s = {} THEN g ELSE effect(h[s \ {Max(s)}], calls[Max(s)])
    BY <1>4, <1>5 DEF RunUpto
  <2>2. h[s \ {Max(s)}] = f[s \ {Max(s)}]
    OBVIOUS
  <2> HIDE DEF f
  <2> QED BY <2>1, <2>2
<1>7. IsRun(f, calls)
  BY <1>6 DEF IsRun
<1> QED BY <1>7

\* An operation leaves the governed state well formed and never lengthens a veto.
LEMMA OperationTyped ==
  ASSUME g \in State, NEW calls \in Seq(Call)
  PROVE  /\ FoldLeft(effect, g, calls) \in State
         /\ FoldLeft(effect, g, calls).vetoUntil \in {g.vetoUntil, earlier(g.vetoUntil)}
<1> DEFINE D == DOMAIN calls
           f == CHOOSE f : IsRun(f, calls)
           Good == {T \in SUBSET D : /\ f[T] \in State
                                     /\ f[T].vetoUntil \in {g.vetoUntil, earlier(g.vetoUntil)}}
<1>1. \A s \in SUBSET D : f[s] = IF s = {} THEN g ELSE effect(f[s \ {Max(s)}], calls[Max(s)])
  <2>1. IsRun(f, calls)
    BY RunExists
  <2> HIDE DEF f
  <2> QED BY <2>1 DEF IsRun
<1>2. {} \in Good
  <2>1. f[{}] = g
    <3> HIDE DEF f
    <3> QED BY <1>1
  <2> QED BY <2>1
<1>3. ASSUME NEW T \in SUBSET D, T # {}, \A x \in T : T \ {x} \in Good
      PROVE  T \in Good
  <2>1. PICK m \in T : m = Max(T)
    BY <1>3, LastPlace
  <2>2. PICK s \in State : s = f[T \ {m}] /\ s.vetoUntil \in {g.vetoUntil, earlier(g.vetoUntil)}
    BY <1>3
  <2>3. PICK c \in Call : c = calls[m]
    OBVIOUS
  <2>4. f[T] = effect(s, c)
    <3> HIDE DEF f
    <3> QED BY <1>1, <1>3, <2>1, <2>2, <2>3
  <2>5. effect(s, c) \in State /\ effect(s, c).vetoUntil \in {s.vetoUntil, earlier(s.vetoUntil)}
    BY EffectTyped
  <2>6. earlier(earlier(g.vetoUntil)) = earlier(g.vetoUntil)
    BY DEF earlier, State
  <2>7. effect(s, c).vetoUntil \in {g.vetoUntil, earlier(g.vetoUntil)}
    BY <2>2, <2>5, <2>6
  <2> HIDE DEF f
  <2> QED BY <2>4, <2>5, <2>7
<1>4. IsFiniteSet(D)
  <2>1. D = 1..Len(calls) /\ Len(calls) \in Nat
    OBVIOUS
  <2> QED BY <2>1, FS_Interval
<1>5. \A T \in SUBSET D : T \in Good
  <2>1. \A T \in SUBSET D : T # {} /\ (\A x \in T : T \ {x} \in Good) => T \in Good
    BY <1>3
  <2> HIDE DEF Good, D
  <2> QED BY <1>2, <2>1, <1>4, SubsetInduction
<1>6. FoldLeft(effect, g, calls) = f[D]
  BY RunUnfolds
<1> QED BY <1>5, <1>6

-----------------------------------------------------------------------------
(* The steps.                                                              *)

\* The types, with what the definitions about time need of them.
LEMMA TypesSay ==
  ASSUME GovernanceInv
  PROVE  /\ g \in State /\ g.vetoUntil \in Int
         /\ -VETO_COOLDOWN <= g.vetoUntil /\ g.vetoUntil <= VETO_DURATION
         /\ DOMAIN timestamp = Operations
         /\ \A op \in Operations : timestamp[op] \in Nat \cup {Unset}
         /\ \A op \in owed : op \in Operations /\ timestamp[op] \in Nat
  BY GovernanceConfig DEF GovernanceInv, TimelockTypeOK, State, pending, Unset

\* When the cooldown is over nothing is owed any more.
LEMMA NothingOwed ==
  ASSUME GovernanceInv, g.vetoUntil <= -VETO_COOLDOWN
  PROVE  owed = {}
<1>1. ASSUME NEW op \in owed PROVE FALSE
  <2>1. timestamp[op] \in Nat /\ g.vetoUntil \in Int /\ VETO_COOLDOWN \in Nat \ {0}
    BY TypesSay, GovernanceConfig
  <2>2. timestamp[op] < VETO_COOLDOWN + g.vetoUntil
    BY <2>1 DEF GovernanceInv, OwedInTime
  <2> QED BY <2>1, <2>2
<1> QED BY <1>1

\* A veto starts: what it holds up is what is due within the cooldown.
LEMMA PauseExecutionStep ==
  ASSUME GovernanceInv, pauseExecution
  PROVE  GovernanceInv'
<1>1. g' = [g EXCEPT !.vetoUntil = VETO_DURATION] /\ timestamp' = timestamp
      /\ owed' = {op \in Operations : pending(op) /\ timestamp[op] < VETO_COOLDOWN}
  BY DEF pauseExecution
<1>2. g' \in State /\ g'.vetoUntil \in Int /\ g'.vetoUntil > 0
  BY <1>1, TypesSay, GovernanceConfig DEF State
<1>3. TimelockTypeOK'
  BY <1>1, <1>2 DEF GovernanceInv, TimelockTypeOK, State, pending
<1>4. OwedInTime'
  BY <1>1, <1>2 DEF OwedInTime
<1> QED BY <1>3, <1>4 DEF GovernanceInv

\* A pause of the contracts is another clock.
LEMMA PauseStep ==
  ASSUME GovernanceInv, pause
  PROVE  GovernanceInv'
<1>1. g' = [g EXCEPT !.guardianPauseExpiry = GUARDIAN_PAUSE_DURATION]
      /\ timestamp' = timestamp /\ owed' = owed
  BY DEF pause
<1>2. g' \in State /\ g'.vetoUntil = g.vetoUntil
  BY <1>1, TypesSay, GovernanceConfig DEF State
<1>3. TimelockTypeOK'
  BY <1>1, <1>2 DEF GovernanceInv, TimelockTypeOK, State, pending
<1>4. OwedInTime'
  BY <1>1, <1>2 DEF GovernanceInv, OwedInTime
<1> QED BY <1>3, <1>4 DEF GovernanceInv

\* What is scheduled while a veto lasts is owed if its delay is below the cooldown.
LEMMA ScheduleStep ==
  ASSUME GovernanceInv, NEW op \in Operations, schedule(op)
  PROVE  GovernanceInv'
<1>1. ~pending(op) /\ timestamp' = [timestamp EXCEPT ![op] = getMinDelay] /\ g' = g
      /\ owed' = IF executionPaused(g) /\ getMinDelay < VETO_COOLDOWN THEN owed \cup {op} ELSE owed
  BY DEF schedule
<1>2. getMinDelay \in Nat
  BY TypesSay, GovernanceConfig DEF getMinDelay, State
<1>3. op \notin owed
  BY <1>1 DEF GovernanceInv, TimelockTypeOK
<1>4. timestamp'[op] = getMinDelay /\ \A o \in Operations \ {op} : timestamp'[o] = timestamp[o]
  BY <1>1, TypesSay
<1>5. timestamp' \in [Operations -> Nat \cup {Unset}]
  BY <1>1, <1>2 DEF GovernanceInv, TimelockTypeOK
<1>6. owed' \subseteq {o \in Operations : timestamp'[o] # Unset}
  BY <1>1, <1>2, <1>3, <1>4, TypesSay DEF Unset
<1>7. TimelockTypeOK'
  BY <1>1, <1>5, <1>6 DEF GovernanceInv, TimelockTypeOK, pending
<1>8. ASSUME NEW o \in owed'
      PROVE  /\ timestamp'[o] < VETO_COOLDOWN
             /\ g'.vetoUntil <= 0 => timestamp'[o] < VETO_COOLDOWN + g'.vetoUntil
  <2>1. CASE o = op
    BY <1>1, <1>3, <1>4, <1>8, <2>1, TypesSay DEF executionPaused
  <2>2. CASE o # op
    <3>1. o \in owed /\ o \in Operations
      BY <1>1, <1>8, <2>2, TypesSay
    <3> QED BY <1>1, <1>4, <2>2, <3>1 DEF GovernanceInv, OwedInTime
  <2> QED BY <2>1, <2>2
<1>9. OwedInTime'
  BY <1>8 DEF OwedInTime
<1> QED BY <1>7, <1>9 DEF GovernanceInv

\* What is no longer scheduled is no longer owed.
LEMMA DropKeeps ==
  ASSUME GovernanceInv, NEW op \in Operations, g' \in State,
         g'.vetoUntil \in {g.vetoUntil, earlier(g.vetoUntil)},
         timestamp' = [timestamp EXCEPT ![op] = Unset], owed' = owed \ {op}
  PROVE  GovernanceInv'
<1>1. timestamp' \in [Operations -> Nat \cup {Unset}]
  BY DEF GovernanceInv, TimelockTypeOK
<1>2. \A o \in owed' : o \in owed /\ o \in Operations /\ timestamp'[o] = timestamp[o]
  BY TypesSay
<1>3. owed' \subseteq {o \in Operations : timestamp'[o] # Unset}
  BY <1>2, TypesSay DEF Unset
<1>4. TimelockTypeOK'
  BY <1>1, <1>3 DEF TimelockTypeOK, State, pending
<1>5. ASSUME NEW o \in owed'
      PROVE  /\ timestamp'[o] < VETO_COOLDOWN
             /\ g'.vetoUntil <= 0 => timestamp'[o] < VETO_COOLDOWN + g'.vetoUntil
  BY <1>2, TypesSay, GovernanceConfig DEF GovernanceInv, OwedInTime, earlier
<1>6. OwedInTime'
  BY <1>5 DEF OwedInTime
<1> QED BY <1>4, <1>6 DEF GovernanceInv

\* A cancelled operation.
LEMMA CancelStep ==
  ASSUME GovernanceInv, NEW op \in Operations, cancel(op)
  PROVE  GovernanceInv'
  BY DropKeeps, TypesSay DEF cancel

\* An executed operation: its calls may end the veto.
LEMMA ExecuteVeto ==
  ASSUME GovernanceInv, NEW op \in Operations, execute(op)
  PROVE  g' \in State /\ g'.vetoUntil \in {g.vetoUntil, earlier(g.vetoUntil)}
<1>1. op \in Seq(Call) /\ SubSeq(op, 1, Len(op)) = op
  BY GovernanceConfig
<1>2. g' = FoldLeft(effect, g, op)
  BY <1>1 DEF execute, after
<1> QED BY <1>1, <1>2, TypesSay, OperationTyped

\* The executed operation leaves the table.
LEMMA ExecuteStep ==
  ASSUME GovernanceInv, NEW op \in Operations, execute(op)
  PROVE  GovernanceInv'
<1>1. timestamp' = [timestamp EXCEPT ![op] = Unset] /\ owed' = owed \ {op}
  BY DEF execute
<1> QED BY <1>1, ExecuteVeto, DropKeeps

\* A day goes by: the cooldown and the delays shrink by the same day, and what was
\* ready for a whole day without a veto is owed no longer.
LEMMA TickStep ==
  ASSUME GovernanceInv, DayPasses
  PROVE  GovernanceInv'
<1>1. g' = [g EXCEPT
            !.vetoUntil = IF @ > -VETO_COOLDOWN THEN @ - 1 ELSE @,
            !.guardianPauseExpiry = IF @ > -GUARDIAN_PAUSE_COOLDOWN THEN @ - 1 ELSE @]
  BY DEF DayPasses
<1>2. g' \in State
      /\ g'.vetoUntil = IF g.vetoUntil > -VETO_COOLDOWN THEN g.vetoUntil - 1 ELSE g.vetoUntil
  <2> DEFINE v == IF g.vetoUntil > -VETO_COOLDOWN THEN g.vetoUntil - 1 ELSE g.vetoUntil
             e == IF g.guardianPauseExpiry > -GUARDIAN_PAUSE_COOLDOWN
                  THEN g.guardianPauseExpiry - 1 ELSE g.guardianPauseExpiry
  <2>1. v \in -VETO_COOLDOWN .. VETO_DURATION
        /\ e \in -GUARDIAN_PAUSE_COOLDOWN .. GUARDIAN_PAUSE_DURATION
    BY TypesSay, GovernanceConfig DEF State
  <2>2. g' = [g EXCEPT !.vetoUntil = v, !.guardianPauseExpiry = e]
    BY <1>1
  <2> HIDE DEF v, e
  <2>3. g' \in State /\ g'.vetoUntil = v
    BY <2>1, <2>2, TypesSay DEF State
  <2> QED BY <2>3 DEF v
<1>3. timestamp' = [op \in Operations |-> IF timestamp[op] > 0 THEN timestamp[op] - 1
                                          ELSE timestamp[op]]
      /\ owed' = IF executionPaused(g) THEN owed ELSE {op \in owed : timestamp[op] > 0}
  BY DEF DayPasses
<1>4. timestamp' \in [Operations -> Nat \cup {Unset}]
  <2>1. \A op \in Operations : timestamp'[op] \in Nat \cup {Unset}
    BY <1>3, TypesSay DEF Unset
  <2> QED BY <1>3, <2>1
<1>5. \A op \in owed' : op \in owed /\ op \in Operations /\ timestamp[op] \in Nat
  BY <1>3, TypesSay
<1>6. owed' \subseteq {op \in Operations : timestamp'[op] # Unset}
  BY <1>3, <1>5 DEF Unset
<1>7. TimelockTypeOK'
  BY <1>2, <1>4, <1>6 DEF TimelockTypeOK, State, pending
<1>8. ASSUME NEW op \in owed'
      PROVE  /\ timestamp'[op] < VETO_COOLDOWN
             /\ g'.vetoUntil <= 0 => timestamp'[op] < VETO_COOLDOWN + g'.vetoUntil
  <2>1. /\ timestamp[op] \in Nat /\ timestamp[op] < VETO_COOLDOWN
        /\ g.vetoUntil <= 0 => timestamp[op] < VETO_COOLDOWN + g.vetoUntil
        /\ g.vetoUntil \in Int /\ VETO_COOLDOWN \in Nat
    BY <1>5, TypesSay, GovernanceConfig DEF GovernanceInv, OwedInTime
  <2>2. timestamp'[op] = IF timestamp[op] > 0 THEN timestamp[op] - 1 ELSE timestamp[op]
    BY <1>3, <1>5
  <2>3. g.vetoUntil <= 0 => timestamp[op] > 0
    BY <1>3, <1>8, <2>1 DEF executionPaused
  <2> QED BY <1>2, <2>1, <2>2, <2>3
<1>9. OwedInTime'
  BY <1>8 DEF OwedInTime
<1> QED BY <1>7, <1>9 DEF GovernanceInv

\* The invariant holds at the start and is kept by every step.
THEOREM GovernanceInvariant == TimelockSpec => []GovernanceInv
<1>1. TimelockInit => GovernanceInv
  <2> SUFFICES ASSUME TimelockInit PROVE GovernanceInv
    OBVIOUS
  <2>1. g \in State
    BY GovernanceConfig DEF TimelockInit, State
  <2>2. TimelockTypeOK
    BY <2>1 DEF TimelockInit, TimelockTypeOK, State
  <2> QED BY <2>2 DEF TimelockInit, GovernanceInv, OwedInTime
<1>2. GovernanceInv /\ [TimelockNext]_timelockVars => GovernanceInv'
  <2> SUFFICES ASSUME GovernanceInv, [TimelockNext]_timelockVars PROVE GovernanceInv'
    OBVIOUS
  <2>1. CASE UNCHANGED timelockVars
    BY <2>1 DEF timelockVars, GovernanceInv, TimelockTypeOK, OwedInTime, pending
  <2>2. CASE TimelockNext
    BY <2>2, PauseExecutionStep, PauseStep, ScheduleStep, CancelStep, ExecuteStep, TickStep DEF TimelockNext
  <2> QED BY <2>1, <2>2
<1> QED BY <1>1, <1>2, PTL DEF TimelockSpec

\* KryonTimelock.sol, pauseExecution: a new veto finds nothing owed, because only
\* pauseExecution lengthens a veto and its cooldown has used up every delay.
THEOREM VetoWindowIsLeft == TimelockSpec => VetoLeavesWindow
<1>1. GovernanceInv /\ [TimelockNext]_timelockVars => [g'.vetoUntil > g.vetoUntil => owed = {}]_timelockVars
  <2> SUFFICES ASSUME GovernanceInv, TimelockNext, g'.vetoUntil > g.vetoUntil PROVE owed = {}
    BY DEF timelockVars
  <2>1. CASE pauseExecution
    BY <2>1, NothingOwed DEF pauseExecution
  <2>2. CASE pause
    BY <2>2, TypesSay DEF pause, State
  <2>3. CASE \E op \in Operations : schedule(op) \/ cancel(op)
    BY <2>3, TypesSay DEF schedule, cancel
  <2>4. CASE \E op \in Operations : execute(op)
    BY <2>4, ExecuteVeto, TypesSay DEF earlier
  <2>5. CASE DayPasses
    BY <2>5, TypesSay, GovernanceConfig DEF DayPasses, State
  <2> QED BY <2>1, <2>2, <2>3, <2>4, <2>5 DEF TimelockNext
<1> QED BY <1>1, GovernanceInvariant, PTL DEF TimelockSpec, VetoLeavesWindow

-----------------------------------------------------------------------------
(* The oracle.                                                             *)

-----------------------------------------------------------------------------
(* Medians.                                                                *)

\* A finite set of numbers has a greatest and a least one.
LEMMA FiniteExtremes ==
  ASSUME NEW S, IsFiniteSet(S), S # {}, S \subseteq Int
  PROVE  /\ \E m \in S : \A k \in S : k <= m
         /\ \E m \in S : \A k \in S : m <= k
<1> DEFINE Bounded(T) == T # {} => /\ \E m \in T : \A k \in T : k <= m
                                   /\ \E m \in T : \A k \in T : m <= k
           Good == {T \in SUBSET S : Bounded(T)}
<1>1. {} \in Good
  OBVIOUS
<1>2. ASSUME NEW T \in SUBSET S, T # {}, \A x \in T : T \ {x} \in Good
      PROVE  T \in Good
  <2>1. PICK x \in T : TRUE
    BY <1>2
  <2>2. x \in Int /\ T \subseteq Int
    OBVIOUS
  <2>3. CASE T \ {x} = {}
    <3>1. T = {x}
      BY <2>1, <2>3
    <3> QED
      BY <2>2, <3>1
  <2>4. CASE T \ {x} # {}
    <3>1. Bounded(T \ {x})
      BY <1>2, <2>1
    <3>2. PICK hi \in T \ {x} : \A k \in T \ {x} : k <= hi
      BY <2>4, <3>1
    <3>3. PICK lo \in T \ {x} : \A k \in T \ {x} : lo <= k
      BY <2>4, <3>1
    <3>4. \E m \in T : \A k \in T : k <= m
      <4>1. CASE x <= hi
        BY <2>2, <3>2, <4>1
      <4>2. CASE hi <= x
        <5>1. \A k \in T : k <= x
          BY <2>2, <3>2, <4>2
        <5> QED
          BY <2>1, <5>1
      <4> QED
        BY <2>2, <4>1, <4>2
    <3>5. \E m \in T : \A k \in T : m <= k
      <4>1. CASE lo <= x
        BY <2>2, <3>3, <4>1
      <4>2. CASE x <= lo
        <5>1. \A k \in T : x <= k
          BY <2>2, <3>3, <4>2
        <5> QED
          BY <2>1, <5>1
      <4> QED
        BY <2>2, <4>1, <4>2
    <3> QED
      BY <3>4, <3>5
  <2> QED
    BY <2>3, <2>4
<1>3. S \in Good
  <2> HIDE DEF Good
  <2> QED
    BY <1>1, <1>2, SubsetInduction
<1> QED
  BY <1>3

\* A finite set of readings.
Priced(Q) == IsFiniteSet(Q) /\ \A q \in Q : q.price \in Nat

Below(Q, x) == {r \in Q : r.price < x}
AtMost(Q, x) == {r \in Q : r.price <= x}

\* The readings below a price, and up to it, are finitely many.
LEMMA CountsAreFinite ==
  ASSUME NEW Q, Priced(Q), NEW x
  PROVE  /\ IsFiniteSet(Below(Q, x)) /\ Cardinality(Below(Q, x)) \in Nat
         /\ IsFiniteSet(AtMost(Q, x)) /\ Cardinality(AtMost(Q, x)) \in Nat
         /\ Cardinality(Q) \in Nat
  BY FS_Subset, FS_CardinalityType DEF Priced, Below, AtMost

\* Finitely many readings have finitely many prices.
LEMMA PricesFinite ==
  ASSUME NEW Q, IsFiniteSet(Q)
  PROVE  IsFiniteSet({q.price : q \in Q})
<1> DEFINE P == {q.price : q \in Q}
           of == [q \in Q |-> q.price]
<1>1. of \in Surjection(Q, P)
  BY DEF Surjection
<1> HIDE DEF P, of
<1>2. IsFiniteSet(P)
  BY <1>1, FS_Surjection
<1> QED
  BY <1>2 DEF P

\* There is a k-th smallest reading.
LEMMA RankExists ==
  ASSUME NEW Q, Priced(Q), NEW k \in 1..Cardinality(Q)
  PROVE  \E q \in Q : /\ Cardinality(Below(Q, q.price)) < k
                      /\ Cardinality(AtMost(Q, q.price)) >= k
<1> DEFINE P == {q.price : q \in Q}
           G == {x \in P : Cardinality(AtMost(Q, x)) >= k}
<1>1. IsFiniteSet(P) /\ P \subseteq Int
  BY PricesFinite DEF Priced
<1>2. Q # {}
  <2>1. Cardinality({}) = 0
    BY FS_EmptySet
  <2> QED
    BY <2>1
<1>3. PICK top \in P : \A x \in P : x <= top
  <2>1. P # {}
    BY <1>2
  <2> HIDE DEF P
  <2> QED
    BY <1>1, <2>1, FiniteExtremes
<1>4. AtMost(Q, top) = Q
  BY <1>3 DEF AtMost
<1>5. top \in G
  BY <1>3, <1>4, CountsAreFinite
<1>6. IsFiniteSet(G) /\ G \subseteq Int
  BY <1>1, FS_Subset
<1>7. PICK x \in G : \A y \in G : x <= y
  <2> HIDE DEF G
  <2> QED
    BY <1>5, <1>6, FiniteExtremes
<1>8. PICK q \in Q : q.price = x
  BY <1>7
<1>9. Cardinality(Below(Q, x)) < k
  <2> DEFINE L == {r.price : r \in Below(Q, x)}
  <2>1. CASE Below(Q, x) = {}
    BY <2>1, FS_EmptySet
  <2>2. CASE Below(Q, x) # {}
    <3>1. IsFiniteSet(L) /\ L \subseteq Int /\ L # {}
      <4>1. IsFiniteSet(Below(Q, x))
        BY CountsAreFinite
      <4>2. L \subseteq Int /\ L # {}
        BY <2>2 DEF Priced, Below
      <4> QED
        BY <4>1, <4>2, PricesFinite
    <3>2. PICK y \in L : \A z \in L : z <= y
      <4> HIDE DEF L
      <4> QED
        BY <3>1, FiniteExtremes
    <3>3. y \in P /\ y < x /\ y \in Int /\ x \in Int
      BY <1>1, <1>7, <3>1, <3>2 DEF Below
    <3>4. Below(Q, x) = AtMost(Q, y)
      BY <3>2, <3>3 DEF Below, AtMost, Priced
    <3>5. ~(Cardinality(AtMost(Q, y)) >= k)
      BY <1>7, <3>3
    <3> QED
      BY <3>4, <3>5, CountsAreFinite
  <2> QED
    BY <2>1, <2>2
<1> QED
  BY <1>7, <1>8, <1>9

\* And its price is the only one of that rank.
LEMMA RankUnique ==
  ASSUME NEW Q, Priced(Q), NEW k \in Nat, NEW q \in Q, NEW r \in Q,
         Cardinality(Below(Q, q.price)) < k, Cardinality(AtMost(Q, q.price)) >= k,
         Cardinality(Below(Q, r.price)) < k, Cardinality(AtMost(Q, r.price)) >= k
  PROVE  q.price = r.price
<1>1. ASSUME NEW s \in Q, NEW t \in Q, s.price < t.price,
             Cardinality(AtMost(Q, s.price)) >= k, Cardinality(Below(Q, t.price)) < k
      PROVE  FALSE
  <2>1. AtMost(Q, s.price) \subseteq Below(Q, t.price)
    BY <1>1 DEF AtMost, Below, Priced
  <2>2. Cardinality(AtMost(Q, s.price)) <= Cardinality(Below(Q, t.price))
    BY <2>1, CountsAreFinite, FS_Subset
  <2> QED
    BY <1>1, <2>2, CountsAreFinite
<1>2. q.price \in Nat /\ r.price \in Nat
  BY DEF Priced
<1> QED
  BY <1>1, <1>2

\* The k-th price is the price of a reading, with fewer than k below it and k up to it.
LEMMA RankIs ==
  ASSUME NEW Q, Priced(Q), NEW k \in 1..Cardinality(Q)
  PROVE  \E q \in Q : /\ rank(Q, k) = q.price
                      /\ Cardinality(Below(Q, q.price)) < k
                      /\ Cardinality(AtMost(Q, q.price)) >= k
<1>1. rank(Q, k) = (CHOOSE q \in Q : /\ Cardinality(Below(Q, q.price)) < k
                                     /\ Cardinality(AtMost(Q, q.price)) >= k).price
  BY DEF rank, Below, AtMost
<1> QED
  BY <1>1, RankExists

\* The median lies between two of the readings.
LEMMA MedianBetween ==
  ASSUME NEW Q, Priced(Q), Q # {}
  PROVE  /\ median(Q) \in Nat
         /\ \E lo, hi \in Q : lo.price <= median(Q) /\ median(Q) <= hi.price
<1>1. PICK n : n = Cardinality(Q)
  OBVIOUS
<1>2. n \in Nat /\ n > 0
  BY <1>1, FS_CardinalityType, FS_EmptySet DEF Priced
<1>3. median(Q) = IF n % 2 = 1 THEN rank(Q, n \div 2 + 1)
                  ELSE (rank(Q, n \div 2) + rank(Q, n \div 2 + 1)) \div 2
  BY <1>1 DEF median
<1>4. CASE n % 2 = 1
  <2>1. n \div 2 + 1 \in 1..n
    BY <1>2, <1>4
  <2>2. PICK q \in Q : rank(Q, n \div 2 + 1) = q.price
    BY <1>1, <2>1, RankIs
  <2> QED
    BY <1>3, <1>4, <2>2 DEF Priced
<1>5. CASE n % 2 # 1
  <2>1. n \div 2 + 1 \in 1..n /\ n \div 2 \in 1..n
    BY <1>2, <1>5
  <2>2. PICK q \in Q : rank(Q, n \div 2) = q.price
    BY <1>1, <2>1, RankIs
  <2>3. PICK r \in Q : rank(Q, n \div 2 + 1) = r.price
    BY <1>1, <2>1, RankIs
  <2>4. q.price \in Nat /\ r.price \in Nat
    BY DEF Priced
  <2>5. median(Q) = (q.price + r.price) \div 2
    BY <1>3, <1>5, <2>2, <2>3
  <2>6. CASE q.price <= r.price
    <3>1. q.price <= median(Q) /\ median(Q) <= r.price /\ median(Q) \in Nat
      BY <2>4, <2>5, <2>6
    <3> QED
      BY <3>1
  <2>7. CASE r.price <= q.price
    <3>1. r.price <= median(Q) /\ median(Q) <= q.price /\ median(Q) \in Nat
      BY <2>4, <2>5, <2>7
    <3> QED
      BY <3>1
  <2> QED
    BY <2>4, <2>6, <2>7
<1> QED
  BY <1>4, <1>5

\* A one-to-one correspondence counts.
LEMMA Correspondence ==
  ASSUME NEW S, IsFiniteSet(S), NEW T, NEW f \in [S -> T],
         \A t \in T : \E s \in S : f[s] = t, \A s, r \in S : f[s] = f[r] => s = r
  PROVE  IsFiniteSet(T) /\ Cardinality(T) = Cardinality(S)
<1>1. f \in Bijection(S, T)
  BY DEF Bijection, Injection, Surjection, IsInjective
<1>2. ExistsBijection(S, T)
  BY <1>1 DEF ExistsBijection
<1> QED
  BY <1>2, FS_Bijection

\* Two sets of readings that agree, reading by reading, on the price have the same median.
LEMMA MedianAgrees ==
  ASSUME NEW Q, Priced(Q), NEW R, NEW f \in [Q -> R],
         \A r \in R : \E q \in Q : f[q] = r, \A q, s \in Q : f[q] = f[s] => q = s,
         \A q \in Q : f[q].price = q.price, Q # {}
  PROVE  Priced(R) /\ Cardinality(R) = Cardinality(Q) /\ median(R) = median(Q)
<1>1. IsFiniteSet(R) /\ Cardinality(R) = Cardinality(Q)
  BY Correspondence DEF Priced
<1>3. Priced(R)
  BY <1>1 DEF Priced
<1>4. ASSUME NEW x
      PROVE  /\ Cardinality(Below(R, x)) = Cardinality(Below(Q, x))
             /\ Cardinality(AtMost(R, x)) = Cardinality(AtMost(Q, x))
  <2>1. Cardinality(Below(R, x)) = Cardinality(Below(Q, x))
    <3> DEFINE S == Below(Q, x)
               T == Below(R, x)
               back == [q \in S |-> f[q]]
    <3>1. S \subseteq Q /\ back \in [S -> T] /\ \A q \in S : back[q] = f[q]
      BY DEF Below
    <3>2. \A r \in T : \E q \in S : back[q] = r
      BY <3>1 DEF Below
    <3>3. \A q, s \in S : back[q] = back[s] => q = s
      BY <3>1
    <3>4. IsFiniteSet(S)
      BY CountsAreFinite
    <3> HIDE DEF S, T, back
    <3>5. Cardinality(T) = Cardinality(S)
      BY <3>1, <3>2, <3>3, <3>4, Correspondence
    <3> QED
      BY <3>5 DEF S, T
  <2>2. Cardinality(AtMost(R, x)) = Cardinality(AtMost(Q, x))
    <3> DEFINE S == AtMost(Q, x)
               T == AtMost(R, x)
               back == [q \in S |-> f[q]]
    <3>1. S \subseteq Q /\ back \in [S -> T] /\ \A q \in S : back[q] = f[q]
      BY DEF AtMost
    <3>2. \A r \in T : \E q \in S : back[q] = r
      BY <3>1 DEF AtMost
    <3>3. \A q, s \in S : back[q] = back[s] => q = s
      BY <3>1
    <3>4. IsFiniteSet(S)
      BY CountsAreFinite
    <3> HIDE DEF S, T, back
    <3>5. Cardinality(T) = Cardinality(S)
      BY <3>1, <3>2, <3>3, <3>4, Correspondence
    <3> QED
      BY <3>5 DEF S, T
  <2> QED
    BY <2>1, <2>2
<1>5. ASSUME NEW k \in 1..Cardinality(Q)
      PROVE  rank(R, k) = rank(Q, k)
  <2>1. PICK q \in Q : /\ rank(Q, k) = q.price
                       /\ Cardinality(Below(Q, q.price)) < k
                       /\ Cardinality(AtMost(Q, q.price)) >= k
    BY RankIs
  <2>2. PICK r \in R : /\ rank(R, k) = r.price
                       /\ Cardinality(Below(R, r.price)) < k
                       /\ Cardinality(AtMost(R, r.price)) >= k
    BY <1>1, <1>3, RankIs
  <2>3. f[q] \in R /\ f[q].price = q.price
    OBVIOUS
  <2>4. /\ Cardinality(Below(R, f[q].price)) < k
        /\ Cardinality(AtMost(R, f[q].price)) >= k
    BY <1>4, <2>1, <2>3
  <2>5. f[q].price = r.price
    BY <1>3, <2>2, <2>3, <2>4, RankUnique
  <2> QED
    BY <2>1, <2>2, <2>3, <2>5
<1>6. PICK n : n = Cardinality(Q)
  OBVIOUS
<1>7. n \in Nat /\ n > 0
  BY <1>6, FS_CardinalityType, FS_EmptySet DEF Priced
<1>8. median(Q) = median(R)
  <2>1. CASE n % 2 = 1
    <3>1. n \div 2 + 1 \in 1..n
      BY <1>7, <2>1
    <3> QED
      BY <1>1, <1>5, <1>6, <2>1, <3>1 DEF median
  <2>2. CASE n % 2 # 1
    <3>1. n \div 2 + 1 \in 1..n /\ n \div 2 \in 1..n
      BY <1>7, <2>2
    <3> QED
      BY <1>1, <1>5, <1>6, <2>2, <3>1 DEF median
  <2> QED
    BY <2>1, <2>2
<1> QED
  BY <1>1, <1>3, <1>8

\* The greatest number of a finite set.
LEMMA MaximumIs ==
  ASSUME NEW S, IsFiniteSet(S), S # {}, S \subseteq Nat
  PROVE  maximum(S) \in S /\ \A y \in S : y <= maximum(S)
<1>1. S \subseteq Int
  OBVIOUS
<1>2. \E m \in S : \A k \in S : k <= m
  BY <1>1, FiniteExtremes
<1> QED
  BY <1>2 DEF maximum

-----------------------------------------------------------------------------
(* What an observation may say: a price between two that were traded no    *)
(* longer ago than the observation's age and the venues' quote age.        *)

Observation == [price : Nat, confidence : Nat, age : 0..Old]

Snapshot == [price : Nat, confidence : Nat, pubAge : 0..Old, writeAge : 0..Old]

Recent(s, price, age) ==
  \E lo, hi \in {x \in Prices : s[x] <= MAX_QUOTE_AGE + age - BACKDATE} :
    lo <= price /\ price <= hi

Sound(s) == {o \in Observation : o.price # 0 /\ o.age <= MAX_AGE => Recent(s, o.price, o.age)}

SoundSnapshot(s) ==
  {r \in Snapshot : r.price # 0 /\ r.pubAge <= MAX_AGE => Recent(s, r.price, r.pubAge)}

Times == [Prices -> 0..SeenCap]

\* The inductive invariant: everything stored, planned or on its way is such an observation.
OracleInv ==
  /\ members \subseteq Publishers /\ market \in Prices /\ seen \in Times
  /\ obs \in [Publishers -> Sound(seen)]
  /\ plan \in [Publishers -> Sound(seen)]
  /\ pool \in [Publishers -> Seq(Sound(seen))]
  /\ snap \in SoundSnapshot(seen)

\* The types of the bounds that the assumption on the constants gives.
LEMMA Bounds ==
  /\ MAX_AGE \in Nat /\ Old \in Nat /\ Old = MAX_AGE + 1 /\ MAX_QUOTE_AGE \in Nat
  /\ BACKDATE \in 0..MAX_AGE /\ SeenCap \in Nat /\ Prices \subseteq Nat
  /\ MIN_PUBLISHERS \in Nat /\ MIN_PUBLISHERS > 0
  BY OracleAssumption DEF Old, SeenCap

\* A price that was recent enough is recent enough for an older observation, and when
\* prices were traded later.
LEMMA RecentGrows ==
  ASSUME NEW s \in Times, NEW t \in Times, NEW price, NEW age \in Nat, NEW later \in Nat,
         Recent(s, price, age), \A x \in Prices : t[x] - later <= s[x] - age
  PROVE  Recent(t, price, later)
<1>1. PICK lo \in Prices, hi \in Prices :
        /\ s[lo] <= MAX_QUOTE_AGE + age - BACKDATE /\ s[hi] <= MAX_QUOTE_AGE + age - BACKDATE
        /\ lo <= price /\ price <= hi
  BY DEF Recent
<1>2. s[lo] \in Nat /\ s[hi] \in Nat /\ t[lo] \in Nat /\ t[hi] \in Nat
  BY Bounds DEF Times
<1>3. t[lo] - later <= s[lo] - age /\ t[hi] - later <= s[hi] - age
  OBVIOUS
<1>4. t[lo] <= MAX_QUOTE_AGE + later - BACKDATE /\ t[hi] <= MAX_QUOTE_AGE + later - BACKDATE
  BY <1>1, <1>2, <1>3, Bounds
<1> QED
  BY <1>1, <1>4 DEF Recent

\* A move of the market makes nothing less recent.
LEMMA SoundKept ==
  ASSUME NEW s \in Times, NEW t \in Times, \A x \in Prices : t[x] <= s[x]
  PROVE  Sound(s) \subseteq Sound(t) /\ SoundSnapshot(s) \subseteq SoundSnapshot(t)
<1>1. ASSUME NEW price, NEW age \in 0..Old, Recent(s, price, age) PROVE Recent(t, price, age)
  <2>1. \A x \in Prices : s[x] \in Nat /\ t[x] \in Nat
    BY Bounds DEF Times
  <2>2. age \in Nat
    BY Bounds
  <2>3. \A x \in Prices : t[x] - age <= s[x] - age
    BY <2>1, <2>2
  <2> QED
    BY <1>1, <2>2, <2>3, RecentGrows
<1>2. Sound(s) \subseteq Sound(t)
  BY <1>1 DEF Sound, Observation
<1>3. SoundSnapshot(s) \subseteq SoundSnapshot(t)
  BY <1>1 DEF SoundSnapshot, Snapshot
<1> QED
  BY <1>2, <1>3

\* Nor does a unit of time, which ages the observation as much as the trades.
LEMMA SoundAges ==
  ASSUME NEW s \in Times, NEW t \in Times, \A x \in Prices : t[x] <= s[x] + 1
  PROVE  /\ \A o \in Sound(s) : aged(o) \in Sound(t)
         /\ \A r \in SoundSnapshot(s) : agedSnap(r) \in SoundSnapshot(t)
<1>1. ASSUME NEW price, NEW age \in Nat, Recent(s, price, age) PROVE Recent(t, price, age + 1)
  <2>1. \A x \in Prices : s[x] \in Nat /\ t[x] \in Nat
    BY Bounds DEF Times
  <2>2. \A x \in Prices : t[x] - (age + 1) <= s[x] - age
    BY <2>1
  <2>3. age + 1 \in Nat
    OBVIOUS
  <2> QED
    BY <1>1, <2>2, <2>3, RecentGrows
<1>2. \A a \in 0..Old : older(a, Old) \in 0..Old /\ (older(a, Old) <= MAX_AGE => older(a, Old) = a + 1 /\ a <= MAX_AGE)
  BY Bounds DEF older
<1>3. ASSUME NEW o \in Sound(s) PROVE aged(o) \in Sound(t)
  <2>1. o \in Observation /\ (o.price # 0 /\ o.age <= MAX_AGE => Recent(s, o.price, o.age))
    BY DEF Sound
  <2>2. PICK q : q = aged(o)
    OBVIOUS
  <2>3. q \in Observation /\ q.price = o.price /\ q.age = older(o.age, Old)
    BY <1>2, <2>1, <2>2 DEF aged, Observation
  <2>4. o.age \in 0..Old /\ o.age \in Nat
    BY <2>1, Bounds DEF Observation
  <2>5. q.price # 0 /\ q.age <= MAX_AGE => Recent(t, q.price, q.age)
    BY <1>1, <1>2, <2>1, <2>3, <2>4
  <2> QED
    BY <2>2, <2>3, <2>5 DEF Sound
<1>4. ASSUME NEW r \in SoundSnapshot(s) PROVE agedSnap(r) \in SoundSnapshot(t)
  <2>1. r \in Snapshot /\ (r.price # 0 /\ r.pubAge <= MAX_AGE => Recent(s, r.price, r.pubAge))
    BY DEF SoundSnapshot
  <2>2. PICK q : q = agedSnap(r)
    OBVIOUS
  <2>3. q \in Snapshot /\ q.price = r.price /\ q.pubAge = older(r.pubAge, Old)
    BY <1>2, <2>1, <2>2 DEF agedSnap, Snapshot
  <2>4. r.pubAge \in 0..Old /\ r.pubAge \in Nat
    BY <2>1, Bounds DEF Snapshot
  <2>5. q.price # 0 /\ q.pubAge <= MAX_AGE => Recent(t, q.price, q.pubAge)
    BY <1>1, <1>2, <2>1, <2>3, <2>4
  <2> QED
    BY <2>2, <2>3, <2>5 DEF SoundSnapshot
<1> QED
  BY <1>3, <1>4

\* Nothing stored, or read, says nothing that is unsound.
LEMMA NothingIsSound ==
  ASSUME NEW s PROVE NoObservation \in Sound(s) /\ NoSnapshot \in SoundSnapshot(s)
  BY Bounds DEF Sound, SoundSnapshot, NoObservation, NoSnapshot, Observation, Snapshot

-----------------------------------------------------------------------------
(* The steps that make an observation or a snapshot.                       *)

\* Venues answer once each, so what is collected is finite.
LEMMA AnswersFinite ==
  ASSUME NEW Q, Q \subseteq [by : Venues, price : Prices], \A q, r \in Q : q.by = r.by => q = r
  PROVE  IsFiniteSet(Q)
<1> DEFINE of == [q \in Q |-> q.by]
<1>1. of \in Injection(Q, Venues)
  BY DEF Injection, IsInjective
<1> HIDE DEF of
<1> QED
  BY <1>1, FS_Injection, OracleAssumption

\* Each venue answers a publisher at most once, with a price.
LEMMA AnswersAre ==
  ASSUME OracleInv, NEW Q \in Answers
  PROVE  Q \subseteq [by : Venues, price : Prices] /\ \A q, r \in Q : q.by = r.by => q = r
  BY DEF OracleInv, Answers

\* What a publisher makes of the answers is what some venues say of recent trades.
LEMMA AggregateIsRecent ==
  ASSUME OracleInv, NEW Q \in Answers, aggregate(collectQuotes(Q)).ok
  PROVE  observationOf(aggregate(collectQuotes(Q))) \in Sound(seen)
<1>1. PICK quotes : quotes = collectQuotes(Q)
  OBVIOUS
<1>2. PICK required : required = IF MIN_SOURCES > 2 THEN MIN_SOURCES ELSE 2
  OBVIOUS
<1>3. PICK kept : kept = {q \in quotes : deviationBps(q.price, median(quotes)) <= MAX_SOURCE_DEVIATION_BPS}
  OBVIOUS
<1>4. PICK m : m = median(kept)
  OBVIOUS
<1>5. PICK a : a = aggregate(quotes)
  OBVIOUS
<1>6. /\ Cardinality(kept) >= required
      /\ a = [ok |-> TRUE, price |-> m, confidence |-> maximum({absDiff(q.price, m) : q \in kept})]
  <2>1. a.ok
    BY <1>1, <1>5
  <2>2. a = IF Cardinality(quotes) < required THEN NoAggregate
            ELSE IF Cardinality(kept) < required THEN NoAggregate
            ELSE [ok |-> TRUE, price |-> m, confidence |-> maximum({absDiff(q.price, m) : q \in kept})]
    BY <1>2, <1>3, <1>4, <1>5 DEF aggregate
  <2>3. a # NoAggregate
    BY <2>1 DEF NoAggregate
  <2>4. IsFiniteSet(quotes)
    BY <1>1, AnswersAre, AnswersFinite, FS_Subset DEF collectQuotes
  <2>5. Cardinality(kept) \in Nat /\ required \in Nat
    BY <1>2, <1>3, <2>4, FS_Subset, FS_CardinalityType, OracleAssumption
  <2> QED
    BY <2>2, <2>3, <2>5
<1>7. Q \subseteq [by : Venues, price : Prices] /\ IsFiniteSet(Q)
  BY AnswersAre, AnswersFinite
<1>8. kept \subseteq Q /\ \A q \in kept : seen[q.price] <= MAX_QUOTE_AGE
  BY <1>1, <1>3 DEF collectQuotes
<1>9. Priced(kept)
  BY <1>7, <1>8, Bounds, FS_Subset DEF Priced
<1>10. kept # {}
  BY <1>2, <1>6, FS_EmptySet, OracleAssumption
<1>11. m \in Nat
  BY <1>4, <1>9, <1>10, MedianBetween
<1>12. PICK lo \in kept, hi \in kept : lo.price <= m /\ m <= hi.price
  BY <1>4, <1>9, <1>10, MedianBetween
<1>13. Recent(seen, m, BACKDATE)
  <2>1. lo.price \in Prices /\ hi.price \in Prices
    BY <1>7, <1>8
  <2>2. seen[lo.price] <= MAX_QUOTE_AGE /\ seen[hi.price] <= MAX_QUOTE_AGE
    BY <1>8
  <2>3. MAX_QUOTE_AGE + BACKDATE - BACKDATE = MAX_QUOTE_AGE
    BY Bounds
  <2> QED
    BY <1>12, <2>1, <2>2, <2>3 DEF Recent
<1>14. PICK c : c = maximum({absDiff(q.price, m) : q \in kept})
  OBVIOUS
<1>15. c \in Nat
  <2> DEFINE D == {absDiff(q.price, m) : q \in kept}
             of == [q \in kept |-> absDiff(q.price, m)]
  <2>1. of \in Surjection(kept, D)
    BY DEF Surjection
  <2>2. D \subseteq Nat /\ D # {}
    BY <1>9, <1>10, <1>11 DEF Priced, absDiff
  <2>3. IsFiniteSet(kept)
    BY <1>9 DEF Priced
  <2>4. c = maximum(D)
    BY <1>14
  <2> HIDE DEF D, of
  <2>5. IsFiniteSet(D)
    BY <2>1, <2>3, FS_Surjection
  <2> QED
    BY <2>2, <2>4, <2>5, MaximumIs
<1>16. PICK o : o = observationOf(a)
  OBVIOUS
<1>17. o = [price |-> m, confidence |-> c, age |-> BACKDATE]
  BY <1>6, <1>14, <1>16 DEF observationOf
<1>18. BACKDATE \in 0..Old
  BY Bounds
<1>19. o \in Sound(seen)
  BY <1>11, <1>13, <1>15, <1>17, <1>18 DEF Sound, Observation
<1> QED
  BY <1>1, <1>5, <1>16, <1>19

\* What is fresh on the chain is a finite set of readings of what the members stored.
LEMMA FreshAre ==
  ASSUME members \subseteq Publishers, NEW o \in [Publishers -> Observation]
  PROVE  /\ Priced(freshObs(o))
         /\ \A r \in freshObs(o) : \E p \in members :
              /\ r = reading(p, o[p]) /\ r.price = o[p].price /\ r.price # 0
              /\ r.age = o[p].age /\ r.age <= MAX_AGE /\ r.confidence = o[p].confidence
              /\ r.price \in Nat /\ r.age \in Nat /\ r.confidence \in Nat
<1> DEFINE all == {reading(p, o[p]) : p \in members}
           of == [p \in members |-> reading(p, o[p])]
<1>1. freshObs(o) \subseteq all
  BY DEF freshObs
<1>2. IsFiniteSet(all)
  <2>1. of \in Surjection(members, all)
    BY DEF Surjection
  <2>2. IsFiniteSet(members)
    BY OracleAssumption, FS_Subset
  <2> HIDE DEF all, of
  <2> QED
    BY <2>1, <2>2, FS_Surjection
<1>3. \A r \in freshObs(o) : \E p \in members :
              /\ r = reading(p, o[p]) /\ r.price = o[p].price /\ r.price # 0
              /\ r.age = o[p].age /\ r.age <= MAX_AGE /\ r.confidence = o[p].confidence
              /\ r.price \in Nat /\ r.age \in Nat /\ r.confidence \in Nat
  <2> SUFFICES ASSUME NEW r \in freshObs(o)
               PROVE  \E p \in members :
                 /\ r = reading(p, o[p]) /\ r.price = o[p].price /\ r.price # 0
                 /\ r.age = o[p].age /\ r.age <= MAX_AGE /\ r.confidence = o[p].confidence
                 /\ r.price \in Nat /\ r.age \in Nat /\ r.confidence \in Nat
    OBVIOUS
  <2>1. PICK p \in members : r = reading(p, o[p])
    BY DEF freshObs
  <2>2. r.price # 0 /\ r.age <= MAX_AGE
    BY DEF freshObs
  <2>3. o[p] \in Observation
    OBVIOUS
  <2>4. r.price = o[p].price /\ r.age = o[p].age /\ r.confidence = o[p].confidence
    BY <2>1 DEF reading
  <2>5. r.price \in Nat /\ r.age \in Nat /\ r.confidence \in Nat
    BY <2>3, <2>4, Bounds DEF Observation
  <2> QED
    BY <2>1, <2>2, <2>4, <2>5
<1>4. IsFiniteSet(freshObs(o))
  <2> HIDE DEF all
  <2> QED
    BY <1>1, <1>2, FS_Subset
<1> QED
  BY <1>3, <1>4 DEF Priced

\* The aggregate lies between two fresh observations and is as old as the oldest of them.
LEMMA AggregateIsSound ==
  ASSUME members \subseteq Publishers, seen \in Times,
         NEW o \in [Publishers -> Sound(seen)], NEW s \in SoundSnapshot(seen)
  PROVE  aggregateOnChain(o, s) \in SoundSnapshot(seen)
<1>1. PICK F : F = freshObs(o)
  OBVIOUS
<1>2. CASE skipReason(o, s) # "none"
  BY <1>2 DEF aggregateOnChain
<1>3. CASE skipReason(o, s) = "none"
  <2>1. PICK m : m = median(F)
    OBVIOUS
  <2>2. PICK a : a = maximum({r.age : r \in F})
    OBVIOUS
  <2>3. PICK c : c = maximum({r.confidence : r \in F})
    OBVIOUS
  <2>4. aggregateOnChain(o, s) = [price |-> m, confidence |-> c, pubAge |-> a, writeAge |-> 0]
    BY <1>1, <1>3, <2>1, <2>2, <2>3 DEF aggregateOnChain
  <2>5. ~(Cardinality(F) < MIN_PUBLISHERS)
    <3>1. CASE Cardinality(F) < MIN_PUBLISHERS
      <4>1. skipReason(o, s) = "quorum"
        BY <1>1, <3>1 DEF skipReason
      <4> QED
        BY <1>3, <4>1
    <3> QED
      BY <3>1
  <2>6. o \in [Publishers -> Observation]
    BY DEF Sound
  <2>7. /\ Priced(F)
        /\ \A r \in F : \E p \in members :
              /\ r = reading(p, o[p]) /\ r.price = o[p].price /\ r.price # 0
              /\ r.age = o[p].age /\ r.age <= MAX_AGE /\ r.confidence = o[p].confidence
              /\ r.price \in Nat /\ r.age \in Nat /\ r.confidence \in Nat
    BY <1>1, <2>6, FreshAre
  <2>8. F # {}
    BY <2>5, FS_EmptySet, Bounds
  <2>9. m \in Nat
    BY <2>1, <2>7, <2>8, MedianBetween
  <2>10. PICK lo \in F, hi \in F : lo.price <= m /\ m <= hi.price
    BY <2>1, <2>7, <2>8, MedianBetween
  <2>11. a \in {r.age : r \in F} /\ \A r \in F : r.age <= a
    <3> DEFINE A == {r.age : r \in F}
               of == [r \in F |-> r.age]
    <3>1. of \in Surjection(F, A)
      BY DEF Surjection
    <3>2. A \subseteq Nat /\ A # {}
      BY <2>7, <2>8
    <3>3. IsFiniteSet(F) /\ a = maximum(A)
      BY <2>2, <2>7 DEF Priced
    <3>4. IsFiniteSet(A)
      <4> HIDE DEF A, of
      <4> QED
        BY <3>1, <3>3, FS_Surjection
    <3>5. a \in A /\ \A y \in A : y <= a
      <4> HIDE DEF A
      <4> QED
        BY <3>2, <3>3, <3>4, MaximumIs
    <3> QED
      BY <3>5
  <2>12. c \in Nat
    <3> DEFINE A == {r.confidence : r \in F}
               of == [r \in F |-> r.confidence]
    <3>1. of \in Surjection(F, A)
      BY DEF Surjection
    <3>2. A \subseteq Nat /\ A # {}
      BY <2>7, <2>8
    <3>3. IsFiniteSet(F) /\ c = maximum(A)
      BY <2>3, <2>7 DEF Priced
    <3> HIDE DEF A, of
    <3>4. IsFiniteSet(A)
      BY <3>1, <3>3, FS_Surjection
    <3> QED
      BY <3>2, <3>3, <3>4, MaximumIs
  <2>13. a \in Nat /\ a <= MAX_AGE
    BY <2>7, <2>11
  <2>14. \A r \in F : Recent(seen, r.price, a)
    <3> SUFFICES ASSUME NEW r \in F PROVE Recent(seen, r.price, a)
      OBVIOUS
    <3>1. PICK p \in members :
              /\ r.price = o[p].price /\ r.price # 0
              /\ r.age = o[p].age /\ r.age <= MAX_AGE /\ r.age \in Nat
      BY <2>7
    <3>2. o[p] \in Sound(seen)
      OBVIOUS
    <3>3. Recent(seen, r.price, r.age)
      BY <3>1, <3>2 DEF Sound
    <3>4. \A x \in Prices : seen[x] \in Nat
      BY Bounds DEF Times
    <3>5. \A x \in Prices : seen[x] - a <= seen[x] - r.age
      BY <2>11, <2>13, <3>1, <3>4
    <3> QED
      BY <2>13, <3>1, <3>3, <3>5, RecentGrows
  <2>15. Recent(seen, m, a)
    <3>1. PICK x \in Prices : seen[x] <= MAX_QUOTE_AGE + a - BACKDATE /\ x <= lo.price
      BY <2>14 DEF Recent
    <3>2. PICK y \in Prices : seen[y] <= MAX_QUOTE_AGE + a - BACKDATE /\ hi.price <= y
      BY <2>14 DEF Recent
    <3>3. lo.price \in Nat /\ hi.price \in Nat /\ x \in Nat /\ y \in Nat
      BY <2>7, Bounds DEF Priced
    <3>4. x <= m /\ m <= y
      BY <2>9, <2>10, <3>1, <3>2, <3>3
    <3> QED
      BY <3>1, <3>2, <3>4 DEF Recent
  <2>16. PICK r : r = aggregateOnChain(o, s)
    OBVIOUS
  <2>17. r \in Snapshot /\ r.price = m /\ r.pubAge = a
    BY <2>4, <2>9, <2>12, <2>13, <2>16, Bounds DEF Snapshot
  <2> QED
    BY <2>15, <2>16, <2>17 DEF SoundSnapshot
<1> QED
  BY <1>2, <1>3

-----------------------------------------------------------------------------
(* The invariant, step by step.                                            *)

\* The empty adapter.
LEMMA OracleStarts ==
  ASSUME OracleInit PROVE OracleInv
<1>1. members \subseteq Publishers /\ market \in Prices
  BY DEF OracleInit
<1>2. seen \in Times
  BY Bounds DEF OracleInit, Times
<1>3. NoObservation \in Sound(seen) /\ NoSnapshot \in SoundSnapshot(seen)
  BY NothingIsSound
<1>4. obs \in [Publishers -> Sound(seen)] /\ plan \in [Publishers -> Sound(seen)] /\ snap \in SoundSnapshot(seen)
  BY <1>3 DEF OracleInit
<1>5. pool \in [Publishers -> Seq(Sound(seen))]
  BY DEF OracleInit
<1> QED
  BY <1>1, <1>2, <1>4, <1>5 DEF OracleInv

\* A publisher's tick plans from sound quotes.
LEMMA TickKeeps ==
  ASSUME OracleInv, NEW p \in Publishers, PublisherTick(p) PROVE OracleInv'
<1>1. plan' \in [Publishers -> Sound(seen)]
  <2>1. PICK a \in {aggregate(collectQuotes(answers)) : answers \in Answers} :
          \/ publishes(p, a) /\ plan' = [plan EXCEPT ![p] = observationOf(a)]
          \/ plan' = plan
    BY DEF PublisherTick
  <2>2. CASE plan' = plan
    BY <2>2 DEF OracleInv
  <2>3. CASE publishes(p, a) /\ plan' = [plan EXCEPT ![p] = observationOf(a)]
    <3>1. PICK Q \in Answers : a = aggregate(collectQuotes(Q))
      OBVIOUS
    <3>2. a.ok
      BY <2>3 DEF publishes
    <3>3. observationOf(a) \in Sound(seen)
      BY <3>1, <3>2, AggregateIsRecent
    <3> QED
      BY <2>3, <3>3 DEF OracleInv
  <2> QED
    BY <2>1, <2>2, <2>3
<1> QED
  BY <1>1 DEF OracleInv, PublisherTick, chainVars, configVars, worldVars

\* A submission puts what was planned into the pool.
LEMMA SubmitKeeps ==
  ASSUME OracleInv, NEW p \in Publishers, Submit(p) PROVE OracleInv'
<1>1. plan' \in [Publishers -> Sound(seen)]
  BY NothingIsSound DEF OracleInv, Submit
<1>2. pool' \in [Publishers -> Seq(Sound(seen))]
  <2>1. plan[p] \in Sound(seen) /\ pool[p] \in Seq(Sound(seen))
    BY DEF OracleInv
  <2>2. Append(pool[p], plan[p]) \in Seq(Sound(seen))
    BY <2>1
  <2>3. pool' = [pool EXCEPT ![p] = Append(@, plan[p])] \/ pool' = pool
    BY DEF Submit
  <2> QED
    BY <2>2, <2>3 DEF OracleInv
<1> QED
  BY <1>1, <1>2 DEF OracleInv, Submit, chainVars, configVars, worldVars

\* A mined push stores what was in the pool and aggregates.
LEMMA MineKeeps ==
  ASSUME OracleInv, NEW p \in Publishers, Mine(p) PROVE OracleInv'
<1>1. pool[p] \in Seq(Sound(seen)) /\ pool[p] # <<>>
  BY DEF OracleInv, Mine
<1>2. Head(pool[p]) \in Sound(seen) /\ Tail(pool[p]) \in Seq(Sound(seen))
  BY <1>1
<1>3. pool' \in [Publishers -> Seq(Sound(seen))]
  BY <1>2 DEF OracleInv, Mine
<1>4. obs' \in [Publishers -> Sound(seen)] /\ snap' \in SoundSnapshot(seen)
  <2>1. CASE UNCHANGED chainVars
    BY <2>1 DEF OracleInv, chainVars
  <2>2. CASE pushPrices(p, Head(pool[p]))
    <3>1. obs' = [obs EXCEPT ![p] = Head(pool[p])] /\ snap' = aggregateOnChain(obs', snap)
      BY <2>2 DEF pushPrices
    <3>2. obs' \in [Publishers -> Sound(seen)]
      BY <1>2, <3>1 DEF OracleInv
    <3>3. snap' \in SoundSnapshot(seen)
      BY <3>1, <3>2, AggregateIsSound DEF OracleInv
    <3> QED
      BY <3>2, <3>3
  <2> QED
    BY <2>1, <2>2 DEF Mine
<1> QED
  BY <1>3, <1>4 DEF OracleInv, Mine, configVars, worldVars

\* A restart forgets what was planned.
LEMMA RestartKeeps ==
  ASSUME OracleInv, NEW p \in Publishers, PublisherRestart(p) PROVE OracleInv'
<1>1. plan' \in [Publishers -> Sound(seen)]
  BY NothingIsSound DEF OracleInv, PublisherRestart
<1> QED
  BY <1>1 DEF OracleInv, PublisherRestart, chainVars, configVars

\* What was sound stays sound when only the trades change, to later ones.
LEMMA MoveKeeps ==
  ASSUME OracleInv, NEW x \in Prices, Move(x) PROVE OracleInv'
<1>1. seen' \in Times /\ \A y \in Prices : seen'[y] <= seen[y]
  BY Bounds DEF OracleInv, Move, Times
<1>2. Sound(seen) \subseteq Sound(seen') /\ SoundSnapshot(seen) \subseteq SoundSnapshot(seen')
  BY <1>1, SoundKept DEF OracleInv
<1>3. obs' = obs /\ plan' = plan /\ pool' = pool /\ snap' = snap /\ members' = members /\ market' = x
  BY DEF Move, chainVars, pubVars, configVars
<1>4. Seq(Sound(seen)) \subseteq Seq(Sound(seen'))
  BY <1>2
<1> QED
  BY <1>1, <1>2, <1>3, <1>4 DEF OracleInv

\* Time makes observations and the trades they rest on older alike.
LEMMA ElapseKeeps ==
  ASSUME OracleInv, Elapse PROVE OracleInv'
<1>1. seen' \in Times /\ \A y \in Prices : seen'[y] <= seen[y] + 1
  BY Bounds DEF OracleInv, Elapse, Times, older
<1>2. /\ \A o \in Sound(seen) : aged(o) \in Sound(seen')
      /\ \A r \in SoundSnapshot(seen) : agedSnap(r) \in SoundSnapshot(seen')
  BY <1>1, SoundAges DEF OracleInv
<1>3. obs' \in [Publishers -> Sound(seen')] /\ plan' \in [Publishers -> Sound(seen')]
      /\ snap' \in SoundSnapshot(seen')
  BY <1>2 DEF OracleInv, Elapse
<1>4. pool' \in [Publishers -> Seq(Sound(seen'))]
  <2>1. ASSUME NEW p \in Publishers PROVE pool'[p] \in Seq(Sound(seen'))
    <3>1. PICK q : q = pool[p]
      OBVIOUS
    <3>2. q \in Seq(Sound(seen)) /\ pool'[p] = [i \in DOMAIN q |-> aged(q[i])]
      BY <3>1 DEF OracleInv, Elapse
    <3>3. DOMAIN q = 1..Len(q) /\ Len(q) \in Nat /\ \A i \in DOMAIN q : q[i] \in Sound(seen)
      BY <3>2
    <3>4. \A i \in DOMAIN q : aged(q[i]) \in Sound(seen')
      BY <1>2, <3>3
    <3>5. pool'[p] \in [1..Len(q) -> Sound(seen')]
      BY <3>2, <3>3, <3>4
    <3> QED
      BY <3>3, <3>5
  <2>2. DOMAIN pool' = Publishers /\ pool' = [p \in Publishers |-> pool'[p]]
    BY DEF Elapse
  <2> QED
    BY <2>1, <2>2
<1>5. members' = members /\ market' = market
  BY DEF Elapse, configVars
<1> QED
  BY <1>1, <1>3, <1>4, <1>5 DEF OracleInv

\* Every step of the oracle keeps the invariant.
LEMMA OracleStep ==
  ASSUME OracleInv, [OracleNext]_oracleVars PROVE OracleInv'
<1>1. CASE UNCHANGED oracleVars
  BY <1>1 DEF OracleInv, oracleVars, chainVars, configVars, worldVars, pubVars
<1>2. ASSUME NEW p \in Publishers, Timeout(p) PROVE OracleInv'
  BY <1>2 DEF OracleInv, Timeout, chainVars, configVars
<1>3. ASSUME NEW S \in SUBSET Publishers, SetPublishers(S) PROVE OracleInv'
  BY <1>3 DEF OracleInv, SetPublishers, Admin, chainVars, pubVars
<1>4. CASE SetFeed
  BY <1>4 DEF OracleInv, SetFeed, Admin, chainVars, pubVars
<1>5. CASE PauseAdapter
  BY <1>5 DEF OracleInv, PauseAdapter, Admin, chainVars, pubVars
<1>6. CASE MoveReference
  BY <1>6 DEF OracleInv, MoveReference, chainVars, pubVars, configVars
<1>7. CASE MoveUsdc
  BY <1>7 DEF OracleInv, MoveUsdc, chainVars, pubVars, configVars
<1>8. CASE Settle
  BY <1>8 DEF OracleInv, Settle, chainVars, configVars
<1> QED
  BY <1>1, <1>2, <1>3, <1>4, <1>5, <1>6, <1>7, <1>8,
     TickKeeps, SubmitKeeps, MineKeeps, RestartKeeps, MoveKeeps, ElapseKeeps
     DEF OracleNext, PublisherStep

\* Whatever is stored on the adapter, planned by a publisher or still in a transaction
\* pool and young enough to count lies between two prices that were traded recently.
THEOREM OracleInvariant == OracleSpec => []OracleInv
<1>1. OracleInit => OracleInv
  BY OracleStarts
<1>2. OracleInv /\ [OracleNext]_oracleVars => OracleInv'
  BY OracleStep
<1> QED
  BY <1>1, <1>2, PTL DEF OracleSpec

\* A price that getPrice serves (OracleAdapter.sol) lies between prices that were traded
\* within the feed's age bound and the venues' quote age.
THEOREM ServedPriceIsRecent == OracleSpec => []ServedIsRecent
<1>1. OracleInv => ServedIsRecent
  <2> SUFFICES ASSUME OracleInv, Served
               PROVE  \E lo, hi \in {x \in Prices : seen[x] <= MAX_AGE + MAX_QUOTE_AGE - BACKDATE} :
                        lo <= snap.price /\ snap.price <= hi
    BY DEF ServedIsRecent
  <2>1. snap \in SoundSnapshot(seen) /\ seen \in Times
    BY DEF OracleInv
  <2>2. snap.price # 0 /\ snap.pubAge <= MAX_AGE /\ snap.pubAge \in Nat
    BY <2>1, Bounds DEF Served, SoundSnapshot, Snapshot
  <2>3. Recent(seen, snap.price, snap.pubAge)
    BY <2>1, <2>2 DEF SoundSnapshot
  <2>4. \A x \in Prices : seen[x] \in Nat
    BY <2>1, Bounds DEF Times
  <2>5. \A x \in Prices : seen[x] - MAX_AGE <= seen[x] - snap.pubAge
    BY <2>2, <2>4, Bounds
  <2>6. Recent(seen, snap.price, MAX_AGE)
    BY <2>1, <2>2, <2>3, <2>5, Bounds, RecentGrows
  <2>7. MAX_QUOTE_AGE + MAX_AGE - BACKDATE = MAX_AGE + MAX_QUOTE_AGE - BACKDATE
    BY Bounds
  <2> QED
    BY <2>6, <2>7 DEF Recent
<1> QED
  BY <1>1, OracleInvariant, PTL

-----------------------------------------------------------------------------
(* What a publisher foresees.                                              *)

\* The readings the mirror looks at: those that will still be fresh a unit of time on.
Foreseen(o) == {r \in {reading(q, o[q]) : q \in members} : r.price # 0 /\ r.age + 1 <= MAX_AGE}

Later(o) == [q \in Publishers |-> aged(o[q])]

\* They are, each a unit older, the readings that will be fresh then.
LEMMA ForeseenAgree ==
  ASSUME members \subseteq Publishers, NEW o \in [Publishers -> Observation],
         NEW F, F = Foreseen(o), NEW G, G = freshObs(Later(o))
  PROVE  \E f \in [F -> G] : /\ \A r \in G : \E q \in F : f[q] = r
                             /\ \A q, s \in F : f[q] = f[s] => q = s
                             /\ \A q \in F : f[q].price = q.price /\ f[q].age = q.age + 1 /\ q.age \in Nat
<1> DEFINE f == [r \in F |-> [by |-> r.by, price |-> r.price, confidence |-> r.confidence, age |-> r.age + 1]]
<1>1. ASSUME NEW q \in members
      PROVE  LET r == reading(q, o[q])
                 l == reading(q, Later(o)[q])
             IN /\ r.price = o[q].price /\ l.price = r.price /\ r.age \in Nat
                /\ r.by = q /\ l.by = q /\ l.confidence = r.confidence
                /\ r.age + 1 <= MAX_AGE <=> l.age <= MAX_AGE
                /\ l.age <= MAX_AGE => l.age = r.age + 1
                /\ l = [by |-> l.by, price |-> l.price, confidence |-> l.confidence, age |-> l.age]
                /\ r = [by |-> r.by, price |-> r.price, confidence |-> r.confidence, age |-> r.age]
  <2>1. o[q] \in Observation /\ o[q].age \in 0..Old
    BY DEF Observation
  <2>2. PICK a : a = aged(o[q])
    OBVIOUS
  <2>3. a.price = o[q].price /\ a.confidence = o[q].confidence /\ a.age = older(o[q].age, Old)
    BY <2>1, <2>2 DEF aged, Observation
  <2>4. Later(o)[q] = a
    BY <2>2 DEF Later
  <2>5. o[q].age \in Nat /\ (o[q].age + 1 <= MAX_AGE <=> a.age <= MAX_AGE) /\ (a.age <= MAX_AGE => a.age = o[q].age + 1)
    BY <2>1, <2>3, Bounds DEF older
  <2> QED
    BY <2>3, <2>4, <2>5 DEF reading
<1>2. ASSUME NEW r \in F
      PROVE  \E q \in members : /\ r = reading(q, o[q]) /\ reading(q, Later(o)[q]) \in G
                                /\ f[r] = reading(q, Later(o)[q])
                                /\ f[r].price = r.price /\ f[r].age = r.age + 1 /\ r.age \in Nat
                                /\ r = [by |-> r.by, price |-> r.price, confidence |-> r.confidence, age |-> r.age]
  <2>1. PICK q \in members : r = reading(q, o[q]) /\ r.price # 0 /\ r.age + 1 <= MAX_AGE
    BY DEF Foreseen
  <2>2. PICK l : l = reading(q, Later(o)[q])
    OBVIOUS
  <2>3. /\ l.price = r.price /\ l.age <= MAX_AGE /\ l.age = r.age + 1 /\ r.age \in Nat
        /\ l.by = r.by /\ l.confidence = r.confidence
        /\ l = [by |-> l.by, price |-> l.price, confidence |-> l.confidence, age |-> l.age]
        /\ r = [by |-> r.by, price |-> r.price, confidence |-> r.confidence, age |-> r.age]
    BY <1>1, <2>1, <2>2
  <2>4. l \in G
    BY <2>1, <2>2, <2>3 DEF freshObs
  <2>5. f[r] = l
    BY <2>3
  <2> HIDE DEF f
  <2> QED
    BY <2>1, <2>2, <2>3, <2>4, <2>5
<1>3. ASSUME NEW l \in G PROVE \E r \in F : f[r] = l
  <2>1. PICK q \in members : l = reading(q, Later(o)[q]) /\ l.price # 0 /\ l.age <= MAX_AGE
    BY DEF freshObs
  <2>2. PICK r : r = reading(q, o[q])
    OBVIOUS
  <2>3. /\ l.price = r.price /\ r.age + 1 <= MAX_AGE /\ l.age = r.age + 1
        /\ l.by = r.by /\ l.confidence = r.confidence
        /\ l = [by |-> l.by, price |-> l.price, confidence |-> l.confidence, age |-> l.age]
    BY <1>1, <2>1, <2>2
  <2>4. r \in F
    BY <2>1, <2>2, <2>3 DEF Foreseen
  <2>5. f[r] = l
    BY <2>3, <2>4
  <2> QED
    BY <2>4, <2>5
<1>4. ASSUME NEW q \in F, NEW s \in F, f[q] = f[s] PROVE q = s
  <2>1. /\ q = [by |-> q.by, price |-> q.price, confidence |-> q.confidence, age |-> q.age]
        /\ s = [by |-> s.by, price |-> s.price, confidence |-> s.confidence, age |-> s.age]
        /\ q.age \in Nat /\ s.age \in Nat
    BY <1>2
  <2>2. q.by = s.by /\ q.price = s.price /\ q.confidence = s.confidence /\ q.age + 1 = s.age + 1
    BY <1>4
  <2> QED
    BY <2>1, <2>2
<1>5. f \in [F -> G]
  <2>1. \A r \in F : f[r] \in G
    <3> HIDE DEF f
    <3> QED
      BY <1>2
  <2> QED
    BY <2>1
<1> HIDE DEF f
<1> QED
  BY <1>2, <1>3, <1>4, <1>5

\* The readings the mirror looks at are finitely many.
LEMMA ForeseenPriced ==
  ASSUME members \subseteq Publishers, NEW o \in [Publishers -> Observation]
  PROVE  Priced(Foreseen(o))
<1> DEFINE all == {reading(p, o[p]) : p \in members}
           of == [p \in members |-> reading(p, o[p])]
<1>1. Foreseen(o) \subseteq all
  BY DEF Foreseen
<1>2. IsFiniteSet(all)
  <2>1. of \in Surjection(members, all)
    BY DEF Surjection
  <2>2. IsFiniteSet(members)
    BY OracleAssumption, FS_Subset
  <2> HIDE DEF all, of
  <2> QED
    BY <2>1, <2>2, FS_Surjection
<1>3. \A r \in all : r.price \in Nat
  <2>1. \A p \in members : o[p] \in Observation /\ reading(p, o[p]).price = o[p].price
    BY DEF reading
  <2> QED
    BY <2>1 DEF Observation
<1> HIDE DEF all
<1> QED
  BY <1>1, <1>2, <1>3, FS_Subset DEF Priced

\* What a publisher predicts of a push (aggregate.ts and guards.ts, predictAggregate) is
\* what _aggregate (OracleAdapter.sol) makes of it in a block one time unit later.
THEOREM MirrorIsExact == OracleSpec => []MirrorAgrees
<1>1. OracleInv => MirrorAgrees
  <2> SUFFICES ASSUME OracleInv, NEW p \in members, NEW x \in Prices, NEW a \in 0..(MAX_AGE - 1),
                      NEW b, b = [price |-> x, confidence |-> 0, age |-> a],
                      NEW later, later = [q \in Publishers |-> aged(IF q = p THEN b ELSE obs[q])]
               PROVE  predictAggregate(p, b) = skipReason(later, agedSnap(snap))
    BY DEF MirrorAgrees
  <2>1. members \subseteq Publishers /\ obs \in [Publishers -> Observation] /\ snap \in Snapshot
    BY DEF OracleInv, Sound, SoundSnapshot
  <2>2. b \in Observation
    BY Bounds DEF Observation
  <2>3. PICK o : o = [q \in Publishers |-> IF q = p THEN b ELSE obs[q]]
    OBVIOUS
  <2>4. o \in [Publishers -> Observation]
    BY <2>1, <2>2, <2>3
  <2>5. PICK F : F = Foreseen(o)
    OBVIOUS
  <2>6. F = {r \in {reading(q, IF q = p THEN b ELSE obs[q]) : q \in members} :
               r.price # 0 /\ r.age + 1 <= MAX_AGE}
    <3>1. \A q \in members : o[q] = IF q = p THEN b ELSE obs[q]
      BY <2>1, <2>3
    <3>2. {reading(q, o[q]) : q \in members} = {reading(q, IF q = p THEN b ELSE obs[q]) : q \in members}
      BY <3>1
    <3> QED
      BY <2>5, <3>2 DEF Foreseen
  <2>7. later = Later(o)
    BY <2>3 DEF Later
  <2>8. PICK G : G = freshObs(later)
    OBVIOUS
  <2>9. PICK t : t = agedSnap(snap)
    OBVIOUS
  <2>10. /\ t.price = snap.price /\ snap.price \in Nat
         /\ t.pubAge = older(snap.pubAge, Old) /\ t.writeAge = older(snap.writeAge, Old)
         /\ snap.pubAge \in 0..Old /\ snap.writeAge \in 0..Old
    BY <2>1, <2>9 DEF agedSnap, Snapshot
  <2>11. PICK f \in [F -> G] :
           /\ \A r \in G : \E q \in F : f[q] = r
           /\ \A q, s \in F : f[q] = f[s] => q = s
           /\ \A q \in F : f[q].price = q.price /\ f[q].age = q.age + 1 /\ q.age \in Nat
    BY <2>1, <2>4, <2>5, <2>7, <2>8, ForeseenAgree
  <2>12. Priced(F)
    BY <2>1, <2>4, <2>5, ForeseenPriced
  <2>13. CASE F = {}
    <3>1. G = {}
      BY <2>11, <2>13
    <3>2. Cardinality({}) < MIN_PUBLISHERS
      BY FS_EmptySet, Bounds
    <3>3. predictAggregate(p, b) = "quorum"
      BY <2>6, <2>13, <3>2 DEF predictAggregate
    <3>4. skipReason(later, t) = "quorum"
      BY <2>8, <3>1, <3>2 DEF skipReason
    <3> QED
      BY <2>9, <3>3, <3>4
  <2>14. CASE F # {}
    <3>1. Priced(G) /\ Cardinality(G) = Cardinality(F) /\ median(G) = median(F)
      BY <2>11, <2>12, <2>14, MedianAgrees
    <3>2. PICK m : m = median(F)
      OBVIOUS
    <3>3. (\E r \in F : absDiff(r.price, m) > applyBps(m, MAX_SPREAD_BPS))
            <=> (\E r \in G : absDiff(r.price, m) > applyBps(m, MAX_SPREAD_BPS))
      <4>1. ASSUME NEW r \in F, absDiff(r.price, m) > applyBps(m, MAX_SPREAD_BPS)
            PROVE  \E k \in G : absDiff(k.price, m) > applyBps(m, MAX_SPREAD_BPS)
        <5>1. f[r] \in G /\ absDiff(f[r].price, m) > applyBps(m, MAX_SPREAD_BPS)
          BY <2>11, <4>1
        <5> QED
          BY <5>1
      <4>2. ASSUME NEW k \in G, absDiff(k.price, m) > applyBps(m, MAX_SPREAD_BPS)
            PROVE  \E r \in F : absDiff(r.price, m) > applyBps(m, MAX_SPREAD_BPS)
        <5>1. PICK r \in F : f[r] = k
          BY <2>11
        <5>2. absDiff(r.price, m) > applyBps(m, MAX_SPREAD_BPS)
          BY <2>11, <4>2, <5>1
        <5> QED
          BY <5>2
      <4> QED
        BY <4>1, <4>2
    <3>4. (\E r \in F : r.age > snap.pubAge) <=> maximum({r.age : r \in G}) > t.pubAge
      <4> DEFINE A == {r.age : r \in G}
                 of == [r \in G |-> r.age]
      <4>1. of \in Surjection(G, A)
        BY DEF Surjection
      <4>2. A \subseteq Nat /\ A # {} /\ \A y \in A : y <= MAX_AGE
        <5>1. \A r \in G : r.age \in Nat /\ r.age <= MAX_AGE
          <6> SUFFICES ASSUME NEW r \in G PROVE r.age \in Nat /\ r.age <= MAX_AGE
            OBVIOUS
          <6>1. PICK q \in F : f[q] = r
            BY <2>11
          <6>2. r.age = q.age + 1 /\ q.age \in Nat
            BY <2>11, <6>1
          <6>3. r.age <= MAX_AGE
            BY <2>8 DEF freshObs
          <6> QED
            BY <6>2, <6>3
        <5>2. G # {}
          BY <2>11, <2>14
        <5> QED
          BY <5>1, <5>2
      <4>3. IsFiniteSet(G)
        BY <3>1 DEF Priced
      <4>4. IsFiniteSet(A)
        <5> HIDE DEF A, of
        <5> QED
          BY <4>1, <4>3, FS_Surjection
      <4>5. PICK y : y = maximum(A)
        OBVIOUS
      <4>6. y \in A /\ \A z \in A : z <= y
        <5> HIDE DEF A
        <5> QED
          BY <4>2, <4>4, <4>5, MaximumIs
      <4>7. y \in Nat /\ y <= MAX_AGE
        BY <4>2, <4>6
      <4>8. t.pubAge = IF snap.pubAge < Old THEN snap.pubAge + 1 ELSE snap.pubAge
        BY <2>10 DEF older
      <4>9. ASSUME NEW r \in F, r.age > snap.pubAge PROVE y > t.pubAge
        <5>1. f[r] \in G /\ f[r].age = r.age + 1 /\ r.age \in Nat
          BY <2>11
        <5>2. r.age + 1 <= y
          BY <4>6, <5>1
        <5>3. snap.pubAge \in Nat /\ snap.pubAge < Old
          BY <2>10, <4>7, <4>9, <5>1, <5>2, Bounds
        <5> QED
          BY <4>7, <4>8, <4>9, <5>1, <5>2, <5>3
      <4>10. ASSUME y > t.pubAge PROVE \E r \in F : r.age > snap.pubAge
        <5>1. PICK k \in G : y = k.age
          BY <4>6
        <5>2. PICK r \in F : f[r] = k
          BY <2>11
        <5>3. y = r.age + 1 /\ r.age \in Nat
          BY <2>11, <5>1, <5>2
        <5>4. r.age > snap.pubAge
          BY <2>10, <4>7, <4>8, <4>10, <5>3, Bounds
        <5> QED
          BY <5>4
      <4> QED
        BY <4>5, <4>9, <4>10
    <3>5. snap.writeAge + 1 <= MAX_AGE <=> t.writeAge <= MAX_AGE
      BY <2>10, Bounds DEF older
    <3>6. snap.writeAge + 1 \in Int /\ MAX_AGE \in Int
      BY <2>10, Bounds
    <3>7. (~(snap.writeAge + 1 > MAX_AGE)) <=> t.writeAge <= MAX_AGE
      BY <3>5, <3>6
    <3>8. predictAggregate(p, b) =
            IF Cardinality(F) < MIN_PUBLISHERS THEN "quorum"
            ELSE IF \E r \in F : absDiff(r.price, m) > applyBps(m, MAX_SPREAD_BPS) THEN "spread"
            ELSE IF \E r \in F : r.age > snap.pubAge THEN "not-monotonic"
            ELSE IF /\ MAX_JUMP_BPS # 0 /\ snap.price > 0 /\ ~(snap.writeAge + 1 > MAX_AGE)
                    /\ absDiff(m, snap.price) > applyBps(snap.price, MAX_JUMP_BPS) THEN "jump"
            ELSE IF ref = 0 /\ REF_REQUIRED THEN "reference-unavailable"
            ELSE IF ref # 0 /\ absDiff(m, ref) > applyBps(ref, MAX_DIVERGENCE_BPS) THEN "divergence"
            ELSE "none"
      BY <2>6, <3>2 DEF predictAggregate
    <3>9. skipReason(later, t) =
            IF Cardinality(F) < MIN_PUBLISHERS THEN "quorum"
            ELSE IF \E r \in G : absDiff(r.price, m) > applyBps(m, MAX_SPREAD_BPS) THEN "spread"
            ELSE IF maximum({r.age : r \in G}) > t.pubAge THEN "not-monotonic"
            ELSE IF /\ MAX_JUMP_BPS # 0 /\ t.price > 0 /\ t.writeAge <= MAX_AGE
                    /\ absDiff(m, t.price) > applyBps(t.price, MAX_JUMP_BPS) THEN "jump"
            ELSE IF ref = 0 /\ REF_REQUIRED THEN "reference-unavailable"
            ELSE IF ref # 0 /\ absDiff(m, ref) > applyBps(ref, MAX_DIVERGENCE_BPS) THEN "divergence"
            ELSE "none"
      BY <2>8, <3>1, <3>2 DEF skipReason
    <3>10. predictAggregate(p, b) = skipReason(later, t)
      BY <2>10, <3>3, <3>4, <3>7, <3>8, <3>9
    <3> QED
      BY <2>9, <3>10
  <2> QED
    BY <2>13, <2>14
<1> QED
  BY <1>1, OracleInvariant, PTL

-----------------------------------------------------------------------------
(* The monitor.                                                            *)

Level == {"WARN", "PAGE"}

\* The key of evaluateLiquidation's only result.
BACKLOG == <<"liquidation.backlog", WHOLE>>

MonitorTyped ==
  /\ condition \in Conditions
  /\ uptime \in 0..(Grace + 1) /\ upFor \in 0..Renotify /\ blockedFor \in Nat
  /\ IsFiniteSet(DOMAIN states)
  /\ \A k \in DOMAIN states : /\ states[k] \in AlertState
                              /\ states[k].quietFor # NULL => states[k].firing
  /\ DOMAIN worst = DOMAIN failedFor
  /\ \A k \in DOMAIN failedFor : failedFor[k] \in 0..failAfter(k[1])

\* The engine's streak is the number of ticks that reported the key, and it fires by the
\* time the streak is full.
KnownFailing ==
  /\ DOMAIN failedFor \subseteq DOMAIN states
  /\ DOMAIN failedFor # {} => uptime > 0
  /\ \A k \in DOMAIN states :
       IF k \in DOMAIN failedFor
       THEN /\ states[k].failStreak = failedFor[k]
            /\ states[k].severity = worst[k]
            /\ failedFor[k] = failAfter(k[1]) => states[k].firing
       ELSE states[k].failStreak = 0

\* The webhook has answered ever since the key was last announced: it was heard, and as a
\* PAGE if it is one.
Announced ==
  \A k \in DOMAIN states :
    states[k].quietFor # NULL /\ states[k].quietFor < upFor
    => /\ Told(k)
       /\ states[k].severity = "PAGE" => Heard(k).severity = "PAGE"

\* After the grace period a firing key that fails is never quiet for Renotify ticks.
Repeated ==
  PastGrace => \A k \in DOMAIN failedFor :
    states[k].firing => states[k].quietFor # NULL /\ states[k].quietFor < Renotify

BlockedKnown ==
  blockedFor > 0 => /\ BACKLOG \in DOMAIN failedFor
                    /\ failedFor[BACKLOG] >= blockedFor
                    /\ worst[BACKLOG] = "PAGE"

MonitorInv == MonitorTyped /\ KnownFailing /\ Announced /\ Repeated /\ BlockedKnown

\* The results are the check's own, at one of the two levels.
ResultsOf(check, results) ==
  \A r \in results : r.check = check /\ r.severity \in Level

-----------------------------------------------------------------------------
(* The checks report under their own names.                                *)

\* The fields of a result.
LEMMA ResultShape ==
  ASSUME NEW check, NEW subject, NEW status, NEW severity, severity \in Level
  PROVE  /\ Result(check, subject, status, severity).check = check
         /\ Result(check, subject, status, severity).subject = subject
         /\ Result(check, subject, status, severity).status = status
         /\ Result(check, subject, status, severity).severity \in Level
         /\ status # "error" => Result(check, subject, status, severity).severity = severity
  BY DEF Result, Level

\* The fields of a verdict.
LEMMA VerdictShape ==
  ASSUME NEW check, NEW subject, NEW bad, NEW severity, severity \in Level
  PROVE  /\ Verdict(check, subject, bad, severity).check = check
         /\ Verdict(check, subject, bad, severity).subject = subject
         /\ Verdict(check, subject, bad, severity).severity = severity
         /\ Verdict(check, subject, bad, severity).status = IF bad THEN "fail" ELSE "pass"
  BY DEF Result, Verdict, Level

\* A result is about its own check.
LEMMA ResultOf ==
  ASSUME NEW check, NEW subject, NEW status, NEW severity, severity \in Level
  PROVE  ResultsOf(check, {Result(check, subject, status, severity)})
  BY ResultShape DEF ResultsOf

\* So is the result of a check without subjects,
LEMMA WholeOf ==
  ASSUME NEW check, NEW bad, NEW severity, severity \in Level
  PROVE  ResultsOf(check, Whole(check, bad, severity))
  BY VerdictShape DEF ResultsOf, Whole

\* the result of a check that was skipped,
LEMMA SkippedOf ==
  ASSUME NEW check, NEW severity, severity \in Level
  PROVE  ResultsOf(check, Skipped(check, severity))
  BY ResultShape DEF ResultsOf, Skipped

\* and what replaces an empty set of results.
LEMMA OrNothingOf ==
  ASSUME NEW check, NEW results, NEW severity, severity \in Level, ResultsOf(check, results)
  PROVE  ResultsOf(check, orNothingToCheck(check, results, severity))
  BY ResultOf DEF orNothingToCheck, ResultsOf

\* The checks of protocol.ts answer about themselves, each with a level.
LEMMA ProtocolOf ==
  ASSUME NEW w, NEW cfg
  PROVE  /\ ResultsOf("vault.solvency", evaluateSolvency(w))
         /\ ResultsOf("insurance.shortfall", evaluateShortfall(w))
         /\ ResultsOf("insurance.coverage", evaluateCoverage(w, cfg))
         /\ ResultsOf("insurance.backstop", evaluateBackstop(w, cfg))
         /\ ResultsOf("vault.deposit-caps", evaluateCaps(w, cfg))
         /\ ResultsOf("vault.deposit-utilization", evaluateUtilization(w, cfg))
         /\ ResultsOf("protocol.paused", evaluatePaused(w))
         /\ ResultsOf("governance.roles", evaluateRoleCheck(w, cfg))
         /\ ResultsOf("governance.implementations", evaluateImplCheck(w, cfg))
         /\ ResultsOf("governance.timelock", evaluateTimelock(w))
<1>0. "WARN" \in Level /\ "PAGE" \in Level
  BY DEF Level
<1>1. ResultsOf("vault.solvency", evaluateSolvency(w))
  BY <1>0, WholeOf DEF evaluateSolvency
<1>2. ResultsOf("insurance.shortfall", evaluateShortfall(w))
  BY <1>0, WholeOf DEF evaluateShortfall
<1>3. ResultsOf("insurance.coverage", evaluateCoverage(w, cfg))
  BY <1>0, WholeOf, ResultOf DEF evaluateCoverage
<1>4. ResultsOf("insurance.backstop", evaluateBackstop(w, cfg))
  BY <1>0, WholeOf DEF evaluateBackstop
<1>5. ResultsOf("vault.deposit-caps", evaluateCaps(w, cfg))
  BY <1>0, WholeOf DEF evaluateCaps
<1>6. ResultsOf("vault.deposit-utilization", evaluateUtilization(w, cfg))
  BY <1>0, WholeOf, SkippedOf DEF evaluateUtilization
<1>7. ResultsOf("protocol.paused", evaluatePaused(w))
  BY <1>0, WholeOf DEF evaluatePaused
<1>8. ResultsOf("governance.roles", evaluateRoleCheck(w, cfg))
  BY <1>0, WholeOf DEF evaluateRoleCheck
<1>9. ResultsOf("governance.implementations", evaluateImplCheck(w, cfg))
  BY <1>0, WholeOf DEF evaluateImplCheck
<1>10. ResultsOf("governance.timelock", evaluateTimelock(w))
  <2> DEFINE of(op) == Verdict("governance.timelock", op, TRUE, "WARN")
  <2>0. \A op \in pendingGovernance(w) :
          of(op).check = "governance.timelock" /\ of(op).severity \in Level
    BY DEF Verdict, Result, Level
  <2>1. ResultsOf("governance.timelock", {of(op) : op \in pendingGovernance(w)})
    <3> HIDE DEF of
    <3> QED
      BY <2>0 DEF ResultsOf
  <2> QED
    BY <1>0, <2>1, OrNothingOf DEF evaluateTimelock
<1> QED
  BY <1>1, <1>2, <1>3, <1>4, <1>5, <1>6, <1>7, <1>8, <1>9, <1>10

\* So do those of the oracle,
LEMMA OracleOf ==
  ASSUME NEW w, NEW cfg
  PROVE  /\ ResultsOf("oracle.freshness", evaluateFreshness(w, cfg))
         /\ ResultsOf("oracle.quorum", evaluateQuorum(w))
         /\ ResultsOf("oracle.divergence", evaluateDivergence(w, cfg))
         /\ ResultsOf("oracle.flatline", evaluateFlatline(w, cfg))
<1>0. "WARN" \in Level /\ "PAGE" \in Level
  BY DEF Level
<1>1. ResultsOf("oracle.freshness", evaluateFreshness(w, cfg))
  <2> DEFINE alertAt(m) == Larger(1, (bound(w, m) * cfg.staleBps) \div 10000)
             of(m) == IF ~hasOi(w, m) THEN Result("oracle.freshness", m, "skip", "PAGE")
                      ELSE IF w.feeds[m] = NULL THEN Verdict("oracle.freshness", m, TRUE, "PAGE")
                      ELSE Verdict("oracle.freshness", m,
                                   \/ feedAge(w.feeds[m]) = NULL
                                   \/ feedAge(w.feeds[m]) > alertAt(m), "PAGE")
             down(c) == Verdict("oracle.freshness", "adapter", TRUE, "PAGE")
             each == {of(m) : m \in watched(w)}
             adapter == {down(c) : c \in pausedContracts(w) \cap {"oracleAdapter"}}
  <2>1. \A m \in watched(w) : of(m).check = "oracle.freshness" /\ of(m).severity \in Level
    BY DEF Verdict, Result, Level
  <2>2. \A c \in pausedContracts(w) \cap {"oracleAdapter"} :
          down(c).check = "oracle.freshness" /\ down(c).severity \in Level
    BY DEF Verdict, Result, Level
  <2>3. evaluateFreshness(w, cfg) = orNothingToCheck("oracle.freshness", each \cup adapter, "PAGE")
    BY DEF evaluateFreshness
  <2> HIDE DEF of, down
  <2>4. ResultsOf("oracle.freshness", each \cup adapter)
    BY <2>1, <2>2 DEF ResultsOf
  <2> QED
    BY <1>0, <2>3, <2>4, OrNothingOf
<1>2. ResultsOf("oracle.quorum", evaluateQuorum(w))
  <2> DEFINE of(m) == Verdict("oracle.quorum", m,
                        \/ Cardinality(w.publishers) < w.feeds[m].minPublishers
                        \/ freshPublishers(w, m) < w.feeds[m].minPublishers, "WARN")
             each == {of(m) : m \in feedsOfActiveMarkets(w)}
  <2>1. \A m \in feedsOfActiveMarkets(w) :
          of(m).check = "oracle.quorum" /\ of(m).severity \in Level
    BY DEF Verdict, Result, Level
  <2>2. evaluateQuorum(w) = orNothingToCheck("oracle.quorum", each, "WARN")
    BY DEF evaluateQuorum
  <2> HIDE DEF of
  <2>3. ResultsOf("oracle.quorum", each)
    BY <2>1 DEF ResultsOf
  <2> QED
    BY <1>0, <2>2, <2>3, OrNothingOf
<1>3. ResultsOf("oracle.divergence", evaluateDivergence(w, cfg))
  <2> DEFINE of(m) ==
        LET refs == w.feeds[m].reference
        IN  IF ~refs.enabled THEN Result("oracle.divergence", m, "skip", "WARN")
            ELSE IF ~refs.ok THEN Verdict("oracle.divergence", m, refs.required, "WARN")
            ELSE IF w.feeds[m].price <= 0 THEN Result("oracle.divergence", m, "skip", "WARN")
            ELSE Verdict("oracle.divergence", m,
                         refs.divergenceBps >= (refs.maxDivergenceBps * cfg.divergenceBps) \div 10000,
                         "WARN")
             each == {of(m) : m \in feedsOfActiveMarkets(w)}
  <2>1. \A m \in feedsOfActiveMarkets(w) :
          of(m).check = "oracle.divergence" /\ of(m).severity \in Level
    BY DEF Verdict, Result, Level
  <2>2. evaluateDivergence(w, cfg) = orNothingToCheck("oracle.divergence", each, "WARN")
    BY DEF evaluateDivergence
  <2> HIDE DEF of
  <2>3. ResultsOf("oracle.divergence", each)
    BY <2>1 DEF ResultsOf
  <2> QED
    BY <1>0, <2>2, <2>3, OrNothingOf
<1>4. ResultsOf("oracle.flatline", evaluateFlatline(w, cfg))
  <2> DEFINE of(m) == IF ~hasOi(w, m) THEN Result("oracle.flatline", m, "skip", "WARN")
               ELSE Verdict("oracle.flatline", m,
                            IF oracleRuns(w, m) = NULL THEN FALSE
                            ELSE /\ oracleRuns(w, m).updates >= 2
                                 /\ oracleRuns(w, m).flatFor > cfg.flatlineSecs, "WARN")
             each == {of(m) : m \in feedsOfActiveMarkets(w)}
  <2>1. \A m \in feedsOfActiveMarkets(w) :
          of(m).check = "oracle.flatline" /\ of(m).severity \in Level
    BY DEF Verdict, Result, Level
  <2>2. evaluateFlatline(w, cfg) = orNothingToCheck("oracle.flatline", each, "WARN")
    BY DEF evaluateFlatline
  <2> HIDE DEF of
  <2>3. ResultsOf("oracle.flatline", each)
    BY <2>1 DEF ResultsOf
  <2> QED
    BY <1>0, <2>2, <2>3, OrNothingOf
<1> QED
  BY <1>1, <1>2, <1>3, <1>4

\* those of the keepers and of settlement,
LEMMA KeeperOf ==
  ASSUME NEW w, NEW cfg
  PROVE  /\ ResultsOf("indexer.lag", evaluateIndexer(w, cfg))
         /\ ResultsOf("matcher.crossed-book", evaluateCrossed(w, cfg))
         /\ ResultsOf("matcher.rejections", evaluateRejections(w, cfg))
         /\ ResultsOf("settlement.fills", evaluateFills(w, cfg))
         /\ ResultsOf("settlement.txjobs", evaluateTxJobs(w, cfg))
         /\ ResultsOf("settlement.nonce-gap", evaluateNonceGaps(w))
         /\ ResultsOf("funding.freshness", evaluateFunding(w, cfg))
         /\ ResultsOf("liquidation.backlog", evaluateLiquidation(w))
         /\ ResultsOf("gas.balance", evaluateGas(w, cfg))
         /\ ResultsOf("gas.funder", evaluateFunder(w, cfg))
<1>0. "WARN" \in Level /\ "PAGE" \in Level
  BY DEF Level
<1>1. ResultsOf("indexer.lag", evaluateIndexer(w, cfg))
  BY <1>0, WholeOf DEF evaluateIndexer
<1>2. ResultsOf("matcher.crossed-book", evaluateCrossed(w, cfg))
  <2> DEFINE of(b) == Verdict("matcher.crossed-book", b.market, b.age > cfg.crossedBookSecs, "WARN")
             each == {of(b) : b \in crossedBooks(w)}
  <2>1. \A b \in crossedBooks(w) : of(b).check = "matcher.crossed-book" /\ of(b).severity \in Level
    BY DEF Verdict, Result, Level
  <2>2. evaluateCrossed(w, cfg) = orNothingToCheck("matcher.crossed-book", each, "WARN")
    BY DEF evaluateCrossed
  <2> HIDE DEF of
  <2>3. ResultsOf("matcher.crossed-book", each)
    BY <2>1 DEF ResultsOf
  <2> QED
    BY <1>0, <2>2, <2>3, OrNothingOf
<1>3. ResultsOf("matcher.rejections", evaluateRejections(w, cfg))
  <2> DEFINE out   == fillOutcomes(w, cfg.rejectWindow)
             total == out.settled + out.rejected
             bad   == /\ total >= cfg.minSample /\ total > 0
                      /\ (2 * out.rejected * 10000 + total) \div (2 * total) > cfg.maxRateBps
  <2>1. evaluateRejections(w, cfg) = Whole("matcher.rejections", bad, "WARN")
    BY DEF evaluateRejections
  <2> HIDE DEF bad
  <2> QED
    BY <2>1, <1>0, WholeOf
<1>4. ResultsOf("settlement.fills", evaluateFills(w, cfg))
  <2> DEFINE old == {f \in w.fills : f.status = "PENDING" /\ f.age > cfg.pendingFillSecs}
             kinds == {pendingFillKind(w, f) : f \in old}
             of(k) == Verdict("settlement.fills", k, TRUE, IF k \in SELF_HEALING THEN "WARN" ELSE "PAGE")
             each == {of(k) : k \in kinds}
  <2>1. \A k \in kinds : of(k).check = "settlement.fills" /\ of(k).severity \in Level
    BY DEF Verdict, Result, Level
  <2>2. evaluateFills(w, cfg) = orNothingToCheck("settlement.fills", each, "PAGE")
    BY DEF evaluateFills
  <2> HIDE DEF of
  <2>3. ResultsOf("settlement.fills", each)
    BY <2>1 DEF ResultsOf
  <2> QED
    BY <1>0, <2>2, <2>3, OrNothingOf
<1>5. ResultsOf("settlement.txjobs", evaluateTxJobs(w, cfg))
  <2> DEFINE late == {k \in openJobs(w) : k.age > cfg.txJobStuckSecs}
             of(j) == Verdict("settlement.txjobs", j.from, TRUE, "PAGE")
             each == {of(j) : j \in late}
  <2>1. \A j \in late : of(j).check = "settlement.txjobs" /\ of(j).severity \in Level
    BY DEF Verdict, Result, Level
  <2>2. evaluateTxJobs(w, cfg) = orNothingToCheck("settlement.txjobs", each, "PAGE")
    BY DEF evaluateTxJobs
  <2> HIDE DEF of
  <2>3. ResultsOf("settlement.txjobs", each)
    BY <2>1 DEF ResultsOf
  <2> QED
    BY <1>0, <2>2, <2>3, OrNothingOf
<1>6. ResultsOf("settlement.nonce-gap", evaluateNonceGaps(w))
  <2> DEFINE gapped == {k \in openJobs(w) : detectNonceGaps(w, k.from) # {}}
             of(j) == Verdict("settlement.nonce-gap", j.from, TRUE, "PAGE")
             each == {of(j) : j \in gapped}
  <2>1. \A j \in gapped : of(j).check = "settlement.nonce-gap" /\ of(j).severity \in Level
    BY DEF Verdict, Result, Level
  <2>2. evaluateNonceGaps(w) = orNothingToCheck("settlement.nonce-gap", each, "PAGE")
    BY DEF evaluateNonceGaps
  <2> HIDE DEF of
  <2>3. ResultsOf("settlement.nonce-gap", each)
    BY <2>1 DEF ResultsOf
  <2> QED
    BY <1>0, <2>2, <2>3, OrNothingOf
<1>7. ResultsOf("funding.freshness", evaluateFunding(w, cfg))
  <2> DEFINE of(m) == IF w.markets[m].fundingAge = NULL
               THEN IF hasOi(w, m) THEN Verdict("funding.freshness", m, TRUE, "PAGE")
                    ELSE Result("funding.freshness", m, "skip", "PAGE")
               ELSE Verdict("funding.freshness", m,
                            w.markets[m].fundingAge > cfg.fundingStaleSecs, "PAGE")
             each == {of(m) : m \in watched(w)}
  <2>1. \A m \in watched(w) : of(m).check = "funding.freshness" /\ of(m).severity \in Level
    BY DEF Verdict, Result, Level
  <2>2. evaluateFunding(w, cfg) = orNothingToCheck("funding.freshness", each, "PAGE")
    BY DEF evaluateFunding
  <2> HIDE DEF of
  <2>3. ResultsOf("funding.freshness", each)
    BY <2>1 DEF ResultsOf
  <2> QED
    BY <1>0, <2>2, <2>3, OrNothingOf
<1>8. ResultsOf("liquidation.backlog", evaluateLiquidation(w))
  BY <1>0, WholeOf DEF evaluateLiquidation
<1>9. ResultsOf("gas.balance", evaluateGas(w, cfg))
  <2> DEFINE pageAt(t) == Larger(nextTxCost(w, t, cfg.recentJobs), cfg.gasPageBelow)
             of(t) == Verdict("gas.balance", t, balanceOf(w, t) < Larger(pageAt(t), cfg.gasWarnBelow),
                        IF balanceOf(w, t) >= pageAt(t) /\ balanceOf(w, t) < cfg.gasWarnBelow
                        THEN "WARN" ELSE "PAGE")
             each == {of(t) : t \in cfg.gasTargets}
  <2>1. \A t \in cfg.gasTargets : of(t).check = "gas.balance" /\ of(t).severity \in Level
    BY DEF Verdict, Result, Level
  <2>2. evaluateGas(w, cfg) = IF cfg.gasTargets = {} THEN Whole("gas.balance", TRUE, "WARN") ELSE each
    BY DEF evaluateGas
  <2> HIDE DEF of
  <2>3. ResultsOf("gas.balance", each)
    BY <2>1 DEF ResultsOf
  <2> QED
    BY <1>0, <2>2, <2>3, WholeOf
<1>10. ResultsOf("gas.funder", evaluateFunder(w, cfg))
  BY <1>0, WholeOf, SkippedOf DEF evaluateFunder
<1> QED
  BY <1>1, <1>2, <1>3, <1>4, <1>5, <1>6, <1>7, <1>8, <1>9, <1>10

\* and those of the infrastructure.
LEMMA InfraOf ==
  ASSUME NEW w, NEW cfg
  PROVE  /\ ResultsOf("economics.fees-vs-gas", evaluateFeesVsGas(w, cfg))
         /\ ResultsOf("infra.rpc", evaluateRpc(w, cfg))
         /\ ResultsOf("infra.db", evaluateDb(w, cfg))
         /\ ResultsOf("infra.db-replica", evaluateReplica(w, cfg))
         /\ ResultsOf("infra.api", evaluateApi(w, cfg))
         /\ ResultsOf("infra.ws", evaluateWs(w, cfg))
<1>0. "WARN" \in Level /\ "PAGE" \in Level
  BY DEF Level
<1>1. ResultsOf("economics.fees-vs-gas", evaluateFeesVsGas(w, cfg))
  BY <1>0, WholeOf DEF evaluateFeesVsGas
<1>2. ResultsOf("infra.rpc", evaluateRpc(w, cfg))
  BY <1>0, WholeOf DEF evaluateRpc
<1>3. ResultsOf("infra.db", evaluateDb(w, cfg))
  BY <1>0, WholeOf DEF evaluateDb
<1>4. ResultsOf("infra.db-replica", evaluateReplica(w, cfg))
  BY <1>0, WholeOf, SkippedOf DEF evaluateReplica
<1>5. ResultsOf("infra.api", evaluateApi(w, cfg))
  BY <1>0, WholeOf, SkippedOf DEF evaluateApi
<1>6. ResultsOf("infra.ws", evaluateWs(w, cfg))
  BY <1>0, WholeOf, SkippedOf DEF evaluateWs
<1> QED
  BY <1>1, <1>2, <1>3, <1>4, <1>5, <1>6

\* Whatever a check of the registry reports, it reports under its own name.
LEMMA EvaluateOf ==
  ASSUME NEW c \in CHECKS, NEW w, NEW cfg
  PROVE  ResultsOf(c.id, evaluate(c.id, w, cfg))
  BY ProtocolOf, OracleOf, KeeperOf, InfraOf
  DEF CHECKS, protocolChecks, oracleChecks, keeperChecks, infraChecks, evaluate

-----------------------------------------------------------------------------
(* What a tick hands to the engine.                                        *)

\* Every failing key of a tick carries its check's name and one of the two levels.
LEMMA FailuresShape ==
  ASSUME NEW c, NEW blind, NEW k \in DOMAIN failures(c, blind)
  PROVE  /\ failures(c, blind)[k].check = k[1]
         /\ failures(c, blind)[k].severity \in Level
         /\ failures(c, blind)[k] \in runChecks(Readings[c], Config, blind)
         /\ Key(failures(c, blind)[k]) = k /\ failing(failures(c, blind)[k])
<1> DEFINE all == runChecks(Readings[c], Config, blind)
           bad == {r \in all : failing(r)}
<1>1. failures(c, blind) = [j \in {Key(r) : r \in bad} |-> CHOOSE r \in bad : Key(r) = j]
  BY DEF failures
<1>2. \A r \in all : r.severity \in Level
  <2> SUFFICES ASSUME NEW x \in CHECKS,
                      NEW r \in IF x.reads \cap blind = {} THEN evaluate(x.id, Readings[c], Config)
                                ELSE {Result(x.id, WHOLE, "error", "WARN")}
               PROVE  r.severity \in Level
    BY DEF runChecks
  <2>1. CASE x.reads \cap blind = {}
    BY <2>1, EvaluateOf DEF ResultsOf
  <2>2. CASE x.reads \cap blind # {}
    BY <2>2 DEF Result, Level
  <2> QED
    BY <2>1, <2>2
<1> HIDE DEF all
<1>3. PICK r : r = failures(c, blind)[k]
  OBVIOUS
<1>4. r \in bad /\ Key(r) = k
  BY <1>1, <1>3
<1> QED
  BY <1>2, <1>3, <1>4 DEF Key, all

\* A tick finds finitely many failures.
LEMMA FailuresFinite ==
  ASSUME NEW c \in Conditions, NEW blind \in Faults[c]
  PROVE  IsFiniteSet(DOMAIN failures(c, blind))
<1> DEFINE all == runChecks(Readings[c], Config, blind)
           bad == {r \in all : failing(r)}
<1>1. IsFiniteSet(all)
  BY ReadingsAssumption
<1>2. IsFiniteSet(bad)
  BY <1>1, FS_Subset
<1>3. IsFiniteSet({Key(r) : r \in bad})
  <2> DEFINE keys == {Key(r) : r \in bad}
             of == [r \in bad |-> Key(r)]
  <2>1. of \in Surjection(bad, keys)
    BY DEF Surjection
  <2> HIDE DEF keys, of, bad
  <2>2. IsFiniteSet(keys)
    BY <1>2, <2>1, FS_Surjection
  <2> QED
    BY <2>2 DEF keys
<1> QED
  BY <1>3 DEF failures

\* A check that was not blinded reports every result it evaluates to.
LEMMA Reported ==
  ASSUME NEW c, NEW blind, NEW x \in CHECKS, x.reads \cap blind = {},
         NEW r \in evaluate(x.id, Readings[c], Config), failing(r)
  PROVE  /\ r \in runChecks(Readings[c], Config, blind)
         /\ Key(r) \in DOMAIN failures(c, blind)
  BY DEF runChecks, failures

\* The tabulated report of a condition is what its checks find.
LEMMA ReportIs ==
  ASSUME NEW c \in Conditions, NEW blind \in Faults[c]
  PROVE  report[c][blind] = failures(c, blind)
  BY DEF report

-----------------------------------------------------------------------------
(* AlertEngine, one key at a time.                                         *)

\* A check fails at least once before it is announced.
LEMMA LimitsPositive ==
  ASSUME NEW check
  PROVE  failAfter(check) \in Nat \ {0}
  BY TimingAssumption DEF failAfter

\* A capped count is the count until it reaches the cap.
LEMMA UptoBounds ==
  ASSUME NEW n \in Nat, NEW limit \in Nat
  PROVE  /\ capped(n, limit) \in 0..limit
         /\ capped(n, limit) <= n
         /\ n < limit => capped(n, limit) = n
         /\ n >= limit => capped(n, limit) = limit
  BY DEF capped

\* A failing result: the streak grows, the severity is the result's, and what was last
\* announced is either repeated now or still what the key is.
LEMMA OnFailStep ==
  ASSUME NEW prev \in AlertState \cup {NULL},
         prev # NULL => (prev.quietFor # NULL => prev.firing),
         NEW r, r.severity \in Level, NEW inGrace \in BOOLEAN,
         NEW to, to = onFail(prev, r, inGrace),
         NEW limit, limit = failAfter(r.check)
  PROVE  /\ to.state \in AlertState
         /\ to.state.severity = r.severity
         /\ to.state.failStreak = capped((IF prev = NULL THEN 0 ELSE prev.failStreak) + 1, limit)
         /\ to.state.failStreak = limit => to.state.firing
         /\ to.state.quietFor # NULL => to.state.firing
         /\ to.event \in {"none", "firing", "reminder"}
         /\ to.event # "none" => to.state.quietFor = 0
         /\ to.event = "none" =>
              /\ to.state.quietFor = IF prev = NULL THEN NULL ELSE prev.quietFor
              /\ to.state.quietFor # NULL /\ r.severity = "PAGE" => prev.severity = "PAGE"
         /\ ~inGrace /\ to.state.firing => to.state.quietFor # NULL /\ to.state.quietFor < Renotify
<1> DEFINE old == IF prev = NULL THEN fresh(r) ELSE prev
           escalated == old.firing /\ r.severity = "PAGE" /\ old.severity = "WARN"
           s == [old EXCEPT !.failStreak = capped(@ + 1, failAfter(r.check)),
                            !.passStreak = 0, !.severity = r.severity]
           kind == notice(s, escalated, inGrace)
           on == [s EXCEPT !.firing = TRUE]
<1>1. limit \in Nat /\ limit > 0 /\ Renotify \in Nat /\ Renotify > 0 /\ NULL \notin Nat
  BY LimitsPositive, TimingAssumption, NullAssumption
<1>2. old \in AlertState
  BY DEF fresh, AlertState, Level
<1>3. old.failStreak = IF prev = NULL THEN 0 ELSE prev.failStreak
  BY DEF fresh
<1>4. old.quietFor = IF prev = NULL THEN NULL ELSE prev.quietFor
  BY DEF fresh
<1>5. old.quietFor # NULL => prev # NULL /\ old = prev /\ old.firing
  BY <1>4
<1>6. to = IF ~s.firing /\ s.failStreak < limit THEN Quietly(s)
           ELSE IF kind = "none" THEN Quietly(on) ELSE Emits(on, kind)
  BY DEF onFail
<1> HIDE DEF old
<1>7. /\ s \in AlertState /\ s.firing = old.firing /\ s.severity = r.severity
      /\ s.quietFor = old.quietFor
      /\ s.failStreak = capped(old.failStreak + 1, limit) /\ s.failStreak <= limit
  <2>1. old.failStreak \in Nat
    BY <1>2 DEF AlertState
  <2>2. PICK streak : streak = capped(old.failStreak + 1, limit)
    OBVIOUS
  <2>3. streak \in 0..limit
    BY <1>1, <2>1, <2>2, UptoBounds
  <2>4. s = [old EXCEPT !.failStreak = streak, !.passStreak = 0, !.severity = r.severity]
    BY <2>2
  <2> HIDE DEF s
  <2>5. s \in AlertState
    <3>1. r.severity \in {"WARN", "PAGE"} /\ streak \in Nat
      BY <1>1, <2>3 DEF Level
    <3>2. PICK level : level = r.severity
      OBVIOUS
    <3>3. [old EXCEPT !.failStreak = streak, !.passStreak = 0, !.severity = level] \in AlertState
      BY <1>2, <3>1, <3>2 DEF AlertState
    <3> QED
      BY <2>4, <3>2, <3>3
  <2>6. /\ s.firing = old.firing /\ s.severity = r.severity
        /\ s.quietFor = old.quietFor /\ s.failStreak = streak
    BY <1>2, <2>4 DEF AlertState
  <2> QED
    BY <1>1, <2>2, <2>3, <2>5, <2>6
<1>8. old.severity \in Level /\ old.firing \in BOOLEAN /\ old.quietFor \in Nat \cup {NULL}
  BY <1>2 DEF AlertState, Level
<1> HIDE DEF s
<1>9. /\ on \in AlertState /\ on.firing /\ on.severity = s.severity
      /\ on.quietFor = s.quietFor /\ on.failStreak = s.failStreak
  BY <1>7 DEF AlertState
<1>10. CASE ~s.firing /\ s.failStreak < limit
  BY <1>10, <1>1, <1>3, <1>4, <1>5, <1>6, <1>7 DEF Quietly
<1>11. CASE ~(~s.firing /\ s.failStreak < limit) /\ kind = "none"
  <2>1. to.state = on /\ to.event = "none"
    BY <1>11, <1>6 DEF Quietly
  <2>2. ~inGrace => s.quietFor # NULL /\ s.quietFor < Renotify
    BY <1>11, <1>1, <1>7, <1>8 DEF notice
  <2>3. s.firing => ~escalated
    BY <1>11 DEF notice
  <2>4. s.quietFor # NULL /\ r.severity = "PAGE" => prev.severity = "PAGE"
    BY <2>3, <1>5, <1>7, <1>8 DEF Level
  <2> QED
    BY <2>1, <2>2, <2>4, <1>3, <1>4, <1>7, <1>9
<1>12. CASE ~(~s.firing /\ s.failStreak < limit) /\ kind # "none"
  <2>1. to.state = [on EXCEPT !.quietFor = 0] /\ to.event = kind
    BY <1>12, <1>6 DEF Emits
  <2>2. kind \in {"firing", "reminder"}
    BY <1>12 DEF notice
  <2>3. /\ to.state \in AlertState /\ to.state.firing /\ to.state.severity = s.severity
        /\ to.state.quietFor = 0 /\ to.state.failStreak = s.failStreak
    <3> HIDE DEF on, kind
    <3>1. to.state \in AlertState
      BY <2>1, <1>9 DEF AlertState
    <3>2. /\ to.state.firing = on.firing /\ to.state.severity = on.severity
          /\ to.state.quietFor = 0 /\ to.state.failStreak = on.failStreak
      BY <2>1, <1>9 DEF AlertState
    <3> QED
      BY <3>1, <3>2, <1>9
  <2> HIDE DEF kind, on
  <2> QED
    BY <2>1, <2>2, <2>3, <1>1, <1>3, <1>7, <1>12
<1> QED
  BY <1>10, <1>11, <1>12

\* A pass clears the streak; the state it leaves keeps what was last announced.
LEMMA OnPassStep ==
  ASSUME NEW prev \in AlertState, prev.quietFor # NULL => prev.firing, NEW to, to = onPass(prev)
  PROVE  /\ to.state # NULL =>
              /\ to.state \in AlertState /\ to.state.failStreak = 0
              /\ to.state.severity = prev.severity /\ to.state.quietFor = prev.quietFor
              /\ to.state.quietFor # NULL => to.state.firing
              /\ to.event = "none"
<1> DEFINE s == [prev EXCEPT !.passStreak = @ + 1, !.failStreak = 0]
<1>1. prev # NULL
  BY NullAssumption
<1>2. s \in AlertState
  <2>1. prev.passStreak + 1 \in Nat
    BY DEF AlertState
  <2> QED
    BY <2>1 DEF AlertState
<1>3. /\ s.failStreak = 0 /\ s.severity = prev.severity
      /\ s.quietFor = prev.quietFor /\ s.firing = prev.firing
  BY DEF AlertState
<1>4. \/ to = Quietly(s)
      \/ to.state = NULL
  BY <1>1 DEF onPass
<1> HIDE DEF s
<1>5. CASE to = Quietly(s)
  BY <1>2, <1>3, <1>5 DEF Quietly
<1> QED
  BY <1>4, <1>5

-----------------------------------------------------------------------------
(* Monitor.tick.                                                           *)

\* The state of a key at the start of a tick.
Aged(k) ==
  IF k \notin DOMAIN states THEN NULL
  ELSE IF states[k].quietFor = NULL THEN states[k]
  ELSE [states[k] EXCEPT !.quietFor = capped(@ + 1, Renotify)]

\* A tick makes what an alert remembers older, and changes nothing else of it.
LEMMA AgedShape ==
  ASSUME MonitorTyped, NEW k \in DOMAIN states
  PROVE  /\ Aged(k) \in AlertState
         /\ Aged(k).severity = states[k].severity /\ Aged(k).firing = states[k].firing
         /\ Aged(k).failStreak = states[k].failStreak
         /\ Aged(k).quietFor # NULL => Aged(k).firing
         /\ Aged(k).quietFor # NULL =>
              /\ states[k].quietFor # NULL /\ states[k].quietFor \in Nat
              /\ Aged(k).quietFor = capped(states[k].quietFor + 1, Renotify)
<1>1. states[k] \in AlertState /\ (states[k].quietFor # NULL => states[k].firing)
  BY DEF MonitorTyped
<1>2. CASE states[k].quietFor = NULL
  BY <1>1, <1>2 DEF Aged
<1>3. CASE states[k].quietFor # NULL
  <2>1. states[k].quietFor \in Nat
    BY <1>1, <1>3 DEF AlertState
  <2>2. PICK q : q = capped(states[k].quietFor + 1, Renotify)
    OBVIOUS
  <2>3. q \in Nat
    BY <2>1, <2>2, UptoBounds, TimingAssumption
  <2>4. Aged(k) = [states[k] EXCEPT !.quietFor = q]
    BY <1>3, <2>2 DEF Aged
  <2>5. Aged(k) \in AlertState
    BY <1>1, <2>3, <2>4 DEF AlertState
  <2>6. /\ Aged(k).severity = states[k].severity /\ Aged(k).firing = states[k].firing
        /\ Aged(k).failStreak = states[k].failStreak /\ Aged(k).quietFor = q
    BY <1>1, <2>4 DEF AlertState
  <2> QED
    BY <1>1, <1>3, <2>1, <2>2, <2>5, <2>6
<1> QED
  BY <1>2, <1>3

\* The engine takes a step for each key it is told of or knows.
LEMMA ObserveIs ==
  ASSUME NEW results, NEW inGrace
  PROVE  observe(results, inGrace) =
           [k \in DOMAIN results \cup DOMAIN states |->
              IF k \in DOMAIN results THEN onFail(Aged(k), results[k], inGrace) ELSE onPass(Aged(k))]
  BY DEF observe, Aged

\* A key the tick reports failing.
LEMMA FailingKey ==
  ASSUME MonitorTyped, NEW blind, NEW k \in DOMAIN failures(condition, blind),
         NEW to, to = observe(failures(condition, blind), uptime < Grace)[k]
  PROVE  /\ to.state \in AlertState /\ to.state # NULL
         /\ to.state.severity = failures(condition, blind)[k].severity
         /\ to.state.failStreak =
              capped((IF k \in DOMAIN states THEN states[k].failStreak ELSE 0) + 1, failAfter(k[1]))
         /\ to.state.failStreak = failAfter(k[1]) => to.state.firing
         /\ to.state.quietFor # NULL => to.state.firing
         /\ to.event \in {"none", "firing", "reminder"}
         /\ to.event # "none" => to.state.quietFor = 0
         /\ to.event = "none" /\ to.state.quietFor # NULL =>
              /\ k \in DOMAIN states /\ states[k].quietFor \in Nat /\ states[k].quietFor # NULL
              /\ to.state.quietFor = capped(states[k].quietFor + 1, Renotify)
              /\ to.state.severity = "PAGE" => states[k].severity = "PAGE"
         /\ uptime >= Grace /\ to.state.firing =>
              to.state.quietFor # NULL /\ to.state.quietFor < Renotify
<1> DEFINE r == failures(condition, blind)[k]
           prev == Aged(k)
<1>1. r.check = k[1] /\ r.severity \in Level
  BY FailuresShape
<1>2. to = onFail(prev, r, uptime < Grace)
  BY ObserveIs
<1>3. k \notin DOMAIN states => prev = NULL
  BY DEF Aged
<1>4. prev \in AlertState \cup {NULL} /\ (prev # NULL => (prev.quietFor # NULL => prev.firing))
  BY <1>3, AgedShape
<1>5. k \in DOMAIN states => prev # NULL
  BY AgedShape, NullAssumption
<1>6. \E inGrace \in BOOLEAN : /\ to = onFail(prev, r, inGrace)
                               /\ inGrace = FALSE <=> uptime >= Grace
  <2>1. uptime \in Int /\ Grace \in Int
    BY TimingAssumption DEF MonitorTyped
  <2>2. CASE uptime < Grace
    <3>1. (uptime < Grace) = TRUE
      BY <2>2
    <3>2. to = onFail(prev, r, TRUE)
      BY <1>2, <3>1
    <3> QED
      <4>1. ~(uptime >= Grace)
        BY <2>1, <2>2
      <4> HIDE DEF r, prev
      <4> QED
        BY <3>2, <4>1, Zenon
  <2>3. CASE ~(uptime < Grace)
    <3>1. (uptime < Grace) = FALSE
      BY <2>3
    <3>2. to = onFail(prev, r, FALSE)
      BY <1>2, <3>1
    <3> QED
      <4>1. uptime >= Grace
        BY <2>1, <2>3
      <4> HIDE DEF r, prev
      <4> QED
        BY <3>2, <4>1, Zenon
  <2> QED
    BY <2>2, <2>3
<1>7. PICK inGrace \in BOOLEAN : /\ to = onFail(prev, r, inGrace)
                                 /\ inGrace = FALSE <=> uptime >= Grace
  BY <1>6
<1>8. PICK limit : limit = failAfter(r.check)
  OBVIOUS
<1>9. limit = failAfter(k[1])
  BY <1>1, <1>8
<1> HIDE DEF r, prev
<1>10. /\ to.state \in AlertState
       /\ to.state.severity = r.severity
       /\ to.state.failStreak = capped((IF prev = NULL THEN 0 ELSE prev.failStreak) + 1, limit)
       /\ to.state.failStreak = limit => to.state.firing
       /\ to.state.quietFor # NULL => to.state.firing
       /\ to.event \in {"none", "firing", "reminder"}
       /\ to.event # "none" => to.state.quietFor = 0
       /\ to.event = "none" =>
            /\ to.state.quietFor = IF prev = NULL THEN NULL ELSE prev.quietFor
            /\ to.state.quietFor # NULL /\ r.severity = "PAGE" => prev.severity = "PAGE"
       /\ ~inGrace /\ to.state.firing => to.state.quietFor # NULL /\ to.state.quietFor < Renotify
  BY <1>1, <1>4, <1>7, <1>8, OnFailStep
<1>11. to.state # NULL
  BY <1>10, NullAssumption
<1>12. (IF prev = NULL THEN 0 ELSE prev.failStreak) =
         (IF k \in DOMAIN states THEN states[k].failStreak ELSE 0)
  BY <1>3, <1>5, AgedShape DEF prev
<1>13. to.event = "none" /\ to.state.quietFor # NULL =>
              /\ k \in DOMAIN states /\ states[k].quietFor \in Nat /\ states[k].quietFor # NULL
              /\ to.state.quietFor = capped(states[k].quietFor + 1, Renotify)
              /\ to.state.severity = "PAGE" => states[k].severity = "PAGE"
  BY <1>3, <1>5, <1>10, AgedShape DEF prev
<1>14. /\ to.state.severity = failures(condition, blind)[k].severity
  BY <1>10 DEF r
<1> QED
  BY <1>7, <1>9, <1>10, <1>11, <1>12, <1>13, <1>14

\* A key the tick does not report, and that the engine keeps.
LEMMA PassingKey ==
  ASSUME MonitorTyped, NEW blind, NEW k \in DOMAIN states \ DOMAIN failures(condition, blind),
         NEW to, to = observe(failures(condition, blind), uptime < Grace)[k], to.state # NULL
  PROVE  /\ to.state \in AlertState /\ to.state.failStreak = 0 /\ to.event = "none"
         /\ to.state.severity = states[k].severity
         /\ to.state.quietFor # NULL =>
              /\ to.state.firing
              /\ states[k].quietFor \in Nat /\ states[k].quietFor # NULL
              /\ to.state.quietFor = capped(states[k].quietFor + 1, Renotify)
<1>1. to = onPass(Aged(k))
  BY ObserveIs
<1>2. Aged(k) \in AlertState /\ (Aged(k).quietFor # NULL => Aged(k).firing)
  BY AgedShape
<1>3. PICK prev : prev = Aged(k)
  OBVIOUS
<1>4. /\ to.state \in AlertState /\ to.state.failStreak = 0
      /\ to.state.severity = prev.severity /\ to.state.quietFor = prev.quietFor
      /\ to.state.quietFor # NULL => to.state.firing
      /\ to.event = "none"
  BY <1>1, <1>2, <1>3, OnPassStep
<1> QED
  BY <1>3, <1>4, AgedShape

\* What a tick assigns, over the step of the engine on each key.
TickEffect(results, steps, blind, up) ==
  /\ DOMAIN steps = DOMAIN results \cup DOMAIN states
  /\ states' = [k \in {j \in DOMAIN steps : steps[j].state # NULL} |-> steps[k].state]
  /\ heard' = deliver(steps, up)
  /\ uptime' = capped(uptime + 1, Grace + 1)
  /\ upFor' = IF up THEN capped(upFor + 1, Renotify) ELSE 0
  /\ failedFor' = [k \in DOMAIN results |->
       capped((IF k \in DOMAIN failedFor THEN failedFor[k] ELSE 0) + 1, failAfter(k[1]))]
  /\ worst' = [k \in DOMAIN results |-> results[k].severity]
  /\ blockedFor' = IF unvalued[condition] /\ blind = {} THEN capped(blockedFor + 1, FailAfter) ELSE 0
  /\ condition' = condition

\* A tick read as its effect on the engine, for the failures it found.
LEMMA TickIs ==
  ASSUME MonitorInv, NEW blind \in Faults[condition], NEW up \in BOOLEAN, MonitorTick(blind, up)
  PROVE  \E results, steps :
           /\ results = failures(condition, blind)
           /\ steps = observe(results, uptime < Grace)
           /\ TickEffect(results, steps, blind, up)
<1>1. PICK results : results = failures(condition, blind)
  OBVIOUS
<1>2. PICK steps : steps = observe(results, uptime < Grace)
  OBVIOUS
<1>3. results = report[condition][blind]
  BY <1>1, ReportIs DEF MonitorInv, MonitorTyped
<1>4. DOMAIN steps = DOMAIN results \cup DOMAIN states
  BY <1>2, ObserveIs
<1>5. TickEffect(results, steps, blind, up)
  BY <1>2, <1>3, <1>4 DEF MonitorTick, Watches, TickEffect
<1> QED
  BY <1>1, <1>2, <1>5

\* A tick keeps the types,
LEMMA TickTyped ==
  ASSUME MonitorInv, NEW blind \in Faults[condition], NEW up \in BOOLEAN, MonitorTick(blind, up)
  PROVE  MonitorTyped'
<1>0. PICK results, steps : /\ results = failures(condition, blind)
                            /\ steps = observe(results, uptime < Grace)
                            /\ TickEffect(results, steps, blind, up)
  BY TickIs
<1>1. results = failures(condition, blind)
  BY <1>0
<1>2. steps = observe(results, uptime < Grace)
  BY <1>0
<1>3. MonitorTyped
  BY DEF MonitorInv
<1>4. /\ DOMAIN steps = DOMAIN results \cup DOMAIN states
      /\ states' = [k \in {j \in DOMAIN steps : steps[j].state # NULL} |-> steps[k].state]
      /\ uptime' = capped(uptime + 1, Grace + 1)
      /\ upFor' = IF up THEN capped(upFor + 1, Renotify) ELSE 0
      /\ failedFor' = [k \in DOMAIN results |->
           capped((IF k \in DOMAIN failedFor THEN failedFor[k] ELSE 0) + 1, failAfter(k[1]))]
      /\ worst' = [k \in DOMAIN results |-> results[k].severity]
      /\ blockedFor' = IF unvalued[condition] /\ blind = {} THEN capped(blockedFor + 1, FailAfter) ELSE 0
      /\ condition' = condition
  BY <1>0 DEF TickEffect
<1>5. IsFiniteSet(DOMAIN states')
  <2>1. IsFiniteSet(DOMAIN results)
    BY <1>1, <1>3, FailuresFinite DEF MonitorTyped
  <2>2. IsFiniteSet(DOMAIN steps)
    <3>1. IsFiniteSet(DOMAIN states)
      BY <1>3 DEF MonitorTyped
    <3>2. IsFiniteSet(DOMAIN results \cup DOMAIN states)
      BY <2>1, <3>1, FS_Union
    <3> QED
      BY <1>4, <3>2
  <2> QED
    BY <1>4, <2>2, FS_Subset
<1>6. \A k \in DOMAIN states' : /\ states'[k] \in AlertState
                                /\ states'[k].quietFor # NULL => states'[k].firing
  <2> SUFFICES ASSUME NEW k \in DOMAIN steps, steps[k].state # NULL
               PROVE  /\ steps[k].state \in AlertState
                      /\ steps[k].state.quietFor # NULL => steps[k].state.firing
    BY <1>4
  <2>1. CASE k \in DOMAIN results
    BY <2>1, <1>1, <1>2, <1>3, FailingKey
  <2>2. CASE k \notin DOMAIN results
    BY <2>2, <1>1, <1>2, <1>3, <1>4, PassingKey
  <2> QED
    BY <2>1, <2>2
<1>7. uptime' \in 0..(Grace + 1)
  <2>1. uptime + 1 \in Nat /\ Grace + 1 \in Nat
    BY <1>3, TimingAssumption DEF MonitorTyped
  <2> QED
    BY <2>1, <1>4, UptoBounds
<1>8. upFor' \in 0..Renotify
  <2>1. upFor + 1 \in Nat /\ Renotify \in Nat
    BY <1>3, TimingAssumption DEF MonitorTyped
  <2> QED
    BY <2>1, <1>4, UptoBounds
<1>9. blockedFor' \in Nat
  <2>1. blockedFor + 1 \in Nat /\ FailAfter \in Nat
    BY <1>3, TimingAssumption DEF MonitorTyped
  <2> QED
    BY <2>1, <1>4, UptoBounds
<1>10. \A k \in DOMAIN failedFor' : failedFor'[k] \in 0..failAfter(k[1])
  <2> SUFFICES ASSUME NEW k \in DOMAIN results
               PROVE  capped((IF k \in DOMAIN failedFor THEN failedFor[k] ELSE 0) + 1, failAfter(k[1]))
                        \in 0..failAfter(k[1])
    BY <1>4
  <2>1. (IF k \in DOMAIN failedFor THEN failedFor[k] ELSE 0) + 1 \in Nat
    BY <1>3, LimitsPositive DEF MonitorTyped
  <2> QED
    BY <2>1, LimitsPositive, UptoBounds
<1> QED
  BY <1>3, <1>4, <1>5, <1>6, <1>7, <1>8, <1>9, <1>10 DEF MonitorTyped

\* the streaks the ticks really reported,
LEMMA TickKnown ==
  ASSUME MonitorInv, NEW blind \in Faults[condition], NEW up \in BOOLEAN, MonitorTick(blind, up)
  PROVE  KnownFailing'
<1>0. PICK results, steps : /\ results = failures(condition, blind)
                            /\ steps = observe(results, uptime < Grace)
                            /\ TickEffect(results, steps, blind, up)
  BY TickIs
<1>1. results = failures(condition, blind)
  BY <1>0
<1>2. steps = observe(results, uptime < Grace)
  BY <1>0
<1>3. MonitorTyped /\ KnownFailing
  BY DEF MonitorInv
<1>4. /\ DOMAIN steps = DOMAIN results \cup DOMAIN states
      /\ states' = [k \in {j \in DOMAIN steps : steps[j].state # NULL} |-> steps[k].state]
      /\ uptime' = capped(uptime + 1, Grace + 1)
      /\ failedFor' = [k \in DOMAIN results |->
           capped((IF k \in DOMAIN failedFor THEN failedFor[k] ELSE 0) + 1, failAfter(k[1]))]
      /\ worst' = [k \in DOMAIN results |-> results[k].severity]
  BY <1>0 DEF TickEffect
<1>5. uptime' > 0
  <2>1. uptime + 1 \in Nat /\ Grace + 1 \in Nat /\ uptime + 1 > 0 /\ Grace + 1 > 0
    BY <1>3, TimingAssumption DEF MonitorTyped
  <2> QED
    BY <2>1, <1>4 DEF capped
<1>6. ASSUME NEW k \in DOMAIN results
      PROVE  /\ steps[k].state # NULL
             /\ steps[k].state.failStreak = failedFor'[k]
             /\ steps[k].state.severity = worst'[k]
             /\ failedFor'[k] = failAfter(k[1]) => steps[k].state.firing
  <2>1. /\ steps[k].state # NULL
        /\ steps[k].state.severity = results[k].severity
        /\ steps[k].state.failStreak =
             capped((IF k \in DOMAIN states THEN states[k].failStreak ELSE 0) + 1, failAfter(k[1]))
        /\ steps[k].state.failStreak = failAfter(k[1]) => steps[k].state.firing
    BY <1>1, <1>2, <1>3, FailingKey
  <2>2. (IF k \in DOMAIN states THEN states[k].failStreak ELSE 0) =
          (IF k \in DOMAIN failedFor THEN failedFor[k] ELSE 0)
    BY <1>3 DEF KnownFailing
  <2> QED
    BY <2>1, <2>2, <1>4
<1>7. ASSUME NEW k \in DOMAIN states', k \notin DOMAIN results
      PROVE  states'[k].failStreak = 0
  BY <1>7, <1>1, <1>2, <1>3, <1>4, PassingKey
<1> QED
  BY <1>4, <1>5, <1>6, <1>7 DEF KnownFailing

\* what was announced while the webhook answered,
LEMMA TickAnnounced ==
  ASSUME MonitorInv, NEW blind \in Faults[condition], NEW up \in BOOLEAN, MonitorTick(blind, up)
  PROVE  Announced'
<1>0. PICK results, steps : /\ results = failures(condition, blind)
                            /\ steps = observe(results, uptime < Grace)
                            /\ TickEffect(results, steps, blind, up)
  BY TickIs
<1>1. results = failures(condition, blind)
  BY <1>0
<1>2. steps = observe(results, uptime < Grace)
  BY <1>0
<1>3. MonitorTyped /\ Announced /\ Renotify \in Nat /\ upFor \in Nat
  BY TimingAssumption DEF MonitorInv, MonitorTyped
<1>4. /\ DOMAIN steps = DOMAIN results \cup DOMAIN states
      /\ states' = [k \in {j \in DOMAIN steps : steps[j].state # NULL} |-> steps[k].state]
      /\ heard' = deliver(steps, up)
      /\ upFor' = IF up THEN capped(upFor + 1, Renotify) ELSE 0
  BY <1>0 DEF TickEffect
<1> SUFFICES ASSUME NEW k \in DOMAIN steps, steps[k].state # NULL,
                    steps[k].state.quietFor # NULL, steps[k].state.quietFor < upFor'
             PROVE  /\ Told(k)'
                    /\ steps[k].state.severity = "PAGE" => Heard(k)'.severity = "PAGE"
  BY <1>4 DEF Announced
<1> DEFINE sent == {j \in DOMAIN steps : steps[j].event # "none" /\ up}
           severity(j) == IF steps[j].state = NULL THEN states[j].severity ELSE steps[j].state.severity
<1>5. heard' = [j \in DOMAIN heard \cup sent |->
                  IF j \in sent THEN [kind |-> steps[j].event, severity |-> severity(j)] ELSE heard[j]]
  BY <1>4 DEF deliver
<1>6. steps[k].state \in AlertState
  <2>1. CASE k \in DOMAIN results
    BY <2>1, <1>1, <1>2, <1>3, FailingKey
  <2>2. CASE k \notin DOMAIN results
    BY <2>2, <1>1, <1>2, <1>3, <1>4, PassingKey
  <2> QED
    BY <2>1, <2>2
<1>7. up
  BY <1>4, <1>6, NullAssumption DEF AlertState
<1>8. CASE steps[k].event # "none"
  <2>1. steps[k].event \in {"firing", "reminder"}
    <3>1. k \in DOMAIN results
      BY <1>8, <1>1, <1>2, <1>3, <1>4, PassingKey
    <3> QED
      BY <3>1, <1>8, <1>1, <1>2, <1>3, FailingKey
  <2>2. k \in DOMAIN heard' /\ heard'[k] = [kind |-> steps[k].event, severity |-> steps[k].state.severity]
    BY <1>5, <1>7, <1>8
  <2> QED
    BY <2>1, <2>2 DEF Told, Heard
<1>9. CASE steps[k].event = "none"
  <2>1. /\ k \in DOMAIN states /\ states[k].quietFor \in Nat /\ states[k].quietFor # NULL
        /\ steps[k].state.quietFor = capped(states[k].quietFor + 1, Renotify)
        /\ steps[k].state.severity = "PAGE" => states[k].severity = "PAGE"
    <3>1. CASE k \in DOMAIN results
      BY <3>1, <1>9, <1>1, <1>2, <1>3, FailingKey
    <3>2. CASE k \notin DOMAIN results
      BY <3>2, <1>1, <1>2, <1>3, <1>4, PassingKey
    <3> QED
      BY <3>1, <3>2
  <2>2. states[k].quietFor < upFor
    BY <2>1, <1>3, <1>4, <1>7 DEF capped
  <2>3. Told(k) /\ (states[k].severity = "PAGE" => Heard(k).severity = "PAGE")
    BY <2>1, <2>2, <1>3 DEF Announced
  <2>4. k \in DOMAIN heard
    BY <2>3 DEF Told, Heard
  <2>5. k \in DOMAIN heard' /\ heard'[k] = heard[k]
    BY <2>4, <1>5, <1>9
  <2> QED
    BY <2>1, <2>3, <2>4, <2>5 DEF Told, Heard
<1> QED
  BY <1>8, <1>9

\* the bound on the time without a reminder,
LEMMA TickRepeated ==
  ASSUME MonitorInv, NEW blind \in Faults[condition], NEW up \in BOOLEAN, MonitorTick(blind, up)
  PROVE  Repeated'
<1>0. PICK results, steps : /\ results = failures(condition, blind)
                            /\ steps = observe(results, uptime < Grace)
                            /\ TickEffect(results, steps, blind, up)
  BY TickIs
<1>1. results = failures(condition, blind)
  BY <1>0
<1>2. steps = observe(results, uptime < Grace)
  BY <1>0
<1>3. MonitorTyped
  BY DEF MonitorInv
<1>4. /\ DOMAIN steps = DOMAIN results \cup DOMAIN states
      /\ states' = [k \in {j \in DOMAIN steps : steps[j].state # NULL} |-> steps[k].state]
      /\ uptime' = capped(uptime + 1, Grace + 1)
      /\ DOMAIN failedFor' = DOMAIN results
  BY <1>0 DEF TickEffect
<1> SUFFICES ASSUME uptime' > Grace, NEW k \in DOMAIN results
             PROVE  states'[k].firing => states'[k].quietFor # NULL /\ states'[k].quietFor < Renotify
  BY <1>4 DEF Repeated, PastGrace
<1>5. uptime >= Grace
  BY <1>3, <1>4, TimingAssumption DEF MonitorTyped, capped
<1>6. /\ steps[k].state # NULL
      /\ steps[k].state.firing => steps[k].state.quietFor # NULL /\ steps[k].state.quietFor < Renotify
  BY <1>1, <1>2, <1>3, <1>5, FailingKey
<1> QED
  BY <1>4, <1>6

-----------------------------------------------------------------------------
(* Accounts nobody can value.                                              *)

\* liquidation.backlog reports one result.
LEMMA BacklogOnly ==
  ASSUME NEW w, NEW r \in evaluateLiquidation(w)
  PROVE  /\ r.check = "liquidation.backlog" /\ r.subject = WHOLE /\ r.severity = "PAGE"
         /\ (\E a \in positionHolders(w) : accountHealth(w, a) = NULL) => r.status = "fail"
<1> DEFINE bad == \E a \in positionHolders(w) :
                    accountHealth(w, a) = NULL \/ accountHealth(w, a).liquidatable
<1>1. r = Verdict("liquidation.backlog", WHOLE, bad, "PAGE")
  BY DEF evaluateLiquidation, Whole
<1>2. (\E a \in positionHolders(w) : accountHealth(w, a) = NULL) => bad
  OBVIOUS
<1> HIDE DEF bad
<1> QED
  BY <1>1, <1>2 DEF Verdict, Result

\* In a condition with an account nobody can value, a tick that sees everything reports it,
\* as a PAGE.
LEMMA BacklogReported ==
  ASSUME NEW c \in Conditions, unvalued[c]
  PROVE  /\ BACKLOG \in DOMAIN failures(c, {})
         /\ failures(c, {})[BACKLOG].severity = "PAGE"
         /\ \E r \in runChecks(Readings[c], Config, {}) : r.status = "fail"
<1> DEFINE w == Readings[c]
           x == [id |-> "liquidation.backlog", reads |-> {"db", "rpc"}]
<1>1. \E a \in positionHolders(w) : accountHealth(w, a) = NULL
  BY DEF unvalued
<1>2. x \in CHECKS /\ x.reads \cap {} = {}
  BY DEF CHECKS, keeperChecks
<1>3. evaluate(x.id, w, Config) = evaluateLiquidation(w)
  BY DEF evaluate
<1>4. PICK r : r \in evaluateLiquidation(w)
  BY DEF evaluateLiquidation, Whole
<1>5. r.status = "fail" /\ Key(r) = BACKLOG
  BY <1>1, <1>4, BacklogOnly DEF Key, BACKLOG
<1>6. r \in runChecks(Readings[c], Config, {}) /\ BACKLOG \in DOMAIN failures(c, {})
  BY <1>2, <1>3, <1>4, <1>5, Reported DEF failing
<1>7. PICK f : f = failures(c, {})[BACKLOG]
  OBVIOUS
<1>8. f \in runChecks(w, Config, {}) /\ Key(f) = BACKLOG
  BY <1>6, <1>7, FailuresShape
<1>9. PICK y \in CHECKS : f \in evaluate(y.id, w, Config)
  BY <1>8 DEF runChecks
<1>10. f.check = y.id /\ f.check = "liquidation.backlog"
  BY <1>8, <1>9, EvaluateOf DEF ResultsOf, Key, BACKLOG
<1>11. f \in evaluateLiquidation(w)
  BY <1>3, <1>9, <1>10
<1>12. f.severity = "PAGE"
  BY <1>11, BacklogOnly
<1> QED
  BY <1>5, <1>6, <1>7, <1>12

\* and what is known of a backlog.
LEMMA TickBlocked ==
  ASSUME MonitorInv, NEW blind \in Faults[condition], NEW up \in BOOLEAN, MonitorTick(blind, up)
  PROVE  BlockedKnown'
<1>0. PICK results, steps : /\ results = failures(condition, blind)
                            /\ steps = observe(results, uptime < Grace)
                            /\ TickEffect(results, steps, blind, up)
  BY TickIs
<1>1. /\ failedFor' = [k \in DOMAIN results |->
           capped((IF k \in DOMAIN failedFor THEN failedFor[k] ELSE 0) + 1, failAfter(k[1]))]
      /\ worst' = [k \in DOMAIN results |-> results[k].severity]
      /\ blockedFor' = IF unvalued[condition] /\ blind = {} THEN capped(blockedFor + 1, FailAfter) ELSE 0
  BY <1>0 DEF TickEffect
<1>2. MonitorTyped /\ BlockedKnown /\ FailAfter \in Nat \ {0}
  BY TimingAssumption DEF MonitorInv
<1> SUFFICES ASSUME blockedFor' > 0
             PROVE  /\ BACKLOG \in DOMAIN failedFor'
                    /\ failedFor'[BACKLOG] >= blockedFor'
                    /\ worst'[BACKLOG] = "PAGE"
  BY DEF BlockedKnown
<1>3. unvalued[condition] /\ blind = {} /\ blockedFor' = capped(blockedFor + 1, FailAfter)
  BY <1>1
<1>4. BACKLOG \in DOMAIN results /\ results[BACKLOG].severity = "PAGE"
  BY <1>0, <1>2, <1>3, BacklogReported DEF MonitorTyped
<1>5. failAfter(BACKLOG[1]) = FailAfter
  BY DEF failAfter, BACKLOG
<1>6. PICK n : n = IF BACKLOG \in DOMAIN failedFor THEN failedFor[BACKLOG] ELSE 0
  OBVIOUS
<1>7. n \in Nat /\ blockedFor \in Nat /\ n >= blockedFor
  BY <1>2, <1>6 DEF MonitorTyped, BlockedKnown
<1>8. failedFor'[BACKLOG] = capped(n + 1, FailAfter)
  BY <1>1, <1>4, <1>5, <1>6
<1>9. failedFor'[BACKLOG] >= blockedFor'
  BY <1>2, <1>3, <1>7, <1>8 DEF capped
<1> QED
  BY <1>1, <1>4, <1>9

\* The gate counts a failing check as a refusal.
LEMMA GateRefuses ==
  ASSUME NEW w, NEW cfg, NEW strict, NEW blind,
         NEW r \in runChecks(w, cfg, blind), r.status = "fail"
  PROVE  ~venueGate(w, cfg, strict, blind)
<1>1. gateOf(r).status = "fail"
  BY DEF gateOf
<1>2. gateOf(r) \in {gateOf(q) : q \in runChecks(w, cfg, blind)}
  OBVIOUS
<1> QED
  BY <1>1, <1>2 DEF venueGate, summarise

\* A venue with an account nobody can value does not go live.
LEMMA GateStaysShut ==
  ASSUME NEW c \in Conditions, unvalued[c]
  PROVE  ~goesLive[c]
  BY BacklogReported, GateRefuses DEF goesLive

-----------------------------------------------------------------------------
(* The reconciler's unaccounted fills.                                     *)

\* The reconciler computes the high-water mark the monitor does.
LEMMA SameHighWater ==
  ASSUME NEW w
  PROVE  highWater(w) = indexerHighWater(w)
<1>1. {f.block : f \in {h \in w.fills : h.block # NULL}} = {f.block : f \in w.fills} \ {NULL}
  OBVIOUS
<1> QED
  BY <1>1 DEF highWater, indexerHighWater

\* The reconciler and the monitor classify an old fill alike, unless it is still in flight.
LEMMA SameKind ==
  ASSUME NEW w, NULL \notin w.txJobs, \A i, j \in w.txJobs : i.id = j.id => i = j,
         NEW f, NEW job,
         job = IF \E j \in w.txJobs : j.id = f.txJobId
               THEN CHOOSE j \in w.txJobs : j.id = f.txJobId ELSE NULL,
         job = NULL \/ job.status \notin OPEN_JOB
  PROVE  pendingFillKind(w, f) = mismatchKind(w, job)
<1> DEFINE jobs == {j \in w.txJobs : j.id = f.txJobId}
<1>1. CASE jobs = {}
  BY <1>1 DEF pendingFillKind, mismatchKind
<1>2. CASE jobs # {}
  <2>1. job \in w.txJobs /\ job.id = f.txJobId /\ job # NULL
    BY <1>2
  <2>2. jobs = {job}
    BY <2>1
  <2>3. (CHOOSE j \in jobs : TRUE) = job
    BY <2>2
  <2>4. pendingFillKind(w, f) =
          IF job.status \in OPEN_JOB THEN "in-flight"
          ELSE IF job.status # "CONFIRMED" THEN "batch-failed"
          ELSE IF job.block # NULL /\ highWater(w) # NULL /\ highWater(w) >= job.block
               THEN "not-in-receipt" ELSE "indexer-lag"
    BY <1>2, <2>3 DEF pendingFillKind
  <2> QED
    BY <2>1, <2>4, SameHighWater DEF mismatchKind
<1> QED
  BY <1>1, <1>2

\* Every kind of fill the reconciler finds unaccounted for, the monitor reports.
LEMMA NothingOverlooked ==
  ASSUME NEW c \in Conditions
  PROVE  overlooked[c] = {}
<1> DEFINE w == Readings[c]
           x == [id |-> "settlement.fills", reads |-> {"db"}]
<1>1. /\ NULL \notin w.txJobs /\ \A i, j \in w.txJobs : i.id = j.id => i = j
      /\ {} \in Faults[c]
  BY ReadingsAssumption
<1> SUFFICES ASSUME NEW u \in scanUnaccountedFills(w, Config.pendingFillSecs)
             PROVE  <<"settlement.fills", u.kind>> \in DOMAIN report[c][{}]
  BY DEF overlooked
<1>2. PICK f \in w.fills :
        /\ f.status = "PENDING" /\ f.age > Config.pendingFillSecs
        /\ LET job == IF \E j \in w.txJobs : j.id = f.txJobId
                      THEN CHOOSE j \in w.txJobs : j.id = f.txJobId ELSE NULL
           IN  /\ job = NULL \/ job.status \notin OPEN_JOB
               /\ u.kind = mismatchKind(w, job)
  BY DEF scanUnaccountedFills
<1>3. PICK job : job = IF \E j \in w.txJobs : j.id = f.txJobId
                       THEN CHOOSE j \in w.txJobs : j.id = f.txJobId ELSE NULL
  OBVIOUS
<1>4. u.kind = pendingFillKind(w, f)
  <2>1. (job = NULL \/ job.status \notin OPEN_JOB) /\ u.kind = mismatchKind(w, job)
    BY <1>2, <1>3
  <2> QED
    BY <1>1, <1>3, <2>1, SameKind
<1> DEFINE kinds == {pendingFillKind(w, y) :
                       y \in {h \in w.fills : h.status = "PENDING" /\ h.age > Config.pendingFillSecs}}
           of(k) == Verdict("settlement.fills", k, TRUE, IF k \in SELF_HEALING THEN "WARN" ELSE "PAGE")
           each == {of(k) : k \in kinds}
<1>5. u.kind \in kinds
  BY <1>2, <1>4
<1>6. evaluateFills(w, Config) = orNothingToCheck("settlement.fills", each, "PAGE")
  BY DEF evaluateFills
<1>7. PICK k : k = u.kind
  OBVIOUS
<1>8. PICK r : r = of(k)
  OBVIOUS
<1>9. r.check = "settlement.fills" /\ r.subject = k /\ r.status = "fail"
  BY <1>8 DEF Verdict, Result
<1> HIDE DEF kinds, of
<1>10. r \in each
  BY <1>5, <1>7, <1>8
<1>11. r \in evaluateFills(w, Config)
  BY <1>6, <1>10 DEF orNothingToCheck
<1>12. x \in CHECKS /\ x.reads \cap {} = {} /\ evaluate(x.id, w, Config) = evaluateFills(w, Config)
  BY DEF CHECKS, keeperChecks, evaluate
<1>13. Key(r) \in DOMAIN failures(c, {})
  BY <1>9, <1>11, <1>12, Reported DEF failing
<1> QED
  BY <1>1, <1>7, <1>9, <1>13, ReportIs DEF Key

-----------------------------------------------------------------------------
(* The theorems.                                                           *)

\* A monitor that has seen nothing.
LEMMA MonitorStarts == MonitorInit => MonitorInv
<1> SUFFICES ASSUME MonitorInit PROVE MonitorInv
  OBVIOUS
<1>1. DOMAIN states = {} /\ DOMAIN failedFor = {} /\ DOMAIN worst = {}
  BY DEF MonitorInit
<1>2. IsFiniteSet({})
  BY FS_EmptySet
<1> QED
  BY <1>1, <1>2, TimingAssumption
  DEF MonitorInit, MonitorInv, MonitorTyped, KnownFailing, Announced, Repeated, BlockedKnown

\* The world changes and the engine remembers what it knew.
LEMMA BecomeStep ==
  ASSUME MonitorInv, NEW c \in Conditions, Become(c)
  PROVE  MonitorInv'
<1>1. /\ condition' = c /\ states' = states /\ uptime' = uptime /\ heard' = heard
      /\ failedFor' = failedFor /\ blockedFor' = blockedFor /\ upFor' = upFor /\ worst' = worst
  BY DEF Become
<1> QED
  BY <1>1 DEF MonitorInv, MonitorTyped, KnownFailing, Announced, Repeated, BlockedKnown, Told,
              Heard, PastGrace

\* A restart forgets the engine's memory, and the claims with it.
LEMMA RestartStep ==
  ASSUME MonitorInv, Restart
  PROVE  MonitorInv'
<1>1. /\ condition' = condition /\ states' = <<>> /\ uptime' = 0
      /\ failedFor' = <<>> /\ blockedFor' = 0 /\ upFor' = upFor /\ worst' = <<>>
  BY DEF Restart
<1>2. DOMAIN states' = {} /\ DOMAIN failedFor' = {} /\ DOMAIN worst' = {}
  BY <1>1
<1>3. IsFiniteSet({})
  BY FS_EmptySet
<1>4. MonitorTyped'
  BY <1>1, <1>2, <1>3, TimingAssumption DEF MonitorInv, MonitorTyped
<1> QED
  BY <1>1, <1>2, <1>4, TimingAssumption
  DEF MonitorInv, KnownFailing, Announced, Repeated, BlockedKnown, PastGrace

\* Every step of the monitor keeps the invariant.
LEMMA MonitorStep == MonitorInv /\ [MonitorNext]_monitorVars => MonitorInv'
<1> SUFFICES ASSUME MonitorInv, [MonitorNext]_monitorVars PROVE MonitorInv'
  OBVIOUS
<1>1. CASE \E blind \in Faults[condition], up \in BOOLEAN : MonitorTick(blind, up)
  BY <1>1, TickTyped, TickKnown, TickAnnounced, TickRepeated, TickBlocked DEF MonitorInv
<1>2. CASE \E c \in Conditions : Become(c)
  BY <1>2, BecomeStep
<1>3. CASE Restart
  BY <1>3, RestartStep
<1>4. CASE UNCHANGED monitorVars
  BY <1>4 DEF monitorVars, MonitorInv, MonitorTyped, KnownFailing, Announced, Repeated, BlockedKnown,
              Told, Heard, PastGrace
<1> QED
  BY <1>1, <1>2, <1>3, <1>4 DEF MonitorNext

\* The engine's states, the streaks and what the webhook delivered agree in every reachable
\* state (AlertEngine.observe, fanout).
THEOREM MonitorInvariant == MonitorSpec => []MonitorInv
  BY MonitorStarts, MonitorStep, PTL DEF MonitorSpec

\* What fails often enough has been heard of, whatever a restart, the grace period or a
\* webhook that was down did to its announcement.
LEMMA FullStreakHeard ==
  ASSUME MonitorInv, NEW k \in DOMAIN failedFor,
         failedFor[k] = failAfter(k[1]), PastGrace, Reachable
  PROVE  Told(k) /\ (worst[k] = "PAGE" => Heard(k).severity = "PAGE")
<1>1. k \in DOMAIN states /\ states[k].firing /\ states[k].severity = worst[k]
  BY DEF MonitorInv, KnownFailing
<1>2. states[k].quietFor # NULL /\ states[k].quietFor < upFor
  BY <1>1 DEF MonitorInv, Repeated, Reachable
<1> QED
  BY <1>1, <1>2 DEF MonitorInv, Announced

\* A key reported failing long enough is known to the reader of the webhook, and no fill
\* the reconciler records is missing from the monitor's results.
THEOREM FailureIsHeard == MonitorSpec => []FailureHeard
<1>1. MonitorInv => FailureHeard
  BY FullStreakHeard, NothingOverlooked DEF FailureHeard, MonitorInv, MonitorTyped
<1> QED
  BY <1>1, MonitorInvariant, PTL

\* A problem at PAGE is shown as a PAGE by /status and /metrics, and known as a PAGE.
THEOREM PageIsNotMasked == MonitorSpec => []PageNotMasked
<1>1. ASSUME MonitorInv, NEW k \in DOMAIN failedFor,
             failedFor[k] = failAfter(k[1]), worst[k] = "PAGE"
      PROVE  /\ statusJson = "PAGE" /\ prometheus.level = 2 /\ prometheus.firing["PAGE"] > 0
             /\ PastGrace /\ Reachable => Heard(k).severity = "PAGE"
  <2>1. k \in DOMAIN states /\ states[k].firing /\ states[k].severity = "PAGE" /\ uptime > 0
    BY <1>1 DEF MonitorInv, KnownFailing
  <2>2. overallLevel(states) = "PAGE"
    BY <2>1 DEF overallLevel
  <2>3. statusJson = "PAGE"
    BY <2>1, <2>2, <1>1 DEF statusJson, MonitorInv, MonitorTyped
  <2>4. prometheus.level = 2
    BY <2>2 DEF prometheus
  <2> DEFINE paging == {j \in DOMAIN states : states[j].firing /\ states[j].severity = "PAGE"}
  <2>5. Cardinality(paging) > 0
    <3>1. IsFiniteSet(paging)
      BY <1>1, FS_Subset DEF MonitorInv, MonitorTyped
    <3>2. k \in paging
      BY <2>1
    <3> HIDE DEF paging
    <3>3. Cardinality(paging) \in Nat /\ Cardinality(paging) # 0
      BY <3>1, <3>2, FS_CardinalityType, FS_EmptySet
    <3> QED
      BY <3>3
  <2>6. prometheus.firing["PAGE"] = Cardinality(paging)
    BY DEF prometheus
  <2>7. PastGrace /\ Reachable => Heard(k).severity = "PAGE"
    BY <1>1, FullStreakHeard
  <2> QED
    BY <2>3, <2>4, <2>5, <2>6, <2>7
<1>2. MonitorInv => PageNotMasked
  BY <1>1 DEF PageNotMasked
<1> QED
  BY <1>2, MonitorInvariant, PTL

\* A trader nobody can value is paged about, and the go-live gate stays shut.
THEOREM BlockedTraderIsPaged == MonitorSpec => []BlockedTraderPaged
<1>1. ASSUME MonitorInv, blockedFor = FailAfter, PastGrace, Reachable
      PROVE  \E k \in DOMAIN heard : Told(k) /\ heard[k].severity = "PAGE" /\ k \in DOMAIN states
  <2>1. blockedFor > 0
    BY <1>1, TimingAssumption
  <2>2. BACKLOG \in DOMAIN failedFor /\ failedFor[BACKLOG] >= FailAfter /\ worst[BACKLOG] = "PAGE"
    BY <1>1, <2>1 DEF MonitorInv, BlockedKnown
  <2>3. failAfter(BACKLOG[1]) = FailAfter
    BY DEF failAfter, BACKLOG
  <2>4. BACKLOG \in DOMAIN states
    BY <1>1, <2>2 DEF MonitorInv, KnownFailing
  <2>5. failedFor[BACKLOG] = FailAfter
    BY <1>1, <2>2, <2>3, TimingAssumption DEF MonitorInv, MonitorTyped
  <2>6. Told(BACKLOG) /\ Heard(BACKLOG).severity = "PAGE"
    BY <1>1, <2>2, <2>3, <2>5, FullStreakHeard
  <2>7. BACKLOG \in DOMAIN heard
    BY <2>6 DEF Told, Heard
  <2> QED
    BY <2>4, <2>6, <2>7 DEF Heard
<1>2. MonitorInv => BlockedTraderPaged
  BY <1>1, GateStaysShut DEF BlockedTraderPaged, MonitorInv, MonitorTyped
<1> QED
  BY <1>2, MonitorInvariant, PTL

==============================================================================
