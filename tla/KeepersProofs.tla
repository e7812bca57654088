---------------------------- MODULE KeepersProofs ----------------------------
(***************************************************************************)
(* Proofs about the keepers: a key never has two transactions for one      *)
(* subject open at once, and refills stay inside the day's allowance and   *)
(* the funder's balance, whatever times out, crashes or is lost.           *)
(***************************************************************************)
EXTENDS Keepers, Sums

-----------------------------------------------------------------------------
(* The inductive invariant.                                                *)

Everybody == Subjects \cup Late \cup {Funder}
Entry == [subject : Everybody, amount : Nat]
Tx == [subject : Everybody, amount : Nat, known : BOOLEAN]

\* No two entries of a plan are about one subject.
Separate(p) == \A i, j \in DOMAIN p : i # j => p[i].subject # p[j].subject

\* What the tick may still send.
due == IF pc \in {"book", "wait"} THEN Tail(plan) ELSE plan

Typed ==
  /\ kind \in {"funding", "refill", "tier", "liquidation"}
  /\ pc \in {"idle", "guard", "act", "book", "wait", "recover"}
  /\ pool \in Seq(Tx) /\ plan \in Seq(Entry) /\ indexed \subseteq Subjects
  /\ pc \in {"book", "wait"} => plan # <<>>
  /\ pc \in {"idle", "guard", "recover"} => plan = <<>>
  /\ kind = "liquidation" /\ plan # <<>> => plan[Len(plan)].subject = Debt

\* A plan has one entry for a subject, and no open transaction is for a subject of what
\* the tick may still send.
OneEach ==
  /\ Separate(plan)
  /\ \A i \in DOMAIN pool, j \in DOMAIN due : pool[i].known => pool[i].subject # due[j].subject
  /\ OneOpenPerSubject

\* The refill keeper's records.
RefillTyped ==
  /\ chain \in [Subjects \cup {Funder} -> Int] /\ \A s \in Subjects : chain[s] >= 0
  /\ booked \in [Subjects \cup {Funder} -> Nat] /\ sent \in [Subjects \cup {Funder} -> Nat]
  /\ faults \in Nat
  /\ \A i \in DOMAIN pool : pool[i].subject \in Subjects /\ pool[i].amount <= TARGET
  /\ \A i \in DOMAIN plan : plan[i].subject \in Subjects /\ plan[i].amount <= TARGET

\* The transfer whose row is being written.
unbooked(s) == IF pc = "book" /\ plan[1].subject = s THEN plan[1].amount ELSE 0

\* What was sent is on the day's books, but for one top-up for each fault; books and plan
\* stay inside the allowance.
DayKept ==
  /\ \A s \in Subjects : /\ booked[s] <= MAX_PER_DAY
                         /\ sent[s] <= booked[s] + unbooked(s) + faults * TARGET
  /\ \A i \in DOMAIN plan : (pc = "wait" => i # 1) =>
       booked[plan[i].subject] + plan[i].amount <= MAX_PER_DAY

\* The funder's balance as a sequence of transfers leaves it.
Path(b, start, txs) ==
  /\ b \in [0..Len(txs) -> Int] /\ b[0] = start
  /\ \A i \in 1..Len(txs) : b[i] = b[i - 1] - txs[i].amount

\* What the transfers that the sender lost sight of come to.
Losses(g, txs) ==
  /\ g \in [0..Len(txs) -> Int] /\ g[0] = 0
  /\ \A i \in 1..Len(txs) : g[i] = g[i - 1] + (IF txs[i].known THEN 0 ELSE txs[i].amount)

Above(b, txs, n) == \A i \in 0..Len(txs) : b[i] >= n

\* The funder can pay for the transfers on their way and then for what the tick may still
\* send, but for those that were lost sight of, and these are one for each fault.
FunderKept ==
  /\ \E b, c : /\ Path(b, chain[Funder], pool) /\ Above(b, pool, 1 - faults * TARGET)
               /\ Path(c, b[Len(pool)], due) /\ Above(c, due, 1 - faults * TARGET)
  /\ \E g : Losses(g, pool) /\ \A i \in 0..Len(pool) : g[i] <= faults * TARGET

RefillSafe == RefillTyped /\ DayKept /\ FunderKept

KeepersInv == Typed /\ OneEach /\ (kind = "refill" => RefillSafe)

-----------------------------------------------------------------------------
(* What is planned.                                                        *)

\* The assumption, part by part.
LEMMA Configured ==
  /\ FLOOR \in Nat /\ TARGET \in Nat /\ MAX_PER_DAY \in Nat /\ MAX_PER_RUN \in Nat
  /\ FLOAT \in Nat /\ MaxTier \in Nat /\ MAX_PER_TICK \in Nat /\ MaxFaults \in Nat
  /\ AGE_CAP \in Nat /\ DUE \in Nat
  /\ IsFiniteSet(Subjects) /\ Shortfall # Debt
  /\ Shortfall \notin Subjects /\ Debt \notin Subjects /\ Funder \notin Subjects
  /\ TARGET > FLOOR /\ FLOAT >= 1 /\ policy.usdc = 1
  BY KeepersAssumption DEF Late, refillConfigured, policy

\* An order of a finite set names each of its elements once.
LEMMA SortedOnce ==
  ASSUME NEW S, IsFiniteSet(S), NEW key, NEW q \in sorted(S, key)
  PROVE  q \in Seq(S) /\ \A i, j \in DOMAIN q : i # j => q[i] # q[j]
<1>1. Cardinality(S) \in Nat
  BY FS_CardinalityType
<1>2. PICK n \in Nat : n = Cardinality(S)
  BY <1>1
<1>3. q \in [1..n -> S] /\ \A i, j \in DOMAIN q : i < j => q[i] # q[j]
  BY <1>2 DEF sorted
<1>4. q \in Seq(S)
  BY <1>3
<1>5. \A i, j \in 1..n : i # j => i < j \/ j < i
  OBVIOUS
<1> QED BY <1>3, <1>4, <1>5

\* Calls for the elements of such an order are about a subject each.
LEMMA SendsOnce ==
  ASSUME NEW S \in SUBSET Everybody, NEW q \in Seq(S), NEW f,
         \A i, j \in DOMAIN q : i # j => q[i] # q[j], \A i \in DOMAIN q : f[i] \in Nat,
         NEW p, p = [i \in DOMAIN q |-> send(q[i], f[i])]
  PROVE  p \in Seq(Entry) /\ Separate(p) /\ Len(p) = Len(q) /\ \A i \in DOMAIN p : p[i].subject \in S
<1>1. \A i \in DOMAIN q : q[i] \in S
  OBVIOUS
<1>2. \A i \in DOMAIN q : p[i] \in Entry /\ p[i].subject = q[i]
  BY <1>1 DEF send, Entry
<1>3. DOMAIN p = 1..Len(q) /\ DOMAIN q = 1..Len(q) /\ Len(q) \in Nat
  OBVIOUS
<1>4. p \in Seq(Entry) /\ Len(p) = Len(q)
  <2>1. p \in [1..Len(q) -> Entry]
    BY <1>2, <1>3
  <2> QED BY <1>3, <2>1
<1>5. Separate(p)
  BY <1>2, <1>3 DEF Separate
<1>6. \A i \in DOMAIN p : p[i].subject \in S
  BY <1>1, <1>2, <1>3
<1> QED BY <1>4, <1>5, <1>6

\* What is cut off a plan leaves a plan.
LEMMA PartKeeps ==
  ASSUME NEW p \in Seq(Entry), Separate(p), NEW m \in Nat \ {0}, NEW n \in Nat, n <= Len(p)
  PROVE  LET q == SubSeq(p, m, n)
         IN  q \in Seq(Entry) /\ Separate(q) /\ \A i \in DOMAIN q : m - 1 + i \in DOMAIN p /\ q[i] = p[m - 1 + i]
<1>1. PICK q : q = SubSeq(p, m, n)
  OBVIOUS
<1>2. \A i \in DOMAIN q : i \in Nat \ {0} /\ m - 1 + i \in DOMAIN p /\ q[i] = p[m - 1 + i]
  BY <1>1
<1>3. q \in Seq(Entry)
  BY <1>1
<1>4. \A i, j \in DOMAIN q : i # j => m - 1 + i # m - 1 + j
  BY <1>2
<1>5. Separate(q)
  BY <1>2, <1>4 DEF Separate
<1> QED BY <1>1, <1>2, <1>3, <1>5

\* The first n of a plan.
LEMMA SliceKeeps ==
  ASSUME NEW p \in Seq(Entry), Separate(p), NEW n \in Nat
  PROVE  slice(p, n) \in Seq(Entry) /\ Separate(slice(p, n))
<1>1. Len(p) \in Nat
  OBVIOUS
<1>2. Min({n, Len(p)}) \in {n, Len(p)} /\ \A k \in {n, Len(p)} : Min({n, Len(p)}) <= k
  <2>1. {n, Len(p)} \in SUBSET Nat /\ {n, Len(p)} # {}
    BY <1>1
  <2> QED BY <2>1, Least
<1>3. PICK m \in Nat : m = Min({n, Len(p)}) /\ m <= Len(p)
  BY <1>1, <1>2
<1>4. slice(p, n) = SubSeq(p, 1, m)
  BY <1>3 DEF slice
<1>5. 1 \in Nat \ {0}
  OBVIOUS
<1> QED BY <1>3, <1>4, <1>5, PartKeeps

\* A function on 1..n is a sequence.
LEMMA MadeSeq == ASSUME NEW S, NEW n \in Nat, NEW r \in [1..n -> S] PROVE r \in Seq(S) /\ Len(r) = n
  OBVIOUS

\* The first n of an order.
LEMMA SliceOnce ==
  ASSUME NEW S, NEW q \in Seq(S), \A i, j \in DOMAIN q : i # j => q[i] # q[j], NEW n \in Nat
  PROVE  slice(q, n) \in Seq(S) /\ \A i, j \in DOMAIN slice(q, n) : i # j => slice(q, n)[i] # slice(q, n)[j]
<1>1. Len(q) \in Nat
  OBVIOUS
<1>2. Min({n, Len(q)}) \in {n, Len(q)} /\ \A k \in {n, Len(q)} : Min({n, Len(q)}) <= k
  <2>1. {n, Len(q)} \in SUBSET Nat /\ {n, Len(q)} # {}
    BY <1>1
  <2> QED BY <2>1, Least
<1>3. PICK m \in Nat : m = Min({n, Len(q)}) /\ m <= Len(q)
  BY <1>1, <1>2
<1>4. PICK r : r = slice(q, n) /\ r = SubSeq(q, 1, m)
  BY <1>3 DEF slice
<1>5. r \in Seq(S) /\ Len(r) = m
  <2>1. \A i \in 1..m : q[i] \in S
    BY <1>1, <1>3
  <2>2. SubSeq(q, 1, m) = [i \in 1..m |-> q[i]]
    BY <1>1, <1>3
  <2>3. r \in [1..m -> S]
    BY <1>4, <2>1, <2>2
  <2>4. r \in Seq(S)
    BY <2>3, MadeSeq
  <2> QED BY <1>3, <2>3, <2>4
<1>8. DOMAIN r = 1..m /\ DOMAIN q = 1..Len(q)
  BY <1>5
<1>9. ASSUME NEW i \in 1..m PROVE r[i] = q[i] /\ i \in 1..Len(q)
  BY <1>1, <1>3, <1>4
<1>6. \A i \in DOMAIN r : i \in DOMAIN q /\ r[i] = q[i]
  BY <1>8, <1>9
<1>7. \A i, j \in DOMAIN r : i # j => r[i] # r[j]
  BY <1>6
<1> QED BY <1>4, <1>5, <1>7

\* keepers/funding.ts, orderDue: each due market once.
LEMMA FundingPlan ==
  ASSUME NEW v, NEW p \in fundingPlans(v)
  PROVE  p \in Seq(Entry) /\ Separate(p)
<1>1. PICK ps : /\ ps = planFunding(fundingState(v), NEVER, fundingOptions.dueAfterSecs, MAX_ELAPSED)
                /\ \E q \in orderDue(ps, NEVER) :
                     p = slice([i \in DOMAIN q |-> send(q[i], 1)], fundingOptions.maxPerTick)
  BY DEF fundingPlans
<1>2. PICK q \in orderDue(ps, NEVER) :
        p = slice([i \in DOMAIN q |-> send(q[i], 1)], fundingOptions.maxPerTick)
  BY <1>1
<1>3. DOMAIN ps = Subjects
  BY <1>1 DEF planFunding, fundingState
<1>4. PICK S \in SUBSET Subjects : \E key : q \in sorted(S, key)
  BY <1>2, <1>3 DEF orderDue
<1>5. PICK key : q \in sorted(S, key)
  BY <1>4
<1>6. IsFiniteSet(S) /\ S \in SUBSET Everybody
  BY <1>4, Configured, FS_Subset DEF Everybody
<1>7. q \in Seq(S) /\ \A i, j \in DOMAIN q : i # j => q[i] # q[j]
  BY <1>5, <1>6, SortedOnce
<1>8. PICK f : f = [i \in DOMAIN q |-> 1]
  OBVIOUS
<1>9. PICK r : r = [i \in DOMAIN q |-> send(q[i], f[i])]
  OBVIOUS
<1>12. r \in Seq(Entry) /\ Separate(r)
  <2>1. \A i \in DOMAIN q : f[i] \in Nat
    BY <1>8
  <2> QED BY <1>6, <1>7, <1>9, <2>1, SendsOnce
<1>10. r = [i \in DOMAIN q |-> send(q[i], 1)]
  BY <1>8, <1>9
<1>11. fundingOptions.maxPerTick \in Nat
  BY Configured DEF fundingOptions
<1> QED BY <1>2, <1>10, <1>11, <1>12, SliceKeeps

\* A fee tier is a number.
LEMMA TierIsNat == ASSUME NEW n PROVE targetTier(n, schedule) \in Nat
<1> DEFINE S == {0} \cup {t \in DOMAIN schedule : n >= schedule[t]}
<1>1. DOMAIN schedule = 1..MaxTier
  BY DEF schedule, tierOptions
<1>2. S \in SUBSET Nat /\ S # {} /\ \A k \in S : k <= MaxTier
  BY <1>1, Configured
<1>3. Max(S) \in S
  <2> HIDE DEF S
  <2> QED BY <1>2, Configured, Greatest
<1> QED BY <1>2, <1>3 DEF targetTier

\* keepers/fee-tiers.ts, diffTiers: each account whose tier has moved once.
LEMMA TierPlan ==
  ASSUME indexed \subseteq Subjects, NEW v, NEW missing, NEW p \in tierPlans(v, missing)
  PROVE  p \in Seq(Entry) /\ Separate(p)
<1>1. PICK onChain : onChain = [s \in candidates \ missing |-> v[s]]
  OBVIOUS
<1>2. p \in diffTiers(stats, onChain, schedule, tierOptions.maxChangesPerTick)
  BY <1>1 DEF tierPlans
<1>3. DOMAIN onChain \subseteq Subjects
  BY <1>1 DEF candidates
<1> DEFINE rises == [a \in DOMAIN onChain |-> targetTier(stats[a], schedule)]
           changes == {a \in DOMAIN onChain : rises[a] # onChain[a]}
<1>5. \E key : p \in {slice([i \in DOMAIN q |-> send(q[i], rises[q[i]])], tierOptions.maxChangesPerTick) :
                      q \in sorted(changes, key)}
  BY <1>2 DEF diffTiers
<1>4. PICK to : to = rises
  OBVIOUS
<1>17. changes \in SUBSET DOMAIN onChain
  OBVIOUS
<1> HIDE DEF rises, changes
<1>6. PICK S \in SUBSET DOMAIN onChain : \E key : \E q \in sorted(S, key) :
        p = slice([i \in DOMAIN q |-> send(q[i], to[q[i]])], tierOptions.maxChangesPerTick)
  BY <1>4, <1>5, <1>17
<1>7. PICK key : \E q \in sorted(S, key) :
        p = slice([i \in DOMAIN q |-> send(q[i], to[q[i]])], tierOptions.maxChangesPerTick)
  BY <1>6
<1>8. PICK q \in sorted(S, key) :
        p = slice([i \in DOMAIN q |-> send(q[i], to[q[i]])], tierOptions.maxChangesPerTick)
  BY <1>7
<1>9. IsFiniteSet(S) /\ S \in SUBSET Everybody
  <2>1. S \subseteq Subjects
    BY <1>3, <1>6
  <2> QED BY <2>1, Configured, FS_Subset DEF Everybody
<1>10. q \in Seq(S) /\ \A i, j \in DOMAIN q : i # j => q[i] # q[j]
  BY <1>8, <1>9, SortedOnce
<1>11. PICK f : f = [i \in DOMAIN q |-> to[q[i]]]
  OBVIOUS
<1>12. \A i \in DOMAIN q : f[i] \in Nat
  <2>1. \A i \in DOMAIN q : q[i] \in DOMAIN onChain
    BY <1>6, <1>10
  <2> QED BY <1>4, <1>11, <2>1, TierIsNat DEF rises
<1>13. PICK r : r = [i \in DOMAIN q |-> send(q[i], f[i])]
  OBVIOUS
<1>16. r \in Seq(Entry) /\ Separate(r)
  BY <1>9, <1>10, <1>12, <1>13, SendsOnce
<1>14. r = [i \in DOMAIN q |-> send(q[i], to[q[i]])]
  BY <1>11, <1>13
<1>15. tierOptions.maxChangesPerTick \in Nat
  BY Configured DEF tierOptions
<1> QED BY <1>8, <1>14, <1>15, <1>16, SliceKeeps

\* keepers/liquidation.ts, tick: each account once, then the shortfall, then the debt.
LEMMA LiquidationPlan ==
  ASSUME NEW v, NEW p \in liquidationPlans(v)
  PROVE  p \in Seq(Entry) /\ Separate(p) /\ p[Len(p)].subject = Debt
<1>1. PICK q \in selectCandidates(healthOf(v), liquidationOptions.maxAccountsPerTick).liquidatable :
        p = [i \in DOMAIN q |-> send(q[i], 1)] \o <<send(Shortfall, 1), send(Debt, 1)>>
  BY DEF liquidationPlans
<1>2. \E S \in SUBSET DOMAIN healthOf(v) : \E key : \E z \in sorted(S, key) :
        q = slice(z, liquidationOptions.maxAccountsPerTick)
  BY <1>1 DEF selectCandidates
<1>3. PICK S \in SUBSET DOMAIN healthOf(v) : \E key : \E z \in sorted(S, key) :
        q = slice(z, liquidationOptions.maxAccountsPerTick)
  BY <1>2
<1>4. PICK key : \E z \in sorted(S, key) : q = slice(z, liquidationOptions.maxAccountsPerTick)
  BY <1>3
<1>5. PICK z \in sorted(S, key) : q = slice(z, liquidationOptions.maxAccountsPerTick)
  BY <1>4
<1>6. S \subseteq Subjects /\ IsFiniteSet(S) /\ S \in SUBSET Everybody
  <2>1. S \subseteq Subjects
    BY <1>3 DEF healthOf
  <2> QED BY <2>1, Configured, FS_Subset DEF Everybody
<1>7. z \in Seq(S) /\ \A i, j \in DOMAIN z : i # j => z[i] # z[j]
  BY <1>5, <1>6, SortedOnce
<1>8. liquidationOptions.maxAccountsPerTick \in Nat
  BY Configured DEF liquidationOptions
<1>9. q \in Seq(S) /\ \A i, j \in DOMAIN q : i # j => q[i] # q[j]
  BY <1>5, <1>7, <1>8, SliceOnce
<1>10. PICK f : f = [i \in DOMAIN q |-> 1]
  OBVIOUS
<1>21. PICK r : r = [i \in DOMAIN q |-> send(q[i], f[i])]
  OBVIOUS
<1>11. r \in Seq(Entry) /\ Separate(r) /\ \A i \in DOMAIN r : r[i].subject \in S
  <2>1. \A i \in DOMAIN q : f[i] \in Nat
    BY <1>10
  <2> QED BY <1>6, <1>9, <1>21, <2>1, SendsOnce
<1>12. r = [i \in DOMAIN q |-> send(q[i], 1)]
  BY <1>10, <1>21
<1>22. PICK a \in Entry : a = send(Shortfall, 1) /\ a.subject = Shortfall
  <2>1. send(Shortfall, 1) \in Entry /\ send(Shortfall, 1).subject = Shortfall
    BY DEF send, Entry, Everybody, Late
  <2> QED BY <2>1
<1>23. PICK d \in Entry : d = send(Debt, 1) /\ d.subject = Debt
  <2>1. send(Debt, 1) \in Entry /\ send(Debt, 1).subject = Debt
    BY DEF send, Entry, Everybody, Late
  <2> QED BY <2>1
<1>13. /\ a = send(Shortfall, 1) /\ d = send(Debt, 1)
       /\ a.subject = Shortfall /\ d.subject = Debt
  BY <1>22, <1>23
<1>14. p = r \o <<a, d>>
  BY <1>1, <1>12, <1>13
<1>15. PICK n \in Nat : n = Len(r)
  BY <1>11
<1>16. <<a, d>> \in Seq(Entry) /\ Len(<<a, d>>) = 2
  OBVIOUS
<1>17. p \in Seq(Entry) /\ Len(p) = n + 2
  BY <1>11, <1>14, <1>15, <1>16
<1>18. /\ \A i \in 1..n : p[i] = r[i]
       /\ p[n + 1] = a /\ p[n + 2] = d
  BY <1>11, <1>14, <1>15, <1>16
<1>19. ASSUME NEW i \in 1..(n + 2), NEW j \in 1..(n + 2), i # j
       PROVE  p[i].subject # p[j].subject
  <2>1. \A k \in 1..n : p[k].subject \in Subjects
    BY <1>6, <1>11, <1>15, <1>18
  <2>2. i \in 1..n \/ i = n + 1 \/ i = n + 2
    OBVIOUS
  <2>3. j \in 1..n \/ j = n + 1 \/ j = n + 2
    OBVIOUS
  <2>4. i \in 1..n /\ j \in 1..n => r[i].subject # r[j].subject
    BY <1>11, <1>15, <1>19 DEF Separate
  <2> QED BY <1>13, <1>18, <1>19, <2>1, <2>2, <2>3, <2>4, Configured
<1>20. Separate(p)
  BY <1>17, <1>19 DEF Separate
<1> QED BY <1>13, <1>17, <1>18, <1>20

-----------------------------------------------------------------------------
(* Top-ups.                                                                *)

\* What one target gets is within what is left, its target and its day.
LEMMA RefillIs ==
  ASSUME NEW t \in [balance : Nat, spentToday : Nat], NEW run \in Int, NEW left \in Nat
  PROVE  LET r == refill(t, run, left, policy)
         IN  /\ r.amount \in Nat /\ r.amount <= left
             /\ r.action = "top-up" => /\ r.amount <= TARGET
                                       /\ t.spentToday + r.amount <= MAX_PER_DAY
             /\ r.action # "top-up" => r.amount = 0
<1> DEFINE day == IF MAX_PER_DAY > t.spentToday THEN MAX_PER_DAY - t.spentToday ELSE 0
           S == {TARGET - t.balance, day, run, left}
           amount == Min(S)
<1>1. t.balance \in Nat /\ t.spentToday \in Nat /\ TARGET \in Nat /\ MAX_PER_DAY \in Nat /\ FLOOR \in Nat
  BY Configured
<1>2. day \in Nat /\ TARGET - t.balance \in Int
  BY <1>1
<1>3. amount \in S /\ \A k \in S : amount <= k
  <2>1. PICK a \in Int, b \in Nat : a = TARGET - t.balance /\ b = day
    BY <1>2
  <2>2. \E m \in {a, b, run, left} : \A k \in {a, b, run, left} : m <= k
    OBVIOUS
  <2>3. S = {a, b, run, left}
    BY <2>1
  <2> HIDE DEF S
  <2> QED BY <2>2, <2>3 DEF Min
<1>4. PICK n \in Int : n = amount /\ n <= TARGET - t.balance /\ n <= day /\ n <= left
  <2>1. S \subseteq Int
    BY <1>2
  <2>2. TARGET - t.balance \in S /\ day \in S /\ left \in S
    OBVIOUS
  <2> HIDE DEF S, day
  <2> QED BY <1>3, <2>1, <2>2
<1> DEFINE r == refill(t, run, left, policy)
<1>5. /\ policy.target = TARGET /\ policy.maxPerTargetPerDay = MAX_PER_DAY /\ policy.floor = FLOOR
  BY DEF policy
<1>6. \/ r.action = "ok" /\ r.amount = 0
      \/ r.action = "capped" /\ r.amount = 0
      \/ r.action = "top-up" /\ r.amount = n /\ ~(n <= 0)
  <2>1. Min({policy.target - t.balance,
             IF policy.maxPerTargetPerDay > t.spentToday THEN policy.maxPerTargetPerDay - t.spentToday ELSE 0,
             run, left}) = n
    BY <1>4, <1>5
  <2>2. CASE t.balance >= policy.floor
    BY <2>2 DEF refill
  <2>3. CASE t.balance < policy.floor /\ n <= 0
    <3>1. ~(t.balance >= policy.floor)
      BY <1>1, <1>5, <2>3
    <3> QED BY <2>1, <2>3, <3>1 DEF refill
  <2>4. CASE t.balance < policy.floor /\ ~(n <= 0)
    <3>1. ~(t.balance >= policy.floor)
      BY <1>1, <1>5, <2>4
    <3> QED BY <2>1, <2>4, <3>1 DEF refill
  <2>5. t.balance >= policy.floor \/ t.balance < policy.floor
    BY <1>1, <1>5
  <2> QED BY <2>2, <2>3, <2>4, <2>5
<1> HIDE DEF r
<1>7. ~(n <= 0) => n \in Nat /\ n <= TARGET /\ t.spentToday + n <= MAX_PER_DAY
  <2>1. ~(n <= 0) => n \in Nat /\ n <= TARGET
    BY <1>1, <1>4
  <2>2. ~(n <= 0) => t.spentToday + n <= MAX_PER_DAY
    BY <1>1, <1>4
  <2> QED BY <2>1, <2>2
<1>8. /\ r.amount \in Nat /\ r.amount <= left
      /\ r.action = "top-up" => r.amount <= TARGET /\ t.spentToday + r.amount <= MAX_PER_DAY
      /\ r.action # "top-up" => r.amount = 0
  BY <1>4, <1>6, <1>7
<1> QED BY <1>8 DEF r

\* A sequence and one element more.
LEMMA AppendIs ==
  ASSUME NEW S, NEW p \in Seq(S), NEW e \in S
  PROVE  /\ Append(p, e) \in Seq(S) /\ Len(Append(p, e)) = Len(p) + 1
         /\ Append(p, e)[Len(p) + 1] = e /\ \A i \in 1..Len(p) : Append(p, e)[i] = p[i]
<1>1. Append(p, e) \in Seq(S)
  OBVIOUS
<1>2. Len(Append(p, e)) = Len(p) + 1
  OBVIOUS
<1>3. Append(p, e)[Len(p) + 1] = e
  OBVIOUS
<1>4. ASSUME NEW i \in 1..Len(p) PROVE Append(p, e)[i] = p[i]
  OBVIOUS
<1> QED BY <1>1, <1>2, <1>3, <1>4

\* A path goes on with one more transfer.
LEMMA PathAppend ==
  ASSUME NEW S, NEW p \in Seq(S), NEW e \in S, e.amount \in Int, NEW start, NEW b, Path(b, start, p)
  PROVE  \E c : /\ Path(c, start, Append(p, e))
                /\ \A i \in 0..Len(p) : c[i] = b[i]
                /\ c[Len(p) + 1] = b[Len(p)] - e.amount
<1>1. PICK n \in Nat : n = Len(p)
  OBVIOUS
<1>11. PICK q : q = Append(p, e)
  OBVIOUS
<1>2. q \in Seq(S) /\ q = Append(p, e) /\ Len(q) = n + 1 /\ q[n + 1] = e /\ \A i \in 1..n : q[i] = p[i]
  BY <1>1, <1>11, AppendIs
<1>3. PICK x \in Int : x = e.amount
  OBVIOUS
<1>4. b \in [0..n -> Int] /\ b[0] = start /\ \A i \in 1..n : b[i] = b[i - 1] - p[i].amount
  BY <1>1 DEF Path
<1> DEFINE c == [i \in 0..(n + 1) |-> IF i <= n THEN b[i] ELSE b[n] - x]
<1>5. \A i \in 0..n : c[i] = b[i]
  OBVIOUS
<1>6. c[n + 1] = b[n] - x
  OBVIOUS
<1>7. c \in [0..(n + 1) -> Int]
  BY <1>4
<1> HIDE DEF c
<1>8. ASSUME NEW i \in 1..(n + 1) PROVE c[i] = c[i - 1] - q[i].amount
  <2>1. CASE i = n + 1
    <3>1. c[n] = b[n]
      BY <1>5
    <3> QED BY <1>2, <1>3, <1>6, <2>1, <3>1
  <2>2. CASE i # n + 1
    <3>1. i \in 1..n /\ i - 1 \in 0..n /\ i \in 0..n
      BY <2>2
    <3> QED BY <1>2, <1>4, <1>5, <3>1
  <2> QED BY <2>1, <2>2
<1>9. c[0] = start
  BY <1>4, <1>5
<1>10. Path(c, start, q)
  BY <1>2, <1>7, <1>8, <1>9 DEF Path
<1> QED BY <1>1, <1>2, <1>3, <1>5, <1>6, <1>10

\* A pass over the targets, as the function it folds with.
fresh0(left) == [plans |-> <<>>, runLeft |-> policy.maxPerRun, funderLeft |-> left]
IsPass(f, order, targets, left) ==
  f = [s \in SUBSET DOMAIN order |->
         IF s = {} THEN fresh0(left)
         ELSE refillNext(f[s \ {Max(s)}], order[Max(s)], targets[order[Max(s)]], policy)]

\* The last of some places of an order.
LEMMA LastPlace ==
  ASSUME NEW order \in Seq(Subjects), NEW s \in SUBSET DOMAIN order, s # {}
  PROVE  Max(s) \in s
<1>1. s \in SUBSET Nat /\ Len(order) \in Nat /\ \A k \in s : k <= Len(order)
  OBVIOUS
<1> QED BY <1>1, Greatest

\* The recursion, at the whole order.
LEMMA PassUnfolds ==
  ASSUME NEW order, NEW targets, NEW left
  PROVE  refillPass(order, targets, left, policy)
           = (CHOOSE f : IsPass(f, order, targets, left))[DOMAIN order].plans
  BY Zenon DEF refillPass, FoldLeft, MapThenFoldSet, IsPass, fresh0

\* The recursion as far as n targets.
PassUpto(f, order, targets, left, n) ==
  \A s \in Upto(DOMAIN order, n) :
    f[s] = IF s = {} THEN fresh0(left)
           ELSE refillNext(f[s \ {Max(s)}], order[Max(s)], targets[order[Max(s)]], policy)

\* One target more: a pass as far as n targets goes on to n + 1.
LEMMA PassUptoExtends ==
  ASSUME NEW order \in Seq(Subjects), IsFiniteSet(DOMAIN order), NEW targets, NEW left,
         NEW n \in Nat, NEW f, PassUpto(f, order, targets, left, n)
  PROVE  \E h : PassUpto(h, order, targets, left, n + 1)
<1> DEFINE S == DOMAIN order
           step(s) == IF s = {} THEN fresh0(left)
                      ELSE refillNext(f[s \ {Max(s)}], order[Max(s)], targets[order[Max(s)]], policy)
           h == [s \in Upto(S, n + 1) |-> step(s)]
<1>1. ASSUME NEW s \in Upto(S, n + 1), s # {}
      PROVE  s \ {Max(s)} \in Upto(S, n) /\ s \ {Max(s)} \in Upto(S, n + 1)
  <2>1. s \in SUBSET S /\ Cardinality(s) <= n + 1
    BY DEF Upto
  <2>2. Max(s) \in s
    BY <1>1, <2>1, LastPlace
  <2>3. IsFiniteSet(s) /\ Cardinality(s) \in Nat
    BY <2>1, FS_Subset, FS_CardinalityType
  <2>4. Cardinality(s \ {Max(s)}) = Cardinality(s) - 1
    BY <2>2, <2>3, FS_RemoveElement
  <2> QED BY <2>1, <2>3, <2>4 DEF Upto
<1>2. ASSUME NEW s \in Upto(S, n + 1), s # {}
      PROVE  h[s \ {Max(s)}] = f[s \ {Max(s)}]
  <2>1. PICK t \in Upto(S, n) : t = s \ {Max(s)} /\ t \in Upto(S, n + 1)
    BY <1>1, <1>2
  <2>2. f[t] = step(t)
    BY <2>1 DEF PassUpto
  <2>3. h[t] = step(t)
    BY <2>1
  <2> QED BY <2>1, <2>2, <2>3
<1>3. ASSUME NEW s \in Upto(S, n + 1)
      PROVE  h[s] = IF s = {} THEN fresh0(left)
                    ELSE refillNext(h[s \ {Max(s)}], order[Max(s)], targets[order[Max(s)]], policy)
  <2>1. h[s] = step(s)
    OBVIOUS
  <2>2. CASE s = {}
    BY <2>1, <2>2
  <2>3. CASE s # {}
    <3>1. h[s \ {Max(s)}] = f[s \ {Max(s)}]
      BY <1>2, <2>3
    <3> HIDE DEF h
    <3> QED BY <2>1, <2>3, <3>1
  <2> QED BY <2>2, <2>3
<1>4. PassUpto(h, order, targets, left, n + 1)
  <2> HIDE DEF h
  <2> QED BY <1>3 DEF PassUpto
<1> QED BY <1>4

\* So going through the targets in turn is the recursion it is written as.
LEMMA PassExists ==
  ASSUME NEW order \in Seq(Subjects), NEW targets, NEW left
  PROVE  \E f : IsPass(f, order, targets, left)
<1> DEFINE S == DOMAIN order
           Good == {T \in SUBSET S : \E h : PassUpto(h, order, targets, left, Cardinality(T))}
<1>0. IsFiniteSet(S)
  <2>1. S = 1..Len(order) /\ Len(order) \in Nat
    OBVIOUS
  <2> QED BY <2>1, FS_Interval
<1>1. {} \in Good
  <2> DEFINE h == [s \in SUBSET S |-> fresh0(left)]
  <2>1. Cardinality({}) = 0
    BY FS_EmptySet
  <2>2. ASSUME NEW s \in Upto(S, 0) PROVE s = {}
    <3>1. s \in SUBSET S /\ Cardinality(s) <= 0
      BY DEF Upto
    <3>2. IsFiniteSet(s) /\ Cardinality(s) \in Nat
      BY <1>0, <3>1, FS_Subset, FS_CardinalityType
    <3> QED BY <3>1, <3>2, FS_EmptySet
  <2>3. PassUpto(h, order, targets, left, 0)
    BY <2>2 DEF PassUpto
  <2> QED BY <2>1, <2>3
<1>2. ASSUME NEW T \in SUBSET S, T # {}, \A x \in T : T \ {x} \in Good
      PROVE  T \in Good
  <2>1. PICK x \in T : T \ {x} \in Good
    BY <1>2
  <2>2. IsFiniteSet(T) /\ IsFiniteSet(T \ {x}) /\ Cardinality(T \ {x}) \in Nat
        /\ Cardinality(T) \in Nat
    BY <1>0, FS_Subset, FS_RemoveElement, FS_CardinalityType
  <2>3. Cardinality(T) = Cardinality(T \ {x}) + 1
    BY <2>2, FS_RemoveElement
  <2>4. PICK f : PassUpto(f, order, targets, left, Cardinality(T \ {x}))
    BY <2>1
  <2>5. \E h : PassUpto(h, order, targets, left, Cardinality(T))
    BY <1>0, <2>2, <2>3, <2>4, PassUptoExtends
  <2> QED BY <2>5
<1>3. \A T \in SUBSET S : T \in Good
  <2> HIDE DEF Good
  <2> QED BY <1>0, <1>1, <1>2, SubsetInduction
<1>4. PICK h : PassUpto(h, order, targets, left, Cardinality(S))
  BY <1>3
<1> DEFINE f == [s \in SUBSET S |-> h[s]]
<1>5. \A s \in SUBSET S : s \in Upto(S, Cardinality(S))
  BY <1>0, FS_Subset DEF Upto
<1>6. ASSUME NEW s \in SUBSET S
      PROVE  h[s] = IF s = {} THEN fresh0(left)
                    ELSE refillNext(f[s \ {Max(s)}], order[Max(s)], targets[order[Max(s)]], policy)
  <2>1. h[s] = IF s = {} THEN fresh0(left)
               ELSE refillNext(h[s \ {Max(s)}], order[Max(s)], targets[order[Max(s)]], policy)
    BY <1>4, <1>5 DEF PassUpto
  <2>2. h[s \ {Max(s)}] = f[s \ {Max(s)}]
    OBVIOUS
  <2> HIDE DEF f
  <2> QED BY <2>1, <2>2
<1>7. IsPass(f, order, targets, left)
  BY <1>6 DEF IsPass
<1> QED BY <1>7

TargetState == [balance : Nat, spentToday : Nat]

\* A top-up is for a target, at most to its level and at most its day.
Allowed(e, targets) ==
  /\ e.subject \in Subjects /\ e.amount <= TARGET
  /\ targets[e.subject].spentToday + e.amount <= MAX_PER_DAY

\* A plan of top-ups that leaves the funder l of what it had.
Affords(plan0, start, l) ==
  \E b : /\ Path(b, start, plan0) /\ b[Len(plan0)] = l
         /\ \A i \in 0..Len(plan0) : b[i] >= 0

\* What the places T of the order have come to.
PassSound(acc, order, targets, left, T) ==
  /\ acc.plans \in Seq(Entry) /\ Separate(acc.plans)
  /\ \A i \in DOMAIN acc.plans :
       Allowed(acc.plans[i], targets) /\ \E k \in T : acc.plans[i].subject = order[k]
  /\ acc.runLeft \in Int /\ acc.funderLeft \in Nat
  /\ Affords(acc.plans, left, acc.funderLeft)

\* No top-ups yet.
LEMMA PassBegins ==
  ASSUME NEW order, NEW targets, NEW left \in Nat
  PROVE  PassSound(fresh0(left), order, targets, left, {})
<1>1. fresh0(left).plans = <<>> /\ fresh0(left).funderLeft = left /\ fresh0(left).runLeft \in Int
  BY Configured DEF fresh0, policy
<1>2. <<>> \in Seq(Entry) /\ Separate(<<>>) /\ Len(<<>>) = 0 /\ DOMAIN <<>> = {}
  BY DEF Separate
<1>3. Affords(<<>>, left, left)
  <2> DEFINE b == [i \in 0..0 |-> left]
  <2>1. b \in [0..0 -> Int] /\ b[0] = left
    OBVIOUS
  <2>2. Path(b, left, <<>>)
    BY <1>2, <2>1 DEF Path
  <2> HIDE DEF b
  <2>3. b[Len(<<>>)] = left /\ \A i \in 0..Len(<<>>) : b[i] >= 0
    BY <1>2, <2>1
  <2> QED BY <2>2, <2>3 DEF Affords
<1> QED BY <1>1, <1>2, <1>3 DEF PassSound

\* One target more.
LEMMA PassGoesOn ==
  ASSUME NEW order \in Seq(Subjects), \A i, j \in DOMAIN order : i # j => order[i] # order[j],
         NEW targets \in [Subjects -> TargetState], NEW left \in Nat,
         NEW T \in SUBSET DOMAIN order, NEW m \in T,
         NEW acc, PassSound(acc, order, targets, left, T \ {m})
  PROVE  PassSound(refillNext(acc, order[m], targets[order[m]], policy), order, targets, left, T)
<1>1. PICK s \in Subjects : s = order[m]
  OBVIOUS
<1>2. PICK t \in TargetState : t = targets[s]
  OBVIOUS
<1>3. PICK p \in Seq(Entry), run \in Int, fl \in Nat :
        /\ p = acc.plans /\ run = acc.runLeft /\ fl = acc.funderLeft
        /\ Separate(p) /\ Affords(p, left, fl)
        /\ \A i \in DOMAIN p : Allowed(p[i], targets) /\ \E k \in T \ {m} : p[i].subject = order[k]
  BY DEF PassSound
<1>4. PICK r : r = refill(t, run, fl, policy)
  OBVIOUS
<1>5. /\ r.amount \in Nat /\ r.amount <= fl
      /\ r.action = "top-up" => r.amount <= TARGET /\ t.spentToday + r.amount <= MAX_PER_DAY
      /\ r.action # "top-up" => r.amount = 0
  BY <1>4, RefillIs DEF TargetState
<1>6. PICK a : a = refillNext(acc, s, t, policy)
  OBVIOUS
<1>7. /\ a.plans = IF r.action = "top-up" THEN Append(p, send(s, r.amount)) ELSE p
      /\ a.runLeft = run - r.amount /\ a.funderLeft = fl - r.amount
  BY <1>3, <1>4, <1>6 DEF refillNext
<1>8. a.runLeft \in Int /\ a.funderLeft \in Nat
  BY <1>5, <1>7
<1>9. CASE r.action # "top-up"
  <2>1. a.plans = p /\ a.funderLeft = fl
    BY <1>5, <1>7, <1>9
  <2>2. PassSound(a, order, targets, left, T)
    BY <1>3, <1>8, <2>1 DEF PassSound
  <2> QED BY <1>1, <1>2, <1>6, <2>2
<1>10. CASE r.action = "top-up"
  <2>1. PICK e \in Entry : e = send(s, r.amount) /\ e.subject = s /\ e.amount = r.amount
    <3>1. PICK x \in Nat : x = r.amount
      BY <1>5
    <3>2. send(s, x) \in Entry /\ send(s, x).subject = s /\ send(s, x).amount = x
      BY DEF send, Entry, Everybody
    <3> QED BY <3>1, <3>2
  <2>2. PICK n \in Nat : n = Len(p)
    OBVIOUS
  <2>11. PICK q : q = Append(p, e)
    OBVIOUS
  <2>3. /\ q \in Seq(Entry) /\ q = Append(p, e) /\ Len(q) = n + 1 /\ q[n + 1] = e
        /\ \A i \in 1..n : q[i] = p[i]
    BY <2>2, <2>11, AppendIs
  <2>4. a.plans = q
    BY <1>7, <1>10, <2>1, <2>3
  <2>5. \A i \in 1..n : p[i].subject # s
    <3>1. DOMAIN p = 1..n
      BY <2>2
    <3> QED BY <1>1, <1>3, <3>1
  <2>6. DOMAIN q = 1..(n + 1) /\ DOMAIN p = 1..n
    BY <2>2, <2>3
  <2>7. Separate(q)
    <3>1. ASSUME NEW i \in 1..(n + 1), NEW j \in 1..(n + 1), i # j
          PROVE  q[i].subject # q[j].subject
      <4>1. (i \in 1..n \/ i = n + 1) /\ (j \in 1..n \/ j = n + 1)
        OBVIOUS
      <4>2. i \in 1..n /\ j \in 1..n => p[i].subject # p[j].subject
        BY <1>3, <2>6, <3>1 DEF Separate
      <4> QED BY <2>1, <2>3, <2>5, <3>1, <4>1, <4>2
    <3> QED BY <2>6, <3>1 DEF Separate
  <2>8. ASSUME NEW i \in DOMAIN q
        PROVE  Allowed(q[i], targets) /\ \E k \in T : q[i].subject = order[k]
    <3>1. i \in 1..n \/ i = n + 1
      BY <2>6
    <3>2. CASE i \in 1..n
      BY <1>3, <2>3, <2>6, <3>2
    <3>3. CASE i = n + 1
      BY <1>1, <1>2, <1>5, <1>10, <2>1, <2>3, <3>3 DEF Allowed
    <3> QED BY <3>1, <3>2, <3>3
  <2>9. Affords(q, left, a.funderLeft)
    <3>1. PICK b : Path(b, left, p) /\ b[n] = fl /\ \A i \in 0..n : b[i] >= 0
      BY <1>3, <2>2 DEF Affords
    <3>2. PICK c : Path(c, left, q) /\ (\A i \in 0..n : c[i] = b[i]) /\ c[n + 1] = b[n] - e.amount
      <4>1. e.amount \in Int
        BY DEF Entry
      <4> QED BY <2>2, <2>3, <3>1, <4>1, PathAppend
    <3>3. c[n + 1] = a.funderLeft
      BY <1>7, <2>1, <3>1, <3>2
    <3>4. \A i \in 0..(n + 1) : c[i] >= 0
      <4>1. \A i \in 0..(n + 1) : i \in 0..n \/ i = n + 1
        OBVIOUS
      <4> QED BY <1>8, <3>1, <3>2, <3>3, <4>1
    <3> QED BY <2>3, <3>2, <3>3, <3>4 DEF Affords
  <2>10. PassSound(a, order, targets, left, T)
    BY <1>8, <2>3, <2>4, <2>7, <2>8, <2>9 DEF PassSound
  <2> QED BY <1>1, <1>2, <1>6, <2>10
<1> QED BY <1>9, <1>10

\* keepers/refill.ts, planRefills: one pass keeps to every allowance and to the funder's
\* balance.
LEMMA PassKeeps ==
  ASSUME NEW order \in Seq(Subjects), \A i, j \in DOMAIN order : i # j => order[i] # order[j],
         NEW targets \in [Subjects -> TargetState], NEW left \in Nat
  PROVE  LET p == refillPass(order, targets, left, policy)
         IN  /\ p \in Seq(Entry) /\ Separate(p)
             /\ \A i \in DOMAIN p : Allowed(p[i], targets)
             /\ \E l \in Nat : Affords(p, left, l)
<1> DEFINE D == DOMAIN order
           f == CHOOSE f : IsPass(f, order, targets, left)
           Good == {T \in SUBSET D : PassSound(f[T], order, targets, left, T)}
<1>1. \A s \in SUBSET D : f[s] = IF s = {} THEN fresh0(left)
                                 ELSE refillNext(f[s \ {Max(s)}], order[Max(s)], targets[order[Max(s)]], policy)
  <2>1. IsPass(f, order, targets, left)
    BY PassExists
  <2> HIDE DEF f
  <2> QED BY <2>1 DEF IsPass
<1>2. {} \in Good
  <2>1. f[{}] = fresh0(left)
    <3> HIDE DEF f
    <3> QED BY <1>1
  <2> QED BY <2>1, PassBegins
<1>3. ASSUME NEW T \in SUBSET D, T # {}, \A x \in T : T \ {x} \in Good
      PROVE  T \in Good
  <2>1. PICK m \in T : m = Max(T)
    BY <1>3, LastPlace
  <2>2. PICK acc : acc = f[T \ {m}] /\ PassSound(acc, order, targets, left, T \ {m})
    BY <1>3
  <2>3. f[T] = refillNext(acc, order[m], targets[order[m]], policy)
    <3> HIDE DEF f
    <3> QED BY <1>1, <1>3, <2>1, <2>2
  <2>4. PassSound(refillNext(acc, order[m], targets[order[m]], policy), order, targets, left, T)
    BY <2>2, PassGoesOn
  <2> HIDE DEF f
  <2> QED BY <2>3, <2>4
<1>4. IsFiniteSet(D)
  <2>1. D = 1..Len(order) /\ Len(order) \in Nat
    OBVIOUS
  <2> QED BY <2>1, FS_Interval
<1>5. \A T \in SUBSET D : T \in Good
  <2>1. \A T \in SUBSET D : T # {} /\ (\A x \in T : T \ {x} \in Good) => T \in Good
    BY <1>3
  <2> HIDE DEF Good, D
  <2> QED BY <1>2, <2>1, <1>4, SubsetInduction
<1>6. refillPass(order, targets, left, policy) = f[D].plans
  BY PassUnfolds
<1>7. PassSound(f[D], order, targets, left, D)
  BY <1>5
<1> HIDE DEF f, D
<1> QED BY <1>6, <1>7 DEF PassSound

\* The top-ups of a run.
LEMMA RefillPlan ==
  ASSUME RefillTyped, NEW p \in refillPlans(chain)
  PROVE  /\ p \in Seq(Entry) /\ Separate(p)
         /\ \A i \in DOMAIN p : /\ p[i].subject \in Subjects /\ p[i].amount <= TARGET
                                /\ booked[p[i].subject] + p[i].amount <= MAX_PER_DAY
         /\ \E l \in Nat : Affords(p, IF chain[Funder] > 1 THEN chain[Funder] - 1 ELSE 0, l)
<1>1. PICK targets : targets = refillTargets(chain)
  OBVIOUS
<1>2. targets \in [Subjects -> TargetState] /\ \A s \in Subjects : targets[s].spentToday = booked[s]
  <2>1. \A s \in Subjects : chain[s] \in Nat /\ booked[s] \in Nat
    BY DEF RefillTyped
  <2> QED BY <1>1, <2>1 DEF refillTargets, TargetState
<1>3. PICK left \in Nat : left = IF chain[Funder] > 1 THEN chain[Funder] - 1 ELSE 0
  BY DEF RefillTyped
<1>4. \E q \in sorted(DOMAIN targets, [s \in DOMAIN targets |-> -targets[s].balance]) :
        p = refillPass(q, targets, left, policy)
  BY <1>1, <1>3, Configured DEF refillPlans, planRefills
<1>5. PICK key : \E q \in sorted(Subjects, key) : p = refillPass(q, targets, left, policy)
  BY <1>2, <1>4
<1>6. PICK q \in sorted(Subjects, key) : p = refillPass(q, targets, left, policy)
  BY <1>5
<1>7. q \in Seq(Subjects) /\ \A i, j \in DOMAIN q : i # j => q[i] # q[j]
  BY <1>6, Configured, SortedOnce
<1>8. /\ p \in Seq(Entry) /\ Separate(p)
      /\ \A i \in DOMAIN p : Allowed(p[i], targets)
      /\ \E l \in Nat : Affords(p, left, l)
  BY <1>2, <1>6, <1>7, PassKeeps
<1>9. \A i \in DOMAIN p : /\ p[i].subject \in Subjects /\ p[i].amount <= TARGET
                          /\ booked[p[i].subject] + p[i].amount <= MAX_PER_DAY
  BY <1>2, <1>8 DEF Allowed
<1> QED BY <1>3, <1>8, <1>9

-----------------------------------------------------------------------------
(* The shapes a step may take.                                             *)

\* Chain, books and transactions stay.
still == UNCHANGED <<chain, pool, booked, sent>>
maybeFault == faults' = faults \/ faults' = faults + 1

\* The tick ends; a crash between broadcast and row is a fault.
Rests ==
  /\ plan' = <<>> /\ pc' \in {"idle", "guard", "recover"} /\ still
  /\ maybeFault /\ (pc = "book" => faults' = faults + 1)

Plans ==
  /\ pc = "guard" /\ openJobs = {} /\ pc' = "act" /\ still /\ maybeFault
  /\ \E v, missing : plan' \in plans(v, missing) /\ (kind = "refill" => v = chain)

Drops ==
  /\ pc \in {"act", "wait"} /\ plan # <<>> /\ pc' = "act" /\ plan' = Tail(plan)
  /\ still /\ maybeFault

Cuts ==
  /\ kind = "liquidation" /\ pc = "act" /\ plan # <<>> /\ plan[1].subject \in Subjects
  /\ pc' = "act" /\ plan' = lastTwo(plan) /\ still /\ faults' = faults

Sends(known) ==
  /\ pc = "act" /\ plan # <<>>
  /\ pool' = Append(pool, [subject |-> plan[1].subject, amount |-> plan[1].amount, known |-> known])
  /\ sent' = [sent EXCEPT ![plan[1].subject] = @ + spent(plan[1])]
  /\ UNCHANGED <<chain, booked>>
Answered == Sends(TRUE) /\ pc' = "book" /\ plan' = plan /\ faults' = faults
Loses == Sends(FALSE) /\ pc' = "act" /\ plan' = Tail(plan) /\ faults' = faults + 1

Books ==
  /\ pc = "book" /\ pc' = "wait"
  /\ booked' = [booked EXCEPT ![plan[1].subject] = @ + spent(plan[1])]
  /\ UNCHANGED <<chain, pool, plan, sent, faults>>

Repeats ==
  /\ kind = "liquidation" /\ pc = "wait" /\ pool = <<>> /\ pc' = "act"
  /\ plan' = plan /\ still /\ faults' = faults

Mines ==
  /\ pool # <<>> /\ pool' = Tail(pool)
  /\ kind = "refill" => chain' = effect(pool[1])
  /\ UNCHANGED <<pc, plan, booked, sent, faults>>

Moves ==
  /\ UNCHANGED <<pc, plan, pool, booked, sent>> /\ maybeFault
  /\ kind = "refill" =>
       \/ chain' = chain
       \/ \E s \in Subjects, n \in Nat : chain' = [chain EXCEPT ![s] = n]

\* Every step has one of these shapes.
LEMMA Shapes ==
  ASSUME Typed, kind = "refill" => RefillTyped, [Next]_vars
  PROVE  /\ kind' = kind /\ indexed' \subseteq Subjects
         /\ \/ Rests \/ Plans \/ Drops \/ Cuts \/ Answered \/ Loses
            \/ Books \/ Repeats \/ Mines \/ Moves
<1> USE DEF Typed, still, maybeFault
<1>0. plan # <<>> => Head(plan) = plan[1]
  OBVIOUS
<1>00. pool # <<>> => Head(pool) = pool[1]
  OBVIOUS
<1>1. CASE Begin
  BY <1>1 DEF Begin, env, dataVars, liqVars, sendVars, Rests
<1>2. ASSUME NEW missing, plansFrom(missing), maybeFault PROVE kind' = kind /\ indexed' = indexed /\ Plans
  <2>1. PICK v : plan' \in plans(v, missing) /\ (kind = "refill" => v = chain)
    <3>1. plan' \in plans(IF kind = "funding" THEN view ELSE chain, missing)
      BY <1>2 DEF plansFrom
    <3> QED BY <3>1
  <2>2. \E v2, missing2 : plan' \in plans(v2, missing2) /\ (kind = "refill" => v2 = chain)
    BY <2>1
  <2> QED BY <1>2, <2>2 DEF plansFrom, env, dataVars, liqVars, sendVars, Plans
<1>3. CASE Plan
  BY <1>2, <1>3 DEF Plan
<1>4. CASE PlanPartly
  BY <1>2, <1>4 DEF PlanPartly
<1>5. CASE Finish
  BY <1>5 DEF Finish, idleTick, env, dataVars, liqVars, sendVars, Rests
<1>6. CASE Skip
  BY <1>6 DEF Skip, acting, done, env, dataVars, liqVars, sendVars, Drops
<1>7. CASE Refused
  BY <1>0, <1>7 DEF Refused, acting, next, env, dataVars, liqVars, sendVars, Drops, Cuts
<1>8. CASE Submit
  BY <1>0, <1>8 DEF Submit, broadcasts, acting, next, env, dataVars, liqVars, Sends, Answered
<1>9. CASE SubmitLost
  BY <1>0, <1>9 DEF SubmitLost, broadcasts, acting, next, done, env, dataVars, liqVars, Sends, Loses
<1>10. CASE Book
  BY <1>0, <1>10 DEF Book, next, env, dataVars, liqVars, Books
<1>11. CASE Confirm
  BY <1>11 DEF Confirm, done, env, dataVars, liqVars, sendVars, Drops
<1>12. CASE ConfirmStep
  <2>1. pc = "wait" /\ pool = <<>> /\ kind = "liquidation"
        /\ UNCHANGED <<env, chain, gate, view, sendVars, faults>>
        /\ ((pc' = "act" /\ plan' = plan) \/ done)
    BY <1>12 DEF ConfirmStep
  <2> QED BY <2>1 DEF done, env, dataVars, liqVars, sendVars, Drops, Repeats
<1>13. CASE Recover
  BY <1>13 DEF Recover, env, dataVars, liqVars, sendVars, Rests
<1>14. CASE GuardTimeout
  BY <1>14 DEF GuardTimeout, idleTick, env, dataVars, liqVars, sendVars, Rests
<1>15. CASE Timeout
  BY <1>15 DEF Timeout, idleTick, done, env, dataVars, liqVars, sendVars, Rests, Drops
<1>16. CASE Crash
  BY <1>16 DEF Crash, env, dataVars, liqVars, sendVars, Rests
<1>17. CASE Lapse
  BY <1>17 DEF Lapse, tickVars, sendVars, Moves
<1>18. CASE Halt
  BY <1>18 DEF Halt, env, dataVars, liqVars, tickVars, sendVars, Moves
<1>19. CASE Mine
  <2>1. ASSUME kind = "refill" PROVE refusal(pool[1]) = "none"
    <3>1. pool # <<>>
      BY <1>19 DEF Mine
    <3>2. 1 \in DOMAIN pool
      BY <3>1
    <3>3. pool[1].subject # Shortfall
      BY <2>1, <3>2, Configured DEF RefillTyped
    <3> QED BY <2>1, <3>3 DEF refusal
  <2> QED BY <1>00, <1>19, <2>1 DEF Mine, env, dataVars, liqVars, tickVars, Mines
<1>20. CASE Elapse
  BY <1>20 DEF Elapse, env, dataVars, liqVars, tickVars, sendVars, Moves
<1>21. CASE Aggregate
  BY <1>21 DEF Aggregate, tickVars, sendVars, Moves
<1>22. CASE Index
  BY <1>22 DEF Index, holders, tickVars, sendVars, Moves
<1>23. CASE Resume
  BY <1>23 DEF Resume, env, dataVars, liqVars, tickVars, sendVars, Moves
<1>24. ASSUME NEW s \in All, NEW n \in 0..TARGET, World(s, n)
       PROVE  kind' = kind /\ indexed' = indexed /\ Moves
  <2>1. n \in Nat
    BY Configured
  <2>2. kind = "refill" /\ s # Funder => s \in Subjects
    BY DEF All
  <2>3. \/ kind = "refill" /\ s # Funder /\ chain' = [chain EXCEPT ![s] = n]
        \/ kind = "liquidation"
        \/ kind = "tier"
    BY <1>24 DEF World
  <2>4. kind = "refill" => \E t \in Subjects, k \in Nat : chain' = [chain EXCEPT ![t] = k]
    BY <2>1, <2>2, <2>3
  <2> QED BY <1>24, <2>4 DEF World, tickVars, sendVars, Moves
<1>25. ASSUME NEW s \in All, Obstruct(s) PROVE kind' = kind /\ indexed' = indexed /\ Moves
  BY <1>25 DEF Obstruct, dataVars, tickVars, sendVars, Moves
<1>26. CASE UNCHANGED vars
  BY <1>26 DEF vars, dataVars, tickVars, sendVars, Moves
<1> QED
  BY <1>1, <1>3, <1>4, <1>5, <1>6, <1>7, <1>8, <1>9, <1>10, <1>11, <1>12, <1>13, <1>14, <1>15,
     <1>16, <1>17, <1>18, <1>19, <1>20, <1>21, <1>22, <1>23, <1>24, <1>26, <1>25
  DEF Next, TickStep, Fault

\* What any kind of keeper plans.
LEMMA PlansSound ==
  ASSUME Typed, kind = "refill" => RefillTyped,
         NEW v, kind = "refill" => v = chain, NEW missing, NEW p \in plans(v, missing)
  PROVE  /\ p \in Seq(Entry) /\ Separate(p)
         /\ kind = "liquidation" => p[Len(p)].subject = Debt
         /\ kind = "refill" => p \in refillPlans(chain)
<1>1. CASE kind = "funding"
  <2>1. p \in fundingPlans(v)
    BY <1>1 DEF plans
  <2> QED BY <1>1, <2>1, FundingPlan
<1>2. CASE kind = "refill"
  <2>1. p \in refillPlans(chain)
    BY <1>2 DEF plans
  <2> QED BY <1>2, <2>1, RefillPlan
<1>3. CASE kind = "tier"
  <2>1. p \in tierPlans(v, missing) /\ indexed \subseteq Subjects
    BY <1>3 DEF plans, Typed
  <2> QED BY <1>3, <2>1, TierPlan
<1>4. CASE kind = "liquidation"
  <2>1. p \in liquidationPlans(v)
    BY <1>4 DEF plans
  <2> QED BY <1>4, <2>1, LiquidationPlan
<1> QED BY <1>1, <1>2, <1>3, <1>4 DEF Typed

-----------------------------------------------------------------------------
(* Types, plans and open transactions.                                     *)

\* A sequence without its first element.
LEMMA TailIs ==
  ASSUME NEW S, NEW p \in Seq(S), p # <<>>
  PROVE  /\ Len(p) \in Nat \ {0} /\ DOMAIN p = 1..Len(p) /\ p[1] \in S
         /\ Tail(p) \in Seq(S) /\ Len(Tail(p)) = Len(p) - 1 /\ DOMAIN Tail(p) = 1..(Len(p) - 1)
         /\ \A i \in 1..(Len(p) - 1) : Tail(p)[i] = p[i + 1] /\ i + 1 \in 1..Len(p)
<1>1. Len(p) \in Nat \ {0} /\ DOMAIN p = 1..Len(p) /\ p[1] \in S
  OBVIOUS
<1>2. Tail(p) \in Seq(S) /\ Len(Tail(p)) = Len(p) - 1
  OBVIOUS
<1>3. DOMAIN Tail(p) = 1..(Len(p) - 1)
  BY <1>2
<1>4. ASSUME NEW i \in 1..(Len(p) - 1) PROVE Tail(p)[i] = p[i + 1] /\ i + 1 \in 1..Len(p)
  BY <1>1
<1> QED BY <1>1, <1>2, <1>3, <1>4

\* The rest of a plan is a plan.
LEMMA RestKeeps ==
  ASSUME NEW p \in Seq(Entry), p # <<>>, Separate(p)
  PROVE  /\ Tail(p) \in Seq(Entry) /\ Separate(Tail(p))
         /\ \A i \in DOMAIN Tail(p) : Tail(p)[i].subject # p[1].subject
         /\ Tail(p) # <<>> => Tail(p)[Len(Tail(p))] = p[Len(p)]
<1>1. PICK n \in Nat \ {0} : n = Len(p) /\ DOMAIN p = 1..n
  BY TailIs
<1>2. PICK q : q = Tail(p)
  OBVIOUS
<1>3. /\ q \in Seq(Entry) /\ Len(q) = n - 1 /\ DOMAIN q = 1..(n - 1)
      /\ \A i \in 1..(n - 1) : q[i] = p[i + 1] /\ i + 1 \in 1..n
  BY <1>1, <1>2, TailIs
<1>4. ASSUME NEW i \in 1..(n - 1), NEW j \in 1..(n - 1), i # j
      PROVE  q[i].subject # q[j].subject
  <2>1. i + 1 \in 1..n /\ j + 1 \in 1..n /\ i + 1 # j + 1
    BY <1>4
  <2>2. p[i + 1].subject # p[j + 1].subject
    BY <1>1, <2>1 DEF Separate
  <2> QED BY <1>3, <2>2
<1>5. ASSUME NEW i \in 1..(n - 1) PROVE q[i].subject # p[1].subject
  <2>1. i + 1 \in 1..n /\ 1 \in 1..n /\ i + 1 # 1
    OBVIOUS
  <2>2. p[i + 1].subject # p[1].subject
    BY <1>1, <2>1 DEF Separate
  <2> QED BY <1>3, <2>2
<1>6. q # <<>> => q[Len(q)] = p[Len(p)]
  <2>1. ASSUME q # <<>> PROVE q[n - 1] = p[n]
    <3>1. n - 1 \in 1..(n - 1)
      BY <1>3, <2>1
    <3> QED BY <1>3, <3>1
  <2> QED BY <1>1, <1>3, <2>1
<1>7. Separate(q)
  BY <1>3, <1>4 DEF Separate
<1> QED BY <1>2, <1>3, <1>5, <1>6, <1>7

\* So are the two steps that are left of a liquidator's tick.
LEMMA CutIs ==
  ASSUME Typed, Separate(plan), Cuts
  PROVE  /\ plan' \in Seq(Entry) /\ Separate(plan') /\ plan'[Len(plan')].subject = Debt
         /\ \A i \in DOMAIN plan' : \E j \in DOMAIN plan : plan'[i] = plan[j]
<1>1. PICK n \in Nat \ {0} : n = Len(plan) /\ DOMAIN plan = 1..n /\ plan \in Seq(Entry)
  BY TailIs DEF Typed, Cuts
<1>2. plan[n].subject = Debt /\ plan[1].subject # Debt
  BY <1>1, Configured DEF Typed, Cuts
<1>3. n - 1 \in Nat \ {0}
  BY <1>1, <1>2
<1>4. PICK q : q = SubSeq(plan, n - 1, n)
  OBVIOUS
<1>5. /\ q \in Seq(Entry) /\ Separate(q)
      /\ \A i \in DOMAIN q : (n - 1) - 1 + i \in DOMAIN plan /\ q[i] = plan[(n - 1) - 1 + i]
  BY <1>1, <1>3, <1>4, PartKeeps
<1>6. Len(q) = 2 /\ 2 \in DOMAIN q
  BY <1>1, <1>3, <1>4
<1>7. q[2] = plan[n]
  BY <1>3, <1>5, <1>6
<1>8. plan' = q
  BY <1>1, <1>4 DEF Cuts, lastTwo
<1> QED BY <1>2, <1>5, <1>6, <1>7, <1>8

\* Types and plans are kept.
LEMMA TypedStep ==
  ASSUME Typed, Separate(plan), kind = "refill" => RefillTyped, [Next]_vars
  PROVE  Typed' /\ Separate(plan)'
<1> DEFINE last == kind = "liquidation" /\ plan # <<>> => plan[Len(plan)].subject = Debt
<1>1. kind' = kind /\ indexed' \subseteq Subjects
  BY Shapes
<1>2. pool \in Seq(Tx) /\ plan \in Seq(Entry) /\ last
  BY DEF Typed
<1>3. Separate(<<>>) /\ <<>> \in Seq(Entry)
  BY DEF Separate
<1>4. plan # <<>> => /\ Tail(plan) \in Seq(Entry) /\ Separate(Tail(plan))
                     /\ Tail(plan) # <<>> => Tail(plan)[Len(Tail(plan))] = plan[Len(plan)]
  BY <1>2, RestKeeps
<1>5. ASSUME NEW known \in BOOLEAN, Sends(known) PROVE pool' \in Seq(Tx)
  <2>1. plan[1] \in Entry
    BY <1>2, <1>5, TailIs DEF Sends
  <2>2. PICK e : e = [subject |-> plan[1].subject, amount |-> plan[1].amount, known |-> known]
    OBVIOUS
  <2>3. e \in Tx
    BY <2>1, <2>2 DEF Entry, Tx
  <2>4. pool' = Append(pool, e)
    BY <1>5, <2>2 DEF Sends
  <2> QED BY <1>2, <2>3, <2>4, AppendIs
<1>6. CASE Rests
  BY <1>1, <1>2, <1>3, <1>6 DEF Rests, still, Typed
<1>7. CASE Plans
  <2>1. PICK v, missing : plan' \in plans(v, missing) /\ (kind = "refill" => v = chain)
    BY <1>7 DEF Plans
  <2>2. plan' \in Seq(Entry) /\ Separate(plan') /\ (kind = "liquidation" => plan'[Len(plan')].subject = Debt)
    BY <2>1, PlansSound
  <2> QED BY <1>1, <1>2, <1>7, <2>2 DEF Plans, still, Typed
<1>8. CASE Drops
  BY <1>1, <1>2, <1>4, <1>8 DEF Drops, still, Typed
<1>9. CASE Cuts
  BY <1>1, <1>2, <1>9, CutIs DEF Cuts, still, Typed
<1>10. CASE Answered
  BY <1>1, <1>2, <1>5, <1>10 DEF Answered, Sends, Typed
<1>11. CASE Loses
  BY <1>1, <1>2, <1>4, <1>5, <1>11 DEF Loses, Sends, Typed
<1>12. CASE Books
  BY <1>1, <1>2, <1>12 DEF Books, Typed
<1>13. CASE Repeats
  BY <1>1, <1>2, <1>13 DEF Repeats, still, Typed
<1>14. CASE Mines
  <2>1. pool' \in Seq(Tx)
    BY <1>2, <1>14, TailIs DEF Mines
  <2> QED BY <1>1, <1>2, <1>14, <2>1 DEF Mines, Typed
<1>15. CASE Moves
  BY <1>1, <1>2, <1>15 DEF Moves, Typed
<1> QED
  BY <1>6, <1>7, <1>8, <1>9, <1>10, <1>11, <1>12, <1>13, <1>14, <1>15, Shapes

\* What may be sent, and what has been: no subject twice.
LEMMA OneEachStep ==
  ASSUME Typed, OneEach, kind = "refill" => RefillTyped, [Next]_vars
  PROVE  OneEach'
<1> DEFINE Apart(q, d) == \A i \in DOMAIN q, j \in DOMAIN d : q[i].known => q[i].subject # d[j].subject
           Once(q) == \A i, j \in DOMAIN q : i < j /\ q[i].subject = q[j].subject => ~q[i].known
<1>1. Separate(plan)'
  BY TypedStep DEF OneEach
<1>2. pool \in Seq(Tx) /\ plan \in Seq(Entry) /\ Separate(plan) /\ Apart(pool, due) /\ Once(pool)
  BY DEF Typed, OneEach, OneOpenPerSubject
<1>3. SUFFICES Apart(pool', due') /\ Once(pool')
  BY <1>1 DEF OneEach, OneOpenPerSubject
<1>4. ASSUME NEW d, NEW e, Apart(pool, d), \A j \in DOMAIN e : \E i \in DOMAIN d : e[j].subject = d[i].subject
      PROVE  Apart(pool, e)
  BY <1>4
<1>5. plan # <<>> => /\ \A j \in DOMAIN Tail(plan) : \E i \in DOMAIN plan : Tail(plan)[j].subject = plan[i].subject
                     /\ \A j \in DOMAIN Tail(plan) : Tail(plan)[j].subject # plan[1].subject
                     /\ 1 \in DOMAIN plan
  <2>1. ASSUME plan # <<>>, NEW j \in DOMAIN Tail(plan)
        PROVE \E i \in DOMAIN plan : Tail(plan)[j].subject = plan[i].subject
    <3>1. Tail(plan)[j] = plan[j + 1] /\ j + 1 \in DOMAIN plan
      BY <1>2, <2>1, TailIs
    <3> QED BY <3>1
  <2>2. plan # <<>> => 1 \in DOMAIN plan
    BY <1>2
  <2> QED BY <1>2, <2>1, <2>2, RestKeeps
<1>6. DOMAIN <<>> = {} /\ (pc = "act" => due = plan) /\ (pc = "wait" => due = Tail(plan))
  BY DEF due
<1>7. CASE Rests
  <2>1. pool' = pool /\ due' = <<>>
    BY <1>7 DEF Rests, still, due
  <2> QED BY <1>2, <1>6, <2>1
<1>8. CASE Plans
  <2>1. pool' = pool /\ \A i \in DOMAIN pool : ~pool[i].known
    BY <1>8 DEF Plans, still, openJobs
  <2> QED BY <1>2, <2>1
<1>9. CASE Drops
  <2>1. pool' = pool /\ due' = Tail(plan) /\ plan # <<>>
    BY <1>9 DEF Drops, still, due
  <2>2. Apart(pool, Tail(plan))
    <3>1. CASE pc = "act"
      BY <1>2, <1>4, <1>5, <1>6, <2>1, <3>1
    <3>2. CASE pc = "wait"
      BY <1>2, <1>6, <3>2
    <3> QED BY <1>9, <3>1, <3>2 DEF Drops
  <2> QED BY <1>2, <2>1, <2>2
<1>10. CASE Cuts
  <2>1. pool' = pool /\ due' = plan' /\ due = plan
    BY <1>10 DEF Cuts, still, due
  <2>2. \A j \in DOMAIN plan' : \E i \in DOMAIN plan : plan'[j].subject = plan[i].subject
    BY <1>2, <1>10, CutIs
  <2>3. Apart(pool, plan')
    BY <1>2, <1>4, <2>1, <2>2
  <2> QED BY <1>2, <2>1, <2>3
<1>11. ASSUME NEW known \in BOOLEAN, Sends(known), due' = Tail(plan)
       PROVE  Apart(pool', due') /\ Once(pool')
  <2>1. plan # <<>> /\ due = plan
    BY <1>11 DEF Sends, due
  <2>2. PICK e : e = [subject |-> plan[1].subject, amount |-> plan[1].amount, known |-> known]
    OBVIOUS
  <2>3. e.subject = plan[1].subject /\ pool' = Append(pool, e) /\ e \in Tx
    <3>1. plan[1] \in Entry
      BY <1>2, <2>1, TailIs
    <3> QED BY <1>11, <2>2, <3>1 DEF Sends, Entry, Tx
  <2>4. PICK n \in Nat : n = Len(pool) /\ DOMAIN pool = 1..n
    BY <1>2
  <2>5. PICK q : q = pool'
    OBVIOUS
  <2>6. q \in Seq(Tx) /\ Len(q) = n + 1 /\ q[n + 1] = e /\ \A i \in 1..n : q[i] = pool[i]
    BY <1>2, <2>3, <2>4, <2>5, AppendIs
  <2>7. DOMAIN q = 1..(n + 1) /\ \A i \in 1..(n + 1) : i \in 1..n \/ i = n + 1
    BY <2>6
  <2>8. ASSUME NEW i \in 1..(n + 1), NEW j \in DOMAIN Tail(plan), q[i].known
        PROVE  q[i].subject # Tail(plan)[j].subject
    <3>1. CASE i \in 1..n
      <4>1. PICK k \in DOMAIN plan : Tail(plan)[j].subject = plan[k].subject
        BY <1>5, <2>1
      <4> QED BY <1>2, <2>1, <2>4, <2>6, <2>8, <3>1, <4>1
    <3>2. CASE i = n + 1
      BY <1>5, <2>1, <2>3, <2>6, <3>2
    <3> QED BY <2>7, <3>1, <3>2
  <2>9. ASSUME NEW i \in 1..(n + 1), NEW j \in 1..(n + 1), i < j, q[i].subject = q[j].subject
        PROVE  ~q[i].known
    <3>1. i \in 1..n
      BY <2>9
    <3>2. CASE j \in 1..n
      BY <1>2, <2>4, <2>6, <2>9, <3>1, <3>2
    <3>3. CASE j = n + 1
      <4>1. pool[i].subject = plan[1].subject
        BY <2>3, <2>6, <2>9, <3>1, <3>3
      <4> QED BY <1>2, <1>5, <2>1, <2>4, <2>6, <3>1, <4>1
    <3> QED BY <2>7, <3>2, <3>3
  <2>10. Apart(q, Tail(plan)) /\ Once(q)
    BY <2>7, <2>8, <2>9
  <2> QED BY <1>11, <2>5, <2>10
<1>12. CASE Answered
  <2>1. due' = Tail(plan)
    BY <1>12 DEF Answered, due
  <2> QED BY <1>11, <1>12, <2>1 DEF Answered
<1>13. CASE Loses
  <2>1. due' = Tail(plan)
    BY <1>13 DEF Loses, due
  <2> QED BY <1>11, <1>13, <2>1 DEF Loses
<1>14. CASE Books
  <2>1. pool' = pool /\ due' = due
    BY <1>14 DEF Books, due
  <2> QED BY <1>2, <2>1
<1>15. CASE Repeats
  <2>1. pool' = <<>>
    BY <1>15 DEF Repeats, still
  <2> QED BY <1>6, <2>1
<1>16. CASE Mines
  <2>1. due' = due
    BY <1>16 DEF Mines, due
  <2>2. PICK n \in Nat \ {0} : n = Len(pool) /\ DOMAIN pool = 1..n
    BY <1>2, <1>16, TailIs DEF Mines
  <2>3. PICK q : q = pool'
    OBVIOUS
  <2>4. DOMAIN q = 1..(n - 1) /\ \A i \in 1..(n - 1) : q[i] = pool[i + 1] /\ i + 1 \in 1..n
    BY <1>2, <1>16, <2>2, <2>3, TailIs DEF Mines
  <2>5. ASSUME NEW i \in 1..(n - 1), NEW j \in 1..(n - 1), i < j, q[i].subject = q[j].subject
        PROVE  ~q[i].known
    <3>1. i + 1 < j + 1
      BY <2>5
    <3> QED BY <1>2, <2>2, <2>4, <2>5, <3>1
  <2>6. Apart(q, due) /\ Once(q)
    BY <1>2, <2>2, <2>4, <2>5
  <2> QED BY <2>1, <2>3, <2>6
<1>17. CASE Moves
  <2>1. pool' = pool /\ due' = due
    BY <1>17 DEF Moves, due
  <2> QED BY <1>2, <2>1
<1> QED
  BY <1>7, <1>8, <1>9, <1>10, <1>12, <1>13, <1>14, <1>15, <1>16, <1>17, Shapes

-----------------------------------------------------------------------------
(* Refills.                                                                *)

\* The shapes a refill keeper's steps have.
LEMMA RefillShapes ==
  ASSUME Typed, kind = "refill", RefillTyped, [Next]_vars
  PROVE  Rests \/ Plans \/ Drops \/ Answered \/ Loses \/ Books \/ Mines \/ Moves
BY Shapes DEF Cuts, Repeats

\* A broadcast, as the refill keeper's records see it.
LEMMA SendIs ==
  ASSUME Typed, kind = "refill", RefillTyped, NEW known \in BOOLEAN, Sends(known)
  PROVE  \E n \in Nat, e \in Tx :
           /\ n = Len(pool) /\ DOMAIN pool = 1..n /\ Len(pool') = n + 1 /\ DOMAIN pool' = 1..(n + 1)
           /\ pool'[n + 1] = e /\ \A i \in 1..n : pool'[i] = pool[i]
           /\ e.subject = plan[1].subject /\ e.amount = plan[1].amount /\ e.known = known
           /\ e.subject \in Subjects /\ e.amount \in Nat /\ e.amount <= TARGET
           /\ sent' = [sent EXCEPT ![e.subject] = @ + e.amount]
<1>1. pool \in Seq(Tx) /\ plan \in Seq(Entry) /\ plan # <<>>
  BY DEF Typed, Sends
<1>2. plan[1] \in Entry /\ 1 \in DOMAIN plan
  BY <1>1
<1>3. plan[1].subject \in Subjects /\ plan[1].amount \in Nat /\ plan[1].amount <= TARGET
  BY <1>2 DEF RefillTyped, Entry
<1>4. PICK e : e = [subject |-> plan[1].subject, amount |-> plan[1].amount, known |-> known]
  OBVIOUS
<1>5. /\ e \in Tx /\ e.subject = plan[1].subject /\ e.amount = plan[1].amount /\ e.known = known
      /\ pool' = Append(pool, e)
  BY <1>2, <1>4 DEF Sends, Entry, Tx
<1>6. PICK n \in Nat : n = Len(pool) /\ DOMAIN pool = 1..n
  BY <1>1
<1>7. PICK q : q = pool'
  OBVIOUS
<1>8. q \in Seq(Tx) /\ Len(q) = n + 1 /\ q[n + 1] = e /\ \A i \in 1..n : q[i] = pool[i]
  BY <1>1, <1>5, <1>6, <1>7, AppendIs
<1>9. DOMAIN q = 1..(n + 1)
  BY <1>8
<1>10. sent' = [sent EXCEPT ![e.subject] = @ + e.amount]
  BY <1>5 DEF Sends, spent
<1> QED BY <1>3, <1>5, <1>6, <1>7, <1>8, <1>9, <1>10

\* The rest of a plan has the plan's amounts.
LEMMA RestOf ==
  ASSUME NEW p \in Seq(Entry), p # <<>>
  PROVE  \A i \in DOMAIN Tail(p) : i + 1 \in DOMAIN p /\ i + 1 # 1 /\ Tail(p)[i] = p[i + 1]
<1>1. PICK n \in Nat \ {0} : n = Len(p)
  BY TailIs
<1>2. PICK q : q = Tail(p)
  OBVIOUS
<1>3. DOMAIN p = 1..n /\ DOMAIN q = 1..(n - 1) /\ \A i \in 1..(n - 1) : q[i] = p[i + 1] /\ i + 1 \in 1..n
  BY <1>1, <1>2, TailIs
<1>4. \A i \in 1..(n - 1) : i + 1 # 1
  OBVIOUS
<1> QED BY <1>2, <1>3, <1>4

\* The refill keeper's records keep their types.
LEMMA RefillTypedStep ==
  ASSUME Typed, kind = "refill", RefillTyped, [Next]_vars
  PROVE  RefillTyped'
<1> DEFINE Fits(q) == \A i \in DOMAIN q : q[i].subject \in Subjects /\ q[i].amount <= TARGET
           Chain(c) == c \in [Subjects \cup {Funder} -> Int] /\ \A s \in Subjects : c[s] >= 0
<1>1. /\ pool \in Seq(Tx) /\ plan \in Seq(Entry) /\ Fits(pool) /\ Fits(plan) /\ Chain(chain)
      /\ booked \in [Subjects \cup {Funder} -> Nat] /\ sent \in [Subjects \cup {Funder} -> Nat]
      /\ faults \in Nat
  BY DEF Typed, RefillTyped
<1>2. SUFFICES /\ Fits(pool') /\ Fits(plan') /\ Chain(chain')
               /\ booked' \in [Subjects \cup {Funder} -> Nat] /\ sent' \in [Subjects \cup {Funder} -> Nat]
               /\ faults' \in Nat
  BY DEF RefillTyped
<1>3. plan # <<>> => /\ Fits(Tail(plan)) /\ plan[1].subject \in Subjects /\ plan[1].amount \in Nat
  <2>1. plan # <<>> => Fits(Tail(plan))
    BY <1>1, RestOf
  <2>2. plan # <<>> => 1 \in DOMAIN plan /\ plan[1] \in Entry
    BY <1>1
  <2> QED BY <1>1, <2>1, <2>2 DEF Entry
<1>4. DOMAIN <<>> = {} /\ (maybeFault => faults' \in Nat)
  BY <1>1 DEF maybeFault
<1>5. CASE Rests
  BY <1>1, <1>4, <1>5 DEF Rests, still
<1>6. CASE Plans
  <2>1. PICK v, missing : plan' \in plans(v, missing) /\ (kind = "refill" => v = chain)
    BY <1>6 DEF Plans
  <2>2. plan' \in refillPlans(chain)
    BY <2>1, PlansSound
  <2>3. Fits(plan')
    BY <2>2, RefillPlan
  <2> QED BY <1>1, <1>4, <1>6, <2>3 DEF Plans, still
<1>7. CASE Drops
  BY <1>1, <1>3, <1>4, <1>7 DEF Drops, still
<1>8. ASSUME NEW known \in BOOLEAN, Sends(known)
      PROVE  Fits(pool') /\ chain' = chain /\ booked' = booked /\ sent' \in [Subjects \cup {Funder} -> Nat]
  <2>1. PICK n \in Nat, e \in Tx :
          /\ DOMAIN pool = 1..n /\ DOMAIN pool' = 1..(n + 1)
          /\ pool'[n + 1] = e /\ \A i \in 1..n : pool'[i] = pool[i]
          /\ e.subject \in Subjects /\ e.amount \in Nat /\ e.amount <= TARGET
          /\ sent' = [sent EXCEPT ![e.subject] = @ + e.amount]
    BY <1>8, SendIs
  <2>2. \A i \in 1..(n + 1) : i \in 1..n \/ i = n + 1
    OBVIOUS
  <2>3. Fits(pool')
    BY <1>1, <2>1, <2>2
  <2>4. sent' \in [Subjects \cup {Funder} -> Nat]
    BY <1>1, <2>1
  <2> QED BY <1>8, <2>3, <2>4 DEF Sends
<1>9. CASE Answered
  BY <1>1, <1>8, <1>9 DEF Answered
<1>10. CASE Loses
  <2>1. plan # <<>>
    BY <1>10 DEF Loses, Sends
  <2>2. Fits(pool') /\ chain' = chain /\ booked' = booked /\ sent' \in [Subjects \cup {Funder} -> Nat]
    BY <1>8, <1>10 DEF Loses
  <2>3. Fits(plan') /\ faults' \in Nat
    BY <1>1, <1>3, <1>10, <2>1 DEF Loses
  <2> QED BY <1>1, <2>2, <2>3
<1>11. CASE Books
  <2>1. plan # <<>>
    BY <1>11 DEF Books, Typed
  <2>2. booked' = [booked EXCEPT ![plan[1].subject] = @ + plan[1].amount]
    BY <1>11 DEF Books, spent
  <2>3. booked' \in [Subjects \cup {Funder} -> Nat]
    BY <1>1, <1>3, <2>1, <2>2
  <2> QED BY <1>1, <1>11, <2>3 DEF Books
<1>12. CASE Mines
  <2>7. PICK n \in Nat \ {0} : n = Len(pool)
    BY <1>1, <1>12, TailIs DEF Mines
  <2>8. PICK q : q = pool'
    OBVIOUS
  <2>1. /\ DOMAIN pool = 1..n /\ q = pool' /\ DOMAIN q = 1..(n - 1)
        /\ \A i \in 1..(n - 1) : q[i] = pool[i + 1] /\ i + 1 \in 1..n
    BY <1>1, <1>12, <2>7, <2>8, TailIs DEF Mines
  <2>2. Fits(q)
    BY <1>1, <2>1
  <2>3. 1 \in DOMAIN pool /\ pool[1] \in Tx
    BY <1>1, <2>1
  <2>4. PICK s \in Subjects, a \in Nat : s = pool[1].subject /\ a = pool[1].amount
    BY <1>1, <2>3 DEF Tx
  <2>5. chain' = [chain EXCEPT ![s] = @ + a, ![Funder] = @ - a]
    BY <1>12, <2>4 DEF Mines, effect
  <2>6. Chain(chain')
    <3>1. chain[s] \in Int /\ chain[Funder] \in Int /\ chain[s] >= 0 /\ s # Funder
      BY <1>1, Configured
    <3>2. chain' \in [Subjects \cup {Funder} -> Int]
      BY <1>1, <2>5, <3>1
    <3>3. \A t \in Subjects : chain'[t] = IF t = s THEN chain[t] + a ELSE chain[t]
      BY <1>1, <2>5, Configured
    <3>4. ASSUME NEW t \in Subjects PROVE chain'[t] >= 0
      <4>1. chain[t] \in Int /\ chain[t] >= 0
        BY <1>1
      <4>2. chain'[t] = chain[t] + a \/ chain'[t] = chain[t]
        BY <3>3
      <4> QED BY <4>1, <4>2
    <3> QED BY <3>2, <3>4
  <2> QED BY <1>1, <1>12, <2>1, <2>2, <2>6 DEF Mines
<1>13. CASE Moves
  <2>1. Chain(chain')
    <3>1. CASE chain' = chain
      BY <1>1, <3>1
    <3>2. ASSUME NEW s \in Subjects, NEW n \in Nat, chain' = [chain EXCEPT ![s] = n]
          PROVE  Chain(chain')
      BY <1>1, <3>2, Configured
    <3> QED BY <1>13, <3>1, <3>2 DEF Moves
  <2> QED BY <1>1, <1>4, <1>13, <2>1 DEF Moves
<1> QED
  BY <1>5, <1>6, <1>7, <1>9, <1>10, <1>11, <1>12, <1>13, RefillShapes

\* A fault allows one top-up more.
LEMMA FaultAllows ==
  ASSUME RefillTyped
  PROVE  /\ faults * TARGET \in Nat /\ (faults + 1) * TARGET = faults * TARGET + TARGET
         /\ faults' = faults => faults' * TARGET = faults * TARGET
         /\ faults' = faults + 1 => faults' * TARGET = faults * TARGET + TARGET
<1>1. faults \in Nat /\ TARGET \in Nat
  BY Configured DEF RefillTyped
<1>2. faults * TARGET \in Nat /\ (faults + 1) * TARGET = faults * TARGET + TARGET
  BY <1>1
<1> QED BY <1>2

\* The day's allowance is kept.
LEMMA DayKeptStep ==
  ASSUME Typed, Separate(plan), kind = "refill", RefillTyped, DayKept, [Next]_vars
  PROVE  DayKept'
<1> DEFINE Planned(p, b) == \A i \in DOMAIN p : b[p[i].subject] + p[i].amount <= MAX_PER_DAY
           Rows(b) == \A s \in Subjects : b[s] <= MAX_PER_DAY
<1>1. PICK K \in Nat : K = faults * TARGET
  BY FaultAllows
<1>2. PICK L : L = faults' * TARGET
  OBVIOUS
<1>3. /\ maybeFault => L = K \/ L = K + TARGET
      /\ faults' = faults => L = K
      /\ faults' = faults + 1 => L = K + TARGET
  BY <1>1, <1>2, FaultAllows DEF maybeFault
<1>4. /\ pool \in Seq(Tx) /\ plan \in Seq(Entry) /\ TARGET \in Nat /\ MAX_PER_DAY \in Nat
      /\ booked \in [Subjects \cup {Funder} -> Nat] /\ sent \in [Subjects \cup {Funder} -> Nat]
  BY Configured DEF Typed, RefillTyped
<1>5. /\ Rows(booked)
      /\ \A s \in Subjects : sent[s] <= booked[s] + unbooked(s) + K
      /\ \A i \in DOMAIN plan : (pc = "wait" => i # 1) => booked[plan[i].subject] + plan[i].amount <= MAX_PER_DAY
  BY <1>1 DEF DayKept
<1>6. /\ pc # "book" => \A s \in Subjects : unbooked(s) = 0
      /\ pc' # "book" => \A s \in Subjects : unbooked(s)' = 0
  BY DEF unbooked
<1>7. plan # <<>> => /\ 1 \in DOMAIN plan /\ plan[1].subject \in Subjects /\ plan[1].amount \in Nat
                     /\ plan[1].amount <= TARGET
  <2>1. plan # <<>> => 1 \in DOMAIN plan /\ plan[1] \in Entry
    BY <1>4
  <2> QED BY <2>1 DEF RefillTyped, Entry
<1>8. plan # <<>> => Planned(Tail(plan), booked)
  BY <1>4, <1>5, RestOf
<1>9. ASSUME Rows(booked'), \A s \in Subjects : sent'[s] <= booked'[s] + unbooked(s)' + L,
             \A i \in DOMAIN plan' : (pc' = "wait" => i # 1) => booked'[plan'[i].subject] + plan'[i].amount <= MAX_PER_DAY
      PROVE  DayKept'
  BY <1>2, <1>9 DEF DayKept
<1>10. CASE Rests
  <2>1. booked' = booked /\ sent' = sent /\ plan' = <<>> /\ pc' # "book" /\ (L = K \/ L = K + TARGET)
        /\ (pc = "book" => L = K + TARGET)
    BY <1>3, <1>10 DEF Rests, still
  <2>2. ASSUME NEW s \in Subjects PROVE sent[s] <= booked[s] + L
    <3>1. CASE pc = "book"
      <4>1. unbooked(s) \in Nat /\ unbooked(s) <= TARGET
        BY <1>4, <1>7, <3>1 DEF unbooked, Typed
      <4> QED BY <1>4, <1>5, <2>1, <3>1, <4>1
    <3>2. CASE pc # "book"
      BY <1>4, <1>5, <1>6, <2>1, <3>2
    <3> QED BY <3>1, <3>2
  <2>3. \A s \in Subjects : sent'[s] <= booked'[s] + unbooked(s)' + L
    BY <1>3, <1>4, <1>6, <2>1, <2>2
  <2> QED BY <1>5, <1>9, <2>1, <2>3
<1>11. ASSUME booked' = booked, sent' = sent, pc # "book", pc' # "book", L = K \/ L = K + TARGET
       PROVE  Rows(booked') /\ \A s \in Subjects : sent'[s] <= booked'[s] + unbooked(s)' + L
  BY <1>4, <1>5, <1>6, <1>11
<1>12. CASE Plans
  <2>1. PICK v, missing : plan' \in plans(v, missing) /\ (kind = "refill" => v = chain)
    BY <1>12 DEF Plans
  <2>2. plan' \in refillPlans(chain)
    BY <2>1, PlansSound
  <2>3. Planned(plan', booked)
    BY <2>2, RefillPlan
  <2>4. booked' = booked /\ sent' = sent /\ pc # "book" /\ pc' # "book" /\ (L = K \/ L = K + TARGET)
    BY <1>3, <1>12 DEF Plans, still
  <2> QED BY <1>9, <1>11, <2>3, <2>4
<1>13. CASE Drops
  <2>1. booked' = booked /\ sent' = sent /\ pc # "book" /\ pc' # "book" /\ (L = K \/ L = K + TARGET)
        /\ plan' = Tail(plan) /\ plan # <<>>
    BY <1>3, <1>13 DEF Drops, still
  <2> QED BY <1>8, <1>9, <1>11, <2>1
<1>14. CASE Answered
  <2>1. PICK e \in Tx : /\ e.subject = plan[1].subject /\ e.amount = plan[1].amount
                        /\ e.subject \in Subjects /\ e.amount \in Nat
                        /\ sent' = [sent EXCEPT ![e.subject] = @ + e.amount]
    BY <1>14, SendIs DEF Answered
  <2>2. booked' = booked /\ plan' = plan /\ pc = "act" /\ pc' = "book" /\ L = K
    BY <1>3, <1>14 DEF Answered, Sends
  <2>3. ASSUME NEW s \in Subjects PROVE sent'[s] <= booked'[s] + unbooked(s)' + L
    <3>1. unbooked(s)' = IF e.subject = s THEN e.amount ELSE 0
      BY <2>1, <2>2 DEF unbooked
    <3>2. sent'[s] = sent[s] + (IF e.subject = s THEN e.amount ELSE 0)
      BY <1>4, <2>1
    <3>3. sent[s] <= booked[s] + K
      BY <1>4, <1>5, <1>6, <2>2
    <3> QED BY <1>4, <2>1, <2>2, <3>1, <3>2, <3>3
  <2> QED BY <1>5, <1>9, <2>2, <2>3
<1>15. CASE Loses
  <2>1. PICK e \in Tx : /\ e.subject \in Subjects /\ e.amount \in Nat /\ e.amount <= TARGET
                        /\ sent' = [sent EXCEPT ![e.subject] = @ + e.amount]
    BY <1>15, SendIs DEF Loses
  <2>2. booked' = booked /\ plan' = Tail(plan) /\ plan # <<>> /\ pc = "act" /\ pc' = "act" /\ L = K + TARGET
    BY <1>3, <1>15 DEF Loses, Sends
  <2>3. ASSUME NEW s \in Subjects PROVE sent'[s] <= booked'[s] + unbooked(s)' + L
    <3>1. sent'[s] <= sent[s] + TARGET
      BY <1>4, <2>1
    <3>2. sent[s] <= booked[s] + K /\ unbooked(s)' = 0
      BY <1>4, <1>5, <1>6, <2>2
    <3>3. sent'[s] \in Nat
      BY <1>4, <2>1
    <3> QED BY <1>4, <2>2, <3>1, <3>2, <3>3
  <2> QED BY <1>5, <1>8, <1>9, <2>2, <2>3
<1>16. CASE Books
  <2>1. PICK s1 \in Subjects, a \in Nat : s1 = plan[1].subject /\ a = plan[1].amount
    BY <1>7, <1>16 DEF Books, Typed
  <2>2. booked' = [booked EXCEPT ![s1] = @ + a] /\ sent' = sent /\ plan' = plan /\ pc = "book" /\ pc' = "wait" /\ L = K
    BY <1>3, <1>16, <2>1 DEF Books, spent
  <2>3. plan # <<>> /\ 1 \in DOMAIN plan
    BY <1>7, <1>16 DEF Books, Typed
  <2>4. ASSUME NEW s \in Subjects PROVE sent'[s] <= booked'[s] + unbooked(s)' + L
    <3>1. unbooked(s) = (IF s1 = s THEN a ELSE 0) /\ unbooked(s)' = 0
      BY <1>6, <2>1, <2>2 DEF unbooked
    <3>2. booked'[s] = booked[s] + (IF s1 = s THEN a ELSE 0)
      BY <1>4, <2>2
    <3> QED BY <1>4, <1>5, <2>1, <2>2, <3>1, <3>2
  <2>5. Rows(booked')
    <3>1. booked[s1] + a <= MAX_PER_DAY
      BY <1>5, <2>1, <2>2, <2>3
    <3> QED BY <1>4, <1>5, <2>2, <3>1
  <2>6. ASSUME NEW i \in DOMAIN plan, i # 1 PROVE booked'[plan[i].subject] + plan[i].amount <= MAX_PER_DAY
    <3>1. plan[i].subject # s1 /\ plan[i].subject \in Subjects
      BY <2>1, <2>3, <2>6 DEF Separate, RefillTyped
    <3>2. booked'[plan[i].subject] = booked[plan[i].subject]
      BY <1>4, <2>2, <3>1
    <3> QED BY <1>5, <2>2, <2>6, <3>2
  <2> QED BY <1>9, <2>2, <2>4, <2>5, <2>6
<1>17. ASSUME UNCHANGED <<pc, plan, booked, sent>>, L = K \/ L = K + TARGET PROVE DayKept'
  <2>1. \A s \in Subjects : unbooked(s)' = unbooked(s)
    BY <1>17 DEF unbooked
  <2>2. ASSUME NEW s \in Subjects PROVE sent'[s] <= booked'[s] + unbooked(s)' + L
    <3>1. unbooked(s) \in Nat
      BY <1>7 DEF unbooked, Typed
    <3> QED BY <1>4, <1>5, <1>17, <2>1, <3>1
  <2> QED BY <1>5, <1>9, <1>17, <2>2
<1>18. CASE Mines
  BY <1>3, <1>17, <1>18 DEF Mines
<1>19. CASE Moves
  BY <1>3, <1>17, <1>19 DEF Moves
<1> QED
  BY <1>10, <1>12, <1>13, <1>14, <1>15, <1>16, <1>18, <1>19, RefillShapes

\* A path without its first transfer.
LEMMA PathTail ==
  ASSUME NEW S, NEW p \in Seq(S), p # <<>>, NEW start, NEW b, Path(b, start, p), NEW n, Above(b, p, n)
  PROVE  \E c : Path(c, b[1], Tail(p)) /\ Above(c, Tail(p), n) /\ c[Len(Tail(p))] = b[Len(p)]
<1>1. PICK m \in Nat \ {0} : m = Len(p)
  BY TailIs
<1>2. PICK q : q = Tail(p)
  OBVIOUS
<1>3. Len(q) = m - 1 /\ \A i \in 1..(m - 1) : q[i] = p[i + 1]
  BY <1>1, <1>2, TailIs
<1>4. /\ b \in [0..m -> Int] /\ \A i \in 1..m : b[i] = b[i - 1] - p[i].amount
      /\ \A i \in 0..m : b[i] >= n
  BY <1>1 DEF Path, Above
<1> DEFINE c == [i \in 0..(m - 1) |-> b[i + 1]]
<1>5. c \in [0..(m - 1) -> Int]
  BY <1>4
<1>6. \A i \in 0..(m - 1) : c[i] = b[i + 1]
  OBVIOUS
<1> HIDE DEF c
<1>7. ASSUME NEW i \in 1..(m - 1) PROVE c[i] = c[i - 1] - q[i].amount
  <2>1. i + 1 \in 1..m /\ i \in 0..(m - 1) /\ i - 1 \in 0..(m - 1) /\ (i + 1) - 1 = i /\ (i - 1) + 1 = i
    OBVIOUS
  <2>2. b[i + 1] = b[i] - p[i + 1].amount
    BY <1>4, <2>1
  <2>3. c[i] = b[i + 1] /\ c[i - 1] = b[i]
    BY <1>6, <2>1
  <2> QED BY <1>3, <2>2, <2>3
<1>8. c[0] = b[1] /\ c[m - 1] = b[m]
  <2>1. 0 \in 0..(m - 1) /\ m - 1 \in 0..(m - 1) /\ (m - 1) + 1 = m /\ 0 + 1 = 1
    OBVIOUS
  <2> QED BY <1>6, <2>1
<1>9. ASSUME NEW i \in 0..(m - 1) PROVE c[i] >= n
  <2>1. i + 1 \in 0..m
    OBVIOUS
  <2> QED BY <1>4, <1>6, <2>1
<1>10. Path(c, b[1], q)
  BY <1>3, <1>5, <1>7, <1>8 DEF Path
<1>11. Above(c, q, n)
  BY <1>3, <1>9 DEF Above
<1> QED BY <1>1, <1>2, <1>3, <1>8, <1>10, <1>11

\* A path from a balance that is higher by x.
LEMMA PathShift ==
  ASSUME NEW p \in Seq(Entry), NEW start, NEW b, Path(b, start, p), NEW x \in Int,
         NEW higher, higher = start + x
  PROVE  \E c : Path(c, higher, p) /\ \A i \in 0..Len(p) : c[i] = b[i] + x
<1>1. PICK m \in Nat : m = Len(p) /\ DOMAIN p = 1..m
  OBVIOUS
<1>2. b \in [0..m -> Int] /\ b[0] = start /\ \A i \in 1..m : b[i] = b[i - 1] - p[i].amount
  BY <1>1 DEF Path
<1> DEFINE c == [i \in 0..m |-> b[i] + x]
<1>3. c \in [0..m -> Int]
  BY <1>2
<1>4. \A i \in 0..m : c[i] = b[i] + x
  OBVIOUS
<1> HIDE DEF c
<1>5. ASSUME NEW i \in 1..m PROVE c[i] = c[i - 1] - p[i].amount
  <2>1. i \in 0..m /\ i - 1 \in 0..m
    OBVIOUS
  <2>5. p[i] \in Entry
    BY <1>1
  <2>2. b[i] \in Int /\ b[i - 1] \in Int /\ p[i].amount \in Int
    BY <1>2, <2>1, <2>5 DEF Entry
  <2>3. b[i] = b[i - 1] - p[i].amount
    BY <1>2
  <2>4. c[i] = b[i] + x /\ c[i - 1] = b[i - 1] + x
    BY <1>4, <2>1
  <2> QED BY <2>2, <2>3, <2>4
<1>6. c[0] = higher
  <2>1. 0 \in 0..m
    OBVIOUS
  <2>2. c[0] = b[0] + x
    BY <1>4, <2>1
  <2> QED BY <1>2, <2>2
<1>7. Path(c, higher, p)
  BY <1>1, <1>3, <1>5, <1>6 DEF Path
<1> QED BY <1>1, <1>4, <1>7

\* A transfer more, lost sight of or not.
LEMMA LossesAppend ==
  ASSUME NEW p \in Seq(Tx), NEW e \in Tx, NEW g, Losses(g, p),
         NEW K \in Int, \A i \in 0..Len(p) : g[i] <= K,
         NEW M \in Int, M >= K, ~e.known => M >= K + e.amount
  PROVE  \E h : Losses(h, Append(p, e)) /\ \A i \in 0..(Len(p) + 1) : h[i] <= M
<1>11. PICK n \in Nat : n = Len(p)
  OBVIOUS
<1>12. PICK q : q = Append(p, e)
  OBVIOUS
<1>13. Len(q) = n + 1 /\ q[n + 1] = e /\ \A i \in 1..n : q[i] = p[i]
  BY <1>11, <1>12, AppendIs
<1>14. q[n + 1].amount \in Nat
  BY <1>13 DEF Tx
<1>1. PICK x \in Nat : x = IF q[n + 1].known THEN 0 ELSE q[n + 1].amount
  BY <1>14
<1>2. K + x <= M
  BY <1>1, <1>13
<1>3. /\ g \in [0..n -> Int] /\ g[0] = 0
      /\ \A i \in 1..n : g[i] = g[i - 1] + (IF p[i].known THEN 0 ELSE p[i].amount)
  BY <1>11 DEF Losses
<1> DEFINE h == [i \in 0..(n + 1) |-> IF i <= n THEN g[i] ELSE g[n] + x]
<1>4. h \in [0..(n + 1) -> Int]
  BY <1>3
<1>5. \A i \in 0..n : h[i] = g[i]
  OBVIOUS
<1>6. h[n + 1] = g[n] + x
  OBVIOUS
<1> HIDE DEF h
<1>7. ASSUME NEW i \in 1..(n + 1)
      PROVE  h[i] = h[i - 1] + (IF q[i].known THEN 0 ELSE q[i].amount)
  <2>1. CASE i = n + 1
    <3>1. h[n] = g[n] /\ (n + 1) - 1 = n
      BY <1>5
    <3> QED BY <1>1, <1>6, <2>1, <3>1
  <2>2. CASE i # n + 1
    <3>1. i \in 1..n /\ i - 1 \in 0..n /\ i \in 0..n
      BY <2>2
    <3>2. h[i] = g[i] /\ h[i - 1] = g[i - 1] /\ q[i] = p[i]
      BY <1>5, <1>13, <3>1
    <3> QED BY <1>3, <3>1, <3>2
  <2> QED BY <2>1, <2>2
<1>8. h[0] = 0
  BY <1>3, <1>5
<1>9. ASSUME NEW i \in 0..(n + 1) PROVE h[i] <= M
  <2>1. CASE i = n + 1
    <3>1. g[n] <= K /\ g[n] \in Int
      BY <1>3, <1>11
    <3> QED BY <1>2, <1>6, <2>1, <3>1
  <2>2. CASE i # n + 1
    <3>1. i \in 0..n
      BY <2>2
    <3> QED BY <1>3, <1>5, <1>11, <3>1
  <2> QED BY <2>1, <2>2
<1>10. Losses(h, q)
  BY <1>4, <1>7, <1>8, <1>13 DEF Losses
<1> QED BY <1>9, <1>10, <1>11, <1>12

\* A transfer less.
LEMMA LossesTail ==
  ASSUME NEW p \in Seq(Tx), p # <<>>, NEW g, Losses(g, p), NEW K \in Int, \A i \in 0..Len(p) : g[i] <= K
  PROVE  \E h : Losses(h, Tail(p)) /\ \A i \in 0..Len(Tail(p)) : h[i] <= K
<1>1. PICK m \in Nat \ {0} : m = Len(p) /\ DOMAIN p = 1..m
  BY TailIs
<1>2. PICK q : q = Tail(p)
  OBVIOUS
<1>3. Len(q) = m - 1 /\ \A i \in 1..(m - 1) : q[i] = p[i + 1]
  BY <1>1, <1>2, TailIs
<1>4. /\ g \in [0..m -> Int] /\ g[0] = 0
      /\ \A i \in 1..m : g[i] = g[i - 1] + (IF p[i].known THEN 0 ELSE p[i].amount)
  BY <1>1 DEF Losses
<1>5. g[1] \in Nat
  <2>1. p[1] \in Tx /\ 1 \in 1..m /\ 1 - 1 = 0
    BY <1>1
  <2>2. g[1] = 0 + (IF p[1].known THEN 0 ELSE p[1].amount)
    BY <1>4, <2>1
  <2> QED BY <2>1, <2>2 DEF Tx
<1> DEFINE h == [i \in 0..(m - 1) |-> g[i + 1] - g[1]]
<1>6. \A i \in 0..(m - 1) : h[i] = g[i + 1] - g[1] /\ i + 1 \in 0..m
  OBVIOUS
<1>7. h \in [0..(m - 1) -> Int]
  BY <1>4
<1> HIDE DEF h
<1>8. ASSUME NEW i \in 1..(m - 1)
      PROVE  h[i] = h[i - 1] + (IF q[i].known THEN 0 ELSE q[i].amount)
  <2>1. i + 1 \in 1..m /\ i \in 0..(m - 1) /\ i - 1 \in 0..(m - 1) /\ (i + 1) - 1 = i /\ (i - 1) + 1 = i
    OBVIOUS
  <2>2. g[i + 1] = g[i] + (IF p[i + 1].known THEN 0 ELSE p[i + 1].amount)
    BY <1>4, <2>1
  <2>3. h[i] = g[i + 1] - g[1] /\ h[i - 1] = g[i] - g[1] /\ q[i] = p[i + 1]
    BY <1>3, <1>6, <2>1
  <2>4. p[i + 1] \in Tx
    BY <1>1, <2>1
  <2>5. PICK x \in Nat : x = IF p[i + 1].known THEN 0 ELSE p[i + 1].amount
    BY <2>4 DEF Tx
  <2>6. g[i] \in Int /\ g[i + 1] \in Int
    BY <1>4, <2>1
  <2>7. h[i] = h[i - 1] + x
    BY <1>5, <2>2, <2>3, <2>5, <2>6
  <2> QED BY <2>3, <2>5, <2>7
<1>9. h[0] = 0
  <2>1. 0 \in 0..(m - 1) /\ 0 + 1 = 1
    OBVIOUS
  <2> QED BY <1>5, <1>6, <2>1
<1>10. ASSUME NEW i \in 0..(m - 1) PROVE h[i] <= K
  <2>1. g[i + 1] \in Int /\ g[i + 1] <= K
    BY <1>1, <1>4, <1>6
  <2> QED BY <1>5, <1>6, <2>1
<1>11. Losses(h, q)
  BY <1>3, <1>7, <1>8, <1>9 DEF Losses
<1> QED BY <1>2, <1>3, <1>10, <1>11

\* When every transfer on its way was lost sight of, what they take is the losses.
LEMMA AllLost ==
  ASSUME NEW p \in Seq(Tx), \A i \in DOMAIN p : ~p[i].known,
         NEW start \in Int, NEW b, Path(b, start, p), NEW g, Losses(g, p)
  PROVE  b[Len(p)] = start - g[Len(p)]
<1>1. PICK m \in Nat : m = Len(p) /\ DOMAIN p = 1..m
  OBVIOUS
<1>2. /\ b \in [0..m -> Int] /\ b[0] = start /\ g \in [0..m -> Int] /\ g[0] = 0
      /\ \A i \in 1..m : b[i] = b[i - 1] - p[i].amount
      /\ \A i \in 1..m : g[i] = g[i - 1] + (IF p[i].known THEN 0 ELSE p[i].amount)
  BY <1>1 DEF Path, Losses
<1> DEFINE Bad == {i \in 0..m : b[i] # start - g[i]}
<1>3. ASSUME Bad # {} PROVE FALSE
  <2>1. PICK k \in Bad : \A i \in Bad : k <= i
    <3>1. Bad \in SUBSET Nat
      OBVIOUS
    <3>2. Min(Bad) \in Bad /\ \A i \in Bad : Min(Bad) <= i
      <4> HIDE DEF Bad
      <4> QED BY <1>3, <3>1, Least
    <3> HIDE DEF Bad
    <3> QED BY <3>2
  <2>2. k \in 0..m /\ b[k] # start - g[k]
    OBVIOUS
  <2>3. k # 0
    BY <1>2, <2>2
  <2>4. k \in 1..m /\ k - 1 \in 0..m /\ ~(k <= k - 1)
    BY <2>2, <2>3
  <2>5. b[k - 1] = start - g[k - 1]
    BY <2>1, <2>4
  <2>6. p[k] \in Tx /\ ~p[k].known
    BY <1>1, <2>4
  <2>7. p[k].amount \in Nat
    BY <2>6 DEF Tx
  <2>8. b[k] = b[k - 1] - p[k].amount
    BY <1>2, <2>4
  <2>9. g[k] = g[k - 1] + p[k].amount
    BY <1>2, <2>4, <2>6
  <2>10. g[k - 1] \in Int
    BY <1>2, <2>4
  <2> QED BY <2>2, <2>5, <2>7, <2>8, <2>9, <2>10
<1>4. m \in 0..m
  OBVIOUS
<1> QED BY <1>1, <1>3, <1>4

\* The funder keeps its last unit but for what was lost sight of.
LEMMA FunderKeptStep ==
  ASSUME Typed, kind = "refill", RefillTyped, FunderKept, [Next]_vars
  PROVE  FunderKept'
<1>1. PICK K \in Nat : K = faults * TARGET
  BY FaultAllows
<1>2. PICK L \in Int : L = faults' * TARGET
  <2>1. faults' \in Nat
    BY RefillTypedStep DEF RefillTyped
  <2>2. PICK k \in Nat : k = faults'
    BY <2>1
  <2>3. k * TARGET \in Int
    BY Configured
  <2> QED BY <2>2, <2>3
<1>3. /\ maybeFault => L = K \/ L = K + TARGET
      /\ faults' = faults => L = K
      /\ faults' = faults + 1 => L = K + TARGET
  BY <1>1, <1>2, FaultAllows DEF maybeFault
<1>4. /\ pool \in Seq(Tx) /\ plan \in Seq(Entry) /\ TARGET \in Nat
      /\ chain[Funder] \in Int /\ chain'[Funder] \in Int
  <2>1. chain'[Funder] \in Int
    BY RefillTypedStep DEF RefillTyped
  <2> QED BY <2>1, Configured DEF Typed, RefillTyped
<1>5. PICK n \in Nat : n = Len(pool) /\ DOMAIN pool = 1..n
  BY <1>4
<1>6. PICK b, c : /\ Path(b, chain[Funder], pool) /\ Above(b, pool, 1 - K)
                  /\ Path(c, b[n], due) /\ Above(c, due, 1 - K)
  BY <1>1, <1>5 DEF FunderKept
<1>7. PICK g : Losses(g, pool) /\ \A i \in 0..n : g[i] <= K
  BY <1>1, <1>5 DEF FunderKept
<1>8. ASSUME NEW b2, NEW c2, NEW g2,
             Path(b2, chain'[Funder], pool'), Above(b2, pool', 1 - L),
             Path(c2, b2[Len(pool')], due'), Above(c2, due', 1 - L),
             Losses(g2, pool'), \A i \in 0..Len(pool') : g2[i] <= L
      PROVE  FunderKept'
  BY <1>2, <1>8 DEF FunderKept
<1>9. ASSUME NEW f, NEW p, Len(p) \in Nat, f \in [0..Len(p) -> Int], Above(f, p, 1 - K), L \in {K, K + TARGET}
      PROVE  Above(f, p, 1 - L)
  <2>1. ASSUME NEW i \in 0..Len(p) PROVE f[i] >= 1 - L
    <3>1. f[i] \in Int /\ f[i] >= 1 - K
      BY <1>9 DEF Above
    <3> QED BY <1>4, <1>9, <3>1
  <2> QED BY <2>1 DEF Above
<1>10. b \in [0..n -> Int] /\ b[0] = chain[Funder] /\ b[n] \in Int
  BY <1>5, <1>6 DEF Path
<1>11. L \in {K, K + TARGET} => Above(b, pool, 1 - L) /\ \A i \in 0..n : g[i] <= L
  <2>1. ASSUME L \in {K, K + TARGET}, NEW i \in 0..n PROVE g[i] <= L
    <3>1. g[i] \in Int /\ g[i] <= K
      BY <1>5, <1>7 DEF Losses
    <3> QED BY <1>4, <2>1, <3>1
  <2> QED BY <1>5, <1>6, <1>9, <1>10, <2>1
<1>12. due \in Seq(Entry) /\ Len(due) \in Nat /\ c \in [0..Len(due) -> Int]
  <2>1. due \in Seq(Entry)
    BY <1>4, TailIs DEF due, Typed
  <2> QED BY <1>6, <2>1 DEF Path
<1>13. ASSUME pool' = pool, chain'[Funder] = chain[Funder], L \in {K, K + TARGET},
              NEW c2, Path(c2, b[n], due'), Above(c2, due', 1 - L)
       PROVE  FunderKept'
  BY <1>5, <1>6, <1>7, <1>8, <1>11, <1>13
<1>14. ASSUME pool' = pool, chain'[Funder] = chain[Funder], L \in {K, K + TARGET}, due' = due
       PROVE  FunderKept'
  <2>1. Above(c, due, 1 - L)
    BY <1>6, <1>9, <1>12, <1>14
  <2> QED BY <1>6, <1>13, <1>14, <2>1
<1>15. ASSUME plan # <<>>, pc = "act"
       PROVE  /\ due = plan /\ plan[1].amount \in Nat /\ c[1] = b[n] - plan[1].amount /\ c[1] \in Int
              /\ c[1] >= 1 - K
              /\ \E d : Path(d, c[1], Tail(plan)) /\ Above(d, Tail(plan), 1 - K)
  <2>1. due = plan /\ plan[1] \in Entry /\ Len(plan) \in Nat \ {0}
    BY <1>4, <1>15, TailIs DEF due
  <2>2. 1 \in 1..Len(plan) /\ 1 \in 0..Len(plan) /\ 1 - 1 = 0
    BY <2>1
  <2>3. c[1] = c[0] - plan[1].amount /\ c[0] = b[n] /\ c[1] \in Int
    BY <1>6, <1>12, <2>1, <2>2 DEF Path
  <2>4. c[1] >= 1 - K
    BY <1>6, <2>1, <2>2 DEF Above
  <2>5. \E d : Path(d, c[1], Tail(plan)) /\ Above(d, Tail(plan), 1 - K)
    BY <1>4, <1>6, <1>15, <2>1, PathTail
  <2> QED BY <2>1, <2>3, <2>4, <2>5 DEF Entry
<1>16. CASE Rests
  <2>1. pool' = pool /\ chain'[Funder] = chain[Funder] /\ L \in {K, K + TARGET} /\ due' = <<>>
    BY <1>3, <1>16 DEF Rests, still, due
  <2> DEFINE d == [i \in 0..0 |-> b[n]]
  <2>2. d \in [0..0 -> Int] /\ d[0] = b[n] /\ Len(<<>>) = 0
    BY <1>10
  <2> HIDE DEF d
  <2>3. Path(d, b[n], <<>>)
    BY <2>2 DEF Path
  <2>4. Above(d, <<>>, 1 - L)
    <3>1. n \in 0..n
      OBVIOUS
    <3>2. b[n] >= 1 - L
      BY <1>5, <1>11, <2>1, <3>1 DEF Above
    <3> QED BY <2>2, <3>2 DEF Above
  <2> QED BY <1>13, <2>1, <2>3, <2>4
<1>17. CASE Plans
  <2>1. PICK v, missing : plan' \in plans(v, missing) /\ (kind = "refill" => v = chain)
    BY <1>17 DEF Plans
  <2>2. plan' \in refillPlans(chain)
    BY <2>1, PlansSound
  <2>3. PICK start \in Int : start = IF chain[Funder] > 1 THEN chain[Funder] - 1 ELSE 0
    BY <1>4
  <2>4. PICK q \in Seq(Entry) : q = plan' /\ \E l \in Nat : Affords(q, start, l)
    BY <2>2, <2>3, RefillPlan
  <2>5. PICK f : Path(f, start, q) /\ \A i \in 0..Len(q) : f[i] >= 0
    BY <2>4 DEF Affords
  <2>6. PICK x \in Int : x = b[n] - start
    BY <1>10
  <2>11. b[n] = start + x
    BY <1>10, <2>6
  <2>7. PICK d : Path(d, b[n], q) /\ \A i \in 0..Len(q) : d[i] = f[i] + x
    <3>1. PICK from : from = start
      OBVIOUS
    <3>2. Path(f, from, q) /\ b[n] = from + x
      BY <2>5, <2>11, <3>1
    <3> HIDE <3>1
    <3> QED BY <3>2, PathShift
  <2>8. pool' = pool /\ chain'[Funder] = chain[Funder] /\ L \in {K, K + TARGET} /\ due' = q
        /\ \A i \in DOMAIN pool : ~pool[i].known
    BY <1>3, <1>17, <2>4 DEF Plans, still, due, openJobs
  <2>9. b[n] = chain[Funder] - g[n]
    BY <1>4, <1>5, <1>6, <1>7, <2>8, AllLost
  <2>10. x >= 1 - K
    <3>1. n \in 0..n
      OBVIOUS
    <3>2. b[n] >= 1 - K /\ g[n] <= K /\ g[n] \in Int
      BY <1>5, <1>6, <1>7, <3>1 DEF Above, Losses
    <3>3. CASE chain[Funder] > 1
      BY <1>4, <2>3, <2>6, <2>9, <3>2, <3>3
    <3>4. CASE ~(chain[Funder] > 1)
      BY <1>4, <1>10, <2>3, <2>6, <3>2, <3>4
    <3> QED BY <3>3, <3>4
  <2>12. Above(d, q, 1 - K)
    <3>1. ASSUME NEW i \in 0..Len(q) PROVE d[i] >= 1 - K
      <4>1. f[i] \in Int /\ f[i] >= 0 /\ d[i] = f[i] + x
        BY <2>5, <2>7 DEF Path
      <4> QED BY <2>10, <4>1
    <3> QED BY <3>1 DEF Above
  <2>13. Above(d, q, 1 - L)
    <3>1. Len(q) \in Nat /\ d \in [0..Len(q) -> Int]
      BY <2>4, <2>7 DEF Path
    <3> QED BY <1>9, <2>8, <2>12, <3>1
  <2> QED BY <1>13, <2>7, <2>8, <2>13
<1>18. CASE Drops
  <2>1. pool' = pool /\ chain'[Funder] = chain[Funder] /\ L \in {K, K + TARGET} /\ plan # <<>>
        /\ due' = Tail(plan) /\ pc \in {"act", "wait"}
    BY <1>3, <1>18 DEF Drops, still, due
  <2>2. CASE pc = "wait"
    BY <1>14, <2>1, <2>2 DEF due
  <2>3. CASE pc = "act"
    <3>1. PICK a \in Nat : a = plan[1].amount /\ c[1] = b[n] - a /\ c[1] \in Int
      BY <1>15, <2>1, <2>3
    <3>2. PICK d : Path(d, c[1], Tail(plan)) /\ Above(d, Tail(plan), 1 - K)
      BY <1>15, <2>1, <2>3
    <3>3. PICK q \in Seq(Entry) : q = Tail(plan)
      BY <1>4, <2>1, TailIs
    <3>5. b[n] = c[1] + a
      BY <1>10, <3>1
    <3>4. PICK z : Path(z, b[n], q) /\ \A i \in 0..Len(q) : z[i] = d[i] + a
      <4>1. Path(d, c[1], q)
        BY <3>2, <3>3
      <4> QED BY <3>5, <4>1, PathShift
    <3>6. Above(z, q, 1 - K)
      <4>1. ASSUME NEW i \in 0..Len(q) PROVE z[i] >= 1 - K
        <5>1. d[i] \in Int /\ d[i] >= 1 - K /\ z[i] = d[i] + a
          BY <3>2, <3>3, <3>4 DEF Path, Above
        <5> QED BY <5>1
      <4> QED BY <4>1 DEF Above
    <3>7. Above(z, q, 1 - L)
      <4>1. Len(q) \in Nat /\ z \in [0..Len(q) -> Int]
        BY <3>3, <3>4 DEF Path
      <4> QED BY <1>9, <2>1, <3>6, <4>1
    <3> QED BY <1>13, <2>1, <3>3, <3>4, <3>7
  <2> QED BY <2>1, <2>2, <2>3
<1>19. ASSUME NEW known \in BOOLEAN, Sends(known), due' = Tail(plan), L \in {K, K + TARGET},
              ~known => L = K + TARGET
       PROVE  FunderKept'
  <2>1. plan # <<>> /\ pc = "act" /\ chain' = chain
    BY <1>19 DEF Sends
  <2>2. PICK e \in Tx : /\ Len(pool') = n + 1 /\ DOMAIN pool' = 1..(n + 1) /\ pool'[n + 1] = e
                        /\ \A i \in 1..n : pool'[i] = pool[i]
                        /\ e.amount = plan[1].amount /\ e.known = known
                        /\ e.amount \in Nat /\ e.amount <= TARGET
    BY <1>5, <1>19, SendIs
  <2>3. PICK d : Path(d, c[1], Tail(plan)) /\ Above(d, Tail(plan), 1 - K)
    BY <1>15, <2>1
  <2>4. PICK p : p = pool'
    OBVIOUS
  <2>5. p = Append(pool, e)
    <3>1. PICK e2 : e2 = [subject |-> plan[1].subject, amount |-> plan[1].amount, known |-> known]
      OBVIOUS
    <3>2. p = Append(pool, e2) /\ plan[1] \in Entry
      BY <1>4, <1>19, <2>1, <2>4, <3>1 DEF Sends
    <3>3. e2 \in Tx
      BY <3>1, <3>2 DEF Entry, Tx
    <3>4. p[n + 1] = e2
      BY <1>4, <1>5, <3>2, <3>3, AppendIs
    <3> QED BY <2>2, <2>4, <3>2, <3>4
  <2>6. PICK b2 : /\ Path(b2, chain[Funder], p) /\ \A i \in 0..n : b2[i] = b[i]
                  /\ b2[n + 1] = b[n] - e.amount
    BY <1>4, <1>5, <1>6, <2>2, <2>5, PathAppend
  <2>7. b2[n + 1] = c[1]
    BY <1>15, <2>1, <2>2, <2>6
  <2>8. Above(b2, p, 1 - L)
    <3>1. ASSUME NEW i \in 0..(n + 1) PROVE b2[i] >= 1 - K
      <4>1. CASE i = n + 1
        BY <1>15, <2>1, <2>7, <4>1
      <4>2. CASE i # n + 1
        <5>1. i \in 0..n
          BY <4>2
        <5> QED BY <1>5, <1>6, <2>6, <5>1 DEF Above
      <4> QED BY <4>1, <4>2
    <3>2. Len(p) = n + 1 /\ b2 \in [0..Len(p) -> Int]
      BY <2>2, <2>4, <2>6 DEF Path
    <3>3. Above(b2, p, 1 - K)
      BY <3>1, <3>2 DEF Above
    <3> QED BY <1>9, <1>19, <3>2, <3>3
  <2>9. Above(d, Tail(plan), 1 - L)
    <3>1. Len(Tail(plan)) \in Nat /\ d \in [0..Len(Tail(plan)) -> Int]
      BY <1>4, <2>1, <2>3, TailIs DEF Path
    <3> QED BY <1>9, <1>19, <2>3, <3>1
  <2>10. PICK g2 : Losses(g2, p) /\ \A i \in 0..(n + 1) : g2[i] <= L
    <3>1. L >= K /\ (~e.known => L >= K + e.amount)
      BY <1>4, <1>19, <2>2
    <3>2. PICK k \in Int : k = K
      OBVIOUS
    <3>3. Losses(g, pool) /\ \A i \in 0..Len(pool) : g[i] <= k
      BY <1>5, <1>7, <3>2
    <3>4. L >= k /\ (~e.known => L >= k + e.amount)
      BY <3>1, <3>2
    <3>5. \E h : Losses(h, Append(pool, e)) /\ \A i \in 0..(Len(pool) + 1) : h[i] <= L
      BY <1>4, <3>3, <3>4, LossesAppend
    <3> QED BY <1>5, <2>5, <3>5
  <2> QED BY <1>8, <1>19, <2>1, <2>2, <2>3, <2>4, <2>6, <2>7, <2>8, <2>9, <2>10
<1>20. CASE Answered
  <2>1. due' = Tail(plan) /\ L = K
    BY <1>3, <1>20 DEF Answered, due
  <2> QED BY <1>19, <1>20, <2>1 DEF Answered
<1>21. CASE Loses
  <2>1. due' = Tail(plan) /\ L = K + TARGET
    BY <1>3, <1>21 DEF Loses, due
  <2> QED BY <1>19, <1>21, <2>1 DEF Loses
<1>22. CASE Books
  BY <1>3, <1>14, <1>22 DEF Books, due
<1>23. CASE Mines
  <2>1. pool # <<>> /\ pool' = Tail(pool) /\ L = K /\ due' = due
    BY <1>3, <1>23 DEF Mines, due
  <2>2. PICK p \in Seq(Tx) : p = Tail(pool) /\ Len(p) = n - 1 /\ n # 0
    BY <1>4, <1>5, <2>1, TailIs
  <2>3. PICK b2 : Path(b2, b[1], p) /\ Above(b2, p, 1 - K) /\ b2[Len(p)] = b[n]
    BY <1>4, <1>5, <1>6, <2>1, <2>2, PathTail
  <2>4. b[1] = chain'[Funder]
    <3>1. 1 \in 1..n /\ 1 - 1 = 0 /\ 1 \in DOMAIN pool
      BY <1>5, <2>2
    <3>2. b[1] = chain[Funder] - pool[1].amount
      BY <1>5, <1>6, <1>10, <3>1 DEF Path
    <3>3. PICK s \in Subjects, a \in Nat : s = pool[1].subject /\ a = pool[1].amount
      <4>1. pool[1] \in Tx
        BY <1>4, <3>1
      <4> QED BY <3>1, <4>1 DEF RefillTyped, Tx
    <3>4. chain' = [chain EXCEPT ![s] = @ + a, ![Funder] = @ - a]
      BY <1>23, <3>3 DEF Mines, effect
    <3>5. chain'[Funder] = chain[Funder] - a
      BY <3>4, Configured DEF RefillTyped
    <3> QED BY <3>2, <3>3, <3>5
  <2>5. PICK g2 : Losses(g2, p) /\ \A i \in 0..Len(p) : g2[i] <= K
    BY <1>4, <1>5, <1>7, <2>1, <2>2, LossesTail
  <2> QED BY <1>6, <1>8, <2>1, <2>2, <2>3, <2>4, <2>5
<1>24. CASE Moves
  <2>1. chain'[Funder] = chain[Funder]
    <3>1. CASE chain' = chain
      BY <3>1
    <3>2. ASSUME NEW s \in Subjects, NEW k \in Nat, chain' = [chain EXCEPT ![s] = k]
          PROVE  chain'[Funder] = chain[Funder]
      BY <3>2, Configured DEF RefillTyped
    <3> QED BY <1>24, <3>1, <3>2 DEF Moves
  <2>2. pool' = pool /\ due' = due /\ L \in {K, K + TARGET}
    BY <1>3, <1>24 DEF Moves, due
  <2> QED BY <1>14, <2>1, <2>2
<1> QED
  BY <1>16, <1>17, <1>18, <1>20, <1>21, <1>22, <1>23, <1>24, RefillShapes

-----------------------------------------------------------------------------
(* The invariant, and what follows from it.                                *)

\* It holds at the start.
LEMMA Starts == Init => KeepersInv
<1> SUFFICES ASSUME Init PROVE KeepersInv
  OBVIOUS
<1>1. /\ kind \in {"funding", "refill", "tier", "liquidation"} /\ pc = "recover"
      /\ plan = <<>> /\ pool = <<>> /\ indexed = {} /\ faults = 0
  BY KeepersAssumption DEF Init
<1>2. DOMAIN <<>> = {} /\ Len(<<>>) = 0 /\ <<>> \in Seq(Tx) /\ <<>> \in Seq(Entry) /\ due = <<>>
  BY <1>1 DEF due
<1>3. Typed
  BY <1>1, <1>2 DEF Typed
<1>4. OneEach
  BY <1>1, <1>2 DEF OneEach, Separate, OneOpenPerSubject
<1>5. ASSUME kind = "refill" PROVE RefillSafe
  <2>1. All = Subjects \cup {Funder}
    BY <1>5 DEF All
  <2>2. /\ chain = [s \in All |-> IF s = Funder THEN FLOAT ELSE TARGET]
        /\ booked = [s \in All |-> 0] /\ sent = booked
    <3>1. \A s \in All : (CASE s = Funder -> FLOAT
                            [] kind = "refill" /\ s # Funder -> TARGET
                            [] kind = "funding" -> NEVER
                            [] OTHER -> 0) = IF s = Funder THEN FLOAT ELSE TARGET
      BY <1>5
    <3> QED BY <3>1 DEF Init
  <2>3. RefillTyped
    BY <1>1, <1>2, <2>1, <2>2, Configured DEF RefillTyped
  <2>4. faults * TARGET = 0
    BY <1>1, Configured
  <2>5. DayKept
    BY <1>1, <1>2, <2>1, <2>2, <2>4, Configured DEF DayKept, unbooked
  <2>6. PICK start \in Int : start = chain[Funder] /\ start >= 1
    BY <2>1, <2>2, Configured
  <2> DEFINE b == [i \in 0..0 |-> start]
             g == [i \in 0..0 |-> 0]
  <2>7. b \in [0..0 -> Int] /\ b[0] = start /\ g \in [0..0 -> Int] /\ g[0] = 0
    OBVIOUS
  <2> HIDE DEF b, g
  <2>8. Path(b, chain[Funder], <<>>) /\ Path(b, b[0], <<>>) /\ Losses(g, <<>>)
    BY <1>2, <2>6, <2>7 DEF Path, Losses
  <2>9. Above(b, <<>>, 1 - 0) /\ \A i \in 0..0 : g[i] <= 0
    BY <1>2, <2>6, <2>7 DEF Above
  <2>10. FunderKept
    BY <1>1, <1>2, <2>4, <2>8, <2>9 DEF FunderKept
  <2> QED BY <2>3, <2>5, <2>10 DEF RefillSafe
<1> QED BY <1>3, <1>4, <1>5 DEF KeepersInv

\* Every step keeps it.
LEMMA Keeps == KeepersInv /\ [Next]_vars => KeepersInv'
<1> SUFFICES ASSUME KeepersInv, [Next]_vars PROVE KeepersInv'
  OBVIOUS
<1>1. Typed /\ OneEach /\ Separate(plan) /\ (kind = "refill" => RefillTyped)
  BY DEF KeepersInv, OneEach, RefillSafe
<1>2. Typed' /\ OneEach' /\ kind' = kind
  BY <1>1, TypedStep, OneEachStep, Shapes
<1>3. ASSUME kind = "refill" PROVE RefillSafe'
  <2>1. RefillTyped /\ DayKept /\ FunderKept
    BY <1>3 DEF KeepersInv, RefillSafe
  <2> QED BY <1>1, <1>3, <2>1, RefillTypedStep, DayKeptStep, FunderKeptStep DEF RefillSafe
<1> QED BY <1>2, <1>3 DEF KeepersInv

\* Keepers: the inductive invariant, for every number of subjects, every policy and every
\* bound on the faults.
THEOREM KeepersInvariant == Spec => []KeepersInv
BY Starts, Keeps, PTL DEF Spec

\* stillInFlight, recoverOpenJobs: a key never has two open transactions for one subject.
THEOREM NeverTwoOpen == Spec => []OneOpenPerSubject
<1>1. KeepersInv => OneOpenPerSubject
  BY DEF KeepersInv, OneEach
<1> QED BY <1>1, KeepersInvariant, PTL

\* planRefills: a target's day is kept but for one top-up for each fault, and so is the
\* funder's last unit of gas.
THEOREM AllowanceIsKept == Spec => []DailyCapHolds
<1>1. KeepersInv => DailyCapHolds
  <2> SUFFICES ASSUME KeepersInv, kind = "refill" PROVE DailyCapHolds
    BY DEF DailyCapHolds
  <2>1. RefillTyped /\ DayKept /\ FunderKept /\ Typed
    BY DEF KeepersInv, RefillSafe
  <2>2. PICK K \in Nat : K = faults * TARGET
    BY <2>1, FaultAllows
  <2>3. ASSUME NEW s \in Subjects PROVE sent[s] <= MAX_PER_DAY + K
    <3>1. /\ booked[s] \in Nat /\ sent[s] \in Nat /\ MAX_PER_DAY \in Nat /\ booked[s] <= MAX_PER_DAY
          /\ sent[s] <= booked[s] + unbooked(s) + K
      BY <2>1, <2>2, Configured DEF RefillTyped, DayKept
    <3>2. CASE pc = "book" /\ plan[1].subject = s
      <4>1. plan \in Seq(Entry) /\ plan # <<>>
        BY <2>1, <3>2 DEF Typed
      <4>2. 1 \in DOMAIN plan /\ plan[1] \in Entry
        BY <4>1
      <4>3. booked[s] + plan[1].amount <= MAX_PER_DAY /\ plan[1].amount \in Nat
        BY <2>1, <3>2, <4>2 DEF DayKept, Entry
      <4> QED BY <3>1, <3>2, <4>3 DEF unbooked
    <3>3. CASE ~(pc = "book" /\ plan[1].subject = s)
      BY <3>1, <3>3 DEF unbooked
    <3> QED BY <3>2, <3>3
  <2>4. chain[Funder] >= policy.usdc - K
    <3>1. PICK b : Path(b, chain[Funder], pool) /\ Above(b, pool, 1 - K)
      BY <2>1, <2>2 DEF FunderKept
    <3>2. 0 \in 0..Len(pool)
      BY <2>1 DEF Typed
    <3> QED BY <3>1, <3>2, Configured DEF Path, Above
  <2> QED BY <2>2, <2>3, <2>4 DEF DailyCapHolds
<1> QED BY <1>1, KeepersInvariant, PTL
=============================================================================
