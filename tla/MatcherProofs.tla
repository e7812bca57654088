---------------------------- MODULE MatcherProofs ----------------------------
(***************************************************************************)
(* Proofs about settlement off chain: no size is matched twice while every *)
(* reservation is kept until its outcome is known, the order table never   *)
(* claims more than the gateway filled, and no innocent order is retired.  *)
(***************************************************************************)
EXTENDS Matcher, Sums

-----------------------------------------------------------------------------
(* The inductive invariant.                                                *)

\* What the gateway and the owners' cancels write in the log.
FillEvent == [kind : {"FillSettled", "FillRejected"}, of : FillId]
CancelEvent == [kind : {"OrderCancelled", "NoncesCancelledUpTo"}, of : Orders]

\* The fills the gateway has settled, and those it has rejected, at some time.
settledBy(events) == {events[i].of : i \in {k \in DOMAIN events : events[k].kind = "FillSettled"}}
rejectedBy(events) == {events[i].of : i \in {k \in DOMAIN events : events[k].kind = "FillRejected"}}
settledOnChain == settledBy(log)
rejectedOnChain == rejectedBy(log)
decided == settledOnChain \cup rejectedOnChain

settledRows == {f \in DOMAIN fills : fills[f].status = "SETTLED"}

liveJobs == {j \in DOMAIN jobs : live(j)}
flying == UNION {ToSet(jobs[j].batch) : j \in liveJobs}

\* What the fills of a set come to for an order.
about(S, o) == {f \in S : o \in sides(f)}
volume(S, o) == sizeOf(about(S, o))

\* What the matcher has matched and not yet reserved.
waiting(queue) == UNION {ToSet(queue[i]) : i \in DOMAIN queue}

NoRepeats(batch) == \A i, k \in DOMAIN batch : batch[i] = batch[k] => i = k
Separate(queue) ==
  /\ \A i \in DOMAIN queue : NoRepeats(queue[i])
  /\ \A i, k \in DOMAIN queue : i # k => ToSet(queue[i]) \cap ToSet(queue[k]) = {}

\* The types TypeOK leaves out.
Typed ==
  /\ TypeOK
  /\ IsFiniteSet(DOMAIN fills)
  /\ log \in Seq(FillEvent \cup CancelEvent)
  /\ Len(jobs) <= MaxJobs /\ matcher.todo \subseteq DOMAIN jobs
  /\ matcher.pc \in {"link", "wait", "apply", "reverted"} => matcher.job \in DOMAIN jobs
  /\ matcher.pc = "recover" => matcher.recovering

\* The order table follows the fill table; a settled row settled on chain; a job's
\* rejections, and those being applied, happened.
Recorded ==
  /\ settledRows \subseteq settledOnChain
  /\ \A o \in Orders :
       /\ volume(settledOnChain, o) <= filled[o]
       /\ orders[o].filledSize = Min({OrderSize[o], settledIn(fills, o)})
  /\ \A j \in DOMAIN jobs : \A r \in ToSet(jobs[j].rejected) : r.fill \in rejectedOnChain
  /\ \A r \in ToSet(matcher.rejected) : r.fill \in rejectedOnChain

\* An order the gateway does not fill, or once did not, through no fault of the other side.
faulty(o) == dead[o] # "none" \/ signature[o] # "good"

\* Orders that were cancelled on chain are dead, and those retired faulty or withdrawn.
Retired ==
  /\ \A i \in 1..Len(log) : log[i].kind \in {"OrderCancelled", "NoncesCancelledUpTo"} =>
                              dead[log[i].of] # "none"
  /\ OnlyFaultyRetired

\* A fill in flight is in one batch, once, its outcome open and its size reserved.
Flying ==
  /\ \A j \in liveJobs : NoRepeats(jobs[j].batch)
  /\ \A j, k \in liveJobs : j # k => ToSet(jobs[j].batch) \cap ToSet(jobs[k].batch) = {}
  /\ flying \subseteq reserving /\ flying \cap decided = {}

\* A fill is decided once, its row stays, and the indexer ends its being pending.
Decided ==
  /\ settledOnChain \cap rejectedOnChain = {}
  /\ decided \subseteq DOMAIN fills
  /\ settledOnChain \subseteq reserving \cup settledRows
  /\ \A i \in 1..cursor : log[i].kind \in {"FillSettled", "FillRejected"} => ~pending(log[i].of)
  /\ \A o \in Orders : filled[o] = volume(settledOnChain, o)

\* A fill has an outcome, or may get one, that the indexer does not know.
unsettled(f) ==
  \/ f \in flying
  \/ \E i \in (cursor + 1)..Len(log) :
       log[i].kind \in {"FillSettled", "FillRejected"} /\ log[i].of = f

\* The batch in the matcher's hands is nobody else's, and is not decided.
InHand ==
  /\ matcher.pc \in {"submit", "undo"} =>
       ToSet(matcher.batch) \cap (decided \cup flying) = {}
  /\ matcher.pc = "submit" =>
       NoRepeats(matcher.batch) /\ ToSet(matcher.batch) \subseteq reserving
  /\ /\ matcher.pc \in {"link", "wait", "reverted"} /\ ~matcher.recovering
     /\ jobs[matcher.job].tx # "success"
     => /\ ToSet(matcher.batch) \cap decided = {} /\ ToSet(matcher.batch) \subseteq reserving
        /\ \A k \in liveJobs \ {matcher.job} :
             ToSet(matcher.batch) \cap ToSet(jobs[k].batch) = {}
  /\ matcher.pc = "reverted" => jobs[matcher.job].tx = "reverted" /\ ~matcher.recovering
  /\ matcher.pc = "orphans" => \A f \in matcher.release : ~unsettled(f)
  /\ matcher.pc \in {"submit", "undo", "link", "wait", "apply", "reverted"} /\ ~matcher.recovering =>
       NoRepeats(matcher.batch) /\ ToSet(matcher.batch) \cap waiting(matcher.queue) = {}

\* What is settled, reserved and waiting of an order never exceeds its size.
Ledger ==
  /\ Separate(matcher.queue)
  /\ \A o \in Orders :
       volume(settledRows \cup reserving, o) + volume(waiting(matcher.queue), o)
         <= OrderSize[o]

Tracked == Flying /\ Decided /\ InHand /\ Ledger

MatcherInv == Typed /\ Recorded /\ Retired /\ (gaveUp \/ Tracked)

-----------------------------------------------------------------------------
(* Sizes of sets of fills.                                                 *)

\* g solves the recursion of sizeOf on the subsets of S.
IsSize(g, S) ==
  g = [s \in SUBSET S |-> IF s = {} THEN 0 ELSE first(s).size + g[s \ {first(s)}]]

\* The recursion, at the set it is asked for.
LEMMA SizeUnfolds ==
  ASSUME NEW S
  PROVE  sizeOf(S) = (CHOOSE g : IsSize(g, S))[S]
  BY Zenon DEF sizeOf, MapThenSumSet, MapThenFoldSet, IsSize, first

\* The size of a set of fills is the sum of their sizes.
LEMMA SizeIsSum ==
  ASSUME NEW S, IsFiniteSet(S)
  PROVE  sizeOf(S) = SumFunctionOnSet([f \in S |-> f.size], S)
<1> DEFINE sizes == [f \in S |-> f.size]
           g == CHOOSE g : IsSize(g, S)
           h == CHOOSE h : IsSum(h, sizes, S)
<1>1. \A s \in SUBSET S : s # {} => sizes[first(s)] = first(s).size
  BY FirstIn
<1>2. IsSum(h, sizes, S)
  BY SumExists
<1>3. IsSize(h, S)
  <2> HIDE DEF h, sizes
  <2> QED BY <1>1, <1>2 DEF IsSum, IsSize
<1>4. IsSize(g, S)
  <2> HIDE DEF h
  <2> QED BY <1>3
<1>5. IsSum(g, sizes, S)
  <2> HIDE DEF g, sizes
  <2> QED BY <1>1, <1>4 DEF IsSum, IsSize
<1>6. g[S] = h[S]
  <2> HIDE DEF g, h, sizes
  <2> QED BY <1>2, <1>5, SumUnique
<1> QED BY <1>6, SizeUnfolds, SumUnfolds

\* It is a number, adds up over disjoint sets,
LEMMA SizeNat ==
  ASSUME NEW S \in SUBSET FillId, IsFiniteSet(S)
  PROVE  sizeOf(S) \in Nat
<1>1. \A f \in S : [x \in S |-> x.size][f] \in Nat
  BY DEF FillId
<1> QED BY <1>1, SizeIsSum, SumNat

\* One more fill.
LEMMA SizeAdd ==
  ASSUME NEW S \in SUBSET FillId, IsFiniteSet(S), NEW f \in FillId, f \notin S
  PROVE  sizeOf(S \cup {f}) = sizeOf(S) + f.size
<1> DEFINE T == S \cup {f}
           sizes == [x \in T |-> x.size]
<1>1. IsFiniteSet(T) /\ T \ {f} = S
  BY FS_AddElement
<1>2. \A x \in T : sizes[x] \in Int
  BY DEF FillId
<1>3. SumFunctionOnSet(sizes, T) = f.size + SumFunctionOnSet(sizes, S)
  <2>1. f \in T /\ sizes[f] = f.size
    OBVIOUS
  <2> HIDE DEF sizes
  <2> QED BY <1>1, <1>2, <2>1, SumRemove
<1>4. SumFunctionOnSet(sizes, S) = sizeOf(S)
  <2>1. \A x \in S : sizes[x] = [y \in S |-> y.size][x]
    OBVIOUS
  <2> HIDE DEF sizes
  <2> QED BY <2>1, SumAgree, SizeIsSum
<1>5. sizeOf(T) = SumFunctionOnSet(sizes, T)
  BY <1>1, SizeIsSum
<1>6. sizeOf(S) \in Nat /\ f.size \in Nat
  BY SizeNat DEF FillId
<1> QED BY <1>3, <1>4, <1>5, <1>6

\* No fills, no size.
LEMMA SizeEmpty == sizeOf({}) = 0
  BY SizeIsSum, SumEmpty, FS_EmptySet

\* Disjoint sets.
LEMMA SizeUnion ==
  ASSUME NEW S \in SUBSET FillId, IsFiniteSet(S), NEW T \in SUBSET FillId, IsFiniteSet(T),
         S \cap T = {}
  PROVE  sizeOf(S \cup T) = sizeOf(S) + sizeOf(T)
<1> DEFINE Good == {U \in SUBSET T : sizeOf(S \cup U) = sizeOf(S) + sizeOf(U)}
<1>1. {} \in Good
  <2>1. S \cup {} = S
    OBVIOUS
  <2>2. sizeOf(S) \in Nat
    BY SizeNat
  <2> QED BY <2>1, <2>2, SizeEmpty
<1>2. ASSUME NEW U \in SUBSET T, U # {}, \A x \in U : U \ {x} \in Good
      PROVE  U \in Good
  <2>1. PICK f \in U : U \ {f} \in Good
    BY <1>2
  <2>2. PICK V : V = U \ {f}
    OBVIOUS
  <2>3. V \in SUBSET FillId /\ f \in FillId /\ f \notin V /\ U = V \cup {f} /\ f \notin S \cup V
        /\ S \cup U = (S \cup V) \cup {f} /\ S \cup V \in SUBSET FillId
    BY <2>2
  <2>4. IsFiniteSet(V) /\ IsFiniteSet(S \cup V)
    BY <2>2, FS_Subset, FS_Union
  <2>5. sizeOf(U) = sizeOf(V) + f.size
    BY <2>3, <2>4, SizeAdd
  <2>6. sizeOf(S \cup U) = sizeOf(S \cup V) + f.size
    BY <2>3, <2>4, SizeAdd
  <2>7. sizeOf(S \cup V) = sizeOf(S) + sizeOf(V)
    BY <2>1, <2>2
  <2>8. sizeOf(S) \in Nat /\ sizeOf(V) \in Nat /\ f.size \in Nat
    BY <2>3, <2>4, SizeNat DEF FillId
  <2>9. sizeOf(S \cup U) = sizeOf(S) + sizeOf(U)
    BY <2>5, <2>6, <2>7, <2>8
  <2> QED BY <2>9
<1>3. \A U \in SUBSET T : U \in Good
  <2> HIDE DEF Good
  <2> QED BY <1>1, <1>2, SubsetInduction
<1> QED BY <1>3

\* A subset is no larger.
LEMMA SizeMonotone ==
  ASSUME NEW T \in SUBSET FillId, IsFiniteSet(T), NEW S \in SUBSET T
  PROVE  sizeOf(S) <= sizeOf(T)
<1>1. IsFiniteSet(S) /\ IsFiniteSet(T \ S) /\ S \in SUBSET FillId /\ T \ S \in SUBSET FillId
      /\ S \cap (T \ S) = {} /\ S \cup (T \ S) = T
  BY FS_Subset
<1>2. sizeOf(T) = sizeOf(S) + sizeOf(T \ S)
  BY <1>1, SizeUnion
<1>3. sizeOf(S) \in Nat /\ sizeOf(T \ S) \in Nat
  BY <1>1, SizeNat
<1> QED BY <1>2, <1>3

\* What the fills of an order come to: a number,
LEMMA VolumeNat ==
  ASSUME NEW S \in SUBSET FillId, IsFiniteSet(S), NEW o
  PROVE  volume(S, o) \in Nat
<1>1. about(S, o) \in SUBSET FillId /\ IsFiniteSet(about(S, o))
  <2>1. about(S, o) \subseteq S
    BY DEF about
  <2> QED BY <2>1, FS_Subset
<1> QED BY <1>1, SizeNat DEF volume

\* which is nothing when none of them is about it,
LEMMA VolumeNone ==
  ASSUME NEW S, NEW o, \A f \in S : o \notin sides(f)
  PROVE  volume(S, o) = 0
<1>1. about(S, o) = {}
  BY DEF about
<1> QED BY <1>1, SizeEmpty DEF volume

\* adds up over disjoint sets
LEMMA VolumeUnion ==
  ASSUME NEW S \in SUBSET FillId, IsFiniteSet(S), NEW T \in SUBSET FillId, IsFiniteSet(T),
         S \cap T = {}, NEW o
  PROVE  volume(S \cup T, o) = volume(S, o) + volume(T, o)
<1>1. /\ about(S, o) \in SUBSET FillId /\ IsFiniteSet(about(S, o))
      /\ about(T, o) \in SUBSET FillId /\ IsFiniteSet(about(T, o))
  <2>1. about(S, o) \subseteq S /\ about(T, o) \subseteq T
    BY DEF about
  <2> QED BY <2>1, FS_Subset
<1>2. about(S, o) \cap about(T, o) = {} /\ about(S \cup T, o) = about(S, o) \cup about(T, o)
  BY DEF about
<1> QED BY <1>1, <1>2, SizeUnion DEF volume

\* and grows with the set;
LEMMA VolumeMonotone ==
  ASSUME NEW T \in SUBSET FillId, IsFiniteSet(T), NEW S \in SUBSET T, NEW o
  PROVE  volume(S, o) <= volume(T, o)
<1>1. about(T, o) \in SUBSET FillId /\ IsFiniteSet(about(T, o))
  <2>1. about(T, o) \subseteq T
    BY DEF about
  <2> QED BY <2>1, FS_Subset
<1>2. about(S, o) \in SUBSET about(T, o)
  BY DEF about
<1> QED BY <1>1, <1>2, SizeMonotone DEF volume

\* one fill adds its size to each of its sides.
LEMMA VolumeOne ==
  ASSUME NEW f \in FillId, NEW o
  PROVE  volume({f}, o) = IF o \in sides(f) THEN f.size ELSE 0
<1>1. CASE o \in sides(f)
  <2>1. about({f}, o) = {} \cup {f}
    BY <1>1 DEF about
  <2>2. sizeOf({} \cup {f}) = sizeOf({}) + f.size
    BY SizeAdd, FS_EmptySet
  <2>3. f.size \in Nat
    BY DEF FillId
  <2> QED BY <1>1, <2>1, <2>2, <2>3, SizeEmpty DEF volume
<1>2. CASE o \notin sides(f)
  BY <1>2, VolumeNone
<1> QED BY <1>1, <1>2

\* One more fill, seen before or not.
LEMMA VolumeAdd ==
  ASSUME NEW S \in SUBSET FillId, IsFiniteSet(S), NEW f \in FillId, NEW o
  PROVE  /\ volume(S \cup {f}, o) <= volume(S, o) + volume({f}, o)
         /\ f \notin S => volume(S \cup {f}, o) = volume(S, o) + volume({f}, o)
<1>1. IsFiniteSet({f}) /\ {f} \in SUBSET FillId
  BY FS_Singleton
<1>2. f \notin S => volume(S \cup {f}, o) = volume(S, o) + volume({f}, o)
  BY <1>1, VolumeUnion
<1>3. f \in S => volume(S \cup {f}, o) <= volume(S, o) + volume({f}, o)
  <2>1. ASSUME f \in S PROVE S \cup {f} = S
    BY <2>1
  <2>2. volume(S, o) \in Nat /\ volume({f}, o) \in Nat
    BY <1>1, VolumeNat
  <2> SUFFICES ASSUME f \in S PROVE volume(S \cup {f}, o) <= volume(S, o) + volume({f}, o)
    OBVIOUS
  <2>3. volume(S \cup {f}, o) = volume(S, o)
    BY <2>1
  <2> QED BY <2>2, <2>3
<1>4. volume(S, o) \in Nat /\ volume({f}, o) \in Nat
  BY <1>1, VolumeNat
<1> QED BY <1>2, <1>3, <1>4

-----------------------------------------------------------------------------
(* What a log says.                                                        *)

\* The fills of a log, and of a log with one more event or with others behind it.
LEMMA EventsTyped ==
  ASSUME NEW s \in Seq(FillEvent \cup CancelEvent)
  PROVE  /\ settledBy(s) \in SUBSET FillId /\ IsFiniteSet(settledBy(s))
         /\ rejectedBy(s) \in SUBSET FillId /\ IsFiniteSet(rejectedBy(s))
<1>1. \A i \in DOMAIN s : s[i] \in FillEvent \cup CancelEvent
  OBVIOUS
<1>2. settledBy(s) \in SUBSET FillId /\ rejectedBy(s) \in SUBSET FillId
  BY <1>1 DEF settledBy, rejectedBy, FillEvent, CancelEvent
<1>3. IsFiniteSet(DOMAIN s)
  <2>1. DOMAIN s = 1..Len(s) /\ Len(s) \in Nat
    OBVIOUS
  <2> QED BY <2>1, FS_Interval
<1>4. \A P \in SUBSET DOMAIN s : IsFiniteSet({s[i].of : i \in P})
  <2> TAKE P \in SUBSET DOMAIN s
  <2>1. IsFiniteSet(P)
    BY <1>3, FS_Subset
  <2> DEFINE T == {s[i].of : i \in P}
             g == [i \in P |-> s[i].of]
  <2>2. g \in Surjection(P, T)
    BY DEF Surjection
  <2> QED BY <2>1, <2>2, FS_Surjection
<1>5. /\ {k \in DOMAIN s : s[k].kind = "FillSettled"} \in SUBSET DOMAIN s
      /\ {k \in DOMAIN s : s[k].kind = "FillRejected"} \in SUBSET DOMAIN s
  OBVIOUS
<1> QED BY <1>2, <1>4, <1>5 DEF settledBy, rejectedBy

\* One more event adds its fill to one of the two sets,
LEMMA OneMoreEvent ==
  ASSUME NEW s \in Seq(FillEvent \cup CancelEvent), NEW e \in FillEvent \cup CancelEvent
  PROVE  /\ settledBy(Append(s, e)) = settledBy(s) \cup (IF e.kind = "FillSettled" THEN {e.of} ELSE {})
         /\ rejectedBy(Append(s, e)) = rejectedBy(s) \cup (IF e.kind = "FillRejected" THEN {e.of} ELSE {})
<1>1. PICK t : t = Append(s, e)
  OBVIOUS
<1>2. /\ DOMAIN t = DOMAIN s \cup {Len(s) + 1} /\ t[Len(s) + 1] = e
      /\ \A i \in DOMAIN s : t[i] = s[i]
  <2>1. DOMAIN t = 1..(Len(s) + 1) /\ DOMAIN s = 1..Len(s) /\ Len(s) \in Nat
    BY <1>1
  <2> QED BY <1>1, <2>1
<1> QED BY <1>1, <1>2 DEF settledBy, rejectedBy

\* and a log put behind another adds its own.
LEMMA MoreEvents ==
  ASSUME NEW s \in Seq(FillEvent \cup CancelEvent), NEW t \in Seq(FillEvent \cup CancelEvent)
  PROVE  /\ settledBy(s \o t) = settledBy(s) \cup settledBy(t)
         /\ rejectedBy(s \o t) = rejectedBy(s) \cup rejectedBy(t)
<1>1. PICK u : u = s \o t
  OBVIOUS
<1>2. /\ DOMAIN s = 1..Len(s) /\ DOMAIN t = 1..Len(t) /\ DOMAIN u = 1..(Len(s) + Len(t))
      /\ Len(s) \in Nat /\ Len(t) \in Nat
      /\ \A i \in DOMAIN u : u[i] = IF i <= Len(s) THEN s[i] ELSE t[i - Len(s)]
  BY <1>1
<1>3. ASSUME NEW i \in DOMAIN s PROVE i \in DOMAIN u /\ u[i] = s[i]
  BY <1>2
<1>4. ASSUME NEW i \in DOMAIN t
      PROVE  i + Len(s) \in DOMAIN u /\ u[i + Len(s)] = t[i]
  <2>1. i + Len(s) \in DOMAIN u /\ ~(i + Len(s) <= Len(s)) /\ (i + Len(s)) - Len(s) = i
    BY <1>2
  <2> QED BY <1>2, <2>1
<1>5. ASSUME NEW i \in DOMAIN u
      PROVE  \/ i \in DOMAIN s /\ u[i] = s[i]
             \/ i - Len(s) \in DOMAIN t /\ u[i] = t[i - Len(s)]
  BY <1>2
<1>6. /\ \A i \in DOMAIN s : \E k \in DOMAIN u : u[k] = s[i]
      /\ \A i \in DOMAIN t : \E k \in DOMAIN u : u[k] = t[i]
      /\ \A k \in DOMAIN u : (\E i \in DOMAIN s : u[k] = s[i]) \/ (\E i \in DOMAIN t : u[k] = t[i])
  BY <1>3, <1>4, <1>5
<1>7. ASSUME NEW kind
      PROVE  {u[i].of : i \in {k \in DOMAIN u : u[k].kind = kind}}
             = {s[i].of : i \in {k \in DOMAIN s : s[k].kind = kind}}
               \cup {t[i].of : i \in {k \in DOMAIN t : t[k].kind = kind}}
  BY <1>6
<1>8. settledBy(u) = settledBy(s) \cup settledBy(t)
  <2> DEFINE of(x) == {x[i].of : i \in {k \in DOMAIN x : x[k].kind = "FillSettled"}}
  <2>1. of(u) = of(s) \cup of(t)
    BY <1>7
  <2> QED BY <2>1 DEF settledBy
<1>9. rejectedBy(u) = rejectedBy(s) \cup rejectedBy(t)
  <2> DEFINE of(x) == {x[i].of : i \in {k \in DOMAIN x : x[k].kind = "FillRejected"}}
  <2>1. of(u) = of(s) \cup of(t)
    BY <1>7
  <2> QED BY <2>1 DEF rejectedBy
<1> QED BY <1>1, <1>8, <1>9

-----------------------------------------------------------------------------
(* What a mined batch does.                                                *)

\* Execution as the function it folds with: what the first fills of a batch did.
Results == [filled : [Orders -> Nat], events : Seq(FillEvent), rejected : Seq(Rejection)]
nothing == [filled |-> filled, events |-> <<>>, rejected |-> <<>>]

IsRun(g, batch, refused) ==
  g = [s \in SUBSET DOMAIN batch |->
         IF s = {} THEN nothing ELSE settleOne(g[s \ {Max(s)}], batch[Max(s)], refused)]

\* The recursion, at the whole batch.
LEMMA RunUnfolds ==
  ASSUME NEW batch, NEW refused
  PROVE  executed(batch, refused) = (CHOOSE g : IsRun(g, batch, refused))[DOMAIN batch]
  BY Zenon DEF executed, FoldLeft, MapThenFoldSet, IsRun, nothing

\* The last of some places of a batch.
LEMMA LastPlace ==
  ASSUME NEW batch \in Seq(FillId), NEW s \in SUBSET DOMAIN batch, s # {}
  PROVE  Max(s) \in s
<1>1. s \in SUBSET Nat /\ Len(batch) \in Nat /\ \A k \in s : k <= Len(batch)
  OBVIOUS
<1> QED BY <1>1, Greatest

\* The recursion as far as n places.
RunUpto(g, batch, refused, n) ==
  \A s \in Upto(DOMAIN batch, n) :
    g[s] = IF s = {} THEN nothing ELSE settleOne(g[s \ {Max(s)}], batch[Max(s)], refused)

\* One fill more: a run as far as n fills goes on to n + 1.
LEMMA RunUptoExtends ==
  ASSUME NEW batch \in Seq(FillId), IsFiniteSet(DOMAIN batch), NEW refused, NEW n \in Nat,
         NEW g, RunUpto(g, batch, refused, n)
  PROVE  \E h : RunUpto(h, batch, refused, n + 1)
<1> DEFINE S == DOMAIN batch
           step(s) == IF s = {} THEN nothing ELSE settleOne(g[s \ {Max(s)}], batch[Max(s)], refused)
           h == [s \in Upto(S, n + 1) |-> step(s)]
<1>1. ASSUME NEW s \in Upto(S, n + 1), s # {}
      PROVE  s \ {Max(s)} \in Upto(S, n) /\ s \ {Max(s)} \in Upto(S, n + 1)
  <2>1. s \in SUBSET S /\ Cardinality(s) <= n + 1
    BY DEF Upto
  <2>2. Max(s) \in s
    BY <1>1, <2>1, LastPlace
  <2>3. IsFiniteSet(s) /\ Cardinality(s) \in Nat
    BY <2>1, FS_Subset, FS_CardinalityType
  <2>4. Cardinality(s \ {Max(s)}) = Cardinality(s) - 1
    BY <2>2, <2>3, FS_RemoveElement
  <2> QED BY <2>1, <2>3, <2>4 DEF Upto
<1>2. ASSUME NEW s \in Upto(S, n + 1), s # {}
      PROVE  h[s \ {Max(s)}] = g[s \ {Max(s)}]
  <2>1. PICK t \in Upto(S, n) : t = s \ {Max(s)} /\ t \in Upto(S, n + 1)
    BY <1>1, <1>2
  <2>2. g[t] = step(t)
    BY <2>1 DEF RunUpto
  <2>3. h[t] = step(t)
    BY <2>1
  <2> QED BY <2>1, <2>2, <2>3
<1>3. ASSUME NEW s \in Upto(S, n + 1)
      PROVE  h[s] = IF s = {} THEN nothing ELSE settleOne(h[s \ {Max(s)}], batch[Max(s)], refused)
  <2>1. h[s] = step(s)
    OBVIOUS
  <2>2. CASE s = {}
    BY <2>1, <2>2
  <2>3. CASE s # {}
    <3>1. h[s \ {Max(s)}] = g[s \ {Max(s)}]
      BY <1>2, <2>3
    <3> HIDE DEF h
    <3> QED BY <2>1, <2>3, <3>1
  <2> QED BY <2>2, <2>3
<1>4. RunUpto(h, batch, refused, n + 1)
  <2> HIDE DEF h
  <2> QED BY <1>3 DEF RunUpto
<1> QED BY <1>4

\* So executing a batch is the recursion it is written as.
LEMMA RunExists ==
  ASSUME NEW batch \in Seq(FillId), NEW refused
  PROVE  \E g : IsRun(g, batch, refused)
<1> DEFINE S == DOMAIN batch
           Good == {T \in SUBSET S : \E h : RunUpto(h, batch, refused, Cardinality(T))}
<1>0. IsFiniteSet(S)
  <2>1. S = 1..Len(batch) /\ Len(batch) \in Nat
    OBVIOUS
  <2> QED BY <2>1, FS_Interval
<1>1. {} \in Good
  <2> DEFINE h == [s \in SUBSET S |-> nothing]
  <2>1. Cardinality({}) = 0
    BY FS_EmptySet
  <2>2. ASSUME NEW s \in Upto(S, 0) PROVE s = {}
    <3>1. s \in SUBSET S /\ Cardinality(s) <= 0
      BY DEF Upto
    <3>2. IsFiniteSet(s) /\ Cardinality(s) \in Nat
      BY <1>0, <3>1, FS_Subset, FS_CardinalityType
    <3> QED BY <3>1, <3>2, FS_EmptySet
  <2>3. RunUpto(h, batch, refused, 0)
    BY <2>2 DEF RunUpto
  <2> QED BY <2>1, <2>3
<1>2. ASSUME NEW T \in SUBSET S, T # {}, \A x \in T : T \ {x} \in Good
      PROVE  T \in Good
  <2>1. PICK x \in T : T \ {x} \in Good
    BY <1>2
  <2>2. IsFiniteSet(T) /\ IsFiniteSet(T \ {x}) /\ Cardinality(T \ {x}) \in Nat
        /\ Cardinality(T) \in Nat
    BY <1>0, FS_Subset, FS_RemoveElement, FS_CardinalityType
  <2>3. Cardinality(T) = Cardinality(T \ {x}) + 1
    BY <2>2, FS_RemoveElement
  <2>4. PICK g : RunUpto(g, batch, refused, Cardinality(T \ {x}))
    BY <2>1
  <2>5. \E h : RunUpto(h, batch, refused, Cardinality(T))
    BY <1>0, <2>2, <2>3, <2>4, RunUptoExtends
  <2> QED BY <2>5
<1>3. \A T \in SUBSET S : T \in Good
  <2> HIDE DEF Good
  <2> QED BY <1>0, <1>1, <1>2, SubsetInduction
<1>4. PICK h : RunUpto(h, batch, refused, Cardinality(S))
  BY <1>3
<1> DEFINE g == [s \in SUBSET S |-> h[s]]
<1>5. \A s \in SUBSET S : s \in Upto(S, Cardinality(S))
  BY <1>0, FS_Subset DEF Upto
<1>6. ASSUME NEW s \in SUBSET S
      PROVE  h[s] = IF s = {} THEN nothing ELSE settleOne(g[s \ {Max(s)}], batch[Max(s)], refused)
  <2>1. h[s] = IF s = {} THEN nothing ELSE settleOne(h[s \ {Max(s)}], batch[Max(s)], refused)
    BY <1>4, <1>5 DEF RunUpto
  <2>2. h[s \ {Max(s)}] = g[s \ {Max(s)}]
    OBVIOUS
  <2> HIDE DEF g
  <2> QED BY <2>1, <2>2
<1>7. IsRun(g, batch, refused)
  BY <1>6 DEF IsRun
<1> QED BY <1>7

\* r tells what became of the fills B, on a gateway that had settled the fills E: what
\* it filled covers the fills it settled, and is exactly those if they were all new.
Outcome(r, B, E, new) ==
  /\ r \in Results
  /\ settledBy(r.events) \cup rejectedBy(r.events) = B
  /\ \A x \in ToSet(r.rejected) : x.fill \in rejectedBy(r.events)
  /\ \A o \in Orders : volume(E \cup settledBy(r.events), o) <= r.filled[o]
  /\ new => /\ settledBy(r.events) \cap rejectedBy(r.events) = {}
            /\ \A o \in Orders : r.filled[o] = volume(E \cup settledBy(r.events), o)

\* One more fill.
LEMMA SettleOne ==
  ASSUME NEW E \in SUBSET FillId, IsFiniteSet(E), NEW B, NEW new \in BOOLEAN,
         NEW r, Outcome(r, B, E, new), NEW f \in FillId, NEW refused,
         new => f \notin B \cup E
  PROVE  Outcome(settleOne(r, f, refused), B \cup {f}, E, new)
<1> DEFINE err == errorOf(f, r.filled, refused)
           S == settledBy(r.events)
           J == rejectedBy(r.events)
<1>0. /\ r \in Results /\ S \cup J = B
      /\ \A x \in ToSet(r.rejected) : x.fill \in J
      /\ \A o \in Orders : volume(E \cup S, o) <= r.filled[o]
      /\ new => S \cap J = {} /\ \A o \in Orders : r.filled[o] = volume(E \cup S, o)
  BY DEF Outcome
<1>1. r.filled \in [Orders -> Nat] /\ r.events \in Seq(FillEvent) /\ r.rejected \in Seq(Rejection)
  BY <1>0 DEF Results
<1>2. r.events \in Seq(FillEvent \cup CancelEvent)
  BY <1>1
<1>3. S \in SUBSET FillId /\ IsFiniteSet(S)
  BY <1>2, EventsTyped
<1>4. f.size \in Nat
  BY DEF FillId
<1>5. CASE err = "none"
  <2> DEFINE e == [kind |-> "FillSettled", of |-> f]
  <2>1. PICK n : n = settleOne(r, f, refused)
    OBVIOUS
  <2>2. /\ n = [ filled   |-> [o \in Orders |-> IF o \in sides(f) THEN r.filled[o] + f.size
                                                ELSE r.filled[o]],
                 events   |-> Append(r.events, e), rejected |-> r.rejected ]
    BY <1>5, <2>1 DEF settleOne
  <2>3. /\ n.filled \in [Orders -> Nat] /\ n.events = Append(r.events, e)
        /\ n.rejected = r.rejected /\ n \in Results
    <3>1. e \in FillEvent
      BY DEF FillEvent
    <3>2. Append(r.events, e) \in Seq(FillEvent)
      BY <1>1, <3>1
    <3>3. [o \in Orders |-> IF o \in sides(f) THEN r.filled[o] + f.size ELSE r.filled[o]]
          \in [Orders -> Nat]
      BY <1>1, <1>4
    <3> QED BY <1>1, <2>2, <3>2, <3>3 DEF Results
  <2>4. settledBy(n.events) = S \cup {f} /\ rejectedBy(n.events) = J
    <3>1. e \in FillEvent /\ e.kind = "FillSettled" /\ e.of = f
      BY DEF FillEvent
    <3> HIDE DEF e
    <3> QED BY <1>2, <2>3, <3>1, OneMoreEvent
  <2>5. E \cup settledBy(n.events) = (E \cup S) \cup {f}
    BY <2>4
  <2>6. ASSUME NEW o \in Orders
        PROVE  /\ volume(E \cup settledBy(n.events), o) <= n.filled[o]
               /\ new => n.filled[o] = volume(E \cup settledBy(n.events), o)
    <3>1. E \cup S \in SUBSET FillId /\ IsFiniteSet(E \cup S)
      BY <1>3, FS_Union
    <3>2. /\ volume((E \cup S) \cup {f}, o) <= volume(E \cup S, o) + volume({f}, o)
          /\ f \notin E \cup S => volume((E \cup S) \cup {f}, o) = volume(E \cup S, o) + volume({f}, o)
      BY <3>1, VolumeAdd
    <3>3. volume({f}, o) = IF o \in sides(f) THEN f.size ELSE 0
      BY VolumeOne
    <3>4. n.filled[o] = r.filled[o] + volume({f}, o)
      BY <1>1, <2>2, <3>3
    <3>5. /\ volume(E \cup S, o) <= r.filled[o]
          /\ new => r.filled[o] = volume(E \cup S, o)
      BY <1>0
    <3>6. new => f \notin E \cup S
      BY <1>0
    <3>7. /\ volume(E \cup S, o) \in Nat /\ volume({f}, o) \in Nat /\ r.filled[o] \in Nat
          /\ volume((E \cup S) \cup {f}, o) \in Nat
      <4>1. IsFiniteSet((E \cup S) \cup {f}) /\ (E \cup S) \cup {f} \in SUBSET FillId
        BY <3>1, FS_AddElement
      <4>2. IsFiniteSet({f}) /\ {f} \in SUBSET FillId
        BY FS_Singleton
      <4> QED BY <1>1, <3>1, <4>1, <4>2, VolumeNat
    <3>8. volume((E \cup S) \cup {f}, o) <= n.filled[o]
      BY <3>2, <3>4, <3>5, <3>7
    <3>9. new => n.filled[o] = volume((E \cup S) \cup {f}, o)
      BY <3>2, <3>4, <3>5, <3>6, <3>7
    <3> QED BY <2>5, <3>8, <3>9
  <2>7. /\ settledBy(n.events) \cup rejectedBy(n.events) = B \cup {f}
        /\ \A x \in ToSet(n.rejected) : x.fill \in rejectedBy(n.events)
        /\ new => settledBy(n.events) \cap rejectedBy(n.events) = {}
    BY <1>0, <2>3, <2>4
  <2> QED BY <2>1, <2>3, <2>6, <2>7 DEF Outcome
<1>6. CASE err # "none"
  <2> DEFINE e == [kind |-> "FillRejected", of |-> f]
             x == [fill |-> f, errorName |-> err]
  <2>1. PICK n : n = settleOne(r, f, refused)
    OBVIOUS
  <2>2. n = [filled |-> r.filled, events |-> Append(r.events, e), rejected |-> Append(r.rejected, x)]
    BY <1>6, <2>1 DEF settleOne
  <2>3. err \in POISON \cup {"retryable"}
    BY <1>6 DEF errorOf, refusal, POISON
  <2>4. x \in Rejection /\ e \in FillEvent /\ e.kind = "FillRejected" /\ e.of = f /\ x.fill = f
    BY <2>3 DEF Rejection, FillEvent
  <2>5. /\ n.filled = r.filled /\ n.events = Append(r.events, e)
        /\ n.rejected = Append(r.rejected, x) /\ n \in Results
    <3>1. Append(r.events, e) \in Seq(FillEvent) /\ Append(r.rejected, x) \in Seq(Rejection)
      <4> HIDE DEF e, x
      <4> QED BY <1>1, <2>4
    <3> HIDE DEF e, x
    <3> QED BY <1>1, <2>2, <3>1 DEF Results
  <2>6. settledBy(n.events) = S /\ rejectedBy(n.events) = J \cup {f}
    <3> HIDE DEF e
    <3> QED BY <1>2, <2>4, <2>5, OneMoreEvent
  <2>7. \A y \in ToSet(n.rejected) : y.fill \in rejectedBy(n.events)
    <3>1. \A y \in ToSet(n.rejected) : y = x \/ y \in ToSet(r.rejected)
      <4> HIDE DEF x
      <4> QED BY <1>1, <2>4, <2>5 DEF ToSet
    <3> HIDE DEF x
    <3> QED BY <1>0, <2>4, <2>6, <3>1
  <2>8. /\ settledBy(n.events) \cup rejectedBy(n.events) = B \cup {f}
        /\ new => settledBy(n.events) \cap rejectedBy(n.events) = {}
    BY <1>0, <2>6
  <2>9. \A o \in Orders : /\ volume(E \cup settledBy(n.events), o) <= n.filled[o]
                          /\ new => n.filled[o] = volume(E \cup settledBy(n.events), o)
    BY <1>0, <2>5, <2>6
  <2> QED BY <2>1, <2>5, <2>7, <2>8, <2>9 DEF Outcome
<1> QED BY <1>5, <1>6

\* A whole batch, on the gateway as it is.
LEMMA Executed ==
  ASSUME NEW E \in SUBSET FillId, IsFiniteSet(E), NEW batch \in Seq(FillId), NEW refused,
         filled \in [Orders -> Nat], \A o \in Orders : volume(E, o) <= filled[o],
         NEW new \in BOOLEAN,
         new => /\ NoRepeats(batch) /\ ToSet(batch) \cap E = {}
                /\ \A o \in Orders : filled[o] = volume(E, o)
  PROVE  Outcome(executed(batch, refused), ToSet(batch), E, new)
<1> DEFINE D == DOMAIN batch
           g == CHOOSE g : IsRun(g, batch, refused)
           some(T) == {batch[i] : i \in T}
           Good == {T \in SUBSET D : Outcome(g[T], some(T), E, new)}
<1>1. \A s \in SUBSET D : g[s] = IF s = {} THEN nothing
                                 ELSE settleOne(g[s \ {Max(s)}], batch[Max(s)], refused)
  <2>1. IsRun(g, batch, refused)
    BY RunExists
  <2> HIDE DEF g
  <2> QED BY <2>1 DEF IsRun
<1>2. {} \in Good
  <2>1. some({}) = {} /\ g[{}] = nothing
    <3> HIDE DEF g
    <3> QED BY <1>1
  <2>2. nothing \in Results /\ nothing.filled = filled /\ nothing.events = <<>> /\ nothing.rejected = <<>>
    BY DEF nothing, Results
  <2>3. settledBy(<<>>) = {} /\ rejectedBy(<<>>) = {} /\ ToSet(<<>>) = {}
    BY DEF settledBy, rejectedBy, ToSet
  <2>4. E \cup {} = E
    OBVIOUS
  <2>5. Outcome(nothing, {}, E, new)
    <3> HIDE DEF g, some
    <3> QED BY <2>2, <2>3, <2>4 DEF Outcome
  <2> QED BY <2>1, <2>5
<1>3. ASSUME NEW T \in SUBSET D, T # {}, \A x \in T : T \ {x} \in Good
      PROVE  T \in Good
  <2>1. PICK m \in T : m = Max(T)
    BY <1>3, LastPlace
  <2>2. PICK U \in SUBSET D : U = T \ {m}
    OBVIOUS
  <2>3. Outcome(g[U], some(U), E, new)
    BY <1>3, <2>2
  <2>4. g[T] = settleOne(g[U], batch[m], refused)
    <3> HIDE DEF g
    <3> QED BY <1>1, <1>3, <2>1, <2>2
  <2>5. some(T) = some(U) \cup {batch[m]} /\ batch[m] \in FillId /\ some(U) \cup some(T) \subseteq ToSet(batch)
    BY <2>2 DEF ToSet
  <2>6. new => batch[m] \notin some(U) \cup E
    <3>1. batch[m] \in ToSet(batch)
      BY <2>5
    <3>2. NoRepeats(batch) => batch[m] \notin some(U)
      BY <2>2 DEF NoRepeats
    <3> QED BY <3>1, <3>2
  <2>7. Outcome(g[T], some(T), E, new)
    <3> HIDE DEF g, some
    <3> QED BY <2>3, <2>4, <2>5, <2>6, SettleOne
  <2> QED BY <2>7
<1>4. IsFiniteSet(D)
  <2>1. D = 1..Len(batch) /\ Len(batch) \in Nat
    OBVIOUS
  <2> QED BY <2>1, FS_Interval
<1>5. \A T \in SUBSET D : T \in Good
  <2>1. \A T \in SUBSET D : T # {} /\ (\A x \in T : T \ {x} \in Good) => T \in Good
    BY <1>3
  <2> HIDE DEF Good, D
  <2> QED BY <1>2, <2>1, <1>4, SubsetInduction
<1>6. some(D) = ToSet(batch)
  BY DEF ToSet
<1>7. executed(batch, refused) = g[D]
  BY RunUnfolds
<1> QED BY <1>5, <1>6, <1>7

-----------------------------------------------------------------------------
(* Types.                                                                  *)

\* A batch is a finite set of fills.
LEMMA BatchFinite ==
  ASSUME NEW S, NEW batch \in Seq(S)
  PROVE  ToSet(batch) \in SUBSET S /\ IsFiniteSet(ToSet(batch))
<1>1. DOMAIN batch = 1..Len(batch) /\ Len(batch) \in Nat
  OBVIOUS
<1>2. batch \in Surjection(DOMAIN batch, ToSet(batch))
  BY <1>1 DEF ToSet, Surjection
<1>3. IsFiniteSet(DOMAIN batch)
  BY <1>1, FS_Interval
<1> QED BY <1>2, <1>3, FS_Surjection DEF ToSet

\* The rows of a job, in some order.
LEMMA FillsOfJob ==
  ASSUME DOMAIN fills \subseteq FillId, IsFiniteSet(DOMAIN fills), NEW j
  PROVE  fillsForJob(j) \in Seq(FillId)
<1> DEFINE S == {f \in DOMAIN fills : pending(f) /\ fills[f].txJobId = j}
           n == Cardinality(S)
<1>1. IsFiniteSet(S) /\ S \subseteq FillId
  BY FS_Subset
<1>2. n \in Nat
  BY <1>1, FS_CardinalityType
<1>3. PICK m \in Nat : \E f \in Bijection(1..m, S) : TRUE
  BY <1>1, FS_NatBijection DEF ExistsBijection
<1>4. n = m
  BY <1>3, FS_CountingElements DEF ExistsBijection
<1>5. PICK f \in [1..n -> S] : IsInjective(f)
  BY <1>3, <1>4 DEF Bijection, Injection
<1>6. SetToSeq(S) \in [1..n -> S]
  <2> HIDE DEF S, n
  <2>1. \E g \in [1..Cardinality(S) -> S] : IsInjective(g)
    BY <1>5 DEF n
  <2> QED BY <2>1 DEF SetToSeq, n
<1>7. SetToSeq(S) \in Seq(S)
  <2> HIDE DEF S, n
  <2> QED BY <1>2, <1>6
<1>8. fillsForJob(j) = SetToSeq(S)
  BY DEF fillsForJob
<1> QED
  <2> HIDE DEF S
  <2> QED BY <1>1, <1>7, <1>8

\* Matching: what is left of an order is a number, and a match is a fill.
LEMMA RemainingNat ==
  ASSUME NEW n, NEW k, NEW r, n \in Nat, k \in Nat, r \in Nat
  PROVE  /\ Max({0, n - k - r}) \in Nat
         /\ Max({0, n - k - r}) = IF n - k - r >= 0 THEN n - k - r ELSE 0
<1>1. PICK x \in {0, n - k - r} : x \in Nat /\ \A y \in {0, n - k - r} : x >= y
  <2>1. CASE n - k - r >= 0
    BY <2>1
  <2>2. CASE ~(n - k - r >= 0)
    BY <2>2
  <2> QED BY <2>1, <2>2
<1>2. Max({0, n - k - r}) \in {0, n - k - r} /\ \A y \in {0, n - k - r} : Max({0, n - k - r}) >= y
  BY <1>1 DEF Max
<1> QED BY <1>2

\* The smaller of two.
LEMMA MinOfTwo ==
  ASSUME NEW a \in Nat, NEW b \in Nat
  PROVE  Min({a, b}) = IF a <= b THEN a ELSE b
<1>1. Min({a, b}) \in {a, b} /\ \A n \in {a, b} : Min({a, b}) <= n
  BY Least
<1> QED BY <1>1

\* What is left of each order.
LEMMA RemainingIs ==
  ASSUME Typed, NEW o \in Orders
  PROVE  /\ reserved(o) = volume(reserving, o) /\ reserved(o) \in Nat
         /\ remaining(o) \in Nat
         /\ remaining(o) > 0 => remaining(o) + orders[o].filledSize + reserved(o) = OrderSize[o]
<1>1. reserved(o) = volume(reserving, o)
  BY DEF reserved, volume, about
<1>2. reserving \in SUBSET FillId /\ IsFiniteSet(reserving)
  <2>1. reserving \subseteq DOMAIN fills
    BY DEF reserving
  <2> QED BY <2>1, FS_Subset DEF Typed, TypeOK
<1>3. reserved(o) \in Nat
  BY <1>1, <1>2, VolumeNat
<1>4. OrderSize[o] \in Nat /\ orders[o].filledSize \in Nat
  BY Book DEF Typed, TypeOK
<1>5. PICK x : x = Max({0, OrderSize[o] - orders[o].filledSize - reserved(o)})
  OBVIOUS
<1>6. x \in Nat /\ x = IF OrderSize[o] - orders[o].filledSize - reserved(o) >= 0
                       THEN OrderSize[o] - orders[o].filledSize - reserved(o) ELSE 0
  BY <1>3, <1>4, <1>5, RemainingNat
<1>7. remaining(o) = x \/ remaining(o) = 0
  BY <1>5 DEF remaining
<1> QED BY <1>1, <1>3, <1>4, <1>6, <1>7

\* A match is a fill that both of its orders have room for, and leaves nothing of one.
LEMMA MatchIs ==
  ASSUME Typed, NEW rem \in [Orders -> Nat], NEW f \in matchesIn(rem)
  PROVE  /\ f \in FillId /\ sides(f) \subseteq Orders
         /\ \A o \in sides(f) : f.size <= rem[o]
         /\ after(rem, f) \in [Orders -> Nat]
         /\ \A o \in Orders : after(rem, f)[o] = IF o \in sides(f) THEN rem[o] - f.size ELSE rem[o]
         /\ after(rem, f)[f.maker] = 0 \/ after(rem, f)[f.taker] = 0
<1>1. PICK p \in Makers \X Takers :
        f = [ maker |-> p[1], taker |-> p[2], size |-> Min({rem[p[1]], rem[p[2]]}),
              sequence |-> Cardinality({x \in DOMAIN fills :
                              /\ x.maker = p[1] /\ x.taker = p[2]
                              /\ x.size = Min({rem[p[1]], rem[p[2]]})}) ]
  BY DEF matchesIn
<1>2. p[1] \in Makers /\ p[2] \in Takers /\ p[1] \in Orders /\ p[2] \in Orders
  BY DEF Orders
<1>3. rem[p[1]] \in Nat /\ rem[p[2]] \in Nat
  BY <1>2
<1>4. PICK s : s = Min({rem[p[1]], rem[p[2]]})
  OBVIOUS
<1>5. s = IF rem[p[1]] <= rem[p[2]] THEN rem[p[1]] ELSE rem[p[2]]
  BY <1>3, <1>4, MinOfTwo
<1>6. PICK n : n = Cardinality({x \in DOMAIN fills : /\ x.maker = p[1] /\ x.taker = p[2] /\ x.size = s})
  OBVIOUS
<1>7. n \in Nat
  <2>1. IsFiniteSet({x \in DOMAIN fills : /\ x.maker = p[1] /\ x.taker = p[2] /\ x.size = s})
    BY FS_Subset DEF Typed
  <2> QED BY <1>6, <2>1, FS_CardinalityType
<1>8. f = [maker |-> p[1], taker |-> p[2], size |-> s, sequence |-> n]
  BY <1>1, <1>4, <1>6
<1>9. f \in FillId /\ f.maker = p[1] /\ f.taker = p[2] /\ f.size = s
  BY <1>2, <1>3, <1>5, <1>7, <1>8 DEF FillId
<1>10. sides(f) = {p[1], p[2]}
  BY <1>9 DEF sides
<1>11. \A o \in sides(f) : s <= rem[o]
  BY <1>3, <1>5, <1>10
<1>12. \A o \in Orders : after(rem, f)[o] = IF o \in sides(f) THEN rem[o] - f.size ELSE rem[o]
  BY DEF after
<1>13. \A o \in Orders : (IF o \in sides(f) THEN rem[o] - f.size ELSE rem[o]) \in Nat
  BY <1>3, <1>5, <1>9, <1>11
<1>14. after(rem, f) \in [Orders -> Nat]
  BY <1>13 DEF after
<1>15. after(rem, f)[p[1]] = 0 \/ after(rem, f)[p[2]] = 0
  BY <1>2, <1>3, <1>5, <1>9, <1>10, <1>12
<1> QED BY <1>2, <1>9, <1>10, <1>11, <1>12, <1>14, <1>15

\* A plan is one fill or two, within what is left of each order.
LEMMA PlanIs ==
  ASSUME Typed, NEW cooling, NEW plan \in plans(cooling)
  PROVE  /\ \/ \E f \in FillId : plan = <<f>>
            \/ \E f, g \in FillId : plan = <<f, g>> /\ f # g
         /\ ToSet(plan) \in SUBSET FillId /\ IsFiniteSet(ToSet(plan))
         /\ \A o \in Orders : volume(ToSet(plan), o) <= remaining(o)
<1> DEFINE rem == [o \in Orders |-> IF o \in cooling THEN 0 ELSE remaining(o)]
<1>1. rem \in [Orders -> Nat] /\ \A o \in Orders : rem[o] \in Nat /\ remaining(o) \in Nat /\ rem[o] <= remaining(o)
  <2>1. \A o \in Orders : remaining(o) \in Nat
    BY RemainingIs
  <2> QED BY <2>1
<1>2. PICK r : r = rem
  OBVIOUS
<1>3. \/ \E f \in matchesIn(r) : plan = <<f>>
      \/ \E f \in matchesIn(r) : \E g \in matchesIn(after(r, f)) : plan = <<f, g>>
  <2>1. plan \in { <<f>> : f \in matchesIn(rem) }
                 \cup UNION { {<<f, g>> : g \in matchesIn(after(rem, f))} : f \in matchesIn(rem) }
    BY DEF plans
  <2> HIDE DEF rem
  <2> QED BY <1>2, <2>1
<1>4. r \in [Orders -> Nat] /\ \A o \in Orders : r[o] \in Nat /\ remaining(o) \in Nat /\ r[o] <= remaining(o)
  BY <1>1, <1>2
<1>5. ASSUME NEW f \in matchesIn(r), plan = <<f>>
      PROVE  /\ f \in FillId /\ ToSet(plan) = {f}
             /\ \A o \in Orders : volume(ToSet(plan), o) <= remaining(o)
  <2>1. f \in FillId /\ \A o \in sides(f) : f.size <= r[o]
    BY <1>4, MatchIs
  <2>2. ToSet(plan) = {f}
    BY <1>5 DEF ToSet
  <2>3. ASSUME NEW o \in Orders PROVE volume({f}, o) <= remaining(o)
    <3>1. volume({f}, o) = IF o \in sides(f) THEN f.size ELSE 0
      BY <2>1, VolumeOne
    <3>2. f.size \in Nat
      BY <2>1 DEF FillId
    <3> QED BY <1>4, <2>1, <3>1, <3>2
  <2> QED BY <2>1, <2>2, <2>3
<1>6. ASSUME NEW f \in matchesIn(r), NEW g \in matchesIn(after(r, f)), plan = <<f, g>>
      PROVE  /\ f \in FillId /\ g \in FillId /\ f # g /\ ToSet(plan) = {f, g}
             /\ \A o \in Orders : volume(ToSet(plan), o) <= remaining(o)
  <2>1. /\ f \in FillId /\ sides(f) \subseteq Orders /\ \A o \in sides(f) : f.size <= r[o]
        /\ after(r, f) \in [Orders -> Nat]
        /\ \A o \in Orders : after(r, f)[o] = IF o \in sides(f) THEN r[o] - f.size ELSE r[o]
        /\ after(r, f)[f.maker] = 0 \/ after(r, f)[f.taker] = 0
    BY <1>4, MatchIs
  <2>2. PICK q : q = after(r, f)
    OBVIOUS
  <2>3. g \in FillId /\ \A o \in sides(g) : g.size <= q[o]
    BY <2>1, <2>2, MatchIs
  <2>4. f # g
    <3>1. PICK p \in Makers \X Takers : /\ g.maker = p[1] /\ g.taker = p[2]
                                        /\ q[p[1]] > 0 /\ q[p[2]] > 0
      <4>1. g \in matchesIn(q)
        BY <2>2
      <4>2. PICK p \in {x \in Makers \X Takers : q[x[1]] > 0 /\ q[x[2]] > 0} :
              g = [ maker |-> p[1], taker |-> p[2], size |-> Min({q[p[1]], q[p[2]]}),
                    sequence |-> Cardinality({x \in DOMAIN fills :
                                    /\ x.maker = p[1] /\ x.taker = p[2]
                                    /\ x.size = Min({q[p[1]], q[p[2]]})}) ]
        BY <4>1 DEF matchesIn
      <4>3. g.maker = p[1] /\ g.taker = p[2]
        BY <4>2
      <4> QED BY <4>2, <4>3
    <3> QED BY <2>1, <2>2, <3>1
  <2>5. ToSet(plan) = {f} \cup {g} /\ ToSet(plan) = {f, g}
    BY <1>6 DEF ToSet
  <2>6. ASSUME NEW o \in Orders PROVE volume({f} \cup {g}, o) <= remaining(o)
    <3>1. /\ volume({f}, o) = IF o \in sides(f) THEN f.size ELSE 0
          /\ volume({g}, o) = IF o \in sides(g) THEN g.size ELSE 0
      BY <2>1, <2>3, VolumeOne
    <3>2. volume({f} \cup {g}, o) <= volume({f}, o) + volume({g}, o)
      <4>1. {f} \in SUBSET FillId /\ IsFiniteSet({f})
        BY <2>1, FS_Singleton
      <4> QED BY <2>3, <4>1, VolumeAdd
    <3>3. f.size \in Nat /\ g.size \in Nat /\ r[o] \in Nat /\ q[o] \in Nat
      BY <1>4, <2>1, <2>2, <2>3 DEF FillId
    <3>4. volume({f} \cup {g}, o) \in Nat
      <4>1. {f} \cup {g} \in SUBSET FillId /\ IsFiniteSet({f} \cup {g})
        BY <2>1, <2>3, FS_Singleton, FS_Union
      <4> QED BY <4>1, VolumeNat
    <3>5. volume({g}, o) <= q[o] /\ volume({f}, o) + q[o] = r[o]
      BY <2>1, <2>2, <2>3, <3>1, <3>3
    <3>6. r[o] <= remaining(o) /\ remaining(o) \in Nat
      BY <1>4
    <3>7. volume({f}, o) \in Nat /\ volume({g}, o) \in Nat
      BY <3>1, <3>3
    <3>8. \A a, b, c, d, e, n \in Nat : c <= a + b /\ b <= d /\ a + d = e /\ e <= n => c <= n
      OBVIOUS
    <3> QED BY <3>2, <3>3, <3>4, <3>5, <3>6, <3>7, <3>8
  <2> QED BY <2>1, <2>3, <2>4, <2>5, <2>6
<1>7. CASE \E f \in matchesIn(r) : plan = <<f>>
  <2>1. PICK f \in matchesIn(r) : plan = <<f>>
    BY <1>7
  <2>2. /\ f \in FillId /\ ToSet(plan) = {f}
        /\ \A o \in Orders : volume(ToSet(plan), o) <= remaining(o)
    BY <1>5, <2>1
  <2> QED BY <2>1, <2>2, FS_Singleton
<1>8. CASE \E f \in matchesIn(r) : \E g \in matchesIn(after(r, f)) : plan = <<f, g>>
  <2>0. PICK f \in matchesIn(r) : \E g \in matchesIn(after(r, f)) : plan = <<f, g>>
    BY <1>8
  <2>1. PICK g \in matchesIn(after(r, f)) : plan = <<f, g>>
    BY <2>0
  <2>2. /\ f \in FillId /\ g \in FillId /\ f # g /\ ToSet(plan) = {f, g}
        /\ \A o \in Orders : volume(ToSet(plan), o) <= remaining(o)
    BY <1>6, <2>1
  <2>3. IsFiniteSet({f, g})
    <3>1. {f, g} = {f} \cup {g}
      OBVIOUS
    <3>2. IsFiniteSet({f}) /\ IsFiniteSet({g})
      BY FS_Singleton
    <3> QED BY <3>1, <3>2, FS_Union
  <2> QED BY <2>1, <2>2, <2>3
<1> QED BY <1>3, <1>7, <1>8

\* However it is cut into batches, they are disjoint and come to the plan.
LEMMA QueueIs ==
  ASSUME Typed, NEW cooling, NEW plan \in plans(cooling), NEW queue \in sizings(plan)
  PROVE  /\ queue \in Seq(Seq(FillId)) /\ queue # <<>>
         /\ Separate(queue) /\ waiting(queue) = ToSet(plan)
<1>1. CASE \E f \in FillId : plan = <<f>>
  <2>1. PICK f \in FillId : plan = <<f>>
    BY <1>1
  <2>2. queue = <<<<f>>>>
    BY <2>1 DEF sizings
  <2>3. queue \in Seq(Seq(FillId)) /\ DOMAIN queue = {1} /\ queue[1] = <<f>>
    BY <2>2
  <2>4. waiting(queue) = ToSet(plan)
    BY <2>1, <2>3 DEF waiting
  <2>5. NoRepeats(<<f>>)
    BY DEF NoRepeats
  <2>6. Separate(queue)
    BY <2>3, <2>5 DEF Separate
  <2> QED BY <2>2, <2>3, <2>4, <2>6
<1>2. CASE \E f, g \in FillId : plan = <<f, g>> /\ f # g
  <2>1. PICK f \in FillId, g \in FillId : plan = <<f, g>> /\ f # g
    BY <1>2
  <2>2. ToSet(plan) = {f, g} /\ ToSet(<<f>>) = {f} /\ ToSet(<<g>>) = {g}
    <3>1. ToSet(plan) = {f, g}
      BY <2>1 DEF ToSet
    <3>2. \A x : ToSet(<<x>>) = {x}
      BY DEF ToSet
    <3> QED BY <3>1, <3>2
  <2>3. NoRepeats(<<f>>) /\ NoRepeats(<<g>>) /\ NoRepeats(plan)
    BY <2>1 DEF NoRepeats
  <2>4. queue = <<plan>> \/ queue = <<<<f>>, <<g>>>>
    BY <2>1 DEF sizings
  <2>5. CASE queue = <<plan>>
    <3>1. queue \in Seq(Seq(FillId)) /\ DOMAIN queue = {1} /\ queue[1] = plan
      BY <2>1, <2>5
    <3>2. waiting(queue) = ToSet(plan)
      BY <3>1 DEF waiting
    <3>3. Separate(queue)
      BY <2>3, <3>1 DEF Separate
    <3> QED BY <2>5, <3>1, <3>2, <3>3
  <2>6. CASE queue = <<<<f>>, <<g>>>>
    <3>1. queue \in Seq(Seq(FillId)) /\ DOMAIN queue = {1, 2} /\ queue[1] = <<f>> /\ queue[2] = <<g>>
      BY <2>6
    <3>2. waiting(queue) = ToSet(plan)
      BY <2>2, <3>1 DEF waiting
    <3>3. Separate(queue)
      BY <2>1, <2>2, <2>3, <3>1 DEF Separate
    <3> QED BY <2>6, <3>1, <3>2, <3>3
  <2> QED BY <2>4, <2>5, <2>6
<1> QED BY <1>1, <1>2, PlanIs

\* The invariant's types, spelt out.
TypedParts ==
  /\ DOMAIN fills \subseteq FillId /\ IsFiniteSet(DOMAIN fills)
  /\ \A f \in DOMAIN fills : fills[f] \in Row
  /\ orders \in [Orders -> [status : TRADEABLE \cup {"FILLED", "CANCELLED"}, filledSize : Nat]]
  /\ jobs \in Seq(Job) /\ Len(jobs) <= MaxJobs
  /\ filled \in [Orders -> Nat]
  /\ dead \in [Orders -> Cause] /\ signature \in [Orders -> Signature] /\ withdrawn \subseteq Orders
  /\ log \in Seq(FillEvent \cup CancelEvent) /\ cursor \in 0..Len(log)
  /\ matcher \in Matcher
  /\ matcher.todo \subseteq DOMAIN jobs
  /\ matcher.pc \in {"link", "wait", "apply", "reverted"} => matcher.job \in DOMAIN jobs
  /\ matcher.pc = "recover" => matcher.recovering
  /\ faults \in 0..MaxFaults /\ gaveUp \in BOOLEAN

\* The parts are the whole,
LEMMA TypedIs == Typed <=> TypedParts
  BY DEF Typed, TypeOK, TypedParts

\* The memory of a matcher that is down.
LEMMA DownTyped ==
  /\ Down \in Matcher
  /\ Down.pc = "down" /\ ~Down.recovering /\ Down.queue = <<>> /\ Down.batch = <<>>
  /\ Down.job = NoJob /\ Down.rejected = <<>> /\ Down.todo = {} /\ Down.release = {}
  /\ Down.held = {}
<1>1. <<>> \in Seq(Seq(FillId)) /\ <<>> \in Seq(FillId) /\ <<>> \in Seq(Rejection)
  OBVIOUS
<1> QED BY <1>1 DEF Down, Matcher

\* A matcher that has put its batch away.
Rested(m, queue) ==
  /\ m \in Matcher /\ m.queue = queue /\ m.rejected = <<>>
  /\ m.todo \in {matcher.todo, {}}
  /\ m.pc \in {"down", "recover", "idle", "offer"}
  /\ m.pc = "recover" => m.recovering

\* carryOn puts the batch away and goes on with the queue it is given.
LEMMA CarriesOn ==
  ASSUME matcher \in Matcher, NEW queue \in Seq(Seq(FillId))
  PROVE  Rested(carryOn(queue), queue)
<1>1. /\ matcher.recovering \in BOOLEAN /\ matcher.todo \in SUBSET (1..MaxJobs)
      /\ matcher.held \in SUBSET Orders
  BY DEF Matcher
<1>2. PICK pc \in {"recover", "idle", "offer"} :
        /\ pc = IF matcher.recovering THEN "recover" ELSE IF queue = <<>> THEN "idle" ELSE "offer"
        /\ pc = "recover" => matcher.recovering
  OBVIOUS
<1>3. PICK d : d = Down
  OBVIOUS
<1>4. d \in Matcher /\ d.rejected = <<>>
  BY <1>3, DownTyped
<1>5. carryOn(queue) = [d EXCEPT !.pc = pc, !.recovering = matcher.recovering,
               !.queue = queue, !.todo = matcher.todo, !.held = matcher.held]
  BY <1>2, <1>3 DEF carryOn
<1>6. carryOn(queue) \in Matcher
  BY <1>1, <1>2, <1>4, <1>5 DEF Matcher
<1> QED BY <1>2, <1>4, <1>5, <1>6 DEF Rested, Matcher

\* So does a tick that an exception ended, without a queue,
LEMMA IdleAgain ==
  ASSUME matcher \in Matcher
  PROVE  Rested([Down EXCEPT !.pc = "idle", !.held = matcher.held], <<>>)
<1>1. matcher.held \in SUBSET Orders
  BY DEF Matcher
<1>2. PICK d : d = Down
  OBVIOUS
<1>3. d \in Matcher /\ d.rejected = <<>> /\ d.queue = <<>> /\ d.todo = {}
  BY <1>2, DownTyped
<1>4. [d EXCEPT !.pc = "idle", !.held = matcher.held] \in Matcher
  BY <1>1, <1>3 DEF Matcher
<1>5. Rested([d EXCEPT !.pc = "idle", !.held = matcher.held], <<>>)
  BY <1>3, <1>4 DEF Rested, Matcher
<1> QED BY <1>2, <1>5

\* and so does a matcher that went down.
LEMMA DownRested == Rested(Down, <<>>)
  BY DownTyped DEF Rested

\* in the next state too.
LEMMA TypedNext == Typed' <=> TypedParts'
  BY DEF Typed, TypeOK, TypedParts

\* A step that leaves the tables' types alone: the matcher's is to be shown.
TypedTables ==
  /\ DOMAIN fills \subseteq FillId /\ IsFiniteSet(DOMAIN fills)
  /\ \A f \in DOMAIN fills : fills[f] \in Row
  /\ orders \in [Orders -> [status : TRADEABLE \cup {"FILLED", "CANCELLED"}, filledSize : Nat]]
  /\ jobs \in Seq(Job) /\ Len(jobs) <= MaxJobs
  /\ filled \in [Orders -> Nat]
  /\ dead \in [Orders -> Cause] /\ signature \in [Orders -> Signature] /\ withdrawn \subseteq Orders
  /\ log \in Seq(FillEvent \cup CancelEvent) /\ cursor \in 0..Len(log)
  /\ faults \in 0..MaxFaults /\ gaveUp \in BOOLEAN

TypedMatcher ==
  /\ matcher \in Matcher
  /\ matcher.todo \subseteq DOMAIN jobs
  /\ matcher.pc \in {"link", "wait", "apply", "reverted"} => matcher.job \in DOMAIN jobs
  /\ matcher.pc = "recover" => matcher.recovering

\* The tables' half and the matcher's make up the types, before and after a step.
LEMMA TypedHalves == (Typed <=> TypedTables /\ TypedMatcher) /\ (Typed' <=> TypedTables' /\ TypedMatcher')
  BY TypedIs, TypedNext DEF TypedParts, TypedTables, TypedMatcher

\* A matcher that put its batch away has its types.
LEMMA RestedTyped ==
  ASSUME Typed, NEW queue, Rested(matcher', queue), DOMAIN jobs \subseteq DOMAIN jobs'
  PROVE  TypedMatcher'
<1>1. TypedMatcher
  BY TypedHalves
<1> QED BY <1>1 DEF Rested, TypedMatcher

\* The rows of a table that lost some of them, or had some linked.
LEMMA WithoutTyped ==
  ASSUME Typed, NEW R, fills' = without(R)
  PROVE  /\ DOMAIN fills' \subseteq FillId /\ IsFiniteSet(DOMAIN fills')
         /\ \A f \in DOMAIN fills' : fills'[f] \in Row
<1>1. TypedTables
  BY TypedHalves
<1>2. DOMAIN fills' = DOMAIN fills \ {g \in R : pending(g)} /\ \A f \in DOMAIN fills' : fills'[f] = fills[f]
  BY DEF without
<1>3. DOMAIN fills' \subseteq DOMAIN fills
  BY <1>2
<1>4. IsFiniteSet(DOMAIN fills')
  BY <1>1, <1>3, FS_Subset DEF TypedTables
<1> QED BY <1>1, <1>2, <1>4 DEF TypedTables

\* A queue of halves before another.
LEMMA HalvesTyped ==
  ASSUME NEW batch \in Seq(FillId), NEW queue \in Seq(Seq(FillId))
  PROVE  halveAfterGasRevert(batch) \o queue \in Seq(Seq(FillId))
<1>1. halveAfterGasRevert(batch) \in Seq(Seq(FillId))
  <2>1. CASE Len(batch) < 2
    BY <2>1 DEF halveAfterGasRevert
  <2>2. CASE ~(Len(batch) < 2)
    <3>1. batch[1] \in FillId /\ batch[2] \in FillId
      BY <2>2
    <3> QED BY <2>2, <3>1 DEF halveAfterGasRevert
  <2> QED BY <2>1, <2>2
<1> QED BY <1>1

\* Types hold in every state the matcher's own steps reach.
LEMMA TypedStep ==
  ASSUME Typed, Step
  PROVE  Typed'
<1>0. TypedTables /\ TypedMatcher
  BY TypedHalves
<1>m. /\ matcher \in Matcher /\ matcher.queue \in Seq(Seq(FillId)) /\ matcher.batch \in Seq(FillId)
      /\ matcher.rejected \in Seq(Rejection) /\ matcher.held \in SUBSET Orders
      /\ matcher.todo \in SUBSET (1..MaxJobs) /\ matcher.recovering \in BOOLEAN
      /\ matcher.release \in SUBSET FillId
  BY <1>0 DEF TypedMatcher, Matcher
<1>j. MaxJobs \in Nat /\ Len(jobs) \in Nat /\ DOMAIN jobs = 1..Len(jobs) /\ DOMAIN jobs \subseteq 1..MaxJobs
      /\ \A j \in DOMAIN jobs : jobs[j] \in Job
  BY <1>0, Book DEF TypedTables
<1>1. CASE Start
  <2>1. {j \in DOMAIN jobs : jobs[j].status = "OPEN"} \in SUBSET (1..MaxJobs)
    BY <1>j
  <2>2. PICK d : d = Down
    OBVIOUS
  <2>3. matcher' = [d EXCEPT !.pc = "recover", !.recovering = TRUE,
                             !.todo = {j \in DOMAIN jobs : jobs[j].status = "OPEN"}]
    BY <1>1, <2>2 DEF Start
  <2>4. d \in Matcher
    BY <2>2, DownTyped
  <2>5. TypedMatcher'
    BY <1>1, <2>1, <2>3, <2>4 DEF TypedMatcher, Matcher, Start
  <2>6. TypedTables'
    BY <1>0, <1>1 DEF Start, TypedTables
  <2> QED BY <2>5, <2>6, TypedHalves
<1>2. CASE RecoverJob
  <2>1. PICK j \in matcher.todo : j = Min(matcher.todo)
    BY <1>2, <1>m, Least DEF RecoverJob
  <2>2. fillsForJob(j) \in Seq(FillId)
    BY <1>0, FillsOfJob DEF TypedTables
  <2>3. matcher' = [matcher EXCEPT !.pc = "wait", !.job = j, !.todo = @ \ {j}, !.batch = fillsForJob(j)]
    BY <1>2, <2>1 DEF RecoverJob
  <2>4. TypedMatcher'
    <3>1. j \in DOMAIN jobs /\ j \in 1..MaxJobs /\ jobs' = jobs
      BY <1>0, <1>2, <2>1, <1>j DEF TypedMatcher, RecoverJob
    <3>2. /\ matcher' \in Matcher /\ matcher'.todo = matcher.todo \ {j}
          /\ matcher'.job = j /\ matcher'.pc = "wait"
      BY <2>2, <2>3, <1>m, <3>1 DEF Matcher
    <3> QED BY <1>0, <3>1, <3>2 DEF TypedMatcher
  <2>5. TypedTables'
    BY <1>0, <1>2 DEF RecoverJob, TypedTables
  <2> QED BY <2>4, <2>5, TypedHalves
<1>3. CASE ScanOrphans
  <2>1. PICK old \in SUBSET orphans :
          matcher' = [matcher EXCEPT !.pc = "orphans", !.release = {f \in old : neverLanded(f)}]
    BY <1>3 DEF ScanOrphans
  <2>2. {f \in old : neverLanded(f)} \in SUBSET FillId
    BY <1>0 DEF orphans, TypedTables
  <2>3. TypedMatcher'
    <3> HIDE DEF orphans, neverLanded
    <3> QED BY <1>0, <1>3, <2>1, <2>2 DEF TypedMatcher, Matcher, ScanOrphans
  <2>4. TypedTables'
    BY <1>0, <1>3 DEF ScanOrphans, TypedTables
  <2> QED BY <2>3, <2>4, TypedHalves
<1>4. CASE ReleaseOrphans
  <2>1. fills' = without(matcher.release)
    BY <1>4 DEF ReleaseOrphans
  <2>2. Rested(matcher', <<>>)
    BY <1>4, <1>m, IdleAgain DEF ReleaseOrphans
  <2>3. TypedMatcher'
    BY <1>4, <2>2, RestedTyped DEF ReleaseOrphans
  <2>4. TypedTables'
    BY <1>0, <1>4, <2>1, WithoutTyped DEF ReleaseOrphans, TypedTables
  <2> QED BY <2>3, <2>4, TypedHalves
<1>5. CASE Tick
  <2>0. PICK cooling \in blocked : \E plan \in plans(cooling) : \E queue \in sizings(plan) :
          matcher' = [matcher EXCEPT !.pc = "offer", !.queue = queue, !.held = cooling]
    BY <1>5 DEF Tick
  <2>1. PICK plan \in plans(cooling) : \E queue \in sizings(plan) :
          matcher' = [matcher EXCEPT !.pc = "offer", !.queue = queue, !.held = cooling]
    BY <2>0
  <2>2. PICK queue \in sizings(plan) :
          matcher' = [matcher EXCEPT !.pc = "offer", !.queue = queue, !.held = cooling]
    BY <2>1
  <2>3. queue \in Seq(Seq(FillId))
    BY <2>1, QueueIs
  <2>4. cooling \in SUBSET Orders
    BY <1>m DEF blocked
  <2>5. TypedMatcher'
    BY <1>0, <1>5, <2>2, <2>3, <2>4 DEF TypedMatcher, Matcher, Tick
  <2>6. TypedTables'
    BY <1>0, <1>5 DEF Tick, TypedTables
  <2> QED BY <2>5, <2>6, TypedHalves
<1>6. CASE Reserve
  <2>1. PICK b \in Seq(FillId) : b = Head(matcher.queue) /\ Tail(matcher.queue) \in Seq(Seq(FillId))
    BY <1>6, <1>m DEF Reserve
  <2>2. ToSet(b) \in SUBSET FillId /\ IsFiniteSet(ToSet(b))
    BY BatchFinite
  <2>3. TypedMatcher'
    BY <1>0, <1>6, <2>1 DEF TypedMatcher, Matcher, Reserve
  <2>4. /\ DOMAIN fills' \subseteq FillId /\ IsFiniteSet(DOMAIN fills')
        /\ \A f \in DOMAIN fills' : fills'[f] \in Row
    <3>1. /\ DOMAIN fills' = DOMAIN fills \cup ToSet(b)
          /\ \A f \in DOMAIN fills' : fills'[f] = IF f \in DOMAIN fills THEN fills[f]
               ELSE [status |-> "PENDING", rejectReason |-> FALSE, txJobId |-> NoJob]
      BY <1>6, <2>1 DEF Reserve, with
    <3>2. [status |-> "PENDING", rejectReason |-> FALSE, txJobId |-> NoJob] \in Row
      BY DEF Row
    <3>3. IsFiniteSet(DOMAIN fills \cup ToSet(b))
      BY <1>0, <2>2, FS_Union DEF TypedTables
    <3> QED BY <1>0, <2>2, <3>1, <3>2, <3>3 DEF TypedTables
  <2>5. gaveUp' \in BOOLEAN
    BY <1>6 DEF Reserve
  <2>6. TypedTables'
    BY <1>0, <1>6, <2>4, <2>5 DEF Reserve, TypedTables
  <2> QED BY <2>3, <2>6, TypedHalves
<1>7. CASE Submit \/ SubmitFails
  <2>1. PICK status \in {"OPEN", "FAILED"}, tx \in {"unsent", "mempool"} : jobs' = submitted(status, tx)
    BY <1>7 DEF Submit, SubmitFails
  <2>2. PICK job : job = [status |-> status, tx |-> tx, batch |-> matcher.batch, rejected |-> <<>>]
    OBVIOUS
  <2>3. job \in Job
    BY <2>2, <1>m DEF Job
  <2>4. /\ jobs' \in Seq(Job) /\ Len(jobs') = Len(jobs) + 1 /\ Len(jobs') <= MaxJobs
        /\ DOMAIN jobs \subseteq DOMAIN jobs' /\ Len(jobs') \in DOMAIN jobs' /\ Len(jobs') \in 1..MaxJobs
    <3>1. jobs' = Append(jobs, job) /\ Len(jobs) < MaxJobs
      BY <1>7, <2>1, <2>2 DEF Submit, SubmitFails, submitted
    <3> QED BY <1>0, <1>j, <2>3, <3>1 DEF TypedTables
  <2>5. TypedMatcher'
    <3>1. CASE Submit
      BY <1>0, <3>1, <2>4 DEF TypedMatcher, Matcher, Submit
    <3>2. CASE SubmitFails
      BY <1>0, <3>2, <2>4 DEF TypedMatcher, Matcher, SubmitFails
    <3> QED BY <1>7, <3>1, <3>2
  <2>6. gaveUp' \in BOOLEAN
    BY <1>0, <1>7 DEF Submit, SubmitFails, TypedTables
  <2>7. TypedTables'
    BY <1>0, <1>7, <2>4, <2>6 DEF Submit, SubmitFails, TypedTables
  <2> QED BY <2>5, <2>7, TypedHalves
<1>8. CASE Undo
  <2>1. fills' = without(ToSet(matcher.batch))
    BY <1>8 DEF Undo
  <2>2. Rested(matcher', <<>>)
    BY <1>8, <1>m, IdleAgain DEF Undo
  <2>3. TypedMatcher'
    BY <1>8, <2>2, RestedTyped DEF Undo
  <2>4. TypedTables'
    BY <1>0, <1>8, <2>1, WithoutTyped DEF Undo, TypedTables
  <2> QED BY <2>3, <2>4, TypedHalves
<1>9. CASE Link
  <2>1. matcher' = [matcher EXCEPT !.pc = "wait"] /\ matcher.job \in 1..MaxJobs
    BY <1>0, <1>9, <1>j DEF Link, TypedMatcher
  <2>2. TypedMatcher'
    BY <1>0, <1>9, <2>1 DEF TypedMatcher, Matcher, Link
  <2>3. /\ DOMAIN fills' \subseteq FillId /\ IsFiniteSet(DOMAIN fills')
        /\ \A f \in DOMAIN fills' : fills'[f] \in Row
    <3>1. /\ DOMAIN fills' = DOMAIN fills
          /\ \A f \in DOMAIN fills' : \/ fills'[f] = fills[f]
                                      \/ fills'[f] = [fills[f] EXCEPT !.txJobId = matcher.job]
      BY <1>9 DEF Link, linked
    <3>2. \A f \in DOMAIN fills : [fills[f] EXCEPT !.txJobId = matcher.job] \in Row
      BY <1>0, <2>1 DEF Row, TypedTables
    <3> QED BY <1>0, <3>1, <3>2 DEF TypedTables
  <2>4. TypedTables'
    BY <1>0, <1>9, <2>3 DEF Link, TypedTables
  <2> QED BY <2>2, <2>4, TypedHalves
<1>10. CASE Mined
  <2>1. PICK j \in DOMAIN jobs : j = matcher.job
    BY <1>0, <1>10 DEF Mined, TypedMatcher
  <2>2. PICK status \in {"CONFIRMED", "REVERTED"} : jobs' = [jobs EXCEPT ![j].status = status]
    BY <1>10, <2>1 DEF Mined, recorded
  <2>3. [jobs[j] EXCEPT !.status = status] \in Job
    BY <1>j DEF Job
  <2>4. jobs' \in Seq(Job) /\ Len(jobs') = Len(jobs) /\ DOMAIN jobs' = DOMAIN jobs
    BY <1>0, <2>2, <2>3 DEF TypedTables
  <2>5. TypedMatcher'
    <3>1. CASE matcher' = carryOn(matcher.queue)
      BY <3>1, <1>m, <2>4, CarriesOn, RestedTyped
    <3>2. CASE matcher' = [matcher EXCEPT !.pc = "apply", !.rejected = jobs[j].rejected]
      <4>1. jobs[j].rejected \in Seq(Rejection)
        BY <1>j DEF Job
      <4> QED BY <1>0, <2>1, <2>4, <3>2, <4>1 DEF TypedMatcher, Matcher
    <3>3. CASE matcher' = carryOn(<<>>)
      <4>1. <<>> \in Seq(Seq(FillId))
        OBVIOUS
      <4> QED BY <3>3, <4>1, <1>m, <2>4, CarriesOn, RestedTyped
    <3>4. CASE matcher' = [matcher EXCEPT !.pc = "reverted"]
      BY <1>0, <2>1, <2>4, <3>4 DEF TypedMatcher, Matcher
    <3> QED BY <1>10, <2>1, <3>1, <3>2, <3>3, <3>4 DEF Mined
  <2>6. TypedTables'
    BY <1>0, <1>10, <2>4 DEF Mined, TypedTables
  <2> QED BY <2>5, <2>6, TypedHalves
<1>11. CASE TimedOut \/ Applied
  <2>1. TypedTables' /\ DOMAIN jobs = DOMAIN jobs'
    BY <1>0, <1>11 DEF TimedOut, Applied, TypedTables
  <2>2. PICK c : c = carryOn(matcher.queue) /\ Rested(c, matcher.queue)
    BY <1>m, CarriesOn
  <2>3. PICK H : H = cleared(strike(c.held, recordRejectionBackoff(ToSet(jobs[matcher.job].rejected))),
                       ToSet(matcher.batch) \ {r.fill : r \in ToSet(jobs[matcher.job].rejected)})
    OBVIOUS
  <2>4. Applied => matcher' = [c EXCEPT !.held = H]
    BY <2>2, <2>3 DEF Applied, Rested, Matcher
  <2>5. Applied => H \in SUBSET Orders
    <3> SUFFICES ASSUME Applied PROVE H \in SUBSET Orders
      OBVIOUS
    <3>1. c.held \in SUBSET Orders
      BY <2>2 DEF Rested, Matcher
    <3>2. \A r \in ToSet(jobs[matcher.job].rejected) : sides(r.fill) \subseteq Orders
      <4>1. jobs[matcher.job].rejected \in Seq(Rejection)
        BY <1>0, <1>j DEF Applied, TypedMatcher, Job
      <4>2. \A r \in ToSet(jobs[matcher.job].rejected) : r.fill \in FillId
        <5>1. ToSet(jobs[matcher.job].rejected) \in SUBSET Rejection
          BY <4>1, BatchFinite
        <5> QED BY <5>1 DEF Rejection
      <4> QED BY <4>2 DEF sides, FillId, Orders
    <3>3. recordRejectionBackoff(ToSet(jobs[matcher.job].rejected)) \in SUBSET Orders
      BY <3>2 DEF recordRejectionBackoff
    <3> QED BY <2>3, <3>1, <3>3 DEF cleared, strike
  <2>6. Rested(matcher', matcher.queue)
    <3>1. CASE TimedOut
      BY <2>2, <3>1 DEF TimedOut
    <3>2. CASE Applied
      BY <2>2, <2>4, <2>5, <3>2 DEF Rested, Matcher
    <3> QED BY <1>11, <3>1, <3>2
  <2> QED BY <2>1, <2>6, RestedTyped, TypedHalves
<1>12. CASE NonceTaken
  <2>1. PICK j \in DOMAIN jobs : j = matcher.job
    BY <1>0, <1>12 DEF NonceTaken, TypedMatcher
  <2>2. jobs' = [jobs EXCEPT ![j].status = "DROPPED"]
    BY <1>12, <2>1 DEF NonceTaken, recorded
  <2>3. [jobs[j] EXCEPT !.status = "DROPPED"] \in Job
    BY <1>j DEF Job
  <2>4. jobs' \in Seq(Job) /\ Len(jobs') = Len(jobs) /\ DOMAIN jobs' = DOMAIN jobs
    BY <1>0, <2>2, <2>3 DEF TypedTables
  <2>5. Rested(matcher', <<>>)
    BY <1>12, <1>m, IdleAgain, DownRested DEF NonceTaken
  <2>6. TypedTables'
    BY <1>0, <1>12, <2>4 DEF NonceTaken, TypedTables
  <2> QED BY <2>4, <2>5, <2>6, RestedTyped, TypedHalves
<1>13. CASE Apply
  <2>1. PICK x \in Rejection : x = Head(matcher.rejected) /\ Tail(matcher.rejected) \in Seq(Rejection)
    BY <1>13, <1>m DEF Apply
  <2>2. TypedMatcher'
    BY <1>0, <1>13, <2>1 DEF TypedMatcher, Matcher, Apply
  <2>3. fills' = IF pending(x.fill) THEN [fills EXCEPT ![x.fill].rejectReason = TRUE] ELSE fills
    BY <1>13, <2>1 DEF Apply
  <2>4. /\ DOMAIN fills' \subseteq FillId /\ IsFiniteSet(DOMAIN fills')
        /\ \A f \in DOMAIN fills' : fills'[f] \in Row
    <3>1. \A f \in DOMAIN fills : [fills[f] EXCEPT !.rejectReason = TRUE] \in Row
      BY <1>0 DEF Row, TypedTables
    <3> QED BY <1>0, <2>3, <3>1 DEF TypedTables
  <2>5. PICK B : orders' = [o \in Orders |->
              IF o \in B /\ x.fill \in ToSet(matcher.batch) /\ orders[o].status \in TRADEABLE
              THEN [orders[o] EXCEPT !.status = "CANCELLED"] ELSE orders[o]]
    <3>1. PICK B : orders' = [o \in Orders |->
              IF o \in B /\ Head(matcher.rejected).fill \in ToSet(matcher.batch)
                 /\ orders[o].status \in TRADEABLE
              THEN [orders[o] EXCEPT !.status = "CANCELLED"] ELSE orders[o]]
      BY <1>13 DEF Apply
    <3> QED BY <2>1, <3>1
  <2>6. orders' \in [Orders -> [status : TRADEABLE \cup {"FILLED", "CANCELLED"}, filledSize : Nat]]
    BY <1>0, <2>5 DEF TypedTables
  <2>7. TypedTables'
    BY <1>0, <1>13, <2>4, <2>6 DEF Apply, TypedTables
  <2> QED BY <2>2, <2>7, TypedHalves
<1>14. CASE ReleaseReverted
  <2>1. fills' = without(ToSet(matcher.batch))
    BY <1>14 DEF ReleaseReverted
  <2>2. PICK h : h \in {halveAfterGasRevert(matcher.batch), <<>>} /\ matcher' = carryOn(h \o matcher.queue)
    BY <1>14 DEF ReleaseReverted
  <2>3. h \o matcher.queue \in Seq(Seq(FillId))
    <3>1. <<>> \o matcher.queue = matcher.queue
      BY <1>m
    <3>2. halveAfterGasRevert(matcher.batch) \o matcher.queue \in Seq(Seq(FillId))
      BY <1>m, HalvesTyped
    <3> QED BY <1>m, <2>2, <3>1, <3>2
  <2>4. Rested(matcher', h \o matcher.queue)
    BY <1>m, <2>2, <2>3, CarriesOn
  <2>5. TypedMatcher'
    BY <1>14, <2>4, RestedTyped DEF ReleaseReverted
  <2>6. TypedTables'
    BY <1>0, <1>14, <2>1, WithoutTyped DEF ReleaseReverted, TypedTables
  <2> QED BY <2>5, <2>6, TypedHalves
<1> QED BY <1>1, <1>2, <1>3, <1>4, <1>5, <1>6, <1>7, <1>8, <1>9, <1>10, <1>11, <1>12, <1>13, <1>14
     DEF Step

\* What a mined batch does to the gateway, as the log records it.
LEMMA MinedBatch ==
  ASSUME Typed, NEW j \in DOMAIN jobs, NEW refused,
         \A o \in Orders : volume(settledOnChain, o) <= filled[o], NEW new \in BOOLEAN,
         new => /\ NoRepeats(jobs[j].batch) /\ ToSet(jobs[j].batch) \cap settledOnChain = {}
                /\ \A o \in Orders : filled[o] = volume(settledOnChain, o)
  PROVE  Outcome(executed(jobs[j].batch, refused), ToSet(jobs[j].batch), settledOnChain, new)
<1>1. settledOnChain \in SUBSET FillId /\ IsFiniteSet(settledOnChain)
  BY EventsTyped DEF Typed, settledOnChain
<1>2. jobs[j].batch \in Seq(FillId)
  <2>1. jobs \in Seq(Job)
    BY TypedHalves DEF TypedTables
  <2>2. jobs[j] \in Job
    BY <2>1
  <2> QED BY <2>2 DEF Job
<1>3. filled \in [Orders -> Nat]
  BY TypedHalves DEF TypedTables
<1> QED BY <1>1, <1>2, <1>3, Executed

\* Types hold in every other state.
LEMMA TypedWorld ==
  ASSUME Typed, Recorded, [Next]_vars, ~Step
  PROVE  Typed'
<1>0. TypedTables /\ TypedMatcher
  BY TypedHalves
<1>m. matcher \in Matcher
  BY <1>0 DEF TypedMatcher
<1>j. MaxJobs \in Nat /\ Len(jobs) \in Nat /\ DOMAIN jobs = 1..Len(jobs) /\ DOMAIN jobs \subseteq 1..MaxJobs
      /\ \A j \in DOMAIN jobs : jobs[j] \in Job
  BY <1>0, Book DEF TypedTables
<1>f. MaxFaults \in Nat
  BY Book
<1>1. CASE Crash
  <2>1. PICK job : job = [status |-> "OPEN", tx |-> "unsent", batch |-> matcher.batch, rejected |-> <<>>]
    OBVIOUS
  <2>2. job \in Job
    BY <2>1, <1>m DEF Job, Matcher
  <2>3. jobs' = jobs \/ (Len(jobs) < MaxJobs /\ jobs' = Append(jobs, job))
    BY <1>1, <2>1 DEF Crash, submitted
  <2>4. jobs' \in Seq(Job) /\ Len(jobs') <= MaxJobs /\ DOMAIN jobs \subseteq DOMAIN jobs'
    <3>1. jobs \in Seq(Job) /\ Len(jobs) <= MaxJobs
      BY <1>0 DEF TypedTables
    <3>2. CASE jobs' = jobs
      BY <3>1, <3>2
    <3>3. CASE Len(jobs) < MaxJobs /\ jobs' = Append(jobs, job)
      BY <1>j, <2>2, <3>1, <3>3
    <3> QED BY <2>3, <3>2, <3>3
  <2>5. TypedMatcher'
    BY <1>1, <2>4, DownRested, RestedTyped DEF Crash
  <2>6. faults' \in 0..MaxFaults
    BY <1>0, <1>1, <1>f DEF Crash, TypedTables
  <2>7. TypedTables'
    BY <1>0, <1>1, <2>4, <2>6 DEF Crash, TypedTables
  <2> QED BY <2>5, <2>7, TypedHalves
<1>2. CASE Fails
  <2>1. faults' \in 0..MaxFaults
    BY <1>0, <1>2, <1>f DEF Fails, TypedTables
  <2>2. TypedTables'
    BY <1>0, <1>2, <2>1 DEF Fails, TypedTables
  <2>3. TypedMatcher'
    BY <1>2, <1>m, IdleAgain, RestedTyped DEF Fails
  <2> QED BY <2>2, <2>3, TypedHalves
<1>3. ASSUME NEW j \in DOMAIN jobs, Mine(j) PROVE Typed'
  <2>0. PICK refused \in SUBSET ToSet(jobs[j].batch) : \E r :
          /\ r = executed(jobs[j].batch, refused)
          /\ jobs' = [jobs EXCEPT ![j].tx = "success", ![j].rejected = r.rejected]
          /\ filled' = r.filled /\ log' = log \o r.events
    BY <1>3 DEF Mine
  <2>1. PICK r :
          /\ r = executed(jobs[j].batch, refused)
          /\ jobs' = [jobs EXCEPT ![j].tx = "success", ![j].rejected = r.rejected]
          /\ filled' = r.filled /\ log' = log \o r.events
    BY <2>0
  <2>2. r \in Results
    <3>1. Outcome(r, ToSet(jobs[j].batch), settledOnChain, FALSE)
      <4>1. \A o \in Orders : volume(settledOnChain, o) <= filled[o]
        BY DEF Recorded
      <4> QED BY <2>1, <4>1, MinedBatch
    <3> QED BY <3>1 DEF Outcome
  <2>3. r.filled \in [Orders -> Nat] /\ r.events \in Seq(FillEvent \cup CancelEvent) /\ r.rejected \in Seq(Rejection)
    BY <2>2 DEF Results
  <2>4. [jobs[j] EXCEPT !.tx = "success", !.rejected = r.rejected] \in Job
    BY <1>j, <2>3 DEF Job
  <2>5. jobs' \in Seq(Job) /\ Len(jobs') = Len(jobs) /\ DOMAIN jobs' = DOMAIN jobs
    <3>1. jobs' = [jobs EXCEPT ![j] = [jobs[j] EXCEPT !.tx = "success", !.rejected = r.rejected]]
      BY <1>0, <2>1 DEF TypedTables
    <3> QED BY <1>0, <2>4, <3>1 DEF TypedTables
  <2>6. log' \in Seq(FillEvent \cup CancelEvent) /\ cursor \in 0..Len(log')
    BY <1>0, <2>1, <2>3 DEF TypedTables
  <2>7. TypedTables'
    BY <1>0, <1>3, <2>1, <2>3, <2>5, <2>6 DEF Mine, TypedTables
  <2>8. TypedMatcher'
    BY <1>0, <1>3, <2>5 DEF Mine, TypedMatcher
  <2> QED BY <2>7, <2>8, TypedHalves
<1>4. ASSUME NEW j \in DOMAIN jobs, MineNot(j) \/ ReconcileJob(j) PROVE Typed'
  <2>1. PICK job \in Job : jobs' = [jobs EXCEPT ![j] = job]
    <3>1. CASE MineNot(j)
      <4>1. PICK tx \in {"reverted", "displaced", "unsent"} : jobs' = [jobs EXCEPT ![j].tx = tx]
        BY <3>1 DEF MineNot
      <4>2. [jobs[j] EXCEPT !.tx = tx] \in Job
        BY <1>j DEF Job
      <4> QED BY <4>1, <4>2
    <3>2. CASE ReconcileJob(j)
      <4>1. PICK job : /\ jobs' = [jobs EXCEPT ![j] = job]
                       /\ job = CASE jobs[j].tx = "success" -> [jobs[j] EXCEPT !.status = "CONFIRMED"]
                                  [] jobs[j].tx = "reverted" -> [jobs[j] EXCEPT !.status = "REVERTED"]
                                  [] jobs[j].tx = "displaced" -> [jobs[j] EXCEPT !.status = "DROPPED"]
                                  [] jobs[j].tx = "unsent" -> [jobs[j] EXCEPT !.tx = "mempool"]
        BY <3>2 DEF ReconcileJob
      <4>2. jobs[j] \in Job /\ jobs[j].tx # "mempool"
        BY <1>j, <3>2 DEF ReconcileJob
      <4>3. jobs[j].tx \in {"success", "reverted", "displaced", "unsent"}
        BY <4>2 DEF Job
      <4>4. job \in {[jobs[j] EXCEPT !.status = "CONFIRMED"], [jobs[j] EXCEPT !.status = "REVERTED"],
                     [jobs[j] EXCEPT !.status = "DROPPED"], [jobs[j] EXCEPT !.tx = "mempool"]}
        BY <4>1, <4>3
      <4>5. job \in Job
        BY <4>2, <4>4 DEF Job
      <4> QED BY <4>1, <4>5
    <3> QED BY <1>4, <3>1, <3>2
  <2>2. jobs' \in Seq(Job) /\ Len(jobs') = Len(jobs) /\ DOMAIN jobs' = DOMAIN jobs
    BY <1>0, <2>1 DEF TypedTables
  <2>3. TypedTables'
    BY <1>0, <1>4, <2>2 DEF MineNot, ReconcileJob, TypedTables
  <2>4. TypedMatcher'
    BY <1>0, <1>4, <2>2 DEF MineNot, ReconcileJob, TypedMatcher
  <2> QED BY <2>3, <2>4, TypedHalves
<1>5. ASSUME NEW o \in Mortal, Withdraw(o) PROVE Typed'
  <2>1. o \in Orders
    BY Book
  <2>2. orders' \in [Orders -> [status : TRADEABLE \cup {"FILLED", "CANCELLED"}, filledSize : Nat]]
    BY <1>0, <1>5, <2>1 DEF Withdraw, TypedTables
  <2>3. TypedTables'
    BY <1>0, <1>5, <2>1, <2>2 DEF Withdraw, TypedTables
  <2>4. TypedMatcher'
    BY <1>0, <1>5 DEF Withdraw, TypedMatcher
  <2> QED BY <2>3, <2>4, TypedHalves
<1>6. ASSUME NEW o \in Mortal, NEW cause \in Cause \ {"none"}, Die(o, cause) PROVE Typed'
  <2>1. o \in Orders
    BY Book
  <2>2. dead' \in [Orders -> Cause]
    BY <1>0, <1>6, <2>1 DEF Die, TypedTables
  <2>3. log' = log \/ \E e \in CancelEvent : log' = Append(log, e)
    <3>1. \A kind \in {"OrderCancelled", "NoncesCancelledUpTo"} : [kind |-> kind, of |-> o] \in CancelEvent
      BY <2>1 DEF CancelEvent
    <3> QED BY <1>6, <3>1 DEF Die
  <2>4. log' \in Seq(FillEvent \cup CancelEvent) /\ cursor \in 0..Len(log')
    <3>1. log \in Seq(FillEvent \cup CancelEvent) /\ cursor \in 0..Len(log)
      BY <1>0 DEF TypedTables
    <3>2. ASSUME NEW e \in CancelEvent, log' = Append(log, e)
          PROVE  log' \in Seq(FillEvent \cup CancelEvent) /\ cursor \in 0..Len(log')
      BY <3>1, <3>2
    <3> QED BY <2>3, <3>1, <3>2
  <2>5. TypedTables'
    BY <1>0, <1>6, <2>2, <2>4 DEF Die, TypedTables
  <2>6. TypedMatcher'
    BY <1>0, <1>6 DEF Die, TypedMatcher
  <2> QED BY <2>5, <2>6, TypedHalves
<1>7. CASE Index
  <2>1. PICK e \in FillEvent \cup CancelEvent : e = log[cursor + 1]
    BY <1>0, <1>7 DEF Index, TypedTables
  <2>2. cursor' \in 0..Len(log)
    BY <1>0, <1>7 DEF Index, TypedTables
  <2>3. /\ DOMAIN fills' \subseteq FillId /\ IsFiniteSet(DOMAIN fills')
        /\ \A f \in DOMAIN fills' : fills'[f] \in Row
        /\ orders' \in [Orders -> [status : TRADEABLE \cup {"FILLED", "CANCELLED"}, filledSize : Nat]]
    <3>1. CASE e.kind = "FillSettled"
      <4>1. fills' = settledRow(e.of) /\ orders' = refreshOrders(fills', sides(e.of))
        BY <1>7, <2>1, <3>1 DEF Index
      <4>2. e.of \in FillId
        BY <3>1 DEF FillEvent, CancelEvent
      <4>3. PICK row : row = [ status |-> "SETTLED", rejectReason |-> FALSE,
                 txJobId |-> IF e.of \in DOMAIN fills THEN fills[e.of].txJobId ELSE NoJob ]
        OBVIOUS
      <4>4. row \in Row
        BY <1>0, <4>3 DEF Row, TypedTables
      <4>5. DOMAIN fills' = {e.of} \cup DOMAIN fills
            /\ \A f \in DOMAIN fills' : fills'[f] = IF f = e.of THEN row ELSE fills[f]
        BY <4>1, <4>3 DEF settledRow
      <4>6. IsFiniteSet({e.of} \cup DOMAIN fills)
        BY <1>0, FS_Singleton, FS_Union DEF TypedTables
      <4>7. DOMAIN fills' \subseteq FillId /\ IsFiniteSet(DOMAIN fills')
            /\ \A f \in DOMAIN fills' : fills'[f] \in Row
        BY <1>0, <4>2, <4>4, <4>5, <4>6 DEF TypedTables
      <4>8. orders' \in [Orders -> [status : TRADEABLE \cup {"FILLED", "CANCELLED"}, filledSize : Nat]]
        <5>1. ASSUME NEW o \in Orders
              PROVE  Min({OrderSize[o], settledIn(fills', o)}) \in Nat
          <6>1. {f \in DOMAIN fills' : fills'[f].status = "SETTLED" /\ o \in sides(f)} \in SUBSET FillId
                /\ IsFiniteSet({f \in DOMAIN fills' : fills'[f].status = "SETTLED" /\ o \in sides(f)})
            BY <4>7, FS_Subset
          <6>2. settledIn(fills', o) \in Nat
            BY <6>1, SizeNat DEF settledIn
          <6>3. OrderSize[o] \in Nat
            BY Book
          <6>4. Min({OrderSize[o], settledIn(fills', o)}) \in {OrderSize[o], settledIn(fills', o)}
            BY <6>2, <6>3, Least
          <6> QED BY <6>2, <6>3, <6>4
        <5>2. PICK m : m = [o \in Orders |-> Min({OrderSize[o], settledIn(fills', o)})]
          OBVIOUS
        <5>3. \A o \in Orders : m[o] \in Nat /\ m[o] = Min({OrderSize[o], settledIn(fills', o)})
          BY <5>1, <5>2
        <5>4. PICK s : s = [o \in Orders |-> IF orders[o].status = "CANCELLED" THEN "CANCELLED"
                           ELSE IF settledIn(fills', o) >= OrderSize[o] THEN "FILLED"
                           ELSE IF settledIn(fills', o) > 0 THEN "PARTIALLY_FILLED" ELSE "OPEN"]
          OBVIOUS
        <5>5. \A o \in Orders : s[o] \in TRADEABLE \cup {"FILLED", "CANCELLED"}
          BY <5>4 DEF TRADEABLE
        <5>6. orders' = [o \in Orders |-> IF o \notin sides(e.of) THEN orders[o]
                                          ELSE [filledSize |-> m[o], status |-> s[o]]]
          BY <4>1, <5>3, <5>4 DEF refreshOrders
        <5>7. \A o \in Orders : [filledSize |-> m[o], status |-> s[o]]
                \in [status : TRADEABLE \cup {"FILLED", "CANCELLED"}, filledSize : Nat]
          BY <5>3, <5>5
        <5> QED BY <1>0, <5>6, <5>7 DEF TypedTables
      <4> QED BY <4>7, <4>8
    <3>2. CASE e.kind = "FillRejected"
      <4>1. /\ orders' = orders
            /\ \/ fills' = fills
               \/ fills' = [fills EXCEPT ![e.of].status = "REJECTED", ![e.of].rejectReason = TRUE]
        BY <1>7, <2>1, <3>2 DEF Index
      <4>2. \A f \in DOMAIN fills : [fills[f] EXCEPT !.status = "REJECTED", !.rejectReason = TRUE] \in Row
        BY <1>0 DEF Row, TypedTables
      <4>3. DOMAIN fills' = DOMAIN fills
            /\ \A f \in DOMAIN fills : fills'[f] \in {fills[f], [fills[f] EXCEPT !.status = "REJECTED", !.rejectReason = TRUE]}
        <5>1. CASE fills' = fills
          BY <5>1
        <5>2. CASE fills' = [fills EXCEPT ![e.of].status = "REJECTED", ![e.of].rejectReason = TRUE]
          <6>1. DOMAIN fills' = DOMAIN fills
            BY <5>2
          <6>2. ASSUME NEW f \in DOMAIN fills, f # e.of PROVE fills'[f] = fills[f]
            BY <5>2, <6>2
          <6>3. e.of \in DOMAIN fills =>
                  fills'[e.of] = [fills[e.of] EXCEPT !.status = "REJECTED", !.rejectReason = TRUE]
            BY <5>2
          <6> QED BY <6>1, <6>2, <6>3
        <5> QED BY <4>1, <5>1, <5>2
      <4>4. \A f \in DOMAIN fills : fills'[f] \in Row
        <5>1. \A f \in DOMAIN fills : fills[f] \in Row
          BY <1>0 DEF TypedTables
        <5> QED BY <4>2, <4>3, <5>1
      <4>5. /\ DOMAIN fills \subseteq FillId /\ IsFiniteSet(DOMAIN fills)
            /\ orders \in [Orders -> [status : TRADEABLE \cup {"FILLED", "CANCELLED"}, filledSize : Nat]]
        BY <1>0 DEF TypedTables
      <4> QED BY <4>1, <4>3, <4>4, <4>5
    <3>3. CASE e.kind \in {"OrderCancelled", "NoncesCancelledUpTo"}
      <4>1. /\ fills' = fills
            /\ orders' = orders \/ orders' = [orders EXCEPT ![e.of].status = "CANCELLED"]
        BY <1>7, <2>1, <3>3 DEF Index
      <4> QED BY <1>0, <4>1 DEF TypedTables
    <3> QED BY <1>7, <2>1, <3>1, <3>2, <3>3 DEF Index
  <2>4. TypedTables'
    BY <1>0, <1>7, <2>2, <2>3 DEF Index, TypedTables
  <2>5. TypedMatcher'
    BY <1>0, <1>7 DEF Index, TypedMatcher
  <2> QED BY <2>4, <2>5, TypedHalves
<1>8. CASE UNCHANGED vars
  BY <1>8, TypedHalves DEF vars, TypedTables, TypedMatcher
<1>9. ASSUME NEW o \in Mortal, Wallet(o) PROVE Typed'
  <2>1. signature' \in [Orders -> Signature]
    BY <1>0, <1>9, Book DEF Wallet, TypedTables, Signature
  <2>2. TypedTables'
    BY <1>0, <1>9, <2>1 DEF Wallet, TypedTables
  <2>3. TypedMatcher'
    BY <1>0, <1>9 DEF Wallet, TypedMatcher
  <2> QED BY <2>2, <2>3, TypedHalves
<1> QED BY <1>1, <1>2, <1>3, <1>4, <1>5, <1>6, <1>7, <1>8, <1>9 DEF Next

-----------------------------------------------------------------------------
(* The order table follows the fill table, which follows the chain.        *)

\* The sum of an order's settled rows.
LEMMA SettledInIs ==
  ASSUME NEW rows, NEW o
  PROVE  settledIn(rows, o) = volume({f \in DOMAIN rows : rows[f].status = "SETTLED"}, o)
<1>1. {f \in DOMAIN rows : rows[f].status = "SETTLED" /\ o \in sides(f)}
      = {f \in {g \in DOMAIN rows : rows[g].status = "SETTLED"} : o \in sides(f)}
  OBVIOUS
<1> QED BY <1>1 DEF settledIn, volume, about

\* Steps that settle no row, mine no batch and report nothing new.
LEMMA RecordedKept ==
  ASSUME Recorded, settledRows' = settledRows, UNCHANGED <<log, filled>>,
         \A o \in Orders : orders'[o].filledSize = orders[o].filledSize,
         \A j \in DOMAIN jobs' : \A r \in ToSet(jobs'[j].rejected) :
            \E i \in DOMAIN jobs : r \in ToSet(jobs[i].rejected),
         \A r \in ToSet(matcher'.rejected) :
            r \in ToSet(matcher.rejected) \/ \E i \in DOMAIN jobs : r \in ToSet(jobs[i].rejected)
  PROVE  Recorded'
<1>1. settledOnChain' = settledOnChain /\ rejectedOnChain' = rejectedOnChain
  BY DEF settledOnChain, rejectedOnChain
<1>2. \A o \in Orders : settledIn(fills', o) = settledIn(fills, o)
  BY SettledInIs DEF settledRows
<1> QED BY <1>1, <1>2 DEF Recorded

\* A job whose status or transaction changed reports the same.
LEMMA SameReports ==
  ASSUME DOMAIN jobs' = DOMAIN jobs, \A j \in DOMAIN jobs : jobs'[j].rejected = jobs[j].rejected
  PROVE  \A j \in DOMAIN jobs' : \A r \in ToSet(jobs'[j].rejected) :
           \E i \in DOMAIN jobs : r \in ToSet(jobs[i].rejected)
  OBVIOUS

\* The matcher's own steps keep what is recorded,
LEMMA RecordedStep ==
  ASSUME Typed, Recorded, Step
  PROVE  Recorded'
<1>0. TypedTables /\ TypedMatcher
  BY TypedHalves
<1>m. matcher \in Matcher /\ matcher.rejected \in Seq(Rejection)
  BY <1>0 DEF TypedMatcher, Matcher
<1>e. \A r : r \notin ToSet(<<>>)
  BY DEF ToSet
<1>r. ASSUME NEW queue, Rested(matcher', queue)
      PROVE  \A r \in ToSet(matcher'.rejected) : FALSE
  BY <1>e, <1>r DEF Rested
<1>1. CASE Start \/ RecoverJob \/ ScanOrphans \/ Tick
  <2>1. UNCHANGED <<fills, orders, jobs, filled, log>>
    BY <1>1 DEF Start, RecoverJob, ScanOrphans, Tick
  <2>2. matcher'.rejected = matcher.rejected \/ matcher'.rejected = <<>>
    <3>1. Down.rejected = <<>>
      BY DownTyped
    <3>2. CASE Start
      <4>1. PICK d : d = Down
        OBVIOUS
      <4>2. d \in Matcher
        BY <4>1, DownTyped
      <4>3. matcher' = [d EXCEPT !.pc = "recover", !.recovering = TRUE,
                             !.todo = {j \in DOMAIN jobs : jobs[j].status = "OPEN"}]
        BY <3>2, <4>1 DEF Start
      <4> QED BY <3>1, <4>1, <4>2, <4>3 DEF Matcher
    <3>3. CASE RecoverJob
      BY <1>m, <3>3 DEF RecoverJob, Matcher
    <3>4. CASE ScanOrphans
      BY <1>m, <3>4 DEF ScanOrphans, Matcher
    <3>5. CASE Tick
      BY <1>m, <3>5 DEF Tick, Matcher
    <3> QED BY <1>1, <3>2, <3>3, <3>4, <3>5
  <2>3. \A r \in ToSet(matcher'.rejected) : r \in ToSet(matcher.rejected)
    BY <1>e, <2>2
  <2>4. settledRows' = settledRows
    BY <2>1 DEF settledRows
  <2> QED BY <2>1, <2>3, <2>4, RecordedKept
<1>2. CASE TimedOut \/ Applied
  <2>1. UNCHANGED <<fills, orders, jobs, filled, log>>
    BY <1>2 DEF TimedOut, Applied
  <2>2. matcher'.rejected = <<>>
    <3>1. PICK c : c = carryOn(matcher.queue) /\ Rested(c, matcher.queue)
      BY <1>m, CarriesOn DEF Matcher
    <3>2. TimedOut => matcher' = c
      BY <3>1 DEF TimedOut
    <3>3. PICK H : Applied => matcher' = [c EXCEPT !.held = H]
      <4>1. Applied => matcher' = [c EXCEPT !.held =
                cleared(strike(c.held, recordRejectionBackoff(ToSet(jobs[matcher.job].rejected))),
                  ToSet(matcher.batch) \ {r.fill : r \in ToSet(jobs[matcher.job].rejected)})]
        BY <3>1 DEF Applied, Rested, Matcher
      <4> QED BY <4>1
    <3> QED BY <1>2, <3>1, <3>2, <3>3 DEF Rested, Matcher
  <2>3. settledRows' = settledRows
    BY <2>1 DEF settledRows
  <2> QED BY <1>e, <2>1, <2>2, <2>3, RecordedKept
<1>3. CASE Reserve
  <2>1. UNCHANGED <<orders, jobs, filled, log>> /\ matcher'.rejected = matcher.rejected
    BY <1>3, <1>m DEF Reserve, Matcher
  <2>2. settledRows' = settledRows
    BY <1>3 DEF Reserve, with, settledRows
  <2> QED BY <2>1, <2>2, RecordedKept
<1>4. CASE Submit \/ SubmitFails
  <2>1. UNCHANGED <<fills, orders, filled, log>> /\ matcher'.rejected = matcher.rejected
    BY <1>4, <1>m DEF Submit, SubmitFails, Matcher
  <2>2. PICK status, tx : jobs' = submitted(status, tx)
    BY <1>4 DEF Submit, SubmitFails
  <2>3. \A j \in DOMAIN jobs' : (j \in DOMAIN jobs /\ jobs'[j] = jobs[j]) \/ jobs'[j].rejected = <<>>
    <3>1. jobs \in Seq(Job)
      BY <1>0 DEF TypedTables
    <3> QED BY <2>2, <3>1 DEF submitted
  <2>4. settledRows' = settledRows
    BY <2>1 DEF settledRows
  <2>5. \A j \in DOMAIN jobs' : \A r \in ToSet(jobs'[j].rejected) :
          \E i \in DOMAIN jobs : r \in ToSet(jobs[i].rejected)
    BY <1>e, <2>3
  <2> QED BY <2>1, <2>4, <2>5, RecordedKept
<1>5. CASE Undo \/ ReleaseReverted \/ ReleaseOrphans
  <2>1. UNCHANGED <<orders, jobs, filled, log>>
    BY <1>5 DEF Undo, ReleaseReverted, ReleaseOrphans
  <2>2. PICK R : fills' = without(R)
    BY <1>5 DEF Undo, ReleaseReverted, ReleaseOrphans
  <2>3. settledRows' = settledRows
    BY <2>2 DEF without, pending, settledRows
  <2>4. matcher'.rejected = <<>>
    <3>1. CASE Undo \/ ReleaseOrphans
      <4>1. Rested(matcher', <<>>)
        BY <1>m, <3>1, IdleAgain DEF Undo, ReleaseOrphans
      <4> QED BY <4>1 DEF Rested
    <3>2. CASE ReleaseReverted
      <4>1. matcher'.rejected = Down.rejected
        <5>1. PICK q : matcher' = carryOn(q)
          BY <3>2 DEF ReleaseReverted
        <5>2. PICK d : d = Down
          OBVIOUS
        <5>3. d \in Matcher
          BY <5>2, DownTyped
        <5>4. \E a, b, c, h : carryOn(q) = [d EXCEPT !.pc = a, !.recovering = b, !.queue = q, !.todo = c, !.held = h]
          BY <5>2 DEF carryOn
        <5> QED BY <5>1, <5>2, <5>3, <5>4 DEF Matcher
      <4> QED BY <4>1, DownTyped
    <3> QED BY <1>5, <3>1, <3>2
  <2> QED BY <1>e, <2>1, <2>3, <2>4, RecordedKept
<1>6. CASE Link
  <2>1. UNCHANGED <<orders, jobs, filled, log>> /\ matcher'.rejected = matcher.rejected
    BY <1>6, <1>m DEF Link, Matcher
  <2>2. settledRows' = settledRows
    <3>1. DOMAIN fills' = DOMAIN fills /\ \A f \in DOMAIN fills : fills'[f].status = fills[f].status
      <4>1. \A f \in DOMAIN fills : fills[f] \in Row
        BY <1>0 DEF TypedTables
      <4> QED BY <1>6, <4>1 DEF Link, linked, Row
    <3> QED BY <3>1 DEF settledRows
  <2> QED BY <2>1, <2>2, RecordedKept
<1>7. CASE Mined \/ NonceTaken
  <2>1. UNCHANGED <<fills, orders, filled, log>>
    BY <1>7 DEF Mined, NonceTaken
  <2>2. PICK status : jobs' = [jobs EXCEPT ![matcher.job].status = status]
    BY <1>7 DEF Mined, NonceTaken, recorded
  <2>3. DOMAIN jobs' = DOMAIN jobs /\ \A j \in DOMAIN jobs : jobs'[j].rejected = jobs[j].rejected
    <3>1. \A j \in DOMAIN jobs : jobs[j] \in Job
      BY <1>0 DEF TypedTables
    <3> QED BY <2>2, <3>1 DEF Job
  <2>4. matcher.job \in DOMAIN jobs
    BY <1>0, <1>7 DEF Mined, NonceTaken, TypedMatcher
  <2>5. \A r \in ToSet(matcher'.rejected) :
          r \in ToSet(matcher.rejected) \/ \E i \in DOMAIN jobs : r \in ToSet(jobs[i].rejected)
    <3>1. CASE NonceTaken
      <4>1. Rested(matcher', <<>>)
        BY <1>m, <3>1, IdleAgain, DownRested DEF NonceTaken
      <4> QED BY <1>r, <4>1
    <3>2. CASE Mined
      <4>1. CASE \E queue \in Seq(Seq(FillId)) : matcher' = carryOn(queue)
        BY <1>m, <1>r, <4>1, CarriesOn
      <4>2. CASE matcher' = [matcher EXCEPT !.pc = "apply", !.rejected = jobs[matcher.job].rejected]
        BY <1>m, <2>4, <4>2 DEF Matcher
      <4>3. CASE matcher' = [matcher EXCEPT !.pc = "reverted"]
        BY <1>m, <4>3 DEF Matcher
      <4>4. matcher.queue \in Seq(Seq(FillId)) /\ <<>> \in Seq(Seq(FillId))
        BY <1>m DEF Matcher
      <4> QED BY <3>2, <4>1, <4>2, <4>3, <4>4 DEF Mined
    <3> QED BY <1>7, <3>1, <3>2
  <2>6. settledRows' = settledRows
    BY <2>1 DEF settledRows
  <2> QED BY <2>1, <2>3, <2>5, <2>6, RecordedKept, SameReports
<1>8. CASE Apply
  <2>1. UNCHANGED <<jobs, filled, log>>
    BY <1>8 DEF Apply
  <2>2. \A r \in ToSet(matcher'.rejected) : r \in ToSet(matcher.rejected)
    <3>1. matcher'.rejected = Tail(matcher.rejected) /\ matcher.rejected # <<>>
      BY <1>8, <1>m DEF Apply, Matcher
    <3>2. PICK s \in Seq(Rejection) : s = matcher.rejected
      BY <1>m
    <3>3. \A r \in ToSet(Tail(s)) : r \in ToSet(s)
      BY <3>1, <3>2 DEF ToSet
    <3> QED BY <3>1, <3>2, <3>3
  <2>3. settledRows' = settledRows
    <3>1. DOMAIN fills' = DOMAIN fills /\ \A f \in DOMAIN fills : fills'[f].status = fills[f].status
      <4>1. \A f \in DOMAIN fills : fills[f] \in Row
        BY <1>0 DEF TypedTables
      <4>2. PICK x : fills' = IF pending(x) THEN [fills EXCEPT ![x].rejectReason = TRUE] ELSE fills
        BY <1>8 DEF Apply
      <4> QED BY <4>1, <4>2 DEF Row
    <3> QED BY <3>1 DEF settledRows
  <2>4. \A o \in Orders : orders'[o].filledSize = orders[o].filledSize
    <3>1. PICK B : orders' = [o \in Orders |->
              IF o \in B /\ Head(matcher.rejected).fill \in ToSet(matcher.batch)
                 /\ orders[o].status \in TRADEABLE
              THEN [orders[o] EXCEPT !.status = "CANCELLED"] ELSE orders[o]]
      BY <1>8 DEF Apply
    <3>2. \A o \in Orders : orders[o] \in [status : TRADEABLE \cup {"FILLED", "CANCELLED"}, filledSize : Nat]
      BY <1>0 DEF TypedTables
    <3> QED BY <3>1, <3>2
  <2> QED BY <2>1, <2>2, <2>3, <2>4, RecordedKept
<1> QED BY <1>1, <1>2, <1>3, <1>4, <1>5, <1>6, <1>7, <1>8 DEF Step

\* What the indexer does to the rows.
LEMMA IndexedRows ==
  ASSUME Typed, Index, NEW e, e = log[cursor + 1]
  PROVE  /\ e \in FillEvent \cup CancelEvent /\ cursor + 1 \in DOMAIN log
         /\ e.kind = "FillSettled" =>
              /\ e.of \in FillId /\ e.of \in settledOnChain
              /\ DOMAIN fills' = {e.of} \cup DOMAIN fills
              /\ \A f \in DOMAIN fills \ {e.of} : fills'[f] = fills[f]
              /\ fills'[e.of].status = "SETTLED" /\ ~fills'[e.of].rejectReason
              /\ orders' = refreshOrders(fills', sides(e.of))
              /\ settledRows' = settledRows \cup {e.of}
         /\ e.kind = "FillRejected" =>
              /\ e.of \in FillId /\ e.of \in rejectedOnChain
              /\ DOMAIN fills' = DOMAIN fills
              /\ \A f \in DOMAIN fills \ {e.of} : fills'[f] = fills[f]
              /\ e.of \in DOMAIN fills =>
                   \/ fills'[e.of].status = "REJECTED" /\ fills'[e.of].rejectReason
                   \/ fills'[e.of] = fills[e.of] /\ fills[e.of].status = "SETTLED"
              /\ orders' = orders /\ settledRows' = settledRows
         /\ e.kind \in {"OrderCancelled", "NoncesCancelledUpTo"} =>
              /\ e \in CancelEvent /\ fills' = fills /\ settledRows' = settledRows
              /\ orders' = IF orders[e.of].status \in TRADEABLE
                           THEN [orders EXCEPT ![e.of].status = "CANCELLED"] ELSE orders
<1>0. TypedTables
  BY TypedHalves
<1>1. cursor + 1 \in DOMAIN log /\ e \in FillEvent \cup CancelEvent
  BY <1>0 DEF TypedTables, Index
<1>2. ASSUME e.kind = "FillSettled"
      PROVE  /\ e.of \in FillId /\ e.of \in settledOnChain
             /\ DOMAIN fills' = {e.of} \cup DOMAIN fills
             /\ \A f \in DOMAIN fills \ {e.of} : fills'[f] = fills[f]
             /\ fills'[e.of].status = "SETTLED" /\ ~fills'[e.of].rejectReason
             /\ orders' = refreshOrders(fills', sides(e.of))
             /\ settledRows' = settledRows \cup {e.of}
  <2>1. e.of \in FillId
    BY <1>1, <1>2 DEF FillEvent, CancelEvent
  <2>2. e.of \in settledOnChain
    BY <1>1, <1>2 DEF settledOnChain, settledBy
  <2>3. fills' = settledRow(e.of) /\ orders' = refreshOrders(fills', sides(e.of))
    BY <1>2 DEF Index
  <2>4. /\ DOMAIN fills' = {e.of} \cup DOMAIN fills
        /\ \A f \in DOMAIN fills \ {e.of} : fills'[f] = fills[f]
        /\ fills'[e.of].status = "SETTLED" /\ ~fills'[e.of].rejectReason
    BY <2>3 DEF settledRow
  <2>5. settledRows' = settledRows \cup {e.of}
    BY <2>4 DEF settledRows
  <2> QED BY <2>1, <2>2, <2>3, <2>4, <2>5
<1>3. ASSUME e.kind = "FillRejected"
      PROVE  /\ e.of \in FillId /\ e.of \in rejectedOnChain
             /\ DOMAIN fills' = DOMAIN fills
             /\ \A f \in DOMAIN fills \ {e.of} : fills'[f] = fills[f]
             /\ e.of \in DOMAIN fills =>
                  \/ fills'[e.of].status = "REJECTED" /\ fills'[e.of].rejectReason
                  \/ fills'[e.of] = fills[e.of] /\ fills[e.of].status = "SETTLED"
             /\ orders' = orders /\ settledRows' = settledRows
  <2>1. e.of \in FillId
    BY <1>1, <1>3 DEF FillEvent, CancelEvent
  <2>2. e.of \in rejectedOnChain
    BY <1>1, <1>3 DEF rejectedOnChain, rejectedBy
  <2>3. /\ orders' = orders
        /\ fills' = IF e.of \in DOMAIN fills /\ fills[e.of].status # "SETTLED"
                    THEN [fills EXCEPT ![e.of].status = "REJECTED", ![e.of].rejectReason = TRUE]
                    ELSE fills
    BY <1>3 DEF Index
  <2>4. CASE e.of \in DOMAIN fills /\ fills[e.of].status # "SETTLED"
    <3>1. fills[e.of] \in Row
      BY <1>0, <2>4 DEF TypedTables
    <3>2. /\ DOMAIN fills' = DOMAIN fills
          /\ \A f \in DOMAIN fills \ {e.of} : fills'[f] = fills[f]
          /\ fills'[e.of] = [fills[e.of] EXCEPT !.status = "REJECTED", !.rejectReason = TRUE]
      BY <2>3, <2>4
    <3>3. fills'[e.of].status = "REJECTED" /\ fills'[e.of].rejectReason
      BY <3>1, <3>2 DEF Row
    <3>4. settledRows' = settledRows
      <4>1. ASSUME NEW f \in DOMAIN fills
            PROVE  fills'[f].status = "SETTLED" <=> fills[f].status = "SETTLED"
        <5>1. CASE f = e.of
          BY <2>4, <3>3, <5>1
        <5>2. CASE f # e.of
          <6>1. fills'[f] = fills[f]
            BY <3>2, <5>2
          <6> QED BY <6>1
        <5> QED BY <5>1, <5>2
      <4>2. DOMAIN fills' = DOMAIN fills
        BY <3>2
      <4> QED BY <4>1, <4>2 DEF settledRows
    <3> QED BY <2>1, <2>2, <2>3, <3>2, <3>3, <3>4
  <2>5. CASE ~(e.of \in DOMAIN fills /\ fills[e.of].status # "SETTLED")
    <3>1. fills' = fills
      BY <2>3, <2>5
    <3>2. settledRows' = settledRows
      BY <3>1 DEF settledRows
    <3> QED BY <2>1, <2>2, <2>3, <2>5, <3>1, <3>2
  <2> QED BY <2>4, <2>5
<1>4. ASSUME e.kind \in {"OrderCancelled", "NoncesCancelledUpTo"}
      PROVE  /\ e \in CancelEvent /\ fills' = fills /\ settledRows' = settledRows
             /\ orders' = IF orders[e.of].status \in TRADEABLE
                          THEN [orders EXCEPT ![e.of].status = "CANCELLED"] ELSE orders
  <2>1. e \in CancelEvent
    BY <1>1, <1>4 DEF FillEvent, CancelEvent
  <2>2. /\ fills' = fills
        /\ orders' = IF orders[e.of].status \in TRADEABLE
                          THEN [orders EXCEPT ![e.of].status = "CANCELLED"] ELSE orders
    BY <1>4 DEF Index
  <2>3. settledRows' = settledRows
    BY <2>2 DEF settledRows
  <2> QED BY <2>1, <2>2, <2>3
<1> QED BY <1>1, <1>2, <1>3, <1>4

\* and so does every other.
LEMMA RecordedWorld ==
  ASSUME Typed, Recorded, [Next]_vars, ~Step
  PROVE  Recorded'
<1>0. TypedTables /\ TypedMatcher
  BY TypedHalves
<1>e. \A r : r \notin ToSet(<<>>)
  BY DEF ToSet
<1>m. matcher \in Matcher
  BY <1>0 DEF TypedMatcher
<1>1. CASE Crash
  <2>1. UNCHANGED <<fills, orders, filled, log>> /\ matcher'.rejected = <<>>
    BY <1>1, DownTyped DEF Crash
  <2>2. \A j \in DOMAIN jobs' : (j \in DOMAIN jobs /\ jobs'[j] = jobs[j]) \/ jobs'[j].rejected = <<>>
    <3>1. jobs \in Seq(Job)
      BY <1>0 DEF TypedTables
    <3>2. jobs' = jobs \/ jobs' = submitted("OPEN", "unsent")
      BY <1>1 DEF Crash
    <3> QED BY <3>1, <3>2 DEF submitted
  <2>3. settledRows' = settledRows
    BY <2>1 DEF settledRows
  <2>4. \A j \in DOMAIN jobs' : \A r \in ToSet(jobs'[j].rejected) :
          \E i \in DOMAIN jobs : r \in ToSet(jobs[i].rejected)
    BY <1>e, <2>2
  <2> QED BY <1>e, <2>1, <2>3, <2>4, RecordedKept
<1>2. CASE Fails
  <2>1. UNCHANGED <<fills, orders, jobs, filled, log>>
    BY <1>2 DEF Fails
  <2>2. matcher'.rejected = <<>>
    BY <1>2, <1>m, IdleAgain DEF Fails, Rested
  <2>3. settledRows' = settledRows
    BY <2>1 DEF settledRows
  <2> QED BY <1>e, <2>1, <2>2, <2>3, RecordedKept
<1>3. ASSUME NEW j \in DOMAIN jobs, Mine(j) PROVE Recorded'
  <2>0. PICK refused \in SUBSET ToSet(jobs[j].batch) : \E r :
          /\ r = executed(jobs[j].batch, refused)
          /\ jobs' = [jobs EXCEPT ![j].tx = "success", ![j].rejected = r.rejected]
          /\ filled' = r.filled /\ log' = log \o r.events
    BY <1>3 DEF Mine
  <2>1. PICK r :
          /\ r = executed(jobs[j].batch, refused)
          /\ jobs' = [jobs EXCEPT ![j].tx = "success", ![j].rejected = r.rejected]
          /\ filled' = r.filled /\ log' = log \o r.events
    BY <2>0
  <2>2. Outcome(r, ToSet(jobs[j].batch), settledOnChain, FALSE)
    <3>1. \A o \in Orders : volume(settledOnChain, o) <= filled[o]
      BY DEF Recorded
    <3> QED BY <2>1, <3>1, MinedBatch
  <2>3. /\ r \in Results /\ \A x \in ToSet(r.rejected) : x.fill \in rejectedBy(r.events)
        /\ \A o \in Orders : volume(settledOnChain \cup settledBy(r.events), o) <= r.filled[o]
    BY <2>2 DEF Outcome
  <2>4. /\ settledOnChain' = settledOnChain \cup settledBy(r.events)
        /\ rejectedOnChain' = rejectedOnChain \cup rejectedBy(r.events)
    <3>1. r.events \in Seq(FillEvent \cup CancelEvent) /\ log \in Seq(FillEvent \cup CancelEvent)
      BY <1>0, <2>3 DEF TypedTables, Results
    <3> QED BY <2>1, <3>1, MoreEvents DEF settledOnChain, rejectedOnChain
  <2>5. UNCHANGED <<fills, orders, matcher>>
    BY <1>3 DEF Mine
  <2>6. \A i \in DOMAIN jobs' : \A x \in ToSet(jobs'[i].rejected) : x.fill \in rejectedOnChain'
    <3>1. \A i \in DOMAIN jobs : jobs[i] \in Job
      BY <1>0 DEF TypedTables
    <3>2. DOMAIN jobs' = DOMAIN jobs /\ \A i \in DOMAIN jobs :
            jobs'[i].rejected = IF i = j THEN r.rejected ELSE jobs[i].rejected
      BY <2>1, <3>1 DEF Job
    <3>3. \A i \in DOMAIN jobs : \A x \in ToSet(jobs[i].rejected) : x.fill \in rejectedOnChain
      BY DEF Recorded
    <3> QED BY <2>3, <2>4, <3>2, <3>3
  <2>7. \A x \in ToSet(matcher'.rejected) : x.fill \in rejectedOnChain'
    BY <2>4, <2>5 DEF Recorded
  <2>8. settledRows' \subseteq settledOnChain'
    BY <2>4, <2>5 DEF Recorded, settledRows
  <2>9. \A o \in Orders : /\ volume(settledOnChain', o) <= filled'[o]
                          /\ orders'[o].filledSize = Min({OrderSize[o], settledIn(fills', o)})
    BY <2>1, <2>3, <2>4, <2>5 DEF Recorded
  <2> QED BY <2>6, <2>7, <2>8, <2>9 DEF Recorded
<1>4. ASSUME NEW j \in DOMAIN jobs, MineNot(j) \/ ReconcileJob(j) PROVE Recorded'
  <2>1. UNCHANGED <<fills, orders, filled, log, matcher>>
    BY <1>4 DEF MineNot, ReconcileJob
  <2>2. DOMAIN jobs' = DOMAIN jobs /\ \A i \in DOMAIN jobs : jobs'[i].rejected = jobs[i].rejected
    <3>1. \A i \in DOMAIN jobs : jobs[i] \in Job
      BY <1>0 DEF TypedTables
    <3>2. CASE MineNot(j)
      <4>1. PICK tx : jobs' = [jobs EXCEPT ![j].tx = tx]
        BY <3>2 DEF MineNot
      <4> QED BY <3>1, <4>1 DEF Job
    <3>3. CASE ReconcileJob(j)
      <4>1. PICK job : /\ jobs' = [jobs EXCEPT ![j] = job]
                       /\ job = CASE jobs[j].tx = "success" -> [jobs[j] EXCEPT !.status = "CONFIRMED"]
                                  [] jobs[j].tx = "reverted" -> [jobs[j] EXCEPT !.status = "REVERTED"]
                                  [] jobs[j].tx = "displaced" -> [jobs[j] EXCEPT !.status = "DROPPED"]
                                  [] jobs[j].tx = "unsent" -> [jobs[j] EXCEPT !.tx = "mempool"]
        BY <3>3 DEF ReconcileJob
      <4>2. jobs[j] \in Job /\ jobs[j].tx # "mempool"
        BY <3>1, <3>3 DEF ReconcileJob
      <4>3. jobs[j].tx \in {"success", "reverted", "displaced", "unsent"}
        BY <4>2 DEF Job
      <4>4. job \in {[jobs[j] EXCEPT !.status = "CONFIRMED"], [jobs[j] EXCEPT !.status = "REVERTED"],
                     [jobs[j] EXCEPT !.status = "DROPPED"], [jobs[j] EXCEPT !.tx = "mempool"]}
        BY <4>1, <4>3
      <4>5. job.rejected = jobs[j].rejected
        BY <4>2, <4>4 DEF Job
      <4> QED BY <4>1, <4>5
    <3> QED BY <1>4, <3>2, <3>3
  <2>3. settledRows' = settledRows
    BY <2>1 DEF settledRows
  <2> QED BY <2>1, <2>2, <2>3, RecordedKept, SameReports
<1>5. ASSUME NEW o \in Mortal, Withdraw(o) PROVE Recorded'
  <2>1. UNCHANGED <<fills, jobs, filled, log, matcher>>
    BY <1>5 DEF Withdraw
  <2>2. settledRows' = settledRows
    BY <2>1 DEF settledRows
  <2>3. \A p \in Orders : orders'[p].filledSize = orders[p].filledSize
    BY <1>0, <1>5 DEF Withdraw, TypedTables
  <2> QED BY <2>1, <2>2, <2>3, RecordedKept
<1>6. ASSUME NEW o \in Mortal, NEW cause \in Cause \ {"none"}, Die(o, cause) PROVE Recorded'
  <2>1. UNCHANGED <<fills, orders, jobs, filled, matcher>>
    BY <1>6 DEF Die
  <2>2. settledRows' = settledRows
    BY <2>1 DEF settledRows
  <2>3. settledOnChain' = settledOnChain /\ rejectedOnChain' = rejectedOnChain
    <3>1. log' = log \/ \E e \in CancelEvent : log' = Append(log, e)
      <4>1. \A kind \in {"OrderCancelled", "NoncesCancelledUpTo"} : [kind |-> kind, of |-> o] \in CancelEvent
        BY Book DEF CancelEvent
      <4> QED BY <1>6, <4>1 DEF Die
    <3>2. CASE log' = log
      BY <3>2 DEF settledOnChain, rejectedOnChain
    <3>3. ASSUME NEW e \in CancelEvent, log' = Append(log, e)
          PROVE  settledOnChain' = settledOnChain /\ rejectedOnChain' = rejectedOnChain
      <4>1. log \in Seq(FillEvent \cup CancelEvent)
        BY <1>0 DEF TypedTables
      <4>2. e.kind # "FillSettled" /\ e.kind # "FillRejected"
        BY DEF CancelEvent
      <4>3. /\ settledBy(Append(log, e)) = settledBy(log) \cup (IF e.kind = "FillSettled" THEN {e.of} ELSE {})
            /\ rejectedBy(Append(log, e)) = rejectedBy(log) \cup (IF e.kind = "FillRejected" THEN {e.of} ELSE {})
        BY <4>1, OneMoreEvent
      <4> QED BY <3>3, <4>2, <4>3 DEF settledOnChain, rejectedOnChain
    <3> QED BY <3>1, <3>2, <3>3
  <2> QED BY <2>1, <2>2, <2>3 DEF Recorded
<1>7. CASE Index
  <2>1. PICK e : e = log[cursor + 1]
    OBVIOUS
  <2>2. UNCHANGED <<jobs, filled, log, matcher>>
    BY <1>7 DEF Index
  <2>3. settledOnChain' = settledOnChain /\ rejectedOnChain' = rejectedOnChain
    BY <2>2 DEF settledOnChain, rejectedOnChain
  <2>4. e \in FillEvent \cup CancelEvent
    BY <1>7, <2>1, IndexedRows
  <2>5. CASE e.kind = "FillSettled"
    <3>1. /\ e.of \in FillId /\ e.of \in settledOnChain
          /\ orders' = refreshOrders(fills', sides(e.of))
          /\ settledRows' = settledRows \cup {e.of}
      BY <1>7, <2>1, <2>5, IndexedRows
    <3>2. ASSUME NEW o \in Orders
          PROVE  orders'[o].filledSize = Min({OrderSize[o], settledIn(fills', o)})
      <4>1. CASE o \in sides(e.of)
        BY <3>1, <4>1 DEF refreshOrders
      <4>2. CASE o \notin sides(e.of)
        <5>1. about(settledRows', o) = about(settledRows, o)
          BY <3>1, <4>2 DEF about
        <5>2. settledIn(fills', o) = settledIn(fills, o)
          BY <5>1, SettledInIs DEF settledRows, volume
        <5> QED BY <3>1, <4>2, <5>2 DEF refreshOrders, Recorded
      <4> QED BY <4>1, <4>2
    <3> QED BY <2>2, <2>3, <3>1, <3>2 DEF Recorded
  <2>6. CASE e.kind = "FillRejected"
    <3>1. orders' = orders /\ settledRows' = settledRows
      BY <1>7, <2>1, <2>6, IndexedRows
    <3> QED BY <2>2, <3>1, RecordedKept
  <2>7. CASE e.kind \in {"OrderCancelled", "NoncesCancelledUpTo"}
    <3>1. /\ settledRows' = settledRows
          /\ orders' = IF orders[e.of].status \in TRADEABLE
                       THEN [orders EXCEPT ![e.of].status = "CANCELLED"] ELSE orders
      BY <1>7, <2>1, <2>7, IndexedRows
    <3>2. \A o \in Orders : orders'[o].filledSize = orders[o].filledSize
      BY <1>0, <3>1 DEF TypedTables
    <3> QED BY <2>2, <3>1, <3>2, RecordedKept
  <2> QED BY <2>4, <2>5, <2>6, <2>7 DEF FillEvent, CancelEvent
<1>8. CASE UNCHANGED vars
  <2>1. UNCHANGED <<fills, orders, jobs, filled, log, matcher>>
    BY <1>8 DEF vars
  <2>2. settledRows' = settledRows
    BY <2>1 DEF settledRows
  <2> QED BY <2>1, <2>2, RecordedKept
<1>9. ASSUME NEW o \in Mortal, Wallet(o) PROVE Recorded'
  <2>1. UNCHANGED <<fills, orders, jobs, filled, log, matcher>>
    BY <1>9 DEF Wallet
  <2>2. settledRows' = settledRows
    BY <2>1 DEF settledRows
  <2> QED BY <2>1, <2>2, RecordedKept
<1> QED BY <1>1, <1>2, <1>3, <1>4, <1>5, <1>6, <1>7, <1>8, <1>9 DEF Next

-----------------------------------------------------------------------------
(* Only orders that are faulty or withdrawn are retired.                   *)

\* Steps that leave the faulty and the withdrawn as they are, or add to them.
LEMMA RetiredKept ==
  ASSUME Retired,
         \A i \in 1..Len(log') : \/ i \in 1..Len(log) /\ log'[i] = log[i]
                                 \/ log'[i].kind \notin {"OrderCancelled", "NoncesCancelledUpTo"}
                                 \/ dead'[log'[i].of] # "none",
         \A x : dead[x] # "none" => dead'[x] # "none",
         \A o \in Orders : signature[o] # "good" => signature'[o] # "good",
         withdrawn \subseteq withdrawn',
         \A o \in Orders : orders'[o].status = "CANCELLED" =>
                             orders[o].status = "CANCELLED" \/ faulty(o)' \/ o \in withdrawn'
  PROVE  Retired'
  BY DEF Retired, OnlyFaultyRetired, faulty

\* Steps that leave orders, deaths, withdrawals and the log alone retire nobody.
LEMMA RetiredSame ==
  ASSUME Retired, UNCHANGED <<log, dead, signature, withdrawn, orders>>
  PROVE  Retired'
  BY RetiredKept

\* No step retires an order for the other's fault.
LEMMA RetiredStep ==
  ASSUME Typed, Retired, [Next]_vars
  PROVE  Retired'
<1>0. TypedTables /\ TypedMatcher
  BY TypedHalves
<1>1. CASE Apply
  <2>1. PICK x : x = Head(matcher.rejected)
    OBVIOUS
  <2>2. PICK B \in blameForPoison(x.fill, x.errorName) : orders' = [o \in Orders |->
              IF o \in B /\ x.fill \in ToSet(matcher.batch) /\ orders[o].status \in TRADEABLE
              THEN [orders[o] EXCEPT !.status = "CANCELLED"] ELSE orders[o]]
    <3>1. \E B \in blameForPoison(Head(matcher.rejected).fill, Head(matcher.rejected).errorName) :
            orders' = [o \in Orders |->
              IF o \in B /\ Head(matcher.rejected).fill \in ToSet(matcher.batch)
                 /\ orders[o].status \in TRADEABLE
              THEN [orders[o] EXCEPT !.status = "CANCELLED"] ELSE orders[o]]
      BY <1>1 DEF Apply
    <3> QED BY <2>1, <3>1
  <2>3. \A o \in B : faulty(o)
    <3>1. CASE x.errorName = "OrderExpired"
      BY <2>2, <3>1 DEF blameForPoison, faulty
    <3>2. CASE x.errorName = "OrderCancelled"
      <4>1. B = {o \in sides(x.fill) : \E i \in 1..cursor : log[i] = [kind |-> "NoncesCancelledUpTo", of |-> o]}
        BY <2>2, <3>2 DEF blameForPoison
      <4>2. ASSUME NEW o \in B PROVE dead[o] # "none"
        <5>1. PICK i \in 1..cursor : log[i] = [kind |-> "NoncesCancelledUpTo", of |-> o]
          BY <4>1
        <5>2. i \in 1..Len(log)
          BY <1>0 DEF TypedTables
        <5>3. log[i].kind = "NoncesCancelledUpTo" /\ log[i].of = o
          BY <5>1
        <5> QED BY <5>2, <5>3 DEF Retired
      <4> QED BY <4>2 DEF faulty
    <3>3. CASE x.errorName = "InvalidSignature"
      BY <2>2, <3>3 DEF blameForPoison, faulty
    <3>4. CASE x.errorName \notin {"OrderExpired", "OrderCancelled", "InvalidSignature"}
      <4>1. blameForPoison(x.fill, x.errorName) = {{}}
        BY <3>4 DEF blameForPoison
      <4> QED BY <2>2, <4>1
    <3> QED BY <3>1, <3>2, <3>3, <3>4
  <2>4. \A o \in Orders : orders'[o].status = "CANCELLED" => orders[o].status = "CANCELLED" \/ faulty(o)
    BY <2>2, <2>3
  <2> QED BY <1>1, <2>4, RetiredKept DEF Apply, faulty
<1>2. ASSUME NEW j \in DOMAIN jobs, Mine(j) PROVE Retired'
  <2>0. PICK refused \in SUBSET ToSet(jobs[j].batch) : \E r :
          r = executed(jobs[j].batch, refused) /\ log' = log \o r.events
    BY <1>2 DEF Mine
  <2>1. PICK r :
          r = executed(jobs[j].batch, refused) /\ log' = log \o r.events
    BY <2>0
  <2>2. r.events \in Seq(FillEvent)
    <3>1. jobs[j].batch \in Seq(FillId)
      <4>1. jobs[j] \in Job
        BY <1>0 DEF TypedTables
      <4> QED BY <4>1 DEF Job
    <3>2. {} \in SUBSET FillId /\ IsFiniteSet({}) /\ filled \in [Orders -> Nat]
      BY <1>0, FS_EmptySet DEF TypedTables
    <3>3. \A o \in Orders : volume({}, o) <= filled[o]
      <4>1. \A o \in Orders : volume({}, o) = 0
        BY VolumeNone
      <4> QED BY <3>2, <4>1
    <3>4. Outcome(r, ToSet(jobs[j].batch), {}, FALSE)
      BY <2>1, <3>1, <3>2, <3>3, Executed
    <3> QED BY <3>4 DEF Outcome, Results
  <2>3. ASSUME NEW i \in 1..Len(log')
        PROVE  \/ i \in 1..Len(log) /\ log'[i] = log[i]
               \/ log'[i].kind \notin {"OrderCancelled", "NoncesCancelledUpTo"}
    <3>1. log \in Seq(FillEvent \cup CancelEvent)
      BY <1>0 DEF TypedTables
    <3>2. PICK ev \in Seq(FillEvent) : ev = r.events /\ log' = log \o ev
      BY <2>1, <2>2
    <3>3. i <= Len(log) => log'[i] = log[i]
      BY <3>1, <3>2
    <3>4. ~(i <= Len(log)) => log'[i] \in FillEvent
      <4>1. ~(i <= Len(log)) => i - Len(log) \in 1..Len(ev) /\ log'[i] = ev[i - Len(log)]
        BY <3>1, <3>2
      <4> QED BY <4>1
    <3> QED BY <3>1, <3>3, <3>4 DEF FillEvent
  <2> QED BY <1>2, <2>3, RetiredKept DEF Mine
<1>3. ASSUME NEW o \in Mortal, Withdraw(o) PROVE Retired'
  <2>1. \A p \in Orders : orders'[p].status = "CANCELLED" => orders[p].status = "CANCELLED" \/ p = o
    BY <1>0, <1>3 DEF Withdraw, TypedTables
  <2> QED BY <1>3, <2>1, RetiredKept DEF Withdraw
<1>4. ASSUME NEW o \in Mortal, NEW cause \in Cause \ {"none"}, Die(o, cause) PROVE Retired'
  <2>1. o \in Orders
    BY Book
  <2>2. dead'[o] # "none" /\ \A x : dead[x] # "none" => dead'[x] # "none"
    BY <1>0, <1>4, <2>1 DEF Die, TypedTables
  <2>3. log' = log \/ \E e : e.of = o /\ log' = Append(log, e)
    BY <1>4 DEF Die
  <2>4. \A i \in 1..Len(log') : (i \in 1..Len(log) /\ log'[i] = log[i]) \/ log'[i].of = o
    <3>1. log \in Seq(FillEvent \cup CancelEvent)
      BY <1>0 DEF TypedTables
    <3> QED BY <2>3, <3>1
  <2> QED BY <1>4, <2>2, <2>4, RetiredKept DEF Die
<1>5. CASE Index
  <2>1. PICK e : e = log[cursor + 1]
    OBVIOUS
  <2>2. UNCHANGED <<log, dead, signature, withdrawn>>
    BY <1>5 DEF Index
  <2>3. /\ e \in FillEvent \cup CancelEvent /\ cursor + 1 \in DOMAIN log
        /\ e.kind = "FillSettled" => orders' = refreshOrders(fills', sides(e.of))
        /\ e.kind = "FillRejected" => orders' = orders
        /\ e.kind \in {"OrderCancelled", "NoncesCancelledUpTo"} =>
             orders' = IF orders[e.of].status \in TRADEABLE
                       THEN [orders EXCEPT ![e.of].status = "CANCELLED"] ELSE orders
    BY <1>5, <2>1, IndexedRows
  <2>4. cursor + 1 \in 1..Len(log)
    BY <1>0, <2>3 DEF TypedTables
  <2>5. ASSUME NEW o \in Orders, orders'[o].status = "CANCELLED"
        PROVE  orders[o].status = "CANCELLED" \/ dead[o] # "none"
    <3>1. CASE e.kind = "FillSettled"
      <4>1. orders' = refreshOrders(fills', sides(e.of))
        BY <2>3, <3>1
      <4>2. PICK n, s : /\ n = Min({OrderSize[o], settledIn(fills', o)})
                        /\ s = IF orders[o].status = "CANCELLED" THEN "CANCELLED"
                           ELSE IF settledIn(fills', o) >= OrderSize[o] THEN "FILLED"
                           ELSE IF settledIn(fills', o) > 0 THEN "PARTIALLY_FILLED" ELSE "OPEN"
        OBVIOUS
      <4>3. orders'[o] = IF o \notin sides(e.of) THEN orders[o] ELSE [filledSize |-> n, status |-> s]
        BY <4>1, <4>2 DEF refreshOrders
      <4>4. o \in sides(e.of) => orders'[o].status = s
        BY <4>3
      <4> QED BY <2>5, <4>2, <4>3, <4>4
    <3>2. CASE e.kind = "FillRejected"
      BY <2>3, <2>5, <3>2
    <3>3. CASE e.kind \in {"OrderCancelled", "NoncesCancelledUpTo"}
      <4>1. dead[e.of] # "none"
        BY <2>1, <2>4, <3>3 DEF Retired
      <4>2. CASE o = e.of
        BY <4>1, <4>2
      <4>3. CASE o # e.of
        <5>1. orders'[o] = orders[o]
          <6>1. \/ orders' = orders
                \/ orders' = [orders EXCEPT ![e.of].status = "CANCELLED"]
            BY <2>3, <3>3
          <6> QED BY <1>0, <4>3, <6>1 DEF TypedTables
        <5> QED BY <2>5, <5>1
      <4> QED BY <4>2, <4>3
    <3> QED BY <2>3, <3>1, <3>2, <3>3 DEF FillEvent, CancelEvent
  <2> QED BY <2>2, <2>5, RetiredKept DEF faulty
<1>6. CASE Step /\ ~Apply
  BY <1>6, RetiredSame DEF Step, Start, RecoverJob, ScanOrphans, ReleaseOrphans, Tick, Reserve, Submit,
     SubmitFails, Undo, Link, Mined, TimedOut, NonceTaken, Applied, ReleaseReverted
<1>7. CASE Crash \/ Fails \/ UNCHANGED vars
  BY <1>7, RetiredSame DEF Crash, Fails, vars
<1>8. ASSUME NEW j \in DOMAIN jobs, MineNot(j) \/ ReconcileJob(j) PROVE Retired'
  BY <1>8, RetiredSame DEF MineNot, ReconcileJob
<1>9. ASSUME NEW o \in Mortal, Wallet(o) PROVE Retired'
  <2>1. \A p \in Orders : signature[p] # "good" => signature'[p] # "good"
    BY <1>0, <1>9, Book DEF Wallet, TypedTables
  <2> QED BY <1>9, <2>1, RetiredKept DEF Wallet
<1> QED BY <1>1, <1>2, <1>3, <1>4, <1>5, <1>6, <1>7, <1>8, <1>9 DEF Next

-----------------------------------------------------------------------------
(* Reservations, batches in flight and outcomes.                           *)

\* The sets the invariant is about are finite sets of fills.
LEMMA FillSets ==
  ASSUME Typed
  PROVE  /\ reserving \in SUBSET FillId /\ IsFiniteSet(reserving)
         /\ settledRows \in SUBSET FillId /\ IsFiniteSet(settledRows)
         /\ settledRows \cup reserving \in SUBSET FillId /\ IsFiniteSet(settledRows \cup reserving)
         /\ reserving \cap settledRows = {} /\ reserving \subseteq DOMAIN fills
         /\ settledRows \subseteq DOMAIN fills
<1>1. reserving \subseteq DOMAIN fills /\ settledRows \subseteq DOMAIN fills
  BY DEF reserving, settledRows
<1>2. DOMAIN fills \subseteq FillId /\ IsFiniteSet(DOMAIN fills)
  BY DEF Typed, TypeOK
<1>3. reserving \cap settledRows = {}
  BY DEF reserving, settledRows, pending
<1> QED BY <1>1, <1>2, <1>3, FS_Subset, FS_Union

\* The same in the next state.
LEMMA FillSetsNext ==
  ASSUME Typed'
  PROVE  /\ reserving' \in SUBSET FillId /\ IsFiniteSet(reserving')
         /\ settledRows' \in SUBSET FillId /\ IsFiniteSet(settledRows')
         /\ settledRows' \cup reserving' \in SUBSET FillId /\ IsFiniteSet(settledRows' \cup reserving')
<1>1. reserving' \subseteq DOMAIN fills' /\ settledRows' \subseteq DOMAIN fills'
  BY DEF reserving, settledRows
<1>2. DOMAIN fills' \subseteq FillId /\ IsFiniteSet(DOMAIN fills')
  BY DEF Typed, TypeOK
<1> QED BY <1>1, <1>2, FS_Subset, FS_Union

\* What waits in a queue is a finite set of fills.
LEMMA WaitingFinite ==
  ASSUME NEW queue \in Seq(Seq(FillId))
  PROVE  waiting(queue) \in SUBSET FillId /\ IsFiniteSet(waiting(queue))
<1> DEFINE Good == {T \in SUBSET DOMAIN queue : IsFiniteSet(UNION {ToSet(queue[i]) : i \in T})}
<1>1. \A i \in DOMAIN queue : ToSet(queue[i]) \in SUBSET FillId /\ IsFiniteSet(ToSet(queue[i]))
  BY BatchFinite
<1>2. IsFiniteSet(DOMAIN queue)
  <2>1. DOMAIN queue = 1..Len(queue) /\ Len(queue) \in Nat
    OBVIOUS
  <2> QED BY <2>1, FS_Interval
<1>3. {} \in Good
  <2>1. UNION {ToSet(queue[i]) : i \in {}} = {}
    OBVIOUS
  <2> QED BY <2>1, FS_EmptySet
<1>4. ASSUME NEW T \in SUBSET DOMAIN queue, T # {}, \A x \in T : T \ {x} \in Good
      PROVE  T \in Good
  <2>1. PICK x \in T : T \ {x} \in Good
    BY <1>4
  <2>2. PICK U \in SUBSET DOMAIN queue : U = T \ {x} /\ T = U \cup {x}
    OBVIOUS
  <2>3. UNION {ToSet(queue[i]) : i \in T} = (UNION {ToSet(queue[i]) : i \in U}) \cup ToSet(queue[x])
    BY <2>2
  <2>4. IsFiniteSet(UNION {ToSet(queue[i]) : i \in U})
    BY <2>1, <2>2
  <2>5. IsFiniteSet(UNION {ToSet(queue[i]) : i \in T})
    <3>1. PICK V : V = UNION {ToSet(queue[i]) : i \in U}
      OBVIOUS
    <3>2. IsFiniteSet(V \cup ToSet(queue[x]))
      BY <1>1, <2>4, <3>1, FS_Union
    <3> QED BY <2>3, <3>1, <3>2
  <2> QED BY <2>5
<1>5. \A T \in SUBSET DOMAIN queue : T \in Good
  <2> HIDE DEF Good
  <2> QED BY <1>2, <1>3, <1>4, SubsetInduction
<1> QED BY <1>1, <1>5 DEF waiting

\* Jobs of the same batches, none of them in flight that was not, none less certain of
\* its fate.
Eased ==
  /\ DOMAIN jobs' = DOMAIN jobs
  /\ \A j \in DOMAIN jobs : /\ jobs'[j].batch = jobs[j].batch
                            /\ jobs'[j].tx = "success" <=> jobs[j].tx = "success"
                            /\ jobs[j].tx = "reverted" => jobs'[j].tx = "reverted"
  /\ liveJobs' \subseteq liveJobs

\* No job changed.
LEMMA EasedSame ==
  ASSUME UNCHANGED jobs
  PROVE  Eased
  BY DEF Eased, liveJobs, live

\* Fewer batches in flight are still apart.
LEMMA FlyingKept ==
  ASSUME Flying, DOMAIN jobs' = DOMAIN jobs, \A j \in DOMAIN jobs : jobs'[j].batch = jobs[j].batch,
         liveJobs' \subseteq liveJobs, flying' \subseteq reserving', flying' \cap decided' = {}
  PROVE  Flying'
<1>1. liveJobs \subseteq DOMAIN jobs
  BY DEF liveJobs
<1> QED BY <1>1 DEF Flying

\* Fewer jobs that may be mined, fewer fills in flight.
LEMMA FlyingLess ==
  ASSUME DOMAIN jobs' = DOMAIN jobs, \A j \in DOMAIN jobs : jobs'[j].batch = jobs[j].batch,
         liveJobs' \subseteq liveJobs
  PROVE  flying' \subseteq flying
<1>1. liveJobs \subseteq DOMAIN jobs
  BY DEF liveJobs
<1>2. \A j \in liveJobs' : j \in liveJobs /\ jobs'[j].batch = jobs[j].batch
  BY <1>1
<1> QED BY <1>2 DEF flying

\* While log and cursor stay, outcomes stay as long as their rows do.
LEMMA DecidedKept ==
  ASSUME Typed, Decided, UNCHANGED <<log, cursor, filled>>, decided \subseteq DOMAIN fills',
         settledOnChain \subseteq reserving' \cup settledRows',
         \A f \in decided : pending(f)' => pending(f)
  PROVE  Decided'
<1>1. settledOnChain' = settledOnChain /\ rejectedOnChain' = rejectedOnChain /\ decided' = decided
  BY DEF settledOnChain, rejectedOnChain, decided
<1>2. ASSUME NEW i \in 1..cursor, log[i].kind \in {"FillSettled", "FillRejected"}
      PROVE  ~pending(log[i].of)'
  <2>1. ~pending(log[i].of)
    BY <1>2 DEF Decided
  <2>2. PICK f : f = log[i].of
    OBVIOUS
  <2>3. f \in decided
    <3>1. i \in DOMAIN log
      BY DEF Typed, TypeOK
    <3> QED BY <1>2, <2>2, <3>1 DEF decided, settledOnChain, rejectedOnChain, settledBy, rejectedBy
  <2> QED BY <2>1, <2>2, <2>3
<1> QED BY <1>1, <1>2 DEF Decided

\* The ledger holds when nothing is added to what is settled or reserved.
LEMMA LedgerKept ==
  ASSUME Typed, Typed', Ledger, matcher'.queue = matcher.queue \/ matcher'.queue = <<>>,
         settledRows' \cup reserving' \subseteq settledRows \cup reserving
  PROVE  Ledger'
<1>1. Separate(<<>>) /\ waiting(<<>>) = {}
  BY DEF Separate, waiting
<1>2. Separate(matcher'.queue)
  BY <1>1 DEF Ledger
<1>3. ASSUME NEW o \in Orders
      PROVE  volume(settledRows' \cup reserving', o) + volume(waiting(matcher'.queue), o) <= OrderSize[o]
  <2>1. volume(settledRows' \cup reserving', o) <= volume(settledRows \cup reserving, o)
    BY FillSets, VolumeMonotone
  <2>2. volume({}, o) = 0
    BY VolumeNone
  <2>3. /\ volume(settledRows \cup reserving, o) \in Nat
        /\ volume(settledRows' \cup reserving', o) \in Nat
    BY FillSets, FillSetsNext, VolumeNat
  <2>4. volume(waiting(matcher.queue), o) \in Nat
    <3>1. matcher.queue \in Seq(Seq(FillId))
      BY DEF Typed, TypeOK, Matcher
    <3> QED BY <3>1, WaitingFinite, VolumeNat
  <2>5. volume(settledRows \cup reserving, o) + volume(waiting(matcher.queue), o) <= OrderSize[o]
    BY DEF Ledger
  <2>6. OrderSize[o] \in Nat
    BY Book
  <2>7. volume(waiting(matcher'.queue), o) = volume(waiting(matcher.queue), o)
        \/ volume(waiting(matcher'.queue), o) = 0
    BY <1>1, <2>2
  <2> QED BY <2>1, <2>3, <2>4, <2>5, <2>6, <2>7
<1> QED BY <1>2, <1>3 DEF Ledger

\* A matcher without a batch holds nothing that could be wrong.
LEMMA InHandRested ==
  ASSUME matcher'.pc \in {"down", "recover", "idle", "offer"}
  PROVE  InHand'
  BY DEF InHand

\* The matcher puts its batch away, and the tables stay.
LEMMA TrackedRested ==
  ASSUME Typed, Typed', Tracked, UNCHANGED <<fills, filled, log, cursor>>, Eased,
         matcher'.pc \in {"down", "recover", "idle", "offer"},
         matcher'.queue = matcher.queue \/ matcher'.queue = <<>>
  PROVE  Tracked'
<1>1. /\ reserving' = reserving /\ settledRows' = settledRows /\ decided' = decided
      /\ \A f : pending(f)' <=> pending(f)
  BY DEF reserving, settledRows, decided, settledOnChain, rejectedOnChain, pending
<1>2. flying' \subseteq flying
  BY FlyingLess DEF Eased
<1>3. Flying'
  BY <1>1, <1>2, FlyingKept DEF Tracked, Flying, Eased
<1>4. Decided'
  BY <1>1, DecidedKept DEF Tracked, Decided
<1>5. InHand'
  BY InHandRested
<1>6. Ledger'
  BY <1>1, LedgerKept DEF Tracked
<1> QED BY <1>3, <1>4, <1>5, <1>6 DEF Tracked

\* The world moves, and what the matcher holds is as good as before.
LEMMA InHandKept ==
  ASSUME Typed, InHand, UNCHANGED matcher, Eased, decided' = decided,
         reserving \ decided \subseteq reserving', \A f : unsettled(f)' => unsettled(f)
  PROVE  InHand'
<1>1. flying' \subseteq flying
  BY FlyingLess DEF Eased
<1>2. matcher.pc \in {"link", "wait", "reverted"} =>
        /\ matcher.job \in DOMAIN jobs
        /\ jobs'[matcher.job].tx = "success" <=> jobs[matcher.job].tx = "success"
        /\ jobs[matcher.job].tx = "reverted" => jobs'[matcher.job].tx = "reverted"
  BY DEF Eased, Typed
<1>3. \A k \in liveJobs' : k \in liveJobs /\ jobs'[k].batch = jobs[k].batch
  BY DEF Eased, liveJobs
<1>4. matcher.pc \in {"submit", "undo"} => ToSet(matcher.batch) \cap (decided \cup flying') = {}
  BY <1>1 DEF InHand
<1>5. matcher.pc = "submit" => NoRepeats(matcher.batch) /\ ToSet(matcher.batch) \subseteq reserving'
  BY DEF InHand
<1>6. matcher.pc \in {"link", "wait", "reverted"} /\ ~matcher.recovering /\ jobs'[matcher.job].tx # "success"
      => /\ ToSet(matcher.batch) \cap decided = {} /\ ToSet(matcher.batch) \subseteq reserving'
         /\ \A k \in liveJobs' \ {matcher.job} : ToSet(matcher.batch) \cap ToSet(jobs'[k].batch) = {}
  BY <1>2, <1>3 DEF InHand
<1>7. matcher.pc = "reverted" => jobs'[matcher.job].tx = "reverted" /\ ~matcher.recovering
  BY <1>2 DEF InHand
<1>8. matcher.pc = "orphans" => \A f \in matcher.release : ~unsettled(f)'
  BY DEF InHand
<1>9. matcher.pc \in {"submit", "undo", "link", "wait", "apply", "reverted"} /\ ~matcher.recovering =>
       NoRepeats(matcher.batch) /\ ToSet(matcher.batch) \cap waiting(matcher.queue) = {}
  BY DEF InHand
<1> QED BY <1>4, <1>5, <1>6, <1>7, <1>8, <1>9 DEF InHand

\* Rows, matcher and cursor stay, and the log says no more of fills than it did.
LEMMA TrackedKept ==
  ASSUME Typed, Typed', Tracked, UNCHANGED <<fills, filled, cursor, matcher>>, Eased,
         settledOnChain' = settledOnChain, rejectedOnChain' = rejectedOnChain,
         \A f : unsettled(f)' => unsettled(f),
         \A i \in 1..cursor : log'[i] = log[i]
  PROVE  Tracked'
<1>1. /\ reserving' = reserving /\ settledRows' = settledRows /\ decided' = decided
      /\ \A f : pending(f)' <=> pending(f)
  BY DEF reserving, settledRows, decided, pending
<1>2. flying' \subseteq flying
  BY FlyingLess DEF Eased
<1>3. Flying'
  BY <1>1, <1>2, FlyingKept DEF Tracked, Flying, Eased
<1>4. Decided'
  BY <1>1 DEF Tracked, Decided
<1>5. InHand'
  BY <1>1, InHandKept DEF Tracked
<1>6. Ledger'
  BY <1>1, LedgerKept DEF Tracked
<1> QED BY <1>3, <1>4, <1>5, <1>6 DEF Tracked

\* One job changed.
LEMMA EasedJob ==
  ASSUME Typed, NEW j \in DOMAIN jobs, NEW job, jobs' = [jobs EXCEPT ![j] = job],
         job.batch = jobs[j].batch, job.tx = "success" <=> jobs[j].tx = "success",
         jobs[j].tx = "reverted" => job.tx = "reverted",
         job.tx = "mempool" \/ (job.tx = "unsent" /\ job.status = "OPEN") => live(j)
  PROVE  Eased
<1>1. DOMAIN jobs' = DOMAIN jobs /\ jobs'[j] = job /\ \A i \in DOMAIN jobs \ {j} : jobs'[i] = jobs[i]
  BY DEF Typed, TypeOK
<1>2. ASSUME NEW i \in liveJobs' PROVE i \in liveJobs
  <2>1. i \in DOMAIN jobs /\ (jobs'[i].tx = "mempool" \/ (jobs'[i].tx = "unsent" /\ jobs'[i].status = "OPEN"))
    BY <1>1 DEF liveJobs, live
  <2>2. CASE i = j
    BY <1>1, <2>1, <2>2 DEF liveJobs
  <2>3. CASE i # j
    BY <1>1, <2>1, <2>3 DEF liveJobs, live
  <2> QED BY <2>2, <2>3
<1>3. \A i \in DOMAIN jobs : /\ jobs'[i].batch = jobs[i].batch
                             /\ jobs'[i].tx = "success" <=> jobs[i].tx = "success"
                             /\ jobs[i].tx = "reverted" => jobs'[i].tx = "reverted"
  BY <1>1
<1> QED BY <1>1, <1>2, <1>3 DEF Eased

\* The steps that change one: its outcome is recorded, or its transaction moves.
LEMMA EasedBy ==
  ASSUME Typed,
         Mined \/ NonceTaken \/ \E j \in DOMAIN jobs : MineNot(j) \/ ReconcileJob(j)
  PROVE  Eased
<1>0. /\ \A j \in DOMAIN jobs : jobs[j] \in Job
      /\ matcher.pc = "wait" => matcher.job \in DOMAIN jobs
  BY DEF Typed, TypeOK
<1>1. CASE Mined \/ NonceTaken
  <2>1. PICK j \in DOMAIN jobs : j = matcher.job
    BY <1>0, <1>1 DEF Mined, NonceTaken
  <2>2. PICK status : jobs' = [jobs EXCEPT ![j].status = status] /\ jobs[j].tx \in {"success", "reverted", "displaced"}
    BY <1>1, <2>1 DEF Mined, NonceTaken, recorded
  <2>3. PICK job : job = [jobs[j] EXCEPT !.status = status]
    OBVIOUS
  <2>4. job.batch = jobs[j].batch /\ job.tx = jobs[j].tx
    BY <1>0, <2>3 DEF Job
  <2>5. jobs' = [jobs EXCEPT ![j] = job]
    BY <2>2, <2>3
  <2> QED BY <2>2, <2>4, <2>5, EasedJob
<1>2. ASSUME NEW j \in DOMAIN jobs, MineNot(j) PROVE Eased
  <2>1. PICK tx : /\ jobs' = [jobs EXCEPT ![j].tx = tx]
                  /\ \/ jobs[j].tx = "mempool" /\ tx \in {"reverted", "unsent"}
                     \/ live(j) /\ tx = "displaced"
    BY <1>2 DEF MineNot
  <2>2. PICK job : job = [jobs[j] EXCEPT !.tx = tx]
    OBVIOUS
  <2>3. job.batch = jobs[j].batch /\ job.tx = tx
    BY <1>0, <2>2 DEF Job
  <2>4. jobs' = [jobs EXCEPT ![j] = job]
    BY <2>1, <2>2
  <2>5. live(j) /\ jobs[j].tx \in {"mempool", "unsent"}
    BY <2>1 DEF live
  <2> QED BY <2>1, <2>3, <2>4, <2>5, EasedJob
<1>3. ASSUME NEW j \in DOMAIN jobs, ReconcileJob(j) PROVE Eased
  <2>1. PICK job : /\ jobs' = [jobs EXCEPT ![j] = job]
                   /\ job = CASE jobs[j].tx = "success" -> [jobs[j] EXCEPT !.status = "CONFIRMED"]
                              [] jobs[j].tx = "reverted" -> [jobs[j] EXCEPT !.status = "REVERTED"]
                              [] jobs[j].tx = "displaced" -> [jobs[j] EXCEPT !.status = "DROPPED"]
                              [] jobs[j].tx = "unsent" -> [jobs[j] EXCEPT !.tx = "mempool"]
    BY <1>3 DEF ReconcileJob
  <2>2. jobs[j] \in Job /\ jobs[j].tx # "mempool" /\ jobs[j].status = "OPEN"
    BY <1>0, <1>3 DEF ReconcileJob
  <2>3. jobs[j].tx \in {"success", "reverted", "displaced", "unsent"}
    BY <2>2 DEF Job
  <2>4. CASE jobs[j].tx = "unsent"
    <3>1. job = [jobs[j] EXCEPT !.tx = "mempool"]
      BY <2>1, <2>4
    <3>2. job.batch = jobs[j].batch /\ job.tx = "mempool"
      BY <2>2, <3>1 DEF Job
    <3>3. live(j)
      BY <2>2, <2>4 DEF live
    <3> QED BY <2>1, <2>4, <3>2, <3>3, EasedJob
  <2>5. CASE jobs[j].tx # "unsent"
    <3>1. \E status : job = [jobs[j] EXCEPT !.status = status]
      BY <2>1, <2>3, <2>5
    <3>2. job.batch = jobs[j].batch /\ job.tx = jobs[j].tx
      BY <2>2, <3>1 DEF Job
    <3> QED BY <2>1, <2>3, <2>5, <3>2, EasedJob
  <2> QED BY <2>4, <2>5
<1> QED BY <1>1, <1>2, <1>3

\* Nothing more is unsettled while the log and its reader stay.
LEMMA UnsettledKept ==
  ASSUME Eased, UNCHANGED <<log, cursor>>
  PROVE  \A f : unsettled(f)' => unsettled(f)
<1>1. flying' \subseteq flying
  BY FlyingLess DEF Eased
<1> QED BY <1>1 DEF unsettled

\* Deaths, withdrawals and the fates of transactions.
LEMMA TrackedWorld ==
  ASSUME Typed, Typed', Tracked,
         \/ \E j \in DOMAIN jobs : MineNot(j) \/ ReconcileJob(j)
         \/ \E o \in Mortal : Withdraw(o) \/ Wallet(o) \/ \E cause \in Cause \ {"none"} : Die(o, cause)
         \/ UNCHANGED vars
  PROVE  Tracked'
<1>1. CASE \/ \E j \in DOMAIN jobs : MineNot(j) \/ ReconcileJob(j)
           \/ (\E o \in Mortal : Withdraw(o) \/ Wallet(o)) \/ UNCHANGED vars
  <2>1. UNCHANGED <<fills, filled, log, cursor, matcher>>
    BY <1>1 DEF MineNot, ReconcileJob, Withdraw, Wallet, vars
  <2>2. Eased
    <3>1. CASE \E j \in DOMAIN jobs : MineNot(j) \/ ReconcileJob(j)
      BY <3>1, EasedBy
    <3>2. CASE (\E o \in Mortal : Withdraw(o) \/ Wallet(o)) \/ UNCHANGED vars
      BY <3>2, EasedSame DEF Withdraw, Wallet, vars
    <3> QED BY <1>1, <3>1, <3>2
  <2>3. \A f : unsettled(f)' => unsettled(f)
    BY <2>1, <2>2, UnsettledKept
  <2>4. settledOnChain' = settledOnChain /\ rejectedOnChain' = rejectedOnChain
    BY <2>1 DEF settledOnChain, rejectedOnChain
  <2> QED BY <2>1, <2>2, <2>3, <2>4, TrackedKept
<1>2. ASSUME NEW o \in Mortal, NEW cause \in Cause \ {"none"}, Die(o, cause) PROVE Tracked'
  <2>1. UNCHANGED <<fills, jobs, filled, cursor, matcher>>
    BY <1>2 DEF Die
  <2>2. Eased
    BY <2>1, EasedSame
  <2>3. log' = log \/ \E e \in CancelEvent : log' = Append(log, e)
    <3>1. \A kind \in {"OrderCancelled", "NoncesCancelledUpTo"} : [kind |-> kind, of |-> o] \in CancelEvent
      BY Book DEF CancelEvent
    <3> QED BY <1>2, <3>1 DEF Die
  <2>4. CASE log' = log
    <3>1. \A f : unsettled(f)' => unsettled(f)
      BY <2>1, <2>2, <2>4, UnsettledKept
    <3>2. settledOnChain' = settledOnChain /\ rejectedOnChain' = rejectedOnChain
      BY <2>4 DEF settledOnChain, rejectedOnChain
    <3> QED BY <2>1, <2>2, <2>4, <3>1, <3>2, TrackedKept
  <2>5. ASSUME NEW e \in CancelEvent, log' = Append(log, e) PROVE Tracked'
    <3>1. log \in Seq(FillEvent \cup CancelEvent) /\ cursor \in 0..Len(log)
      BY DEF Typed, TypeOK
    <3>2. e.kind # "FillSettled" /\ e.kind # "FillRejected" /\ e \in FillEvent \cup CancelEvent
      BY DEF CancelEvent
    <3>3. settledOnChain' = settledOnChain /\ rejectedOnChain' = rejectedOnChain
      <4>1. /\ settledBy(Append(log, e)) = settledBy(log) \cup (IF e.kind = "FillSettled" THEN {e.of} ELSE {})
            /\ rejectedBy(Append(log, e)) = rejectedBy(log) \cup (IF e.kind = "FillRejected" THEN {e.of} ELSE {})
        BY <3>1, OneMoreEvent
      <4> QED BY <2>5, <3>2, <4>1 DEF settledOnChain, rejectedOnChain
    <3>4. Len(log') = Len(log) + 1 /\ log'[Len(log) + 1] = e /\ \A i \in 1..Len(log) : log'[i] = log[i]
      BY <2>5, <3>1
    <3>5. flying' \subseteq flying
      BY <2>2, FlyingLess DEF Eased
    <3>6. ASSUME NEW f, unsettled(f)' PROVE unsettled(f)
      <4>1. ASSUME NEW i \in (cursor + 1)..Len(log'), log'[i].kind \in {"FillSettled", "FillRejected"},
                   log'[i].of = f
            PROVE  i \in (cursor + 1)..Len(log) /\ log[i].kind \in {"FillSettled", "FillRejected"}
                   /\ log[i].of = f
        <5>1. Len(log) \in Nat /\ cursor \in Nat
          BY <3>1
        <5>2. i # Len(log) + 1
          BY <3>2, <3>4, <4>1
        <5>3. i \in 1..Len(log) /\ i \in (cursor + 1)..Len(log)
          BY <3>4, <5>1, <5>2
        <5> QED BY <3>4, <4>1, <5>3
      <4> QED BY <2>1, <3>5, <3>6, <4>1 DEF unsettled
    <3>7. \A i \in 1..cursor : log'[i] = log[i]
      BY <3>1, <3>4
    <3> QED BY <2>1, <2>2, <3>3, <3>6, <3>7, TrackedKept
  <2> QED BY <2>3, <2>4, <2>5
<1> QED BY <1>1, <1>2

\* A batch handed to the node, or written and not sent.
LEMMA Appended ==
  ASSUME Typed, Tracked, matcher.pc = "submit", NEW status, NEW tx, jobs' = submitted(status, tx),
         UNCHANGED <<fills, filled, log, cursor>>
  PROVE  /\ Flying' /\ Decided'
         /\ decided' = decided /\ reserving' = reserving /\ settledRows' = settledRows
         /\ Len(jobs') = Len(jobs) + 1
         /\ \A k \in liveJobs' : k = Len(jobs) + 1 \/ (k \in liveJobs /\ jobs'[k].batch = jobs[k].batch)
         /\ tx = "unsent" /\ status # "OPEN" => flying' = flying
<1> DEFINE n == Len(jobs) + 1
<1>1. jobs \in Seq(Job) /\ Len(jobs) \in Nat /\ DOMAIN jobs = 1..Len(jobs)
  BY DEF Typed, TypeOK
<1>d. PICK job : job = [status |-> status, tx |-> tx, batch |-> matcher.batch, rejected |-> <<>>]
  OBVIOUS
<1>2. job.batch = matcher.batch /\ job.tx = tx /\ job.status = status
  BY <1>d
<1>3. /\ Len(jobs') = n /\ DOMAIN jobs' = DOMAIN jobs \cup {n} /\ n \notin DOMAIN jobs
      /\ jobs'[n] = job /\ \A j \in DOMAIN jobs : jobs'[j] = jobs[j]
  <2>1. jobs' = Append(jobs, job)
    BY <1>d DEF submitted
  <2> QED BY <1>1, <2>1
<1>4. /\ reserving' = reserving /\ settledRows' = settledRows /\ decided' = decided
      /\ \A f : pending(f)' <=> pending(f)
  BY DEF reserving, settledRows, decided, settledOnChain, rejectedOnChain, pending
<1>5. liveJobs' \ {n} = liveJobs
  <2> HIDE DEF n
  <2> QED BY <1>3 DEF liveJobs, live
<1>6. \A j \in liveJobs : j \in DOMAIN jobs /\ jobs'[j].batch = jobs[j].batch
  BY <1>3 DEF liveJobs
<1>7. flying' \subseteq flying \cup ToSet(matcher.batch)
  <2>1. \A j \in liveJobs' : (j \in liveJobs /\ jobs'[j].batch = jobs[j].batch) \/ jobs'[j].batch = matcher.batch
    BY <1>2, <1>3, <1>5, <1>6
  <2> QED BY <2>1 DEF flying
<1>8. /\ NoRepeats(matcher.batch) /\ ToSet(matcher.batch) \subseteq reserving
      /\ ToSet(matcher.batch) \cap (decided \cup flying) = {}
  BY DEF Tracked, InHand
<1>9. Flying'
  <2>1. \A j \in liveJobs' : NoRepeats(jobs'[j].batch)
    BY <1>2, <1>3, <1>5, <1>6, <1>8 DEF Tracked, Flying
  <2>2. ASSUME NEW j \in liveJobs', NEW k \in liveJobs', j # k
        PROVE  ToSet(jobs'[j].batch) \cap ToSet(jobs'[k].batch) = {}
    <3>1. ASSUME NEW i \in liveJobs PROVE ToSet(jobs'[i].batch) \subseteq flying
      BY <1>6 DEF flying
    <3>2. CASE j \in liveJobs /\ k \in liveJobs
      BY <1>6, <2>2, <3>2 DEF Tracked, Flying
    <3>3. CASE j \notin liveJobs /\ k \in liveJobs
      <4>1. jobs'[j].batch = matcher.batch
        BY <1>2, <1>3, <1>5, <3>3
      <4> QED BY <1>8, <3>1, <3>3, <4>1
    <3>4. CASE j \in liveJobs /\ k \notin liveJobs
      <4>1. jobs'[k].batch = matcher.batch
        BY <1>2, <1>3, <1>5, <3>4
      <4> QED BY <1>8, <3>1, <3>4, <4>1
    <3>5. CASE j \notin liveJobs /\ k \notin liveJobs
      BY <1>5, <2>2, <3>5
    <3> QED BY <3>2, <3>3, <3>4, <3>5
  <2>3. flying' \subseteq reserving' /\ flying' \cap decided' = {}
    BY <1>4, <1>7, <1>8 DEF Tracked, Flying
  <2> QED BY <2>1, <2>2, <2>3 DEF Flying
<1>10. Decided'
  BY <1>4, DecidedKept DEF Tracked, Decided
<1>11. \A k \in liveJobs' : k = n \/ (k \in liveJobs /\ jobs'[k].batch = jobs[k].batch)
  BY <1>5, <1>6
<1>12. ASSUME tx = "unsent", status # "OPEN" PROVE flying' = flying
  <2>1. n \notin liveJobs'
    BY <1>2, <1>3, <1>12 DEF liveJobs, live
  <2>2. liveJobs' = liveJobs
    BY <1>5, <2>1
  <2> QED BY <1>6, <2>2 DEF flying
<1> QED BY <1>3, <1>4, <1>9, <1>10, <1>11, <1>12

\* Submit, whether the node takes the batch or refuses it.
LEMMA TrackedSubmit ==
  ASSUME Typed, Typed', Tracked, ~gaveUp', Submit \/ SubmitFails
  PROVE  Tracked'
<1>0. matcher \in Matcher
  BY DEF Typed, TypeOK
<1>b. /\ NoRepeats(matcher.batch) /\ ToSet(matcher.batch) \subseteq reserving
      /\ ToSet(matcher.batch) \cap (decided \cup flying) = {}
      /\ ~matcher.recovering => ToSet(matcher.batch) \cap waiting(matcher.queue) = {}
      /\ matcher.pc = "submit" /\ UNCHANGED <<fills, filled, log, cursor>>
  BY DEF Tracked, InHand, Submit, SubmitFails
<1>f. \A k \in liveJobs : ToSet(jobs[k].batch) \subseteq flying
  BY DEF flying
<1>1. CASE Submit
  <2>1. jobs' = submitted("OPEN", "mempool") /\ matcher' = [matcher EXCEPT !.pc = "link", !.job = Len(jobs')]
    BY <1>1 DEF Submit
  <2>2. /\ Flying' /\ Decided' /\ decided' = decided /\ reserving' = reserving /\ settledRows' = settledRows
        /\ Len(jobs') = Len(jobs) + 1
        /\ \A k \in liveJobs' : k = Len(jobs) + 1 \/ (k \in liveJobs /\ jobs'[k].batch = jobs[k].batch)
    BY <1>b, <2>1, Appended
  <2>3. /\ matcher'.pc = "link" /\ matcher'.job = Len(jobs) + 1 /\ matcher'.batch = matcher.batch
        /\ matcher'.queue = matcher.queue /\ matcher'.recovering = matcher.recovering
    BY <1>0, <2>1, <2>2 DEF Matcher
  <2>4. \A k \in liveJobs' \ {matcher'.job} : ToSet(matcher'.batch) \cap ToSet(jobs'[k].batch) = {}
    BY <1>b, <1>f, <2>2, <2>3
  <2>5. InHand'
    BY <1>b, <2>2, <2>3, <2>4 DEF InHand
  <2>6. Ledger'
    BY <2>2, <2>3, LedgerKept DEF Tracked
  <2> QED BY <2>2, <2>5, <2>6 DEF Tracked
<1>2. CASE SubmitFails
  <2>1. jobs' = submitted("FAILED", "unsent") /\ matcher' = [matcher EXCEPT !.pc = "undo"]
    BY <1>2 DEF SubmitFails
  <2>2. /\ Flying' /\ Decided' /\ decided' = decided /\ reserving' = reserving /\ settledRows' = settledRows
        /\ flying' = flying
    BY <1>b, <2>1, Appended
  <2>3. /\ matcher'.pc = "undo" /\ matcher'.batch = matcher.batch
        /\ matcher'.queue = matcher.queue /\ matcher'.recovering = matcher.recovering
    BY <1>0, <2>1 DEF Matcher
  <2>4. InHand'
    BY <1>b, <2>2, <2>3 DEF InHand
  <2>5. Ledger'
    BY <2>2, <2>3, LedgerKept DEF Tracked
  <2> QED BY <2>2, <2>4, <2>5 DEF Tracked
<1> QED BY <1>1, <1>2

\* A crash, whatever submit had written.
LEMMA TrackedCrash ==
  ASSUME Typed, Typed', Tracked, Crash
  PROVE  Tracked'
<1>1. UNCHANGED <<fills, filled, log, cursor>> /\ matcher' = Down
  BY DEF Crash
<1>2. matcher'.pc = "down" /\ matcher'.queue = <<>>
  BY <1>1, DownTyped
<1>3. CASE jobs' = jobs
  BY <1>1, <1>2, <1>3, EasedSame, TrackedRested
<1>4. CASE matcher.pc = "submit" /\ jobs' = submitted("OPEN", "unsent")
  <2>1. Flying' /\ Decided' /\ reserving' = reserving /\ settledRows' = settledRows
    BY <1>1, <1>4, Appended
  <2>2. InHand'
    BY <1>2, InHandRested
  <2>3. Ledger'
    BY <1>2, <2>1, LedgerKept DEF Tracked
  <2> QED BY <2>1, <2>2, <2>3 DEF Tracked
<1> QED BY <1>3, <1>4 DEF Crash

\* Reservations taken back, none of them in flight or decided.
LEMMA Released ==
  ASSUME Typed, Tracked, NEW R, fills' = without(R), UNCHANGED <<jobs, filled, log, cursor>>,
         \A f \in R : pending(f) => f \notin decided \cup flying
  PROVE  /\ Flying' /\ Decided'
         /\ reserving' = reserving \ R /\ settledRows' = settledRows
<1>1. DOMAIN fills' = DOMAIN fills \ {g \in R : pending(g)} /\ \A f \in DOMAIN fills' : fills'[f] = fills[f]
  BY DEF without
<1>2. \A f : pending(f)' <=> pending(f) /\ f \notin R
  BY <1>1 DEF pending
<1>3. reserving' = reserving \ R
  BY <1>1, <1>2 DEF reserving
<1>4. settledRows' = settledRows
  BY <1>1 DEF settledRows, pending
<1>5. decided' = decided /\ flying' = flying
  BY DEF decided, settledOnChain, rejectedOnChain, flying, liveJobs, live
<1>6. decided \subseteq DOMAIN fills'
  BY <1>1 DEF Tracked, Decided
<1>7. flying \subseteq reserving'
  BY <1>3 DEF Tracked, Flying, reserving
<1>8. settledOnChain \subseteq reserving' \cup settledRows'
  <2>1. settledOnChain \subseteq decided /\ settledOnChain \subseteq reserving \cup settledRows
    BY DEF Tracked, Decided, decided
  <2>2. \A f \in reserving : pending(f)
    BY DEF reserving
  <2> QED BY <1>3, <1>4, <2>1, <2>2
<1>9. Flying'
  BY <1>5, <1>7, FlyingKept DEF Tracked, Flying, liveJobs, live
<1>10. Decided'
  BY <1>2, <1>6, <1>8, DecidedKept DEF Tracked
<1> QED BY <1>3, <1>4, <1>9, <1>10

\* Queues put one behind the other.
LEMMA QueueConcat ==
  ASSUME NEW s \in Seq(Seq(FillId)), NEW t \in Seq(Seq(FillId))
  PROVE  /\ waiting(s \o t) = waiting(s) \cup waiting(t)
         /\ Separate(s) /\ Separate(t) /\ waiting(s) \cap waiting(t) = {} => Separate(s \o t)
<1>1. PICK u : u = s \o t
  OBVIOUS
<1>2. /\ DOMAIN s = 1..Len(s) /\ DOMAIN t = 1..Len(t) /\ DOMAIN u = 1..(Len(s) + Len(t))
      /\ Len(s) \in Nat /\ Len(t) \in Nat
      /\ \A i \in DOMAIN u : u[i] = IF i <= Len(s) THEN s[i] ELSE t[i - Len(s)]
  BY <1>1
<1>3. \A i \in DOMAIN s : i \in DOMAIN u /\ u[i] = s[i]
  BY <1>2
<1>4. ASSUME NEW i \in DOMAIN t
      PROVE  i + Len(s) \in DOMAIN u /\ u[i + Len(s)] = t[i]
  <2>1. i + Len(s) \in DOMAIN u /\ ~(i + Len(s) <= Len(s)) /\ (i + Len(s)) - Len(s) = i
    BY <1>2
  <2> QED BY <1>2, <2>1
<1>5. ASSUME NEW i \in DOMAIN u
      PROVE  \/ i \in DOMAIN s /\ u[i] = s[i]
             \/ i - Len(s) \in DOMAIN t /\ u[i] = t[i - Len(s)]
  BY <1>2
<1>6. /\ \A i \in DOMAIN s : \E k \in DOMAIN u : u[k] = s[i]
      /\ \A i \in DOMAIN t : \E k \in DOMAIN u : u[k] = t[i]
      /\ \A k \in DOMAIN u : (\E i \in DOMAIN s : u[k] = s[i]) \/ (\E i \in DOMAIN t : u[k] = t[i])
  BY <1>3, <1>4, <1>5
<1>7. waiting(u) = waiting(s) \cup waiting(t)
  BY <1>6 DEF waiting
<1>8. ASSUME Separate(s), Separate(t), waiting(s) \cap waiting(t) = {}
      PROVE  Separate(u)
  <2>1. \A i \in DOMAIN u : NoRepeats(u[i])
    BY <1>6, <1>8 DEF Separate
  <2>2. ASSUME NEW i \in DOMAIN u, NEW k \in DOMAIN u, i # k
        PROVE  ToSet(u[i]) \cap ToSet(u[k]) = {}
    <3>1. /\ \A a \in DOMAIN s : ToSet(s[a]) \subseteq waiting(s)
          /\ \A a \in DOMAIN t : ToSet(t[a]) \subseteq waiting(t)
      BY DEF waiting
    <3>2. CASE i \in DOMAIN s /\ u[i] = s[i] /\ k \in DOMAIN s /\ u[k] = s[k]
      BY <1>8, <2>2, <3>2 DEF Separate
    <3>3. CASE i \in DOMAIN s /\ u[i] = s[i] /\ k - Len(s) \in DOMAIN t /\ u[k] = t[k - Len(s)]
      BY <1>8, <3>1, <3>3
    <3>4. CASE i - Len(s) \in DOMAIN t /\ u[i] = t[i - Len(s)] /\ k \in DOMAIN s /\ u[k] = s[k]
      BY <1>8, <3>1, <3>4
    <3>5. CASE i - Len(s) \in DOMAIN t /\ u[i] = t[i - Len(s)] /\ k - Len(s) \in DOMAIN t /\ u[k] = t[k - Len(s)]
      <4>1. i - Len(s) # k - Len(s)
        BY <1>2, <2>2
      <4> QED BY <1>8, <3>5, <4>1 DEF Separate
    <3> QED BY <1>5, <3>2, <3>3, <3>4, <3>5
  <2> QED BY <2>1, <2>2 DEF Separate
<1> QED BY <1>1, <1>7, <1>8

\* The halves of a batch that reverted are part of it.
LEMMA HalvesAre ==
  ASSUME NEW batch \in Seq(FillId), NoRepeats(batch)
  PROVE  /\ halveAfterGasRevert(batch) \in Seq(Seq(FillId))
         /\ waiting(halveAfterGasRevert(batch)) \subseteq ToSet(batch)
         /\ Separate(halveAfterGasRevert(batch))
<1>1. CASE Len(batch) < 2
  <2>1. halveAfterGasRevert(batch) = <<>>
    BY <1>1 DEF halveAfterGasRevert
  <2>2. waiting(<<>>) = {} /\ Separate(<<>>)
    BY DEF waiting, Separate
  <2> QED BY <2>1, <2>2
<1>2. CASE ~(Len(batch) < 2)
  <2>1. PICK f \in FillId, g \in FillId : f = batch[1] /\ g = batch[2]
    BY <1>2
  <2>2. 1 \in DOMAIN batch /\ 2 \in DOMAIN batch
    BY <1>2
  <2>3. f # g /\ f \in ToSet(batch) /\ g \in ToSet(batch)
    BY <2>1, <2>2 DEF NoRepeats, ToSet
  <2>4. PICK h : h = halveAfterGasRevert(batch)
    OBVIOUS
  <2>5. h = <<<<f>>, <<g>>>>
    BY <1>2, <2>1, <2>4 DEF halveAfterGasRevert
  <2>6. h \in Seq(Seq(FillId)) /\ DOMAIN h = {1, 2} /\ h[1] = <<f>> /\ h[2] = <<g>>
    BY <2>5
  <2>7. ToSet(h[1]) = {f} /\ ToSet(h[2]) = {g} /\ NoRepeats(h[1]) /\ NoRepeats(h[2])
    <3>1. ToSet(<<f>>) = {f} /\ ToSet(<<g>>) = {g}
      <4>1. \A x : ToSet(<<x>>) = {x}
        BY DEF ToSet
      <4> QED BY <4>1
    <3>2. NoRepeats(<<f>>) /\ NoRepeats(<<g>>)
      BY DEF NoRepeats
    <3> QED BY <2>6, <3>1, <3>2
  <2>d. \A i \in DOMAIN h : i = 1 \/ i = 2
    BY <2>6
  <2>8. waiting(h) \subseteq ToSet(batch)
    <3>1. \A i \in DOMAIN h : ToSet(h[i]) \subseteq ToSet(batch)
      BY <2>3, <2>d, <2>7
    <3> QED BY <3>1 DEF waiting
  <2>9. Separate(h)
    <3>1. \A i \in DOMAIN h : NoRepeats(h[i])
      BY <2>d, <2>7
    <3>2. \A i, k \in DOMAIN h : i # k => ToSet(h[i]) \cap ToSet(h[k]) = {}
      <4>1. ToSet(h[1]) \cap ToSet(h[2]) = {} /\ ToSet(h[2]) \cap ToSet(h[1]) = {}
        BY <2>3, <2>7
      <4> QED BY <2>d, <4>1
    <3> QED BY <3>1, <3>2 DEF Separate
  <2> QED BY <2>4, <2>6, <2>8, <2>9
<1> QED BY <1>1, <1>2

\* A reservation taken back after submit failed.
LEMMA TrackedUndo ==
  ASSUME Typed, Typed', Tracked, Undo
  PROVE  Tracked'
<1>1. /\ fills' = without(ToSet(matcher.batch)) /\ UNCHANGED <<jobs, filled, log, cursor>>
      /\ ToSet(matcher.batch) \cap (decided \cup flying) = {}
  BY DEF Undo, Tracked, InHand
<1>2. Rested(matcher', <<>>)
  BY IdleAgain DEF Undo, Typed, TypeOK
<1>3. matcher'.pc \in {"down", "recover", "idle", "offer"} /\ matcher'.queue = <<>>
  BY <1>2 DEF Rested
<1>4. /\ Flying' /\ Decided' /\ reserving' = reserving \ ToSet(matcher.batch)
      /\ settledRows' = settledRows
  <2>1. \A f \in ToSet(matcher.batch) : pending(f) => f \notin decided \cup flying
    BY <1>1
  <2> QED BY <1>1, <2>1, Released
<1>5. InHand'
  BY <1>3, InHandRested
<1>6. Ledger'
  BY <1>3, <1>4, LedgerKept DEF Tracked
<1> QED BY <1>4, <1>5, <1>6 DEF Tracked

\* Orphans released: what is pending and not unsettled has no outcome and gets none.
LEMMA TrackedReleaseOrphans ==
  ASSUME Typed, Typed', Tracked, ReleaseOrphans
  PROVE  Tracked'
<1>1. /\ fills' = without(matcher.release) /\ UNCHANGED <<jobs, filled, log, cursor>>
      /\ \A f \in matcher.release : ~unsettled(f)
  BY DEF ReleaseOrphans, Tracked, InHand
<1>2. Rested(matcher', <<>>)
  BY IdleAgain DEF ReleaseOrphans, Typed, TypeOK
<1>3. matcher'.pc \in {"down", "recover", "idle", "offer"} /\ matcher'.queue = <<>>
  BY <1>2 DEF Rested
<1>4. ASSUME NEW f \in matcher.release, pending(f)
      PROVE  f \notin decided \cup flying
  <2>1. f \notin flying
    BY <1>1 DEF unsettled
  <2>2. ASSUME f \in decided PROVE FALSE
    <3>1. PICK i \in DOMAIN log : log[i].of = f /\ log[i].kind \in {"FillSettled", "FillRejected"}
      BY <2>2 DEF decided, settledOnChain, rejectedOnChain, settledBy, rejectedBy
    <3>2. i \in 1..cursor \/ i \in (cursor + 1)..Len(log)
      BY DEF Typed, TypeOK
    <3>3. i \notin 1..cursor
      BY <1>4, <3>1 DEF Tracked, Decided
    <3>4. i \notin (cursor + 1)..Len(log)
      BY <1>1, <3>1 DEF unsettled
    <3> QED BY <3>2, <3>3, <3>4
  <2> QED BY <2>1, <2>2
<1>5. /\ Flying' /\ Decided' /\ reserving' = reserving \ matcher.release
      /\ settledRows' = settledRows
  BY <1>1, <1>4, Released
<1>6. InHand'
  BY <1>3, InHandRested
<1>7. Ledger'
  BY <1>3, <1>5, LedgerKept DEF Tracked
<1> QED BY <1>5, <1>6, <1>7 DEF Tracked

\* A batch that reverted, released and offered again in halves.
LEMMA TrackedReleaseReverted ==
  ASSUME Typed, Typed', Tracked, ReleaseReverted
  PROVE  Tracked'
<1> DEFINE B == ToSet(matcher.batch)
<1>0. matcher \in Matcher /\ matcher.batch \in Seq(FillId) /\ matcher.queue \in Seq(Seq(FillId))
  BY DEF Typed, TypeOK, Matcher
<1>1. /\ matcher.pc = "reverted" /\ ~matcher.recovering
      /\ fills' = without(B) /\ UNCHANGED <<jobs, filled, log, cursor>>
  BY DEF ReleaseReverted, Tracked, InHand
<1>2. jobs[matcher.job].tx = "reverted"
  BY <1>1 DEF Tracked, InHand
<1>3. /\ B \cap decided = {} /\ B \subseteq reserving
      /\ \A k \in liveJobs \ {matcher.job} : B \cap ToSet(jobs[k].batch) = {}
  BY <1>1, <1>2 DEF Tracked, InHand
<1>4. NoRepeats(matcher.batch) /\ B \cap waiting(matcher.queue) = {}
  BY <1>1 DEF Tracked, InHand
<1>5. B \cap flying = {}
  <2>1. matcher.job \notin liveJobs
    BY <1>2 DEF liveJobs, live
  <2>2. \A k \in liveJobs : B \cap ToSet(jobs[k].batch) = {}
    BY <1>3, <2>1
  <2> HIDE DEF B
  <2> QED BY <2>2 DEF flying
<1>6. Flying' /\ Decided' /\ reserving' = reserving \ B /\ settledRows' = settledRows
  <2>1. \A f \in B : pending(f) => f \notin decided \cup flying
    BY <1>3, <1>5
  <2> HIDE DEF B
  <2> QED BY <1>1, <2>1, Released
<1>7. PICK h \in Seq(Seq(FillId)) :
        /\ waiting(h) \subseteq B /\ Separate(h)
        /\ matcher' = carryOn(h \o matcher.queue)
  <2>1. matcher' = carryOn(halveAfterGasRevert(matcher.batch) \o matcher.queue)
        \/ matcher' = carryOn(<<>> \o matcher.queue)
    BY DEF ReleaseReverted
  <2>2. /\ halveAfterGasRevert(matcher.batch) \in Seq(Seq(FillId))
        /\ waiting(halveAfterGasRevert(matcher.batch)) \subseteq B
        /\ Separate(halveAfterGasRevert(matcher.batch))
    BY <1>0, <1>4, HalvesAre
  <2>3. <<>> \in Seq(Seq(FillId)) /\ waiting(<<>>) \subseteq B /\ Separate(<<>>)
    BY DEF waiting, Separate
  <2> QED BY <2>1, <2>2, <2>3
<1>8. PICK q : q = h \o matcher.queue /\ q \in Seq(Seq(FillId))
  <2>1. PICK s \in Seq(Seq(FillId)) : s = matcher.queue
    BY <1>0
  <2>2. \A S : \A x, y \in Seq(S) : x \o y \in Seq(S)
    OBVIOUS
  <2>3. h \o s \in Seq(Seq(FillId))
    BY <2>2
  <2> QED BY <2>1, <2>3
<1>9. waiting(q) = waiting(h) \cup waiting(matcher.queue) /\ Separate(q)
  <2>1. Separate(matcher.queue) /\ waiting(h) \cap waiting(matcher.queue) = {}
    BY <1>4, <1>7 DEF Tracked, Ledger
  <2> QED BY <1>0, <1>7, <1>8, <2>1, QueueConcat
<1>10. matcher'.pc \in {"down", "recover", "idle", "offer"} /\ matcher'.queue = q
  <2>1. Rested(matcher', q)
    BY <1>0, <1>7, <1>8, CarriesOn
  <2> QED BY <2>1 DEF Rested
<1>11. InHand'
  BY <1>10, InHandRested
<1>12. ASSUME NEW o \in Orders
       PROVE  volume(settledRows' \cup reserving', o) + volume(waiting(q), o) <= OrderSize[o]
  <2>1. PICK L, K, W : L = settledRows \cup reserving /\ K = L \ B /\ W = waiting(matcher.queue)
    OBVIOUS
  <2>2. settledRows' \cup reserving' = K /\ L = K \cup B /\ K \cap B = {}
    BY <1>3, <1>6, <2>1, FillSets
  <2>3. B \in SUBSET FillId /\ IsFiniteSet(B)
    BY <1>0, BatchFinite
  <2>4. W \in SUBSET FillId /\ IsFiniteSet(W)
    BY <1>0, <2>1, WaitingFinite
  <2>5. waiting(h) \in SUBSET FillId /\ IsFiniteSet(waiting(h))
    BY WaitingFinite
  <2>6. K \in SUBSET FillId /\ IsFiniteSet(K)
    BY <2>1, FillSets, FS_Subset
  <2> HIDE DEF B
  <2>7. volume(L, o) = volume(K, o) + volume(B, o)
    <3>1. volume(K \cup B, o) = volume(K, o) + volume(B, o)
      BY <2>2, <2>3, <2>6, VolumeUnion
    <3> QED BY <2>2, <3>1
  <2>8. volume(waiting(h), o) <= volume(B, o)
    BY <1>7, <2>3, VolumeMonotone
  <2>9. volume(waiting(q), o) = volume(waiting(h), o) + volume(W, o)
    <3>1. waiting(h) \cap W = {}
      BY <1>4, <1>7, <2>1
    <3>2. PICK V : V = waiting(h)
      OBVIOUS
    <3>3. volume(V \cup W, o) = volume(V, o) + volume(W, o)
      BY <2>4, <2>5, <3>1, <3>2, VolumeUnion
    <3> QED BY <1>9, <2>1, <3>2, <3>3
  <2>10. volume(L, o) + volume(W, o) <= OrderSize[o]
    BY <2>1 DEF Tracked, Ledger
  <2>11. /\ volume(K, o) \in Nat /\ volume(B, o) \in Nat /\ volume(W, o) \in Nat
         /\ volume(waiting(h), o) \in Nat /\ OrderSize[o] \in Nat
    BY <2>3, <2>4, <2>5, <2>6, VolumeNat, Book
  <2>12. \A k, b, w, x, n \in Nat : k + b + w <= n /\ x <= b => k + (x + w) <= n
    OBVIOUS
  <2>13. volume(K, o) + volume(B, o) + volume(W, o) <= OrderSize[o]
    BY <2>7, <2>10
  <2>14. volume(K, o) + (volume(waiting(h), o) + volume(W, o)) <= OrderSize[o]
    BY <2>8, <2>11, <2>12, <2>13
  <2> QED BY <2>2, <2>9, <2>14
<1>13. Ledger'
  BY <1>9, <1>10, <1>12 DEF Ledger
<1> QED BY <1>6, <1>11, <1>13 DEF Tracked

\* The fills and the log stay, and no more is in flight.
LEMMA TablesStay ==
  ASSUME Typed, Tracked, UNCHANGED <<fills, filled, log, cursor>>, Eased
  PROVE  /\ Flying' /\ Decided' /\ flying' \subseteq flying
         /\ reserving' = reserving /\ settledRows' = settledRows /\ decided' = decided
<1>1. /\ reserving' = reserving /\ settledRows' = settledRows /\ decided' = decided
      /\ \A f : pending(f)' <=> pending(f)
  BY DEF reserving, settledRows, decided, settledOnChain, rejectedOnChain, pending
<1>2. flying' \subseteq flying
  BY FlyingLess DEF Eased
<1>3. Flying'
  BY <1>1, <1>2, FlyingKept DEF Tracked, Flying, Eased
<1>4. Decided'
  BY <1>1, DecidedKept DEF Tracked, Decided
<1> QED BY <1>1, <1>2, <1>3, <1>4

\* The next batch of a queue, and the rest.
LEMMA HeadOfQueue ==
  ASSUME NEW queue \in Seq(Seq(FillId)), queue # <<>>, Separate(queue)
  PROVE  /\ Head(queue) \in Seq(FillId) /\ Tail(queue) \in Seq(Seq(FillId))
         /\ NoRepeats(Head(queue)) /\ Separate(Tail(queue))
         /\ waiting(queue) = ToSet(Head(queue)) \cup waiting(Tail(queue))
         /\ ToSet(Head(queue)) \cap waiting(Tail(queue)) = {}
<1>1. PICK h, t : h = Head(queue) /\ t = Tail(queue)
  OBVIOUS
<1>2. /\ DOMAIN queue = 1..Len(queue) /\ Len(queue) \in Nat /\ Len(queue) >= 1
      /\ h \in Seq(FillId) /\ t \in Seq(Seq(FillId))
      /\ h = queue[1] /\ DOMAIN t = 1..(Len(queue) - 1)
      /\ \A i \in DOMAIN t : t[i] = queue[i + 1]
  BY <1>1
<1>3. 1 \in DOMAIN queue /\ \A i \in DOMAIN t : i + 1 \in DOMAIN queue /\ i + 1 # 1
  BY <1>2
<1>4. \A k \in DOMAIN queue : k = 1 \/ (k - 1 \in DOMAIN t /\ t[k - 1] = queue[k])
  <2>1. ASSUME NEW k \in DOMAIN queue, k # 1 PROVE k - 1 \in DOMAIN t /\ t[k - 1] = queue[k]
    <3>1. k - 1 \in DOMAIN t /\ (k - 1) + 1 = k
      BY <1>2, <2>1
    <3> QED BY <1>2, <3>1
  <2> QED BY <2>1
<1>5. waiting(queue) = ToSet(h) \cup waiting(t)
  <2>1. waiting(queue) \subseteq ToSet(h) \cup waiting(t)
    BY <1>2, <1>4 DEF waiting
  <2>2. ToSet(h) \subseteq waiting(queue)
    BY <1>2, <1>3 DEF waiting
  <2>3. waiting(t) \subseteq waiting(queue)
    BY <1>2, <1>3 DEF waiting
  <2> QED BY <2>1, <2>2, <2>3
<1>6. ToSet(h) \cap waiting(t) = {}
  <2>1. \A i \in DOMAIN t : ToSet(h) \cap ToSet(t[i]) = {}
    BY <1>2, <1>3 DEF Separate
  <2> QED BY <2>1 DEF waiting
<1>7. NoRepeats(h)
  BY <1>2, <1>3 DEF Separate
<1>8. Separate(t)
  <2>1. \A i \in DOMAIN t : NoRepeats(t[i])
    BY <1>2, <1>3 DEF Separate
  <2>2. ASSUME NEW i \in DOMAIN t, NEW k \in DOMAIN t, i # k
        PROVE  ToSet(t[i]) \cap ToSet(t[k]) = {}
    <3>1. i + 1 # k + 1
      BY <1>2, <2>2
    <3> QED BY <1>2, <1>3, <3>1 DEF Separate
  <2> QED BY <2>1, <2>2 DEF Separate
<1> QED BY <1>1, <1>2, <1>5, <1>6, <1>7, <1>8

\* Size reserved: it was waiting, and its ids are new.
LEMMA TrackedReserve ==
  ASSUME Typed, Typed', Tracked, ~gaveUp', Reserve
  PROVE  Tracked'
<1> DEFINE B == ToSet(Head(matcher.queue))
           W == waiting(Tail(matcher.queue))
<1>0. matcher \in Matcher /\ matcher.queue \in Seq(Seq(FillId)) /\ matcher.queue # <<>>
  BY DEF Reserve, Typed, TypeOK, Matcher
<1>1. /\ fills' = with(B) /\ UNCHANGED <<jobs, filled, log, cursor>>
      /\ B \cap DOMAIN fills = {}
  BY DEF Reserve
<1>2. /\ matcher'.pc = "submit" /\ matcher'.batch = Head(matcher.queue)
      /\ matcher'.queue = Tail(matcher.queue)
  BY <1>0 DEF Reserve, Matcher
<1>3. /\ Head(matcher.queue) \in Seq(FillId) /\ Tail(matcher.queue) \in Seq(Seq(FillId))
      /\ NoRepeats(Head(matcher.queue)) /\ Separate(Tail(matcher.queue))
      /\ waiting(matcher.queue) = B \cup W /\ B \cap W = {}
  BY <1>0, HeadOfQueue DEF Tracked, Ledger
<1>b. B \in SUBSET FillId /\ IsFiniteSet(B)
  BY <1>3, BatchFinite
<1>w. W \in SUBSET FillId /\ IsFiniteSet(W)
  BY <1>3, WaitingFinite
<1> HIDE DEF B, W
<1>4. /\ DOMAIN fills' = DOMAIN fills \cup B
      /\ \A f \in DOMAIN fills : fills'[f] = fills[f]
      /\ \A f \in B : fills'[f].status = "PENDING" /\ ~fills'[f].rejectReason
  BY <1>1 DEF with
<1>5. /\ reserving' = reserving \cup B /\ settledRows' = settledRows
      /\ \A f \in DOMAIN fills : pending(f)' <=> pending(f)
  BY <1>1, <1>4 DEF reserving, settledRows, pending
<1>6. decided' = decided /\ flying' = flying
  BY <1>1 DEF decided, settledOnChain, rejectedOnChain, flying, liveJobs, live
<1>7. B \cap (decided \cup flying) = {} /\ B \cap (settledRows \cup reserving) = {}
  BY <1>1, FillSets DEF Tracked, Decided, Flying
<1>8. Flying'
  BY <1>1, <1>5, <1>6, FlyingKept DEF Tracked, Flying, liveJobs, live
<1>9. Decided'
  BY <1>1, <1>4, <1>5, DecidedKept DEF Tracked, Decided
<1>10. InHand'
  BY <1>2, <1>3, <1>5, <1>6, <1>7 DEF InHand, B, W
<1>11. ASSUME NEW o \in Orders
       PROVE  volume(settledRows' \cup reserving', o) + volume(W, o) <= OrderSize[o]
  <2>1. PICK L : L = settledRows \cup reserving
    OBVIOUS
  <2>2. settledRows' \cup reserving' = L \cup B /\ L \in SUBSET FillId /\ IsFiniteSet(L)
    BY <1>5, <2>1, FillSets
  <2>3. volume(L \cup B, o) = volume(L, o) + volume(B, o)
    BY <1>b, <1>7, <2>1, <2>2, VolumeUnion
  <2>4. volume(B \cup W, o) = volume(B, o) + volume(W, o)
    BY <1>b, <1>w, <1>3, VolumeUnion
  <2>5. volume(L, o) + volume(B \cup W, o) <= OrderSize[o]
    BY <1>3, <2>1 DEF Tracked, Ledger
  <2>6. volume(L, o) \in Nat /\ volume(B, o) \in Nat /\ volume(W, o) \in Nat
    BY <1>b, <1>w, <2>2, VolumeNat
  <2>7. OrderSize[o] \in Nat
    BY Book
  <2>8. volume(L \cup B, o) + volume(W, o) <= OrderSize[o]
    BY <2>3, <2>4, <2>5, <2>6, <2>7
  <2> QED BY <2>2, <2>8
<1>12. Ledger'
  BY <1>2, <1>3, <1>11 DEF Ledger, W
<1> QED BY <1>8, <1>9, <1>10, <1>12 DEF Tracked

\* A plan fits in what is left of each order.
LEMMA TrackedTick ==
  ASSUME Typed, Typed', Recorded, Tracked, Tick
  PROVE  Tracked'
<1>0. matcher \in Matcher
  BY DEF Typed, TypeOK
<1>c. PICK cooling \in blocked : \E plan \in plans(cooling) : \E queue \in sizings(plan) :
        matcher' = [matcher EXCEPT !.pc = "offer", !.queue = queue, !.held = cooling]
  BY DEF Tick
<1>1. PICK plan \in plans(cooling) : \E queue \in sizings(plan) :
        matcher' = [matcher EXCEPT !.pc = "offer", !.queue = queue, !.held = cooling]
  BY <1>c
<1>2. PICK queue \in sizings(plan) :
        matcher' = [matcher EXCEPT !.pc = "offer", !.queue = queue, !.held = cooling]
  BY <1>1
<1>3. UNCHANGED <<fills, filled, log, cursor, jobs>>
  BY DEF Tick
<1>4. matcher'.pc = "offer" /\ matcher'.queue = queue
  BY <1>0, <1>2 DEF Matcher
<1>5. queue \in Seq(Seq(FillId)) /\ Separate(queue) /\ waiting(queue) = ToSet(plan)
  BY QueueIs
<1>6. /\ Flying' /\ Decided' /\ reserving' = reserving /\ settledRows' = settledRows
  BY <1>3, EasedSame, TablesStay
<1>7. InHand'
  BY <1>4, InHandRested
<1>8. ASSUME NEW o \in Orders
      PROVE  volume(settledRows \cup reserving, o) + volume(waiting(queue), o) <= OrderSize[o]
  <2>1. /\ volume(ToSet(plan), o) <= remaining(o) /\ volume(ToSet(plan), o) \in Nat
    BY PlanIs, VolumeNat
  <2>2. /\ reserved(o) = volume(reserving, o) /\ reserved(o) \in Nat
        /\ remaining(o) \in Nat
        /\ remaining(o) > 0 => remaining(o) + orders[o].filledSize + reserved(o) = OrderSize[o]
    BY RemainingIs
  <2>3. volume(settledRows \cup reserving, o) = volume(settledRows, o) + volume(reserving, o)
    BY FillSets, VolumeUnion
  <2>4. volume(settledRows, o) \in Nat /\ volume(reserving, o) \in Nat /\ OrderSize[o] \in Nat
    BY FillSets, VolumeNat, Book
  <2>5. CASE remaining(o) = 0
    <3>1. volume(settledRows \cup reserving, o) + volume(waiting(matcher.queue), o) <= OrderSize[o]
      BY DEF Tracked, Ledger
    <3>2. volume(waiting(matcher.queue), o) \in Nat
      <4>1. matcher.queue \in Seq(Seq(FillId))
        BY <1>0 DEF Matcher
      <4> QED BY <4>1, WaitingFinite, VolumeNat
    <3>3. volume(ToSet(plan), o) = 0
      BY <2>1, <2>2, <2>5
    <3> QED BY <1>5, <2>3, <2>4, <3>1, <3>2, <3>3
  <2>6. CASE remaining(o) > 0
    <3>1. orders[o].filledSize = Min({OrderSize[o], settledIn(fills, o)})
      BY DEF Recorded
    <3>2. settledIn(fills, o) = volume(settledRows, o)
      BY SettledInIs DEF settledRows
    <3>3. orders[o].filledSize = IF OrderSize[o] <= volume(settledRows, o) THEN OrderSize[o] ELSE volume(settledRows, o)
      BY <2>4, <3>1, <3>2, MinOfTwo
    <3>4. orders[o].filledSize = volume(settledRows, o)
      BY <2>2, <2>4, <2>6, <3>3
    <3>5. volume(settledRows, o) + volume(reserving, o) + volume(ToSet(plan), o) <= OrderSize[o]
      BY <2>1, <2>2, <2>4, <2>6, <3>4
    <3> QED BY <1>5, <2>3, <3>5
  <2> QED BY <2>2, <2>5, <2>6
<1>9. Ledger'
  BY <1>4, <1>5, <1>6, <1>8 DEF Ledger
<1> QED BY <1>6, <1>7, <1>9 DEF Tracked

\* The batch's rows get its job.
LEMMA TrackedLink ==
  ASSUME Typed, Typed', Tracked, Link
  PROVE  Tracked'
<1>0. matcher \in Matcher
  BY DEF Typed, TypeOK
<1>1. /\ fills' = linked(ToSet(matcher.batch), matcher.job) /\ UNCHANGED <<jobs, filled, log, cursor>>
      /\ matcher.pc = "link"
  BY DEF Link
<1>2. /\ matcher'.pc = "wait" /\ matcher'.batch = matcher.batch /\ matcher'.job = matcher.job
      /\ matcher'.queue = matcher.queue /\ matcher'.recovering = matcher.recovering
  BY <1>0 DEF Link, Matcher
<1>3. /\ DOMAIN fills' = DOMAIN fills
      /\ \A f \in DOMAIN fills : /\ fills'[f].status = fills[f].status
                                 /\ fills'[f].rejectReason = fills[f].rejectReason
  <2>1. \A f \in DOMAIN fills : fills[f] \in Row
    BY DEF Typed, TypeOK
  <2>2. DOMAIN fills' = DOMAIN fills
    BY <1>1 DEF linked
  <2>3. ASSUME NEW f \in DOMAIN fills
        PROVE  fills'[f].status = fills[f].status /\ fills'[f].rejectReason = fills[f].rejectReason
    <3>1. fills'[f] = fills[f] \/ fills'[f] = [fills[f] EXCEPT !.txJobId = matcher.job]
      BY <1>1 DEF linked
    <3> QED BY <2>1, <3>1 DEF Row
  <2> QED BY <2>2, <2>3
<1>4. /\ reserving' = reserving /\ settledRows' = settledRows /\ \A f : pending(f)' <=> pending(f)
  <2>1. \A f : pending(f)' <=> pending(f)
    BY <1>3 DEF pending
  <2> QED BY <1>3, <2>1 DEF reserving, settledRows
<1>5. decided' = decided /\ flying' = flying /\ liveJobs' = liveJobs
  BY <1>1 DEF decided, settledOnChain, rejectedOnChain, flying, liveJobs, live
<1>6. Flying'
  BY <1>1, <1>4, <1>5, FlyingKept DEF Tracked, Flying
<1>7. Decided'
  BY <1>1, <1>3, <1>4, DecidedKept DEF Tracked, Decided
<1>8. InHand'
  BY <1>1, <1>2, <1>4, <1>5 DEF Tracked, InHand
<1>9. Ledger'
  BY <1>2, <1>4, LedgerKept DEF Tracked
<1> QED BY <1>6, <1>7, <1>8, <1>9 DEF Tracked

\* The receipt of a batch.
LEMMA TrackedMined ==
  ASSUME Typed, Typed', Tracked, Mined
  PROVE  Tracked'
<1>0. matcher \in Matcher /\ matcher.job \in DOMAIN jobs /\ jobs \in Seq(Job)
      /\ matcher.queue \in Seq(Seq(FillId)) /\ matcher.pc = "wait"
  BY DEF Mined, Typed, TypeOK, Matcher
<1>1. UNCHANGED <<fills, filled, log, cursor>> /\ Eased
  BY EasedBy DEF Mined
<1>2. /\ Flying' /\ Decided' /\ flying' \subseteq flying
      /\ reserving' = reserving /\ settledRows' = settledRows /\ decided' = decided
  BY <1>1, TablesStay
<1>3. ASSUME NEW queue \in Seq(Seq(FillId)), queue = matcher.queue \/ queue = <<>>,
             matcher' = carryOn(queue)
      PROVE  Tracked'
  <2>1. Rested(matcher', queue)
    BY <1>0, <1>3, CarriesOn
  <2> QED BY <1>1, <1>3, <2>1, TrackedRested DEF Rested
<1>4. CASE jobs[matcher.job].tx = "success" /\ matcher.batch # <<>>
  <2>1. matcher' = [matcher EXCEPT !.pc = "apply", !.rejected = jobs[matcher.job].rejected]
    BY <1>4 DEF Mined
  <2>2. /\ matcher'.pc = "apply" /\ matcher'.batch = matcher.batch /\ matcher'.queue = matcher.queue
        /\ matcher'.recovering = matcher.recovering
    BY <1>0, <2>1 DEF Matcher
  <2>3. InHand'
    BY <1>0, <2>2 DEF Tracked, InHand
  <2>4. Ledger'
    BY <1>2, <2>2, LedgerKept DEF Tracked
  <2> QED BY <1>2, <2>3, <2>4 DEF Tracked
<1>5. CASE jobs[matcher.job].tx = "reverted" /\ ~matcher.recovering
  <2>1. matcher' = [matcher EXCEPT !.pc = "reverted"]
    BY <1>5 DEF Mined
  <2>2. /\ matcher'.pc = "reverted" /\ matcher'.batch = matcher.batch /\ matcher'.queue = matcher.queue
        /\ matcher'.recovering = matcher.recovering /\ matcher'.job = matcher.job
    BY <1>0, <2>1 DEF Matcher
  <2>3. jobs'[matcher.job].tx = "reverted"
    BY <1>0, <1>1, <1>5 DEF Eased
  <2>4. \A k \in liveJobs' : k \in liveJobs /\ jobs'[k].batch = jobs[k].batch
    BY <1>1 DEF Eased, liveJobs
  <2>5. /\ ToSet(matcher.batch) \cap decided = {} /\ ToSet(matcher.batch) \subseteq reserving
        /\ \A k \in liveJobs \ {matcher.job} : ToSet(matcher.batch) \cap ToSet(jobs[k].batch) = {}
        /\ NoRepeats(matcher.batch) /\ ToSet(matcher.batch) \cap waiting(matcher.queue) = {}
    BY <1>0, <1>5 DEF Tracked, InHand
  <2>6. InHand'
    BY <1>2, <1>5, <2>2, <2>3, <2>4, <2>5 DEF InHand
  <2>7. Ledger'
    BY <1>2, <2>2, LedgerKept DEF Tracked
  <2> QED BY <1>2, <2>6, <2>7 DEF Tracked
<1>6. CASE jobs[matcher.job].tx = "success" /\ matcher.batch = <<>>
  <2>1. matcher' = carryOn(matcher.queue)
    BY <1>6 DEF Mined
  <2> QED BY <1>0, <1>3, <2>1
<1>7. CASE jobs[matcher.job].tx = "reverted" /\ matcher.recovering
  <2>1. matcher' = carryOn(<<>>) /\ <<>> \in Seq(Seq(FillId))
    BY <1>7 DEF Mined
  <2> QED BY <1>3, <2>1
<1> QED BY <1>4, <1>5, <1>6, <1>7 DEF Mined

\* The steps that put the batch away and leave the tables, or only record an outcome.
LEMMA TrackedPutAway ==
  ASSUME Typed, Typed', Tracked, TimedOut \/ NonceTaken \/ Applied \/ Start \/ Fails
  PROVE  Tracked'
<1>0. matcher \in Matcher /\ matcher.queue \in Seq(Seq(FillId))
  BY DEF Typed, TypeOK, Matcher
<1>1. UNCHANGED <<fills, filled, log, cursor>>
  BY DEF TimedOut, NonceTaken, Applied, Start, Fails
<1>2. Eased
  <2>1. CASE NonceTaken
    BY <2>1, EasedBy
  <2>2. CASE ~NonceTaken
    BY <2>2, EasedSame DEF TimedOut, Applied, Start, Fails
  <2> QED BY <2>1, <2>2
<1>3. /\ matcher'.pc \in {"down", "recover", "idle", "offer"}
      /\ matcher'.queue = matcher.queue \/ matcher'.queue = <<>>
  <2>1. CASE TimedOut
    <3>1. Rested(matcher', matcher.queue)
      BY <1>0, <2>1, CarriesOn DEF TimedOut
    <3> QED BY <3>1 DEF Rested
  <2>2. CASE NonceTaken \/ Fails
    <3>1. Rested(matcher', <<>>)
      BY <1>0, <2>2, DownRested, IdleAgain DEF NonceTaken, Fails
    <3> QED BY <3>1 DEF Rested
  <2>3. CASE Applied
    <3>1. PICK m : m = carryOn(matcher.queue)
      OBVIOUS
    <3>2. Rested(m, matcher.queue)
      BY <1>0, <3>1, CarriesOn
    <3>3. PICK held : matcher' = [m EXCEPT !.held = held]
      BY <2>3, <3>1 DEF Applied
    <3> QED BY <3>2, <3>3 DEF Rested, Matcher
  <2>4. CASE Start
    <3>1. PICK d : d = Down
      OBVIOUS
    <3>2. d \in Matcher /\ d.queue = <<>>
      BY <3>1, DownTyped
    <3>3. PICK todo : matcher' = [d EXCEPT !.pc = "recover", !.recovering = TRUE, !.todo = todo]
      BY <2>4, <3>1 DEF Start
    <3> QED BY <3>2, <3>3 DEF Matcher
  <2> QED BY <2>1, <2>2, <2>3, <2>4
<1> QED BY <1>1, <1>2, <1>3, TrackedRested

\* Recovery: an open job to wait for, or orphans whose outcome is known.
LEMMA TrackedRecovery ==
  ASSUME Typed, Typed', Tracked, ~gaveUp', RecoverJob \/ ScanOrphans
  PROVE  Tracked'
<1>0. matcher \in Matcher /\ matcher.recovering
  BY DEF RecoverJob, ScanOrphans, Typed, TypeOK
<1>1. UNCHANGED <<fills, filled, log, cursor, jobs>>
  BY DEF RecoverJob, ScanOrphans
<1>2. /\ Flying' /\ Decided' /\ reserving' = reserving /\ settledRows' = settledRows
  BY <1>1, EasedSame, TablesStay
<1>3. CASE RecoverJob
  <2>1. matcher'.pc = "wait" /\ matcher'.recovering /\ matcher'.queue = matcher.queue
    BY <1>0, <1>3 DEF RecoverJob, Matcher
  <2>2. InHand'
    BY <2>1 DEF InHand
  <2>3. Ledger'
    BY <1>2, <2>1, LedgerKept DEF Tracked
  <2> QED BY <1>2, <2>2, <2>3 DEF Tracked
<1>4. CASE ScanOrphans
  <2>1. matcher'.pc = "orphans" /\ matcher'.queue = matcher.queue
    BY <1>0, <1>4 DEF ScanOrphans, Matcher
  <2>2. ASSUME NEW f \in matcher'.release PROVE ~unsettled(f)'
    <3>1. ~undecided(f)
      BY <1>4, <2>2 DEF ScanOrphans
    <3>2. unsettled(f)' <=> unsettled(f)
      BY <1>1 DEF unsettled, flying, liveJobs, live
    <3>3. unsettled(f) => undecided(f)
      BY DEF unsettled, undecided, flying, liveJobs
    <3> QED BY <3>1, <3>2, <3>3
  <2>3. InHand'
    BY <2>1, <2>2 DEF InHand
  <2>4. Ledger'
    BY <1>2, <2>1, LedgerKept DEF Tracked
  <2> QED BY <1>2, <2>3, <2>4 DEF Tracked
<1> QED BY <1>3, <1>4

\* The reason of a rejection: the fill was rejected on chain, so it reserves for nothing.
LEMMA TrackedApply ==
  ASSUME Typed, Typed', Recorded, Tracked, Apply
  PROVE  Tracked'
<1>0. matcher \in Matcher /\ matcher.rejected \in Seq(Rejection) /\ matcher.rejected # <<>>
      /\ \A f \in DOMAIN fills : fills[f] \in Row
  BY DEF Apply, Typed, TypeOK, Matcher
<1>1. PICK f : f = Head(matcher.rejected).fill
  OBVIOUS
<1>2. /\ UNCHANGED <<jobs, filled, log, cursor>>
      /\ fills' = IF pending(f) THEN [fills EXCEPT ![f].rejectReason = TRUE] ELSE fills
  BY <1>1 DEF Apply
<1>3. /\ matcher'.pc = "apply" /\ matcher'.batch = matcher.batch /\ matcher'.queue = matcher.queue
      /\ matcher'.recovering = matcher.recovering
  BY <1>0 DEF Apply, Matcher
<1>4. f \in rejectedOnChain
  <2>1. Head(matcher.rejected) \in ToSet(matcher.rejected)
    BY <1>0 DEF ToSet
  <2> QED BY <1>1, <2>1 DEF Recorded
<1>5. /\ DOMAIN fills' = DOMAIN fills
      /\ \A g \in DOMAIN fills : /\ fills'[g].status = fills[g].status
                                 /\ g # f => fills'[g] = fills[g]
      /\ pending(f) => fills'[f].rejectReason
      /\ ~pending(f) => fills' = fills
  <2>1. CASE pending(f)
    <3>1. f \in DOMAIN fills /\ fills[f] \in Row
      BY <1>0, <2>1 DEF pending
    <3>2. fills' = [fills EXCEPT ![f].rejectReason = TRUE]
      BY <1>2, <2>1
    <3>3. /\ DOMAIN fills' = DOMAIN fills /\ \A g \in DOMAIN fills \ {f} : fills'[g] = fills[g]
          /\ fills'[f] = [fills[f] EXCEPT !.rejectReason = TRUE]
      BY <3>1, <3>2
    <3>4. fills'[f].status = fills[f].status /\ fills'[f].rejectReason
      BY <3>1, <3>3 DEF Row
    <3> QED BY <2>1, <3>3, <3>4
  <2>2. CASE ~pending(f)
    BY <1>2, <2>2
  <2> QED BY <2>1, <2>2
<1>6. \A g : pending(g)' <=> pending(g)
  BY <1>5 DEF pending
<1>7. reserving' = reserving \ {f} /\ settledRows' = settledRows
  <2>1. settledRows' = settledRows
    BY <1>5 DEF settledRows
  <2>2. f \notin reserving'
    BY <1>5, <1>6 DEF reserving
  <2>3. \A g : g # f => (g \in reserving' <=> g \in reserving)
    BY <1>5, <1>6 DEF reserving
  <2> QED BY <2>1, <2>2, <2>3
<1>8. decided' = decided /\ flying' = flying /\ liveJobs' = liveJobs
  BY <1>2 DEF decided, settledOnChain, rejectedOnChain, flying, liveJobs, live
<1>9. f \notin flying /\ f \notin settledOnChain
  BY <1>4 DEF Tracked, Flying, Decided, decided
<1>10. Flying'
  BY <1>2, <1>7, <1>8, <1>9, FlyingKept DEF Tracked, Flying
<1>11. Decided'
  BY <1>2, <1>5, <1>6, <1>7, <1>9, DecidedKept DEF Tracked, Decided
<1>12. InHand'
  <2>1. matcher.pc = "apply"
    BY DEF Apply
  <2> QED BY <1>3, <2>1 DEF Tracked, InHand
<1>13. Ledger'
  BY <1>3, <1>7, LedgerKept DEF Tracked
<1> QED BY <1>10, <1>11, <1>12, <1>13 DEF Tracked

\* A batch is mined: its fills were in flight, and now each is decided.
LEMMA TrackedMine ==
  ASSUME Typed, Typed', Recorded, Tracked, NEW j \in DOMAIN jobs, Mine(j)
  PROVE  Tracked'
<1> DEFINE B == ToSet(jobs[j].batch)
<1>0. /\ jobs \in Seq(Job) /\ jobs[j] \in Job /\ log \in Seq(FillEvent \cup CancelEvent)
      /\ matcher.pc \in {"link", "wait", "reverted"} => matcher.job \in DOMAIN jobs
      /\ cursor \in 0..Len(log) /\ Len(log) \in Nat
  BY DEF Typed, TypeOK
<1>m. PICK refused \in SUBSET B : \E r :
        /\ r = executed(jobs[j].batch, refused)
        /\ jobs' = [jobs EXCEPT ![j].tx = "success", ![j].rejected = r.rejected]
        /\ filled' = r.filled /\ log' = log \o r.events
  BY DEF Mine
<1>1. PICK r :
        /\ r = executed(jobs[j].batch, refused)
        /\ jobs' = [jobs EXCEPT ![j].tx = "success", ![j].rejected = r.rejected]
        /\ filled' = r.filled /\ log' = log \o r.events
  BY <1>m
<1>2. jobs[j].tx = "mempool" /\ UNCHANGED <<fills, cursor, matcher>>
  BY DEF Mine
<1>3. j \in liveJobs /\ B \subseteq flying
  BY <1>2 DEF liveJobs, live, flying
<1>4. NoRepeats(jobs[j].batch) /\ B \cap decided = {} /\ B \subseteq reserving
  BY <1>3 DEF Tracked, Flying
<1>5. Outcome(r, B, settledOnChain, TRUE)
  <2>1. \A o \in Orders : filled[o] = volume(settledOnChain, o) /\ volume(settledOnChain, o) <= filled[o]
    BY DEF Recorded, Tracked, Decided
  <2>2. B \cap settledOnChain = {}
    BY <1>4 DEF decided
  <2> QED BY <1>1, <1>4, <2>1, <2>2, MinedBatch
<1>6. PICK S, J : S = settledBy(r.events) /\ J = rejectedBy(r.events)
  OBVIOUS
<1>7. /\ r \in Results /\ S \cup J = B /\ S \cap J = {}
      /\ \A o \in Orders : r.filled[o] = volume(settledOnChain \cup S, o)
  BY <1>5, <1>6 DEF Outcome
<1>8. /\ settledOnChain' = settledOnChain \cup S /\ rejectedOnChain' = rejectedOnChain \cup J
      /\ decided' = decided \cup B
  <2>1. r.events \in Seq(FillEvent \cup CancelEvent)
    BY <1>7 DEF Results
  <2>2. settledOnChain' = settledOnChain \cup S /\ rejectedOnChain' = rejectedOnChain \cup J
    BY <1>0, <1>1, <1>6, <2>1, MoreEvents DEF settledOnChain, rejectedOnChain
  <2> HIDE DEF B
  <2> QED BY <1>7, <2>2 DEF decided
<1>9. /\ DOMAIN jobs' = DOMAIN jobs /\ jobs'[j].tx = "success" /\ jobs'[j].batch = jobs[j].batch
      /\ \A k \in DOMAIN jobs \ {j} : jobs'[k] = jobs[k]
  <2>1. PICK job : job = [jobs[j] EXCEPT !.tx = "success", !.rejected = r.rejected]
    OBVIOUS
  <2>2. job.tx = "success" /\ job.batch = jobs[j].batch
    BY <1>0, <2>1 DEF Job
  <2>3. jobs' = [jobs EXCEPT ![j] = job]
    BY <1>1, <2>1
  <2> QED BY <1>0, <2>2, <2>3
<1>10. liveJobs' = liveJobs \ {j}
  <2>1. j \notin liveJobs'
    BY <1>9 DEF liveJobs, live
  <2>2. \A k : k # j => (k \in liveJobs' <=> k \in liveJobs)
    BY <1>9 DEF liveJobs, live
  <2> QED BY <2>1, <2>2
<1>11. \A k \in DOMAIN jobs : jobs'[k].batch = jobs[k].batch
  BY <1>9
<1>12. flying' \subseteq flying /\ flying' \cap B = {}
  <2>1. \A k \in liveJobs' : ToSet(jobs'[k].batch) \cap B = {}
    BY <1>3, <1>10, <1>11 DEF Tracked, Flying, liveJobs
  <2>2. flying' \subseteq flying
    BY <1>9, <1>10, <1>11, FlyingLess
  <2> HIDE DEF B
  <2> QED BY <2>1, <2>2 DEF flying
<1>13. reserving' = reserving /\ settledRows' = settledRows /\ \A f : pending(f)' <=> pending(f)
  BY <1>2 DEF reserving, settledRows, pending
<1>14. Flying'
  <2>1. flying' \subseteq reserving' /\ flying' \cap decided' = {}
    BY <1>8, <1>12, <1>13 DEF Tracked, Flying
  <2> QED BY <1>9, <1>10, <1>11, <2>1, FlyingKept DEF Tracked
<1>15. /\ Len(log') = Len(log) + Len(r.events) /\ Len(r.events) \in Nat
       /\ \A i \in 1..Len(log) : log'[i] = log[i]
       /\ \A i \in (Len(log) + 1)..Len(log') :
            i - Len(log) \in DOMAIN r.events /\ log'[i] = r.events[i - Len(log)]
  <2>1. r.events \in Seq(FillEvent)
    BY <1>7 DEF Results
  <2>a. PICK v \in Seq(FillEvent) : v = r.events
    BY <2>1
  <2>b. v \in Seq(FillEvent \cup CancelEvent)
    OBVIOUS
  <2>2. PICK u : v = r.events /\ u = log \o v
    BY <2>a
  <2>3. /\ Len(u) = Len(log) + Len(v) /\ Len(v) \in Nat /\ DOMAIN v = 1..Len(v)
        /\ \A i \in 1..(Len(log) + Len(v)) : u[i] = IF i <= Len(log) THEN log[i] ELSE v[i - Len(log)]
    BY <1>0, <2>b, <2>2
  <2>4. \A i \in 1..Len(log) : u[i] = log[i]
    BY <1>0, <2>3
  <2>5. \A i \in (Len(log) + 1)..Len(u) : i - Len(log) \in DOMAIN v /\ u[i] = v[i - Len(log)]
    BY <1>0, <2>3
  <2> QED BY <1>1, <2>2, <2>3, <2>4, <2>5
<1>16. Decided'
  <2>1. settledOnChain' \cap rejectedOnChain' = {}
    BY <1>4, <1>7, <1>8 DEF decided, Tracked, Decided
  <2>2. decided' \subseteq DOMAIN fills'
    BY <1>2, <1>4, <1>8, FillSets DEF Tracked, Decided
  <2>3. settledOnChain' \subseteq reserving' \cup settledRows'
    BY <1>4, <1>7, <1>8, <1>13 DEF Tracked, Decided
  <2>4. (\A i \in 1..cursor : log[i].kind \in {"FillSettled", "FillRejected"} => ~pending(log[i].of))'
    <3>1. ASSUME NEW i \in 1..cursor
          PROVE  /\ log'[i] = log[i]
                 /\ log[i].kind \in {"FillSettled", "FillRejected"} =>
                      ~(log[i].of \in DOMAIN fills /\ fills[log[i].of].status = "PENDING")
      <4>1. i \in 1..Len(log)
        BY <1>0
      <4> QED BY <1>15, <4>1 DEF Tracked, Decided, pending
    <3> QED BY <1>2, <3>1 DEF pending
  <2>5. \A o \in Orders : filled'[o] = volume(settledOnChain', o)
    BY <1>1, <1>7, <1>8
  <2> QED BY <2>1, <2>2, <2>3, <2>4, <2>5 DEF Decided
<1>17. ASSUME NEW f, unsettled(f)' PROVE unsettled(f)
  <2>1. CASE f \in flying'
    BY <1>12, <2>1 DEF unsettled
  <2>2. ASSUME NEW i \in (cursor' + 1)..Len(log'), log'[i].kind \in {"FillSettled", "FillRejected"},
               log'[i].of = f
        PROVE  unsettled(f)
    <3>1. CASE i <= Len(log)
      <4>1. i \in (cursor + 1)..Len(log) /\ i \in 1..Len(log)
        BY <1>0, <1>2, <1>15, <2>2, <3>1
      <4> QED BY <1>15, <2>2, <4>1 DEF unsettled
    <3>2. CASE ~(i <= Len(log))
      <4>1. i \in (Len(log) + 1)..Len(log')
        BY <1>0, <1>2, <1>15, <2>2, <3>2
      <4>2. i - Len(log) \in DOMAIN r.events /\ log'[i] = r.events[i - Len(log)]
        BY <1>15, <4>1
      <4>3. PICK k \in DOMAIN r.events : r.events[k].of = f /\ r.events[k].kind \in {"FillSettled", "FillRejected"}
        BY <2>2, <4>2
      <4>4. f \in S \cup J
        BY <1>6, <4>3 DEF settledBy, rejectedBy
      <4> QED BY <1>3, <1>7, <4>4 DEF unsettled
    <3> QED BY <3>1, <3>2
  <2> QED BY <1>17, <2>1, <2>2 DEF unsettled
<1>18. InHand'
  <2>1. matcher.pc \in {"submit", "undo"} => ToSet(matcher.batch) \cap (decided' \cup flying') = {}
    BY <1>3, <1>8, <1>12 DEF Tracked, InHand
  <2>2. matcher.pc = "submit" => NoRepeats(matcher.batch) /\ ToSet(matcher.batch) \subseteq reserving'
    BY <1>13 DEF Tracked, InHand
  <2>3. ASSUME matcher.pc \in {"link", "wait", "reverted"}, ~matcher.recovering,
               jobs'[matcher.job].tx # "success"
        PROVE  /\ ToSet(matcher.batch) \cap decided' = {} /\ ToSet(matcher.batch) \subseteq reserving'
               /\ \A k \in liveJobs' \ {matcher.job} : ToSet(matcher.batch) \cap ToSet(jobs'[k].batch) = {}
    <3>1. matcher.job # j /\ matcher.job \in DOMAIN jobs
      BY <1>0, <1>9, <2>3
    <3>2. jobs[matcher.job].tx # "success"
      BY <1>9, <2>3, <3>1
    <3>3. /\ ToSet(matcher.batch) \cap decided = {} /\ ToSet(matcher.batch) \subseteq reserving
          /\ \A k \in liveJobs \ {matcher.job} : ToSet(matcher.batch) \cap ToSet(jobs[k].batch) = {}
      BY <2>3, <3>2 DEF Tracked, InHand
    <3>4. ToSet(matcher.batch) \cap B = {}
      BY <1>3, <3>1, <3>3
    <3>5. \A k \in liveJobs' : k \in liveJobs /\ jobs'[k].batch = jobs[k].batch
      BY <1>10, <1>11 DEF liveJobs
    <3> HIDE DEF B
    <3> QED BY <1>8, <1>13, <3>3, <3>4, <3>5
  <2>4. matcher.pc = "reverted" => jobs'[matcher.job].tx = "reverted" /\ ~matcher.recovering
    <3>1. ASSUME matcher.pc = "reverted" PROVE jobs'[matcher.job] = jobs[matcher.job] /\ jobs[matcher.job].tx = "reverted"
                                               /\ ~matcher.recovering
      <4>1. jobs[matcher.job].tx = "reverted" /\ ~matcher.recovering
        BY <3>1 DEF Tracked, InHand
      <4> QED BY <1>0, <1>2, <1>9, <3>1, <4>1
    <3> QED BY <3>1
  <2>5. matcher.pc = "orphans" => \A f \in matcher.release : ~unsettled(f)'
    BY <1>17 DEF Tracked, InHand
  <2>6. matcher.pc \in {"submit", "undo", "link", "wait", "apply", "reverted"} /\ ~matcher.recovering =>
          NoRepeats(matcher.batch) /\ ToSet(matcher.batch) \cap waiting(matcher.queue) = {}
    BY DEF Tracked, InHand
  <2> QED BY <1>2, <2>1, <2>2, <2>3, <2>4, <2>5, <2>6 DEF InHand
<1>19. Ledger'
  BY <1>2, <1>13, LedgerKept DEF Tracked
<1> QED BY <1>14, <1>16, <1>18, <1>19 DEF Tracked

\* The next event is indexed: what its fill reserved is settled or given back.
LEMMA TrackedIndex ==
  ASSUME Typed, Typed', Tracked, Index
  PROVE  Tracked'
<1>1. PICK e : e = log[cursor + 1]
  OBVIOUS
<1>2. /\ cursor' = cursor + 1 /\ UNCHANGED <<jobs, filled, log, matcher>>
      /\ cursor \in Nat /\ cursor + 1 \in DOMAIN log
  BY IndexedRows, <1>1 DEF Index, Typed, TypeOK
<1>3. /\ decided' = decided /\ flying' = flying /\ liveJobs' = liveJobs
      /\ settledOnChain' = settledOnChain /\ rejectedOnChain' = rejectedOnChain
  BY <1>2 DEF decided, settledOnChain, rejectedOnChain, flying, liveJobs, live
<1>4. ASSUME NEW f, unsettled(f)' PROVE unsettled(f)
  <2>1. \A i \in (cursor' + 1)..Len(log) : i \in (cursor + 1)..Len(log)
    BY <1>2 DEF Typed, TypeOK
  <2> QED BY <1>2, <1>3, <1>4, <2>1 DEF unsettled
<1>5. ASSUME reserving' \subseteq reserving, settledRows' \cup reserving' \subseteq settledRows \cup reserving,
             decided \subseteq DOMAIN fills',
             reserving \ decided \subseteq reserving', settledOnChain \subseteq reserving' \cup settledRows',
             \A f \in decided : pending(f)' => pending(f),
             e.kind \in {"FillSettled", "FillRejected"} => ~pending(e.of)'
      PROVE  Tracked'
  <2>1. flying' \subseteq reserving' /\ flying' \cap decided' = {}
    BY <1>3, <1>5 DEF Tracked, Flying
  <2>2. Flying'
    BY <1>2, <1>3, <2>1, FlyingKept DEF Tracked, Flying
  <2>3. (\A i \in 1..cursor : log[i].kind \in {"FillSettled", "FillRejected"} => ~pending(log[i].of))'
    <3>1. ASSUME NEW i \in 1..(cursor + 1), log[i].kind \in {"FillSettled", "FillRejected"}
          PROVE  ~(log[i].of \in DOMAIN fills' /\ fills'[log[i].of].status = "PENDING")
      <4>1. CASE i = cursor + 1
        BY <1>1, <1>5, <3>1, <4>1 DEF pending
      <4>2. CASE i \in 1..cursor
        <5>1. PICK f : f = log[i].of
          OBVIOUS
        <5>2. ~pending(f)
          BY <3>1, <4>2, <5>1 DEF Tracked, Decided
        <5>3. f \in decided
          <6>1. i \in DOMAIN log
            BY <4>2 DEF Typed, TypeOK
          <6> QED BY <3>1, <5>1, <6>1 DEF decided, settledOnChain, rejectedOnChain, settledBy, rejectedBy
        <5>4. ~pending(f)'
          BY <1>5, <5>2, <5>3
        <5> QED BY <5>1, <5>4 DEF pending
      <4> QED BY <1>2, <4>1, <4>2
    <3> QED BY <1>2, <3>1 DEF pending
  <2>4. Decided'
    BY <1>2, <1>3, <1>5, <2>3 DEF Tracked, Decided
  <2>5. InHand'
    BY <1>2, <1>3, <1>4, <1>5, EasedSame, InHandKept DEF Tracked
  <2>6. Ledger'
    BY <1>2, <1>5, LedgerKept DEF Tracked
  <2> QED BY <2>2, <2>4, <2>5, <2>6 DEF Tracked
<1>6. /\ settledOnChain \cap rejectedOnChain = {} /\ decided \subseteq DOMAIN fills
      /\ settledOnChain \subseteq reserving \cup settledRows
      /\ settledOnChain \subseteq decided /\ rejectedOnChain \subseteq decided
  BY DEF Tracked, Decided, decided
<1>7. CASE e.kind = "FillSettled"
  <2>1. /\ e.of \in settledOnChain /\ DOMAIN fills' = {e.of} \cup DOMAIN fills
        /\ \A f \in DOMAIN fills \ {e.of} : fills'[f] = fills[f]
        /\ fills'[e.of].status = "SETTLED" /\ ~fills'[e.of].rejectReason
        /\ settledRows' = settledRows \cup {e.of}
    BY <1>1, <1>7, IndexedRows
  <2>2. ~pending(e.of)' /\ \A f : pending(f)' => pending(f) /\ f # e.of
    BY <2>1 DEF pending
  <2>3. reserving' = reserving \ {e.of}
    <3>1. e.of \notin reserving'
      BY <2>2 DEF reserving
    <3>2. \A f : f # e.of => (f \in reserving' <=> f \in reserving)
      BY <2>1 DEF reserving, pending
    <3> QED BY <3>1, <3>2
  <2>4. e.of \in reserving \cup settledRows /\ e.of \in decided
    BY <1>6, <2>1
  <2> QED BY <1>5, <1>6, <2>1, <2>2, <2>3, <2>4
<1>8. CASE e.kind = "FillRejected"
  <2>1. /\ e.of \in rejectedOnChain /\ DOMAIN fills' = DOMAIN fills
        /\ \A f \in DOMAIN fills \ {e.of} : fills'[f] = fills[f]
        /\ e.of \in DOMAIN fills =>
             \/ fills'[e.of].status = "REJECTED" /\ fills'[e.of].rejectReason
             \/ fills'[e.of] = fills[e.of] /\ fills[e.of].status = "SETTLED"
        /\ settledRows' = settledRows
    BY <1>1, <1>8, IndexedRows
  <2>2. ~pending(e.of)' /\ \A f : pending(f)' => pending(f) /\ f # e.of
    BY <2>1 DEF pending
  <2>3. reserving' = reserving \ {e.of}
    <3>1. e.of \notin reserving'
      BY <2>2 DEF reserving
    <3>2. \A f : f # e.of => (f \in reserving' <=> f \in reserving)
      BY <2>1 DEF reserving, pending
    <3> QED BY <3>1, <3>2
  <2>4. e.of \notin settledOnChain /\ e.of \in decided
    BY <1>6, <2>1
  <2> QED BY <1>5, <1>6, <2>1, <2>2, <2>3, <2>4
<1>9. CASE e.kind \in {"OrderCancelled", "NoncesCancelledUpTo"}
  <2>1. fills' = fills /\ settledRows' = settledRows
    BY <1>1, <1>9, IndexedRows
  <2>2. reserving' = reserving /\ \A f : pending(f)' <=> pending(f)
    BY <2>1 DEF reserving, pending
  <2>3. e.kind \notin {"FillSettled", "FillRejected"}
    BY <1>9
  <2> QED BY <1>5, <1>6, <2>1, <2>2, <2>3
<1>10. e.kind \in {"FillSettled", "FillRejected", "OrderCancelled", "NoncesCancelledUpTo"}
  <2>1. e \in FillEvent \cup CancelEvent
    BY <1>1, IndexedRows
  <2> QED BY <2>1 DEF FillEvent, CancelEvent
<1> QED BY <1>7, <1>8, <1>9, <1>10

-----------------------------------------------------------------------------
(* The invariant.                                                          *)

\* Every step keeps it.
LEMMA TrackedNext ==
  ASSUME Typed, Typed', Recorded, gaveUp \/ Tracked, [Next]_vars
  PROVE  gaveUp' \/ Tracked'
<1>1. gaveUp => gaveUp'
  BY DEF Next, Step, vars, Start, RecoverJob, ScanOrphans, ReleaseOrphans, Tick, Reserve, Submit,
     SubmitFails, Undo, Link, Mined, TimedOut, NonceTaken, Apply, Applied, ReleaseReverted, Crash, Fails,
     Mine, MineNot, ReconcileJob, Withdraw, Wallet, Die, Index
<1> SUFFICES ASSUME Tracked, ~gaveUp' PROVE Tracked'
  BY <1>1
<1>2. CASE Step
  BY <1>2, TrackedPutAway, TrackedRecovery, TrackedReleaseOrphans, TrackedTick, TrackedReserve,
     TrackedSubmit, TrackedUndo, TrackedLink, TrackedMined, TrackedApply, TrackedReleaseReverted DEF Step
<1>3. CASE Crash \/ Fails
  BY <1>3, TrackedCrash, TrackedPutAway
<1>4. ASSUME NEW j \in DOMAIN jobs, Mine(j) PROVE Tracked'
  BY <1>4, TrackedMine
<1>5. CASE \/ \E j \in DOMAIN jobs : MineNot(j) \/ ReconcileJob(j)
           \/ \E o \in Mortal : Withdraw(o) \/ Wallet(o) \/ \E cause \in Cause \ {"none"} : Die(o, cause)
           \/ UNCHANGED vars
  BY <1>5, TrackedWorld
<1>6. CASE Index
  BY <1>6, TrackedIndex
<1> QED BY <1>2, <1>3, <1>4, <1>5, <1>6 DEF Next

\* It holds at first.
LEMMA MatcherInvInit == Init => MatcherInv
<1> SUFFICES ASSUME Init PROVE MatcherInv
  OBVIOUS
<1>0. /\ fills = <<>> /\ jobs = <<>> /\ log = <<>> /\ cursor = 0 /\ matcher = Down /\ faults = 0 /\ gaveUp = FALSE
      /\ orders = [o \in Orders |-> [status |-> "OPEN", filledSize |-> 0]]
      /\ filled = [o \in Orders |-> 0] /\ dead = [o \in Orders |-> "none"]
      /\ signature = [o \in Orders |-> "good"] /\ withdrawn = {}
  BY DEF Init
<1>1. DOMAIN fills = {} /\ DOMAIN jobs = {} /\ DOMAIN log = {} /\ Len(log) = 0 /\ Len(jobs) = 0
  BY <1>0
<1>2. Typed
  <2>1. DOMAIN fills \subseteq FillId /\ IsFiniteSet(DOMAIN fills) /\ \A f \in DOMAIN fills : fills[f] \in Row
    BY <1>1, FS_EmptySet
  <2>2. orders \in [Orders -> [status : TRADEABLE \cup {"FILLED", "CANCELLED"}, filledSize : Nat]]
    BY <1>0 DEF TRADEABLE
  <2>3. /\ jobs \in Seq(Job) /\ Len(jobs) <= MaxJobs /\ filled \in [Orders -> Nat]
        /\ dead \in [Orders -> Cause] /\ signature \in [Orders -> Signature] /\ withdrawn \subseteq Orders
        /\ log \in Seq(FillEvent \cup CancelEvent) /\ cursor \in 0..Len(log)
        /\ faults \in 0..MaxFaults /\ gaveUp \in BOOLEAN
    <3>1. jobs \in Seq(Job) /\ log \in Seq(FillEvent \cup CancelEvent)
      BY <1>0
    <3>2. Len(jobs) <= MaxJobs /\ cursor \in 0..Len(log) /\ faults \in 0..MaxFaults
      BY <1>0, <1>1, Book
    <3> QED BY <1>0, <3>1, <3>2 DEF Cause, Signature
  <2>4. TypedMatcher
    BY <1>0, DownTyped DEF TypedMatcher
  <2> QED BY <2>1, <2>2, <2>3, <2>4, TypedHalves DEF TypedTables
<1>3. settledRows = {} /\ reserving = {} /\ settledOnChain = {} /\ rejectedOnChain = {} /\ decided = {}
      /\ liveJobs = {} /\ flying = {}
  BY <1>1 DEF settledRows, reserving, settledOnChain, rejectedOnChain, decided, settledBy, rejectedBy,
     liveJobs, flying
<1>4. \A o : volume({}, o) = 0
  BY VolumeNone
<1>5. matcher.pc = "down" /\ matcher.queue = <<>> /\ matcher.rejected = <<>>
  BY <1>0, DownTyped
<1>6. Recorded
  <2>1. ASSUME NEW o \in Orders PROVE orders[o].filledSize = Min({OrderSize[o], settledIn(fills, o)})
    <3>1. settledIn(fills, o) = 0
      BY <1>3, <1>4, SettledInIs DEF settledRows
    <3>2. OrderSize[o] \in Nat
      BY Book
    <3>3. Min({OrderSize[o], 0}) = 0
      BY <3>2, MinOfTwo
    <3> QED BY <1>0, <3>1, <3>3
  <2>2. \A o \in Orders : volume(settledOnChain, o) <= filled[o]
    BY <1>0, <1>3, <1>4
  <2>3. \A r \in ToSet(matcher.rejected) : r.fill \in rejectedOnChain
    BY <1>5 DEF ToSet
  <2> QED BY <1>1, <1>3, <2>1, <2>2, <2>3 DEF Recorded
<1>7. Retired
  BY <1>0, <1>1 DEF Retired, OnlyFaultyRetired
<1>8. Flying
  BY <1>3 DEF Flying
<1>9. Decided
  BY <1>0, <1>3, <1>4 DEF Decided
<1>10. InHand
  BY <1>5 DEF InHand
<1>11. Ledger
  <2>1. Separate(<<>>) /\ waiting(<<>>) = {}
    BY DEF Separate, waiting
  <2>2. \A o \in Orders : OrderSize[o] \in Nat
    BY Book
  <2>3. settledRows \cup reserving = {}
    BY <1>3
  <2>4. \A o \in Orders : volume(settledRows \cup reserving, o) + volume(waiting(matcher.queue), o) <= OrderSize[o]
    <3>1. waiting(matcher.queue) = {}
      BY <1>5, <2>1
    <3>2. \A n \in Nat : 0 + 0 <= n
      OBVIOUS
    <3> QED BY <1>4, <2>2, <2>3, <3>1, <3>2
  <2>5. Separate(matcher.queue)
    BY <1>5, <2>1
  <2> QED BY <2>4, <2>5 DEF Ledger
<1> QED BY <1>2, <1>6, <1>7, <1>8, <1>9, <1>10, <1>11 DEF MatcherInv, Tracked

\* The inductive invariant of settlement: the types, the order table after the fill
\* table after the chain, retired orders faulty, and, while no reservation was given up,
\* every fill in one place at a time.
THEOREM MatcherInvariant == Spec => []MatcherInv
<1>1. ASSUME MatcherInv, [Next]_vars PROVE MatcherInv'
  <2>1. Typed /\ Recorded /\ Retired /\ (gaveUp \/ Tracked)
    BY <1>1 DEF MatcherInv
  <2>2. Typed'
    BY <1>1, <2>1, TypedStep, TypedWorld
  <2>3. Recorded'
    BY <1>1, <2>1, RecordedStep, RecordedWorld
  <2>4. Retired'
    BY <1>1, <2>1, RetiredStep
  <2>5. gaveUp' \/ Tracked'
    BY <1>1, <2>1, <2>2, TrackedNext
  <2> QED BY <2>2, <2>3, <2>4, <2>5 DEF MatcherInv
<1> QED BY <1>1, MatcherInvInit, PTL DEF Spec

-----------------------------------------------------------------------------
(* What follows.                                                           *)

\* What a job would add to each order, as a function.
addition(o) == [j \in liveJobs |-> volume(ToSet(jobs[j].batch), o)]

\* g solves the recursion of inFlight on the subsets of the live jobs.
IsFlight(g, o) ==
  g = [s \in SUBSET liveJobs |-> IF s = {} THEN 0
         ELSE volume(ToSet(jobs[first(s)].batch), o) + g[s \ {first(s)}]]

\* The recursion, at all of them.
LEMMA FlightUnfolds ==
  ASSUME NEW o
  PROVE  inFlight(o) = (CHOOSE g : IsFlight(g, o))[liveJobs]
  BY Zenon DEF inFlight, MapThenSumSet, MapThenFoldSet, IsFlight, first, volume, about, liveJobs

\* So it is a sum.
LEMMA FlightIsSum ==
  ASSUME IsFiniteSet(liveJobs), NEW o
  PROVE  inFlight(o) = SumFunctionOnSet(addition(o), liveJobs)
<1> DEFINE g == CHOOSE g : IsFlight(g, o)
           h == CHOOSE h : IsSum(h, addition(o), liveJobs)
<1>1. \A s \in SUBSET liveJobs : s # {} => addition(o)[first(s)] = volume(ToSet(jobs[first(s)].batch), o)
  BY FirstIn DEF addition
<1>2. IsSum(h, addition(o), liveJobs)
  BY SumExists
<1>3. IsFlight(h, o)
  <2> HIDE DEF h
  <2> QED BY <1>1, <1>2 DEF IsSum, IsFlight
<1>4. IsFlight(g, o)
  <2> HIDE DEF h
  <2> QED BY <1>3
<1>5. IsSum(g, addition(o), liveJobs)
  <2> HIDE DEF g
  <2> QED BY <1>1, <1>4 DEF IsSum, IsFlight
<1>6. g[liveJobs] = h[liveJobs]
  <2> HIDE DEF g, h
  <2> QED BY <1>2, <1>5, SumUnique
<1> QED BY <1>6, FlightUnfolds, SumUnfolds

\* The batches of some of the live jobs.
batchesOf(T) == UNION {ToSet(jobs[j].batch) : j \in T}

\* Batches in flight share no fill, so what they would add is what their fills come to.
LEMMA FlightIs ==
  ASSUME Typed, Flying, NEW o
  PROVE  inFlight(o) = volume(flying, o)
<1> DEFINE Good == {T \in SUBSET liveJobs : /\ IsFiniteSet(batchesOf(T))
                                            /\ SumFunctionOnSet(addition(o), T) = volume(batchesOf(T), o)}
<1>0. IsFiniteSet(liveJobs) /\ liveJobs \subseteq DOMAIN jobs
  <2>1. DOMAIN jobs = 1..Len(jobs) /\ Len(jobs) \in Nat
    BY DEF Typed, TypeOK
  <2>2. liveJobs \subseteq DOMAIN jobs
    BY DEF liveJobs
  <2>3. IsFiniteSet(DOMAIN jobs)
    BY <2>1, FS_Interval
  <2> QED BY <2>2, <2>3, FS_Subset
<1>1. \A j \in liveJobs : ToSet(jobs[j].batch) \in SUBSET FillId /\ IsFiniteSet(ToSet(jobs[j].batch))
  <2>1. ASSUME NEW j \in liveJobs PROVE jobs[j].batch \in Seq(FillId)
    <3>1. jobs[j] \in Job
      BY <1>0 DEF Typed, TypeOK
    <3> QED BY <3>1 DEF Job
  <2> QED BY <2>1, BatchFinite
<1>2. \A j \in liveJobs : addition(o)[j] = volume(ToSet(jobs[j].batch), o) /\ addition(o)[j] \in Nat
  BY <1>1, VolumeNat DEF addition
<1>3. {} \in Good
  <2>1. batchesOf({}) = {}
    BY DEF batchesOf
  <2>2. volume({}, o) = 0
    BY VolumeNone
  <2> QED BY <2>1, <2>2, SumEmpty, FS_EmptySet
<1>4. ASSUME NEW T \in SUBSET liveJobs, T # {}, \A x \in T : T \ {x} \in Good
      PROVE  T \in Good
  <2>1. PICK j \in T : T \ {j} \in Good
    BY <1>4
  <2>2. PICK U \in SUBSET liveJobs : U = T \ {j}
    OBVIOUS
  <2>3. PICK V, B : V = batchesOf(U) /\ B = ToSet(jobs[j].batch)
    OBVIOUS
  <2>4. batchesOf(T) = V \cup B
    BY <2>2, <2>3 DEF batchesOf
  <2>5. V \cap B = {}
    BY <2>2, <2>3 DEF batchesOf, Flying
  <2>6. V \in SUBSET FillId /\ B \in SUBSET FillId /\ IsFiniteSet(B)
    BY <1>1, <2>3 DEF batchesOf
  <2>7. IsFiniteSet(V) /\ SumFunctionOnSet(addition(o), U) = volume(V, o)
    BY <2>1, <2>2, <2>3
  <2>8. IsFiniteSet(V \cup B) /\ volume(V \cup B, o) = volume(V, o) + volume(B, o)
    BY <2>5, <2>6, <2>7, VolumeUnion, FS_Union
  <2>9. SumFunctionOnSet(addition(o), T) = volume(B, o) + volume(V, o)
    <3>1. IsFiniteSet(T) /\ \A x \in T : addition(o)[x] \in Int
      BY <1>0, <1>2, FS_Subset
    <3>2. SumFunctionOnSet(addition(o), T) = addition(o)[j] + SumFunctionOnSet(addition(o), T \ {j})
      BY <3>1, SumRemove
    <3> QED BY <1>2, <2>2, <2>3, <2>7, <3>2
  <2>10. volume(V, o) \in Nat /\ volume(B, o) \in Nat
    BY <2>6, <2>7, VolumeNat
  <2>11. volume(batchesOf(T), o) = volume(V, o) + volume(B, o) /\ IsFiniteSet(batchesOf(T))
    BY <2>4, <2>8
  <2>12. SumFunctionOnSet(addition(o), T) = volume(batchesOf(T), o)
    BY <2>9, <2>10, <2>11
  <2> QED BY <2>11, <2>12
<1>5. \A T \in SUBSET liveJobs : T \in Good
  <2> HIDE DEF Good
  <2> QED BY <1>0, <1>3, <1>4, SubsetInduction
<1>6. batchesOf(liveJobs) = flying
  BY DEF batchesOf, flying
<1> QED BY <1>0, <1>5, <1>6, FlightIsSum

\* No size is matched twice: what the chain has filled of an order and what the batches
\* in flight would fill of it is at most its size, through crashes, reverts, retries and
\* a lagging indexer, for every book, number of jobs and number of faults.
THEOREM NoSizeMatchedTwice == Spec => []NoDoubleMatch
<1>1. MatcherInv => NoDoubleMatch
  <2> SUFFICES ASSUME MatcherInv, ~gaveUp, NEW o \in Orders
               PROVE  filled[o] + inFlight(o) <= OrderSize[o]
    BY DEF NoDoubleMatch
  <2>1. Typed /\ Recorded /\ Flying /\ Decided /\ Ledger
    BY DEF MatcherInv, Tracked
  <2>2. inFlight(o) = volume(flying, o)
    BY <2>1, FlightIs
  <2>3. filled[o] = volume(settledOnChain, o)
    BY <2>1 DEF Decided
  <2>4. PICK L, S, F : L = settledRows \cup reserving /\ S = settledOnChain /\ F = flying
    OBVIOUS
  <2>5. S \cup F \subseteq L /\ S \cap F = {}
    BY <2>1, <2>4 DEF Flying, Decided, decided
  <2>6. L \in SUBSET FillId /\ IsFiniteSet(L)
    BY <2>1, <2>4, FillSets
  <2>7. S \in SUBSET FillId /\ IsFiniteSet(S) /\ F \in SUBSET FillId /\ IsFiniteSet(F)
    BY <2>5, <2>6, FS_Subset
  <2>8. volume(S \cup F, o) = volume(S, o) + volume(F, o)
    BY <2>5, <2>7, VolumeUnion
  <2>9. volume(S \cup F, o) <= volume(L, o)
    BY <2>5, <2>6, VolumeMonotone
  <2>10. volume(L, o) + volume(waiting(matcher.queue), o) <= OrderSize[o]
    BY <2>1, <2>4 DEF Ledger
  <2>11. volume(waiting(matcher.queue), o) \in Nat
    <3>1. matcher.queue \in Seq(Seq(FillId))
      BY <2>1 DEF Typed, TypeOK, Matcher
    <3> QED BY <3>1, WaitingFinite, VolumeNat
  <2>12. volume(S, o) \in Nat /\ volume(F, o) \in Nat /\ volume(L, o) \in Nat /\ OrderSize[o] \in Nat
    BY <2>6, <2>7, VolumeNat, Book
  <2> QED BY <2>2, <2>3, <2>4, <2>8, <2>9, <2>10, <2>11, <2>12
<1> QED BY <1>1, MatcherInvariant, PTL

\* The order table never claims more than the gateway has filled: a row is settled by an
\* event, an event by a fill of the gateway.
THEOREM FilledIsNeverAhead == Spec => []NeverAhead
<1>1. MatcherInv => NeverAhead
  <2> SUFFICES ASSUME MatcherInv, NEW o \in Orders
               PROVE  orders[o].filledSize <= filled[o]
    BY DEF NeverAhead
  <2>1. Typed /\ Recorded
    BY DEF MatcherInv
  <2>2. /\ settledRows \subseteq settledOnChain /\ volume(settledOnChain, o) <= filled[o]
        /\ orders[o].filledSize = Min({OrderSize[o], settledIn(fills, o)})
    BY <2>1 DEF Recorded
  <2>3. settledIn(fills, o) = volume(settledRows, o)
    BY SettledInIs DEF settledRows
  <2>4. settledOnChain \in SUBSET FillId /\ IsFiniteSet(settledOnChain)
    BY <2>1, EventsTyped DEF Typed, settledOnChain
  <2>5. volume(settledRows, o) <= volume(settledOnChain, o)
    BY <2>2, <2>4, VolumeMonotone
  <2>6. volume(settledRows, o) \in Nat /\ volume(settledOnChain, o) \in Nat /\ OrderSize[o] \in Nat
        /\ filled[o] \in Nat
    BY <2>1, <2>4, FillSets, VolumeNat, Book DEF Typed, TypeOK
  <2>7. orders[o].filledSize = IF OrderSize[o] <= volume(settledRows, o) THEN OrderSize[o] ELSE volume(settledRows, o)
    BY <2>2, <2>3, <2>6, MinOfTwo
  <2> QED BY <2>2, <2>5, <2>6, <2>7
<1> QED BY <1>1, MatcherInvariant, PTL

\* No order is retired for the other's fault: whatever a receipt's rejections say, however
\* late they are applied and however a wallet changes its mind, an order the matcher or
\* the indexer cancelled is dead on chain or had its own signature turned down.
THEOREM RetiredAreFaulty == Spec => []OnlyFaultyRetired
<1>1. MatcherInv => OnlyFaultyRetired
  BY DEF MatcherInv, Retired
<1> QED BY <1>1, MatcherInvariant, PTL
=============================================================================
