----------------------------- MODULE VenueProofs -----------------------------
(***************************************************************************)
(* The venue, for every book, every set of traders, markets and requests,  *)
(* and every limit of the unwinder.                                        *)
(*                                                                         *)
(* The loops of the code are folds; what a fold computes is proved by      *)
(* walking it: WalkRuns gives its states one by one, an invariant of the   *)
(* states is carried along.  That way the match loop leaves nothing        *)
(* crossed and jumps no queue, a reservation is the sum of the fills that  *)
(* hold an order, and a plan stays within the day's budget.                *)
(*                                                                         *)
(* The invariant of the specification says of the tables, the storage and  *)
(* the unwinder's memory what those loops need of their inputs, and of a   *)
(* plan that it fits the caps until its last slice is posted.              *)
(***************************************************************************)
EXTENDS Venue, Sums

-----------------------------------------------------------------------------
(* Walks: what a fold over a sequence computes, step by step.              *)

\* Induction on 0..n, with the set of good numbers as data.
LEMMA UpToInduction ==
  ASSUME NEW n \in Nat, NEW G, 0 \in G,
         \A j \in 1..n : j - 1 \in G => j \in G
  PROVE  \A j \in 0..n : j \in G
<1> DEFINE Bad == {j \in 0..n : j \notin G}
<1>1. CASE Bad = {}
  BY <1>1
<1>2. CASE Bad # {}
  <2>1. Bad \in SUBSET Nat
    OBVIOUS
  <2>2. PICK m : m = Min(Bad)
    OBVIOUS
  <2> HIDE DEF Bad
  <2>3. m \in Bad /\ \A k \in Bad : m <= k
    BY <1>2, <2>1, <2>2, Least
  <2> USE DEF Bad
  <2>4. m \in 1..n /\ m - 1 \in 0..n
    BY <2>3
  <2>5. m - 1 \notin Bad
    BY <2>3, <2>4
  <2>6. m - 1 \in G
    BY <2>4, <2>5
  <2> QED
    BY <2>3, <2>4, <2>6
<1> QED
  BY <1>1, <1>2

\* The last place of some.
LEMMA LastIn ==
  ASSUME NEW n \in Nat, NEW s \in SUBSET (1..n), s # {}
  PROVE  Max(s) \in s
<1>1. s \in SUBSET Nat /\ \A k \in s : k <= n
  OBVIOUS
<1> QED
  BY <1>1, Greatest

\* The recursion of a fold over n places, on the sets of up to k of them.
WalksUpto(f, base, step, n, k) ==
  \A s \in Upto(1..n, k) :
    f[s] = IF s = {} THEN base ELSE step[<<f[s \ {Max(s)}], Max(s)>>]

\* A walk of k steps can be taken one step further.
LEMMA WalksUptoExtends ==
  ASSUME NEW n \in Nat, NEW base, NEW step, NEW k \in Nat, NEW f, WalksUpto(f, base, step, n, k)
  PROVE  \E h : WalksUpto(h, base, step, n, k + 1)
<1> DEFINE new(s) == IF s = {} THEN base ELSE step[<<f[s \ {Max(s)}], Max(s)>>]
           h == [s \in Upto(1..n, k + 1) |-> new(s)]
<1>1. ASSUME NEW s \in Upto(1..n, k + 1), s # {}
      PROVE  s \ {Max(s)} \in Upto(1..n, k) /\ s \ {Max(s)} \in Upto(1..n, k + 1)
  <2>1. s \in SUBSET (1..n) /\ Cardinality(s) <= k + 1
    BY DEF Upto
  <2>2. Max(s) \in s
    BY <1>1, <2>1, LastIn
  <2>0. IsFiniteSet(1..n)
    BY FS_Interval
  <2>3. IsFiniteSet(s) /\ Cardinality(s) \in Nat
    BY <2>0, <2>1, FS_Subset, FS_CardinalityType
  <2>4. Cardinality(s \ {Max(s)}) = Cardinality(s) - 1
    BY <2>2, <2>3, FS_RemoveElement
  <2>5. PICK c \in Nat : c = Cardinality(s)
    BY <2>3
  <2>6. Cardinality(s \ {Max(s)}) <= k /\ Cardinality(s \ {Max(s)}) <= k + 1
    BY <2>1, <2>4, <2>5
  <2> QED
    BY <2>1, <2>6 DEF Upto
<1>2. ASSUME NEW s \in Upto(1..n, k + 1), s # {}
      PROVE  h[s \ {Max(s)}] = f[s \ {Max(s)}]
  <2>1. PICK t \in Upto(1..n, k) : t = s \ {Max(s)} /\ t \in Upto(1..n, k + 1)
    BY <1>1, <1>2
  <2>2. f[t] = new(t)
    BY <2>1 DEF WalksUpto
  <2>3. h[t] = new(t)
    BY <2>1
  <2> QED
    BY <2>1, <2>2, <2>3
<1>3. ASSUME NEW s \in Upto(1..n, k + 1)
      PROVE  h[s] = IF s = {} THEN base ELSE step[<<h[s \ {Max(s)}], Max(s)>>]
  <2>1. h[s] = new(s)
    OBVIOUS
  <2>2. CASE s = {}
    BY <2>1, <2>2
  <2>3. CASE s # {}
    <3>1. h[s \ {Max(s)}] = f[s \ {Max(s)}]
      BY <1>2, <2>3
    <3> HIDE DEF h
    <3> QED
      BY <2>1, <2>3, <3>1
  <2> QED
    BY <2>2, <2>3
<1>4. WalksUpto(h, base, step, n, k + 1)
  <2> HIDE DEF h
  <2> QED
    BY <1>3 DEF WalksUpto
<1> QED
  BY <1>4

\* f is the fold as the function it recurses with.
IsWalk(f, base, step, n) ==
  f = [s \in SUBSET (1..n) |-> IF s = {} THEN base ELSE step[<<f[s \ {Max(s)}], Max(s)>>]]

\* So the recursion of a fold exists,
LEMMA WalkExists ==
  ASSUME NEW n \in Nat, NEW base, NEW step
  PROVE  \E f : IsWalk(f, base, step, n)
<1> DEFINE S == 1..n
           G == {k \in 0..n : \E h : WalksUpto(h, base, step, n, k)}
<1>0. IsFiniteSet(S) /\ Cardinality(S) = n
  BY FS_Interval
<1>1. 0 \in G
  <2> DEFINE h == [s \in SUBSET S |-> base]
  <2>2. ASSUME NEW s \in Upto(S, 0) PROVE s = {}
    <3>1. s \in SUBSET S /\ Cardinality(s) <= 0
      BY DEF Upto
    <3>2. IsFiniteSet(s) /\ Cardinality(s) \in Nat
      BY <1>0, <3>1, FS_Subset, FS_CardinalityType
    <3> QED
      BY <3>1, <3>2, FS_EmptySet
  <2>3. WalksUpto(h, base, step, n, 0)
    BY <2>2 DEF WalksUpto
  <2> QED
    BY <2>3
<1>2. ASSUME NEW j \in 1..n, j - 1 \in G PROVE j \in G
  <2>1. PICK f : WalksUpto(f, base, step, n, j - 1)
    BY <1>2
  <2>2. j - 1 \in Nat /\ j - 1 + 1 = j
    OBVIOUS
  <2>3. \E h : WalksUpto(h, base, step, n, j)
    BY <2>1, <2>2, WalksUptoExtends
  <2> QED
    BY <2>3
<1>3. n \in G
  <2> HIDE DEF G
  <2> QED
    BY <1>1, <1>2, UpToInduction
<1>4. PICK h : WalksUpto(h, base, step, n, n)
  BY <1>3
<1> DEFINE f == [s \in SUBSET S |-> h[s]]
<1>5. \A s \in SUBSET S : s \in Upto(S, n)
  BY <1>0, FS_Subset DEF Upto
<1>6. ASSUME NEW s \in SUBSET S
      PROVE  h[s] = IF s = {} THEN base ELSE step[<<f[s \ {Max(s)}], Max(s)>>]
  <2>1. h[s] = IF s = {} THEN base ELSE step[<<h[s \ {Max(s)}], Max(s)>>]
    BY <1>4, <1>5 DEF WalksUpto
  <2>2. h[s \ {Max(s)}] = f[s \ {Max(s)}]
    OBVIOUS
  <2> HIDE DEF f
  <2> QED
    BY <2>1, <2>2
<1>7. IsWalk(f, base, step, n)
  BY <1>6 DEF IsWalk
<1> QED
  BY <1>7

\* and stays in a set its steps keep.
LEMMA WalkStays ==
  ASSUME NEW n \in Nat, NEW V, NEW base \in V, NEW step \in [V \X (1..n) -> V],
         NEW f, IsWalk(f, base, step, n)
  PROVE  f \in [SUBSET (1..n) -> V]
<1> DEFINE S == 1..n
           G == {T \in SUBSET S : f[T] \in V}
<1>1. \A s \in SUBSET S : f[s] = IF s = {} THEN base ELSE step[<<f[s \ {Max(s)}], Max(s)>>]
  BY DEF IsWalk
<1>2. {} \in G
  BY <1>1
<1>3. ASSUME NEW T \in SUBSET S, T # {}, \A x \in T : T \ {x} \in G
      PROVE  T \in G
  <2>1. PICK m \in T : m = Max(T)
    BY <1>3, LastIn
  <2>2. PICK v \in V : v = f[T \ {m}]
    BY <1>3
  <2>3. f[T] = step[<<v, m>>]
    BY <1>1, <1>3, <2>1, <2>2
  <2>4. <<v, m>> \in V \X (1..n)
    OBVIOUS
  <2> QED
    BY <2>3, <2>4
<1>4. \A T \in SUBSET S : T \in G
  <2>1. IsFiniteSet(S)
    BY FS_Interval
  <2> HIDE DEF G, S
  <2> QED
    BY <1>2, <1>3, <2>1, SubsetInduction
<1>5. f = [s \in SUBSET S |-> f[s]]
  <2>1. f = [s \in SUBSET (1..n) |-> IF s = {} THEN base ELSE step[<<f[s \ {Max(s)}], Max(s)>>]]
    BY DEF IsWalk
  <2>2. ASSUME NEW s \in SUBSET (1..n)
        PROVE  f[s] = IF s = {} THEN base ELSE step[<<f[s \ {Max(s)}], Max(s)>>]
    BY <1>1
  <2> QED
    BY <2>1, <2>2
<1> QED
  BY <1>4, <1>5

\* The last of the first j places is the j-th.
LEMMA LastOfFirst ==
  ASSUME NEW j \in Nat \ {0}
  PROVE  Max(1..j) = j /\ (1..j) \ {j} = 1..(j - 1)
<1>2. (CHOOSE x \in 1..j : \A y \in 1..j : x >= y) = j
  <2>1. j \in 1..j /\ \A y \in 1..j : j >= y
    OBVIOUS
  <2>2. \A x \in 1..j : (\A y \in 1..j : x >= y) => x = j
    BY <2>1
  <2> QED
    BY <2>1, <2>2
<1>3. (1..j) \ {j} = 1..(j - 1)
  OBVIOUS
<1> QED
  BY <1>2, <1>3 DEF Max

\* f follows the steps of a fold wherever they are defined.
Follows(f, base, step, V, n) ==
  /\ f[{}] = base
  /\ \A s \in SUBSET (1..n) : s # {} /\ f[s \ {Max(s)}] \in V
                                => f[s] = step[<<f[s \ {Max(s)}], Max(s)>>]

\* The values a fold comes to, step by step.
Passes(last, base, step, V, n) ==
  \E R \in [0..n -> V] : /\ R[0] = base
                         /\ \A j \in 1..n : R[j] = step[<<R[j - 1], j>>]
                         /\ R[n] = last

\* A walk passes through a value after each of its steps.
LEMMA WalkRuns ==
  ASSUME NEW n \in Nat, NEW V, NEW base \in V, NEW step \in [V \X (1..n) -> V],
         NEW f, Follows(f, base, step, V, n)
  PROVE  Passes(f[1..n], base, step, V, n)
<1> DEFINE G == {j \in 0..n : f[1..j] \in V}
           R == [j \in 0..n |-> f[1..j]]
<1>1. ASSUME NEW j \in 1..n, f[1..(j - 1)] \in V
      PROVE  f[1..j] = step[<<f[1..(j - 1)], j>>] /\ f[1..j] \in V
  <2>1. 1..j \in SUBSET (1..n) /\ 1..j # {} /\ j \in Nat \ {0}
    OBVIOUS
  <2>2. Max(1..j) = j /\ (1..j) \ {j} = 1..(j - 1)
    BY <2>1, LastOfFirst
  <2>3. PICK s \in SUBSET (1..n) : s = 1..j /\ s # {} /\ s \ {Max(s)} = 1..(j - 1) /\ Max(s) = j
    BY <2>1, <2>2
  <2>4. f[s] = step[<<f[s \ {Max(s)}], Max(s)>>]
    BY <1>1, <2>3 DEF Follows
  <2>5. PICK v \in V : v = f[1..(j - 1)]
    BY <1>1
  <2>6. <<v, j>> \in V \X (1..n)
    OBVIOUS
  <2>7. f[1..j] = step[<<v, j>>]
    BY <2>3, <2>4, <2>5
  <2> QED
    BY <2>5, <2>6, <2>7
<1>2. 0 \in G
  <2>1. 1..0 = {}
    OBVIOUS
  <2> QED
    BY <2>1 DEF Follows
<1>3. ASSUME NEW j \in 1..n, j - 1 \in G PROVE j \in G
  <2>1. f[1..(j - 1)] \in V
    BY <1>3
  <2>2. f[1..j] \in V
    BY <1>1, <2>1
  <2> QED
    BY <2>2
<1>4. \A j \in 0..n : j \in G
  <2> HIDE DEF G
  <2> QED
    BY <1>2, <1>3, UpToInduction
<1>5. R \in [0..n -> V]
  BY <1>4
<1>6. R[0] = base /\ R[n] = f[1..n]
  <2>1. 1..0 = {}
    OBVIOUS
  <2> QED
    BY <2>1 DEF Follows
<1>7. ASSUME NEW j \in 1..n PROVE R[j] = step[<<R[j - 1], j>>]
  <2>1. R[j] = f[1..j] /\ R[j - 1] = f[1..(j - 1)] /\ f[1..(j - 1)] \in V
    BY <1>4
  <2> HIDE DEF R
  <2> QED
    BY <1>1, <2>1
<1> HIDE DEF R
<1> QED
  BY <1>5, <1>6, <1>7 DEF Passes

-----------------------------------------------------------------------------
(* Arithmetic.                                                             *)

\* A quotient, by what it bounds.
LEMMA DivBounds ==
  ASSUME NEW a \in Nat, NEW b \in Nat \ {0}
  PROVE  a \div b \in Nat /\ b * (a \div b) <= a /\ a <= b * (a \div b) + (b - 1)
  OBVIOUS

\* Division keeps order.
LEMMA DivMonotone ==
  ASSUME NEW a \in Nat, NEW a2 \in Nat, a <= a2, NEW b \in Nat \ {0}
  PROVE  a \div b <= a2 \div b
<1>1. PICK q \in Nat : q = a \div b /\ b * q <= a
  BY DivBounds
<1>2. PICK r \in Nat : r = a2 \div b /\ a2 <= b * r + (b - 1)
  BY DivBounds
<1>3. CASE q <= r
  BY <1>1, <1>2, <1>3
<1>4. CASE q >= r + 1
  <2>1. b * q >= b * (r + 1) /\ b * (r + 1) = b * r + b
    BY <1>4
  <2>2. b * q \in Nat /\ b * r \in Nat
    OBVIOUS
  <2> QED
    BY <1>1, <1>2, <2>1, <2>2
<1> QED
  BY <1>3, <1>4

\* The k-th pair of a walk of rows of b.
LEMMA DivOfRow ==
  ASSUME NEW i \in Nat, NEW b \in Nat \ {0}, NEW c \in 0..(b - 1)
  PROVE  (i * b + c) \div b = i /\ (i * b + c) % b = c
<1>1. i * b \in Nat /\ i * b + c \in Nat
  OBVIOUS
<1>2. PICK q \in Nat : q = (i * b + c) \div b /\ b * q <= i * b + c /\ i * b + c <= b * q + (b - 1)
  BY <1>1, DivBounds
<1>3. q = i
  <2>1. CASE q >= i + 1
    <3>1. b * q >= b * (i + 1) /\ b * (i + 1) = i * b + b
      BY <2>1
    <3>2. b * q \in Nat
      OBVIOUS
    <3> QED
      BY <1>1, <1>2, <3>1, <3>2
  <2>2. CASE i >= q + 1
    <3>1. b * i >= b * (q + 1) /\ b * (q + 1) = b * q + b /\ b * i = i * b
      BY <2>2
    <3>2. b * q \in Nat
      OBVIOUS
    <3> QED
      BY <1>1, <1>2, <3>1, <3>2
  <2> QED
    BY <2>1, <2>2
<1>4. (i * b + c) % b = (i * b + c) - b * ((i * b + c) \div b)
  <2>1. PICK a \in Nat : a = i * b + c
    BY <1>1
  <2>2. a % b = a - b * (a \div b)
    OBVIOUS
  <2> QED
    BY <2>1, <2>2
<1>5. b * i = i * b
  OBVIOUS
<1> QED
  BY <1>1, <1>2, <1>3, <1>4, <1>5

\* Magnitudes multiply and divide to magnitudes, in order.
LEMMA MulDivMonotone ==
  ASSUME NEW a \in Nat, NEW a2 \in Nat, a <= a2, NEW b \in Nat, NEW d \in Nat \ {0}
  PROVE  /\ mulDiv(a, b, d) \in Nat /\ mulDiv(a2, b, d) \in Nat
         /\ mulDiv(a, b, d) <= mulDiv(a2, b, d)
<1>1. a * b \in Nat /\ a2 * b \in Nat /\ a * b <= a2 * b
  OBVIOUS
<1>2. mulDiv(a, b, d) = (a * b) \div d /\ mulDiv(a2, b, d) = (a2 * b) \div d
  BY <1>1 DEF mulDiv, TruncDiv
<1> QED
  BY <1>1, <1>2, DivBounds, DivMonotone

\* A larger fill has no smaller notional.
LEMMA NotionalMonotone ==
  ASSUME NEW a \in Nat, NEW a2 \in Nat, a <= a2, NEW price \in Nat
  PROVE  /\ notionalOf(a, price) \in Nat /\ notionalOf(a2, price) \in Nat
         /\ notionalOf(a, price) <= notionalOf(a2, price)
  BY MulDivMonotone, ScalesPositive DEF notionalOf, mulPrecision

\* What a cap buys at a price costs no more than the cap.
LEMMA CapBuys ==
  ASSUME NEW cap \in Nat, NEW price \in Nat \ {0}, NEW size \in Nat,
         size <= mulDiv(cap, PRECISION, price)
  PROVE  notionalOf(size, price) \in Nat /\ notionalOf(size, price) <= cap
<1>1. PRECISION \in Nat \ {0} /\ cap * PRECISION \in Nat
  BY ScalesPositive
<1>2. mulDiv(cap, PRECISION, price) = (cap * PRECISION) \div price
  BY <1>1 DEF mulDiv, TruncDiv
<1>3. PICK q \in Nat : q = (cap * PRECISION) \div price /\ price * q <= cap * PRECISION
  BY <1>1, DivBounds
<1>4. size * price \in Nat /\ size * price <= price * q
  BY <1>2, <1>3
<1>5. size * price <= cap * PRECISION
  <2>1. price * q \in Nat
    OBVIOUS
  <2> QED
    BY <1>1, <1>3, <1>4, <2>1
<1>6. notionalOf(size, price) = (size * price) \div PRECISION
  BY <1>4 DEF notionalOf, mulPrecision, mulDiv, TruncDiv
<1>7. (cap * PRECISION) \div PRECISION = cap
  <2>1. 0 \in 0..(PRECISION - 1)
    BY <1>1
  <2>2. (cap * PRECISION + 0) \div PRECISION = cap
    BY <1>1, <2>1, DivOfRow
  <2> QED
    BY <1>1, <2>2
<1>8. (size * price) \div PRECISION <= (cap * PRECISION) \div PRECISION
  BY <1>1, <1>4, <1>5, DivMonotone
<1> QED
  BY <1>1, <1>4, <1>6, <1>7, <1>8, DivBounds

-----------------------------------------------------------------------------
(* The matching engine.                                                    *)

Statuses == LIVE_STATUSES \cup {"FILLED", "CANCELLED", "EXPIRED"}

\* A stored order.
Row == [ hash : Int, owner : Owners, marketId : Int, isLong : BOOLEAN, size : Nat,
         limitPrice : Nat, reduceOnly : BOOLEAN, nonce : Int, expiry : Int,
         status : Statuses, filledSize : Nat, createdAt : Int ]

HashOnce(orders) == \A o, p \in orders : o.hash = p.hash => o = p

\* The engine's input.
Book(in) ==
  /\ in.orders \subseteq Row /\ IsFiniteSet(in.orders) /\ HashOnce(in.orders)
  /\ in.positions \in [Owners -> Int]
  /\ in.band.low \in Int /\ in.band.high \in Int /\ in.minFillNotional \in Nat

\* Of two orders one comes first, never both.
LEMMA CompareIsStrict ==
  ASSUME NEW x \in Row, NEW y \in Row, NEW ascending \in BOOLEAN, compare(x, y, ascending)
  PROVE  ~compare(y, x, ascending) /\ x # y
<1>1. /\ x.hash \in Int /\ x.limitPrice \in Int /\ x.createdAt \in Int
      /\ y.hash \in Int /\ y.limitPrice \in Int /\ y.createdAt \in Int
  BY DEF Row
<1>2. x.limitPrice = y.limitPrice => compareArrival(x, y) /\ ~compareArrival(y, x) /\ x # y
  BY <1>1 DEF compare, compareArrival
<1>3. x.limitPrice # y.limitPrice => x # y
  OBVIOUS
<1>4. x.limitPrice # y.limitPrice =>
        (x.limitPrice < y.limitPrice) = ascending /\ (y.limitPrice < x.limitPrice) # ascending
  BY <1>1 DEF compare
<1> QED
  BY <1>2, <1>3, <1>4 DEF compare

\* Price and arrival put orders in one line.
LEMMA SortedIs ==
  ASSUME NEW S \in SUBSET Row, IsFiniteSet(S), HashOnce(S), NEW ascending \in BOOLEAN
  PROVE  /\ Cardinality(S) \in Nat /\ sorted(S, ascending) \in [1..Cardinality(S) -> S]
         /\ \A x \in S : \E k \in 1..Cardinality(S) : sorted(S, ascending)[k] = x
         /\ \A i, j \in 1..Cardinality(S) :
              i < j => compare(sorted(S, ascending)[i], sorted(S, ascending)[j], ascending)
<1> DEFINE B == [x \in S |-> {p \in S : compare(p, x, ascending)}]
           rank == [x \in S |-> Cardinality({p \in S : compare(p, x, ascending)})]
<1>1. \A x \in S : x.hash \in Int /\ x.limitPrice \in Int /\ x.createdAt \in Int
  BY DEF Row
<1>2. \A x \in S : ~compare(x, x, ascending)
  BY <1>1 DEF compare, compareArrival
<1>3. \A x, y \in S : x = y \/ compare(x, y, ascending) \/ compare(y, x, ascending)
  <2>1. ASSUME NEW x \in S, NEW y \in S, x # y
        PROVE  compare(x, y, ascending) \/ compare(y, x, ascending)
    <3>1. x.hash # y.hash
      BY <2>1 DEF HashOnce
    <3>2. compareArrival(x, y) \/ compareArrival(y, x)
      BY <1>1, <3>1 DEF compareArrival
    <3>3. x.limitPrice # y.limitPrice => x.limitPrice < y.limitPrice \/ y.limitPrice < x.limitPrice
      BY <1>1
    <3>4. ~(x.limitPrice < y.limitPrice /\ y.limitPrice < x.limitPrice)
      BY <1>1
    <3> QED
      BY <3>2, <3>3, <3>4 DEF compare
  <2> QED
    BY <2>1
<1>4. ASSUME NEW x \in S, NEW y \in S, NEW z \in S,
             compare(x, y, ascending), compare(z, x, ascending)
      PROVE  compare(z, y, ascending)
  <2>1. compareArrival(x, y) /\ compareArrival(z, x) => compareArrival(z, y)
    BY <1>1 DEF compareArrival
  <2>2. CASE ascending = TRUE
    <3>1. ASSUME NEW u \in S, NEW v \in S
          PROVE  compare(u, v, ascending)
                   <=> (u.limitPrice < v.limitPrice
                         \/ (u.limitPrice = v.limitPrice /\ compareArrival(u, v)))
      <4>1. (u.limitPrice < v.limitPrice) = ascending <=> u.limitPrice < v.limitPrice
        BY <2>2
      <4>2. u.limitPrice < v.limitPrice => u.limitPrice # v.limitPrice
        BY <1>1
      <4> QED
        BY <4>1, <4>2 DEF compare
    <3> QED
      BY <1>1, <1>4, <2>1, <3>1
  <2>3. CASE ascending = FALSE
    <3>1. ASSUME NEW u \in S, NEW v \in S
          PROVE  compare(u, v, ascending)
                   <=> (u.limitPrice > v.limitPrice
                         \/ (u.limitPrice = v.limitPrice /\ compareArrival(u, v)))
      BY <1>1, <2>3 DEF compare
    <3> QED
      BY <1>1, <1>4, <2>1, <3>1
  <2> QED
    BY <2>2, <2>3
<1>5. StrictlyOrders(B, S)
  <2>1. B \in [S -> SUBSET S] /\ \A x, y \in S : x \in B[y] <=> compare(x, y, ascending)
    OBVIOUS
  <2>2. \A x, y \in S : x \in B[y] => B[x] \subseteq B[y]
    <3>1. ASSUME NEW x \in S, NEW y \in S, x \in B[y], NEW z \in B[x] PROVE z \in B[y]
      <4>1. z \in S
        BY <2>1
      <4>2. compare(x, y, ascending) /\ compare(z, x, ascending)
        BY <2>1, <3>1, <4>1
      <4> HIDE DEF B
      <4> QED
        BY <1>4, <2>1, <4>1, <4>2
    <3> QED
      BY <3>1
  <2> HIDE DEF B
  <2> QED
    BY <1>2, <1>3, <2>1, <2>2 DEF StrictlyOrders
<1>6. rank = [x \in S |-> Cardinality(B[x])]
  OBVIOUS
<1>7. sorted(S, ascending) = ranked(S, rank)
  BY DEF sorted
<1>8. \A x, y \in S : x \in B[y] => compare(x, y, ascending)
  OBVIOUS
<1> HIDE DEF B, rank
<1>9. /\ Cardinality(S) \in Nat
      /\ ranked(S, rank) \in [1..Cardinality(S) -> S]
      /\ \A x \in S : \E k \in 1..Cardinality(S) : ranked(S, rank)[k] = x
      /\ \A i, j \in 1..Cardinality(S) : i < j => ranked(S, rank)[i] \in B[ranked(S, rank)[j]]
  <2>1. ListedBy(ranked(S, rank), S, B)
    <3>1. PICK r : r = ranked(S, rank)
      OBVIOUS
    <3>2. /\ r = [k \in 1..Cardinality(S) |-> r[k]]
          /\ \A k \in 1..Cardinality(S) : (\E x \in S : rank[x] = k - 1) => r[k] \in S /\ rank[r[k]] = k - 1
      BY <3>1 DEF ranked
    <3>3. ListedBy(r, S, B)
      BY <1>5, <1>6, <3>2, RankedList
    <3> QED
      BY <3>1, <3>3
  <2>2. PICK r : r = ranked(S, rank)
    OBVIOUS
  <2> QED
    BY <2>1, <2>2 DEF ListedBy
<1>10. PICK n \in Nat : n = Cardinality(S)
  BY <1>9
<1>11. PICK r \in [1..n -> S] : r = ranked(S, rank)
  BY <1>9, <1>10
<1>12. ASSUME NEW i \in 1..n, NEW j \in 1..n, i < j PROVE compare(r[i], r[j], ascending)
  <2>1. r[i] \in S /\ r[j] \in S /\ r[i] \in B[r[j]]
    BY <1>9, <1>10, <1>11, <1>12
  <2> QED
    BY <1>8, <2>1
<1> QED
  BY <1>7, <1>9, <1>10, <1>11, <1>12

Bids(in) == {o \in in.orders : o.isLong /\ eligible(in, o)}
Asks(in) == {o \in in.orders : ~o.isLong /\ eligible(in, o)}

\* q visits every pair of a bid and an ask, a better bid's pairs first and among them a
\* better ask's first.
InOrder(in, n, q) ==
  /\ \A b \in Bids(in), a \in Asks(in) : \E k \in 1..n : q[k] = <<b, a>>
  /\ \A b, c \in Bids(in), a \in Asks(in) : compare(b, c, FALSE) =>
       \A k \in 1..n : q[k] = <<c, a>> => \E j \in 1..(k - 1) : q[j] = <<b, a>>
  /\ \A b \in Bids(in), a, c \in Asks(in) : compare(a, c, TRUE) =>
       \A k \in 1..n : q[k] = <<b, c>> => \E j \in 1..(k - 1) : q[j] = <<b, a>>

\* That is how the walk goes.
LEMMA PairsAre ==
  ASSUME NEW in, Book(in)
  PROVE  \E n \in Nat : \E q \in [1..n -> Bids(in) \X Asks(in)] :
           pairsOf(bidsOf(in), asksOf(in)) = q /\ InOrder(in, n, q)
<1> DEFINE S == Bids(in)
           T == Asks(in)
<1>1. /\ S \in SUBSET Row /\ IsFiniteSet(S) /\ HashOnce(S)
      /\ T \in SUBSET Row /\ IsFiniteSet(T) /\ HashOnce(T)
  <2>1. S \in SUBSET in.orders /\ T \in SUBSET in.orders
    BY DEF Bids, Asks
  <2> HIDE DEF S, T
  <2> QED
    BY <2>1, FS_Subset DEF Book, HashOnce
<1>2. bidsOf(in) = sorted(S, FALSE) /\ asksOf(in) = sorted(T, TRUE)
  BY DEF bidsOf, asksOf, Bids, Asks
<1> HIDE DEF S, T
<1>3. PICK m \in Nat : m = Cardinality(S)
  BY <1>1, FS_CardinalityType
<1>4. PICK l \in Nat : l = Cardinality(T)
  BY <1>1, FS_CardinalityType
<1>5. PICK bids \in [1..m -> S] :
        /\ bids = bidsOf(in)
        /\ \A x \in S : \E k \in 1..m : bids[k] = x
        /\ \A i, j \in 1..m : i < j => compare(bids[i], bids[j], FALSE)
  BY <1>1, <1>2, <1>3, SortedIs
<1>6. PICK asks \in [1..l -> T] :
        /\ asks = asksOf(in)
        /\ \A x \in T : \E k \in 1..l : asks[k] = x
        /\ \A i, j \in 1..l : i < j => compare(asks[i], asks[j], TRUE)
  BY <1>1, <1>2, <1>4, SortedIs
<1>7. Len(bids) = m /\ Len(asks) = l
  OBVIOUS
<1>8. m * l \in Nat
  OBVIOUS
<1> DEFINE row(k) == ((k - 1) \div l) + 1
           col(k) == ((k - 1) % l) + 1
           q == [k \in 1..(m * l) |-> << bids[row(k)], asks[col(k)] >>]
<1>9. pairsOf(bids, asks) = q
  BY <1>7 DEF pairsOf
<1>10. ASSUME NEW k \in 1..(m * l)
       PROVE  row(k) \in 1..m /\ col(k) \in 1..l /\ k = (row(k) - 1) * l + col(k)
  <2>1. l \in Nat \ {0}
    <3>1. l = 0 => m * l = 0
      OBVIOUS
    <3> QED
      BY <3>1
  <2>2. PICK x \in Nat : x = k - 1 /\ x < m * l
    BY <1>8
  <2>3. PICK d \in Nat : d = x \div l /\ l * d <= x /\ x <= l * d + (l - 1)
    BY <2>1, DivBounds
  <2>4. d < m
    <3>1. CASE d >= m
      <4>1. l * d >= l * m /\ l * m = m * l /\ l * d \in Nat
        BY <2>1, <3>1
      <4> QED
        BY <1>8, <2>2, <2>3, <4>1
    <3> QED
      BY <3>1
  <2>5. x - l * d \in 0..(l - 1) /\ d * l + (x - l * d) = x
    <3>1. l * d \in Nat /\ d * l = l * d
      OBVIOUS
    <3> QED
      BY <2>1, <2>3, <3>1
  <2>7. PICK c \in 0..(l - 1) : c = x - l * d /\ d * l + c = x
    BY <2>5
  <2>6. x % l = c
    <3>1. (d * l + c) % l = c
      BY <2>1, DivOfRow
    <3> QED
      BY <2>7, <3>1
  <2>8. row(k) = d + 1 /\ col(k) = c + 1
    BY <2>2, <2>3, <2>6, <2>7
  <2>9. (d + 1 - 1) * l + (c + 1) = k
    <3>1. d * l \in Nat
      OBVIOUS
    <3> QED
      BY <2>2, <2>7, <3>1
  <2> QED
    BY <2>1, <2>4, <2>7, <2>8, <2>9
<1>11. ASSUME NEW i \in 1..m, NEW j \in 1..l
       PROVE  /\ (i - 1) * l + j \in 1..(m * l)
              /\ row((i - 1) * l + j) = i /\ col((i - 1) * l + j) = j
  <2>1. PICK h \in Nat : h = i - 1 /\ h + 1 <= m
    OBVIOUS
  <2>2. PICK c \in 0..(l - 1) : c = j - 1
    OBVIOUS
  <2>6. l \in Nat \ {0}
    OBVIOUS
  <2>3. (h * l + c) \div l = h /\ (h * l + c) % l = c
    BY <2>6, DivOfRow
  <2>4. h * l \in Nat /\ (h + 1) * l = h * l + l /\ (h + 1) * l <= m * l
    BY <2>1
  <2>5. h * l + j - 1 = h * l + c /\ h * l + j \in 1..(m * l)
    BY <1>8, <2>2, <2>4
  <2> QED
    BY <2>1, <2>2, <2>3, <2>5
<1>12. q \in [1..(m * l) -> S \X T]
  BY <1>10
<1>13. ASSUME NEW b \in S, NEW a \in T PROVE \E k \in 1..(m * l) : q[k] = <<b, a>>
  <2>1. PICK i \in 1..m : bids[i] = b
    BY <1>5
  <2>2. PICK j \in 1..l : asks[j] = a
    BY <1>6
  <2>3. PICK k \in 1..(m * l) : row(k) = i /\ col(k) = j
    BY <1>11
  <2>4. q[k] = <<bids[row(k)], asks[col(k)]>>
    OBVIOUS
  <2> QED
    BY <2>1, <2>2, <2>3, <2>4
<1>14. ASSUME NEW b \in S, NEW c \in S, compare(b, c, FALSE), NEW i \in 1..m, NEW j \in 1..m,
              bids[i] = b, bids[j] = c
       PROVE  i < j
  <2>1. ~compare(c, b, FALSE) /\ b # c
    BY <1>1, <1>14, CompareIsStrict
  <2>2. ~(j < i) /\ i # j
    BY <1>5, <1>14, <2>1
  <2> QED
    BY <2>2
<1>15. ASSUME NEW a \in T, NEW c \in T, compare(a, c, TRUE), NEW i \in 1..l, NEW j \in 1..l,
              asks[i] = a, asks[j] = c
       PROVE  i < j
  <2>1. ~compare(c, a, TRUE) /\ a # c
    BY <1>1, <1>15, CompareIsStrict
  <2>2. ~(j < i) /\ i # j
    BY <1>6, <1>15, <2>1
  <2> QED
    BY <2>2
<1>16. ASSUME NEW b \in S, NEW c \in S, NEW a \in T, compare(b, c, FALSE),
              NEW k \in 1..(m * l), q[k] = <<c, a>>
       PROVE  \E j \in 1..(k - 1) : q[j] = <<b, a>>
  <2>1. PICK r \in 1..m : r = row(k)
    BY <1>10
  <2>2. PICK s \in 1..l : s = col(k) /\ k = (r - 1) * l + s
    BY <1>10, <2>1
  <2>3. bids[r] = c /\ asks[s] = a
    BY <1>16, <2>1, <2>2
  <2>4. PICK i \in 1..m : bids[i] = b
    BY <1>5
  <2>5. i < r
    BY <1>14, <1>16, <2>3, <2>4
  <2>6. PICK j \in 1..(m * l) : j = (i - 1) * l + s /\ row(j) = i /\ col(j) = s
    BY <1>11
  <2>7. q[j] = <<b, a>>
    BY <2>3, <2>4, <2>6
  <2>8. j < k
    <3>1. (i - 1) * l + l <= (r - 1) * l
      <4>1. PICK u \in Nat : u = i - 1
        OBVIOUS
      <4>2. PICK v \in Nat : v = r - 1 /\ u + 1 <= v
        BY <2>5, <4>1
      <4>3. (u + 1) * l <= v * l /\ (u + 1) * l = u * l + l
        BY <4>2
      <4> QED
        BY <4>1, <4>2, <4>3
    <3>2. (i - 1) * l \in Nat /\ (r - 1) * l \in Nat /\ l > 0
      OBVIOUS
    <3> QED
      BY <2>2, <2>6, <3>1, <3>2
  <2>9. j \in 1..(k - 1)
    BY <1>8, <2>8
  <2> HIDE DEF q
  <2> QED
    BY <2>7, <2>9
<1>17. ASSUME NEW b \in S, NEW a \in T, NEW c \in T, compare(a, c, TRUE),
              NEW k \in 1..(m * l), q[k] = <<b, c>>
       PROVE  \E j \in 1..(k - 1) : q[j] = <<b, a>>
  <2>1. PICK r \in 1..m : r = row(k)
    BY <1>10
  <2>2. PICK s \in 1..l : s = col(k) /\ k = (r - 1) * l + s
    BY <1>10, <2>1
  <2>3. bids[r] = b /\ asks[s] = c
    BY <1>17, <2>1, <2>2
  <2>4. PICK i \in 1..l : asks[i] = a
    BY <1>6
  <2>5. i < s
    BY <1>15, <1>17, <2>3, <2>4
  <2>6. PICK j \in 1..(m * l) : j = (r - 1) * l + i /\ row(j) = r /\ col(j) = i
    BY <1>11
  <2>7. q[j] = <<b, a>>
    BY <2>3, <2>4, <2>6
  <2>8. j < k
    <3>1. (r - 1) * l \in Nat
      OBVIOUS
    <3> QED
      BY <2>2, <2>5, <2>6, <3>1
  <2>9. j \in 1..(k - 1)
    BY <1>8, <2>8
  <2> HIDE DEF q
  <2> QED
    BY <2>7, <2>9
<1>18. pairsOf(bidsOf(in), asksOf(in)) = q
  BY <1>5, <1>6, <1>9
<1> HIDE DEF q
<1>19. PICK n \in Nat : n = m * l
  BY <1>8
<1> QED
  BY <1>12, <1>13, <1>16, <1>17, <1>18, <1>19 DEF S, T, InOrder

\* The books of a run, and what it has come to.
Ledgers(in) == [ reserved : [{o.hash : o \in in.orders} -> Int],
                 closed   : [{o.owner : o \in in.orders} -> Int] ]
Match == [maker : Int, taker : Int, size : Nat, price : Nat]
Runs(in) == [ledger : Ledgers(in), matches : Seq(Match)]

\* What an order of the book can still trade is a number.
LEMMA FillableIsInt ==
  ASSUME NEW in, Book(in), NEW L \in Ledgers(in), NEW o \in in.orders
  PROVE  fillable(in, L, o) \in Int
<1>1. /\ o.size \in Int /\ o.filledSize \in Int /\ L.reserved[o.hash] \in Int
      /\ L.closed[o.owner] \in Int /\ in.positions[o.owner] \in Int
  BY DEF Book, Row, Ledgers
<1>2. remaining(L, o) \in Int
  BY <1>1 DEF remaining
<1>3. abs(in.positions[o.owner]) \in Int
  BY <1>1 DEF abs
<1> QED
  BY <1>1, <1>2, <1>3 DEF fillable, min, max

\* Nobody has more to trade in the second ledger.
Used(in, L, L2) == \A o \in in.orders : fillable(in, L2, o) <= fillable(in, L, o)

\* A booked fill uses up one of its orders.
LEMMA BookedUses ==
  ASSUME NEW in, Book(in), NEW L \in Ledgers(in), NEW b \in in.orders, NEW a \in in.orders,
         b.owner # a.owner, NEW s, s = min(fillable(in, L, b), fillable(in, L, a)), s > 0,
         NEW L2, L2 = bookFill(bookFill(L, b, s), a, s)
  PROVE  /\ L2 \in Ledgers(in) /\ Used(in, L, L2) /\ s \in Nat
         /\ fillable(in, L2, b) <= 0 \/ fillable(in, L2, a) <= 0
<1>1. s \in Nat
  <2>1. fillable(in, L, b) \in Int /\ fillable(in, L, a) \in Int
    BY FillableIsInt
  <2> QED
    BY <2>1 DEF min
<1>2. /\ b.hash # a.hash /\ b.owner \in Owners /\ a.owner \in Owners
      /\ b.hash \in {o.hash : o \in in.orders} /\ a.hash \in {o.hash : o \in in.orders}
      /\ b.owner \in {o.owner : o \in in.orders} /\ a.owner \in {o.owner : o \in in.orders}
  BY DEF Book, HashOnce, Row
<1> DEFINE H == {o.hash : o \in in.orders}
           U == {o.owner : o \in in.orders}
<1>3. L.reserved \in [H -> Int] /\ L.closed \in [U -> Int]
  BY DEF Ledgers
<1>4. /\ L2.reserved = [h \in H |-> IF h \in {b.hash, a.hash} THEN L.reserved[h] + s ELSE L.reserved[h]]
      /\ L2.closed = [u \in U |-> IF u = b.owner THEN (IF b.reduceOnly THEN L.closed[u] + s ELSE L.closed[u])
                                  ELSE IF u = a.owner THEN (IF a.reduceOnly THEN L.closed[u] + s ELSE L.closed[u])
                                  ELSE L.closed[u]]
      /\ L2 = [reserved |-> L2.reserved, closed |-> L2.closed]
  <2> HIDE DEF H, U
  <2> DEFINE L1 == bookFill(L, b, s)
  <2>1. /\ L1.reserved = [h \in H |-> IF h = b.hash THEN L.reserved[h] + s ELSE L.reserved[h]]
        /\ L1.closed = [u \in U |-> IF u = b.owner THEN (IF b.reduceOnly THEN L.closed[u] + s ELSE L.closed[u])
                                    ELSE L.closed[u]]
    BY <1>3 DEF bookFill
  <2>2. L2 = bookFill(L1, a, s)
    OBVIOUS
  <2> HIDE DEF L1
  <2> QED
    BY <1>2, <1>3, <2>1, <2>2 DEF bookFill
<1>5. L2 \in Ledgers(in)
  <2>1. L2.reserved \in [H -> Int] /\ L2.closed \in [U -> Int]
    BY <1>1, <1>3, <1>4
  <2>2. [reserved |-> L2.reserved, closed |-> L2.closed] \in Ledgers(in)
    BY <2>1 DEF Ledgers
  <2> QED
    BY <1>4, <2>2
<1>6. ASSUME NEW o \in in.orders
      PROVE  /\ L.reserved[o.hash] \in Int /\ L2.reserved[o.hash] >= L.reserved[o.hash]
             /\ L2.reserved[o.hash] \in Int /\ L.closed[o.owner] \in Int /\ L2.closed[o.owner] \in Int
             /\ L2.closed[o.owner] >= L.closed[o.owner]
  <2>1. o.hash \in H /\ o.owner \in U
    OBVIOUS
  <2> HIDE DEF H, U
  <2> QED
    BY <1>1, <1>3, <1>4, <2>1
<1>7. ASSUME NEW o \in in.orders
      PROVE  fillable(in, L2, o) <= fillable(in, L, o)
  <2>1. PICK left \in Int : left = remaining(L, o)
    BY <1>6 DEF remaining, Book, Row
  <2>2. PICK left2 \in Int : left2 = remaining(L2, o) /\ left2 <= left
    BY <1>6, <2>1 DEF remaining, Book, Row
  <2>3. PICK p \in Int : p = in.positions[o.owner]
    BY DEF Book, Row
  <2>4. PICK c \in Int : c = abs(p)
    BY DEF abs
  <2>5. fillable(in, L, o) = IF ~o.reduceOnly \/ left <= 0 THEN left
                             ELSE IF p = 0 \/ o.isLong = (p > 0) THEN 0
                             ELSE max(0, min(left, c - L.closed[o.owner]))
    BY <2>1, <2>3, <2>4 DEF fillable
  <2>6. fillable(in, L2, o) = IF ~o.reduceOnly \/ left2 <= 0 THEN left2
                              ELSE IF p = 0 \/ o.isLong = (p > 0) THEN 0
                              ELSE max(0, min(left2, c - L2.closed[o.owner]))
    BY <2>2, <2>3, <2>4 DEF fillable
  <2> QED
    BY <1>6, <2>2, <2>5, <2>6 DEF max, min
<1>8. ASSUME NEW o \in {b, a}, fillable(in, L, o) = s
      PROVE  fillable(in, L2, o) <= 0
  <2>1. o \in in.orders /\ o.hash \in H /\ o.owner \in U
    OBVIOUS
  <2>2. L2.reserved[o.hash] = L.reserved[o.hash] + s
    <3> HIDE DEF H, U
    <3> QED
      BY <1>4, <2>1
  <2>3. o.reduceOnly => L2.closed[o.owner] = L.closed[o.owner] + s
    <3> HIDE DEF H, U
    <3>1. CASE o = b
      BY <1>4, <2>1, <3>1
    <3>2. CASE o = a
      BY <1>4, <2>1, <3>2
    <3> QED
      BY <3>1, <3>2
  <2>4. PICK left \in Int : left = remaining(L, o)
    BY <1>6, <2>1 DEF remaining, Book, Row
  <2>5. remaining(L2, o) = left - s
    BY <1>1, <1>6, <2>1, <2>2, <2>4 DEF remaining, Book, Row
  <2>6. PICK p \in Int : p = in.positions[o.owner]
    BY <2>1 DEF Book, Row
  <2>7. PICK c \in Int : c = abs(p)
    BY DEF abs
  <2>8. fillable(in, L, o) = IF ~o.reduceOnly \/ left <= 0 THEN left
                             ELSE IF p = 0 \/ o.isLong = (p > 0) THEN 0
                             ELSE max(0, min(left, c - L.closed[o.owner]))
    BY <2>4, <2>6, <2>7 DEF fillable
  <2>9. fillable(in, L2, o) = IF ~o.reduceOnly \/ left - s <= 0 THEN left - s
                              ELSE IF p = 0 \/ o.isLong = (p > 0) THEN 0
                              ELSE max(0, min(left - s, c - L2.closed[o.owner]))
    BY <2>5, <2>6, <2>7 DEF fillable
  <2>10. L.closed[o.owner] \in Int
    BY <1>6, <2>1
  <2> QED
    BY <1>1, <1>8, <2>3, <2>8, <2>9, <2>10 DEF max, min
<1>9. fillable(in, L, b) = s \/ fillable(in, L, a) = s
  BY DEF min
<1>10. Used(in, L, L2)
  BY <1>7 DEF Used
<1> QED
  BY <1>1, <1>5, <1>8, <1>9, <1>10

\* matchOrders as the function it folds with.
IsMatching(f, in, pairs) ==
  f = [s \in SUBSET DOMAIN pairs |->
         IF s = {} THEN [ledger |-> emptyLedger(in), matches |-> <<>>]
         ELSE matchPair(in, f[s \ {Max(s)}], pairs[Max(s)][1], pairs[Max(s)][2])]

\* matchOrders is the last state of a run over the pairs.
LEMMA MatchingUnfolds ==
  ASSUME NEW in, NEW pairs, pairs = pairsOf(bidsOf(in), asksOf(in))
  PROVE  matchOrders(in) = (CHOOSE f : IsMatching(f, in, pairs))[DOMAIN pairs]
  BY Zenon DEF matchOrders, FoldLeft, MapThenFoldSet, IsMatching

\* One pair of orders, whatever the run has come to.
LEMMA MatchPairIs ==
  ASSUME NEW in, Book(in), NEW r \in Runs(in), NEW b \in in.orders, NEW a \in in.orders
  PROVE  /\ matchPair(in, r, b, a) \in Runs(in)
         /\ Used(in, r.ledger, matchPair(in, r, b, a).ledger)
         /\ ~trades(in, matchPair(in, r, b, a).ledger, b, a)
         /\ trades(in, r.ledger, b, a) =>
              /\ matchOf(in, r.ledger, b, a) \in Match
              /\ matchPair(in, r, b, a).matches = Append(r.matches, matchOf(in, r.ledger, b, a))
              /\ \/ fillable(in, matchPair(in, r, b, a).ledger, b) <= 0
                 \/ fillable(in, matchPair(in, r, b, a).ledger, a) <= 0
         /\ ~trades(in, r.ledger, b, a) => matchPair(in, r, b, a) = r
<1>1. r.ledger \in Ledgers(in) /\ r.matches \in Seq(Match) /\ r = [ledger |-> r.ledger, matches |-> r.matches]
  BY DEF Runs
<1>2. \A o \in in.orders : fillable(in, r.ledger, o) \in Int
  BY <1>1, FillableIsInt
<1>3. CASE ~trades(in, r.ledger, b, a)
  <2>1. matchPair(in, r, b, a) = r
    BY <1>3 DEF matchPair
  <2>2. Used(in, r.ledger, r.ledger)
    BY <1>2 DEF Used
  <2> QED
    BY <1>3, <2>1, <2>2
<1>4. CASE trades(in, r.ledger, b, a)
  <2>1. PICK m : m = matchOf(in, r.ledger, b, a)
    OBVIOUS
  <2>2. m.size > 0 /\ b.owner # a.owner
    BY <1>4, <2>1 DEF trades
  <2>3. m.size = min(fillable(in, r.ledger, b), fillable(in, r.ledger, a))
    BY <2>1 DEF matchOf
  <2>4. PICK L2 : L2 = bookFill(bookFill(r.ledger, b, m.size), a, m.size)
    OBVIOUS
  <2>5. /\ L2 \in Ledgers(in) /\ Used(in, r.ledger, L2) /\ m.size \in Nat
        /\ fillable(in, L2, b) <= 0 \/ fillable(in, L2, a) <= 0
    BY <1>1, <2>2, <2>3, <2>4, BookedUses
  <2>6. matchPair(in, r, b, a) = [ledger |-> L2, matches |-> Append(r.matches, m)]
    BY <1>4, <2>1, <2>4 DEF matchPair
  <2>7. m \in Match
    <3>1. m = [maker |-> m.maker, taker |-> m.taker, size |-> m.size, price |-> m.price]
      BY <2>1 DEF matchOf
    <3>2. m.maker \in Int /\ m.taker \in Int /\ m.price \in Nat
      BY <2>1 DEF matchOf, makerOf, takerOf, Book, Row
    <3> QED
      BY <2>5, <3>1, <3>2 DEF Match
  <2>8. Append(r.matches, m) \in Seq(Match)
    BY <1>1, <2>7
  <2>9. ~trades(in, L2, b, a)
    <3>1. fillable(in, L2, b) \in Int /\ fillable(in, L2, a) \in Int
      BY <2>5, FillableIsInt
    <3>2. min(fillable(in, L2, b), fillable(in, L2, a)) <= 0
      BY <2>5, <3>1 DEF min
    <3>3. ~(min(fillable(in, L2, b), fillable(in, L2, a)) > 0)
      BY <3>1, <3>2 DEF min
    <3> QED
      BY <3>3 DEF trades, matchOf
  <2>10. [ledger |-> L2, matches |-> Append(r.matches, m)] \in Runs(in)
    BY <2>5, <2>8 DEF Runs
  <2>11. PICK r2 \in Runs(in) : r2 = matchPair(in, r, b, a) /\ r2.ledger = L2 /\ r2.matches = Append(r.matches, m)
    BY <2>6, <2>10
  <2> QED
    BY <1>4, <2>1, <2>5, <2>7, <2>9, <2>11
<1> QED
  BY <1>3, <1>4

\* The run starts with an empty ledger.
LEMMA RunStarts ==
  ASSUME NEW in, Book(in)
  PROVE  [ledger |-> emptyLedger(in), matches |-> <<>>] \in Runs(in)
<1>1. emptyLedger(in) \in Ledgers(in)
  BY DEF emptyLedger, Ledgers
<1>2. <<>> \in Seq(Match)
  OBVIOUS
<1> QED
  BY <1>1, <1>2 DEF Runs

\* And goes from pair to pair.
LEMMA MatchingRuns ==
  ASSUME NEW in, Book(in), NEW n \in Nat, NEW q \in [1..n -> Bids(in) \X Asks(in)],
         pairsOf(bidsOf(in), asksOf(in)) = q
  PROVE  \E R \in [0..n -> Runs(in)] :
           /\ R[0] = [ledger |-> emptyLedger(in), matches |-> <<>>]
           /\ \A j \in 1..n : R[j] = matchPair(in, R[j - 1], q[j][1], q[j][2])
           /\ R[n] = matchOrders(in)
<1> DEFINE base == [ledger |-> emptyLedger(in), matches |-> <<>>]
           V == Runs(in)
           turn(r, k) == matchPair(in, r, q[k][1], q[k][2])
           step == [z \in V \X (1..n) |-> turn(z[1], z[2])]
<1>1. \A k \in 1..n : q[k][1] \in in.orders /\ q[k][2] \in in.orders
  BY DEF Bids, Asks
<1>2. ASSUME NEW r \in V, NEW k \in 1..n PROVE turn(r, k) \in V
  BY <1>1, MatchPairIs
<1>3. base \in V
  BY RunStarts
<1> HIDE DEF base, V, turn
<1>4. step \in [V \X (1..n) -> V] /\ \A r \in V, k \in 1..n : step[<<r, k>>] = turn(r, k)
  BY <1>2
<1> HIDE DEF step
<1>5. PICK g : IsWalk(g, base, step, n)
  BY WalkExists
<1>6. g \in [SUBSET (1..n) -> V]
  BY <1>3, <1>4, <1>5, WalkStays
<1>7. DOMAIN q = 1..n
  OBVIOUS
<1>8. ASSUME NEW s \in SUBSET (1..n), s # {}
      PROVE  Max(s) \in 1..n /\ s \ {Max(s)} \in SUBSET (1..n)
  BY <1>8, LastIn
<1>9. IsMatching(g, in, q)
  <2>1. ASSUME NEW s \in SUBSET (1..n)
        PROVE  (IF s = {} THEN base ELSE step[<<g[s \ {Max(s)}], Max(s)>>])
                 = IF s = {} THEN base ELSE turn(g[s \ {Max(s)}], Max(s))
    <3>1. CASE s = {}
      BY <3>1
    <3>2. CASE s # {}
      <4>1. g[s \ {Max(s)}] \in V /\ Max(s) \in 1..n
        BY <1>6, <1>8, <3>2
      <4> QED
        BY <1>4, <3>2, <4>1
    <3> QED
      BY <3>1, <3>2
  <2>2. g = [s \in SUBSET (1..n) |-> IF s = {} THEN base ELSE step[<<g[s \ {Max(s)}], Max(s)>>]]
    BY <1>5 DEF IsWalk
  <2>3. g = [s \in SUBSET (1..n) |-> IF s = {} THEN base ELSE turn(g[s \ {Max(s)}], Max(s))]
    BY <2>1, <2>2
  <2> QED
    BY <1>7, <2>3 DEF IsMatching, base, turn
<1> DEFINE c == CHOOSE f : IsMatching(f, in, q)
<1>10. c = [s \in SUBSET (1..n) |-> IF s = {} THEN base ELSE turn(c[s \ {Max(s)}], Max(s))]
  <2>1. IsMatching(c, in, q)
    BY <1>9
  <2> HIDE DEF c
  <2> QED
    BY <1>7, <2>1 DEF IsMatching, base, turn
<1>11. matchOrders(in) = c[1..n]
  BY <1>7, MatchingUnfolds
<1> HIDE DEF c
<1>12. c[{}] = base
  BY <1>10
<1>13. \A s \in SUBSET (1..n) : s # {} /\ c[s \ {Max(s)}] \in V
                                   => c[s] = step[<<c[s \ {Max(s)}], Max(s)>>]
  <2>1. ASSUME NEW s \in SUBSET (1..n), s # {}, c[s \ {Max(s)}] \in V
        PROVE  c[s] = step[<<c[s \ {Max(s)}], Max(s)>>]
    BY <1>4, <1>8, <1>10, <2>1
  <2> QED
    BY <2>1
<1>14. PICK R \in [0..n -> V] : /\ R[0] = base
                                /\ \A j \in 1..n : R[j] = step[<<R[j - 1], j>>]
                                /\ R[n] = c[1..n]
  <2>1. step \in [V \X (1..n) -> V]
    BY <1>4
  <2>2. Follows(c, base, step, V, n)
    BY <1>12, <1>13 DEF Follows
  <2>3. Passes(c[1..n], base, step, V, n)
    BY <1>3, <2>1, <2>2, WalkRuns
  <2> QED
    BY <2>3 DEF Passes
<1>15. ASSUME NEW j \in 1..n PROVE R[j] = turn(R[j - 1], j)
  <2>1. R[j - 1] \in V
    BY <1>14
  <2> QED
    BY <1>4, <1>14, <2>1
<1> QED
  BY <1>11, <1>14, <1>15 DEF base, V, turn

\* A sequence with one more at its end.
LEMMA AppendIs ==
  ASSUME NEW S, NEW t \in Seq(S), NEW m \in S
  PROVE  /\ Append(t, m) \in Seq(S) /\ Len(t) \in Nat /\ Len(Append(t, m)) = Len(t) + 1
         /\ Append(t, m)[Len(t) + 1] = m /\ \A k \in 1..Len(t) : Append(t, m)[k] = t[k]
  OBVIOUS

\* What is left of a run only shrinks, and every match comes from a pair that could trade.
History(in, n, q, R) ==
  /\ \A i, j \in 0..n : i <= j => Used(in, R[i].ledger, R[j].ledger)
  /\ \A j \in 0..n : \A k \in 1..Len(R[j].matches) : \E i \in 1..j :
       /\ trades(in, R[i - 1].ledger, q[i][1], q[i][2])
       /\ R[j].matches[k] = matchOf(in, R[i - 1].ledger, q[i][1], q[i][2])

\* So it is with every run.
LEMMA MatchingHistory ==
  ASSUME NEW in, Book(in), NEW n \in Nat, NEW q \in [1..n -> Bids(in) \X Asks(in)],
         NEW R \in [0..n -> Runs(in)],
         R[0] = [ledger |-> emptyLedger(in), matches |-> <<>>],
         \A j \in 1..n : R[j] = matchPair(in, R[j - 1], q[j][1], q[j][2])
  PROVE  History(in, n, q, R)
<1>1. \A k \in 1..n : q[k][1] \in in.orders /\ q[k][2] \in in.orders
  BY DEF Bids, Asks
<1>2. \A j \in 0..n : R[j].ledger \in Ledgers(in) /\ R[j].matches \in Seq(Match)
  BY DEF Runs
<1>20. ASSUME NEW i \in 0..n, NEW o \in in.orders PROVE fillable(in, R[i].ledger, o) \in Int
  <2>1. PICK L \in Ledgers(in) : L = R[i].ledger
    BY <1>2
  <2> QED
    BY <2>1, FillableIsInt
<1>3. ASSUME NEW i \in 0..n, NEW j \in 0..n, i <= j
      PROVE  Used(in, R[i].ledger, R[j].ledger)
  <2> DEFINE G == {k \in 0..n : k < i \/ Used(in, R[i].ledger, R[k].ledger)}
  <2>1. ASSUME NEW k \in 0..n, k = i PROVE k \in G
    <3>1. \A o \in in.orders : fillable(in, R[i].ledger, o) \in Int
      BY <1>20
    <3> QED
      BY <2>1, <3>1 DEF Used
  <2>2. 0 \in G
    <3>1. i = 0 \/ 0 < i
      OBVIOUS
    <3> QED
      BY <2>1, <3>1
  <2>3. ASSUME NEW k \in 1..n, k - 1 \in G PROVE k \in G
    <3>1. CASE k < i
      BY <3>1
    <3>2. CASE k = i
      BY <2>1, <3>2
    <3>3. CASE k > i
      <4>1. Used(in, R[i].ledger, R[k - 1].ledger)
        BY <2>3, <3>3
      <4>2. Used(in, R[k - 1].ledger, R[k].ledger)
        <5>1. PICK r \in Runs(in) : r = R[k - 1]
          OBVIOUS
        <5>2. R[k] = matchPair(in, r, q[k][1], q[k][2])
          BY <5>1
        <5>3. Used(in, r.ledger, matchPair(in, r, q[k][1], q[k][2]).ledger)
          BY <1>1, MatchPairIs
        <5> QED
          BY <5>1, <5>2, <5>3
      <4>3. \A o \in in.orders : /\ fillable(in, R[i].ledger, o) \in Int
                                 /\ fillable(in, R[k - 1].ledger, o) \in Int
                                 /\ fillable(in, R[k].ledger, o) \in Int
        <5>1. k - 1 \in 0..n /\ k \in 0..n
          OBVIOUS
        <5> HIDE DEF G
        <5> QED
          BY <1>20, <5>1
      <4>4. Used(in, R[i].ledger, R[k].ledger)
        BY <4>1, <4>2, <4>3 DEF Used
      <4> QED
        BY <4>4
    <3> QED
      BY <3>1, <3>2, <3>3
  <2>4. j \in G
    <3> HIDE DEF G
    <3> QED
      BY <2>2, <2>3, UpToInduction
  <2> QED
    BY <1>3, <2>4
<1> DEFINE From(j, m) == \E i \in 1..j : /\ trades(in, R[i - 1].ledger, q[i][1], q[i][2])
                                         /\ m = matchOf(in, R[i - 1].ledger, q[i][1], q[i][2])
           G == {j \in 0..n : \A k \in 1..Len(R[j].matches) : From(j, R[j].matches[k])}
<1>4. 0 \in G
  <2>1. Len(R[0].matches) = 0
    OBVIOUS
  <2>2. \A k \in 1..Len(R[0].matches) : FALSE
    BY <2>1
  <2> QED
    BY <2>2
<1>5. ASSUME NEW j \in 1..n, j - 1 \in G PROVE j \in G
  <2>1. R[j - 1] \in Runs(in) /\ R[j - 1].matches \in Seq(Match) /\ R[j].matches \in Seq(Match)
    BY <1>2
  <2>5. PICK r \in Runs(in) : r = R[j - 1] /\ R[j] = matchPair(in, r, q[j][1], q[j][2])
    BY <2>1
  <2>2. ASSUME NEW m, From(j - 1, m) PROVE From(j, m)
    <3>1. PICK i \in 1..(j - 1) : /\ trades(in, R[i - 1].ledger, q[i][1], q[i][2])
                                  /\ m = matchOf(in, R[i - 1].ledger, q[i][1], q[i][2])
      BY <2>2
    <3>2. i \in 1..j
      OBVIOUS
    <3> QED
      BY <3>1, <3>2
  <2>3. CASE trades(in, R[j - 1].ledger, q[j][1], q[j][2])
    <3>1. PICK m : m = matchOf(in, R[j - 1].ledger, q[j][1], q[j][2])
      OBVIOUS
    <3>2. matchPair(in, r, q[j][1], q[j][2]).matches = Append(r.matches, m) /\ m \in Match
      <4>1. PICK b \in in.orders : b = q[j][1]
        BY <1>1
      <4>2. PICK a \in in.orders : a = q[j][2]
        BY <1>1
      <4>3. trades(in, r.ledger, b, a) /\ m = matchOf(in, r.ledger, b, a)
        BY <2>3, <2>5, <3>1, <4>1, <4>2
      <4>4. matchPair(in, r, b, a).matches = Append(r.matches, m) /\ m \in Match
        BY <4>3, MatchPairIs
      <4> QED
        BY <4>1, <4>2, <4>4
    <3>3. From(j, m)
      BY <2>3, <3>1
    <3> HIDE DEF From
    <3>4. PICK t \in Seq(Match) : t = R[j - 1].matches /\ \A k \in 1..Len(t) : From(j - 1, t[k])
      BY <1>5, <2>1
    <3>5. \A k \in 1..Len(t) : From(j, t[k])
      BY <2>2, <3>4
    <3>6. PICK u : u = Append(t, m) /\ u = R[j].matches
      BY <2>5, <3>2, <3>4
    <3>9. m \in Match
      BY <3>2
    <3>7. Len(t) \in Nat /\ Len(u) = Len(t) + 1 /\ u[Len(t) + 1] = m /\ \A k \in 1..Len(t) : u[k] = t[k]
      <4>1. /\ Append(t, m) \in Seq(Match) /\ Len(t) \in Nat /\ Len(Append(t, m)) = Len(t) + 1
            /\ Append(t, m)[Len(t) + 1] = m /\ \A k \in 1..Len(t) : Append(t, m)[k] = t[k]
        BY <3>4, <3>9, AppendIs
      <4> QED
        BY <3>6, <4>1
    <3>8. ASSUME NEW k \in 1..Len(u) PROVE From(j, u[k])
      <4>1. k \in 1..Len(t) \/ k = Len(t) + 1
        BY <3>7
      <4> QED
        BY <3>3, <3>5, <3>7, <4>1
    <3> QED
      BY <3>6, <3>8
  <2>4. CASE ~trades(in, R[j - 1].ledger, q[j][1], q[j][2])
    <3>1. R[j] = R[j - 1]
      <4>1. PICK b \in in.orders : b = q[j][1]
        BY <1>1
      <4>2. PICK a \in in.orders : a = q[j][2]
        BY <1>1
      <4>3. ~trades(in, r.ledger, b, a)
        BY <2>4, <2>5, <4>1, <4>2
      <4>4. matchPair(in, r, b, a) = r
        BY <4>3, MatchPairIs
      <4> QED
        BY <2>5, <4>1, <4>2, <4>4
    <3> HIDE DEF From
    <3> QED
      BY <1>5, <2>2, <3>1
  <2> QED
    BY <2>3, <2>4
<1>6. \A j \in 0..n : j \in G
  <2> HIDE DEF G
  <2> QED
    BY <1>4, <1>5, UpToInduction
<1> QED
  BY <1>3, <1>6 DEF History

\* The run of matchOrders.
IsRun(in, n, q, R) ==
  /\ q \in [1..n -> Bids(in) \X Asks(in)]
  /\ R \in [0..n -> Runs(in)]
  /\ R[0] = [ledger |-> emptyLedger(in), matches |-> <<>>]
  /\ \A j \in 1..n : R[j] = matchPair(in, R[j - 1], q[j][1], q[j][2])

\* Once two orders were tried against each other, they never both have left what would make
\* a trade.
LEMMA TriedOrdersLeaveNothing ==
  ASSUME NEW in, Book(in), NEW n \in Nat, NEW q, NEW R, IsRun(in, n, q, R),
         NEW j \in 1..n, NEW i \in j..n, NEW b, NEW a, q[j] = <<b, a>>,
         NEW s \in Nat, s > 0, b.limitPrice >= a.limitPrice, b.owner # a.owner,
         withinBand(makerOf(b, a).limitPrice, in.band),
         notionalOf(s, makerOf(b, a).limitPrice) >= in.minFillNotional
  PROVE  ~(fillable(in, R[i].ledger, b) >= s /\ fillable(in, R[i].ledger, a) >= s)
<1>1. b \in in.orders /\ a \in in.orders
  BY DEF IsRun, Bids, Asks
<1>2. \A k \in 0..n : R[k].ledger \in Ledgers(in) /\ R[k] \in Runs(in)
  BY DEF IsRun, Runs
<1>3. Used(in, R[j].ledger, R[i].ledger)
  <2>1. j \in 0..n /\ i \in 0..n /\ j <= i
    OBVIOUS
  <2>2. History(in, n, q, R)
    BY MatchingHistory DEF IsRun
  <2> QED
    BY <2>1, <2>2 DEF History
<1>4. ~trades(in, R[j].ledger, b, a)
  <2>1. PICK r \in Runs(in) : r = R[j - 1] /\ R[j] = matchPair(in, r, b, a)
    BY <1>2 DEF IsRun
  <2>2. ~trades(in, matchPair(in, r, b, a).ledger, b, a)
    BY <1>1, MatchPairIs
  <2> QED
    BY <2>1, <2>2
<1>5. PICK x \in Int : x = fillable(in, R[j].ledger, b)
  BY <1>1, <1>2, FillableIsInt
<1>6. PICK y \in Int : y = fillable(in, R[j].ledger, a)
  BY <1>1, <1>2, FillableIsInt
<1>7. PICK p \in Nat : p = makerOf(b, a).limitPrice
  BY <1>1 DEF makerOf, Book, Row
<1>8. ASSUME fillable(in, R[i].ledger, b) >= s, fillable(in, R[i].ledger, a) >= s
      PROVE  FALSE
  <2>1. fillable(in, R[i].ledger, b) \in Int /\ fillable(in, R[i].ledger, a) \in Int
    BY <1>1, <1>2, FillableIsInt
  <2>2. x >= s /\ y >= s
    BY <1>1, <1>3, <1>5, <1>6, <1>8, <2>1 DEF Used
  <2>3. min(x, y) \in Nat /\ s <= min(x, y) /\ min(x, y) > 0
    BY <2>2 DEF min
  <2>4. notionalOf(min(x, y), p) >= notionalOf(s, p) /\ notionalOf(min(x, y), p) \in Nat
        /\ notionalOf(s, p) \in Nat
    BY <2>3, NotionalMonotone
  <2>5. notionalOf(min(x, y), p) >= in.minFillNotional
    BY <1>7, <2>4 DEF Book
  <2>6. trades(in, R[j].ledger, b, a)
    BY <1>5, <1>6, <1>7, <2>3, <2>5 DEF trades, matchOf
  <2> QED
    BY <1>4, <2>6
<1> QED
  BY <1>8

\* matchOrders is such a run over every pair in order of priority.
LEMMA MatchOrdersRuns ==
  ASSUME NEW in, Book(in)
  PROVE  \E n \in Nat : \E q, R :
           IsRun(in, n, q, R) /\ R[n] = matchOrders(in) /\ InOrder(in, n, q)
<1>1. PICK n \in Nat : \E q \in [1..n -> Bids(in) \X Asks(in)] :
           pairsOf(bidsOf(in), asksOf(in)) = q /\ InOrder(in, n, q)
  BY PairsAre
<1>2. PICK q \in [1..n -> Bids(in) \X Asks(in)] :
           pairsOf(bidsOf(in), asksOf(in)) = q /\ InOrder(in, n, q)
  BY <1>1
<1>3. PICK R \in [0..n -> Runs(in)] :
           /\ R[0] = [ledger |-> emptyLedger(in), matches |-> <<>>]
           /\ \A j \in 1..n : R[j] = matchPair(in, R[j - 1], q[j][1], q[j][2])
           /\ R[n] = matchOrders(in)
  BY <1>2, MatchingRuns
<1>4. IsRun(in, n, q, R)
  BY <1>3 DEF IsRun
<1> QED
  BY <1>2, <1>3, <1>4

\* No bid and ask of a matched book can still trade.
LEMMA BookIsUncrossed ==
  ASSUME NEW in, Book(in), NEW b \in Bids(in), NEW a \in Asks(in)
  PROVE  ~trades(in, matchOrders(in).ledger, b, a)
<1>1. PICK n \in Nat : \E q, R :
           IsRun(in, n, q, R) /\ R[n] = matchOrders(in) /\ InOrder(in, n, q)
  BY MatchOrdersRuns
<1>2. PICK q, R : IsRun(in, n, q, R) /\ R[n] = matchOrders(in) /\ InOrder(in, n, q)
  BY <1>1
<1>3. PICK k \in 1..n : q[k] = <<b, a>>
  BY <1>2 DEF InOrder
<1>4. b \in in.orders /\ a \in in.orders /\ R[n].ledger \in Ledgers(in)
  BY <1>2 DEF Bids, Asks, IsRun, Runs
<1>5. PICK x \in Int : x = fillable(in, R[n].ledger, b)
  BY <1>4, FillableIsInt
<1>6. PICK y \in Int : y = fillable(in, R[n].ledger, a)
  BY <1>4, FillableIsInt
<1>7. ASSUME trades(in, R[n].ledger, b, a) PROVE FALSE
  <2>1. /\ b.limitPrice >= a.limitPrice /\ b.owner # a.owner /\ min(x, y) > 0
        /\ withinBand(makerOf(b, a).limitPrice, in.band)
        /\ notionalOf(min(x, y), makerOf(b, a).limitPrice) >= in.minFillNotional
    BY <1>5, <1>6, <1>7 DEF trades, matchOf
  <2>2. PICK s \in Nat : s = min(x, y) /\ s > 0 /\ x >= s /\ y >= s
    BY <2>1 DEF min
  <2>3. n \in k..n
    OBVIOUS
  <2>4. ~(fillable(in, R[n].ledger, b) >= s /\ fillable(in, R[n].ledger, a) >= s)
    BY <1>2, <1>3, <2>1, <2>2, <2>3, TriedOrdersLeaveNothing
  <2> QED
    BY <1>5, <1>6, <2>2, <2>4
<1> QED
  BY <1>2, <1>7

\* An order behind another does not get what the one ahead still wants.
LEMMA PriorityOfBook ==
  ASSUME NEW in, Book(in), NEW k \in 1..Len(matchOrders(in).matches)
  PROVE  \E b \in Bids(in), a \in Asks(in) :
           /\ matchOrders(in).matches[k].maker = makerOf(b, a).hash
           /\ matchOrders(in).matches[k].taker = takerOf(b, a).hash
           /\ \A c \in Bids(in) :
                ~ /\ compare(c, b, FALSE) /\ c.limitPrice >= b.limitPrice /\ c.owner # a.owner
                  /\ fillable(in, matchOrders(in).ledger, c) >= matchOrders(in).matches[k].size
                  /\ withinBand(makerOf(c, a).limitPrice, in.band)
                  /\ notionalOf(matchOrders(in).matches[k].size, makerOf(c, a).limitPrice)
                       >= in.minFillNotional
           /\ \A c \in Asks(in) :
                ~ /\ compare(c, a, TRUE) /\ c.limitPrice <= a.limitPrice /\ c.owner # b.owner
                  /\ fillable(in, matchOrders(in).ledger, c) >= matchOrders(in).matches[k].size
                  /\ withinBand(makerOf(b, c).limitPrice, in.band)
                  /\ notionalOf(matchOrders(in).matches[k].size, makerOf(b, c).limitPrice)
                       >= in.minFillNotional
<1>1. PICK n \in Nat : \E q, R :
           IsRun(in, n, q, R) /\ R[n] = matchOrders(in) /\ InOrder(in, n, q)
  BY MatchOrdersRuns
<1>2. PICK q, R : IsRun(in, n, q, R) /\ R[n] = matchOrders(in) /\ InOrder(in, n, q)
  BY <1>1
<1>0. /\ q \in [1..n -> Bids(in) \X Asks(in)] /\ R \in [0..n -> Runs(in)]
      /\ R[0] = [ledger |-> emptyLedger(in), matches |-> <<>>]
      /\ \A j \in 1..n : R[j] = matchPair(in, R[j - 1], q[j][1], q[j][2])
  BY <1>2 DEF IsRun
<1>3. /\ \A x, y \in 0..n : x <= y => Used(in, R[x].ledger, R[y].ledger)
      /\ \A j \in 0..n : \A l \in 1..Len(R[j].matches) : \E i \in 1..j :
              /\ trades(in, R[i - 1].ledger, q[i][1], q[i][2])
              /\ R[j].matches[l] = matchOf(in, R[i - 1].ledger, q[i][1], q[i][2])
  <2>1. History(in, n, q, R)
    BY <1>0, MatchingHistory
  <2> QED
    BY <2>1 DEF History
<1>4. PICK i \in 1..n : /\ trades(in, R[i - 1].ledger, q[i][1], q[i][2])
                        /\ R[n].matches[k] = matchOf(in, R[i - 1].ledger, q[i][1], q[i][2])
  <2>1. n \in 0..n /\ k \in 1..Len(R[n].matches)
    BY <1>2
  <2> QED
    BY <1>3, <2>1
<1>5. PICK b \in Bids(in), a \in Asks(in) : q[i] = <<b, a>> /\ q[i][1] = b /\ q[i][2] = a
  BY <1>2 DEF IsRun
<1>6. PICK L \in Ledgers(in) : L = R[i - 1].ledger
  <2>1. R[i - 1] \in Runs(in)
    BY <1>0
  <2> QED
    BY <2>1 DEF Runs
<1>7. PICK f : f = matchOrders(in).matches[k] /\ f = matchOf(in, L, b, a) /\ trades(in, L, b, a)
  BY <1>2, <1>4, <1>5, <1>6
<1>8. b \in in.orders /\ a \in in.orders /\ \A c \in Bids(in) \cup Asks(in) : c \in in.orders
  BY DEF Bids, Asks
<1>9. PICK s \in Nat : s = f.size /\ s > 0 /\ fillable(in, L, b) >= s /\ fillable(in, L, a) >= s
  <2>1. PICK x \in Int : x = fillable(in, L, b)
    BY <1>8, FillableIsInt
  <2>2. PICK y \in Int : y = fillable(in, L, a)
    BY <1>8, FillableIsInt
  <2>3. f.size = min(x, y) /\ f.size > 0
    BY <1>7, <2>1, <2>2 DEF matchOf, trades
  <2> QED
    BY <2>1, <2>2, <2>3 DEF min
<1>10. b.limitPrice >= a.limitPrice /\ b.limitPrice \in Int /\ a.limitPrice \in Int
  BY <1>7, <1>8 DEF trades, Book, Row
<1>11. ASSUME NEW c \in in.orders, fillable(in, matchOrders(in).ledger, c) >= s
       PROVE  fillable(in, L, c) >= s
  <2>1. i - 1 \in 0..n /\ n \in 0..n /\ i - 1 <= n
    OBVIOUS
  <2>2. Used(in, L, R[n].ledger) /\ R[n].ledger \in Ledgers(in)
    BY <1>2, <1>3, <1>6, <2>1 DEF IsRun, Runs
  <2>3. fillable(in, R[n].ledger, c) <= fillable(in, L, c)
    BY <2>2 DEF Used
  <2>4. fillable(in, R[n].ledger, c) \in Int /\ fillable(in, L, c) \in Int
    BY <2>2, FillableIsInt
  <2> QED
    BY <1>2, <1>11, <2>3, <2>4
<1>12. ASSUME NEW c \in Bids(in), compare(c, b, FALSE), c.limitPrice >= b.limitPrice,
              c.owner # a.owner, fillable(in, matchOrders(in).ledger, c) >= s,
              withinBand(makerOf(c, a).limitPrice, in.band),
              notionalOf(s, makerOf(c, a).limitPrice) >= in.minFillNotional
       PROVE  FALSE
  <2>1. PICK j \in 1..(i - 1) : q[j] = <<c, a>>
    <3>1. \A l \in 1..n : q[l] = <<b, a>> => \E j \in 1..(l - 1) : q[j] = <<c, a>>
      BY <1>2, <1>12 DEF InOrder
    <3> QED
      BY <1>5, <3>1
  <2>2. j \in 1..n /\ i - 1 \in j..n
    OBVIOUS
  <2>3. fillable(in, L, c) >= s
    BY <1>8, <1>11, <1>12
  <2>4. c.limitPrice \in Int
    BY <1>8 DEF Book, Row
  <2>5. c.limitPrice >= a.limitPrice
    BY <1>10, <1>12, <2>4
  <2>6. ~(fillable(in, R[i - 1].ledger, c) >= s /\ fillable(in, R[i - 1].ledger, a) >= s)
    BY <1>2, <1>9, <1>12, <2>1, <2>2, <2>5, TriedOrdersLeaveNothing
  <2> QED
    BY <1>6, <1>9, <2>3, <2>6
<1>13. ASSUME NEW c \in Asks(in), compare(c, a, TRUE), c.limitPrice <= a.limitPrice,
              c.owner # b.owner, fillable(in, matchOrders(in).ledger, c) >= s,
              withinBand(makerOf(b, c).limitPrice, in.band),
              notionalOf(s, makerOf(b, c).limitPrice) >= in.minFillNotional
       PROVE  FALSE
  <2>1. PICK j \in 1..(i - 1) : q[j] = <<b, c>>
    <3>1. \A l \in 1..n : q[l] = <<b, a>> => \E j \in 1..(l - 1) : q[j] = <<b, c>>
      BY <1>2, <1>13 DEF InOrder
    <3> QED
      BY <1>5, <3>1
  <2>2. j \in 1..n /\ i - 1 \in j..n
    OBVIOUS
  <2>3. fillable(in, L, c) >= s
    BY <1>8, <1>11, <1>13
  <2>4. c.limitPrice \in Int
    BY <1>8 DEF Book, Row
  <2>5. b.limitPrice >= c.limitPrice /\ b.owner # c.owner
    BY <1>10, <1>13, <2>4
  <2>6. ~(fillable(in, R[i - 1].ledger, b) >= s /\ fillable(in, R[i - 1].ledger, c) >= s)
    BY <1>2, <1>9, <1>13, <2>1, <2>2, <2>5, TriedOrdersLeaveNothing
  <2> QED
    BY <1>6, <1>9, <2>3, <2>6
<1>14. f.maker = makerOf(b, a).hash /\ f.taker = takerOf(b, a).hash
  BY <1>7 DEF matchOf
<1> QED
  BY <1>7, <1>9, <1>12, <1>13, <1>14

-----------------------------------------------------------------------------
(* The state.                                                              *)

Fill == [maker : Int, taker : Int, size : Nat, price : Nat, marketId : Markets, id : Int]

Event == [type : {"FillSettled"}, fill : Fill]
           \cup [type : {"OrderCancelled", "NoncesCancelledUpTo"}, owner : Traders, nonce : Int]
           \cup [type : {"MarketActiveSet"}, market : Markets]

Limits == [ maxDeviationBps : 0..BPS_DENOMINATOR, maxFillNotional : Nat,
            maxDailyNotional : Nat, usedToday : Nat ]

Slice == [ marketId : Markets, isLong : BOOLEAN, size : Nat, limitPrice : Nat, index : Nat,
           worstNotional : Nat ]

\* A row as it may be stored: it expires before the gateway's horizon, and the backstop's
\* are of the venue's markets.
Stored(o, time) ==
  /\ o \in Row /\ o.filledSize <= o.size /\ o.expiry <= time + MAX_ORDER_TTL
  /\ o.owner = BACKSTOP => o.marketId \in Markets

\* The tables.
Tables(d, time) ==
  /\ d = [ orders |-> d.orders, minValidNonce |-> d.minValidNonce, positions |-> d.positions,
           active |-> d.active, fills |-> d.fills ]
  /\ d.orders \in [DOMAIN d.orders -> Row] /\ IsFiniteSet(DOMAIN d.orders)
  /\ \A h \in DOMAIN d.orders : d.orders[h].hash = h /\ Stored(d.orders[h], time)
  /\ d.minValidNonce \in [Owners -> Int]
  /\ d.positions \in [Owners -> [Markets -> Int]]
  /\ d.active \in [Markets -> BOOLEAN]
  /\ d.fills \subseteq Fill /\ IsFiniteSet(d.fills)

Storage == [ minNonce : [Owners -> Int], cancelled : SUBSET (Traders \X Int),
             filled : [Hashes -> Int], positions : [Owners -> [Markets -> Int]],
             index : [Markets -> Nat], unwound : Nat, halted : SUBSET Halts ]

\* What passed the intake.
Accepted(s, time) ==
  s.order.size \in Nat /\ s.order.limitPrice \in Nat /\ s.order.expiry <= time + MAX_ORDER_TTL

\* What the unwinder knows at each of its steps.
Memories ==
  [ pc : {"idle", "plan", "post", "record"}, nowSec : Nat, limits : Limits \cup {<<>>},
    positions : [Markets -> Int] \cup {<<>>}, open : SUBSET Row,
    index : [Markets -> Nat] \cup {<<>>}, slices : Seq(Slice), posted : Int ]

Memory(k) ==
  /\ k \in Memories
  /\ k.pc # "idle" => k.limits \in Limits /\ k.positions \in [Markets -> Int]
  /\ k.pc \in {"post", "record"} =>
       /\ k.index \in [Markets -> Nat] /\ IsFiniteSet(k.open)
       /\ \A o \in k.open : o.marketId \in Markets /\ o.filledSize <= o.size
  /\ k.pc = "post" => k.slices # <<>>

Typed ==
  /\ now \in Nat
  /\ Tables(db, now)
  /\ chain \in Storage
  /\ log \in Seq(Event)
  /\ requests \subseteq Submissions /\ \A s \in requests : Accepted(s, now)
  /\ matcher \in [offer : Seq(Fill), queue : Seq(Fill), fills : Nat]
  /\ Memory(keeper)

\* The caps of a plan hold until its last slice is posted.
WithinCaps(k) ==
  LET dev     == k.limits.maxDeviationBps
      used    == k.limits.usedToday
      slices  == Range(k.slices)
      top(isLong, limit, m) ==
        LET high == k.index[m] + mulDiv(k.index[m], dev, BPS_DENOMINATOR)
        IN  IF isLong THEN min(limit, high) ELSE high
      priced   == {o \in k.open : k.index[o.marketId] > 0}
      worst    == [s \in slices |-> notionalOf(s.size, top(s.isLong, s.limitPrice, s.marketId))]
      left     == [o \in priced |-> notionalOf(o.size - o.filledSize,
                                               top(o.isLong, o.limitPrice, o.marketId))]
  IN  /\ \A s \in slices : worst[s] <= k.limits.maxFillNotional
      /\ used + SumFunctionOnSet(worst, slices) + SumFunctionOnSet(left, priced)
           <= k.limits.maxDailyNotional

Planned == keeper.pc \in {"post", "record"} => WithinCaps(keeper)

-----------------------------------------------------------------------------
(* The intake and the tables.                                              *)

\* What passes a row of checks fails none of them.
LEMMA FirstOfOk ==
  ASSUME NEW n \in Nat, NEW checks, DOMAIN checks = 1..n,
         \A i \in 1..n : checks[i].fails => checks[i].code # "ok",
         firstOf(checks) = "ok"
  PROVE  \A i \in 1..n : ~checks[i].fails
<1> DEFINE failed == {i \in 1..n : checks[i].fails}
<1>1. CASE failed = {}
  BY <1>1
<1>2. CASE failed # {}
  <2>1. failed \in SUBSET Nat
    OBVIOUS
  <2>2. PICK i \in failed : \A j \in failed : i <= j
    <3> HIDE DEF failed
    <3> QED
      BY <1>2, <2>1, Least
  <2>3. PICK c : c = CHOOSE x \in failed : \A j \in failed : x <= j
    OBVIOUS
  <2>4. c \in failed
    BY <2>2, <2>3
  <2>5. failed = {k \in DOMAIN checks : checks[k].fails}
    OBVIOUS
  <2>6. firstOf(checks) = checks[c].code
    <3> HIDE DEF failed
    <3> QED
      BY <1>2, <2>3, <2>5 DEF firstOf
  <2> QED
    BY <2>4, <2>6
<1> QED
  BY <1>1, <1>2

\* What an accepted order is.
LEMMA AcceptedIs ==
  ASSUME NEW d, NEW s, NEW time, NEW answer, s.order.size \in Int, s.order.limitPrice \in Int,
         s.order.expiry \in Int, time \in Nat,
         validateOrderSubmission(d, s, time, answer) = "ok"
  PROVE  Accepted(s, time)
<1> DEFINE o == s.order
           expiry == checkExpiry(o.expiry, time)
           signature == verifySignature(s, answer)
           state == checkState(d, o)
           all == << check(expiry # "ok", expiry), check(signature # "ok", signature),
                     check(state # "ok", state) >>
<1>1. parseOrder(o) = "ok" /\ firstOf(all) = "ok"
  BY DEF validateOrderSubmission
<1>2. o.size \in 0..UINT_MAX /\ o.limitPrice \in 0..UINT_MAX
  <2> DEFINE checks == << check(~uint(o.marketId) \/ o.marketId = 0, "invalid_field"),
                          check(~uint(o.size) \/ ~uint(o.limitPrice), "invalid_field"),
                          check(o.size = 0 \/ o.limitPrice = 0, "invalid_field"),
                          check(~uint(o.nonce) \/ ~uint(o.expiry), "invalid_field"),
                          check(\/ o.size > INT128_MAX \/ o.limitPrice > INT128_MAX
                                \/ notionalOf(o.size, o.limitPrice) > INT128_MAX, "overflow") >>
  <2>1. firstOf(checks) = "ok"
    BY <1>1 DEF parseOrder
  <2>2. DOMAIN checks = 1..5
    OBVIOUS
  <2>3. checks[2].fails <=> ~uint(o.size) \/ ~uint(o.limitPrice)
    BY DEF check
  <2>4. \A i \in 1..5 : checks[i].fails => checks[i].code # "ok"
    BY DEF check
  <2> HIDE DEF checks
  <2>6. 5 \in Nat
    OBVIOUS
  <2>7. \A i \in 1..5 : ~checks[i].fails
    BY <2>1, <2>2, <2>4, <2>6, FirstOfOk
  <2>5. ~checks[2].fails
    BY <2>7
  <2> QED
    BY <2>3, <2>5 DEF uint
<1>3. expiry = "ok"
  <2>1. DOMAIN all = 1..3
    OBVIOUS
  <2>2. \A i \in 1..3 : all[i].fails => all[i].code # "ok"
    <3>1. (all[1].fails <=> expiry # "ok") /\ all[1].code = expiry
      BY DEF check
    <3>2. (all[2].fails <=> signature # "ok") /\ all[2].code = signature
      BY DEF check
    <3>3. (all[3].fails <=> state # "ok") /\ all[3].code = state
      BY DEF check
    <3> HIDE DEF all, expiry, signature, state
    <3> QED
      BY <3>1, <3>2, <3>3
  <2>3. all[1].fails <=> expiry # "ok"
    BY DEF check
  <2> HIDE DEF all, expiry, signature, state
  <2>5. 3 \in Nat /\ 1 \in 1..3
    OBVIOUS
  <2>6. \A i \in 1..3 : ~all[i].fails
    BY <1>1, <2>1, <2>2, <2>5, FirstOfOk
  <2>4. ~all[1].fails
    BY <2>5, <2>6
  <2> QED
    BY <2>3, <2>4
<1>4. o.expiry <= time + MAX_ORDER_TTL
  <2> DEFINE checks == << check(o.expiry <= time + MIN_TTL_SECONDS, "expired"),
                          check(o.expiry > time + MAX_ORDER_TTL, "expiry_too_far") >>
  <2>1. firstOf(checks) = "ok"
    BY <1>3 DEF checkExpiry
  <2>2. DOMAIN checks = 1..2
    OBVIOUS
  <2>3. checks[2].fails <=> o.expiry > time + MAX_ORDER_TTL
    BY DEF check
  <2>4. \A i \in 1..2 : checks[i].fails => checks[i].code # "ok"
    BY DEF check
  <2> HIDE DEF checks
  <2>6. 2 \in Nat
    OBVIOUS
  <2>7. \A i \in 1..2 : ~checks[i].fails
    BY <2>1, <2>2, <2>4, <2>6, FirstOfOk
  <2>5. ~checks[2].fails
    BY <2>7
  <2> QED
    BY <2>3, <2>5, MarketsAssumption
<1>5. o.size \in Nat /\ o.limitPrice \in Nat
  BY <1>2
<1> QED
  BY <1>4, <1>5 DEF Accepted

\* A signed order.
Signed(o) ==
  o \in [ hash : Int, owner : Owners, marketId : Int, isLong : BOOLEAN, size : Int,
          limitPrice : Int, reduceOnly : BOOLEAN, nonce : Int, expiry : Int ]

\* The row an accepted order becomes.
LEMMA NewRowIs ==
  ASSUME NEW o, Signed(o), NEW time \in Nat, o.size \in Nat, o.limitPrice \in Nat, NEW t \in Nat,
         o.expiry <= t + MAX_ORDER_TTL, o.owner = BACKSTOP => o.marketId \in Markets
  PROVE  newRow(o, time).hash = o.hash /\ Stored(newRow(o, time), t)
<1>1. /\ o.hash \in Int /\ o.owner \in Owners /\ o.marketId \in Int /\ o.isLong \in BOOLEAN
      /\ o.reduceOnly \in BOOLEAN /\ o.nonce \in Int /\ o.expiry \in Int
  BY DEF Signed
<1>2. newRow(o, time) \in Row
  BY <1>1 DEF newRow, Row, Statuses, LIVE_STATUSES
<1>3. newRow(o, time).filledSize = 0 /\ newRow(o, time).size = o.size
      /\ newRow(o, time).expiry = o.expiry /\ newRow(o, time).owner = o.owner
      /\ newRow(o, time).marketId = o.marketId /\ newRow(o, time).hash = o.hash
  BY DEF newRow
<1> QED
  BY <1>2, <1>3 DEF Stored

\* New rows in the tables.
LEMMA RowsChange ==
  ASSUME NEW d, NEW time, Tables(d, time), NEW D, IsFiniteSet(D), NEW orders,
         orders = [h \in D |-> orders[h]],
         \A h \in D : orders[h].hash = h /\ Stored(orders[h], time)
  PROVE  Tables([d EXCEPT !.orders = orders], time)
<1> DEFINE e == [d EXCEPT !.orders = orders]
<1>1. e = [ orders |-> orders, minValidNonce |-> d.minValidNonce, positions |-> d.positions,
            active |-> d.active, fills |-> d.fills ]
  <2>1. d = [ orders |-> d.orders, minValidNonce |-> d.minValidNonce, positions |-> d.positions,
              active |-> d.active, fills |-> d.fills ]
    BY DEF Tables
  <2> QED
    BY <2>1
<1>2. /\ e.orders = orders /\ e.minValidNonce = d.minValidNonce /\ e.positions = d.positions
      /\ e.active = d.active /\ e.fills = d.fills
  BY <1>1
<1>3. DOMAIN orders = D
  OBVIOUS
<1>4. orders \in [D -> Row]
  BY DEF Stored
<1> HIDE DEF e
<1>5. Tables(e, time)
  BY <1>1, <1>2, <1>3, <1>4 DEF Tables
<1> QED
  BY <1>5 DEF e

\* An insert.
LEMMA InsertKeeps ==
  ASSUME NEW d, NEW t \in Nat, Tables(d, t), NEW o, Signed(o), o.size \in Nat, o.limitPrice \in Nat,
         o.expiry <= t + MAX_ORDER_TTL, o.owner = BACKSTOP => o.marketId \in Markets
  PROVE  Tables(insertOrder(d, o, t), t)
<1> DEFINE D == DOMAIN d.orders \cup {o.hash}
           orders == [h \in D |-> IF h = o.hash THEN newRow(o, t) ELSE d.orders[h]]
<1>1. insertOrder(d, o, t) \in {d, [d EXCEPT !.orders = orders]}
  BY DEF insertOrder
<1>2. IsFiniteSet(D)
  BY FS_AddElement DEF Tables
<1>3. newRow(o, t).hash = o.hash /\ Stored(newRow(o, t), t)
  BY NewRowIs
<1>4. \A h \in D : orders[h].hash = h /\ Stored(orders[h], t)
  BY <1>3 DEF Tables
<1>5. orders = [h \in D |-> orders[h]]
  OBVIOUS
<1> HIDE DEF orders, D
<1>6. Tables([d EXCEPT !.orders = orders], t)
  BY <1>2, <1>4, <1>5, RowsChange
<1> QED
  BY <1>1, <1>6

\* A row changed in its status or filled further is still a stored row.
LEMMA StoredStays ==
  ASSUME NEW o, NEW time, Stored(o, time), NEW status \in Statuses, NEW filled \in Nat, filled <= o.size
  PROVE  /\ Stored([o EXCEPT !.status = status], time)
         /\ Stored([o EXCEPT !.filledSize = filled, !.status = status], time)
         /\ [o EXCEPT !.status = status].hash = o.hash
         /\ [o EXCEPT !.filledSize = filled, !.status = status].hash = o.hash
<1>1. o \in Row
  BY DEF Stored
<1>2. PICK p : p = [o EXCEPT !.status = status]
  OBVIOUS
<1>3. PICK q : q = [o EXCEPT !.filledSize = filled, !.status = status]
  OBVIOUS
<1>4. p \in Row /\ q \in Row
  BY <1>1, <1>2, <1>3 DEF Row
<1>5. /\ p.hash = o.hash /\ p.filledSize = o.filledSize /\ p.size = o.size /\ p.expiry = o.expiry
      /\ p.owner = o.owner /\ p.marketId = o.marketId
      /\ q.hash = o.hash /\ q.filledSize = filled /\ q.size = o.size /\ q.expiry = o.expiry
      /\ q.owner = o.owner /\ q.marketId = o.marketId
  BY <1>1, <1>2, <1>3 DEF Row
<1> QED
  BY <1>2, <1>3, <1>4, <1>5 DEF Stored

\* A cancel.
LEMMA CancelKeeps ==
  ASSUME NEW d, NEW time, Tables(d, time), NEW rows
  PROVE  Tables(cancelRows(d, rows), time)
<1> DEFINE D == DOMAIN d.orders
           orders == [h \in D |-> IF h \in rows /\ d.orders[h].status \in LIVE_STATUSES
                                  THEN [d.orders[h] EXCEPT !.status = "CANCELLED"] ELSE d.orders[h]]
<1>1. cancelRows(d, rows) = [d EXCEPT !.orders = orders]
  BY DEF cancelRows
<1>2. IsFiniteSet(D)
  BY DEF Tables
<1>3. ASSUME NEW h \in D PROVE orders[h].hash = h /\ Stored(orders[h], time)
  <2>1. d.orders[h].hash = h /\ Stored(d.orders[h], time)
    BY DEF Tables
  <2>2. "CANCELLED" \in Statuses /\ d.orders[h].filledSize \in Nat
    BY <2>1 DEF Statuses, Stored, Row
  <2>3. Stored([d.orders[h] EXCEPT !.status = "CANCELLED"], time)
        /\ [d.orders[h] EXCEPT !.status = "CANCELLED"].hash = d.orders[h].hash
    BY <2>1, <2>2, StoredStays DEF Stored
  <2> QED
    BY <2>1, <2>3
<1>4. orders = [h \in D |-> orders[h]]
  OBVIOUS
<1> HIDE DEF orders, D
<1>5. Tables([d EXCEPT !.orders = orders], time)
  BY <1>2, <1>3, <1>4, RowsChange
<1> QED
  BY <1>1, <1>5

\* A fill brings an order further, within its size.
LEMMA FilledKeeps ==
  ASSUME NEW o, NEW time, Stored(o, time), NEW size \in Nat
  PROVE  LET p == [o EXCEPT !.filledSize = min(@ + size, o.size),
                            !.status = orderStatus(o, o.filledSize + size)]
         IN  Stored(p, time) /\ p.hash = o.hash
<1> DEFINE filled == min(o.filledSize + size, o.size)
           status == orderStatus(o, o.filledSize + size)
<1>1. o.filledSize \in Nat /\ o.size \in Nat /\ o.status \in Statuses
  BY DEF Stored, Row
<1>2. filled \in Nat /\ filled <= o.size
  BY <1>1 DEF min
<1>3. status \in Statuses
  <2>1. PICK n \in Nat : n = o.filledSize + size
    BY <1>1
  <2>2. o.status \in {"CANCELLED", "EXPIRED"} \/ o.status \in LIVE_STATUSES \cup {"FILLED"}
    BY <1>1 DEF Statuses
  <2>3. CASE o.status \in {"CANCELLED", "EXPIRED"}
    <3>1. ~(o.status \in LIVE_STATUSES \cup {"FILLED"})
      BY <2>3 DEF LIVE_STATUSES
    <3>2. orderStatus(o, n) = o.status
      BY <2>3, <3>1 DEF orderStatus
    <3> QED
      BY <1>1, <2>1, <3>2
  <2>4. CASE o.status \in LIVE_STATUSES \cup {"FILLED"}
    <3>1. ~(o.status \in {"CANCELLED", "EXPIRED"})
      BY <2>4 DEF LIVE_STATUSES
    <3>2. orderStatus(o, n) = IF n >= o.size THEN "FILLED" ELSE IF n > 0 THEN "PARTIALLY_FILLED" ELSE "OPEN"
      BY <2>4, <3>1 DEF orderStatus
    <3> QED
      BY <2>1, <3>2 DEF Statuses, LIVE_STATUSES
  <2> QED
    BY <2>2, <2>3, <2>4
<1> HIDE DEF filled, status
<1>4. Stored([o EXCEPT !.filledSize = filled, !.status = status], time)
      /\ [o EXCEPT !.filledSize = filled, !.status = status].hash = o.hash
  BY <1>2, <1>3, StoredStays
<1> QED
  BY <1>4 DEF filled, status

\* A settled fill in the tables.
LEMMA SettledKeeps ==
  ASSUME NEW d, NEW time, Tables(d, time), NEW f \in Fill
  PROVE  Tables(applyFillSettled(d, f), time)
<1> DEFINE delta(u) == IF d.orders[f.maker].owner = u THEN (IF d.orders[f.maker].isLong THEN f.size ELSE -f.size)
                       ELSE IF d.orders[f.taker].owner = u THEN (IF d.orders[f.taker].isLong THEN f.size ELSE -f.size)
                       ELSE 0
           D == DOMAIN d.orders
           orders == filledOrders(d, f)
           positions == movedPositions(d, f)
<1>1. PICK e : e = applyFillSettled(d, f)
  OBVIOUS
<1>2. f.size \in Nat /\ f.marketId \in Markets
  BY DEF Fill
<1>3. IsFiniteSet(D)
  BY DEF Tables
<1>4. ASSUME NEW h \in D PROVE orders[h].hash = h /\ Stored(orders[h], time)
  <2>1. d.orders[h].hash = h /\ Stored(d.orders[h], time)
    BY DEF Tables
  <2> QED
    BY <1>2, <2>1, FilledKeeps DEF filledOrders
<1>5. \A u : delta(u) \in Int
  BY <1>2
<1>6. positions \in [Owners -> [Markets -> Int]]
  <2>3. positions = [u \in DOMAIN d.positions |-> [d.positions[u] EXCEPT ![f.marketId] = @ + delta(u)]]
    BY DEF movedPositions
  <2> HIDE DEF delta, positions
  <2>1. d.positions \in [Owners -> [Markets -> Int]]
    BY DEF Tables
  <2>2. ASSUME NEW u \in Owners PROVE [d.positions[u] EXCEPT ![f.marketId] = @ + delta(u)] \in [Markets -> Int]
    <3>1. PICK p \in [Markets -> Int] : p = d.positions[u]
      BY <2>1
    <3>2. p[f.marketId] + delta(u) \in Int
      BY <1>2, <1>5
    <3> QED
      BY <3>1, <3>2
  <2> QED
    BY <2>1, <2>2, <2>3
<1>7. orders = [h \in D |-> orders[h]] /\ DOMAIN orders = D
  BY DEF filledOrders
<1>8. orders \in [D -> Row]
  <2> HIDE DEF orders
  <2> QED
    BY <1>4, <1>7 DEF Stored
<1>9. d.fills \ {f} \subseteq Fill /\ IsFiniteSet(d.fills \ {f})
  BY FS_Subset DEF Tables
<1>11. /\ e.orders = orders /\ e.minValidNonce = d.minValidNonce /\ e.positions = positions
       /\ e.active = d.active /\ e.fills = d.fills \ {f}
       /\ e = [ orders |-> e.orders, minValidNonce |-> e.minValidNonce, positions |-> e.positions,
                active |-> e.active, fills |-> e.fills ]
  <2>1. d = [ orders |-> d.orders, minValidNonce |-> d.minValidNonce, positions |-> d.positions,
              active |-> d.active, fills |-> d.fills ]
    BY DEF Tables
  <2> HIDE DEF orders, positions
  <2>2. e.orders = orders
    BY <1>1, <2>1 DEF applyFillSettled, orders
  <2>3. e.positions = positions
    BY <1>1, <2>1 DEF applyFillSettled, positions
  <2>4. e.fills = d.fills \ {f} /\ e.active = d.active /\ e.minValidNonce = d.minValidNonce
    BY <1>1, <2>1 DEF applyFillSettled
  <2>5. e = [ orders |-> e.orders, minValidNonce |-> e.minValidNonce, positions |-> e.positions,
              active |-> e.active, fills |-> e.fills ]
    BY <1>1, <2>1 DEF applyFillSettled
  <2> QED
    BY <2>2, <2>3, <2>4, <2>5
<1> HIDE DEF orders, positions, D
<1>10. Tables(e, time)
  BY <1>3, <1>4, <1>6, <1>7, <1>8, <1>9, <1>11 DEF Tables
<1> QED
  BY <1>1, <1>10

\* Other columns.
LEMMA ColumnsChange ==
  ASSUME NEW d, NEW time, Tables(d, time), NEW owner \in Owners, NEW nonce \in Int, NEW market,
         NEW S, S \subseteq Fill, IsFiniteSet(S)
  PROVE  /\ Tables([d EXCEPT !.minValidNonce[owner] = max(@, nonce)], time)
         /\ Tables([d EXCEPT !.active[market] = FALSE], time)
         /\ Tables([d EXCEPT !.fills = S], time)
<1>1. d = [ orders |-> d.orders, minValidNonce |-> d.minValidNonce, positions |-> d.positions,
            active |-> d.active, fills |-> d.fills ]
  BY DEF Tables
<1>2. Tables([d EXCEPT !.minValidNonce[owner] = max(@, nonce)], time)
  <2>1. PICK v : v = [d.minValidNonce EXCEPT ![owner] = max(@, nonce)]
    OBVIOUS
  <2>2. v \in [Owners -> Int]
    <3>1. d.minValidNonce \in [Owners -> Int]
      BY DEF Tables
    <3>2. max(d.minValidNonce[owner], nonce) \in Int
      BY <3>1 DEF max
    <3> QED
      BY <2>1, <3>1, <3>2
  <2>3. PICK e : e = [d EXCEPT !.minValidNonce[owner] = max(@, nonce)]
    OBVIOUS
  <2>4. e = [ orders |-> d.orders, minValidNonce |-> v, positions |-> d.positions,
              active |-> d.active, fills |-> d.fills ]
    BY <1>1, <2>1, <2>3
  <2>5. /\ e.orders = d.orders /\ e.minValidNonce = v /\ e.positions = d.positions
        /\ e.active = d.active /\ e.fills = d.fills
    BY <2>4
  <2>6. Tables(e, time)
    BY <2>2, <2>4, <2>5 DEF Tables
  <2> QED
    BY <2>3, <2>6
<1>3. Tables([d EXCEPT !.active[market] = FALSE], time)
  <2>1. PICK v : v = [d.active EXCEPT ![market] = FALSE]
    OBVIOUS
  <2>2. v \in [Markets -> BOOLEAN]
    <3>1. d.active \in [Markets -> BOOLEAN]
      BY DEF Tables
    <3> QED
      BY <2>1, <3>1
  <2>3. PICK e : e = [d EXCEPT !.active[market] = FALSE]
    OBVIOUS
  <2>4. e = [ orders |-> d.orders, minValidNonce |-> d.minValidNonce, positions |-> d.positions,
              active |-> v, fills |-> d.fills ]
    BY <1>1, <2>1, <2>3
  <2>5. /\ e.orders = d.orders /\ e.minValidNonce = d.minValidNonce /\ e.positions = d.positions
        /\ e.active = v /\ e.fills = d.fills
    BY <2>4
  <2>6. Tables(e, time)
    BY <2>2, <2>4, <2>5 DEF Tables
  <2> QED
    BY <2>3, <2>6
<1>4. Tables([d EXCEPT !.fills = S], time)
  <2>3. PICK e : e = [d EXCEPT !.fills = S]
    OBVIOUS
  <2>4. e = [ orders |-> d.orders, minValidNonce |-> d.minValidNonce, positions |-> d.positions,
              active |-> d.active, fills |-> S ]
    BY <1>1, <2>3
  <2>5. /\ e.orders = d.orders /\ e.minValidNonce = d.minValidNonce /\ e.positions = d.positions
        /\ e.active = d.active /\ e.fills = S
    BY <2>4
  <2>6. Tables(e, time)
    BY <2>4, <2>5 DEF Tables
  <2> QED
    BY <2>3, <2>6
<1> QED
  BY <1>2, <1>3, <1>4

\* Time passes.
LEMMA TablesLater ==
  ASSUME NEW d, NEW time \in Nat, Tables(d, time)
  PROVE  Tables(d, time + 1)
<1>1. \A o : Stored(o, time) => Stored(o, time + 1)
  <2>1. ASSUME NEW o, Stored(o, time) PROVE Stored(o, time + 1)
    <3>1. o.expiry \in Int /\ MAX_ORDER_TTL \in Int
      BY <2>1, MarketsAssumption DEF Stored, Row
    <3> QED
      BY <2>1, <3>1 DEF Stored
  <2> QED
    BY <2>1
<1> QED
  BY <1>1 DEF Tables

\* What is indexed.
LEMMA IndexedKeeps ==
  ASSUME NEW d, NEW time, Tables(d, time), NEW owner \in Owners, NEW nonce \in Int
  PROVE  Tables(applyNoncesCancelledUpTo(d, owner, nonce), time)
<1>1. PICK r : r = [d EXCEPT !.minValidNonce[owner] = max(@, nonce)]
  OBVIOUS
<1>2. Tables(r, time)
  <2>1. {} \subseteq Fill /\ IsFiniteSet({})
    BY FS_EmptySet
  <2> QED
    BY <1>1, <2>1, ColumnsChange
<1>3. \A rows : Tables(cancelRows(r, rows), time)
  BY <1>2, CancelKeeps
<1> QED
  BY <1>1, <1>3 DEF applyNoncesCancelledUpTo

-----------------------------------------------------------------------------
(* The book.                                                               *)

\* The image of a finite set.
LEMMA ImageFinite ==
  ASSUME NEW S, IsFiniteSet(S), NEW f, DOMAIN f = S, f = [x \in S |-> f[x]]
  PROVE  IsFiniteSet({f[x] : x \in S})
<1> DEFINE T == {f[x] : x \in S}
<1>1. f \in Surjection(S, T)
  BY DEF Surjection
<1> QED
  BY <1>1, FS_Surjection

\* The fills that hold an order.
Holding(d, h) == {f \in d.fills : h \in {f.maker, f.taker}}

\* The recursion of reserved.
HoldsUpto(g, S) ==
  g = [s \in SUBSET S |-> IF s = {} THEN 0 ELSE first(s).size + g[s \ {first(s)}]]

\* reserved is the last value of a walk over the fills that hold the order.
LEMMA ReservedUnfolds ==
  ASSUME NEW d, NEW h, NEW S, S = Holding(d, h)
  PROVE  reserved(d, h) = (CHOOSE g : HoldsUpto(g, S))[S]
  BY Zenon DEF reserved, Holding, MapThenSumSet, MapThenFoldSet, HoldsUpto, first

\* It is the sum of the sizes.
LEMMA ReservedIs ==
  ASSUME NEW d, NEW time, Tables(d, time), NEW h
  PROVE  reserved(d, h) \in Nat
<1> DEFINE S == Holding(d, h)
           e == [f \in S |-> f.size]
           g == CHOOSE g : HoldsUpto(g, S)
           k == CHOOSE k : IsSum(k, e, S)
<1>0. S \subseteq Fill /\ IsFiniteSet(S)
  BY FS_Subset DEF Tables, Holding
<1>1. \A s \in SUBSET S : s # {} => e[first(s)] = first(s).size
  BY FirstIn
<1>2. IsSum(k, e, S)
  BY <1>0, SumExists
<1>3. HoldsUpto(k, S)
  <2> HIDE DEF k, e, S
  <2> QED BY <1>1, <1>2 DEF IsSum, HoldsUpto
<1>4. HoldsUpto(g, S)
  <2> HIDE DEF k, S
  <2> QED BY <1>3
<1>5. IsSum(g, e, S)
  <2> HIDE DEF g, e, S
  <2> QED BY <1>1, <1>4 DEF IsSum, HoldsUpto
<1>6. g[S] = k[S]
  <2>1. S \in SUBSET S
    OBVIOUS
  <2> HIDE DEF g, k, e, S
  <2> QED BY <1>0, <1>2, <1>5, <2>1, SumUnique
<1>7. \A f \in S : e[f] \in Nat
  BY <1>0 DEF Fill
<1>8. SumFunctionOnSet(e, S) \in Nat
  <2> HIDE DEF e, S
  <2> QED BY <1>0, <1>7, SumNat
<1>9. SumFunctionOnSet(e, S) = k[S] /\ reserved(d, h) = g[S]
  <2>1. SumFunctionOnSet(e, S) = k[S]
    BY SumUnfolds
  <2>2. reserved(d, h) = g[S]
    BY ReservedUnfolds
  <2> QED BY <2>1, <2>2
<1> QED
  <2> HIDE DEF g, k, e, S
  <2> QED BY <1>6, <1>8, <1>9

\* A row as the matcher sees it, net of what is reserved.
netRow(d, h) == [d.orders[h] EXCEPT !.filledSize = @ + reserved(d, h)]

Live(d, market, time) ==
  {x \in DOMAIN d.orders : /\ d.orders[x].marketId = market
                           /\ d.orders[x].status \in LIVE_STATUSES
                           /\ d.orders[x].expiry > time}

\* What the matcher reads of a row: the row, with what is reserved of it counted as filled.
LEMMA NetRowIs ==
  ASSUME NEW d, NEW time, Tables(d, time), NEW h \in DOMAIN d.orders
  PROVE  /\ netRow(d, h) \in Row /\ netRow(d, h).hash = h
         /\ netRow(d, h).filledSize = d.orders[h].filledSize + reserved(d, h)
         /\ netRow(d, h).owner = d.orders[h].owner /\ netRow(d, h).marketId = d.orders[h].marketId
         /\ netRow(d, h).isLong = d.orders[h].isLong /\ netRow(d, h).size = d.orders[h].size
         /\ netRow(d, h).limitPrice = d.orders[h].limitPrice
         /\ netRow(d, h).nonce = d.orders[h].nonce /\ netRow(d, h).expiry = d.orders[h].expiry
         /\ netRow(d, h).status = d.orders[h].status
<1>1. PICK o \in Row : o = d.orders[h] /\ o.hash = h
  BY DEF Tables
<1>2. PICK r \in Nat : r = reserved(d, h)
  BY ReservedIs
<1>3. o.filledSize + r \in Nat
  BY DEF Row
<1>4. PICK p : p = [o EXCEPT !.filledSize = @ + r]
  OBVIOUS
<1>5. /\ p \in Row /\ p.hash = o.hash /\ p.filledSize = o.filledSize + r /\ p.owner = o.owner
      /\ p.marketId = o.marketId /\ p.isLong = o.isLong /\ p.size = o.size
      /\ p.limitPrice = o.limitPrice /\ p.nonce = o.nonce /\ p.expiry = o.expiry /\ p.status = o.status
  BY <1>3, <1>4 DEF Row
<1>6. netRow(d, h) = p
  BY <1>1, <1>2, <1>4 DEF netRow
<1> QED
  BY <1>1, <1>2, <1>5, <1>6

\* The orders the matcher loads.
LEMMA LoadedIs ==
  ASSUME NEW d, NEW time, Tables(d, time), NEW market
  PROVE  /\ loadOrders(d, market, time) = {netRow(d, h) : h \in Live(d, market, time)}
         /\ loadOrders(d, market, time) \subseteq Row
         /\ IsFiniteSet(loadOrders(d, market, time)) /\ HashOnce(loadOrders(d, market, time))
<1> DEFINE S == Live(d, market, time)
           f == [h \in S |-> netRow(d, h)]
           T == {f[h] : h \in S}
<1>1. loadOrders(d, market, time) = {netRow(d, h) : h \in S}
  BY DEF loadOrders, Live, netRow
<1>2. {netRow(d, h) : h \in S} = T
  OBVIOUS
<1>3. IsFiniteSet(S) /\ S \subseteq DOMAIN d.orders
  BY FS_Subset DEF Live, Tables
<1>4. IsFiniteSet(T)
  <2>1. DOMAIN f = S /\ f = [x \in S |-> f[x]]
    OBVIOUS
  <2> HIDE DEF f, S
  <2> QED
    BY <1>3, <2>1, ImageFinite
<1>5. \A h \in S : netRow(d, h) \in Row /\ netRow(d, h).hash = h
  BY <1>3, NetRowIs
<1>6. T \subseteq Row /\ HashOnce(T)
  BY <1>2, <1>5 DEF HashOnce
<1> QED
  BY <1>1, <1>2, <1>4, <1>6

\* A band around an index.
LEMMA BandIs ==
  ASSUME NEW index \in Nat, NEW bps \in Nat
  PROVE  /\ bandFor(index, bps).low \in Int /\ bandFor(index, bps).high \in Int
         /\ mulDiv(index, bps, BPS_DENOMINATOR) \in Nat
         /\ bandFor(index, bps).low = index - mulDiv(index, bps, BPS_DENOMINATOR)
         /\ bandFor(index, bps).high = index + mulDiv(index, bps, BPS_DENOMINATOR)
<1>1. BPS_DENOMINATOR \in Nat \ {0}
  BY DEF BPS_DENOMINATOR
<1>2. mulDiv(index, bps, BPS_DENOMINATOR) \in Nat
  BY <1>1, MulDivMonotone
<1> QED
  BY <1>2 DEF bandFor

\* What the matcher loads is a book.
LEMMA BookOfIs ==
  ASSUME Typed, NEW m \in Markets
  PROVE  Book(bookOf(m))
<1>1. Tables(db, now) /\ chain \in Storage
  BY DEF Typed
<1>2. PICK index \in Nat : index = chain.index[m]
  BY <1>1 DEF Storage
<1>3. PICK band : band = bandFor(index, MAX_EXECUTION_DEVIATION_BPS)
  OBVIOUS
<1>4. band.low \in Int /\ band.high \in Int
  BY <1>3, BandIs, MarketsAssumption
<1>5. PICK S : S = loadOrders(db, m, now)
  OBVIOUS
<1>6. S \subseteq Row /\ IsFiniteSet(S) /\ HashOnce(S)
  BY <1>1, <1>5, LoadedIs
<1>7. PICK p : p = [u \in DOMAIN db.positions |-> db.positions[u][m]]
  OBVIOUS
<1>8. p \in [Owners -> Int]
  BY <1>1, <1>7 DEF Tables
<1>9. minFillNotional[m] \in Nat
  BY MarketsAssumption
<1>10. PICK in : in = bookOf(m)
  OBVIOUS
<1>11. in.orders = S /\ in.positions = p /\ in.band = band /\ in.minFillNotional = minFillNotional[m]
  BY <1>2, <1>3, <1>5, <1>7, <1>10 DEF bookOf, loadBook
<1>12. Book(in)
  BY <1>4, <1>6, <1>8, <1>9, <1>11 DEF Book
<1> QED
  BY <1>10, <1>12

\* Nothing crossed is left in any reachable book.
LEMMA TypedUncrossed ==
  ASSUME Typed
  PROVE  NothingLeftCrossed
<1>1. ASSUME NEW m \in Markets, NEW b, NEW a, b \in {o \in bookOf(m).orders : eligible(bookOf(m), o)},
             a \in {o \in bookOf(m).orders : eligible(bookOf(m), o)}, b.isLong, ~a.isLong
      PROVE  ~trades(bookOf(m), matchOrders(bookOf(m)).ledger, b, a)
  <2>1. PICK in : in = bookOf(m) /\ Book(in)
    BY BookOfIs
  <2>2. b \in Bids(in) /\ a \in Asks(in)
    BY <1>1, <2>1 DEF Bids, Asks
  <2>3. ~trades(in, matchOrders(in).ledger, b, a)
    BY <2>1, <2>2, BookIsUncrossed
  <2> QED
    BY <2>1, <2>3
<1> QED
  BY <1>1 DEF NothingLeftCrossed

\* The row of a hash.
LEMMA RowOfHash ==
  ASSUME NEW in, HashOnce(in.orders), NEW o \in in.orders
  PROVE  (CHOOSE x \in in.orders : x.hash = o.hash) = o
<1>1. PICK c : c = CHOOSE x \in in.orders : x.hash = o.hash
  OBVIOUS
<1>2. c \in in.orders /\ c.hash = o.hash
  BY <1>1
<1> QED
  BY <1>1, <1>2 DEF HashOnce

\* Priority, of the book as it is loaded.
LEMMA TypedPriority ==
  ASSUME Typed
  PROVE  PriorityKept
<1> SUFFICES ASSUME NEW m \in Markets, NEW in \in {bookOf(m)}, NEW run \in {matchOrders(in)},
                    NEW k \in 1..Len(run.matches), NEW o \in {x \in in.orders : eligible(in, x)}
             PROVE  LET row(h) == CHOOSE x \in in.orders : x.hash = h
                        f    == run.matches[k]
                        mine == IF row(f.maker).isLong = o.isLong THEN row(f.maker) ELSE row(f.taker)
                        his  == IF row(f.maker).isLong = o.isLong THEN row(f.taker) ELSE row(f.maker)
                        p    == makerOf(o, his).limitPrice
                    IN  ~ /\ o.owner # his.owner
                          /\ o.limitPrice # mine.limitPrice \/ compareArrival(o, mine)
                          /\ IF o.isLong THEN o.limitPrice >= mine.limitPrice
                                         ELSE o.limitPrice <= mine.limitPrice
                          /\ fillable(in, run.ledger, o) >= f.size
                          /\ withinBand(p, in.band) /\ notionalOf(f.size, p) >= in.minFillNotional
  BY Zenon DEF PriorityKept
<1>1. Book(in)
  BY BookOfIs
<1>2. run = matchOrders(in)
  OBVIOUS
<1>3. PICK f : f = run.matches[k]
  OBVIOUS
<1>4. PICK b \in Bids(in), a \in Asks(in) :
        /\ f.maker = makerOf(b, a).hash /\ f.taker = takerOf(b, a).hash
        /\ \A c \in Bids(in) :
             ~ /\ compare(c, b, FALSE) /\ c.limitPrice >= b.limitPrice /\ c.owner # a.owner
               /\ fillable(in, run.ledger, c) >= f.size
               /\ withinBand(makerOf(c, a).limitPrice, in.band)
               /\ notionalOf(f.size, makerOf(c, a).limitPrice) >= in.minFillNotional
        /\ \A c \in Asks(in) :
             ~ /\ compare(c, a, TRUE) /\ c.limitPrice <= a.limitPrice /\ c.owner # b.owner
               /\ fillable(in, run.ledger, c) >= f.size
               /\ withinBand(makerOf(b, c).limitPrice, in.band)
               /\ notionalOf(f.size, makerOf(b, c).limitPrice) >= in.minFillNotional
  <2>1. k \in 1..Len(matchOrders(in).matches)
    BY <1>1
  <2> QED
    BY <1>1, <1>2, <1>3, <2>1, PriorityOfBook
<1>5. b \in in.orders /\ a \in in.orders /\ b.isLong = TRUE /\ a.isLong = FALSE /\ o \in in.orders
      /\ o.isLong \in BOOLEAN
  BY <1>1 DEF Bids, Asks, Book, Row
<1> DEFINE row(h) == CHOOSE x \in in.orders : x.hash = h
           mine == IF row(f.maker).isLong = o.isLong THEN row(f.maker) ELSE row(f.taker)
           his  == IF row(f.maker).isLong = o.isLong THEN row(f.taker) ELSE row(f.maker)
<1>6. row(f.maker) = makerOf(b, a) /\ row(f.taker) = takerOf(b, a)
  <2>1. PICK x \in in.orders : x = makerOf(b, a)
    BY <1>5 DEF makerOf
  <2>2. PICK y \in in.orders : y = takerOf(b, a)
    BY <1>5 DEF takerOf
  <2>3. HashOnce(in.orders)
    BY <1>1 DEF Book
  <2>4. row(x.hash) = x /\ row(y.hash) = y
    BY <2>3, RowOfHash
  <2> QED
    BY <1>4, <2>1, <2>2, <2>4
<1> HIDE DEF row
<1>7. \/ makerOf(b, a) = b /\ takerOf(b, a) = a
      \/ makerOf(b, a) = a /\ takerOf(b, a) = b
  BY DEF makerOf, takerOf
<1>8. /\ o.isLong => mine = b /\ his = a
      /\ ~o.isLong => mine = a /\ his = b
  BY <1>5, <1>6, <1>7
<1>9. ~ /\ o.owner # his.owner
        /\ o.limitPrice # mine.limitPrice \/ compareArrival(o, mine)
        /\ IF o.isLong THEN o.limitPrice >= mine.limitPrice ELSE o.limitPrice <= mine.limitPrice
        /\ fillable(in, run.ledger, o) >= f.size
        /\ withinBand(makerOf(o, his).limitPrice, in.band)
        /\ notionalOf(f.size, makerOf(o, his).limitPrice) >= in.minFillNotional
  <2>0. /\ o.limitPrice \in Int /\ b.limitPrice \in Int /\ a.limitPrice \in Int
        /\ o.hash \in Int /\ b.hash \in Int /\ a.hash \in Int
        /\ o.createdAt \in Int /\ b.createdAt \in Int /\ a.createdAt \in Int
    <3>1. o \in Row /\ b \in Row /\ a \in Row
      BY <1>1, <1>5 DEF Book
    <3> QED
      BY <3>1 DEF Row
  <2>1. CASE o.isLong
    <3>1. mine = b /\ his = a /\ o \in Bids(in)
      BY <1>1, <1>8, <2>1 DEF Bids
    <3>2. o.limitPrice >= b.limitPrice /\ (o.limitPrice # b.limitPrice \/ compareArrival(o, b))
            => compare(o, b, FALSE)
      BY <2>0 DEF compare
    <3> HIDE DEF mine, his
    <3> QED
      BY <1>4, <2>1, <3>1, <3>2
  <2>2. CASE ~o.isLong
    <3>1. mine = a /\ his = b /\ o \in Asks(in)
      BY <1>1, <1>8, <2>2 DEF Asks
    <3>2. o.limitPrice <= a.limitPrice /\ (o.limitPrice # a.limitPrice \/ compareArrival(o, a))
            => compare(o, a, TRUE)
      <4>1. o.limitPrice # a.limitPrice /\ o.limitPrice <= a.limitPrice => (o.limitPrice < a.limitPrice) = TRUE
        BY <2>0
      <4> QED
        BY <4>1 DEF compare
    <3>3. makerOf(o, b) = makerOf(b, o)
      <4>1. o.hash # b.hash
        BY <1>1, <1>5, <2>2 DEF Book, HashOnce
      <4>2. compareArrival(o, b) <=> ~compareArrival(b, o)
        BY <2>0, <4>1 DEF compareArrival
      <4> QED
        BY <4>2 DEF makerOf
    <3> HIDE DEF mine, his
    <3> QED
      BY <1>4, <2>2, <3>1, <3>2, <3>3
  <2> QED
    BY <2>1, <2>2
<1> QED
  BY <1>3, <1>9 DEF row

-----------------------------------------------------------------------------
(* The public book.                                                        *)

\* A sum over what a set is mapped to, one to one.
LEMMA SumImage ==
  ASSUME NEW S, IsFiniteSet(S), NEW f, NEW e, NEW e2,
         \A x, y \in S : f[x] = f[y] => x = y,
         \A x \in S : e[x] \in Int /\ e2[f[x]] = e[x]
  PROVE  SumFunctionOnSet(e, S) = SumFunctionOnSet(e2, {f[x] : x \in S})
<1> DEFINE image(U) == {f[x] : x \in U}
           Good == {U \in SUBSET S : SumFunctionOnSet(e, U) = SumFunctionOnSet(e2, image(U))}
<1>1. {} \in Good
  <2>1. image({}) = {}
    OBVIOUS
  <2> HIDE DEF image
  <2> QED
    BY <2>1, SumEmpty
<1>2. ASSUME NEW U \in SUBSET S, U # {}, \A x \in U : U \ {x} \in Good
      PROVE  U \in Good
  <2>1. PICK x \in U : TRUE
    BY <1>2
  <2>2. IsFiniteSet(U)
    BY FS_Subset
  <2>3. SumFunctionOnSet(e, U) = e[x] + SumFunctionOnSet(e, U \ {x})
    <3>1. \A y \in U : e[y] \in Int
      OBVIOUS
    <3> QED
      BY <2>2, <3>1, SumRemove
  <2>4. image(U) \ {f[x]} = image(U \ {x}) /\ f[x] \in image(U)
    OBVIOUS
  <2>5. \A z \in image(U) : e2[z] \in Int
    OBVIOUS
  <2>6. IsFiniteSet(image(U))
    <3> DEFINE g == [y \in U |-> f[y]]
    <3>1. DOMAIN g = U /\ g = [y \in U |-> g[y]] /\ {g[y] : y \in U} = image(U)
      OBVIOUS
    <3> HIDE DEF g, image
    <3> QED
      BY <2>2, <3>1, ImageFinite
  <2> HIDE DEF image
  <2>7. SumFunctionOnSet(e2, image(U)) = e2[f[x]] + SumFunctionOnSet(e2, image(U) \ {f[x]})
    BY <2>4, <2>5, <2>6, SumRemove
  <2>8. SumFunctionOnSet(e, U \ {x}) = SumFunctionOnSet(e2, image(U \ {x}))
    BY <1>2, <2>1
  <2>9. e2[f[x]] = e[x]
    OBVIOUS
  <2> QED
    BY <2>3, <2>4, <2>7, <2>8, <2>9
<1>3. S \in Good
  <2> HIDE DEF Good
  <2> QED
    BY <1>1, <1>2, SubsetInduction
<1> QED
  BY <1>3

\* The rows shown at a price.
Shown(d, market, isLong, price, time) ==
  {h \in DOMAIN d.orders : /\ d.orders[h].marketId = market
                           /\ d.orders[h].isLong = isLong
                           /\ d.orders[h].limitPrice = price
                           /\ working(d, h, time)}

ShowsUpto(g, d, S) ==
  g = [s \in SUBSET S |-> IF s = {} THEN 0 ELSE remainingSize(d, first(s)) + g[s \ {first(s)}]]

\* shownAt is the last value of a walk over the rows shown at the price.
LEMMA ShownUnfolds ==
  ASSUME NEW d, NEW market, NEW isLong, NEW price, NEW time,
         NEW S, S = Shown(d, market, isLong, price, time)
  PROVE  shownAt(d, market, isLong, price, time) = (CHOOSE g : ShowsUpto(g, d, S))[S]
  BY Zenon DEF shownAt, Shown, MapThenSumSet, MapThenFoldSet, ShowsUpto, first

\* The size shown is a sum over the rows,
LEMMA ShownIs ==
  ASSUME NEW d, NEW market, NEW isLong, NEW price, NEW time,
         NEW S, S = Shown(d, market, isLong, price, time), IsFiniteSet(S)
  PROVE  shownAt(d, market, isLong, price, time)
           = SumFunctionOnSet([h \in S |-> remainingSize(d, h)], S)
<1> DEFINE e == [h \in S |-> remainingSize(d, h)]
           g == CHOOSE g : ShowsUpto(g, d, S)
           k == CHOOSE k : IsSum(k, e, S)
<1>1. \A s \in SUBSET S : s # {} => e[first(s)] = remainingSize(d, first(s))
  BY FirstIn
<1>2. IsSum(k, e, S)
  BY SumExists
<1>3. ShowsUpto(k, d, S)
  <2> HIDE DEF k, e
  <2> QED BY <1>1, <1>2 DEF IsSum, ShowsUpto
<1>4. ShowsUpto(g, d, S)
  <2> HIDE DEF k
  <2> QED BY <1>3
<1>5. IsSum(g, e, S)
  <2> HIDE DEF g, e
  <2> QED BY <1>1, <1>4 DEF IsSum, ShowsUpto
<1>6. g[S] = k[S]
  <2>1. S \in SUBSET S
    OBVIOUS
  <2> HIDE DEF g, k, e
  <2> QED BY <1>2, <1>5, <2>1, SumUnique
<1>7. SumFunctionOnSet(e, S) = k[S]
  BY SumUnfolds
<1>8. shownAt(d, market, isLong, price, time) = g[S]
  BY ShownUnfolds
<1> QED
  <2> HIDE DEF g, k, e
  <2>1. shownAt(d, market, isLong, price, time) = SumFunctionOnSet(e, S)
    BY <1>6, <1>7, <1>8
  <2> QED BY <2>1 DEF e

OpenUpto(g, S) ==
  g = [s \in SUBSET S |-> IF s = {} THEN 0
                          ELSE (first(s).size - first(s).filledSize) + g[s \ {first(s)}]]

\* The open size of a set of orders is the last value of a walk over them.
LEMMA OpenUnfolds ==
  ASSUME NEW S
  PROVE  MapThenSumSet(LAMBDA o : o.size - o.filledSize, S) = (CHOOSE g : OpenUpto(g, S))[S]
  BY Zenon DEF MapThenSumSet, MapThenFoldSet, OpenUpto, first

\* and so is what the engine has there.
LEMMA OpenIs ==
  ASSUME NEW S, IsFiniteSet(S)
  PROVE  MapThenSumSet(LAMBDA o : o.size - o.filledSize, S)
           = SumFunctionOnSet([o \in S |-> o.size - o.filledSize], S)
<1> DEFINE e == [o \in S |-> o.size - o.filledSize]
           g == CHOOSE g : OpenUpto(g, S)
           k == CHOOSE k : IsSum(k, e, S)
<1>1. \A s \in SUBSET S : s # {} => e[first(s)] = first(s).size - first(s).filledSize
  BY FirstIn
<1>2. IsSum(k, e, S)
  BY SumExists
<1>3. OpenUpto(k, S)
  <2> HIDE DEF k, e
  <2> QED BY <1>1, <1>2 DEF IsSum, OpenUpto
<1>4. OpenUpto(g, S)
  <2> HIDE DEF k
  <2> QED BY <1>3
<1>5. IsSum(g, e, S)
  <2> HIDE DEF g, e
  <2> QED BY <1>1, <1>4 DEF IsSum, OpenUpto
<1>6. g[S] = k[S]
  <2>1. S \in SUBSET S
    OBVIOUS
  <2> HIDE DEF g, k, e
  <2> QED BY <1>2, <1>5, <2>1, SumUnique
<1>7. SumFunctionOnSet(e, S) = k[S]
  BY SumUnfolds
<1>8. MapThenSumSet(LAMBDA o : o.size - o.filledSize, S) = g[S]
  BY OpenUnfolds
<1> QED
  <2> HIDE DEF g, k, e
  <2>1. MapThenSumSet(LAMBDA o : o.size - o.filledSize, S) = SumFunctionOnSet(e, S)
    BY <1>6, <1>7, <1>8
  <2> QED BY <2>1 DEF e

\* A row is shown exactly when the engine may trade it, its side and position apart.
LEMMA ShownTrades ==
  ASSUME Typed, NEW m \in Markets, NEW h \in DOMAIN db.orders, NEW side, NEW price
  PROVE  /\ h \in Shown(db, m, side, price, now)
              <=> /\ netRow(db, h) \in bookOf(m).orders
                  /\ eligible(bookOf(m), [netRow(db, h) EXCEPT !.reduceOnly = FALSE])
                  /\ netRow(db, h).isLong = side /\ netRow(db, h).limitPrice = price
         /\ h \in Shown(db, m, side, price, now)
              => remainingSize(db, h) = netRow(db, h).size - netRow(db, h).filledSize
<1>1. Tables(db, now) /\ now \in Nat
  BY DEF Typed
<1>2. PICK o \in Row : o = db.orders[h] /\ o.expiry <= now + MAX_ORDER_TTL
  BY <1>1 DEF Tables, Stored
<1>3. PICK r \in Nat : r = reserved(db, h)
  BY <1>1, ReservedIs
<1>4. PICK n \in Row : /\ n = netRow(db, h) /\ n.filledSize = o.filledSize + r /\ n.owner = o.owner
                       /\ n.marketId = o.marketId /\ n.isLong = o.isLong /\ n.size = o.size
                       /\ n.limitPrice = o.limitPrice /\ n.nonce = o.nonce /\ n.expiry = o.expiry
                       /\ n.hash = h
  BY <1>1, <1>2, <1>3, NetRowIs
<1>5. PICK in : in = bookOf(m)
  OBVIOUS
<1>6. /\ in.marketId = m /\ in.nowSec = now /\ in.minValidNonce = db.minValidNonce
      /\ in.orders = {netRow(db, x) : x \in Live(db, m, now)}
  BY <1>1, <1>5, LoadedIs DEF bookOf, loadBook
<1>7. n \in in.orders <=> h \in Live(db, m, now)
  <2>1. ASSUME NEW x \in Live(db, m, now), n = netRow(db, x) PROVE x = h
    <3>1. x \in DOMAIN db.orders
      BY DEF Live
    <3>2. netRow(db, x).hash = x
      BY <1>1, <3>1, NetRowIs
    <3> QED
      BY <1>4, <2>1, <3>2
  <2> QED
    BY <1>4, <1>6, <2>1
<1>8. o.size \in Nat /\ o.filledSize \in Nat /\ o.expiry \in Int /\ MAX_ORDER_TTL \in Int
  BY MarketsAssumption DEF Row
<1>9. remainingSize(db, h) = max(0, o.size - o.filledSize - r)
  BY <1>2, <1>3 DEF remainingSize
<1>10. remainingSize(db, h) > 0 <=> n.size > n.filledSize
  BY <1>4, <1>8, <1>9 DEF max
<1>11. remainingSize(db, h) > 0 => remainingSize(db, h) = n.size - n.filledSize
  BY <1>4, <1>8, <1>9 DEF max
<1>12. PICK q : q = [n EXCEPT !.reduceOnly = FALSE]
  OBVIOUS
<1>13. /\ q.reduceOnly = FALSE /\ q.marketId = n.marketId /\ q.expiry = n.expiry
       /\ q.nonce = n.nonce /\ q.owner = n.owner /\ q.size = n.size /\ q.filledSize = n.filledSize
  BY <1>12 DEF Row
<1>14. eligible(in, q) <=> /\ o.marketId = m /\ now < o.expiry
                           /\ o.nonce >= db.minValidNonce[o.owner] /\ n.size > n.filledSize
  BY <1>2, <1>4, <1>6, <1>13 DEF eligible
<1>15. h \in Live(db, m, now) <=> o.marketId = m /\ o.status \in LIVE_STATUSES /\ o.expiry > now
  BY <1>2 DEF Live
<1>16. h \in Shown(db, m, side, price, now)
         <=> /\ o.status \in LIVE_STATUSES /\ o.expiry > now /\ o.nonce >= db.minValidNonce[o.owner]
             /\ remainingSize(db, h) > 0 /\ o.marketId = m /\ o.isLong = side /\ o.limitPrice = price
  BY <1>2 DEF Shown, working
<1>17. now < o.expiry <=> o.expiry > now
  BY <1>1, <1>8
<1> QED
  BY <1>4, <1>5, <1>7, <1>10, <1>11, <1>12, <1>14, <1>15, <1>16, <1>17

\* So the public book is the matcher's.
LEMMA TypedPublic ==
  ASSUME Typed
  PROVE  WorkingIsEligible
<1> SUFFICES ASSUME NEW m \in Markets, NEW in \in {bookOf(m)},
             NEW traded \in {{o \in in.orders : eligible(in, [o EXCEPT !.reduceOnly = FALSE])}},
             NEW side \in BOOLEAN, NEW p \in {o.limitPrice : o \in Range(db.orders)}
      PROVE  shownAt(db, m, side, p, now)
               = MapThenSumSet(LAMBDA o : o.size - o.filledSize,
                               {o \in traded : o.isLong = side /\ o.limitPrice = p})
  BY Zenon DEF WorkingIsEligible
<1> DEFINE S == Shown(db, m, side, p, now)
           T == {o \in traded : o.isLong = side /\ o.limitPrice = p}
           f == [h \in S |-> netRow(db, h)]
           e == [h \in S |-> remainingSize(db, h)]
           e2 == [o \in T |-> o.size - o.filledSize]
<1>1. Tables(db, now)
  BY DEF Typed
<1>2. IsFiniteSet(S) /\ S \subseteq DOMAIN db.orders
  BY <1>1, FS_Subset DEF Shown, Tables
<1>3. in.orders = {netRow(db, x) : x \in Live(db, m, now)} /\ IsFiniteSet(in.orders)
      /\ in.orders \subseteq Row
  BY <1>1, LoadedIs DEF bookOf, loadBook
<1>4. IsFiniteSet(T) /\ T \subseteq Row
  BY <1>3, FS_Subset
<1>5. T = {f[h] : h \in S}
  <2>1. ASSUME NEW h \in S PROVE netRow(db, h) \in T
    <3>1. h \in DOMAIN db.orders
      BY <1>2
    <3>2. /\ netRow(db, h) \in bookOf(m).orders
          /\ eligible(bookOf(m), [netRow(db, h) EXCEPT !.reduceOnly = FALSE])
          /\ netRow(db, h).isLong = side /\ netRow(db, h).limitPrice = p
      BY <3>1, ShownTrades
    <3> QED
      BY <3>2
  <2>2. ASSUME NEW o \in T PROVE \E h \in S : o = netRow(db, h)
    <3>1. PICK h \in Live(db, m, now) : o = netRow(db, h)
      BY <1>3
    <3>2. h \in DOMAIN db.orders
      BY DEF Live
    <3>4. /\ netRow(db, h) \in bookOf(m).orders
          /\ eligible(bookOf(m), [netRow(db, h) EXCEPT !.reduceOnly = FALSE])
          /\ netRow(db, h).isLong = side /\ netRow(db, h).limitPrice = p
      BY <3>1
    <3>3. h \in S
      BY <3>2, <3>4, ShownTrades
    <3> QED
      BY <3>1, <3>3
  <2> HIDE DEF S, T
  <2> QED
    BY <2>1, <2>2
<1>6. \A x, y \in S : f[x] = f[y] => x = y
  <2>1. \A x \in S : f[x] = netRow(db, x) /\ netRow(db, x).hash = x
    BY <1>1, <1>2, NetRowIs
  <2> HIDE DEF f, S
  <2> QED
    BY <2>1
<1>7. ASSUME NEW x \in S PROVE e[x] \in Int /\ e2[f[x]] = e[x]
  <2>1. x \in DOMAIN db.orders
    BY <1>2
  <2>2. remainingSize(db, x) = netRow(db, x).size - netRow(db, x).filledSize
    BY <2>1, ShownTrades
  <2>3. f[x] \in T /\ f[x] = netRow(db, x) /\ e[x] = remainingSize(db, x)
    BY <1>5
  <2>4. e2[f[x]] = f[x].size - f[x].filledSize
    <3> HIDE DEF T, f
    <3> QED
      BY <2>3
  <2>5. f[x].size \in Int /\ f[x].filledSize \in Int
    BY <1>4, <2>3 DEF Row
  <2> HIDE DEF e, e2, f, T, S
  <2> QED
    BY <2>2, <2>3, <2>4, <2>5
<1>8. SumFunctionOnSet(e, S) = SumFunctionOnSet(e2, T)
  <2> HIDE DEF e, e2, f, T, S
  <2> QED
    BY <1>2, <1>5, <1>6, <1>7, SumImage
<1>9. shownAt(db, m, side, p, now) = SumFunctionOnSet(e, S)
  BY <1>2, ShownIs
<1>10. MapThenSumSet(LAMBDA o : o.size - o.filledSize, T) = SumFunctionOnSet(e2, T)
  BY <1>4, OpenIs
<1> QED
  BY <1>8, <1>9, <1>10

-----------------------------------------------------------------------------
(* The unwinder's plan.                                                    *)

\* A share of a number.
LEMMA ShareIs ==
  ASSUME NEW index \in Nat, NEW bps \in 0..BPS_DENOMINATOR
  PROVE  mulDiv(index, bps, BPS_DENOMINATOR) \in 0..index
<1>1. BPS_DENOMINATOR \in Nat \ {0} /\ bps \in Nat
  BY DEF BPS_DENOMINATOR
<1>2. PICK d \in Nat \ {0} : d = BPS_DENOMINATOR /\ bps <= d
  BY <1>1
<1>3. index * bps \in Nat /\ index * d \in Nat /\ index * bps <= index * d
  BY <1>1, <1>2
<1>4. (index * bps) \div d <= (index * d) \div d
  BY <1>3, DivMonotone
<1>5. (index * d) \div d = index
  <2>1. 0 \in 0..(d - 1)
    OBVIOUS
  <2>2. (index * d + 0) \div d = index
    BY <2>1, DivOfRow
  <2> QED
    BY <1>3, <2>2
<1>6. mulDiv(index, bps, d) = (index * bps) \div d
  BY <1>3 DEF mulDiv, TruncDiv
<1>7. (index * bps) \div d \in Nat
  BY <1>3, DivBounds
<1> QED
  BY <1>2, <1>4, <1>5, <1>6, <1>7

\* The price a fill of an unwind order is charged at, at worst.
LEMMA WorstIs ==
  ASSUME NEW isLong \in BOOLEAN, NEW limit \in Nat, NEW index \in Nat, NEW bps \in 0..BPS_DENOMINATOR
  PROVE  /\ worstFillPrice(isLong, limit, index, bps) \in Nat
         /\ worstFillPrice(isLong, limit, index, bps)
              = IF isLong THEN min(limit, index + mulDiv(index, bps, BPS_DENOMINATOR))
                ELSE index + mulDiv(index, bps, BPS_DENOMINATOR)
         /\ index > 0 /\ limit > 0 => worstFillPrice(isLong, limit, index, bps) > 0
         /\ index > 0 /\ ~isLong => worstFillPrice(isLong, limit, index, bps) > 0
<1>1. PICK x \in 0..index : x = mulDiv(index, bps, BPS_DENOMINATOR)
  BY ShareIs
<1>2. unwindBand(index, bps).high = index + x
  BY <1>1 DEF unwindBand, bandFor
<1>3. worstFillPrice(isLong, limit, index, bps) = IF isLong THEN min(limit, index + x) ELSE index + x
  BY <1>2 DEF worstFillPrice
<1>4. index + x \in Nat /\ min(limit, index + x) \in Nat /\ (index > 0 => index + x > 0)
      /\ (index > 0 /\ limit > 0 => min(limit, index + x) > 0)
  BY DEF min
<1> QED
  BY <1>1, <1>3, <1>4

\* The price it is posted at.
LEMMA LimitPriceIs ==
  ASSUME NEW isLong \in BOOLEAN, NEW index \in Nat \ {0}, NEW offset \in Int,
         NEW bps \in 0..BPS_DENOMINATOR
  PROVE  /\ unwindLimitPrice(isLong, index, offset, bps) \in Nat
         /\ isLong => unwindLimitPrice(isLong, index, offset, bps) > 0
<1>1. PICK x \in 0..index : x = mulDiv(index, bps, BPS_DENOMINATOR)
  BY ShareIs
<1>2. unwindBand(index, bps).high = index + x /\ unwindBand(index, bps).low = index - x
  BY <1>1 DEF unwindBand, bandFor
<1>3. PICK d \in Nat \ {0} : d = BPS_DENOMINATOR
  BY DEF BPS_DENOMINATOR
<1>4. PICK off \in 0..bps : off = clamp(offset, 0, bps)
  <2>1. bps \in Nat
    BY DEF BPS_DENOMINATOR
  <2> QED
    BY <2>1 DEF clamp
<1>5. off \in 0..d
  BY <1>3
<1>6. CASE isLong
  <2>1. PICK p : p = mulDiv(index, d + off, d)
    OBVIOUS
  <2>2. index * (d + off) \in Nat /\ index * d \in Nat /\ index * d <= index * (d + off)
    BY <1>5
  <2>3. p = (index * (d + off)) \div d
    BY <2>1, <2>2 DEF mulDiv, TruncDiv
  <2>4. (index * d) \div d = index
    <3>1. 0 \in 0..(d - 1)
      OBVIOUS
    <3>2. (index * d + 0) \div d = index
      BY <3>1, DivOfRow
    <3> QED
      BY <2>2, <3>2
  <2>5. p \in Nat /\ p >= index
    BY <2>2, <2>3, <2>4, DivBounds, DivMonotone
  <2>6. unwindLimitPrice(isLong, index, offset, bps) = clamp(p, index - x, index + x)
    BY <1>2, <1>3, <1>4, <1>6, <2>1 DEF unwindLimitPrice
  <2> QED
    BY <2>5, <2>6 DEF clamp
<1>7. CASE ~isLong
  <2>1. PICK p : p = ceilDiv(index * (d - off), d)
    OBVIOUS
  <2>2. d - off \in Nat
    BY <1>5
  <2>3. index * (d - off) \in Nat
    BY <2>2
  <2>4. PICK a \in Nat : a = index * (d - off) + d - 1
    BY <2>3
  <2>5. p = a \div d
    BY <2>1, <2>4 DEF ceilDiv
  <2>6. p \in Nat
    BY <2>5, DivBounds
  <2>7. unwindLimitPrice(isLong, index, offset, bps) = clamp(p, index - x, index + x)
    BY <1>2, <1>3, <1>4, <1>7, <2>1 DEF unwindLimitPrice
  <2> QED
    BY <1>7, <2>6, <2>7 DEF clamp
<1> QED
  BY <1>6, <1>7

\* A slice costs no more than its cap at the worst price.
LEMMA SliceIs ==
  ASSUME NEW limits \in Limits, NEW index \in Nat \ {0}, NEW m \in Markets, NEW position \in Int,
         NEW cap \in Nat, NEW s, s = sliceOf(limits, index, m, position, cap)
  PROVE  /\ s \in Slice /\ s.marketId = m /\ s.worstNotional <= cap
         /\ s.worstNotional
              = notionalOf(s.size, worstFillPrice(s.isLong, s.limitPrice, index, limits.maxDeviationBps))
<1>1. PICK bps \in 0..BPS_DENOMINATOR : bps = limits.maxDeviationBps
  BY DEF Limits
<1> DEFINE isLong == position < 0
<1>2. isLong \in BOOLEAN
  OBVIOUS
<1> HIDE DEF isLong
<1>3. PICK limit \in Nat : /\ limit = unwindLimitPrice(isLong, index, PRICE_OFFSET_BPS, bps)
                           /\ isLong => limit > 0
  BY <1>2, LimitPriceIs, MarketsAssumption
<1>4. PICK worst \in Nat \ {0} : worst = worstFillPrice(isLong, limit, index, bps)
  <2>1. index \in Nat /\ index > 0
    OBVIOUS
  <2>2. PICK w \in Nat : w = worstFillPrice(isLong, limit, index, bps)
    BY <1>2, <2>1, WorstIs
  <2>3. isLong => w > 0
    BY <1>2, <1>3, <2>1, <2>2, WorstIs
  <2>4. ~isLong => w > 0
    BY <1>2, <2>1, <2>2, WorstIs
  <2> QED
    BY <2>2, <2>3, <2>4
<1>5. mulDiv(cap, PRECISION, worst) \in Nat
  <2>1. PRECISION \in Nat /\ cap <= cap
    BY ScalesPositive
  <2> QED
    BY <2>1, MulDivMonotone
<1>6. PICK size \in Nat : /\ size = min(abs(position), mulDiv(cap, PRECISION, worst))
                          /\ size <= mulDiv(cap, PRECISION, worst)
  <2>1. abs(position) \in Nat
    BY DEF abs
  <2> QED
    BY <1>5, <2>1 DEF min
<1>7. notionalOf(size, worst) \in Nat /\ notionalOf(size, worst) <= cap
  BY <1>6, CapBuys
<1>8. s = [ marketId |-> m, isLong |-> isLong, size |-> size, limitPrice |-> limit,
            index |-> index, worstNotional |-> notionalOf(size, worst) ]
  BY <1>1, <1>3, <1>4, <1>6 DEF sliceOf, isLong
<1> QED
  BY <1>1, <1>2, <1>4, <1>7, <1>8 DEF Slice

\* What a plan reads.
PlanInput(in) ==
  /\ in.limits \in Limits /\ in.positions \in [Markets -> Int] /\ in.index \in [Markets -> Nat]
  /\ in.minFillNotional \in [Markets -> Nat]
  /\ IsFiniteSet(in.open) /\ in.open \subseteq Row
  /\ \A o \in in.open : o.marketId \in Markets /\ o.filledSize <= o.size

Plans == [slices : Seq(Slice), budget : Int]

\* What slices and orders cost at worst.
SliceWorst(in) ==
  [s \in Slice |-> notionalOf(s.size, worstFillPrice(s.isLong, s.limitPrice, in.index[s.marketId],
                                                     in.limits.maxDeviationBps))]

\* The worst notional of a slice is a natural number.
LEMMA SliceWorstNat ==
  ASSUME NEW in, PlanInput(in), NEW s \in Slice
  PROVE  SliceWorst(in)[s] \in Nat
<1>1. /\ s.isLong \in BOOLEAN /\ s.limitPrice \in Nat /\ s.marketId \in Markets /\ s.size \in Nat
      /\ in.limits.maxDeviationBps \in 0..BPS_DENOMINATOR
  BY DEF Slice, PlanInput, Limits
<1>2. PICK index \in Nat : index = in.index[s.marketId]
  BY <1>1 DEF PlanInput
<1>3. PICK w \in Nat : w = worstFillPrice(s.isLong, s.limitPrice, index, in.limits.maxDeviationBps)
  BY <1>1, WorstIs
<1>4. notionalOf(s.size, w) \in Nat
  BY <1>1, NotionalMonotone
<1> QED
  BY <1>2, <1>3, <1>4 DEF SliceWorst

\* A plan with what its slices cost within the budget it started from.
Fits(in, total, plan) ==
  /\ plan \in Plans /\ plan.budget >= -1
  /\ \A s \in Range(plan.slices) : SliceWorst(in)[s] <= in.limits.maxFillNotional
  /\ SumFunctionOnSet(SliceWorst(in), Range(plan.slices)) + Len(plan.slices) + plan.budget <= total
  /\ plan.slices # <<>> => total > 0

\* The elements of a sequence.
LEMMA RangeIs ==
  ASSUME NEW S, NEW q \in Seq(S)
  PROVE  /\ Range(q) \subseteq S /\ IsFiniteSet(Range(q)) /\ Len(q) \in Nat
         /\ \A x \in S : Range(Append(q, x)) = Range(q) \cup {x}
         /\ q # <<>> => Range(Tail(q)) \subseteq Range(q) /\ Head(q) \in S /\ Tail(q) \in Seq(S)
<1>1. DOMAIN q = 1..Len(q) /\ Len(q) \in Nat
  OBVIOUS
<1>2. Range(q) \subseteq S
  BY <1>1 DEF Range
<1>3. IsFiniteSet(Range(q))
  <2>3. IsFiniteSet(1..Len(q))
    BY <1>1, FS_Interval
  <2>1. q = [k \in 1..Len(q) |-> q[k]] /\ IsFiniteSet(1..Len(q))
    BY <2>3
  <2>2. IsFiniteSet({q[k] : k \in 1..Len(q)})
    BY <1>1, <2>1, ImageFinite
  <2> QED
    BY <1>1, <2>2 DEF Range
<1>4. ASSUME NEW x \in S PROVE Range(Append(q, x)) = Range(q) \cup {x}
  <2>1. PICK r : r = Append(q, x)
    OBVIOUS
  <2>2. DOMAIN r = 1..(Len(q) + 1) /\ r[Len(q) + 1] = x /\ \A k \in 1..Len(q) : r[k] = q[k]
    BY <2>1
  <2>3. \A k \in 1..(Len(q) + 1) : k \in 1..Len(q) \/ k = Len(q) + 1
    BY <1>1
  <2>4. Len(q) + 1 \in 1..(Len(q) + 1) /\ \A k \in 1..Len(q) : k \in 1..(Len(q) + 1)
    BY <1>1
  <2>5. Range(r) = {r[k] : k \in 1..(Len(q) + 1)} /\ Range(q) = {q[k] : k \in 1..Len(q)}
    BY <1>1, <2>2 DEF Range
  <2> QED
    BY <2>1, <2>2, <2>3, <2>4, <2>5
<1>5. ASSUME q # <<>> PROVE Range(Tail(q)) \subseteq Range(q) /\ Head(q) \in S /\ Tail(q) \in Seq(S)
  <2>1. Len(q) \in Nat \ {0}
    BY <1>5
  <2>2. PICK r : r = Tail(q)
    OBVIOUS
  <2>3. r \in Seq(S) /\ Len(r) = Len(q) - 1 /\ \A k \in 1..Len(r) : r[k] = q[k + 1]
    BY <1>5, <2>1, <2>2
  <2>4. DOMAIN r = 1..Len(r) /\ \A k \in 1..Len(r) : k + 1 \in 1..Len(q)
    BY <2>1, <2>3
  <2>5. Range(r) \subseteq Range(q)
    BY <1>1, <2>3, <2>4 DEF Range
  <2>6. Head(q) \in S
    BY <1>5, <2>1
  <2> QED
    BY <2>2, <2>3, <2>5, <2>6
<1> QED
  BY <1>1, <1>2, <1>3, <1>4, <1>5

\* One more in a sum of magnitudes.
LEMMA SumWithOne ==
  ASSUME NEW S, IsFiniteSet(S), NEW f, NEW x, f[x] \in Nat, \A y \in S : f[y] \in Nat
  PROVE  /\ SumFunctionOnSet(f, S) \in Nat /\ SumFunctionOnSet(f, S \cup {x}) \in Nat
         /\ SumFunctionOnSet(f, S \cup {x}) <= SumFunctionOnSet(f, S) + f[x]
<1>1. PICK a \in Nat : a = SumFunctionOnSet(f, S)
  BY SumNat
<1>2. PICK c \in Nat : c = f[x]
  OBVIOUS
<1> DEFINE T == S \cup {x}
<1>3. CASE x \in S
  <2>1. T = S
    BY <1>3
  <2> HIDE DEF T
  <2>2. SumFunctionOnSet(f, T) = a /\ a <= a + c
    BY <1>1, <2>1
  <2> QED
    BY <1>1, <1>2, <2>2 DEF T
<1>4. CASE x \notin S
  <2>1. T \ {x} = S /\ x \in T /\ \A y \in T : f[y] \in Int
    BY <1>2, <1>4
  <2>2. IsFiniteSet(T)
    BY FS_AddElement
  <2> HIDE DEF T
  <2>3. SumFunctionOnSet(f, T) = f[x] + SumFunctionOnSet(f, T \ {x})
    BY <2>1, <2>2, SumRemove
  <2>4. SumFunctionOnSet(f, T) = c + a
    BY <1>1, <1>2, <2>1, <2>3
  <2>5. c + a \in Nat /\ c + a <= a + c
    OBVIOUS
  <2> QED
    BY <1>1, <1>2, <2>4, <2>5 DEF T
<1> QED
  BY <1>3, <1>4

\* Fewer in one.
LEMMA SumOfPart ==
  ASSUME NEW S, IsFiniteSet(S), NEW T \in SUBSET S, NEW f, \A y \in S : f[y] \in Nat
  PROVE  /\ SumFunctionOnSet(f, T) \in Nat /\ SumFunctionOnSet(f, S) \in Nat
         /\ SumFunctionOnSet(f, T) <= SumFunctionOnSet(f, S)
<1> DEFINE g == [y \in S |-> IF y \in T THEN f[y] ELSE 0]
<1>1. IsFiniteSet(T)
  BY FS_Subset
<1>2. \A y \in S : g[y] \in Int /\ f[y] \in Int /\ g[y] <= f[y]
  OBVIOUS
<1>3. \A y \in S \ T : g[y] = 0
  OBVIOUS
<1>4. \A y \in T : g[y] = f[y]
  OBVIOUS
<1> HIDE DEF g
<1>5. SumFunctionOnSet(g, S) <= SumFunctionOnSet(f, S)
  BY <1>2, SumMonotone
<1>6. SumFunctionOnSet(g, S) = SumFunctionOnSet(g, T)
  BY <1>2, <1>3, SumSupport
<1>7. SumFunctionOnSet(g, T) = SumFunctionOnSet(f, T)
  BY <1>1, <1>4, SumAgree
<1>8. SumFunctionOnSet(f, T) \in Nat /\ SumFunctionOnSet(f, S) \in Nat
  BY <1>1, SumNat
<1> QED
  BY <1>5, <1>6, <1>7, <1>8

\* A market's turn keeps the plan within its budget.
LEMMA TurnFits ==
  ASSUME NEW in, PlanInput(in), NEW total \in Nat, NEW plan, Fits(in, total, plan), NEW m \in Markets
  PROVE  Fits(in, total, planMarket(in, plan, m))
<1> DEFINE W == SliceWorst(in)
           cap == min(in.limits.maxFillNotional, plan.budget)
           s == sliceOf(in.limits, in.index[m], m, in.positions[m], cap)
           plan2 == [slices |-> Append(plan.slices, s), budget |-> plan.budget - (s.worstNotional + 1)]
<1>1. \/ planMarket(in, plan, m) = plan
      \/ planMarket(in, plan, m) = plan2 /\ in.index[m] # 0 /\ ~(cap <= 0)
  BY DEF planMarket
<1>2. ASSUME planMarket(in, plan, m) = plan2, in.index[m] # 0, ~(cap <= 0)
      PROVE  Fits(in, total, plan2)
  <2>1. PICK q \in Seq(Slice) : q = plan.slices
    BY DEF Fits, Plans
  <2>2. PICK b \in Int : b = plan.budget /\ b >= -1
    BY DEF Fits, Plans
  <2>3. PICK l \in Nat : l = in.limits.maxFillNotional
    BY DEF PlanInput, Limits
  <2>4. PICK c \in Nat : c = cap /\ c <= b /\ c <= l /\ c > 0
    BY <1>2, <2>2, <2>3 DEF min
  <2>5. PICK index \in Nat \ {0} : index = in.index[m]
    BY <1>2 DEF PlanInput
  <2>6. PICK p \in Int : p = in.positions[m]
    BY DEF PlanInput
  <2>7. in.limits \in Limits
    BY DEF PlanInput
  <2>8. PICK x : x = sliceOf(in.limits, index, m, p, c)
    OBVIOUS
  <2>9. /\ x \in Slice /\ x.marketId = m /\ x.worstNotional <= c
        /\ x.worstNotional
             = notionalOf(x.size, worstFillPrice(x.isLong, x.limitPrice, index, in.limits.maxDeviationBps))
    BY <2>7, <2>8, SliceIs
  <2>10. W[x] = x.worstNotional
    BY <2>5, <2>9 DEF SliceWorst
  <2>11. x = s
    BY <2>4, <2>5, <2>6, <2>8
  <2> HIDE DEF s, cap
  <2>12. plan2 = [slices |-> Append(q, x), budget |-> b - (x.worstNotional + 1)]
    BY <2>1, <2>2, <2>11
  <2>13. PICK w \in Nat : w = x.worstNotional /\ w <= c
    BY <2>9 DEF Slice
  <2>14. /\ Range(q) \subseteq Slice /\ IsFiniteSet(Range(q)) /\ Len(q) \in Nat
         /\ Range(Append(q, x)) = Range(q) \cup {x}
    BY <2>9, RangeIs
  <2>15. \A y \in Range(q) : W[y] \in Nat
    BY <2>14, SliceWorstNat
  <2>16. W[x] \in Nat
    BY <2>10, <2>13
  <2> HIDE DEF W, plan2
  <2>17. /\ SumFunctionOnSet(W, Range(q)) \in Nat /\ SumFunctionOnSet(W, Range(q) \cup {x}) \in Nat
         /\ SumFunctionOnSet(W, Range(q) \cup {x}) <= SumFunctionOnSet(W, Range(q)) + W[x]
    BY <2>14, <2>15, <2>16, SumWithOne
  <2>18. SumFunctionOnSet(W, Range(q)) + Len(q) + b <= total
         /\ \A y \in Range(q) : W[y] <= l
    BY <2>1, <2>2, <2>3 DEF Fits, W
  <2>19. Append(q, x) \in Seq(Slice) /\ Len(Append(q, x)) = Len(q) + 1
    BY <2>9
  <2>20. plan2.slices = Append(q, x) /\ plan2.budget = b - (w + 1) /\ plan2 \in Plans
    <3>1. b - (w + 1) \in Int
      OBVIOUS
    <3> QED
      BY <2>12, <2>13, <2>19, <3>1 DEF Plans
  <2>21. SumFunctionOnSet(W, Range(plan2.slices)) + Len(plan2.slices) + plan2.budget <= total
    <3>1. PICK old \in Nat, new \in Nat, len \in Nat :
            /\ old = SumFunctionOnSet(W, Range(q)) /\ new = SumFunctionOnSet(W, Range(q) \cup {x})
            /\ len = Len(q)
      BY <2>14, <2>17
    <3>2. new <= old + w /\ old + len + b <= total
      BY <2>10, <2>13, <2>17, <2>18, <3>1
    <3>3. new + (len + 1) + (b - (w + 1)) <= total
      BY <3>2
    <3> QED
      BY <2>14, <2>19, <2>20, <3>1, <3>3
  <2>22. total > 0
    BY <2>4, <2>14, <2>17, <2>18
  <2>23. plan2.budget >= -1
    BY <2>4, <2>13, <2>20
  <2>24. \A y \in Range(plan2.slices) : W[y] <= in.limits.maxFillNotional
    <3>1. W[x] <= l
      BY <2>3, <2>4, <2>10, <2>13
    <3> QED
      BY <2>3, <2>14, <2>18, <2>20, <3>1
  <2> QED
    BY <2>20, <2>21, <2>22, <2>23, <2>24 DEF Fits, W
<1> QED
  BY <1>1, <1>2

\* Markets in the order of what is held there.
LEMMA HeldFirstIs ==
  ASSUME NEW positions \in [Markets -> Int], NEW index \in [Markets -> Nat]
  PROVE  \E n \in Nat : heldFirst(positions, index) \in [1..n -> Markets]
<1> DEFINE held == {m \in DOMAIN positions : positions[m] # 0}
           worth(m) == abs(positions[m]) * index[m]
           ahead(m) == {a \in held : worth(a) > worth(m) \/ (worth(a) = worth(m) /\ a < m)}
           B == [m \in held |-> ahead(m)]
           rank == [m \in held |-> Cardinality(ahead(m))]
<1>1. held \subseteq Markets /\ IsFiniteSet(held)
  BY FS_Subset, MarketsAssumption
<1>2. \A m \in held : worth(m) \in Int /\ m \in Int
  <2>1. ASSUME NEW m \in held PROVE worth(m) \in Int /\ m \in Int
    <3>1. m \in Markets /\ m \in Int
      BY <1>1, MarketsAssumption
    <3>2. abs(positions[m]) \in Int /\ index[m] \in Int
      BY <3>1 DEF abs
    <3> QED
      BY <3>1, <3>2
  <2> QED
    BY <2>1
<1>3. StrictlyOrders(B, held)
  <2>1. B \in [held -> SUBSET held]
    OBVIOUS
  <2>2. \A x, y \in held : x \in B[y] <=> worth(x) > worth(y) \/ (worth(x) = worth(y) /\ x < y)
    OBVIOUS
  <2> HIDE DEF B, worth, held
  <2>3. \A x \in held : x \notin B[x]
    BY <1>2, <2>2
  <2>4. \A x, y \in held : x = y \/ x \in B[y] \/ y \in B[x]
    BY <1>2, <2>2
  <2>5. \A x, y \in held : x \in B[y] => B[x] \subseteq B[y]
    BY <1>2, <2>1, <2>2
  <2> QED
    BY <2>1, <2>3, <2>4, <2>5 DEF StrictlyOrders
<1>4. rank = [x \in held |-> Cardinality(B[x])]
  OBVIOUS
<1>5. heldFirst(positions, index) = ranked(held, rank)
  BY DEF heldFirst
<1> HIDE DEF held, rank, B
<1>6. Cardinality(held) \in Nat /\ ranked(held, rank) \in [1..Cardinality(held) -> held]
  <2>1. ListedBy(ranked(held, rank), held, B)
    <3>1. PICK r : r = ranked(held, rank)
      OBVIOUS
    <3>2. /\ r = [k \in 1..Cardinality(held) |-> r[k]]
          /\ \A k \in 1..Cardinality(held) : (\E x \in held : rank[x] = k - 1) => r[k] \in held /\ rank[r[k]] = k - 1
      BY <3>1 DEF ranked
    <3>3. ListedBy(r, held, B)
      BY <1>1, <1>3, <1>4, <3>2, RankedList
    <3> QED
      BY <3>1, <3>3
  <2> QED
    BY <2>1 DEF ListedBy
<1> QED
  BY <1>1, <1>5, <1>6

\* planUnwind as the function it folds with.
IsPlanning(f, in, ms) ==
  f = [s \in SUBSET DOMAIN ms |->
         IF s = {} THEN [slices |-> <<>>, budget |-> budget(in.limits, in.index, in.open)]
         ELSE planMarket(in, f[s \ {Max(s)}], ms[Max(s)])]

\* planUnwind is the last state of a run over the markets held.
LEMMA PlanningUnfolds ==
  ASSUME NEW in, NEW ms, ms = heldFirst(in.positions, in.index)
  PROVE  planUnwind(in) = (CHOOSE f : IsPlanning(f, in, ms))[DOMAIN ms]
  BY Zenon DEF planUnwind, FoldLeft, MapThenFoldSet, IsPlanning

\* The plan is within the budget.
LEMMA PlanFits ==
  ASSUME NEW in, PlanInput(in), NEW total \in Nat, total = budget(in.limits, in.index, in.open)
  PROVE  Fits(in, total, planUnwind(in))
<1> DEFINE V == {plan \in Plans : Fits(in, total, plan)}
           base == [slices |-> <<>>, budget |-> total]
<1>1. PICK n \in Nat : heldFirst(in.positions, in.index) \in [1..n -> Markets]
  BY HeldFirstIs DEF PlanInput
<1>2. PICK ms \in [1..n -> Markets] : ms = heldFirst(in.positions, in.index)
  BY <1>1
<1> DEFINE turn(r, k) == planMarket(in, r, ms[k])
           step == [z \in V \X (1..n) |-> turn(z[1], z[2])]
<1>3. ASSUME NEW r \in V, NEW k \in 1..n PROVE turn(r, k) \in V
  <2>1. Fits(in, total, turn(r, k))
    BY TurnFits
  <2> QED
    BY <2>1 DEF Fits
<1>4. base \in V
  <2>1. base \in Plans
    BY DEF Plans
  <2>2. base.slices = <<>> /\ base.budget = total /\ Len(base.slices) = 0
    OBVIOUS
  <2>3. Range(base.slices) = {}
    BY <2>2 DEF Range
  <2>4. SumFunctionOnSet(SliceWorst(in), {}) = 0
    BY SumEmpty
  <2> HIDE DEF base
  <2>5. SumFunctionOnSet(SliceWorst(in), Range(base.slices)) + Len(base.slices) + base.budget <= total
    <3>1. PICK c : c = SumFunctionOnSet(SliceWorst(in), Range(base.slices))
      OBVIOUS
    <3>2. c = 0
      BY <2>3, <2>4, <3>1
    <3>3. c + Len(base.slices) + base.budget <= total
      BY <2>2, <3>2
    <3> QED
      BY <3>1, <3>3
  <2>6. Fits(in, total, base)
    BY <2>1, <2>2, <2>3, <2>5 DEF Fits
  <2> QED
    BY <2>1, <2>6
<1> HIDE DEF base, V, turn
<1>5. step \in [V \X (1..n) -> V] /\ \A r \in V, k \in 1..n : step[<<r, k>>] = turn(r, k)
  BY <1>3
<1> HIDE DEF step
<1>6. PICK g : IsWalk(g, base, step, n)
  BY WalkExists
<1>7. g \in [SUBSET (1..n) -> V]
  BY <1>4, <1>5, <1>6, WalkStays
<1>8. ASSUME NEW s \in SUBSET (1..n), s # {}
      PROVE  Max(s) \in 1..n /\ s \ {Max(s)} \in SUBSET (1..n)
  BY <1>8, LastIn
<1>9. DOMAIN ms = 1..n
  OBVIOUS
<1>10. IsPlanning(g, in, ms)
  <2>1. ASSUME NEW s \in SUBSET (1..n)
        PROVE  (IF s = {} THEN base ELSE step[<<g[s \ {Max(s)}], Max(s)>>])
                 = IF s = {} THEN base ELSE turn(g[s \ {Max(s)}], Max(s))
    <3>1. CASE s = {}
      BY <3>1
    <3>2. CASE s # {}
      <4>1. g[s \ {Max(s)}] \in V /\ Max(s) \in 1..n
        BY <1>7, <1>8, <3>2
      <4> QED
        BY <1>5, <3>2, <4>1
    <3> QED
      BY <3>1, <3>2
  <2>2. g = [s \in SUBSET (1..n) |-> IF s = {} THEN base ELSE step[<<g[s \ {Max(s)}], Max(s)>>]]
    BY <1>6 DEF IsWalk
  <2>3. g = [s \in SUBSET (1..n) |-> IF s = {} THEN base ELSE turn(g[s \ {Max(s)}], Max(s))]
    BY <2>1, <2>2
  <2> QED
    BY <1>9, <2>3 DEF IsPlanning, base, turn
<1> DEFINE c == CHOOSE f : IsPlanning(f, in, ms)
<1>11. c = [s \in SUBSET (1..n) |-> IF s = {} THEN base ELSE turn(c[s \ {Max(s)}], Max(s))]
  <2>1. IsPlanning(c, in, ms)
    BY <1>10
  <2> HIDE DEF c
  <2> QED
    BY <1>9, <2>1 DEF IsPlanning, base, turn
<1>12. planUnwind(in) = c[1..n]
  BY <1>2, <1>9, PlanningUnfolds
<1> HIDE DEF c
<1>13. Follows(c, base, step, V, n)
  <2>1. c[{}] = base
    BY <1>11
  <2>2. ASSUME NEW s \in SUBSET (1..n), s # {}, c[s \ {Max(s)}] \in V
        PROVE  c[s] = step[<<c[s \ {Max(s)}], Max(s)>>]
    BY <1>5, <1>8, <1>11, <2>2
  <2> QED
    BY <2>1, <2>2 DEF Follows
<1>14. Passes(c[1..n], base, step, V, n)
  BY <1>4, <1>5, <1>13, WalkRuns
<1>15. c[1..n] \in V
  <2>1. n \in 0..n
    OBVIOUS
  <2> QED
    BY <1>14, <2>1 DEF Passes
<1> QED
  BY <1>12, <1>15 DEF V

\* What an open order may take at worst, and what the plan reserves for it.
LeftWorst(in) ==
  [o \in in.open |-> notionalOf(o.size - o.filledSize,
                                worstFillPrice(o.isLong, o.limitPrice, in.index[o.marketId],
                                               in.limits.maxDeviationBps))]
Kept(in) == [o \in in.open |-> reservedBy(o, in.index[o.marketId], in.limits.maxDeviationBps)]
Priced(in) == {o \in in.open : in.index[o.marketId] > 0}

\* What the plan counts for an open order is no less than what is left of it at its worst.
LEMMA KeptIs ==
  ASSUME NEW in, PlanInput(in), NEW o \in in.open
  PROVE  /\ Kept(in)[o] \in Nat /\ LeftWorst(in)[o] \in Nat
         /\ o \in Priced(in) => LeftWorst(in)[o] <= Kept(in)[o]
<1>1. PICK bps \in 0..BPS_DENOMINATOR : bps = in.limits.maxDeviationBps
  BY DEF PlanInput, Limits
<1>2. /\ o.isLong \in BOOLEAN /\ o.limitPrice \in Nat /\ o.size \in Nat /\ o.filledSize \in Nat
      /\ o.marketId \in Markets /\ o.filledSize <= o.size
  BY DEF PlanInput, Row
<1>3. PICK index \in Nat : index = in.index[o.marketId]
  BY <1>2 DEF PlanInput
<1>4. PICK size \in Nat : size = o.size - o.filledSize
  BY <1>2
<1>5. PICK w \in Nat : w = worstFillPrice(o.isLong, o.limitPrice, index, bps)
  BY <1>2, WorstIs
<1>6. PICK v \in Nat : v = mulDiv(o.limitPrice, BPS_DENOMINATOR + bps, BPS_DENOMINATOR)
  <2>1. BPS_DENOMINATOR \in Nat \ {0} /\ bps \in Nat
    BY DEF BPS_DENOMINATOR
  <2>2. BPS_DENOMINATOR + bps \in Nat /\ o.limitPrice <= o.limitPrice
    BY <1>2, <2>1
  <2> QED
    BY <1>2, <2>1, <2>2, MulDivMonotone
<1>7. PICK nw \in Nat, nv \in Nat : nw = notionalOf(size, w) /\ nv = notionalOf(size, v)
  <2>1. size <= size
    OBVIOUS
  <2> QED
    BY <2>1, NotionalMonotone
<1>8. LeftWorst(in)[o] = nw
  BY <1>1, <1>3, <1>4, <1>5, <1>7 DEF LeftWorst
<1>9. Kept(in)[o] = IF index > 0 THEN nw + 1 ELSE nv + 1
  BY <1>1, <1>3, <1>4, <1>5, <1>6, <1>7 DEF Kept, reservedBy
<1>10. o \in Priced(in) <=> index > 0
  BY <1>3 DEF Priced
<1>11. nw \in Nat /\ nw + 1 \in Nat /\ nv + 1 \in Nat /\ nw <= nw + 1
  OBVIOUS
<1> QED
  BY <1>8, <1>9, <1>10, <1>11

\* The day's budget is what the open orders leave of the cap.
LEMMA BudgetIs ==
  ASSUME NEW in, PlanInput(in)
  PROVE  /\ budget(in.limits, in.index, in.open) \in Nat
         /\ budget(in.limits, in.index, in.open) > 0
              => in.limits.usedToday + SumFunctionOnSet(LeftWorst(in), Priced(in))
                   + budget(in.limits, in.index, in.open) <= in.limits.maxDailyNotional
<1>1. IsFiniteSet(in.open) /\ Priced(in) \in SUBSET in.open
  BY DEF PlanInput, Priced
<1>2. IsFiniteSet(Priced(in))
  BY <1>1, FS_Subset
<1>3. \A o \in in.open : Kept(in)[o] \in Nat
  BY KeptIs
<1>4. /\ SumFunctionOnSet(Kept(in), in.open) \in Nat /\ SumFunctionOnSet(Kept(in), Priced(in)) \in Nat
      /\ SumFunctionOnSet(Kept(in), Priced(in)) <= SumFunctionOnSet(Kept(in), in.open)
  BY <1>1, <1>3, SumOfPart
<1>5. \A o \in Priced(in) : /\ LeftWorst(in)[o] \in Nat /\ Kept(in)[o] \in Nat
                            /\ LeftWorst(in)[o] \in Int /\ Kept(in)[o] \in Int
                            /\ LeftWorst(in)[o] <= Kept(in)[o]
  BY <1>1, KeptIs
<1>6. SumFunctionOnSet(LeftWorst(in), Priced(in)) \in Nat
  BY <1>2, <1>5, SumNat
<1>7. SumFunctionOnSet(LeftWorst(in), Priced(in)) <= SumFunctionOnSet(Kept(in), Priced(in))
  BY <1>2, <1>5, SumMonotone
<1>8. PICK left \in Nat, part \in Nat, kept \in Nat :
        /\ left = SumFunctionOnSet(LeftWorst(in), Priced(in))
        /\ part = SumFunctionOnSet(Kept(in), Priced(in)) /\ kept = SumFunctionOnSet(Kept(in), in.open)
        /\ left <= part /\ part <= kept
  BY <1>4, <1>6, <1>7
<1>9. PICK cap \in Nat, used \in Nat : cap = in.limits.maxDailyNotional /\ used = in.limits.usedToday
  BY DEF PlanInput, Limits
<1>10. budget(in.limits, in.index, in.open) = max(0, cap - used - kept)
  BY <1>8, <1>9 DEF budget, Kept
<1>11. max(0, cap - used - kept) \in Nat
       /\ (max(0, cap - used - kept) > 0 => used + left + max(0, cap - used - kept) <= cap)
  BY <1>8 DEF max
<1> QED
  BY <1>8, <1>9, <1>10, <1>11

\* The caps in terms of what slices and orders cost at worst.
LEMMA CapsAre ==
  ASSUME NEW k, k.limits \in Limits, k.index \in [Markets -> Nat], k.slices \in Seq(Slice),
         IsFiniteSet(k.open), k.open \subseteq Row,
         \A o \in k.open : o.marketId \in Markets /\ o.filledSize <= o.size
  PROVE  WithinCaps(k)
           <=> /\ \A s \in Range(k.slices) : SliceWorst(k)[s] <= k.limits.maxFillNotional
               /\ k.limits.usedToday + SumFunctionOnSet(SliceWorst(k), Range(k.slices))
                    + SumFunctionOnSet(LeftWorst(k), Priced(k)) <= k.limits.maxDailyNotional
<1> DEFINE high(m) == k.index[m] + mulDiv(k.index[m], k.limits.maxDeviationBps, BPS_DENOMINATOR)
           top(isLong, limit, m) == IF isLong THEN min(limit, high(m)) ELSE high(m)
           S == Range(k.slices)
           P == {o \in k.open : k.index[o.marketId] > 0}
           worst == [s \in S |-> notionalOf(s.size, top(s.isLong, s.limitPrice, s.marketId))]
           left == [o \in P |-> notionalOf(o.size - o.filledSize,
                                           top(o.isLong, o.limitPrice, o.marketId))]
<1>1. WithinCaps(k) <=> /\ \A s \in S : worst[s] <= k.limits.maxFillNotional
                        /\ k.limits.usedToday + SumFunctionOnSet(worst, S) + SumFunctionOnSet(left, P)
                             <= k.limits.maxDailyNotional
  BY Zenon DEF WithinCaps
<1>2. S \subseteq Slice /\ IsFiniteSet(S)
  BY RangeIs
<1>3. P = Priced(k) /\ P \subseteq k.open
  BY DEF Priced
<1>4. IsFiniteSet(P)
  BY <1>3, FS_Subset
<1>5. ASSUME NEW isLong \in BOOLEAN, NEW limit \in Nat, NEW m \in Markets
      PROVE  worstFillPrice(isLong, limit, k.index[m], k.limits.maxDeviationBps) = top(isLong, limit, m)
  <2>1. PICK bps \in 0..BPS_DENOMINATOR : bps = k.limits.maxDeviationBps
    BY DEF Limits
  <2>2. PICK index \in Nat : index = k.index[m]
    OBVIOUS
  <2> QED
    BY <2>1, <2>2, WorstIs
<1> HIDE DEF top
<1>6. ASSUME NEW s \in S PROVE worst[s] = SliceWorst(k)[s]
  <2>1. s \in Slice /\ s.isLong \in BOOLEAN /\ s.limitPrice \in Nat /\ s.marketId \in Markets
    BY <1>2 DEF Slice
  <2>2. worst[s] = notionalOf(s.size, top(s.isLong, s.limitPrice, s.marketId))
    OBVIOUS
  <2> HIDE DEF worst
  <2> QED
    BY <1>5, <2>1, <2>2 DEF SliceWorst
<1>7. ASSUME NEW o \in P PROVE left[o] = LeftWorst(k)[o]
  <2>1. o \in k.open /\ o.isLong \in BOOLEAN /\ o.limitPrice \in Nat /\ o.marketId \in Markets
    BY <1>3 DEF Row
  <2>2. left[o] = notionalOf(o.size - o.filledSize, top(o.isLong, o.limitPrice, o.marketId))
    OBVIOUS
  <2> HIDE DEF left
  <2> QED
    BY <1>5, <2>1, <2>2 DEF LeftWorst
<1> HIDE DEF worst, left, S, P
<1>8. SumFunctionOnSet(worst, S) = SumFunctionOnSet(SliceWorst(k), S)
  BY <1>2, <1>6, SumAgree
<1>9. SumFunctionOnSet(left, P) = SumFunctionOnSet(LeftWorst(k), P)
  BY <1>4, <1>7, SumAgree
<1>10. (\A s \in S : worst[s] <= k.limits.maxFillNotional)
         <=> (\A s \in S : SliceWorst(k)[s] <= k.limits.maxFillNotional)
  BY <1>6
<1> QED
  BY <1>1, <1>3, <1>8, <1>9, <1>10 DEF S

\* A plan is within the caps,
LEMMA PlanWithinCaps ==
  ASSUME NEW in, PlanInput(in), NEW plan, plan = planUnwind(in), plan.slices # <<>>,
         NEW k, k.limits = in.limits, k.index = in.index, k.open = in.open, k.slices = plan.slices
  PROVE  plan.slices \in Seq(Slice) /\ WithinCaps(k)
<1>1. PICK total \in Nat : total = budget(in.limits, in.index, in.open)
  BY BudgetIs
<1>2. Fits(in, total, plan)
  BY <1>1, PlanFits
<1>3. plan.slices \in Seq(Slice) /\ plan.budget \in Int /\ plan.budget >= -1 /\ total > 0
  BY <1>2 DEF Fits, Plans
<1>4. SliceWorst(k) = SliceWorst(in) /\ LeftWorst(k) = LeftWorst(in) /\ Priced(k) = Priced(in)
  BY DEF SliceWorst, LeftWorst, Priced
<1>5. Range(k.slices) \subseteq Slice /\ IsFiniteSet(Range(k.slices))
  BY <1>3, RangeIs
<1>6. \A s \in Range(k.slices) : SliceWorst(in)[s] \in Nat
  BY <1>5, SliceWorstNat
<1>7. PICK w \in Nat : w = SumFunctionOnSet(SliceWorst(in), Range(k.slices))
  BY <1>5, <1>6, SumNat
<1>8. PICK len \in Nat \ {0} : len = Len(plan.slices)
  BY <1>3
<1>9. w + len + plan.budget <= total
  BY <1>2, <1>7, <1>8 DEF Fits
<1>10. w <= total
  BY <1>3, <1>8, <1>9
<1>11. PICK left \in Nat : left = SumFunctionOnSet(LeftWorst(in), Priced(in))
  <2>1. Priced(in) \subseteq in.open /\ IsFiniteSet(Priced(in))
    BY FS_Subset DEF PlanInput, Priced
  <2>2. \A o \in Priced(in) : LeftWorst(in)[o] \in Nat
    BY <2>1, KeptIs
  <2> QED
    BY <2>1, <2>2, SumNat
<1>12. PICK cap \in Nat, used \in Nat : cap = in.limits.maxDailyNotional /\ used = in.limits.usedToday
  BY DEF PlanInput, Limits
<1>13. used + left + total <= cap
  BY <1>1, <1>3, <1>11, <1>12, BudgetIs
<1>14. used + w + left <= cap
  BY <1>10, <1>13
<1>15. \A s \in Range(k.slices) : SliceWorst(in)[s] <= in.limits.maxFillNotional
  BY <1>2 DEF Fits
<1>16. /\ k.limits \in Limits /\ k.index \in [Markets -> Nat] /\ k.slices \in Seq(Slice)
       /\ IsFiniteSet(k.open) /\ k.open \subseteq Row
       /\ \A o \in k.open : o.marketId \in Markets /\ o.filledSize <= o.size
  BY <1>3 DEF PlanInput
<1>17. WithinCaps(k)
  BY <1>4, <1>7, <1>11, <1>12, <1>14, <1>15, <1>16, CapsAre
<1> QED
  BY <1>3, <1>17

\* A plan is a sequence of slices.
LEMMA PlannedIs ==
  ASSUME NEW in, PlanInput(in), NEW plan, plan = planUnwind(in)
  PROVE  plan.slices \in Seq(Slice)
<1>1. PICK total \in Nat : total = budget(in.limits, in.index, in.open)
  BY BudgetIs
<1>2. Fits(in, total, plan)
  BY <1>1, PlanFits
<1> QED
  BY <1>2 DEF Fits, Plans

\* and stays so as its slices are posted.
LEMMA RestWithinCaps ==
  ASSUME NEW k, k.limits \in Limits, k.index \in [Markets -> Nat], k.slices \in Seq(Slice),
         k.slices # <<>>, IsFiniteSet(k.open), k.open \subseteq Row,
         \A o \in k.open : o.marketId \in Markets /\ o.filledSize <= o.size,
         WithinCaps(k),
         NEW k2, k2.limits = k.limits, k2.index = k.index, k2.open = k.open,
         k2.slices = Tail(k.slices)
  PROVE  WithinCaps(k2)
<1>1. /\ Range(k.slices) \subseteq Slice /\ IsFiniteSet(Range(k.slices))
      /\ Range(k2.slices) \in SUBSET Range(k.slices) /\ k2.slices \in Seq(Slice)
  BY RangeIs
<1>2. SliceWorst(k2) = SliceWorst(k) /\ LeftWorst(k2) = LeftWorst(k) /\ Priced(k2) = Priced(k)
  BY DEF SliceWorst, LeftWorst, Priced
<1>3. ASSUME NEW s \in Slice PROVE SliceWorst(k)[s] \in Nat
  <2>1. /\ s.isLong \in BOOLEAN /\ s.limitPrice \in Nat /\ s.marketId \in Markets /\ s.size \in Nat
        /\ k.limits.maxDeviationBps \in 0..BPS_DENOMINATOR
    BY DEF Slice, Limits
  <2>2. PICK index \in Nat : index = k.index[s.marketId]
    BY <2>1
  <2>3. PICK w \in Nat : w = worstFillPrice(s.isLong, s.limitPrice, index, k.limits.maxDeviationBps)
    BY <2>1, WorstIs
  <2>4. s.size <= s.size
    BY <2>1
  <2>5. notionalOf(s.size, w) \in Nat
    BY <2>1, <2>4, NotionalMonotone
  <2> QED
    BY <2>2, <2>3, <2>5 DEF SliceWorst
<1>4. PICK a \in Nat, b \in Nat : /\ a = SumFunctionOnSet(SliceWorst(k), Range(k2.slices))
                                  /\ b = SumFunctionOnSet(SliceWorst(k), Range(k.slices)) /\ a <= b
  <2>1. \A s \in Range(k.slices) : SliceWorst(k)[s] \in Nat
    BY <1>1, <1>3
  <2> QED
    BY <1>1, <2>1, SumOfPart
<1>5. PICK left \in Nat : left = SumFunctionOnSet(LeftWorst(k), Priced(k))
  <2>1. Priced(k) \subseteq k.open /\ IsFiniteSet(Priced(k))
    BY FS_Subset DEF Priced
  <2>2. ASSUME NEW o \in Priced(k) PROVE LeftWorst(k)[o] \in Nat
    <3>1. /\ o \in k.open /\ o.isLong \in BOOLEAN /\ o.limitPrice \in Nat /\ o.marketId \in Markets
          /\ o.size \in Nat /\ o.filledSize \in Nat /\ o.filledSize <= o.size
          /\ k.limits.maxDeviationBps \in 0..BPS_DENOMINATOR
      BY <2>1 DEF Row, Limits
    <3>2. PICK index \in Nat : index = k.index[o.marketId]
      BY <3>1
    <3>3. PICK w \in Nat : w = worstFillPrice(o.isLong, o.limitPrice, index, k.limits.maxDeviationBps)
      BY <3>1, WorstIs
    <3>4. PICK size \in Nat : size = o.size - o.filledSize /\ size <= size
      BY <3>1
    <3>5. notionalOf(size, w) \in Nat
      BY <3>4, NotionalMonotone
    <3> QED
      BY <3>1, <3>2, <3>3, <3>4, <3>5 DEF LeftWorst
  <2> QED
    BY <2>1, <2>2, SumNat
<1>6. PICK cap \in Nat, used \in Nat : cap = k.limits.maxDailyNotional /\ used = k.limits.usedToday
  BY DEF Limits
<1>7. /\ \A s \in Range(k.slices) : SliceWorst(k)[s] <= k.limits.maxFillNotional
      /\ used + b + left <= cap
  BY <1>4, <1>5, <1>6, CapsAre
<1>8. used + a + left <= cap
  BY <1>4, <1>7
<1>9. /\ \A s \in Range(k2.slices) : SliceWorst(k2)[s] <= k2.limits.maxFillNotional
      /\ k2.limits.usedToday + SumFunctionOnSet(SliceWorst(k2), Range(k2.slices))
           + SumFunctionOnSet(LeftWorst(k2), Priced(k2)) <= k2.limits.maxDailyNotional
  BY <1>1, <1>2, <1>4, <1>5, <1>6, <1>7, <1>8
<1> QED
  BY <1>1, <1>9, CapsAre

-----------------------------------------------------------------------------
(* The matches held to the backstop's limits.                              *)

Keeping == [matches : Seq(Match), used : Int]

\* What filterBackstopFills carries keeps its type from one match to the next.
LEMMA FilterFillIs ==
  ASSUME NEW backstop, NEW index, NEW limits, NEW kept \in Keeping, NEW m \in Match
  PROVE  filterFill(backstop, index, limits, kept, m) \in Keeping
<1>1. PICK n \in Nat : n = notionalOf(m.size, m.price)
  <2>1. m.size \in Nat /\ m.price \in Nat /\ m.size <= m.size
    BY DEF Match
  <2> QED
    BY <2>1, NotionalMonotone
<1>2. PICK q \in Seq(Match), u \in Int : q = kept.matches /\ u = kept.used
                                         /\ kept = [matches |-> q, used |-> u]
  BY DEF Keeping
<1>3. PICK x \in Seq(Match), v \in Int : x = Append(q, m) /\ v = u + n
  <2>1. Append(q, m) \in Seq(Match) /\ u + n \in Int
    OBVIOUS
  <2> QED
    BY <2>1
<1>4. [kept EXCEPT !.matches = Append(@, m)] = [matches |-> x, used |-> u]
  <2>1. [kept EXCEPT !.matches = Append(kept.matches, m)] = [kept EXCEPT !.matches = x]
    BY <1>2, <1>3
  <2>2. [kept EXCEPT !.matches = x] = [matches |-> x, used |-> u]
    BY <1>2
  <2> QED
    BY <2>1, <2>2
<1>5. filterFill(backstop, index, limits, kept, m)
        \in {[matches |-> x, used |-> u], [matches |-> x, used |-> v], kept}
  BY <1>1, <1>2, <1>3, <1>4 DEF filterFill
<1>6. [matches |-> x, used |-> u] \in Keeping /\ [matches |-> x, used |-> v] \in Keeping
  BY DEF Keeping
<1> QED
  BY <1>5, <1>6

IsFiltering(f, backstop, index, limits, ms) ==
  f = [s \in SUBSET DOMAIN ms |->
         IF s = {} THEN [matches |-> <<>>, used |-> 0]
         ELSE filterFill(backstop, index, limits, f[s \ {Max(s)}], ms[Max(s)])]

\* filterBackstopFills is the last state of a run over the matches.
LEMMA FilteringUnfolds ==
  ASSUME NEW backstop, NEW index, NEW limits, NEW ms
  PROVE  filterBackstopFills(ms, backstop, index, limits)
           = (CHOOSE f : IsFiltering(f, backstop, index, limits, ms))[DOMAIN ms].matches
  BY Zenon DEF filterBackstopFills, FoldLeft, MapThenFoldSet, IsFiltering

\* What is kept are matches.
LEMMA FilteredIs ==
  ASSUME NEW backstop, NEW index, NEW limits, NEW ms \in Seq(Match)
  PROVE  filterBackstopFills(ms, backstop, index, limits) \in Seq(Match)
<1> DEFINE V == Keeping
           base == [matches |-> <<>>, used |-> 0]
           n == Len(ms)
<1>1. n \in Nat /\ DOMAIN ms = 1..n /\ \A k \in 1..n : ms[k] \in Match
  OBVIOUS
<1> DEFINE turn(r, k) == filterFill(backstop, index, limits, r, ms[k])
           step == [z \in V \X (1..n) |-> turn(z[1], z[2])]
<1>3. ASSUME NEW r \in V, NEW k \in 1..n PROVE turn(r, k) \in V
  BY <1>1, FilterFillIs
<1>4. base \in V
  <2>1. <<>> \in Seq(Match)
    OBVIOUS
  <2> QED
    BY <2>1 DEF Keeping
<1> HIDE DEF base, V, turn, n
<1>5. step \in [V \X (1..n) -> V] /\ \A r \in V, k \in 1..n : step[<<r, k>>] = turn(r, k)
  BY <1>3
<1> HIDE DEF step
<1>6. PICK g : IsWalk(g, base, step, n)
  BY <1>1, WalkExists
<1>7. g \in [SUBSET (1..n) -> V]
  BY <1>1, <1>4, <1>5, <1>6, WalkStays
<1>8. ASSUME NEW s \in SUBSET (1..n), s # {}
      PROVE  Max(s) \in 1..n /\ s \ {Max(s)} \in SUBSET (1..n)
  BY <1>1, <1>8, LastIn
<1>10. IsFiltering(g, backstop, index, limits, ms)
  <2>1. ASSUME NEW s \in SUBSET (1..n)
        PROVE  (IF s = {} THEN base ELSE step[<<g[s \ {Max(s)}], Max(s)>>])
                 = IF s = {} THEN base ELSE turn(g[s \ {Max(s)}], Max(s))
    <3>1. CASE s = {}
      BY <3>1
    <3>2. CASE s # {}
      <4>1. g[s \ {Max(s)}] \in V /\ Max(s) \in 1..n
        BY <1>7, <1>8, <3>2
      <4> QED
        BY <1>5, <3>2, <4>1
    <3> QED
      BY <3>1, <3>2
  <2>2. g = [s \in SUBSET (1..n) |-> IF s = {} THEN base ELSE step[<<g[s \ {Max(s)}], Max(s)>>]]
    BY <1>6 DEF IsWalk
  <2>3. g = [s \in SUBSET (1..n) |-> IF s = {} THEN base ELSE turn(g[s \ {Max(s)}], Max(s))]
    BY <2>1, <2>2
  <2> QED
    BY <1>1, <2>3 DEF IsFiltering, base, turn
<1> DEFINE c == CHOOSE f : IsFiltering(f, backstop, index, limits, ms)
<1>11. c = [s \in SUBSET (1..n) |-> IF s = {} THEN base ELSE turn(c[s \ {Max(s)}], Max(s))]
  <2>1. IsFiltering(c, backstop, index, limits, ms)
    BY <1>10
  <2> HIDE DEF c
  <2> QED
    BY <1>1, <2>1 DEF IsFiltering, base, turn
<1>12. filterBackstopFills(ms, backstop, index, limits) = c[1..n].matches
  BY <1>1, FilteringUnfolds
<1> HIDE DEF c
<1>13. Follows(c, base, step, V, n)
  <2>1. c[{}] = base
    BY <1>11
  <2>2. ASSUME NEW s \in SUBSET (1..n), s # {}, c[s \ {Max(s)}] \in V
        PROVE  c[s] = step[<<c[s \ {Max(s)}], Max(s)>>]
    BY <1>5, <1>8, <1>11, <2>2
  <2> QED
    BY <2>1, <2>2 DEF Follows
<1>14. Passes(c[1..n], base, step, V, n)
  BY <1>1, <1>4, <1>5, <1>13, WalkRuns
<1>15. c[1..n] \in V
  <2>1. n \in 0..n
    BY <1>1
  <2> QED
    BY <1>14, <2>1 DEF Passes
<1> QED
  BY <1>12, <1>15 DEF V, Keeping

\* What a tick offers.
LEMMA OfferedIs ==
  ASSUME Typed, NEW m \in Markets
  PROVE  offered(m) \in Seq(Match)
<1>1. PICK in : in = bookOf(m) /\ Book(in)
  BY BookOfIs
<1>2. PICK n \in Nat : \E q, R : IsRun(in, n, q, R) /\ R[n] = matchOrders(in) /\ InOrder(in, n, q)
  BY <1>1, MatchOrdersRuns
<1>3. PICK q, R : IsRun(in, n, q, R) /\ R[n] = matchOrders(in)
  BY <1>2
<1>4. matchOrders(in) \in Runs(in)
  BY <1>3 DEF IsRun
<1>5. PICK ms \in Seq(Match) : ms = matchOrders(in).matches
  BY <1>4 DEF Runs
<1>6. offered(m) = filterBackstopFills(ms, backstopMatches(ms), chain.index[m], backstopLimits)
  BY <1>1, <1>5 DEF offered, heldToLimits
<1> QED
  BY <1>6, FilteredIs

-----------------------------------------------------------------------------
(* The venue.                                                              *)

\* What the body of an order says is a size and a price.
LEMMA ParsedIs ==
  ASSUME NEW o, parseOrder(o) = "ok"
  PROVE  o.size \in Nat /\ o.limitPrice \in Nat
<1> DEFINE checks == << check(~uint(o.marketId) \/ o.marketId = 0, "invalid_field"),
                        check(~uint(o.size) \/ ~uint(o.limitPrice), "invalid_field"),
                        check(o.size = 0 \/ o.limitPrice = 0, "invalid_field"),
                        check(~uint(o.nonce) \/ ~uint(o.expiry), "invalid_field"),
                        check(\/ o.size > INT128_MAX \/ o.limitPrice > INT128_MAX
                              \/ notionalOf(o.size, o.limitPrice) > INT128_MAX, "overflow") >>
<1>1. firstOf(checks) = "ok"
  BY DEF parseOrder
<1>2. DOMAIN checks = 1..5
  OBVIOUS
<1>3. checks[2].fails <=> ~uint(o.size) \/ ~uint(o.limitPrice)
  BY DEF check
<1>4. \A i \in 1..5 : checks[i].fails => checks[i].code # "ok"
  BY DEF check
<1> HIDE DEF checks
<1>5. 5 \in Nat /\ 2 \in 1..5
  OBVIOUS
<1>6. \A i \in 1..5 : ~checks[i].fails
  BY <1>1, <1>2, <1>4, <1>5, FirstOfOk
<1>7. ~checks[2].fails
  BY <1>5, <1>6
<1> QED
  BY <1>3, <1>7, MarketsAssumption DEF uint

\* The owners of requests are traders.
LEMMA SubmittedIs ==
  ASSUME NEW s \in Submissions
  PROVE  Signed(s.order) /\ s.order \in Requested /\ s.order.owner # BACKSTOP
<1>1. s.order \in Requested
  BY RequestsAssumption
<1>2. s.order.owner \in Traders
  BY <1>1 DEF Requested
<1> QED
  BY <1>1, <1>2, VenueConfig DEF Requested, Signed, Owners

\* The fills that wait to be sent.
LEMMA SentIs ==
  ASSUME NEW q \in Seq(Fill)
  PROVE  /\ Range(q) \subseteq Fill /\ IsFiniteSet(Range(q))
         /\ q # <<>> => Head(q) \in Fill /\ Tail(q) \in Seq(Fill)
  BY RangeIs

\* The start.
LEMMA TypedInit ==
  ASSUME Init
  PROVE  Typed /\ Planned
<1> DEFINE D == {s.order.hash : s \in Resting}
           ofHash(h) == CHOOSE s \in Resting : s.order.hash = h
           orders == [h \in D |-> newRow(ofHash(h).order, 0)]
<1>1. IsFiniteSet(D)
  <2> DEFINE f == [s \in Resting |-> s.order.hash]
  <2>1. DOMAIN f = Resting /\ f = [s \in Resting |-> f[s]] /\ D = {f[s] : s \in Resting}
    OBVIOUS
  <2> HIDE DEF f, D
  <2> QED
    BY <2>1, ImageFinite, RequestsAssumption
<1>2. ASSUME NEW h \in D PROVE orders[h].hash = h /\ Stored(orders[h], 0)
  <2>1. PICK s : s = ofHash(h)
    OBVIOUS
  <2>2. s \in Resting /\ s.order.hash = h
    BY <2>1
  <2>3. s \in Submissions /\ parseOrder(s.order) = "ok" /\ s.order.expiry <= MAX_ORDER_TTL
    BY <2>2, RequestsAssumption
  <2>4. Signed(s.order) /\ s.order.owner # BACKSTOP /\ s.order.size \in Nat /\ s.order.limitPrice \in Nat
    BY <2>3, SubmittedIs, ParsedIs
  <2>5. 0 \in Nat /\ s.order.expiry <= 0 + MAX_ORDER_TTL
    BY <2>3, MarketsAssumption
  <2>6. newRow(s.order, 0).hash = s.order.hash /\ Stored(newRow(s.order, 0), 0)
    BY <2>4, <2>5, NewRowIs
  <2>7. orders[h] = newRow(s.order, 0)
    BY <2>1
  <2> QED
    BY <2>2, <2>6, <2>7
<1>3. DOMAIN orders = D /\ orders = [h \in D |-> orders[h]]
  OBVIOUS
<1>4. db = [ orders |-> orders, minValidNonce |-> [u \in Owners |-> 0], positions |-> InitialPositions,
             active |-> [m \in Markets |-> TRUE], fills |-> {} ]
  BY DEF Init
<1> HIDE DEF orders, D
<1>5. orders \in [D -> Row]
  BY <1>2, <1>3 DEF Stored
<1>6. /\ db.orders = orders /\ db.minValidNonce = [u \in Owners |-> 0]
      /\ db.positions = InitialPositions /\ db.active = [m \in Markets |-> TRUE] /\ db.fills = {}
  BY <1>4
<1>7. Tables(db, 0)
  <2>1. db.minValidNonce \in [Owners -> Int] /\ db.active \in [Markets -> BOOLEAN]
    BY <1>6
  <2>2. db.fills \subseteq Fill /\ IsFiniteSet(db.fills)
    BY <1>6, FS_EmptySet
  <2>3. db.positions \in [Owners -> [Markets -> Int]]
    BY <1>6, MarketsAssumption
  <2> QED
    BY <1>1, <1>2, <1>3, <1>4, <1>5, <1>6, <2>1, <2>2, <2>3 DEF Tables
<1>8. chain \in Storage
  BY MarketsAssumption DEF Init, Storage
<1>9. Memory(keeper) /\ keeper.pc = "idle"
  <2>1. keeper = Idle
    BY DEF Init
  <2>2. <<>> \in Seq(Slice)
    OBVIOUS
  <2> QED
    BY <2>1, <2>2 DEF Memory, Memories, Idle
<1>10. /\ now = 0 /\ log = <<>> /\ requests = {} /\ matcher = [offer |-> <<>>, queue |-> <<>>, fills |-> 0]
  BY DEF Init
<1>11. Typed
  BY <1>7, <1>8, <1>9, <1>10 DEF Typed
<1>12. Planned
  BY <1>9 DEF Planned
<1> QED
  BY <1>11, <1>12

\* The invariant of the venue.
VenueInv == Typed /\ Planned

\* An order submitted and taken in.
LEMMA SubmitKeeps ==
  ASSUME VenueInv, NEW s \in Submissions, SubmitOrder(s) \/ InsertOrder(s)
  PROVE  VenueInv'
<1>1. Typed /\ Planned
  BY DEF VenueInv
<1>2. Signed(s.order) /\ s.order \in Requested /\ s.order.owner # BACKSTOP
  BY SubmittedIs
<1>3. CASE SubmitOrder(s)
  <2>1. validateOrderSubmission(db, s, now, "valid") = "ok"
    BY <1>3 DEF SubmitOrder, intake
  <2>2. s.order.size \in Int /\ s.order.limitPrice \in Int /\ s.order.expiry \in Int /\ now \in Nat
    BY <1>1, <1>2 DEF Requested, Typed
  <2>3. Accepted(s, now)
    BY <2>1, <2>2, AcceptedIs
  <2>4. /\ requests' = requests \cup {s}
        /\ UNCHANGED <<db, chain, log, matcher, keeper, intents, now, moves>>
    BY <1>3 DEF SubmitOrder
  <2>5. Typed'
    BY <1>1, <2>3, <2>4 DEF Typed
  <2>6. Planned'
    BY <1>1, <2>4 DEF Planned
  <2> QED
    BY <2>5, <2>6 DEF VenueInv
<1>4. CASE InsertOrder(s)
  <2>1. /\ s \in requests /\ db' = insertOrder(db, s.order, now) /\ requests' = requests \ {s}
        /\ UNCHANGED <<chain, log, matcher, keeper, intents, now, moves>>
    BY <1>4 DEF InsertOrder
  <2>2. Accepted(s, now) /\ Tables(db, now) /\ now \in Nat
    BY <1>1, <2>1 DEF Typed
  <2>3. Tables(db', now)
    BY <1>2, <2>1, <2>2, InsertKeeps DEF Accepted
  <2>4. Typed'
    BY <1>1, <2>1, <2>3 DEF Typed
  <2>5. Planned'
    BY <1>1, <2>1 DEF Planned
  <2> QED
    BY <2>4, <2>5 DEF VenueInv
<1> QED
  BY <1>3, <1>4

\* Cancels, in the tables and on chain.
LEMMA CancelsKeep ==
  ASSUME VenueInv, NEW u \in Traders, NEW n, NEW m,
         \/ CancelOrder(u, n)
         \/ CancelAll(u, m)
         \/ n \in Nonces /\ (CancelOnChain(u, n) \/ CancelUpTo(u, n))
  PROVE  VenueInv'
<1>1. Typed /\ Planned
  BY DEF VenueInv
<1>2. Tables(db, now) /\ chain \in Storage /\ log \in Seq(Event)
  BY <1>1 DEF Typed
<1>3. ASSUME NEW rows, db' = cancelRows(db, rows),
             UNCHANGED <<chain, log, requests, matcher, keeper, intents, now>>
      PROVE  VenueInv'
  <2>1. Tables(db', now)
    BY <1>2, <1>3, CancelKeeps
  <2>2. Typed'
    BY <1>1, <1>3, <2>1 DEF Typed
  <2>3. Planned'
    BY <1>1, <1>3 DEF Planned
  <2> QED
    BY <2>2, <2>3 DEF VenueInv
<1>4. CASE CancelOrder(u, n)
  BY <1>3, <1>4 DEF CancelOrder, cancelOrderByNonce
<1>5. CASE CancelAll(u, m)
  BY <1>3, <1>5 DEF CancelAll, cancelAllOrders
<1>6. ASSUME NEW c \in Storage, NEW e \in Event, chain' = c, log' = Append(log, e),
             UNCHANGED <<db, requests, matcher, keeper, intents, now>>
      PROVE  VenueInv'
  <2>1. log' \in Seq(Event)
    BY <1>2, <1>6
  <2>2. Typed'
    BY <1>1, <1>6, <2>1 DEF Typed
  <2>3. Planned'
    BY <1>1, <1>6 DEF Planned
  <2> QED
    BY <2>2, <2>3 DEF VenueInv
<1>7. ASSUME n \in Nonces PROVE n \in Int
  BY <1>7, RequestsAssumption DEF Nonces, Requested
<1>8. CASE n \in Nonces /\ CancelOnChain(u, n)
  <2>1. /\ chain' = [chain EXCEPT !.cancelled = @ \cup {<<u, n>>}]
        /\ log' = Append(log, [type |-> "OrderCancelled", owner |-> u, nonce |-> n])
        /\ UNCHANGED <<db, requests, matcher, keeper, intents, now>>
    BY <1>8 DEF CancelOnChain
  <2>2. [chain EXCEPT !.cancelled = @ \cup {<<u, n>>}] \in Storage
    <3>1. chain.cancelled \cup {<<u, n>>} \in SUBSET (Traders \X Int)
      BY <1>2, <1>7, <1>8 DEF Storage
    <3>2. PICK x \in SUBSET (Traders \X Int) : x = chain.cancelled \cup {<<u, n>>}
      BY <3>1
    <3>3. [chain EXCEPT !.cancelled = x] \in Storage
      BY <1>2 DEF Storage
    <3> QED
      BY <3>2, <3>3
  <2>3. [type |-> "OrderCancelled", owner |-> u, nonce |-> n] \in Event
    BY <1>7, <1>8 DEF Event
  <2> QED
    BY <1>6, <2>1, <2>2, <2>3
<1>9. CASE n \in Nonces /\ CancelUpTo(u, n)
  <2>1. /\ chain' = [chain EXCEPT !.minNonce[u] = n]
        /\ log' = Append(log, [type |-> "NoncesCancelledUpTo", owner |-> u, nonce |-> n])
        /\ UNCHANGED <<db, requests, matcher, keeper, intents, now>>
    BY <1>9 DEF CancelUpTo
  <2>2. [chain EXCEPT !.minNonce[u] = n] \in Storage
    <3>1. [chain.minNonce EXCEPT ![u] = n] \in [Owners -> Int]
      BY <1>2, <1>7, <1>9 DEF Storage
    <3>2. PICK x \in [Owners -> Int] : x = [chain.minNonce EXCEPT ![u] = n]
      BY <3>1
    <3>3. [chain EXCEPT !.minNonce = x] \in Storage
      BY <1>2 DEF Storage
    <3> QED
      BY <3>2, <3>3
  <2>3. [type |-> "NoncesCancelledUpTo", owner |-> u, nonce |-> n] \in Event
    BY <1>7, <1>9 DEF Event
  <2> QED
    BY <1>6, <2>1, <2>2, <2>3
<1> QED
  BY <1>4, <1>5, <1>8, <1>9

\* A tick's matches, reserved.
LEMMA MatchingKeeps ==
  ASSUME VenueInv, (\E m \in Markets : MatchMarket(m)) \/ ReserveAndSend
  PROVE  VenueInv'
<1>1. Typed /\ Planned
  BY DEF VenueInv
<1>2. matcher \in [offer : Seq(Fill), queue : Seq(Fill), fills : Nat] /\ Tables(db, now)
  BY <1>1 DEF Typed
<1>3. ASSUME NEW m \in Markets, MatchMarket(m) PROVE VenueInv'
  <2>1. PICK offer \in Seq(Match) : offer = offered(m)
    BY <1>1, OfferedIs
  <2>2. PICK sent : sent = [k \in 1..Len(offer) |->
                              [ maker |-> offer[k].maker, taker |-> offer[k].taker,
                                size |-> offer[k].size, price |-> offer[k].price,
                                marketId |-> m, id |-> matcher.fills + k ]]
    OBVIOUS
  <2>3. /\ matcher' = [matcher EXCEPT !.offer = sent, !.fills = @ + Len(offer)]
        /\ UNCHANGED <<db, chain, log, requests, keeper, intents, now, moves>>
    BY <1>3, <2>1, <2>2 DEF MatchMarket
  <2>4. sent \in Seq(Fill)
    <3>1. Len(offer) \in Nat /\ \A k \in 1..Len(offer) : offer[k] \in Match
      OBVIOUS
    <3>2. ASSUME NEW k \in 1..Len(offer)
          PROVE  [ maker |-> offer[k].maker, taker |-> offer[k].taker, size |-> offer[k].size,
                   price |-> offer[k].price, marketId |-> m, id |-> matcher.fills + k ] \in Fill
      <4>1. matcher.fills + k \in Int
        BY <1>2
      <4>2. /\ offer[k].maker \in Int /\ offer[k].taker \in Int /\ offer[k].size \in Nat
            /\ offer[k].price \in Nat
        BY <3>1 DEF Match
      <4> QED
        BY <4>1, <4>2 DEF Fill
    <3>3. sent \in [1..Len(offer) -> Fill]
      BY <2>2, <3>2
    <3> QED
      BY <3>1, <3>3
  <2>5. matcher' \in [offer : Seq(Fill), queue : Seq(Fill), fills : Nat]
    <3>1. matcher.fills + Len(offer) \in Nat
      BY <1>2
    <3> QED
      BY <1>2, <2>3, <2>4, <3>1
  <2>6. Typed'
    BY <1>1, <2>3, <2>5 DEF Typed
  <2>7. Planned'
    BY <1>1, <2>3 DEF Planned
  <2> QED
    BY <2>6, <2>7 DEF VenueInv
<1>4. CASE ReserveAndSend
  <2>1. /\ db' = [db EXCEPT !.fills = @ \cup Range(matcher.offer)]
        /\ matcher' = [matcher EXCEPT !.offer = <<>>, !.queue = matcher.offer]
        /\ UNCHANGED <<chain, log, requests, keeper, intents, now, moves>>
    BY <1>4 DEF ReserveAndSend
  <2>2. PICK S : S = db.fills \cup Range(matcher.offer)
    OBVIOUS
  <2>3. S \subseteq Fill /\ IsFiniteSet(S)
    <3>1. Range(matcher.offer) \subseteq Fill /\ IsFiniteSet(Range(matcher.offer))
      BY <1>2, SentIs
    <3>2. db.fills \subseteq Fill /\ IsFiniteSet(db.fills)
      BY <1>2 DEF Tables
    <3> QED
      BY <2>2, <3>1, <3>2, FS_Union
  <2>4. Tables(db', now)
    <3>1. \A owner \in Owners : Tables([db EXCEPT !.fills = S], now)
      <4>1. 0 \in Int
        OBVIOUS
      <4> QED
        BY <1>2, <2>3, <4>1, ColumnsChange
    <3>2. BACKSTOP \in Owners
      BY DEF Owners
    <3> QED
      BY <2>1, <2>2, <3>1, <3>2
  <2>5. matcher' \in [offer : Seq(Fill), queue : Seq(Fill), fills : Nat]
    <3>1. <<>> \in Seq(Fill)
      OBVIOUS
    <3> QED
      BY <1>2, <2>1, <3>1
  <2>6. Typed'
    BY <1>1, <2>1, <2>4, <2>5 DEF Typed
  <2>7. Planned'
    BY <1>1, <2>1 DEF Planned
  <2> QED
    BY <2>6, <2>7 DEF VenueInv
<1> QED
  BY <1>3, <1>4

\* A fill settled on chain.
LEMMA SettledIs ==
  ASSUME NEW c \in Storage, NEW f \in Fill
  PROVE  settled(c, f) \in Storage
<1> DEFINE maker == db.orders[f.maker]
           taker == db.orders[f.taker]
           moved(o) == IF o.isLong THEN f.size ELSE -f.size
<1>1. f.size \in Nat /\ f.price \in Nat /\ f.size <= f.size /\ f.marketId \in Markets
  BY DEF Fill
<1>2. PICK n \in Nat : n = notionalOf(f.size, f.price)
  BY <1>1, NotionalMonotone
<1>3. PICK a \in Int, b \in Int : a = moved(maker) /\ b = moved(taker)
  BY <1>1
<1> HIDE DEF moved, maker, taker
<1>4. /\ c.filled \in [Hashes -> Int] /\ c.positions \in [Owners -> [Markets -> Int]]
      /\ c.unwound \in Nat
  BY DEF Storage
<1>5. PICK f1 : f1 = [c.filled EXCEPT ![f.maker] = @ + f.size]
  OBVIOUS
<1>6. PICK f2 : f2 = [f1 EXCEPT ![f.taker] = @ + f.size]
  OBVIOUS
<1>7. f1 \in [Hashes -> Int] /\ f2 \in [Hashes -> Int]
  <2>1. \A h \in Hashes : c.filled[h] + f.size \in Int
    BY <1>1, <1>4
  <2>2. f1 \in [Hashes -> Int]
    BY <1>4, <1>5, <2>1
  <2>3. \A h \in Hashes : f1[h] + f.size \in Int
    BY <1>1, <2>2
  <2> QED
    BY <1>6, <2>2, <2>3
<1>8. ASSUME NEW p \in [Owners -> [Markets -> Int]], NEW u, NEW x \in Int
      PROVE  applyFill(p, u, f.marketId, x) \in [Owners -> [Markets -> Int]]
  <2>1. ASSUME NEW v \in Owners PROVE [p[v] EXCEPT ![f.marketId] = @ + x] \in [Markets -> Int]
    <3>1. PICK q \in [Markets -> Int] : q = p[v]
      OBVIOUS
    <3>2. q[f.marketId] + x \in Int
      BY <1>1
    <3> QED
      BY <3>1, <3>2
  <2> QED
    BY <2>1 DEF applyFill
<1>9. PICK p1 : p1 = applyFill(c.positions, maker.owner, f.marketId, a)
  OBVIOUS
<1>10. PICK p2 : p2 = applyFill(p1, taker.owner, f.marketId, b)
  OBVIOUS
<1>11. p1 \in [Owners -> [Markets -> Int]] /\ p2 \in [Owners -> [Markets -> Int]]
  BY <1>4, <1>8, <1>9, <1>10
<1>12. PICK w \in Nat : w = IF BACKSTOP \in {maker.owner, taker.owner} THEN c.unwound + n ELSE c.unwound
  <2>1. c.unwound + n \in Nat
    BY <1>4
  <2> QED
    BY <1>4, <2>1
<1>13. settled(c, f) = [c EXCEPT !.filled = f2, !.positions = p2, !.unwound = w]
  <2>1. consumed(c, f) = f2
    BY <1>5, <1>6 DEF consumed
  <2> QED
    BY <1>2, <1>3, <1>9, <1>10, <1>12, <2>1 DEF settled, maker, taker, moved
<1>14. [c EXCEPT !.filled = f2, !.positions = p2, !.unwound = w] \in Storage
  BY <1>7, <1>11 DEF Storage
<1> QED
  BY <1>13, <1>14

\* The chain's answer to a fill.
LEMMA SettlingKeeps ==
  ASSUME VenueInv, SettleFill
  PROVE  VenueInv'
<1>1. Typed /\ Planned
  BY DEF VenueInv
<1>2. /\ matcher \in [offer : Seq(Fill), queue : Seq(Fill), fills : Nat] /\ Tables(db, now)
      /\ chain \in Storage /\ log \in Seq(Event)
  BY <1>1 DEF Typed
<1>3. /\ matcher.queue # <<>> /\ matcher' = [matcher EXCEPT !.queue = Tail(@)]
      /\ UNCHANGED <<requests, keeper, intents, now, moves>>
  BY DEF SettleFill
<1>4. PICK f \in Fill : f = Head(matcher.queue)
  BY <1>2, <1>3, SentIs
<1>5. matcher' \in [offer : Seq(Fill), queue : Seq(Fill), fills : Nat]
  <2>1. Tail(matcher.queue) \in Seq(Fill)
    BY <1>2, <1>3, SentIs
  <2> QED
    BY <1>2, <1>3, <2>1
<1>6. chain' \in Storage /\ log' \in Seq(Event) /\ Tables(db', now)
  <2>1. CASE /\ chain' = settled(chain, f)
             /\ log' = Append(log, [type |-> "FillSettled", fill |-> f])
             /\ UNCHANGED db
    <3>1. chain' \in Storage
      BY <1>2, <2>1, SettledIs
    <3>2. [type |-> "FillSettled", fill |-> f] \in Event
      BY DEF Event
    <3>3. log' \in Seq(Event)
      BY <1>2, <2>1, <3>2
    <3> QED
      BY <1>2, <2>1, <3>1, <3>3
  <2>2. CASE db' = [db EXCEPT !.fills = @ \ {f}] /\ UNCHANGED <<chain, log>>
    <3>1. PICK S : S = db.fills \ {f}
      OBVIOUS
    <3>2. S \subseteq Fill /\ IsFiniteSet(S)
      BY <1>2, <3>1, FS_Subset DEF Tables
    <3>3. 0 \in Int /\ BACKSTOP \in Owners
      BY DEF Owners
    <3>4. Tables([db EXCEPT !.fills = S], now)
      BY <1>2, <3>2, <3>3, ColumnsChange
    <3> QED
      BY <1>2, <2>2, <3>1, <3>4
  <2> QED
    BY <1>4, <2>1, <2>2 DEF SettleFill
<1>7. Typed'
  BY <1>1, <1>3, <1>5, <1>6 DEF Typed
<1>8. Planned'
  BY <1>1, <1>3 DEF Planned
<1> QED
  BY <1>7, <1>8 DEF VenueInv

\* An event indexed.
LEMMA IndexingKeeps ==
  ASSUME VenueInv, IndexEvent
  PROVE  VenueInv'
<1>1. Typed /\ Planned
  BY DEF VenueInv
<1>2. Tables(db, now) /\ log \in Seq(Event)
  BY <1>1 DEF Typed
<1>3. /\ log # <<>> /\ log' = Tail(log)
      /\ UNCHANGED <<chain, requests, matcher, keeper, intents, now, moves>>
  BY DEF IndexEvent
<1>4. PICK e \in Event : e = Head(log)
  BY <1>2, <1>3, RangeIs
<1>5. log' \in Seq(Event)
  BY <1>2, <1>3, RangeIs
<1>6. db' = CASE e.type = "FillSettled"         -> applyFillSettled(db, e.fill)
              [] e.type = "OrderCancelled"      -> applyOrderCancelled(db, e.owner, e.nonce)
              [] e.type = "NoncesCancelledUpTo" -> applyNoncesCancelledUpTo(db, e.owner, e.nonce)
              [] e.type = "MarketActiveSet"     -> [db EXCEPT !.active[e.market] = FALSE]
  BY <1>4 DEF IndexEvent
<1>7. Tables(db', now)
  <2>1. CASE e \in [type : {"FillSettled"}, fill : Fill]
    <3>1. e.type = "FillSettled" /\ e.fill \in Fill
      BY <2>1
    <3>2. db' = applyFillSettled(db, e.fill)
      BY <1>6, <3>1
    <3> QED
      BY <1>2, <3>1, <3>2, SettledKeeps
  <2>2. CASE e \in [type : {"OrderCancelled", "NoncesCancelledUpTo"}, owner : Traders, nonce : Int]
    <3>1. e.type \in {"OrderCancelled", "NoncesCancelledUpTo"} /\ e.owner \in Owners /\ e.nonce \in Int
      BY <2>2 DEF Owners
    <3>2. CASE e.type = "OrderCancelled"
      <4>1. db' = applyOrderCancelled(db, e.owner, e.nonce)
        BY <1>6, <3>2
      <4> QED
        BY <1>2, <4>1, CancelKeeps DEF applyOrderCancelled, cancelOrderByNonce
    <3>3. CASE e.type = "NoncesCancelledUpTo"
      <4>1. db' = applyNoncesCancelledUpTo(db, e.owner, e.nonce)
        BY <1>6, <3>3
      <4> QED
        BY <1>2, <3>1, <4>1, IndexedKeeps
    <3> QED
      BY <3>1, <3>2, <3>3
  <2>3. CASE e \in [type : {"MarketActiveSet"}, market : Markets]
    <3>1. e.type = "MarketActiveSet"
      BY <2>3
    <3>2. db' = [db EXCEPT !.active[e.market] = FALSE]
      BY <1>6, <3>1
    <3>3. 0 \in Int /\ BACKSTOP \in Owners /\ {} \subseteq Fill /\ IsFiniteSet({})
      BY FS_EmptySet DEF Owners
    <3>4. Tables([db EXCEPT !.active[e.market] = FALSE], now)
      BY <1>2, <3>3, ColumnsChange
    <3> QED
      BY <3>2, <3>4
  <2> QED
    BY <2>1, <2>2, <2>3 DEF Event
<1>8. Typed'
  BY <1>1, <1>3, <1>5, <1>7 DEF Typed
<1>9. Planned'
  BY <1>1, <1>3 DEF Planned
<1> QED
  BY <1>8, <1>9 DEF VenueInv

\* The unwinder's orders that are open.
LEMMA OpenOrdersAre ==
  ASSUME Typed, NEW t
  PROVE  /\ openOrders(t) \subseteq Row /\ IsFiniteSet(openOrders(t))
         /\ \A o \in openOrders(t) : o.marketId \in Markets /\ o.filledSize <= o.size
<1> DEFINE S == {x \in DOMAIN db.orders : /\ db.orders[x].owner = BACKSTOP
                                          /\ db.orders[x].status \in LIVE_STATUSES
                                          /\ db.orders[x].expiry > t}
           f == [h \in S |-> db.orders[h]]
<1>1. Tables(db, now)
  BY DEF Typed
<1>2. IsFiniteSet(S) /\ S \subseteq DOMAIN db.orders
  BY <1>1, FS_Subset DEF Tables
<1>3. openOrders(t) = {f[h] : h \in S}
  BY DEF openOrders
<1>4. \A h \in S : /\ f[h] \in Row /\ f[h].marketId \in Markets /\ f[h].filledSize <= f[h].size
  BY <1>1, <1>2 DEF Tables, Stored
<1>5. IsFiniteSet({f[h] : h \in S})
  <2>1. DOMAIN f = S /\ f = [h \in S |-> f[h]]
    OBVIOUS
  <2> HIDE DEF f, S
  <2> QED
    BY <1>2, <2>1, ImageFinite
<1> QED
  <2> HIDE DEF f, S
  <2> QED
    BY <1>3, <1>4, <1>5

\* What the unwinder plans on.
LEMMA PlanInputIs ==
  ASSUME Typed, keeper.pc = "plan"
  PROVE  PlanInput(planInput)
<1>1. Tables(db, now) /\ chain \in Storage /\ Memory(keeper)
  BY DEF Typed
<1>2. keeper.limits \in Limits /\ keeper.positions \in [Markets -> Int]
  BY <1>1 DEF Memory
<1>3. chain.index \in [Markets -> Nat]
  BY <1>1 DEF Storage
<1>4. PICK open : open = openOrders(keeper.nowSec)
  OBVIOUS
<1>5. /\ open \subseteq Row /\ IsFiniteSet(open)
      /\ \A o \in open : o.marketId \in Markets /\ o.filledSize <= o.size
  BY <1>4, OpenOrdersAre
<1>6. PICK least : least = [m \in Markets |-> minFillNotionalOf(m)]
  OBVIOUS
<1>7. least \in [Markets -> Nat]
  BY <1>6, MarketsAssumption DEF minFillNotionalOf
<1>8. PICK in : in = planInput
  OBVIOUS
<1>9. /\ in.limits = keeper.limits /\ in.positions = keeper.positions /\ in.index = chain.index
      /\ in.open = open /\ in.minFillNotional = least
  BY <1>4, <1>6, <1>8 DEF planInput
<1>10. PlanInput(in)
  BY <1>2, <1>3, <1>5, <1>7, <1>9 DEF PlanInput
<1> QED
  BY <1>8, <1>10

\* The unwinder between ticks.
LEMMA IdleIs ==
  Memory(Idle) /\ Idle.pc = "idle"
<1>1. <<>> \in Seq(Slice)
  OBVIOUS
<1> QED
  BY <1>1 DEF Memory, Memories, Idle

\* The caps are about four fields.
LEMMA CapsSame ==
  ASSUME NEW k, WithinCaps(k), NEW k2, k2.limits = k.limits, k2.index = k.index,
         k2.open = k.open, k2.slices = k.slices
  PROVE  WithinCaps(k2)
  BY Zenon DEF WithinCaps

\* A tick begins.
LEMMA BeginKeeps ==
  ASSUME VenueInv, BeginUnwind
  PROVE  VenueInv'
<1>1. Typed /\ Planned /\ keeper.pc = "idle"
      /\ UNCHANGED <<db, chain, log, requests, matcher, now, moves>>
  BY DEF VenueInv, BeginUnwind
<1>2. Memory(keeper) /\ chain \in Storage /\ now \in Nat
  BY <1>1 DEF Typed
<1>3. CASE UNCHANGED keeper
  <2>1. Typed' /\ Planned'
    BY <1>1, <1>3 DEF Typed, Planned
  <2> QED
    BY <2>1 DEF VenueInv
<1>4. CASE keeper' = [keeper EXCEPT !.pc = "plan", !.nowSec = now, !.limits = unwinderReads.limits,
                                    !.positions = unwinderReads.positions]
  <2>1. PICK limits \in Limits : limits = unwinderReads.limits
    <3>1. unwinderReads.limits = backstopLimits
      BY DEF unwinderReads
    <3>2. chain.unwound \in Nat
      BY <1>2 DEF Storage
    <3>3. backstopLimits \in Limits
      BY <3>2, MarketsAssumption DEF backstopLimits, Limits
    <3> QED
      BY <3>1, <3>3
  <2>2. PICK positions \in [Markets -> Int] : positions = unwinderReads.positions
    BY <1>2 DEF unwinderReads, Storage, Owners
  <2>3. PICK k : k = keeper'
    OBVIOUS
  <2>4. k \in Memories /\ k.pc = "plan" /\ k.limits = limits /\ k.positions = positions
    <3>1. keeper \in Memories /\ k = [keeper EXCEPT !.pc = "plan", !.nowSec = now, !.limits = limits,
                                                   !.positions = positions]
      BY <1>2, <1>4, <2>1, <2>2, <2>3 DEF Memory
    <3> QED
      BY <1>2, <3>1 DEF Memories
  <2>5. Memory(k) /\ k.pc = "plan"
    BY <2>4 DEF Memory
  <2>6. Typed'
    BY <1>1, <2>3, <2>5 DEF Typed
  <2>7. Planned'
    BY <2>3, <2>5 DEF Planned
  <2> QED
    BY <2>6, <2>7 DEF VenueInv
<1> QED
  BY <1>3, <1>4 DEF BeginUnwind

\* A tick plans.
LEMMA PlanningKeeps ==
  ASSUME VenueInv, PlanUnwind
  PROVE  VenueInv'
<1>1. Typed /\ Planned /\ keeper.pc = "plan"
      /\ UNCHANGED <<db, chain, log, requests, matcher, intents, now, moves>>
  BY DEF VenueInv, PlanUnwind
<1>2. Memory(keeper) /\ chain \in Storage
  BY <1>1 DEF Typed
<1>3. keeper.limits \in Limits /\ keeper.positions \in [Markets -> Int]
      /\ chain.index \in [Markets -> Nat]
  BY <1>1, <1>2 DEF Memory, Storage
<1>4. PICK in : in = planInput /\ PlanInput(in)
  BY <1>1, PlanInputIs
<1>5. PICK open : /\ open = openOrders(keeper.nowSec) /\ open \subseteq Row /\ IsFiniteSet(open)
                  /\ \A o \in open : o.marketId \in Markets /\ o.filledSize <= o.size
  BY <1>1, OpenOrdersAre
<1>6. in.limits = keeper.limits /\ in.index = chain.index /\ in.open = open
  BY <1>4, <1>5 DEF planInput
<1>7. PICK plan : plan = planUnwind(in)
  OBVIOUS
<1>8. PICK k : k = keeper'
  OBVIOUS
<1>9. k = IF plan.slices = <<>> THEN Idle
          ELSE [keeper EXCEPT !.pc = "post", !.slices = plan.slices,
                              !.open = openOrders(keeper.nowSec), !.index = chain.index]
  BY <1>4, <1>7, <1>8 DEF PlanUnwind
<1>10. CASE plan.slices = <<>>
  <2>1. Memory(k) /\ k.pc = "idle"
    BY <1>9, <1>10, IdleIs
  <2>2. Typed'
    BY <1>1, <1>8, <2>1 DEF Typed
  <2>3. Planned'
    BY <1>8, <2>1 DEF Planned
  <2> QED
    BY <2>2, <2>3 DEF VenueInv
<1>11. CASE plan.slices # <<>>
  <2>0. PICK slices \in Seq(Slice), index \in [Markets -> Nat] : slices = plan.slices /\ index = chain.index
    BY <1>3, <1>4, <1>7, <1>11, PlannedIs
  <2>1. /\ k \in Memories /\ k.pc = "post" /\ k.limits = keeper.limits /\ k.positions = keeper.positions
        /\ k.open = open /\ k.index = index /\ k.slices = slices
    <3>1. keeper \in Memories /\ k = [keeper EXCEPT !.pc = "post", !.slices = slices, !.open = open,
                                                   !.index = index]
      BY <1>2, <1>5, <1>9, <1>11, <2>0 DEF Memory
    <3> QED
      BY <1>5, <3>1 DEF Memories
  <2>2. /\ k.limits = in.limits /\ k.index = in.index /\ k.open = in.open /\ k.slices = plan.slices
    BY <1>6, <2>0, <2>1
  <2>3. WithinCaps(k)
    BY <1>4, <1>7, <1>11, <2>2, PlanWithinCaps
  <2>4. Memory(k)
    BY <1>3, <1>5, <1>11, <2>0, <2>1 DEF Memory
  <2>5. Typed'
    BY <1>1, <1>8, <2>4 DEF Typed
  <2>6. Planned'
    BY <1>8, <2>3 DEF Planned
  <2> QED
    BY <2>5, <2>6 DEF VenueInv
<1> QED
  BY <1>10, <1>11

\* A slice is posted, or refused.
LEMMA PostingKeeps ==
  ASSUME VenueInv, PostSlice
  PROVE  VenueInv'
<1>1. Typed /\ Planned /\ keeper.pc = "post"
      /\ UNCHANGED <<chain, log, requests, matcher, intents, now, moves>>
  BY DEF VenueInv, PostSlice
<1>2. Memory(keeper) /\ Tables(db, now) /\ now \in Nat
  BY <1>1 DEF Typed
<1>3. /\ keeper.limits \in Limits /\ keeper.positions \in [Markets -> Int]
      /\ keeper.index \in [Markets -> Nat] /\ IsFiniteSet(keeper.open) /\ keeper.open \subseteq Row
      /\ \A o \in keeper.open : o.marketId \in Markets /\ o.filledSize <= o.size
      /\ keeper.slices \in Seq(Slice) /\ keeper.slices # <<>> /\ keeper.nowSec \in Nat
  BY <1>1, <1>2 DEF Memory, Memories
<1>4. PICK s \in Slice : s = Head(keeper.slices)
  BY <1>3, RangeIs
<1>5. PICK rest \in Seq(Slice) : rest = Tail(keeper.slices)
  BY <1>3, RangeIs
<1>6. PICK n \in Nat : n = nextUnwind
  <2>1. IsFiniteSet({h \in DOMAIN db.orders : db.orders[h].owner = BACKSTOP})
    BY <1>2, FS_Subset DEF Tables
  <2>2. Cardinality({h \in DOMAIN db.orders : db.orders[h].owner = BACKSTOP}) \in Nat
    BY <2>1, FS_CardinalityType
  <2>3. PICK c \in Nat : c = Cardinality({h \in DOMAIN db.orders : db.orders[h].owner = BACKSTOP})
    BY <2>2
  <2>4. nextUnwind = c + 1 /\ c + 1 \in Nat
    BY <2>3 DEF nextUnwind
  <2> QED
    BY <2>4
<1>7. PICK expiry \in Int : expiry = keeper.nowSec + UNWIND_TTL
  BY <1>3, MarketsAssumption
<1>8. PICK o : o = unwindOrder(s, expiry, n)
  OBVIOUS
<1>9. /\ Signed(o) /\ o.size \in Nat /\ o.limitPrice \in Nat /\ o.marketId \in Markets
      /\ o.hash = n /\ o.expiry \in Int
  <2>1. /\ s.marketId \in Markets /\ s.isLong \in BOOLEAN /\ s.size \in Nat /\ s.limitPrice \in Nat
    BY DEF Slice
  <2>2. s.marketId \in Int /\ n \in Int /\ s.size \in Int /\ s.limitPrice \in Int
    <3>1. s.marketId \in Nat
      BY <2>1, MarketsAssumption
    <3> QED
      BY <2>1, <3>1
  <2>3. o = [ hash |-> n, owner |-> BACKSTOP, marketId |-> s.marketId, isLong |-> s.isLong,
              size |-> s.size, limitPrice |-> s.limitPrice, reduceOnly |-> TRUE, nonce |-> n,
              expiry |-> expiry ]
    BY <1>8 DEF unwindOrder
  <2>4. Signed(o)
    BY <2>1, <2>2, <2>3 DEF Signed, Owners
  <2> QED
    BY <2>1, <2>3, <2>4
<1>10. PICK k : k = keeper'
  OBVIOUS
<1>11. CASE submitUnwind(o) = "ok"
  <2>1. /\ db' = insertOrder(db, o, now)
        /\ k = [keeper EXCEPT !.pc = "record", !.slices = rest, !.posted = o.hash]
    BY <1>4, <1>5, <1>6, <1>7, <1>8, <1>10, <1>11 DEF PostSlice
  <2>2. Accepted(signUnwindOrder(o), now)
    <3>0. PICK e : e = signUnwindOrder(o)
      OBVIOUS
    <3>1. e = signUnwindOrder(o) /\ e.order = o
      BY <3>0 DEF signUnwindOrder
    <3>2. PICK answer : answer = IF isValidSignature(o) THEN "valid" ELSE "invalid"
      OBVIOUS
    <3>3. validateOrderSubmission(db, e, now, answer) = "ok"
      BY <1>11, <3>1, <3>2 DEF submitUnwind
    <3>4. e.order.size \in Int /\ e.order.limitPrice \in Int /\ e.order.expiry \in Int
      BY <1>9, <3>1
    <3> QED
      BY <1>2, <3>1, <3>3, <3>4, AcceptedIs
  <2>3. o.expiry <= now + MAX_ORDER_TTL
    BY <2>2 DEF Accepted, signUnwindOrder
  <2>4. Tables(db', now)
    BY <1>2, <1>9, <2>1, <2>3, InsertKeeps
  <2>5. /\ k \in Memories /\ k.pc = "record" /\ k.limits = keeper.limits
        /\ k.positions = keeper.positions /\ k.open = keeper.open /\ k.index = keeper.index
        /\ k.slices = rest
    <3>1. PICK x \in Int : x = n
      OBVIOUS
    <3>2. keeper \in Memories /\ k = [keeper EXCEPT !.pc = "record", !.slices = rest, !.posted = x]
      BY <1>2, <1>9, <2>1, <3>1 DEF Memory
    <3> QED
      BY <3>2 DEF Memories
  <2>6. Memory(k)
    BY <1>3, <2>5 DEF Memory
  <2>7. WithinCaps(k)
    <3>1. WithinCaps(keeper)
      BY <1>1 DEF Planned
    <3>2. k.limits = keeper.limits /\ k.index = keeper.index /\ k.open = keeper.open
          /\ k.slices = Tail(keeper.slices)
      BY <1>5, <2>5
    <3> QED
      BY <1>3, <3>1, <3>2, RestWithinCaps
  <2>8. Typed'
    BY <1>1, <1>10, <2>4, <2>6 DEF Typed
  <2>9. Planned'
    BY <1>10, <2>7 DEF Planned
  <2> QED
    BY <2>8, <2>9 DEF VenueInv
<1>12. CASE submitUnwind(o) # "ok"
  <2>1. /\ UNCHANGED db
        /\ k = IF rest = <<>> THEN Idle ELSE [keeper EXCEPT !.slices = rest]
    BY <1>4, <1>5, <1>6, <1>7, <1>8, <1>10, <1>12 DEF PostSlice
  <2>2. Memory(k) /\ (k.pc \in {"post", "record"} => WithinCaps(k))
    <3>1. CASE rest = <<>>
      BY <2>1, <3>1, IdleIs
    <3>2. CASE rest # <<>>
      <4>1. /\ k \in Memories /\ k.pc = "post" /\ k.limits = keeper.limits
            /\ k.positions = keeper.positions /\ k.open = keeper.open /\ k.index = keeper.index
            /\ k.slices = rest
        <5>1. keeper \in Memories /\ k = [keeper EXCEPT !.slices = rest]
          BY <1>2, <2>1, <3>2 DEF Memory
        <5> QED
          BY <1>1, <5>1 DEF Memories
      <4>2. Memory(k)
        BY <1>3, <3>2, <4>1 DEF Memory
      <4>3. WithinCaps(keeper)
        BY <1>1 DEF Planned
      <4>4. k.limits = keeper.limits /\ k.index = keeper.index /\ k.open = keeper.open
            /\ k.slices = Tail(keeper.slices)
        BY <1>5, <4>1
      <4> QED
        BY <1>3, <4>2, <4>3, <4>4, RestWithinCaps
    <3> QED
      BY <3>1, <3>2
  <2>3. Typed'
    BY <1>1, <1>2, <1>10, <2>1, <2>2 DEF Typed
  <2>4. Planned'
    BY <1>10, <2>2 DEF Planned
  <2> QED
    BY <2>3, <2>4 DEF VenueInv
<1> QED
  BY <1>11, <1>12

\* The intent is recorded, or the unwinder is restarted.
LEMMA RecordingKeeps ==
  ASSUME VenueInv, RecordIntent \/ CrashUnwinder
  PROVE  VenueInv'
<1>1. Typed /\ Planned /\ UNCHANGED <<db, chain, log, requests, matcher, now>>
  BY DEF VenueInv, RecordIntent, CrashUnwinder
<1>2. Memory(keeper)
  BY <1>1 DEF Typed
<1>3. PICK k : k = keeper'
  OBVIOUS
<1>4. Memory(k) /\ (k.pc \in {"post", "record"} => WithinCaps(k))
  <2>1. CASE k = Idle
    BY <2>1, IdleIs
  <2>2. CASE /\ keeper.pc = "record" /\ keeper.slices # <<>>
             /\ k = [keeper EXCEPT !.pc = "post", !.posted = 0]
    <3>1. /\ k \in Memories /\ k.pc = "post" /\ k.limits = keeper.limits
          /\ k.positions = keeper.positions /\ k.open = keeper.open /\ k.index = keeper.index
          /\ k.slices = keeper.slices
      <4>1. PICK x \in Int : x = 0
        OBVIOUS
      <4>2. keeper \in Memories /\ k = [keeper EXCEPT !.pc = "post", !.posted = x]
        BY <1>2, <2>2, <4>1 DEF Memory
      <4> QED
        BY <4>2 DEF Memories
    <3>2. Memory(k)
      BY <1>2, <2>2, <3>1 DEF Memory
    <3>3. WithinCaps(keeper)
      BY <1>1, <2>2 DEF Planned
    <3>4. /\ k.limits = keeper.limits /\ k.index = keeper.index /\ k.open = keeper.open
          /\ k.slices = keeper.slices
      BY <3>1
    <3>5. WithinCaps(k)
      BY <3>3, <3>4, CapsSame
    <3> QED
      BY <3>2, <3>5
  <2> QED
    BY <1>3, <2>1, <2>2 DEF RecordIntent, CrashUnwinder
<1>5. Typed'
  BY <1>1, <1>3, <1>4 DEF Typed
<1>6. Planned'
  BY <1>3, <1>4 DEF Planned
<1> QED
  BY <1>5, <1>6 DEF VenueInv

\* The environment: prices move, trading is halted, time passes.
LEMMA EnvironmentKeeps ==
  ASSUME VenueInv,
         \/ \E m \in Markets, p \in Prices : MoveIndex(m, p)
         \/ \E r \in Halts : Halt(r)
         \/ Tick
  PROVE  VenueInv'
<1>1. Typed /\ Planned
  BY DEF VenueInv
<1>2. Tables(db, now) /\ chain \in Storage /\ log \in Seq(Event) /\ now \in Nat
  BY <1>1 DEF Typed
<1>3. ASSUME NEW m \in Markets, NEW p \in Prices, MoveIndex(m, p) PROVE VenueInv'
  <2>1. /\ chain' = [chain EXCEPT !.index[m] = p]
        /\ UNCHANGED <<db, log, requests, matcher, keeper, intents, now>>
    BY <1>3 DEF MoveIndex
  <2>2. chain' \in Storage
    <3>1. [chain.index EXCEPT ![m] = p] \in [Markets -> Nat]
      BY <1>2, MarketsAssumption DEF Storage
    <3>2. PICK x \in [Markets -> Nat] : x = [chain.index EXCEPT ![m] = p]
      BY <3>1
    <3>3. [chain EXCEPT !.index = x] \in Storage
      BY <1>2 DEF Storage
    <3> QED
      BY <2>1, <3>2, <3>3
  <2>3. Typed' /\ Planned'
    BY <1>1, <2>1, <2>2 DEF Typed, Planned
  <2> QED
    BY <2>3 DEF VenueInv
<1>4. ASSUME NEW r \in Halts, Halt(r) PROVE VenueInv'
  <2> DEFINE S == {[type |-> "MarketActiveSet", market |-> m] : m \in Markets}
             n == Cardinality(S)
  <2>1. /\ chain' = [chain EXCEPT !.halted = @ \cup {r}]
        /\ log' \in {log \o SetToSeq(S), log}
        /\ UNCHANGED <<db, requests, matcher, keeper, intents, now>>
    BY <1>4 DEF Halt
  <2>2. S \subseteq Event /\ IsFiniteSet(S)
    <3> DEFINE f == [m \in Markets |-> [type |-> "MarketActiveSet", market |-> m]]
    <3>1. DOMAIN f = Markets /\ f = [m \in Markets |-> f[m]] /\ S = {f[m] : m \in Markets}
      OBVIOUS
    <3>2. S \subseteq Event
      BY DEF Event
    <3> HIDE DEF f, S
    <3> QED
      BY <3>1, <3>2, ImageFinite, MarketsAssumption
  <2>3. SetToSeq(S) \in Seq(Event)
    <3>1. n \in Nat
      BY <2>2, FS_CardinalityType
    <3>2. PICK k \in Nat : \E g \in Bijection(1..k, S) : TRUE
      BY <2>2, FS_NatBijection DEF ExistsBijection
    <3>3. n = k
      BY <3>2, FS_CountingElements DEF ExistsBijection
    <3>4. PICK g \in [1..n -> S] : IsInjective(g)
      BY <3>2, <3>3 DEF Bijection, Injection
    <3>5. SetToSeq(S) \in [1..n -> S]
      <4> HIDE DEF S, n
      <4>1. \E x \in [1..Cardinality(S) -> S] : IsInjective(x)
        BY <3>4 DEF n
      <4> QED
        BY <4>1 DEF SetToSeq, n
    <3> HIDE DEF S, n
    <3> QED
      BY <2>2, <3>1, <3>5
  <2> HIDE DEF S, n
  <2>4. log' \in Seq(Event)
    <3>1. PICK q \in Seq(Event) : q = SetToSeq(S)
      BY <2>3
    <3>2. PICK l \in Seq(Event) : l = log
      BY <1>2
    <3>3. l \o q \in Seq(Event)
      OBVIOUS
    <3> QED
      BY <2>1, <3>1, <3>2, <3>3
  <2>5. chain' \in Storage
    <3>1. PICK x \in SUBSET Halts : x = chain.halted \cup {r}
      BY <1>2 DEF Storage
    <3>2. [chain EXCEPT !.halted = x] \in Storage
      BY <1>2 DEF Storage
    <3> QED
      BY <2>1, <3>1, <3>2
  <2>6. Typed' /\ Planned'
    BY <1>1, <2>1, <2>4, <2>5 DEF Typed, Planned
  <2> QED
    BY <2>6 DEF VenueInv
<1>5. CASE Tick
  <2>1. now' = now + 1 /\ UNCHANGED <<db, chain, log, requests, matcher, keeper, intents, moves>>
    BY <1>5 DEF Tick
  <2>2. Tables(db, now + 1)
    BY <1>2, TablesLater
  <2>3. ASSUME NEW s \in requests PROVE Accepted(s, now + 1)
    <3>1. Accepted(s, now) /\ s \in Submissions
      BY <1>1 DEF Typed
    <3>2. s.order.expiry \in Int /\ MAX_ORDER_TTL \in Int
      BY <3>1, SubmittedIs, MarketsAssumption DEF Requested
    <3> QED
      BY <1>2, <3>1, <3>2 DEF Accepted
  <2>4. Typed'
    BY <1>1, <1>2, <2>1, <2>2, <2>3 DEF Typed
  <2>5. Planned'
    BY <1>1, <2>1 DEF Planned
  <2> QED
    BY <2>4, <2>5 DEF VenueInv
<1> QED
  BY <1>3, <1>4, <1>5

\* Every step.
LEMMA VenueStep ==
  ASSUME VenueInv, [Next]_vars
  PROVE  VenueInv'
<1>1. CASE UNCHANGED vars
  <2>1. Typed' /\ Planned'
    BY <1>1 DEF VenueInv, vars, Typed, Planned
  <2> QED
    BY <2>1 DEF VenueInv
<1>2. CASE \E s \in Submissions : SubmitOrder(s) \/ InsertOrder(s)
  BY <1>2, SubmitKeeps
<1>3. CASE \/ \E u \in Traders, n \in Nonces : CancelOrder(u, n) \/ CancelOnChain(u, n)
           \/ \E u \in Traders, m \in Markets \cup {0} : CancelAll(u, m)
           \/ \E u \in Traders, n \in Nonces : CancelUpTo(u, n)
  BY <1>3, CancelsKeep
<1>4. CASE (\E m \in Markets : MatchMarket(m)) \/ ReserveAndSend
  BY <1>4, MatchingKeeps
<1>5. CASE SettleFill \/ IndexEvent
  BY <1>5, SettlingKeeps, IndexingKeeps
<1>6. CASE BeginUnwind \/ PlanUnwind \/ PostSlice
  BY <1>6, BeginKeeps, PlanningKeeps, PostingKeeps
<1>7. CASE RecordIntent \/ CrashUnwinder
  BY <1>7, RecordingKeeps
<1>8. CASE \/ \E m \in Markets, p \in Prices : MoveIndex(m, p)
           \/ \E r \in Halts : Halt(r)
           \/ Tick
  BY <1>8, EnvironmentKeeps
<1> QED
  BY <1>1, <1>2, <1>3, <1>4, <1>5, <1>6, <1>7, <1>8 DEF Next

-----------------------------------------------------------------------------
(* The theorems.                                                           *)

\* The venue's tables, the contracts' storage, the log, the requests in the API, the batch
\* in the matcher and the unwinder's memory stay what the code keeps there: no order is
\* filled past its size, none outlives the gateway's horizon, and the backstop's orders are
\* of known markets; and what the unwinder is posting is within the caps it read.
THEOREM VenueInvariant == Spec => []VenueInv
<1>1. Init => VenueInv
  BY TypedInit DEF VenueInv
<1>2. VenueInv /\ [Next]_vars => VenueInv'
  BY VenueStep
<1> QED
  BY <1>1, <1>2, PTL DEF Spec

\* In any book the venue can reach, matchOrders leaves no two orders that could still trade.
THEOREM NothingCrossed == Spec => []NothingLeftCrossed
<1>1. VenueInv => NothingLeftCrossed
  BY TypedUncrossed DEF VenueInv
<1> QED
  BY <1>1, VenueInvariant, PTL

\* And it never gives an order size that one ahead of it, still open for it, wanted.
THEOREM PriceTimePriority == Spec => []PriorityKept
<1>1. VenueInv => PriorityKept
  BY TypedPriority DEF VenueInv
<1> QED
  BY <1>1, VenueInvariant, PTL

\* The public book shows at every price and side exactly the size the engine has there to
\* trade, with batches in flight and the indexer behind.
THEOREM PublicBookIsTradable == Spec => []WorkingIsEligible
<1>1. VenueInv => WorkingIsEligible
  BY TypedPublic DEF VenueInv
<1> QED
  BY <1>1, VenueInvariant, PTL

\* What the backstop unwinder is about to post fits Insurance's caps as it read them, at the
\* worst price its band accepts, together with what it has open.
THEOREM PlansWithinCaps == Spec => []UnwindWithinCaps
<1>1. VenueInv => UnwindWithinCaps
  <2>1. ASSUME VenueInv, keeper.pc = "post" PROVE WithinCaps(keeper)
    BY <2>1 DEF VenueInv, Planned
  <2> QED
    BY <2>1, Zenon DEF UnwindWithinCaps, WithinCaps
<1> QED
  BY <1>1, VenueInvariant, PTL

==============================================================================
