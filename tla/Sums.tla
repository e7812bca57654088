-------------------------------- MODULE Sums --------------------------------
(***************************************************************************)
(* Facts about SumFunctionOnSet (community module Functions): the sum of a *)
(* function over a finite set, which the properties of the exchange are    *)
(* written with.  The sum folds over the set in an order that CHOOSE fixes *)
(* and nothing else is known of, so the first part shows that the fold     *)
(* exists, that it is the only solution of its recursion, and that any     *)
(* element may be taken out first.  Induction is on the subsets of the     *)
(* set, through the well-foundedness of their strict order.  Last come the *)
(* least and the greatest number of a set, and its elements listed by rank.*)
(***************************************************************************)
EXTENDS Integers, FiniteSets, FiniteSetsExt, Functions, FiniteSetTheorems, TLAPS

\* Induction on the subsets of a finite set, with the set of good subsets as data.
LEMMA SubsetInduction ==
  ASSUME NEW S, IsFiniteSet(S), NEW G, {} \in G,
         \A T \in SUBSET S : T # {} /\ (\A x \in T : T \ {x} \in G) => T \in G
  PROVE  \A T \in SUBSET S : T \in G
<1> DEFINE Bad == {T \in SUBSET S : T \notin G}
<1>1. Bad \subseteq FiniteSubsetsOf(S)
  BY FS_Subset DEF FiniteSubsetsOf
<1>2. ASSUME Bad # {} PROVE FALSE
  <2>1. PICK T \in Bad : \A U \in Bad : ~(<<U, T>> \in StrictSubsetOrdering(S))
    BY <1>1, <1>2, FS_StrictSubsetOrderingWellFounded, WFMin
  <2>2. ASSUME NEW x \in T PROVE T \ {x} \in G
    <3>1. <<T \ {x}, T>> \in (SUBSET S) \X (SUBSET S)
      BY <2>1
    <3>2. T \ {x} \subseteq T /\ T \ {x} # T
      BY <2>2
    <3>3. <<T \ {x}, T>> \in StrictSubsetOrdering(S)
      BY <3>1, <3>2 DEF StrictSubsetOrdering
    <3> QED
      BY <3>3, <2>1
  <2>3. T # {}
    OBVIOUS
  <2> QED
    BY <2>2, <2>3
<1> QED
  BY <1>2

\* The element a sum takes first.
first(s) == CHOOSE x \in s : TRUE

\* g solves the recursion of SumFunctionOnSet on the subsets of S.
IsSum(g, f, S) ==
  g = [s \in SUBSET S |-> IF s = {} THEN 0 ELSE f[first(s)] + g[s \ {first(s)}]]

\* The recursion, at one of the sets it is defined on.
LEMMA SumUnfolds ==
  ASSUME NEW f, NEW S
  PROVE SumFunctionOnSet(f, S) = (CHOOSE g : IsSum(g, f, S))[S]
  BY Zenon DEF SumFunctionOnSet, FoldFunctionOnSet, MapThenFoldSet, IsSum, first

\* The recursion on s stays inside the sets the recursion is defined on.
LEMMA FirstIn == ASSUME NEW s, s # {} PROVE first(s) \in s
  BY DEF first

\* The recursion as far as sets of n elements.
Upto(S, n) == {s \in SUBSET S : Cardinality(s) <= n}

SumsUpto(g, f, S, n) ==
  \A s \in Upto(S, n) : g[s] = IF s = {} THEN 0 ELSE f[first(s)] + g[s \ {first(s)}]

\* One more element at a time.
LEMMA SumsUptoExtends ==
  ASSUME NEW S, IsFiniteSet(S), NEW f, NEW n \in Nat,
         NEW g, SumsUpto(g, f, S, n)
  PROVE  \E h : SumsUpto(h, f, S, n + 1)
<1> DEFINE step(s) == IF s = {} THEN 0 ELSE f[first(s)] + g[s \ {first(s)}]
           h == [s \in Upto(S, n + 1) |-> step(s)]
<1>1. ASSUME NEW s \in Upto(S, n + 1), s # {}
      PROVE  s \ {first(s)} \in Upto(S, n) /\ s \ {first(s)} \in Upto(S, n + 1)
  <2>1. first(s) \in s
    BY <1>1, FirstIn
  <2>2. s \in SUBSET S /\ Cardinality(s) <= n + 1
    BY DEF Upto
  <2>3. IsFiniteSet(s) /\ Cardinality(s) \in Nat
    BY <2>2, FS_Subset, FS_CardinalityType
  <2>4. Cardinality(s \ {first(s)}) = Cardinality(s) - 1
    BY <2>1, <2>3, FS_RemoveElement
  <2> QED
    BY <2>2, <2>3, <2>4 DEF Upto
<1>2. ASSUME NEW s \in Upto(S, n + 1), s # {}
      PROVE  h[s \ {first(s)}] = g[s \ {first(s)}]
  BY <1>1, <1>2 DEF SumsUpto
<1>3. \A s \in Upto(S, n + 1) : h[s] = IF s = {} THEN 0 ELSE f[first(s)] + h[s \ {first(s)}]
  BY <1>2
<1>4. SumsUpto(h, f, S, n + 1)
  BY <1>3 DEF SumsUpto
<1> QED
  BY <1>4

\* So a sum over a finite set is the recursion it is written as.
LEMMA SumExists ==
  ASSUME NEW S, IsFiniteSet(S), NEW f
  PROVE  \E g : IsSum(g, f, S)
<1> DEFINE Good == {T \in SUBSET S : \E h : SumsUpto(h, f, S, Cardinality(T))}
<1>1. {} \in Good
  <2> DEFINE h == [s \in SUBSET S |-> 0]
  <2>1. Cardinality({}) = 0
    BY FS_EmptySet
  <2>2. ASSUME NEW s \in Upto(S, 0) PROVE s = {}
    <3>1. s \in SUBSET S /\ Cardinality(s) <= 0
      BY DEF Upto
    <3>2. IsFiniteSet(s) /\ Cardinality(s) \in Nat
      BY <3>1, FS_Subset, FS_CardinalityType
    <3> QED
      BY <3>1, <3>2, FS_EmptySet
  <2>3. SumsUpto(h, f, S, 0)
    BY <2>2 DEF SumsUpto
  <2> QED
    BY <2>1, <2>3
<1>2. ASSUME NEW T \in SUBSET S, T # {}, \A x \in T : T \ {x} \in Good
      PROVE  T \in Good
  <2>1. PICK x \in T : T \ {x} \in Good
    BY <1>2
  <2>2. IsFiniteSet(T) /\ IsFiniteSet(T \ {x}) /\ Cardinality(T \ {x}) \in Nat
        /\ Cardinality(T) \in Nat
    BY FS_Subset, FS_RemoveElement, FS_CardinalityType
  <2>3. Cardinality(T) = Cardinality(T \ {x}) + 1
    BY <2>2, FS_RemoveElement
  <2>4. PICK g : SumsUpto(g, f, S, Cardinality(T \ {x}))
    BY <2>1
  <2> QED
    BY <2>2, <2>3, <2>4, SumsUptoExtends
<1>3. \A T \in SUBSET S : T \in Good
  <2> HIDE DEF Good
  <2> QED
    BY <1>1, <1>2, SubsetInduction
<1>4. PICK h : SumsUpto(h, f, S, Cardinality(S))
  BY <1>3
<1> DEFINE g == [s \in SUBSET S |-> h[s]]
<1>5. \A s \in SUBSET S : s \in Upto(S, Cardinality(S))
  BY FS_Subset DEF Upto
<1>6. ASSUME NEW s \in SUBSET S
      PROVE  h[s] = IF s = {} THEN 0 ELSE f[first(s)] + g[s \ {first(s)}]
  <2>1. h[s] = IF s = {} THEN 0 ELSE f[first(s)] + h[s \ {first(s)}]
    BY <1>4, <1>5 DEF SumsUpto
  <2> QED
    BY <2>1
<1>7. IsSum(g, f, S)
  BY <1>6 DEF IsSum
<1> QED
  BY <1>7

\* The recursion has one solution, whatever set it is started from and whatever the
\* function says elsewhere.
LEMMA SumUnique ==
  ASSUME NEW S, IsFiniteSet(S), NEW T \in SUBSET S, NEW f, NEW f2, \A x \in T : f[x] = f2[x],
         NEW g, IsSum(g, f, S), NEW h, IsSum(h, f2, T)
  PROVE  g[T] = h[T]
<1> DEFINE Good == {U \in SUBSET T : g[U] = h[U]}
<1>1. \A s \in SUBSET S : g[s] = IF s = {} THEN 0 ELSE f[first(s)] + g[s \ {first(s)}]
  BY DEF IsSum
<1>2. \A s \in SUBSET T : h[s] = IF s = {} THEN 0 ELSE f2[first(s)] + h[s \ {first(s)}]
  BY DEF IsSum
<1>3. {} \in Good
  BY <1>1, <1>2
<1>4. ASSUME NEW U \in SUBSET T, U # {}, \A x \in U : U \ {x} \in Good
      PROVE  U \in Good
  <2>1. first(U) \in U
    BY <1>4, FirstIn
  <2>2. g[U \ {first(U)}] = h[U \ {first(U)}] /\ f[first(U)] = f2[first(U)]
    BY <1>4, <2>1
  <2> QED
    BY <1>1, <1>2, <1>4, <2>2
<1>5. IsFiniteSet(T)
  BY FS_Subset
<1>6. \A U \in SUBSET T : U \in Good
  <2> HIDE DEF Good
  <2> QED
    BY <1>3, <1>4, <1>5, SubsetInduction
<1> QED
  BY <1>6

\* An empty sum is 0,
LEMMA SumEmpty ==
  ASSUME NEW f
  PROVE  SumFunctionOnSet(f, {}) = 0
<1> DEFINE g == CHOOSE g : IsSum(g, f, {})
<1>1. IsSum(g, f, {})
  BY SumExists, FS_EmptySet
<1>2. g[{}] = 0
  BY <1>1 DEF IsSum
<1> QED
  BY <1>2, SumUnfolds

\* and any other takes one element first.
LEMMA SumStep ==
  ASSUME NEW S, IsFiniteSet(S), NEW f
  PROVE  S # {} => SumFunctionOnSet(f, S)
                   = f[first(S)] + SumFunctionOnSet(f, S \ {first(S)})
<1> DEFINE g == CHOOSE g : IsSum(g, f, S)
           T == S \ {first(S)}
           h == CHOOSE h : IsSum(h, f, T)
<1>1. IsFiniteSet(T)
  BY FS_RemoveElement
<1>2. IsSum(g, f, S) /\ IsSum(h, f, T)
  BY <1>1, SumExists
<1>4. SumFunctionOnSet(f, S) = g[S] /\ SumFunctionOnSet(f, T) = h[T]
  BY SumUnfolds
<1>5. g[T] = h[T]
  <2> HIDE DEF g, h
  <2> QED
    BY <1>2, SumUnique
<1>6. S # {} => g[S] = f[first(S)] + g[T]
  <2> HIDE DEF g
  <2> QED
    BY <1>2 DEF IsSum
<1> QED
  BY <1>4, <1>5, <1>6

\* Functions that agree on a set have the same sum.
LEMMA SumAgree ==
  ASSUME NEW S, IsFiniteSet(S), NEW f, NEW g, \A x \in S : f[x] = g[x]
  PROVE  SumFunctionOnSet(f, S) = SumFunctionOnSet(g, S)
<1> DEFINE h == CHOOSE h : IsSum(h, f, S)
           k == CHOOSE k : IsSum(k, g, S)
<1>1. IsSum(h, f, S) /\ IsSum(k, g, S)
  BY SumExists
<1>2. h[S] = k[S]
  <2> HIDE DEF h, k
  <2> QED
    BY <1>1, SumUnique
<1> QED
  BY <1>2, SumUnfolds

\* Sums of integers are integers,
LEMMA SumInt ==
  ASSUME NEW S, IsFiniteSet(S), NEW f, \A x \in S : f[x] \in Int
  PROVE  SumFunctionOnSet(f, S) \in Int
<1> DEFINE Good == {T \in SUBSET S : SumFunctionOnSet(f, T) \in Int}
<1>1. {} \in Good
  BY SumEmpty
<1>2. ASSUME NEW T \in SUBSET S, T # {}, \A x \in T : T \ {x} \in Good
      PROVE  T \in Good
  <2>1. IsFiniteSet(T) /\ first(T) \in T
    BY <1>2, FS_Subset, FirstIn
  <2>2. SumFunctionOnSet(f, T) = f[first(T)] + SumFunctionOnSet(f, T \ {first(T)})
    BY <1>2, <2>1, SumStep
  <2> QED
    BY <1>2, <2>1, <2>2
<1>3. \A T \in SUBSET S : T \in Good
  <2> HIDE DEF Good
  <2> QED
    BY <1>1, <1>2, SubsetInduction
<1> QED
  BY <1>3

\* and any element can be taken out of one.
LEMMA SumRemove ==
  ASSUME NEW S, IsFiniteSet(S), NEW f, \A x \in S : f[x] \in Int, NEW x \in S
  PROVE  SumFunctionOnSet(f, S) = f[x] + SumFunctionOnSet(f, S \ {x})
<1> DEFINE Good == {T \in SUBSET S :
                      \A y \in T : SumFunctionOnSet(f, T)
                                  = f[y] + SumFunctionOnSet(f, T \ {y})}
<1>1. {} \in Good
  OBVIOUS
<1>2. ASSUME NEW T \in SUBSET S, T # {}, \A y \in T : T \ {y} \in Good
      PROVE  T \in Good
  <2>1. PICK c \in T : c = first(T)
    BY <1>2, FirstIn
  <2>2. SumFunctionOnSet(f, T) = f[c] + SumFunctionOnSet(f, T \ {c})
    BY <1>2, <2>1, SumStep, FS_Subset
  <2>3. ASSUME NEW y \in T
        PROVE  SumFunctionOnSet(f, T) = f[y] + SumFunctionOnSet(f, T \ {y})
    <3>1. CASE y = c
      BY <2>2, <3>1
    <3>2. CASE y # c
      <4>1. SumFunctionOnSet(f, T \ {c}) = f[y] + SumFunctionOnSet(f, (T \ {c}) \ {y})
        BY <1>2, <2>1, <3>2
      <4>2. SumFunctionOnSet(f, T \ {y}) = f[c] + SumFunctionOnSet(f, (T \ {y}) \ {c})
        BY <1>2, <2>1, <3>2
      <4>3. (T \ {c}) \ {y} = (T \ {y}) \ {c}
        OBVIOUS
      <4>4. IsFiniteSet((T \ {y}) \ {c}) /\ (T \ {y}) \ {c} \subseteq S
        BY FS_Subset
      <4>5. PICK r \in Int : r = SumFunctionOnSet(f, (T \ {y}) \ {c})
        BY <4>4, SumInt
      <4>6. f[c] \in Int /\ f[y] \in Int
        OBVIOUS
      <4>7. SumFunctionOnSet(f, T) = f[c] + (f[y] + r)
        BY <2>2, <4>1, <4>3, <4>5
      <4>8. SumFunctionOnSet(f, T \ {y}) = f[c] + r
        BY <4>2, <4>5
      <4>9. f[c] + (f[y] + r) = f[y] + (f[c] + r)
        BY <4>6
      <4> QED
        BY <4>7, <4>8, <4>9
    <3> QED
      BY <3>1, <3>2
  <2> QED
    BY <2>3
<1>3. \A T \in SUBSET S : T \in Good
  <2> HIDE DEF Good
  <2> QED
    BY <1>1, <1>2, SubsetInduction
<1> QED
  BY <1>3

\* Changing a function at one element changes its sum by the difference.
LEMMA SumChange ==
  ASSUME NEW S, IsFiniteSet(S), NEW f, NEW g, NEW x \in S,
         \A y \in S : f[y] \in Int /\ g[y] \in Int,
         \A y \in S \ {x} : f[y] = g[y]
  PROVE  SumFunctionOnSet(g, S) = SumFunctionOnSet(f, S) - f[x] + g[x]
<1>1. IsFiniteSet(S \ {x})
  BY FS_RemoveElement
<1>2. PICK r \in Int : r = SumFunctionOnSet(f, S \ {x})
  BY <1>1, SumInt
<1>3. r = SumFunctionOnSet(g, S \ {x})
  BY <1>1, <1>2, SumAgree
<1>4. SumFunctionOnSet(f, S) = f[x] + r /\ SumFunctionOnSet(g, S) = g[x] + r
  BY <1>2, <1>3, SumRemove
<1>5. f[x] \in Int /\ g[x] \in Int
  OBVIOUS
<1> QED
  BY <1>4, <1>5

\* The sum of a sum is the sum of the sums.
LEMMA SumAdd ==
  ASSUME NEW S, IsFiniteSet(S), NEW f, NEW g, NEW h,
         \A x \in S : f[x] \in Int /\ g[x] \in Int /\ h[x] = f[x] + g[x]
  PROVE  SumFunctionOnSet(h, S) = SumFunctionOnSet(f, S) + SumFunctionOnSet(g, S)
<1> DEFINE Good == {T \in SUBSET S : SumFunctionOnSet(h, T)
                                     = SumFunctionOnSet(f, T) + SumFunctionOnSet(g, T)}
<1>1. {} \in Good
  BY SumEmpty
<1>2. ASSUME NEW T \in SUBSET S, T # {}, \A y \in T : T \ {y} \in Good
      PROVE  T \in Good
  <2>1. PICK x \in T : TRUE
    BY <1>2
  <2>2. IsFiniteSet(T) /\ IsFiniteSet(T \ {x})
    BY FS_Subset
  <2>3. PICK a \in Int, b \in Int :
          a = SumFunctionOnSet(f, T \ {x}) /\ b = SumFunctionOnSet(g, T \ {x})
    BY <2>2, SumInt
  <2>4. SumFunctionOnSet(h, T \ {x}) = a + b
    BY <1>2, <2>3
  <2>5. /\ SumFunctionOnSet(f, T) = f[x] + a
        /\ SumFunctionOnSet(g, T) = g[x] + b
    BY <2>2, <2>3, SumRemove
  <2>6. \A y \in T : h[y] \in Int
    OBVIOUS
  <2>7. SumFunctionOnSet(h, T) = h[x] + (a + b)
    BY <2>2, <2>4, <2>6, SumRemove
  <2>8. f[x] \in Int /\ g[x] \in Int /\ h[x] = f[x] + g[x]
    OBVIOUS
  <2>9. SumFunctionOnSet(h, T) = SumFunctionOnSet(f, T) + SumFunctionOnSet(g, T)
    BY <2>5, <2>7, <2>8
  <2> QED
    BY <2>9
<1>3. \A T \in SUBSET S : T \in Good
  <2> HIDE DEF Good
  <2> QED
    BY <1>1, <1>2, SubsetInduction
<1> QED
  BY <1>3

\* A common factor comes out of a sum.
LEMMA SumScale ==
  ASSUME NEW S, IsFiniteSet(S), NEW c \in Int, NEW f, NEW h,
         \A x \in S : f[x] \in Int /\ h[x] = c * f[x]
  PROVE  SumFunctionOnSet(h, S) = c * SumFunctionOnSet(f, S)
<1> DEFINE Good == {T \in SUBSET S : SumFunctionOnSet(h, T) = c * SumFunctionOnSet(f, T)}
<1>1. {} \in Good
  BY SumEmpty
<1>2. ASSUME NEW T \in SUBSET S, T # {}, \A y \in T : T \ {y} \in Good
      PROVE  T \in Good
  <2>1. PICK x \in T : TRUE
    BY <1>2
  <2>2. IsFiniteSet(T) /\ IsFiniteSet(T \ {x})
    BY FS_Subset
  <2>3. PICK a \in Int : a = SumFunctionOnSet(f, T \ {x})
    BY <2>2, SumInt
  <2>4. SumFunctionOnSet(h, T \ {x}) = c * a
    BY <1>2, <2>3
  <2>5. SumFunctionOnSet(f, T) = f[x] + a
    BY <2>2, <2>3, SumRemove
  <2>6. \A y \in T : h[y] \in Int
    OBVIOUS
  <2>7. SumFunctionOnSet(h, T) = h[x] + c * a
    BY <2>2, <2>4, <2>6, SumRemove
  <2>8. f[x] \in Int /\ h[x] = c * f[x]
    OBVIOUS
  <2>9. SumFunctionOnSet(h, T) = c * SumFunctionOnSet(f, T)
    BY <2>5, <2>7, <2>8
  <2> QED
    BY <2>9
<1>3. \A T \in SUBSET S : T \in Good
  <2> HIDE DEF Good
  <2> QED
    BY <1>1, <1>2, SubsetInduction
<1> QED
  BY <1>3

\* Sums keep the order of their terms.
LEMMA SumMonotone ==
  ASSUME NEW S, IsFiniteSet(S), NEW f, NEW g,
         \A x \in S : f[x] \in Int /\ g[x] \in Int /\ f[x] <= g[x]
  PROVE  SumFunctionOnSet(f, S) <= SumFunctionOnSet(g, S)
<1> DEFINE Good == {T \in SUBSET S : SumFunctionOnSet(f, T) <= SumFunctionOnSet(g, T)}
<1>1. {} \in Good
  BY SumEmpty
<1>2. ASSUME NEW T \in SUBSET S, T # {}, \A y \in T : T \ {y} \in Good
      PROVE  T \in Good
  <2>1. PICK x \in T : TRUE
    BY <1>2
  <2>2. IsFiniteSet(T) /\ IsFiniteSet(T \ {x})
    BY FS_Subset
  <2>3. PICK a \in Int, b \in Int :
          a = SumFunctionOnSet(f, T \ {x}) /\ b = SumFunctionOnSet(g, T \ {x})
    BY <2>2, SumInt
  <2>4. a <= b
    BY <1>2, <2>3
  <2>5. /\ SumFunctionOnSet(f, T) = f[x] + a
        /\ SumFunctionOnSet(g, T) = g[x] + b
    BY <2>2, <2>3, SumRemove
  <2>6. f[x] \in Int /\ g[x] \in Int /\ f[x] <= g[x]
    OBVIOUS
  <2>7. SumFunctionOnSet(f, T) <= SumFunctionOnSet(g, T)
    BY <2>4, <2>5, <2>6
  <2> QED
    BY <2>7
<1>3. \A T \in SUBSET S : T \in Good
  <2> HIDE DEF Good
  <2> QED
    BY <1>1, <1>2, SubsetInduction
<1> QED
  BY <1>3

\* A sum of zeros is 0.
LEMMA SumZero ==
  ASSUME NEW S, IsFiniteSet(S), NEW f, \A x \in S : f[x] = 0
  PROVE  SumFunctionOnSet(f, S) = 0
<1> DEFINE Good == {T \in SUBSET S : SumFunctionOnSet(f, T) = 0}
<1>1. {} \in Good
  BY SumEmpty
<1>2. ASSUME NEW T \in SUBSET S, T # {}, \A y \in T : T \ {y} \in Good
      PROVE  T \in Good
  <2>1. PICK x \in T : TRUE
    BY <1>2
  <2>2. IsFiniteSet(T) /\ (\A y \in T : f[y] \in Int)
    BY FS_Subset
  <2>3. SumFunctionOnSet(f, T) = f[x] + SumFunctionOnSet(f, T \ {x})
    BY <2>2, SumRemove
  <2>4. f[x] = 0 /\ SumFunctionOnSet(f, T \ {x}) = 0
    BY <1>2
  <2>5. SumFunctionOnSet(f, T) = 0
    BY <2>3, <2>4
  <2> QED
    BY <2>5
<1>3. \A T \in SUBSET S : T \in Good
  <2> HIDE DEF Good
  <2> QED
    BY <1>1, <1>2, SubsetInduction
<1> QED
  BY <1>3

\* A sum of natural numbers is one, and no less than any of its terms.
LEMMA SumNat ==
  ASSUME NEW S, IsFiniteSet(S), NEW f, \A x \in S : f[x] \in Nat
  PROVE  /\ SumFunctionOnSet(f, S) \in Nat
         /\ \A x \in S : f[x] <= SumFunctionOnSet(f, S)
<1> DEFINE zero == [x \in S |-> 0]
<1>1. ASSUME NEW T \in SUBSET S
      PROVE  SumFunctionOnSet(f, T) \in Int /\ 0 <= SumFunctionOnSet(f, T)
  <2>1. IsFiniteSet(T)
    BY FS_Subset
  <2>2. SumFunctionOnSet(zero, T) = 0
    BY <2>1, SumZero
  <2>3. SumFunctionOnSet(zero, T) <= SumFunctionOnSet(f, T)
    <3>1. \A x \in T : zero[x] \in Int /\ f[x] \in Int /\ zero[x] <= f[x]
      OBVIOUS
    <3> HIDE DEF zero
    <3> QED
      BY <2>1, <3>1, SumMonotone
  <2> QED
    BY <2>1, <2>2, <2>3, SumInt
<1>2. ASSUME NEW x \in S PROVE f[x] <= SumFunctionOnSet(f, S)
  <2>1. PICK r \in Int : r = SumFunctionOnSet(f, S \ {x}) /\ 0 <= r
    BY <1>1
  <2>2. SumFunctionOnSet(f, S) = f[x] + r
    BY <2>1, SumRemove
  <2> QED
    BY <2>1, <2>2
<1>3. SumFunctionOnSet(f, S) \in Int /\ 0 <= SumFunctionOnSet(f, S)
  BY <1>1
<1> QED
  BY <1>2, <1>3

\* Terms that are zero may be left out.
LEMMA SumSupport ==
  ASSUME NEW S, IsFiniteSet(S), NEW f, NEW T \in SUBSET S,
         \A x \in S : f[x] \in Int, \A x \in S \ T : f[x] = 0
  PROVE  SumFunctionOnSet(f, S) = SumFunctionOnSet(f, T)
<1> DEFINE Good == {U \in SUBSET (S \ T) :
                      SumFunctionOnSet(f, T \cup U) = SumFunctionOnSet(f, T)}
<1>1. {} \in Good
  <2>1. T \cup {} = T
    OBVIOUS
  <2> QED
    BY <2>1
<1>2. ASSUME NEW U \in SUBSET (S \ T), U # {}, \A y \in U : U \ {y} \in Good
      PROVE  U \in Good
  <2>1. PICK x \in U : TRUE
    BY <1>2
  <2>2. IsFiniteSet(T \cup U) /\ (\A y \in T \cup U : f[y] \in Int) /\ x \in T \cup U
    BY FS_Subset
  <2>3. (T \cup U) \ {x} = T \cup (U \ {x})
    OBVIOUS
  <2>4. SumFunctionOnSet(f, T \cup U) = f[x] + SumFunctionOnSet(f, T \cup (U \ {x}))
    BY <2>2, <2>3, SumRemove
  <2>5. f[x] = 0 /\ SumFunctionOnSet(f, T \cup (U \ {x})) = SumFunctionOnSet(f, T)
    BY <1>2, <2>1
  <2>6. IsFiniteSet(T) /\ SumFunctionOnSet(f, T) \in Int
    BY FS_Subset, SumInt
  <2>7. SumFunctionOnSet(f, T \cup U) = SumFunctionOnSet(f, T)
    BY <2>4, <2>5, <2>6
  <2> QED
    BY <2>7
<1>3. IsFiniteSet(S \ T)
  BY FS_Subset
<1>4. \A U \in SUBSET (S \ T) : U \in Good
  <2> HIDE DEF Good
  <2> QED
    BY <1>1, <1>2, <1>3, SubsetInduction
<1>5. T \cup (S \ T) = S
  OBVIOUS
<1>6. S \ T \in Good
  BY <1>4
<1> QED
  BY <1>5, <1>6

-----------------------------------------------------------------------------
(* Least and greatest numbers.                                             *)

\* A set of natural numbers has a least one.
LEMMA Least ==
  ASSUME NEW S \in SUBSET Nat, S # {}
  PROVE  Min(S) \in S /\ \A n \in S : Min(S) <= n
<1>1. PICK n \in S : \A k \in S : ~(<<k, n>> \in OpToRel(<, Nat))
  BY NatLessThanWellFounded, WFMin
<1>2. \A k \in S : n <= k
  <2> TAKE k \in S
  <2>1. k \in Nat /\ n \in Nat /\ ~(k < n)
    BY <1>1 DEF OpToRel
  <2> QED BY <2>1
<1> QED BY <1>1, <1>2 DEF Min

\* And a bounded one has a greatest.
LEMMA Greatest ==
  ASSUME NEW S \in SUBSET Nat, S # {}, NEW n \in Nat, \A k \in S : k <= n
  PROVE  Max(S) \in S /\ \A k \in S : k <= Max(S)
<1> DEFINE U == {u \in Nat : \A k \in S : k <= u}
<1>1. Min(U) \in U /\ \A u \in U : Min(U) <= u
  <2>1. U \in SUBSET Nat /\ U # {}
    OBVIOUS
  <2> HIDE DEF U
  <2> QED BY <2>1, Least
<1>2. PICK m \in Nat : (\A k \in S : k <= m) /\ (\A u \in U : m <= u)
  BY <1>1
<1>3. m \in S
  <2> SUFFICES ASSUME m \notin S PROVE FALSE
    OBVIOUS
  <2>1. \A k \in S : k < m
    BY <1>2
  <2>2. m - 1 \in Nat /\ \A k \in S : k <= m - 1
    <3>1. PICK k \in S : TRUE
      OBVIOUS
    <3>2. k \in Nat /\ k < m
      BY <2>1, <3>1
    <3>3. m - 1 \in Nat
      BY <3>2
    <3>4. ASSUME NEW j \in S PROVE j <= m - 1
      <4>1. j \in Nat /\ j < m
        BY <2>1
      <4> QED BY <4>1
    <3> QED BY <3>3, <3>4
  <2>3. m - 1 \in U
    BY <2>2
  <2> QED BY <1>2, <2>3
<1>4. \A k \in S : m >= k
  BY <1>2
<1>5. Max(S) \in S /\ \A k \in S : Max(S) >= k
  BY <1>3, <1>4 DEF Max
<1> QED BY <1>5

-----------------------------------------------------------------------------
(* Ranks: elements sorted by how many come before them.                    *)

\* B[x] is what comes before x, in a strict total order of S.
StrictlyOrders(B, S) ==
  /\ B \in [S -> SUBSET S]
  /\ \A x \in S : x \notin B[x]
  /\ \A x, y \in S : x = y \/ x \in B[y] \/ y \in B[x]
  /\ \A x, y \in S : x \in B[y] => B[x] \subseteq B[y]

\* A list of every element of S, each after its predecessors.
ListedBy(r, S, B) ==
  /\ Cardinality(S) \in Nat
  /\ r \in [1..Cardinality(S) -> S]
  /\ \A x \in S : \E k \in 1..Cardinality(S) : r[k] = x
  /\ \A i, j \in 1..Cardinality(S) : i < j => r[i] \in B[r[j]]

\* When the sets of predecessors order S, a list whose k-th has k - 1 of them.
LEMMA RankedList ==
  ASSUME NEW S, IsFiniteSet(S), NEW B, StrictlyOrders(B, S),
         NEW rank, rank = [x \in S |-> Cardinality(B[x])],
         NEW r, r = [k \in 1..Cardinality(S) |-> r[k]],
         \A k \in 1..Cardinality(S) : (\E x \in S : rank[x] = k - 1) => r[k] \in S /\ rank[r[k]] = k - 1
  PROVE  ListedBy(r, S, B)
<1>1. PICK n \in Nat : n = Cardinality(S)
  BY FS_CardinalityType
<1>2. ASSUME NEW x \in S PROVE rank[x] \in 0..(n - 1)
  <2>1. B[x] \in SUBSET (S \ {x})
    BY DEF StrictlyOrders
  <2>2. IsFiniteSet(S \ {x}) /\ Cardinality(S \ {x}) = n - 1
    BY <1>1, FS_RemoveElement
  <2>3. IsFiniteSet(B[x]) /\ Cardinality(B[x]) <= n - 1 /\ Cardinality(B[x]) \in Nat
    BY <2>1, <2>2, FS_Subset, FS_CardinalityType
  <2> QED
    BY <1>1, <2>3
<1>3. ASSUME NEW x \in S, NEW y \in S, x \in B[y] PROVE rank[x] < rank[y]
  <2>1. B[x] \in SUBSET B[y] /\ x \notin B[x] /\ B[y] \in SUBSET S
    BY <1>3 DEF StrictlyOrders
  <2>2. IsFiniteSet(B[y])
    BY <2>1, FS_Subset
  <2>3. Cardinality(B[x]) <= Cardinality(B[y]) /\ (Cardinality(B[y]) = Cardinality(B[x]) => B[y] = B[x])
    BY <2>1, <2>2, FS_Subset
  <2>4. Cardinality(B[y]) # Cardinality(B[x])
    BY <1>3, <2>1, <2>3
  <2>5. rank[x] \in Int /\ rank[y] \in Int /\ rank[x] = Cardinality(B[x]) /\ rank[y] = Cardinality(B[y])
    BY <1>2
  <2> QED
    BY <2>3, <2>4, <2>5
<1>4. \A x, y \in S : x # y => rank[x] # rank[y]
  <2>1. ASSUME NEW x \in S, NEW y \in S, x # y PROVE rank[x] # rank[y]
    <3>1. rank[x] \in Int /\ rank[y] \in Int
      BY <1>2
    <3>2. x \in B[y] \/ y \in B[x]
      BY <2>1 DEF StrictlyOrders
    <3>3. rank[x] < rank[y] \/ rank[y] < rank[x]
      BY <1>3, <3>2
    <3> QED
      BY <3>1, <3>3
  <2> QED
    BY <2>1
<1>5. rank \in Injection(S, 0..(n - 1))
  <2>1. rank \in [S -> 0..(n - 1)]
    BY <1>2
  <2> QED
    BY <1>4, <2>1 DEF Injection, IsInjective
<1>6. rank \in Surjection(S, 0..(n - 1))
  <2>1. IsFiniteSet(0..(n - 1)) /\ Cardinality(0..(n - 1)) = IF 0 > n - 1 THEN 0 ELSE n - 1 - 0 + 1
    BY FS_Interval
  <2>2. Cardinality(0..(n - 1)) = n
    BY <2>1
  <2> QED
    BY <1>1, <1>5, <2>1, <2>2, FS_Injection
<1>7. ASSUME NEW k \in 1..n PROVE \E x \in S : rank[x] = k - 1
  <2>1. k - 1 \in 0..(n - 1)
    OBVIOUS
  <2> QED
    BY <1>6, <2>1 DEF Surjection
<1>8. r = [k \in 1..n |-> r[k]]
  BY <1>1
<1>9. ASSUME NEW k \in 1..n PROVE r[k] \in S /\ rank[r[k]] = k - 1
  BY <1>1, <1>7
<1>10. ASSUME NEW x \in S PROVE \E k \in 1..n : r[k] = x
  <2>1. PICK k \in 1..n : k - 1 = rank[x]
    <3>1. PICK v \in 0..(n - 1) : v = rank[x]
      BY <1>2
    <3>2. v + 1 \in 1..n /\ v + 1 - 1 = v
      OBVIOUS
    <3> QED
      BY <3>1, <3>2
  <2>2. r[k] \in S /\ rank[r[k]] = rank[x]
    BY <1>9, <2>1
  <2> QED
    BY <1>4, <2>2
<1>11. ASSUME NEW i \in 1..n, NEW j \in 1..n, i < j PROVE r[i] \in B[r[j]]
  <2>1. r[i] \in S /\ r[j] \in S /\ rank[r[i]] = i - 1 /\ rank[r[j]] = j - 1
    BY <1>9
  <2>2. r[i] # r[j]
    BY <1>11, <2>1
  <2>3. r[i] \in B[r[j]] \/ r[j] \in B[r[i]]
    BY <2>1, <2>2 DEF StrictlyOrders
  <2>4. r[j] \in B[r[i]] => rank[r[j]] < rank[r[i]]
    BY <1>3, <2>1
  <2> QED
    BY <1>11, <2>1, <2>3, <2>4
<1>12. r \in [1..n -> S]
  BY <1>8, <1>9
<1> QED
  BY <1>1, <1>10, <1>11, <1>12 DEF ListedBy
====
