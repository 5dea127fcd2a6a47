----------------------------- MODULE SumTheorems ----------------------------
(***************************************************************************)
(* Sums of integers over a finite set, as SumFunctionOnSet computes them   *)
(* (TokenBudget.Held, Dashboard.SumOf): the fold's recursive function      *)
(* exists, its result does not depend on the order in which the fold picks *)
(* the elements, and it follows its summands.  Every induction is a        *)
(* minimal counterexample among the subsets.                               *)
(***************************************************************************)
EXTENDS Functions, FiniteSetTheorems, WellFoundedInduction, TLAPS

Sum(F, S) == SumFunctionOnSet(F, S)

\* A set of natural numbers has a least one.
LEMMA LeastNatural ==
    ASSUME NEW T, T \subseteq Nat, T # {}
    PROVE  \E n \in T : \A m \in T : n <= m
<1>1. PICK n \in T : \A m \in T : <<m, n>> \notin OpToRel(<, Nat)
  BY NatLessThanWellFounded, WFMin
<1>2. \A m \in T : ~ (m < n)
  <2>1. SUFFICES ASSUME NEW m \in T, m < n PROVE FALSE
    OBVIOUS
  <2>2. <<m, n>> \in OpToRel(<, Nat)
    BY <2>1 DEF OpToRel
  <2> QED
    BY <2>2, <1>1
<1> HIDE <1>1
<1>3. n \in Nat /\ \A m \in T : m \in Nat /\ ~ (m < n)
  BY <1>2
<1>4. \A m \in T : n <= m
  BY <1>3, SMT
<1> QED
  BY <1>4

\* A family of subsets has a member that leaves it whatever element it loses.
LEMMA MinimalSubset ==
    ASSUME NEW S, IsFiniteSet(S), NEW B, B \subseteq SUBSET S, B # {}
    PROVE  \E T \in B : \A x \in T : T \ {x} \notin B
<1> DEFINE sizes == {Cardinality(T) : T \in B}
<1>1. \A T \in B : IsFiniteSet(T) /\ Cardinality(T) \in Nat
  BY FS_Subset, FS_CardinalityType
<1>2. PICK n \in sizes : \A m \in sizes : n <= m
  <2>1. sizes \subseteq Nat /\ sizes # {}
    BY <1>1
  <2> HIDE DEF sizes
  <2> QED
    BY <2>1, LeastNatural
<1>3. PICK T \in B : n = Cardinality(T)
  OBVIOUS
<1>4. ASSUME NEW x \in T, T \ {x} \in B PROVE FALSE
  <2>1. Cardinality(T \ {x}) = Cardinality(T) - 1
    BY <1>1, <1>3, FS_RemoveElement
  <2>2. Cardinality(T) <= Cardinality(T \ {x})
    BY <1>2, <1>3, <1>4
  <2> QED
    BY <1>1, <2>1, <2>2
<1> QED
  BY <1>4

-----------------------------------------------------------------------------
\* The fold.

Pick(T) == CHOOSE x \in T : TRUE

\* The element the fold takes first.
LEMMA PickIsMember ==
    ASSUME NEW T, T # {}
    PROVE  Pick(T) \in T
BY DEF Pick

IsSum(g, F, S) ==
    g = [T \in SUBSET S |-> IF T = {} THEN 0 ELSE F[Pick(T)] + g[T \ {Pick(T)}]]

\* The sum is what the fold's recursive function, if there is one, gives for the set.
LEMMA SumIsFold ==
    ASSUME NEW F, NEW S
    PROVE  Sum(F, S) = (CHOOSE g : IsSum(g, F, S))[S]
BY DEF Sum, SumFunctionOnSet, FoldFunctionOnSet, MapThenFoldSet, IsSum, Pick

\* g adds up every subset of S of at most n elements.
SumsUpTo(g, F, S, n) ==
    /\ g \in [SUBSET S -> Int]
    /\ \A T \in SUBSET S : Cardinality(T) <= n =>
          g[T] = IF T = {} THEN 0 ELSE F[Pick(T)] + g[T \ {Pick(T)}]

\* A function that adds up the smaller subsets adds up the next larger ones.
LEMMA SumsExtend ==
    ASSUME NEW S, IsFiniteSet(S), NEW F, \A x \in S : F[x] \in Int,
           NEW n \in Nat, NEW g, SumsUpTo(g, F, S, n)
    PROVE  \E h : SumsUpTo(h, F, S, n + 1)
<1> DEFINE value(T) == IF T = {} THEN 0 ELSE F[Pick(T)] + g[T \ {Pick(T)}]
           h == [T \in SUBSET S |-> value(T)]
<1>1. ASSUME NEW T \in SUBSET S, T # {}
      PROVE  /\ Pick(T) \in T /\ T \ {Pick(T)} \in SUBSET S
             /\ F[Pick(T)] \in Int /\ g[T \ {Pick(T)}] \in Int
  BY <1>1, PickIsMember DEF SumsUpTo
<1>2. h \in [SUBSET S -> Int]
  <2>1. \A T \in SUBSET S : value(T) \in Int
    BY <1>1
  <2> HIDE DEF value
  <2> QED
    BY <2>1
<1>3. ASSUME NEW T \in SUBSET S, Cardinality(T) <= n PROVE h[T] = g[T]
  BY <1>3 DEF SumsUpTo
<1>4. ASSUME NEW T \in SUBSET S, Cardinality(T) <= n + 1, T # {}
      PROVE  h[T] = F[Pick(T)] + h[T \ {Pick(T)}]
  <2>1. IsFiniteSet(T) /\ Cardinality(T) \in Nat
    BY FS_Subset, FS_CardinalityType
  <2>2. Cardinality(T \ {Pick(T)}) = Cardinality(T) - 1
    BY <1>1, <1>4, <2>1, FS_RemoveElement
  <2>3. Cardinality(T \ {Pick(T)}) <= n
    BY <1>4, <2>1, <2>2
  <2> QED
    BY <1>1, <1>3, <1>4, <2>3
<1>5. h[{}] = 0
  OBVIOUS
<1> HIDE DEF h
<1> QED
  BY <1>2, <1>4, <1>5 DEF SumsUpTo

\* There is one for every size.
LEMMA SumsExist ==
    ASSUME NEW S, IsFiniteSet(S), NEW F, \A x \in S : F[x] \in Int
    PROVE  \A n \in Nat : \E g : SumsUpTo(g, F, S, n)
<1> DEFINE Bad == {n \in Nat : ~ \E g : SumsUpTo(g, F, S, n)}
<1> SUFFICES ASSUME Bad # {} PROVE FALSE
  OBVIOUS
<1>1. PICK n \in Bad : \A m \in Bad : n <= m
  BY LeastNatural
<1>2. CASE n = 0
  <2>1. SumsUpTo([T \in SUBSET S |-> 0], F, S, 0)
    <3>1. ASSUME NEW T \in SUBSET S, Cardinality(T) <= 0 PROVE T = {}
      BY <3>1, FS_Subset, FS_CardinalityType, FS_EmptySet
    <3> QED
      BY <3>1 DEF SumsUpTo
  <2> QED
    BY <2>1, <1>2
<1>3. CASE n # 0
  <2>1. n - 1 \in Nat /\ n - 1 \notin Bad
    BY <1>1, <1>3
  <2>2. PICK g : SumsUpTo(g, F, S, n - 1)
    BY <2>1
  <2>3. \E h : SumsUpTo(h, F, S, (n - 1) + 1)
    BY <2>1, <2>2, SumsExtend
  <2>4. (n - 1) + 1 = n
    OBVIOUS
  <2> QED
    BY <2>3, <2>4
<1> QED
  BY <1>2, <1>3

\* The recursive function of the fold is defined on every subset.
LEMMA SumFunctionExists ==
    ASSUME NEW S, IsFiniteSet(S), NEW F, \A x \in S : F[x] \in Int
    PROVE  \E g \in [SUBSET S -> Int] : IsSum(g, F, S)
<1>1. Cardinality(S) \in Nat
  BY FS_CardinalityType
<1>2. PICK g : SumsUpTo(g, F, S, Cardinality(S))
  BY <1>1, SumsExist
<1>3. \A T \in SUBSET S : Cardinality(T) <= Cardinality(S)
  BY FS_Subset
<1> QED
  BY <1>2, <1>3 DEF SumsUpTo, IsSum

\* Two such functions, of sets and summands that agree on T, agree on T.
LEMMA SumsAgree ==
    ASSUME NEW R, NEW S, NEW T, IsFiniteSet(T), T \subseteq R, T \subseteq S,
           NEW F, NEW G, \A x \in T : F[x] = G[x],
           NEW g, NEW h, IsSum(g, F, R), IsSum(h, G, S)
    PROVE  g[T] = h[T]
<1> DEFINE Bad == {U \in SUBSET T : g[U] # h[U]}
<1> SUFFICES ASSUME Bad # {} PROVE FALSE
  OBVIOUS
<1>1. PICK U \in Bad : \A x \in U : U \ {x} \notin Bad
  BY MinimalSubset
<1>2. CASE U = {}
  BY <1>2 DEF IsSum
<1>3. CASE U # {}
  <2>1. Pick(U) \in U /\ U \ {Pick(U)} \in SUBSET T
    BY <1>3, PickIsMember
  <2>2. g[U \ {Pick(U)}] = h[U \ {Pick(U)}]
    BY <1>1, <2>1
  <2>3. U \in SUBSET R /\ U \in SUBSET S
    OBVIOUS
  <2>4. g[U] = F[Pick(U)] + g[U \ {Pick(U)}] /\ h[U] = G[Pick(U)] + h[U \ {Pick(U)}]
    BY <1>3, <2>3 DEF IsSum
  <2> QED
    BY <2>1, <2>2, <2>4
<1> QED
  BY <1>2, <1>3

\* The fold's function exists, and the sum is its value.
LEMMA SumIsSum ==
    ASSUME NEW S, IsFiniteSet(S), NEW F, \A x \in S : F[x] \in Int
    PROVE  \E g \in [SUBSET S -> Int] : IsSum(g, F, S) /\ Sum(F, S) = g[S]
<1>1. PICK g \in [SUBSET S -> Int] : IsSum(g, F, S)
  BY SumFunctionExists
<1>2. IsSum((CHOOSE h : IsSum(h, F, S)), F, S)
  BY <1>1
<1>3. (CHOOSE h : IsSum(h, F, S))[S] = g[S]
  <2> DEFINE h == CHOOSE h : IsSum(h, F, S)
  <2>1. IsSum(h, F, S)
    BY <1>2
  <2> HIDE DEF h
  <2>2. h[S] = g[S]
    BY <1>1, <2>1, SumsAgree
  <2> QED
    BY <2>2 DEF h
<1> QED
  BY <1>1, <1>3, SumIsFold

-----------------------------------------------------------------------------
\* What the sums of the models need.

LEMMA SumType ==
    ASSUME NEW S, IsFiniteSet(S), NEW F, \A x \in S : F[x] \in Int
    PROVE  Sum(F, S) \in Int
<1>1. PICK g \in [SUBSET S -> Int] : IsSum(g, F, S) /\ Sum(F, S) = g[S]
  BY SumIsSum
<1> QED
  BY <1>1

\* Nothing adds up to 0.
LEMMA SumEmpty ==
    ASSUME NEW F
    PROVE  Sum(F, {}) = 0
<1>1. IsFiniteSet({})
  BY FS_EmptySet
<1>2. PICK g \in [SUBSET {} -> Int] : IsSum(g, F, {}) /\ Sum(F, {}) = g[{}]
  BY <1>1, SumIsSum
<1> QED
  BY <1>2 DEF IsSum

\* A sum is the element the fold takes first and the sum of the others.
LEMMA SumUnfolds ==
    ASSUME NEW S, IsFiniteSet(S), S # {}, NEW F, \A x \in S : F[x] \in Int
    PROVE  Sum(F, S) = F[Pick(S)] + Sum(F, S \ {Pick(S)})
<1> DEFINE T == S \ {Pick(S)}
<1>1. IsFiniteSet(T) /\ T \subseteq S
  BY FS_Subset
<1>2. PICK g \in [SUBSET S -> Int] : IsSum(g, F, S) /\ Sum(F, S) = g[S]
  BY SumIsSum
<1>3. PICK h \in [SUBSET T -> Int] : IsSum(h, F, T) /\ Sum(F, T) = h[T]
  <2>1. \A x \in T : F[x] \in Int
    OBVIOUS
  <2> HIDE DEF T
  <2> QED
    BY <1>1, <2>1, SumIsSum
<1>4. g[S] = F[Pick(S)] + g[T]
  BY <1>2 DEF IsSum
<1>5. g[T] = h[T]
  <2> HIDE DEF T
  <2> QED
    BY <1>1, <1>2, <1>3, SumsAgree
<1> QED
  BY <1>2, <1>3, <1>4, <1>5

\* The sum depends on its summands only.
LEMMA SumEqual ==
    ASSUME NEW S, IsFiniteSet(S), NEW F, NEW G,
           \A x \in S : F[x] \in Int, \A x \in S : F[x] = G[x]
    PROVE  Sum(F, S) = Sum(G, S)
<1>1. PICK g \in [SUBSET S -> Int] : IsSum(g, F, S) /\ Sum(F, S) = g[S]
  BY SumIsSum
<1>2. \A x \in S : G[x] \in Int
  OBVIOUS
<1>3. PICK h \in [SUBSET S -> Int] : IsSum(h, G, S) /\ Sum(G, S) = h[S]
  BY <1>2, SumIsSum
<1> QED
  BY <1>1, <1>3, SumsAgree

\* Any element may be the first that is taken out.
LEMMA SumTakesOut ==
    ASSUME NEW S, IsFiniteSet(S), NEW F, \A x \in S : F[x] \in Int, NEW c \in S
    PROVE  Sum(F, S) = F[c] + Sum(F, S \ {c})
<1> DEFINE Bad == {T \in SUBSET S : \E x \in T : Sum(F, T) # F[x] + Sum(F, T \ {x})}
<1> SUFFICES ASSUME Bad # {} PROVE FALSE
  OBVIOUS
<1>1. PICK T \in Bad : \A x \in T : T \ {x} \notin Bad
  BY MinimalSubset
<1>2. PICK x \in T : Sum(F, T) # F[x] + Sum(F, T \ {x})
  OBVIOUS
<1> DEFINE y == Pick(T)
<1>3. IsFiniteSet(T) /\ y \in T
  BY FS_Subset, PickIsMember
<1>4. Sum(F, T) = F[y] + Sum(F, T \ {y})
  BY <1>3, SumUnfolds
<1> HIDE DEF y
<1>5. x # y
  BY <1>2, <1>4
<1>6. Sum(F, T \ {y}) = F[x] + Sum(F, (T \ {y}) \ {x})
  BY <1>1, <1>3, <1>5
<1>7. Sum(F, T \ {x}) = F[y] + Sum(F, (T \ {x}) \ {y})
  BY <1>1, <1>3, <1>5
<1>8. Sum(F, T \ {y}) = F[x] + Sum(F, (T \ {x}) \ {y})
  <2>1. (T \ {y}) \ {x} = (T \ {x}) \ {y}
    OBVIOUS
  <2> QED
    BY <1>6, <2>1
<1>9. Sum(F, (T \ {x}) \ {y}) \in Int
  <2>1. IsFiniteSet((T \ {x}) \ {y})
    BY <1>3, FS_Subset
  <2> QED
    BY <2>1, SumType
<1>10. F[x] \in Int /\ F[y] \in Int
  BY <1>3
<1> QED
  BY <1>2, <1>4, <1>7, <1>8, <1>9, <1>10

\* One summand changes.
LEMMA SumChanges ==
    ASSUME NEW S, IsFiniteSet(S), NEW F, NEW G,
           \A x \in S : F[x] \in Int /\ G[x] \in Int,
           NEW c \in S, \A x \in S \ {c} : F[x] = G[x]
    PROVE  Sum(G, S) = Sum(F, S) - F[c] + G[c]
<1>1. IsFiniteSet(S \ {c})
  BY FS_Subset
<1>2. Sum(F, S \ {c}) = Sum(G, S \ {c})
  BY <1>1, SumEqual
<1>3. Sum(F, S) = F[c] + Sum(F, S \ {c}) /\ Sum(G, S) = G[c] + Sum(G, S \ {c})
  BY SumTakesOut
<1>4. Sum(G, S \ {c}) \in Int
  BY <1>1, SumType
<1> QED
  BY <1>2, <1>3, <1>4

\* Summands that exceed others by at most k each.
LEMMA SumBounded ==
    ASSUME NEW S, IsFiniteSet(S), NEW F, NEW G, NEW k \in Int,
           \A x \in S : F[x] \in Int /\ G[x] \in Int /\ F[x] <= G[x] + k
    PROVE  Sum(F, S) <= Sum(G, S) + k * Cardinality(S)
<1> DEFINE Bad == {T \in SUBSET S : ~ (Sum(F, T) <= Sum(G, T) + k * Cardinality(T))}
<1> SUFFICES ASSUME Bad # {} PROVE FALSE
  OBVIOUS
<1>1. PICK T \in Bad : \A x \in T : T \ {x} \notin Bad
  BY MinimalSubset
<1>2. IsFiniteSet(T) /\ Cardinality(T) \in Nat
  BY FS_Subset, FS_CardinalityType
<1>3. CASE T = {}
  <2>1. Sum(F, T) = 0 /\ Sum(G, T) = 0 /\ Cardinality(T) = 0
    BY <1>3, SumEmpty, FS_EmptySet
  <2>2. 0 <= 0 + k * 0
    OBVIOUS
  <2> QED
    BY <2>1, <2>2
<1>4. CASE T # {}
  <2>1. PICK c \in T : TRUE
    BY <1>4
  <2> DEFINE U == T \ {c}
  <2>2. IsFiniteSet(U) /\ Cardinality(U) = Cardinality(T) - 1
    BY <1>2, <2>1, FS_RemoveElement
  <2>3. Sum(F, T) = F[c] + Sum(F, U) /\ Sum(G, T) = G[c] + Sum(G, U)
    BY <1>2, <2>1, SumTakesOut
  <2>4. Sum(F, U) \in Int /\ Sum(G, U) \in Int
    BY <2>2, SumType
  <2>5. Sum(F, U) <= Sum(G, U) + k * Cardinality(U)
    BY <1>1, <2>1
  <2>6. k * Cardinality(T) = k * (Cardinality(T) - 1) + k
    BY <1>2
  <2>7. F[c] \in Int /\ G[c] \in Int /\ F[c] <= G[c] + k
    BY <2>1
  <2>8. k * Cardinality(U) \in Int /\ k * Cardinality(T) = k * Cardinality(U) + k
    BY <1>2, <2>2, <2>6
  <2> HIDE DEF U
  <2> QED
    BY <2>3, <2>4, <2>5, <2>7, <2>8
<1> QED
  BY <1>3, <1>4

\* Zeros add up to 0.
LEMMA SumOfZeros ==
    ASSUME NEW S, IsFiniteSet(S), NEW F, \A x \in S : F[x] = 0
    PROVE  Sum(F, S) = 0
<1> DEFINE Bad == {T \in SUBSET S : Sum(F, T) # 0}
<1> SUFFICES ASSUME Bad # {} PROVE FALSE
  OBVIOUS
<1>1. PICK T \in Bad : \A x \in T : T \ {x} \notin Bad
  BY MinimalSubset
<1>2. T # {}
  BY SumEmpty
<1>3. PICK c \in T : TRUE
  BY <1>2
<1>4. Sum(F, T) = F[c] + Sum(F, T \ {c})
  BY FS_Subset, SumTakesOut
<1>5. Sum(F, T \ {c}) = 0
  BY <1>1, <1>3
<1> QED
  BY <1>4, <1>5

\* A sum grows with its summands.
LEMMA SumMonotone ==
    ASSUME NEW S, IsFiniteSet(S), NEW F, NEW G,
           \A x \in S : F[x] \in Int /\ G[x] \in Int /\ F[x] <= G[x]
    PROVE  Sum(F, S) <= Sum(G, S)
<1>1. PICK k \in Int : k = 0
  OBVIOUS
<1>2. \A x \in S : F[x] \in Int /\ G[x] \in Int /\ F[x] <= G[x] + k
  BY <1>1
<1>3. Sum(F, S) <= Sum(G, S) + k * Cardinality(S)
  BY <1>2, SumBounded
<1>4. Cardinality(S) \in Nat /\ Sum(G, S) \in Int
  BY FS_CardinalityType, SumType
<1> QED
  BY <1>1, <1>3, <1>4

\* Natural numbers add up to a natural number.
LEMMA SumNotNegative ==
    ASSUME NEW S, IsFiniteSet(S), NEW F, \A x \in S : F[x] \in Nat
    PROVE  Sum(F, S) \in Nat
<1> DEFINE Z == [x \in S |-> 0]
<1>1. Sum(Z, S) = 0
  BY SumOfZeros
<1>2. \A x \in S : Z[x] \in Int /\ F[x] \in Int /\ Z[x] <= F[x]
  OBVIOUS
<1> HIDE DEF Z
<1>3. Sum(Z, S) <= Sum(F, S) /\ Sum(F, S) \in Int
  BY <1>2, SumMonotone, SumType
<1> QED
  BY <1>1, <1>3

\* The sum of differences is the difference of the sums.
LEMMA SumOfDifference ==
    ASSUME NEW S, IsFiniteSet(S), NEW F, NEW G, NEW H,
           \A x \in S : F[x] \in Int /\ G[x] \in Int /\ H[x] = F[x] - G[x]
    PROVE  Sum(H, S) = Sum(F, S) - Sum(G, S)
<1> DEFINE Bad == {T \in SUBSET S : Sum(H, T) # Sum(F, T) - Sum(G, T)}
<1> SUFFICES ASSUME Bad # {} PROVE FALSE
  OBVIOUS
<1>1. PICK T \in Bad : \A x \in T : T \ {x} \notin Bad
  BY MinimalSubset
<1>2. T # {}
  <2>1. Sum(F, {}) = 0 /\ Sum(G, {}) = 0 /\ Sum(H, {}) = 0
    BY SumEmpty
  <2>2. {} \notin Bad
    BY <2>1
  <2> QED
    BY <2>2
<1>3. PICK c \in T : TRUE
  BY <1>2
<1> DEFINE U == T \ {c}
<1>4. IsFiniteSet(T) /\ IsFiniteSet(U) /\ \A x \in T : H[x] \in Int
  BY FS_Subset
<1>5. /\ Sum(F, T) = F[c] + Sum(F, U) /\ Sum(G, T) = G[c] + Sum(G, U)
      /\ Sum(H, T) = H[c] + Sum(H, U)
  BY <1>4, SumTakesOut
<1>6. Sum(F, U) \in Int /\ Sum(G, U) \in Int
  BY <1>4, SumType
<1>7. Sum(H, U) = Sum(F, U) - Sum(G, U)
  BY <1>1, <1>3
<1>8. F[c] \in Int /\ G[c] \in Int /\ H[c] = F[c] - G[c] /\ Sum(H, T) # Sum(F, T) - Sum(G, T)
  BY <1>1
<1> HIDE DEF U
<1> QED
  BY <1>5, <1>6, <1>7, <1>8

\* A set falls apart into two.
LEMMA SumOfParts ==
    ASSUME NEW S, IsFiniteSet(S), NEW F, \A x \in S : F[x] \in Int,
           NEW A \in SUBSET S
    PROVE  Sum(F, S) = Sum(F, A) + Sum(F, S \ A)
<1> DEFINE Bad == {T \in SUBSET S : Sum(F, T) # Sum(F, T \cap A) + Sum(F, T \ A)}
<1> SUFFICES ASSUME Bad # {} PROVE FALSE
  <2>1. S \cap A = A
    OBVIOUS
  <2> QED
    BY <2>1
<1>1. PICK T \in Bad : \A x \in T : T \ {x} \notin Bad
  BY MinimalSubset
<1>2. T # {}
  BY SumEmpty
<1>3. PICK c \in T : TRUE
  BY <1>2
<1> DEFINE U == T \ {c}
<1>4. /\ IsFiniteSet(T) /\ IsFiniteSet(U)
      /\ IsFiniteSet(T \cap A) /\ IsFiniteSet(T \ A)
      /\ IsFiniteSet(U \cap A) /\ IsFiniteSet(U \ A)
  BY FS_Subset
<1>5. /\ F[c] \in Int /\ Sum(F, U) \in Int
      /\ Sum(F, U \cap A) \in Int /\ Sum(F, U \ A) \in Int
  BY <1>4, SumType
<1>6. Sum(F, U) = Sum(F, U \cap A) + Sum(F, U \ A)
  BY <1>1, <1>3
<1>7. Sum(F, T) = F[c] + Sum(F, U)
  BY <1>4, SumTakesOut
<1>8. CASE c \in A
  <2>1. (T \cap A) \ {c} = U \cap A /\ T \ A = U \ A
    BY <1>8
  <2>2. Sum(F, T \cap A) = F[c] + Sum(F, U \cap A)
    BY <1>4, <1>8, <2>1, SumTakesOut
  <2> HIDE DEF U
  <2>3. Sum(F, T) # Sum(F, T \cap A) + Sum(F, U \ A)
    BY <1>1, <2>1
  <2> QED
    BY <1>5, <1>6, <1>7, <2>2, <2>3
<1>9. CASE c \notin A
  <2>1. (T \ A) \ {c} = U \ A /\ T \cap A = U \cap A
    BY <1>9
  <2>2. Sum(F, T \ A) = F[c] + Sum(F, U \ A)
    BY <1>4, <1>9, <2>1, SumTakesOut
  <2> HIDE DEF U
  <2>3. Sum(F, T) # Sum(F, U \cap A) + Sum(F, T \ A)
    BY <1>1, <2>1
  <2> QED
    BY <1>5, <1>6, <1>7, <2>2, <2>3
<1> QED
  BY <1>8, <1>9

=============================================================================
