----------------------------- MODULE FiniteSums -----------------------------
(***************************************************************************)
(* Sums over finite sets, and the facts about them that the proofs cite.   *)
(* The provers have no induction over data: the arguments go by the least  *)
(* number at which a claim would fail.                                     *)
(***************************************************************************)
EXTENDS Integers, FiniteSets, FiniteSetsExt, FiniteSetTheorems,
        WellFoundedInduction, TLAPS

\* One step of the sum: some element, and the rest.
SumStep(f, g, T) ==
    IF T = {} THEN 0
    ELSE LET x == CHOOSE x \in T : TRUE
         IN  f[x] + g[T \ {x}]

\* The sum of f over the elements of S.
SumOver(f, S) == MapThenSumSet(LAMBDA x : f[x], S)

\* g has the sum of f over every part of S.
Adds(f, g, S) == \A T \in SUBSET S : g[T] = SumStep(f, g, T)
IsSum(f, g, S) == g = [T \in SUBSET S |-> SumStep(f, g, T)]

-----------------------------------------------------------------------------

\* A nonempty set of naturals has a least element.
LEMMA LeastElement ==
    ASSUME NEW T \in SUBSET Nat, T # {}
    PROVE  \E x \in T : \A y \in T : x <= y
  <1> DEFINE below(n) == 0 .. n
             belows == {below(n) : n \in T}
  <1>1. belows \subseteq FiniteSubsetsOf(Nat)
    <2> SUFFICES ASSUME NEW n \in T
                 PROVE  below(n) \in SUBSET Nat /\ IsFiniteSet(below(n))
      BY DEF FiniteSubsetsOf
    <2> QED
      BY FS_Interval
  <1>2. PICK b \in belows : \A a \in belows : ~(<<a, b>> \in StrictSubsetOrdering(Nat))
    <2>1. belows # {}
      OBVIOUS
    <2> HIDE DEF belows
    <2> QED
      BY <1>1, <2>1, FS_StrictSubsetOrderingWellFounded, WFMin
  <1>3. PICK x \in T : b = below(x)
    OBVIOUS
  <1>4. ASSUME NEW y \in T, y < x PROVE FALSE
    <2>1. below(y) \in SUBSET Nat /\ below(x) \in SUBSET Nat
      OBVIOUS
    <2>2. below(y) \subseteq below(x) /\ x \in below(x) /\ x \notin below(y)
      BY <1>4
    <2>3. below(y) # below(x)
      BY <2>2
    <2>4. below(y) \in belows
      OBVIOUS
    <2>5. ~(<<below(y), below(x)>> \in StrictSubsetOrdering(Nat))
      BY <1>2, <1>3, <2>4
    <2>6. <<below(y), below(x)>> \in StrictSubsetOrdering(Nat)
      <3> HIDE DEF below
      <3> QED
        BY <2>1, <2>2, <2>3 DEF StrictSubsetOrdering
    <2> QED
      BY <2>5, <2>6
  <1> QED
    BY <1>3, <1>4

LEMMA SumIs ==
    ASSUME NEW f, NEW S, NEW g, IsSum(f, g, S)
    PROVE  \E h : IsSum(f, h, S) /\ SumOver(f, S) = h[S]
  <1> DEFINE h == CHOOSE h : h = [T \in SUBSET S |-> IF T = {} THEN 0
            ELSE LET x == CHOOSE x \in T : TRUE
                 IN  f[x] + h[T \ {x}]]
  <1>1. IsSum(f, h, S)
    BY DEF IsSum, SumStep
  <1>2. SumOver(f, S) = h[S]
    BY DEF SumOver, MapThenSumSet, MapThenFoldSet
  <1> QED
    BY <1>1, <1>2

\* The parts of a finite set with at most n elements, and a sum over those.
Small(S, n) == {T \in SUBSET S : Cardinality(T) <= n}
IsSumUpTo(f, g, S, n) ==
    /\ g \in [Small(S, n) -> Int]
    /\ \A T \in Small(S, n) : g[T] = SumStep(f, g, T)

LEMMA ChosenElement ==
    ASSUME NEW T, T # {}
    PROVE  (CHOOSE x \in T : TRUE) \in T
  OBVIOUS

\* A part of a finite set, and what is left of it without an element.
LEMMA Parts ==
    ASSUME NEW S, IsFiniteSet(S), NEW T \in SUBSET S
    PROVE  /\ IsFiniteSet(T) /\ Cardinality(T) \in Nat
           /\ Cardinality(T) <= Cardinality(S)
           /\ \A x \in T : /\ T \ {x} \in SUBSET S
                           /\ Cardinality(T \ {x}) = Cardinality(T) - 1
           /\ T # {} <=> Cardinality(T) > 0
  <1>1. IsFiniteSet(T) /\ Cardinality(T) \in Nat /\ Cardinality(T) <= Cardinality(S)
    BY FS_Subset, FS_CardinalityType
  <1>2. \A x \in T : Cardinality(T \ {x}) = Cardinality(T) - 1
    BY <1>1, FS_RemoveElement
  <1>3. T # {} <=> Cardinality(T) > 0
    BY <1>1, FS_EmptySet
  <1> QED
    BY <1>1, <1>2, <1>3

LEMMA SumUpToExists ==
    ASSUME NEW S, IsFiniteSet(S), NEW f, \A x \in S : f[x] \in Int, NEW n \in Nat
    PROVE  \E g : IsSumUpTo(f, g, S, n)
  <1> DEFINE bad == {k \in Nat : ~\E g : IsSumUpTo(f, g, S, k)}
  <1>1. SUFFICES ASSUME bad # {} PROVE FALSE
    OBVIOUS
  <1>2. PICK k \in bad : \A j \in bad : k <= j
    BY <1>1, LeastElement
  <1>3. CASE k = 0
    <2> DEFINE g == [T \in Small(S, 0) |-> 0]
    <2>1. \A T \in Small(S, 0) : T = {}
      BY Parts DEF Small
    <2>2. IsSumUpTo(f, g, S, 0)
      BY <2>1 DEF IsSumUpTo, SumStep
    <2> QED
      BY <1>2, <1>3, <2>2
  <1>4. CASE k # 0
    <2>1. k - 1 \in Nat /\ k - 1 \notin bad
      BY <1>2, <1>4
    <2>2. PICK g : IsSumUpTo(f, g, S, k - 1)
      BY <2>1
    <2> DEFINE h == [T \in Small(S, k) |-> SumStep(f, g, T)]
    <2>3. ASSUME NEW T \in Small(S, k), T # {}, NEW x \in T
          PROVE  T \ {x} \in Small(S, k - 1) /\ T \ {x} \in Small(S, k)
      <3>1. Cardinality(T) \in Nat /\ Cardinality(T) <= k /\ T \in SUBSET S
        BY Parts DEF Small
      <3>2. Cardinality(T \ {x}) = Cardinality(T) - 1
        BY <3>1, <2>3, Parts
      <3> QED
        BY <3>1, <3>2, <1>2 DEF Small
    <2>4. ASSUME NEW T \in Small(S, k) PROVE h[T] \in Int /\ SumStep(f, g, T) \in Int
      <3>1. CASE T = {}
        BY <3>1 DEF SumStep
      <3>2. CASE T # {}
        <4> DEFINE x == CHOOSE x \in T : TRUE
        <4>1. x \in T /\ T \in SUBSET S
          BY <3>2, ChosenElement DEF Small
        <4> HIDE DEF x
        <4>2. g[T \ {x}] \in Int /\ f[x] \in Int
          BY <4>1, <2>2, <2>3, <3>2 DEF IsSumUpTo
        <4>3. SumStep(f, g, T) = f[x] + g[T \ {x}]
          BY <3>2 DEF SumStep, x
        <4> QED
          BY <4>2, <4>3
      <3> QED
        BY <3>1, <3>2
    <2>5. \A T \in Small(S, k - 1) : T \in Small(S, k) /\ h[T] = g[T]
      <3> SUFFICES ASSUME NEW T \in Small(S, k - 1) PROVE T \in Small(S, k) /\ h[T] = g[T]
        OBVIOUS
      <3>1. T \in Small(S, k)
        BY Parts, <1>2 DEF Small
      <3> QED
        BY <3>1, <2>2 DEF IsSumUpTo
    <2>6. ASSUME NEW T \in Small(S, k) PROVE h[T] = SumStep(f, h, T)
      <3>1. CASE T = {}
        BY <3>1 DEF SumStep
      <3>2. CASE T # {}
        <4> DEFINE x == CHOOSE x \in T : TRUE
        <4>1. x \in T
          BY <3>2, ChosenElement
        <4> HIDE DEF x
        <4>2. h[T \ {x}] = g[T \ {x}]
          BY <4>1, <2>3, <2>5, <3>2
        <4>3. SumStep(f, g, T) = f[x] + g[T \ {x}] /\ SumStep(f, h, T) = f[x] + h[T \ {x}]
          BY <3>2 DEF SumStep, x
        <4>4. h[T] = SumStep(f, g, T)
          OBVIOUS
        <4> HIDE DEF h
        <4> QED
          BY <4>2, <4>3, <4>4
      <3> QED
        BY <3>1, <3>2
    <2>7. h \in [Small(S, k) -> Int]
      BY <2>4
    <2> HIDE DEF h
    <2>8. IsSumUpTo(f, h, S, k)
      BY <2>6, <2>7 DEF IsSumUpTo
    <2> QED
      BY <1>2, <2>8
  <1> QED
    BY <1>3, <1>4

LEMMA SumExists ==
    ASSUME NEW S, IsFiniteSet(S), NEW f, \A x \in S : f[x] \in Int
    PROVE  \E g \in [SUBSET S -> Int] :
              Adds(f, g, S)
  <1> DEFINE n == Cardinality(S)
  <1>1. n \in Nat
    BY FS_CardinalityType
  <1>2. Small(S, n) = SUBSET S
    BY Parts DEF Small
  <1> HIDE DEF n
  <1>3. PICK g : IsSumUpTo(f, g, S, n)
    BY <1>1, SumUpToExists
  <1> QED
    BY <1>2, <1>3 DEF IsSumUpTo, Adds

\* Every function that adds this way has the same values.
LEMMA SumUnique ==
    ASSUME NEW S, IsFiniteSet(S), NEW f, NEW g, NEW h, NEW R \in SUBSET S,
           Adds(f, g, R),
           Adds(f, h, R)
    PROVE  g[R] = h[R]
  <1> DEFINE bad == {k \in Nat : \E T \in SUBSET R : Cardinality(T) = k /\ g[T] # h[T]}
  <1>1. IsFiniteSet(R)
    BY Parts
  <1>2. SUFFICES ASSUME bad # {} PROVE FALSE
    BY <1>1, Parts
  <1>3. PICK k \in bad : \A j \in bad : k <= j
    BY <1>2, LeastElement
  <1>4. PICK T \in SUBSET R : Cardinality(T) = k /\ g[T] # h[T]
    BY <1>3
  <1>5. T # {}
    BY <1>4 DEF SumStep, Adds
  <1> DEFINE x == CHOOSE x \in T : TRUE
  <1>6. x \in T
    BY <1>5, ChosenElement
  <1>7. g[T] = f[x] + g[T \ {x}] /\ h[T] = f[x] + h[T \ {x}]
    BY <1>4, <1>5 DEF SumStep, Adds
  <1> HIDE DEF x
  <1>8. T \ {x} \in SUBSET R /\ Cardinality(T \ {x}) = k - 1 /\ k - 1 \in Nat
    BY <1>1, <1>4, <1>6, Parts
  <1>9. k - 1 \notin bad
    BY <1>3, <1>8
  <1>10. g[T \ {x}] = h[T \ {x}]
    BY <1>8, <1>9
  <1> QED
    BY <1>4, <1>7, <1>10

\* SumOver is the value of every function that adds this way.
LEMMA SumOverIs ==
    ASSUME NEW S, IsFiniteSet(S), NEW f, \A x \in S : f[x] \in Int
    PROVE  \E g \in [SUBSET S -> Int] :
              /\ Adds(f, g, S)
              /\ SumOver(f, S) = g[S]
  <1>1. PICK g \in [SUBSET S -> Int] : Adds(f, g, S)
    BY SumExists
  <1>2. IsSum(f, g, S)
    BY <1>1 DEF IsSum, Adds
  <1>3. PICK h : IsSum(f, h, S) /\ SumOver(f, S) = h[S]
    BY <1>2, SumIs
  <1>4. Adds(f, h, S)
    BY <1>3 DEF IsSum, Adds
  <1>5. g[S] = h[S]
    <2>1. S \in SUBSET S
      OBVIOUS
    <2> QED
      BY <1>1, <1>4, <2>1, SumUnique
  <1> QED
    BY <1>1, <1>3, <1>5

LEMMA SumOverAt ==
    ASSUME NEW S, IsFiniteSet(S), NEW f, \A x \in S : f[x] \in Int,
           NEW g, Adds(f, g, S),
           NEW R \in SUBSET S
    PROVE  SumOver(f, R) = g[R] /\ SumOver(f, R) \in Int
  <1>1. IsFiniteSet(R)
    BY Parts
  <1>2. PICK h \in [SUBSET R -> Int] :
              /\ Adds(f, h, R)
              /\ SumOver(f, R) = h[R]
    BY <1>1, SumOverIs
  <1>3. g[R] = h[R]
    <2>1. Adds(f, g, R)
      BY DEF Adds
    <2> QED
      BY <1>2, <2>1, SumUnique
  <1> QED
    BY <1>2, <1>3

LEMMA SumEmpty ==
    ASSUME NEW f
    PROVE  SumOver(f, {}) = 0
  <1>1. PICK g \in [SUBSET {} -> Int] :
              /\ Adds(f, g, {})
              /\ SumOver(f, {}) = g[{}]
    BY SumOverIs, FS_EmptySet
  <1> QED
    BY <1>1 DEF SumStep, Adds

\* The order of the elements does not matter: the sum is any element's value
\* and the sum of the others.
LEMMA SumRemove ==
    ASSUME NEW S, IsFiniteSet(S), NEW f, \A x \in S : f[x] \in Int, NEW e \in S
    PROVE  /\ SumOver(f, S) \in Int /\ SumOver(f, S \ {e}) \in Int
           /\ SumOver(f, S) = f[e] + SumOver(f, S \ {e})
  <1>1. PICK g \in [SUBSET S -> Int] :
              /\ Adds(f, g, S)
              /\ SumOver(f, S) = g[S]
    BY SumOverIs
  <1> DEFINE bad == {k \in Nat : \E T \in SUBSET S : \E x \in T :
                        Cardinality(T) = k /\ g[T] # f[x] + g[T \ {x}]}
  <1>2. bad = {}
    <2> SUFFICES ASSUME bad # {} PROVE FALSE
      OBVIOUS
    <2>1. PICK k \in bad : \A j \in bad : k <= j
      BY LeastElement
    <2>a. PICK T \in SUBSET S : \E x \in T : Cardinality(T) = k /\ g[T] # f[x] + g[T \ {x}]
      BY <2>1
    <2>2. PICK x \in T : Cardinality(T) = k /\ g[T] # f[x] + g[T \ {x}]
      BY <2>a
    <2> DEFINE y == CHOOSE y \in T : TRUE
    <2>3. y \in T
      BY <2>2, ChosenElement
    <2>4. g[T] = f[y] + g[T \ {y}]
      <3>1. g[T] = SumStep(f, g, T) /\ T # {}
        BY <1>1, <2>2 DEF Adds
      <3> QED
        BY <3>1 DEF SumStep
    <2> HIDE DEF y
    <2>5. x # y
      BY <2>2, <2>4
    <2>6. /\ T \ {x} \in SUBSET S /\ Cardinality(T \ {x}) = k - 1
          /\ T \ {y} \in SUBSET S /\ Cardinality(T \ {y}) = k - 1 /\ k - 1 \in Nat
      BY <2>2, <2>3, Parts
    <2>7. k - 1 \notin bad
      <3>1. k \in Nat
        BY <2>1
      <3> HIDE DEF bad
      <3> QED
        BY <2>1, <2>6, <3>1
    <2>8. x \in T \ {y} /\ y \in T \ {x} /\ (T \ {x}) \ {y} = (T \ {y}) \ {x}
      BY <2>2, <2>3, <2>5
    <2>9. g[T \ {y}] = f[x] + g[(T \ {y}) \ {x}]
      BY <2>6, <2>7, <2>8
    <2>10. g[T \ {x}] = f[y] + g[(T \ {x}) \ {y}]
      BY <2>6, <2>7, <2>8
    <2> DEFINE r == g[(T \ {x}) \ {y}]
    <2>11. r \in Int /\ f[x] \in Int /\ f[y] \in Int
      <3>1. (T \ {x}) \ {y} \in SUBSET S
        BY <2>6
      <3> QED
        BY <1>1, <2>2, <2>3, <3>1
    <2>12. g[T \ {y}] = f[x] + r /\ g[T \ {x}] = f[y] + r
      BY <2>8, <2>9, <2>10
    <2> HIDE DEF r
    <2> QED
      BY <2>2, <2>4, <2>11, <2>12
  <1>3. g[S] = f[e] + g[S \ {e}]
    <2>1. Cardinality(S) \in Nat
      BY FS_CardinalityType
    <2> QED
      BY <1>2, <2>1
  <1>4. SumOver(f, S \ {e}) = g[S \ {e}]
    BY <1>1, SumOverAt
  <1> QED
    BY <1>1, <1>3, <1>4

LEMMA SumInsert ==
    ASSUME NEW S, IsFiniteSet(S), NEW e, e \notin S,
           NEW f, \A x \in S \cup {e} : f[x] \in Int
    PROVE  /\ SumOver(f, S) \in Int /\ SumOver(f, S \cup {e}) \in Int
           /\ SumOver(f, S \cup {e}) = f[e] + SumOver(f, S)
  <1>1. IsFiniteSet(S \cup {e}) /\ e \in S \cup {e} /\ (S \cup {e}) \ {e} = S
    BY FS_AddElement
  <1> QED
    BY <1>1, SumRemove

\* The sum is decided by the values at the elements.
LEMMA SumSame ==
    ASSUME NEW S, IsFiniteSet(S), NEW f, NEW h, \A x \in S : f[x] \in Int,
           \A x \in S : h[x] = f[x]
    PROVE  SumOver(h, S) = SumOver(f, S)
  <1>1. PICK g \in [SUBSET S -> Int] :
              /\ Adds(f, g, S)
              /\ SumOver(f, S) = g[S]
    BY SumOverIs
  <1>2. ASSUME NEW T \in SUBSET S PROVE g[T] = SumStep(h, g, T)
    <2>1. CASE T = {}
      BY <1>1, <2>1 DEF SumStep, Adds
    <2>2. CASE T # {}
      <3> DEFINE x == CHOOSE x \in T : TRUE
      <3>1. x \in T
        BY <2>2, ChosenElement
      <3>2. SumStep(f, g, T) = f[x] + g[T \ {x}] /\ SumStep(h, g, T) = h[x] + g[T \ {x}]
        BY <2>2 DEF SumStep
      <3> HIDE DEF x
      <3> QED
        BY <1>1, <3>1, <3>2 DEF Adds
    <2> QED
      BY <2>1, <2>2
  <1>3. \A x \in S : h[x] \in Int
    OBVIOUS
  <1>a. Adds(h, g, S) /\ S \in SUBSET S
    BY <1>2 DEF Adds
  <1>4. SumOver(h, S) = g[S]
    BY <1>3, <1>a, SumOverAt
  <1> QED
    BY <1>1, <1>4

\* A sum with smaller values over fewer elements is smaller, and no sum of
\* naturals is negative.
LEMMA SumMonotone ==
    ASSUME NEW S, IsFiniteSet(S), NEW f, NEW h,
           \A x \in S : f[x] \in Int /\ h[x] \in Int,
           NEW R \in SUBSET S,
           \A x \in R : f[x] <= h[x],
           \A x \in S \ R : 0 <= h[x]
    PROVE  /\ SumOver(f, R) \in Int /\ SumOver(h, S) \in Int
           /\ SumOver(f, R) <= SumOver(h, S)
  <1> DEFINE Ok(T) == /\ SumOver(f, R \cap T) \in Int /\ SumOver(h, T) \in Int
                      /\ SumOver(f, R \cap T) <= SumOver(h, T)
             bad == {k \in Nat : \E T \in SUBSET S : Cardinality(T) = k /\ ~Ok(T)}
  <1>1. bad = {}
    <2> SUFFICES ASSUME bad # {} PROVE FALSE
      OBVIOUS
    <2>1. PICK k \in bad : \A j \in bad : k <= j
      BY LeastElement
    <2>2. PICK T \in SUBSET S : Cardinality(T) = k /\ ~Ok(T)
      BY <2>1
    <2>3. T # {}
      <3> SUFFICES ASSUME T = {} PROVE FALSE
        OBVIOUS
      <3>1. R \cap T = {} /\ SumOver(h, T) = 0 /\ SumOver(f, {}) = 0
        BY SumEmpty
      <3> QED
        BY <2>2, <3>1
    <2>4. PICK x \in T : TRUE
      BY <2>3
    <2> DEFINE Q == T \ {x}
    <2>5. Q \in SUBSET S /\ Cardinality(Q) = k - 1 /\ k - 1 \in Nat /\ IsFiniteSet(T)
      BY <2>2, Parts
    <2>6. Ok(Q)
      <3>1. k - 1 \notin bad
        BY <2>1, <2>5
      <3> QED
        BY <2>5, <3>1
    <2>7. /\ SumOver(h, T) \in Int /\ SumOver(h, T) = h[x] + SumOver(h, Q)
      <3>1. \A y \in T : h[y] \in Int
        OBVIOUS
      <3> QED
        BY <2>5, <3>1, SumRemove
    <2>8. h[x] \in Int /\ f[x] \in Int
      OBVIOUS
    <2>9. CASE x \in R
      <3>1. x \in R \cap T /\ (R \cap T) \ {x} = R \cap Q
        BY <2>9
      <3>2. IsFiniteSet(R \cap T) /\ \A y \in R \cap T : f[y] \in Int
        BY <2>5, FS_Subset
      <3>3. /\ SumOver(f, R \cap T) \in Int
            /\ SumOver(f, R \cap T) = f[x] + SumOver(f, (R \cap T) \ {x})
        BY <3>1, <3>2, SumRemove
      <3>4. SumOver(f, R \cap T) = f[x] + SumOver(f, R \cap Q) /\ f[x] <= h[x]
        BY <3>1, <3>3, <2>9
      <3> HIDE DEF Q
      <3> QED
        BY <2>2, <2>6, <2>7, <2>8, <3>3, <3>4
    <2>10. CASE x \notin R
      <3>1. R \cap T = R \cap Q /\ 0 <= h[x]
        BY <2>10
      <3>2. SumOver(f, R \cap T) = SumOver(f, R \cap Q)
        BY <3>1
      <3> HIDE DEF Q
      <3> QED
        BY <2>2, <2>6, <2>7, <2>8, <3>1, <3>2
    <2> QED
      BY <2>9, <2>10
  <1>2. Cardinality(S) \in Nat /\ R \cap S = R
    BY FS_CardinalityType
  <1>3. Ok(S)
    BY <1>1, <1>2
  <1> QED
    BY <1>2, <1>3

\* A sum over more elements is not larger when what is added is not positive.
LEMMA SumBounded ==
    ASSUME NEW S, IsFiniteSet(S), NEW f, NEW h,
           \A x \in S : f[x] \in Int /\ h[x] \in Int,
           NEW R \in SUBSET S,
           \A x \in R : h[x] <= f[x],
           \A x \in S \ R : h[x] <= 0
    PROVE  /\ SumOver(f, R) \in Int /\ SumOver(h, S) \in Int
           /\ SumOver(h, S) <= SumOver(f, R)
  <1> DEFINE Ok(T) == /\ SumOver(f, R \cap T) \in Int /\ SumOver(h, T) \in Int
                      /\ SumOver(h, T) <= SumOver(f, R \cap T)
             bad == {k \in Nat : \E T \in SUBSET S : Cardinality(T) = k /\ ~Ok(T)}
  <1>1. bad = {}
    <2> SUFFICES ASSUME bad # {} PROVE FALSE
      OBVIOUS
    <2>1. PICK k \in bad : \A j \in bad : k <= j
      BY LeastElement
    <2>2. PICK T \in SUBSET S : Cardinality(T) = k /\ ~Ok(T)
      BY <2>1
    <2>3. T # {}
      <3> SUFFICES ASSUME T = {} PROVE FALSE
        OBVIOUS
      <3>1. R \cap T = {} /\ SumOver(h, T) = 0 /\ SumOver(f, {}) = 0
        BY SumEmpty
      <3> QED
        BY <2>2, <3>1
    <2>4. PICK x \in T : TRUE
      BY <2>3
    <2> DEFINE Q == T \ {x}
    <2>5. Q \in SUBSET S /\ Cardinality(Q) = k - 1 /\ k - 1 \in Nat /\ IsFiniteSet(T)
      BY <2>2, Parts
    <2>6. Ok(Q)
      <3>1. k - 1 \notin bad
        BY <2>1, <2>5
      <3> QED
        BY <2>5, <3>1
    <2>7. /\ SumOver(h, T) \in Int /\ SumOver(h, T) = h[x] + SumOver(h, Q)
      <3>1. \A y \in T : h[y] \in Int
        OBVIOUS
      <3> QED
        BY <2>5, <3>1, SumRemove
    <2>8. h[x] \in Int /\ f[x] \in Int
      OBVIOUS
    <2>9. CASE x \in R
      <3>1. x \in R \cap T /\ (R \cap T) \ {x} = R \cap Q
        BY <2>9
      <3>2. IsFiniteSet(R \cap T) /\ \A y \in R \cap T : f[y] \in Int
        BY <2>5, FS_Subset
      <3>3. /\ SumOver(f, R \cap T) \in Int
            /\ SumOver(f, R \cap T) = f[x] + SumOver(f, (R \cap T) \ {x})
        BY <3>1, <3>2, SumRemove
      <3>4. SumOver(f, R \cap T) = f[x] + SumOver(f, R \cap Q) /\ h[x] <= f[x]
        BY <3>1, <3>3, <2>9
      <3> HIDE DEF Q
      <3> QED
        BY <2>2, <2>6, <2>7, <2>8, <3>3, <3>4
    <2>10. CASE x \notin R
      <3>1. R \cap T = R \cap Q /\ h[x] <= 0
        BY <2>10
      <3>2. SumOver(f, R \cap T) = SumOver(f, R \cap Q)
        BY <3>1
      <3> HIDE DEF Q
      <3> QED
        BY <2>2, <2>6, <2>7, <2>8, <3>1, <3>2
    <2> QED
      BY <2>9, <2>10
  <1>2. Cardinality(S) \in Nat /\ R \cap S = R
    BY FS_CardinalityType
  <1>3. Ok(S)
    BY <1>1, <1>2
  <1> QED
    BY <1>2, <1>3

\* One value is raised by n.
LEMMA SumRaise ==
    ASSUME NEW S, IsFiniteSet(S), NEW f, NEW h, NEW e \in S, NEW n \in Int,
           \A x \in S : f[x] \in Int,
           h[e] = f[e] + n,
           \A x \in S \ {e} : h[x] = f[x]
    PROVE  /\ SumOver(f, S) \in Int /\ SumOver(h, S) \in Int
           /\ SumOver(h, S) = SumOver(f, S) + n
  <1>1. IsFiniteSet(S \ {e})
    BY FS_Subset
  <1>2. /\ SumOver(f, S) \in Int /\ SumOver(f, S \ {e}) \in Int
        /\ SumOver(f, S) = f[e] + SumOver(f, S \ {e})
    BY SumRemove
  <1>3. \A x \in S : h[x] \in Int
    OBVIOUS
  <1>4. SumOver(h, S) \in Int /\ SumOver(h, S) = h[e] + SumOver(h, S \ {e})
    BY <1>3, SumRemove
  <1>5. SumOver(h, S \ {e}) = SumOver(f, S \ {e})
    BY <1>1, SumSame
  <1>6. f[e] \in Int
    OBVIOUS
  <1> QED
    BY <1>2, <1>4, <1>5, <1>6

\* The sum of sums.
LEMMA SumPlus ==
    ASSUME NEW S, IsFiniteSet(S), NEW f, NEW h, NEW s,
           \A x \in S : f[x] \in Int,
           \A x \in S : h[x] \in Int,
           \A x \in S : s[x] = f[x] + h[x]
    PROVE  /\ SumOver(f, S) \in Int /\ SumOver(h, S) \in Int
           /\ SumOver(s, S) = SumOver(f, S) + SumOver(h, S)
  <1>1. PICK a \in [SUBSET S -> Int] : Adds(f, a, S) /\ SumOver(f, S) = a[S]
    BY SumOverIs
  <1>2. PICK b \in [SUBSET S -> Int] : Adds(h, b, S) /\ SumOver(h, S) = b[S]
    BY SumOverIs
  <1> DEFINE g == [T \in SUBSET S |-> a[T] + b[T]]
  <1>3. ASSUME NEW T \in SUBSET S PROVE g[T] = SumStep(s, g, T)
    <2>1. a[T] = SumStep(f, a, T) /\ b[T] = SumStep(h, b, T)
      BY <1>1, <1>2 DEF Adds
    <2>2. CASE T = {}
      BY <2>1, <2>2 DEF SumStep
    <2>3. CASE T # {}
      <3> DEFINE x == CHOOSE x \in T : TRUE
      <3>1. x \in T
        BY <2>3
      <3>2. a[T] = f[x] + a[T \ {x}] /\ b[T] = h[x] + b[T \ {x}]
        BY <2>1, <2>3 DEF SumStep
      <3>3. SumStep(s, g, T) = s[x] + g[T \ {x}]
        BY <2>3 DEF SumStep
      <3> HIDE DEF x
      <3>4. /\ T \ {x} \in SUBSET S /\ x \in S
            /\ a[T \ {x}] \in Int /\ b[T \ {x}] \in Int /\ f[x] \in Int /\ h[x] \in Int
        BY <3>1
      <3>5. g[T] = a[T] + b[T] /\ g[T \ {x}] = a[T \ {x}] + b[T \ {x}]
        BY <3>4
      <3>6. s[x] = f[x] + h[x]
        BY <3>4
      <3> HIDE DEF g
      <3> QED
        BY <3>2, <3>3, <3>4, <3>5, <3>6
    <2> QED
      BY <2>2, <2>3
  <1>4. Adds(s, g, S)
    BY <1>3 DEF Adds
  <1>5. \A x \in S : s[x] \in Int
    OBVIOUS
  <1>6. g[S] = a[S] + b[S] /\ a[S] \in Int /\ b[S] \in Int
    OBVIOUS
  <1> HIDE DEF g
  <1>7. S \in SUBSET S
    OBVIOUS
  <1>8. SumOver(s, S) = g[S]
    BY <1>4, <1>5, <1>7, SumOverAt
  <1> QED
    BY <1>1, <1>2, <1>6, <1>8

\* The sum of equal values is a multiple of theirs.
LEMMA SumEqual ==
    ASSUME NEW S, IsFiniteSet(S), NEW f, NEW k \in Nat, NEW R \in SUBSET S,
           \A x \in R : f[x] = k,
           \A x \in S \ R : f[x] = 0
    PROVE  /\ Cardinality(R) \in Nat /\ SumOver(f, S) \in Nat
           /\ SumOver(f, S) = Cardinality(R) * k
  <1> DEFINE Ok(T) == SumOver(f, T) = Cardinality(R \cap T) * k
             bad == {j \in Nat : \E T \in SUBSET S : Cardinality(T) = j /\ ~Ok(T)}
  <1>0. \A x \in S : f[x] \in Int
    OBVIOUS
  <1>1. bad = {}
    <2> SUFFICES ASSUME bad # {} PROVE FALSE
      OBVIOUS
    <2>1. PICK j \in bad : \A i \in bad : j <= i
      BY LeastElement
    <2>2. PICK T \in SUBSET S : Cardinality(T) = j /\ ~Ok(T)
      BY <2>1
    <2>3. T # {}
      <3> SUFFICES ASSUME T = {} PROVE FALSE
        OBVIOUS
      <3>1. R \cap T = {} /\ SumOver(f, T) = 0 /\ Cardinality(R \cap T) = 0
        BY SumEmpty, FS_EmptySet
      <3>2. 0 * k = 0
        OBVIOUS
      <3> QED
        BY <2>2, <3>1, <3>2
    <2>4. PICK x \in T : TRUE
      BY <2>3
    <2> DEFINE Q == T \ {x}
    <2>5. Q \in SUBSET S /\ Cardinality(Q) = j - 1 /\ j - 1 \in Nat /\ IsFiniteSet(T)
      BY <2>2, Parts
    <2>6. Ok(Q)
      <3>1. j - 1 \notin bad
        <4>1. j \in Nat /\ ~(j <= j - 1)
          BY <2>1
        <4> HIDE DEF bad
        <4> QED
          BY <2>1, <4>1
      <3> QED
        BY <2>5, <3>1
    <2>7. SumOver(f, T) = f[x] + SumOver(f, Q)
      <3>1. \A y \in T : f[y] \in Int
        BY <1>0
      <3> QED
        BY <2>5, <3>1, SumRemove
    <2>8. IsFiniteSet(R \cap T) /\ IsFiniteSet(R \cap Q)
      BY <2>5, FS_Subset
    <2>9. Cardinality(R \cap T) \in Nat /\ Cardinality(R \cap Q) \in Nat
      BY <2>8, FS_CardinalityType
    <2>10. CASE x \in R
      <3>1. x \in R \cap T /\ (R \cap T) \ {x} = R \cap Q
        BY <2>10
      <3>2. Cardinality(R \cap Q) = Cardinality(R \cap T) - 1
        BY <2>8, <3>1, FS_RemoveElement
      <3>3. PICK c \in Nat : c = Cardinality(R \cap Q)
        BY <2>9
      <3>4. Cardinality(R \cap T) = c + 1
        BY <2>9, <3>2, <3>3
      <3>5. (c + 1) * k = k + c * k
        OBVIOUS
      <3>6. SumOver(f, T) = k + c * k
        BY <2>6, <2>7, <2>10, <3>3
      <3> QED
        BY <2>2, <3>4, <3>5, <3>6
    <2>11. CASE x \notin R
      <3>1. R \cap T = R \cap Q /\ f[x] = 0
        BY <2>11
      <3>2. PICK c \in Nat : c = Cardinality(R \cap Q)
        BY <2>9
      <3>3. c * k \in Nat
        OBVIOUS
      <3>4. SumOver(f, Q) = c * k
        BY <2>6, <3>2
      <3>5. SumOver(f, T) = c * k
        <4>1. SumOver(f, T) = 0 + SumOver(f, Q)
          BY <2>7, <3>1
        <4> QED
          BY <3>3, <3>4, <4>1
      <3>6. Cardinality(R \cap T) = c
        BY <3>1, <3>2
      <3> QED
        BY <2>2, <3>5, <3>6
    <2> QED
      BY <2>10, <2>11
  <1>2. Cardinality(S) \in Nat /\ R \cap S = R
    BY FS_CardinalityType
  <1>3. Ok(S)
    BY <1>1, <1>2
  <1>4. Cardinality(R) \in Nat
    BY FS_Subset, FS_CardinalityType
  <1>5. PICK c \in Nat : c = Cardinality(R)
    BY <1>4
  <1>6. c * k \in Nat
    OBVIOUS
  <1> QED
    BY <1>2, <1>3, <1>4, <1>5, <1>6

\* The values of f at different places add up to no more than all its values.
LEMMA SumReindex ==
    ASSUME NEW S, IsFiniteSet(S), NEW T, IsFiniteSet(T), NEW f, NEW h, NEW g,
           \A y \in T : f[y] \in Nat,
           \A x \in S : g[x] \in T /\ h[x] = f[g[x]],
           \A x, y \in S : g[x] = g[y] => x = y
    PROVE  SumOver(h, S) \in Int /\ SumOver(h, S) <= SumOver(f, T) /\ SumOver(f, T) \in Int
  <1> DEFINE Img(A) == {g[x] : x \in A}
             Ok(A) == SumOver(h, A) = SumOver(f, Img(A))
             bad == {k \in Nat : \E A \in SUBSET S : Cardinality(A) = k /\ ~Ok(A)}
  <1>0. /\ \A y \in T : f[y] \in Int
        /\ \A x \in S : h[x] \in Int
    OBVIOUS
  <1>1. bad = {}
    <2> SUFFICES ASSUME bad # {} PROVE FALSE
      OBVIOUS
    <2>1. PICK k \in bad : \A j \in bad : k <= j
      BY LeastElement
    <2>2. PICK A \in SUBSET S : Cardinality(A) = k /\ ~Ok(A)
      BY <2>1
    <2>3. A # {}
      <3> SUFFICES ASSUME A = {} PROVE FALSE
        OBVIOUS
      <3>1. Img(A) = {} /\ SumOver(h, A) = 0 /\ SumOver(f, {}) = 0
        BY SumEmpty
      <3>2. SumOver(f, Img(A)) = 0
        BY <3>1
      <3> QED
        BY <2>2, <3>1, <3>2
    <2>4. PICK x \in A : TRUE
      BY <2>3
    <2> DEFINE Q == A \ {x}
    <2>5. Q \in SUBSET S /\ Cardinality(Q) = k - 1 /\ k - 1 \in Nat /\ IsFiniteSet(A)
      BY <2>2, Parts
    <2>6. Ok(Q)
      <3>1. k - 1 \notin bad
        <4>1. k \in Nat /\ ~(k <= k - 1)
          BY <2>1
        <4> HIDE DEF bad
        <4> QED
          BY <2>1, <4>1
      <3> QED
        BY <2>5, <3>1
    <2>7. SumOver(h, A) = h[x] + SumOver(h, Q)
      <3>1. \A y \in A : h[y] \in Int
        BY <1>0
      <3> QED
        BY <2>5, <3>1, SumRemove
    <2>8. SumOver(f, Img(A)) = f[g[x]] + SumOver(f, Img(A) \ {g[x]})
      <3>1. PICK B \in SUBSET T : B = Img(A)
        <4>1. \A y \in A : g[y] \in T
          OBVIOUS
        <4>2. Img(A) \in SUBSET T
          BY <4>1
        <4> HIDE DEF Img
        <4> QED
          BY <4>2
      <3>2. IsFiniteSet(B) /\ \A y \in B : f[y] \in Int
        BY <1>0, <3>1, FS_Subset
      <3>3. PICK e \in B : e = g[x]
        BY <3>1
      <3>4. SumOver(f, B) = f[e] + SumOver(f, B \ {e})
        BY <3>2, SumRemove
      <3> QED
        BY <3>1, <3>3, <3>4
    <2>9. Img(A) \ {g[x]} = Img(Q)
      OBVIOUS
    <2>10. SumOver(f, Img(A)) = h[x] + SumOver(f, Img(Q))
      <3>1. h[x] = f[g[x]]
        OBVIOUS
      <3> HIDE DEF Img, Q
      <3> QED
        BY <2>8, <2>9, <3>1
    <2>11. SumOver(h, A) = SumOver(f, Img(A))
      <3> HIDE DEF Img, Q
      <3> QED
        BY <2>6, <2>7, <2>10
    <2> QED
      BY <2>2, <2>11
  <1>2. Cardinality(S) \in Nat
    BY FS_CardinalityType
  <1>3. Ok(S)
    BY <1>1, <1>2
  <1>4. PICK R \in SUBSET T : R = Img(S)
    OBVIOUS
  <1>5. /\ SumOver(f, R) \in Int /\ SumOver(f, T) \in Int
        /\ SumOver(f, R) <= SumOver(f, T)
    <2>1. (\A y \in R : f[y] <= f[y]) /\ \A y \in T \ R : 0 <= f[y]
      OBVIOUS
    <2>2. \A y \in T : f[y] \in Int /\ f[y] \in Int
      BY <1>0
    <2> QED
      BY <2>1, <2>2, SumMonotone
  <1>6. SumOver(h, S) = SumOver(f, R)
    <2> HIDE DEF Img
    <2> QED
      BY <1>3, <1>4
  <1> QED
    BY <1>5, <1>6
=============================================================================
