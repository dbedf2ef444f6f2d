--------------------------- MODULE DetectorProofs ---------------------------
(***************************************************************************)
(* The detector for heatmaps of any size: the unrolled convolutions are    *)
(* the generic one, no peak is discarded, clusters keep contacts apart and *)
(* stay inside the heatmap.                                                *)
(***************************************************************************)
EXTENDS Detector, FiniteSetTheorems, TLAPS

-----------------------------------------------------------------------------
(* Sets of numbers, as in FinderProofs.                                    *)

\* Every set of numbers has a smallest element.
LEMMA Smallest ==
  ASSUME NEW T \in SUBSET Nat, T # {}
  PROVE  \E x \in T : \A y \in T : x <= y
<1> DEFINE Upto(x) == 0..x
           Family == {Upto(x) : x \in T}
<1>1. Family \subseteq FiniteSubsetsOf(Nat) /\ Family # {}
  <2>1. \A x \in T : Upto(x) \subseteq Nat /\ IsFiniteSet(Upto(x))
    BY FS_Interval
  <2> QED
    BY <2>1 DEF FiniteSubsetsOf
<1>2. PICK F \in Family : \A G \in Family : <<G, F>> \notin StrictSubsetOrdering(Nat)
  <2>1. IsWellFoundedOn(StrictSubsetOrdering(Nat), FiniteSubsetsOf(Nat))
    BY FS_StrictSubsetOrderingWellFounded
  <2> HIDE DEF Family
  <2> QED
    BY <1>1, <2>1, WFMin
<1>3. PICK x \in T : F = Upto(x)
  BY <1>2
<1>4. ASSUME NEW y \in T, ~(x <= y) PROVE FALSE
  <2>1. y \in Nat /\ x \in Nat /\ y < x
    BY <1>4
  <2>2. Upto(y) \subseteq Upto(x) /\ Upto(y) # Upto(x)
    BY <2>1
  <2>3. Upto(y) \subseteq Nat /\ Upto(x) \subseteq Nat
    BY <2>1
  <2>4. <<Upto(y), Upto(x)>> \in StrictSubsetOrdering(Nat)
    BY <2>2, <2>3 DEF StrictSubsetOrdering
  <2> QED
    BY <1>2, <1>3, <2>4
<1> QED
  BY <1>4

\* The numbers of a set that are smaller than one of them.
Below(S, i) == {j \in S : j < i}

\* A finite set of at least k numbers has one with k - 1 below it.
LEMMA Rank ==
  ASSUME NEW S \in SUBSET Nat, IsFiniteSet(S), NEW k \in 1..Cardinality(S)
  PROVE  \E i \in S : Cardinality(Below(S, i)) = k - 1
<1> DEFINE Bad == {n \in 1..Cardinality(S) : ~ \E i \in S : Cardinality(Below(S, i)) = n - 1}
<1>0. /\ Cardinality(S) \in Nat
      /\ \A T \in SUBSET S : IsFiniteSet(T) /\ Cardinality(T) \in Nat
  BY FS_CardinalityType, FS_Subset
<1>1. SUFFICES ASSUME Bad # {} PROVE FALSE
  BY <1>0
<1>2. PICK n \in Bad : \A m \in Bad : n <= m
  <2>1. Bad \in SUBSET Nat
    BY <1>0
  <2> HIDE DEF Bad
  <2> QED
    BY <1>1, <2>1, Smallest
<1>3. n \in Nat /\ 1 <= n /\ n <= Cardinality(S)
  BY <1>0, <1>2
<1>4. CASE n = 1
  <2>1. S # {}
    BY <1>3, FS_EmptySet
  <2>2. PICK i \in S : \A j \in S : i <= j
    BY <2>1, Smallest
  <2>3. Below(S, i) = {}
    <3>1. \A j \in S : ~(j < i)
      BY <2>2
    <3> QED
      BY <3>1 DEF Below
  <2>4. Cardinality(Below(S, i)) = n - 1
    BY <1>4, <2>3, FS_EmptySet
  <2> QED
    BY <1>2, <2>4
<1>5. CASE n > 1
  <2>1. n - 1 \in 1..Cardinality(S) /\ n - 1 \notin Bad
    BY <1>0, <1>2, <1>3, <1>5
  <2>2. PICK i \in S : Cardinality(Below(S, i)) = n - 2
    BY <1>3, <2>1
  <2> DEFINE Above == {j \in S : j > i}
             Upto == Below(S, i) \cup {i}
  <2>3. Above \subseteq S /\ Below(S, i) \subseteq S /\ i \notin Below(S, i)
    BY DEF Below
  <2>4. Cardinality(Upto) = n - 1 /\ IsFiniteSet(Upto)
    BY <1>0, <1>3, <2>2, <2>3, FS_AddElement
  <2>5. Above # {}
    <3>1. ASSUME Above = {} PROVE S = Upto
      <4>1. \A j \in S : j < i \/ j = i \/ j > i
        OBVIOUS
      <4> QED
        BY <3>1, <4>1 DEF Below
    <3> QED
      BY <1>3, <2>4, <3>1
  <2>6. PICK m \in Above : \A j \in Above : m <= j
    BY <2>5, Smallest
  <2>7. Below(S, m) = Upto
    <3>1. \A j \in S : j < m <=> j < i \/ j = i
      BY <2>6
    <3> QED
      BY <3>1 DEF Below
  <2> QED
    BY <1>2, <2>3, <2>4, <2>6, <2>7
<1> QED
  BY <1>3, <1>4, <1>5

-----------------------------------------------------------------------------
(* Recursive functions.                                                    *)

\* h is the body of a function from S to V that calls itself for smaller arguments
\* only; m is what gets smaller.
CallsSmaller(h, S, V, m) ==
    /\ V # {} /\ m \in [S -> Nat] /\ h \in [[S -> V] -> [S -> V]]
    /\ \A x \in S : \A f, g \in [S -> V] :
           (\A y \in S : m[y] < m[x] => f[y] = g[y]) => h[f][x] = h[g][x]

Exists(h, S, V) == \E f \in [S -> V] : f = h[f]

\* Then there is such a function.
LEMMA Recursion ==
  ASSUME NEW S, NEW V, NEW m, NEW h, CallsSmaller(h, S, V, m)
  PROVE  Exists(h, S, V)
<1>a. /\ V # {} /\ m \in [S -> Nat] /\ h \in [[S -> V] -> [S -> V]]
      /\ \A x \in S : \A f, g \in [S -> V] :
             (\A y \in S : m[y] < m[x] => f[y] = g[y]) => h[f][x] = h[g][x]
  BY DEF CallsSmaller
<1> USE <1>a
<1> DEFINE Good(f, n) == \A x \in S : m[x] < n => f[x] = h[f][x]
<1>0. \A x \in S : m[x] \in Nat
  OBVIOUS
\* Up to any size there is such a function ...
<1>1. \A n \in Nat : \E f \in [S -> V] : Good(f, n)
  <2> DEFINE Bad == {n \in Nat : ~ \E f \in [S -> V] : Good(f, n)}
  <2> SUFFICES ASSUME Bad # {} PROVE FALSE
    OBVIOUS
  <2>1. PICK n \in Bad : \A k \in Bad : n <= k
    <3> HIDE DEF Bad
    <3>1. Bad \in SUBSET Nat
      BY DEF Bad
    <3> QED
      BY <3>1, Smallest
  <2>2. CASE n = 0
    <3>1. PICK v \in V : TRUE
      OBVIOUS
    <3>2. [x \in S |-> v] \in [S -> V] /\ Good([x \in S |-> v], 0)
      <4>1. \A x \in S : ~(m[x] < 0)
        BY <1>0
      <4> QED
        BY <4>1
    <3> QED
      BY <2>1, <2>2, <3>2
  <2>3. CASE n # 0
    <3>1. n - 1 \in Nat /\ n - 1 \notin Bad
      <4>1. n \in Nat
        BY <2>1
      <4>2. n - 1 \in Nat /\ ~(n <= n - 1)
        BY <2>3, <4>1
      <4> HIDE DEF Bad
      <4> QED
        BY <2>1, <4>2
    <3>2. PICK f \in [S -> V] : Good(f, n - 1)
      BY <3>1
    <3> DEFINE g == h[f]
    <3>3. g \in [S -> V]
      OBVIOUS
    <3>4. ASSUME NEW x \in S, m[x] < n PROVE g[x] = h[g][x]
      <4>1. ASSUME NEW y \in S, m[y] < m[x] PROVE f[y] = g[y]
        <5>1. n \in Nat /\ m[y] \in Nat /\ m[x] \in Nat
          BY <1>0, <2>1
        <5>2. m[y] < n - 1
          BY <3>4, <4>1, <5>1
        <5> QED
          BY <3>2, <5>2
      <4> HIDE DEF g
      <4>2. h[f][x] = h[g][x]
        BY <3>3, <4>1
      <4> QED
        BY <4>2 DEF g
    <3> QED
      BY <2>1, <3>3, <3>4
  <2> QED
    BY <2>2, <2>3
\* ... and up to there only one ...
<1>2. ASSUME NEW n \in Nat, NEW f \in [S -> V], NEW g \in [S -> V], Good(f, n), Good(g, n)
      PROVE  \A x \in S : m[x] < n => f[x] = g[x]
  <2> DEFINE Bad == {m[x] : x \in {y \in S : m[y] < n /\ f[y] # g[y]}}
  <2> SUFFICES ASSUME Bad # {} PROVE FALSE
    OBVIOUS
  <2>1. PICK k \in Bad : \A l \in Bad : k <= l
    <3>1. Bad \in SUBSET Nat
      OBVIOUS
    <3> HIDE DEF Bad
    <3> QED
      BY <3>1, Smallest
  <2>2. PICK x \in S : m[x] = k /\ m[x] < n /\ f[x] # g[x]
    BY <2>1
  <2>3. ASSUME NEW y \in S, m[y] < m[x] PROVE f[y] = g[y]
    <3>1. m[y] \in Nat /\ m[x] \in Nat
      BY <1>0
    <3>2. m[y] < n /\ ~(k <= m[y])
      BY <2>2, <2>3, <3>1
    <3>3. m[y] \notin Bad
      <4> HIDE DEF Bad
      <4> QED
        BY <2>1, <3>2
    <3> QED
      BY <3>2, <3>3
  <2>4. h[f][x] = h[g][x]
    BY <2>3
  <2> QED
    BY <1>2, <2>2, <2>4
\* ... so the values for each argument make up one for all.
<1> DEFINE For(x) == CHOOSE f \in [S -> V] : Good(f, m[x] + 1)
           F == [x \in S |-> For(x)[x]]
<1>3. ASSUME NEW x \in S PROVE For(x) \in [S -> V] /\ Good(For(x), m[x] + 1)
  <2>1. m[x] + 1 \in Nat
    BY <1>0
  <2>2. \E f \in [S -> V] : Good(f, m[x] + 1)
    BY <1>1, <2>1
  <2> HIDE DEF Good
  <2> QED
    BY <2>2
<1> HIDE DEF For
<1>4. F \in [S -> V]
  BY <1>3
<1>5. ASSUME NEW x \in S PROVE F[x] = h[F][x]
  <2>1. ASSUME NEW y \in S, m[y] < m[x] PROVE For(x)[y] = F[y]
    <3>1. m[x] \in Nat /\ m[y] \in Nat
      BY <1>0
    <3>2. For(x) \in [S -> V] /\ For(y) \in [S -> V] /\ Good(For(x), m[x] + 1) /\ Good(For(y), m[y] + 1)
      BY <1>3
    <3>3. \A z \in S : m[z] < m[y] + 1 => m[z] < m[x] + 1
      BY <1>0, <2>1, <3>1
    <3>4. Good(For(x), m[y] + 1)
      BY <3>2, <3>3
    <3>5. m[y] + 1 \in Nat /\ m[y] < m[y] + 1
      BY <3>1
    <3> HIDE DEF Good
    <3> QED
      BY <1>2, <3>2, <3>4, <3>5
  <2>2. h[For(x)][x] = h[F][x]
    <3> HIDE DEF F
    <3> QED
      BY <1>3, <1>4, <2>1
  <2>3. For(x)[x] = h[For(x)][x]
    <3>1. m[x] < m[x] + 1
      BY <1>0
    <3> QED
      BY <1>3, <3>1
  <2> QED
    BY <2>2, <2>3
<1>6. F = h[F]
  <2> HIDE DEF Good
  <2>1. h[F] \in [S -> V]
    BY <1>4
  <2> HIDE DEF F
  <2> QED
    BY <1>4, <1>5, <2>1
<1> QED
  BY <1>4, <1>6 DEF Exists

\* A sum of integers is one, and that of natural numbers is a natural number.
LEMMA SumType ==
  ASSUME NEW D, IsFiniteSet(D), NEW V \in {Int, Nat}, NEW f \in [D -> V]
  PROVE  SumFunction(f) \in V
<1>0. 0 \in V /\ V # {} /\ \A a, b \in V : a + b \in V
  OBVIOUS
<1> DEFINE pick(s) == CHOOSE x \in s : TRUE
           Body(g) == [s \in SUBSET D |-> IF s = {} THEN 0 ELSE f[pick(s)] + g[s \ {pick(s)}]]
           iter == CHOOSE g : g = Body(g)
           size == [s \in SUBSET D |-> Cardinality(s)]
<1>1. ASSUME NEW s \in SUBSET D, s # {}
      PROVE  /\ pick(s) \in s /\ f[pick(s)] \in V /\ s \ {pick(s)} \in SUBSET D
             /\ Cardinality(s \ {pick(s)}) < Cardinality(s)
  <2>1. pick(s) \in s
    BY <1>1
  <2> HIDE DEF pick
  <2>2. IsFiniteSet(s) /\ Cardinality(s) \in Nat
    BY FS_Subset, FS_CardinalityType
  <2>3. Cardinality(s \ {pick(s)}) = Cardinality(s) - 1
    BY <2>1, <2>2, FS_RemoveElement
  <2> QED
    BY <2>1, <2>2, <2>3
<1>2. size \in [SUBSET D -> Nat]
  BY FS_Subset, FS_CardinalityType
<1> HIDE DEF pick
<1>3. \E g \in [SUBSET D -> V] : g = Body(g)
  <2> DEFINE h == [g \in [SUBSET D -> V] |-> Body(g)]
  <2>1. h \in [[SUBSET D -> V] -> [SUBSET D -> V]]
    <3>1. ASSUME NEW g \in [SUBSET D -> V] PROVE Body(g) \in [SUBSET D -> V]
      <4>1. ASSUME NEW s \in SUBSET D PROVE Body(g)[s] \in V
        <5>1. CASE s = {}
          BY <1>0, <5>1
        <5>2. CASE s # {}
          <6>1. f[pick(s)] \in V /\ g[s \ {pick(s)}] \in V
            BY <1>1, <5>2
          <6> QED
            BY <1>0, <5>2, <6>1
        <5> QED
          BY <5>1, <5>2
      <4> QED
        BY <4>1
    <3> HIDE DEF Body
    <3> QED
      BY <3>1
  <2>2. ASSUME NEW s \in SUBSET D, NEW g \in [SUBSET D -> V], NEW k \in [SUBSET D -> V],
               \A t \in SUBSET D : size[t] < size[s] => g[t] = k[t]
        PROVE  h[g][s] = h[k][s]
    <3>1. h[g] = Body(g) /\ h[k] = Body(k)
      OBVIOUS
    <3>2. s # {} => g[s \ {pick(s)}] = k[s \ {pick(s)}]
      BY <1>1, <2>2
    <3> HIDE DEF h
    <3> QED
      BY <3>1, <3>2
  <2> HIDE DEF h, size, Body
  <2>3. \E g \in [SUBSET D -> V] : g = h[g]
    <3>1. V # {}
      BY <1>0
    <3>2. \A s \in SUBSET D : \A g, k \in [SUBSET D -> V] :
             (\A t \in SUBSET D : size[t] < size[s] => g[t] = k[t]) => h[g][s] = h[k][s]
      BY <2>2
    <3>3. CallsSmaller(h, SUBSET D, V, size)
      BY <1>2, <2>1, <3>1, <3>2 DEF CallsSmaller
    <3>4. Exists(h, SUBSET D, V)
      BY <3>3, Recursion
    <3> QED
      BY <3>4 DEF Exists
  <2> QED
    BY <2>3 DEF h
<1>4. iter = Body(iter)
  <2> HIDE DEF Body
  <2> QED
    BY <1>3
<1>5. \A s \in SUBSET D : iter[s] \in V
  <2> HIDE DEF iter
  <2> DEFINE Bad == {size[s] : s \in {t \in SUBSET D : iter[t] \notin V}}
  <2> SUFFICES ASSUME Bad # {} PROVE FALSE
    OBVIOUS
  <2>1. PICK n \in Bad : \A k \in Bad : n <= k
    <3>1. Bad \in SUBSET Nat
      BY <1>2
    <3> HIDE DEF Bad
    <3> QED
      BY <3>1, Smallest
  <2>2. PICK s \in SUBSET D : size[s] = n /\ iter[s] \notin V
    BY <2>1
  <2>3. s # {}
    BY <1>0, <1>4, <2>2
  <2>4. s \ {pick(s)} \in SUBSET D /\ size[s \ {pick(s)}] < n /\ f[pick(s)] \in V
    BY <1>1, <2>2, <2>3
  <2>5. iter[s \ {pick(s)}] \in V
    <3>1. n \in Nat /\ size[s \ {pick(s)}] \in Nat
      BY <1>2, <2>2, <2>4
    <3>2. size[s \ {pick(s)}] \notin Bad
      <4> HIDE DEF Bad
      <4> QED
        BY <2>1, <2>4, <3>1
    <3> QED
      BY <2>4, <3>2
  <2>6. iter[s] = f[pick(s)] + iter[s \ {pick(s)}]
    BY <1>4, <2>3
  <2> QED
    BY <1>0, <2>2, <2>4, <2>5, <2>6
<1>6. SumFunction(f) = iter[D]
  BY DEF SumFunction, SumFunctionOnSet, FoldFunctionOnSet, MapThenFoldSet, pick
<1> QED
  BY <1>5, <1>6

\* What can be reached is the smallest set with the start that nothing leads out of.
LEMMA ReachLeast ==
  ASSUME NEW D, IsFiniteSet(D), NEW next \in [D -> SUBSET D], NEW S \in SUBSET D
  PROVE  /\ S \subseteq Reach(S, next) /\ Reach(S, next) \subseteq D
         /\ \A i \in Reach(S, next) : next[i] \subseteq Reach(S, next)
         /\ \A C \in SUBSET D : S \subseteq C /\ (\A i \in C : next[i] \subseteq C)
                => Reach(S, next) \subseteq C
<1> DEFINE more(T) == T \cup UNION {next[i] : i \in T}
           Body(g) == [T \in SUBSET D |-> IF more(T) = T THEN T ELSE g[more(T)]]
           reach == CHOOSE g : g = Body(g)
           left == [T \in SUBSET D |-> Cardinality(D \ T)]
           Least(T, R) == /\ T \subseteq R /\ R \subseteq D
                          /\ \A i \in R : next[i] \subseteq R
                          /\ \A C \in SUBSET D : T \subseteq C /\ (\A i \in C : next[i] \subseteq C)
                                 => R \subseteq C
<1>1. left \in [SUBSET D -> Nat]
  <2>1. \A T \in SUBSET D : D \ T \in SUBSET D
    OBVIOUS
  <2> QED
    BY <2>1, FS_Subset, FS_CardinalityType
<1>2. ASSUME NEW T \in SUBSET D
      PROVE  T \subseteq more(T) /\ more(T) \in SUBSET D
  OBVIOUS
<1>3. ASSUME NEW T \in SUBSET D, more(T) # T
      PROVE  left[more(T)] < left[T]
  <2> HIDE DEF more
  <2>1. D \ more(T) \in SUBSET (D \ T) /\ D \ more(T) # D \ T
    BY <1>2, <1>3
  <2>2. IsFiniteSet(D \ T) /\ IsFiniteSet(D \ more(T))
    BY FS_Subset
  <2>3. Cardinality(D \ more(T)) \in Nat /\ Cardinality(D \ T) \in Nat
    BY <2>2, FS_CardinalityType
  <2>4. Cardinality(D \ more(T)) < Cardinality(D \ T)
    BY <2>1, <2>2, <2>3, FS_Subset
  <2> QED
    BY <1>2, <2>4
<1> HIDE DEF left
<1>4. \E g \in [SUBSET D -> SUBSET D] : g = Body(g)
  <2> DEFINE h == [g \in [SUBSET D -> SUBSET D] |-> Body(g)]
  <2> HIDE DEF more
  <2>1. h \in [[SUBSET D -> SUBSET D] -> [SUBSET D -> SUBSET D]]
    <3>1. ASSUME NEW g \in [SUBSET D -> SUBSET D] PROVE Body(g) \in [SUBSET D -> SUBSET D]
      BY <1>2
    <3> HIDE DEF Body
    <3> QED
      BY <3>1
  <2>2. ASSUME NEW T \in SUBSET D, NEW g \in [SUBSET D -> SUBSET D], NEW k \in [SUBSET D -> SUBSET D],
               \A U \in SUBSET D : left[U] < left[T] => g[U] = k[U]
        PROVE  h[g][T] = h[k][T]
    <3>1. h[g] = Body(g) /\ h[k] = Body(k)
      OBVIOUS
    <3>2. more(T) # T => g[more(T)] = k[more(T)]
      BY <1>2, <1>3, <2>2
    <3> HIDE DEF h
    <3> QED
      BY <3>1, <3>2
  <2> HIDE DEF h, Body
  <2>3. CallsSmaller(h, SUBSET D, SUBSET D, left)
    <3>1. \A T \in SUBSET D : \A g, k \in [SUBSET D -> SUBSET D] :
             (\A U \in SUBSET D : left[U] < left[T] => g[U] = k[U]) => h[g][T] = h[k][T]
      BY <2>2
    <3> QED
      BY <1>1, <2>1, <3>1 DEF CallsSmaller
  <2>4. Exists(h, SUBSET D, SUBSET D)
    BY <2>3, Recursion
  <2>5. PICK g \in [SUBSET D -> SUBSET D] : g = h[g]
    BY <2>4 DEF Exists
  <2> QED
    BY <2>5 DEF h
<1>5. reach = Body(reach)
  <2> HIDE DEF Body
  <2> QED
    BY <1>4
<1>6. \A T \in SUBSET D : Least(T, reach[T])
  <2> HIDE DEF reach
  <2> DEFINE Bad == {left[T] : T \in {U \in SUBSET D : ~Least(U, reach[U])}}
  <2> SUFFICES ASSUME Bad # {} PROVE FALSE
    OBVIOUS
  <2>1. PICK n \in Bad : \A k \in Bad : n <= k
    <3> HIDE DEF Least
    <3>1. Bad \in SUBSET Nat
      BY <1>1
    <3> HIDE DEF Bad
    <3> QED
      BY <3>1, Smallest
  <2>2. PICK T \in SUBSET D : left[T] = n /\ ~Least(T, reach[T])
    BY <2>1
  <2>3. CASE more(T) = T
    <3>1. reach[T] = T
      BY <1>5, <2>3
    <3>2. Least(T, T)
      BY <2>3
    <3> QED
      BY <2>2, <3>1, <3>2
  <2>4. CASE more(T) # T
    <3>1. reach[T] = reach[more(T)]
      BY <1>5, <2>4
    <3>2. left[more(T)] < n /\ left[more(T)] \in Nat /\ n \in Nat /\ more(T) \in SUBSET D
      BY <1>1, <1>2, <1>3, <2>2, <2>4
    <3>3. Least(more(T), reach[more(T)])
      <4>1. left[more(T)] \notin Bad
        <5> HIDE DEF Bad
        <5> QED
          BY <2>1, <3>2
      <4> HIDE DEF Least, more
      <4> QED
        BY <3>2, <4>1
    <3>4. ASSUME NEW R, Least(more(T), R) PROVE Least(T, R)
      <4>1. ASSUME NEW C \in SUBSET D, T \subseteq C, \A i \in C : next[i] \subseteq C
            PROVE  more(T) \subseteq C
        BY <4>1
      <4> QED
        BY <3>4, <4>1
    <3> HIDE DEF Least
    <3> QED
      BY <2>2, <3>1, <3>3, <3>4
  <2> QED
    BY <2>3, <2>4
<1>7. Reach(S, next) = reach[S]
  BY DEF Reach
<1> HIDE DEF reach
<1>8. Least(S, Reach(S, next))
  BY <1>6, <1>7
<1> QED
  BY <1>8

-----------------------------------------------------------------------------
(* Rows and columns.                                                       *)

\* A pixel is where its row and its column meet.
LEMMA Coordinates ==
  ASSUME NEW rows \in Nat, NEW cols \in Nat \ {0}, NEW i \in 0 .. rows * cols - 1
  PROVE  /\ i \div cols \in 0 .. rows - 1 /\ i % cols \in 0 .. cols - 1
         /\ i = (i \div cols) * cols + (i % cols)
<1>1. i % cols \in 0 .. cols - 1 /\ i \div cols \in Nat
  BY SMT
<1>2. i = (i \div cols) * cols + (i % cols)
  BY SMT
<1>3. i \div cols <= rows - 1
  BY <1>1, <1>2, SMT
<1> QED
  BY <1>1, <1>2, <1>3

LEMMA Position ==
  ASSUME NEW rows \in Nat, NEW cols \in Nat \ {0}, NEW y \in 0 .. rows - 1, NEW x \in 0 .. cols - 1
  PROVE  /\ y * cols + x \in 0 .. rows * cols - 1
         /\ (y * cols + x) \div cols = y /\ (y * cols + x) % cols = x
<1>1. y * cols + x \in 0 .. rows * cols - 1
  BY SMT
<1>2. (y * cols + x) \div cols = y /\ (y * cols + x) % cols = x
  BY SMT
<1> QED
  BY <1>1, <1>2

-----------------------------------------------------------------------------
(* Convolution.                                                            *)

\* The blocks of the 3x3 routine: each offset leads where clamping leads.
LEMMA Blocks3 ==
  ASSUME NEW n \in Nat, n >= 2, NEW p \in 0 .. n - 1, NEW d \in -1 .. 1
  PROVE  LET b == Block(p, n, Columns3)
         IN  /\ p + b[d + 1 + 1] = Clamped(p + d, 0, n - 1)
             /\ b[d + 1 + 1] \in Int
<1>1. Len(Columns3) = 3 /\ 3 \div 2 = 1
  BY DEF Columns3
<1>2. /\ Columns3[1] = <<0, 0, 1>> /\ Columns3[2] = <<-1, 0, 1>>
      /\ Columns3[3] = <<-1, 0, 0>>
  BY DEF Columns3
<1>3. CASE p = 0
  BY <1>1, <1>2, <1>3 DEF Block, Clamped
<1>4. CASE p = n - 1
  BY <1>1, <1>2, <1>4 DEF Block, Clamped
<1>5. CASE p # 0 /\ p # n - 1
  BY <1>1, <1>2, <1>5 DEF Block, Clamped
<1> QED
  BY <1>3, <1>4, <1>5

\* Those of the 5x5 routine do so too, if there are enough lines for all of them.
LEMMA Blocks5 ==
  ASSUME NEW n \in Nat, n >= 4, NEW p \in 0 .. n - 1, NEW d \in -2 .. 2
  PROVE  LET b == Block(p, n, Columns5)
         IN  /\ p + b[d + 2 + 1] = Clamped(p + d, 0, n - 1)
             /\ b[d + 2 + 1] \in Int
<1>1. Len(Columns5) = 5 /\ 5 \div 2 = 2
  BY DEF Columns5
<1>2. /\ Columns5[1] = <<0, 0, 0, 1, 2>> /\ Columns5[2] = <<-1, -1, 0, 1, 2>>
      /\ Columns5[3] = <<-2, -1, 0, 1, 2>> /\ Columns5[4] = <<-2, -1, 0, 1, 1>>
      /\ Columns5[5] = <<-2, -1, 0, 0, 0>>
  BY DEF Columns5
<1>3. CASE p = 0
  BY <1>1, <1>2, <1>3 DEF Block, Clamped
<1>4. CASE p = 1
  BY <1>1, <1>2, <1>4 DEF Block, Clamped
<1>5. CASE p = n - 2
  BY <1>1, <1>2, <1>5 DEF Block, Clamped
<1>6. CASE p = n - 1
  BY <1>1, <1>2, <1>6 DEF Block, Clamped
<1>7. CASE p \in 2 .. n - 3
  BY <1>1, <1>2, <1>7 DEF Block, Clamped
<1> QED
  BY <1>3, <1>4, <1>5, <1>6, <1>7

\* Blocks that lead where clamping leads read what the generic routine reads, and
\* nothing beside the image.
LEMMA UnrolledIsGeneric ==
  ASSUME NEW img, img.rows \in Nat \ {0}, img.cols \in Nat \ {0}, NEW k,
         NEW blocks, NEW r \in Nat, Len(blocks) \div 2 = r, r = 2 => ForceAccessChecks,
         \A n \in {img.rows, img.cols} : \A p \in 0 .. n - 1, d \in -r .. r :
             LET b == Block(p, n, blocks)
             IN  /\ p + b[d + r + 1] = Clamped(p + d, 0, n - 1)
                 /\ b[d + r + 1] \in Int
  PROVE  Unrolled(img, k, blocks, blocks, img.rows, img.cols) = RunGeneric(img, k, r)
<1> DEFINE At(y, x) == img.at[Clamped(y, 0, img.rows - 1) * img.cols + Clamped(x, 0, img.cols - 1)]
           Generic(i) == [d \in Kernel(r) |-> At(Row(img, i) + d[1], Col(img, i) + d[2]) * k[d]]
           Optimized(i, y, x) ==
               [d \in Kernel(r) |->
                   Read(img, i + y[d[1] + r + 1] * img.cols + x[d[2] + r + 1], r) * k[d]]
<1>1. ASSUME NEW i \in Pixels(img)
      PROVE  Optimized(i, Block(Row(img, i), img.rows, blocks), Block(Col(img, i), img.cols, blocks))
               = Generic(i)
  <2> DEFINE y == Row(img, i)
             x == Col(img, i)
             yb == Block(y, img.rows, blocks)
             xb == Block(x, img.cols, blocks)
  <2>1. y \in 0 .. img.rows - 1 /\ x \in 0 .. img.cols - 1 /\ i = y * img.cols + x
    BY Coordinates DEF Pixels, Row, Col
  <2>2. ASSUME NEW d \in Kernel(r)
        PROVE  Read(img, i + yb[d[1] + r + 1] * img.cols + xb[d[2] + r + 1], r)
                 = At(y + d[1], x + d[2])
    <3> DEFINE a == yb[d[1] + r + 1]
               b == xb[d[2] + r + 1]
    <3>1. d[1] \in -r .. r /\ d[2] \in -r .. r
      BY DEF Kernel
    <3>2. /\ y + a = Clamped(y + d[1], 0, img.rows - 1) /\ a \in Int
          /\ x + b = Clamped(x + d[2], 0, img.cols - 1) /\ b \in Int
      BY <2>1, <3>1
    <3>3. d[1] \in Int /\ d[2] \in Int /\ y \in Int /\ x \in Int
      BY <2>1, <3>1
    <3> HIDE DEF y, x, yb, xb
    <3>4. a \in Int /\ b \in Int
      BY <3>2
    <3> HIDE DEF a, b
    <3>5. i + a * img.cols + b = (y + a) * img.cols + (x + b)
      <4> DEFINE c == img.cols
      <4>1. c \in Nat /\ i = y * c + x
        BY <2>1
      <4> HIDE DEF c
      <4>2. i + a * c + b = (y + a) * c + (x + b)
        BY <3>3, <3>4, <4>1
      <4> QED
        BY <4>2 DEF c
    <3>6. y + a \in 0 .. img.rows - 1 /\ x + b \in 0 .. img.cols - 1
      <4>1. \A v \in Int, n \in Nat \ {0} : Clamped(v, 0, n - 1) \in 0 .. n - 1
        BY DEF Clamped
      <4>2. img.rows \in Nat \ {0} /\ y + d[1] \in Int /\ x + d[2] \in Int
        BY <3>3
      <4> QED
        BY <3>2, <4>1, <4>2
    <3>7. (y + a) * img.cols + (x + b) \in Pixels(img)
      BY <3>6, Position DEF Pixels
    <3> QED
      BY <3>2, <3>5, <3>7 DEF Read, a, b, y, x, yb, xb
  <2> QED
    BY <2>2
<1>2. Unrolled(img, k, blocks, blocks, img.rows, img.cols)
        = [img EXCEPT !.at = [i \in Pixels(img) |->
              SumFunction(Optimized(i, Block(Row(img, i), img.rows, blocks),
                                       Block(Col(img, i), img.cols, blocks)))]]
  BY DEF Unrolled, BlockSum, Row, Col
<1>3. RunGeneric(img, k, r) = [img EXCEPT !.at = [i \in Pixels(img) |-> SumFunction(Generic(i))]]
  BY DEF RunGeneric
<1> HIDE DEF Optimized, Generic
<1> QED
  BY <1>1, <1>2, <1>3

LEMMA Run3x3IsGeneric ==
  ASSUME NEW img, img.rows \in Nat, img.cols \in Nat, img.rows >= 2, img.cols >= 2, NEW k
  PROVE  Run3x3(img, k) = RunGeneric(img, k, 1)
<1>1. Len(Columns3) \div 2 = 1 /\ <<FirstRow3, MiddleRows3, LastRow3>> = Columns3
  BY DEF Columns3, FirstRow3, MiddleRows3, LastRow3
<1>2. \A n \in {img.rows, img.cols} : \A p \in 0 .. n - 1, d \in -1 .. 1 :
          LET b == Block(p, n, Columns3)
          IN  /\ p + b[d + 1 + 1] = Clamped(p + d, 0, n - 1)
              /\ b[d + 1 + 1] \in Int
  <2>1. \A n \in {img.rows, img.cols} : n \in Nat /\ n >= 2
    OBVIOUS
  <2> QED
    BY <2>1, Blocks3
<1> QED
  <2>1. img.rows \in Nat \ {0} /\ img.cols \in Nat \ {0} /\ 1 \in Nat /\ 1 # 2
    OBVIOUS
  <2>2. Unrolled(img, k, Columns3, Columns3, img.rows, img.cols) = RunGeneric(img, k, 1)
    BY <1>1, <1>2, <2>1, UnrolledIsGeneric, Zenon
  <2> QED
    BY <1>1, <2>2 DEF Run3x3

LEMMA Run5x5IsGeneric ==
  ASSUME NEW img, img.rows \in Nat, img.rows >= 4, img.rows = img.cols, NEW k,
         ForceAccessChecks
  PROVE  Run5x5(img, k) = RunGeneric(img, k, 2)
<1>1. /\ Len(Columns5) \div 2 = 2
      /\ <<FirstRow5, SecondRow5, MiddleRows5, LastRowButOne5, LastRow5>> = Columns5
  BY DEF Columns5, FirstRow5, SecondRow5, MiddleRows5, LastRowButOne5, LastRow5
<1>2. \A n \in {img.rows, img.cols} : \A p \in 0 .. n - 1, d \in -2 .. 2 :
          LET b == Block(p, n, Columns5)
          IN  /\ p + b[d + 2 + 1] = Clamped(p + d, 0, n - 1)
              /\ b[d + 2 + 1] \in Int
  <2>1. \A n \in {img.rows, img.cols} : n \in Nat /\ n >= 4
    OBVIOUS
  <2> QED
    BY <2>1, Blocks5
<1> QED
  <2>1. img.rows \in Nat \ {0} /\ img.cols \in Nat \ {0} /\ 2 \in Nat
    OBVIOUS
  <2>2. Unrolled(img, k, Columns5, Columns5, img.rows, img.cols) = RunGeneric(img, k, 2)
    BY <1>1, <1>2, <2>1, UnrolledIsGeneric, Zenon
  <2> QED
    BY <1>1, <2>2 DEF Run5x5

-----------------------------------------------------------------------------
(* Images.                                                                 *)

IsImage(img) == img \in [rows : Nat \ {1}, cols : Nat \ {1}, at : [Pixels(img) -> Int]]

SameSize(a, b) == a.rows = b.rows /\ a.cols = b.cols

LEMMA ImageType ==
  ASSUME NEW img, IsImage(img)
  PROVE  /\ img.rows \in Nat \ {1} /\ img.cols \in Nat \ {1} /\ img.at \in [Pixels(img) -> Int]
         /\ Pixels(img) \in SUBSET Nat /\ IsFiniteSet(Pixels(img))
         /\ Pixels(img) # {} <=> img.rows # 0 /\ img.cols # 0
<1>1. img.rows \in Nat \ {1} /\ img.cols \in Nat \ {1} /\ img.at \in [Pixels(img) -> Int]
  BY DEF IsImage
<1> DEFINE n == img.rows * img.cols
<1>2. n \in Nat /\ (n # 0 <=> img.rows # 0 /\ img.cols # 0)
  <2>1. ASSUME NEW a \in Nat, NEW b \in Nat PROVE a * b \in Nat /\ (a * b # 0 <=> a # 0 /\ b # 0)
    BY <2>1
  <2> QED
    BY <1>1, <2>1
<1>3. Pixels(img) = 0 .. n - 1
  BY DEF Pixels
<1> HIDE DEF n
<1>4. IsFiniteSet(0 .. n - 1)
  BY <1>2, FS_Interval
<1> QED
  BY <1>1, <1>2, <1>3, <1>4

\* An image with other pixels.
LEMMA OtherPixels ==
  ASSUME NEW img, IsImage(img), NEW f \in [Pixels(img) -> Int]
  PROVE  /\ IsImage([img EXCEPT !.at = f]) /\ SameSize([img EXCEPT !.at = f], img)
         /\ [img EXCEPT !.at = f].at = f /\ Pixels([img EXCEPT !.at = f]) = Pixels(img)
<1> DEFINE new == [img EXCEPT !.at = f]
<1>1. new = [rows |-> img.rows, cols |-> img.cols, at |-> f]
  BY DEF IsImage
<1>2. new.rows = img.rows /\ new.cols = img.cols /\ new.at = f
  BY <1>1
<1> HIDE DEF new
<1>3. Pixels(new) = Pixels(img)
  BY <1>2 DEF Pixels
<1>4. new \in [rows : Nat \ {1}, cols : Nat \ {1}, at : [Pixels(new) -> Int]]
  BY <1>1, <1>3, ImageType
<1> QED
  BY <1>2, <1>3, <1>4 DEF IsImage, SameSize, new

LEMMA EmptyImage == IsImage(Empty)
<1>1. Empty.rows = 0 /\ Empty.cols = 0 /\ Empty.at = <<>>
  BY DEF Empty
<1>2. Pixels(Empty) = {}
  BY <1>1 DEF Pixels
<1>3. <<>> \in [{} -> Int]
  OBVIOUS
<1> QED
  BY <1>2, <1>3 DEF IsImage, Empty

LEMMA GenericImage ==
  ASSUME NEW img, IsImage(img), img.rows # 0, img.cols # 0,
         NEW V \in {Int, Nat}, img.at \in [Pixels(img) -> V],
         NEW r \in Nat, NEW k \in [Kernel(r) -> V]
  PROVE  /\ IsImage(RunGeneric(img, k, r)) /\ SameSize(RunGeneric(img, k, r), img)
         /\ RunGeneric(img, k, r).at \in [Pixels(img) -> V]
<1> DEFINE At(y, x) == img.at[Clamped(y, 0, img.rows - 1) * img.cols + Clamped(x, 0, img.cols - 1)]
           Terms(i) == [d \in Kernel(r) |-> At(Row(img, i) + d[1], Col(img, i) + d[2]) * k[d]]
           f == [i \in Pixels(img) |-> SumFunction(Terms(i))]
<1>1. ASSUME NEW y \in Int, NEW x \in Int PROVE At(y, x) \in V
  <2>1. \A v \in Int, n \in Nat \ {0} : Clamped(v, 0, n - 1) \in 0 .. n - 1
    BY DEF Clamped
  <2>2. img.rows \in Nat \ {0} /\ img.cols \in Nat \ {0} /\ img.at \in [Pixels(img) -> V]
    BY ImageType
  <2>3. /\ Clamped(y, 0, img.rows - 1) \in 0 .. img.rows - 1
        /\ Clamped(x, 0, img.cols - 1) \in 0 .. img.cols - 1
    BY <2>1, <2>2
  <2>4. Clamped(y, 0, img.rows - 1) * img.cols + Clamped(x, 0, img.cols - 1) \in Pixels(img)
    BY <2>2, <2>3, Position DEF Pixels
  <2> QED
    BY <2>2, <2>4
<1>2. ASSUME NEW i \in Pixels(img) PROVE SumFunction(Terms(i)) \in V
  <2>1. Row(img, i) \in Int /\ Col(img, i) \in Int
    BY ImageType, Coordinates DEF Pixels, Row, Col
  <2> HIDE DEF At
  <2>2. \A d \in Kernel(r) : At(Row(img, i) + d[1], Col(img, i) + d[2]) * k[d] \in V
    <3> SUFFICES ASSUME NEW d \in Kernel(r)
                 PROVE  At(Row(img, i) + d[1], Col(img, i) + d[2]) * k[d] \in V
      OBVIOUS
    <3>1. d[1] \in Int /\ d[2] \in Int
      BY DEF Kernel
    <3>2. Row(img, i) + d[1] \in Int /\ Col(img, i) + d[2] \in Int
      BY <2>1, <3>1
    <3>3. At(Row(img, i) + d[1], Col(img, i) + d[2]) \in V
      BY <1>1, <3>2
    <3>4. k[d] \in V
      OBVIOUS
    <3>5. \A a, b \in V : a * b \in V
      OBVIOUS
    <3> HIDE DEF Terms
    <3> QED
      BY <3>3, <3>4, <3>5
  <2>3. Terms(i) \in [Kernel(r) -> V]
    BY <2>2
  <2>4. IsFiniteSet(Kernel(r))
    <3>1. IsFiniteSet(-r .. r)
      BY FS_Interval
    <3> QED
      BY <3>1, FS_Product DEF Kernel
  <2> HIDE DEF Terms
  <2> QED
    BY <2>3, <2>4, SumType
<1>3. f \in [Pixels(img) -> V]
  <2> HIDE DEF Terms
  <2> QED
    BY <1>2
<1>4. RunGeneric(img, k, r) = [img EXCEPT !.at = f]
  BY DEF RunGeneric
<1>5. f \in [Pixels(img) -> Int]
  <2> HIDE DEF f
  <2>1. \A v \in V : v \in Int
    OBVIOUS
  <2> QED
    BY <1>3, <2>1
<1> HIDE DEF f
<1> QED
  BY <1>3, <1>4, <1>5, OtherPixels

LEMMA DarkenedImage ==
  ASSUME NEW img, IsImage(img), NEW maximas, NEW radius
  PROVE  LET dark == DarkenAroundMaximas(img, maximas, radius)
         IN  /\ IsImage(dark) /\ SameSize(dark, img)
             /\ img.at \in [Pixels(img) -> Nat] => dark.at \in [Pixels(img) -> Nat]
             /\ \A i \in Range(maximas) \cap Pixels(img) : dark.at[i] = img.at[i]
<1> DEFINE Near(i, p) == /\ (Row(img, i) - Row(img, p)) * (Row(img, i) - Row(img, p))
                              + (Col(img, i) - Col(img, p)) * (Col(img, i) - Col(img, p))
                                  <= radius * radius
           f == [i \in Pixels(img) |->
                   IF (\E p \in Range(maximas) : Near(i, p)) /\ i \notin Range(maximas)
                   THEN img.at[i] \div 2 ELSE img.at[i]]
<1> HIDE DEF Near
<1>1. f \in [Pixels(img) -> Int]
  <2>1. \A i \in Pixels(img) : img.at[i] \in Int /\ img.at[i] \div 2 \in Int
    BY ImageType
  <2> QED
    BY <2>1
<1>2. DarkenAroundMaximas(img, maximas, radius) = [img EXCEPT !.at = f]
  BY DEF DarkenAroundMaximas, Map, Near
<1>3. \A i \in Range(maximas) \cap Pixels(img) : f[i] = img.at[i]
  OBVIOUS
<1>4. img.at \in [Pixels(img) -> Nat] => f \in [Pixels(img) -> Nat]
  <2>1. \A n \in Nat : n \div 2 \in Nat
    OBVIOUS
  <2> QED
    BY <2>1
<1> HIDE DEF f
<1> QED
  BY <1>1, <1>2, <1>3, <1>4, OtherPixels

-----------------------------------------------------------------------------
(* The neutral value.                                                      *)

\* A finite set of numbers has a largest element.
LEMMA Largest ==
  ASSUME NEW T \in SUBSET Nat, IsFiniteSet(T), T # {}
  PROVE  Max(T) \in T /\ \A y \in T : Max(T) >= y
<1> DEFINE c == Cardinality(T)
<1>1. c \in Nat /\ c # 0
  BY FS_CardinalityType, FS_EmptySet
<1>2. PICK i \in T : Cardinality(Below(T, i)) = c - 1
  <2>1. c \in 1..Cardinality(T)
    BY <1>1
  <2> HIDE DEF c
  <2> QED
    BY <2>1, Rank
<1> DEFINE Upto == Below(T, i) \cup {i}
<1>3. Upto \subseteq T /\ i \notin Below(T, i)
  BY DEF Below
<1>4. Cardinality(Upto) = c
  <2>1. IsFiniteSet(Below(T, i))
    BY <1>3, FS_Subset
  <2>2. Cardinality(Upto) = Cardinality(Below(T, i)) + 1
    BY <1>3, <2>1, FS_AddElement
  <2> QED
    BY <1>1, <1>2, <2>2
<1>5. Upto = T
  <2> HIDE DEF Upto
  <2>1. Upto \in SUBSET T
    BY <1>3
  <2> QED
    BY <2>1, <1>4, FS_Subset
<1>6. \A y \in T : i >= y
  BY <1>5 DEF Below
<1> QED
  BY <1>6 DEF Max

\* The most common value is one of the values.
LEMMA ModeType ==
  ASSUME NEW img, IsImage(img), img.rows # 0, img.cols # 0
  PROVE  StatisticalMode(img) \in Int
<1> DEFINE At(v) == {i \in Pixels(img) : img.at[i] = v}
           Values == {img.at[i] : i \in Pixels(img)}
           Count(v) == Cardinality(At(v))
           Counts == {Count(v) : v \in Values}
           Most == Max(Counts)
           LastOf(v) == Max(At(v))
<1>1. /\ img.at \in [Pixels(img) -> Int] /\ Pixels(img) \in SUBSET Nat
      /\ IsFiniteSet(Pixels(img)) /\ Pixels(img) # {}
  BY ImageType
<1>2. Values \subseteq Int /\ Values # {}
  BY <1>1
<1>3. ASSUME NEW v \in Values
      PROVE  At(v) \in SUBSET Pixels(img) /\ At(v) # {} /\ IsFiniteSet(At(v))
  <2>1. At(v) \in SUBSET Pixels(img) /\ At(v) # {}
    BY <1>1
  <2> QED
    BY <1>1, <2>1, FS_Subset
<1>4. Most \in Counts
  <2>1. \A v \in Values : Count(v) \in 0 .. Cardinality(Pixels(img))
    <3> SUFFICES ASSUME NEW v \in Values PROVE Count(v) \in 0 .. Cardinality(Pixels(img))
      OBVIOUS
    <3>1. Cardinality(Pixels(img)) \in Nat /\ Count(v) \in Nat
      BY <1>1, <1>3, FS_CardinalityType
    <3>2. Count(v) <= Cardinality(Pixels(img))
      BY <1>1, <1>3, FS_Subset
    <3> QED
      BY <3>1, <3>2
  <2>2. Counts \in SUBSET (0 .. Cardinality(Pixels(img))) /\ Counts # {}
    <3> HIDE DEF Values, Count
    <3> QED
      BY <1>2, <2>1
  <2>3. Cardinality(Pixels(img)) \in Nat
    BY <1>1, FS_CardinalityType
  <2> HIDE DEF Counts
  <2>4. Counts \in SUBSET Nat /\ IsFiniteSet(Counts)
    <3>1. IsFiniteSet(0 .. Cardinality(Pixels(img)))
      BY <2>3, FS_Interval
    <3>2. IsFiniteSet(Counts)
      BY <2>2, <3>1, FS_Subset
    <3> QED
      BY <2>2, <2>3, <3>2
  <2> QED
    BY <2>2, <2>4, Largest
<1> DEFINE Modes == {v \in Values : Count(v) = Most}
           Lasts == {LastOf(v) : v \in Modes}
<1>5. ASSUME NEW v \in Values PROVE LastOf(v) \in At(v)
  <2> HIDE DEF At
  <2> QED
    BY <1>1, <1>3, Largest
<1>6. Modes # {}
  <2> HIDE DEF Most, Count, Values
  <2> QED
    BY <1>4
<1>7. Lasts \in SUBSET Nat /\ Lasts # {}
  <2>1. \A v \in Modes : LastOf(v) \in Nat
    <3> HIDE DEF LastOf, At, Most
    <3> QED
      BY <1>1, <1>3, <1>5
  <2> HIDE DEF Modes, LastOf
  <2> QED
    BY <1>6, <2>1
<1>8. PICK l \in Lasts : \A k \in Lasts : l <= k
  <2> HIDE DEF Lasts
  <2> QED
    BY <1>7, Smallest
<1>9. PICK v \in Modes : LastOf(v) = l
  <2> HIDE DEF Modes, LastOf
  <2> QED
    BY <1>8
<1>10. ASSUME NEW u \in Values \ {v}, Count(u) = Most PROVE LastOf(v) < LastOf(u)
  <2>1. u \in Modes
    BY <1>10
  <2>2. LastOf(u) \in At(u) /\ LastOf(v) \in At(v)
    <3> HIDE DEF LastOf, At
    <3> QED
      BY <1>5, <1>9, <1>10
  <2>3. LastOf(u) # LastOf(v)
    <3> HIDE DEF LastOf
    <3> QED
      BY <2>2, <1>10
  <2>4. LastOf(u) \in Lasts /\ LastOf(v) \in Lasts
    <3> HIDE DEF Modes, LastOf
    <3> QED
      BY <1>9, <2>1
  <2>5. LastOf(v) <= LastOf(u) /\ LastOf(u) \in Nat /\ LastOf(v) \in Nat
    <3> HIDE DEF Lasts, LastOf
    <3> QED
      BY <1>7, <1>8, <1>9, <2>4
  <2> QED
    <3> HIDE DEF LastOf
    <3> QED
      BY <2>3, <2>5
<1>11. StatisticalMode(img) \in Values
  <2>1. StatisticalMode(img) =
          CHOOSE w \in Values :
              /\ Count(w) = Most
              /\ \A u \in Values \ {w} : Count(u) = Most => LastOf(w) < LastOf(u)
    BY DEF StatisticalMode
  <2>2. v \in Values /\ Count(v) = Most
    BY <1>9
  <2> HIDE DEF Values, Count, Most, LastOf
  <2> QED
    BY <1>10, <2>1, <2>2
<1> QED
  BY <1>2, <1>11

LEMMA NeutralType ==
  ASSUME NEW img, IsImage(img), img.rows # 0, img.cols # 0, m_config \in Configs
  PROVE  Neutral(img) \in Int
<1>1. StatisticalMode(img) \in Int
  BY ModeType
<1>2. SumFunction(img.at) \div Cardinality(Pixels(img)) \in Int
  <2>1. /\ img.at \in [Pixels(img) -> Int] /\ IsFiniteSet(Pixels(img)) /\ Pixels(img) # {}
    BY ImageType
  <2>2. SumFunction(img.at) \in Int
    BY <2>1, SumType
  <2>3. Cardinality(Pixels(img)) \in Nat \ {0}
    BY <2>1, FS_CardinalityType, FS_EmptySet
  <2> QED
    BY <2>2, <2>3
<1>3. m_config.offset \in Int
  BY ConfigAssumption
<1> QED
  BY <1>1, <1>2, <1>3 DEF Neutral

-----------------------------------------------------------------------------
(* The inductive invariant.                                                *)

\* The numbers of a finite set in order are the numbers of the set.
LEMMA InOrderRange ==
  ASSUME NEW S \in SUBSET Nat, IsFiniteSet(S)
  PROVE  Range(InOrder(S)) = S
<1> DEFINE With(k) == {i \in S : Cardinality(Below(S, i)) = k - 1}
           At(k) == CHOOSE i \in S : Cardinality(Below(S, i)) = k - 1
<1>1. InOrder(S) = [k \in 1 .. Cardinality(S) |-> At(k)]
  BY DEF InOrder, Below
<1>2. /\ Cardinality(S) \in Nat
      /\ \A i \in S : Below(S, i) \in SUBSET S /\ IsFiniteSet(Below(S, i))
                        /\ Cardinality(Below(S, i)) \in Nat
  BY FS_CardinalityType, FS_Subset DEF Below
<1>3. ASSUME NEW i \in S, NEW j \in S, i < j
      PROVE  Cardinality(Below(S, i)) < Cardinality(Below(S, j))
  <2> DEFINE Upto == Below(S, i) \cup {i}
  <2>1. Upto \in SUBSET Below(S, j) /\ i \notin Below(S, i)
    <3>1. \A l \in S : l < i => l < j
      BY <1>3
    <3>2. Upto \subseteq Below(S, j)
      BY <1>3, <3>1 DEF Below
    <3> QED
      BY <3>2 DEF Below
  <2>2. Cardinality(Upto) = Cardinality(Below(S, i)) + 1
    BY <1>2, <2>1, FS_AddElement
  <2>3. Cardinality(Upto) <= Cardinality(Below(S, j))
    <3> HIDE DEF Upto
    <3> QED
      BY <1>2, <2>1, FS_Subset
  <2> HIDE DEF Upto
  <2>4. Cardinality(Below(S, i)) \in Nat /\ Cardinality(Below(S, j)) \in Nat
    BY <1>2
  <2> QED
    BY <2>2, <2>3, <2>4
<1>4. ASSUME NEW k \in 1 .. Cardinality(S)
      PROVE  At(k) \in S /\ Cardinality(Below(S, At(k))) = k - 1
  BY Rank
<1> HIDE DEF At
<1>5. ASSUME NEW i \in S
      PROVE  \E k \in 1 .. Cardinality(S) : At(k) = i
  <2> DEFINE k == Cardinality(Below(S, i)) + 1
  <2>1. Cardinality(Below(S, i)) \in Nat /\ Cardinality(Below(S, i)) < Cardinality(S)
    <3>1. Below(S, i) \in SUBSET S /\ Below(S, i) # S
      BY DEF Below
    <3> QED
      BY <1>2, <3>1, FS_Subset
  <2>2. k \in 1 .. Cardinality(S) /\ k - 1 = Cardinality(Below(S, i))
    BY <1>2, <2>1
  <2> HIDE DEF k
  <2>3. At(k) \in S /\ Cardinality(Below(S, At(k))) = Cardinality(Below(S, i))
    BY <1>4, <2>2
  <2>4. ~(At(k) < i) /\ ~(i < At(k))
    <3>1. Cardinality(Below(S, i)) \in Nat
      BY <1>2
    <3>2. /\ ~(Cardinality(Below(S, At(k))) < Cardinality(Below(S, i)))
          /\ ~(Cardinality(Below(S, i)) < Cardinality(Below(S, At(k))))
      BY <2>3, <3>1
    <3> QED
      BY <1>3, <2>3, <3>2
  <2>5. At(k) \in Nat /\ i \in Nat
    BY <2>3
  <2>6. At(k) = i
    BY <2>4, <2>5
  <2> QED
    BY <2>2, <2>6
<1> DEFINE list == [k \in 1 .. Cardinality(S) |-> At(k)]
<1>6. Range(list) = {At(k) : k \in 1 .. Cardinality(S)}
  BY DEF Range
<1>7. {At(k) : k \in 1 .. Cardinality(S)} = S
  BY <1>4, <1>5
<1> QED
  BY <1>1, <1>6, <1>7

IsList(s) == \E n \in Nat : DOMAIN s = 1 .. n

\* What the pictures of a frame have in common: the maximas are those of the blurred
\* image, and darkening has left them as they were.
DetectorIInv ==
    /\ m_config \in Configs /\ m_neutral \in Int
    /\ m_counter \in 0 .. NEUTRAL_BACKOFF - 1 /\ frames \in 0 .. MaxFrames
    /\ IsImage(m_heatmap) /\ IsImage(m_blurred) /\ IsImage(span_src)
    /\ SameSize(m_blurred, m_heatmap) /\ SameSize(span_src, m_blurred)
    /\ {m_blurred.at, span_src.at} \subseteq [Pixels(m_blurred) -> Nat]
    /\ IsList(m_maximas)
    /\ Range(m_maximas) = {i \in Pixels(m_blurred) : IsMaxima(m_blurred, i)}
    /\ \A i \in Range(m_maximas) : span_src.at[i] = m_blurred.at[i]

LEMMA InitDetectorIInv == Init => DetectorIInv
<1> SUFFICES ASSUME Init PROVE DetectorIInv
  OBVIOUS
<1>1. Range(<<>>) = {} /\ Pixels(Empty) = {} /\ IsList(<<>>)
  BY DEF Range, Pixels, Empty, IsList
<1>2. Empty.at \in [Pixels(Empty) -> Nat]
  BY <1>1 DEF Empty
<1>3. 0 \in 0 .. NEUTRAL_BACKOFF - 1 /\ 0 \in 0 .. MaxFrames
  BY CountAssumption
<1> QED
  BY <1>1, <1>2, <1>3, EmptyImage DEF Init, DetectorIInv, SameSize

LEMMA NextDetectorIInv == DetectorIInv /\ [Next]_vars => DetectorIInv'
<1> SUFFICES ASSUME DetectorIInv, [Next]_vars PROVE DetectorIInv'
  OBVIOUS
<1>1. CASE Next
  <2>0. frames < MaxFrames /\ frames' = frames + 1
    BY <1>1 DEF Next, Frame
  <2>1. PICK data \in Backgrounds \cup Heatmaps : ProcessTouch(data)
    BY <1>1 DEF Next, Frame
  <2>2. data.image \in [rows : Nat \ {1}, cols : Nat \ {1}, at : [Pixels(data.image) -> Int]]
        /\ data.max \in Int
    BY HeatmapAssumption
  <2> DEFINE heatmap == Normalised(data)
             neutral == IF m_counter = 0 THEN Neutral(heatmap) ELSE m_neutral
             above == Map(heatmap, LAMBDA i : Max({heatmap.at[i] - neutral, 0}))
             blurred == Run3x3(above, KERNEL_BLUR)
             maximas == FindMaximas(blurred)
  <2>3. IsImage(heatmap) /\ heatmap.rows # 0 /\ heatmap.cols # 0
    <3> DEFINE f == [i \in Pixels(data.image) |-> data.max - data.image.at[i]]
    <3>1. IsImage(data.image)
      BY <2>2 DEF IsImage
    <3>2. f \in [Pixels(data.image) -> Int]
      BY <2>2, <3>1, ImageType
    <3>3. heatmap = [data.image EXCEPT !.at = f]
      BY DEF Normalised, Map
    <3> HIDE DEF f, heatmap
    <3>4. IsImage(heatmap) /\ SameSize(heatmap, data.image)
      BY <3>1, <3>2, <3>3, OtherPixels
    <3>5. data.image.rows # 0 /\ data.image.cols # 0
      BY <2>1 DEF ProcessTouch
    <3> QED
      BY <3>4, <3>5 DEF SameSize
  <2>4. neutral \in Int
    <3> HIDE DEF heatmap
    <3>1. m_config \in Configs /\ m_neutral \in Int
      BY DEF DetectorIInv
    <3> QED
      BY <2>3, <3>1, NeutralType
  <2>5. /\ IsImage(above) /\ above.rows # 0 /\ above.cols # 0 /\ SameSize(above, heatmap)
        /\ above.at \in [Pixels(above) -> Nat]
    <3> HIDE DEF heatmap, neutral
    <3> DEFINE f == [i \in Pixels(heatmap) |-> Max({heatmap.at[i] - neutral, 0})]
    <3>1. f \in [Pixels(heatmap) -> Nat]
      <4>1. \A v \in Int : Max({v, 0}) \in Nat
        <5> SUFFICES ASSUME NEW v \in Int PROVE Max({v, 0}) \in Nat
          OBVIOUS
        <5>1. \E x \in {v, 0} : \A y \in {v, 0} : x >= y
          <6>1. CASE v >= 0
            BY <6>1
          <6>2. CASE ~(v >= 0)
            BY <6>2
          <6> QED
            BY <6>1, <6>2
        <5>2. Max({v, 0}) \in {v, 0} /\ Max({v, 0}) >= 0
          BY <5>1 DEF Max
        <5> QED
          BY <5>2
      <4>2. \A i \in Pixels(heatmap) : heatmap.at[i] - neutral \in Int
        BY <2>3, <2>4, ImageType
      <4> QED
        BY <4>1, <4>2
    <3>2. above = [heatmap EXCEPT !.at = f]
      BY DEF Map
    <3>3. f \in [Pixels(heatmap) -> Int]
      BY <3>1
    <3> HIDE DEF f, above
    <3>4. IsImage(above) /\ SameSize(above, heatmap) /\ above.at = f /\ Pixels(above) = Pixels(heatmap)
      BY <2>3, <3>2, <3>3, OtherPixels
    <3> QED
      BY <2>3, <3>1, <3>4 DEF SameSize
  <2>6. /\ IsImage(blurred) /\ SameSize(blurred, heatmap)
        /\ blurred.at \in [Pixels(blurred) -> Nat]
    <3> HIDE DEF above
    <3>1. above.rows \in Nat \ {0, 1} /\ above.cols \in Nat \ {0, 1}
      BY <2>5, ImageType
    <3>2. above.rows >= 2 /\ above.cols >= 2
      BY <3>1
    <3>3. blurred = RunGeneric(above, KERNEL_BLUR, 1)
      BY <3>1, <3>2, Run3x3IsGeneric
    <3> HIDE DEF blurred
    <3>4. IsImage(blurred) /\ SameSize(blurred, above) /\ blurred.at \in [Pixels(above) -> Nat]
      BY <2>5, <3>3, KernelAssumption, GenericImage
    <3> QED
      BY <2>5, <3>4 DEF SameSize, Pixels
  <2>7. /\ m_heatmap' = heatmap /\ m_neutral' = neutral /\ m_blurred' = blurred
        /\ m_maximas' = maximas /\ m_config' = m_config
        /\ m_counter' = (m_counter + 1) % NEUTRAL_BACKOFF
        /\ span_src' = IF m_config.radius >= 1
                       THEN DarkenAroundMaximas(blurred, maximas, m_config.radius) ELSE blurred
    BY <2>1 DEF ProcessTouch, Detect
  <2> HIDE DEF heatmap, neutral, blurred
  <2>8. /\ Range(maximas) = {i \in Pixels(blurred) : IsMaxima(blurred, i)}
        /\ IsList(maximas)
    <3> DEFINE M == {i \in Pixels(blurred) : IsMaxima(blurred, i)}
    <3>1. M \in SUBSET Pixels(blurred)
      OBVIOUS
    <3> HIDE DEF M
    <3>2. M \in SUBSET Nat /\ IsFiniteSet(M)
      BY <2>6, <3>1, ImageType, FS_Subset
    <3>3. Range(InOrder(M)) = M
      BY <3>2, InOrderRange
    <3>4. IsList(InOrder(M))
      BY <3>2, FS_CardinalityType DEF IsList, InOrder
    <3> QED
      BY <3>3, <3>4 DEF FindMaximas, M
  <2> HIDE DEF maximas
  <2>9. /\ IsImage(span_src') /\ SameSize(span_src', blurred)
        /\ \A i \in Range(maximas) : span_src'.at[i] = blurred.at[i]
        /\ span_src'.at \in [Pixels(blurred) -> Nat]
    <3>1. CASE m_config.radius >= 1
      BY <2>6, <2>7, <2>8, <3>1, DarkenedImage
    <3>2. CASE ~(m_config.radius >= 1)
      BY <2>6, <2>7, <3>2 DEF SameSize
    <3> QED
      BY <3>1, <3>2
  <2>10. IsImage(m_heatmap)' /\ IsImage(m_blurred)' /\ IsImage(span_src)'
    <3>1. IsImage(m_heatmap') /\ IsImage(m_blurred') /\ IsImage(span_src')
      BY <2>3, <2>6, <2>7, <2>9
    <3> QED
      BY <3>1 DEF IsImage, Pixels
  <2>11. /\ SameSize(span_src, m_blurred)' /\ SameSize(m_blurred, m_heatmap)'
         /\ (Range(m_maximas) = {i \in Pixels(m_blurred) : IsMaxima(m_blurred, i)})'
         /\ (\A i \in Range(m_maximas) : span_src.at[i] = m_blurred.at[i])'
    <3>1. SameSize(span_src, m_blurred)' /\ SameSize(m_blurred, m_heatmap)'
      BY <2>6, <2>7, <2>9 DEF SameSize
    <3>2. (Range(m_maximas) = {i \in Pixels(m_blurred) : IsMaxima(m_blurred, i)})'
      BY <2>7, <2>8 DEF Pixels, IsMaxima, InImage, Row, Col, Range
    <3>3. (\A i \in Range(m_maximas) : span_src.at[i] = m_blurred.at[i])'
      BY <2>7, <2>9 DEF Range
    <3> QED
      BY <3>1, <3>2, <3>3
  <2>12. IsList(m_maximas)' /\ ({m_blurred.at, span_src.at} \subseteq [Pixels(m_blurred) -> Nat])'
    BY <2>6, <2>7, <2>8, <2>9 DEF IsList, Pixels
  <2>13. m_counter' \in 0 .. NEUTRAL_BACKOFF - 1 /\ frames' \in 0 .. MaxFrames
    BY <2>0, <2>7, CountAssumption DEF DetectorIInv
  <2> QED
    BY <2>4, <2>7, <2>10, <2>11, <2>12, <2>13 DEF DetectorIInv
<1>2. CASE UNCHANGED vars
  <2>1. /\ m_heatmap' = m_heatmap /\ m_neutral' = m_neutral /\ m_blurred' = m_blurred
        /\ m_maximas' = m_maximas /\ m_config' = m_config /\ span_src' = span_src
        /\ m_counter' = m_counter /\ frames' = frames
    BY <1>2 DEF vars
  <2>2. IsImage(m_heatmap)' /\ IsImage(m_blurred)' /\ IsImage(span_src)'
    BY <2>1 DEF DetectorIInv, IsImage, Pixels
  <2>3. /\ SameSize(span_src, m_blurred)' /\ SameSize(m_blurred, m_heatmap)'
        /\ (Range(m_maximas) = {i \in Pixels(m_blurred) : IsMaxima(m_blurred, i)})'
        /\ (\A i \in Range(m_maximas) : span_src.at[i] = m_blurred.at[i])'
    BY <2>1 DEF DetectorIInv, SameSize, Pixels, IsMaxima, InImage, Row, Col, Range
  <2>4. IsList(m_maximas)' /\ ({m_blurred.at, span_src.at} \subseteq [Pixels(m_blurred) -> Nat])'
    BY <2>1 DEF DetectorIInv, IsList, Pixels
  <2> QED
    BY <2>1, <2>2, <2>3, <2>4 DEF DetectorIInv
<1> QED
  BY <1>1, <1>2

\* The invariant holds of every reachable state.
THEOREM DetectorInductive == Spec => []DetectorIInv
<1> QED
  BY InitDetectorIInv, NextDetectorIInv, PTL DEF Spec

-----------------------------------------------------------------------------
(* The unrolled convolutions.                                              *)

\* OptimizedIsGeneric for heatmaps of any size: no block of the 3x3 routine, nor of
\* the 5x5 one in builds with forced access checks, reads another pixel than the
\* generic routine, or one outside the image.
THEOREM UnrolledAgree == Spec => []OptimizedIsGeneric
<1>1. DetectorIInv => OptimizedIsGeneric
  <2> SUFFICES ASSUME DetectorIInv PROVE OptimizedIsGeneric
    OBVIOUS
  <2>1. m_heatmap.rows \in Nat /\ m_heatmap.cols \in Nat
    BY ImageType DEF DetectorIInv
  <2>2. ASSUME m_heatmap.rows >= 2, m_heatmap.cols >= 2
        PROVE  Run3x3(m_heatmap, Skewed(1)) = RunGeneric(m_heatmap, Skewed(1), 1)
    BY <2>1, <2>2, Run3x3IsGeneric
  <2>3. ASSUME ForceAccessChecks, m_heatmap.rows >= 4, m_heatmap.rows = m_heatmap.cols
        PROVE  Run5x5(m_heatmap, Skewed(2)) = RunGeneric(m_heatmap, Skewed(2), 2)
    BY <2>1, <2>3, Run5x5IsGeneric
  <2> QED
    BY <2>2, <2>3 DEF OptimizedIsGeneric
<1> QED
  BY <1>1, DetectorInductive, PTL

-----------------------------------------------------------------------------
(* Maximas.                                                                *)

\* From a pixel to another one.
LEMMA Between ==
  ASSUME NEW img, IsImage(img), NEW i \in Pixels(img), NEW j \in Pixels(img)
  PROVE  /\ Row(img, i) \in 0 .. img.rows - 1 /\ Col(img, i) \in 0 .. img.cols - 1
         /\ InImage(img, Row(img, j), Col(img, j))
         /\ j = i + (Row(img, j) - Row(img, i)) * img.cols + (Col(img, j) - Col(img, i))
<1>1. img.rows \in Nat /\ img.cols \in Nat \ {0}
  BY ImageType
<1>2. /\ Row(img, i) \in 0 .. img.rows - 1 /\ Col(img, i) \in 0 .. img.cols - 1
      /\ Row(img, j) \in 0 .. img.rows - 1 /\ Col(img, j) \in 0 .. img.cols - 1
      /\ i = Row(img, i) * img.cols + Col(img, i) /\ j = Row(img, j) * img.cols + Col(img, j)
  BY <1>1, Coordinates DEF Pixels, Row, Col
<1>3. ASSUME NEW a \in Nat, NEW b \in Nat, NEW c \in Nat, NEW y \in Nat, NEW x \in Nat
      PROVE  y * c + x = (a * c + b) + (y - a) * c + (x - b)
  OBVIOUS
<1>4. Row(img, i) \in Nat /\ Col(img, i) \in Nat /\ Row(img, j) \in Nat /\ Col(img, j) \in Nat
  BY <1>1, <1>2
<1>5. j = i + (Row(img, j) - Row(img, i)) * img.cols + (Col(img, j) - Col(img, i))
  BY <1>1, <1>2, <1>3, <1>4
<1> QED
  BY <1>2, <1>5 DEF InImage

\* From a pixel to a position in the image.
LEMMA Moved ==
  ASSUME NEW img, IsImage(img), NEW i \in Pixels(img), NEW y \in Int, NEW x \in Int,
         InImage(img, Row(img, i) + y, Col(img, i) + x)
  PROVE  LET j == i + y * img.cols + x
         IN  j \in Pixels(img) /\ Row(img, j) = Row(img, i) + y /\ Col(img, j) = Col(img, i) + x
<1> DEFINE c == img.cols
           a == Row(img, i)
           b == Col(img, i)
           j == i + y * c + x
<1>1. img.rows \in Nat /\ c \in Nat \ {0}
  BY ImageType
<1>2. a \in Nat /\ b \in Nat /\ i = a * c + b
  <2>1. /\ Row(img, i) \in 0 .. img.rows - 1 /\ Col(img, i) \in 0 .. img.cols - 1
        /\ i = Row(img, i) * img.cols + Col(img, i)
    BY <1>1, Coordinates DEF Pixels, Row, Col
  <2> QED
    BY <1>1, <2>1
<1>3. a + y \in 0 .. img.rows - 1 /\ b + x \in 0 .. c - 1
  BY DEF InImage
<1>4. j = (a + y) * c + (b + x)
  <2> HIDE DEF a, b, c
  <2> QED
    BY <1>1, <1>2
<1> DEFINE u == a + y
           v == b + x
<1> HIDE DEF u, v, j, c
<1>5. j = u * c + v /\ u \in 0 .. img.rows - 1 /\ v \in 0 .. c - 1
  BY <1>3, <1>4 DEF u, v
<1>6. j \in 0 .. img.rows * c - 1 /\ j \div c = u /\ j % c = v
  BY <1>1, <1>5, Position
<1>7. j \in Pixels(img) /\ Row(img, j) = u /\ Col(img, j) = v
  BY <1>6 DEF Pixels, Row, Col, c
<1> QED
  BY <1>7 DEF u, v, j, c

\* A pixel's neighbours are not maximas if it is one.
LEMMA MaximasApart ==
  ASSUME DetectorIInv, NEW i \in Range(m_maximas)
  PROVE  Neighbours(i) \cap Range(m_maximas) = {}
<1> SUFFICES ASSUME NEW j \in Neighbours(i), j \in Range(m_maximas) PROVE FALSE
  OBVIOUS
<1> DEFINE img == m_blurred
           y == Row(img, j) - Row(img, i)
           x == Col(img, j) - Col(img, i)
           yy == Row(img, i) - Row(img, j)
           xx == Col(img, i) - Col(img, j)
<1>1. /\ IsImage(img) /\ i \in Pixels(img) /\ j \in Pixels(img)
      /\ IsMaxima(img, i) /\ IsMaxima(img, j)
  BY DEF DetectorIInv
<1>2. i # j /\ yy \in -1 .. 1 /\ xx \in -1 .. 1
  BY DEF Neighbours
<1> HIDE DEF img
<1>3. Row(img, i) \in Int /\ Col(img, i) \in Int /\ Row(img, j) \in Int /\ Col(img, j) \in Int
  BY <1>1, Between
<1>4. y = 0 - yy /\ x = 0 - xx /\ y \in -1 .. 1 /\ x \in -1 .. 1
  BY <1>2, <1>3
<1>5. j = i + y * img.cols + x /\ i = j + yy * img.cols + xx
  BY <1>1, Between
<1>6. <<y, x>> # <<0, 0>> /\ <<yy, xx>> # <<0, 0>>
  <2>1. img.cols \in Nat /\ i \in Nat
    BY <1>1, ImageType
  <2>2. ~(y = 0 /\ x = 0)
    <3> HIDE DEF y, x
    <3>1. y = 0 /\ x = 0 => j = i
      BY <1>5, <2>1
    <3> QED
      BY <1>2, <3>1
  <2> QED
    BY <1>4, <2>2
<1>7. Row(img, i) + y = Row(img, j) /\ Col(img, i) + x = Col(img, j)
      /\ Row(img, j) + yy = Row(img, i) /\ Col(img, j) + xx = Col(img, i)
  BY <1>3
<1>8. InImage(img, Row(img, i) + y, Col(img, i) + x) /\ InImage(img, Row(img, j) + yy, Col(img, j) + xx)
  BY <1>1, <1>7, Between
<1> HIDE DEF y, x, yy, xx
<1>9. img.at[j] < img.at[i] \/ (MayEqual(<<y, x>>) /\ img.at[j] = img.at[i])
  <2>1. <<y, x>> \in ((-1 .. 1) \X (-1 .. 1)) \ {<<0, 0>>}
    BY <1>4, <1>6
  <2> QED
    BY <1>1, <1>5, <1>8, <2>1 DEF IsMaxima
<1>10. img.at[i] < img.at[j] \/ (MayEqual(<<yy, xx>>) /\ img.at[i] = img.at[j])
  <2>1. <<yy, xx>> \in ((-1 .. 1) \X (-1 .. 1)) \ {<<0, 0>>}
    BY <1>2, <1>6
  <2> QED
    BY <1>1, <1>5, <1>8, <2>1 DEF IsMaxima
<1>11. img.at[i] \in Int /\ img.at[j] \in Int
  BY <1>1, ImageType
<1>12. MayEqual(<<y, x>>) /\ MayEqual(<<yy, xx>>)
  BY <1>9, <1>10, <1>11
<1> QED
  BY <1>2, <1>4, <1>12 DEF MayEqual

\* The pixels beside a pixel that have its value.
Equals == [i \in Pixels(m_blurred) |-> {j \in Neighbours(i) : m_blurred.at[j] = m_blurred.at[i]}]

\* The leftmost pixel of a plateau, of several the topmost, is a maxima of a summit.
LEMMA SummitHasMaxima ==
  ASSUME DetectorIInv, NEW s \in Pixels(m_blurred), m_blurred.at[s] > ACTIVATION,
         \A i \in Reach({s}, Equals) : \A j \in Neighbours(i) : m_blurred.at[j] <= m_blurred.at[i]
  PROVE  Reach({s}, Equals) \cap Range(m_maximas) # {}
<1> DEFINE img == m_blurred
           plateau == Reach({s}, Equals)
<1>1. IsImage(img) /\ Range(m_maximas) = {i \in Pixels(img) : IsMaxima(img, i)}
  BY DEF DetectorIInv
<1>2. /\ Equals \in [Pixels(img) -> SUBSET Pixels(img)] /\ IsFiniteSet(Pixels(img))
      /\ {s} \in SUBSET Pixels(img)
  BY <1>1, ImageType DEF Equals, Neighbours
<1>3. /\ s \in plateau /\ plateau \subseteq Pixels(img)
      /\ \A i \in plateau : Equals[i] \subseteq plateau
      /\ \A C \in SUBSET Pixels(img) : {s} \subseteq C /\ (\A i \in C : Equals[i] \subseteq C)
             => plateau \subseteq C
  BY <1>2, ReachLeast
<1>4. \A i \in plateau : img.at[i] = img.at[s]
  <2> DEFINE C == {i \in Pixels(img) : img.at[i] = img.at[s]}
  <2>1. \A i \in C : Equals[i] \subseteq C
    BY DEF Equals, Neighbours
  <2>2. C \in SUBSET Pixels(img) /\ {s} \subseteq C
    OBVIOUS
  <2>3. plateau \subseteq C
    <3> HIDE DEF C, plateau, img
    <3> QED
      BY <1>3, <2>1, <2>2
  <2> QED
    BY <2>3
<1>5. \A i \in plateau : \A j \in Neighbours(i) : img.at[j] <= img.at[i]
  OBVIOUS
<1> HIDE DEF plateau
<1> DEFINE Cols == {Col(img, i) : i \in plateau}
<1>6. \A i \in plateau : i \in Pixels(img) /\ Col(img, i) \in Nat /\ Row(img, i) \in Nat
  <2> SUFFICES ASSUME NEW i \in plateau
               PROVE  i \in Pixels(img) /\ Col(img, i) \in Nat /\ Row(img, i) \in Nat
    OBVIOUS
  <2>1. i \in Pixels(img)
    BY <1>3
  <2>2. Row(img, i) \in 0 .. img.rows - 1 /\ Col(img, i) \in 0 .. img.cols - 1
    BY <1>1, <2>1, Between
  <2> QED
    BY <2>1, <2>2, <1>1, ImageType
<1>7. PICK l \in Cols : \A k \in Cols : l <= k
  <2>1. Cols \in SUBSET Nat /\ Cols # {}
    BY <1>3, <1>6
  <2> HIDE DEF Cols
  <2> QED
    BY <2>1, Smallest
<1> DEFINE Left == {i \in plateau : Col(img, i) = l}
           Rows == {Row(img, i) : i \in Left}
<1>8. PICK t \in Rows : \A k \in Rows : t <= k
  <2>1. Rows \in SUBSET Nat /\ Rows # {}
    BY <1>6, <1>7
  <2> HIDE DEF Rows
  <2> QED
    BY <2>1, Smallest
<1>9. PICK p \in Left : Row(img, p) = t
  BY <1>8
<1>10. p \in plateau /\ Col(img, p) = l /\ p \in Pixels(img) /\ l \in Nat /\ t \in Nat
  BY <1>6, <1>9
<1>11. ASSUME NEW d \in ((-1 .. 1) \X (-1 .. 1)) \ {<<0, 0>>},
              InImage(img, Row(img, p) + d[1], Col(img, p) + d[2])
       PROVE  LET n == img.at[p + d[1] * img.cols + d[2]]
              IN  n < img.at[p] \/ (MayEqual(d) /\ n = img.at[p])
  <2> DEFINE j == p + d[1] * img.cols + d[2]
  <2>1. d[1] \in -1 .. 1 /\ d[2] \in -1 .. 1 /\ d = <<d[1], d[2]>> /\ ~(d[1] = 0 /\ d[2] = 0)
    OBVIOUS
  <2>2. j \in Pixels(img) /\ Row(img, j) = t + d[1] /\ Col(img, j) = l + d[2]
    <3>1. d[1] \in Int /\ d[2] \in Int
      BY <2>1
    <3> HIDE DEF img
    <3> QED
      BY <1>1, <1>9, <1>10, <1>11, <3>1, Moved
  <2> HIDE DEF j
  <2>3. j # p
    BY <1>9, <1>10, <2>1, <2>2
  <2>4. j \in Neighbours(p)
    <3>1. /\ Row(img, p) - Row(img, j) \in -1 .. 1 /\ Col(img, p) - Col(img, j) \in -1 .. 1
      BY <1>9, <1>10, <2>1, <2>2
    <3> QED
      BY <2>2, <2>3, <3>1 DEF Neighbours
  <2>5. img.at[j] <= img.at[p]
    BY <1>5, <1>10, <2>4
  <2>6. img.at[j] \in Int /\ img.at[p] \in Int
    BY <1>1, <1>10, <2>2, ImageType
  <2>7. ASSUME img.at[j] = img.at[p] PROVE MayEqual(d)
    <3>1. j \in plateau
      BY <1>3, <1>10, <2>4, <2>7 DEF Equals
    <3>2. l <= l + d[2]
      <4>1. Col(img, j) \in Cols
        BY <3>1
      <4> HIDE DEF Cols
      <4> QED
        BY <1>7, <2>2, <4>1
    <3>3. d[2] = 0 \/ d[2] = 1
      BY <1>10, <2>1, <3>2
    <3>4. d[2] = 0 => d[1] = 1
      <4> SUFFICES ASSUME d[2] = 0 PROVE d[1] = 1
        OBVIOUS
      <4>1. j \in Left
        BY <1>10, <2>2, <3>1
      <4>2. Row(img, j) \in Rows
        BY <4>1
      <4>3. t <= t + d[1]
        <5> HIDE DEF Rows
        <5> QED
          BY <1>8, <2>2, <4>2
      <4> QED
        BY <1>10, <2>1, <4>3
    <3>5. d \in {<<0, 1>>, <<1, 0>>, <<1, 1>>, <<-1, 1>>}
      <4>1. d[2] = 1 => d[1] \in {-1, 0, 1}
        BY <2>1
      <4> QED
        BY <2>1, <3>3, <3>4, <4>1
    <3> QED
      BY <3>5 DEF MayEqual
  <2>8. img.at[j] < img.at[p] \/ (MayEqual(d) /\ img.at[j] = img.at[p])
    BY <2>5, <2>6, <2>7
  <2> QED
    BY <2>8 DEF j
<1>12. img.at[p] > ACTIVATION
  BY <1>4, <1>10
<1>13. IsMaxima(img, p)
  BY <1>11, <1>12 DEF IsMaxima
<1>14. p \in Range(m_maximas)
  BY <1>1, <1>10, <1>13
<1> QED
  BY <1>10, <1>14 DEF plateau

\* PeaksFound for images of any size: every summit above the threshold has a maxima,
\* and no two maximas are neighbours.
THEOREM NoPeakDiscarded == Spec => []PeaksFound
<1>1. DetectorIInv => PeaksFound
  <2> SUFFICES ASSUME DetectorIInv PROVE PeaksFound
    OBVIOUS
  <2>1. ASSUME NEW i \in {j \in Pixels(m_blurred) : m_blurred.at[j] > ACTIVATION},
               \A k \in Reach({i}, Equals) : \A j \in Neighbours(k) :
                   m_blurred.at[j] <= m_blurred.at[k]
        PROVE  Reach({i}, Equals) \cap Range(m_maximas) # {}
    BY <2>1, SummitHasMaxima
  <2> QED
    BY <2>1, MaximasApart DEF PeaksFound, Equals
<1> QED
  BY <1>1, DetectorInductive, PTL

-----------------------------------------------------------------------------
(* Clusters.                                                               *)

\* The pixels beside a pixel are pixels of the image.
LEMMA AroundType ==
  ASSUME NEW img, IsImage(img), NEW i \in Pixels(img)
  PROVE  /\ Around(img, i) \subseteq Pixels(img)
         /\ Around(img, i) \subseteq {i + 1, i - 1, i + img.cols, i - img.cols}
<1> DEFINE y == Row(img, i)
           x == Col(img, i)
<1>1. img.rows \in Nat /\ img.cols \in Nat /\ i \in Nat
  BY ImageType
<1>2. y \in 0 .. img.rows - 1 /\ x \in 0 .. img.cols - 1
  BY Between
<1>3. ASSUME NEW a \in Int, NEW b \in Int, y + a \in 0 .. img.rows - 1, x + b \in 0 .. img.cols - 1
      PROVE  i + a * img.cols + b \in Pixels(img)
  BY <1>3, Moved DEF InImage
<1>4. x < img.cols - 1 => i + 1 \in Pixels(img)
  <2>1. i + 0 * img.cols + 1 = i + 1
    BY <1>1
  <2> HIDE DEF y, x
  <2> QED
    BY <1>1, <1>2, <1>3, <2>1
<1>5. x > 0 => i - 1 \in Pixels(img)
  <2>1. i + 0 * img.cols + (-1) = i - 1
    BY <1>1
  <2> HIDE DEF y, x
  <2> QED
    BY <1>1, <1>2, <1>3, <2>1
<1>6. y < img.rows - 1 => i + img.cols \in Pixels(img)
  <2>1. i + 1 * img.cols + 0 = i + img.cols
    BY <1>1
  <2> HIDE DEF y, x
  <2> QED
    BY <1>1, <1>2, <1>3, <2>1
<1>7. y > 0 => i - img.cols \in Pixels(img)
  <2>1. i + (-1) * img.cols + 0 = i - img.cols
    BY <1>1
  <2> HIDE DEF y, x
  <2> QED
    BY <1>1, <1>2, <1>3, <2>1
<1> QED
  BY <1>4, <1>5, <1>6, <1>7 DEF Around

\* The pixels above the activation threshold, and sets of them that are not
\* connected to others.
Hot(img) == {i \in Pixels(img) : img.at[i] > ACTIVATION}

Closed(img, T) == \A j \in T : Around(img, j) \cap Hot(img) \subseteq T

Calls(img) == (SUBSET Pixels(img)) \X Pixels(img) \X Int

\* What a call of span_recursive makes of the visited pixels: it adds the pixel if it
\* is not blocked, and with each pixel above the threshold those beside it; but it
\* does not leave the pixels the first one is connected to, if it is above the
\* threshold and was not reached by climbing to it.
Spanned(img, W, visited, i, previous) ==
    /\ visited \subseteq W /\ W \subseteq Pixels(img)
    /\ Blocked(img.at[i], previous) \/ i \in W
    /\ \A j \in (W \ visited) \cap Hot(img) : Around(img, j) \cap Hot(img) \subseteq W
    /\ \A T \in SUBSET Hot(img) :
           Closed(img, T) /\ (previous <= ACTIVATION \/ i \notin Hot(img) \/ i \in T)
               => (W \ visited) \cap Hot(img) \subseteq T

\* If the calls for more visited pixels do that, so does this one.
LEMMA SpanStep ==
  ASSUME NEW img, IsImage(img), NEW span,
         NEW visited \in SUBSET Pixels(img), NEW i \in Pixels(img), NEW previous \in Int,
         \A v \in SUBSET Pixels(img) : visited \cup {i} \subseteq v /\ i \notin visited =>
             \A n \in Pixels(img), p \in Int : Spanned(img, span[<<v, n, p>>], v, n, p)
  PROVE  Spanned(img, SpanBody(img, span, visited, i, previous), visited, i, previous)
<1>1. CASE Blocked(img.at[i], previous) \/ i \in visited
  <2>1. SpanBody(img, span, visited, i, previous) = visited
    BY <1>1 DEF SpanBody
  <2> QED
    BY <1>1, <2>1 DEF Spanned
<1>2. CASE ~Blocked(img.at[i], previous) /\ i \notin visited
  <2> DEFINE P == Pixels(img)
             H == Hot(img)
             a == img.at[i]
             Into(v, n) == IF n \in Around(img, i) THEN span[<<v, n, a>>] ELSE v
             Stage(v, w, n) ==
                 /\ v \subseteq w /\ w \subseteq P
                 /\ n \in Around(img, i) => Blocked(img.at[n], a) \/ n \in w
                 /\ \A j \in (w \ v) \cap H : Around(img, j) \cap H \subseteq w
                 /\ \A T \in SUBSET H : 
                        Closed(img, T) /\ (a <= ACTIVATION \/ Around(img, i) \cap H \subseteq T)
                            => (w \ v) \cap H \subseteq T
             v0 == visited \cup {i}
             v1 == Into(v0, i + 1)
             v2 == Into(v1, i - 1)
             v3 == Into(v2, i + img.cols)
             W == Into(v3, i - img.cols)
  <2>1. SpanBody(img, span, visited, i, previous) = W
    BY <1>2 DEF SpanBody
  <2>2. a \in Int /\ \A j \in P : img.at[j] \in Int
    BY ImageType
  <2> HIDE DEF a
  <2>3. ASSUME NEW v \in SUBSET P, v0 \subseteq v, NEW n PROVE Stage(v, Into(v, n), n)
    <3>1. CASE n \in Around(img, i)
      <4>1. n \in P
        BY <3>1, AroundType
      <4>2. Spanned(img, span[<<v, n, a>>], v, n, a)
        BY <1>2, <2>2, <2>3, <4>1
      <4>3. Into(v, n) = span[<<v, n, a>>]
        BY <3>1
      <4> HIDE DEF Into
      <4>4. Stage(v, span[<<v, n, a>>], n)
        BY <3>1, <4>2 DEF Spanned
      <4> QED
        BY <4>3, <4>4
    <3>2. CASE n \notin Around(img, i)
      <4>1. Into(v, n) = v
        BY <3>2
      <4> HIDE DEF Into
      <4> QED
        BY <3>2, <4>1
    <3> QED
      BY <3>1, <3>2
  <2> HIDE DEF Into
  <2>4. v0 \in SUBSET P
    OBVIOUS
  <2> HIDE DEF v0
  <2>5. Stage(v0, v1, i + 1) /\ v1 \in SUBSET P /\ v0 \subseteq v1
    <3>1. Stage(v0, v1, i + 1)
      BY <2>3, <2>4
    <3> QED
      BY <3>1
  <2> HIDE DEF v1
  <2>6. Stage(v1, v2, i - 1) /\ v2 \in SUBSET P /\ v0 \subseteq v2
    <3>1. Stage(v1, v2, i - 1)
      BY <2>3, <2>5
    <3> QED
      BY <2>5, <3>1
  <2> HIDE DEF v2
  <2>7. Stage(v2, v3, i + img.cols) /\ v3 \in SUBSET P /\ v0 \subseteq v3
    <3>1. Stage(v2, v3, i + img.cols)
      BY <2>3, <2>6
    <3> QED
      BY <2>6, <3>1
  <2> HIDE DEF v3
  <2>8. Stage(v3, W, i - img.cols) /\ W \in SUBSET P /\ v0 \subseteq W
    <3>1. Stage(v3, W, i - img.cols)
      BY <2>3, <2>7
    <3> QED
      BY <2>7, <3>1
  <2> HIDE DEF W
  <2>9. v0 \subseteq v1 /\ v1 \subseteq v2 /\ v2 \subseteq v3 /\ v3 \subseteq W
    BY <2>5, <2>6, <2>7, <2>8
  <2>10. visited \subseteq W /\ W \subseteq P /\ i \in W
    BY <2>8 DEF v0
  <2>11. ASSUME NEW j \in (W \ visited) \cap H PROVE Around(img, j) \cap H \subseteq W
    <3>1. CASE j = i
      <4> SUFFICES ASSUME NEW n \in Around(img, i) \cap H PROVE n \in W
        BY <3>1
      <4>1. n \in {i + 1, i - 1, i + img.cols, i - img.cols} /\ n \in P
        BY AroundType
      <4>2. a > ACTIVATION /\ img.at[n] > ACTIVATION
        BY <3>1, <2>11 DEF Hot, a
      <4>3. ~Blocked(img.at[n], a)
        BY <2>2, <4>1, <4>2, ThresholdAssumption DEF Blocked
      <4> QED
        BY <2>5, <2>6, <2>7, <2>8, <2>9, <4>1, <4>3
    <3>2. CASE j # i
      <4>1. j \notin v0
        BY <2>11, <3>2 DEF v0
      <4>2. j \in v1 => Around(img, j) \cap H \subseteq v1
        BY <2>5, <2>11, <4>1
      <4>3. j \in v2 \ v1 => Around(img, j) \cap H \subseteq v2
        BY <2>6, <2>11
      <4>4. j \in v3 \ v2 => Around(img, j) \cap H \subseteq v3
        BY <2>7, <2>11
      <4>5. j \in W \ v3 => Around(img, j) \cap H \subseteq W
        BY <2>8, <2>11
      <4> QED
        BY <2>9, <2>11, <4>2, <4>3, <4>4, <4>5
    <3> QED
      BY <3>1, <3>2
  <2>12. ASSUME NEW T \in SUBSET H, Closed(img, T),
                previous <= ACTIVATION \/ i \notin H \/ i \in T
         PROVE  (W \ visited) \cap H \subseteq T
    <3>1. i \in H => i \in T
      <4> SUFFICES ASSUME i \in H, previous <= ACTIVATION PROVE FALSE
        BY <2>12
      <4>1. a > ACTIVATION
        BY DEF Hot, a
      <4> QED
        BY <1>2, <2>2, <4>1, ThresholdAssumption DEF Blocked, a
    <3>2. a <= ACTIVATION \/ Around(img, i) \cap H \subseteq T
      <4>1. i \in H => Around(img, i) \cap H \subseteq T
        BY <2>12, <3>1 DEF Closed
      <4>2. i \notin H => a <= ACTIVATION
        BY <2>2, ThresholdAssumption DEF Hot, a
      <4> QED
        BY <4>1, <4>2
    <3>3. (v1 \ v0) \cap H \subseteq T
      BY <2>5, <2>12, <3>2
    <3>4. (v2 \ v1) \cap H \subseteq T
      BY <2>6, <2>12, <3>2
    <3>5. (v3 \ v2) \cap H \subseteq T
      BY <2>7, <2>12, <3>2
    <3>6. (W \ v3) \cap H \subseteq T
      BY <2>8, <2>12, <3>2
    <3>7. \A j \in W : j \in W \ v3 \/ j \in v3 \ v2 \/ j \in v2 \ v1 \/ j \in v1 \ v0 \/ j \in v0
      OBVIOUS
    <3>8. \A j \in v0 : j \in visited \/ j = i
      BY DEF v0
    <3> HIDE DEF H
    <3> QED
      BY <3>1, <3>3, <3>4, <3>5, <3>6, <3>7, <3>8
  <2>13. Spanned(img, W, visited, i, previous)
    BY <2>10, <2>11, <2>12 DEF Spanned
  <2> QED
    BY <2>1, <2>13
<1> QED
  BY <1>1, <1>2

\* There is a function span_recursive: every call visits one more pixel.
LEMMA SpanExists ==
  ASSUME NEW img, IsImage(img)
  PROVE  \E g : g = [call \in Calls(img) |-> SpanBody(img, g, call[1], call[2], call[3])]
<1> DEFINE P == Pixels(img)
           C == Calls(img)
           Body(g) == [call \in C |-> SpanBody(img, g, call[1], call[2], call[3])]
           Widen(f) == [call \in C |-> call[1] \cup f[call]]
           h == [f \in [C -> SUBSET P] |-> Body(Widen(f))]
           left == [call \in C |-> Cardinality(P \ call[1])]
           Keeps(g) == g \in [C -> SUBSET P] /\ \A call \in C : call[1] \subseteq g[call]
<1>1. \A call \in C : call[1] \in SUBSET P /\ call[2] \in P /\ call[3] \in Int
  BY DEF Calls
<1>2. /\ IsFiniteSet(P) /\ \A i \in P : img.at[i] \in Int /\ Around(img, i) \subseteq P
  BY ImageType, AroundType
<1>3. \A v \in SUBSET P, n \in P, p \in Int : <<v, n, p>> \in C /\ <<v, n, p>>[1] = v
  BY DEF Calls
<1>4. left \in [C -> Nat]
  <2>1. \A call \in C : P \ call[1] \in SUBSET P
    OBVIOUS
  <2> HIDE DEF P, C
  <2> QED
    BY <1>2, <2>1, FS_Subset, FS_CardinalityType
\* The function is used for larger sets only, and what it adds is kept.
<1>5. ASSUME NEW g, Keeps(g), NEW call \in C
      PROVE  /\ call[1] \subseteq Body(g)[call] /\ Body(g)[call] \in SUBSET P
             /\ \A k : Keeps(k) /\ (\A c \in C : left[c] < left[call] => k[c] = g[c])
                    => Body(k)[call] = Body(g)[call]
  <2> DEFINE visited == call[1]
             i == call[2]
             a == img.at[i]
             Into(f, v, n) == IF n \in Around(img, i) THEN f[<<v, n, a>>] ELSE v
             v0 == visited \cup {i}
             v1 == Into(g, v0, i + 1)
             v2 == Into(g, v1, i - 1)
             v3 == Into(g, v2, i + img.cols)
             W == Into(g, v3, i - img.cols)
  <2>1. visited \in SUBSET P /\ i \in P /\ a \in Int
    BY <1>1, <1>2
  <2>2. Body(g)[call] = SpanBody(img, g, visited, i, call[3])
    OBVIOUS
  <2>3. ASSUME NEW k PROVE Body(k)[call] = SpanBody(img, k, visited, i, call[3])
    OBVIOUS
  <2>4. CASE Blocked(a, call[3]) \/ i \in visited
    <3>1. \A f : SpanBody(img, f, visited, i, call[3]) = visited
      BY <2>4 DEF SpanBody
    <3> HIDE DEF Body, visited, i
    <3>2. Body(g)[call] = visited /\ \A k : Body(k)[call] = visited
      BY <2>2, <2>3, <3>1
    <3> QED
      BY <2>1, <3>2 DEF visited
  <2>5. CASE ~(Blocked(a, call[3]) \/ i \in visited)
    <3>1. SpanBody(img, g, visited, i, call[3]) = W
      BY <2>5 DEF SpanBody
    <3> HIDE DEF a
    <3>2. ASSUME NEW v \in SUBSET P, v0 \subseteq v, NEW n
          PROVE  Into(g, v, n) \in SUBSET P /\ v0 \subseteq Into(g, v, n)
      <4>1. CASE n \in Around(img, i)
        <5>1. <<v, n, a>> \in C /\ <<v, n, a>>[1] = v
          BY <1>2, <1>3, <2>1, <4>1
        <5> DEFINE next == <<v, n, a>>
        <5> HIDE DEF next
        <5>2. g[next] \in SUBSET P /\ v \subseteq g[next]
          BY <1>5, <5>1 DEF next
        <5> QED
          BY <3>2, <4>1, <5>2 DEF next
      <4>2. CASE n \notin Around(img, i)
        BY <3>2, <4>2
      <4> QED
        BY <4>1, <4>2
    <3>3. ASSUME NEW k, \A c \in C : left[c] < left[call] => k[c] = g[c],
                 NEW v \in SUBSET P, v0 \subseteq v, NEW n
          PROVE  Into(k, v, n) = Into(g, v, n)
      <4>1. CASE n \in Around(img, i)
        <5>1. <<v, n, a>> \in C /\ <<v, n, a>>[1] = v
          BY <1>2, <1>3, <2>1, <4>1
        <5> DEFINE next == <<v, n, a>>
        <5> HIDE DEF next
        <5>2. left[next] < left[call]
          <6>1. P \ v \in SUBSET (P \ visited) /\ P \ v # P \ visited
            BY <2>1, <2>5, <3>3
          <6>2. IsFiniteSet(P \ visited) /\ IsFiniteSet(P \ v)
            BY <1>2, FS_Subset
          <6>3. Cardinality(P \ v) \in Nat /\ Cardinality(P \ visited) \in Nat
            BY <6>2, FS_CardinalityType
          <6>4. Cardinality(P \ v) < Cardinality(P \ visited)
            BY <6>1, <6>2, <6>3, FS_Subset
          <6>5. left[next] = Cardinality(P \ v) /\ left[call] = Cardinality(P \ visited)
            BY <5>1 DEF next
          <6> QED
            BY <6>4, <6>5
        <5>3. k[next] = g[next]
          <6> HIDE DEF left
          <6> QED
            BY <3>3, <5>1, <5>2 DEF next
        <5> QED
          BY <4>1, <5>3 DEF next
      <4>2. CASE n \notin Around(img, i)
        BY <4>2
      <4> QED
        BY <4>1, <4>2
    <3>4. v0 \in SUBSET P
      BY <2>1
    <3> HIDE DEF Into, v0, left, Body
    <3>5. v1 \in SUBSET P /\ v0 \subseteq v1
      BY <3>2, <3>4
    <3> HIDE DEF v1
    <3>6. v2 \in SUBSET P /\ v0 \subseteq v2
      BY <3>2, <3>5
    <3> HIDE DEF v2
    <3>7. v3 \in SUBSET P /\ v0 \subseteq v3
      BY <3>2, <3>6
    <3> HIDE DEF v3
    <3>8. W \in SUBSET P /\ v0 \subseteq W
      BY <3>2, <3>7
    <3>9. ASSUME NEW k, \A c \in C : left[c] < left[call] => k[c] = g[c]
          PROVE  SpanBody(img, k, visited, i, call[3]) = W
      <4>1. SpanBody(img, k, visited, i, call[3])
              = Into(k, Into(k, Into(k, Into(k, v0, i + 1), i - 1), i + img.cols), i - img.cols)
        BY <2>5 DEF SpanBody, Into, v0, a
      <4>2. Into(k, v0, i + 1) = v1
        BY <3>3, <3>4, <3>9 DEF v1
      <4>3. Into(k, v1, i - 1) = v2
        BY <3>3, <3>5, <3>9 DEF v2
      <4>4. Into(k, v2, i + img.cols) = v3
        BY <3>3, <3>6, <3>9 DEF v3
      <4>5. Into(k, v3, i - img.cols) = W
        BY <3>3, <3>7, <3>9
      <4> QED
        BY <4>1, <4>2, <4>3, <4>4, <4>5
    <3> HIDE DEF W
    <3>10. Body(g)[call] = W /\ \A k : (\A c \in C : left[c] < left[call] => k[c] = g[c])
                                          => Body(k)[call] = W
      BY <2>2, <2>3, <3>1, <3>9
    <3>11. call[1] \subseteq v0
      BY DEF v0
    <3> QED
      BY <3>8, <3>10, <3>11
  <2> QED
    BY <2>4, <2>5
<1> HIDE DEF left, Body
<1>6. ASSUME NEW f \in [C -> SUBSET P] PROVE Keeps(Widen(f))
  <2>1. \A call \in C : call[1] \cup f[call] \in SUBSET P
    BY <1>1
  <2> HIDE DEF C, P
  <2> QED
    BY <2>1
<1>7. ASSUME NEW g, Keeps(g) PROVE Body(g) \in [C -> SUBSET P] /\ Keeps(Body(g))
  <2>1. \A call \in C : call[1] \subseteq Body(g)[call] /\ Body(g)[call] \in SUBSET P
    BY <1>5, <1>7
  <2>2. Body(g) \in [C -> SUBSET P]
    <3>1. Body(g) = [call \in C |-> Body(g)[call]]
      BY DEF Body
    <3> QED
      BY <2>1, <3>1
  <2> QED
    BY <2>1, <2>2
<1> HIDE DEF Keeps, Widen
<1>8. \A f \in [C -> SUBSET P] : h[f] = Body(Widen(f))
  OBVIOUS
<1>9. h \in [[C -> SUBSET P] -> [C -> SUBSET P]]
  BY <1>6, <1>7
<1> HIDE DEF h
<1>10. \A call \in C : \A f, g \in [C -> SUBSET P] :
          (\A c \in C : left[c] < left[call] => f[c] = g[c]) => h[f][call] = h[g][call]
  <2> SUFFICES ASSUME NEW call \in C, NEW f \in [C -> SUBSET P], NEW g \in [C -> SUBSET P],
                      \A c \in C : left[c] < left[call] => f[c] = g[c]
               PROVE  h[f][call] = h[g][call]
    OBVIOUS
  <2>1. \A c \in C : left[c] < left[call] => Widen(f)[c] = Widen(g)[c]
    BY DEF Widen
  <2>2. Keeps(Widen(f)) /\ Keeps(Widen(g))
    BY <1>6
  <2>3. Body(Widen(f))[call] = Body(Widen(g))[call]
    BY <1>5, <2>1, <2>2
  <2> QED
    BY <1>8, <2>3
<1>11. Exists(h, C, SUBSET P)
  <2>1. SUBSET P # {}
    OBVIOUS
  <2>2. CallsSmaller(h, C, SUBSET P, left)
    <3> HIDE DEF C, P
    <3> QED
      BY <1>4, <1>9, <1>10, <2>1 DEF CallsSmaller
  <2> HIDE DEF C, P
  <2> QED
    BY <2>2, Recursion
<1>12. PICK g \in [C -> SUBSET P] : g = h[g]
  BY <1>11 DEF Exists
<1>13. g = Body(Widen(g))
  BY <1>8, <1>12
<1>14. Keeps(g)
  BY <1>6, <1>7, <1>13
<1>15. Widen(g) = g
  <2>1. \A call \in C : call[1] \cup g[call] = g[call]
    BY <1>14 DEF Keeps
  <2> QED
    BY <1>12, <2>1 DEF Widen
<1>16. g = Body(g)
  BY <1>13, <1>15
<1> QED
  BY <1>16 DEF Body

\* What every call of span_recursive makes of the visited pixels.
LEMMA SpanResult ==
  ASSUME NEW img, IsImage(img),
         NEW visited \in SUBSET Pixels(img), NEW i \in Pixels(img), NEW previous \in Int
  PROVE  Spanned(img, SpanRecursive(img)[<<visited, i, previous>>], visited, i, previous)
<1> DEFINE P == Pixels(img)
           Body(g) == [call \in Calls(img) |-> SpanBody(img, g, call[1], call[2], call[3])]
           span == CHOOSE g : g = Body(g)
           Good(v) == \A n \in P, p \in Int : Spanned(img, span[<<v, n, p>>], v, n, p)
           left(v) == Cardinality(P \ v)
           Bad == {left(v) : v \in {w \in SUBSET P : ~Good(w)}}
<1>1. SpanRecursive(img) = span
  BY DEF SpanRecursive, Calls
<1>2. span = Body(span)
  <2> HIDE DEF Body
  <2>1. \E g : g = Body(g)
    BY SpanExists DEF Body
  <2> QED
    BY <2>1
<1> HIDE DEF span
<1>3. ASSUME NEW v \in SUBSET P, NEW n \in P, NEW p \in Int
      PROVE  span[<<v, n, p>>] = SpanBody(img, span, v, n, p)
  <2> DEFINE next == <<v, n, p>>
  <2>1. next \in Calls(img) /\ next[1] = v /\ next[2] = n /\ next[3] = p
    BY DEF Calls
  <2> HIDE DEF next
  <2>2. Body(span)[next] = SpanBody(img, span, next[1], next[2], next[3])
    BY <2>1
  <2> HIDE DEF Body
  <2>3. span[next] = SpanBody(img, span, v, n, p)
    BY <1>2, <2>1, <2>2
  <2> QED
    BY <2>3 DEF next
<1>4. IsFiniteSet(P) /\ \A v \in SUBSET P : left(v) \in Nat
  <2>1. IsFiniteSet(P)
    BY ImageType
  <2>2. \A v \in SUBSET P : P \ v \in SUBSET P
    OBVIOUS
  <2> HIDE DEF P
  <2> QED
    BY <2>1, <2>2, FS_Subset, FS_CardinalityType
<1>5. Bad = {}
  <2> SUFFICES ASSUME Bad # {} PROVE FALSE
    OBVIOUS
  <2>1. PICK m \in Bad : \A k \in Bad : m <= k
    <3>1. Bad \in SUBSET Nat
      BY <1>4
    <3> HIDE DEF Bad
    <3> QED
      BY <3>1, Smallest
  <2>2. PICK v \in SUBSET P : left(v) = m /\ ~Good(v)
    BY <2>1
  <2>3. ASSUME NEW n \in P, NEW p \in Int
        PROVE  Spanned(img, span[<<v, n, p>>], v, n, p)
    <3>1. ASSUME NEW w \in SUBSET P, v \cup {n} \subseteq w, n \notin v PROVE Good(w)
      <4>1. P \ w \in SUBSET (P \ v) /\ P \ w # P \ v
        BY <3>1
      <4>2. IsFiniteSet(P \ v)
        BY <1>4, FS_Subset
      <4>3. left(w) < left(v) /\ left(w) \in Nat /\ left(v) \in Nat
        <5>1. left(w) \in Nat /\ left(v) \in Nat
          BY <1>4
        <5> HIDE DEF P
        <5>2. Cardinality(P \ w) <= Cardinality(P \ v) /\ Cardinality(P \ w) # Cardinality(P \ v)
          BY <4>1, <4>2, FS_Subset
        <5> QED
          BY <5>1, <5>2
      <4> HIDE DEF left, Good
      <4>4. left(w) \notin Bad
        <5> HIDE DEF Bad
        <5> QED
          BY <2>1, <2>2, <4>3
      <4> QED
        BY <3>1, <4>4
    <3>2. Spanned(img, SpanBody(img, span, v, n, p), v, n, p)
      BY <3>1, SpanStep
    <3> QED
      BY <1>3, <3>2
  <2> QED
    BY <2>2, <2>3
<1>6. Good(visited)
  <2> HIDE DEF Good, left
  <2> QED
    BY <1>5
<1> QED
  BY <1>1, <1>6

\* ContactsKeptApart for images of any size: of the pixels above the activation
\* threshold a cluster has those that are connected to its maxima by such pixels,
\* all of them and no others.
THEOREM ClustersApart == Spec => []ContactsKeptApart
<1>1. DetectorIInv => ContactsKeptApart
  <2> SUFFICES ASSUME DetectorIInv PROVE ContactsKeptApart
    OBVIOUS
  <2> DEFINE img == span_src
             H == Hot(img)
             hotter == [i \in H |-> Around(img, i) \cap H]
  <2>1. IsImage(img)
    BY DEF DetectorIInv
  <2>2. H \in SUBSET Pixels(img) /\ IsFiniteSet(H)
    <3>1. H \in SUBSET Pixels(img)
      BY DEF Hot
    <3> QED
      BY <2>1, <3>1, ImageType, FS_Subset
  <2>3. ASSUME NEW i \in Range(m_maximas)
        PROVE  Span(img, i) \cap H = Reach({i}, hotter)
    <3> DEFINE W == Span(img, i)
               R == Reach({i}, hotter)
    <3>1. i \in H /\ i \in Pixels(img) /\ img.at[i] \in Int /\ img.at[i] > ACTIVATION
      <4>1. i \in Pixels(m_blurred) /\ IsMaxima(m_blurred, i) /\ SameSize(img, m_blurred)
            /\ img.at[i] = m_blurred.at[i]
        BY DEF DetectorIInv
      <4>2. i \in Pixels(img) /\ img.at[i] > ACTIVATION
        BY <4>1 DEF IsMaxima, SameSize, Pixels
      <4> QED
        BY <2>1, <4>2, ImageType DEF Hot
    <3>2. Spanned(img, W, {}, i, img.at[i])
      <4>1. {} \in SUBSET Pixels(img)
        OBVIOUS
      <4> QED
        BY <2>1, <3>1, <4>1, SpanResult DEF Span
    <3> HIDE DEF W
    <3>3. /\ W \subseteq Pixels(img)
          /\ Blocked(img.at[i], img.at[i]) \/ i \in W
          /\ \A j \in W \cap H : Around(img, j) \cap H \subseteq W
          /\ \A T \in SUBSET H : Closed(img, T) /\ i \in T => W \cap H \subseteq T
      BY <3>2 DEF Spanned
    <3>4. i \in W
      BY <3>1, <3>3, ThresholdAssumption DEF Blocked
    <3>5. hotter \in [H -> SUBSET H] /\ {i} \in SUBSET H
      BY <3>1
    <3>6. /\ {i} \subseteq R /\ R \subseteq H /\ \A j \in R : hotter[j] \subseteq R
          /\ \A C \in SUBSET H : {i} \subseteq C /\ (\A j \in C : hotter[j] \subseteq C)
                 => R \subseteq C
      <4> HIDE DEF H, hotter
      <4> QED
        BY <2>2, <3>5, ReachLeast
    <3> HIDE DEF R
    <3>7. W \cap H \subseteq R
      <4>1. \A j \in R : Around(img, j) \cap H \subseteq R
        BY <3>6
      <4>2. R \in SUBSET H /\ Closed(img, R) /\ i \in R
        BY <3>6, <4>1 DEF Closed
      <4> QED
        BY <3>3, <4>2
    <3>8. R \subseteq W \cap H
      <4>1. \A j \in W \cap H : hotter[j] \subseteq W \cap H
        BY <3>3
      <4>2. W \cap H \in SUBSET H /\ {i} \subseteq W \cap H
        BY <3>1, <3>4
      <4> HIDE DEF H, hotter
      <4> QED
        BY <3>6, <4>1, <4>2
    <3> QED
      BY <3>7, <3>8 DEF W, R
  <2> QED
    BY <2>3 DEF ContactsKeptApart, Hot
<1> QED
  BY <1>1, DetectorInductive, PTL

-----------------------------------------------------------------------------
(* Boxes.                                                                  *)

\* The least and the greatest of some of the first n numbers.
LEMMA Bounds ==
  ASSUME NEW n \in Nat, NEW T \in SUBSET (0 .. n - 1), T # {}
  PROVE  /\ Min(T) \in 0 .. n - 1 /\ Max(T) \in 0 .. n - 1
         /\ \A y \in T : Min(T) <= y /\ y <= Max(T)
<1>1. T \in SUBSET Nat /\ IsFiniteSet(T)
  <2>1. IsFiniteSet(0 .. n - 1)
    BY FS_Interval
  <2>2. IsFiniteSet(T)
    BY <2>1, FS_Subset
  <2> QED
    BY <2>2
<1>2. Max(T) \in T /\ \A y \in T : Max(T) >= y
  BY <1>1, Largest
<1>3. Min(T) \in T /\ \A y \in T : Min(T) <= y
  <2>1. \E x \in T : \A y \in T : x <= y
    BY <1>1, Smallest
  <2> QED
    BY <2>1 DEF Min
<1> QED
  BY <1>1, <1>2, <1>3

\* A box that does not leave an image.
InBounds(b, img) ==
    /\ b \in [top : Nat, bottom : Nat, left : Nat, right : Nat]
    /\ b.top <= b.bottom /\ b.bottom < img.rows
    /\ b.left <= b.right /\ b.right < img.cols

\* The boxes a contact can be fitted into, and lists of them.
Fitting(img) ==
    {b \in [top : Nat, bottom : Nat, left : Nat, right : Nat] :
        /\ b.top + 2 <= b.bottom /\ b.bottom < img.rows
        /\ b.left + 2 <= b.right /\ b.right < img.cols}

Lists(img) == UNION {[1 .. n -> Fitting(img)] : n \in Nat}

LEMMA BoxInBounds ==
  ASSUME NEW img, IsImage(img), NEW S \in SUBSET Pixels(img), S # {}
  PROVE  InBounds(Box(img, S), img)
<1> DEFINE ys == {Row(img, i) : i \in S}
           xs == {Col(img, i) : i \in S}
<1>1. img.rows \in Nat /\ img.cols \in Nat
  BY ImageType
<1>2. ys \in SUBSET (0 .. img.rows - 1) /\ ys # {} /\ xs \in SUBSET (0 .. img.cols - 1) /\ xs # {}
  BY Between
<1>3. Box(img, S) = [top |-> Min(ys), bottom |-> Max(ys), left |-> Min(xs), right |-> Max(xs)]
  BY DEF Box
<1> HIDE DEF ys, xs
<1>4. /\ Min(ys) \in 0 .. img.rows - 1 /\ Max(ys) \in 0 .. img.rows - 1 /\ Min(ys) <= Max(ys)
      /\ Min(xs) \in 0 .. img.cols - 1 /\ Max(xs) \in 0 .. img.cols - 1 /\ Min(xs) <= Max(xs)
  <2>1. /\ Min(ys) \in 0 .. img.rows - 1 /\ Max(ys) \in 0 .. img.rows - 1
        /\ \A y \in ys : Min(ys) <= y /\ y <= Max(ys)
    BY <1>1, <1>2, Bounds
  <2>2. /\ Min(xs) \in 0 .. img.cols - 1 /\ Max(xs) \in 0 .. img.cols - 1
        /\ \A x \in xs : Min(xs) <= x /\ x <= Max(xs)
    BY <1>1, <1>2, Bounds
  <2>3. PICK y \in ys, x \in xs : TRUE
    BY <1>2
  <2>4. y \in Nat /\ x \in Nat
    BY <1>2, <2>3
  <2> QED
    BY <1>1, <2>1, <2>2, <2>3, <2>4
<1> QED
  BY <1>1, <1>3, <1>4 DEF InBounds

LEMMA ExtendedInBounds ==
  ASSUME NEW img, IsImage(img), NEW b, InBounds(b, img)
  PROVE  InBounds(Extended(img, b), img)
<1>1. img.rows \in Nat /\ img.cols \in Nat
  BY ImageType
<1>2. /\ b.top \in Nat /\ b.bottom \in Nat /\ b.left \in Nat /\ b.right \in Nat
      /\ b.top <= b.bottom /\ b.bottom < img.rows /\ b.left <= b.right /\ b.right < img.cols
  BY DEF InBounds
<1>3. ASSUME NEW v \in Nat
      PROVE  Max({v - 1, 0}) \in Nat /\ Max({v - 1, 0}) <= v
  <2>1. \E x \in {v - 1, 0} : \A y \in {v - 1, 0} : x >= y
    <3>1. CASE v = 0
      BY <3>1
    <3>2. CASE v # 0
      BY <3>2
    <3> QED
      BY <3>1, <3>2
  <2>2. Max({v - 1, 0}) \in {v - 1, 0} /\ Max({v - 1, 0}) >= 0
    BY <2>1 DEF Max
  <2> QED
    BY <2>2
<1>4. ASSUME NEW v \in Nat, NEW n \in Nat, v < n
      PROVE  Min({v + 1, n - 1}) \in v .. n - 1
  <2>1. \E x \in {v + 1, n - 1} : \A y \in {v + 1, n - 1} : x =< y
    <3>1. CASE v + 1 <= n - 1
      BY <1>4, <3>1
    <3>2. CASE ~(v + 1 <= n - 1)
      BY <1>4, <3>2
    <3> QED
      BY <3>1, <3>2
  <2>2. Min({v + 1, n - 1}) \in {v + 1, n - 1} /\ Min({v + 1, n - 1}) =< n - 1
    BY <2>1 DEF Min
  <2> QED
    BY <1>4, <2>2
<1> DEFINE t == Max({b.top - 1, 0})
           u == Min({b.bottom + 1, img.rows - 1})
           l == Max({b.left - 1, 0})
           r == Min({b.right + 1, img.cols - 1})
<1>5. /\ t \in Nat /\ t <= b.top /\ l \in Nat /\ l <= b.left
      /\ u \in b.bottom .. img.rows - 1 /\ r \in b.right .. img.cols - 1
  BY <1>1, <1>2, <1>3, <1>4
<1>6. Extended(img, b) = [top |-> t, bottom |-> u, left |-> l, right |-> r]
  BY DEF Extended
<1> HIDE DEF t, u, l, r
<1> QED
  BY <1>1, <1>2, <1>5, <1>6 DEF InBounds

\* The box around some of those a contact can be fitted into is one, too.
LEMMA MergedFits ==
  ASSUME NEW img, IsImage(img), NEW B \in SUBSET Fitting(img), B # {}
  PROVE  Merged(B) \in Fitting(img)
<1> DEFINE ts == {b.top : b \in B}
           us == {b.bottom : b \in B}
           ls == {b.left : b \in B}
           rs == {b.right : b \in B}
<1>1. img.rows \in Nat /\ img.cols \in Nat
  BY ImageType
<1>2. \A b \in B :
          /\ b.top \in 0 .. img.rows - 1 /\ b.bottom \in 0 .. img.rows - 1
          /\ b.left \in 0 .. img.cols - 1 /\ b.right \in 0 .. img.cols - 1
          /\ b.top + 2 <= b.bottom /\ b.left + 2 <= b.right
  BY <1>1 DEF Fitting
<1>3. PICK b \in B : TRUE
  OBVIOUS
<1>4. /\ ts \in SUBSET (0 .. img.rows - 1) /\ us \in SUBSET (0 .. img.rows - 1)
      /\ ls \in SUBSET (0 .. img.cols - 1) /\ rs \in SUBSET (0 .. img.cols - 1)
      /\ b.top \in ts /\ b.bottom \in us /\ b.left \in ls /\ b.right \in rs
  BY <1>2, <1>3
<1>5. Merged(B) = [top |-> Min(ts), bottom |-> Max(us), left |-> Min(ls), right |-> Max(rs)]
  BY DEF Merged
<1> HIDE DEF ts, us, ls, rs
<1>6. /\ Min(ts) \in 0 .. img.rows - 1 /\ Min(ts) <= b.top
      /\ Max(us) \in 0 .. img.rows - 1 /\ b.bottom <= Max(us)
  BY <1>1, <1>4, Bounds
<1>7. /\ Min(ls) \in 0 .. img.cols - 1 /\ Min(ls) <= b.left
      /\ Max(rs) \in 0 .. img.cols - 1 /\ b.right <= Max(rs)
  BY <1>1, <1>4, Bounds
<1>8. /\ Min(ts) \in Nat /\ Max(us) \in Nat /\ Min(ts) + 2 <= Max(us) /\ Max(us) < img.rows
      /\ Min(ls) \in Nat /\ Max(rs) \in Nat /\ Min(ls) + 2 <= Max(rs) /\ Max(rs) < img.cols
  BY <1>1, <1>2, <1>3, <1>6, <1>7
<1> QED
  BY <1>5, <1>8 DEF Fitting

\* A number of a list of numbers in order.
LEMMA InOrderMember ==
  ASSUME NEW S \in SUBSET Nat, IsFiniteSet(S)
  PROVE  /\ Cardinality(S) \in Nat /\ DOMAIN InOrder(S) = 1 .. Cardinality(S)
         /\ \A k \in DOMAIN InOrder(S) : InOrder(S)[k] \in S
<1>1. Cardinality(S) \in Nat /\ DOMAIN InOrder(S) = 1 .. Cardinality(S)
  BY FS_CardinalityType DEF InOrder
<1>2. \A k \in DOMAIN InOrder(S) : InOrder(S)[k] \in Range(InOrder(S))
  BY DEF Range
<1> QED
  BY <1>1, <1>2, InOrderRange

\* A cluster holds its maxima, so it is a box; those too small are left out.
LEMMA SpanClustersFit ==
  ASSUME NEW img, IsImage(img), NEW maximas, IsList(maximas), Range(maximas) \subseteq Hot(img)
  PROVE  SpanClusters(img, maximas) \in Lists(img)
<1> DEFINE box(n) == Extended(img, Box(img, Span(img, maximas[n])))
           boxes == [n \in DOMAIN maximas |-> box(n)]
           Large == {n \in DOMAIN boxes : Width(boxes[n]) >= 3 /\ Height(boxes[n]) >= 3}
           large == InOrder(Large)
<1>1. PICK m \in Nat : DOMAIN maximas = 1 .. m
  BY DEF IsList
<1>2. ASSUME NEW n \in DOMAIN maximas PROVE InBounds(box(n), img)
  <2> DEFINE i == maximas[n]
  <2>1. i \in Hot(img) /\ i \in Pixels(img) /\ img.at[i] \in Int /\ img.at[i] > ACTIVATION
    <3>1. i \in Range(maximas)
      BY DEF Range
    <3> QED
      BY <3>1, ImageType DEF Hot
  <2> HIDE DEF i
  <2>2. Spanned(img, Span(img, i), {}, i, img.at[i])
    <3>1. {} \in SUBSET Pixels(img)
      OBVIOUS
    <3> QED
      BY <2>1, <3>1, SpanResult DEF Span
  <2>3. ~Blocked(img.at[i], img.at[i])
    BY <2>1, ThresholdAssumption DEF Blocked
  <2>4. Span(img, i) \in SUBSET Pixels(img) /\ Span(img, i) # {}
    BY <2>2, <2>3 DEF Spanned
  <2>5. InBounds(Box(img, Span(img, i)), img)
    BY <2>4, BoxInBounds
  <2> QED
    BY <2>5, ExtendedInBounds DEF i
<1> HIDE DEF box
<1>3. Large \in SUBSET (1 .. m)
  BY <1>1
<1>4. Large \in SUBSET Nat /\ IsFiniteSet(Large)
  <2> HIDE DEF Large
  <2>1. IsFiniteSet(1 .. m)
    BY FS_Interval
  <2>2. IsFiniteSet(Large)
    BY <1>3, <2>1, FS_Subset
  <2> QED
    BY <1>3, <2>2
<1>5. ASSUME NEW n \in Large PROVE boxes[n] \in Fitting(img)
  <2>1. boxes[n] = box(n) /\ InBounds(box(n), img) /\ Width(box(n)) >= 3 /\ Height(box(n)) >= 3
    BY <1>2
  <2> QED
    BY <2>1 DEF InBounds, Fitting, Width, Height
<1>6. SpanClusters(img, maximas) = [n \in DOMAIN large |-> boxes[large[n]]]
  BY DEF SpanClusters, box
<1> HIDE DEF boxes, Large
<1>7. /\ Cardinality(Large) \in Nat /\ DOMAIN large = 1 .. Cardinality(Large)
      /\ \A n \in DOMAIN large : large[n] \in Large
  BY <1>4, InOrderMember
<1> HIDE DEF large
<1>8. SpanClusters(img, maximas) \in [1 .. Cardinality(Large) -> Fitting(img)]
  BY <1>5, <1>6, <1>7
<1> QED
  BY <1>7, <1>8 DEF Lists

LEMMA MergeOnceFits ==
  ASSUME NEW img, IsImage(img), NEW clusters \in Lists(img)
  PROVE  MergeOnce(clusters) \in Lists(img)
<1> DEFINE After(i) == {j \in DOMAIN clusters : i < j /\ Overlap(clusters[i], clusters[j])}
           Some(i) == {clusters[j] : j \in {i} \cup After(i)}
           Kept == {j \in DOMAIN clusters : \A i \in DOMAIN clusters : j \notin After(i)}
           kept == InOrder(Kept)
<1>1. PICK m \in Nat : clusters \in [1 .. m -> Fitting(img)]
  BY DEF Lists
<1>2. ASSUME NEW i \in 1 .. m PROVE Merged(Some(i)) \in Fitting(img)
  <2>1. Some(i) \in SUBSET Fitting(img) /\ Some(i) # {}
    BY <1>1
  <2> HIDE DEF Some
  <2> QED
    BY <2>1, MergedFits
<1>3. Kept \in SUBSET (1 .. m)
  BY <1>1
<1>4. MergeOnce(clusters) = [n \in DOMAIN kept |-> Merged(Some(kept[n]))]
  BY DEF MergeOnce
<1> HIDE DEF Some, Kept
<1>5. Kept \in SUBSET Nat /\ IsFiniteSet(Kept)
  <2>1. IsFiniteSet(1 .. m)
    BY FS_Interval
  <2>2. IsFiniteSet(Kept)
    BY <1>3, <2>1, FS_Subset
  <2> QED
    BY <1>3, <2>2
<1>6. /\ Cardinality(Kept) \in Nat /\ DOMAIN kept = 1 .. Cardinality(Kept)
      /\ \A n \in DOMAIN kept : kept[n] \in Kept
  BY <1>5, InOrderMember
<1> HIDE DEF kept
<1>7. MergeOnce(clusters) \in [1 .. Cardinality(Kept) -> Fitting(img)]
  BY <1>2, <1>3, <1>4, <1>6
<1> QED
  BY <1>6, <1>7 DEF Lists

LEMMA MergeFits ==
  ASSUME NEW img, IsImage(img), NEW clusters \in Lists(img)
  PROVE  Merge(clusters) \in Lists(img)
<1> DEFINE S == 0 .. ITERATIONS
           V == Lists(img)
           Body(f) == [n \in S |-> IF n = 0 THEN clusters ELSE MergeOnce(f[n - 1])]
           merged == CHOOSE f : f = Body(f)
           h == [f \in [S -> V] |-> Body(f)]
           size == [n \in S |-> n]
<1>1. ITERATIONS \in Nat /\ \A n \in S : n \in Nat /\ (n # 0 => n - 1 \in S /\ n - 1 < n)
  BY CountAssumption
<1>2. \A c \in V : MergeOnce(c) \in V
  BY MergeOnceFits
<1> HIDE DEF V, S
<1>3. ASSUME NEW f \in [S -> V] PROVE Body(f) \in [S -> V]
  <2>1. ASSUME NEW n \in S PROVE Body(f)[n] \in V
    <3>1. CASE n = 0
      BY <3>1 DEF V
    <3>2. CASE n # 0
      <4>1. f[n - 1] \in V
        BY <1>1, <3>2
      <4> QED
        BY <1>2, <3>2, <4>1
    <3> QED
      BY <3>1, <3>2
  <2> QED
    BY <2>1
<1>4. \E f : f = Body(f)
  <2>1. h \in [[S -> V] -> [S -> V]]
    <3> HIDE DEF Body
    <3> QED
      BY <1>3
  <2>2. ASSUME NEW n \in S, NEW f \in [S -> V], NEW g \in [S -> V],
               \A k \in S : size[k] < size[n] => f[k] = g[k]
        PROVE  h[f][n] = h[g][n]
    <3>1. h[f] = Body(f) /\ h[g] = Body(g)
      OBVIOUS
    <3>2. n # 0 => f[n - 1] = g[n - 1]
      BY <1>1, <2>2
    <3> HIDE DEF h
    <3> QED
      BY <3>1, <3>2
  <2>3. size \in [S -> Nat] /\ V # {}
    BY <1>1 DEF V
  <2> HIDE DEF h, size, Body
  <2>4. \A n \in S : \A f, g \in [S -> V] :
           (\A k \in S : size[k] < size[n] => f[k] = g[k]) => h[f][n] = h[g][n]
    BY <2>2
  <2>5. CallsSmaller(h, S, V, size)
    BY <2>1, <2>3, <2>4 DEF CallsSmaller
  <2>6. Exists(h, S, V)
    BY <2>5, Recursion
  <2>7. PICK f \in [S -> V] : f = h[f]
    BY <2>6 DEF Exists
  <2> QED
    BY <2>7 DEF h
<1>5. merged = Body(merged)
  <2> HIDE DEF Body
  <2> QED
    BY <1>4
<1>6. Merge(clusters) = merged[ITERATIONS]
  BY DEF Merge, S
<1> HIDE DEF merged
<1>7. \A n \in S : merged[n] \in V
  <2> DEFINE Bad == {n \in S : merged[n] \notin V}
  <2> SUFFICES ASSUME Bad # {} PROVE FALSE
    OBVIOUS
  <2>1. PICK n \in Bad : \A k \in Bad : n <= k
    <3>1. Bad \in SUBSET Nat
      BY <1>1
    <3> HIDE DEF Bad
    <3> QED
      BY <3>1, Smallest
  <2>2. n \in S /\ merged[n] \notin V
    BY <2>1
  <2>3. merged[n] = IF n = 0 THEN clusters ELSE MergeOnce(merged[n - 1])
    BY <1>5, <2>2
  <2>4. n # 0
    BY <2>2, <2>3 DEF V
  <2>5. n - 1 \in S /\ n - 1 < n /\ n \in Nat
    BY <1>1, <2>2, <2>4
  <2>6. n - 1 \notin Bad
    <3> HIDE DEF Bad
    <3> QED
      BY <2>1, <2>5
  <2>7. merged[n - 1] \in V
    BY <2>5, <2>6
  <2> QED
    BY <1>2, <2>2, <2>3, <2>4, <2>7
<1>8. ITERATIONS \in S
  BY <1>1 DEF S
<1> QED
  BY <1>6, <1>7, <1>8 DEF V

\* The invariant with the clusters.
ClusterIInv ==
    /\ DetectorIInv
    /\ spanned \in Lists(m_heatmap) /\ m_clusters \in Lists(m_heatmap)

LEMMA InitClusterIInv == Init => ClusterIInv
<1> SUFFICES ASSUME Init PROVE ClusterIInv
  OBVIOUS
<1>1. <<>> \in [1 .. 0 -> Fitting(m_heatmap)]
  OBVIOUS
<1>2. <<>> \in Lists(m_heatmap)
  BY <1>1 DEF Lists
<1> QED
  BY <1>2, InitDetectorIInv DEF ClusterIInv, Init

LEMMA NextClusterIInv == ClusterIInv /\ [Next]_vars => ClusterIInv'
<1> SUFFICES ASSUME ClusterIInv, [Next]_vars PROVE ClusterIInv'
  OBVIOUS
<1>1. DetectorIInv /\ DetectorIInv'
  BY NextDetectorIInv DEF ClusterIInv
<1>2. CASE Next
  <2>1. PICK data \in Backgrounds \cup Heatmaps : ProcessTouch(data)
    BY <1>2 DEF Next, Frame
  <2>2. spanned' = SpanClusters(span_src', m_maximas') /\ m_clusters' = Merge(spanned')
    BY <2>1 DEF ProcessTouch, Detect
  <2>3. /\ IsImage(span_src') /\ IsList(m_maximas')
        /\ SameSize(m_blurred', m_heatmap') /\ SameSize(span_src', m_blurred')
        /\ \A i \in Range(m_maximas') :
               i \in Pixels(m_blurred') /\ IsMaxima(m_blurred', i) /\ span_src'.at[i] = m_blurred'.at[i]
    <3>1. IsImage(span_src') /\ IsList(m_maximas')
      BY <1>1 DEF DetectorIInv, IsImage, IsList, Pixels
    <3>2. SameSize(m_blurred', m_heatmap') /\ SameSize(span_src', m_blurred')
      BY <1>1 DEF DetectorIInv, SameSize
    <3>3. /\ Range(m_maximas') = {i \in Pixels(m_blurred') : IsMaxima(m_blurred', i)}
          /\ \A i \in Range(m_maximas') : span_src'.at[i] = m_blurred'.at[i]
      BY <1>1 DEF DetectorIInv, Pixels, IsMaxima, InImage, Row, Col, Range
    <3> QED
      BY <3>1, <3>2, <3>3
  <2>4. Range(m_maximas') \subseteq Hot(span_src')
    BY <2>3 DEF IsMaxima, Hot, SameSize, Pixels
  <2>5. spanned' \in Lists(span_src')
    BY <2>2, <2>3, <2>4, SpanClustersFit
  <2>6. m_clusters' \in Lists(span_src')
    BY <2>2, <2>3, <2>5, MergeFits
  <2>7. Lists(span_src') = Lists(m_heatmap')
    BY <2>3 DEF Lists, Fitting, SameSize
  <2>8. (spanned \in Lists(m_heatmap))' /\ (m_clusters \in Lists(m_heatmap))'
    BY <2>5, <2>6, <2>7 DEF Lists, Fitting
  <2> QED
    BY <1>1, <2>8 DEF ClusterIInv
<1>3. CASE UNCHANGED vars
  <2>1. m_heatmap' = m_heatmap /\ spanned' = spanned /\ m_clusters' = m_clusters
    BY <1>3 DEF vars
  <2>2. (spanned \in Lists(m_heatmap))' /\ (m_clusters \in Lists(m_heatmap))'
    BY <2>1 DEF ClusterIInv, Lists, Fitting
  <2> QED
    BY <1>1, <2>2 DEF ClusterIInv
<1> QED
  BY <1>2, <1>3

\* TypeOK for heatmaps of any size: however the clusters of a frame are extended and
\* merged, each stays inside the heatmap and has the 3x3 pixels a contact needs.
THEOREM TypeCorrect == Spec => []TypeOK
<1>1. ClusterIInv => TypeOK
  <2> SUFFICES ASSUME ClusterIInv PROVE TypeOK
    OBVIOUS
  <2>1. DetectorIInv
    BY DEF ClusterIInv
  <2>2. IsImage(m_heatmap) /\ SameSize(m_blurred, m_heatmap)
    BY <2>1 DEF DetectorIInv
  <2>3. m_heatmap.at \in [Pixels(m_heatmap) -> Int]
    BY <2>2, ImageType
  <2>4. Pixels(m_blurred) = Pixels(m_heatmap)
    BY <2>2 DEF SameSize, Pixels
  <2>5. /\ {m_blurred.at, span_src.at} \subseteq [Pixels(m_heatmap) -> Nat]
        /\ Range(m_maximas) \subseteq Pixels(m_heatmap)
    BY <2>1, <2>4 DEF DetectorIInv
  <2>6. \A c \in Range(spanned) \cup Range(m_clusters) : c \in Fitting(m_heatmap)
    BY DEF ClusterIInv, Lists, Range
  <2>7. \A c \in Range(spanned) \cup Range(m_clusters) :
            /\ 0 <= c.top /\ c.top + 2 <= c.bottom /\ c.bottom < m_heatmap.rows
            /\ 0 <= c.left /\ c.left + 2 <= c.right /\ c.right < m_heatmap.cols
    BY <2>6 DEF Fitting
  <2> QED
    BY <2>1, <2>3, <2>5, <2>7 DEF TypeOK, DetectorIInv
<1>2. ClusterIInv /\ [Next]_vars => ClusterIInv'
  BY NextClusterIInv
<1> QED
  BY <1>1, <1>2, InitClusterIInv, PTL DEF Spec
=============================================================================
